---------------------------- MODULE LayersProofs ----------------------------
(***************************************************************************)
(* The layer stack, the screen and the mouse, for any display, any number  *)
(* of windows of any size and any moves.                                   *)
(***************************************************************************)
EXTENDS Layers, SequenceTheorems, FiniteSetTheorems, TLAPS

D == INSTANCE DeltaListProofs

Number    == Len(layer_stack)
Rectangle == [x : Int, y : Int, w : Int, h : Int]
Layer     == [x : Int, y : Int, w : Int, h : Int, prev : Rectangle]
Mouse     == layers[MOUSE_LAYER_ID]

\* A stack of the layers 0 .. n - 1: the desktop at the bottom, the cursor on top.
IsStack(s, n) ==
    /\ n \in Nat /\ n >= 2
    /\ s \in Seq(Nat) /\ Len(s) = n
    /\ \A i \in 1 .. n : s[i] \in 0 .. n - 1
    /\ \A i, j \in 1 .. n : s[i] = s[j] => i = j
    /\ \A id \in 0 .. n - 1 : \E i \in 1 .. n : s[i] = id
    /\ s[1] = DESKTOP_LAYER_ID
    /\ s[n] = MOUSE_LAYER_ID

\* The layers of the stack are the layers there are.
StackInv ==
    /\ IsStack(layer_stack, Number)
    /\ layers \in [0 .. Number - 1 -> Layer]
    /\ frame \in [0 .. Number - 1 -> Int]
    /\ pressed \in [id : 0 .. Number - 1, x : Int, y : Int]
    /\ clicks \in Nat /\ rels \in Nat /\ missed \in BOOLEAN

\* Where the layers are and were drawn.
PlaceInv ==
    /\ Now(layers[DESKTOP_LAYER_ID]) = Rect(0, 0, Width, Height)
    /\ \A id \in Windows : layers[id].prev = Now(layers[id])
    /\ Mouse.x <= Width /\ Mouse.y <= Height
    /\ frame[MOUSE_LAYER_ID] = 0
    /\ rels = 0 => Mouse.prev \in {Now(Mouse), Rect(0, 0, 0, 0)}

\* A window that is held by the button is held right of and below its corner.
HeldInv ==
    /\ ~missed /\ clicks % 2 = 1 /\ pressed.id \in Windows =>
            layers[pressed.id].x < pressed.x /\ layers[pressed.id].y < pressed.y

\* Layer id has a pixel at px.
Covers(ls, id, px) == InRect(px, Now(ls[id])) /\ Opaque(ls, id, px)

\* Layer id is the topmost one at px below the cursor.
Ground(ls, s, n, id, px) ==
    \E i \in 1 .. n - 1 : /\ s[i] = id /\ Covers(ls, id, px)
                          /\ \A j \in i + 1 .. n - 1 : ~Covers(ls, s[j], px)

\* The pixels of the cursor where update() noted it.
CursorNoted ==
    {px \in Display : InRect(px, Mouse.prev) /\ <<px[1] - Mouse.prev.x, px[2] - Mouse.prev.y>> \in MouseShape}

\* The screen shows the composition of the layers below the cursor, or the cursor,
\* which is nowhere but where it was noted and on the trail.
ScreenInv ==
    /\ \A px \in Display :
          \/ screen[px] = CursorPixel /\ px \in trail \cup CursorNoted
          \/ \E id \in DOMAIN layers : Ground(layers, layer_stack, Number, id, px) /\ screen[px] = Pixel(layers, frame, id, px)
    /\ rels = 0 => \A px \in CursorAt(layers) : screen[px] = CursorPixel

LayersInv == StackInv /\ PlaceInv /\ HeldInv /\ ScreenInv

-----------------------------------------------------------------------------
(***************************************************************************)
(* The stack.                                                              *)
(***************************************************************************)

LEMMA SubSeqElements ==
    ASSUME NEW S, NEW s \in Seq(S), NEW i \in 1 .. Len(s) + 1, NEW j \in i - 1 .. Len(s)
    PROVE  /\ SubSeq(s, i, j) \in Seq(S) /\ Len(SubSeq(s, i, j)) = j - i + 1
           /\ \A k \in 1 .. j - i + 1 : SubSeq(s, i, j)[k] = s[i + k - 1]
OBVIOUS

LEMMA RemoveAtElements ==
    ASSUME NEW S, NEW s \in Seq(S), NEW i \in 1 .. Len(s)
    PROVE  /\ RemoveAt(s, i) \in Seq(S) /\ Len(RemoveAt(s, i)) = Len(s) - 1
           /\ \A j \in 1 .. Len(s) - 1 : RemoveAt(s, i)[j] = IF j < i THEN s[j] ELSE s[j + 1]
<1> DEFINE a == SubSeq(s, 1, i - 1)
<1> DEFINE b == SubSeq(s, i + 1, Len(s))
<1>1. Len(s) \in Nat /\ 1 \in 1 .. Len(s) + 1 /\ i - 1 \in 1 - 1 .. Len(s) /\ i + 1 \in 1 .. Len(s) + 1
      /\ Len(s) \in (i + 1) - 1 .. Len(s)
  OBVIOUS
<1>2. a \in Seq(S) /\ Len(a) = (i - 1) - 1 + 1 /\ \A k \in 1 .. (i - 1) - 1 + 1 : a[k] = s[1 + k - 1]
  BY <1>1, SubSeqElements
<1>3. b \in Seq(S) /\ Len(b) = Len(s) - (i + 1) + 1 /\ \A k \in 1 .. Len(s) - (i + 1) + 1 : b[k] = s[(i + 1) + k - 1]
  BY <1>1, SubSeqElements
<1>4. RemoveAt(s, i) = a \o b
  BY DEF RemoveAt
<1> HIDE DEF a, b
<1>5. Len(a) = i - 1 /\ Len(b) = Len(s) - i
  BY <1>1, <1>2, <1>3
<1>6. /\ a \o b \in Seq(S) /\ Len(a \o b) = Len(a) + Len(b)
      /\ \A k \in 1 .. Len(a) + Len(b) : (a \o b)[k] = IF k <= Len(a) THEN a[k] ELSE b[k - Len(a)]
  BY <1>2, <1>3, ConcatProperties
<1>7. Len(a) + Len(b) = Len(s) - 1
  BY <1>1, <1>5
<1>8. ASSUME NEW j \in 1 .. Len(s) - 1 PROVE (a \o b)[j] = IF j < i THEN s[j] ELSE s[j + 1]
  <2>1. (a \o b)[j] = IF j <= i - 1 THEN a[j] ELSE b[j - (i - 1)]
    BY <1>5, <1>6, <1>7
  <2>2. CASE j < i
    <3>1. j <= i - 1 /\ j \in 1 .. (i - 1) - 1 + 1 /\ 1 + j - 1 = j
      BY <2>2, <1>1
    <3> QED BY <3>1, <2>1, <2>2, <1>2
  <2>3. CASE ~(j < i)
    <3>1. ~(j <= i - 1) /\ j - (i - 1) \in 1 .. Len(s) - (i + 1) + 1 /\ (i + 1) + (j - (i - 1)) - 1 = j + 1
      BY <2>3, <1>1
    <3> QED BY <3>1, <2>1, <2>3, <1>3
  <2> QED BY <2>2, <2>3
<1> QED BY <1>4, <1>6, <1>7, <1>8

LEMMA InsertAtElements ==
    ASSUME NEW S, NEW s \in Seq(S), NEW i \in 1 .. Len(s) + 1, NEW e \in S
    PROVE  /\ InsertAt(s, i, e) \in Seq(S) /\ Len(InsertAt(s, i, e)) = Len(s) + 1
           /\ \A j \in 1 .. Len(s) + 1 :
                 /\ j < i => InsertAt(s, i, e)[j] = s[j]
                 /\ j = i => InsertAt(s, i, e)[j] = e
                 /\ j > i => InsertAt(s, i, e)[j] = s[j - 1]
<1> DEFINE a == SubSeq(s, 1, i - 1)
<1> DEFINE b == SubSeq(s, i, Len(s))
<1>1. Len(s) \in Nat /\ 1 \in 1 .. Len(s) + 1 /\ i - 1 \in 1 - 1 .. Len(s) /\ Len(s) \in i - 1 .. Len(s)
  OBVIOUS
<1>2. a \in Seq(S) /\ Len(a) = (i - 1) - 1 + 1 /\ \A k \in 1 .. (i - 1) - 1 + 1 : a[k] = s[1 + k - 1]
  BY <1>1, SubSeqElements
<1>3. b \in Seq(S) /\ Len(b) = Len(s) - i + 1 /\ \A k \in 1 .. Len(s) - i + 1 : b[k] = s[i + k - 1]
  BY <1>1, SubSeqElements
<1>4. InsertAt(s, i, e) = (a \o <<e>>) \o b
  BY DEF InsertAt
<1> HIDE DEF a, b
<1> DEFINE c == a \o <<e>>
<1>5. <<e>> \in Seq(S) /\ Len(<<e>>) = 1 /\ <<e>>[1] = e
  OBVIOUS
<1>6. /\ c \in Seq(S) /\ Len(c) = Len(a) + Len(<<e>>)
      /\ \A k \in 1 .. Len(a) + Len(<<e>>) : c[k] = IF k <= Len(a) THEN a[k] ELSE <<e>>[k - Len(a)]
  BY <1>2, <1>5, ConcatProperties
<1>7. InsertAt(s, i, e) = c \o b
  BY <1>4
<1> HIDE DEF c
<1>8. Len(a) = i - 1 /\ Len(c) = i /\ Len(b) = Len(s) - i + 1
  BY <1>1, <1>2, <1>3, <1>5, <1>6
<1>9. c[i] = e /\ \A k \in 1 .. i - 1 : c[k] = s[k]
  <2>1. i \in 1 .. Len(a) + Len(<<e>>) /\ ~(i <= Len(a)) /\ i - Len(a) = 1
    BY <1>1, <1>5, <1>8
  <2>2. \A k \in 1 .. i - 1 : k \in 1 .. Len(a) + Len(<<e>>) /\ k <= Len(a) /\ k \in 1 .. (i - 1) - 1 + 1 /\ 1 + k - 1 = k
    BY <1>1, <1>5, <1>8
  <2> QED BY <2>1, <2>2, <1>2, <1>5, <1>6
<1>10. /\ c \o b \in Seq(S) /\ Len(c \o b) = Len(c) + Len(b)
       /\ \A k \in 1 .. Len(c) + Len(b) : (c \o b)[k] = IF k <= Len(c) THEN c[k] ELSE b[k - Len(c)]
  <2>1. c \in Seq(S) /\ b \in Seq(S)
    BY <1>3, <1>6
  <2> QED BY <2>1, ConcatProperties
<1>11. Len(c) + Len(b) = Len(s) + 1
  BY <1>1, <1>8
<1>12. \A j \in 1 .. Len(s) + 1 : (c \o b)[j] = IF j <= i THEN c[j] ELSE b[j - i]
  BY <1>8, <1>10, <1>11
<1>13. ASSUME NEW j \in 1 .. Len(s) + 1, j < i PROVE (c \o b)[j] = s[j]
  <2>1. j \in 1 .. i - 1 /\ j <= i
    BY <1>1, <1>13
  <2> QED BY <2>1, <1>9, <1>12
<1>14. (c \o b)[i] = e
  <2>1. i \in 1 .. Len(s) + 1 /\ i <= i
    BY <1>1
  <2>2. (c \o b)[i] = c[i]
    BY <2>1, <1>12, Zenon
  <2> QED BY <2>2, <1>9, Zenon
<1>15. ASSUME NEW j \in 1 .. Len(s) + 1, j > i PROVE (c \o b)[j] = s[j - 1]
  <2>1. ~(j <= i) /\ j - i \in 1 .. Len(s) - i + 1 /\ i + (j - i) - 1 = j - 1
    BY <1>1, <1>15
  <2>2. (c \o b)[j] = b[j - i]
    BY <2>1, <1>12
  <2> QED BY <2>1, <2>2, <1>3
<1>16. \A j \in 1 .. Len(s) + 1 : /\ j < i => (c \o b)[j] = s[j]
                                  /\ j = i => (c \o b)[j] = e
                                  /\ j > i => (c \o b)[j] = s[j - 1]
  BY <1>13, <1>14, <1>15, Zenon
<1>17. c \o b \in Seq(S) /\ Len(c \o b) = Len(s) + 1
  BY <1>10, <1>11
<1> QED BY <1>7, <1>16, <1>17, Zenon

LEMMA Position ==
    ASSUME NEW s, NEW n, IsStack(s, n), NEW k \in 1 .. n
    PROVE  PosIn(s, s[k]) = k
<1>1. DOMAIN s = 1 .. n /\ \A i, j \in 1 .. n : s[i] = s[j] => i = j
  BY DEF IsStack
<1> QED BY <1>1 DEF PosIn

LEMMA InStack ==
    ASSUME NEW s, NEW n, IsStack(s, n)
    PROVE  Range(s) = 0 .. n - 1 /\ DOMAIN s = 1 .. n
<1>1. DOMAIN s = 1 .. n
  BY DEF IsStack
<1>2. ASSUME NEW id PROVE id \in 0 .. n - 1 <=> \E i \in 1 .. n : s[i] = id
  BY DEF IsStack
<1> QED BY <1>1, <1>2 DEF Range

LEMMA MinProperties ==
    ASSUME NEW a \in Int, NEW b \in Int
    PROVE  Min({a, b}) = IF a <= b THEN a ELSE b
BY DEF Min

\* create_window(): the new layer comes right above the desktop.
LEMMA NewOnStack ==
    ASSUME NEW s, NEW n, IsStack(s, n)
    PROVE  LET r == MoveLayer(s, n, 1)
           IN  /\ IsStack(r, n + 1)
               /\ r[1] = s[1] /\ r[2] = n /\ \A j \in 3 .. n + 1 : r[j] = s[j - 1]
<1> DEFINE r == MoveLayer(s, n, 1)
<1>1. /\ n \in Nat /\ n >= 2 /\ s \in Seq(Nat) /\ Len(s) = n
      /\ \A i \in 1 .. n : s[i] \in 0 .. n - 1
      /\ \A i, j \in 1 .. n : s[i] = s[j] => i = j
      /\ \A id \in 0 .. n - 1 : \E i \in 1 .. n : s[i] = id
      /\ s[1] = DESKTOP_LAYER_ID /\ s[n] = MOUSE_LAYER_ID
  BY DEF IsStack
<1>2. n \notin Range(s)
  BY <1>1, InStack
<1>3. Min({1, Len(s)}) + 1 = 2
  <2> DEFINE one == 1
  <2>1. one \in Int /\ n \in Int /\ one <= n
    BY <1>1
  <2>2. one = 1
    OBVIOUS
  <2> HIDE DEF one
  <2>3. Min({one, n}) = one
    BY <2>1, MinProperties
  <2> QED BY <2>2, <2>3, <1>1
<1>4. r = InsertAt(s, 2, n)
  BY <1>2, <1>3 DEF MoveLayer
<1>5. 2 \in 1 .. Len(s) + 1 /\ n \in Nat
  BY <1>1
<1> HIDE DEF r
<1>6. /\ r \in Seq(Nat) /\ Len(r) = Len(s) + 1
      /\ \A j \in 1 .. Len(s) + 1 : /\ j < 2 => r[j] = s[j]
                                    /\ j = 2 => r[j] = n
                                    /\ j > 2 => r[j] = s[j - 1]
  <2> DEFINE k == 2
  <2> DEFINE N == Nat
  <2>1. s \in Seq(N) /\ n \in N /\ k \in 1 .. Len(s) + 1
    BY <1>1, <1>5
  <2> DEFINE t == InsertAt(s, k, n)
  <2> HIDE DEF k, N
  <2>2. /\ t \in Seq(N) /\ Len(t) = Len(s) + 1
        /\ \A j \in 1 .. Len(s) + 1 : /\ j < k => t[j] = s[j]
                                      /\ j = k => t[j] = n
                                      /\ j > k => t[j] = s[j - 1]
    BY <2>1, InsertAtElements
  <2> QED BY <2>2, <1>4 DEF k, N
<1>7. /\ r[1] = s[1] /\ r[2] = n /\ Len(r) = n + 1
      /\ \A j \in 3 .. n + 1 : r[j] = s[j - 1] /\ j - 1 \in 2 .. n
  <2>1. 1 \in 1 .. n + 1 /\ 2 \in 1 .. n + 1 /\ \A j \in 3 .. n + 1 : j \in 1 .. n + 1 /\ j > 2 /\ j - 1 \in 2 .. n
    BY <1>1
  <2>2. \A j \in 1 .. n + 1 : /\ j < 2 => r[j] = s[j]
                              /\ j = 2 => r[j] = n
                              /\ j > 2 => r[j] = s[j - 1]
    BY <1>1, <1>6
  <2>3. Len(r) = n + 1
    BY <1>1, <1>6
  <2>4. r[1] = s[1] /\ r[2] = n
    BY <2>1, <2>2
  <2>5. ASSUME NEW j \in 3 .. n + 1 PROVE r[j] = s[j - 1] /\ j - 1 \in 2 .. n
    BY <2>1, <2>2
  <2> QED BY <2>3, <2>4, <2>5
<1>8. \A i \in 1 .. n + 1 : r[i] \in 0 .. n
  <2>1. \A i \in 1 .. n + 1 : i = 1 \/ i = 2 \/ (i \in 3 .. n + 1 /\ i - 1 \in 1 .. n)
    BY <1>1
  <2>2. \A k \in 1 .. n : s[k] \in 0 .. n
    BY <1>1
  <2>3. n \in 0 .. n /\ 1 \in 1 .. n
    BY <1>1
  <2> QED BY <2>1, <2>2, <2>3, <1>7
<1>9. ASSUME NEW i \in 1 .. n + 1, NEW j \in 1 .. n + 1, r[i] = r[j] PROVE i = j
  <2> DEFINE Old(k) == IF k = 1 THEN 1 ELSE k - 1
  <2>1. \A k \in 1 .. n + 1 : k # 2 => Old(k) \in 1 .. n /\ r[k] = s[Old(k)] /\ s[Old(k)] # n
    <3>1. \A k \in 1 .. n + 1 : k # 2 => k = 1 \/ (k \in 3 .. n + 1 /\ k - 1 \in 1 .. n)
      BY <1>1
    <3>2. 1 \in 1 .. n /\ \A k \in 1 .. n : s[k] # n
      BY <1>1
    <3> QED BY <3>1, <3>2, <1>7
  <2>2. CASE i = 2 \/ j = 2
    BY <2>1, <2>2, <1>7, <1>9
  <2>3. CASE i # 2 /\ j # 2
    <3>1. Old(i) \in 1 .. n /\ Old(j) \in 1 .. n /\ s[Old(i)] = s[Old(j)]
      BY <2>1, <2>3, <1>9
    <3> HIDE DEF Old
    <3>2. Old(i) = Old(j)
      BY <3>1, <1>1
    <3> QED BY <3>2, <2>3, <1>1 DEF Old
  <2> QED BY <2>2, <2>3
<1>10. ASSUME NEW id \in 0 .. n PROVE \E i \in 1 .. n + 1 : r[i] = id
  <2>1. CASE id = n
    BY <2>1, <1>1, <1>7
  <2>2. CASE id # n
    <3>1. PICK k \in 1 .. n : s[k] = id
      BY <2>2, <1>1
    <3>2. CASE k = 1
      BY <3>1, <3>2, <1>1, <1>7
    <3>3. CASE k # 1
      <4>1. k + 1 \in 3 .. n + 1 /\ (k + 1) - 1 = k /\ k + 1 \in 1 .. n + 1
        BY <3>3, <1>1
      <4> QED BY <4>1, <3>1, <1>7
    <3> QED BY <3>2, <3>3
  <2> QED BY <2>1, <2>2
<1>11. r[n + 1] = s[n] /\ n + 1 \in Nat /\ n + 1 >= 2 /\ (n + 1) - 1 = n
  <2>1. n + 1 \in 3 .. n + 1 /\ (n + 1) - 1 = n
    BY <1>1
  <2> QED BY <2>1, <1>1, <1>7
<1>12. IsStack(r, n + 1)
  BY <1>1, <1>6, <1>7, <1>8, <1>9, <1>10, <1>11 DEF IsStack
<1> QED BY <1>7, <1>12 DEF r

\* Where the layer at position j of the stack was before the one at k was raised.
Lowered(n, k, j) ==
    IF j < k THEN j ELSE IF j < n - 1 THEN j + 1 ELSE IF j = n - 1 THEN k ELSE n

LEMMA LoweredProperties ==
    ASSUME NEW n \in Nat, NEW k \in 2 .. n - 1
    PROVE  /\ \A j \in 1 .. n : Lowered(n, k, j) \in 1 .. n
           /\ \A i, j \in 1 .. n : Lowered(n, k, i) = Lowered(n, k, j) => i = j
           /\ \A i \in 1 .. n : \E j \in 1 .. n : Lowered(n, k, j) = i
           /\ Lowered(n, k, 1) = 1 /\ Lowered(n, k, n) = n /\ Lowered(n, k, n - 1) = k
<1>1. \A j \in 1 .. n : Lowered(n, k, j) \in 1 .. n
  BY DEF Lowered
<1>2. \A i, j \in 1 .. n : Lowered(n, k, i) = Lowered(n, k, j) => i = j
  BY DEF Lowered
<1>3. ASSUME NEW i \in 1 .. n PROVE \E j \in 1 .. n : Lowered(n, k, j) = i
  <2> DEFINE j == IF i < k THEN i ELSE IF i = k THEN n - 1 ELSE IF i < n THEN i - 1 ELSE n
  <2>1. j \in 1 .. n /\ Lowered(n, k, j) = i
    BY DEF Lowered
  <2> QED BY <2>1
<1>4. Lowered(n, k, 1) = 1 /\ Lowered(n, k, n) = n /\ Lowered(n, k, n - 1) = k
  BY DEF Lowered
<1> QED BY <1>1, <1>2, <1>3, <1>4

\* Window::on_event(MouseLeftPress): the layer goes to just below the cursor.
LEMMA RaisedOnStack ==
    ASSUME NEW s, NEW n, IsStack(s, n), NEW k \in 2 .. n - 1
    PROVE  LET r == MoveLayer(s, s[k], n - 2)
           IN  IsStack(r, n) /\ \A j \in 1 .. n : r[j] = s[Lowered(n, k, j)]
<1> DEFINE r == MoveLayer(s, s[k], n - 2)
<1> DEFINE rest == RemoveAt(s, k)
<1>1. /\ n \in Nat /\ n >= 2 /\ s \in Seq(Nat) /\ Len(s) = n
      /\ \A i \in 1 .. n : s[i] \in 0 .. n - 1
      /\ \A i, j \in 1 .. n : s[i] = s[j] => i = j
      /\ \A id \in 0 .. n - 1 : \E i \in 1 .. n : s[i] = id
      /\ s[1] = DESKTOP_LAYER_ID /\ s[n] = MOUSE_LAYER_ID
  BY DEF IsStack
<1>2. k \in 1 .. n /\ n - 1 \in 1 .. (n - 1) + 1 /\ s[k] \in Nat
  BY <1>1
<1>3. s[k] \in Range(s) /\ PosIn(s, s[k]) = k
  BY <1>1, <1>2, InStack, Position
<1>4. Min({n - 2, Len(s)}) + 1 = n - 1
  <2>1. n - 2 \in Int /\ Len(s) \in Int /\ n - 2 <= Len(s) /\ (n - 2) + 1 = n - 1
    BY <1>1
  <2>2. Min({n - 2, Len(s)}) = n - 2
    BY <2>1, MinProperties
  <2> QED BY <2>1, <2>2
<1>5. r = InsertAt(rest, n - 1, s[k])
  BY <1>3, <1>4 DEF MoveLayer
<1> DEFINE N == Nat
<1>6. s \in Seq(N) /\ s[k] \in N /\ k \in 1 .. Len(s)
  BY <1>1, <1>2
<1> HIDE DEF N, rest, r
<1>7. /\ rest \in Seq(N) /\ Len(rest) = Len(s) - 1
      /\ \A j \in 1 .. Len(s) - 1 : rest[j] = IF j < k THEN s[j] ELSE s[j + 1]
  BY <1>6, RemoveAtElements DEF rest
<1>8. Len(rest) = n - 1 /\ n - 1 \in 1 .. Len(rest) + 1
  BY <1>1, <1>2, <1>7
<1>9. /\ r \in Seq(N) /\ Len(r) = Len(rest) + 1
      /\ \A j \in 1 .. Len(rest) + 1 : /\ j < n - 1 => r[j] = rest[j]
                                       /\ j = n - 1 => r[j] = s[k]
                                       /\ j > n - 1 => r[j] = rest[j - 1]
  <2> DEFINE m == n - 1
  <2> DEFINE e == s[k]
  <2>0. r = InsertAt(rest, m, e)
    BY <1>5
  <2>1. e \in N /\ m \in 1 .. Len(rest) + 1 /\ rest \in Seq(N)
    BY <1>6, <1>7, <1>8
  <2> HIDE DEF m, e
  <2> DEFINE t == InsertAt(rest, m, e)
  <2>2. /\ t \in Seq(N) /\ Len(t) = Len(rest) + 1
        /\ \A j \in 1 .. Len(rest) + 1 : /\ j < m => t[j] = rest[j]
                                         /\ j = m => t[j] = e
                                         /\ j > m => t[j] = rest[j - 1]
    <3>1. t \in Seq(N) /\ Len(t) = Len(rest) + 1
      BY <2>1, InsertAtElements
    <3>2. \A j \in 1 .. Len(rest) + 1 : j < m => t[j] = rest[j]
      BY <2>1, InsertAtElements
    <3>3. \A j \in 1 .. Len(rest) + 1 : j = m => t[j] = e
      BY <2>1, InsertAtElements
    <3>4. \A j \in 1 .. Len(rest) + 1 : j > m => t[j] = rest[j - 1]
      BY <2>1, InsertAtElements
    <3> HIDE DEF t
    <3> QED BY <3>1, <3>2, <3>3, <3>4
  <2>3. r = t
    BY <2>0
  <2> HIDE DEF t
  <2> QED BY <2>2, <2>3 DEF m, e
<1>10. r \in Seq(Nat) /\ Len(r) = n
  BY <1>1, <1>8, <1>9 DEF N
<1>11. ASSUME NEW j \in 1 .. n PROVE r[j] = s[Lowered(n, k, j)]
  <2>0. j \in 1 .. Len(rest) + 1
    BY <1>1, <1>8
  <2>1. CASE j < n - 1
    <3>1. r[j] = rest[j] /\ j \in 1 .. Len(s) - 1
      BY <2>0, <2>1, <1>1, <1>9
    <3>2. rest[j] = IF j < k THEN s[j] ELSE s[j + 1]
      BY <3>1, <1>7
    <3>3. Lowered(n, k, j) = IF j < k THEN j ELSE j + 1
      BY <2>1, <1>1 DEF Lowered
    <3> QED BY <3>1, <3>2, <3>3
  <2>2. CASE j = n - 1
    <3>1. Lowered(n, k, j) = k
      BY <2>2, <1>1 DEF Lowered
    <3> QED BY <2>0, <2>2, <3>1, <1>9
  <2>3. CASE j = n
    <3>1. j > n - 1 /\ n - 1 \in 1 .. Len(s) - 1 /\ ~(n - 1 < k) /\ (n - 1) + 1 = n
      BY <2>3, <1>1, <1>2
    <3>2. r[j] = rest[n - 1]
      BY <2>0, <2>3, <3>1, <1>9
    <3>3. rest[n - 1] = s[n]
      BY <3>1, <1>7
    <3>4. Lowered(n, k, j) = n
      BY <2>3, <1>1 DEF Lowered
    <3> QED BY <3>2, <3>3, <3>4
  <2> QED BY <2>1, <2>2, <2>3, <1>1
<1> DEFINE Old(j) == Lowered(n, k, j)
<1>0. /\ \A j \in 1 .. n : Old(j) \in 1 .. n /\ r[j] = s[Old(j)]
      /\ \A i, j \in 1 .. n : Old(i) = Old(j) => i = j
      /\ \A i \in 1 .. n : \E j \in 1 .. n : Old(j) = i
      /\ Old(1) = 1 /\ Old(n) = n
  <2>1. n \in Nat
    BY <1>1
  <2>2. /\ \A j \in 1 .. n : Old(j) \in 1 .. n
        /\ \A i, j \in 1 .. n : Old(i) = Old(j) => i = j
        /\ \A i \in 1 .. n : \E j \in 1 .. n : Old(j) = i
        /\ Old(1) = 1 /\ Old(n) = n
    BY <2>1, LoweredProperties
  <2> QED BY <2>2, <1>11, Zenon
<1> HIDE DEF Old
<1>12. ASSUME NEW i \in 1 .. n PROVE r[i] \in 0 .. n - 1
  <2>1. Old(i) \in 1 .. n /\ r[i] = s[Old(i)]
    BY <1>0
  <2>2. s[Old(i)] \in 0 .. n - 1
    BY <2>1, <1>1
  <2> QED BY <2>1, <2>2
<1>13. ASSUME NEW i \in 1 .. n, NEW j \in 1 .. n, r[i] = r[j] PROVE i = j
  <2>0. Old(i) \in 1 .. n /\ Old(j) \in 1 .. n /\ s[Old(i)] = s[Old(j)]
    BY <1>0, <1>13
  <2>1. Old(i) = Old(j)
    BY <2>0, <1>1
  <2> QED BY <2>1, <1>0
<1>14. ASSUME NEW id \in 0 .. n - 1 PROVE \E j \in 1 .. n : r[j] = id
  <2>1. PICK i \in 1 .. n : s[i] = id
    BY <1>1
  <2>2. PICK j \in 1 .. n : Old(j) = i
    BY <1>0
  <2> QED BY <2>1, <2>2, <1>0
<1>15. r[1] = s[1] /\ r[n] = s[n]
  <2>1. 1 \in 1 .. n /\ n \in 1 .. n
    BY <1>1
  <2> QED BY <2>1, <1>0
<1>16. IsStack(r, n)
  BY <1>1, <1>10, <1>12, <1>13, <1>14, <1>15 DEF IsStack
<1> QED BY <1>11, <1>16 DEF r

-----------------------------------------------------------------------------
(***************************************************************************)
(* Drawing.  TransferAll is a recursive function: it has the steps of the  *)
(* loops of update(), and what is seen at a pixel in the end is the last   *)
(* layer that was drawn there.                                             *)
(***************************************************************************)

\* Drawing layer id in rectangle r changes the pixel at px.
Paints(ls, id, r, px) == InRect(px, r) /\ Covers(ls, id, px)

\* f has the pictures of the first n iterations.
Draws(f, scr, ls, fr, s, rects, n) ==
    /\ f = [i \in 0 .. n |-> f[i]]
    /\ f[0] = scr
    /\ \A i \in 1 .. n : f[i] = Transfer(f[i - 1], ls, fr, s[i], rects[s[i]])

LEMMA DrawingExists ==
    ASSUME NEW scr, NEW ls, NEW fr, NEW s, NEW rects, NEW m \in Nat
    PROVE  \E f : Draws(f, scr, ls, fr, s, rects, m)
<1> DEFINE S == {n \in Nat : \E f : Draws(f, scr, ls, fr, s, rects, n)}
<1>1. 0 \in S
  <2>1. Draws([i \in 0 .. 0 |-> scr], scr, ls, fr, s, rects, 0)
    BY DEF Draws
  <2> QED BY <2>1
<1>2. ASSUME NEW n \in S PROVE n + 1 \in S
  <2>1. n \in Nat /\ n + 1 \in Nat
    OBVIOUS
  <2>2. PICK f : Draws(f, scr, ls, fr, s, rects, n)
    OBVIOUS
  <2> DEFINE last == Transfer(f[n], ls, fr, s[n + 1], rects[s[n + 1]])
  <2> DEFINE g == [i \in 0 .. n + 1 |-> IF i = n + 1 THEN last ELSE f[i]]
  <2> HIDE DEF last
  <2>3. g = [i \in 0 .. n + 1 |-> g[i]] /\ g[0] = scr
    BY <2>1, <2>2 DEF Draws
  <2>4. ASSUME NEW i \in 1 .. n + 1 PROVE g[i] = Transfer(g[i - 1], ls, fr, s[i], rects[s[i]])
    <3>1. CASE i = n + 1
      <4>1. g[i] = last /\ g[i - 1] = f[n]
        BY <3>1, <2>1
      <4> QED BY <4>1, <3>1 DEF last
    <3>2. CASE i # n + 1
      <4>1. i \in 1 .. n /\ g[i] = f[i] /\ g[i - 1] = f[i - 1]
        BY <3>2, <2>1
      <4>2. f[i] = Transfer(f[i - 1], ls, fr, s[i], rects[s[i]])
        BY <4>1, <2>2 DEF Draws
      <4> HIDE DEF g
      <4> QED BY <4>1, <4>2
    <3> QED BY <3>1, <3>2
  <2> HIDE DEF g
  <2>5. Draws(g, scr, ls, fr, s, rects, n + 1)
    BY <2>3, <2>4 DEF Draws
  <2> QED BY <2>1, <2>5
<1>3. S \in SUBSET Nat
  OBVIOUS
<1> HIDE DEF S
<1>4. S = Nat
  BY <1>1, <1>2, <1>3, D!SetInduction
<1> QED BY <1>4 DEF S

LEMMA TransferAllDraws ==
    ASSUME NEW scr, NEW ls, NEW fr, NEW s, NEW rects, Len(s) \in Nat
    PROVE  \E f : /\ Draws(f, scr, ls, fr, s, rects, Len(s))
                  /\ TransferAll(scr, ls, fr, s, rects) = f[Len(s)]
<1> DEFINE F(f) == f = [i \in 0 .. Len(s) |-> IF i = 0 THEN scr ELSE Transfer(f[i - 1], ls, fr, s[i], rects[s[i]])]
<1>1. PICK f : Draws(f, scr, ls, fr, s, rects, Len(s))
  BY DrawingExists
<1>2. F(f)
  <2>1. \A i \in 0 .. Len(s) : f[i] = IF i = 0 THEN scr ELSE Transfer(f[i - 1], ls, fr, s[i], rects[s[i]])
    BY <1>1 DEF Draws
  <2>2. f = [i \in 0 .. Len(s) |-> f[i]]
    BY <1>1 DEF Draws
  <2> QED BY <2>1, <2>2
<1> DEFINE d == CHOOSE g : F(g)
<1>3. F(d)
  BY <1>2
<1>4. TransferAll(scr, ls, fr, s, rects) = d[Len(s)]
  BY DEF TransferAll
<1> HIDE DEF d
<1>5. Draws(d, scr, ls, fr, s, rects, Len(s))
  <2> DEFINE B == [i \in 0 .. Len(s) |-> IF i = 0 THEN scr ELSE Transfer(d[i - 1], ls, fr, s[i], rects[s[i]])]
  <2>1. d = B
    BY <1>3
  <2>2. /\ B = [i \in 0 .. Len(s) |-> B[i]]
        /\ \A i \in 0 .. Len(s) : B[i] = IF i = 0 THEN scr ELSE Transfer(d[i - 1], ls, fr, s[i], rects[s[i]])
    OBVIOUS
  <2> HIDE DEF B
  <2>3. d = [i \in 0 .. Len(s) |-> d[i]]
    BY <2>1, <2>2
  <2>4. d[0] = scr /\ \A i \in 1 .. Len(s) : d[i] = Transfer(d[i - 1], ls, fr, s[i], rects[s[i]])
    <3>1. 0 \in 0 .. Len(s) /\ \A i \in 1 .. Len(s) : i \in 0 .. Len(s) /\ i # 0
      OBVIOUS
    <3> QED BY <2>1, <2>2, <3>1
  <2> QED BY <2>3, <2>4 DEF Draws
<1> QED BY <1>4, <1>5

\* The pixel after all the layers of s were drawn is that of the last one that
\* has a pixel there, or the old one.
LEMMA TransferAllPixel ==
    ASSUME NEW scr, NEW ls, NEW fr, NEW s, NEW rects, Len(s) \in Nat, NEW px \in Display
    PROVE  LET n == Len(s)
               t == TransferAll(scr, ls, fr, s, rects)
               P(k) == Paints(ls, s[k], rects[s[k]], px)
           IN  /\ \A j \in 1 .. n : P(j) /\ (\A k \in j + 1 .. n : ~P(k)) => t[px] = Pixel(ls, fr, s[j], px)
               /\ (\A k \in 1 .. n : ~P(k)) => t[px] = scr[px]
<1> DEFINE n == Len(s)
<1> DEFINE t == TransferAll(scr, ls, fr, s, rects)
<1> DEFINE P(k) == Paints(ls, s[k], rects[s[k]], px)
<1> DEFINE X(j) == Pixel(ls, fr, s[j], px)
<1>1. PICK f : Draws(f, scr, ls, fr, s, rects, n) /\ t = f[n]
  BY TransferAllDraws
<1>2. \A i \in 1 .. n : f[i][px] = IF P(i) THEN X(i) ELSE f[i - 1][px]
  <2>1. \A i \in 1 .. n : f[i] = Transfer(f[i - 1], ls, fr, s[i], rects[s[i]])
    BY <1>1 DEF Draws
  <2> SUFFICES ASSUME NEW i \in 1 .. n PROVE f[i][px] = IF P(i) THEN X(i) ELSE f[i - 1][px]
    OBVIOUS
  <2>2. f[i] = Transfer(f[i - 1], ls, fr, s[i], rects[s[i]])
    BY <2>1
  <2> QED BY <2>2 DEF Transfer, Paints, Covers
<1>3. f[0] = scr /\ n \in Nat
  BY <1>1 DEF Draws
<1> HIDE DEF n, t, P, X
<1> DEFINE Shown(i) ==
        /\ \A j \in 1 .. i : P(j) /\ (\A k \in j + 1 .. i : ~P(k)) => f[i][px] = X(j)
        /\ (\A k \in 1 .. i : ~P(k)) => f[i][px] = scr[px]
<1> DEFINE S == {i \in Nat : i <= n => Shown(i)}
<1>4. 0 \in S
  BY <1>3
<1>5. ASSUME NEW i \in S PROVE i + 1 \in S
  <2>0. i \in Nat /\ i + 1 \in Nat
    OBVIOUS
  <2> SUFFICES ASSUME i + 1 <= n PROVE Shown(i + 1)
    BY <2>0
  <2>1. Shown(i)
    BY <2>0, <1>3
  <2>2. f[i + 1][px] = IF P(i + 1) THEN X(i + 1) ELSE f[i][px]
    <3>1. i + 1 \in 1 .. n /\ (i + 1) - 1 = i
      BY <2>0, <1>3
    <3> QED BY <3>1, <1>2
  <2>3. ASSUME NEW j \in 1 .. i + 1, P(j), \A k \in j + 1 .. i + 1 : ~P(k)
        PROVE  f[i + 1][px] = X(j)
    <3>1. CASE j = i + 1
      BY <3>1, <2>2, <2>3
    <3>2. CASE j # i + 1
      <4>1. j \in 1 .. i /\ i + 1 \in j + 1 .. i + 1 /\ \A k \in j + 1 .. i : k \in j + 1 .. i + 1
        BY <3>2, <2>0
      <4>2. f[i][px] = X(j)
        BY <4>1, <2>1, <2>3
      <4>3. ~P(i + 1)
        BY <4>1, <2>3
      <4> QED BY <4>2, <4>3, <2>2
    <3> QED BY <3>1, <3>2
  <2>4. ASSUME \A k \in 1 .. i + 1 : ~P(k) PROVE f[i + 1][px] = scr[px]
    <3>1. i + 1 \in 1 .. i + 1 /\ \A k \in 1 .. i : k \in 1 .. i + 1
      BY <2>0
    <3> QED BY <3>1, <2>1, <2>2, <2>4
  <2> QED BY <2>3, <2>4
<1>6. S \in SUBSET Nat
  OBVIOUS
<1> HIDE DEF S
<1>7. S = Nat
  BY <1>4, <1>5, <1>6, D!SetInduction
<1>8. Shown(n)
  BY <1>3, <1>7 DEF S
<1> QED BY <1>1, <1>8 DEF n, t, P, X

\* The picture u has at px what update() of the layer at position i draws there.
Painted(u, ls, fr, s, n, i, scr, px) ==
    /\ \A j \in i .. n :
          Covers(ls, s[j], px) /\ (\A k \in j + 1 .. n : ~Covers(ls, s[k], px))
              => u[px] = Pixel(ls, fr, s[j], px)
    /\ \A j \in 1 .. i - 1 :
          Covers(ls, s[j], px) /\ InRect(px, ls[s[i]].prev) /\ (\A k \in j + 1 .. n : ~Covers(ls, s[k], px))
              => u[px] = Pixel(ls, fr, s[j], px)
    /\ ~InRect(px, ls[s[i]].prev) /\ (\A k \in i .. n : ~Covers(ls, s[k], px)) => u[px] = scr[px]

LEMMA UpdatePixel ==
    ASSUME NEW ls, NEW fr, NEW s, NEW n, IsStack(s, n), NEW i \in 1 .. n, NEW scr,
           DOMAIN ls = 0 .. n - 1, NEW px \in Display
    PROVE  Painted(Update(ls, fr, s, s[i], scr), ls, fr, s, n, i, scr, px)
<1> DEFINE C(j) == Covers(ls, s[j], px)
<1> DEFINE p == InRect(px, ls[s[i]].prev)
<1> DEFINE a == SubSeq(s, 1, i - 1)
<1> DEFINE b == SubSeq(s, i, n)
<1> DEFINE ra == [k \in DOMAIN ls |-> ls[s[i]].prev]
<1> DEFINE below == TransferAll(scr, ls, fr, a, ra)
<1> DEFINE u == TransferAll(below, ls, fr, b, Everywhere(ls))
<1>1. /\ n \in Nat /\ s \in Seq(Nat) /\ Len(s) = n
      /\ \A j \in 1 .. n : s[j] \in DOMAIN ls
  BY DEF IsStack
<1>2. PosIn(s, s[i]) = i
  BY Position
<1>3. Update(ls, fr, s, s[i], scr) = u
  BY <1>1, <1>2 DEF Update
<1>4. /\ Len(a) = i - 1 /\ \A k \in 1 .. i - 1 : a[k] = s[k]
      /\ Len(b) = n - i + 1 /\ \A k \in 1 .. n - i + 1 : b[k] = s[i + k - 1]
  <2> DEFINE N == Nat
  <2>0. s \in Seq(N)
    BY <1>1
  <2> HIDE DEF N
  <2> DEFINE o == 1
  <2> DEFINE i1 == i - 1
  <2>1. o \in 1 .. Len(s) + 1 /\ i1 \in o - 1 .. Len(s) /\ i \in 1 .. Len(s) + 1 /\ n \in i - 1 .. Len(s)
    BY <1>1
  <2> HIDE DEF o, i1
  <2>2. Len(SubSeq(s, o, i1)) = i1 - o + 1 /\ \A k \in 1 .. i1 - o + 1 : SubSeq(s, o, i1)[k] = s[o + k - 1]
    BY <2>0, <2>1, SubSeqElements
  <2>3. Len(b) = n - i + 1 /\ \A k \in 1 .. n - i + 1 : b[k] = s[i + k - 1]
    BY <2>0, <2>1, SubSeqElements
  <2>4. Len(a) = (i - 1) - 1 + 1 /\ \A k \in 1 .. (i - 1) - 1 + 1 : a[k] = s[1 + k - 1]
    BY <2>2 DEF o, i1
  <2> HIDE DEF a, b
  <2>5. (i - 1) - 1 + 1 = i - 1 /\ \A k \in 1 .. i - 1 : 1 + k - 1 = k
    BY <1>1
  <2> QED BY <2>3, <2>4, <2>5
<1>5. /\ Len(a) \in Nat /\ Len(b) \in Nat
  BY <1>1, <1>4
<1>6. \A k \in 1 .. i - 1 : Paints(ls, a[k], ra[a[k]], px) <=> C(k) /\ p
  <2>1. \A k \in 1 .. i - 1 : k \in 1 .. n
    BY <1>1
  <2> QED BY <2>1, <1>1, <1>4 DEF Paints
<1>7. \A k \in 1 .. n - i + 1 : Paints(ls, b[k], Everywhere(ls)[b[k]], px) <=> C(i + k - 1)
  <2>1. \A k \in 1 .. n - i + 1 : i + k - 1 \in 1 .. n
    BY <1>1
  <2>2. \A id \in DOMAIN ls : Everywhere(ls)[id] = Now(ls[id])
    BY DEF Everywhere
  <2> QED BY <2>1, <2>2, <1>1, <1>4 DEF Paints, Covers
<1> HIDE DEF a, b, ra, p, C
<1>8. /\ \A j \in 1 .. i - 1 : C(j) /\ p /\ (\A k \in j + 1 .. i - 1 : ~(C(k) /\ p)) => below[px] = Pixel(ls, fr, s[j], px)
      /\ (\A k \in 1 .. i - 1 : ~(C(k) /\ p)) => below[px] = scr[px]
  <2>1. /\ \A j \in 1 .. Len(a) : Paints(ls, a[j], ra[a[j]], px) /\ (\A k \in j + 1 .. Len(a) : ~Paints(ls, a[k], ra[a[k]], px))
                 => below[px] = Pixel(ls, fr, a[j], px)
        /\ (\A k \in 1 .. Len(a) : ~Paints(ls, a[k], ra[a[k]], px)) => below[px] = scr[px]
    BY <1>5, TransferAllPixel
  <2>2. \A j \in 1 .. i - 1 : \A k \in j + 1 .. i - 1 : k \in 1 .. i - 1
    BY <1>1
  <2> HIDE DEF below
  <2>3. ASSUME NEW j \in 1 .. i - 1, C(j), p, \A k \in j + 1 .. i - 1 : ~(C(k) /\ p)
        PROVE  below[px] = Pixel(ls, fr, s[j], px)
    <3>1. Paints(ls, a[j], ra[a[j]], px) /\ (\A k \in j + 1 .. Len(a) : ~Paints(ls, a[k], ra[a[k]], px))
      BY <2>2, <2>3, <1>4, <1>6
    <3> QED BY <3>1, <2>1, <1>4
  <2>4. ASSUME \A k \in 1 .. i - 1 : ~(C(k) /\ p) PROVE below[px] = scr[px]
    BY <2>1, <2>4, <1>4, <1>6
  <2> QED BY <2>3, <2>4
<1>9. /\ \A j \in i .. n : C(j) /\ (\A k \in j + 1 .. n : ~C(k)) => u[px] = Pixel(ls, fr, s[j], px)
      /\ (\A k \in i .. n : ~C(k)) => u[px] = below[px]
  <2> HIDE DEF below
  <2> DEFINE ev == Everywhere(ls)
  <2>1. /\ \A j \in 1 .. Len(b) : Paints(ls, b[j], ev[b[j]], px) /\ (\A k \in j + 1 .. Len(b) : ~Paints(ls, b[k], ev[b[k]], px))
                 => u[px] = Pixel(ls, fr, b[j], px)
        /\ (\A k \in 1 .. Len(b) : ~Paints(ls, b[k], ev[b[k]], px)) => u[px] = below[px]
    BY <1>5, TransferAllPixel
  <2> HIDE DEF u, ev
  <2>2. \A k \in 1 .. n - i + 1 : Paints(ls, b[k], ev[b[k]], px) <=> C(i + k - 1)
    BY <1>7 DEF ev
  <2>3. ASSUME NEW j \in i .. n, C(j), \A k \in j + 1 .. n : ~C(k)
        PROVE  u[px] = Pixel(ls, fr, s[j], px)
    <3> DEFINE q == j - i + 1
    <3>1. q \in 1 .. n - i + 1 /\ i + q - 1 = j /\ \A k \in q + 1 .. n - i + 1 : k \in 1 .. n - i + 1 /\ i + k - 1 \in j + 1 .. n
      BY <1>1
    <3> HIDE DEF q
    <3>2. Paints(ls, b[q], ev[b[q]], px)
      BY <3>1, <2>2, <2>3
    <3>3. \A k \in q + 1 .. Len(b) : ~Paints(ls, b[k], ev[b[k]], px)
      BY <3>1, <2>2, <2>3, <1>4
    <3>4. b[q] = s[j] /\ q \in 1 .. Len(b)
      BY <3>1, <1>4
    <3> QED BY <3>2, <3>3, <3>4, <2>1
  <2>4. ASSUME \A k \in i .. n : ~C(k) PROVE u[px] = below[px]
    <3>1. \A k \in 1 .. n - i + 1 : i + k - 1 \in i .. n
      BY <1>1
    <3> QED BY <3>1, <2>1, <2>2, <2>4, <1>4
  <2> QED BY <2>3, <2>4
<1> HIDE DEF u, below
<1>10. ASSUME NEW j \in 1 .. i - 1, C(j), p, \A k \in j + 1 .. n : ~C(k)
       PROVE  u[px] = Pixel(ls, fr, s[j], px)
  <2>1. (\A k \in j + 1 .. i - 1 : k \in j + 1 .. n) /\ (\A k \in i .. n : k \in j + 1 .. n)
    BY <1>1
  <2> QED BY <2>1, <1>8, <1>9, <1>10
<1>11. ASSUME ~p, \A k \in i .. n : ~C(k) PROVE u[px] = scr[px]
  BY <1>8, <1>9, <1>11
<1> QED BY <1>3, <1>9, <1>10, <1>11 DEF C, p, Painted

-----------------------------------------------------------------------------
(***************************************************************************)
(* What is seen at a pixel below the cursor.                               *)
(***************************************************************************)

\* The desktop is everywhere: some layer is on top at each pixel.
LEMMA GroundExists ==
    ASSUME NEW ls, NEW s, NEW n, IsStack(s, n), NEW px, Covers(ls, DESKTOP_LAYER_ID, px)
    PROVE  \E i \in 1 .. n - 1 : Covers(ls, s[i], px) /\ \A j \in i + 1 .. n - 1 : ~Covers(ls, s[j], px)
<1> DEFINE T == {k \in Nat : k \in 0 .. n - 2 /\ Covers(ls, s[n - 1 - k], px)}
<1>1. n \in Nat /\ n >= 2 /\ s[1] = DESKTOP_LAYER_ID
  BY DEF IsStack
<1>2. n - 2 \in T
  <2>1. n - 2 \in Nat /\ n - 2 \in 0 .. n - 2 /\ n - 1 - (n - 2) = 1
    BY <1>1
  <2> QED BY <2>1, <1>1
<1>3. T \in SUBSET Nat /\ T # {}
  BY <1>2
<1> HIDE DEF T
<1>4. PICK k \in T : \A y \in T : k <= y
  BY <1>3, D!LeastNatural
<1>5. k \in 0 .. n - 2 /\ Covers(ls, s[n - 1 - k], px)
  BY <1>4 DEF T
<1> DEFINE i == n - 1 - k
<1>6. i \in 1 .. n - 1
  BY <1>1, <1>5
<1>7. ASSUME NEW j \in i + 1 .. n - 1 PROVE ~Covers(ls, s[j], px)
  <2> DEFINE y == n - 1 - j
  <2>1. y \in Nat /\ y \in 0 .. n - 2 /\ n - 1 - y = j /\ ~(k <= y)
    BY <1>1, <1>5
  <2>2. y \notin T
    BY <2>1, <1>4
  <2> QED BY <2>1, <2>2 DEF T
<1> QED BY <1>5, <1>6, <1>7

\* update() of the layer at position i leaves the cursor where it is, the layer
\* below it, or the old pixel where the layer neither was nor is.
Redrawn(u, ls, fr, s, n, id, scr, px) ==
    \/ Covers(ls, MOUSE_LAYER_ID, px) /\ u[px] = CursorPixel
    \/ /\ ~Covers(ls, MOUSE_LAYER_ID, px)
       /\ \E g \in DOMAIN ls : Ground(ls, s, n, g, px) /\ u[px] = Pixel(ls, fr, g, px)
    \/ /\ ~Covers(ls, MOUSE_LAYER_ID, px) /\ ~Covers(ls, id, px)
       /\ ~InRect(px, ls[id].prev) /\ u[px] = scr[px]

LEMMA UpdateGround ==
    ASSUME NEW ls, NEW fr, NEW s, NEW n, IsStack(s, n), NEW i \in 1 .. n, NEW scr,
           DOMAIN ls = 0 .. n - 1, NEW px \in Display, Covers(ls, DESKTOP_LAYER_ID, px),
           fr[MOUSE_LAYER_ID] = 0
    PROVE  Redrawn(Update(ls, fr, s, s[i], scr), ls, fr, s, n, s[i], scr, px)
<1> DEFINE u == Update(ls, fr, s, s[i], scr)
<1> DEFINE C(j) == Covers(ls, s[j], px)
<1> DEFINE p == InRect(px, ls[s[i]].prev)
<1>1. n \in Nat /\ n >= 2 /\ s[n] = MOUSE_LAYER_ID /\ \A j \in 1 .. n : s[j] \in DOMAIN ls
  BY DEF IsStack
<1>2. /\ \A j \in i .. n : C(j) /\ (\A k \in j + 1 .. n : ~C(k)) => u[px] = Pixel(ls, fr, s[j], px)
      /\ \A j \in 1 .. i - 1 :
            C(j) /\ p /\ (\A k \in j + 1 .. n : ~C(k)) => u[px] = Pixel(ls, fr, s[j], px)
      /\ ~p /\ (\A k \in i .. n : ~C(k)) => u[px] = scr[px]
  <2>1. Painted(u, ls, fr, s, n, i, scr, px)
    BY UpdatePixel
  <2> HIDE DEF u
  <2> QED BY <2>1 DEF Painted
<1>3. C(n) <=> Covers(ls, MOUSE_LAYER_ID, px)
  BY <1>1
<1>4. CASE C(n)
  <2>1. n \in i .. n /\ \A k \in n + 1 .. n : FALSE
    BY <1>1
  <2>2. u[px] = Pixel(ls, fr, s[n], px)
    BY <2>1, <1>2, <1>4
  <2>3. Pixel(ls, fr, s[n], px) = CursorPixel
    BY <1>1 DEF Pixel, CursorPixel
  <2> HIDE DEF u
  <2> QED BY <2>2, <2>3, <1>3, <1>4 DEF u, Redrawn
<1>5. CASE ~C(n)
  <2>1. PICK q \in 1 .. n - 1 : C(q) /\ \A j \in q + 1 .. n - 1 : ~C(j)
    BY GroundExists
  <2> HIDE DEF u, C, p
  <2>2. \A j \in q + 1 .. n : ~C(j)
    <3>1. \A j \in q + 1 .. n : j = n \/ j \in q + 1 .. n - 1
      BY <1>1
    <3> QED BY <3>1, <2>1, <1>5
  <2>3. CASE q \in i .. n \/ p
    <3>1. u[px] = Pixel(ls, fr, s[q], px)
      <4>1. q \in i .. n \/ q \in 1 .. i - 1
        BY <1>1
      <4> QED BY <4>1, <2>1, <2>2, <2>3, <1>2
    <3>2. Ground(ls, s, n, s[q], px) /\ s[q] \in DOMAIN ls
      <4>1. q \in 1 .. n
        BY <1>1
      <4> QED BY <4>1, <2>1, <1>1 DEF Ground, C
    <3> QED BY <3>1, <3>2, <1>3, <1>5 DEF u, Redrawn
  <2>4. CASE ~(q \in i .. n) /\ ~p
    <3>1. (\A k \in i .. n : k \in q + 1 .. n) /\ i \in i .. n
      BY <2>4, <1>1
    <3>2. \A k \in i .. n : ~C(k)
      BY <3>1, <2>2
    <3>3. u[px] = scr[px]
      BY <3>2, <2>4, <1>2
    <3>4. ~Covers(ls, s[i], px) /\ ~InRect(px, ls[s[i]].prev)
      BY <3>1, <3>2, <2>4 DEF C, p
    <3> QED BY <3>3, <3>4, <1>3, <1>5 DEF u, Redrawn
  <2> QED BY <2>3, <2>4
<1> HIDE DEF u
<1> QED BY <1>4, <1>5 DEF u

\* The layers other than id have the same order in the stacks s and r: old has
\* their positions in s.
KeepsOrder(s, n, r, m, id, old) ==
    /\ \A j \in 1 .. m - 1 : r[j] # id => old[j] \in 1 .. n - 1 /\ r[j] = s[old[j]]
    /\ \A i, j \in 1 .. m - 1 : i < j /\ r[i] # id /\ r[j] # id => old[i] < old[j]
    /\ \A q \in 1 .. n - 1 : s[q] # id => \E j \in 1 .. m - 1 : r[j] # id /\ old[j] = q

\* Where layer id neither was nor is, the layer seen is the one that was.
LEMMA GroundKept ==
    ASSUME NEW ls, NEW s, NEW n \in Nat, NEW lr, NEW r, NEW m \in Nat, NEW old, NEW id, NEW px,
           KeepsOrder(s, n, r, m, id, old),
           \A j \in 1 .. n - 1 : s[j] # id => (Covers(ls, s[j], px) <=> Covers(lr, s[j], px)),
           ~Covers(lr, id, px),
           NEW g, g # id, Ground(ls, s, n, g, px)
    PROVE  Ground(lr, r, m, g, px)
<1>1. PICK q \in 1 .. n - 1 : s[q] = g /\ Covers(ls, g, px) /\ \A j \in q + 1 .. n - 1 : ~Covers(ls, s[j], px)
  BY DEF Ground
<1>2. PICK i \in 1 .. m - 1 : r[i] # id /\ old[i] = q
  BY <1>1 DEF KeepsOrder
<1>3. r[i] = g /\ Covers(lr, g, px)
  BY <1>1, <1>2 DEF KeepsOrder
<1>4. ASSUME NEW j \in i + 1 .. m - 1, Covers(lr, r[j], px) PROVE FALSE
  <2>1. j \in 1 .. m - 1 /\ i < j /\ r[j] # id
    BY <1>4
  <2>2. old[j] \in 1 .. n - 1 /\ r[j] = s[old[j]] /\ q < old[j]
    BY <2>1, <1>2 DEF KeepsOrder
  <2>3. old[j] \in q + 1 .. n - 1
    BY <2>2
  <2>4. ~Covers(ls, s[old[j]], px)
    BY <2>3, <1>1
  <2> QED BY <2>1, <2>2, <2>4, <1>4
<1> QED BY <1>3, <1>4 DEF Ground

\* The layers lt are ls, with the place of layer id noted.
IsSettled(lt, ls, id, K) ==
    /\ lt \in [K -> Layer]
    /\ \A k \in K : Now(lt[k]) = Now(ls[k])
    /\ \A k \in K : k # id => lt[k] = ls[k]
    /\ lt[id].prev = Now(ls[id])

LEMMA SettledProperties ==
    ASSUME NEW K, NEW ls \in [K -> Layer], NEW id \in K
    PROVE  IsSettled(Settled(ls, id), ls, id, K)
<1> DEFINE l == [ls[id] EXCEPT !.prev = Now(ls[id])]
<1>1. ls[id] \in Layer /\ Now(ls[id]) \in Rectangle
  BY DEF Now, Rect, Rectangle, Layer
<1>2. l \in Layer /\ l.x = ls[id].x /\ l.y = ls[id].y /\ l.w = ls[id].w /\ l.h = ls[id].h /\ l.prev = Now(ls[id])
  BY <1>1 DEF Layer
<1>3. Settled(ls, id) = [ls EXCEPT ![id] = l]
  BY DEF Settled
<1> HIDE DEF l
<1>4. Now(l) = Now(ls[id])
  BY <1>2 DEF Now
<1> QED BY <1>2, <1>3, <1>4 DEF IsSettled

\* What a layer covers depends on where it is.
LEMMA CoversSame ==
    ASSUME NEW a, NEW b, NEW id, Now(a[id]) = Now(b[id]), NEW px
    PROVE  Covers(a, id, px) <=> Covers(b, id, px)
<1>1. Now(a[id]).x = a[id].x /\ Now(b[id]).x = b[id].x /\ Now(a[id]).y = a[id].y /\ Now(b[id]).y = b[id].y
  BY DEF Now, Rect
<1> QED BY <1>1 DEF Covers, Opaque

LEMMA GroundSame ==
    ASSUME NEW a, NEW b, NEW s, NEW n, IsStack(s, n), \A k \in 0 .. n - 1 : Now(a[k]) = Now(b[k]),
           NEW g, NEW px, Ground(a, s, n, g, px)
    PROVE  Ground(b, s, n, g, px)
<1>1. \A k \in 0 .. n - 1 : Covers(a, k, px) <=> Covers(b, k, px)
  BY CoversSame
<1>2. n \in Nat /\ \A j \in 1 .. n : s[j] \in 0 .. n - 1
  BY DEF IsStack
<1>3. \A j \in 1 .. n - 1 : Covers(a, s[j], px) <=> Covers(b, s[j], px)
  BY <1>1, <1>2
<1>4. PICK q \in 1 .. n - 1 : s[q] = g /\ Covers(a, g, px) /\ \A j \in q + 1 .. n - 1 : ~Covers(a, s[j], px)
  BY DEF Ground
<1>5. \A j \in q + 1 .. n - 1 : j \in 1 .. n - 1
  BY <1>2
<1> QED BY <1>3, <1>4, <1>5 DEF Ground

\* A step that is update() of the window id at position i of the new stack, with
\* the layers ls, and leaves the other layers where they are and in their order.
Refresh(ls, m, i, id, old) ==
    /\ IsStack(layer_stack', m) /\ ls \in [0 .. m - 1 -> Layer]
    /\ i \in 2 .. m - 1 /\ id = layer_stack'[i]
    /\ KeepsOrder(layer_stack, Number, layer_stack', m, id, old)
    /\ DOMAIN layers \subseteq DOMAIN ls
    /\ \A k \in DOMAIN layers : k # id => ls[k] = layers[k] /\ frame'[k] = frame[k]
    /\ id \in DOMAIN layers => ls[id].prev = Now(layers[id])
    /\ layers' = Settled(ls, id)
    /\ screen' = Update(ls, frame', layer_stack', id, screen)
    /\ trail' = Trailed(Unnoted)

LEMMA UpdateScreen ==
    ASSUME StackInv, PlaceInv, ScreenInv,
           NEW ls, NEW m, NEW i, NEW id, NEW old, Refresh(ls, m, i, id, old)
    PROVE  ScreenInv'
<1>0. /\ IsStack(layer_stack', m) /\ ls \in [0 .. m - 1 -> Layer]
      /\ i \in 2 .. m - 1 /\ id = layer_stack'[i]
      /\ KeepsOrder(layer_stack, Number, layer_stack', m, id, old)
      /\ DOMAIN layers \subseteq DOMAIN ls
      /\ \A k \in DOMAIN layers : k # id => ls[k] = layers[k] /\ frame'[k] = frame[k]
      /\ id \in DOMAIN layers => ls[id].prev = Now(layers[id])
      /\ layers' = Settled(ls, id)
      /\ screen' = Update(ls, frame', layer_stack', id, screen)
      /\ trail' = Trailed(Unnoted)
  BY DEF Refresh
<1> USE <1>0
<1> DEFINE n == Number
<1> DEFINE r == layer_stack'
<1>1. /\ n \in Nat /\ n >= 2 /\ DOMAIN layers = 0 .. n - 1 /\ IsStack(layer_stack, n)
      /\ MOUSE_LAYER_ID \in DOMAIN layers /\ DESKTOP_LAYER_ID \in DOMAIN layers
      /\ \A j \in 1 .. n : layer_stack[j] \in DOMAIN layers
  <2>1. IsStack(layer_stack, n) /\ DOMAIN layers = 0 .. n - 1
    BY DEF StackInv
  <2>2. n \in Nat /\ n >= 2 /\ \A j \in 1 .. n : layer_stack[j] \in 0 .. n - 1
    BY <2>1 DEF IsStack
  <2> HIDE DEF n
  <2> QED BY <2>1, <2>2 DEF MOUSE_LAYER_ID, DESKTOP_LAYER_ID
<1>2. /\ m \in Nat /\ m >= 2 /\ DOMAIN ls = 0 .. m - 1 /\ Number' = m /\ i \in 1 .. m /\ id \in 0 .. m - 1
      /\ r[1] = DESKTOP_LAYER_ID /\ r[m] = MOUSE_LAYER_ID
  BY DEF IsStack, Number
<1>3. id # MOUSE_LAYER_ID /\ id # DESKTOP_LAYER_ID
  <2>1. 1 \in 1 .. m /\ m \in 1 .. m /\ i # 1 /\ i # m
    BY <1>2
  <2>2. \A p, q \in 1 .. m : r[p] = r[q] => p = q
    BY DEF IsStack
  <2> QED BY <2>1, <2>2, <1>2
<1>4. /\ layers' \in [0 .. m - 1 -> Layer] /\ \A k \in 0 .. m - 1 : Now(layers'[k]) = Now(ls[k])
      /\ \A k \in 0 .. m - 1 : k # id => layers'[k] = ls[k]
  <2> DEFINE K == 0 .. m - 1
  <2>1. ls \in [K -> Layer] /\ id \in K
    BY <1>2
  <2> HIDE DEF K
  <2>2. /\ Settled(ls, id) \in [K -> Layer] /\ \A k \in K : Now(Settled(ls, id)[k]) = Now(ls[k])
        /\ \A k \in K : k # id => Settled(ls, id)[k] = ls[k]
    <3>1. IsSettled(Settled(ls, id), ls, id, K)
      BY <2>1, SettledProperties
    <3> QED BY <3>1 DEF IsSettled
  <2> QED BY <2>2 DEF K
<1>5. ls[MOUSE_LAYER_ID] = Mouse /\ Mouse' = Mouse /\ frame'[MOUSE_LAYER_ID] = 0
      /\ ls[DESKTOP_LAYER_ID] = layers[DESKTOP_LAYER_ID]
  BY <1>1, <1>2, <1>3, <1>4 DEF PlaceInv, Mouse
<1>6. \A px \in Display : Covers(ls, DESKTOP_LAYER_ID, px)
  <2>1. \A px \in Display : InRect(px, Rect(0, 0, Width, Height))
    BY DisplayAssumption DEF Display, InRect, Rect
  <2>2. Now(ls[DESKTOP_LAYER_ID]) = Rect(0, 0, Width, Height)
    BY <1>5 DEF PlaceInv
  <2> QED BY <2>1, <2>2 DEF Covers, Opaque, DESKTOP_LAYER_ID, MOUSE_LAYER_ID
<1>7. CursorNoted' = CursorNoted
  BY <1>5 DEF CursorNoted
<1>8. \A px \in Display : Covers(ls, MOUSE_LAYER_ID, px) <=> px \in CursorAt(layers)
  <2>1. Now(ls[MOUSE_LAYER_ID]) = Now(layers[MOUSE_LAYER_ID])
    BY <1>5 DEF Mouse
  <2>2. \A px \in Display : Covers(ls, MOUSE_LAYER_ID, px) <=> Covers(layers, MOUSE_LAYER_ID, px)
    BY <2>1, CoversSame
  <2> QED BY <2>2 DEF CursorAt, Covers
<1>9. ASSUME NEW px \in Display
      PROVE  \/ Covers(ls, MOUSE_LAYER_ID, px) /\ screen'[px] = CursorPixel
             \/ /\ ~Covers(ls, MOUSE_LAYER_ID, px)
                /\ \E g \in DOMAIN ls : Ground(ls, r, m, g, px) /\ screen'[px] = Pixel(ls, frame', g, px)
             \/ /\ ~Covers(ls, MOUSE_LAYER_ID, px) /\ ~Covers(ls, id, px)
                /\ ~InRect(px, ls[id].prev) /\ screen'[px] = screen[px]
  <2> DEFINE fr == frame'
  <2> DEFINE s == layer_stack'
  <2>1. IsStack(s, m) /\ i \in 1 .. m /\ DOMAIN ls = 0 .. m - 1 /\ Covers(ls, DESKTOP_LAYER_ID, px) /\ fr[MOUSE_LAYER_ID] = 0
    BY <1>2, <1>5, <1>6
  <2>2. screen' = Update(ls, fr, s, s[i], screen) /\ id = s[i] /\ r = s
    OBVIOUS
  <2> HIDE DEF fr, s, r
  <2>3. Redrawn(Update(ls, fr, s, s[i], screen), ls, fr, s, m, s[i], screen, px)
    BY <2>1, UpdateGround
  <2>4. Redrawn(screen', ls, fr, r, m, id, screen, px)
    BY <2>2, <2>3
  <2> QED BY <2>4 DEF fr, Redrawn
<1>10. ASSUME NEW px \in Display, NEW g \in DOMAIN ls, Ground(ls, r, m, g, px), screen'[px] = Pixel(ls, frame', g, px)
       PROVE  \E k \in DOMAIN layers' : Ground(layers', layer_stack', Number', k, px) /\ screen'[px] = Pixel(layers', frame', k, px)
  <2>1. g \in 0 .. m - 1 /\ g \in DOMAIN layers' /\ Now(ls[g]) = Now(layers'[g])
    BY <1>2, <1>4, <1>10
  <2>2. Ground(layers', r, m, g, px)
    BY <1>4, <1>10, GroundSame
  <2>3. Pixel(layers', frame', g, px) = Pixel(ls, frame', g, px)
    <3>1. Now(ls[g]).y = ls[g].y /\ Now(layers'[g]).y = layers'[g].y
      BY DEF Now, Rect
    <3>2. ls[g].y = layers'[g].y
      BY <2>1, <3>1
    <3> QED BY <3>2 DEF Pixel
  <2> QED BY <2>1, <2>2, <2>3, <1>2, <1>10
<1>11. ASSUME NEW px \in Display, Covers(ls, MOUSE_LAYER_ID, px), screen'[px] = CursorPixel
       PROVE  px \in trail' \cup CursorNoted'
  <2>1. px \in CursorAt(layers)
    BY <1>8, <1>11
  <2>2. CASE Mouse.prev = Now(Mouse)
    <3>1. Mouse.prev.x = Mouse.x /\ Mouse.prev.y = Mouse.y
      BY <2>2 DEF Now, Rect
    <3>2. px \in CursorNoted
      BY <2>1, <2>2, <3>1 DEF CursorAt, CursorNoted, Opaque, Mouse
    <3> QED BY <3>2, <1>7
  <2>3. CASE Mouse.prev # Now(Mouse)
    <3>1. px \in Unnoted
      BY <2>1, <2>3 DEF Unnoted, Mouse
    <3> QED BY <3>1, <1>11 DEF Trailed
  <2> QED BY <2>2, <2>3
<1>12. ASSUME NEW px \in Display, ~Covers(ls, id, px), ~InRect(px, ls[id].prev), screen'[px] = screen[px]
       PROVE  \/ screen'[px] = CursorPixel /\ px \in trail' \cup CursorNoted'
              \/ \E k \in DOMAIN layers' : Ground(layers', layer_stack', Number', k, px) /\ screen'[px] = Pixel(layers', frame', k, px)
  <2>1. CASE screen[px] = CursorPixel /\ px \in trail \cup CursorNoted
    <3>1. px \in trail => px \in trail'
      BY <2>1, <1>12 DEF Trailed
    <3> QED BY <2>1, <3>1, <1>7, <1>12
  <2>2. ASSUME NEW g \in DOMAIN layers, Ground(layers, layer_stack, Number, g, px), screen[px] = Pixel(layers, frame, g, px)
        PROVE  \E k \in DOMAIN layers' : Ground(layers', layer_stack', Number', k, px) /\ screen'[px] = Pixel(layers', frame', k, px)
    <3>1. g # id
      <4>1. Covers(layers, g, px)
        BY <2>2 DEF Ground
      <4> QED BY <4>1, <1>12 DEF Covers
    <3>2. \A j \in 1 .. n - 1 : layer_stack[j] # id => (Covers(layers, layer_stack[j], px) <=> Covers(ls, layer_stack[j], px))
      <4>1. \A j \in 1 .. n - 1 : j \in 1 .. n
        BY <1>1
      <4>2. \A k \in DOMAIN layers : k # id => (Covers(layers, k, px) <=> Covers(ls, k, px))
        BY CoversSame
      <4> QED BY <4>1, <4>2, <1>1
    <3>3. Ground(ls, r, m, g, px)
      <4> DEFINE s == layer_stack
      <4>1. n \in Nat /\ m \in Nat /\ KeepsOrder(s, n, r, m, id, old) /\ Ground(layers, s, n, g, px)
        BY <1>1, <1>2, <2>2
      <4>2. \A j \in 1 .. n - 1 : s[j] # id => (Covers(layers, s[j], px) <=> Covers(ls, s[j], px))
        BY <3>2
      <4> HIDE DEF s, n, r
      <4> QED BY <4>1, <4>2, <3>1, <1>12, GroundKept
    <3>4. Pixel(ls, frame', g, px) = Pixel(layers, frame, g, px)
      <4>1. ls[g] = layers[g] /\ frame'[g] = frame[g]
        BY <2>2, <3>1
      <4> QED BY <4>1 DEF Pixel
    <3>5. g \in DOMAIN ls
      OBVIOUS
    <3> QED BY <3>3, <3>4, <3>5, <2>2, <1>10, <1>12
  <2> QED BY <2>1, <2>2 DEF ScreenInv
<1>13. ASSUME NEW px \in Display
       PROVE  \/ screen'[px] = CursorPixel /\ px \in trail' \cup CursorNoted'
              \/ \E k \in DOMAIN layers' : Ground(layers', layer_stack', Number', k, px) /\ screen'[px] = Pixel(layers', frame', k, px)
  BY <1>9, <1>10, <1>11, <1>12
<1>14. ASSUME NEW px \in CursorAt(layers') PROVE screen'[px] = CursorPixel
  <2>1. px \in Display /\ Covers(layers', MOUSE_LAYER_ID, px)
    BY DEF CursorAt, Covers
  <2>2. Now(layers'[MOUSE_LAYER_ID]) = Now(ls[MOUSE_LAYER_ID])
    BY <1>5 DEF Mouse
  <2>3. Covers(ls, MOUSE_LAYER_ID, px)
    BY <2>1, <2>2, CoversSame
  <2> QED BY <2>1, <2>3, <1>9
<1> QED BY <1>13, <1>14 DEF ScreenInv

\* update() of a window notes where the window is.
LEMMA UpdatePlace ==
    ASSUME StackInv, PlaceInv,
           NEW K, NEW ls \in [K -> Layer], NEW id \in K, id # MOUSE_LAYER_ID, id # DESKTOP_LAYER_ID,
           K = DOMAIN layers \cup {id},
           \A k \in DOMAIN layers : k # id => ls[k] = layers[k],
           frame'[MOUSE_LAYER_ID] = frame[MOUSE_LAYER_ID], rels' = rels,
           layers' = Settled(ls, id)
    PROVE  /\ PlaceInv' /\ layers' \in [K -> Layer]
           /\ \A k \in DOMAIN layers : k # id => layers'[k] = layers[k]
           /\ layers'[id].x = ls[id].x /\ layers'[id].y = ls[id].y
<1>1. /\ layers' \in [K -> Layer] /\ \A k \in K : Now(layers'[k]) = Now(ls[k])
      /\ \A k \in K : k # id => layers'[k] = ls[k]
      /\ layers'[id].prev = Now(ls[id])
  BY SettledProperties DEF IsSettled
<1>2. \A k \in DOMAIN layers : k # id => layers'[k] = layers[k]
  BY <1>1
<1>3. MOUSE_LAYER_ID \in DOMAIN layers /\ DESKTOP_LAYER_ID \in DOMAIN layers
  <2>1. IsStack(layer_stack, Number) /\ DOMAIN layers = 0 .. Number - 1
    BY DEF StackInv
  <2>2. Number \in Nat /\ Number >= 2
    BY <2>1 DEF IsStack
  <2> QED BY <2>1, <2>2 DEF MOUSE_LAYER_ID, DESKTOP_LAYER_ID
<1>4. Mouse' = Mouse /\ layers'[DESKTOP_LAYER_ID] = layers[DESKTOP_LAYER_ID]
  BY <1>2, <1>3 DEF Mouse
<1>5. ASSUME NEW k \in Windows' PROVE layers'[k].prev = Now(layers'[k])
  <2>1. k \in K /\ k # MOUSE_LAYER_ID /\ k # DESKTOP_LAYER_ID
    BY <1>1 DEF Windows
  <2>2. CASE k = id
    BY <2>1, <2>2, <1>1
  <2>3. CASE k # id
    <3>1. k \in Windows /\ layers'[k] = layers[k]
      BY <2>1, <2>3, <1>2 DEF Windows
    <3> QED BY <3>1 DEF PlaceInv
  <2> QED BY <2>2, <2>3
<1>6. PlaceInv'
  BY <1>4, <1>5 DEF PlaceInv
<1>7. layers'[id].x = ls[id].x /\ layers'[id].y = ls[id].y
  <2>1. Now(layers'[id]).x = layers'[id].x /\ Now(ls[id]).x = ls[id].x /\ Now(layers'[id]).y = layers'[id].y /\ Now(ls[id]).y = ls[id].y
    BY DEF Now, Rect
  <2> QED BY <2>1, <1>1
<1> QED BY <1>1, <1>2, <1>6, <1>7

-----------------------------------------------------------------------------
(***************************************************************************)
(* The actions.                                                            *)
(***************************************************************************)

\* What StackInv says of the layers there are.
LEMMA LayerIds ==
    ASSUME StackInv
    PROVE  /\ Number \in Nat /\ Number >= 2 /\ IsStack(layer_stack, Number)
           /\ DOMAIN layers = 0 .. Number - 1 /\ DOMAIN frame = 0 .. Number - 1
           /\ MOUSE_LAYER_ID \in DOMAIN layers /\ DESKTOP_LAYER_ID \in DOMAIN layers
           /\ \A j \in 1 .. Number : layer_stack[j] \in DOMAIN layers
           /\ Cardinality(DOMAIN layers) = Number
<1>1. IsStack(layer_stack, Number) /\ DOMAIN layers = 0 .. Number - 1 /\ DOMAIN frame = 0 .. Number - 1
  BY DEF StackInv
<1>2. Number \in Nat /\ Number >= 2 /\ \A j \in 1 .. Number : layer_stack[j] \in 0 .. Number - 1
  BY <1>1 DEF IsStack
<1>3. Cardinality(0 .. Number - 1) = Number
  <2> DEFINE a == 0
  <2> DEFINE b == Number - 1
  <2>1. a \in Int /\ b \in Int /\ ~(a > b) /\ b - a + 1 = Number
    BY <1>2
  <2> HIDE DEF a, b
  <2>2. Cardinality(a .. b) = IF a > b THEN 0 ELSE b - a + 1
    BY <2>1, FS_Interval
  <2> QED BY <2>1, <2>2 DEF a, b
<1> QED BY <1>1, <1>2, <1>3 DEF MOUSE_LAYER_ID, DESKTOP_LAYER_ID

LEMMA CreateWindowStep ==
    ASSUME LayersInv, CreateWindow
    PROVE  LayersInv'
<1> DEFINE n == Number
<1> DEFINE m == n + 1
<1> DEFINE r == layer_stack'
<1>0. StackInv /\ PlaceInv /\ HeldInv /\ ScreenInv
  BY DEF LayersInv
<1>1. /\ n \in Nat /\ n >= 2 /\ IsStack(layer_stack, n) /\ DOMAIN layers = 0 .. n - 1 /\ DOMAIN frame = 0 .. n - 1
      /\ MOUSE_LAYER_ID \in DOMAIN layers /\ DESKTOP_LAYER_ID \in DOMAIN layers
      /\ Cardinality(DOMAIN layers) = n
  BY <1>0, LayerIds
<1>2. /\ layers \in [0 .. n - 1 -> Layer] /\ frame \in [0 .. n - 1 -> Int]
      /\ pressed \in [id : 0 .. n - 1, x : Int, y : Int] /\ clicks \in Nat /\ rels \in Nat /\ missed \in BOOLEAN
  BY <1>0 DEF StackInv
<1>3. /\ r = MoveLayer(layer_stack, n, 1) /\ frame' = With(frame, n, 0) /\ trail' = Trailed(Unnoted)
      /\ UNCHANGED <<pressed, clicks, rels, missed>>
      /\ \E place \in Places, size \in Sizes :
              LET created == With(layers, n, NewLayer(place[1], place[2], size[1], size[2] + TitleBar))
              IN  /\ layers' = Settled(created, n)
                  /\ screen' = Update(created, frame', layer_stack', n, screen)
  BY <1>1 DEF CreateWindow
<1>4. PICK place \in Places, size \in Sizes :
              LET created == With(layers, n, NewLayer(place[1], place[2], size[1], size[2] + TitleBar))
              IN  /\ layers' = Settled(created, n)
                  /\ screen' = Update(created, frame', layer_stack', n, screen)
  BY <1>3
<1> DEFINE new == NewLayer(place[1], place[2], size[1], size[2] + TitleBar)
<1> DEFINE ls == With(layers, n, new)
<1>5. layers' = Settled(ls, n) /\ screen' = Update(ls, frame', layer_stack', n, screen)
  BY <1>4
<1>6. new \in Layer
  <2>1. place[1] \in Int /\ place[2] \in Int /\ size[1] \in Int /\ size[2] \in Int /\ TitleBar \in Int
    BY InputAssumption, DisplayAssumption
  <2>2. Rect(0, 0, 0, 0) \in Rectangle
    BY DEF Rect, Rectangle
  <2> QED BY <2>1, <2>2 DEF NewLayer, Layer
<1>7. /\ IsStack(r, m) /\ r[1] = layer_stack[1] /\ r[2] = n /\ \A j \in 3 .. n + 1 : r[j] = layer_stack[j - 1]
  <2> DEFINE s == layer_stack
  <2> DEFINE q == MoveLayer(s, n, 1)
  <2>1. IsStack(s, n)
    BY <1>1
  <2> HIDE DEF s, n
  <2>2. IsStack(q, n + 1) /\ q[1] = s[1] /\ q[2] = n /\ \A j \in 3 .. n + 1 : q[j] = s[j - 1]
    BY <2>1, NewOnStack
  <2> QED BY <2>2, <1>3 DEF s
<1> HIDE DEF new, n
<1>8. /\ ls \in [0 .. m - 1 -> Layer] /\ DOMAIN ls = 0 .. m - 1 /\ ls[n] = new
      /\ \A k \in DOMAIN layers : k # n /\ ls[k] = layers[k]
  <2>1. DOMAIN layers \cup {n} = 0 .. m - 1 /\ n \notin DOMAIN layers
    BY <1>1
  <2>2. ASSUME NEW k \in 0 .. m - 1 PROVE ls[k] \in Layer
    <3>1. k = n \/ k \in 0 .. n - 1
      BY <1>1
    <3> QED BY <3>1, <2>1, <1>2, <1>6 DEF With
  <2> QED BY <2>1, <2>2 DEF With
<1>9. /\ frame' \in [0 .. m - 1 -> Int] /\ \A k \in DOMAIN layers : frame'[k] = frame[k]
  <2>1. DOMAIN frame \cup {n} = 0 .. m - 1 /\ n \notin DOMAIN layers
    BY <1>1
  <2>2. \A k \in 0 .. m - 1 : k = n \/ k \in 0 .. n - 1
    BY <1>1
  <2> QED BY <2>1, <2>2, <1>1, <1>2, <1>3 DEF With
<1>10. n # MOUSE_LAYER_ID /\ n # DESKTOP_LAYER_ID /\ n \notin DOMAIN layers /\ 2 \in 2 .. m - 1
       /\ m - 1 = n /\ 0 .. m - 1 = DOMAIN layers \cup {n} /\ n \in 0 .. m - 1 /\ DOMAIN layers \subseteq 0 .. m - 1
  BY <1>1 DEF MOUSE_LAYER_ID, DESKTOP_LAYER_ID
<1> DEFINE old == [j \in 1 .. n |-> IF j = 1 THEN 1 ELSE j - 1]
<1>11. KeepsOrder(layer_stack, n, r, m, n, old)
  <2>1. \A j \in 1 .. n : layer_stack[j] # n
    BY <1>1 DEF IsStack
  <2>2. ASSUME NEW j \in 1 .. m - 1, r[j] # n
        PROVE  old[j] \in 1 .. n - 1 /\ r[j] = layer_stack[old[j]]
    <3>1. j = 1 \/ j \in 3 .. n
      BY <2>2, <1>1, <1>7
    <3> QED BY <3>1, <1>1, <1>7
  <2>3. ASSUME NEW i \in 1 .. m - 1, NEW j \in 1 .. m - 1, i < j, r[i] # n, r[j] # n
        PROVE  old[i] < old[j]
    <3>1. (i = 1 \/ i \in 3 .. n) /\ j \in 3 .. n
      BY <2>3, <1>1, <1>7
    <3> QED BY <2>3, <3>1, <1>1
  <2>4. ASSUME NEW q \in 1 .. n - 1 PROVE \E j \in 1 .. m - 1 : r[j] # n /\ old[j] = q
    <3>1. CASE q = 1
      <4>1. 1 \in 1 .. m - 1 /\ old[1] = 1 /\ r[1] # n
        BY <2>1, <1>1, <1>7
      <4> QED BY <3>1, <4>1
    <3>2. CASE q # 1
      <4>1. q + 1 \in 1 .. m - 1 /\ old[q + 1] = q /\ q + 1 \in 3 .. n + 1 /\ (q + 1) - 1 = q /\ q \in 1 .. n
        BY <3>2, <1>1
      <4>2. r[q + 1] # n
        BY <4>1, <2>1, <1>7
      <4> QED BY <4>1, <4>2
    <3> QED BY <3>1, <3>2
  <2> HIDE DEF old, m
  <2> QED BY <2>2, <2>3, <2>4 DEF KeepsOrder
<1> HIDE DEF old, m, ls
<1>12. PlaceInv' /\ layers' \in [0 .. m - 1 -> Layer] /\ \A k \in DOMAIN layers : layers'[k] = layers[k]
  <2> DEFINE K == 0 .. m - 1
  <2>1. /\ ls \in [K -> Layer] /\ n \in K /\ K = DOMAIN layers \cup {n}
        /\ frame'[MOUSE_LAYER_ID] = frame[MOUSE_LAYER_ID] /\ rels' = rels
        /\ \A k \in DOMAIN layers : k # n => ls[k] = layers[k]
    BY <1>1, <1>3, <1>8, <1>9, <1>10
  <2> HIDE DEF K
  <2>2. PlaceInv' /\ layers' \in [K -> Layer] /\ \A k \in DOMAIN layers : k # n => layers'[k] = layers[k]
    BY <2>1, <1>0, <1>5, <1>10, UpdatePlace
  <2> QED BY <2>2, <1>10 DEF K
<1>13. Number' = m
  BY <1>7 DEF Number, IsStack
<1>14. StackInv'
  <2>1. pressed' \in [id : 0 .. m - 1, x : Int, y : Int]
    BY <1>1, <1>2, <1>3, <1>10
  <2> QED BY <2>1, <1>2, <1>3, <1>7, <1>9, <1>12, <1>13 DEF StackInv
<1>15. HeldInv'
  <2>1. pressed.id \in DOMAIN layers
    BY <1>1, <1>2
  <2>2. layers'[pressed.id] = layers[pressed.id]
    BY <2>1, <1>12
  <2>3. pressed.id \in Windows' => pressed.id \in Windows
    BY <2>1 DEF Windows
  <2> QED BY <2>2, <2>3, <1>0, <1>3 DEF HeldInv
<1>16. ScreenInv'
  <2> DEFINE i == 2
  <2>1. i \in 2 .. m - 1 /\ n = layer_stack'[i]
    BY <1>7, <1>10
  <2>2. \A k \in DOMAIN layers : k # n => ls[k] = layers[k] /\ frame'[k] = frame[k]
    BY <1>8, <1>9
  <2>3. n \in DOMAIN layers => ls[n].prev = Now(layers[n])
    BY <1>10
  <2>4. KeepsOrder(layer_stack, Number, layer_stack', m, n, old) /\ IsStack(layer_stack', m)
    BY <1>7, <1>11 DEF n
  <2>5. DOMAIN layers \subseteq DOMAIN ls
    BY <1>8, <1>10
  <2> HIDE DEF i
  <2>6. Refresh(ls, m, i, n, old)
    BY <2>1, <2>2, <2>3, <2>4, <2>5, <1>3, <1>5, <1>8 DEF Refresh
  <2> QED BY <2>6, <1>0, UpdateScreen
<1> QED BY <1>12, <1>14, <1>15, <1>16 DEF LayersInv

\* The part of the invariant that every update() of a window keeps.
LEMMA RefreshStep ==
    ASSUME StackInv, PlaceInv, ScreenInv,
           NEW ls, NEW i, NEW id, NEW old, Refresh(ls, Number, i, id, old), id \in Windows,
           frame' \in [0 .. Number - 1 -> Int],
           pressed' \in [id : 0 .. Number - 1, x : Int, y : Int],
           clicks' \in Nat, rels' = rels, missed' \in BOOLEAN
    PROVE  /\ StackInv' /\ PlaceInv' /\ ScreenInv' /\ Windows' = Windows
           /\ \A k \in DOMAIN layers : k # id => layers'[k] = layers[k]
           /\ layers'[id].x = ls[id].x /\ layers'[id].y = ls[id].y
<1> DEFINE K == 0 .. Number - 1
<1>1. ScreenInv'
  BY UpdateScreen
<1>2. /\ IsStack(layer_stack', Number) /\ ls \in [K -> Layer]
      /\ \A k \in DOMAIN layers : k # id => ls[k] = layers[k] /\ frame'[k] = frame[k]
      /\ layers' = Settled(ls, id)
  BY DEF Refresh
<1>3. /\ id \in DOMAIN layers /\ id # MOUSE_LAYER_ID /\ id # DESKTOP_LAYER_ID
      /\ DOMAIN layers = K /\ MOUSE_LAYER_ID \in DOMAIN layers
  BY LayerIds DEF Windows
<1> HIDE DEF K
<1>4. id \in K /\ K = DOMAIN layers \cup {id} /\ frame'[MOUSE_LAYER_ID] = frame[MOUSE_LAYER_ID]
      /\ \A k \in DOMAIN layers : k # id => ls[k] = layers[k]
  BY <1>2, <1>3
<1>5. /\ PlaceInv' /\ layers' \in [K -> Layer]
      /\ \A k \in DOMAIN layers : k # id => layers'[k] = layers[k]
      /\ layers'[id].x = ls[id].x /\ layers'[id].y = ls[id].y
  BY <1>2, <1>3, <1>4, UpdatePlace
<1>6. Number' = Number
  BY <1>2 DEF IsStack, Number
<1>7. rels' \in Nat
  BY DEF StackInv
<1>8. StackInv'
  BY <1>2, <1>5, <1>6, <1>7 DEF StackInv, K
<1>9. Windows' = Windows
  BY <1>3, <1>5 DEF Windows
<1> QED BY <1>1, <1>5, <1>8, <1>9

LEMMA WindowPosition ==
    ASSUME StackInv, NEW id \in Windows
    PROVE  \E i \in 2 .. Number - 1 : layer_stack[i] = id
<1> DEFINE n == Number
<1>1. IsStack(layer_stack, n) /\ id \in 0 .. n - 1 /\ id # MOUSE_LAYER_ID /\ id # DESKTOP_LAYER_ID
  BY LayerIds DEF Windows
<1>2. PICK i \in 1 .. n : layer_stack[i] = id
  BY <1>1 DEF IsStack
<1>3. n \in Nat /\ i # 1 /\ i # n
  BY <1>1, <1>2 DEF IsStack
<1> HIDE DEF n
<1>4. i \in 2 .. n - 1
  BY <1>3
<1> QED BY <1>2, <1>4 DEF n

LEMMA SameOrder ==
    ASSUME NEW s, NEW n, NEW id
    PROVE  KeepsOrder(s, n, s, n, id, [j \in 1 .. n - 1 |-> j])
BY DEF KeepsOrder

LEMMA SyncWindowStep ==
    ASSUME LayersInv, SyncWindow
    PROVE  LayersInv'
<1>0. StackInv /\ PlaceInv /\ HeldInv /\ ScreenInv
  BY DEF LayersInv
<1>1. PICK id \in Windows : /\ frame' = [frame EXCEPT ![id] = 1 - @]
                            /\ layers' = Settled(layers, id)
                            /\ screen' = Update(layers, frame', layer_stack, id, screen)
                            /\ trail' = Trailed(Unnoted)
                            /\ UNCHANGED <<layer_stack, pressed, clicks, rels, missed>>
  BY DEF SyncWindow
<1>2. PICK i \in 2 .. Number - 1 : layer_stack[i] = id
  BY <1>0, WindowPosition
<1>3. /\ layers \in [0 .. Number - 1 -> Layer] /\ frame \in [0 .. Number - 1 -> Int]
      /\ pressed \in [id : 0 .. Number - 1, x : Int, y : Int] /\ clicks \in Nat /\ missed \in BOOLEAN
      /\ IsStack(layer_stack, Number) /\ id \in 0 .. Number - 1 /\ pressed.id \in DOMAIN layers
  BY <1>0 DEF StackInv, Windows
<1>4. frame' \in [0 .. Number - 1 -> Int] /\ \A k \in DOMAIN layers : k # id => frame'[k] = frame[k]
  <2>1. 1 - frame[id] \in Int
    BY <1>3
  <2> QED BY <2>1, <1>1, <1>3
<1> DEFINE old == [j \in 1 .. Number - 1 |-> j]
<1>5. KeepsOrder(layer_stack, Number, layer_stack, Number, id, old)
  BY SameOrder
<1> HIDE DEF old
<1>6. Refresh(layers, Number, i, id, old)
  <2>1. layers[id].prev = Now(layers[id])
    BY <1>0 DEF PlaceInv
  <2>2. IsStack(layer_stack', Number) /\ KeepsOrder(layer_stack, Number, layer_stack', Number, id, old)
    BY <1>1, <1>3, <1>5
  <2>3. id = layer_stack'[i] /\ screen' = Update(layers, frame', layer_stack', id, screen)
    BY <1>1, <1>2
  <2> QED BY <2>1, <2>2, <2>3, <1>1, <1>2, <1>3, <1>4 DEF Refresh
<1>7. /\ StackInv' /\ PlaceInv' /\ ScreenInv' /\ Windows' = Windows
      /\ \A k \in DOMAIN layers : k # id => layers'[k] = layers[k]
      /\ layers'[id].x = layers[id].x /\ layers'[id].y = layers[id].y
  BY <1>0, <1>1, <1>3, <1>4, <1>6, RefreshStep
<1>8. HeldInv'
  <2>1. layers'[pressed.id].x = layers[pressed.id].x /\ layers'[pressed.id].y = layers[pressed.id].y
    BY <1>3, <1>7
  <2> QED BY <2>1, <1>0, <1>1, <1>7 DEF HeldInv
<1> QED BY <1>7, <1>8 DEF LayersInv

\* A window that is dragged.
LEMMA MouseLeftReleaseStep ==
    ASSUME LayersInv, MouseLeftRelease
    PROVE  LayersInv'
<1> DEFINE id == pressed.id
<1> DEFINE to == Drop(layers[id], Mouse.x, Mouse.y)
<1> DEFINE moved == MoveAbs(layers, id, to[1], to[2])
<1> DEFINE dragged == id \in Windows /\ pressed.y <= layers[id].y + TitleBar
<1>0. StackInv /\ PlaceInv /\ HeldInv /\ ScreenInv
  BY DEF LayersInv
<1>1. /\ clicks < MaxClicks /\ clicks % 2 = 1 /\ clicks' = clicks + 1
      /\ \/ /\ dragged
            /\ layers' = Settled(moved, id)
            /\ screen' = Update(moved, frame, layer_stack, id, screen)
            /\ trail' = Trailed(Unnoted)
         \/ ~dragged /\ UNCHANGED <<layers, screen, trail>>
      /\ UNCHANGED <<layer_stack, pressed, frame, rels, missed>>
  BY DEF MouseLeftRelease, Mouse
<1>2. /\ layers \in [0 .. Number - 1 -> Layer] /\ frame \in [0 .. Number - 1 -> Int]
      /\ pressed \in [id : 0 .. Number - 1, x : Int, y : Int] /\ clicks \in Nat /\ rels \in Nat /\ missed \in BOOLEAN
      /\ IsStack(layer_stack, Number) /\ id \in 0 .. Number - 1
  BY <1>0 DEF StackInv
<1>3. clicks' \in Nat /\ clicks' % 2 # 1
  BY <1>1, <1>2
<1>4. HeldInv'
  BY <1>3 DEF HeldInv
<1>5. CASE dragged
  <2> HIDE DEF dragged, moved, id, to
  <2>0. /\ layers' = Settled(moved, id) /\ screen' = Update(moved, frame, layer_stack, id, screen)
        /\ trail' = Trailed(Unnoted) /\ id \in Windows
        /\ UNCHANGED <<layer_stack, pressed, frame, rels, missed>>
    BY <1>1, <1>5 DEF dragged
  <2>1. PICK i \in 2 .. Number - 1 : layer_stack[i] = id
    BY <2>0, <1>0, WindowPosition
  <2>2. to[1] \in Int /\ to[2] \in Int
    <3>1. Mouse.x \in Int /\ Mouse.y \in Int /\ layers[id].x \in Int /\ layers[id].y \in Int
      <4>1. MOUSE_LAYER_ID \in 0 .. Number - 1
        BY <1>0, LayerIds
      <4> QED BY <4>1, <1>2 DEF Mouse, Layer
    <3>2. to = <<Mouse.x - (pressed.x - layers[id].x), Mouse.y - (pressed.y - layers[id].y)>>
      BY DEF to, Drop
    <3>3. pressed.x \in Int /\ pressed.y \in Int
      BY <1>2
    <3>4. to[1] = Mouse.x - (pressed.x - layers[id].x) /\ to[2] = Mouse.y - (pressed.y - layers[id].y)
      BY <3>2
    <3> QED BY <3>1, <3>3, <3>4
  <2>3. /\ moved \in [0 .. Number - 1 -> Layer] /\ \A k \in DOMAIN layers : k # id => moved[k] = layers[k]
        /\ moved[id].prev = layers[id].prev
    <3> DEFINE l == [layers[id] EXCEPT !.x = Clamp(to[1], Width), !.y = Clamp(to[2], Height)]
    <3>1. moved = [layers EXCEPT ![id] = l]
      BY <1>2 DEF moved, MoveAbs
    <3>2. Clamp(to[1], Width) \in Int /\ Clamp(to[2], Height) \in Int
      BY <2>2, DisplayAssumption DEF Clamp
    <3>3. l \in Layer /\ l.prev = layers[id].prev
      BY <3>2, <1>2 DEF Layer
    <3> HIDE DEF l
    <3> QED BY <3>1, <3>3, <1>2
  <2> DEFINE old == [j \in 1 .. Number - 1 |-> j]
  <2>4. KeepsOrder(layer_stack, Number, layer_stack, Number, id, old)
    BY SameOrder
  <2> HIDE DEF old
  <2>5. Refresh(moved, Number, i, id, old)
    <3>1. moved[id].prev = Now(layers[id])
      BY <2>0, <2>3, <1>0 DEF PlaceInv
    <3>2. IsStack(layer_stack', Number) /\ KeepsOrder(layer_stack, Number, layer_stack', Number, id, old)
      BY <2>0, <2>4, <1>2
    <3>3. id = layer_stack'[i] /\ screen' = Update(moved, frame', layer_stack', id, screen)
      BY <2>0, <2>1
    <3>4. \A k \in DOMAIN layers : k # id => moved[k] = layers[k] /\ frame'[k] = frame[k]
      BY <2>0, <2>3
    <3> QED BY <3>1, <3>2, <3>3, <3>4, <2>0, <2>1, <2>3, <1>2 DEF Refresh
  <2>6. StackInv' /\ PlaceInv' /\ ScreenInv'
    <3>1. frame' \in [0 .. Number - 1 -> Int] /\ pressed' \in [id : 0 .. Number - 1, x : Int, y : Int] /\ missed' \in BOOLEAN
      BY <2>0, <1>2
    <3> QED BY <3>1, <2>0, <2>5, <1>0, <1>3, RefreshStep
  <2> QED BY <2>6, <1>4 DEF LayersInv
<1>6. CASE ~dragged
  <2>1. UNCHANGED <<layers, screen, trail, layer_stack, pressed, frame, rels, missed>>
    BY <1>1, <1>6
  <2>2. StackInv' /\ PlaceInv' /\ ScreenInv'
    <3>1. Number' = Number /\ Mouse' = Mouse /\ Windows' = Windows /\ CursorNoted' = CursorNoted
      BY <2>1 DEF Number, Mouse, Windows, CursorNoted
    <3>2. StackInv'
      BY <3>1, <2>1, <1>0, <1>3 DEF StackInv
    <3>3. PlaceInv'
      BY <3>1, <2>1, <1>0 DEF PlaceInv
    <3>4. ScreenInv'
      BY <3>1, <2>1, <1>0 DEF ScreenInv
    <3> QED BY <3>2, <3>3, <3>4
  <2> QED BY <2>2, <1>4 DEF LayersInv
<1> QED BY <1>5, <1>6

\* The cursor is moved and not drawn: the layers below it stay as they are.
LEMMA MouseRelStep ==
    ASSUME LayersInv, MouseRel
    PROVE  LayersInv'
<1> DEFINE n == Number
<1>0. StackInv /\ PlaceInv /\ HeldInv /\ ScreenInv
  BY DEF LayersInv
<1>1. PICK d \in Moves : layers' = MoveRel(layers, MOUSE_LAYER_ID, d[1], d[2])
  BY DEF MouseRel
<1>2. rels' = rels + 1 /\ UNCHANGED <<layer_stack, pressed, frame, screen, clicks, missed, trail>>
  BY DEF MouseRel
<1>3. /\ n \in Nat /\ layers \in [0 .. n - 1 -> Layer] /\ frame \in [0 .. n - 1 -> Int]
      /\ pressed \in [id : 0 .. n - 1, x : Int, y : Int] /\ clicks \in Nat /\ rels \in Nat /\ missed \in BOOLEAN
      /\ IsStack(layer_stack, n) /\ MOUSE_LAYER_ID \in 0 .. n - 1 /\ DESKTOP_LAYER_ID \in 0 .. n - 1
      /\ DOMAIN layers = 0 .. n - 1
  BY <1>0, LayerIds DEF StackInv
<1> DEFINE x == Clamp(Mouse.x + d[1], Width)
<1> DEFINE y == Clamp(Mouse.y + d[2], Height)
<1> DEFINE l == [Mouse EXCEPT !.x = x, !.y = y]
<1>4. Mouse \in Layer /\ Mouse.x \in Int /\ Mouse.y \in Int /\ d[1] \in Int /\ d[2] \in Int
  <2>1. Mouse \in Layer
    BY <1>3 DEF Mouse
  <2>2. d[1] \in Int /\ d[2] \in Int
    BY InputAssumption
  <2> QED BY <2>1, <2>2 DEF Layer
<1>5. x \in Int /\ y \in Int /\ x <= Width /\ y <= Height
  BY <1>4, DisplayAssumption DEF Clamp
<1>6. layers' = [layers EXCEPT ![MOUSE_LAYER_ID] = l]
  BY <1>1, <1>3 DEF MoveRel, MoveAbs, Mouse
<1> HIDE DEF x, y, n
<1>7. l \in Layer /\ l.x = x /\ l.y = y /\ l.prev = Mouse.prev
  BY <1>4, <1>5 DEF Layer
<1> HIDE DEF l
<1>8. /\ layers' \in [0 .. n - 1 -> Layer] /\ DOMAIN layers' = DOMAIN layers /\ Mouse' = l
      /\ \A k \in DOMAIN layers : k # MOUSE_LAYER_ID => layers'[k] = layers[k]
  BY <1>3, <1>6, <1>7 DEF Mouse
<1>9. Number' = n /\ Windows' = Windows /\ CursorNoted' = CursorNoted /\ rels' \in Nat /\ rels' # 0
  <2>1. Number' = n
    BY <1>2 DEF Number, n
  <2>2. Windows' = Windows
    BY <1>8 DEF Windows
  <2>3. CursorNoted' = CursorNoted
    BY <1>7, <1>8 DEF CursorNoted
  <2>4. rels' \in Nat /\ rels' # 0
    BY <1>2, <1>3
  <2> QED BY <2>1, <2>2, <2>3, <2>4
<1>10. StackInv'
  BY <1>2, <1>3, <1>8, <1>9 DEF StackInv
<1>11. PlaceInv'
  <2>1. \A k \in Windows : layers'[k] = layers[k]
    BY <1>8 DEF Windows
  <2>2. layers'[DESKTOP_LAYER_ID] = layers[DESKTOP_LAYER_ID]
    BY <1>3, <1>8 DEF DESKTOP_LAYER_ID, MOUSE_LAYER_ID
  <2>3. Mouse'.x <= Width /\ Mouse'.y <= Height
    BY <1>5, <1>7, <1>8
  <2> QED BY <2>1, <2>2, <2>3, <1>0, <1>2, <1>9 DEF PlaceInv
<1>12. HeldInv'
  <2>1. pressed.id \in Windows => layers'[pressed.id] = layers[pressed.id]
    BY <1>8 DEF Windows
  <2> QED BY <2>1, <1>0, <1>2, <1>9 DEF HeldInv
<1>13. ScreenInv'
  <2>1. ASSUME NEW px \in Display, NEW g \in DOMAIN layers, Ground(layers, layer_stack, n, g, px), screen[px] = Pixel(layers, frame, g, px)
        PROVE  Ground(layers', layer_stack, n, g, px) /\ screen[px] = Pixel(layers', frame, g, px)
    <3>1. \A j \in 1 .. n - 1 : layer_stack[j] \in DOMAIN layers /\ layer_stack[j] # MOUSE_LAYER_ID
      <4>1. \A i, j \in 1 .. n : layer_stack[i] = layer_stack[j] => i = j
        BY <1>3 DEF IsStack
      <4>2. layer_stack[n] = MOUSE_LAYER_ID /\ (\A j \in 1 .. n : layer_stack[j] \in 0 .. n - 1) /\ n >= 2
        BY <1>3 DEF IsStack
      <4>3. \A j \in 1 .. n - 1 : j \in 1 .. n /\ n \in 1 .. n /\ j # n
        BY <4>2, <1>3
      <4> QED BY <4>1, <4>2, <4>3, <1>3
    <3>2. \A j \in 1 .. n - 1 : layers'[layer_stack[j]] = layers[layer_stack[j]]
      BY <3>1, <1>8
    <3>3. \A j \in 1 .. n - 1 : Covers(layers', layer_stack[j], px) <=> Covers(layers, layer_stack[j], px)
      BY <3>2 DEF Covers, Opaque
    <3>4. PICK q \in 1 .. n - 1 : /\ layer_stack[q] = g /\ Covers(layers, g, px)
                                  /\ \A j \in q + 1 .. n - 1 : ~Covers(layers, layer_stack[j], px)
      BY <2>1 DEF Ground
    <3>5. \A j \in q + 1 .. n - 1 : j \in 1 .. n - 1
      BY <1>3
    <3>6. Ground(layers', layer_stack, n, g, px)
      BY <3>3, <3>4, <3>5 DEF Ground
    <3>7. layers'[g] = layers[g]
      BY <3>2, <3>4
    <3>8. Pixel(layers', frame, g, px) = Pixel(layers, frame, g, px)
      BY <3>7 DEF Pixel
    <3> QED BY <3>6, <3>8, <2>1
  <2>2. ASSUME NEW px \in Display
        PROVE  \/ screen'[px] = CursorPixel /\ px \in trail' \cup CursorNoted'
               \/ \E k \in DOMAIN layers' : Ground(layers', layer_stack', Number', k, px) /\ screen'[px] = Pixel(layers', frame', k, px)
    <3>1. CASE screen[px] = CursorPixel /\ px \in trail \cup CursorNoted
      BY <3>1, <1>2, <1>9
    <3>2. CASE \E g \in DOMAIN layers : Ground(layers, layer_stack, n, g, px) /\ screen[px] = Pixel(layers, frame, g, px)
      <4>1. PICK g \in DOMAIN layers : Ground(layers, layer_stack, n, g, px) /\ screen[px] = Pixel(layers, frame, g, px)
        BY <3>2
      <4>2. Ground(layers', layer_stack, n, g, px) /\ screen[px] = Pixel(layers', frame, g, px)
        BY <4>1, <2>1
      <4> QED BY <4>2, <1>2, <1>8, <1>9
    <3> QED BY <3>1, <3>2, <1>0 DEF ScreenInv, n
  <2> QED BY <2>2, <1>9 DEF ScreenInv
<1> QED BY <1>10, <1>11, <1>12, <1>13 DEF LayersInv

\* EV_SYN: the cursor is removed from where it was noted and drawn where it is.
LEMMA MouseSynStep ==
    ASSUME LayersInv, MouseSyn
    PROVE  LayersInv'
<1> DEFINE n == Number
<1> DEFINE K == 0 .. n - 1
<1>0. StackInv /\ PlaceInv /\ HeldInv /\ ScreenInv
  BY DEF LayersInv
<1>1. /\ layers' = Settled(layers, MOUSE_LAYER_ID)
      /\ screen' = Update(layers, frame, layer_stack, MOUSE_LAYER_ID, screen)
      /\ trail' = Trailed({}) /\ rels' = 0
      /\ UNCHANGED <<layer_stack, pressed, frame, clicks, missed>>
  BY DEF MouseSyn
<1>2. /\ n \in Nat /\ n >= 2 /\ layers \in [K -> Layer] /\ frame \in [K -> Int]
      /\ pressed \in [id : K, x : Int, y : Int] /\ clicks \in Nat /\ missed \in BOOLEAN
      /\ IsStack(layer_stack, n) /\ MOUSE_LAYER_ID \in K /\ DESKTOP_LAYER_ID \in K
      /\ DOMAIN layers = K
  BY <1>0, LayerIds DEF StackInv
<1>3. IsSettled(layers', layers, MOUSE_LAYER_ID, K)
  <2> HIDE DEF K
  <2> QED BY <1>1, <1>2, SettledProperties
<1>4. /\ layers' \in [K -> Layer] /\ DOMAIN layers' = K /\ \A k \in K : Now(layers'[k]) = Now(layers[k])
      /\ \A k \in K : k # MOUSE_LAYER_ID => layers'[k] = layers[k]
      /\ Mouse'.prev = Now(Mouse)
  <2> HIDE DEF K
  <2> QED BY <1>3 DEF IsSettled, Mouse
<1>5. Now(Mouse') = Now(Mouse) /\ Mouse'.x = Mouse.x /\ Mouse'.y = Mouse.y
  <2>1. Now(Mouse') = Now(Mouse)
    BY <1>2, <1>4 DEF Mouse
  <2>2. Now(Mouse').x = Mouse'.x /\ Now(Mouse).x = Mouse.x /\ Now(Mouse').y = Mouse'.y /\ Now(Mouse).y = Mouse.y
    BY DEF Now, Rect
  <2> QED BY <2>1, <2>2
<1>6. Number' = n /\ Windows' = Windows
  BY <1>1, <1>2, <1>4 DEF Number, Windows
<1>7. StackInv'
  BY <1>1, <1>2, <1>4, <1>6 DEF StackInv
<1>8. PlaceInv'
  <2>1. \A k \in Windows : layers'[k] = layers[k]
    BY <1>2, <1>4 DEF Windows
  <2>2. layers'[DESKTOP_LAYER_ID] = layers[DESKTOP_LAYER_ID]
    BY <1>2, <1>4 DEF DESKTOP_LAYER_ID, MOUSE_LAYER_ID
  <2> QED BY <2>1, <2>2, <1>0, <1>1, <1>4, <1>5, <1>6 DEF PlaceInv
<1>9. HeldInv'
  <2>1. pressed.id \in Windows => layers'[pressed.id] = layers[pressed.id]
    BY <1>2, <1>4 DEF Windows
  <2> QED BY <2>1, <1>0, <1>1, <1>6 DEF HeldInv
<1>10. \A px \in Display : Covers(layers, DESKTOP_LAYER_ID, px)
  <2>1. \A px \in Display : InRect(px, Rect(0, 0, Width, Height))
    BY DisplayAssumption DEF Display, InRect, Rect
  <2>2. Now(layers[DESKTOP_LAYER_ID]) = Rect(0, 0, Width, Height)
    BY <1>0 DEF PlaceInv
  <2> QED BY <2>1, <2>2 DEF Covers, Opaque, DESKTOP_LAYER_ID, MOUSE_LAYER_ID
<1>11. ASSUME NEW px \in Display
       PROVE  Redrawn(screen', layers, frame, layer_stack, n, MOUSE_LAYER_ID, screen, px)
  <2>1. n \in 1 .. n /\ layer_stack[n] = MOUSE_LAYER_ID
    BY <1>2 DEF IsStack
  <2>2. Covers(layers, DESKTOP_LAYER_ID, px) /\ frame[MOUSE_LAYER_ID] = 0 /\ DOMAIN layers = 0 .. n - 1 /\ IsStack(layer_stack, n)
    BY <1>0, <1>2, <1>10 DEF PlaceInv
  <2> HIDE DEF n
  <2>3. Redrawn(Update(layers, frame, layer_stack, layer_stack[n], screen), layers, frame, layer_stack, n, layer_stack[n], screen, px)
    BY <2>1, <2>2, UpdateGround
  <2> QED BY <2>1, <2>3, <1>1
<1>12. \A px \in Display : Covers(layers, MOUSE_LAYER_ID, px) <=> px \in CursorNoted'
  <2>1. \A px \in Display : px \in CursorNoted' <=>
            InRect(px, Mouse'.prev) /\ <<px[1] - Mouse'.prev.x, px[2] - Mouse'.prev.y>> \in MouseShape
    BY DEF CursorNoted
  <2>2. Mouse'.prev.x = Mouse.x /\ Mouse'.prev.y = Mouse.y
    BY <1>4 DEF Now, Rect
  <2> QED BY <2>1, <2>2, <1>4 DEF Covers, Opaque, Mouse
<1>13. \A px \in Display : Covers(layers, MOUSE_LAYER_ID, px) <=> px \in CursorAt(layers')
  <2>1. layers'[MOUSE_LAYER_ID].x = layers[MOUSE_LAYER_ID].x /\ layers'[MOUSE_LAYER_ID].y = layers[MOUSE_LAYER_ID].y
        /\ Now(layers'[MOUSE_LAYER_ID]) = Now(layers[MOUSE_LAYER_ID])
    BY <1>5 DEF Mouse
  <2> QED BY <2>1 DEF CursorAt, Covers, Opaque
<1>14. ASSUME NEW px \in Display, NEW g \in DOMAIN layers, Ground(layers, layer_stack, n, g, px), screen'[px] = Pixel(layers, frame, g, px)
       PROVE  \E k \in DOMAIN layers' : Ground(layers', layer_stack', Number', k, px) /\ screen'[px] = Pixel(layers', frame', k, px)
  <2>1. Ground(layers', layer_stack, n, g, px)
    <3>1. \A k \in 0 .. n - 1 : Now(layers[k]) = Now(layers'[k])
      BY <1>4
    <3> QED BY <3>1, <1>2, <1>14, GroundSame
  <2>2. Pixel(layers', frame, g, px) = Pixel(layers, frame, g, px)
    <3>1. Now(layers[g]).y = layers[g].y /\ Now(layers'[g]).y = layers'[g].y
      BY DEF Now, Rect
    <3>2. layers[g].y = layers'[g].y
      BY <1>2, <1>4, <3>1
    <3> QED BY <3>2 DEF Pixel
  <2> QED BY <2>1, <2>2, <1>1, <1>2, <1>4, <1>6, <1>14
<1>15. ASSUME NEW px \in Display, ~InRect(px, Mouse.prev), screen'[px] = screen[px]
       PROVE  \/ screen'[px] = CursorPixel /\ px \in trail' \cup CursorNoted'
              \/ \E k \in DOMAIN layers' : Ground(layers', layer_stack', Number', k, px) /\ screen'[px] = Pixel(layers', frame', k, px)
  <2>1. CASE screen[px] = CursorPixel /\ px \in trail \cup CursorNoted
    <3>1. px \in trail
      BY <2>1, <1>15 DEF CursorNoted
    <3>2. px \in trail'
      BY <3>1, <2>1, <1>1, <1>15 DEF Trailed
    <3> QED BY <3>2, <2>1, <1>15
  <2>2. CASE \E g \in DOMAIN layers : Ground(layers, layer_stack, n, g, px) /\ screen[px] = Pixel(layers, frame, g, px)
    <3>1. PICK g \in DOMAIN layers : Ground(layers, layer_stack, n, g, px) /\ screen[px] = Pixel(layers, frame, g, px)
      BY <2>2
    <3> QED BY <3>1, <1>14, <1>15
  <2> QED BY <2>1, <2>2, <1>0 DEF ScreenInv
<1>16. ASSUME NEW px \in Display
       PROVE  \/ screen'[px] = CursorPixel /\ px \in trail' \cup CursorNoted'
              \/ \E k \in DOMAIN layers' : Ground(layers', layer_stack', Number', k, px) /\ screen'[px] = Pixel(layers', frame', k, px)
  <2>1. Redrawn(screen', layers, frame, layer_stack, n, MOUSE_LAYER_ID, screen, px)
    BY <1>11
  <2>2. CASE Covers(layers, MOUSE_LAYER_ID, px) /\ screen'[px] = CursorPixel
    BY <2>2, <1>12
  <2>3. CASE \E g \in DOMAIN layers : Ground(layers, layer_stack, n, g, px) /\ screen'[px] = Pixel(layers, frame, g, px)
    BY <2>3, <1>14
  <2>4. CASE ~InRect(px, layers[MOUSE_LAYER_ID].prev) /\ screen'[px] = screen[px]
    BY <2>4, <1>15 DEF Mouse
  <2> QED BY <2>1, <2>2, <2>3, <2>4 DEF Redrawn
<1>17. ASSUME NEW px \in CursorAt(layers') PROVE screen'[px] = CursorPixel
  <2>1. px \in Display
    BY DEF CursorAt
  <2>2. Covers(layers, MOUSE_LAYER_ID, px)
    BY <2>1, <1>13
  <2> QED BY <2>1, <2>2, <1>11 DEF Redrawn
<1>18. ScreenInv'
  BY <1>16, <1>17 DEF ScreenInv
<1> QED BY <1>7, <1>8, <1>9, <1>18 DEF LayersInv

LEMMA MaxProperties ==
    ASSUME NEW n \in Nat, NEW S \in SUBSET (0 .. n), S # {}
    PROVE  Max(S) \in S /\ \A y \in S : Max(S) >= y
<1> DEFINE T == {k \in Nat : n - k \in S}
<1>1. T \in SUBSET Nat /\ T # {}
  <2>1. PICK x \in S : TRUE
    OBVIOUS
  <2>2. n - x \in Nat /\ n - (n - x) = x
    OBVIOUS
  <2> QED BY <2>1, <2>2
<1> HIDE DEF T
<1>2. PICK k \in T : \A y \in T : k <= y
  BY <1>1, D!LeastNatural
<1>3. n - k \in S /\ k \in Nat
  BY <1>2 DEF T
<1>4. ASSUME NEW y \in S PROVE n - k >= y
  <2>1. n - y \in Nat /\ n - (n - y) = y
    OBVIOUS
  <2>2. n - y \in T
    BY <2>1 DEF T
  <2>3. k <= n - y
    BY <2>2, <1>2
  <2> QED BY <2>1, <2>3, <1>3
<1>5. \E x \in S : \A y \in S : x >= y
  BY <1>3, <1>4
<1> QED BY <1>5 DEF Max

LEMMA MaxIs ==
    ASSUME NEW n \in Nat, NEW S \in SUBSET (0 .. n), NEW x \in S, \A y \in S : y <= x
    PROVE  Max(S) = x
<1>1. Max(S) \in S /\ Max(S) >= x
  BY MaxProperties
<1> DEFINE m == Max(S)
<1>2. m \in S /\ m >= x
  BY <1>1
<1> HIDE DEF m
<1>3. m <= x /\ m \in Int /\ x \in Int
  BY <1>2
<1> QED BY <1>2, <1>3 DEF m

\* The others keep their order when a window is raised.
LEMMA RaisedOrder ==
    ASSUME NEW s, NEW n, IsStack(s, n), NEW k \in 2 .. n - 1, NEW r, IsStack(r, n),
           \A j \in 1 .. n : r[j] = s[Lowered(n, k, j)]
    PROVE  /\ r[n - 1] = s[k]
           /\ KeepsOrder(s, n, r, n, s[k], [j \in 1 .. n - 1 |-> Lowered(n, k, j)])
<1> DEFINE old == [j \in 1 .. n - 1 |-> Lowered(n, k, j)]
<1>1. n \in Nat /\ \A i, j \in 1 .. n : s[i] = s[j] => i = j
  BY DEF IsStack
<1>2. n - 1 \in 1 .. n /\ Lowered(n, k, n - 1) = k
  BY <1>1 DEF Lowered
<1>3. r[n - 1] = s[k]
  BY <1>2
<1>4. \A j \in 1 .. n - 1 : j \in 1 .. n /\ r[j] = s[old[j]] /\ (r[j] # s[k] => j < n - 1)
  <2>1. \A j \in 1 .. n - 1 : j \in 1 .. n /\ (j = n - 1 \/ j < n - 1)
    BY <1>1
  <2> QED BY <2>1, <1>3
<1>5. \A j \in 1 .. n - 1 : j < n - 1 => old[j] \in 1 .. n - 1
  BY <1>1 DEF Lowered
<1>6. \A i, j \in 1 .. n - 1 : i < j /\ j < n - 1 => old[i] < old[j]
  BY <1>1 DEF Lowered
<1>7. ASSUME NEW q \in 1 .. n - 1, s[q] # s[k] PROVE \E j \in 1 .. n - 1 : r[j] # s[k] /\ old[j] = q
  <2> DEFINE j == IF q < k THEN q ELSE q - 1
  <2>1. j \in 1 .. n - 1 /\ old[j] = q
    <3>1. q # k
      BY <1>7
    <3> QED BY <3>1, <1>1 DEF Lowered
  <2>2. r[j] = s[q]
    BY <2>1, <1>4
  <2> QED BY <2>1, <2>2, <1>7
<1> HIDE DEF old
<1>8. KeepsOrder(s, n, r, n, s[k], old)
  BY <1>1, <1>4, <1>5, <1>6, <1>7 DEF KeepsOrder
<1> QED BY <1>3, <1>8 DEF old

\* What a press meets.
LEMMA PressMeets ==
    ASSUME StackInv, NEW hit, hit = Hit(layers, Mouse.x, Mouse.y)
    PROVE  /\ hit = {i \in 1 .. Number - 1 : Under(layers[layer_stack[i]], Mouse.x, Mouse.y)}
           /\ hit # {} => /\ Max(hit) \in 1 .. Number - 1
                          /\ Under(layers[layer_stack[Max(hit)]], Mouse.x, Mouse.y)
                          /\ layer_stack[Max(hit)] # MOUSE_LAYER_ID
                          /\ \A i \in hit : Max(hit) >= i
<1> DEFINE n == Number
<1>1. n \in Nat /\ n >= 2 /\ IsStack(layer_stack, n)
  BY LayerIds
<1>2. layer_stack[n] = MOUSE_LAYER_ID /\ n \in 1 .. n /\ \A i, j \in 1 .. n : layer_stack[i] = layer_stack[j] => i = j
  BY <1>1 DEF IsStack
<1> HIDE DEF n
<1>3. PosIn(layer_stack, layer_stack[n]) = n
  <2> DEFINE s == layer_stack
  <2>1. IsStack(s, n)
    BY <1>1
  <2> HIDE DEF s
  <2>2. PosIn(s, s[n]) = n
    BY <2>1, <1>2, Position
  <2> QED BY <2>2 DEF s
<1>4. hit = {i \in 1 .. n - 1 : Under(layers[layer_stack[i]], Mouse.x, Mouse.y)}
  BY <1>2, <1>3 DEF Hit
<1>5. ASSUME hit # {} PROVE Max(hit) \in hit /\ \A i \in hit : Max(hit) >= i
  <2>1. hit \in SUBSET (0 .. n)
    BY <1>1, <1>4
  <2> QED BY <2>1, <1>1, <1>5, MaxProperties
<1>6. \A i \in 1 .. n - 1 : layer_stack[i] # MOUSE_LAYER_ID
  <2>1. \A i \in 1 .. n - 1 : i \in 1 .. n /\ i # n
    BY <1>1
  <2> QED BY <2>1, <1>2
<1> QED BY <1>4, <1>5, <1>6 DEF n

\* The layer that a press meets is raised to just below the cursor, if it is a
\* window.
LEMMA RaiseStep ==
    ASSUME StackInv, PlaceInv, ScreenInv, NEW k \in 1 .. Number - 1, Raise(layer_stack[k]),
           frame' = frame, rels' = rels, clicks' \in Nat, missed' \in BOOLEAN,
           pressed' \in [id : 0 .. Number - 1, x : Int, y : Int]
    PROVE  /\ StackInv' /\ PlaceInv' /\ ScreenInv' /\ Number' = Number /\ Windows' = Windows
           /\ \A id \in DOMAIN layers : layers'[id].x = layers[id].x /\ layers'[id].y = layers[id].y
           /\ layer_stack[k] \in Windows => layer_stack'[Number - 1] = layer_stack[k]
<1> DEFINE n == Number
<1> DEFINE s == layer_stack
<1> DEFINE id == s[k]
<1>1. /\ n \in Nat /\ n >= 2 /\ IsStack(s, n) /\ DOMAIN layers = 0 .. n - 1
      /\ \A j \in 1 .. n : s[j] \in DOMAIN layers
  BY LayerIds
<1>2. layers \in [0 .. n - 1 -> Layer] /\ frame \in [0 .. n - 1 -> Int]
  BY DEF StackInv
<1>3. s[1] = DESKTOP_LAYER_ID /\ s[n] = MOUSE_LAYER_ID
  BY <1>1 DEF IsStack
<1> HIDE DEF n
<1>4. k \in 1 .. n /\ n \in 1 .. n /\ k - 1 \in Int /\ n - 2 \in Int
  BY <1>1 DEF n
<1> HIDE DEF s
<1>5. GetLayerHeight(s, MOUSE_LAYER_ID) - 1 = n - 2 /\ GetLayerHeight(s, id) = k - 1
  <2>1. PosIn(s, s[n]) = n /\ PosIn(s, s[k]) = k
    BY <1>1, <1>4, Position
  <2>2. s[n] \in Range(s) /\ s[k] \in Range(s)
    <3>1. s[n] \in DOMAIN layers /\ s[k] \in DOMAIN layers
      BY <1>1, <1>4
    <3> QED BY <3>1, <1>1, InStack
  <2> QED BY <2>1, <2>2, <1>1, <1>3 DEF GetLayerHeight
<1>6. \/ /\ id \in Windows /\ k - 1 # n - 2
         /\ layer_stack' = MoveLayer(s, id, n - 2)
         /\ layers' = Settled(layers, id)
         /\ screen' = Update(layers, frame, layer_stack', id, screen)
         /\ trail' = Trailed(Unnoted)
      \/ ~(id \in Windows /\ k - 1 # n - 2) /\ UNCHANGED <<layers, layer_stack, screen, trail>>
  <2>1. Raise(s[k])
    BY DEF s
  <2>2. LET top == GetLayerHeight(s, MOUSE_LAYER_ID) - 1
        IN  IF id \in Windows /\ GetLayerHeight(s, id) # top
            THEN /\ layer_stack' = MoveLayer(s, id, top)
                 /\ layers' = Settled(layers, id)
                 /\ screen' = Update(layers, frame, layer_stack', id, screen)
                 /\ trail' = Trailed(Unnoted)
            ELSE UNCHANGED <<layers, layer_stack, screen, trail>>
    BY <2>1 DEF Raise, s
  <2> QED BY <2>2, <1>5
<1>7. CASE /\ id \in Windows /\ k - 1 # n - 2
           /\ layer_stack' = MoveLayer(s, id, n - 2)
           /\ layers' = Settled(layers, id)
           /\ screen' = Update(layers, frame, layer_stack', id, screen)
           /\ trail' = Trailed(Unnoted)
  <2> DEFINE r == layer_stack'
  <2>1. k \in 2 .. n - 1
    <3>1. id # DESKTOP_LAYER_ID
      BY <1>7 DEF Windows
    <3>2. k # 1
      BY <3>1, <1>3
    <3> QED BY <3>2, <1>1 DEF n
  <2>2. IsStack(r, n) /\ \A j \in 1 .. n : r[j] = s[Lowered(n, k, j)]
    <3>0. IsStack(s, n)
      BY <1>1
    <3>1. LET q == MoveLayer(s, s[k], n - 2)
          IN  IsStack(q, n) /\ \A j \in 1 .. n : q[j] = s[Lowered(n, k, j)]
      BY <2>1, <3>0, RaisedOnStack
    <3> QED BY <3>1, <1>7
  <2> DEFINE old == [j \in 1 .. n - 1 |-> Lowered(n, k, j)]
  <2>3. r[n - 1] = id /\ KeepsOrder(s, n, r, n, id, old)
    <3> HIDE DEF r
    <3> QED BY <2>1, <2>2, <1>1, RaisedOrder
  <2> HIDE DEF old
  <2> DEFINE i == n - 1
  <2>4. i \in 2 .. n - 1 /\ id = r[i]
    BY <2>1, <2>3, <1>1
  <2> HIDE DEF i
  <2>5. Refresh(layers, Number, i, id, old)
    <3>1. layers[id].prev = Now(layers[id])
      BY <1>7 DEF PlaceInv
    <3>2. \A j \in DOMAIN layers : frame'[j] = frame[j]
      OBVIOUS
    <3> QED BY <3>1, <3>2, <2>2, <2>3, <2>4, <1>2, <1>7 DEF Refresh, n, s
  <2>6. frame' \in [0 .. Number - 1 -> Int]
    BY <1>2 DEF n
  <2>7. /\ StackInv' /\ PlaceInv' /\ ScreenInv' /\ Windows' = Windows
        /\ \A j \in DOMAIN layers : j # id => layers'[j] = layers[j]
        /\ layers'[id].x = layers[id].x /\ layers'[id].y = layers[id].y
    <3> HIDE DEF id
    <3> QED BY <2>5, <2>6, <1>7, RefreshStep
  <2>8. Number' = Number
    BY <2>2 DEF IsStack, Number, n
  <2>9. layer_stack'[Number - 1] = layer_stack[k]
    BY <2>3 DEF n, s
  <2> QED BY <2>7, <2>8, <2>9
<1>8. CASE ~(id \in Windows /\ k - 1 # n - 2) /\ UNCHANGED <<layers, layer_stack, screen, trail>>
  <2>1. Number' = Number /\ Mouse' = Mouse /\ Windows' = Windows /\ CursorNoted' = CursorNoted
    BY <1>8 DEF Number, Mouse, Windows, CursorNoted
  <2>2. StackInv'
    BY <2>1, <1>8 DEF StackInv
  <2>3. PlaceInv'
    BY <2>1, <1>8 DEF PlaceInv
  <2>4. ScreenInv'
    BY <2>1, <1>8 DEF ScreenInv
  <2>5. id \in Windows => k = n - 1
    BY <1>8, <1>1, <1>4
  <2> QED BY <2>1, <2>2, <2>3, <2>4, <2>5, <1>8 DEF n, s
<1> QED BY <1>6, <1>7, <1>8

LEMMA MouseLeftPressStep ==
    ASSUME LayersInv, MouseLeftPress
    PROVE  LayersInv'
<1> DEFINE hit == Hit(layers, Mouse.x, Mouse.y)
<1>0. StackInv /\ PlaceInv /\ HeldInv /\ ScreenInv
  BY DEF LayersInv
<1>1. /\ clicks' = clicks + 1 /\ UNCHANGED <<frame, rels>>
      /\ \/ /\ hit # {}
            /\ pressed' = [id |-> layer_stack[Max(hit)], x |-> Mouse.x, y |-> Mouse.y]
            /\ Raise(layer_stack[Max(hit)])
            /\ UNCHANGED missed
         \/ /\ hit = {}
            /\ pressed' = [pressed EXCEPT !.x = Mouse.x, !.y = Mouse.y]
            /\ missed' = TRUE
            /\ UNCHANGED <<layers, layer_stack, screen, trail>>
  BY DEF MouseLeftPress, Mouse
<1>2. /\ pressed \in [id : 0 .. Number - 1, x : Int, y : Int] /\ clicks \in Nat /\ missed \in BOOLEAN
      /\ layers \in [0 .. Number - 1 -> Layer]
  BY <1>0 DEF StackInv
<1>3. /\ Number \in Nat /\ DOMAIN layers = 0 .. Number - 1 /\ MOUSE_LAYER_ID \in DOMAIN layers
      /\ \A j \in 1 .. Number : layer_stack[j] \in DOMAIN layers
  BY <1>0, LayerIds
<1>4. Mouse.x \in Int /\ Mouse.y \in Int /\ clicks' \in Nat
  <2>1. Mouse \in Layer
    BY <1>2, <1>3 DEF Mouse
  <2> QED BY <2>1, <1>1, <1>2 DEF Layer
<1>5. CASE /\ hit # {}
           /\ pressed' = [id |-> layer_stack[Max(hit)], x |-> Mouse.x, y |-> Mouse.y]
           /\ Raise(layer_stack[Max(hit)])
           /\ UNCHANGED missed
  <2> DEFINE k == Max(hit)
  <2> DEFINE id == layer_stack[k]
  <2>1. k \in 1 .. Number - 1 /\ Under(layers[id], Mouse.x, Mouse.y)
    BY <1>0, <1>5, PressMeets
  <2>2. /\ pressed' = [id |-> id, x |-> Mouse.x, y |-> Mouse.y] /\ Raise(layer_stack[k]) /\ missed' = missed
        /\ frame' = frame /\ rels' = rels
    BY <1>1, <1>5
  <2> HIDE DEF k, hit
  <2>3. id \in 0 .. Number - 1
    <3>1. k \in 1 .. Number
      BY <2>1, <1>3
    <3> QED BY <3>1, <1>3
  <2>4. pressed' \in [id : 0 .. Number - 1, x : Int, y : Int] /\ missed' \in BOOLEAN
    BY <2>2, <2>3, <1>2, <1>4
  <2>5. /\ StackInv' /\ PlaceInv' /\ ScreenInv'
        /\ \A j \in DOMAIN layers : layers'[j].x = layers[j].x /\ layers'[j].y = layers[j].y
    BY <2>1, <2>2, <2>4, <1>0, <1>4, RaiseStep
  <2>6. HeldInv'
    <3>1. layers[id].x < Mouse.x /\ layers[id].y < Mouse.y
      <4>1. layers[id].x \in Int /\ layers[id].y \in Int
        BY <2>3, <1>2 DEF Layer
      <4> QED BY <4>1, <2>1, <1>4 DEF Under, IsOverlapping
    <3>2. layers'[id].x = layers[id].x /\ layers'[id].y = layers[id].y
      BY <2>3, <2>5, <1>3
    <3>3. pressed'.id = id /\ pressed'.x = Mouse.x /\ pressed'.y = Mouse.y
      BY <2>2
    <3> QED BY <3>1, <3>2, <3>3 DEF HeldInv
  <2> QED BY <2>5, <2>6 DEF LayersInv
<1>6. CASE /\ hit = {}
           /\ pressed' = [pressed EXCEPT !.x = Mouse.x, !.y = Mouse.y]
           /\ missed' = TRUE
           /\ UNCHANGED <<layers, layer_stack, screen, trail>>
  <2> HIDE DEF hit
  <2>1. Number' = Number /\ Mouse' = Mouse /\ Windows' = Windows /\ CursorNoted' = CursorNoted
    BY <1>6 DEF Number, Mouse, Windows, CursorNoted
  <2>2. pressed' \in [id : 0 .. Number - 1, x : Int, y : Int]
    BY <1>2, <1>4, <1>6
  <2>3. StackInv'
    BY <2>1, <2>2, <1>0, <1>1, <1>4, <1>6 DEF StackInv
  <2>4. PlaceInv'
    BY <2>1, <1>0, <1>1, <1>6 DEF PlaceInv
  <2>5. ScreenInv'
    BY <2>1, <1>0, <1>1, <1>6 DEF ScreenInv
  <2>6. HeldInv'
    BY <1>6 DEF HeldInv
  <2> QED BY <2>3, <2>4, <2>5, <2>6 DEF LayersInv
<1> QED BY <1>1, <1>5, <1>6

\* LmInit: draw_all() has drawn the cursor over the desktop and has not noted it.
LEMMA InitStack ==
    ASSUME LmInit
    PROVE  /\ StackInv /\ Number = 2 /\ layers[MOUSE_LAYER_ID] = NewLayer(0, 0, MouseWidth, MouseHeight)
           /\ layers[DESKTOP_LAYER_ID] = NewLayer(0, 0, Width, Height) /\ DOMAIN layers = 0 .. 1
           /\ layer_stack[1] = DESKTOP_LAYER_ID /\ layer_stack[2] = MOUSE_LAYER_ID
<1> DEFINE N == Nat
<1> DEFINE e == << >>
<1> DEFINE a == MoveLayer(e, MOUSE_LAYER_ID, MaxLayer)
<1> DEFINE o == 1
<1>0. e \in Seq(N) /\ Len(e) = 0 /\ Range(e) = {} /\ o = 1 /\ o \in 1 .. Len(e) + 1
      /\ MOUSE_LAYER_ID \in N /\ DESKTOP_LAYER_ID \in N /\ MOUSE_LAYER_ID # DESKTOP_LAYER_ID
  BY DEF Range, MOUSE_LAYER_ID, DESKTOP_LAYER_ID
<1> HIDE DEF N, e, o
<1>1. a \in Seq(N) /\ Len(a) = 1 /\ a[1] = MOUSE_LAYER_ID
  <2>1. Min({MaxLayer, Len(e)}) + 1 = o
    <3>1. MaxLayer \in Int /\ 0 \in Int /\ ~(MaxLayer <= 0)
      BY DisplayAssumption
    <3>2. Min({MaxLayer, 0}) = 0
      BY <3>1, MinProperties
    <3> QED BY <3>2, <1>0
  <2>2. a = InsertAt(e, o, MOUSE_LAYER_ID)
    BY <2>1, <1>0 DEF MoveLayer
  <2> DEFINE m == MOUSE_LAYER_ID
  <2>3. m \in N /\ a = InsertAt(e, o, m)
    BY <2>2, <1>0
  <2> HIDE DEF a, m
  <2>4. a \in Seq(N) /\ Len(a) = Len(e) + 1 /\ \A j \in 1 .. Len(e) + 1 : j = o => a[j] = m
    <3>0. e \in Seq(N) /\ o \in 1 .. Len(e) + 1 /\ m \in N
      BY <2>3, <1>0
    <3>1. InsertAt(e, o, m) \in Seq(N) /\ Len(InsertAt(e, o, m)) = Len(e) + 1
      BY <3>0, InsertAtElements
    <3>2. \A j \in 1 .. Len(e) + 1 : j = o => InsertAt(e, o, m)[j] = m
      BY <3>0, InsertAtElements
    <3> QED BY <3>1, <3>2, <2>3
  <2> QED BY <2>4, <1>0 DEF m
<1> HIDE DEF a
<1>2. layer_stack \in Seq(N) /\ Len(layer_stack) = 2 /\ layer_stack[1] = DESKTOP_LAYER_ID /\ layer_stack[2] = MOUSE_LAYER_ID
  <2>1. Min({0, Len(a)}) + 1 = o
    <3>1. 0 \in Int /\ 1 \in Int /\ 0 <= 1
      OBVIOUS
    <3>2. Min({0, 1}) = 0
      BY <3>1, MinProperties
    <3> QED BY <3>2, <1>0, <1>1
  <2>2. DESKTOP_LAYER_ID \notin Range(a)
    <3>1. DOMAIN a = {1}
      BY <1>1
    <3> QED BY <3>1, <1>0, <1>1 DEF Range
  <2>3. layer_stack = MoveLayer(a, DESKTOP_LAYER_ID, 0)
    BY DEF LmInit, a, e
  <2>4. layer_stack = InsertAt(a, o, DESKTOP_LAYER_ID)
    BY <2>1, <2>2, <2>3 DEF MoveLayer
  <2> DEFINE d == DESKTOP_LAYER_ID
  <2> DEFINE b == InsertAt(a, o, d)
  <2>5. d \in N /\ layer_stack = b /\ o \in 1 .. Len(a) + 1
    BY <2>4, <1>0, <1>1
  <2> HIDE DEF d
  <2>0. a \in Seq(N) /\ o \in 1 .. Len(a) + 1 /\ d \in N
    BY <2>5, <1>1
  <2>6. b \in Seq(N) /\ Len(b) = Len(a) + 1
    BY <2>0, InsertAtElements
  <2>7. \A j \in 1 .. Len(a) + 1 : j = o => b[j] = d
    BY <2>0, InsertAtElements
  <2>8. \A j \in 1 .. Len(a) + 1 : j > o => b[j] = a[j - 1]
    BY <2>0, InsertAtElements
  <2> HIDE DEF b
  <2>9. 1 \in 1 .. Len(a) + 1 /\ 2 \in 1 .. Len(a) + 1 /\ 2 > o /\ 2 - 1 = 1
    BY <1>0, <1>1
  <2> QED BY <2>5, <2>6, <2>7, <2>8, <2>9, <1>0, <1>1 DEF d
<1>4. Number = 2 /\ IsStack(layer_stack, 2)
  <2>1. layer_stack \in Seq(Nat) /\ Len(layer_stack) = 2 /\ layer_stack[1] = 1 /\ layer_stack[2] = 0
    BY <1>2 DEF N, MOUSE_LAYER_ID, DESKTOP_LAYER_ID
  <2>2. \A i \in 1 .. 2 : i = 1 \/ i = 2
    OBVIOUS
  <2>3. \A i \in 0 .. 1 : i = 0 \/ i = 1
    OBVIOUS
  <2> QED BY <2>1, <2>2, <2>3 DEF IsStack, Number, MOUSE_LAYER_ID, DESKTOP_LAYER_ID
<1>5. /\ DOMAIN layers = 0 .. 1 /\ layers[MOUSE_LAYER_ID] = NewLayer(0, 0, MouseWidth, MouseHeight)
      /\ layers[DESKTOP_LAYER_ID] = NewLayer(0, 0, Width, Height)
      /\ layers = [id \in 0 .. 1 |-> layers[id]]
  <2>1. {MOUSE_LAYER_ID, DESKTOP_LAYER_ID} = 0 .. 1
    BY DEF MOUSE_LAYER_ID, DESKTOP_LAYER_ID
  <2> QED BY <2>1 DEF LmInit, MOUSE_LAYER_ID, DESKTOP_LAYER_ID
<1>6. \A w \in Nat, h \in Nat : NewLayer(0, 0, w, h) \in Layer
  <2>1. Rect(0, 0, 0, 0) \in Rectangle
    BY DEF Rect, Rectangle
  <2> QED BY <2>1 DEF NewLayer, Layer
<1>7. layers \in [0 .. 1 -> Layer]
  <2>1. NewLayer(0, 0, MouseWidth, MouseHeight) \in Layer /\ NewLayer(0, 0, Width, Height) \in Layer
    BY <1>6, DisplayAssumption
  <2>2. \A id \in 0 .. 1 : layers[id] \in Layer
    <3>1. \A id \in 0 .. 1 : id = MOUSE_LAYER_ID \/ id = DESKTOP_LAYER_ID
      BY DEF MOUSE_LAYER_ID, DESKTOP_LAYER_ID
    <3> QED BY <3>1, <2>1, <1>5
  <2> QED BY <2>2, <1>5
<1>8. frame \in [0 .. 1 -> Int]
  <2>1. {MOUSE_LAYER_ID, DESKTOP_LAYER_ID} = 0 .. 1
    BY DEF MOUSE_LAYER_ID, DESKTOP_LAYER_ID
  <2> QED BY <2>1 DEF LmInit
<1>9. StackInv
  <2>1. 2 - 1 = 1
    OBVIOUS
  <2>2. pressed \in [id : 0 .. 1, x : Int, y : Int] /\ clicks \in Nat /\ rels \in Nat /\ missed \in BOOLEAN
    <3>1. pressed = [id |-> 0, x |-> 0, y |-> 0] /\ clicks = 0 /\ rels = 0 /\ missed = FALSE
      BY DEF LmInit
    <3>2. 0 \in 0 .. 1 /\ 0 \in Int /\ 0 \in Nat /\ FALSE \in BOOLEAN
      OBVIOUS
    <3> QED BY <3>1, <3>2
  <2> QED BY <2>1, <2>2, <1>4, <1>7, <1>8 DEF StackInv
<1> QED BY <1>2, <1>4, <1>5, <1>9

LEMMA InitInv ==
    ASSUME LmInit
    PROVE  LayersInv
<1>1. /\ StackInv /\ Number = 2 /\ layers[MOUSE_LAYER_ID] = NewLayer(0, 0, MouseWidth, MouseHeight)
      /\ layers[DESKTOP_LAYER_ID] = NewLayer(0, 0, Width, Height) /\ DOMAIN layers = 0 .. 1
      /\ layer_stack[1] = DESKTOP_LAYER_ID /\ layer_stack[2] = MOUSE_LAYER_ID
  BY InitStack
<1>2. /\ Now(layers[DESKTOP_LAYER_ID]) = Rect(0, 0, Width, Height)
      /\ Mouse.x = 0 /\ Mouse.y = 0 /\ Mouse.prev = Rect(0, 0, 0, 0)
  BY <1>1 DEF Now, NewLayer, Mouse
<1>3. Windows = {}
  BY <1>1 DEF Windows, MOUSE_LAYER_ID, DESKTOP_LAYER_ID
<1>4. PlaceInv
  <2>1. 0 <= Width /\ 0 <= Height
    BY DisplayAssumption
  <2>2. frame[MOUSE_LAYER_ID] = 0
    BY DEF LmInit
  <2> QED BY <2>1, <2>2, <1>2, <1>3 DEF PlaceInv
<1>5. HeldInv
  BY <1>3 DEF HeldInv
<1>6. ASSUME NEW px \in Display
      PROVE  /\ Covers(layers, MOUSE_LAYER_ID, px) => screen[px] = CursorPixel
             /\ ~Covers(layers, MOUSE_LAYER_ID, px) => screen[px] = Pixel(layers, frame, DESKTOP_LAYER_ID, px)
             /\ Covers(layers, DESKTOP_LAYER_ID, px)
  <2> DEFINE s == layer_stack
  <2> DEFINE rects == Everywhere(layers)
  <2> DEFINE t == TransferAll([p \in Display |-> << >>], layers, frame, s, rects)
  <2> DEFINE P(k) == Paints(layers, s[k], rects[s[k]], px)
  <2>1. screen = t
    BY DEF LmInit
  <2>2. Len(s) = 2 /\ s[1] = DESKTOP_LAYER_ID /\ s[2] = MOUSE_LAYER_ID
    BY <1>1 DEF Number
  <2>3. \A j \in 1 .. Len(s) : P(j) /\ (\A k \in j + 1 .. Len(s) : ~P(k)) => t[px] = Pixel(layers, frame, s[j], px)
    <3> DEFINE scr == [p \in Display |-> << >>]
    <3>1. Len(s) \in Nat
      BY <2>2
    <3> HIDE DEF s, rects, scr
    <3> QED BY <3>1, TransferAllPixel
  <2> HIDE DEF t, s
  <2>4. (P(1) <=> Covers(layers, DESKTOP_LAYER_ID, px)) /\ (P(2) <=> Covers(layers, MOUSE_LAYER_ID, px))
    <3>1. \A id \in DOMAIN layers : rects[id] = Now(layers[id])
      BY DEF Everywhere
    <3>2. MOUSE_LAYER_ID \in DOMAIN layers /\ DESKTOP_LAYER_ID \in DOMAIN layers
      BY <1>1 DEF MOUSE_LAYER_ID, DESKTOP_LAYER_ID
    <3> HIDE DEF rects
    <3> QED BY <3>1, <3>2, <2>2 DEF Paints, Covers
  <2>5. Covers(layers, DESKTOP_LAYER_ID, px)
    <3>1. InRect(px, Rect(0, 0, Width, Height))
      BY DisplayAssumption DEF Display, InRect, Rect
    <3> QED BY <3>1, <1>2 DEF Covers, Opaque, DESKTOP_LAYER_ID, MOUSE_LAYER_ID
  <2> HIDE DEF P
  <2>6. P(2) => screen[px] = Pixel(layers, frame, MOUSE_LAYER_ID, px)
    <3>1. 2 \in 1 .. Len(s) /\ \A k \in 2 + 1 .. Len(s) : FALSE
      BY <2>2
    <3> QED BY <3>1, <2>1, <2>2, <2>3
  <2>7. P(1) /\ ~P(2) => screen[px] = Pixel(layers, frame, DESKTOP_LAYER_ID, px)
    <3>1. 1 \in 1 .. Len(s) /\ \A k \in 1 + 1 .. Len(s) : k = 2
      BY <2>2
    <3> QED BY <3>1, <2>1, <2>2, <2>3
  <2>8. Pixel(layers, frame, MOUSE_LAYER_ID, px) = CursorPixel
    BY DEF Pixel, CursorPixel, LmInit
  <2> QED BY <2>4, <2>5, <2>6, <2>7, <2>8
<1>7. \A px \in Display : Covers(layers, MOUSE_LAYER_ID, px) <=> px \in CursorAt(layers)
  BY DEF CursorAt, Covers
<1>8. ASSUME NEW px \in Display, ~Covers(layers, MOUSE_LAYER_ID, px)
      PROVE  Ground(layers, layer_stack, Number, DESKTOP_LAYER_ID, px) /\ DESKTOP_LAYER_ID \in DOMAIN layers
  <2>1. 1 \in 1 .. 2 - 1 /\ layer_stack[1] = DESKTOP_LAYER_ID /\ \A j \in 1 + 1 .. 2 - 1 : FALSE
    BY <1>1
  <2>2. DESKTOP_LAYER_ID \in DOMAIN layers
    BY <1>1 DEF DESKTOP_LAYER_ID
  <2>3. Covers(layers, DESKTOP_LAYER_ID, px)
    BY <1>6
  <2> QED BY <2>1, <2>2, <2>3, <1>1 DEF Ground
<1>9. ScreenInv
  <2>1. trail = CursorAt(layers)
    BY DEF LmInit
  <2>2. \A px \in CursorAt(layers) : px \in Display
    BY DEF CursorAt
  <2> QED BY <2>1, <2>2, <1>6, <1>7, <1>8 DEF ScreenInv
<1> QED BY <1>1, <1>4, <1>5, <1>9 DEF LayersInv

-----------------------------------------------------------------------------
(***************************************************************************)
(* The theorems.                                                           *)
(***************************************************************************)

LEMMA InvStep ==
    ASSUME LayersInv, [LmNext]_vars
    PROVE  LayersInv'
<1>1. CASE UNCHANGED vars
  <2>1. UNCHANGED <<layers, layer_stack, pressed, frame, screen, clicks, rels, missed, trail>>
    BY <1>1 DEF vars
  <2>2. Number' = Number /\ Mouse' = Mouse /\ Windows' = Windows /\ CursorNoted' = CursorNoted
    BY <2>1 DEF Number, Mouse, Windows, CursorNoted
  <2>3. StackInv /\ PlaceInv /\ HeldInv /\ ScreenInv
    BY DEF LayersInv
  <2>4. StackInv'
    BY <2>1, <2>2, <2>3 DEF StackInv
  <2>5. PlaceInv'
    BY <2>1, <2>2, <2>3 DEF PlaceInv
  <2>6. HeldInv'
    BY <2>1, <2>2, <2>3 DEF HeldInv
  <2>7. ScreenInv'
    BY <2>1, <2>2, <2>3 DEF ScreenInv
  <2> QED BY <2>4, <2>5, <2>6, <2>7 DEF LayersInv
<1> QED BY <1>1, CreateWindowStep, SyncWindowStep, MouseRelStep, MouseLeftPressStep,
           MouseLeftReleaseStep, MouseSynStep DEF LmNext

\* The stack holds every layer once, a window was drawn where it is, a window
\* that is held has its corner left of and above the cursor, and each pixel of
\* the screen shows the topmost layer below the cursor, or the cursor where it
\* was noted or left behind.
THEOREM LayersInvariant == LmSpec => []LayersInv
<1>1. LmInit => LayersInv
  BY InitInv
<1>2. LayersInv /\ [LmNext]_vars => LayersInv'
  BY InvStep
<1> QED BY <1>1, <1>2, PTL DEF LmSpec

\* Every layer stays on the stack once, the desktop at the bottom and the cursor
\* on top, however many windows are created and raised.
THEOREM StackIsSound == LmSpec => []StackSound
<1>1. LayersInv => StackSound
  <2> SUFFICES ASSUME LayersInv PROVE StackSound
    OBVIOUS
  <2>1. StackInv
    BY DEF LayersInv
  <2>2. /\ Number \in Nat /\ Number >= 2 /\ IsStack(layer_stack, Number) /\ DOMAIN layers = 0 .. Number - 1
        /\ Cardinality(DOMAIN layers) = Number
    BY <2>1, LayerIds
  <2>3. Range(layer_stack) = 0 .. Number - 1
    BY <2>2, InStack
  <2>4. layer_stack \in Seq(Nat) /\ layer_stack[1] = DESKTOP_LAYER_ID /\ layer_stack[Number] = MOUSE_LAYER_ID
    BY <2>2 DEF IsStack
  <2>5. Head(layer_stack) = layer_stack[1] /\ Last(layer_stack) = layer_stack[Number]
    BY <2>2, <2>4 DEF Last, Number
  <2> QED BY <2>2, <2>3, <2>4, <2>5 DEF StackSound, Number
<1> QED BY <1>1, LayersInvariant, PTL

\* update() repaints a part of the screen only, and after every EV_SYN the screen
\* is nevertheless the composition of all layers, for any windows, any order of
\* the calls and any moves; what is left of a cursor that was drawn without being
\* noted is the one exception.
THEOREM ScreenIsExact == LmSpec => []ScreenExact
<1>1. LayersInv => ScreenExact
  <2> SUFFICES ASSUME LayersInv, rels = 0, NEW px \in Display
               PROVE  \/ screen[px] = Pixel(layers, frame, Visible(px, DOMAIN layers), px)
                      \/ px \in trail /\ screen[px] = CursorPixel
    BY DEF ScreenExact
  <2> DEFINE n == Number
  <2> DEFINE s == layer_stack
  <2> DEFINE at == {i \in 1 .. n : Covers(layers, s[i], px)}
  <2>0. StackInv /\ PlaceInv /\ ScreenInv
    BY DEF LayersInv
  <2>1. /\ n \in Nat /\ n >= 2 /\ IsStack(s, n) /\ DOMAIN layers = 0 .. n - 1
        /\ \A j \in 1 .. n : s[j] \in DOMAIN layers
    BY <2>0, LayerIds
  <2>2. DOMAIN s = 1 .. n /\ s[n] = MOUSE_LAYER_ID
    BY <2>1 DEF IsStack
  <2>3. Visible(px, DOMAIN layers) = s[Max(at)]
    BY <2>1, <2>2 DEF Visible, Covers
  <2>4. at \in SUBSET (0 .. n)
    BY <2>1
  <2>5. CASE Covers(layers, MOUSE_LAYER_ID, px)
    <3>1. n \in at /\ \A y \in at : y <= n
      BY <2>1, <2>2, <2>5
    <3> HIDE DEF at, n
    <3>2. Max(at) = n
      BY <3>1, <2>1, <2>4, MaxIs
    <3>3. px \in CursorAt(layers)
      BY <2>5 DEF CursorAt, Covers
    <3>4. screen[px] = CursorPixel
      BY <3>3, <2>0 DEF ScreenInv
    <3>5. Pixel(layers, frame, MOUSE_LAYER_ID, px) = CursorPixel
      BY <2>0 DEF PlaceInv, Pixel, CursorPixel
    <3> QED BY <3>2, <3>4, <3>5, <2>2, <2>3
  <2>6. CASE ~Covers(layers, MOUSE_LAYER_ID, px)
    <3>1. px \notin CursorNoted
      <4>1. CASE Mouse.prev = Now(Mouse)
        <5>1. Mouse.prev.x = Mouse.x /\ Mouse.prev.y = Mouse.y
          BY <4>1 DEF Now, Rect
        <5> QED BY <4>1, <5>1, <2>6 DEF CursorNoted, Covers, Opaque, Mouse
      <4>2. CASE Mouse.prev = Rect(0, 0, 0, 0)
        <5>1. ~InRect(px, Rect(0, 0, 0, 0))
          BY DEF InRect, Rect, Display
        <5> QED BY <4>2, <5>1 DEF CursorNoted
      <4> QED BY <4>1, <4>2, <2>0 DEF PlaceInv
    <3>2. CASE screen[px] = CursorPixel /\ px \in trail \cup CursorNoted
      BY <3>1, <3>2
    <3>3. CASE \E g \in DOMAIN layers : Ground(layers, s, n, g, px) /\ screen[px] = Pixel(layers, frame, g, px)
      <4>1. PICK g \in DOMAIN layers : Ground(layers, s, n, g, px) /\ screen[px] = Pixel(layers, frame, g, px)
        BY <3>3
      <4>2. PICK q \in 1 .. n - 1 : s[q] = g /\ Covers(layers, g, px) /\ \A j \in q + 1 .. n - 1 : ~Covers(layers, s[j], px)
        BY <4>1 DEF Ground
      <4>3. q \in at /\ \A y \in at : y <= q
        <5>1. \A y \in 1 .. n : y <= q \/ y \in q + 1 .. n - 1 \/ y = n
          BY <2>1
        <5>2. q \in 1 .. n
          BY <2>1
        <5> QED BY <5>1, <5>2, <4>2, <2>2, <2>6
      <4> HIDE DEF at, n
      <4>4. Max(at) = q
        BY <4>3, <2>1, <2>4, MaxIs
      <4> QED BY <4>1, <4>2, <4>4, <2>3
    <3> QED BY <3>2, <3>3, <2>0 DEF ScreenInv
  <2> QED BY <2>5, <2>6
<1> QED BY <1>1, LayersInvariant, PTL

\* A press of the button goes to the layer seen at the cursor and brings it to
\* the top, although on_event() walks the stack and update() draws the screen
\* from different data.
THEOREM PressIsExact == LmSpec => PressHitsVisible
<1>1. LayersInv /\ [LmNext]_vars =>
        [ pressed' # pressed /\ <<pressed'.x, pressed'.y>> \in Display =>
            LET id == Visible(<<pressed'.x, pressed'.y>>, DOMAIN layers \ {MOUSE_LAYER_ID})
            IN  pressed'.x # layers[id].x /\ pressed'.y # layers[id].y =>
                    /\ pressed'.id = id
                    /\ id \in Windows => layer_stack'[Len(layer_stack') - 1] = id ]_vars
  <2> DEFINE px == <<pressed'.x, pressed'.y>>
  <2> DEFINE id == Visible(px, DOMAIN layers \ {MOUSE_LAYER_ID})
  <2> SUFFICES ASSUME LayersInv, LmNext, pressed' # pressed, px \in Display,
                      pressed'.x # layers[id].x, pressed'.y # layers[id].y
               PROVE  pressed'.id = id /\ (id \in Windows => layer_stack'[Len(layer_stack') - 1] = id)
    BY DEF vars
  <2> DEFINE n == Number
  <2> DEFINE s == layer_stack
  <2> DEFINE hit == Hit(layers, Mouse.x, Mouse.y)
  <2> DEFINE at == {i \in 1 .. n - 1 : InRect(px, Now(layers[s[i]]))}
  <2>0. StackInv /\ PlaceInv /\ ScreenInv
    BY DEF LayersInv
  <2>1. MouseLeftPress
    BY DEF LmNext, CreateWindow, SyncWindow, MouseRel, MouseLeftRelease, MouseSyn
  <2>2. /\ clicks' = clicks + 1 /\ UNCHANGED <<frame, rels>>
        /\ \/ /\ hit # {}
              /\ pressed' = [id |-> s[Max(hit)], x |-> Mouse.x, y |-> Mouse.y]
              /\ Raise(s[Max(hit)])
              /\ UNCHANGED missed
           \/ hit = {} /\ pressed' = [pressed EXCEPT !.x = Mouse.x, !.y = Mouse.y]
    BY <2>1 DEF MouseLeftPress, Mouse
  <2>3. /\ n \in Nat /\ n >= 2 /\ IsStack(s, n) /\ DOMAIN layers = 0 .. n - 1
        /\ \A j \in 1 .. n : s[j] \in DOMAIN layers
    BY <2>0, LayerIds
  <2>4. /\ layers \in [0 .. n - 1 -> Layer] /\ pressed \in [id : 0 .. n - 1, x : Int, y : Int]
        /\ clicks \in Nat /\ missed \in BOOLEAN
    BY <2>0 DEF StackInv
  <2>5. px = <<Mouse.x, Mouse.y>> /\ pressed'.x = Mouse.x /\ pressed'.y = Mouse.y
    <3> HIDE DEF hit
    <3> DEFINE p == pressed'
    <3>1. CASE p = [id |-> s[Max(hit)], x |-> Mouse.x, y |-> Mouse.y]
      <4> HIDE DEF p
      <4>1. p.x = Mouse.x /\ p.y = Mouse.y
        BY <3>1
      <4> QED BY <4>1 DEF p
    <3>2. CASE p = [pressed EXCEPT !.x = Mouse.x, !.y = Mouse.y]
      <4> HIDE DEF p
      <4>1. p.x = Mouse.x /\ p.y = Mouse.y
        BY <3>2, <2>4
      <4> QED BY <4>1 DEF p
    <3> QED BY <3>1, <3>2, <2>2
  <2>6. Mouse.x \in Int /\ Mouse.y \in Int /\ \A j \in 1 .. n : layers[s[j]] \in Layer
    <3>1. Mouse.x \in Int /\ Mouse.y \in Int
      BY <2>5 DEF Display
    <3> QED BY <3>1, <2>3, <2>4
  <2>7. DOMAIN s = 1 .. n /\ s[1] = DESKTOP_LAYER_ID /\ s[n] = MOUSE_LAYER_ID
        /\ \A j \in 1 .. n - 1 : j \in 1 .. n /\ s[j] # MOUSE_LAYER_ID
    <3>1. \A j \in 1 .. n - 1 : j \in 1 .. n /\ n \in 1 .. n /\ j # n
      BY <2>3
    <3>2. DOMAIN s = 1 .. n /\ s[1] = DESKTOP_LAYER_ID /\ s[n] = MOUSE_LAYER_ID /\ \A i, j \in 1 .. n : s[i] = s[j] => i = j
      BY <2>3 DEF IsStack
    <3> QED BY <3>1, <3>2
  <2>8. id = s[Max(at)]
    <3>1. {i \in DOMAIN s : s[i] \in DOMAIN layers \ {MOUSE_LAYER_ID} /\ InRect(px, Now(layers[s[i]])) /\ Opaque(layers, s[i], px)} = at
      <4>1. \A i \in 1 .. n : i = n \/ i \in 1 .. n - 1
        BY <2>3
      <4>2. \A i \in 1 .. n - 1 : s[i] \in DOMAIN layers \ {MOUSE_LAYER_ID} /\ Opaque(layers, s[i], px)
        BY <2>3, <2>7 DEF Opaque
      <4> HIDE DEF px, n, s
      <4> QED BY <4>1, <4>2, <2>7
    <3> HIDE DEF at, px
    <3> QED BY <3>1 DEF Visible
  <2>9. Max(at) \in at /\ \A y \in at : Max(at) >= y
    <3>1. 1 \in at
      <4>1. InRect(px, Rect(0, 0, Width, Height))
        BY DisplayAssumption DEF Display, InRect, Rect
      <4>2. InRect(px, Now(layers[s[1]])) /\ 1 \in 1 .. n - 1
        BY <4>1, <2>0, <2>3, <2>7 DEF PlaceInv
      <4> HIDE DEF px, n, s
      <4> QED BY <4>2
    <3>2. at \in SUBSET (0 .. n)
      <4> HIDE DEF px, s
      <4> QED BY <2>3
    <3> HIDE DEF at, n
    <3> QED BY <3>1, <3>2, <2>3, MaxProperties
  <2> HIDE DEF id, px, n, s
  <2>10. hit = {i \in 1 .. n - 1 : Under(layers[s[i]], Mouse.x, Mouse.y)}
    BY <2>0, PressMeets DEF n, s
  <2>11. ASSUME NEW i \in 1 .. n - 1
         PROVE  /\ Under(layers[s[i]], Mouse.x, Mouse.y) => InRect(px, Now(layers[s[i]]))
                /\ InRect(px, Now(layers[s[i]])) /\ Mouse.x # layers[s[i]].x /\ Mouse.y # layers[s[i]].y
                     => Under(layers[s[i]], Mouse.x, Mouse.y)
    <3> DEFINE l == layers[s[i]]
    <3>1. l \in Layer
      BY <2>6, <2>7
    <3> HIDE DEF l
    <3>2. l.x \in Int /\ l.y \in Int /\ l.w \in Int /\ l.h \in Int
      BY <3>1 DEF Layer
    <3>3. InRect(px, Now(l)) <=> Mouse.x \in l.x .. l.x + l.w - 1 /\ Mouse.y \in l.y .. l.y + l.h - 1
      BY <2>5 DEF InRect, Now, Rect
    <3>4. Under(l, Mouse.x, Mouse.y) <=> l.x + l.w > Mouse.x /\ Mouse.x > l.x /\ l.y + l.h > Mouse.y /\ Mouse.y > l.y
      BY DEF Under, IsOverlapping
    <3>5. /\ Under(l, Mouse.x, Mouse.y) => InRect(px, Now(l))
          /\ InRect(px, Now(l)) /\ Mouse.x # l.x /\ Mouse.y # l.y => Under(l, Mouse.x, Mouse.y)
      BY <3>2, <3>3, <3>4, <2>6
    <3> QED BY <3>5 DEF l
  <2>12. Max(at) \in hit
    <3>1. Max(at) \in 1 .. n - 1 /\ InRect(px, Now(layers[s[Max(at)]]))
      BY <2>9
    <3>2. Mouse.x # layers[s[Max(at)]].x /\ Mouse.y # layers[s[Max(at)]].y
      BY <2>5, <2>8
    <3> HIDE DEF at, hit
    <3> QED BY <3>1, <3>2, <2>10, <2>11
  <2>13. \A y \in hit : y <= Max(at)
    <3>1. \A y \in hit : y \in at
      BY <2>10, <2>11
    <3>2. \A y \in at : y \in Int
      OBVIOUS
    <3> HIDE DEF at, hit
    <3> QED BY <3>1, <3>2, <2>9
  <2>14. Max(hit) = Max(at)
    <3> DEFINE x == Max(at)
    <3>1. hit \in SUBSET (0 .. n) /\ x \in hit /\ \A y \in hit : y <= x
      <4>1. \A i \in 1 .. n - 1 : i \in 0 .. n
        BY <2>3
      <4> HIDE DEF at, hit
      <4>2. hit \in SUBSET (0 .. n)
        BY <4>1, <2>10
      <4> QED BY <4>2, <2>12, <2>13
    <3> HIDE DEF x, hit
    <3>2. Max(hit) = x
      BY <3>1, <2>3, MaxIs
    <3> QED BY <3>2 DEF x
  <2>15. /\ pressed' = [id |-> id, x |-> Mouse.x, y |-> Mouse.y]
         /\ Raise(s[Max(hit)]) /\ UNCHANGED missed
    <3> HIDE DEF at, hit
    <3> QED BY <2>2, <2>8, <2>12, <2>14
  <2>16. id \in Windows => layer_stack'[Number - 1] = id /\ Number' = Number
    <3> DEFINE k == Max(hit)
    <3>1. k \in 1 .. Number - 1 /\ Raise(layer_stack[k]) /\ id = layer_stack[k]
      <4>1. Max(at) \in 1 .. n - 1
        BY <2>9
      <4> HIDE DEF at, hit
      <4> QED BY <4>1, <2>8, <2>14, <2>15 DEF n, s
    <3> HIDE DEF k, hit, at
    <3>2. id \in 0 .. Number - 1
      BY <3>1, <2>3 DEF n, s
    <3>3. frame' = frame /\ rels' = rels /\ clicks' \in Nat /\ missed' \in BOOLEAN
      BY <2>2, <2>4, <2>15
    <3>4. pressed' \in [id : 0 .. Number - 1, x : Int, y : Int]
      BY <3>2, <2>6, <2>15
    <3>5. Number' = Number /\ (layer_stack[k] \in Windows => layer_stack'[Number - 1] = layer_stack[k])
      BY <3>1, <3>3, <3>4, <2>0, RaiseStep
    <3> QED BY <3>1, <3>5
  <2>17. pressed'.id = id
    BY <2>15
  <2> HIDE DEF hit, at
  <2> QED BY <2>16, <2>17 DEF Number
<1> QED BY <1>1, LayersInvariant, PTL DEF LmSpec, PressHitsVisible

\* A window that is dropped ends left of and above the place where the cursor
\* is: its corner is within the display.
LEMMA DropsInside ==
    ASSUME NEW m \in Int, NEW p \in Int, NEW l \in Int, NEW limit \in Nat \ {0}, m <= limit, l < p
    PROVE  Clamp(m - (p - l), limit) < limit
BY DEF Clamp

\* Programs that put their windows on the display keep them there: no sequence of
\* presses, moves and releases drags a corner to the edge or beyond, as long as
\* every press has met a layer.
THEOREM WindowsRemainVisible ==
    ASSUME Places \subseteq Display
    PROVE  LmSpec => []WindowsStayVisible
<1> DEFINE Inv == LayersInv /\ WindowsStayVisible
<1>1. LmInit => Inv
  <2> SUFFICES ASSUME LmInit PROVE Inv
    OBVIOUS
  <2>1. DOMAIN layers = 0 .. 1
    BY InitStack
  <2>2. Windows = {}
    BY <2>1 DEF Windows, MOUSE_LAYER_ID, DESKTOP_LAYER_ID
  <2> QED BY <2>2, InitInv DEF WindowsStayVisible
<1>2. Inv /\ [LmNext]_vars => Inv'
  <2> SUFFICES ASSUME LayersInv, WindowsStayVisible, [LmNext]_vars PROVE WindowsStayVisible'
    BY InvStep
  <2>0. StackInv /\ PlaceInv /\ HeldInv /\ ScreenInv
    BY DEF LayersInv
  <2>1. /\ Number \in Nat /\ Number >= 2 /\ IsStack(layer_stack, Number) /\ DOMAIN layers = 0 .. Number - 1
        /\ Cardinality(DOMAIN layers) = Number /\ MOUSE_LAYER_ID \in DOMAIN layers
        /\ \A j \in 1 .. Number : layer_stack[j] \in DOMAIN layers
    BY <2>0, LayerIds
  <2>2. layers \in [0 .. Number - 1 -> Layer] /\ missed \in BOOLEAN
        /\ pressed \in [id : 0 .. Number - 1, x : Int, y : Int]
    BY <2>0 DEF StackInv
  <2> DEFINE Kept(id) == layers'[id].x = layers[id].x /\ layers'[id].y = layers[id].y
  <2>3. ASSUME missed' = missed, \A id \in Windows' : (id \in Windows /\ Kept(id)) \/ (layers'[id].x < Width /\ layers'[id].y < Height)
        PROVE  WindowsStayVisible'
    BY <2>3 DEF WindowsStayVisible
  <2>4. CASE UNCHANGED vars
    BY <2>4 DEF vars, WindowsStayVisible, Windows
  <2>5. CASE CreateWindow
    <3> DEFINE n == Number
    <3>1. PICK place \in Places : \E size \in Sizes :
              layers' = Settled(With(layers, n, NewLayer(place[1], place[2], size[1], size[2] + TitleBar)), n)
      BY <2>1, <2>5 DEF CreateWindow
    <3>2. PICK size \in Sizes :
              layers' = Settled(With(layers, n, NewLayer(place[1], place[2], size[1], size[2] + TitleBar)), n)
      BY <3>1
    <3> DEFINE new == NewLayer(place[1], place[2], size[1], size[2] + TitleBar)
    <3> DEFINE ls == With(layers, n, new)
    <3>3. /\ DOMAIN ls = DOMAIN layers \cup {n} /\ ls[n] = new
          /\ \A id \in DOMAIN layers : id # n => ls[id] = layers[id]
      BY DEF With
    <3>4. layers' = [ls EXCEPT ![n].prev = Now(ls[n])]
      BY <3>2 DEF Settled
    <3>5. DOMAIN layers' = DOMAIN layers \cup {n} /\ n \notin DOMAIN layers
      BY <3>3, <3>4, <2>1
    <3>6. \A id \in DOMAIN layers : layers'[id] = layers[id]
      <4> HIDE DEF ls, n
      <4> QED BY <3>3, <3>4, <3>5
    <3>7. layers'[n].x = place[1] /\ layers'[n].y = place[2]
      <4>1. layers'[n] = [new EXCEPT !.prev = Now(ls[n])]
        <5> HIDE DEF ls, n, new
        <5> QED BY <3>3, <3>4
      <4> QED BY <4>1 DEF NewLayer
    <3>8. place[1] < Width /\ place[2] < Height
      BY DisplayAssumption DEF Display
    <3>9. \A id \in Windows' : (id \in Windows /\ Kept(id)) \/ (layers'[id].x < Width /\ layers'[id].y < Height)
      <4> HIDE DEF ls, n, new
      <4>1. \A id \in Windows' : id = n \/ (id \in Windows /\ id \in DOMAIN layers)
        BY <3>5 DEF Windows
      <4> QED BY <4>1, <3>6, <3>7, <3>8
    <3>10. missed' = missed
      BY <2>5 DEF CreateWindow
    <3> HIDE DEF n, new, ls
    <3> QED BY <3>9, <3>10, <2>3
  <2>6. ASSUME NEW id \in DOMAIN layers, layers' = Settled(layers, id)
        PROVE  Windows' = Windows /\ \A k \in DOMAIN layers : Kept(k)
    <3> DEFINE K == DOMAIN layers
    <3>1. layers \in [K -> Layer] /\ id \in K
      BY <2>1, <2>2
    <3> HIDE DEF K
    <3>2. IsSettled(layers', layers, id, K)
      BY <3>1, <2>6, SettledProperties
    <3>3. DOMAIN layers' = K /\ \A k \in K : Now(layers'[k]) = Now(layers[k])
      BY <3>2 DEF IsSettled
    <3>4. \A k \in K : Now(layers'[k]).x = layers'[k].x /\ Now(layers[k]).x = layers[k].x
                       /\ Now(layers'[k]).y = layers'[k].y /\ Now(layers[k]).y = layers[k].y
      BY DEF Now, Rect
    <3>5. \A k \in K : Kept(k)
      BY <3>3, <3>4
    <3>6. Windows' = Windows
      BY <3>3 DEF Windows, K
    <3> QED BY <3>5, <3>6 DEF K
  <2>7. CASE SyncWindow
    <3>1. PICK id \in Windows : layers' = Settled(layers, id) /\ missed' = missed
      BY <2>7 DEF SyncWindow
    <3>2. Windows' = Windows /\ \A k \in Windows : Kept(k)
      BY <3>1, <2>6 DEF Windows
    <3> QED BY <3>1, <3>2, <2>3
  <2>8. CASE MouseRel
    <3>1. PICK d \in Moves : layers' = MoveRel(layers, MOUSE_LAYER_ID, d[1], d[2])
      BY <2>8 DEF MouseRel
    <3>2. DOMAIN layers' = DOMAIN layers /\ \A k \in DOMAIN layers : k # MOUSE_LAYER_ID => layers'[k] = layers[k]
      BY <3>1 DEF MoveRel, MoveAbs
    <3>3. Windows' = Windows /\ \A k \in Windows : Kept(k)
      BY <3>2 DEF Windows
    <3>4. missed' = missed
      BY <2>8 DEF MouseRel
    <3> QED BY <3>3, <3>4, <2>3
  <2>9. CASE MouseSyn
    <3>1. layers' = Settled(layers, MOUSE_LAYER_ID) /\ missed' = missed
      BY <2>9 DEF MouseSyn
    <3>2. Windows' = Windows /\ \A k \in Windows : Kept(k)
      BY <3>1, <2>1, <2>6 DEF Windows
    <3> QED BY <3>1, <3>2, <2>3
  <2>10. CASE MouseLeftPress
    <3> DEFINE hit == Hit(layers, Mouse.x, Mouse.y)
    <3>1. \/ hit # {} /\ Raise(layer_stack[Max(hit)]) /\ missed' = missed
          \/ missed' = TRUE
      BY <2>10 DEF MouseLeftPress, Mouse
    <3>2. CASE missed' = TRUE
      BY <3>2 DEF WindowsStayVisible
    <3>3. CASE hit # {} /\ Raise(layer_stack[Max(hit)]) /\ missed' = missed
      <4> DEFINE id == layer_stack[Max(hit)]
      <4>1. id \in DOMAIN layers
        <5>1. Max(hit) \in 1 .. Number - 1
          BY <3>3, <2>0, PressMeets
        <5> HIDE DEF hit
        <5>2. Max(hit) \in 1 .. Number
          BY <5>1, <2>1
        <5> QED BY <5>2, <2>1
      <4>2. layers' = Settled(layers, id) \/ layers' = layers
        BY <3>3 DEF Raise
      <4> HIDE DEF id, hit
      <4>3. Windows' = Windows /\ \A k \in Windows : Kept(k)
        <5>1. CASE layers' = Settled(layers, id)
          BY <5>1, <4>1, <2>6 DEF Windows
        <5>2. CASE layers' = layers
          BY <5>2 DEF Windows
        <5> QED BY <5>1, <5>2, <4>2
      <4> QED BY <4>3, <3>3, <2>3
    <3> QED BY <3>1, <3>2, <3>3
  <2>11. CASE MouseLeftRelease
    <3> DEFINE id == pressed.id
    <3> DEFINE l == layers[id]
    <3> DEFINE x == Mouse.x - (pressed.x - l.x)
    <3> DEFINE y == Mouse.y - (pressed.y - l.y)
    <3> DEFINE moved == MoveAbs(layers, id, x, y)
    <3>1. /\ clicks % 2 = 1 /\ missed' = missed
          /\ \/ id \in Windows /\ layers' = Settled(moved, id)
             \/ layers' = layers
      BY <2>11 DEF MouseLeftRelease, Mouse, Drop
    <3>2. CASE layers' = layers
      BY <3>1, <3>2, <2>3 DEF Windows
    <3>3. CASE id \in Windows /\ layers' = Settled(moved, id)
      <4>0. id \in DOMAIN layers /\ l \in Layer
        BY <2>1, <2>2
      <4>1. DOMAIN layers' = DOMAIN layers /\ \A k \in DOMAIN layers : k # id => layers'[k] = layers[k]
        BY <3>3 DEF Settled, MoveAbs
      <4>2. layers'[id].x = Clamp(x, Width) /\ layers'[id].y = Clamp(y, Height)
        <5> DEFINE d == [l EXCEPT !.x = Clamp(x, Width), !.y = Clamp(y, Height)]
        <5> HIDE DEF id, x, y
        <5>1. moved = [layers EXCEPT ![id] = d]
          BY <4>0 DEF MoveAbs
        <5>2. d.x = Clamp(x, Width) /\ d.y = Clamp(y, Height)
          BY <4>0 DEF Layer
        <5> HIDE DEF d
        <5>3. moved[id] = d
          BY <5>1, <4>0
        <5>4. layers'[id] = [d EXCEPT !.prev = Now(d)]
          <6>1. id \in DOMAIN moved
            BY <5>1, <4>0
          <6> HIDE DEF moved
          <6> QED BY <6>1, <5>3, <3>3 DEF Settled
        <5> QED BY <5>2, <5>4
      <4>3. ASSUME ~missed PROVE Clamp(x, Width) < Width /\ Clamp(y, Height) < Height
        <5>1. Mouse.x \in Int /\ Mouse.y \in Int /\ l.x \in Int /\ l.y \in Int /\ pressed.x \in Int /\ pressed.y \in Int
          <6>1. Mouse \in Layer
            BY <2>1, <2>2 DEF Mouse
          <6> QED BY <6>1, <4>0, <2>2 DEF Layer
        <5>2. Mouse.x <= Width /\ Mouse.y <= Height
          BY <2>0 DEF PlaceInv
        <5>3. l.x < pressed.x /\ l.y < pressed.y
          BY <4>3, <3>1, <3>3, <2>0 DEF HeldInv
        <5>4. Width \in Nat \ {0} /\ Height \in Nat \ {0}
          BY DisplayAssumption
        <5> HIDE DEF l, id
        <5> QED BY <5>1, <5>2, <5>3, <5>4, DropsInside
      <4> HIDE DEF id, moved, x, y
      <4>4. \A k \in Windows' : k = id \/ (k \in Windows /\ Kept(k))
        BY <4>1 DEF Windows
      <4>5. CASE missed
        BY <4>5, <3>1 DEF WindowsStayVisible
      <4>6. CASE ~missed
        <5>1. layers'[id].x < Width /\ layers'[id].y < Height
          BY <4>2, <4>3, <4>6
        <5> QED BY <5>1, <4>4, <3>1, <2>3
      <4> QED BY <4>5, <4>6
    <3> QED BY <3>1, <3>2, <3>3
  <2> QED BY <2>4, <2>5, <2>7, <2>8, <2>9, <2>10, <2>11 DEF LmNext
<1>3. Inv => WindowsStayVisible
  OBVIOUS
<1> HIDE DEF Inv
<1> QED BY <1>1, <1>2, <1>3, PTL DEF LmSpec
=============================================================================
