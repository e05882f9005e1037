--------------------------- MODULE MazePlayProofs ---------------------------
(***************************************************************************)
(* For every maze, size of block, screen and buffer: drawing stays within  *)
(* the build buffer, and the window in it is the maze, pixel for pixel.    *)
(***************************************************************************)
EXTENDS MazePlay, FiniteSetTheorems, TLAPS

(* Arithmetic. *)

LEMMA QuarterOrder ==
  ASSUME NEW a \in Int, NEW b \in Int, a <= b
  PROVE  a \div 4 \in Int /\ b \div 4 \in Int /\ a \div 4 <= b \div 4
OBVIOUS

LEMMA LineOrder ==
  ASSUME NEW a \in Int, NEW b \in Int, NEW n \in Nat, a <= b
  PROVE  a * n \in Int /\ b * n \in Int /\ a * n <= b * n
<1>1. (b - a) * n >= 0
  OBVIOUS
<1>. QED
  BY <1>1

LEMMA SizeFacts ==
  /\ SCROLL_X_WIDTH \in Nat \ {0} /\ SCROLL_X_DIM = 4 * SCROLL_X_WIDTH
  /\ SCROLL_Y_DIM \in Nat \ {0}
  /\ SCROLL_SIZE \in Nat /\ SCROLL_Y_DIM * SCROLL_X_WIDTH <= SCROLL_SIZE
  /\ MEM_FENCE_WIDTH \in Nat /\ ExtraBytes \in Nat
  /\ BUILD_BUF_SIZE = 4 * SCROLL_SIZE + 1 + ExtraBytes
  /\ BUILD_BASE_INIT \in Nat /\ BUILD_BASE_INIT <= ExtraBytes
<1>1. /\ IMAGE_X_DIM \in Nat \ {0} /\ IMAGE_X_DIM % 4 = 0
      /\ IMAGE_Y_DIM \in Nat /\ BarHeight \in Nat /\ BarHeight < IMAGE_Y_DIM
      /\ ExtraBytes \in Nat /\ MEM_FENCE_WIDTH \in Nat
  BY ImageDimAssumption, BufferAssumption
<1>2. SCROLL_X_WIDTH \in Nat \ {0} /\ SCROLL_X_DIM = 4 * SCROLL_X_WIDTH
  BY <1>1 DEF SCROLL_X_WIDTH, SCROLL_X_DIM
<1>3. SCROLL_Y_DIM \in Nat \ {0}
  BY <1>1 DEF SCROLL_Y_DIM
<1>4. PICK n \in Nat \ {0} : n = SCROLL_X_WIDTH
  BY <1>2
<1>5. n * IMAGE_Y_DIM \in Int /\ n * BarHeight \in Int /\ (IMAGE_Y_DIM - BarHeight) * n \in Int
      /\ (IMAGE_Y_DIM - BarHeight) * n = n * IMAGE_Y_DIM - n * BarHeight
      /\ BarHeight <= n * BarHeight /\ 0 <= (IMAGE_Y_DIM - BarHeight) * n
  <2>1. (n - 1) * BarHeight >= 0 /\ (IMAGE_Y_DIM - BarHeight) * n >= 0
    BY <1>1
  <2>. QED
    BY <1>1, <2>1
<1>6. SCROLL_SIZE = n * IMAGE_Y_DIM - BarHeight
  BY <1>4 DEF SCROLL_SIZE
<1>7. SCROLL_Y_DIM * SCROLL_X_WIDTH = (IMAGE_Y_DIM - BarHeight) * n
  BY <1>4 DEF SCROLL_Y_DIM
<1>8. SCROLL_SIZE \in Nat /\ SCROLL_Y_DIM * SCROLL_X_WIDTH <= SCROLL_SIZE
  BY <1>1, <1>5, <1>6, <1>7
<1>9. BUILD_BUF_SIZE = 4 * SCROLL_SIZE + 1 + ExtraBytes
  BY <1>1, <1>8 DEF BUILD_BUF_SIZE, SCREEN_SIZE
<1>10. BUILD_BASE_INIT = ExtraBytes \div 2
  BY <1>1, <1>8 DEF BUILD_BUF_SIZE, SCREEN_SIZE, BUILD_BASE_INIT
<1>11. ExtraBytes \div 2 \in Nat /\ ExtraBytes \div 2 <= ExtraBytes
  BY <1>1
<1>. QED
  BY <1>1, <1>2, <1>3, <1>8, <1>9, <1>10, <1>11

----------------------------------------------------------------------------
(* Windows. *)

IsWindow(v) ==
    /\ DOMAIN v = {"build", "off", "x", "y"}
    /\ v.off \in Int /\ v.x \in Int /\ v.y \in Int

\* A window that is in the buffer.
Held(v) == IsWindow(v) /\ Fits(v, v.x, v.y)

LEMMA WindowPixels ==
  ASSUME NEW v, IsWindow(v), NEW p \in Window(v)
  PROVE  /\ p = <<p[1], p[2]>> /\ p[1] \in Int /\ p[2] \in Int
         /\ v.x <= p[1] /\ p[1] <= v.x + SCROLL_X_DIM - 1
         /\ v.y <= p[2] /\ p[2] <= v.y + SCROLL_Y_DIM - 1
BY SizeFacts DEF IsWindow, Window, Rectangle

\* Where a plane of the buffer begins.
LEMMA PlaneRange ==
  ASSUME NEW r \in 0 .. 3, NEW n \in Nat
  PROVE  (3 - r) * n \in Int /\ 0 <= (3 - r) * n /\ (3 - r) * n <= 3 * n
OBVIOUS

(* Bytes into a plane, and into the four planes. *)
Offset(x, y) == x \div 4 + y * SCROLL_X_WIDTH
Place(x, y) == Offset(x, y) + (3 - (x % 4)) * SCROLL_SIZE

\* A rectangle in the buffer is between its first and its last byte.
LEMMA PlaceBetween ==
  ASSUME NEW a \in Int, NEW b \in Int, NEW c \in Int, NEW d \in Int, NEW e \in Int, NEW f \in Int,
         a <= c, c <= e, b <= d, d <= f
  PROVE  /\ Place(c, d) \in Int /\ Offset(a, b) \in Int /\ Offset(e, f) \in Int
         /\ Offset(a, b) <= Place(c, d) /\ Place(c, d) <= Offset(e, f) + 3 * SCROLL_SIZE
<1>1. SCROLL_X_WIDTH \in Nat /\ SCROLL_SIZE \in Nat
  BY SizeFacts
<1>2. PICK W \in Nat, S \in Nat : W = SCROLL_X_WIDTH /\ S = SCROLL_SIZE
  BY <1>1
<1>3. /\ a \div 4 \in Int /\ c \div 4 \in Int /\ e \div 4 \in Int
      /\ a \div 4 <= c \div 4 /\ c \div 4 <= e \div 4
  BY QuarterOrder
<1>4. b * W \in Int /\ d * W \in Int /\ b * W <= d * W
  BY LineOrder
<1>5. f * W \in Int /\ d * W <= f * W
  BY LineOrder
<1>6. PICK r \in 0 .. 3 : r = c % 4
  OBVIOUS
<1>7. (3 - r) * S \in Int /\ 0 <= (3 - r) * S /\ (3 - r) * S <= 3 * S
  BY PlaneRange
<1>. QED
  BY <1>2, <1>3, <1>4, <1>5, <1>6, <1>7 DEF Place, Offset

LEMMA PlaceInt ==
  ASSUME NEW x \in Int, NEW y \in Int
  PROVE  Place(x, y) \in Int /\ Offset(x, y) \in Int
<1>1. x <= x /\ y <= y
  OBVIOUS
<1>. QED
  BY <1>1, PlaceBetween

LEMMA BufferIs ==
  ASSUME NEW a \in Int
  PROVE  a \in Build \ Fences <=> MEM_FENCE_WIDTH <= a /\ a < BUILD_BUF_SIZE + MEM_FENCE_WIDTH
BY SizeFacts DEF Build, Fences

LEMMA AddrIs ==
  ASSUME NEW v, v.off \in Int, NEW p, p[1] \in Int, p[2] \in Int
  PROVE  Addr(v, p) = v.off + MEM_FENCE_WIDTH + Place(p[1], p[2])
<1>1. p[1] \div 4 \in Int /\ p[2] * SCROLL_X_WIDTH \in Int /\ (3 - (p[1] % 4)) * SCROLL_SIZE \in Int
  BY SizeFacts
<1>. QED
  BY <1>1, SizeFacts DEF Addr, Img3, Place, Offset

LEMMA FitsIs ==
  ASSUME NEW v, v.off \in Int, NEW x \in Int, NEW y \in Int
  PROVE  Fits(v, x, y) <=>
           /\ v.off + Offset(x, y) >= 0
           /\ v.off + 3 * SCROLL_SIZE + Offset(x + SCROLL_X_DIM - 1, y + SCROLL_Y_DIM - 1) < BUILD_BUF_SIZE
<1>1. /\ x \div 4 \in Int /\ y * SCROLL_X_WIDTH \in Int
      /\ (x + SCROLL_X_DIM - 1) \div 4 \in Int /\ (y + SCROLL_Y_DIM - 1) * SCROLL_X_WIDTH \in Int
  BY SizeFacts
<1>. QED
  BY <1>1, SizeFacts DEF Fits, Offset

LEMMA AddrInBuffer ==
  ASSUME NEW v, Held(v), NEW p \in Window(v)
  PROVE  Addr(v, p) \in Build \ Fences /\ Addr(v, p) \in Int
<1>1. /\ p[1] \in Int /\ p[2] \in Int
      /\ v.x <= p[1] /\ p[1] <= v.x + SCROLL_X_DIM - 1
      /\ v.y <= p[2] /\ p[2] <= v.y + SCROLL_Y_DIM - 1
  BY WindowPixels DEF Held
<1>2. v.x \in Int /\ v.y \in Int /\ v.off \in Int
  BY DEF Held, IsWindow
<1>3. v.x + SCROLL_X_DIM - 1 \in Int /\ v.y + SCROLL_Y_DIM - 1 \in Int
  BY <1>2, SizeFacts
<1>4. /\ Place(p[1], p[2]) \in Int /\ Offset(v.x, v.y) \in Int
      /\ Offset(v.x + SCROLL_X_DIM - 1, v.y + SCROLL_Y_DIM - 1) \in Int
      /\ Offset(v.x, v.y) <= Place(p[1], p[2])
      /\ Place(p[1], p[2]) <= Offset(v.x + SCROLL_X_DIM - 1, v.y + SCROLL_Y_DIM - 1) + 3 * SCROLL_SIZE
  <2>1. PICK a \in Int, b \in Int, c \in Int, d \in Int, e \in Int, f \in Int :
          /\ c = p[1] /\ d = p[2] /\ a = v.x /\ b = v.y
          /\ e = v.x + SCROLL_X_DIM - 1 /\ f = v.y + SCROLL_Y_DIM - 1
    BY <1>1, <1>2, <1>3
  <2>2. a <= c /\ c <= e /\ b <= d /\ d <= f
    BY <1>1, <2>1
  <2>3. /\ Place(c, d) \in Int /\ Offset(a, b) \in Int /\ Offset(e, f) \in Int
        /\ Offset(a, b) <= Place(c, d) /\ Place(c, d) <= Offset(e, f) + 3 * SCROLL_SIZE
    BY <2>2, PlaceBetween
  <2>. QED
    BY <2>1, <2>3
<1>5. /\ v.off + Offset(v.x, v.y) >= 0
      /\ v.off + 3 * SCROLL_SIZE + Offset(v.x + SCROLL_X_DIM - 1, v.y + SCROLL_Y_DIM - 1) < BUILD_BUF_SIZE
  BY <1>2, FitsIs DEF Held
<1>6. Addr(v, p) = v.off + MEM_FENCE_WIDTH + Place(p[1], p[2])
  BY <1>1, <1>2, AddrIs
<1>7. SCROLL_SIZE \in Nat /\ MEM_FENCE_WIDTH \in Nat /\ BUILD_BUF_SIZE \in Nat
  BY SizeFacts
<1>. QED
  BY <1>2, <1>4, <1>5, <1>6, <1>7, BufferIs

\* A place in rows of n determines its row and its place in it.
LEMMA OneRow ==
  ASSUME NEW n \in Nat \ {0}, NEW i \in 0 .. n - 1, NEW j \in Int,
         NEW k \in 0 .. n - 1, NEW l \in Int, i + j * n = k + l * n
  PROVE  i = k /\ j = l
<1>1. CASE j < l
  <2>1. (l - j - 1) * n >= 0
    BY <1>1
  <2>2. l * n - j * n = (l - j - 1) * n + n
    OBVIOUS
  <2>. QED
    BY <2>1, <2>2
<1>2. CASE l < j
  <2>1. (j - l - 1) * n >= 0
    BY <1>2
  <2>2. j * n - l * n = (j - l - 1) * n + n
    OBVIOUS
  <2>. QED
    BY <2>1, <2>2
<1>. QED
  BY <1>1, <1>2

\* The column of a window that begins at x to which a pixel belongs in its plane.
Carry(x, a) == IF a % 4 < x % 4 THEN 1 ELSE 0
Column(x, a) == a \div 4 - x \div 4 - Carry(x, a)

LEMMA ColumnRange ==
  ASSUME NEW x \in Int, NEW n \in Nat \ {0}, NEW a \in Int, x <= a, a <= x + 4 * n - 1
  PROVE  Column(x, a) \in 0 .. n - 1
<1>1. PICK k \in Int, t \in 0 .. 3 : k = x \div 4 /\ t = x % 4 /\ x = 4 * k + t
  OBVIOUS
<1>2. PICK b \in Int, r \in 0 .. 3 : b = a \div 4 /\ r = a % 4 /\ a = 4 * b + r
  OBVIOUS
<1>. QED
  BY <1>1, <1>2 DEF Column, Carry

\* No two pixels of a window have the same byte.
LEMMA PlaceOneToOne ==
  ASSUME NEW x \in Int, NEW y \in Int, NEW a \in Int, NEW b \in Int, NEW c \in Int, NEW d \in Int,
         x <= a, a <= x + SCROLL_X_DIM - 1, y <= b, b <= y + SCROLL_Y_DIM - 1,
         x <= c, c <= x + SCROLL_X_DIM - 1, y <= d, d <= y + SCROLL_Y_DIM - 1,
         Place(a, b) = Place(c, d)
  PROVE  a = c /\ b = d
<1>1. PICK W \in Nat \ {0}, H \in Nat \ {0}, S \in Nat :
        /\ W = SCROLL_X_WIDTH /\ H = SCROLL_Y_DIM /\ S = SCROLL_SIZE /\ SCROLL_X_DIM = 4 * W
        /\ H * W <= S
  BY SizeFacts
<1>2. a <= x + 4 * W - 1 /\ c <= x + 4 * W - 1
  BY <1>1
<1>3. PICK i \in 0 .. W - 1, k \in 0 .. W - 1 : i = Column(x, a) /\ k = Column(x, c)
  BY <1>2, ColumnRange
<1>4. PICK r \in 0 .. 3, s \in 0 .. 3, t \in 0 .. 3 : r = a % 4 /\ s = c % 4 /\ t = x % 4
  OBVIOUS
<1>5. PICK u \in 0 .. 1, v \in 0 .. 1 : u = Carry(x, a) /\ v = Carry(x, c)
  BY DEF Carry
<1>6. (r <= s => v <= u) /\ (s <= r => u <= v)
  BY <1>4, <1>5 DEF Carry
<1>7. a \div 4 = i + x \div 4 + u /\ c \div 4 = k + x \div 4 + v
  BY <1>3, <1>5 DEF Column
<1>8. PICK m \in Int, n \in Int : m = (b - y) * W /\ n = (d - y) * W
  OBVIOUS
<1>9. b * W = m + y * W /\ d * W = n + y * W /\ y * W \in Int
  BY <1>8
<1>10. 0 <= m /\ m <= (H - 1) * W /\ 0 <= n /\ n <= (H - 1) * W
  <2>1. 0 <= b - y /\ b - y <= H - 1 /\ 0 <= d - y /\ d - y <= H - 1
    BY <1>1
  <2>2. PICK e \in Int, f \in Int : e = b - y /\ f = d - y
    OBVIOUS
  <2>3. e * W <= (H - 1) * W /\ f * W <= (H - 1) * W /\ 0 <= e * W /\ 0 <= f * W
    <3>1. (H - 1 - e) * W >= 0 /\ (H - 1 - f) * W >= 0
      BY <2>1, <2>2
    <3>2. e * W >= 0 /\ f * W >= 0
      BY <2>1, <2>2
    <3>. QED
      BY <3>1, <3>2
  <2>. QED
    BY <1>8, <2>2, <2>3
<1>11. i + m \in 0 .. S - 1 /\ k + n \in 0 .. S - 1
  <2>1. (H - 1) * W = H * W - W /\ H * W \in Int
    BY <1>1
  <2>. QED
    BY <1>1, <1>10, <2>1
<1>12. i + m + u + (3 - r) * S = k + n + v + (3 - s) * S
  <2>1. Place(a, b) = a \div 4 + b * W + (3 - r) * S /\ Place(c, d) = c \div 4 + d * W + (3 - s) * S
    BY <1>1, <1>4 DEF Place, Offset
  <2>2. PICK g \in Int, h \in Int, z \in Int, l \in Int :
          g = (3 - r) * S /\ h = (3 - s) * S /\ z = x \div 4 /\ l = y * W
    OBVIOUS
  <2>3. PICK P \in Int : P = Place(a, b) /\ P = Place(c, d)
    BY PlaceInt
  <2>4. a \div 4 = i + z + u /\ c \div 4 = k + z + v
    BY <1>7, <2>2
  <2>5. b * W = m + l /\ d * W = n + l
    BY <1>9, <2>2
  <2>6. P = (i + z + u) + (m + l) + g
    BY <2>1, <2>2, <2>3, <2>4, <2>5
  <2>7. P = (k + z + v) + (n + l) + h
    BY <2>1, <2>2, <2>3, <2>4, <2>5
  <2>8. i + m + u + g = k + n + v + h
    BY <2>6, <2>7
  <2>. QED
    BY <2>2, <2>8
<1>13. r = s
  <2>1. CASE r < s
    <3>1. (3 - r) * S - (3 - s) * S >= S
      <4>1. (s - r - 1) * S >= 0
        BY <2>1
      <4>. QED
        BY <4>1
    <3>2. (3 - r) * S \in Int /\ (3 - s) * S \in Int
      OBVIOUS
    <3>. QED
      BY <1>6, <1>11, <1>12, <2>1, <3>1, <3>2
  <2>2. CASE s < r
    <3>1. (3 - s) * S - (3 - r) * S >= S
      <4>1. (r - s - 1) * S >= 0
        BY <2>2
      <4>. QED
        BY <4>1
    <3>2. (3 - r) * S \in Int /\ (3 - s) * S \in Int
      OBVIOUS
    <3>. QED
      BY <1>6, <1>11, <1>12, <2>2, <3>1, <3>2
  <2>. QED
    BY <2>1, <2>2
<1>14. u = v /\ i + m = k + n
  BY <1>6, <1>12, <1>13
<1>15. i = k /\ b - y = d - y
  <2>1. PICK e \in Int, f \in Int : e = b - y /\ f = d - y
    OBVIOUS
  <2>2. i + e * W = k + f * W
    BY <1>8, <1>14, <2>1
  <2>3. i = k /\ e = f
    BY <2>2, OneRow
  <2>. QED
    BY <2>1, <2>3
<1>16. a \div 4 = c \div 4 /\ a % 4 = c % 4
  BY <1>4, <1>7, <1>13, <1>14, <1>15
<1>. QED
  BY <1>15, <1>16

LEMMA AddrOneToOne ==
  ASSUME NEW v, IsWindow(v), NEW p \in Window(v), NEW q \in Window(v), Addr(v, p) = Addr(v, q)
  PROVE  p = q
<1>1. PICK a \in Int, b \in Int, c \in Int, d \in Int, x \in Int, y \in Int :
        a = p[1] /\ b = p[2] /\ c = q[1] /\ d = q[2] /\ x = v.x /\ y = v.y
  BY WindowPixels DEF IsWindow
<1>2. /\ x <= a /\ a <= x + SCROLL_X_DIM - 1 /\ y <= b /\ b <= y + SCROLL_Y_DIM - 1
      /\ x <= c /\ c <= x + SCROLL_X_DIM - 1 /\ y <= d /\ d <= y + SCROLL_Y_DIM - 1
  BY <1>1, WindowPixels
<1>3. Place(a, b) = Place(c, d)
  <2>1. v.off \in Int
    BY DEF IsWindow
  <2>2. Addr(v, p) = v.off + MEM_FENCE_WIDTH + Place(a, b)
    BY <1>1, <2>1, AddrIs
  <2>3. Addr(v, q) = v.off + MEM_FENCE_WIDTH + Place(c, d)
    BY <1>1, <2>1, AddrIs
  <2>7. Place(a, b) \in Int /\ Place(c, d) \in Int
    BY PlaceInt
  <2>8. MEM_FENCE_WIDTH \in Int
    BY SizeFacts
  <2>4. PICK P \in Int, Q \in Int, A \in Int, f \in Int :
          P = Place(a, b) /\ Q = Place(c, d) /\ A = v.off /\ f = MEM_FENCE_WIDTH
    BY <2>1, <2>7, <2>8
  <2>5. A + f + P = A + f + Q
    BY <2>2, <2>3, <2>4
  <2>6. P = Q
    BY <2>5
  <2>. QED
    BY <2>4, <2>6
<1>4. a = c /\ b = d
  BY <1>2, <1>3, PlaceOneToOne
<1>5. p = <<p[1], p[2]>>
  BY WindowPixels
<1>6. q = <<q[1], q[2]>>
  BY WindowPixels
<1>. QED
  BY <1>1, <1>4, <1>5, <1>6

----------------------------------------------------------------------------
(* Drawing. *)

LEMMA PaintIs ==
  ASSUME NEW v, IsWindow(v), NEW g
  PROVE  LET r == Paint(v, g)
             drawn(a) == \E p \in DOMAIN g : Addr(v, p) = a
         IN  /\ IsWindow(r) /\ r.off = v.off /\ r.x = v.x /\ r.y = v.y
             /\ \A a \in Build : r.build[a] = IF drawn(a) THEN g[CHOOSE p \in DOMAIN g : Addr(v, p) = a]
                                              ELSE v.build[a]
<1>. DEFINE addr == [p \in DOMAIN g |-> Addr(v, p)]
            build == [a \in Build |->
                       IF \E p \in DOMAIN g : addr[p] = a
                       THEN g[CHOOSE p \in DOMAIN g : addr[p] = a]
                       ELSE v.build[a]]
            r == Paint(v, g)
<1>1. r = [v EXCEPT !.build = build]
  BY DEF Paint
<1>. HIDE DEF build, r
<1>2. DOMAIN r = DOMAIN v /\ r.build = build /\ r.off = v.off /\ r.x = v.x /\ r.y = v.y
  BY <1>1 DEF IsWindow
<1>4. IsWindow(r) /\ r.off = v.off /\ r.x = v.x /\ r.y = v.y /\ r.build = build
  BY <1>2 DEF IsWindow
<1>5. ASSUME NEW a \in Build
      PROVE  build[a] = IF \E p \in DOMAIN g : Addr(v, p) = a
                        THEN g[CHOOSE p \in DOMAIN g : Addr(v, p) = a] ELSE v.build[a]
  <2>1. \A p \in DOMAIN g : addr[p] = Addr(v, p)
    OBVIOUS
  <2>2. (\E p \in DOMAIN g : addr[p] = a) <=> \E p \in DOMAIN g : Addr(v, p) = a
    BY <2>1
  <2>3. (CHOOSE p \in DOMAIN g : addr[p] = a) = CHOOSE p \in DOMAIN g : Addr(v, p) = a
    BY <2>1
  <2>4. build[a] = IF \E p \in DOMAIN g : addr[p] = a
                   THEN g[CHOOSE p \in DOMAIN g : addr[p] = a] ELSE v.build[a]
    BY DEF build
  <2>. HIDE DEF addr
  <2>. QED
    BY <2>2, <2>3, <2>4
<1>. QED
  BY <1>4, <1>5 DEF r

\* A drawing in the window changes its pixels and no others, and no fence.
LEMMA Painted ==
  ASSUME NEW v, Held(v), NEW g, DOMAIN g \subseteq Window(v)
  PROVE  LET r == Paint(v, g)
         IN  /\ Held(r) /\ r.off = v.off /\ r.x = v.x /\ r.y = v.y /\ Window(r) = Window(v)
             /\ FencesWhole(v) => FencesWhole(r)
             /\ \A p \in Window(v) : At(r, p) = IF p \in DOMAIN g THEN g[p] ELSE At(v, p)
<1>. DEFINE r == Paint(v, g)
<1>1. /\ IsWindow(r) /\ r.off = v.off /\ r.x = v.x /\ r.y = v.y
      /\ \A a \in Build : r.build[a] = IF \E p \in DOMAIN g : Addr(v, p) = a
                                       THEN g[CHOOSE p \in DOMAIN g : Addr(v, p) = a]
                                       ELSE v.build[a]
  BY PaintIs DEF Held
<1>. HIDE DEF r
<1>2. Held(r) /\ Window(r) = Window(v)
  BY <1>1 DEF Held, Fits, Window
<1>3. \A p : Addr(r, p) = Addr(v, p)
  BY <1>1 DEF Addr, Img3
<1>4. ASSUME FencesWhole(v) PROVE FencesWhole(r)
  <2>. SUFFICES ASSUME NEW a \in Fences PROVE r.build[a] = MEM_FENCE_MAGIC
    BY DEF FencesWhole
  <2>1. a \in Build
    BY DEF Fences
  <2>2. ~ \E p \in DOMAIN g : Addr(v, p) = a
    BY AddrInBuffer
  <2>. QED
    BY <1>1, <1>4, <2>1, <2>2 DEF FencesWhole
<1>5. ASSUME NEW p \in Window(v)
      PROVE  At(r, p) = IF p \in DOMAIN g THEN g[p] ELSE At(v, p)
  <2>1. Addr(v, p) \in Build
    BY AddrInBuffer
  <2>2. \A q \in DOMAIN g : Addr(v, q) = Addr(v, p) => q = p
    BY AddrOneToOne DEF Held
  <2>3. At(r, p) = r.build[Addr(v, p)]
    BY <1>3 DEF At
  <2>4. CASE p \in DOMAIN g
    <3>1. (CHOOSE q \in DOMAIN g : Addr(v, q) = Addr(v, p)) = p
      BY <2>2, <2>4
    <3>. QED
      BY <1>1, <2>1, <2>3, <2>4, <3>1
  <2>5. CASE p \notin DOMAIN g
    BY <1>1, <2>1, <2>2, <2>3, <2>5 DEF At
  <2>. QED
    BY <2>4, <2>5
<1>. QED
  BY <1>1, <1>2, <1>4, <1>5 DEF r

----------------------------------------------------------------------------
(* Moving the window. *)

LEMMA OffsetOrder ==
  ASSUME NEW a \in Int, NEW b \in Int, NEW c \in Int, NEW d \in Int, a <= c, b <= d
  PROVE  Offset(a, b) \in Int /\ Offset(c, d) \in Int /\ Offset(a, b) <= Offset(c, d)
<1>1. PICK n \in Nat : n = SCROLL_X_WIDTH
  BY SizeFacts
<1>2. a \div 4 \in Int /\ c \div 4 \in Int /\ a \div 4 <= c \div 4
  BY QuarterOrder
<1>3. b * n \in Int /\ d * n \in Int /\ b * n <= d * n
  BY LineOrder
<1>. QED
  BY <1>1, <1>2, <1>3 DEF Offset

\* A window covers no more than a plane of the buffer.
LEMMA OffsetSpan ==
  ASSUME NEW x \in Int, NEW y \in Int
  PROVE  /\ x + SCROLL_X_DIM - 1 \in Int /\ y + SCROLL_Y_DIM - 1 \in Int
         /\ Offset(x, y) \in Int /\ Offset(x + SCROLL_X_DIM - 1, y + SCROLL_Y_DIM - 1) \in Int
         /\ Offset(x + SCROLL_X_DIM - 1, y + SCROLL_Y_DIM - 1) <= Offset(x, y) + SCROLL_SIZE
<1>1. PICK W \in Nat \ {0}, H \in Nat \ {0}, S \in Nat :
        /\ W = SCROLL_X_WIDTH /\ H = SCROLL_Y_DIM /\ S = SCROLL_SIZE /\ SCROLL_X_DIM = 4 * W
        /\ H * W <= S
  BY SizeFacts
<1>2. (x + 4 * W - 1) \div 4 <= x \div 4 + W /\ x \div 4 \in Int /\ (x + 4 * W - 1) \div 4 \in Int
  OBVIOUS
<1>3. (y + H - 1) * W = y * W + H * W - W /\ y * W \in Int /\ H * W \in Int
  OBVIOUS
<1>4. Offset(x, y) = x \div 4 + y * W
  BY <1>1 DEF Offset
<1>5. Offset(x + SCROLL_X_DIM - 1, y + SCROLL_Y_DIM - 1) = (x + 4 * W - 1) \div 4 + (y + H - 1) * W
  BY <1>1 DEF Offset
<1>. QED
  BY <1>1, <1>2, <1>3, <1>4, <1>5

\* In the middle of the buffer there is room for the window.
LEMMA RecentredHolds ==
  ASSUME NEW x \in Int, NEW y \in Int, NEW v, IsWindow(v), v.x = x, v.y = y, v.off = Recentred(x, y)
  PROVE  Held(v)
<1>1. PICK o \in Int, l \in Int, S \in Nat :
        /\ o = Offset(x, y) /\ l = Offset(x + SCROLL_X_DIM - 1, y + SCROLL_Y_DIM - 1)
        /\ S = SCROLL_SIZE /\ l <= o + S
  <2>1. /\ Offset(x, y) \in Int /\ Offset(x + SCROLL_X_DIM - 1, y + SCROLL_Y_DIM - 1) \in Int
        /\ Offset(x + SCROLL_X_DIM - 1, y + SCROLL_Y_DIM - 1) <= Offset(x, y) + SCROLL_SIZE
    BY OffsetSpan
  <2>2. SCROLL_SIZE \in Nat
    BY SizeFacts
  <2>. QED
    BY <2>1, <2>2
<1>2. PICK B \in Nat, E \in Nat : B = BUILD_BASE_INIT /\ E = BUILD_BUF_SIZE /\ B + 4 * S < E
  BY <1>1, SizeFacts
<1>3. v.off = B - o
  <2>1. x \div 4 \in Int /\ y * SCROLL_X_WIDTH \in Int
    BY SizeFacts
  <2>. QED
    BY <1>1, <1>2, <2>1 DEF Recentred, Offset
<1>4. v.off + o >= 0 /\ v.off + 3 * S + l < E
  BY <1>1, <1>2, <1>3
<1>5. Fits(v, x, y)
  <2>1. v.off \in Int
    BY DEF IsWindow
  <2>. QED
    BY <1>1, <1>2, <1>4, <2>1, FitsIs
<1>. QED
  BY <1>5 DEF Held

\* The bytes that are copied are those from the first to the last pixel that
\* both windows show.
LEMMA CopyIs ==
  ASSUME NEW v, v.x \in Int, v.y \in Int, NEW x \in Int, NEW y \in Int
  PROVE  \E mx, my, nx, ny \in Int :
           /\ mx \in {x, v.x} /\ x <= mx /\ v.x <= mx /\ my \in {y, v.y} /\ y <= my /\ v.y <= my
           /\ nx \in {x, v.x} /\ nx <= x /\ nx <= v.x /\ ny \in {y, v.y} /\ ny <= y /\ ny <= v.y
           /\ CopyStart(v, x, y) = Offset(mx, my)
           /\ CopyStart(v, x, y) + CopyLength(v, x, y) - 1
                = Offset(nx + SCROLL_X_DIM - 1, ny + SCROLL_Y_DIM - 1) + 3 * SCROLL_SIZE
           /\ CopyLength(v, x, y) \in Int
<1>1. PICK mx \in Int, my \in Int, nx \in Int, ny \in Int :
        /\ mx = Larger(x, v.x) /\ my = Larger(y, v.y) /\ nx = Smaller(x, v.x) /\ ny = Smaller(y, v.y)
  BY DEF Larger, Smaller
<1>2. /\ mx \in {x, v.x} /\ x <= mx /\ v.x <= mx /\ my \in {y, v.y} /\ y <= my /\ v.y <= my
      /\ nx \in {x, v.x} /\ nx <= x /\ nx <= v.x /\ ny \in {y, v.y} /\ ny <= y /\ ny <= v.y
  BY <1>1 DEF Larger, Smaller
<1>3. CopyStart(v, x, y) = Offset(mx, my)
  BY <1>1 DEF CopyStart, Offset
<1>4. PICK o \in Int, l \in Int, S \in Int :
        /\ o = Offset(mx, my) /\ l = Offset(nx + SCROLL_X_DIM - 1, ny + SCROLL_Y_DIM - 1)
        /\ S = SCROLL_SIZE
  <2>1. Offset(mx, my) \in Int
    BY OffsetSpan
  <2>2. Offset(nx + SCROLL_X_DIM - 1, ny + SCROLL_Y_DIM - 1) \in Int
    BY OffsetSpan
  <2>3. SCROLL_SIZE \in Int
    BY SizeFacts
  <2>. QED
    BY <2>1, <2>2, <2>3
<1>5. CopyLength(v, x, y) = l + 1 - o + 3 * S
  <2>1. CopyLength(v, x, y) = (nx + SCROLL_X_DIM - 1) \div 4 + (ny + SCROLL_Y_DIM - 1) * SCROLL_X_WIDTH
                                + 1 - o + 3 * S
    BY <1>1, <1>3, <1>4 DEF CopyLength
  <2>2. l = (nx + SCROLL_X_DIM - 1) \div 4 + (ny + SCROLL_Y_DIM - 1) * SCROLL_X_WIDTH
    BY <1>4 DEF Offset
  <2>. QED
    BY <2>1, <2>2
<1>6. CopyLength(v, x, y) \in Int /\ CopyStart(v, x, y) + CopyLength(v, x, y) - 1 = l + 3 * S
  BY <1>3, <1>4, <1>5
<1>. QED
  BY <1>2, <1>3, <1>4, <1>6

(* The window put in the middle of the buffer, and with it what it shows. *)
Shifted(v, x, y) == [[v EXCEPT !.x = x, !.y = y] EXCEPT !.off = Recentred(x, y)]
CopyTo(v, x, y) ==
    LET start == Img3(v) + CopyStart(v, x, y)
        target == Img3(Shifted(v, x, y)) + CopyStart(v, x, y)
    IN  [Shifted(v, x, y) EXCEPT !.build = [a \in Build |->
            IF a \in target .. target + CopyLength(v, x, y) - 1
            THEN @[a - target + start] ELSE @[a]]]

LEMMA ShiftedIs ==
  ASSUME NEW v, IsWindow(v), NEW x, NEW y
  PROVE  LET m == [v EXCEPT !.x = x, !.y = y]
             c == Shifted(v, x, y)
         IN  /\ DOMAIN m = DOMAIN v /\ m.build = v.build /\ m.off = v.off /\ m.x = x /\ m.y = y
             /\ DOMAIN c = DOMAIN v /\ c.build = v.build /\ c.off = Recentred(x, y) /\ c.x = x /\ c.y = y
BY DEF IsWindow, Shifted

\* The copy reaches all of what both windows show, and no fence.
LEMMA Copied ==
  ASSUME NEW v, Held(v), NEW x \in Int, NEW y \in Int, NEW r, r = CopyTo(v, x, y)
  PROVE  /\ Held(r) /\ r.x = x /\ r.y = y
         /\ FencesWhole(v) => FencesWhole(r)
         /\ \A p \in Window(v) \cap Window(r) : At(r, p) = At(v, p)
<1>. DEFINE c == Shifted(v, x, y)
            start == Img3(v) + CopyStart(v, x, y)
            target == Img3(c) + CopyStart(v, x, y)
            length == CopyLength(v, x, y)
            build == [a \in Build |-> IF a \in target .. target + length - 1
                                      THEN v.build[a - target + start] ELSE v.build[a]]
<1>1. DOMAIN v = {"build", "off", "x", "y"} /\ v.off \in Int /\ v.x \in Int /\ v.y \in Int
  BY DEF Held, IsWindow
<1>2. DOMAIN c = DOMAIN v /\ c.build = v.build /\ c.off = Recentred(x, y) /\ c.x = x /\ c.y = y
  BY ShiftedIs DEF Held
<1>3. DOMAIN r = DOMAIN v /\ r.build = build /\ r.off = Recentred(x, y) /\ r.x = x /\ r.y = y
  <2>1. r = [c EXCEPT !.build = build]
    BY <1>2 DEF CopyTo
  <2>. HIDE DEF c, build
  <2>. QED
    BY <1>1, <1>2, <2>1
<1>4. Recentred(x, y) \in Int
  <2>1. x \div 4 \in Int /\ y * SCROLL_X_WIDTH \in Int /\ BUILD_BASE_INIT \in Int
    BY SizeFacts
  <2>. QED
    BY <2>1 DEF Recentred
<1>6. IsWindow(r)
  BY <1>1, <1>3, <1>4 DEF IsWindow
<1>7. Held(r)
  BY <1>3, <1>6, RecentredHolds
<1>8. PICK mx \in Int, my \in Int, nx \in Int, ny \in Int :
        /\ mx \in {x, v.x} /\ x <= mx /\ v.x <= mx /\ my \in {y, v.y} /\ y <= my /\ v.y <= my
        /\ nx \in {x, v.x} /\ nx <= x /\ nx <= v.x /\ ny \in {y, v.y} /\ ny <= y /\ ny <= v.y
        /\ CopyStart(v, x, y) = Offset(mx, my)
        /\ CopyStart(v, x, y) + CopyLength(v, x, y) - 1
             = Offset(nx + SCROLL_X_DIM - 1, ny + SCROLL_Y_DIM - 1) + 3 * SCROLL_SIZE
        /\ CopyLength(v, x, y) \in Int
  BY <1>1, CopyIs
<1>9. PICK o \in Int, l \in Int, S \in Nat, F \in Nat, k \in Int, n \in Int :
        /\ o = Offset(mx, my) /\ l = Offset(nx + SCROLL_X_DIM - 1, ny + SCROLL_Y_DIM - 1)
        /\ S = SCROLL_SIZE /\ F = MEM_FENCE_WIDTH
        /\ k = r.off /\ n = v.off
  <2>1. Offset(mx, my) \in Int
    BY OffsetSpan
  <2>2. Offset(nx + SCROLL_X_DIM - 1, ny + SCROLL_Y_DIM - 1) \in Int
    BY OffsetSpan
  <2>3. SCROLL_SIZE \in Nat /\ MEM_FENCE_WIDTH \in Nat
    BY SizeFacts
  <2>. QED
    BY <1>1, <1>3, <1>4, <2>1, <2>2, <2>3
<1>10. target = k + F + o /\ start = n + F + o /\ length = l + 3 * S - o + 1
  <2>1. CopyLength(v, x, y) = l + 3 * S - o + 1
    BY <1>8, <1>9
  <2>. QED
    BY <1>2, <1>3, <1>8, <1>9, <2>1 DEF Img3
<1>11. \A a \in Build : r.build[a] = IF k + F + o <= a /\ a <= k + F + l + 3 * S
                                     THEN v.build[a - k + n] ELSE v.build[a]
  <2>. SUFFICES ASSUME NEW a \in Build
                PROVE  build[a] = IF k + F + o <= a /\ a <= k + F + l + 3 * S
                                  THEN v.build[a - k + n] ELSE v.build[a]
    BY <1>3
  <2>1. build[a] = IF a \in target .. target + length - 1 THEN v.build[a - target + start] ELSE v.build[a]
    OBVIOUS
  <2>. HIDE DEF build, target, start, length
  <2>2. a \in Int
    BY SizeFacts DEF Build
  <2>3. a \in target .. target + length - 1 <=> k + F + o <= a /\ a <= k + F + l + 3 * S
    BY <1>10, <2>2
  <2>4. a - target + start = a - k + n
    BY <1>10, <2>2
  <2>. QED
    BY <2>1, <2>3, <2>4
<1>. HIDE DEF c, start, target, length, build
<1>12. ASSUME FencesWhole(v) PROVE FencesWhole(r)
  <2>. SUFFICES ASSUME NEW a \in Fences PROVE r.build[a] = MEM_FENCE_MAGIC
    BY DEF FencesWhole
  <2>1. a \in Build /\ a \in Int
    BY SizeFacts DEF Fences, Build
  <2>2. PICK f \in Int, e \in Int, b \in Int :
          /\ f = Offset(x, y) /\ e = Offset(x + SCROLL_X_DIM - 1, y + SCROLL_Y_DIM - 1)
          /\ b = BUILD_BUF_SIZE
    <3>1. Offset(x, y) \in Int /\ Offset(x + SCROLL_X_DIM - 1, y + SCROLL_Y_DIM - 1) \in Int
      BY OffsetSpan
    <3>2. BUILD_BUF_SIZE \in Int
      BY SizeFacts
    <3>. QED
      BY <3>1, <3>2
  <2>3. f <= o
    BY <1>8, <1>9, <2>2, OffsetOrder
  <2>4. l <= e
    <3>1. PICK a1 \in Int, b1 \in Int, c1 \in Int, d1 \in Int :
            /\ a1 = nx + SCROLL_X_DIM - 1 /\ b1 = ny + SCROLL_Y_DIM - 1
            /\ c1 = x + SCROLL_X_DIM - 1 /\ d1 = y + SCROLL_Y_DIM - 1
      BY SizeFacts
    <3>2. a1 <= c1 /\ b1 <= d1
      BY <1>8, <3>1, SizeFacts
    <3>3. Offset(a1, b1) <= Offset(c1, d1)
      BY <3>2, OffsetOrder
    <3>. QED
      BY <1>9, <2>2, <3>1, <3>3
  <2>5. k + f >= 0 /\ k + 3 * S + e < b
    <3>1. r.off \in Int /\ Fits(r, x, y)
      BY <1>3, <1>4, <1>7 DEF Held
    <3>. QED
      BY <1>9, <2>2, <3>1, FitsIs
  <2>6. ~(F <= a /\ a < b + F)
    BY <1>9, <2>1, <2>2, BufferIs
  <2>7. ~(k + F + o <= a /\ a <= k + F + l + 3 * S)
    BY <2>1, <2>3, <2>4, <2>5, <2>6
  <2>. QED
    BY <1>11, <1>12, <2>1, <2>7 DEF FencesWhole
<1>13. ASSUME NEW p \in Window(v) \cap Window(r)
       PROVE  At(r, p) = At(v, p)
  <2>1. PICK a \in Int, b \in Int : a = p[1] /\ b = p[2]
    BY WindowPixels DEF Held
  <2>2. /\ v.x <= a /\ a <= v.x + SCROLL_X_DIM - 1 /\ v.y <= b /\ b <= v.y + SCROLL_Y_DIM - 1
    BY <2>1, WindowPixels DEF Held
  <2>3. /\ x <= a /\ a <= x + SCROLL_X_DIM - 1 /\ y <= b /\ b <= y + SCROLL_Y_DIM - 1
    <3>1. /\ r.x <= p[1] /\ p[1] <= r.x + SCROLL_X_DIM - 1
          /\ r.y <= p[2] /\ p[2] <= r.y + SCROLL_Y_DIM - 1
      BY <1>6, WindowPixels
    <3>2. r.x = x /\ r.y = y
      BY <1>3
    <3>. QED
      BY <2>1, <3>1, <3>2
  <2>4. PICK P \in Int : P = Place(a, b) /\ o <= P /\ P <= l + 3 * S
    <3>1. PICK e \in Int, f \in Int : e = nx + SCROLL_X_DIM - 1 /\ f = ny + SCROLL_Y_DIM - 1
      BY SizeFacts
    <3>2. mx <= a /\ my <= b /\ a <= e /\ b <= f
      BY <1>8, <2>2, <2>3, <3>1
    <3>3. /\ Place(a, b) \in Int
          /\ Offset(mx, my) <= Place(a, b) /\ Place(a, b) <= Offset(e, f) + 3 * SCROLL_SIZE
      BY <3>2, PlaceBetween
    <3>. QED
      BY <1>9, <3>1, <3>3
  <2>5. Addr(r, p) = k + F + P
    BY <1>9, <2>1, <2>4, AddrIs
  <2>6. Addr(v, p) = n + F + P
    BY <1>9, <2>1, <2>4, AddrIs
  <2>7. k + F + P \in Build
    BY <1>7, <2>5, AddrInBuffer
  <2>8. r.build[k + F + P] = v.build[k + F + P - k + n]
    BY <1>11, <2>4, <2>7
  <2>9. k + F + P - k + n = n + F + P
    OBVIOUS
  <2>. QED
    BY <2>5, <2>6, <2>8, <2>9 DEF At
<1>. QED
  BY <1>3, <1>7, <1>12, <1>13

LEMMA SetView ==
  ASSUME NEW v, Held(v), NEW x \in Int, NEW y \in Int, NEW r, r = SetViewWindow(v, x, y)
  PROVE  /\ Held(r) /\ r.x = x /\ r.y = y
         /\ FencesWhole(v) => FencesWhole(r)
         /\ \A p \in Window(v) \cap Window(r) : At(r, p) = At(v, p)
<1>. DEFINE m == [v EXCEPT !.x = x, !.y = y]
<1>1. IsWindow(v) /\ DOMAIN v = {"build", "off", "x", "y"} /\ v.off \in Int /\ v.x \in Int /\ v.y \in Int
  BY DEF Held, IsWindow
<1>2. /\ DOMAIN m = DOMAIN v /\ m.build = v.build /\ m.off = v.off /\ m.x = x /\ m.y = y
      /\ DOMAIN Shifted(v, x, y) = DOMAIN v /\ Shifted(v, x, y).build = v.build
      /\ Shifted(v, x, y).off = Recentred(x, y) /\ Shifted(v, x, y).x = x /\ Shifted(v, x, y).y = y
  BY <1>1, ShiftedIs
<1>3. CASE Fits(v, x, y)
  <2>1. r = m
    BY <1>3 DEF SetViewWindow
  <2>. HIDE DEF m
  <2>2. IsWindow(r)
    BY <1>1, <1>2, <2>1 DEF IsWindow
  <2>3. Fits(r, x, y)
    BY <1>2, <1>3, <2>1 DEF Fits
  <2>4. ASSUME NEW p PROVE At(r, p) = At(v, p)
    BY <1>2, <2>1 DEF At, Addr, Img3
  <2>5. FencesWhole(v) => FencesWhole(r)
    BY <1>2, <2>1 DEF FencesWhole
  <2>. QED
    BY <1>2, <2>1, <2>2, <2>3, <2>4, <2>5 DEF Held
<1>4. CASE ~Fits(v, x, y) /\ Apart(v, x, y)
  <2>1. r = Shifted(v, x, y)
    BY <1>4 DEF SetViewWindow, Shifted
  <2>2. Recentred(x, y) \in Int
    <3>1. x \div 4 \in Int /\ y * SCROLL_X_WIDTH \in Int /\ BUILD_BASE_INIT \in Int
      BY SizeFacts
    <3>. QED
      BY <3>1 DEF Recentred
  <2>3. IsWindow(r)
    BY <1>1, <1>2, <2>1, <2>2 DEF IsWindow
  <2>4. Held(r)
    BY <1>2, <2>1, <2>3, RecentredHolds
  <2>5. FencesWhole(v) => FencesWhole(r)
    BY <1>2, <2>1 DEF FencesWhole
  <2>6. ASSUME NEW p \in Window(v) \cap Window(r) PROVE FALSE
    <3>1. /\ p[1] \in Int /\ p[2] \in Int
          /\ v.x <= p[1] /\ p[1] <= v.x + SCROLL_X_DIM - 1
          /\ v.y <= p[2] /\ p[2] <= v.y + SCROLL_Y_DIM - 1
      BY <1>1, WindowPixels
    <3>2. /\ r.x <= p[1] /\ p[1] <= r.x + SCROLL_X_DIM - 1
          /\ r.y <= p[2] /\ p[2] <= r.y + SCROLL_Y_DIM - 1
      BY <2>3, WindowPixels
    <3>3. r.x = x /\ r.y = y
      BY <1>2, <2>1
    <3>4. /\ IMAGE_Y_DIM \in Int /\ BarHeight \in Nat /\ SCROLL_Y_DIM = IMAGE_Y_DIM - BarHeight
          /\ SCROLL_X_DIM \in Int
      BY ImageDimAssumption DEF SCROLL_Y_DIM, SCROLL_X_DIM
    <3>5. PICK a \in Int, b \in Int, c \in Int, d \in Int, X \in Int, Y \in Int, B \in Nat :
            /\ a = p[1] /\ b = p[2] /\ c = v.x /\ d = v.y /\ X = SCROLL_X_DIM /\ Y = IMAGE_Y_DIM
            /\ B = BarHeight /\ SCROLL_Y_DIM = Y - B
      BY <1>1, <3>1, <3>4
    <3>6. \/ x <= c - X \/ x >= c + X \/ y <= d - Y - B \/ y >= d + (Y - B)
      BY <1>4, <3>5 DEF Apart
    <3>7. /\ c <= a /\ a <= c + X - 1 /\ d <= b /\ b <= d + (Y - B) - 1
          /\ x <= a /\ a <= x + X - 1 /\ y <= b /\ b <= y + (Y - B) - 1
      BY <3>1, <3>2, <3>3, <3>5
    <3>. QED
      BY <3>6, <3>7
  <2>. QED
    BY <1>2, <2>1, <2>4, <2>5, <2>6
<1>5. CASE ~Fits(v, x, y) /\ ~Apart(v, x, y)
  <2>1. r = CopyTo(v, x, y)
    BY <1>5 DEF SetViewWindow, CopyTo, Shifted
  <2>. QED
    BY <2>1, Copied
<1>. QED
  BY <1>3, <1>4, <1>5

----------------------------------------------------------------------------
(* The window shows the maze. *)

Shows(m, v) == \A p \in Window(v) : At(v, p) = PixelAt(m, p[1], p[2])

\* r is v with other pixels.
Drawn(v, r) ==
    /\ Held(r) /\ r.off = v.off /\ r.x = v.x /\ r.y = v.y /\ Window(r) = Window(v)
    /\ FencesWhole(v) => FencesWhole(r)

LEMMA DrawnTwice ==
  ASSUME NEW u, NEW v, NEW r, Drawn(u, v), Drawn(v, r)
  PROVE  Drawn(u, r)
BY DEF Drawn

LEMMA VisibleIs ==
  ASSUME NEW v, NEW x, NEW y, NEW mask
  PROVE  Visible(v, x, y, mask) \subseteq Window(v)
BY DEF Visible

LEMMA PaintDraws ==
  ASSUME NEW v, Held(v), NEW g, DOMAIN g \subseteq Window(v), NEW r, r = Paint(v, g)
  PROVE  /\ Drawn(v, r)
         /\ \A p \in Window(v) : At(r, p) = IF p \in DOMAIN g THEN g[p] ELSE At(v, p)
BY Painted DEF Drawn

\* What is drawn goes when what it covered is put back.
LEMMA PutBack ==
  ASSUME NEW v, Held(v), NEW g, DOMAIN g \subseteq Window(v),
         NEW u, Drawn(v, u), \A p \in Window(v) : At(u, p) = At(Paint(v, g), p),
         NEW f, DOMAIN f = DOMAIN g, \A p \in DOMAIN f : f[p] = At(v, p),
         NEW r, r = Paint(u, f)
  PROVE  Drawn(v, r) /\ \A p \in Window(v) : At(r, p) = At(v, p)
<1>1. Held(u) /\ Window(u) = Window(v)
  BY DEF Drawn
<1>2. /\ Drawn(u, r)
      /\ \A p \in Window(v) : At(r, p) = IF p \in DOMAIN f THEN f[p] ELSE At(u, p)
  BY <1>1, PaintDraws
<1>3. \A p \in Window(v) : At(Paint(v, g), p) = IF p \in DOMAIN g THEN g[p] ELSE At(v, p)
  BY PaintDraws
<1>4. \A p \in Window(v) : At(r, p) = At(v, p)
  BY <1>2, <1>3
<1>. QED
  BY <1>2, <1>4, DrawnTwice

LEMMA PlayerDrawn ==
  ASSUME NEW v, Held(v), NEW at, NEW d, NEW r, r = DrawPlayer(v, at, d)
  PROVE  /\ Drawn(v, r)
         /\ \A p \in Window(v) :
              At(r, p) = IF p \in Visible(v, at.x, at.y, PlayerMask[d])
                         THEN BlockPixel(GetPlayerBlock(d), p[1] - at.x, p[2] - at.y) ELSE At(v, p)
<1>. DEFINE g == [p \in Visible(v, at.x, at.y, PlayerMask[d]) |->
                    BlockPixel(GetPlayerBlock(d), p[1] - at.x, p[2] - at.y)]
<1>1. r = Paint(v, g)
  BY DEF DrawPlayer, DrawMaskedBlock
<1>2. DOMAIN g = Visible(v, at.x, at.y, PlayerMask[d]) /\ DOMAIN g \subseteq Window(v)
  BY VisibleIs
<1>3. \A p \in DOMAIN g : g[p] = BlockPixel(GetPlayerBlock(d), p[1] - at.x, p[2] - at.y)
  OBVIOUS
<1>. HIDE DEF g
<1>4. /\ Drawn(v, r)
      /\ \A p \in Window(v) : At(r, p) = IF p \in DOMAIN g THEN g[p] ELSE At(v, p)
  BY <1>1, <1>2, PaintDraws
<1>. QED
  BY <1>2, <1>3, <1>4

LEMMA TextDrawn ==
  ASSUME NEW v, Held(v), NEW at, NEW on \in BOOLEAN, NEW r, r = DrawText(v, at, on)
  PROVE  /\ Drawn(v, r)
         /\ \A p \in Window(v) :
              At(r, p) = IF on /\ p \in Visible(v, TextAt(at)[1], TextAt(at)[2], TextPixels)
                         THEN <<"text", At(v, p)>> ELSE At(v, p)
<1>1. CASE on
  <2>. DEFINE g == [p \in Visible(v, TextAt(at)[1], TextAt(at)[2], TextPixels) |-> <<"text", At(v, p)>>]
  <2>1. r = Paint(v, g)
    BY <1>1 DEF DrawText, DrawFloatText
  <2>2. DOMAIN g = Visible(v, TextAt(at)[1], TextAt(at)[2], TextPixels) /\ DOMAIN g \subseteq Window(v)
    BY VisibleIs
  <2>3. \A p \in DOMAIN g : g[p] = <<"text", At(v, p)>>
    OBVIOUS
  <2>. HIDE DEF g
  <2>4. /\ Drawn(v, r)
        /\ \A p \in Window(v) : At(r, p) = IF p \in DOMAIN g THEN g[p] ELSE At(v, p)
    BY <2>1, <2>2, PaintDraws
  <2>. QED
    BY <1>1, <2>2, <2>3, <2>4
<1>2. CASE ~on
  BY <1>2 DEF DrawText, Drawn
<1>. QED
  BY <1>1, <1>2

\* After a frame the window is what it was before.
LEMMA ErasedIs ==
  ASSUME NEW v, Held(v), NEW at, NEW d, NEW on \in BOOLEAN, NEW r, r = Erased(v, at, d, on)
  PROVE  Drawn(v, r) /\ \A p \in Window(v) : At(r, p) = At(v, p)
<1>. DEFINE S == Visible(v, at.x, at.y, PlayerMask[d])
            g == [p \in S |-> BlockPixel(GetPlayerBlock(d), p[1] - at.x, p[2] - at.y)]
            drawn == DrawPlayer(v, at, d)
            x == TextAt(at)[1]
            y == TextAt(at)[2]
            texted == DrawText(drawn, at, on)
            untexted == IF on THEN UndrawFloatText(texted, x, y, TextPixels, Covered(drawn, x, y, TextPixels))
                        ELSE texted
            f == Covered(v, at.x, at.y, PlayerMask[d])
<1>1. drawn = Paint(v, g) /\ DOMAIN g = S /\ S \subseteq Window(v)
  BY VisibleIs DEF DrawPlayer, DrawMaskedBlock
<1>2. Drawn(v, drawn) /\ Held(drawn) /\ Window(drawn) = Window(v)
  BY PlayerDrawn DEF Drawn
<1>3. Drawn(drawn, untexted) /\ \A p \in Window(v) : At(untexted, p) = At(drawn, p)
  <2>1. CASE on
    <3>. DEFINE T == Visible(drawn, x, y, TextPixels)
                h == [p \in T |-> <<"text", At(drawn, p)>>]
                k == [p \in Visible(texted, x, y, TextPixels) |-> Covered(drawn, x, y, TextPixels)[p]]
    <3>1. texted = Paint(drawn, h) /\ DOMAIN h = T /\ T \subseteq Window(drawn)
      BY <2>1, VisibleIs DEF DrawText, DrawFloatText
    <3>2. Drawn(drawn, texted) /\ Window(texted) = Window(drawn)
      BY <1>2, TextDrawn DEF Drawn
    <3>3. untexted = Paint(texted, k)
      BY <2>1 DEF UndrawFloatText
    <3>4. Visible(texted, x, y, TextPixels) = T
      BY <3>2 DEF Visible
    <3>5. DOMAIN k = DOMAIN h /\ \A p \in DOMAIN k : k[p] = At(drawn, p)
      BY <3>1, <3>4 DEF Covered
    <3>. HIDE DEF drawn, texted, untexted, h, k, T, x, y
    <3>6. /\ DOMAIN h \subseteq Window(drawn)
          /\ \A p \in Window(drawn) : At(texted, p) = At(Paint(drawn, h), p)
      BY <3>1
    <3>7. Drawn(drawn, untexted) /\ \A p \in Window(drawn) : At(untexted, p) = At(drawn, p)
      BY <1>2, <3>2, <3>3, <3>5, <3>6, PutBack
    <3>. QED
      BY <1>2, <3>7
  <2>2. CASE ~on
    BY <1>2, <2>2 DEF DrawText, Drawn
  <2>. QED
    BY <2>1, <2>2
<1>4. Drawn(v, untexted) /\ Window(untexted) = Window(v)
  <2>. HIDE DEF drawn, untexted
  <2>1. Drawn(v, untexted)
    BY <1>2, <1>3, DrawnTwice
  <2>. QED
    BY <2>1 DEF Drawn
<1>5. r = Paint(untexted, [p \in Visible(untexted, at.x, at.y, PlayerMask[d]) |-> f[p]])
  BY DEF Erased, UndrawMaskedBlock
<1>6. Visible(untexted, at.x, at.y, PlayerMask[d]) = S
  <2>. HIDE DEF untexted
  <2>. QED
    BY <1>4 DEF Visible
<1>7. \A p \in S : f[p] = At(v, p)
  BY DEF Covered
<1>. DEFINE k == [p \in S |-> f[p]]
<1>8. r = Paint(untexted, k) /\ DOMAIN k = DOMAIN g /\ \A p \in DOMAIN k : k[p] = At(v, p)
  BY <1>1, <1>5, <1>6, <1>7
<1>9. \A p \in Window(v) : At(untexted, p) = At(Paint(v, g), p)
  BY <1>1, <1>3
<1>. HIDE DEF S, g, drawn, x, y, texted, untexted, f, k
<1>. QED
  BY <1>1, <1>4, <1>8, <1>9, PutBack

LEMMA RedrawDraws ==
  ASSUME NEW m, NEW v, Held(v), NEW S, NEW r, r = Redraw(m, v, S)
  PROVE  /\ Drawn(v, r)
         /\ \A p \in Window(v) :
              At(r, p) = IF \E s \in S : p \in Visible(v, s[1] * BLOCK_X_DIM, s[2] * BLOCK_Y_DIM, Block)
                         THEN PixelAt(m, p[1], p[2]) ELSE At(v, p)
<1>. DEFINE D == UNION {Visible(v, s[1] * BLOCK_X_DIM, s[2] * BLOCK_Y_DIM, Block) : s \in S}
            g == [p \in D |-> PixelAt(m, p[1], p[2])]
<1>1. r = Paint(v, g)
  BY DEF Redraw
<1>2. DOMAIN g = D /\ D \subseteq Window(v)
  BY VisibleIs
<1>3. \A p \in D : g[p] = PixelAt(m, p[1], p[2])
  OBVIOUS
<1>4. \A p : p \in D <=> \E s \in S : p \in Visible(v, s[1] * BLOCK_X_DIM, s[2] * BLOCK_Y_DIM, Block)
  OBVIOUS
<1>. HIDE DEF g, D
<1>5. /\ Drawn(v, r)
      /\ \A p \in Window(v) : At(r, p) = IF p \in DOMAIN g THEN g[p] ELSE At(v, p)
  BY <1>1, <1>2, PaintDraws
<1>. QED
  BY <1>2, <1>3, <1>4, <1>5

LEMMA WindowAroundDraws ==
  ASSUME NEW m, NEW v, Held(v), NEW s, NEW r, r = WindowAround(m, v, s)
  PROVE  Drawn(v, r)
<1>. DEFINE a == Redraw(Eat(m, s), v, Redrawn(m, s))
<1>1. Drawn(v, a)
  BY RedrawDraws
<1>2. r = Redraw(MazeAround(m, s), a, Unveiled(Eat(m, s), SpacesAround(s)))
  BY DEF WindowAround
<1>. HIDE DEF a
<1>3. Held(a)
  BY <1>1 DEF Drawn
<1>4. Drawn(a, r)
  BY <1>2, <1>3, RedrawDraws
<1>. QED
  BY <1>1, <1>4, DrawnTwice

\* The pixels of a line that is drawn are those of the maze.
LEMMA HorizPixels ==
  ASSUME NEW m, NEW x \in Int, NEW y, NEW a \in Int, x <= a, a <= x + SCROLL_X_DIM - 1
  PROVE  HorizLine(m, x, y)[a - x] = PixelAt(m, a, y)
<1>1. a - x \in 0 .. SCROLL_X_DIM - 1 /\ x + (a - x) = a
  BY SizeFacts
<1>2. HorizLine(m, x, y)[a - x] = PixelAt(m, x + (a - x), y)
  BY <1>1 DEF HorizLine
<1>. QED
  BY <1>1, <1>2

LEMMA VertPixels ==
  ASSUME NEW m, NEW x, NEW y \in Int, NEW b \in Int, y <= b, b <= y + SCROLL_Y_DIM - 1
  PROVE  VertLine(m, x, y)[b - y] = PixelAt(m, x, b)
<1>1. b - y \in 0 .. SCROLL_Y_DIM - 1 /\ y + (b - y) = b
  BY SizeFacts
<1>2. VertLine(m, x, y)[b - y] = PixelAt(m, x, y + (b - y))
  BY <1>1 DEF VertLine
<1>. QED
  BY <1>1, <1>2

\* Line l of the maze is line k of window v, column l its column k.
IsRow(v, k, l) == l \in Int /\ l = v.y + k
IsColumn(v, k, l) == l \in Int /\ l = v.x + k

LEMMA HorizDrawn ==
  ASSUME NEW m, NEW v, Held(v), NEW k \in 0 .. SCROLL_Y_DIM - 1, NEW l, IsRow(v, k, l),
         NEW r, r = DrawHorizLine(v, k, HorizLine(m, v.x, l))
  PROVE  /\ Drawn(v, r)
         /\ \A p \in Window(v) : At(r, p) = IF p[2] = l THEN PixelAt(m, p[1], p[2]) ELSE At(v, p)
<1>. DEFINE L == HorizLine(m, v.x, l)
            D == (v.x .. v.x + SCROLL_X_DIM - 1) \X {k + v.y}
            g == [p \in D |-> L[p[1] - v.x]]
<1>1. v.x \in Int /\ v.y \in Int /\ IsWindow(v) /\ l \in Int /\ l = v.y + k
  BY DEF Held, IsWindow, IsRow
<1>2. r = Paint(v, g) /\ DOMAIN g = D
  BY DEF DrawHorizLine
<1>3. D \subseteq Window(v)
  BY <1>1, SizeFacts DEF Window, Rectangle
<1>4. \A p \in Window(v) : p \in D <=> p[2] = l
  BY <1>1, SizeFacts DEF Window, Rectangle
<1>5. ASSUME NEW p \in D PROVE g[p] = PixelAt(m, p[1], p[2])
  <2>1. PICK a \in Int, x \in Int, y \in Int : a = p[1] /\ x = v.x /\ y = l /\ p[2] = y
    BY <1>1
  <2>2. x <= a /\ a <= x + SCROLL_X_DIM - 1
    BY <1>1, <2>1, SizeFacts
  <2>3. HorizLine(m, x, y)[a - x] = PixelAt(m, a, y)
    BY <2>2, HorizPixels
  <2>. QED
    BY <2>1, <2>3
<1>. HIDE DEF L, D, g
<1>6. /\ Drawn(v, r)
      /\ \A p \in Window(v) : At(r, p) = IF p \in DOMAIN g THEN g[p] ELSE At(v, p)
  BY <1>2, <1>3, PaintDraws
<1>. QED
  BY <1>2, <1>4, <1>5, <1>6

LEMMA VertDrawn ==
  ASSUME NEW m, NEW v, Held(v), NEW k \in 0 .. SCROLL_X_DIM - 1, NEW l, IsColumn(v, k, l),
         NEW L, L = VertLine(m, l, v.y), NEW r, r = DrawVertLine(v, k, L)
  PROVE  /\ Drawn(v, r)
         /\ \A p \in Window(v) : At(r, p) = IF p[1] = l THEN PixelAt(m, p[1], p[2]) ELSE At(v, p)
<1>. DEFINE D == {k + v.x} \X (v.y .. v.y + SCROLL_Y_DIM - 1)
            g == [p \in D |-> L[p[2] - v.y]]
<1>1. v.x \in Int /\ v.y \in Int /\ IsWindow(v) /\ l \in Int /\ l = v.x + k
  BY DEF Held, IsWindow, IsColumn
<1>2. r = Paint(v, g) /\ DOMAIN g = D
  BY DEF DrawVertLine
<1>3. D \subseteq Window(v)
  BY <1>1, SizeFacts DEF Window, Rectangle
<1>4. \A p \in Window(v) : p \in D <=> p[1] = l
  BY <1>1, SizeFacts DEF Window, Rectangle
<1>5. ASSUME NEW p \in D PROVE g[p] = PixelAt(m, p[1], p[2])
  <2>1. PICK b \in Int, x \in Int, y \in Int : b = p[2] /\ x = l /\ y = v.y /\ p[1] = x
    BY <1>1
  <2>2. y <= b /\ b <= y + SCROLL_Y_DIM - 1
    BY <1>1, <2>1, SizeFacts
  <2>3. VertLine(m, x, y)[b - y] = PixelAt(m, x, b)
    BY <2>2, VertPixels
  <2>. QED
    BY <2>1, <2>3
<1>. HIDE DEF D, g
<1>6. /\ Drawn(v, r)
      /\ \A p \in Window(v) : At(r, p) = IF p \in DOMAIN g THEN g[p] ELSE At(v, p)
  BY <1>2, <1>3, PaintDraws
<1>. QED
  BY <1>2, <1>4, <1>5, <1>6

\* The line of a window that comes into it when the window moves in direction d
OnLine(v, d, p) ==
    \/ d = DIR_UP /\ p[2] = v.y
    \/ d = DIR_RIGHT /\ p[1] = v.x + SCROLL_X_DIM - 1
    \/ d = DIR_DOWN /\ p[2] = v.y + SCROLL_Y_DIM - 1
    \/ d = DIR_LEFT /\ p[1] = v.x

LEMMA LineDrawn ==
  ASSUME NEW m, NEW v, Held(v), NEW at, at.map_x \in Int, at.map_y \in Int,
         NEW d \in Dirs, NEW r, r = FollowLine(m, v, at, d)
  PROVE  /\ Held(r) /\ r.x = at.map_x /\ r.y = at.map_y
         /\ FencesWhole(v) => FencesWhole(r)
         /\ \A p \in Window(r) :
              At(r, p) = IF OnLine(r, d, p) THEN PixelAt(m, p[1], p[2])
                         ELSE At(SetViewWindow(v, at.map_x, at.map_y), p)
<1>1. PICK now : now = SetViewWindow(v, at.map_x, at.map_y)
  OBVIOUS
<1>2. Held(now) /\ now.x = at.map_x /\ now.y = at.map_y /\ now.x \in Int /\ now.y \in Int
      /\ (FencesWhole(v) => FencesWhole(now))
  BY <1>1, SetView
<1>3. d \in {DIR_UP, DIR_RIGHT, DIR_DOWN, DIR_LEFT}
  BY DEF Dirs, NUM_DIRS, DIR_UP, DIR_RIGHT, DIR_DOWN, DIR_LEFT
<1>4. SCROLL_X_DIM \in Nat \ {0} /\ SCROLL_Y_DIM \in Nat \ {0}
  BY SizeFacts
<1>5. CASE d = DIR_UP
  <2>1. r = DrawHorizLine(now, 0, HorizLine(m, now.x, now.y))
    BY <1>1, <1>5 DEF FollowLine, DIR_UP, DIR_RIGHT, DIR_DOWN, DIR_LEFT
  <2>2. PICK k \in 0 .. SCROLL_Y_DIM - 1, l \in Int :
          k = 0 /\ l = now.y /\ l = now.y + k
    BY <1>2, <1>4
  <2>3. IsRow(now, k, l) /\ r = DrawHorizLine(now, k, HorizLine(m, now.x, l))
    BY <2>1, <2>2 DEF IsRow
  <2>4. Held(now)
    BY <1>2
  <2>5. /\ Drawn(now, r)
        /\ \A p \in Window(now) : At(r, p) = IF p[2] = l THEN PixelAt(m, p[1], p[2]) ELSE At(now, p)
    BY <2>3, <2>4, HorizDrawn
  <2>6. ASSUME NEW p PROVE OnLine(r, d, p) <=> p[2] = l
    BY <1>2, <1>5, <2>2, <2>5 DEF OnLine, Drawn, DIR_UP, DIR_RIGHT, DIR_DOWN, DIR_LEFT
  <2>. QED
    BY <1>1, <1>2, <2>5, <2>6 DEF Drawn
<1>6. CASE d = DIR_RIGHT
  <2>1. r = DrawVertLine(now, SCROLL_X_DIM - 1, VertLine(m, now.x + SCROLL_X_DIM - 1, now.y))
    BY <1>1, <1>6 DEF FollowLine, DIR_UP, DIR_RIGHT, DIR_DOWN, DIR_LEFT
  <2>2. PICK k \in 0 .. SCROLL_X_DIM - 1, l \in Int :
          k = SCROLL_X_DIM - 1 /\ l = now.x + SCROLL_X_DIM - 1 /\ l = now.x + k
    BY <1>2, <1>4
  <2>3. PICK L : L = VertLine(m, l, now.y) /\ r = DrawVertLine(now, k, L)
    BY <2>1, <2>2
  <2>4. Held(now) /\ IsColumn(now, k, l)
    BY <1>2, <2>2 DEF IsColumn
  <2>5. /\ Drawn(now, r)
        /\ \A p \in Window(now) : At(r, p) = IF p[1] = l THEN PixelAt(m, p[1], p[2]) ELSE At(now, p)
    BY <2>3, <2>4, VertDrawn
  <2>6. ASSUME NEW p PROVE OnLine(r, d, p) <=> p[1] = l
    BY <1>2, <1>6, <2>2, <2>5 DEF OnLine, Drawn, DIR_UP, DIR_RIGHT, DIR_DOWN, DIR_LEFT
  <2>. QED
    BY <1>1, <1>2, <2>5, <2>6 DEF Drawn
<1>7. CASE d = DIR_DOWN
  <2>1. r = DrawHorizLine(now, SCROLL_Y_DIM - 1, HorizLine(m, now.x, now.y + SCROLL_Y_DIM - 1))
    BY <1>1, <1>7 DEF FollowLine, DIR_UP, DIR_RIGHT, DIR_DOWN
  <2>2. PICK k \in 0 .. SCROLL_Y_DIM - 1, l \in Int :
          k = SCROLL_Y_DIM - 1 /\ l = now.y + SCROLL_Y_DIM - 1 /\ l = now.y + k
    BY <1>2, <1>4
  <2>3. IsRow(now, k, l) /\ r = DrawHorizLine(now, k, HorizLine(m, now.x, l))
    BY <2>1, <2>2 DEF IsRow
  <2>4. Held(now)
    BY <1>2
  <2>5. /\ Drawn(now, r)
        /\ \A p \in Window(now) : At(r, p) = IF p[2] = l THEN PixelAt(m, p[1], p[2]) ELSE At(now, p)
    BY <2>3, <2>4, HorizDrawn
  <2>6. ASSUME NEW p PROVE OnLine(r, d, p) <=> p[2] = l
    BY <1>2, <1>7, <2>2, <2>5 DEF OnLine, Drawn, DIR_UP, DIR_RIGHT, DIR_DOWN, DIR_LEFT
  <2>. QED
    BY <1>1, <1>2, <2>5, <2>6 DEF Drawn
<1>8. CASE d = DIR_LEFT
  <2>1. r = DrawVertLine(now, 0, VertLine(m, now.x, now.y))
    BY <1>1, <1>8 DEF FollowLine, DIR_UP, DIR_RIGHT, DIR_DOWN, DIR_LEFT
  <2>2. PICK k \in 0 .. SCROLL_X_DIM - 1, l \in Int :
          k = 0 /\ l = now.x /\ l = now.x + k
    BY <1>2, <1>4
  <2>3. PICK L : L = VertLine(m, l, now.y) /\ r = DrawVertLine(now, k, L)
    BY <2>1, <2>2
  <2>4. Held(now) /\ IsColumn(now, k, l)
    BY <1>2, <2>2 DEF IsColumn
  <2>5. /\ Drawn(now, r)
        /\ \A p \in Window(now) : At(r, p) = IF p[1] = l THEN PixelAt(m, p[1], p[2]) ELSE At(now, p)
    BY <2>3, <2>4, VertDrawn
  <2>6. ASSUME NEW p PROVE OnLine(r, d, p) <=> p[1] = l
    BY <1>2, <1>8, <2>2, <2>5 DEF OnLine, Drawn, DIR_UP, DIR_RIGHT, DIR_DOWN, DIR_LEFT
  <2>. QED
    BY <1>1, <1>2, <2>5, <2>6 DEF Drawn
<1>. QED
  BY <1>3, <1>5, <1>6, <1>7, <1>8

LEMMA LevelDrawn ==
  ASSUME NEW m, Held(w), NEW r, r = LevelWindow(m)
  PROVE  /\ Held(r) /\ r.x = SHOW_MIN /\ r.y = SHOW_MIN
         /\ FencesWhole(w) => FencesWhole(r)
         /\ Shows(m, r)
<1>1. PICK now : now = SetViewWindow(w, SHOW_MIN, SHOW_MIN)
  OBVIOUS
<1>2. Held(now) /\ now.x = SHOW_MIN /\ now.y = SHOW_MIN /\ (FencesWhole(w) => FencesWhole(now))
  <2>1. SHOW_MIN \in Int
    BY BorderAssumption
  <2>. QED
    BY <1>1, <2>1, SetView
<1>. DEFINE g == [p \in Window(now) |-> HorizLine(m, now.x, p[2])[p[1] - now.x]]
<1>3. r = Paint(now, g)
  BY <1>1 DEF LevelWindow, StartView
<1>4. DOMAIN g = Window(now)
  OBVIOUS
<1>5. ASSUME NEW p \in Window(now) PROVE g[p] = PixelAt(m, p[1], p[2])
  <2>1. PICK a \in Int, x \in Int, y \in {p[2]} : a = p[1] /\ x = now.x /\ y = p[2] /\ x <= a /\ a <= x + SCROLL_X_DIM - 1
    BY <1>2, WindowPixels DEF Held, IsWindow
  <2>2. HorizLine(m, x, y)[a - x] = PixelAt(m, a, y)
    BY <2>1, HorizPixels
  <2>. QED
    BY <2>1, <2>2
<1>. HIDE DEF g
<1>6. /\ Drawn(now, r)
      /\ \A p \in Window(now) : At(r, p) = IF p \in DOMAIN g THEN g[p] ELSE At(now, p)
  BY <1>2, <1>3, <1>4, PaintDraws
<1>. QED
  BY <1>2, <1>4, <1>5, <1>6 DEF Drawn, Shows

----------------------------------------------------------------------------
(* The buffer. *)

Views == [x : Int, y : Int, map_x : Int, map_y : Int]

WindowInv ==
    /\ Held(w) /\ FencesWhole(w)
    /\ view \in Views /\ text \in BOOLEAN /\ dir \in Dirs \cup {DIR_STOP}
    /\ place # "broken"

LEMMA FieldsSet ==
  ASSUME NEW v \in Views, NEW n \in Int, NEW m \in Int
  PROVE  [v EXCEPT !.x = n, !.map_x = m] \in Views /\ [v EXCEPT !.y = n, !.map_y = m] \in Views
BY DEF Views

LEMMA MovedView ==
  ASSUME NEW v \in Views, NEW d \in Dirs, NEW xd, NEW yd
  PROVE  Moved(v, d, xd, yd) \in Views
<1>1. MoveUp(v) \in Views
  <2>. DEFINE to == v.y - 1
              map == IF to < v.map_y + BLOCK_Y_DIM * PAN_BORDER /\ v.map_y > SHOW_MIN THEN v.map_y - 1 ELSE v.map_y
  <2>1. to \in Int /\ map \in Int
    BY DEF Views
  <2>2. MoveUp(v) = [v EXCEPT !.y = to, !.map_y = map]
    BY DEF MoveUp
  <2>. HIDE DEF to, map
  <2>3. [v EXCEPT !.y = to, !.map_y = map] \in Views
    BY <2>1, FieldsSet
  <2>. QED
    BY <2>2, <2>3
<1>2. MoveRight(v, xd) \in Views
  <2>. DEFINE to == v.x + 1
              map == IF to > v.map_x + SCROLL_X_DIM - BLOCK_X_DIM * (PAN_BORDER + 1) /\ MoreRight(v, xd) THEN v.map_x + 1 ELSE v.map_x
  <2>1. to \in Int /\ map \in Int
    BY DEF Views
  <2>2. MoveRight(v, xd) = [v EXCEPT !.x = to, !.map_x = map]
    BY DEF MoveRight
  <2>. HIDE DEF to, map
  <2>3. [v EXCEPT !.x = to, !.map_x = map] \in Views
    BY <2>1, FieldsSet
  <2>. QED
    BY <2>2, <2>3
<1>3. MoveDown(v, yd) \in Views
  <2>. DEFINE to == v.y + 1
              map == IF /\ to > v.map_y + SCROLL_Y_DIM - BLOCK_Y_DIM * (PAN_BORDER + 1)
                        /\ v.map_y + SCROLL_Y_DIM < (2 * yd + 1) * BLOCK_Y_DIM - SHOW_MIN
                     THEN v.map_y + 1 ELSE v.map_y
  <2>1. to \in Int /\ map \in Int
    BY DEF Views
  <2>2. MoveDown(v, yd) = [v EXCEPT !.y = to, !.map_y = map]
    BY DEF MoveDown
  <2>. HIDE DEF to, map
  <2>3. [v EXCEPT !.y = to, !.map_y = map] \in Views
    BY <2>1, FieldsSet
  <2>. QED
    BY <2>2, <2>3
<1>4. MoveLeft(v) \in Views
  <2>. DEFINE to == v.x - 1
              map == IF to < v.map_x + BLOCK_X_DIM * PAN_BORDER /\ v.map_x > SHOW_MIN THEN v.map_x - 1 ELSE v.map_x
  <2>1. to \in Int /\ map \in Int
    BY DEF Views
  <2>2. MoveLeft(v) = [v EXCEPT !.x = to, !.map_x = map]
    BY DEF MoveLeft
  <2>. HIDE DEF to, map
  <2>3. [v EXCEPT !.x = to, !.map_x = map] \in Views
    BY <2>1, FieldsSet
  <2>. QED
    BY <2>2, <2>3
<1>. QED
  BY <1>1, <1>2, <1>3, <1>4 DEF Moved

LEMMA WindowInit == Init => WindowInv
<1>. SUFFICES ASSUME Init PROVE WindowInv
  OBVIOUS
<1>1. /\ w = FirstWindow /\ view = StartView /\ text = FALSE /\ dir = DIR_STOP /\ place = "level"
  BY DEF Init
<1>2. BUILD_BASE_INIT \in Int /\ SCROLL_X_WIDTH \in Int
  BY SizeFacts
<1>3. IsWindow(w) /\ w.x = 0 /\ w.y = 0 /\ w.off = BUILD_BASE_INIT
  BY <1>1, <1>2 DEF FirstWindow, IsWindow
<1>4. BUILD_BASE_INIT = Recentred(0, 0)
  BY <1>2 DEF Recentred
<1>5. Held(w)
  BY <1>3, <1>4, RecentredHolds
<1>6. FencesWhole(w)
  BY <1>1 DEF FirstWindow, FencesWhole, Fences
<1>7. view \in Views
  BY <1>1, BlockDimAssumption, BorderAssumption DEF StartView, Views
<1>. QED
  BY <1>1, <1>5, <1>6, <1>7 DEF WindowInv

LEMMA TurnedIs ==
  ASSUME NEW d \in Dirs \cup {DIR_STOP}, NEW next \in Dirs \cup {DIR_STOP}, NEW open
  PROVE  TurnedDir(d, next) \in Dirs \cup {DIR_STOP} /\ LeaveDir(d, next, open) \in Dirs \cup {DIR_STOP}
<1>1. TurnedDir(d, next) \in {d, next}
  BY DEF TurnedDir
<1>2. LeaveDir(d, next, open) \in {d, next, DIR_STOP}
  BY DEF LeaveDir
<1>. QED
  BY <1>1, <1>2

LEMMA MoveKeeps ==
  ASSUME WindowInv, NEW d \in Dirs \cup {DIR_STOP}, NEW cnt, NEW m,
         NEW win, Held(win), FencesWhole(win), Move(d, cnt, m, win)
  PROVE  WindowInv'
<1>1. dir' = d /\ place' = place /\ text' = text
  BY DEF Move
<1>2. view \in Views /\ place # "broken" /\ text \in BOOLEAN
  BY DEF WindowInv
<1>3. PICK nw, nv : nw = w' /\ nv = view'
  OBVIOUS
<1>4. Held(nw) /\ FencesWhole(nw) /\ nv \in Views
  <2>1. CASE d = DIR_STOP
    BY <1>2, <1>3, <2>1 DEF Move
  <2>2. CASE d # DIR_STOP
    <3>1. d \in Dirs /\ nv = Moved(view, d, maze.xd, maze.yd)
      BY <1>3, <2>2 DEF Move
    <3>2. nw = IF Pans(view, d) THEN FollowLine(m, win, nv, d) ELSE win
      BY <1>3, <2>2 DEF Move
    <3>3. nv \in Views
      BY <1>2, <3>1, MovedView
    <3>4. CASE Pans(view, d)
      <4>1. nw = FollowLine(m, win, nv, d)
        BY <3>2, <3>4
      <4>2. nv.map_x \in Int /\ nv.map_y \in Int
        BY <3>3 DEF Views
      <4>. QED
        BY <3>1, <3>3, <4>1, <4>2, LineDrawn
    <3>5. CASE ~Pans(view, d)
      BY <3>2, <3>3, <3>5
    <3>. QED
      BY <3>4, <3>5
  <2>. QED
    BY <2>1, <2>2
<1>. QED
  BY <1>1, <1>2, <1>3, <1>4 DEF WindowInv

LEMMA FrameKeeps ==
  ASSUME NEW v, Held(v), FencesWhole(v), NEW at, NEW d, NEW on \in BOOLEAN, ShowFrame(v, at, d, on)
  PROVE  Held(w') /\ FencesWhole(w')
<1>1. PICK r : r = w' /\ r = Erased(v, at, d, on)
  BY DEF ShowFrame
<1>2. Drawn(v, r)
  BY <1>1, ErasedIs
<1>3. Held(r) /\ FencesWhole(r)
  BY <1>2 DEF Drawn
<1>. QED
  BY <1>1, <1>3

LEMMA AroundKeeps ==
  ASSUME NEW m, NEW v, Held(v), FencesWhole(v), NEW s
  PROVE  Held(WindowAround(m, v, s)) /\ FencesWhole(WindowAround(m, v, s))
<1>1. PICK r : r = WindowAround(m, v, s)
  OBVIOUS
<1>2. Drawn(v, r)
  BY <1>1, WindowAroundDraws
<1>. QED
  BY <1>1, <1>2 DEF Drawn

LEMMA WindowNext == WindowInv /\ [Next]_vars => WindowInv'
<1>. SUFFICES ASSUME WindowInv, [Next]_vars PROVE WindowInv'
  OBVIOUS
<1>1. /\ Held(w) /\ FencesWhole(w) /\ view \in Views /\ text \in BOOLEAN
      /\ dir \in Dirs \cup {DIR_STOP} /\ place # "broken"
  BY DEF WindowInv
<1>2. NextDirs \subseteq Dirs \cup {DIR_STOP}
  BY DEF NextDirs
<1>3. CASE StartLevel
  <2>1. PICK made \in PrepareMazeLevel :
          ShowFrame(WindowAround(made[1], made[2], Square(StartView)), StartView, DIR_UP, FALSE)
    BY <1>3 DEF StartLevel
  <2>2. PICK m : made[1] = m /\ made[2] = LevelWindow(m)
    BY <2>1 DEF PrepareMazeLevel
  <2>3. PICK r : r = made[2] /\ r = LevelWindow(m)
    BY <2>2
  <2>4. Held(r) /\ FencesWhole(r)
    BY <1>1, <2>3, LevelDrawn
  <2>5. PICK v : v = WindowAround(m, r, Square(StartView))
    OBVIOUS
  <2>6. Held(v) /\ FencesWhole(v)
    BY <2>4, <2>5, AroundKeeps
  <2>7. ShowFrame(v, StartView, DIR_UP, FALSE)
    BY <2>1, <2>2, <2>3, <2>5
  <2>8. Held(w') /\ FencesWhole(w')
    BY <2>6, <2>7, FrameKeeps
  <2>9. view' \in Views /\ text' \in BOOLEAN /\ dir' \in Dirs \cup {DIR_STOP} /\ place' # "broken"
    <3>1. view' = StartView /\ text' = FALSE /\ dir' = DIR_STOP /\ place' = "loop"
      BY <1>3 DEF StartLevel
    <3>2. StartView \in Views
      BY BlockDimAssumption, BorderAssumption DEF StartView, Views
    <3>. QED
      BY <3>1, <3>2
  <2>. QED
    BY <2>8, <2>9 DEF WindowInv
<1>4. CASE Interrupt
  BY <1>1, <1>4 DEF WindowInv, Interrupt
<1>5. CASE EndLevel
  BY <1>1, <1>5 DEF WindowInv, EndLevel
<1>6. CASE TickBetween
  <2>1. PICK next \in Dirs \cup {DIR_STOP} : Move(TurnedDir(dir, next), TurnedCount(dir, next, move_cnt), maze, w)
    BY <1>2, <1>6 DEF TickBetween
  <2>2. TurnedDir(dir, next) \in Dirs \cup {DIR_STOP}
    BY <1>1, TurnedIs
  <2>. QED
    BY <1>1, <2>1, <2>2, MoveKeeps
<1>7. CASE TickAtSquare
  <2>1. PICK next \in NextDirs :
          LET d == LeaveDir(TurnedDir(dir, next), next, FindOpenDirections(maze', Square(view)[1], Square(view)[2]))
          IN  Move(d, IF d = DIR_STOP THEN 0 ELSE BlockLength(d), maze', WindowAround(maze, w, Square(view)))
    BY <1>7 DEF TickAtSquare
  <2>2. PICK open : open = FindOpenDirections(maze', Square(view)[1], Square(view)[2])
    OBVIOUS
  <2>3. PICK m : m = maze'
    OBVIOUS
  <2>4. PICK d, cnt : /\ d = LeaveDir(TurnedDir(dir, next), next, open)
                      /\ Move(d, cnt, m, WindowAround(maze, w, Square(view)))
    BY <2>1, <2>2, <2>3
  <2>5. next \in Dirs \cup {DIR_STOP} /\ TurnedDir(dir, next) \in Dirs \cup {DIR_STOP}
    BY <1>1, <1>2, TurnedIs
  <2>6. d \in Dirs \cup {DIR_STOP}
    BY <2>4, <2>5, TurnedIs
  <2>7. Held(WindowAround(maze, w, Square(view))) /\ FencesWhole(WindowAround(maze, w, Square(view)))
    BY <1>1, AroundKeeps
  <2>. QED
    BY <2>4, <2>6, <2>7, MoveKeeps
<1>8. CASE TickWins
  <2>1. PICK next \in NextDirs : dir' = TurnedDir(dir, next)
    BY <1>8 DEF TickWins
  <2>2. dir' \in Dirs \cup {DIR_STOP}
    BY <1>1, <1>2, <2>1, TurnedIs
  <2>3. w' = WindowAround(maze, w, Square(view))
    BY <1>8 DEF TickWins
  <2>4. Held(w') /\ FencesWhole(w')
    BY <1>1, <2>3, AroundKeeps
  <2>. QED
    BY <1>1, <1>8, <2>2, <2>4 DEF WindowInv, TickWins
<1>9. CASE Frame
  <2>1. Held(w') /\ FencesWhole(w')
    BY <1>1, <1>9, FrameKeeps DEF Frame
  <2>. QED
    BY <1>1, <1>9, <2>1 DEF WindowInv, Frame
<1>10. CASE ClearModeX
  <2>1. place' = "ended"
    BY <1>1, <1>10 DEF ClearModeX
  <2>. QED
    BY <1>1, <1>10, <2>1 DEF WindowInv, ClearModeX
<1>11. CASE UNCHANGED vars
  BY <1>1, <1>11 DEF WindowInv, vars
<1>. QED
  BY <1>3, <1>4, <1>5, <1>6, <1>7, <1>8, <1>9, <1>10, <1>11 DEF Next

\* Whatever the maze, the moves, the screen and the size of the buffer: every
\* pixel of the window has its byte between the two fences, and no drawing,
\* copy or restoring of saved pixels reaches a fence.
THEOREM WindowInBufferCorrect == Spec => []WindowInBuffer
<1>1. WindowInv => WindowInBuffer
  <2>. SUFFICES ASSUME WindowInv, NEW p \in Window(w) PROVE Addr(w, p) \in Build \ Fences
    BY DEF WindowInBuffer, WindowInv
  <2>. QED
    BY AddrInBuffer DEF WindowInv
<1>. QED
  BY <1>1, WindowInit, WindowNext, PTL DEF Spec

----------------------------------------------------------------------------
(* The screen. *)

\* Column s of the screen: its plane and its byte, from the window's first
\* column on.
LEMMA PlaneColumn ==
  ASSUME NEW x \in Int, NEW s \in Nat
  PROVE  LET off == 3 - (x % 4)
             i == s % 4
         IN  /\ (off - i + 4) % 4 = 3 - ((s + x) % 4)
             /\ x \div 4 + s \div 4 + (IF off < i THEN 1 ELSE 0) = (s + x) \div 4
             /\ x \div 4 \in Int /\ s \div 4 \in Int /\ (s + x) \div 4 \in Int
             /\ (off - i + 4) % 4 \in 0 .. 3 /\ i \in 0 .. 3
OBVIOUS

LEMMA ScreenIs ==
  ASSUME NEW v, IsWindow(v), NEW s \in Screen
  PROVE  ShowScreen(v)[s] = At(v, <<s[1] + v.x, s[2] + v.y>>)
<1>1. PICK x \in Int, y \in Int, o \in Int, a \in Nat, b \in Nat, n \in Nat, z \in Nat, f \in Nat :
        /\ x = v.x /\ y = v.y /\ o = v.off /\ a = s[1] /\ b = s[2]
        /\ n = SCROLL_X_WIDTH /\ z = SCROLL_SIZE /\ f = MEM_FENCE_WIDTH
  BY SizeFacts DEF IsWindow, Screen
<1>2. Img3(v) = o + f
  BY <1>1 DEF Img3
<1>. DEFINE off == 3 - (x % 4)
            i == a % 4
            plane == (off - i + 4) % 4
            more == IF off < i THEN 1 ELSE 0
<1>3. /\ plane = 3 - ((a + x) % 4) /\ x \div 4 + a \div 4 + more = (a + x) \div 4
      /\ x \div 4 \in Int /\ a \div 4 \in Int /\ (a + x) \div 4 \in Int /\ plane \in 0 .. 3 /\ more \in 0 .. 1
  BY PlaneColumn
<1>4. (b + y) * n = y * n + b * n /\ y * n \in Int /\ b * n \in Int /\ plane * z \in Int
  BY <1>3
<1>5. ShowScreen(v)[s] = v.build[PlaneStart(v, i) + (a \div 4 + b * n)]
  BY <1>1 DEF ShowScreen, CopyImage
<1>6. PlaneStart(v, i) = o + f + x \div 4 + y * n + plane * z + more
  BY <1>1, <1>2 DEF PlaneStart
<1>7. Addr(v, <<a + x, b + y>>) = o + f + (a + x) \div 4 + (b + y) * n + (3 - ((a + x) % 4)) * z
  BY <1>1, <1>2 DEF Addr
<1>. HIDE DEF plane, more
<1>8. Addr(v, <<a + x, b + y>>) = PlaneStart(v, i) + (a \div 4 + b * n)
  <2>1. (3 - ((a + x) % 4)) * z = plane * z
    BY <1>3
  <2>2. PICK p \in Int, q \in Int, r \in Int, t \in Int, u \in Int, c \in Int :
           p = x \div 4 /\ q = a \div 4 /\ r = y * n /\ t = b * n /\ u = plane * z /\ c = (a + x) \div 4
    BY <1>3, <1>4
  <2>3. PlaneStart(v, i) = o + f + p + r + u + more
    BY <1>6, <2>2
  <2>4. Addr(v, <<a + x, b + y>>) = o + f + c + (r + t) + u
    BY <1>4, <1>7, <2>1, <2>2
  <2>5. p + q + more = c /\ more \in Int
    BY <1>3, <2>2
  <2>6. PlaneStart(v, i) + (a \div 4 + b * n) = o + f + p + r + u + more + (q + t)
    BY <2>2, <2>3
  <2>. QED
    BY <2>4, <2>5, <2>6
<1>. QED
  BY <1>1, <1>5, <1>8 DEF At

LEMMA VisibleAt ==
  ASSUME NEW v, IsWindow(v), NEW x \in Int, NEW y \in Int, NEW mask, mask \subseteq Int \X Int,
         NEW p \in Window(v)
  PROVE  p \in Visible(v, x, y, mask) <=> <<p[1] - x, p[2] - y>> \in mask
<1>1. p = <<p[1], p[2]>> /\ p[1] \in Int /\ p[2] \in Int
  BY WindowPixels
<1>2. p \in Visible(v, x, y, mask) <=> \E d \in mask : p = <<x + d[1], y + d[2]>>
  BY DEF Visible
<1>3. ASSUME NEW d \in mask, p = <<x + d[1], y + d[2]>> PROVE <<p[1] - x, p[2] - y>> = d
  <2>1. PICK a \in Int, b \in Int : d = <<a, b>>
    OBVIOUS
  <2>2. p[1] = x + a /\ p[2] = y + b
    BY <1>3, <2>1
  <2>3. p[1] - x = a /\ p[2] - y = b
    BY <2>2
  <2>. QED
    BY <2>1, <2>3
<1>4. ASSUME <<p[1] - x, p[2] - y>> \in mask PROVE \E d \in mask : p = <<x + d[1], y + d[2]>>
  <2>1. PICK a \in Int, b \in Int : a = p[1] - x /\ b = p[2] - y
    BY <1>1
  <2>2. p = <<x + a, y + b>> /\ <<a, b>> \in mask
    BY <1>1, <1>4, <2>1
  <2>. QED
    BY <2>2
<1>. QED
  BY <1>2, <1>3, <1>4

\* What a frame shows of a window that shows the maze.
LEMMA FrameShown ==
  ASSUME Held(w), Shows(maze, w), view \in Views, w.x = view.map_x, w.y = view.map_y,
         last_dir \in Dirs, text \in BOOLEAN, ShowFrame(w, view, last_dir, text), NEW s \in Screen
  PROVE  screen'[s] = Expected(s)
<1>. DEFINE drawn == DrawPlayer(w, view, last_dir)
            texted == DrawText(drawn, view, text)
            tx == TextAt(view)[1]
            ty == TextAt(view)[2]
            mask == PlayerMask[last_dir]
            p == <<s[1] + view.map_x, s[2] + view.map_y>>
            under == IF <<p[1] - view.x, p[2] - view.y>> \in mask
                     THEN <<<<"player", last_dir>>, p[1] - view.x, p[2] - view.y>>
                     ELSE PixelAt(maze, p[1], p[2])
<1>1. /\ view.x \in Int /\ view.y \in Int /\ view.map_x \in Int /\ view.map_y \in Int
      /\ s[1] \in 0 .. SCROLL_X_DIM - 1 /\ s[2] \in 0 .. SCROLL_Y_DIM - 1 /\ IsWindow(w)
      /\ SCROLL_X_DIM \in Nat /\ SCROLL_Y_DIM \in Nat
  BY SizeFacts DEF Views, Screen, Held, IsWindow
<1>2. p \in Window(w)
  BY <1>1 DEF Window, Rectangle
<1>3. tx \in Int /\ ty \in Int
  BY <1>1, TextAssumption DEF TextAt, Larger
<1>4. mask \subseteq Int \X Int /\ TextPixels \subseteq Int \X Int
  <2>1. mask \subseteq Block
    BY MaskAssumption
  <2>2. Block \subseteq Int \X Int
    BY BlockDimAssumption DEF Block
  <2>. QED
    BY <2>1, <2>2, TextAssumption
<1>5. /\ Drawn(w, drawn)
      /\ \A q \in Window(w) :
           At(drawn, q) = IF q \in Visible(w, view.x, view.y, mask)
                          THEN BlockPixel(GetPlayerBlock(last_dir), q[1] - view.x, q[2] - view.y) ELSE At(w, q)
  BY PlayerDrawn
<1>6. Held(drawn) /\ IsWindow(drawn) /\ Window(drawn) = Window(w) /\ drawn.x = w.x /\ drawn.y = w.y
  BY <1>5 DEF Drawn, Held
<1>7. /\ Drawn(drawn, texted)
      /\ \A q \in Window(drawn) :
           At(texted, q) = IF text /\ q \in Visible(drawn, tx, ty, TextPixels)
                           THEN <<"text", At(drawn, q)>> ELSE At(drawn, q)
  BY <1>6, TextDrawn
<1>8. IsWindow(texted) /\ texted.x = view.map_x /\ texted.y = view.map_y
  BY <1>6, <1>7 DEF Drawn, Held
<1>9. screen' = ShowScreen(texted)
  BY DEF ShowFrame
<1>10. Expected(s) = IF text /\ <<p[1] - tx, p[2] - ty>> \in TextPixels THEN <<"text", under>> ELSE under
  BY DEF Expected
<1>. HIDE DEF drawn, texted, tx, ty, mask, p
<1>11. screen'[s] = At(texted, p)
  BY <1>8, <1>9, ScreenIs DEF p
<1>12. p \in Visible(w, view.x, view.y, mask) <=> <<p[1] - view.x, p[2] - view.y>> \in mask
  BY <1>1, <1>2, <1>4, VisibleAt
<1>13. p \in Visible(drawn, tx, ty, TextPixels) <=> <<p[1] - tx, p[2] - ty>> \in TextPixels
  BY <1>2, <1>3, <1>4, <1>6, VisibleAt
<1>14. At(w, p) = PixelAt(maze, p[1], p[2])
  BY <1>2 DEF Shows
<1>15. At(drawn, p) = under
  BY <1>2, <1>5, <1>12, <1>14 DEF BlockPixel, GetPlayerBlock
<1>. HIDE DEF under
<1>16. At(texted, p) = IF text /\ <<p[1] - tx, p[2] - ty>> \in TextPixels THEN <<"text", under>> ELSE under
  BY <1>2, <1>6, <1>7, <1>13, <1>15
<1>. QED
  BY <1>10, <1>11, <1>16

----------------------------------------------------------------------------
(* The player and the window on the maze. *)

\* The sizes of the game: the left and the right boundary are further apart
\* than the screen is wide, and the window follows the player before the mist
\* it lifts reaches the border.
BoundariesApart ==
    /\ SCROLL_X_DIM + SHOW_MIN <= 2 * MAZE_MIN_X_DIM * BLOCK_X_DIM
    /\ PAN_BORDER >= 3
    /\ BLOCK_X_DIM * (2 * PAN_BORDER + 1) <= SCROLL_X_DIM

Right(xd) == (2 * xd + 1) * BLOCK_X_DIM
Bottom(yd) == (2 * yd + 1) * BLOCK_Y_DIM

\* The window shows no more than it may, and is where it follows the player
\* unless the maze ends there.
Following(v, xd, yd) ==
    /\ v.map_x >= SHOW_MIN /\ v.map_x + SCROLL_X_DIM <= Right(xd) - SHOW_MIN
    /\ v.map_y >= SHOW_MIN /\ v.map_y + SCROLL_Y_DIM <= Bottom(yd) - SHOW_MIN
    /\ v.x >= v.map_x + BLOCK_X_DIM * PAN_BORDER \/ v.map_x <= SHOW_MIN
    /\ \/ v.x <= v.map_x + SCROLL_X_DIM - BLOCK_X_DIM * (PAN_BORDER + 1)
       \/ v.map_x + SCROLL_X_DIM >= Right(xd) - SHOW_MIN

LEMMA SizesAre ==
  /\ BLOCK_X_DIM \in Nat \ {0} /\ BLOCK_Y_DIM \in Nat \ {0}
  /\ SHOW_MIN \in Nat /\ SHOW_MIN <= BLOCK_X_DIM /\ SHOW_MIN <= BLOCK_Y_DIM /\ PAN_BORDER \in Nat
  /\ SCROLL_X_DIM \in Nat \ {0} /\ SCROLL_Y_DIM \in Nat \ {0}
  /\ BLOCK_X_DIM * PAN_BORDER \in Nat
  /\ BLOCK_X_DIM * (PAN_BORDER + 1) = BLOCK_X_DIM * PAN_BORDER + BLOCK_X_DIM
  /\ BLOCK_X_DIM * (2 * PAN_BORDER + 1) = 2 * (BLOCK_X_DIM * PAN_BORDER) + BLOCK_X_DIM
<1>1. /\ BLOCK_X_DIM \in Nat \ {0} /\ BLOCK_Y_DIM \in Nat \ {0}
      /\ SHOW_MIN \in Nat /\ SHOW_MIN <= BLOCK_X_DIM /\ SHOW_MIN <= BLOCK_Y_DIM /\ PAN_BORDER \in Nat
  BY BlockDimAssumption, BorderAssumption, ViewAssumption
<1>2. SCROLL_X_DIM \in Nat \ {0} /\ SCROLL_Y_DIM \in Nat \ {0}
  BY ImageDimAssumption DEF SCROLL_X_DIM, SCROLL_Y_DIM
<1>3. /\ BLOCK_X_DIM * PAN_BORDER \in Nat
      /\ BLOCK_X_DIM * (PAN_BORDER + 1) = BLOCK_X_DIM * PAN_BORDER + BLOCK_X_DIM
      /\ BLOCK_X_DIM * (2 * PAN_BORDER + 1) = 2 * (BLOCK_X_DIM * PAN_BORDER) + BLOCK_X_DIM
  BY <1>1
<1>. QED
  BY <1>1, <1>2, <1>3

LEMMA MovedFields ==
  ASSUME NEW v \in Views, NEW d \in Dirs, NEW xd, NEW yd, NEW r, r = Moved(v, d, xd, yd)
  PROVE  /\ d = DIR_UP =>
              /\ r.x = v.x /\ r.y = v.y - 1 /\ r.map_x = v.map_x
              /\ r.map_y = IF r.y < v.map_y + BLOCK_Y_DIM * PAN_BORDER /\ v.map_y > SHOW_MIN
                           THEN v.map_y - 1 ELSE v.map_y
         /\ d = DIR_RIGHT =>
              /\ r.x = v.x + 1 /\ r.y = v.y /\ r.map_y = v.map_y
              /\ r.map_x = IF /\ r.x > v.map_x + SCROLL_X_DIM - BLOCK_X_DIM * (PAN_BORDER + 1)
                              /\ v.map_x + SCROLL_X_DIM < Right(xd) - SHOW_MIN
                           THEN v.map_x + 1 ELSE v.map_x
         /\ d = DIR_DOWN =>
              /\ r.x = v.x /\ r.y = v.y + 1 /\ r.map_x = v.map_x
              /\ r.map_y = IF /\ r.y > v.map_y + SCROLL_Y_DIM - BLOCK_Y_DIM * (PAN_BORDER + 1)
                              /\ v.map_y + SCROLL_Y_DIM < Bottom(yd) - SHOW_MIN
                           THEN v.map_y + 1 ELSE v.map_y
         /\ d = DIR_LEFT =>
              /\ r.x = v.x - 1 /\ r.y = v.y /\ r.map_y = v.map_y
              /\ r.map_x = IF r.x < v.map_x + BLOCK_X_DIM * PAN_BORDER /\ v.map_x > SHOW_MIN
                           THEN v.map_x - 1 ELSE v.map_x
<1>1. d = DIR_UP => r = MoveUp(v)
  BY DEF Moved, DIR_UP, DIR_RIGHT, DIR_DOWN, DIR_LEFT
<1>2. d = DIR_RIGHT => r = MoveRight(v, xd)
  BY DEF Moved, DIR_UP, DIR_RIGHT, DIR_DOWN, DIR_LEFT
<1>3. d = DIR_DOWN => r = MoveDown(v, yd)
  BY DEF Moved, DIR_UP, DIR_RIGHT, DIR_DOWN, DIR_LEFT
<1>4. d = DIR_LEFT => r = MoveLeft(v)
  BY DEF Moved, DIR_UP, DIR_RIGHT, DIR_DOWN, DIR_LEFT
<1>5. d = DIR_UP =>
              /\ r.x = v.x /\ r.y = v.y - 1 /\ r.map_x = v.map_x
              /\ r.map_y = IF r.y < v.map_y + BLOCK_Y_DIM * PAN_BORDER /\ v.map_y > SHOW_MIN
                           THEN v.map_y - 1 ELSE v.map_y
  BY <1>1 DEF MoveUp, Views
<1>6. d = DIR_RIGHT =>
              /\ r.x = v.x + 1 /\ r.y = v.y /\ r.map_y = v.map_y
              /\ r.map_x = IF /\ r.x > v.map_x + SCROLL_X_DIM - BLOCK_X_DIM * (PAN_BORDER + 1)
                              /\ v.map_x + SCROLL_X_DIM < Right(xd) - SHOW_MIN
                           THEN v.map_x + 1 ELSE v.map_x
  BY <1>2 DEF MoveRight, MoreRight, Right, Views
<1>7. d = DIR_DOWN =>
              /\ r.x = v.x /\ r.y = v.y + 1 /\ r.map_x = v.map_x
              /\ r.map_y = IF /\ r.y > v.map_y + SCROLL_Y_DIM - BLOCK_Y_DIM * (PAN_BORDER + 1)
                              /\ v.map_y + SCROLL_Y_DIM < Bottom(yd) - SHOW_MIN
                           THEN v.map_y + 1 ELSE v.map_y
  BY <1>3 DEF MoveDown, Bottom, Views
<1>8. d = DIR_LEFT =>
              /\ r.x = v.x - 1 /\ r.y = v.y /\ r.map_y = v.map_y
              /\ r.map_x = IF r.x < v.map_x + BLOCK_X_DIM * PAN_BORDER /\ v.map_x > SHOW_MIN
                           THEN v.map_x - 1 ELSE v.map_x
  BY <1>4 DEF MoveLeft, Views
<1>. QED
  BY <1>5, <1>6, <1>7, <1>8

LEMMA DirIs ==
  ASSUME NEW d \in Dirs
  PROVE  d = DIR_UP \/ d = DIR_RIGHT \/ d = DIR_DOWN \/ d = DIR_LEFT
BY DEF Dirs, NUM_DIRS, DIR_UP, DIR_RIGHT, DIR_DOWN, DIR_LEFT

LEMMA KeepsFollowing ==
  ASSUME BoundariesApart, NEW v \in Views, NEW d \in Dirs, NEW xd \in Int, NEW yd \in Int,
         Following(v, xd, yd), NEW r, r = Moved(v, d, xd, yd)
  PROVE  Following(r, xd, yd)
<1>1. PICK l \in Int, b \in Int, s \in Int, px \in Int, w1 \in Int, h \in Int, bx \in Int :
        /\ l = Right(xd) /\ b = Bottom(yd) /\ s = SHOW_MIN /\ px = BLOCK_X_DIM * PAN_BORDER
        /\ w1 = SCROLL_X_DIM /\ h = SCROLL_Y_DIM /\ bx = BLOCK_X_DIM
        /\ BLOCK_X_DIM * (PAN_BORDER + 1) = px + bx /\ 2 * px + bx <= w1
  <2>1. Right(xd) \in Int /\ Bottom(yd) \in Int
    BY SizesAre DEF Right, Bottom
  <2>. QED
    BY <2>1, SizesAre DEF BoundariesApart
<1>2. PICK x \in Int, mx \in Int, my \in Int : x = v.x /\ mx = v.map_x /\ my = v.map_y
  BY DEF Views
<1>3. /\ mx >= s /\ mx + w1 <= l - s /\ my >= s /\ my + h <= b - s
      /\ x >= mx + px \/ mx <= s
      /\ x <= mx + w1 - (px + bx) \/ mx + w1 >= l - s
  BY <1>1, <1>2 DEF Following
<1>4. PICK ry \in Int, py \in Int, pz \in Int : ry = r.y /\ py = BLOCK_Y_DIM * PAN_BORDER /\ pz = BLOCK_Y_DIM * (PAN_BORDER + 1)
  <2>1. r \in Views
    BY MovedView
  <2>. QED
    BY <2>1, SizesAre DEF Views
<1>5. SUFFICES ASSUME NEW nx, NEW nmx, NEW nmy, nx = r.x, nmx = r.map_x, nmy = r.map_y
               PROVE  /\ nmx >= s /\ nmx + w1 <= l - s /\ nmy >= s /\ nmy + h <= b - s
                      /\ nx >= nmx + px \/ nmx <= s
                      /\ nx <= nmx + w1 - (px + bx) \/ nmx + w1 >= l - s
  BY <1>1 DEF Following
<1>6. CASE d = DIR_UP
  <2>1. nx = x /\ nmx = mx /\ nmy = IF ry < my + py /\ my > s THEN my - 1 ELSE my
    BY <1>1, <1>2, <1>4, <1>5, <1>6, MovedFields
  <2>. QED
    BY <1>1, <1>3, <2>1
<1>7. CASE d = DIR_RIGHT
  <2>1. nx = x + 1 /\ nmy = my /\ nmx = IF nx > mx + w1 - (px + bx) /\ mx + w1 < l - s THEN mx + 1 ELSE mx
    BY <1>1, <1>2, <1>5, <1>7, MovedFields
  <2>. QED
    BY <1>1, <1>3, <2>1
<1>8. CASE d = DIR_DOWN
  <2>1. nx = x /\ nmx = mx /\ nmy = IF ry > my + h - pz /\ my + h < b - s THEN my + 1 ELSE my
    BY <1>1, <1>2, <1>4, <1>5, <1>8, MovedFields
  <2>. QED
    BY <1>1, <1>3, <2>1
<1>9. CASE d = DIR_LEFT
  <2>1. nx = x - 1 /\ nmy = my /\ nmx = IF nx < mx + px /\ mx > s THEN mx - 1 ELSE mx
    BY <1>1, <1>2, <1>5, <1>9, MovedFields
  <2>. QED
    BY <1>1, <1>3, <2>1
<1>. QED
  BY <1>6, <1>7, <1>8, <1>9, DirIs

----------------------------------------------------------------------------
(* The maze. *)

Cells == [wall : BOOLEAN, fruit : Nat, exit : BOOLEAN, reach : BOOLEAN]
Fruited(m) == {i \in Indices : m.cell[i].fruit # 0}
IndexAt(m, s) == MAZE_INDEX(m.xd, s[1], s[2])

\* A maze within its dimensions with all walls around it, whose fruits are
\* counted and which has no exit but one.
Dimensions(m) ==
    /\ DOMAIN m = {"cell", "xd", "yd", "n_fruits", "exit"}
    /\ m.xd \in Nat \ {0} /\ m.yd \in Nat \ {0}
    /\ MAZE_MIN_X_DIM <= m.xd /\ m.xd <= MAZE_MAX_X_DIM /\ m.yd <= MAZE_MAX_Y_DIM
    /\ m.cell \in [Indices -> Cells]

MazeOK(m) ==
    /\ Dimensions(m)
    /\ \A i \in Indices : m.cell[i].wall \/ i \in IndicesOf(m, Interior(m))
    /\ m.n_fruits = Cardinality(Fruited(m))
    /\ m.exit \in Interior(m)
    /\ \A i \in Indices : m.cell[i].exit => i = IndexAt(m, m.exit)

LEMMA IndexIs ==
  ASSUME NEW n \in Nat, NEW x \in Int, NEW y \in Int
  PROVE  /\ MAZE_INDEX(n, x, y) = x + (y + 1) * (2 * n)
         /\ MAZE_INDEX(n, x, y) \in Int
<1>1. (y + 1) * n * 2 = (y + 1) * (2 * n) /\ (y + 1) * (2 * n) \in Int
  OBVIOUS
<1>. QED
  BY <1>1 DEF MAZE_INDEX

LEMMA ProductOrder ==
  ASSUME NEW a \in Nat, NEW b \in Nat, NEW c \in Nat, NEW d \in Nat, a <= c, b <= d
  PROVE  a * b \in Nat /\ c * d \in Nat /\ a * b <= c * d
<1>1. a * b <= a * d
  <2>1. a * (d - b) >= 0 /\ a * (d - b) = a * d - a * b
    OBVIOUS
  <2>. QED
    BY <2>1
<1>2. a * d <= c * d
  <2>1. (c - a) * d >= 0 /\ (c - a) * d = c * d - a * d
    OBVIOUS
  <2>. QED
    BY <2>1
<1>. QED
  BY <1>1, <1>2

\* The lattice points of a maze, and those next to them, are in the array.
LEMMA IndexInArray ==
  ASSUME NEW m, Dimensions(m), NEW x \in Int, NEW y \in Int,
         \/ 0 <= x /\ x <= 2 * m.xd /\ -1 <= y /\ y <= 2 * m.yd + 1
         \/ -1 <= x /\ x <= 2 * m.xd + 1 /\ 0 <= y /\ y <= 2 * m.yd
  PROVE  MAZE_INDEX(m.xd, x, y) \in Indices
<1>1. PICK n \in Nat, b \in Nat, c \in Nat, d \in Nat :
        /\ n = m.xd /\ b = m.yd /\ c = MAZE_MAX_X_DIM /\ d = MAZE_MAX_Y_DIM
        /\ n <= c /\ b <= d /\ n >= 1
  BY MaxDimAssumption DEF Dimensions
<1>2. MAZE_INDEX(n, x, y) = x + (y + 1) * (2 * n)
  BY IndexIs
<1>3. (2 * b + 3) * (2 * n) <= (2 * d + 3) * (2 * c) /\ (2 * d + 3) * (2 * c) = 2 * c * (2 * d + 3)
  <2>1. (2 * b + 3) * (2 * n) <= (2 * d + 3) * (2 * c)
    BY <1>1, ProductOrder
  <2>. QED
    BY <2>1
<1>4. CASE 0 <= x /\ x <= 2 * n /\ -1 <= y /\ y <= 2 * b + 1
  <2>1. 0 <= (y + 1) * (2 * n)
    BY <1>4
  <2>2. (y + 1) * (2 * n) <= (2 * b + 2) * (2 * n)
    <3>1. y + 1 \in Nat /\ y + 1 <= 2 * b + 2
      BY <1>4
    <3>. QED
      BY <3>1, ProductOrder
  <2>3. (2 * b + 3) * (2 * n) = (2 * b + 2) * (2 * n) + 2 * n
    OBVIOUS
  <2>4. (y + 1) * (2 * n) \in Int /\ (2 * b + 2) * (2 * n) \in Int /\ 2 * c * (2 * d + 3) \in Int
    OBVIOUS
  <2>5. 0 <= x + (y + 1) * (2 * n) /\ x + (y + 1) * (2 * n) <= 2 * c * (2 * d + 3)
    BY <1>3, <1>4, <2>1, <2>2, <2>3, <2>4
  <2>. QED
    BY <1>1, <1>2, <2>4, <2>5 DEF Indices
<1>5. CASE -1 <= x /\ x <= 2 * n + 1 /\ 0 <= y /\ y <= 2 * b
  <2>1. 2 * n <= (y + 1) * (2 * n)
    <3>1. y * (2 * n) >= 0 /\ (y + 1) * (2 * n) = y * (2 * n) + 2 * n
      BY <1>5
    <3>. QED
      BY <3>1
  <2>2. (y + 1) * (2 * n) <= (2 * b + 1) * (2 * n)
    <3>1. y + 1 \in Nat /\ y + 1 <= 2 * b + 1
      BY <1>5
    <3>. QED
      BY <3>1, ProductOrder
  <2>3. (2 * b + 3) * (2 * n) = (2 * b + 1) * (2 * n) + 2 * (2 * n)
    OBVIOUS
  <2>4. (y + 1) * (2 * n) \in Int /\ (2 * b + 1) * (2 * n) \in Int /\ 2 * c * (2 * d + 3) \in Int
    OBVIOUS
  <2>5. 0 <= x + (y + 1) * (2 * n) /\ x + (y + 1) * (2 * n) <= 2 * c * (2 * d + 3)
    BY <1>1, <1>3, <1>5, <2>1, <2>2, <2>3, <2>4
  <2>. QED
    BY <1>1, <1>2, <2>4, <2>5 DEF Indices
<1>. QED
  BY <1>1, <1>4, <1>5

\* Two points of the maze with one index are one point, or the boundary on
\* the right and that on the left one row below.
LEMMA OneIndex ==
  ASSUME NEW n \in Nat \ {0}, NEW a \in Int, NEW b \in Int, NEW x \in Int, NEW y \in Int,
         0 <= a, a <= 2 * n, 0 <= x, x <= 2 * n,
         MAZE_INDEX(n, a, b) = MAZE_INDEX(n, x, y)
  PROVE  \/ a = x /\ b = y
         \/ a = 0 /\ x = 2 * n
         \/ x = 0 /\ a = 2 * n
<1>1. a + (b + 1) * (2 * n) = x + (y + 1) * (2 * n)
  <2>1. n \in Nat
    OBVIOUS
  <2>2. MAZE_INDEX(n, a, b) = a + (b + 1) * (2 * n)
    BY <2>1, IndexIs
  <2>3. MAZE_INDEX(n, x, y) = x + (y + 1) * (2 * n)
    BY <2>1, IndexIs
  <2>. QED
    BY <2>2, <2>3
<1>2. PICK k \in Int, t \in Int : k = b - y /\ t = 2 * n
  OBVIOUS
<1>3. x - a = k * t
  <2>1. (b + 1) * t = (y + 1) * t + k * t /\ (y + 1) * t \in Int /\ k * t \in Int
    BY <1>2
  <2>. QED
    BY <1>1, <1>2, <2>1
<1>4. t > 0 /\ x - a <= t /\ a - x <= t
  BY <1>2
<1>5. k <= 1 /\ k >= -1
  <2>1. k >= 2 => k * t >= 2 * t
    BY <1>4
  <2>2. k <= -2 => (-k) * t >= 2 * t
    BY <1>4
  <2>3. (-k) * t = -(k * t)
    OBVIOUS
  <2>. QED
    BY <1>3, <1>4, <2>1, <2>2, <2>3
<1>6. CASE k = 0
  <2>1. k * t = 0
    BY <1>6
  <2>. QED
    BY <1>2, <1>3, <1>6, <2>1
<1>7. CASE k = 1
  BY <1>2, <1>3, <1>7
<1>8. CASE k = -1
  <2>1. k * t = -t
    BY <1>8
  <2>. QED
    BY <1>2, <1>3, <2>1
<1>. QED
  BY <1>5, <1>6, <1>7, <1>8

\* The mazes differ in no wall.
SameWalls(m, n) ==
    /\ n.xd = m.xd /\ n.yd = m.yd
    /\ \A i \in Indices : n.cell[i].wall = m.cell[i].wall

LEMMA SameBlock ==
  ASSUME NEW m, Dimensions(m), NEW n, Dimensions(n), SameWalls(m, n),
         NEW x \in Int, NEW y \in Int, 0 <= x, x <= 2 * m.xd, 0 <= y, y <= 2 * m.yd,
         n.cell[MAZE_INDEX(m.xd, x, y)] = m.cell[MAZE_INDEX(m.xd, x, y)],
         \/ n.n_fruits = 0 <=> m.n_fruits = 0
         \/ ~m.cell[MAZE_INDEX(m.xd, x, y)].exit
  PROVE  FindBlock(n, x, y) = FindBlock(m, x, y)
<1>1. n.xd = m.xd /\ n.yd = m.yd /\ m.xd \in Nat \ {0} /\ m.yd \in Nat
  BY DEF SameWalls, Dimensions
<1>2. Cell(n, x, y) = Cell(m, x, y)
  BY <1>1 DEF Cell
<1>3. Pattern(n, x, y) = Pattern(m, x, y)
  <2>1. ASSUME NEW a \in Int, NEW b \in Int, MAZE_INDEX(m.xd, a, b) \in Indices
        PROVE  WallAt(n, a, b) = WallAt(m, a, b)
    BY <1>1, <2>1 DEF WallAt, Cell, SameWalls
  <2>2. ASSUME NEW d \in Dirs
        PROVE  LET a == Ahead(<<x, y>>, d) IN WallAt(n, a[1], a[2]) = WallAt(m, a[1], a[2])
    <3>1. PICK a \in Int, b \in Int :
            /\ Ahead(<<x, y>>, d) = <<a, b>>
            /\ \/ 0 <= a /\ a <= 2 * m.xd /\ -1 <= b /\ b <= 2 * m.yd + 1
               \/ -1 <= a /\ a <= 2 * m.xd + 1 /\ 0 <= b /\ b <= 2 * m.yd
      <4>1. CASE d = DIR_UP
        <5>1. Ahead(<<x, y>>, d) = <<x, y - 1>>
          BY <4>1 DEF Ahead, DIR_UP, DIR_RIGHT, DIR_DOWN, DIR_LEFT
        <5>. QED
          BY <1>1, <5>1
      <4>2. CASE d = DIR_RIGHT
        <5>1. Ahead(<<x, y>>, d) = <<x + 1, y>>
          BY <4>2 DEF Ahead, DIR_UP, DIR_RIGHT, DIR_DOWN, DIR_LEFT
        <5>. QED
          BY <1>1, <5>1
      <4>3. CASE d = DIR_DOWN
        <5>1. Ahead(<<x, y>>, d) = <<x, y + 1>>
          BY <4>3 DEF Ahead, DIR_UP, DIR_RIGHT, DIR_DOWN, DIR_LEFT
        <5>. QED
          BY <1>1, <5>1
      <4>4. CASE d = DIR_LEFT
        <5>1. Ahead(<<x, y>>, d) = <<x - 1, y>>
          BY <4>4 DEF Ahead, DIR_UP, DIR_RIGHT, DIR_DOWN, DIR_LEFT
        <5>. QED
          BY <1>1, <5>1
      <4>. QED
        BY <4>1, <4>2, <4>3, <4>4, DirIs
    <3>2. MAZE_INDEX(m.xd, a, b) \in Indices
      BY <3>1, IndexInArray
    <3>. QED
      BY <2>1, <3>1, <3>2
  <2>. QED
    BY <2>2 DEF Pattern
<1>4. (n.n_fruits = 0 /\ Cell(n, x, y).exit) <=> (m.n_fruits = 0 /\ Cell(m, x, y).exit)
  BY <1>1, <1>2 DEF Cell
<1>. QED
  BY <1>2, <1>3, <1>4 DEF FindBlock

LEMMA InteriorIs ==
  ASSUME NEW m, Dimensions(m), NEW s \in Interior(m)
  PROVE  /\ s = <<s[1], s[2]>> /\ s[1] \in Int /\ s[2] \in Int
         /\ 1 <= s[1] /\ s[1] <= 2 * m.xd - 1 /\ 1 <= s[2] /\ s[2] <= 2 * m.yd - 1
         /\ IndexAt(m, s) \in Indices
<1>1. /\ s = <<s[1], s[2]>> /\ s[1] \in Int /\ s[2] \in Int /\ m.xd \in Nat /\ m.yd \in Nat
      /\ 1 <= s[1] /\ s[1] <= 2 * m.xd - 1 /\ 1 <= s[2] /\ s[2] <= 2 * m.yd - 1
  BY DEF Interior, Dimensions
<1>2. MAZE_INDEX(m.xd, s[1], s[2]) \in Indices
  <2>1. 0 <= s[1] /\ s[1] <= 2 * m.xd /\ -1 <= s[2] /\ s[2] <= 2 * m.yd + 1
    BY <1>1
  <2>. QED
    BY <1>1, <2>1, IndexInArray
<1>. QED
  BY <1>1, <1>2 DEF IndexAt

LEMMA IndicesFinite == IsFiniteSet(Indices)
<1>1. 2 * MAZE_MAX_X_DIM * (2 * MAZE_MAX_Y_DIM + 3) \in Int
  BY MaxDimAssumption
<1>. QED
  BY <1>1, FS_Interval DEF Indices

LEMMA EatIs ==
  ASSUME NEW m, MazeOK(m), NEW s \in Interior(m), NEW e, e = Eat(m, s)
  PROVE  /\ MazeOK(e) /\ SameWalls(m, e) /\ e.exit = m.exit
         /\ \A i \in Indices \ {IndexAt(m, s)} : e.cell[i] = m.cell[i]
         /\ \A i \in Indices : e.cell[i].exit = m.cell[i].exit /\ e.cell[i].reach = m.cell[i].reach
         /\ e.cell[IndexAt(m, s)].fruit = 0
         /\ \/ HasFruit(m, s[1], s[2]) /\ m.n_fruits \in Nat \ {0} /\ e.n_fruits = m.n_fruits - 1
            \/ ~HasFruit(m, s[1], s[2]) /\ e = m
<1>1. PICK k : k = IndexAt(m, s)
  OBVIOUS
<1>2. Dimensions(m) /\ k \in Indices
  BY <1>1, InteriorIs DEF MazeOK
<1>3. InFruitRange(m, s[1], s[2])
  <2>1. 1 <= s[1] /\ s[1] <= 2 * m.xd - 1 /\ 1 <= s[2] /\ s[2] <= 2 * m.yd - 1 /\ s[1] \in Int /\ s[2] \in Int
    BY <1>2, InteriorIs
  <2>. QED
    BY <1>2, <2>1 DEF InFruitRange, Dimensions
<1>4. HasFruit(m, s[1], s[2]) <=> m.cell[k].fruit # 0
  BY <1>1, <1>3 DEF HasFruit, Cell, IndexAt
<1>5. CASE ~HasFruit(m, s[1], s[2])
  <2>1. e = m
    BY <1>5 DEF Eat, WithoutFruit
  <2>. QED
    BY <1>1, <1>4, <1>5, <2>1 DEF SameWalls
<1>6. CASE HasFruit(m, s[1], s[2])
  <2>1. e = [m EXCEPT !.n_fruits = @ - 1, !.cell[k].fruit = 0]
    BY <1>1, <1>6 DEF Eat, WithoutFruit, IndexAt
  <2>2. /\ DOMAIN e = DOMAIN m /\ e.xd = m.xd /\ e.yd = m.yd /\ e.exit = m.exit
        /\ e.n_fruits = m.n_fruits - 1 /\ e.cell = [m.cell EXCEPT ![k].fruit = 0]
    BY <1>2, <2>1 DEF Dimensions
  <2>3. m.cell \in [Indices -> Cells]
    BY <1>2 DEF Dimensions
  <2>4. /\ e.cell \in [Indices -> Cells]
        /\ \A i \in Indices \ {k} : e.cell[i] = m.cell[i]
        /\ e.cell[k] = [m.cell[k] EXCEPT !.fruit = 0]
    <3>1. m.cell[k] \in Cells
      BY <1>2, <2>3
    <3>2. [m.cell[k] EXCEPT !.fruit = 0] \in Cells
      BY <3>1 DEF Cells
    <3>. QED
      BY <1>2, <2>2, <2>3, <3>2
  <2>5. /\ e.cell[k].fruit = 0 /\ e.cell[k].wall = m.cell[k].wall
        /\ e.cell[k].exit = m.cell[k].exit /\ e.cell[k].reach = m.cell[k].reach
    <3>1. m.cell[k] \in Cells
      BY <1>2, <2>3
    <3>. QED
      BY <2>4, <3>1 DEF Cells
  <2>6. \A i \in Indices : /\ e.cell[i].wall = m.cell[i].wall /\ e.cell[i].exit = m.cell[i].exit
                           /\ e.cell[i].reach = m.cell[i].reach
    BY <2>4, <2>5
  <2>7. Dimensions(e) /\ SameWalls(m, e)
    BY <1>2, <2>2, <2>4, <2>6 DEF Dimensions, SameWalls
  <2>8. Fruited(e) = Fruited(m) \ {k} /\ k \in Fruited(m)
    <3>1. k \in Fruited(m)
      BY <1>2, <1>4, <1>6 DEF Fruited
    <3>2. k \notin Fruited(e)
      BY <2>5 DEF Fruited
    <3>3. \A i \in Indices \ {k} : i \in Fruited(e) <=> i \in Fruited(m)
      BY <2>4 DEF Fruited
    <3>4. Fruited(e) \subseteq Indices /\ Fruited(m) \subseteq Indices
      BY DEF Fruited
    <3>. QED
      BY <3>1, <3>2, <3>3, <3>4
  <2>9. IsFiniteSet(Fruited(m))
    BY IndicesFinite, FS_Subset DEF Fruited
  <2>10. Cardinality(Fruited(e)) = Cardinality(Fruited(m)) - 1 /\ Cardinality(Fruited(m)) \in Nat \ {0}
    <3>1. Cardinality(Fruited(m)) \in Nat /\ IsFiniteSet(Fruited(e)) /\ Cardinality(Fruited(e)) \in Nat
      BY <2>8, <2>9, FS_CardinalityType, FS_RemoveElement
    <3>2. Cardinality(Fruited(e)) = Cardinality(Fruited(m)) - 1
      BY <2>8, <2>9, FS_RemoveElement
    <3>. QED
      BY <3>1, <3>2
  <2>11. Interior(e) = Interior(m) /\ IndicesOf(e, Interior(e)) = IndicesOf(m, Interior(m)) /\ IndexAt(e, e.exit) = IndexAt(m, m.exit)
    BY <2>2 DEF Interior, IndicesOf, IndexAt
  <2>12. MazeOK(e)
    BY <2>2, <2>6, <2>7, <2>10, <2>11 DEF MazeOK
  <2>. QED
    BY <1>1, <1>6, <2>2, <2>4, <2>5, <2>6, <2>7, <2>10, <2>12 DEF MazeOK
<1>. QED
  BY <1>5, <1>6

LEMMA UnveilIs ==
  ASSUME NEW m, MazeOK(m), NEW S, NEW u, u = Unveil(m, S)
  PROVE  /\ MazeOK(u) /\ SameWalls(m, u) /\ u.exit = m.exit /\ u.n_fruits = m.n_fruits
         /\ \A i \in Indices \ IndicesOf(m, Unveiled(m, S)) : u.cell[i] = m.cell[i]
         /\ \A i \in Indices : u.cell[i].exit = m.cell[i].exit /\ u.cell[i].fruit = m.cell[i].fruit
<1>. DEFINE U == IndicesOf(m, Unveiled(m, S))
<1>1. Dimensions(m) /\ m.cell \in [Indices -> Cells]
  BY DEF MazeOK, Dimensions
<1>2. /\ DOMAIN u = DOMAIN m /\ u.xd = m.xd /\ u.yd = m.yd /\ u.exit = m.exit /\ u.n_fruits = m.n_fruits
      /\ u.cell = [i \in Indices |-> IF i \in U THEN [m.cell[i] EXCEPT !.reach = TRUE] ELSE m.cell[i]]
  BY <1>1 DEF Unveil, Dimensions
<1>. HIDE DEF U
<1>3. ASSUME NEW i \in Indices
      PROVE  /\ u.cell[i] \in Cells /\ u.cell[i].wall = m.cell[i].wall
             /\ u.cell[i].exit = m.cell[i].exit /\ u.cell[i].fruit = m.cell[i].fruit
             /\ i \notin U => u.cell[i] = m.cell[i]
  <2>1. m.cell[i] \in Cells
    BY <1>1
  <2>2. u.cell[i] = IF i \in U THEN [m.cell[i] EXCEPT !.reach = TRUE] ELSE m.cell[i]
    BY <1>2
  <2>. QED
    BY <2>1, <2>2 DEF Cells
<1>4. u.cell \in [Indices -> Cells]
  BY <1>2, <1>3
<1>5. Dimensions(u) /\ SameWalls(m, u)
  BY <1>1, <1>2, <1>3, <1>4 DEF Dimensions, SameWalls
<1>6. Fruited(u) = Fruited(m)
  BY <1>3 DEF Fruited
<1>7. Interior(u) = Interior(m) /\ IndicesOf(u, Interior(u)) = IndicesOf(m, Interior(m)) /\ IndexAt(u, u.exit) = IndexAt(m, m.exit)
  BY <1>2 DEF Interior, IndicesOf, IndexAt
<1>8. MazeOK(u)
  BY <1>2, <1>3, <1>5, <1>6, <1>7 DEF MazeOK
<1>. QED
  BY <1>2, <1>3, <1>5, <1>8 DEF U

----------------------------------------------------------------------------
(* The mist lifts, a fruit is eaten: the window goes on showing the maze. *)

LEMMA DivIs ==
  ASSUME NEW b \in Nat \ {0}, NEW a \in Int, NEW q \in Int
  PROVE  /\ a \div b \in Int
         /\ a \div b = q <=> q * b <= a /\ a < q * b + b
         /\ q * b \in Int
<1>1. /\ a \div b \in Int /\ a % b \in 0 .. b - 1 /\ a = b * (a \div b) + (a % b)
  OBVIOUS
<1>2. PICK t \in Int, r \in Int : t = a \div b /\ r = a % b
  BY <1>1
<1>3. a = b * t + r /\ 0 <= r /\ r <= b - 1
  BY <1>1, <1>2
<1>4. t * b = b * t /\ t * b \in Int /\ q * b \in Int
  OBVIOUS
<1>5. t = q => q * b <= a /\ a < q * b + b
  BY <1>3, <1>4
<1>6. ASSUME q * b <= a, a < q * b + b PROVE t = q
  <2>1. t <= q
    <3>. SUFFICES ASSUME t >= q + 1 PROVE FALSE
      OBVIOUS
    <3>1. (t - q - 1) * b >= 0 /\ (t - q - 1) * b = t * b - q * b - b
      OBVIOUS
    <3>. QED
      BY <1>3, <1>4, <1>6, <3>1
  <2>2. t >= q
    <3>. SUFFICES ASSUME q >= t + 1 PROVE FALSE
      OBVIOUS
    <3>1. (q - t - 1) * b >= 0 /\ (q - t - 1) * b = q * b - t * b - b
      OBVIOUS
    <3>. QED
      BY <1>3, <1>4, <1>6, <3>1
  <2>. QED
    BY <2>1, <2>2
<1>. QED
  BY <1>2, <1>4, <1>5, <1>6

LEMMA PointIs ==
  ASSUME NEW b \in Nat \ {0}, NEW n \in Nat, NEW a \in Int, 0 <= a, a < (2 * n + 1) * b
  PROVE  a \div b \in Int /\ 0 <= a \div b /\ a \div b <= 2 * n
<1>1. PICK q \in Int : q = a \div b
  BY DivIs
<1>2. q * b <= a /\ a < q * b + b /\ q * b \in Int
  BY <1>1, DivIs
<1>3. q >= 0
  <2>. SUFFICES ASSUME q <= -1 PROVE FALSE
    OBVIOUS
  <2>1. (-1 - q) * b >= 0 /\ (-1 - q) * b = -b - q * b
    OBVIOUS
  <2>. QED
    BY <1>2, <2>1
<1>4. q <= 2 * n
  <2>. SUFFICES ASSUME q >= 2 * n + 1 PROVE FALSE
    OBVIOUS
  <2>1. (q - (2 * n + 1)) * b >= 0 /\ (q - (2 * n + 1)) * b = q * b - (2 * n + 1) * b /\ (2 * n + 1) * b \in Int
    OBVIOUS
  <2>. QED
    BY <1>2, <2>1
<1>. QED
  BY <1>1, <1>3, <1>4

\* The lattice point a pixel belongs to.
PointOf(p) == <<p[1] \div BLOCK_X_DIM, p[2] \div BLOCK_Y_DIM>>

LEMMA BlockVisible ==
  ASSUME NEW v, IsWindow(v), NEW p \in Window(v), NEW i \in Int, NEW j \in Int
  PROVE  p \in Visible(v, i * BLOCK_X_DIM, j * BLOCK_Y_DIM, Block)
           <=> p[1] \div BLOCK_X_DIM = i /\ p[2] \div BLOCK_Y_DIM = j
<1>1. PICK a \in Int, b \in Int, bx \in Nat \ {0}, by \in Nat \ {0} :
         a = p[1] /\ b = p[2] /\ bx = BLOCK_X_DIM /\ by = BLOCK_Y_DIM
  BY WindowPixels, SizesAre
<1>2. i * bx \in Int /\ j * by \in Int
  OBVIOUS
<1>3. Block \subseteq Int \X Int
  BY <1>1 DEF Block
<1>4. p \in Visible(v, i * bx, j * by, Block) <=> <<a - i * bx, b - j * by>> \in Block
  BY <1>1, <1>2, <1>3, VisibleAt
<1>5. <<a - i * bx, b - j * by>> \in Block <=> /\ i * bx <= a /\ a < i * bx + bx
                                              /\ j * by <= b /\ b < j * by + by
  <2>1. PICK c \in Int, d \in Int : c = i * bx /\ d = j * by
    BY <1>2
  <2>2. <<a - c, b - d>> \in Block <=> c <= a /\ a < c + bx /\ d <= b /\ b < d + by
    BY <1>1 DEF Block
  <2>. QED
    BY <2>1, <2>2
<1>6. a \div bx = i <=> i * bx <= a /\ a < i * bx + bx
  BY DivIs
<1>7. b \div by = j <=> j * by <= b /\ b < j * by + by
  BY DivIs
<1>. QED
  BY <1>1, <1>4, <1>5, <1>6, <1>7

\* The left boundary is not in the window when the mist lifts from the right
\* one, nor the right one when it lifts from the left.
LEMMA NotBoth ==
  ASSUME BoundariesApart, NEW at \in Views, NEW xd \in Nat, MAZE_MIN_X_DIM <= xd, NEW yd \in Int,
         Following(at, xd, yd), NEW a \in Int, at.map_x <= a, a <= at.map_x + SCROLL_X_DIM - 1
  PROVE  /\ ~(a \div BLOCK_X_DIM = 2 * xd /\ at.x \div BLOCK_X_DIM <= 2)
         /\ ~(a \div BLOCK_X_DIM = 0 /\ at.x \div BLOCK_X_DIM >= 2 * xd - 2)
<1>1. PICK b \in Nat \ {0}, w1 \in Nat, s \in Nat, px \in Nat, x \in Int, mx \in Int, min \in Int :
        /\ b = BLOCK_X_DIM /\ w1 = SCROLL_X_DIM /\ s = SHOW_MIN /\ px = BLOCK_X_DIM * PAN_BORDER
        /\ x = at.x /\ mx = at.map_x /\ min = MAZE_MIN_X_DIM
        /\ BLOCK_X_DIM * (PAN_BORDER + 1) = px + b
  <2>1. MAZE_MIN_X_DIM \in Int
    <3>1. 2 * BLOCK_X_DIM \in Nat \ {0} /\ SCROLL_X_DIM + (BLOCK_X_DIM - 1) + 2 * SHOW_MIN \in Int
      BY SizesAre
    <3>. QED
      BY <3>1, DivIs DEF MAZE_MIN_X_DIM
  <2>. QED
    BY <2>1, SizesAre DEF Views
<1>2. PICK c \in Int, i \in Int : c = a \div b /\ i = x \div b
  BY <1>1, DivIs
<1>3. PICK n \in Int : n = 2 * xd * b /\ n >= w1 + s
  <2>1. (xd - min) * b >= 0 /\ (xd - min) * b = xd * b - min * b /\ xd * b \in Int /\ min * b \in Int
    BY <1>1
  <2>2. 2 * min * b = 2 * (min * b) /\ 2 * xd * b = 2 * (xd * b)
    OBVIOUS
  <2>3. w1 + s <= 2 * min * b
    BY <1>1 DEF BoundariesApart
  <2>. QED
    BY <2>1, <2>2, <2>3
<1>4. px >= 3 * b
  <2>1. PAN_BORDER \in Nat /\ PAN_BORDER >= 3
    BY SizesAre DEF BoundariesApart
  <2>2. b * (PAN_BORDER - 3) >= 0 /\ b * (PAN_BORDER - 3) = b * PAN_BORDER - 3 * b
    BY <2>1
  <2>. QED
    BY <1>1, <2>1, <2>2
<1>5. /\ mx >= s
      /\ x >= mx + px \/ mx <= s
      /\ x <= mx + w1 - (px + b) \/ mx + w1 >= n + b - s
  <2>1. Right(xd) = n + b
    BY <1>1, <1>3 DEF Right
  <2>. QED
    BY <1>1, <2>1 DEF Following
<1>6. mx <= a /\ a <= mx + w1 - 1
  BY <1>1
<1>7. i * b <= x /\ x < i * b + b /\ c * b <= a /\ a < c * b + b /\ i * b \in Int /\ c * b \in Int
  <2>1. i * b <= x /\ x < i * b + b /\ i * b \in Int
    BY <1>2, DivIs
  <2>2. c * b <= a /\ a < c * b + b /\ c * b \in Int
    BY <1>2, DivIs
  <2>. QED
    BY <2>1, <2>2
<1>8. ~(c = 2 * xd /\ i <= 2)
  <2>. SUFFICES ASSUME c = 2 * xd, i <= 2 PROVE FALSE
    OBVIOUS
  <2>1. c * b = n
    BY <1>3
  <2>2. i * b <= 2 * b
    <3>1. (2 - i) * b >= 0 /\ (2 - i) * b = 2 * b - i * b
      OBVIOUS
    <3>. QED
      BY <1>7, <3>1
  <2>3. mx >= s + 1
    BY <1>3, <1>6, <1>7, <2>1
  <2>4. x >= mx + px
    BY <1>5, <2>3
  <2>. QED
    BY <1>4, <1>7, <2>2, <2>3, <2>4
<1>9. ~(c = 0 /\ i >= 2 * xd - 2)
  <2>. SUFFICES ASSUME c = 0, i >= 2 * xd - 2 PROVE FALSE
    OBVIOUS
  <2>1. mx <= b - 1
    <3>1. c * b = 0
      OBVIOUS
    <3>. QED
      BY <1>6, <1>7, <3>1
  <2>2. x >= n - 2 * b
    <3>1. (i - (2 * xd - 2)) * b >= 0 /\ (i - (2 * xd - 2)) * b = i * b - (2 * xd * b) + 2 * b
      OBVIOUS
    <3>. QED
      BY <1>3, <1>7, <3>1
  <2>. QED
    BY <1>3, <1>4, <1>5, <2>1, <2>2
<1>. QED
  BY <1>1, <1>2, <1>8, <1>9

LEMMA MazePixel ==
  ASSUME NEW v \in Views, NEW m, Dimensions(m), Following(v, m.xd, m.yd),
         NEW win, IsWindow(win), win.x = v.map_x, win.y = v.map_y, NEW p \in Window(win)
  PROVE  /\ p[1] \in Int /\ v.map_x <= p[1] /\ p[1] <= v.map_x + SCROLL_X_DIM - 1
         /\ PointOf(p)[1] \in Int /\ 0 <= PointOf(p)[1] /\ PointOf(p)[1] <= 2 * m.xd
         /\ PointOf(p)[2] \in Int /\ 0 <= PointOf(p)[2] /\ PointOf(p)[2] <= 2 * m.yd
<1>1. PICK a \in Int, b \in Int : a = p[1] /\ b = p[2]
  BY WindowPixels
<1>2. /\ v.map_x \in Int /\ v.map_y \in Int
      /\ v.map_x <= a /\ a <= v.map_x + SCROLL_X_DIM - 1
      /\ v.map_y <= b /\ b <= v.map_y + SCROLL_Y_DIM - 1
  BY <1>1, WindowPixels DEF Views
<1>3. PICK n \in Nat, q \in Nat, l \in Int, t \in Int :
        n = m.xd /\ q = m.yd /\ l = Right(n) /\ t = Bottom(q)
  <2>1. m.xd \in Nat /\ m.yd \in Nat
    BY DEF Dimensions
  <2>. QED
    BY <2>1, SizesAre DEF Right, Bottom
<1>4. 0 <= a /\ a < l /\ 0 <= b /\ b < t
  <2>1. /\ v.map_x >= SHOW_MIN /\ v.map_x + SCROLL_X_DIM <= l - SHOW_MIN
        /\ v.map_y >= SHOW_MIN /\ v.map_y + SCROLL_Y_DIM <= t - SHOW_MIN
    BY <1>3 DEF Following
  <2>. QED
    BY <1>2, <2>1, SizesAre
<1>5. a \div BLOCK_X_DIM \in Int /\ 0 <= a \div BLOCK_X_DIM /\ a \div BLOCK_X_DIM <= 2 * n
  <2>1. a < (2 * n + 1) * BLOCK_X_DIM
    BY <1>3, <1>4 DEF Right
  <2>. QED
    BY <1>4, <2>1, PointIs, SizesAre
<1>6. b \div BLOCK_Y_DIM \in Int /\ 0 <= b \div BLOCK_Y_DIM /\ b \div BLOCK_Y_DIM <= 2 * q
  <2>1. b < (2 * q + 1) * BLOCK_Y_DIM
    BY <1>3, <1>4 DEF Bottom
  <2>. QED
    BY <1>4, <2>1, PointIs, SizesAre
<1>. QED
  BY <1>1, <1>2, <1>3, <1>5, <1>6 DEF PointOf

LEMMA PixelIs ==
  ASSUME NEW m, NEW n, NEW p, FindBlock(n, PointOf(p)[1], PointOf(p)[2]) = FindBlock(m, PointOf(p)[1], PointOf(p)[2])
  PROVE  PixelAt(n, p[1], p[2]) = PixelAt(m, p[1], p[2])
BY DEF PixelAt, PointOf

\* Only the space of an eaten fruit, and with the last one the exit, look different.
LEMMA EatShows ==
  ASSUME NEW m, MazeOK(m), NEW s \in Interior(m), NEW e, e = Eat(m, s),
         NEW x \in Int, NEW y \in Int, 0 <= x, x <= 2 * m.xd, 0 <= y, y <= 2 * m.yd,
         <<x, y>> \notin Redrawn(m, s)
  PROVE  FindBlock(e, x, y) = FindBlock(m, x, y)
<1>1. CASE ~HasFruit(m, s[1], s[2])
  BY <1>1, EatIs
<1>2. CASE HasFruit(m, s[1], s[2])
  <2>1. /\ MazeOK(e) /\ SameWalls(m, e) /\ m.n_fruits \in Nat \ {0} /\ e.n_fruits = m.n_fruits - 1
        /\ \A i \in Indices \ {IndexAt(m, s)} : e.cell[i] = m.cell[i]
    BY <1>2, EatIs
  <2>2. Dimensions(m) /\ Dimensions(e)
    BY <2>1 DEF MazeOK
  <2>3. m.xd \in Nat \ {0}
    BY <2>2 DEF Dimensions
  <2>4. ASSUME NEW t \in Interior(m), MAZE_INDEX(m.xd, x, y) = IndexAt(m, t)
        PROVE  <<x, y>> = t
    <3>1. /\ t = <<t[1], t[2]>> /\ t[1] \in Int /\ t[2] \in Int
          /\ 1 <= t[1] /\ t[1] <= 2 * m.xd - 1
      BY <2>2, InteriorIs
    <3>2. MAZE_INDEX(m.xd, x, y) = MAZE_INDEX(m.xd, t[1], t[2])
      BY <2>4 DEF IndexAt
    <3>3. 0 <= t[1] /\ t[1] <= 2 * m.xd
      BY <2>3, <3>1
    <3>4. \/ x = t[1] /\ y = t[2]
          \/ x = 0 /\ t[1] = 2 * m.xd
          \/ t[1] = 0 /\ x = 2 * m.xd
      BY <2>3, <3>1, <3>2, <3>3, OneIndex
    <3>5. x = t[1] /\ y = t[2]
      BY <2>3, <3>1, <3>4
    <3>. QED
      BY <3>1, <3>5
  <2>5. MAZE_INDEX(m.xd, x, y) \in Indices
    <3>1. m.yd \in Nat
      BY <2>2 DEF Dimensions
    <3>2. -1 <= y /\ y <= 2 * m.yd + 1
      BY <3>1
    <3>. QED
      BY <2>2, <3>2, IndexInArray
  <2>6. s \in Redrawn(m, s) /\ (e.n_fruits = 0 => m.exit \in Redrawn(m, s))
    BY <1>2 DEF Redrawn
  <2>7. e.cell[MAZE_INDEX(m.xd, x, y)] = m.cell[MAZE_INDEX(m.xd, x, y)]
    BY <2>1, <2>4, <2>5, <2>6
  <2>8. \/ e.n_fruits = 0 <=> m.n_fruits = 0
        \/ ~m.cell[MAZE_INDEX(m.xd, x, y)].exit
    <3>1. CASE e.n_fruits = 0
      <4>1. m.exit \in Interior(m) /\ <<x, y>> # m.exit
        BY <2>6, <3>1 DEF MazeOK
      <4>2. MAZE_INDEX(m.xd, x, y) # IndexAt(m, m.exit)
        BY <2>4, <4>1
      <4>3. ~m.cell[MAZE_INDEX(m.xd, x, y)].exit
        BY <2>5, <4>2 DEF MazeOK
      <4>. QED
        BY <4>3
    <3>2. CASE e.n_fruits # 0
      BY <2>1, <3>2
    <3>. QED
      BY <3>1, <3>2
  <2>. QED
    BY <2>1, <2>2, <2>7, <2>8, SameBlock
<1>. QED
  BY <1>1, <1>2

LEMMA AroundIs ==
  ASSUME NEW m, Dimensions(m), NEW s \in Interior(m), NEW t \in SpacesAround(s)
  PROVE  /\ t = <<t[1], t[2]>> /\ t[1] \in Int /\ t[2] \in Int
         /\ s[1] - 2 <= t[1] /\ t[1] <= s[1] + 2
<1>1. s[1] \in Int /\ s[2] \in Int
  BY InteriorIs
<1>2. PICK i \in -2 .. 2, j \in -2 .. 2 : t = <<s[1] + i, s[2] + j>>
  <2>1. CASE t \in {<<s[1] + i, s[2] + j>> : i, j \in -1 .. 1}
    <3>1. PICK i, j \in -1 .. 1 : t = <<s[1] + i, s[2] + j>>
      BY <2>1
    <3>. QED
      BY <3>1
  <2>2. CASE t \in {<<s[1], s[2] - 2>>, <<s[1] + 2, s[2]>>, <<s[1], s[2] + 2>>, <<s[1] - 2, s[2]>>}
    <3>1. s[1] = s[1] + 0 /\ s[2] = s[2] + 0 /\ s[2] - 2 = s[2] + (-2) /\ s[1] - 2 = s[1] + (-2)
      BY <1>1
    <3>. QED
      BY <2>2, <3>1
  <2>. QED
    BY <2>1, <2>2 DEF SpacesAround
<1>. QED
  BY <1>1, <1>2

LEMMA AroundShows ==
  ASSUME BoundariesApart, NEW m, MazeOK(m), NEW v, Held(v), NEW at \in Views,
         Following(at, m.xd, m.yd), v.x = at.map_x, v.y = at.map_y,
         NEW s, s = Square(at), s \in Interior(m), Shows(m, v), NEW r, r = WindowAround(m, v, s)
  PROVE  Shows(MazeAround(m, s), r)
<1>. DEFINE e == Eat(m, s)
            u == MazeAround(m, s)
            S == SpacesAround(s)
            a == Redraw(e, v, Redrawn(m, s))
            V(t) == Visible(v, t[1] * BLOCK_X_DIM, t[2] * BLOCK_Y_DIM, Block)
<1>1. MazeOK(e) /\ SameWalls(m, e) /\ e.exit = m.exit
  BY EatIs
<1>2. /\ MazeOK(u) /\ SameWalls(e, u) /\ u.n_fruits = e.n_fruits
      /\ \A i \in Indices \ IndicesOf(e, Unveiled(e, S)) : u.cell[i] = e.cell[i]
  <2>1. u = Unveil(e, S)
    BY DEF MazeAround
  <2>. HIDE DEF e, u
  <2>. QED
    BY <1>1, <2>1, UnveilIs
<1>3. Dimensions(m) /\ Dimensions(e) /\ Dimensions(u) /\ e.xd = m.xd /\ e.yd = m.yd
  BY <1>1, <1>2 DEF MazeOK, SameWalls
<1>4. /\ Drawn(v, a)
      /\ \A p \in Window(v) :
           At(a, p) = IF \E t \in Redrawn(m, s) : p \in V(t) THEN PixelAt(e, p[1], p[2]) ELSE At(v, p)
  BY RedrawDraws
<1>5. Held(a) /\ Window(a) = Window(v) /\ a.x = v.x /\ a.y = v.y
  BY <1>4 DEF Drawn
<1>6. r = Redraw(u, a, Unveiled(e, S))
  BY DEF WindowAround
<1>. HIDE DEF a, e, u
<1>7. /\ Drawn(a, r)
      /\ \A p \in Window(a) :
           At(r, p) = IF \E t \in Unveiled(e, S) : p \in Visible(a, t[1] * BLOCK_X_DIM, t[2] * BLOCK_Y_DIM, Block)
                      THEN PixelAt(u, p[1], p[2]) ELSE At(a, p)
  <2>1. PICK a2, u2, U : a2 = a /\ u2 = u /\ U = Unveiled(e, S)
    OBVIOUS
  <2>2. Held(a2) /\ r = Redraw(u2, a2, U)
    BY <1>5, <1>6, <2>1
  <2>3. /\ Drawn(a2, r)
        /\ \A p \in Window(a2) :
             At(r, p) = IF \E t \in U : p \in Visible(a2, t[1] * BLOCK_X_DIM, t[2] * BLOCK_Y_DIM, Block)
                        THEN PixelAt(u2, p[1], p[2]) ELSE At(a2, p)
    BY <2>2, RedrawDraws
  <2>. QED
    BY <2>1, <2>3
<1>8. Window(r) = Window(v) /\ IsWindow(v) /\ IsWindow(a)
  BY <1>5, <1>7 DEF Drawn, Held
<1>9. SUFFICES ASSUME NEW p \in Window(v) PROVE At(r, p) = PixelAt(u, p[1], p[2])
  BY <1>8 DEF Shows, u
<1>. DEFINE x == PointOf(p)[1]
            y == PointOf(p)[2]
<1>10. /\ p[1] \in Int /\ at.map_x <= p[1] /\ p[1] <= at.map_x + SCROLL_X_DIM - 1
       /\ x \in Int /\ 0 <= x /\ x <= 2 * m.xd /\ y \in Int /\ 0 <= y /\ y <= 2 * m.yd
       /\ x = p[1] \div BLOCK_X_DIM /\ y = p[2] \div BLOCK_Y_DIM
  <2>1. x = p[1] \div BLOCK_X_DIM /\ y = p[2] \div BLOCK_Y_DIM
    BY DEF PointOf
  <2>. QED
    BY <1>3, <1>8, <2>1, MazePixel
<1>11. s[1] = at.x \div BLOCK_X_DIM /\ s[1] \in Int
  BY <1>3, InteriorIs DEF Square
<1>. HIDE DEF x, y
<1>12. At(a, p) = PixelAt(e, p[1], p[2])
  <2>1. CASE \E t \in Redrawn(m, s) : p \in V(t)
    BY <1>4, <2>1
  <2>2. CASE ~\E t \in Redrawn(m, s) : p \in V(t)
    <3>1. <<x, y>> \notin Redrawn(m, s)
      <4>1. p \in Visible(v, x * BLOCK_X_DIM, y * BLOCK_Y_DIM, Block)
        BY <1>8, <1>10, BlockVisible
      <4>2. p \in V(<<x, y>>)
        BY <4>1
      <4>. QED
        BY <2>2, <4>2
    <3>2. FindBlock(e, x, y) = FindBlock(m, x, y)
      BY <1>10, <3>1, EatShows DEF e
    <3>3. PixelAt(e, p[1], p[2]) = PixelAt(m, p[1], p[2])
      BY <3>2, PixelIs DEF x, y
    <3>4. At(v, p) = PixelAt(m, p[1], p[2])
      BY DEF Shows
    <3>. QED
      BY <1>4, <2>2, <3>3, <3>4
  <2>. QED
    BY <2>1, <2>2
<1>13. CASE \E t \in Unveiled(e, S) : p \in Visible(a, t[1] * BLOCK_X_DIM, t[2] * BLOCK_Y_DIM, Block)
  BY <1>5, <1>7, <1>13
<1>14. CASE ~\E t \in Unveiled(e, S) : p \in Visible(a, t[1] * BLOCK_X_DIM, t[2] * BLOCK_Y_DIM, Block)
  <2>1. MAZE_INDEX(m.xd, x, y) \in Indices
    <3>1. m.yd \in Nat
      BY <1>3 DEF Dimensions
    <3>2. -1 <= y /\ y <= 2 * m.yd + 1
      BY <1>10, <3>1
    <3>. QED
      BY <1>3, <1>10, <3>2, IndexInArray
  <2>2. MAZE_INDEX(m.xd, x, y) \notin IndicesOf(e, Unveiled(e, S))
    <3>. SUFFICES ASSUME NEW t \in Unveiled(e, S), MAZE_INDEX(m.xd, x, y) = MAZE_INDEX(m.xd, t[1], t[2])
                  PROVE  FALSE
      BY <1>3 DEF IndicesOf
    <3>1. t \in SpacesAround(s) /\ OnMaze(e, t[1], t[2])
      BY DEF Unveiled
    <3>2. /\ t = <<t[1], t[2]>> /\ t[1] \in Int /\ t[2] \in Int
          /\ s[1] - 2 <= t[1] /\ t[1] <= s[1] + 2
      BY <1>3, <3>1, AroundIs
    <3>3. 0 <= t[1] /\ t[1] <= 2 * m.xd /\ m.xd \in Nat \ {0}
      BY <1>3, <3>1 DEF OnMaze, Dimensions
    <3>4. \/ x = t[1] /\ y = t[2]
          \/ x = 0 /\ t[1] = 2 * m.xd
          \/ t[1] = 0 /\ x = 2 * m.xd
      BY <1>10, <3>2, <3>3, OneIndex
    <3>5. CASE x = t[1] /\ y = t[2]
      <4>1. p \in Visible(a, t[1] * BLOCK_X_DIM, t[2] * BLOCK_Y_DIM, Block)
        BY <1>5, <1>8, <1>10, <3>2, <3>5, BlockVisible
      <4>. QED
        BY <1>14, <4>1
    <3>6. CASE ~(x = t[1] /\ y = t[2])
      <4>1. /\ ~(x = 2 * m.xd /\ s[1] <= 2)
            /\ ~(x = 0 /\ s[1] >= 2 * m.xd - 2)
        <5>1. m.xd \in Nat /\ MAZE_MIN_X_DIM <= m.xd /\ m.yd \in Int
          BY <1>3 DEF Dimensions
        <5>. QED
          BY <1>10, <1>11, <5>1, NotBoth
      <4>. QED
        BY <1>11, <3>2, <3>3, <3>4, <3>6, <4>1
    <3>. QED
      BY <3>5, <3>6
  <2>3. u.cell[MAZE_INDEX(e.xd, x, y)] = e.cell[MAZE_INDEX(e.xd, x, y)]
    BY <1>2, <1>3, <2>1, <2>2
  <2>4. FindBlock(u, x, y) = FindBlock(e, x, y)
    <3>1. 0 <= x /\ x <= 2 * e.xd /\ 0 <= y /\ y <= 2 * e.yd /\ x \in Int /\ y \in Int
      BY <1>3, <1>10
    <3>. QED
      BY <1>2, <1>3, <2>3, <3>1, SameBlock
  <2>5. PixelAt(u, p[1], p[2]) = PixelAt(e, p[1], p[2])
    BY <2>4, PixelIs DEF x, y
  <2>. QED
    BY <1>5, <1>7, <1>12, <1>14, <2>5
<1>. QED
  BY <1>13, <1>14

\* The spaces a set of lattice points has are as many as the points.
LEMMA AsManyIndices ==
  ASSUME NEW m, Dimensions(m), NEW S, S \subseteq Interior(m)
  PROVE  /\ IndicesOf(m, S) \subseteq Indices
         /\ Cardinality(IndicesOf(m, S)) = Cardinality(S)
<1>. DEFINE f == [s \in S |-> IndexAt(m, s)]
            T == IndicesOf(m, S)
<1>1. ASSUME NEW s \in S PROVE IndexAt(m, s) \in T /\ IndexAt(m, s) \in Indices
  BY InteriorIs DEF IndicesOf, IndexAt
<1>2. ASSUME NEW i \in T PROVE \E s \in S : IndexAt(m, s) = i
  BY DEF IndicesOf, IndexAt
<1>3. T \subseteq Indices
  BY <1>1, <1>2
<1>4. ASSUME NEW s \in S, NEW t \in S, IndexAt(m, s) = IndexAt(m, t) PROVE s = t
  <2>1. s \in Interior(m) /\ t \in Interior(m)
    OBVIOUS
  <2>2. /\ s = <<s[1], s[2]>> /\ s[1] \in Int /\ s[2] \in Int /\ 1 <= s[1] /\ s[1] <= 2 * m.xd - 1
    BY <2>1, InteriorIs
  <2>3. /\ t = <<t[1], t[2]>> /\ t[1] \in Int /\ t[2] \in Int /\ 1 <= t[1] /\ t[1] <= 2 * m.xd - 1
    BY <2>1, InteriorIs
  <2>4. PICK n \in Nat \ {0}, a \in Int, b \in Int, x \in Int, y \in Int :
          n = m.xd /\ a = s[1] /\ b = s[2] /\ x = t[1] /\ y = t[2]
    BY <2>2, <2>3 DEF Dimensions
  <2>5. 1 <= a /\ a <= 2 * n - 1 /\ 1 <= x /\ x <= 2 * n - 1
    BY <2>2, <2>3, <2>4
  <2>6. MAZE_INDEX(n, a, b) = MAZE_INDEX(n, x, y)
    BY <1>4, <2>4 DEF IndexAt
  <2>7. a = x /\ b = y
    <3>1. 0 <= a /\ a <= 2 * n /\ 0 <= x /\ x <= 2 * n
      BY <2>5
    <3>2. \/ a = x /\ b = y
          \/ a = 0 /\ x = 2 * n
          \/ x = 0 /\ a = 2 * n
      BY <2>6, <3>1, OneIndex
    <3>. QED
      BY <2>5, <3>2
  <2>. QED
    BY <2>2, <2>3, <2>4, <2>7
<1>. HIDE DEF T
<1>5. f \in [S -> T] /\ \A s \in S : f[s] = IndexAt(m, s)
  BY <1>1
<1>. HIDE DEF f
<1>6. f \in Injection(S, T)
  BY <1>4, <1>5 DEF Injection, IsInjective
<1>7. f \in Surjection(S, T)
  BY <1>2, <1>5 DEF Surjection
<1>8. IsFiniteSet(T)
  BY <1>3, IndicesFinite, FS_Subset
<1>9. Cardinality(S) = Cardinality(T)
  BY <1>6, <1>7, <1>8, FS_Injection
<1>. QED
  BY <1>3, <1>9 DEF T

\* The screen fits into the smallest maze, whatever the size of a block.
LEMMA MinIs ==
  ASSUME NEW b \in Nat \ {0}, NEW sc \in Nat, NEW s \in Nat, 2 * b <= s + sc
  PROVE  LET n == (sc + (b - 1) + 2 * s) \div (2 * b)
         IN  n \in Nat \ {0} /\ sc + 2 * s <= (2 * n + 1) * b
<1>1. 2 * b \in Nat \ {0} /\ sc + (b - 1) + 2 * s \in Int
  OBVIOUS
<1>2. PICK t \in Int, c \in Nat \ {0} : t = sc + (b - 1) + 2 * s /\ c = 2 * b
  BY <1>1
<1>3. PICK n \in Int : n = t \div c
  BY DivIs
<1>4. n * c <= t /\ t < n * c + c /\ n * c \in Int
  BY <1>3, DivIs
<1>5. n * (2 * b) = n * c
  BY <1>2
<1>6. (2 * n + 1) * b = n * (2 * b) + b
  OBVIOUS
<1>7. n >= 1
  <2>. SUFFICES ASSUME n <= 0 PROVE FALSE
    OBVIOUS
  <2>1. (-n) * c >= 0 /\ (-n) * c = -(n * c)
    OBVIOUS
  <2>. QED
    BY <1>2, <1>4, <2>1
<1>. QED
  BY <1>2, <1>3, <1>4, <1>5, <1>6, <1>7

LEMMA LevelIs ==
  ASSUME NEW n \in Nat \ {0}
  PROVE  /\ LevelX(n) \in Nat \ {0} /\ MAZE_MIN_X_DIM <= LevelX(n) /\ LevelX(n) <= MAZE_MAX_X_DIM
         /\ LevelY(n) \in Nat \ {0} /\ LevelY(n) <= MAZE_MAX_Y_DIM
         /\ SCROLL_X_DIM + 2 * SHOW_MIN <= Right(LevelX(n)) /\ Right(LevelX(n)) \in Int
         /\ SCROLL_Y_DIM + 2 * SHOW_MIN <= Bottom(LevelY(n)) /\ Bottom(LevelY(n)) \in Int
<1>1. /\ SCROLL_X_DIM \in Nat /\ SCROLL_Y_DIM \in Nat /\ SHOW_MIN \in Nat
      /\ BLOCK_X_DIM \in Nat \ {0} /\ BLOCK_Y_DIM \in Nat \ {0}
  BY SizesAre
<1>2. /\ 2 * BLOCK_X_DIM <= SHOW_MIN + SCROLL_X_DIM /\ 2 * BLOCK_Y_DIM <= SHOW_MIN + SCROLL_Y_DIM
      /\ MAZE_MIN_X_DIM <= MAZE_MAX_X_DIM /\ MAZE_MIN_Y_DIM <= MAZE_MAX_Y_DIM
      /\ MAZE_MAX_X_DIM \in Nat /\ MAZE_MAX_Y_DIM \in Nat
  BY ViewAssumption, MaxDimAssumption
<1>3. MAZE_MIN_X_DIM \in Nat \ {0} /\ SCROLL_X_DIM + 2 * SHOW_MIN <= (2 * MAZE_MIN_X_DIM + 1) * BLOCK_X_DIM
  BY <1>1, <1>2, MinIs DEF MAZE_MIN_X_DIM
<1>4. MAZE_MIN_Y_DIM \in Nat \ {0} /\ SCROLL_Y_DIM + 2 * SHOW_MIN <= (2 * MAZE_MIN_Y_DIM + 1) * BLOCK_Y_DIM
  BY <1>1, <1>2, MinIs DEF MAZE_MIN_Y_DIM
<1>5. ASSUME NEW a \in Nat, NEW c \in Nat, NEW b \in Nat, a <= c
      PROVE  (2 * a + 1) * b <= (2 * c + 1) * b /\ (2 * a + 1) * b \in Int /\ (2 * c + 1) * b \in Int
  <2>1. 2 * a + 1 \in Int /\ 2 * c + 1 \in Int /\ 2 * a + 1 <= 2 * c + 1
    BY <1>5
  <2>. QED
    BY <2>1, LineOrder
<1>6. LevelX(n) \in Nat \ {0} /\ MAZE_MIN_X_DIM <= LevelX(n) /\ LevelX(n) <= MAZE_MAX_X_DIM
  BY <1>2, <1>3 DEF LevelX, AtMost
<1>7. LevelY(n) \in Nat \ {0} /\ MAZE_MIN_Y_DIM <= LevelY(n) /\ LevelY(n) <= MAZE_MAX_Y_DIM
  BY <1>2, <1>4 DEF LevelY, AtMost
<1>8. /\ (2 * MAZE_MIN_X_DIM + 1) * BLOCK_X_DIM <= Right(LevelX(n))
      /\ Right(LevelX(n)) \in Int /\ (2 * MAZE_MIN_X_DIM + 1) * BLOCK_X_DIM \in Int
  BY <1>1, <1>3, <1>5, <1>6 DEF Right
<1>9. /\ (2 * MAZE_MIN_Y_DIM + 1) * BLOCK_Y_DIM <= Bottom(LevelY(n))
      /\ Bottom(LevelY(n)) \in Int /\ (2 * MAZE_MIN_Y_DIM + 1) * BLOCK_Y_DIM \in Int
  BY <1>1, <1>4, <1>5, <1>7 DEF Bottom
<1>. QED
  BY <1>1, <1>3, <1>4, <1>6, <1>7, <1>8, <1>9

LEMMA PointsInside ==
  ASSUME NEW m, m.xd \in Nat, m.yd \in Nat
  PROVE  Points(m) \subseteq Interior(m)
<1>1. ASSUME NEW n \in Nat PROVE Odd(n) \subseteq 1 .. 2 * n - 1
  BY DEF Odd
<1>. QED
  BY <1>1 DEF Points, Interior

\* All walls inside are gone, those around the maze are whole.
LEMMA ClearedIs ==
  ASSUME NEW xd \in Nat \ {0}, NEW yd \in Nat \ {0},
         MAZE_MIN_X_DIM <= xd, xd <= MAZE_MAX_X_DIM, yd <= MAZE_MAX_Y_DIM,
         NEW m, m = Cleared(Walls(xd, yd))
  PROVE  /\ Dimensions(m) /\ m.xd = xd /\ m.yd = yd /\ m.n_fruits = 0
         /\ \A i \in Indices : /\ m.cell[i].wall \/ i \in IndicesOf(m, Interior(m))
                               /\ m.cell[i].fruit = 0 /\ ~m.cell[i].exit
<1>. DEFINE b == Walls(xd, yd)
            I == IndicesOf(b, Interior(b))
            P == IndicesOf(b, Points(b))
<1>1. /\ DOMAIN b = {"cell", "xd", "yd", "n_fruits", "exit"} /\ b.xd = xd /\ b.yd = yd
      /\ b.cell = [i \in Indices |-> MAZE_WALL]
  BY DEF Walls
<1>2. /\ DOMAIN m = {"cell", "xd", "yd", "n_fruits", "exit"} /\ m.xd = xd /\ m.yd = yd /\ m.n_fruits = 0
      /\ m.cell = [i \in Indices |-> IF GOD_MODE /\ i \in I THEN MAZE_NONE
                                     ELSE IF i \in P THEN [b.cell[i] EXCEPT !.reach = FALSE]
                                     ELSE b.cell[i]]
  BY <1>1 DEF Cleared
<1>3. Interior(m) = Interior(b) /\ IndicesOf(m, Interior(m)) = I
  BY <1>1, <1>2 DEF Interior, IndicesOf
<1>. HIDE DEF I, P, b
<1>4. /\ MAZE_NONE \in Cells /\ MAZE_NONE.fruit = 0 /\ ~MAZE_NONE.exit
      /\ MAZE_WALL \in Cells /\ MAZE_WALL.wall /\ MAZE_WALL.fruit = 0 /\ ~MAZE_WALL.exit
  BY DEF MAZE_NONE, MAZE_WALL, Cells
<1>5. LET c == [MAZE_WALL EXCEPT !.reach = FALSE]
      IN  c \in Cells /\ c.wall /\ c.fruit = 0 /\ ~c.exit
  BY <1>4 DEF Cells
<1>6. ASSUME NEW i \in Indices
      PROVE  /\ m.cell[i] \in Cells /\ (m.cell[i].wall \/ i \in I)
             /\ m.cell[i].fruit = 0 /\ ~m.cell[i].exit
  <2>1. m.cell[i] = IF GOD_MODE /\ i \in I THEN MAZE_NONE
                    ELSE IF i \in P THEN [MAZE_WALL EXCEPT !.reach = FALSE] ELSE MAZE_WALL
    BY <1>1, <1>2
  <2>2. CASE GOD_MODE /\ i \in I
    BY <1>4, <2>1, <2>2
  <2>3. CASE ~(GOD_MODE /\ i \in I) /\ i \in P
    BY <1>5, <2>1, <2>3
  <2>4. CASE ~(GOD_MODE /\ i \in I) /\ i \notin P
    BY <1>4, <2>1, <2>4
  <2>. QED
    BY <2>2, <2>3, <2>4
<1>7. m.cell \in [Indices -> Cells]
  BY <1>2, <1>6
<1>8. Dimensions(m)
  BY <1>2, <1>7 DEF Dimensions
<1>. QED
  BY <1>2, <1>3, <1>6, <1>8

\* The fruits are laid and the exit is opened.
LEMMA FurnishedIs ==
  ASSUME NEW m, Dimensions(m), m.n_fruits = 0,
         \A i \in Indices : /\ m.cell[i].wall \/ i \in IndicesOf(m, Interior(m))
                            /\ m.cell[i].fruit = 0 /\ ~m.cell[i].exit,
         NEW S, S \subseteq Interior(m), NEW type \in [IndicesOf(m, S) -> FruitTypes],
         NEW p \in Interior(m), NEW f, f = WithFruits(m, S, type),
         NEW r, r = WithExit(f, p)
  PROVE  MazeOK(r) /\ r.xd = m.xd /\ r.yd = m.yd
<1>. DEFINE F == IndicesOf(m, S)
            k == IndexAt(m, p)
<1>1. m.cell \in [Indices -> Cells] /\ k \in Indices
  BY InteriorIs DEF Dimensions
<1>2. F \subseteq Indices /\ Cardinality(F) = Cardinality(S)
  BY AsManyIndices
<1>3. /\ DOMAIN f = DOMAIN m /\ f.xd = m.xd /\ f.yd = m.yd /\ f.n_fruits = Cardinality(S)
      /\ f.cell = [i \in Indices |-> IF i \in F THEN [m.cell[i] EXCEPT !.fruit = type[i]] ELSE m.cell[i]]
  BY DEF WithFruits, Dimensions
<1>4. type \in [F -> FruitTypes]
  OBVIOUS
<1>5. IndexAt(f, p) = k
  BY <1>3 DEF IndexAt
<1>. HIDE DEF F, k
<1>6. ASSUME NEW i \in Indices
      PROVE  /\ f.cell[i] \in Cells /\ f.cell[i].wall = m.cell[i].wall /\ ~f.cell[i].exit
             /\ f.cell[i].fruit # 0 <=> i \in F
  <2>1. m.cell[i] \in Cells
    BY <1>1
  <2>2. CASE i \in F
    <3>1. type[i] \in Nat \ {0}
      BY <1>4, <2>2, FruitAssumption
    <3>2. f.cell[i] = [m.cell[i] EXCEPT !.fruit = type[i]]
      BY <1>3, <2>2
    <3>. QED
      BY <2>1, <2>2, <3>1, <3>2 DEF Cells
  <2>3. CASE i \notin F
    BY <1>3, <2>1, <2>3
  <2>. QED
    BY <2>2, <2>3
<1>7. f.cell \in [Indices -> Cells]
  BY <1>3, <1>6
<1>8. /\ DOMAIN r = DOMAIN m /\ r.xd = m.xd /\ r.yd = m.yd /\ r.n_fruits = Cardinality(S) /\ r.exit = p
      /\ r.cell = [f.cell EXCEPT ![k].exit = TRUE]
  BY <1>3, <1>5 DEF WithExit, IndexAt, Dimensions
<1>9. ASSUME NEW i \in Indices
      PROVE  /\ r.cell[i] \in Cells /\ r.cell[i].wall = m.cell[i].wall
             /\ r.cell[i].exit => i = k
             /\ r.cell[i].fruit # 0 <=> i \in F
  <2>1. f.cell[i] \in Cells
    BY <1>6
  <2>2. CASE i = k
    <3>1. r.cell[k] = [f.cell[k] EXCEPT !.exit = TRUE]
      <4>1. k \in DOMAIN f.cell /\ r.cell = [f.cell EXCEPT ![k].exit = TRUE]
        BY <1>1, <1>7, <1>8
      <4>. QED
        BY <4>1
    <3>. QED
      BY <1>6, <2>1, <2>2, <3>1 DEF Cells
  <2>3. CASE i # k
    <3>1. r.cell[i] = f.cell[i]
      BY <1>1, <1>7, <1>8, <2>3
    <3>. QED
      BY <1>6, <3>1
  <2>. QED
    BY <2>2, <2>3
<1>10. r.cell \in [Indices -> Cells]
  BY <1>7, <1>8, <1>9
<1>11. Dimensions(r)
  BY <1>8, <1>10 DEF Dimensions
<1>12. Fruited(r) = F
  BY <1>2, <1>9 DEF Fruited
<1>13. Interior(r) = Interior(m) /\ IndicesOf(r, Interior(r)) = IndicesOf(m, Interior(m)) /\ IndexAt(r, r.exit) = k
  <2>1. r.xd = m.xd /\ r.yd = m.yd /\ r.exit = p
    BY <1>8
  <2>2. IndexAt(r, r.exit) = k
    BY <2>1 DEF IndexAt, k
  <2>3. Interior(r) = Interior(m) /\ IndicesOf(r, Interior(r)) = IndicesOf(m, Interior(m))
    BY <2>1 DEF Interior, IndicesOf
  <2>. QED
    BY <2>2, <2>3
<1>14. r.n_fruits = Cardinality(Fruited(r))
  BY <1>2, <1>8, <1>12
<1>15. \A i \in Indices : r.cell[i].wall \/ i \in IndicesOf(r, Interior(r))
  BY <1>9, <1>13
<1>16. r.exit \in Interior(r)
  BY <1>8, <1>13
<1>. QED
  BY <1>8, <1>9, <1>11, <1>13, <1>14, <1>15, <1>16 DEF MazeOK

LEMMA MadeIs ==
  ASSUME level \in Nat \ {0}, NEW m \in MadeMazes
  PROVE  MazeOK(m) /\ m.xd = LevelX(level) /\ m.yd = LevelY(level)
<1>1. PICK b : b = Cleared(Walls(LevelX(level), LevelY(level)))
  OBVIOUS
<1>2. /\ Dimensions(b) /\ b.xd = LevelX(level) /\ b.yd = LevelY(level) /\ b.n_fruits = 0
      /\ \A i \in Indices : /\ b.cell[i].wall \/ i \in IndicesOf(b, Interior(b))
                            /\ b.cell[i].fruit = 0 /\ ~b.cell[i].exit
  <2>1. PICK n \in Nat \ {0} : n = level
    OBVIOUS
  <2>2. PICK xd \in Nat \ {0}, yd \in Nat \ {0} : /\ xd = LevelX(n) /\ yd = LevelY(n)
                 /\ MAZE_MIN_X_DIM <= xd /\ xd <= MAZE_MAX_X_DIM /\ yd <= MAZE_MAX_Y_DIM
    BY LevelIs
  <2>3. b = Cleared(Walls(xd, yd))
    BY <1>1, <2>1, <2>2
  <2>. QED
    BY <2>1, <2>2, <2>3, ClearedIs
<1>3. PICK S \in SUBSET Unfruited(b) :
        m \in {WithExit(WithFruits(b, S, type), p) :
                 type \in [IndicesOf(b, S) -> FruitTypes], p \in Unfruited(b) \ S}
  BY <1>1 DEF MadeMazes
<1>4. Unfruited(b) \subseteq Interior(b)
  <2>1. b.xd \in Nat /\ b.yd \in Nat
    BY <1>2 DEF Dimensions
  <2>. QED
    BY <2>1, PointsInside DEF Unfruited
<1>5. PICK type \in [IndicesOf(b, S) -> FruitTypes], p \in Unfruited(b) \ S :
        m = WithExit(WithFruits(b, S, type), p)
  BY <1>3
<1>6. PICK f : f = WithFruits(b, S, type) /\ m = WithExit(f, p) /\ S \subseteq Interior(b) /\ p \in Interior(b)
  BY <1>4, <1>5
<1>7. MazeOK(m) /\ m.xd = b.xd /\ m.yd = b.yd
  BY <1>2, <1>6, FurnishedIs
<1>. QED
  BY <1>2, <1>7

----------------------------------------------------------------------------
(* The window follows the player. *)

LEMMA StartFollows ==
  ASSUME BoundariesApart, NEW n \in Nat \ {0}
  PROVE  StartView \in Views /\ Following(StartView, LevelX(n), LevelY(n))
<1>1. SHOW_MIN \in Int /\ SCROLL_X_DIM \in Int /\ SCROLL_Y_DIM \in Int /\ BLOCK_X_DIM \in Int /\ BLOCK_Y_DIM \in Int
  BY SizesAre
<1>2. /\ SCROLL_X_DIM + 2 * SHOW_MIN <= Right(LevelX(n)) /\ Right(LevelX(n)) \in Int
      /\ SCROLL_Y_DIM + 2 * SHOW_MIN <= Bottom(LevelY(n)) /\ Bottom(LevelY(n)) \in Int
  BY LevelIs
<1>3. StartView.map_x = SHOW_MIN /\ StartView.map_y = SHOW_MIN /\ StartView.x = BLOCK_X_DIM /\ StartView \in Views
  BY <1>1 DEF StartView, Views
<1>4. /\ SHOW_MIN >= SHOW_MIN /\ SHOW_MIN <= SHOW_MIN
      /\ SHOW_MIN + SCROLL_X_DIM <= Right(LevelX(n)) - SHOW_MIN
      /\ SHOW_MIN + SCROLL_Y_DIM <= Bottom(LevelY(n)) - SHOW_MIN
  BY <1>1, <1>2
<1>5. BLOCK_X_DIM <= SHOW_MIN + SCROLL_X_DIM - BLOCK_X_DIM * (PAN_BORDER + 1)
  <2>1. PICK b \in Nat, px \in Nat, k \in Nat :
          /\ b = BLOCK_X_DIM /\ k = PAN_BORDER /\ px = b * k /\ k >= 3
          /\ BLOCK_X_DIM * (PAN_BORDER + 1) = px + b /\ 2 * px + b <= SCROLL_X_DIM /\ SHOW_MIN \in Nat
    BY SizesAre DEF BoundariesApart
  <2>2. px >= b
    <3>1. b * (k - 1) >= 0 /\ b * (k - 1) = b * k - b
      BY <2>1
    <3>. QED
      BY <2>1, <3>1
  <2>. QED
    BY <1>1, <2>1, <2>2
<1>. QED
  BY <1>3, <1>4, <1>5 DEF Following

LEMMA LineShows ==
  ASSUME NEW m, NEW v, Held(v), Shows(m, v), NEW at \in Views, v.x = at.map_x, v.y = at.map_y,
         NEW d \in Dirs, NEW xd, NEW yd, NEW to, to = Moved(at, d, xd, yd),
         to.map_x # at.map_x \/ to.map_y # at.map_y,
         NEW r, r = FollowLine(m, v, to, d)
  PROVE  Held(r) /\ r.x = to.map_x /\ r.y = to.map_y /\ Shows(m, r)
<1>1. to \in Views
  BY MovedView
<1>2. PICK mx \in Int, my \in Int, nx \in Int, ny \in Int :
        mx = at.map_x /\ my = at.map_y /\ nx = to.map_x /\ ny = to.map_y
  BY <1>1 DEF Views
<1>3. /\ Held(r) /\ r.x = nx /\ r.y = ny
      /\ \A p \in Window(r) :
           At(r, p) = IF OnLine(r, d, p) THEN PixelAt(m, p[1], p[2])
                      ELSE At(SetViewWindow(v, nx, ny), p)
  BY <1>2, LineDrawn
<1>4. PICK now : now = SetViewWindow(v, nx, ny)
  OBVIOUS
<1>5. /\ Held(now) /\ now.x = nx /\ now.y = ny
      /\ \A p \in Window(v) \cap Window(now) : At(now, p) = At(v, p)
  BY <1>4, SetView
<1>6. Window(now) = Window(r)
  BY <1>3, <1>5 DEF Window
<1>7. ASSUME NEW p \in Window(r), ~OnLine(r, d, p) PROVE p \in Window(v)
  <2>1. PICK a \in Int, b \in Int : p = <<a, b>> /\ a = p[1] /\ b = p[2]
    BY <1>3, WindowPixels DEF Held
  <2>2. nx <= a /\ a <= nx + SCROLL_X_DIM - 1 /\ ny <= b /\ b <= ny + SCROLL_Y_DIM - 1
    BY <1>3, <2>1, WindowPixels DEF Held
  <2>3. SUFFICES mx <= a /\ a <= mx + SCROLL_X_DIM - 1 /\ my <= b /\ b <= my + SCROLL_Y_DIM - 1
    BY <1>2, <2>1, SizesAre DEF Window, Rectangle
  <2>4. CASE d = DIR_UP
    <3>1. nx = mx /\ ny = my - 1 /\ b # ny
      BY <1>2, <1>3, <1>7, <2>1, <2>4, MovedFields DEF OnLine
    <3>. QED
      BY <2>2, <3>1, SizesAre
  <2>5. CASE d = DIR_RIGHT
    <3>1. ny = my /\ nx = mx + 1 /\ a # nx + SCROLL_X_DIM - 1
      BY <1>2, <1>3, <1>7, <2>1, <2>5, MovedFields DEF OnLine
    <3>. QED
      BY <2>2, <3>1, SizesAre
  <2>6. CASE d = DIR_DOWN
    <3>1. nx = mx /\ ny = my + 1 /\ b # ny + SCROLL_Y_DIM - 1
      BY <1>2, <1>3, <1>7, <2>1, <2>6, MovedFields DEF OnLine
    <3>. QED
      BY <2>2, <3>1, SizesAre
  <2>7. CASE d = DIR_LEFT
    <3>1. ny = my /\ nx = mx - 1 /\ a # nx
      BY <1>2, <1>3, <1>7, <2>1, <2>7, MovedFields DEF OnLine
    <3>. QED
      BY <2>2, <3>1, SizesAre
  <2>. QED
    BY <2>4, <2>5, <2>6, <2>7, DirIs
<1>8. ASSUME NEW p \in Window(r) PROVE At(r, p) = PixelAt(m, p[1], p[2])
  <2>1. CASE OnLine(r, d, p)
    BY <1>3, <2>1
  <2>2. CASE ~OnLine(r, d, p)
    <3>1. p \in Window(v) \cap Window(now)
      BY <1>6, <1>7, <2>2
    <3>2. At(now, p) = At(v, p)
      BY <1>5, <3>1
    <3>3. At(v, p) = PixelAt(m, p[1], p[2])
      BY <3>1 DEF Shows
    <3>. QED
      BY <1>3, <1>4, <2>2, <3>2, <3>3
  <2>. QED
    BY <2>1, <2>2
<1>. QED
  BY <1>2, <1>3, <1>8 DEF Shows

----------------------------------------------------------------------------
(* The player goes from square to square. *)

CornerX(s) == s[1] * BLOCK_X_DIM
CornerY(s) == s[2] * BLOCK_Y_DIM

\* cnt pixels before the corner of a square, for a player who moves in d
Before(s, d, cnt) ==
    CASE d = DIR_UP -> <<CornerX(s), CornerY(s) + cnt>>
      [] d = DIR_RIGHT -> <<CornerX(s) - cnt, CornerY(s)>>
      [] d = DIR_DOWN -> <<CornerX(s), CornerY(s) - cnt>>
      [] OTHER -> <<CornerX(s) + cnt, CornerY(s)>>

IsAt(v, p) == v.x = p[1] /\ v.y = p[2]

\* Before the square s with another one behind
Between(m, v, d, cnt, s) ==
    /\ s \in Interior(m) /\ IsAt(v, Before(s, d, cnt))
    /\ d \in Dirs /\ Ahead(s, Reverse(d)) \in Interior(m)

OnTrack(m, v, d, cnt) ==
    \E s \in Interior(m) :
        \/ cnt = 0 /\ IsAt(v, <<CornerX(s), CornerY(s)>>)
        \/ cnt \in 1 .. BlockLength(d) - 1 /\ Between(m, v, d, cnt, s)

LEMMA BeforeIs ==
  ASSUME NEW s, NEW cnt
  PROVE  /\ Before(s, DIR_UP, cnt) = <<CornerX(s), CornerY(s) + cnt>>
         /\ Before(s, DIR_RIGHT, cnt) = <<CornerX(s) - cnt, CornerY(s)>>
         /\ Before(s, DIR_DOWN, cnt) = <<CornerX(s), CornerY(s) - cnt>>
         /\ Before(s, DIR_LEFT, cnt) = <<CornerX(s) + cnt, CornerY(s)>>
BY DEF Before, DIR_UP, DIR_RIGHT, DIR_DOWN, DIR_LEFT

LEMMA AheadIs ==
  ASSUME NEW s, NEW t
  PROVE  /\ t = Ahead(s, DIR_UP) <=> t = <<s[1], s[2] - 1>>
         /\ t = Ahead(s, DIR_RIGHT) <=> t = <<s[1] + 1, s[2]>>
         /\ t = Ahead(s, DIR_DOWN) <=> t = <<s[1], s[2] + 1>>
         /\ t = Ahead(s, DIR_LEFT) <=> t = <<s[1] - 1, s[2]>>
BY DEF Ahead, DIR_UP, DIR_RIGHT, DIR_DOWN, DIR_LEFT

LEMMA ReverseIs ==
  /\ Reverse(DIR_UP) = DIR_DOWN /\ Reverse(DIR_DOWN) = DIR_UP
  /\ Reverse(DIR_LEFT) = DIR_RIGHT /\ Reverse(DIR_RIGHT) = DIR_LEFT
  /\ BlockLength(DIR_UP) = BLOCK_Y_DIM /\ BlockLength(DIR_DOWN) = BLOCK_Y_DIM
  /\ BlockLength(DIR_LEFT) = BLOCK_X_DIM /\ BlockLength(DIR_RIGHT) = BLOCK_X_DIM
  /\ DIR_UP \in Dirs /\ DIR_DOWN \in Dirs /\ DIR_LEFT \in Dirs /\ DIR_RIGHT \in Dirs
  /\ DIR_STOP \notin Dirs
BY DEF Reverse, BlockLength, NUM_DIRS, Dirs, DIR_UP, DIR_RIGHT, DIR_DOWN, DIR_LEFT, DIR_STOP

LEMMA CornersAre ==
  ASSUME NEW s, s[1] \in Int, s[2] \in Int, NEW t, t[1] \in Int, t[2] \in Int
  PROVE  /\ CornerX(s) \in Int /\ CornerY(s) \in Int
         /\ t[1] = s[1] => CornerX(t) = CornerX(s)
         /\ t[2] = s[2] => CornerY(t) = CornerY(s)
         /\ t[1] = s[1] + 1 => CornerX(t) = CornerX(s) + BLOCK_X_DIM
         /\ t[1] = s[1] - 1 => CornerX(t) = CornerX(s) - BLOCK_X_DIM
         /\ t[2] = s[2] + 1 => CornerY(t) = CornerY(s) + BLOCK_Y_DIM
         /\ t[2] = s[2] - 1 => CornerY(t) = CornerY(s) - BLOCK_Y_DIM
<1>1. PICK a \in Int, b \in Int, c \in Int, e \in Int, bx \in Int, by \in Int :
        a = s[1] /\ b = s[2] /\ c = t[1] /\ e = t[2] /\ bx = BLOCK_X_DIM /\ by = BLOCK_Y_DIM
  BY SizesAre
<1>2. (a + 1) * bx = a * bx + bx /\ (a - 1) * bx = a * bx - bx /\ (b + 1) * by = b * by + by /\ (b - 1) * by = b * by - by
  OBVIOUS
<1>3. a * bx \in Int /\ b * by \in Int
  OBVIOUS
<1>4. CornerX(s) = a * bx /\ CornerY(s) = b * by /\ CornerX(t) = c * bx /\ CornerY(t) = e * by
  BY <1>1 DEF CornerX, CornerY
<1>. QED
  BY <1>1, <1>2, <1>3, <1>4

\* From the corner of a square to the next: a block's length ahead.
LEMMA OneBlock ==
  ASSUME NEW s, s = <<s[1], s[2]>>, s[1] \in Int, s[2] \in Int, NEW d \in Dirs, NEW t, t = Ahead(s, d)
  PROVE  /\ t = <<t[1], t[2]>> /\ t[1] \in Int /\ t[2] \in Int /\ s = Ahead(t, Reverse(d))
         /\ d = DIR_UP => CornerX(t) = CornerX(s) /\ CornerY(t) = CornerY(s) - BLOCK_Y_DIM
         /\ d = DIR_RIGHT => CornerX(t) = CornerX(s) + BLOCK_X_DIM /\ CornerY(t) = CornerY(s)
         /\ d = DIR_DOWN => CornerX(t) = CornerX(s) /\ CornerY(t) = CornerY(s) + BLOCK_Y_DIM
         /\ d = DIR_LEFT => CornerX(t) = CornerX(s) - BLOCK_X_DIM /\ CornerY(t) = CornerY(s)
<1>1. PICK a \in Int, b \in Int : s = <<a, b>> /\ a = s[1] /\ b = s[2]
  OBVIOUS
<1>2. /\ d = DIR_UP => t = <<a, b - 1>>
      /\ d = DIR_RIGHT => t = <<a + 1, b>>
      /\ d = DIR_DOWN => t = <<a, b + 1>>
      /\ d = DIR_LEFT => t = <<a - 1, b>>
  BY <1>1, AheadIs
<1>3. t = <<t[1], t[2]>> /\ t[1] \in Int /\ t[2] \in Int
  BY <1>2, DirIs
<1>4. s = Ahead(t, Reverse(d))
  <2>1. CASE d = DIR_UP
    <3>1. s = <<t[1], t[2] + 1>>
      BY <1>1, <1>2, <2>1
    <3>. QED
      BY <2>1, <3>1, AheadIs, ReverseIs
  <2>2. CASE d = DIR_RIGHT
    <3>1. s = <<t[1] - 1, t[2]>>
      BY <1>1, <1>2, <2>2
    <3>. QED
      BY <2>2, <3>1, AheadIs, ReverseIs
  <2>3. CASE d = DIR_DOWN
    <3>1. s = <<t[1], t[2] - 1>>
      BY <1>1, <1>2, <2>3
    <3>. QED
      BY <2>3, <3>1, AheadIs, ReverseIs
  <2>4. CASE d = DIR_LEFT
    <3>1. s = <<t[1] + 1, t[2]>>
      BY <1>1, <1>2, <2>4
    <3>. QED
      BY <2>4, <3>1, AheadIs, ReverseIs
  <2>. QED
    BY <2>1, <2>2, <2>3, <2>4, DirIs
<1>5. /\ d = DIR_UP => t[1] = s[1] /\ t[2] = s[2] - 1
      /\ d = DIR_RIGHT => t[1] = s[1] + 1 /\ t[2] = s[2]
      /\ d = DIR_DOWN => t[1] = s[1] /\ t[2] = s[2] + 1
      /\ d = DIR_LEFT => t[1] = s[1] - 1 /\ t[2] = s[2]
  BY <1>1, <1>2
<1>. QED
  BY <1>3, <1>4, <1>5, CornersAre

LEMMA ReverseOf ==
  ASSUME NEW d \in Dirs
  PROVE  /\ Reverse(d) \in Dirs /\ Reverse(Reverse(d)) = d /\ BlockLength(Reverse(d)) = BlockLength(d)
         /\ BlockLength(d) \in Nat \ {0}
BY DirIs, ReverseIs, SizesAre

\* A player between two squares who turns is before the other one.
LEMMA TurnedBefore ==
  ASSUME NEW s, s = <<s[1], s[2]>>, s[1] \in Int, s[2] \in Int, NEW d \in Dirs, NEW t, t = Ahead(s, d),
         NEW cnt \in Int, NEW rest \in Int, rest = BlockLength(d) - cnt
  PROVE  Before(t, d, rest) = Before(s, Reverse(d), cnt)
<1>1. PICK bx \in Nat \ {0}, by \in Nat \ {0} : bx = BLOCK_X_DIM /\ by = BLOCK_Y_DIM
  BY SizesAre
<1>2. PICK x \in Int, y \in Int, tx \in Int, ty \in Int :
        x = CornerX(s) /\ y = CornerY(s) /\ tx = CornerX(t) /\ ty = CornerY(t)
  BY OneBlock, CornersAre
<1>3. CASE d = DIR_UP
  <2>1. rest = by - cnt /\ Reverse(d) = DIR_DOWN
    BY <1>1, <1>3, ReverseIs
  <2>2. tx = x /\ ty = y - by
    BY <1>1, <1>2, <1>3, OneBlock
  <2>3. Before(t, DIR_UP, rest) = <<tx, ty + rest>> /\ Before(s, DIR_DOWN, cnt) = <<x, y - cnt>>
    BY <1>2, BeforeIs
  <2>4. ty + rest = y - cnt
    BY <2>1, <2>2
  <2>. QED
    BY <1>3, <2>1, <2>2, <2>3, <2>4
<1>4. CASE d = DIR_RIGHT
  <2>1. rest = bx - cnt /\ Reverse(d) = DIR_LEFT
    BY <1>1, <1>4, ReverseIs
  <2>2. tx = x + bx /\ ty = y
    BY <1>1, <1>2, <1>4, OneBlock
  <2>3. Before(t, DIR_RIGHT, rest) = <<tx - rest, ty>> /\ Before(s, DIR_LEFT, cnt) = <<x + cnt, y>>
    BY <1>2, BeforeIs
  <2>4. tx - rest = x + cnt
    BY <2>1, <2>2
  <2>. QED
    BY <1>4, <2>1, <2>2, <2>3, <2>4
<1>5. CASE d = DIR_DOWN
  <2>1. rest = by - cnt /\ Reverse(d) = DIR_UP
    BY <1>1, <1>5, ReverseIs
  <2>2. tx = x /\ ty = y + by
    BY <1>1, <1>2, <1>5, OneBlock
  <2>3. Before(t, DIR_DOWN, rest) = <<tx, ty - rest>> /\ Before(s, DIR_UP, cnt) = <<x, y + cnt>>
    BY <1>2, BeforeIs
  <2>4. ty - rest = y + cnt
    BY <2>1, <2>2
  <2>. QED
    BY <1>5, <2>1, <2>2, <2>3, <2>4
<1>6. CASE d = DIR_LEFT
  <2>1. rest = bx - cnt /\ Reverse(d) = DIR_RIGHT
    BY <1>1, <1>6, ReverseIs
  <2>2. tx = x - bx /\ ty = y
    BY <1>1, <1>2, <1>6, OneBlock
  <2>3. Before(t, DIR_LEFT, rest) = <<tx + rest, ty>> /\ Before(s, DIR_RIGHT, cnt) = <<x - cnt, y>>
    BY <1>2, BeforeIs
  <2>4. tx + rest = x - cnt
    BY <2>1, <2>2
  <2>. QED
    BY <1>6, <2>1, <2>2, <2>3, <2>4
<1>. QED
  BY <1>3, <1>4, <1>5, <1>6, DirIs

LEMMA InsideIs ==
  ASSUME NEW m, Dimensions(m), NEW s \in Interior(m)
  PROVE  /\ s = <<s[1], s[2]>> /\ s[1] \in Int /\ s[2] \in Int
         /\ CornerX(s) \in Int /\ CornerY(s) \in Int
<1>1. s = <<s[1], s[2]>> /\ s[1] \in Int /\ s[2] \in Int
  BY InteriorIs
<1>. QED
  BY <1>1, CornersAre

\* At a corner the player is in that square.
LEMMA SquareIs ==
  ASSUME NEW m, Dimensions(m), NEW v, NEW s \in Interior(m), IsAt(v, <<CornerX(s), CornerY(s)>>)
  PROVE  Square(v) = s
<1>1. /\ s = <<s[1], s[2]>> /\ s[1] \in Int /\ s[2] \in Int
      /\ CornerX(s) \in Int /\ CornerY(s) \in Int
  BY InsideIs
<1>2. PICK a \in Int, b \in Int, x \in Int, y \in Int, bx \in Nat \ {0}, by \in Nat \ {0} :
        /\ a = s[1] /\ b = s[2] /\ x = v.x /\ y = v.y /\ bx = BLOCK_X_DIM /\ by = BLOCK_Y_DIM
        /\ x = a * bx /\ y = b * by
  BY <1>1, SizesAre DEF IsAt, CornerX, CornerY
<1>3. x \div bx = a
  <2>1. a * bx <= x /\ x < a * bx + bx
    BY <1>2
  <2>. QED
    BY <2>1, DivIs
<1>4. y \div by = b
  <2>1. b * by <= y /\ y < b * by + by
    BY <1>2
  <2>. QED
    BY <2>1, DivIs
<1>. QED
  BY <1>1, <1>2, <1>3, <1>4 DEF Square

\* One pixel further
LEMMA StepsOn ==
  ASSUME NEW m, Dimensions(m), NEW v \in Views, NEW d \in Dirs, NEW cnt \in 1 .. BlockLength(d),
         NEW s, Between(m, v, d, cnt, s), NEW xd, NEW yd, NEW r, r = Moved(v, d, xd, yd),
         NEW rest, rest = cnt - 1
  PROVE  OnTrack(m, r, d, rest)
<1>1. s \in Interior(m) /\ IsAt(v, Before(s, d, cnt)) /\ Ahead(s, Reverse(d)) \in Interior(m)
  BY DEF Between
<1>2. BlockLength(d) \in Nat \ {0} /\ cnt \in Int
  BY ReverseOf
<1>3. PICK x \in Int, y \in Int : x = CornerX(s) /\ y = CornerY(s)
  BY <1>1, InsideIs
<1>4. IsAt(r, Before(s, d, rest))
  <2>1. CASE d = DIR_UP
    <3>1. v.x = x /\ v.y = y + cnt
      BY <1>1, <1>3, <2>1, BeforeIs DEF IsAt
    <3>2. r.x = v.x /\ r.y = v.y - 1
      BY <2>1, MovedFields
    <3>3. Before(s, DIR_UP, rest) = <<x, y + rest>>
      BY <1>3, BeforeIs
    <3>4. y + cnt - 1 = y + rest
      BY <1>2
    <3>. QED
      BY <2>1, <3>1, <3>2, <3>3, <3>4 DEF IsAt
  <2>2. CASE d = DIR_RIGHT
    <3>1. v.x = x - cnt /\ v.y = y
      BY <1>1, <1>3, <2>2, BeforeIs DEF IsAt
    <3>2. r.x = v.x + 1 /\ r.y = v.y
      BY <2>2, MovedFields
    <3>3. Before(s, DIR_RIGHT, rest) = <<x - rest, y>>
      BY <1>3, BeforeIs
    <3>4. x - cnt + 1 = x - rest
      BY <1>2
    <3>. QED
      BY <2>2, <3>1, <3>2, <3>3, <3>4 DEF IsAt
  <2>3. CASE d = DIR_DOWN
    <3>1. v.x = x /\ v.y = y - cnt
      BY <1>1, <1>3, <2>3, BeforeIs DEF IsAt
    <3>2. r.x = v.x /\ r.y = v.y + 1
      BY <2>3, MovedFields
    <3>3. Before(s, DIR_DOWN, rest) = <<x, y - rest>>
      BY <1>3, BeforeIs
    <3>4. y - cnt + 1 = y - rest
      BY <1>2
    <3>. QED
      BY <2>3, <3>1, <3>2, <3>3, <3>4 DEF IsAt
  <2>4. CASE d = DIR_LEFT
    <3>1. v.x = x + cnt /\ v.y = y
      BY <1>1, <1>3, <2>4, BeforeIs DEF IsAt
    <3>2. r.x = v.x - 1 /\ r.y = v.y
      BY <2>4, MovedFields
    <3>3. Before(s, DIR_LEFT, rest) = <<x + rest, y>>
      BY <1>3, BeforeIs
    <3>4. x + cnt - 1 = x + rest
      BY <1>2
    <3>. QED
      BY <2>4, <3>1, <3>2, <3>3, <3>4 DEF IsAt
  <2>. QED
    BY <2>1, <2>2, <2>3, <2>4, DirIs
<1>5. CASE rest = 0
  <2>1. x + 0 = x /\ x - 0 = x /\ y + 0 = y /\ y - 0 = y
    OBVIOUS
  <2>2. Before(s, d, 0) = <<x, y>>
    BY <1>3, <2>1, BeforeIs, DirIs
  <2>. QED
    BY <1>1, <1>3, <1>4, <1>5, <2>2 DEF OnTrack
<1>6. CASE rest # 0
  <2>1. rest \in 1 .. BlockLength(d) - 1
    BY <1>2, <1>6
  <2>2. Between(m, r, d, rest, s)
    BY <1>1, <1>4 DEF Between
  <2>. QED
    BY <1>1, <2>1, <2>2 DEF OnTrack
<1>. QED
  BY <1>5, <1>6

\* A reversal between two squares, and a step from one towards the next
LEMMA TurnsOn ==
  ASSUME NEW m, Dimensions(m), NEW v, NEW d \in Dirs, NEW cnt \in 1 .. BlockLength(d) - 1,
         NEW s, Between(m, v, d, cnt, s)
  PROVE  LET e == Reverse(d)
         IN  /\ BlockLength(d) - cnt \in 1 .. BlockLength(e)
             /\ Between(m, v, e, BlockLength(d) - cnt, Ahead(s, e))
<1>1. s \in Interior(m) /\ IsAt(v, Before(s, d, cnt)) /\ Ahead(s, Reverse(d)) \in Interior(m)
  BY DEF Between
<1>2. PICK e \in Dirs, n \in Nat \ {0} :
        e = Reverse(d) /\ Reverse(e) = d /\ n = BlockLength(e) /\ n = BlockLength(d)
  BY ReverseOf
<1>3. PICK t \in {Ahead(s, e)}, rest \in Int : t = Ahead(s, e) /\ rest = n - cnt
  BY <1>2
<1>4. s = <<s[1], s[2]>> /\ s[1] \in Int /\ s[2] \in Int
  BY <1>1, InsideIs
<1>5. cnt \in Int /\ rest = BlockLength(e) - cnt
  BY <1>2, <1>3
<1>6. Before(t, e, rest) = Before(s, Reverse(e), cnt)
  BY <1>3, <1>4, <1>5, TurnedBefore
<1>7. s = Ahead(t, Reverse(e))
  BY <1>3, <1>4, OneBlock
<1>8. Between(m, v, e, rest, t)
  BY <1>1, <1>2, <1>3, <1>6, <1>7 DEF Between
<1>. QED
  BY <1>2, <1>3, <1>8

LEMMA LeavesOn ==
  ASSUME NEW m, Dimensions(m), NEW v, NEW s \in Interior(m), IsAt(v, <<CornerX(s), CornerY(s)>>),
         NEW d \in Dirs, Ahead(s, d) \in Interior(m)
  PROVE  BlockLength(d) \in 1 .. BlockLength(d) /\ Between(m, v, d, BlockLength(d), Ahead(s, d))
<1>1. PICK t \in {Ahead(s, d)}, n \in Nat \ {0} : t = Ahead(s, d) /\ n = BlockLength(d)
  BY ReverseOf
<1>2. s = <<s[1], s[2]>> /\ s[1] \in Int /\ s[2] \in Int
  BY InsideIs
<1>3. PICK x \in Int, y \in Int : x = CornerX(s) /\ y = CornerY(s)
  BY InsideIs
<1>4. n = BlockLength(d) - 0
  BY <1>1
<1>5. Before(t, d, n) = Before(s, Reverse(d), 0)
  BY <1>1, <1>2, <1>4, TurnedBefore
<1>6. Before(s, Reverse(d), 0) = <<x, y>>
  <2>1. x + 0 = x /\ x - 0 = x /\ y + 0 = y /\ y - 0 = y
    OBVIOUS
  <2>. QED
    BY <1>3, <2>1, BeforeIs, DirIs, ReverseOf
<1>7. s = Ahead(t, Reverse(d))
  BY <1>1, <1>2, OneBlock
<1>8. Between(m, v, d, n, t)
  BY <1>1, <1>3, <1>5, <1>6, <1>7 DEF Between
<1>. QED
  BY <1>1, <1>8

\* No open direction leads out of the maze: there are walls around it.
LEMMA OpenInside ==
  ASSUME NEW m, MazeOK(m), NEW s \in Interior(m), NEW d \in FindOpenDirections(m, s[1], s[2])
  PROVE  d \in Dirs /\ Ahead(s, d) \in Interior(m)
<1>1. d \in Dirs /\ ~Pattern(m, s[1], s[2])[d] /\ Dimensions(m)
  BY DEF FindOpenDirections, MazeOK
<1>2. /\ s = <<s[1], s[2]>> /\ s[1] \in Int /\ s[2] \in Int
      /\ 1 <= s[1] /\ s[1] <= 2 * m.xd - 1 /\ 1 <= s[2] /\ s[2] <= 2 * m.yd - 1
  BY <1>1, InteriorIs
<1>3. m.xd \in Nat \ {0} /\ m.yd \in Nat \ {0}
  BY <1>1 DEF Dimensions
<1>4. PICK a \in Int, b \in Int : /\ Ahead(s, d) = <<a, b>>
                                  /\ 0 <= a /\ a <= 2 * m.xd /\ 0 <= b /\ b <= 2 * m.yd
  <2>1. PICK t : t = Ahead(s, d)
    OBVIOUS
  <2>2. t = <<s[1], s[2] - 1>> \/ t = <<s[1] + 1, s[2]>> \/ t = <<s[1], s[2] + 1>> \/ t = <<s[1] - 1, s[2]>>
    BY <1>1, <2>1, AheadIs, DirIs
  <2>. QED
    BY <1>2, <1>3, <2>1, <2>2
<1>5. ~m.cell[MAZE_INDEX(m.xd, a, b)].wall
  <2>1. Pattern(m, s[1], s[2])[d] = WallAt(m, a, b)
    BY <1>1, <1>2, <1>4 DEF Pattern
  <2>. QED
    BY <1>1, <2>1 DEF WallAt, Cell
<1>6. MAZE_INDEX(m.xd, a, b) \in Indices
  <2>1. -1 <= b /\ b <= 2 * m.yd + 1
    BY <1>3, <1>4
  <2>. QED
    BY <1>1, <1>4, <2>1, IndexInArray
<1>7. PICK t \in Interior(m) : MAZE_INDEX(m.xd, a, b) = MAZE_INDEX(m.xd, t[1], t[2])
  BY <1>5, <1>6 DEF MazeOK, IndicesOf
<1>8. t = <<t[1], t[2]>> /\ t[1] \in Int /\ t[2] \in Int /\ 1 <= t[1] /\ t[1] <= 2 * m.xd - 1
  BY <1>1, InteriorIs
<1>9. PICK n \in Nat \ {0}, x \in Int, y \in Int : n = m.xd /\ x = t[1] /\ y = t[2]
  BY <1>3, <1>8
<1>10. 1 <= x /\ x <= 2 * n - 1
  BY <1>8, <1>9
<1>11. a = x /\ b = y
  <2>1. 0 <= a /\ a <= 2 * n /\ 0 <= x /\ x <= 2 * n
    BY <1>4, <1>8, <1>9
  <2>2. MAZE_INDEX(n, a, b) = MAZE_INDEX(n, x, y)
    BY <1>7, <1>9
  <2>3. \/ a = x /\ b = y
        \/ a = 0 /\ x = 2 * n
        \/ x = 0 /\ a = 2 * n
    BY <2>1, <2>2, OneIndex
  <2>. QED
    BY <1>10, <2>3
<1>. QED
  BY <1>1, <1>4, <1>8, <1>9, <1>11

\* The way the player goes on at a tick, turned or not
LEMMA TurnedTrack ==
  ASSUME NEW m, Dimensions(m), NEW v, NEW d, NEW cnt, OnTrack(m, v, d, cnt), NEW next,
         NEW e, e = TurnedDir(d, next), NEW c, c = TurnedCount(d, next, cnt)
  PROVE  \/ c = 0 /\ cnt = 0 /\ \E s \in Interior(m) : IsAt(v, <<CornerX(s), CornerY(s)>>)
         \/ c # 0 /\ e \in Dirs /\ c \in 1 .. BlockLength(e) /\ \E s : Between(m, v, e, c, s)
<1>1. CASE cnt = 0 /\ \E s \in Interior(m) : IsAt(v, <<CornerX(s), CornerY(s)>>)
  BY <1>1 DEF TurnedCount
<1>2. CASE cnt \in 1 .. BlockLength(d) - 1 /\ \E s \in Interior(m) : Between(m, v, d, cnt, s)
  <2>1. PICK s \in Interior(m) : Between(m, v, d, cnt, s)
    BY <1>2
  <2>2. d \in Dirs
    BY <2>1 DEF Between
  <2>3. PICK n \in Nat \ {0} : n = BlockLength(d) /\ n = BlockLength(Reverse(d)) /\ Reverse(d) \in Dirs
    BY <2>2, ReverseOf
  <2>4. cnt \in Int /\ 1 <= cnt /\ cnt <= n - 1
    BY <1>2, <2>3
  <2>5. CASE next = Reverse(d)
    <3>1. e = Reverse(d) /\ c = n - cnt
      BY <2>2, <2>3, <2>4, <2>5 DEF TurnedDir, TurnedCount, Turns
    <3>2. Between(m, v, Reverse(d), BlockLength(d) - cnt, Ahead(s, Reverse(d)))
      BY <1>2, <2>1, <2>2, TurnsOn
    <3>3. Between(m, v, e, c, Ahead(s, e))
      BY <2>3, <3>1, <3>2
    <3>4. c \in 1 .. BlockLength(e) /\ c # 0 /\ e \in Dirs
      BY <2>3, <2>4, <3>1
    <3>. QED
      BY <3>3, <3>4
  <2>6. CASE next # Reverse(d)
    <3>1. e = d /\ c = cnt
      BY <2>6 DEF TurnedDir, TurnedCount, Turns
    <3>2. c \in 1 .. BlockLength(e) /\ c # 0
      <4>1. BlockLength(e) = n
        BY <2>3, <3>1
      <4>2. c \in 1 .. n /\ c # 0
        BY <2>4, <3>1
      <4>. QED
        BY <4>1, <4>2
    <3>. QED
      BY <2>1, <2>2, <3>1, <3>2
  <2>. QED
    BY <2>5, <2>6
<1>. QED
  BY <1>1, <1>2 DEF OnTrack

\* unveil_around_player keeps the maze; no fruit comes back.
LEMMA MazeAroundIs ==
  ASSUME NEW m, MazeOK(m), NEW s \in Interior(m), NEW u, u = MazeAround(m, s)
  PROVE  /\ MazeOK(u) /\ u.xd = m.xd /\ u.yd = m.yd
         /\ \A i \in Indices : m.cell[i].fruit = 0 => u.cell[i].fruit = 0
         /\ u.cell[IndexAt(m, s)].fruit = 0
         /\ \/ u.n_fruits = m.n_fruits
            \/ m.cell[IndexAt(m, s)].fruit # 0 /\ u.n_fruits = m.n_fruits - 1
         /\ u.n_fruits \in Nat /\ m.n_fruits \in Nat
<1>1. PICK e : e = Eat(m, s)
  OBVIOUS
<1>2. /\ MazeOK(e) /\ SameWalls(m, e)
      /\ \A i \in Indices \ {IndexAt(m, s)} : e.cell[i] = m.cell[i]
      /\ e.cell[IndexAt(m, s)].fruit = 0
      /\ \/ HasFruit(m, s[1], s[2]) /\ m.n_fruits \in Nat \ {0} /\ e.n_fruits = m.n_fruits - 1
         \/ ~HasFruit(m, s[1], s[2]) /\ e = m
  BY <1>1, EatIs
<1>3. u = Unveil(e, SpacesAround(s))
  BY <1>1 DEF MazeAround
<1>4. /\ MazeOK(u) /\ SameWalls(e, u) /\ u.n_fruits = e.n_fruits
      /\ \A i \in Indices : u.cell[i].fruit = e.cell[i].fruit
  BY <1>2, <1>3, UnveilIs
<1>5. IndexAt(m, s) \in Indices
  <2>1. Dimensions(m)
    BY DEF MazeOK
  <2>. QED
    BY <2>1, InteriorIs
<1>6. HasFruit(m, s[1], s[2]) => m.cell[IndexAt(m, s)].fruit # 0
  BY DEF HasFruit, Cell, IndexAt
<1>7. u.xd = m.xd /\ u.yd = m.yd
  BY <1>2, <1>4 DEF SameWalls
<1>8. ASSUME NEW r, MazeOK(r) PROVE r.n_fruits \in Nat
  <2>1. IsFiniteSet(Fruited(r))
    BY IndicesFinite, FS_Subset DEF Fruited
  <2>. QED
    BY <1>8, <2>1, FS_CardinalityType DEF MazeOK
<1>9. u.n_fruits \in Nat /\ m.n_fruits \in Nat
  BY <1>4, <1>8
<1>10. \A i \in Indices : m.cell[i].fruit = 0 => u.cell[i].fruit = 0
  BY <1>2, <1>4
<1>11. u.n_fruits = m.n_fruits \/ (m.cell[IndexAt(m, s)].fruit # 0 /\ u.n_fruits = m.n_fruits - 1)
  BY <1>2, <1>4, <1>6
<1>. QED
  BY <1>2, <1>4, <1>5, <1>7, <1>9, <1>10, <1>11

----------------------------------------------------------------------------
(* The game is in the window. *)

\* win shows m around a player who is on the way of a square to the next.
GameShown(m, v, win, d, cnt) ==
    /\ MazeOK(m) /\ Held(win) /\ v \in Views /\ Following(v, m.xd, m.yd)
    /\ win.x = v.map_x /\ win.y = v.map_y /\ Shows(m, win)
    /\ OnTrack(m, v, d, cnt)

PlayInv ==
    /\ WindowInv
    /\ level \in Nat \ {0} /\ last_dir \in Dirs
    /\ Playing => GameShown(maze, view, w, dir, move_cnt)

LEMMA StillShows ==
  ASSUME NEW m, NEW v, NEW r, Drawn(v, r), \A p \in Window(v) : At(r, p) = At(v, p), Shows(m, v)
  PROVE  Shows(m, r)
BY DEF Drawn, Shows

LEMMA MoveShows ==
  ASSUME BoundariesApart, NEW m, MazeOK(m), m.xd = maze.xd, m.yd = maze.yd,
         NEW win, Held(win), view \in Views, Following(view, m.xd, m.yd),
         win.x = view.map_x, win.y = view.map_y, Shows(m, win), last_dir \in Dirs,
         NEW d, NEW cnt,
         \/ d = DIR_STOP /\ \E s \in Interior(m) : IsAt(view, <<CornerX(s), CornerY(s)>>)
         \/ d \in Dirs /\ cnt \in 1 .. BlockLength(d) /\ \E s : Between(m, view, d, cnt, s),
         Move(d, cnt, m, win)
  PROVE  GameShown(m, view', w', dir', move_cnt') /\ last_dir' \in Dirs
<1>1. PICK nv, nw, nd, nc : nv = view' /\ nw = w' /\ nd = dir' /\ nc = move_cnt'
  OBVIOUS
<1>2. nd = d
  BY <1>1 DEF Move
<1>3. CASE d = DIR_STOP /\ \E s \in Interior(m) : IsAt(view, <<CornerX(s), CornerY(s)>>)
  <2>1. nv = view /\ nw = win /\ nc = 0 /\ last_dir' = last_dir
    BY <1>1, <1>3 DEF Move
  <2>2. OnTrack(m, nv, nd, nc)
    BY <1>3, <2>1 DEF OnTrack
  <2>. QED
    BY <1>1, <2>1, <2>2 DEF GameShown
<1>4. CASE d \in Dirs /\ cnt \in 1 .. BlockLength(d) /\ \E s : Between(m, view, d, cnt, s)
  <2>1. d # DIR_STOP
    BY <1>4, ReverseIs
  <2>2. /\ nv = Moved(view, d, m.xd, m.yd) /\ nc = cnt - 1 /\ last_dir' = d
        /\ nw = IF Pans(view, d) THEN FollowLine(m, win, nv, d) ELSE win
    BY <1>1, <2>1 DEF Move
  <2>3. Pans(view, d) <=> (nv.map_x # view.map_x \/ nv.map_y # view.map_y)
    BY <2>2 DEF Pans
  <2>4. nv \in Views
    BY <1>4, <2>2, MovedView
  <2>5. Following(nv, m.xd, m.yd)
    <3>1. m.xd \in Int /\ m.yd \in Int
      BY DEF MazeOK, Dimensions
    <3>. QED
      BY <1>4, <2>2, <3>1, KeepsFollowing
  <2>6. OnTrack(m, nv, nd, nc)
    <3>1. PICK s : Between(m, view, d, cnt, s)
      BY <1>4
    <3>2. Dimensions(m)
      BY DEF MazeOK
    <3>. QED
      BY <1>2, <1>4, <2>2, <3>1, <3>2, StepsOn
  <2>7. Held(nw) /\ nw.x = nv.map_x /\ nw.y = nv.map_y /\ Shows(m, nw)
    <3>1. CASE Pans(view, d)
      BY <1>4, <2>2, <2>3, <3>1, LineShows
    <3>2. CASE ~Pans(view, d)
      BY <2>2, <2>3, <3>2
    <3>. QED
      BY <3>1, <3>2
  <2>. QED
    BY <1>1, <1>4, <2>2, <2>4, <2>5, <2>6, <2>7 DEF GameShown
<1>. QED
  BY <1>3, <1>4

\* The mist lifts at a square.
LEMMA AroundGame ==
  ASSUME BoundariesApart, NEW m, MazeOK(m), NEW v, Held(v), NEW at \in Views,
         Following(at, m.xd, m.yd), v.x = at.map_x, v.y = at.map_y, Shows(m, v),
         NEW s \in Interior(m), IsAt(at, <<CornerX(s), CornerY(s)>>),
         NEW u, u = MazeAround(m, s), NEW r, r = WindowAround(m, v, s)
  PROVE  /\ Square(at) = s /\ MazeOK(u) /\ u.xd = m.xd /\ u.yd = m.yd /\ s \in Interior(u)
         /\ Held(r) /\ Following(at, u.xd, u.yd) /\ r.x = at.map_x /\ r.y = at.map_y /\ Shows(u, r)
<1>1. Square(at) = s
  BY SquareIs DEF MazeOK
<1>2. MazeOK(u) /\ u.xd = m.xd /\ u.yd = m.yd
  BY MazeAroundIs
<1>3. Shows(u, r)
  BY <1>1, AroundShows
<1>4. Held(r) /\ r.x = v.x /\ r.y = v.y
  BY WindowAroundDraws DEF Drawn
<1>5. s \in Interior(u)
  BY <1>2 DEF Interior
<1>. QED
  BY <1>1, <1>2, <1>3, <1>4, <1>5

LEMMA PlayInit == Init => PlayInv
<1>. SUFFICES ASSUME Init PROVE PlayInv
  OBVIOUS
<1>1. WindowInv
  BY WindowInit
<1>2. level = 1 /\ last_dir = DIR_UP /\ place = "level"
  BY DEF Init
<1>. QED
  BY <1>1, <1>2, ReverseIs DEF PlayInv, Playing

\* The first square of a level
LEMMA StartSquare ==
  ASSUME NEW m, Dimensions(m), NEW s, s = <<1, 1>>
  PROVE  s \in Interior(m) /\ IsAt(StartView, <<CornerX(s), CornerY(s)>>)
<1>1. m.xd \in Nat \ {0} /\ m.yd \in Nat \ {0}
  BY DEF Dimensions
<1>2. s \in Interior(m)
  BY <1>1 DEF Interior
<1>3. PICK bx \in Nat, by \in Nat : bx = BLOCK_X_DIM /\ by = BLOCK_Y_DIM
  BY SizesAre
<1>4. 1 * bx = bx /\ 1 * by = by
  OBVIOUS
<1>5. CornerX(s) = BLOCK_X_DIM /\ CornerY(s) = BLOCK_Y_DIM
  BY <1>3, <1>4 DEF CornerX, CornerY
<1>. QED
  BY <1>2, <1>5 DEF IsAt, StartView

LEMMA StartShows ==
  ASSUME BoundariesApart, PlayInv, StartLevel
  PROVE  GameShown(maze', view', w', dir', move_cnt')
<1>1. level \in Nat \ {0} /\ Held(w)
  BY DEF PlayInv, WindowInv
<1>2. PICK made \in PrepareMazeLevel :
        /\ maze' = MazeAround(made[1], Square(StartView))
        /\ ShowFrame(WindowAround(made[1], made[2], Square(StartView)), StartView, DIR_UP, FALSE)
  BY DEF StartLevel
<1>3. PICK m \in MadeMazes : made = <<m, LevelWindow(m)>>
  BY <1>2 DEF PrepareMazeLevel
<1>4. PICK v : v = LevelWindow(m) /\ made[1] = m /\ made[2] = v
  BY <1>3
<1>5. MazeOK(m) /\ m.xd = LevelX(level) /\ m.yd = LevelY(level) /\ Dimensions(m)
  BY <1>1, MadeIs DEF MazeOK
<1>6. Held(v) /\ v.x = SHOW_MIN /\ v.y = SHOW_MIN /\ Shows(m, v)
  BY <1>1, <1>4, LevelDrawn
<1>7. PICK at : at = StartView
  OBVIOUS
<1>8. at \in Views /\ Following(at, m.xd, m.yd) /\ v.x = at.map_x /\ v.y = at.map_y
  <2>1. PICK n \in Nat \ {0} : n = level
    BY <1>1
  <2>2. StartView \in Views /\ Following(StartView, LevelX(n), LevelY(n))
    BY StartFollows
  <2>3. StartView.map_x = SHOW_MIN /\ StartView.map_y = SHOW_MIN
    BY DEF StartView
  <2>. QED
    BY <1>5, <1>6, <1>7, <2>1, <2>2, <2>3
<1>9. PICK s : s \in Interior(m) /\ IsAt(at, <<CornerX(s), CornerY(s)>>)
  BY <1>5, <1>7, StartSquare
<1>10. PICK u, r : u = MazeAround(m, s) /\ r = WindowAround(m, v, s)
  OBVIOUS
<1>11. /\ Square(at) = s /\ MazeOK(u) /\ u.xd = m.xd /\ u.yd = m.yd /\ s \in Interior(u)
       /\ Held(r) /\ Following(at, u.xd, u.yd) /\ r.x = at.map_x /\ r.y = at.map_y /\ Shows(u, r)
  BY <1>5, <1>6, <1>8, <1>9, <1>10, AroundGame
<1>12. PICK nw : nw = w' /\ nw = Erased(r, at, DIR_UP, FALSE)
  BY <1>2, <1>4, <1>7, <1>10, <1>11 DEF ShowFrame
<1>13. Drawn(r, nw) /\ \A p \in Window(r) : At(nw, p) = At(r, p)
  <2>1. PICK on \in BOOLEAN : on = FALSE
    OBVIOUS
  <2>2. PICK d : d = DIR_UP
    OBVIOUS
  <2>3. nw = Erased(r, at, d, on)
    BY <1>12, <2>1, <2>2
  <2>4. Held(r)
    BY <1>11
  <2>. QED
    BY <2>3, <2>4, ErasedIs
<1>14. Held(nw) /\ nw.x = at.map_x /\ nw.y = at.map_y /\ Shows(u, nw)
  BY <1>11, <1>13, StillShows DEF Drawn
<1>15. PICK d : OnTrack(u, at, d, 0) /\ d = DIR_STOP
  BY <1>9, <1>11 DEF OnTrack
<1>16. maze' = u /\ view' = at /\ w' = nw /\ dir' = d /\ move_cnt' = 0
  BY <1>2, <1>4, <1>7, <1>10, <1>11, <1>12, <1>15 DEF StartLevel
<1>. QED
  BY <1>8, <1>11, <1>14, <1>15, <1>16 DEF GameShown

LEMMA BetweenShows ==
  ASSUME BoundariesApart, PlayInv, TickBetween
  PROVE  GameShown(maze', view', w', dir', move_cnt') /\ last_dir' \in Dirs
<1>1. /\ MazeOK(maze) /\ Held(w) /\ view \in Views /\ Following(view, maze.xd, maze.yd)
      /\ w.x = view.map_x /\ w.y = view.map_y /\ Shows(maze, w)
      /\ OnTrack(maze, view, dir, move_cnt) /\ last_dir \in Dirs
  BY DEF PlayInv, GameShown, Playing, TickBetween
<1>2. PICK next : /\ TurnedCount(dir, next, move_cnt) # 0
                  /\ Move(TurnedDir(dir, next), TurnedCount(dir, next, move_cnt), maze, w)
  BY DEF TickBetween
<1>3. PICK m, d, cnt : m = maze /\ d = TurnedDir(dir, next) /\ cnt = TurnedCount(dir, next, move_cnt)
  OBVIOUS
<1>4. maze' = m
  BY <1>3 DEF TickBetween
<1>5. d \in Dirs /\ cnt \in 1 .. BlockLength(d) /\ \E s : Between(m, view, d, cnt, s)
  <2>1. Dimensions(m)
    BY <1>1, <1>3 DEF MazeOK
  <2>. QED
    BY <1>1, <1>2, <1>3, <2>1, TurnedTrack
<1>6. Move(d, cnt, m, w)
  BY <1>2, <1>3
<1>7. GameShown(m, view', w', dir', move_cnt') /\ last_dir' \in Dirs
  BY <1>1, <1>3, <1>5, <1>6, MoveShows
<1>. QED
  BY <1>4, <1>7

\* What a tick at a square finds
LEMMA AtSquare ==
  ASSUME BoundariesApart, PlayInv, place = "ticks", NEW next, TurnedCount(dir, next, move_cnt) = 0,
         NEW u, u = MazeAround(maze, Square(view)), NEW r, r = WindowAround(maze, w, Square(view))
  PROVE  /\ MazeOK(u) /\ u.xd = maze.xd /\ u.yd = maze.yd /\ Square(view) \in Interior(u)
         /\ IsAt(view, <<CornerX(Square(view)), CornerY(Square(view))>>)
         /\ move_cnt = 0
         /\ Held(r) /\ view \in Views /\ Following(view, u.xd, u.yd)
         /\ r.x = view.map_x /\ r.y = view.map_y /\ Shows(u, r)
<1>1. /\ MazeOK(maze) /\ Held(w) /\ view \in Views /\ Following(view, maze.xd, maze.yd)
      /\ w.x = view.map_x /\ w.y = view.map_y /\ Shows(maze, w)
      /\ OnTrack(maze, view, dir, move_cnt)
  BY DEF PlayInv, GameShown, Playing
<1>2. PICK m : m = maze
  OBVIOUS
<1>3. move_cnt = 0 /\ \E s \in Interior(m) : IsAt(view, <<CornerX(s), CornerY(s)>>)
  <2>1. Dimensions(m)
    BY <1>1, <1>2 DEF MazeOK
  <2>. QED
    BY <1>1, <1>2, <2>1, TurnedTrack
<1>4. PICK s \in Interior(m) : IsAt(view, <<CornerX(s), CornerY(s)>>)
  BY <1>3
<1>5. Square(view) = s
  <2>1. Dimensions(m)
    BY <1>1, <1>2 DEF MazeOK
  <2>. QED
    BY <1>4, <2>1, SquareIs
<1>6. u = MazeAround(m, s) /\ r = WindowAround(m, w, s)
  BY <1>2, <1>5
<1>7. /\ MazeOK(u) /\ u.xd = m.xd /\ u.yd = m.yd /\ s \in Interior(u)
      /\ Held(r) /\ Following(view, u.xd, u.yd) /\ r.x = view.map_x /\ r.y = view.map_y /\ Shows(u, r)
  BY <1>1, <1>2, <1>4, <1>6, AroundGame
<1>. QED
  BY <1>1, <1>2, <1>3, <1>4, <1>5, <1>7

LEMMA SquareShows ==
  ASSUME BoundariesApart, PlayInv, TickAtSquare
  PROVE  GameShown(maze', view', w', dir', move_cnt') /\ last_dir' \in Dirs
<1>1. PICK next \in NextDirs :
        /\ TurnedCount(dir, next, move_cnt) = 0
        /\ LET d == LeaveDir(TurnedDir(dir, next), next, FindOpenDirections(maze', Square(view)[1], Square(view)[2]))
           IN  Move(d, IF d = DIR_STOP THEN 0 ELSE BlockLength(d), maze', WindowAround(maze, w, Square(view)))
  BY DEF TickAtSquare
<1>2. PICK u, r : u = MazeAround(maze, Square(view)) /\ r = WindowAround(maze, w, Square(view))
  OBVIOUS
<1>3. PICK s : s = Square(view)
  OBVIOUS
<1>4. /\ MazeOK(u) /\ u.xd = maze.xd /\ u.yd = maze.yd /\ s \in Interior(u)
      /\ IsAt(view, <<CornerX(s), CornerY(s)>>)
      /\ Held(r) /\ view \in Views /\ Following(view, u.xd, u.yd)
      /\ r.x = view.map_x /\ r.y = view.map_y /\ Shows(u, r)
  <2>1. place = "ticks"
    BY DEF TickAtSquare
  <2>. QED
    BY <1>1, <1>2, <1>3, <2>1, AtSquare
<1>5. maze' = u
  BY <1>2 DEF TickAtSquare
<1>6. PICK open : open = FindOpenDirections(u, s[1], s[2])
  OBVIOUS
<1>7. PICK d, cnt : /\ d = LeaveDir(TurnedDir(dir, next), next, open)
                    /\ cnt = IF d = DIR_STOP THEN 0 ELSE BlockLength(d)
  OBVIOUS
<1>8. Move(d, cnt, u, r)
  BY <1>1, <1>2, <1>3, <1>5, <1>6, <1>7
<1>9. d = DIR_STOP \/ d \in open
  BY <1>7 DEF LeaveDir
<1>10. \/ d = DIR_STOP /\ \E t \in Interior(u) : IsAt(view, <<CornerX(t), CornerY(t)>>)
       \/ d \in Dirs /\ cnt \in 1 .. BlockLength(d) /\ \E t : Between(u, view, d, cnt, t)
  <2>1. CASE d = DIR_STOP
    BY <1>4, <2>1
  <2>2. CASE d # DIR_STOP
    <3>1. d \in FindOpenDirections(u, s[1], s[2]) /\ cnt = BlockLength(d)
      BY <1>6, <1>7, <1>9, <2>2
    <3>2. d \in Dirs /\ Ahead(s, d) \in Interior(u)
      BY <1>4, <3>1, OpenInside
    <3>3. BlockLength(d) \in 1 .. BlockLength(d) /\ Between(u, view, d, BlockLength(d), Ahead(s, d))
      BY <1>4, <3>2, LeavesOn DEF MazeOK
    <3>. QED
      BY <3>1, <3>2, <3>3
  <2>. QED
    BY <2>1, <2>2
<1>11. last_dir \in Dirs
  BY DEF PlayInv
<1>12. GameShown(u, view', w', dir', move_cnt') /\ last_dir' \in Dirs
  BY <1>4, <1>8, <1>10, <1>11, MoveShows
<1>. QED
  BY <1>5, <1>12

LEMMA WinsShows ==
  ASSUME BoundariesApart, PlayInv, TickWins
  PROVE  GameShown(maze', view', w', dir', move_cnt')
<1>1. PICK next \in NextDirs : TurnedCount(dir, next, move_cnt) = 0
  BY DEF TickWins
<1>2. PICK u, r : u = MazeAround(maze, Square(view)) /\ r = WindowAround(maze, w, Square(view))
  OBVIOUS
<1>3. PICK s, d : s = Square(view) /\ d = dir'
  OBVIOUS
<1>4. /\ MazeOK(u) /\ s \in Interior(u) /\ move_cnt = 0
      /\ IsAt(view, <<CornerX(s), CornerY(s)>>)
      /\ Held(r) /\ view \in Views /\ Following(view, u.xd, u.yd)
      /\ r.x = view.map_x /\ r.y = view.map_y /\ Shows(u, r)
  <2>1. place = "ticks"
    BY DEF TickWins
  <2>. QED
    BY <1>1, <1>2, <1>3, <2>1, AtSquare
<1>5. OnTrack(u, view, d, 0)
  BY <1>4 DEF OnTrack
<1>6. maze' = u /\ w' = r /\ view' = view /\ move_cnt' = move_cnt
  BY <1>2 DEF TickWins
<1>. QED
  BY <1>3, <1>4, <1>5, <1>6 DEF GameShown

LEMMA FrameShows ==
  ASSUME PlayInv, Frame
  PROVE  GameShown(maze', view', w', dir', move_cnt')
<1>1. GameShown(maze, view, w, dir, move_cnt) /\ text \in BOOLEAN
  BY DEF PlayInv, WindowInv, Playing, Frame
<1>2. PICK m, v, d, c, nw : m = maze /\ v = view /\ d = dir /\ c = move_cnt /\ nw = w'
  OBVIOUS
<1>3. nw = Erased(w, view, last_dir, text)
  BY <1>2 DEF Frame, ShowFrame
<1>4. Drawn(w, nw) /\ \A p \in Window(w) : At(nw, p) = At(w, p)
  BY <1>1, <1>3, ErasedIs DEF GameShown
<1>5. Held(nw) /\ nw.x = w.x /\ nw.y = w.y /\ Shows(m, nw)
  BY <1>1, <1>2, <1>4, StillShows DEF GameShown, Drawn
<1>6. GameShown(m, v, nw, d, c)
  BY <1>1, <1>2, <1>5 DEF GameShown
<1>7. maze' = m /\ view' = v /\ dir' = d /\ move_cnt' = c
  BY <1>2 DEF Frame
<1>. QED
  BY <1>2, <1>6, <1>7

LEMMA PlayNext == BoundariesApart /\ PlayInv /\ [Next]_vars => PlayInv'
<1>. SUFFICES ASSUME BoundariesApart, PlayInv, [Next]_vars PROVE PlayInv'
  OBVIOUS
<1>1. WindowInv'
  BY WindowNext DEF PlayInv
<1>2. level \in Nat \ {0} /\ last_dir \in Dirs /\ (Playing => GameShown(maze, view, w, dir, move_cnt))
  BY DEF PlayInv
<1>3. CASE StartLevel
  <2>1. GameShown(maze', view', w', dir', move_cnt')
    BY <1>3, StartShows
  <2>2. level' = level /\ last_dir' = DIR_UP
    BY <1>3 DEF StartLevel
  <2>. QED
    BY <1>1, <1>2, <2>1, <2>2, ReverseIs DEF PlayInv
<1>4. CASE Interrupt
  <2>1. /\ level' = level /\ last_dir' = last_dir /\ maze' = maze /\ view' = view /\ w' = w
        /\ dir' = dir /\ move_cnt' = move_cnt /\ Playing
    BY <1>4 DEF Interrupt, Playing
  <2>. QED
    BY <1>1, <1>2, <2>1 DEF PlayInv
<1>5. CASE EndLevel
  <2>1. level' = level + 1 /\ last_dir' = last_dir /\ place' = "level"
    BY <1>5 DEF EndLevel
  <2>. QED
    BY <1>1, <1>2, <2>1 DEF PlayInv, Playing
<1>6. CASE TickBetween
  <2>1. GameShown(maze', view', w', dir', move_cnt') /\ last_dir' \in Dirs
    BY <1>6, BetweenShows
  <2>2. level' = level
    BY <1>6 DEF TickBetween, Move
  <2>. QED
    BY <1>1, <1>2, <2>1, <2>2 DEF PlayInv
<1>7. CASE TickAtSquare
  <2>1. GameShown(maze', view', w', dir', move_cnt') /\ last_dir' \in Dirs
    BY <1>7, SquareShows
  <2>2. level' = level
    BY <1>7 DEF TickAtSquare, Move
  <2>. QED
    BY <1>1, <1>2, <2>1, <2>2 DEF PlayInv
<1>8. CASE TickWins
  <2>1. GameShown(maze', view', w', dir', move_cnt')
    BY <1>8, WinsShows
  <2>2. level' = level /\ last_dir' = last_dir
    BY <1>8 DEF TickWins
  <2>. QED
    BY <1>1, <1>2, <2>1, <2>2 DEF PlayInv
<1>9. CASE Frame
  <2>1. GameShown(maze', view', w', dir', move_cnt')
    BY <1>9, FrameShows
  <2>2. level' = level /\ last_dir' = last_dir
    BY <1>9 DEF Frame
  <2>. QED
    BY <1>1, <1>2, <2>1, <2>2 DEF PlayInv
<1>10. CASE ClearModeX
  <2>1. level' = level /\ last_dir' = last_dir /\ ~Playing'
    BY <1>10 DEF ClearModeX, Playing
  <2>. QED
    BY <1>1, <1>2, <2>1 DEF PlayInv
<1>11. CASE UNCHANGED vars
  BY <1>1, <1>2, <1>11 DEF PlayInv, Playing, vars
<1>. QED
  BY <1>3, <1>4, <1>5, <1>6, <1>7, <1>8, <1>9, <1>10, <1>11 DEF Next

\* Whatever the levels, the moves and the interrupts: the build buffer holds
\* the maze of the window, pixel for pixel, when the thread waits and after
\* every tick, though a move draws one line and a square only what it unveils.
THEOREM BufferShowsMazeCorrect == BoundariesApart /\ Spec => []BufferShowsMaze
<1>. SUFFICES ASSUME BoundariesApart PROVE Spec => []BufferShowsMaze
  OBVIOUS
<1>1. PlayInv => BufferShowsMaze
  BY DEF PlayInv, GameShown, Shows, BufferShowsMaze
<1>2. PlayInv /\ [Next]_vars => PlayInv'
  BY PlayNext
<1>. QED
  BY <1>1, <1>2, PlayInit, PTL DEF Spec

----------------------------------------------------------------------------
(* The status bar and the fruits. *)

\* A frame's ticks do not take the player over a whole square.
TicksInSquare == MaxTicks <= BLOCK_X_DIM /\ MaxTicks <= BLOCK_Y_DIM

\* The player is at most MaxTicks pixels from the square s when the ticks end.
Near(v, s, t) ==
    /\ v.x - CornerX(s) + t <= MaxTicks /\ CornerX(s) - v.x + t <= MaxTicks
    /\ v.y - CornerY(s) + t <= MaxTicks /\ CornerY(s) - v.y + t <= MaxTicks

\* n tells the fruits of m, or one more: that one was eaten where the player
\* has been since, and still is near.
Told(m, n, v, t) ==
    \/ n = m.n_fruits
    \/ /\ n = m.n_fruits + 1
       /\ \E s \in Interior(m) : m.cell[IndexAt(m, s)].fruit = 0 /\ Near(v, s, t)

BarInv ==
    /\ Playing => bar[1] = level
    /\ place = "ticks" => ticks \in 0 .. MaxTicks /\ Told(maze, bar[2], view, ticks)

LEMMA TicksAre == MaxTicks \in Nat
BY LevelAssumption

LEMMA OneNear ==
  ASSUME TicksInSquare, NEW m, Dimensions(m), NEW v \in Views, NEW s \in Interior(m),
         IsAt(v, <<CornerX(s), CornerY(s)>>), NEW q \in Interior(m), NEW t \in Nat \ {0}, Near(v, q, t)
  PROVE  q = s
<1>1. PICK a \in Int, b \in Int, c \in Int, e \in Int, bx \in Nat \ {0}, by \in Nat \ {0}, k \in Nat :
        /\ a = s[1] /\ b = s[2] /\ c = q[1] /\ e = q[2] /\ bx = BLOCK_X_DIM /\ by = BLOCK_Y_DIM
        /\ k = MaxTicks /\ k <= bx /\ k <= by /\ s = <<a, b>> /\ q = <<c, e>>
  BY InsideIs, SizesAre, TicksAre DEF TicksInSquare
<1>2. v.x = a * bx /\ v.y = b * by /\ CornerX(q) = c * bx /\ CornerY(q) = e * by
  BY <1>1 DEF IsAt, CornerX, CornerY
<1>3. a * bx - c * bx < bx /\ c * bx - a * bx < bx /\ b * by - e * by < by /\ e * by - b * by < by
  <2>1. PICK x \in Int, y \in Int, cx \in Int, cy \in Int : x = v.x /\ y = v.y /\ cx = CornerX(q) /\ cy = CornerY(q)
    BY InsideIs DEF Views
  <2>2. x - cx + t <= k /\ cx - x + t <= k /\ y - cy + t <= k /\ cy - y + t <= k
    BY <1>1, <2>1 DEF Near
  <2>3. x - cx < bx /\ cx - x < bx /\ y - cy < by /\ cy - y < by
    <3>1. k <= bx /\ k <= by
      BY <1>1
    <3>. QED
      BY <2>2, <3>1
  <2>. QED
    BY <1>2, <2>1, <2>3
<1>4. a = c
  <2>1. (a - c) * bx = a * bx - c * bx
    OBVIOUS
  <2>2. ASSUME a > c PROVE FALSE
    <3>1. (a - c - 1) * bx >= 0 /\ (a - c - 1) * bx = (a - c) * bx - bx
      BY <2>2
    <3>. QED
      BY <1>3, <2>1, <3>1
  <2>3. ASSUME c > a PROVE FALSE
    <3>1. (c - a - 1) * bx >= 0 /\ (c - a - 1) * bx = c * bx - a * bx - bx
      BY <2>3
    <3>. QED
      BY <1>3, <3>1
  <2>. QED
    BY <2>2, <2>3
<1>5. b = e
  <2>1. (b - e) * by = b * by - e * by
    OBVIOUS
  <2>2. ASSUME b > e PROVE FALSE
    <3>1. (b - e - 1) * by >= 0 /\ (b - e - 1) * by = (b - e) * by - by
      BY <2>2
    <3>. QED
      BY <1>3, <2>1, <3>1
  <2>3. ASSUME e > b PROVE FALSE
    <3>1. (e - b - 1) * by >= 0 /\ (e - b - 1) * by = e * by - b * by - by
      BY <2>3
    <3>. QED
      BY <1>3, <3>1
  <2>. QED
    BY <2>2, <2>3
<1>. QED
  BY <1>1, <1>4, <1>5

LEMMA StepsNear ==
  ASSUME NEW m, Dimensions(m), NEW v \in Views, NEW s \in Interior(m), NEW t \in Nat \ {0}, Near(v, s, t),
         NEW d \in Dirs, NEW xd, NEW yd, NEW r, r = Moved(v, d, xd, yd)
  PROVE  Near(r, s, t - 1)
<1>1. PICK x \in Int, y \in Int, cx \in Int, cy \in Int, k \in Nat :
        /\ x = v.x /\ y = v.y /\ cx = CornerX(s) /\ cy = CornerY(s) /\ k = MaxTicks
        /\ x - cx + t <= k /\ cx - x + t <= k /\ y - cy + t <= k /\ cy - y + t <= k
  BY InsideIs, TicksAre DEF Views, Near
<1>2. \/ r.x = x /\ (r.y = y - 1 \/ r.y = y + 1)
      \/ r.y = y /\ (r.x = x - 1 \/ r.x = x + 1)
  BY <1>1, MovedFields, DirIs
<1>3. PICK nx \in Int, ny \in Int : /\ nx = r.x /\ ny = r.y
                                    /\ \/ nx = x /\ (ny = y - 1 \/ ny = y + 1)
                                       \/ ny = y /\ (nx = x - 1 \/ nx = x + 1)
  BY <1>2
<1>4. /\ nx - cx + (t - 1) <= k /\ cx - nx + (t - 1) <= k
      /\ ny - cy + (t - 1) <= k /\ cy - ny + (t - 1) <= k
  BY <1>1, <1>3
<1>. QED
  BY <1>1, <1>3, <1>4 DEF Near

LEMMA WaitsNear ==
  ASSUME NEW m, Dimensions(m), NEW v \in Views, NEW s \in Interior(m), NEW t \in Nat, Near(v, s, t),
         NEW n \in 0 .. t
  PROVE  Near(v, s, n)
<1>1. v.x \in Int /\ v.y \in Int /\ CornerX(s) \in Int /\ CornerY(s) \in Int /\ MaxTicks \in Nat
  BY InsideIs, TicksAre DEF Views
<1>. QED
  BY <1>1 DEF Near

\* A tick that moves the player by a pixel, or not at all
LEMMA MoveTold ==
  ASSUME NEW m, Dimensions(m), NEW win, view \in Views, NEW t \in Nat \ {0}, t = ticks,
         NEW n, Told(m, n, view, t), NEW d \in Dirs \cup {DIR_STOP}, NEW cnt, Move(d, cnt, m, win)
  PROVE  Told(m, n, view', t - 1)
<1>1. PICK v, r : v = view /\ r = view'
  OBVIOUS
<1>2. \A s \in Interior(m) : Near(v, s, t) => Near(r, s, t - 1)
  <2>. SUFFICES ASSUME NEW s \in Interior(m), Near(v, s, t) PROVE Near(r, s, t - 1)
    OBVIOUS
  <2>1. CASE d = DIR_STOP
    <3>1. r = v
      BY <1>1, <2>1 DEF Move
    <3>2. t - 1 \in 0 .. t
      OBVIOUS
    <3>. QED
      BY <1>1, <3>1, <3>2, WaitsNear
  <2>2. CASE d \in Dirs
    <3>1. d # DIR_STOP
      BY <2>2, ReverseIs
    <3>2. PICK xd, yd : r = Moved(v, d, xd, yd)
      BY <1>1, <3>1 DEF Move
    <3>. QED
      BY <1>1, <2>2, <3>2, StepsNear
  <2>. QED
    BY <2>1, <2>2
<1>3. Told(m, n, r, t - 1)
  BY <1>1, <1>2 DEF Told
<1>. QED
  BY <1>1, <1>3

\* At a square a fruit may be eaten, if none was since the bar was drawn.
LEMMA AroundTold ==
  ASSUME TicksInSquare, NEW m, MazeOK(m), NEW v \in Views, NEW s \in Interior(m),
         IsAt(v, <<CornerX(s), CornerY(s)>>), NEW t \in 1 .. MaxTicks, NEW n, Told(m, n, v, t),
         NEW u, u = MazeAround(m, s)
  PROVE  Told(u, n, v, t)
<1>1. /\ MazeOK(u) /\ u.xd = m.xd /\ u.yd = m.yd
      /\ \A i \in Indices : m.cell[i].fruit = 0 => u.cell[i].fruit = 0
      /\ u.cell[IndexAt(m, s)].fruit = 0
      /\ \/ u.n_fruits = m.n_fruits
         \/ m.cell[IndexAt(m, s)].fruit # 0 /\ u.n_fruits = m.n_fruits - 1
      /\ u.n_fruits \in Nat /\ m.n_fruits \in Nat
  BY MazeAroundIs
<1>2. Interior(u) = Interior(m) /\ \A q : IndexAt(u, q) = IndexAt(m, q)
  BY <1>1 DEF Interior, IndexAt
<1>3. Dimensions(m)
  BY DEF MazeOK
<1>4. \A q \in Interior(m) : IndexAt(m, q) \in Indices
  BY <1>3, InteriorIs
<1>5. t \in Nat \ {0}
  BY TicksAre
<1>6. CASE u.n_fruits = m.n_fruits
  BY <1>1, <1>2, <1>4, <1>6 DEF Told
<1>7. CASE m.cell[IndexAt(m, s)].fruit # 0 /\ u.n_fruits = m.n_fruits - 1
  <2>1. n = m.n_fruits
    <3>. SUFFICES ASSUME NEW q \in Interior(m), m.cell[IndexAt(m, q)].fruit = 0, Near(v, q, t) PROVE FALSE
      BY DEF Told
    <3>1. q = s
      BY <1>3, <1>5, OneNear
    <3>. QED
      BY <1>7, <3>1
  <2>2. n = u.n_fruits + 1
    BY <1>1, <1>7, <2>1
  <2>3. Near(v, s, t)
    <3>1. PICK cx \in Int, cy \in Int, k \in Nat : cx = CornerX(s) /\ cy = CornerY(s) /\ k = MaxTicks /\ t \in 1 .. k
      BY <1>3, InsideIs, TicksAre
    <3>2. v.x = cx /\ v.y = cy
      BY <3>1 DEF IsAt
    <3>. QED
      BY <3>1, <3>2 DEF Near
  <2>. QED
    BY <1>1, <1>2, <2>2, <2>3 DEF Told
<1>. QED
  BY <1>1, <1>6, <1>7

LEMMA BarInit == Init => BarInv
BY DEF Init, BarInv, Playing

LEMMA BarBetween ==
  ASSUME PlayInv, BarInv, TickBetween
  PROVE  BarInv'
<1>1. /\ MazeOK(maze) /\ view \in Views /\ OnTrack(maze, view, dir, move_cnt)
      /\ place = "ticks" /\ ticks > 0 /\ ticks \in 0 .. MaxTicks /\ bar[1] = level
      /\ Told(maze, bar[2], view, ticks)
  BY DEF PlayInv, GameShown, Playing, TickBetween, BarInv
<1>2. PICK next : /\ TurnedCount(dir, next, move_cnt) # 0
                  /\ Move(TurnedDir(dir, next), TurnedCount(dir, next, move_cnt), maze, w)
  BY DEF TickBetween
<1>3. PICK m, d, cnt, n, t, v : /\ m = maze /\ d = TurnedDir(dir, next) /\ cnt = TurnedCount(dir, next, move_cnt)
                                /\ n = bar[2] /\ t = ticks /\ v = view'
  OBVIOUS
<1>4. d \in Dirs
  <2>1. Dimensions(m)
    BY <1>1, <1>3 DEF MazeOK
  <2>. QED
    BY <1>1, <1>2, <1>3, <2>1, TurnedTrack
<1>5. Move(d, cnt, m, w)
  BY <1>2, <1>3
<1>6. t \in Nat \ {0} /\ t \in 0 .. MaxTicks /\ t - 1 \in 0 .. MaxTicks
  BY <1>1, <1>3, TicksAre
<1>7. Told(m, n, view', t - 1)
  <2>1. Dimensions(m) /\ Told(m, n, view, t)
    BY <1>1, <1>3 DEF MazeOK
  <2>. QED
    BY <1>1, <1>3, <1>4, <1>5, <1>6, <2>1, MoveTold
<1>8. place' = place /\ level' = level /\ bar' = bar /\ ticks' = t - 1 /\ maze' = m
  BY <1>3, <1>5 DEF Move, TickBetween
<1>9. Told(maze', bar[2]', v, ticks')
  BY <1>3, <1>7, <1>8
<1>. QED
  BY <1>1, <1>3, <1>6, <1>8, <1>9 DEF BarInv

LEMMA BarAtSquare ==
  ASSUME BoundariesApart, TicksInSquare, PlayInv, BarInv, TickAtSquare
  PROVE  BarInv'
<1>1. PICK next \in NextDirs :
        /\ TurnedCount(dir, next, move_cnt) = 0
        /\ LET d == LeaveDir(TurnedDir(dir, next), next, FindOpenDirections(maze', Square(view)[1], Square(view)[2]))
           IN  Move(d, IF d = DIR_STOP THEN 0 ELSE BlockLength(d), maze', WindowAround(maze, w, Square(view)))
  BY DEF TickAtSquare
<1>2. PICK m, u, r, s, n, t, v : /\ u = MazeAround(maze, Square(view)) /\ r = WindowAround(maze, w, Square(view))
                                 /\ m = maze /\ s = Square(view) /\ n = bar[2] /\ t = ticks /\ v = view'
  OBVIOUS
<1>3. /\ MazeOK(m) /\ place = "ticks" /\ ticks > 0 /\ t \in 0 .. MaxTicks /\ bar[1] = level
      /\ Told(m, n, view, t)
  BY <1>2 DEF PlayInv, GameShown, Playing, TickAtSquare, BarInv
<1>4. /\ MazeOK(u) /\ u.xd = m.xd /\ u.yd = m.yd /\ s \in Interior(u)
      /\ IsAt(view, <<CornerX(s), CornerY(s)>>) /\ view \in Views
  BY <1>1, <1>2, <1>3, AtSquare
<1>5. s \in Interior(m)
  BY <1>4 DEF Interior
<1>6. t \in Nat \ {0} /\ t \in 1 .. MaxTicks /\ t - 1 \in 0 .. MaxTicks
  BY <1>2, <1>3, TicksAre
<1>7. Told(u, n, view, t)
  <2>1. PICK at : at = view
    OBVIOUS
  <2>2. Told(u, n, at, t)
    BY <1>2, <1>3, <1>4, <1>5, <1>6, <2>1, AroundTold
  <2>. QED
    BY <2>1, <2>2
<1>8. maze' = u
  BY <1>2 DEF TickAtSquare
<1>9. PICK d, cnt : /\ d = LeaveDir(TurnedDir(dir, next), next, FindOpenDirections(u, s[1], s[2]))
                    /\ cnt = IF d = DIR_STOP THEN 0 ELSE BlockLength(d)
  OBVIOUS
<1>10. Move(d, cnt, u, r)
  BY <1>1, <1>2, <1>8, <1>9
<1>11. d \in Dirs \cup {DIR_STOP}
  <2>1. CASE d \in FindOpenDirections(u, s[1], s[2])
    BY <1>4, <2>1, OpenInside
  <2>2. CASE d = DIR_STOP
    BY <2>2
  <2>. QED
    BY <1>9, <2>1, <2>2 DEF LeaveDir
<1>12. Told(u, n, view', t - 1)
  <2>1. Dimensions(u)
    BY <1>4 DEF MazeOK
  <2>. QED
    BY <1>2, <1>4, <1>6, <1>7, <1>10, <1>11, <2>1, MoveTold
<1>13. place' = place /\ level' = level /\ bar' = bar /\ ticks' = t - 1
  BY <1>2, <1>10 DEF Move
<1>14. Told(maze', bar[2]', v, ticks')
  BY <1>2, <1>8, <1>12, <1>13
<1>. QED
  BY <1>2, <1>3, <1>6, <1>13, <1>14 DEF BarInv

LEMMA BarWins ==
  ASSUME BoundariesApart, TicksInSquare, PlayInv, BarInv, TickWins
  PROVE  BarInv'
<1>1. PICK next \in NextDirs : TurnedCount(dir, next, move_cnt) = 0
  BY DEF TickWins
<1>2. PICK m, u, r, s, n, t : /\ u = MazeAround(maze, Square(view)) /\ r = WindowAround(maze, w, Square(view))
                              /\ m = maze /\ s = Square(view) /\ n = bar[2] /\ t = ticks
  OBVIOUS
<1>3. /\ MazeOK(m) /\ place = "ticks" /\ ticks > 0 /\ t \in 0 .. MaxTicks /\ bar[1] = level
      /\ Told(m, n, view, t)
  BY <1>2 DEF PlayInv, GameShown, Playing, TickWins, BarInv
<1>4. /\ MazeOK(u) /\ u.xd = m.xd /\ u.yd = m.yd /\ s \in Interior(u)
      /\ IsAt(view, <<CornerX(s), CornerY(s)>>) /\ view \in Views
  BY <1>1, <1>2, <1>3, AtSquare
<1>5. s \in Interior(m)
  BY <1>4 DEF Interior
<1>6. t \in Nat /\ t \in 1 .. MaxTicks /\ 0 \in 0 .. t /\ 0 \in 0 .. MaxTicks
  BY <1>2, <1>3, TicksAre
<1>7. PICK at : at = view
  OBVIOUS
<1>8. Told(u, n, at, t)
  BY <1>2, <1>3, <1>4, <1>5, <1>6, <1>7, AroundTold
<1>9. Told(u, n, at, 0)
  <2>1. Dimensions(u)
    BY <1>4 DEF MazeOK
  <2>2. \A q \in Interior(u) : Near(at, q, t) => Near(at, q, 0)
    <3>1. PICK z \in 0 .. t : z = 0
      BY <1>6
    <3>. QED
      BY <1>4, <1>6, <1>7, <2>1, <3>1, WaitsNear
  <2>. QED
    BY <1>8, <2>2 DEF Told
<1>10. /\ place' = place /\ level' = level /\ bar' = bar /\ ticks' = 0 /\ maze' = u /\ view' = at
  BY <1>2, <1>7 DEF TickWins
<1>. QED
  BY <1>2, <1>3, <1>6, <1>9, <1>10 DEF BarInv

LEMMA BarNext == BoundariesApart /\ TicksInSquare /\ PlayInv /\ BarInv /\ [Next]_vars => BarInv'
<1>. SUFFICES ASSUME BoundariesApart, TicksInSquare, PlayInv, BarInv, [Next]_vars PROVE BarInv'
  OBVIOUS
<1>1. Playing => bar[1] = level
  BY DEF BarInv
<1>2. CASE StartLevel
  <2>1. bar' = <<level, maze'.n_fruits>> /\ level' = level /\ place' = "loop"
    BY <1>2 DEF StartLevel, ShowBar
  <2>. QED
    BY <2>1 DEF BarInv
<1>3. CASE Interrupt
  <2>1. bar' = <<level, maze.n_fruits>> /\ level' = level /\ maze' = maze /\ ticks' \in 1 .. MaxTicks
    BY <1>3 DEF Interrupt, ShowBar
  <2>2. ticks' \in 0 .. MaxTicks
    BY <2>1, TicksAre
  <2>3. Told(maze', bar[2]', view', ticks')
    BY <2>1 DEF Told
  <2>. QED
    BY <2>1, <2>2, <2>3 DEF BarInv
<1>4. CASE EndLevel
  <2>1. place' = "level"
    BY <1>4 DEF EndLevel
  <2>. QED
    BY <2>1 DEF BarInv, Playing
<1>5. CASE TickBetween
  BY <1>5, BarBetween
<1>6. CASE TickAtSquare
  BY <1>6, BarAtSquare
<1>7. CASE TickWins
  BY <1>7, BarWins
<1>8. CASE Frame
  <2>1. place = "ticks" /\ place' = "loop" /\ bar' = bar /\ level' = level
    BY <1>8 DEF Frame
  <2>. QED
    BY <1>1, <2>1 DEF BarInv, Playing
<1>9. CASE ClearModeX
  <2>1. place' \in {"ended", "broken"}
    BY <1>9 DEF ClearModeX
  <2>. QED
    BY <2>1 DEF BarInv, Playing
<1>10. CASE UNCHANGED vars
  BY <1>10 DEF BarInv, Playing, Told, vars
<1>. QED
  BY <1>2, <1>3, <1>4, <1>5, <1>6, <1>7, <1>8, <1>9, <1>10 DEF Next

LEMMA FrameIs ==
  ASSUME PlayInv, BarInv, Frame
  PROVE  /\ \A s \in Screen : screen'[s] = Expected(s)
         /\ bar[1] = level /\ bar[2] - maze.n_fruits \in 0 .. 1
<1>1. /\ Playing /\ GameShown(maze, view, w, dir, move_cnt) /\ text \in BOOLEAN /\ last_dir \in Dirs
      /\ ShowFrame(w, view, last_dir, text)
  BY DEF PlayInv, WindowInv, Playing, Frame
<1>2. ASSUME NEW s \in Screen PROVE screen'[s] = Expected(s)
  BY <1>1, FrameShown DEF GameShown
<1>3. bar[1] = level
  BY <1>1 DEF BarInv
<1>4. bar[2] = maze.n_fruits \/ bar[2] = maze.n_fruits + 1
  BY DEF BarInv, Frame, Told
<1>5. maze.n_fruits \in Nat
  <2>1. PICK m : m = maze
    OBVIOUS
  <2>2. PICK s \in Interior(m) : TRUE
    BY <1>1, <2>1 DEF GameShown, OnTrack
  <2>3. PICK u : u = MazeAround(m, s)
    OBVIOUS
  <2>. QED
    BY <1>1, <2>1, <2>2, <2>3, MazeAroundIs DEF GameShown
<1>. QED
  BY <1>2, <1>3, <1>4, <1>5

\* Whatever the game: a frame shows the maze of the window, the player over it
\* and the text over both, each pixel in its place, and the status bar tells
\* this level and at most one fruit more than are left.
THEOREM FrameShowsGameCorrect == BoundariesApart /\ TicksInSquare /\ Spec => FrameShowsGame
<1>. SUFFICES ASSUME BoundariesApart, TicksInSquare PROVE Spec => FrameShowsGame
  OBVIOUS
<1>1. PlayInv /\ [Next]_vars => PlayInv'
  BY PlayNext
<1>2. PlayInv /\ BarInv /\ [Next]_vars => BarInv'
  BY BarNext
<1>3. PlayInv /\ BarInv /\ [Next]_vars
        => [Frame => /\ \A s \in Screen : screen'[s] = Expected(s)
                     /\ bar[1] = level /\ bar[2] - maze.n_fruits \in 0 .. 1]_vars
  BY FrameIs
<1>. QED
  BY <1>1, <1>2, <1>3, PlayInit, BarInit, PTL DEF Spec, FrameShowsGame
=============================================================================
