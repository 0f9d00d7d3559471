---------------------------- MODULE KernelProofs ----------------------------
(***************************************************************************)
(* What the kernels do with a launch of any shape, on any memory: which    *)
(* points their loop heads share out, with a tail that LOCAL_STRIDE can    *)
(* leave to nobody; the cells that every work item reads, writes and adds  *)
(* to between two barriers, its footprint; that footprints stay inside of  *)
(* the buffers that the wrappers allocate; that footprints of two items    *)
(* have no cell in common that is not read by both, or added to by both,   *)
(* unless a barrier is between them; and that the items of a group meet    *)
(* the same barriers.                                                      *)
(***************************************************************************)
EXTENDS DeviceQueue, FiniteSetTheorems, WellFoundedInduction, TLAPS

\* Arithmetic: quotients, rests and products.
LEMMA DivMod ==
  ASSUME NEW a \in Int, NEW b \in Nat \ {0}
  PROVE  a \div b \in Int /\ a % b \in 0 .. b - 1 /\ a = b * (a \div b) + (a % b)
OBVIOUS

\* A multiple below another leaves room for one more.
LEMMA LessTimes ==
  ASSUME NEW x \in Int, NEW y \in Int, NEW b \in Nat \ {0}, x < y
  PROVE  b * x + b <= b * y
OBVIOUS

\* Products keep the order.
LEMMA TimesMonotone ==
  ASSUME NEW x \in Int, NEW y \in Int, NEW b \in Nat, x <= y
  PROVE  b * x <= b * y
OBVIOUS

\* Only one quotient and one rest make up a number.
LEMMA DivModUnique ==
  ASSUME NEW b \in Nat \ {0}, NEW k \in Int, NEW r \in 0 .. b - 1, NEW a \in Int, a = b * k + r
  PROVE  a \div b = k /\ a % b = r
<1> DEFINE q == a \div b
<1> DEFINE s == a % b
<1>1. q \in Int /\ s \in 0 .. b - 1 /\ a = b * q + s
  BY DivMod
<1> HIDE DEF q, s
<1>a. b * q \in Int /\ b * k \in Int
  BY <1>1
<1>2. CASE q < k
  <2>1. b * q + b <= b * k
    BY <1>1, <1>2, LessTimes
  <2> QED BY <2>1, <1>1, <1>a
<1>3. CASE k < q
  <2>1. b * k + b <= b * q
    BY <1>1, <1>3, LessTimes
  <2> QED BY <2>1, <1>1, <1>a
<1>4. CASE k = q
  BY <1>4, <1>1, <1>a DEF q, s
<1> QED
  BY <1>1, <1>2, <1>3, <1>4

\* So two ways to write a number are one.
LEMMA SameDivision ==
  ASSUME NEW b \in Nat \ {0}, NEW k \in Int, NEW l \in Int, NEW r \in 0 .. b - 1,
         NEW t \in 0 .. b - 1, b * k + r = b * l + t
  PROVE  k = l /\ r = t
<1>1. b * k \in Int /\ b * l \in Int
  OBVIOUS
<1>2. CASE k < l
  <2>1. b * k + b <= b * l
    BY <1>2, LessTimes
  <2>2. QED
    BY <1>1, <2>1
<1>3. CASE l < k
  <2>1. b * l + b <= b * k
    BY <1>3, LessTimes
  <2>2. QED
    BY <1>1, <2>1
<1>4. CASE k = l
  BY <1>1, <1>4
<1>5. QED
  BY <1>2, <1>3, <1>4

\* The parts of a number below c * b.
LEMMA DivBelow ==
  ASSUME NEW b \in Nat \ {0}, NEW c \in Nat, NEW a \in Nat, a < b * c
  PROVE  a \div b \in 0 .. c - 1
<1> DEFINE q == a \div b
<1> DEFINE s == a % b
<1>1. q \in Int /\ s \in 0 .. b - 1 /\ a = b * q + s
  BY DivMod
<1> HIDE DEF q, s
<1>2. b * q \in Int /\ b * c \in Int
  BY <1>1
<1>3. q >= 0
  <2>1. SUFFICES ASSUME q < 0 PROVE FALSE
    BY <1>1
  <2>2. b * q + b <= b * 0
    BY <1>1, <2>1, LessTimes
  <2>3. QED
    BY <1>1, <1>2, <2>2
<1>4. q < c
  <2>1. SUFFICES ASSUME c <= q PROVE FALSE
    BY <1>1
  <2>2. b * c <= b * q
    BY <1>1, <2>1, TimesMonotone
  <2>3. QED
    BY <1>1, <1>2, <2>2
<1>5. QED
  BY <1>1, <1>3, <1>4 DEF q

\* A quotient of natural numbers is one.
LEMMA DivNat ==
  ASSUME NEW b \in Nat \ {0}, NEW a \in Nat
  PROVE  a \div b \in Nat
<1>1. a < b * (a + 1)
  <2>1. 1 * (a + 1) <= (a + 1) * b
    BY TimesMonotone
  <2>2. QED
    BY <2>1
<1>2. QED
  BY <1>1, DivBelow

\* The one way to write a as a multiple of b and a rest.
Splits(a, b, q, r) ==
  /\ a = b * q + r
  /\ \A k \in Int, t \in 0 .. b - 1 : a = b * k + t => k = q /\ t = r

\* A number below c * b has a quotient below c and a rest below b.
LEMMA Rest ==
  ASSUME NEW b \in Nat \ {0}, NEW c \in Nat, NEW a \in Nat, a < b * c
  PROVE  \E q \in 0 .. c - 1, r \in 0 .. b - 1 : Splits(a, b, q, r)
<1>1. a \div b \in 0 .. c - 1
  BY DivBelow
<1>2. a % b \in 0 .. b - 1 /\ a = b * (a \div b) + (a % b)
  BY DivMod
<1>3. ASSUME NEW k \in Int, NEW t \in 0 .. b - 1, a = b * k + t
      PROVE  k = a \div b /\ t = a % b
  BY <1>3, DivModUnique
<1>4. Splits(a, b, a \div b, a % b)
  BY <1>2, <1>3 DEF Splits
<1>5. QED
  BY <1>1, <1>2, <1>4

\* Vectors of v points are dealt out to n visitors in turn: g visits the vector
\* at y, and p is in it.
Visits(v, n, g, p, y) ==
  y >= v * g /\ (y - v * g) % (v * n) = 0 /\ p \in y .. y + v - 1

\* The vector of p is p rounded down, and its number says whose turn it is.
LEMMA VisitTurns ==
  ASSUME NEW v \in Nat \ {0}, NEW n \in Nat \ {0}, NEW g \in 0 .. n - 1,
         NEW p \in Nat, NEW y \in Int
  PROVE  Visits(v, n, g, p, y) <=> y = v * (p \div v) /\ g = (p \div v) % n
<1> DEFINE r == v * n
<1> DEFINE z == y - v * g
<1>1. r \in Nat \ {0} /\ v * g \in Int /\ z \in Int /\ y = z + v * g
  OBVIOUS
<1>2. ASSUME NEW k \in Int PROVE r * k = v * (n * k) /\ v * (n * k + g) = v * (n * k) + v * g
                                 /\ n * k \in Int /\ r * k \in Int
  OBVIOUS
<1> HIDE DEF r, z
<1>3. ASSUME y >= v * g, z % r = 0, p \in y .. y + v - 1
      PROVE  y = v * (p \div v) /\ g = (p \div v) % n
  <2> DEFINE k == z \div r
  <2>1. k \in Int /\ z = r * k + (z % r)
    BY <1>1, DivMod
  <2> HIDE DEF k
  <2>2. r * k \in Int
    BY <1>2, <2>1
  <2>3. z = r * k
    BY <1>3, <2>1, <2>2
  <2>4. y = v * (n * k + g)
    BY <1>1, <1>2, <2>1, <2>3
  <2> DEFINE q == n * k + g
  <2>5. q \in Int
    BY <1>2, <2>1
  <2>6. q % n = g
    <3>1. q = n * k + g
      OBVIOUS
    <3> HIDE DEF q
    <3>2. QED
      BY <2>1, <2>5, <3>1, DivModUnique
  <2> HIDE DEF q
  <2>7. p - y \in 0 .. v - 1 /\ p = v * q + (p - y)
    <3>1. y = v * q
      BY <2>4 DEF q
    <3>2. QED
      BY <1>3, <3>1
  <2>8. p \div v = q
    BY <2>5, <2>7, DivModUnique
  <2>9. QED
    BY <2>4, <2>6, <2>8 DEF q
<1>4. ASSUME y = v * (p \div v), g = (p \div v) % n
      PROVE  y >= v * g /\ z % r = 0 /\ p \in y .. y + v - 1
  <2> DEFINE q == p \div v
  <2>1. q \in Nat
    BY DivNat
  <2>2. p % v \in 0 .. v - 1 /\ p = v * q + (p % v)
    BY DivMod
  <2> HIDE DEF q
  <2> DEFINE k == q \div n
  <2>3. k \in Nat
    BY <2>1, DivNat
  <2>4. q = n * k + (q % n)
    BY <2>1, DivMod
  <2> HIDE DEF k
  <2>5. q = n * k + g
    BY <1>4, <2>4 DEF q
  <2>6. z = r * k + 0
    <3>1. y = v * (n * k + g)
      BY <1>4, <2>5 DEF q
    <3>2. y = r * k + v * g
      BY <1>2, <2>3, <3>1
    <3>3. r * k \in Int
      BY <1>2, <2>3
    <3>4. QED
      BY <1>1, <3>2, <3>3
  <2>7. z % r = 0
    BY <1>1, <2>3, <2>6, DivModUnique
  <2>8. z >= 0
    <3>1. r * 0 <= r * k /\ r * 0 = 0 /\ r * k \in Int
      BY <1>1, <2>3, TimesMonotone
    <3>2. QED
      BY <1>1, <2>6, <3>1
  <2>9. y >= v * g
    BY <1>1, <2>8
  <2>10. y = v * q
    BY <1>4 DEF q
  <2>11. QED
    BY <2>2, <2>7, <2>9, <2>10
<1>5. QED
  BY <1>3, <1>4 DEF r, z, Visits

-----------------------------------------------------------------------------
(***************************************************************************)
(* Launches in one dimension                                               *)
(***************************************************************************)
Linear(L) ==
  /\ L.groups \in Nat \ {0} /\ L.local \in Nat \ {0} /\ L.cols = 1 /\ L.lcols = 1
  /\ L.vec \in Nat \ {0} /\ L.N \in Nat

\* One work item of the launch visits point p, and no other does.
OneVisitor(L, p) ==
  \E w \in Items(L) : \A u \in Items(L) : p \in Lanes(L, u) <=> u = w

\* What the ids and sizes of NDRange are in one dimension.
LEMMA LinearGeometry ==
  ASSUME NEW L, Linear(L)
  PROVE  /\ NumGroups0(L) = L.groups /\ LocalSize0(L) = L.local
         /\ GlobalSize0(L) = L.groups * L.local
         /\ \A w \in Items(L) :
              /\ Group0(L, w) = w[1] /\ Lid0(L, w) = w[2]
              /\ Gid0(L, w) = L.local * w[1] + w[2]
<1>1. \A x \in Int : x \div 1 = x
  <2>1. ASSUME NEW x \in Int PROVE x \div 1 = x
    BY DivModUnique, x = 1 * x + 0
  <2>2. QED
    BY <2>1
<1>2. GroupCols(L) = 1
  BY <1>1 DEF Linear, GroupCols
<1>3. QED
  BY <1>1, <1>2 DEF Linear, Items, NumGroups0, LocalSize0, GlobalSize0, Group0, Lid0, Gid0

\* The global id of an item is below the number of items.
LEMMA NumberOfItem ==
  ASSUME NEW L, L.groups \in Nat \ {0}, L.local \in Nat \ {0}, NEW u \in Items(L)
  PROVE  L.local * u[1] + u[2] \in 0 .. L.local * L.groups - 1
<1> DEFINE m == L.local
<1> DEFINE a == u[1]
<1>1. a \in 0 .. L.groups - 1 /\ u[2] \in 0 .. m - 1 /\ m \in Nat \ {0}
  BY DEF Items
<1> HIDE DEF m, a
<1>2. m * a \in Int /\ m * L.groups \in Int /\ m * a >= 0 /\ m * a + m <= m * L.groups
  BY <1>1, LessTimes
<1>3. QED
  BY <1>1, <1>2 DEF m, a

\* Items are numbered, and each number belongs to one.
LEMMA ItemOfNumber ==
  ASSUME NEW L, L.groups \in Nat \ {0}, L.local \in Nat \ {0},
         NEW g \in 0 .. L.local * L.groups - 1
  PROVE  \E w \in Items(L) : \A u \in Items(L) : L.local * u[1] + u[2] = g <=> u = w
<1> DEFINE m == L.local
<1>1. m \in Nat \ {0} /\ L.groups \in Nat \ {0} /\ m * L.groups \in Nat
  OBVIOUS
<1> HIDE DEF m
<1>2. g \in Nat /\ g < m * L.groups
  BY <1>1 DEF m
<1> DEFINE q == g \div m
<1> DEFINE s == g % m
<1>3. q \in 0 .. L.groups - 1 /\ s \in 0 .. m - 1 /\ g = m * q + s
  <2>1. g \div m \in 0 .. L.groups - 1
    BY <1>1, <1>2, DivBelow
  <2>2. g % m \in 0 .. m - 1 /\ g = m * (g \div m) + (g % m)
    <3>1. g \in Int
      BY <1>2
    <3>2. QED
      BY <1>1, <3>1, DivMod
  <2>3. QED
    BY <2>1, <2>2
<1>4. <<q, s>> \in Items(L)
  <2> HIDE DEF q, s
  <2> QED BY <1>3 DEF Items, m
<1>5. ASSUME NEW u \in Items(L), m * u[1] + u[2] = g PROVE u = <<q, s>>
  <2>1. u[1] \in Int /\ u[2] \in 0 .. m - 1 /\ u = <<u[1], u[2]>>
    BY <1>1 DEF Items, m
  <2>2. q = u[1] /\ s = u[2]
    BY <1>1, <1>2, <1>5, <2>1, DivModUnique
  <2>3. QED
    BY <2>1, <2>2
<1>6. \A u \in Items(L) : L.local * u[1] + u[2] = g <=> u = <<q, s>>
  <2> HIDE DEF q, s
  <2> QED BY <1>3, <1>5 DEF m
<1>7. QED
  BY <1>4, <1>6

\* A vector and the points in it.
LEMMA LanesOf ==
  ASSUME NEW L, NEW w, NEW p
  PROVE  p \in Lanes(L, w) <=> \E y \in Starts(L, w) : p \in y .. y + L.vec - 1
BY DEF Lanes

\* A whole vector that begins below v * n ends there.
LEMMA WholeVector ==
  ASSUME NEW v \in Nat \ {0}, NEW n \in Nat, NEW q \in Int
  PROVE  (v * q < v * n <=> q < n) /\ (q < n => v * q + v <= v * n)
<1>1. q < n => v * q + v <= v * n
  BY LessTimes
<1>2. n <= q => v * n <= v * q
  BY TimesMonotone
<1>3. v * q \in Int /\ v * n \in Int
  OBVIOUS
<1>4. QED
  BY <1>1, <1>2, <1>3

\* Without LOCAL_STRIDE all items stride over all points.  When these fill whole
\* vectors, every point has one visitor: sums miss none and count none twice.
THEOREM GlobalStrideOnce ==
  ASSUME NEW L, Linear(L), L.lstride = FALSE, NEW n \in Nat, L.N = L.vec * n,
         NEW p \in 0 .. L.N - 1
  PROVE  OneVisitor(L, p)
<1> DEFINE v == L.vec
<1> DEFINE m == L.local * L.groups
<1> DEFINE q == p \div v
<1>1. v \in Nat \ {0} /\ m \in Nat \ {0} /\ L.N \in Nat /\ L.N = v * n /\ p \in Nat /\ p < v * n
  BY DEF Linear
<1>2. GlobalSize0(L) = m
  BY LinearGeometry DEF Linear
<1> HIDE DEF v, m
<1>3. q \in 0 .. n - 1
  BY <1>1, DivBelow
<1>4. v * q \in Int /\ v * q <= L.N - v
  BY <1>1, <1>3, WholeVector
<1> DEFINE g == q % m
<1>5. g \in 0 .. m - 1
  BY <1>1, <1>3, DivMod
<1>6. ASSUME NEW u \in Items(L) PROVE p \in Lanes(L, u) <=> L.local * u[1] + u[2] = g
  <2> DEFINE h == L.local * u[1] + u[2]
  <2>1. h \in 0 .. m - 1 /\ Gid0(L, u) = h
    BY NumberOfItem, LinearGeometry DEF m, Linear
  <2> HIDE DEF h
  <2>2. Starts(L, u) = {y \in v * h .. L.N - v : (y - v * h) % (v * m) = 0}
    BY <1>2, <2>1 DEF Starts, GlobalStride, v
  <2>3. \A y \in Int : Visits(v, m, h, p, y) <=> y = v * q /\ h = g
    BY <1>1, <2>1, VisitTurns
  <2> HIDE DEF q, g
  <2>4. v * h \in Int
    BY <1>1, <2>1
  <2>5. p \in Lanes(L, u) <=> \E y \in Starts(L, u) : p \in y .. y + v - 1
    BY LanesOf DEF v
  <2>6. \A y \in Int : y \in Starts(L, u) /\ p \in y .. y + v - 1
                       <=> y <= L.N - v /\ Visits(v, m, h, p, y)
    BY <1>1, <2>2, <2>4 DEF Visits
  <2>7. Starts(L, u) \subseteq Int
    BY <1>1, <2>2, <2>4
  <2>8. p \in Lanes(L, u) <=> h = g
    BY <1>4, <2>3, <2>5, <2>6, <2>7
  <2>9. QED
    BY <2>8 DEF h
<1> HIDE DEF g
<1>7. QED
  BY <1>5, <1>6, ItemOfNumber DEF OneVisitor, m, Linear

-----------------------------------------------------------------------------
(***************************************************************************)
(* LOCAL_STRIDE                                                            *)
(***************************************************************************)
\* Blocks and their lengths are whole vectors; no block reaches past the last
\* point, and all are full up to there.
LEMMA Blocks ==
  ASSUME NEW L, Linear(L), NEW n \in Nat, L.N = L.vec * n
  PROVE  /\ BlockSize(L) \in Nat
         /\ \A g \in 0 .. L.groups - 1 :
              /\ RealBlockSize(L, g) \in 0 .. BlockSize(L)
              /\ \E k \in Nat : RealBlockSize(L, g) = L.vec * k
              /\ BlockSize(L) * g \in Nat
              /\ \A s \in 0 .. BlockSize(L) - 1 :
                   BlockSize(L) * g + s < L.N => s < RealBlockSize(L, g)
<1> DEFINE v == L.vec
<1> DEFINE b == CeilDiv(L.N, L.groups)
<1> DEFINE z == BlockSize(L)
<1>1. v \in Nat \ {0} /\ L.N \in Nat /\ L.N = v * n /\ L.groups \in Nat \ {0}
  BY DEF Linear
<1>2. b \in Nat
  BY <1>1, DivNat, L.N + L.groups - 1 \in Nat DEF CeilDiv
<1>3. z = b - (b % v)
  BY LinearGeometry DEF BlockSize
<1> HIDE DEF v, b
<1> DEFINE c == b \div v
<1>4. c \in Nat /\ b % v \in 0 .. v - 1 /\ b = v * c + (b % v)
  <2>1. b \in Int
    BY <1>2
  <2>2. b \div v \in Nat
    BY <1>1, <1>2, DivNat
  <2>3. b % v \in 0 .. v - 1 /\ b = v * (b \div v) + (b % v)
    BY <1>1, <2>1, DivMod
  <2>4. QED
    BY <2>2, <2>3
<1> HIDE DEF c, z
<1>5. z = v * c /\ z \in Nat
  <2>1. v * c \in Nat
    BY <1>1, <1>4
  <2>2. QED
    BY <1>3, <1>4, <2>1
<1>6. ASSUME NEW g \in 0 .. L.groups - 1
      PROVE  LET R == IF z * g + z > L.N THEN SubSat(L.N, z * g) ELSE z
             IN  /\ R \in 0 .. z /\ \E k \in Nat : R = v * k
                 /\ z * g \in Nat
                 /\ \A s \in 0 .. z - 1 : z * g + s < L.N => s < R
  <2>1. z * g \in Nat /\ z * g = v * (c * g) /\ c * g \in Nat
    BY <1>1, <1>4, <1>5
  <2> DEFINE R == IF z * g + z > L.N THEN SubSat(L.N, z * g) ELSE z
  <2>2. CASE z * g + z <= L.N
    <3>1. R = z
      BY <1>1, <1>5, <2>1, <2>2
    <3>2. QED
      BY <1>4, <1>5, <2>1, <3>1
  <2>3. CASE z * g + z > L.N /\ L.N > z * g
    <3>1. L.N - z * g = v * (n - c * g) /\ n - c * g \in Int
      BY <1>1, <2>1
    <3>2. c * g < n
      <4>1. n <= c * g => v * n <= v * (c * g)
        BY <1>1, <2>1, TimesMonotone
      <4>2. v * n \in Int
        BY <1>1
      <4>3. QED
        BY <1>1, <2>1, <2>3, <4>1, <4>2
    <3>3. n - c * g \in Nat
      BY <2>1, <3>2
    <3>4. QED
      BY <1>1, <1>5, <2>1, <2>3, <3>1, <3>3 DEF SubSat
  <2>4. CASE z * g + z > L.N /\ L.N <= z * g
    <3>1. v * 0 = 0
      BY <1>1
    <3>2. R = 0
      BY <1>1, <1>5, <2>1, <2>4 DEF SubSat
    <3>3. \A s \in 0 .. z - 1 : ~(z * g + s < L.N)
      BY <1>1, <1>5, <2>1, <2>4
    <3>4. R \in 0 .. z /\ \E k \in Nat : R = v * k
      BY <1>5, <3>1, <3>2
    <3>5. QED
      BY <2>1, <3>3, <3>4
  <2>5. QED
    BY <1>1, <1>5, <2>1, <2>2, <2>3, <2>4
<1>7. \A g \in 0 .. L.groups - 1 :
        /\ z * g = g * z
        /\ RealBlockSize(L, g) = IF z * g + z > L.N THEN SubSat(L.N, z * g) ELSE z
  BY <1>1, <1>5 DEF RealBlockSize, z
<1>8. QED
  BY <1>5, <1>6, <1>7 DEF v, z

\* Who visits a point: the group whose block it is in, and there the item whose
\* turn it is.
LEMMA LocalVisits ==
  ASSUME NEW L, Linear(L), L.lstride = TRUE, NEW n \in Nat, L.N = L.vec * n,
         NEW p \in 0 .. L.N - 1, NEW u \in Items(L)
  PROVE  p \in Lanes(L, u)
           <=> \E s \in 0 .. BlockSize(L) - 1 :
                 /\ p = BlockSize(L) * u[1] + s
                 /\ u[2] = (s \div L.vec) % L.local
<1> DEFINE v == L.vec
<1> DEFINE z == BlockSize(L)
<1> DEFINE m == L.local
<1> DEFINE g == u[1]
<1> DEFINE h == u[2]
<1> DEFINE R == RealBlockSize(L, g)
<1> DEFINE first == z * g
<1>1. v \in Nat \ {0} /\ L.N \in Nat /\ p \in Nat /\ p < L.N /\ m \in Nat \ {0}
      /\ g \in 0 .. L.groups - 1 /\ h \in 0 .. m - 1
  BY DEF Linear, Items
<1>2. z \in Nat /\ R \in 0 .. z /\ first \in Nat
      /\ \A s \in 0 .. z - 1 : first + s < L.N => s < R
  BY <1>1, Blocks
<1>3. PICK k \in Nat : R = v * k
  BY <1>1, Blocks
<1>4. Starts(L, u) = {y \in first + v * h .. first + R - 1 : (y - (first + v * h)) % (v * m) = 0}
  <2>1. g * z = z * g
    BY <1>1, <1>2
  <2>2. QED
    BY <2>1, LinearGeometry DEF Starts, LocalStride
<1>5. p \in Lanes(L, u) <=> \E y \in Starts(L, u) : p \in y .. y + v - 1
  BY LanesOf
<1> HIDE DEF v, z, m, g, h, R, first
<1>6. v * h \in Nat
  BY <1>1
<1>7. ASSUME NEW y \in Int, y \in Starts(L, u), p \in y .. y + v - 1
      PROVE  /\ p - first \in 0 .. z - 1
             /\ h = ((p - first) \div v) % m
  <2> DEFINE s == p - first
  <2> DEFINE x == y - first
  <2>1. x \in Int /\ s \in Nat /\ x < R /\ x >= v * h /\ s \in x .. x + v - 1
        /\ x - v * h = y - (first + v * h)
    BY <1>1, <1>2, <1>4, <1>6, <1>7
  <2>2. Visits(v, m, h, s, x)
    BY <1>4, <1>7, <2>1 DEF Visits
  <2> HIDE DEF s, x
  <2>3. x = v * (s \div v) /\ h = (s \div v) % m
    BY <1>1, <2>1, <2>2, VisitTurns
  <2>4. s \div v \in Int /\ v * (s \div v) < v * k
    BY <1>1, <1>3, <2>1, <2>3, DivNat
  <2>5. x + v <= R
    BY <1>1, <1>3, <2>3, <2>4, WholeVector
  <2>6. QED
    BY <1>1, <1>2, <2>1, <2>3, <2>5 DEF s
<1>8. ASSUME NEW s \in 0 .. z - 1, p = first + s, h = (s \div v) % m
      PROVE  \E y \in Starts(L, u) : p \in y .. y + v - 1
  <2> DEFINE x == v * (s \div v)
  <2>1. x \in Int /\ s \in Nat
    BY <1>1, <1>2, DivNat
  <2>2. Visits(v, m, h, s, x)
    BY <1>1, <1>8, <2>1, VisitTurns
  <2> HIDE DEF x
  <2>3. x >= v * h /\ (x - v * h) % (v * m) = 0 /\ s \in x .. x + v - 1
    BY <2>2 DEF Visits
  <2>4. s < R
    BY <1>1, <1>2, <1>8
  <2>5. x - v * h = (first + x) - (first + v * h)
    BY <1>2, <1>6, <2>1
  <2>6. first + x \in Starts(L, u)
    BY <1>1, <1>2, <1>4, <1>6, <2>1, <2>3, <2>4, <2>5
  <2>7. p \in first + x .. first + x + v - 1
    BY <1>1, <1>2, <1>8, <2>1, <2>3
  <2>8. QED
    BY <2>6, <2>7
<1>9. Starts(L, u) \subseteq Int
  BY <1>1, <1>2, <1>4, <1>6
<1>10. p \in Lanes(L, u)
         <=> \E s \in 0 .. z - 1 : p = first + s /\ h = (s \div v) % m
  <2>1. \A s \in 0 .. z - 1 : p = first + s => s = p - first
    BY <1>1, <1>2
  <2>2. p = first + (p - first)
    BY <1>1, <1>2
  <2>3. QED
    BY <1>5, <1>7, <1>8, <1>9, <2>1, <2>2
<1>11. QED
  BY <1>10 DEF v, z, m, g, h, first

\* With LOCAL_STRIDE, every point before the end of the last block has one
\* visitor.
THEOREM LocalStrideOnce ==
  ASSUME NEW L, Linear(L), L.lstride = TRUE, NEW n \in Nat, L.N = L.vec * n,
         NEW p \in 0 .. L.N - 1, p < BlockSize(L) * L.groups
  PROVE  OneVisitor(L, p)
<1> DEFINE z == BlockSize(L)
<1> DEFINE m == L.local
<1> DEFINE v == L.vec
<1>1. m \in Nat \ {0} /\ v \in Nat \ {0} /\ L.groups \in Nat \ {0} /\ p \in Nat /\ z \in Nat
  BY Blocks DEF Linear
<1>2. p < z * L.groups
  OBVIOUS
<1>3. \A u \in Items(L) : p \in Lanes(L, u)
        <=> \E s \in 0 .. z - 1 : p = z * u[1] + s /\ u[2] = (s \div v) % m
  BY LocalVisits
<1> HIDE DEF z, m, v
<1>4. z # 0
  <2>1. 0 * L.groups = 0
    BY <1>1
  <2>2. QED
    BY <1>1, <1>2, <2>1
<1>5. PICK g \in 0 .. L.groups - 1, s0 \in 0 .. z - 1 : Splits(p, z, g, s0)
  <2>1. z \in Nat \ {0} /\ L.groups \in Nat /\ p \in Nat
    BY <1>1, <1>4
  <2>2. QED
    BY <1>2, <2>1, Rest
<1> DEFINE h == (s0 \div v) % m
<1>6. h \in 0 .. m - 1
  <2>1. s0 \in Nat
    BY <1>1
  <2>2. s0 \div v \in Int
    BY <1>1, <2>1, DivNat
  <2>3. QED
    BY <1>1, <2>2, DivMod
<1>7. <<g, h>> \in Items(L)
  <2> HIDE DEF h
  <2> QED BY <1>6 DEF Items, m
<1>8. ASSUME NEW u \in Items(L) PROVE p \in Lanes(L, u) <=> u = <<g, h>>
  <2>1. u[1] \in Int /\ u = <<u[1], u[2]>>
    BY <1>1 DEF Items
  <2>2. p \in Lanes(L, u) => u[1] = g /\ u[2] = h
    BY <1>3, <1>5, <2>1 DEF Splits
  <2>3. u[1] = g /\ u[2] = h => p \in Lanes(L, u)
    BY <1>3, <1>5 DEF Splits
  <2> HIDE DEF h
  <2>4. QED
    BY <2>1, <2>2, <2>3
<1>9. QED
  BY <1>7, <1>8 DEF OneVisitor

\* The points behind the last block have none: rounding the blocks down to
\* whole vectors can leave a tail that no work item visits.
THEOREM LocalStrideTail ==
  ASSUME NEW L, Linear(L), L.lstride = TRUE, NEW n \in Nat, L.N = L.vec * n,
         NEW p \in 0 .. L.N - 1, p >= BlockSize(L) * L.groups, NEW u \in Items(L)
  PROVE  p \notin Lanes(L, u)
<1> DEFINE z == BlockSize(L)
<1> DEFINE a == u[1]
<1>1. z \in Nat /\ a \in Int /\ a < L.groups /\ L.groups \in Nat /\ p \in Nat
  BY Blocks DEF Linear, Items
<1>2. p >= z * L.groups
  OBVIOUS
<1>3. p \in Lanes(L, u) => \E s \in 0 .. z - 1 : p = z * a + s
  BY LocalVisits
<1> HIDE DEF z, a
<1>4. SUFFICES ASSUME NEW s \in 0 .. z - 1, p = z * a + s PROVE FALSE
  BY <1>3
<1>5. z * a + z <= z * L.groups
  BY <1>1, LessTimes
<1>6. z * a \in Int /\ z * L.groups \in Int
  BY <1>1
<1>7. QED
  BY <1>1, <1>2, <1>4, <1>5, <1>6

\* As many shares of the rounded up size cover the whole.
LEMMA CeilCovers ==
  ASSUME NEW a \in Nat, NEW b \in Nat \ {0}
  PROVE  CeilDiv(a, b) \in Nat /\ a <= CeilDiv(a, b) * b
<1> DEFINE q == (a + b - 1) \div b
<1>1. q \in Nat
  BY DivNat, a + b - 1 \in Nat
<1>2. (a + b - 1) % b \in 0 .. b - 1 /\ a + b - 1 = b * q + ((a + b - 1) % b)
  BY DivMod, a + b - 1 \in Int
<1> HIDE DEF q
<1>3. b * q = q * b /\ b * q \in Int
  BY <1>1
<1>4. QED
  BY <1>1, <1>2, <1>3 DEF CeilDiv, q

\* Vectors of one point leave no tail.
THEOREM ScalarBlocksCover ==
  ASSUME NEW L, Linear(L), L.vec = 1
  PROVE  L.N <= BlockSize(L) * L.groups
<1> DEFINE b == CeilDiv(L.N, L.groups)
<1>1. b \in Nat /\ L.N <= b * L.groups
  BY CeilCovers DEF Linear
<1>2. b % 1 = 0
  BY <1>1, DivMod
<1> HIDE DEF b
<1>3. BlockSize(L) = b
  BY <1>1, <1>2, LinearGeometry DEF BlockSize, b
<1>4. QED
  BY <1>1, <1>3

-----------------------------------------------------------------------------
(***************************************************************************)
(* Features of a block                                                     *)
(***************************************************************************)
\* lloyd_feature_sum_sequential: every feature of every point is added by one
\* work item, also when items or whole blocks of points are left over.
THEOREM FeatureSumOnce ==
  ASSUME NEW L, L.groups \in Nat \ {0}, L.local \in Nat \ {0}, L.N \in Nat, L.F \in Nat \ {0},
         L.F <= L.groups * L.local, NEW p \in 0 .. L.N - 1, NEW f \in 0 .. L.F - 1
  PROVE  \E w \in Items(L) : \A u \in Items(L) :
           FeatureOf(L, u) = f /\ p \in BlockPoints(L, u) <=> u = w
<1> DEFINE m == L.local * L.groups
<1> DEFINE c == PointBlocks(L)
<1> DEFINE n == CeilDiv(L.N, c)
<1>1. m \in Nat /\ L.F <= m /\ c = m \div L.F /\ p \in Nat /\ p < L.N
  BY DEF PointBlocks
<1>2. \A u \in Items(L) : Gid(L, u) = L.local * u[1] + u[2] /\ Gid(L, u) \in 0 .. m - 1
  BY NumberOfItem DEF Gid, Items
<1> HIDE DEF m, c
<1>3. c \in Nat /\ m % L.F \in 0 .. L.F - 1 /\ m = L.F * c + (m % L.F)
  <2>1. m \in Nat /\ m \in Int
    BY <1>1
  <2>2. m \div L.F \in Nat
    BY <2>1, DivNat
  <2>3. m % L.F \in 0 .. L.F - 1 /\ m = L.F * (m \div L.F) + (m % L.F)
    BY <2>1, DivMod
  <2>4. QED
    BY <1>1, <2>2, <2>3
<1>4. c # 0
  <2>1. L.F * 0 = 0
    OBVIOUS
  <2>2. QED
    BY <1>1, <1>3, <2>1
<1>5. n \in Nat /\ L.N <= n * c
  BY <1>3, <1>4, CeilCovers
<1> HIDE DEF n
<1>6. n # 0
  <2>1. 0 * c = 0
    BY <1>3
  <2>2. QED
    BY <1>1, <1>3, <1>5, <2>1
<1>7. n \in Nat \ {0} /\ p < n * c
  BY <1>1, <1>3, <1>5, <1>6
<1>8. PICK b \in 0 .. c - 1, r \in 0 .. n - 1 : Splits(p, n, b, r)
  <2>1. p \in Nat
    BY <1>1
  <2>2. QED
    BY <1>3, <1>7, <2>1, Rest
<1>9. ASSUME NEW u \in Items(L)
       PROVE  p \in BlockPoints(L, u) <=> PointBlockOf(L, u) = b
  <2> DEFINE a == PointBlockOf(L, u)
  <2>1. a \in Nat
    <3>1. Gid(L, u) \in Nat
      BY <1>1, <1>2
    <3>2. QED
      BY <3>1, DivNat DEF PointBlockOf
  <2>2. BlockPoints(L, u)
          = n * a .. n * a + (IF n * (a + 1) > L.N THEN SubSat(L.N, n * a) ELSE n) - 1
    BY DEF BlockPoints, n, c
  <2> HIDE DEF a
  <2>3. n * a \in Nat /\ n * (a + 1) = n * a + n
    BY <1>5, <2>1
  <2>4. p \in BlockPoints(L, u) <=> p >= n * a /\ p < n * a + n
    <3> DEFINE x == n * a
    <3>1. x \in Nat
      BY <2>3
    <3>2. BlockPoints(L, u) = x .. x + (IF x + n > L.N THEN SubSat(L.N, x) ELSE n) - 1
      BY <2>2, <2>3
    <3> HIDE DEF x
    <3> DEFINE len == IF x + n > L.N THEN SubSat(L.N, x) ELSE n
    <3>3. len \in Nat /\ (p >= x => (p < x + len <=> p < x + n))
      BY <1>1, <1>5, <3>1 DEF SubSat
    <3>4. BlockPoints(L, u) = x .. x + len - 1
      BY <3>2
    <3> HIDE DEF len
    <3>5. p \in BlockPoints(L, u) <=> p >= x /\ p < x + n
      BY <1>1, <1>5, <3>1, <3>3, <3>4
    <3>6. QED
      BY <3>5 DEF x
  <2>5. p >= n * a /\ p < n * a + n => a = b
    <3>1. p >= n * a /\ p < n * a + n => p - n * a \in 0 .. n - 1 /\ p = n * a + (p - n * a)
      BY <1>1, <1>5, <2>3
    <3>2. QED
      BY <1>8, <2>1, <3>1 DEF Splits
  <2>6. a = b => p >= n * a /\ p < n * a + n
    BY <1>5, <1>8, <2>3 DEF Splits
  <2>7. QED
    BY <2>4, <2>5, <2>6 DEF a
<1> DEFINE g == L.F * b + f
<1>10. g \in 0 .. m - 1
  <2>1. L.F * b + L.F <= L.F * c /\ L.F * b \in Nat /\ L.F * c \in Int
    BY <1>3, LessTimes
  <2>2. L.F * c <= m
    BY <1>1, <1>3, <2>1
  <2>3. g \in Nat /\ g < L.F * b + L.F
    BY <2>1
  <2> HIDE DEF g
  <2>4. QED
    BY <1>1, <2>1, <2>2, <2>3
<1>11. ASSUME NEW x \in 0 .. m - 1
       PROVE  x % L.F = f /\ x \div L.F = b <=> x = g
  <2>1. x \in Int /\ b \in Int
    BY <1>1, <1>3
  <2>2. x = L.F * (x \div L.F) + (x % L.F)
    BY <2>1, DivMod
  <2>3. ASSUME x = L.F * b + f PROVE x \div L.F = b /\ x % L.F = f
    <3> DEFINE d == L.F
    <3>1. d \in Nat \ {0} /\ f \in 0 .. d - 1 /\ x = d * b + f
      BY <2>3
    <3> HIDE DEF d
    <3>2. x \div d = b /\ x % d = f
      BY <2>1, <3>1, DivModUnique
    <3>3. QED
      BY <3>2 DEF d
  <2>4. QED
    BY <2>2, <2>3
<1> HIDE DEF g
<1>12. PICK w \in Items(L) : \A u \in Items(L) : L.local * u[1] + u[2] = g <=> u = w
  BY <1>10, ItemOfNumber DEF m
<1>13. \A u \in Items(L) : FeatureOf(L, u) = f /\ PointBlockOf(L, u) = b <=> u = w
  BY <1>2, <1>11, <1>12 DEF FeatureOf, PointBlockOf
<1>14. QED
  BY <1>9, <1>13

-----------------------------------------------------------------------------
(***************************************************************************)
(* Least numbers                                                           *)
(***************************************************************************)
\* A set of numbers has a least one.
LEMMA LeastNat ==
  ASSUME NEW T, T \subseteq Nat, T # {}
  PROVE  \E x \in T : \A y \in T : x <= y
<1>1. IsWellFoundedOn(OpToRel(<, Nat), Nat)
  BY NatLessThanWellFounded
<1>2. \E x \in T : \A y \in T : ~ (<<y, x>> \in OpToRel(<, Nat))
  BY <1>1, WFMin
<1>3. PICK x \in T : \A y \in T : ~ (<<y, x>> \in OpToRel(<, Nat))
  BY <1>2
<1>4. \A y \in T : ~ (y < x)
  BY <1>3 DEF OpToRel
<1>5. QED
  BY <1>4

\* A set that contains 0, and with a number the next, contains them all.
LEMMA AllNumbers ==
  ASSUME NEW T, 0 \in T, \A k \in Nat : k \in T => k + 1 \in T
  PROVE  Nat \subseteq T
<1>1. SUFFICES ASSUME Nat \ T # {} PROVE FALSE
  OBVIOUS
<1>2. PICK x \in Nat \ T : \A y \in Nat \ T : x <= y
  BY <1>1, LeastNat
<1>3. x # 0 /\ x - 1 \in Nat /\ (x - 1) + 1 = x /\ ~(x <= x - 1)
  BY <1>2
<1>4. x - 1 \in T
  BY <1>2, <1>3
<1>5. QED
  BY <1>2, <1>3, <1>4

-----------------------------------------------------------------------------
(***************************************************************************)
(* Powers of two                                                           *)
(***************************************************************************)
\* The recursive function of Power.
PowerEq(b, k, p) == p = [i \in 0 .. k |-> IF i = 0 THEN 1 ELSE b * p[i - 1]]

\* Power is a value of its recursive function.
LEMMA PowerIs ==
  ASSUME NEW b, NEW k
  PROVE  Power(b, k) = (CHOOSE p : PowerEq(b, k, p))[k]
BY DEF Power, PowerEq

\* That function exists, with one more argument at a time.
LEMMA PowerDefined ==
  ASSUME NEW b, NEW k \in Nat
  PROVE  \E p : PowerEq(b, k, p)
<1> DEFINE T == {n \in Nat : \E p : PowerEq(b, n, p)}
<1>1. 0 \in T
  <2>1. PowerEq(b, 0, [i \in 0 .. 0 |-> 1])
    BY DEF PowerEq
  <2>2. QED
    BY <2>1
<1>2. ASSUME NEW n \in Nat, n \in T PROVE n + 1 \in T
  <2>1. PICK p : PowerEq(b, n, p)
    BY <1>2
  <2> DEFINE q == [i \in 0 .. n + 1 |-> IF i = n + 1 THEN b * p[n] ELSE p[i]]
  <2>2. \A i \in 0 .. n : p[i] = IF i = 0 THEN 1 ELSE b * p[i - 1]
    BY <2>1 DEF PowerEq
  <2>3. \A i \in 0 .. n + 1 : q[i] = IF i = 0 THEN 1 ELSE b * q[i - 1]
    BY <2>2
  <2>4. PowerEq(b, n + 1, q)
    BY <2>3 DEF PowerEq
  <2>5. QED
    BY <2>4
<1> HIDE DEF T
<1>3. Nat \subseteq T
  BY <1>1, <1>2, AllNumbers
<1>4. QED
  BY <1>3 DEF T

\* Its values are positive.
LEMMA PowerValues ==
  ASSUME NEW b \in Nat \ {0}, NEW k \in Nat, NEW p, PowerEq(b, k, p)
  PROVE  p[k] \in Nat \ {0}
<1> DEFINE T == {n \in Nat : n <= k => p[n] \in Nat \ {0}}
<1>1. \A i \in 0 .. k : p[i] = IF i = 0 THEN 1 ELSE b * p[i - 1]
  BY DEF PowerEq
<1>2. 0 \in T
  BY <1>1
<1>3. ASSUME NEW n \in Nat, n \in T PROVE n + 1 \in T
  <2>1. SUFFICES ASSUME n + 1 <= k PROVE p[n + 1] \in Nat \ {0}
    OBVIOUS
  <2>2. p[n + 1] = b * p[n]
    BY <1>1, <2>1
  <2>3. p[n] \in Nat \ {0}
    BY <1>3, <2>1
  <2>4. \A x, y \in Nat \ {0} : x * y \in Nat \ {0}
    OBVIOUS
  <2>5. QED
    BY <2>2, <2>3, <2>4
<1> HIDE DEF T
<1>4. Nat \subseteq T
  BY <1>2, <1>3, AllNumbers
<1>5. QED
  BY <1>4 DEF T

\* Powers are positive.
LEMMA PowerTyped ==
  ASSUME NEW b \in Nat \ {0}, NEW k \in Nat
  PROVE  Power(b, k) \in Nat \ {0}
<1>1. PowerEq(b, k, CHOOSE p : PowerEq(b, k, p))
  BY PowerDefined
<1>2. QED
  BY <1>1, PowerIs, PowerValues

\* Functions for different exponents agree where both are defined.
LEMMA PowerUnique ==
  ASSUME NEW b \in Nat \ {0}, NEW k \in Nat, NEW l \in Nat, k <= l, NEW p, PowerEq(b, k, p),
         NEW q, PowerEq(b, l, q)
  PROVE  p[k] = q[k]
<1> DEFINE T == {n \in Nat : n <= k => p[n] = q[n]}
<1>1. \A i \in 0 .. k : p[i] = IF i = 0 THEN 1 ELSE b * p[i - 1]
  BY DEF PowerEq
<1>2. \A i \in 0 .. l : q[i] = IF i = 0 THEN 1 ELSE b * q[i - 1]
  BY DEF PowerEq
<1>3. 0 \in T
  BY <1>1, <1>2
<1>4. ASSUME NEW n \in Nat, n \in T PROVE n + 1 \in T
  <2>1. SUFFICES ASSUME n + 1 <= k PROVE p[n + 1] = q[n + 1]
    OBVIOUS
  <2>2. n + 1 \in 0 .. k /\ n + 1 \in 0 .. l /\ (n + 1) - 1 = n /\ n + 1 # 0
    BY <2>1
  <2>3. p[n + 1] = b * p[n] /\ q[n + 1] = b * q[n]
    BY <1>1, <1>2, <2>2
  <2>4. QED
    BY <1>4, <2>1, <2>3
<1> HIDE DEF T
<1>5. Nat \subseteq T
  BY <1>3, <1>4, AllNumbers
<1>6. QED
  BY <1>5 DEF T

\* The recursion of powers.
LEMMA PowerStep ==
  ASSUME NEW b \in Nat \ {0}, NEW k \in Nat
  PROVE  Power(b, 0) = 1 /\ Power(b, k + 1) = b * Power(b, k)
<1> DEFINE p(n) == CHOOSE p : PowerEq(b, n, p)
<1>1. \A n \in Nat : PowerEq(b, n, p(n)) /\ Power(b, n) = p(n)[n]
  BY PowerDefined, PowerIs
<1> HIDE DEF p
<1>2. Power(b, 0) = 1
  BY <1>1 DEF PowerEq
<1>3. Power(b, k) = p(k + 1)[k]
  BY <1>1, PowerUnique
<1>4. p(k + 1)[k + 1] = b * p(k + 1)[k]
  <2>1. PowerEq(b, k + 1, p(k + 1))
    BY <1>1
  <2>2. QED
    BY <2>1 DEF PowerEq
<1>5. QED
  BY <1>1, <1>2, <1>3, <1>4

\* Powers of a sum of exponents.
LEMMA PowerSum ==
  ASSUME NEW b \in Nat \ {0}, NEW i \in Nat, NEW j \in Nat
  PROVE  Power(b, i + j) = Power(b, i) * Power(b, j)
<1> DEFINE T == {n \in Nat : Power(b, i + n) = Power(b, i) * Power(b, n)}
<1>1. 0 \in T
  <2>1. Power(b, 0) = 1 /\ Power(b, i) \in Nat /\ i + 0 = i
    BY PowerStep, PowerTyped
  <2>2. QED
    BY <2>1
<1>2. ASSUME NEW n \in Nat, n \in T PROVE n + 1 \in T
  <2> DEFINE x == Power(b, i)
  <2> DEFINE y == Power(b, n)
  <2>1. x \in Nat /\ y \in Nat
    BY PowerTyped
  <2>2. Power(b, i + n) = x * y
    BY <1>2
  <2>3. Power(b, (i + n) + 1) = b * Power(b, i + n)
    BY PowerStep, i + n \in Nat
  <2>4. Power(b, n + 1) = b * y
    BY PowerStep
  <2>5. (i + n) + 1 = i + (n + 1)
    OBVIOUS
  <2> HIDE DEF x, y
  <2>6. b * (x * y) = x * (b * y)
    BY <2>1
  <2>7. Power(b, i + (n + 1)) = x * Power(b, n + 1)
    BY <2>2, <2>3, <2>4, <2>5, <2>6
  <2>8. QED
    BY <2>7 DEF x
<1> HIDE DEF T
<1>3. Nat \subseteq T
  BY <1>1, <1>2, AllNumbers
<1>4. QED
  BY <1>3 DEF T

\* An exponent is below its power of two.
LEMMA ExponentBelow ==
  ASSUME NEW k \in Nat
  PROVE  k < Power(2, k)
<1> DEFINE T == {n \in Nat : n < Power(2, n)}
<1>1. 0 \in T
  BY PowerStep
<1>2. ASSUME NEW n \in Nat, n \in T PROVE n + 1 \in T
  <2>1. Power(2, n + 1) = 2 * Power(2, n) /\ Power(2, n) \in Nat \ {0}
    BY PowerStep, PowerTyped
  <2>2. QED
    BY <1>2, <2>1
<1> HIDE DEF T
<1>3. Nat \subseteq T
  BY <1>1, <1>2, AllNumbers
<1>4. QED
  BY <1>3 DEF T

\* Powers of two, without the bound of the exponent.
LEMMA PowersOfTwo ==
  ASSUME NEW n
  PROVE  IsPowerOfTwo(n) <=> \E k \in Nat : n = Power(2, k)
<1>1. ASSUME IsPowerOfTwo(n) PROVE \E k \in Nat : n = Power(2, k)
  <2>1. PICK k \in 0 .. n : n = Power(2, k)
    BY <1>1 DEF IsPowerOfTwo
  <2>2. k \in Nat
    BY <2>1
  <2>3. QED
    BY <2>1, <2>2
<1>2. ASSUME NEW k \in Nat, n = Power(2, k) PROVE IsPowerOfTwo(n)
  <2>1. n \in Nat /\ k < n
    BY <1>2, PowerTyped, ExponentBelow
  <2>2. k \in 0 .. n
    BY <2>1
  <2>3. QED
    BY <1>2, <2>2 DEF IsPowerOfTwo
<1>3. QED
  BY <1>1, <1>2

\* Powers of two are positive.
LEMMA PowerOfTwoTyped ==
  ASSUME NEW n, IsPowerOfTwo(n)
  PROVE  n \in Nat \ {0}
BY PowersOfTwo, PowerTyped

\* A reduction over one item has no rounds.
LEMMA OneIsPower == IsPowerOfTwo(1)
BY PowersOfTwo, PowerStep

\* Products of powers of two are powers of two.
LEMMA PowerProduct ==
  ASSUME NEW m, NEW n, IsPowerOfTwo(m), IsPowerOfTwo(n)
  PROVE  IsPowerOfTwo(m * n)
<1>1. PICK i \in Nat : m = Power(2, i)
  BY PowersOfTwo
<1>2. PICK j \in Nat : n = Power(2, j)
  BY PowersOfTwo
<1>3. m * n = Power(2, i + j)
  BY <1>1, <1>2, PowerSum
<1>4. QED
  BY <1>3, PowersOfTwo, i + j \in Nat

\* The smaller of two powers of two divides the other.
LEMMA PowerDivides ==
  ASSUME NEW m, NEW n, IsPowerOfTwo(m), IsPowerOfTwo(n), m <= n
  PROVE  \E r : IsPowerOfTwo(r) /\ n = m * r /\ n \div m = r /\ n % m = 0
<1>1. PICK i \in Nat : m = Power(2, i)
  BY PowersOfTwo
<1>2. PICK j \in Nat : n = Power(2, j)
  BY PowersOfTwo
<1>3. i <= j
  <2>1. SUFFICES ASSUME j < i PROVE FALSE
    OBVIOUS
  <2>2. PICK d \in Nat : i = (j + d) + 1
    <3>1. (i - j) - 1 \in Nat /\ i = (j + ((i - j) - 1)) + 1
      BY <2>1
    <3>2. QED
      BY <3>1
  <2>3. m = 2 * Power(2, j + d)
    BY <1>1, <2>2, PowerStep, j + d \in Nat
  <2>4. Power(2, j + d) = n * Power(2, d)
    BY <1>2, PowerSum
  <2>5. n \in Nat \ {0} /\ Power(2, d) \in Nat \ {0}
    BY PowerOfTwoTyped, PowerTyped
  <2>6. \A x, y \in Nat \ {0} : x <= x * y
    <3>1. ASSUME NEW x \in Nat \ {0}, NEW y \in Nat \ {0} PROVE x <= x * y
      <4>1. x * 1 <= x * y
        BY TimesMonotone
      <4>2. QED
        BY <4>1
    <3>2. QED
      BY <3>1
  <2>7. n <= n * Power(2, d) /\ n * Power(2, d) \in Nat
    BY <2>5, <2>6
  <2>8. QED
    BY <2>3, <2>4, <2>5, <2>7
<1>4. PICK d \in Nat : j = i + d
  <2>1. j - i \in Nat /\ j = i + (j - i)
    BY <1>3
  <2>2. QED
    BY <2>1
<1> DEFINE r == Power(2, d)
<1>5. n = m * r
  BY <1>1, <1>2, <1>4, PowerSum
<1>6. IsPowerOfTwo(r)
  BY PowersOfTwo
<1>7. m \in Nat \ {0} /\ n \in Nat /\ r \in Int
  BY PowerOfTwoTyped, <1>6
<1> HIDE DEF r
<1>8. n = m * r + 0 /\ 0 \in 0 .. m - 1
  BY <1>5, <1>7
<1>9. n \div m = r /\ n % m = 0
  BY <1>7, <1>8, DivModUnique
<1>10. QED
  BY <1>5, <1>6, <1>9

-----------------------------------------------------------------------------
(***************************************************************************)
(* Sums of functions                                                       *)
(***************************************************************************)
\* The recursive function of a sum.
SumEq(f, S, it) ==
  it = [s \in SUBSET S |->
          IF s = {} THEN 0 ELSE LET x == CHOOSE x \in s : TRUE IN f[x] + it[s \ {x}]]

\* SumFunction is a value of its recursive function.
LEMMA SumIs ==
  ASSUME NEW f, NEW S
  PROVE  SumFunctionOnSet(f, S) = (CHOOSE it : SumEq(f, S, it))[S]
BY DEF SumFunctionOnSet, FoldFunctionOnSet, MapThenFoldSet, SumEq

\* The same on the subsets of at most n elements.
SumUpTo(f, S, n, it) ==
  it = [s \in {t \in SUBSET S : Cardinality(t) <= n} |->
          IF s = {} THEN 0 ELSE LET x == CHOOSE x \in s : TRUE IN f[x] + it[s \ {x}]]

\* The element that the recursion takes leaves a set smaller by one.
LEMMA SmallerSet ==
  ASSUME NEW S, IsFiniteSet(S), NEW s \in SUBSET S, s # {}, NEW n \in Nat, Cardinality(s) <= n + 1
  PROVE  LET x == CHOOSE x \in s : TRUE
         IN  x \in s /\ s \ {x} \in SUBSET S /\ Cardinality(s \ {x}) <= n
<1> DEFINE x == CHOOSE x \in s : TRUE
<1>1. x \in s
  OBVIOUS
<1> HIDE DEF x
<1>2. IsFiniteSet(s)
  BY FS_Subset
<1>3. Cardinality(s \ {x}) = Cardinality(s) - 1 /\ Cardinality(s) \in Nat
  BY <1>1, <1>2, FS_RemoveElement, FS_CardinalityType
<1>4. Cardinality(s \ {x}) <= n
  BY <1>3
<1>5. QED
  BY <1>1, <1>4 DEF x

\* The recursive function exists for every finite set, with one more element at a time.
LEMMA SumDefined ==
  ASSUME NEW f, NEW S, IsFiniteSet(S)
  PROVE  \E it : SumEq(f, S, it)
<1> DEFINE D(n) == {t \in SUBSET S : Cardinality(t) <= n}
<1> DEFINE G(it, s) == IF s = {} THEN 0 ELSE LET x == CHOOSE x \in s : TRUE IN f[x] + it[s \ {x}]
<1> DEFINE T == {n \in Nat : \E it : SumUpTo(f, S, n, it)}
<1>1. 0 \in T
  <2> DEFINE it == [s \in D(0) |-> 0]
  <2>1. \A s \in D(0) : s = {}
    <3>1. ASSUME NEW s \in D(0) PROVE s = {}
      <4>1. IsFiniteSet(s)
        BY FS_Subset
      <4>2. Cardinality(s) \in Nat
        BY <4>1, FS_CardinalityType
      <4>3. Cardinality(s) = 0
        BY <4>2
      <4>4. QED
        BY <4>1, <4>3, FS_EmptySet
    <3>2. QED
      BY <3>1
  <2>2. it = [s \in D(0) |-> G(it, s)]
    BY <2>1
  <2>3. SumUpTo(f, S, 0, it)
    BY <2>2 DEF SumUpTo
  <2>4. QED
    BY <2>3
<1>2. ASSUME NEW n \in Nat, n \in T PROVE n + 1 \in T
  <2>1. PICK h : SumUpTo(f, S, n, h)
    BY <1>2
  <2>2. h = [s \in D(n) |-> G(h, s)]
    BY <2>1 DEF SumUpTo
  <2> DEFINE it == [s \in D(n + 1) |-> IF s \in D(n) THEN h[s] ELSE G(h, s)]
  <2>3. ASSUME NEW s \in D(n + 1), s # {}
        PROVE  LET x == CHOOSE x \in s : TRUE IN s \ {x} \in D(n) /\ s \ {x} \in D(n + 1)
    <3> DEFINE x == CHOOSE x \in s : TRUE
    <3>1. s \ {x} \in SUBSET S /\ Cardinality(s \ {x}) <= n
      BY <2>3, SmallerSet
    <3>2. Cardinality(s \ {x}) \in Nat
      BY <3>1, FS_Subset, FS_CardinalityType
    <3> HIDE DEF x
    <3>3. s \ {x} \in D(n) /\ s \ {x} \in D(n + 1)
      BY <3>1, <3>2
    <3>4. QED
      BY <3>3 DEF x
  <2>4. ASSUME NEW s \in D(n + 1) PROVE it[s] = G(h, s) /\ G(it, s) = G(h, s)
    <3>1. it[s] = G(h, s)
      <4>1. CASE s \in D(n)
        BY <2>2, <4>1
      <4>2. CASE s \notin D(n)
        BY <4>2
      <4>3. QED
        BY <4>1, <4>2
    <3>2. CASE s = {}
      BY <3>1, <3>2
    <3>3. CASE s # {}
      <4> DEFINE x == CHOOSE x \in s : TRUE
      <4>1. s \ {x} \in D(n) /\ s \ {x} \in D(n + 1)
        BY <2>3, <3>3
      <4>2. it[s \ {x}] = h[s \ {x}]
        BY <4>1
      <4>3. QED
        BY <3>1, <3>3, <4>2
    <3>4. QED
      BY <3>2, <3>3
  <2>5. \A s \in D(n + 1) : it[s] = G(it, s)
    BY <2>4
  <2>6. it = [s \in D(n + 1) |-> it[s]]
    OBVIOUS
  <2>7. it = [s \in D(n + 1) |-> G(it, s)]
    <3> HIDE DEF it, G, D
    <3> QED BY <2>5, <2>6
  <2> HIDE DEF it
  <2>8. SumUpTo(f, S, n + 1, it)
    BY <2>7 DEF SumUpTo
  <2>9. QED
    BY <2>8
<1>3. Nat \subseteq T
  <2> HIDE DEF T
  <2> QED BY <1>1, <1>2, AllNumbers
<1>4. Cardinality(S) \in Nat
  BY FS_CardinalityType
<1>5. PICK it : SumUpTo(f, S, Cardinality(S), it)
  BY <1>3, <1>4
<1>6. D(Cardinality(S)) = SUBSET S
  <2>1. \A t \in SUBSET S : Cardinality(t) <= Cardinality(S)
    BY FS_Subset
  <2>2. QED
    BY <2>1
<1>7. SumEq(f, S, it)
  BY <1>5, <1>6 DEF SumUpTo, SumEq
<1>8. QED
  BY <1>7

\* It takes the elements of a set in some order.
LEMMA SumCells ==
  ASSUME NEW f, NEW S, NEW it, SumEq(f, S, it)
  PROVE  /\ it[{}] = 0
         /\ \A s \in SUBSET S : s # {} => \E x \in s : it[s] = f[x] + it[s \ {x}]
<1> DEFINE G(s) == IF s = {} THEN 0 ELSE LET x == CHOOSE x \in s : TRUE IN f[x] + it[s \ {x}]
<1>1. it = [s \in SUBSET S |-> G(s)]
  BY DEF SumEq
<1>2. G({}) = 0
  OBVIOUS
<1>3. ASSUME NEW s \in SUBSET S, s # {} PROVE \E x \in s : G(s) = f[x] + it[s \ {x}]
  <2> DEFINE x == CHOOSE x \in s : TRUE
  <2>1. x \in s
    BY <1>3
  <2>2. G(s) = f[x] + it[s \ {x}]
    BY <1>3
  <2> HIDE DEF G, x
  <2>3. QED
    BY <2>1, <2>2
<1> HIDE DEF G
<1>4. \A s \in SUBSET S : it[s] = G(s)
  BY <1>1
<1>5. QED
  BY <1>2, <1>3, <1>4

\* A sum of whole numbers is one.
LEMMA SumTyped ==
  ASSUME NEW S, IsFiniteSet(S), NEW f \in [S -> Int]
  PROVE  SumFunction(f) \in Int
<1>1. PICK it : SumEq(f, S, it) /\ SumFunctionOnSet(f, S) = it[S]
  BY SumDefined, SumIs
<1> DEFINE T == {n \in Nat : \A s \in SUBSET S : Cardinality(s) <= n => it[s] \in Int}
<1>2. it[{}] = 0 /\ \A s \in SUBSET S : s # {} => \E x \in s : it[s] = f[x] + it[s \ {x}]
  BY <1>1, SumCells
<1>3. 0 \in T
  <2>1. ASSUME NEW s \in SUBSET S, Cardinality(s) <= 0 PROVE it[s] \in Int
    <3>1. IsFiniteSet(s)
      BY FS_Subset
    <3>2. Cardinality(s) = 0
      BY <2>1, <3>1, FS_CardinalityType
    <3>3. s = {}
      BY <3>1, <3>2, FS_EmptySet
    <3>4. QED
      BY <1>2, <3>3
  <2>2. QED
    BY <2>1
<1>4. ASSUME NEW n \in Nat, n \in T PROVE n + 1 \in T
  <2>1. ASSUME NEW s \in SUBSET S, Cardinality(s) <= n + 1 PROVE it[s] \in Int
    <3>1. CASE s = {}
      BY <1>2, <3>1
    <3>2. CASE s # {}
      <4>1. PICK x \in s : it[s] = f[x] + it[s \ {x}]
        BY <1>2, <3>2
      <4>2. IsFiniteSet(s) /\ s \ {x} \in SUBSET S
        BY FS_Subset
      <4>3. Cardinality(s \ {x}) = Cardinality(s) - 1 /\ Cardinality(s) \in Nat
        BY <4>2, FS_RemoveElement, FS_CardinalityType
      <4>4. it[s \ {x}] \in Int
        BY <1>4, <2>1, <4>2, <4>3
      <4>5. f[x] \in Int
        OBVIOUS
      <4>6. QED
        BY <4>1, <4>4, <4>5
    <3>3. QED
      BY <3>1, <3>2
  <2>2. QED
    BY <2>1
<1> HIDE DEF T
<1>5. Nat \subseteq T
  BY <1>3, <1>4, AllNumbers
<1>6. it[S] \in Int
  <2>1. Cardinality(S) \in Nat
    BY FS_CardinalityType
  <2>2. Cardinality(S) \in T
    BY <1>5, <2>1
  <2>3. QED
    BY <2>1, <2>2 DEF T
<1>7. SumFunction(f) = SumFunctionOnSet(f, S)
  BY DEF SumFunction
<1>8. QED
  BY <1>1, <1>6, <1>7

-----------------------------------------------------------------------------
(***************************************************************************)
(* Shares of a launch in one or two dimensions                             *)
(***************************************************************************)
\* What the loop heads need of the geometry of a launch.
Striped(L) ==
  /\ NumGroups0(L) \in Nat \ {0} /\ LocalSize0(L) \in Nat \ {0}
  /\ L.vec \in Nat \ {0} /\ L.N \in Nat
  /\ \A w \in Items(L) : /\ Group0(L, w) \in 0 .. NumGroups0(L) - 1
                         /\ Lid0(L, w) \in 0 .. LocalSize0(L) - 1

\* Kernels of one dimension share out the points by vectors of vec.
LEMMA LinearStriped ==
  ASSUME NEW L, Linear(L)
  PROVE  Striped(L)
<1>1. \A w \in Items(L) : w[1] \in 0 .. L.groups - 1 /\ w[2] \in 0 .. L.local - 1
  BY DEF Items
<1>2. QED
  BY <1>1, LinearGeometry DEF Striped, Linear

\* The block is a whole number of vectors.
WholeVectors(L) == \E n \in Nat : L.N = L.vec * n

\* The blocks of LOCAL_STRIDE are whole vectors.
LEMMA BlockShape ==
  ASSUME NEW L, Striped(L)
  PROVE  \E c \in Nat : BlockSize(L) = L.vec * c
<1> DEFINE b == CeilDiv(L.N, NumGroups0(L))
<1>1. b \in Nat
  BY DivNat, L.N + NumGroups0(L) - 1 \in Nat DEF CeilDiv, Striped
<1>2. b \div L.vec \in Nat /\ b % L.vec \in 0 .. L.vec - 1
        /\ b = L.vec * (b \div L.vec) + (b % L.vec)
  <2>1. b \in Int /\ L.vec \in Nat \ {0}
    BY <1>1 DEF Striped
  <2> HIDE DEF b
  <2>2. QED
    BY <1>1, <2>1, DivNat, DivMod
<1>3. BlockSize(L) = b - (b % L.vec)
  BY DEF BlockSize
<1> HIDE DEF b
<1> DEFINE c == b \div L.vec
<1>4. L.vec * c \in Nat
  BY <1>2 DEF Striped
<1>5. BlockSize(L) = L.vec * c
  BY <1>2, <1>3, <1>4
<1>6. QED
  BY <1>2, <1>5

\* A vector begins on a multiple of the vector length, and ends before the last point.
LEMMA VectorsWithin ==
  ASSUME NEW L, Striped(L), WholeVectors(L), NEW w \in Items(L), NEW y \in Starts(L, w)
  PROVE  y \in Nat /\ y + L.vec <= L.N
<1> DEFINE v == L.vec
<1>1. v \in Nat \ {0} /\ L.N \in Nat
  BY DEF Striped
<1>2. PICK n \in Nat : L.N = v * n
  BY DEF WholeVectors
<1>3. CASE ~L.lstride
  <2> DEFINE h == Gid0(L, w)
  <2>1. h \in Nat
    BY DEF Gid0, Striped
  <2>2. y \in v * h .. L.N - v
    BY <1>3 DEF Starts, GlobalStride
  <2> HIDE DEF h, v
  <2>3. v * h \in Nat
    BY <1>1, <2>1
  <2>4. y \in Nat /\ y + v <= L.N
    BY <1>1, <2>2, <2>3
  <2>5. QED
    BY <2>4 DEF v
<1>4. CASE L.lstride
  <2> DEFINE z == BlockSize(L)
  <2> DEFINE g == Group0(L, w)
  <2> DEFINE h == Lid0(L, w)
  <2> DEFINE l == LocalSize0(L)
  <2> DEFINE first == g * z
  <2> DEFINE R == RealBlockSize(L, g)
  <2>1. PICK c \in Nat : z = v * c
    BY BlockShape
  <2>2. g \in Nat /\ h \in Nat /\ l \in Nat \ {0}
    BY DEF Striped
  <2>3. y \in first + v * h .. first + R - 1 /\ (y - (first + v * h)) % (v * l) = 0
    BY <1>4 DEF Starts, LocalStride
  <2>4. R = IF first + z > L.N THEN SubSat(L.N, first) ELSE z
    BY DEF RealBlockSize
  <2> HIDE DEF z, g, h, l, first, R, v
  <2>5. z \in Nat /\ v * h \in Nat /\ v * l \in Nat \ {0} /\ v * (g * c) \in Nat /\ g * c \in Nat
    BY <1>1, <2>1, <2>2
  <2>6. first = v * (g * c)
    BY <1>1, <2>1, <2>2 DEF first
  <2>7. (R \in Int /\ first + R <= L.N) \/ R = 0
    BY <1>1, <2>4, <2>5, <2>6 DEF SubSat
  <2>8. R \in Int
    BY <1>1, <2>4, <2>5, <2>6 DEF SubSat
  <2>9. y \in Nat /\ first <= y /\ y < first + R /\ first + R <= L.N
    BY <2>3, <2>5, <2>6, <2>7, <2>8
  <2>10. PICK r \in Int : y = v * r
    <3> DEFINE d == y - (first + v * h)
    <3>1. d \in Int /\ d % (v * l) = 0
      BY <2>3, <2>5, <2>6, <2>9
    <3> HIDE DEF d
    <3> DEFINE k == d \div (v * l)
    <3>2. k \in Int /\ d = (v * l) * k + (d % (v * l))
      BY <2>5, <3>1, DivMod
    <3> HIDE DEF k
    <3>3. d = v * (l * k) /\ l * k \in Int
      <4>1. (v * l) * k = v * (l * k) /\ l * k \in Int /\ v * (l * k) \in Int
        BY <1>1, <2>2, <3>2
      <4>2. QED
        BY <3>1, <3>2, <4>1
    <3>4. y = d + first + v * h
      BY <2>5, <2>6, <2>9 DEF d
    <3>5. y = v * (l * k + g * c + h) /\ l * k + g * c + h \in Int
      BY <1>1, <2>2, <2>5, <2>6, <3>3, <3>4
    <3>6. QED
      BY <3>5
  <2>11. PICK e \in Int : first + R = v * e
    <3>1. CASE first + z > L.N
      <4>1. L.N > first
        BY <1>1, <2>4, <2>5, <2>6, <2>9, <3>1 DEF SubSat
      <4>2. first + R = L.N
        BY <1>1, <2>4, <2>5, <2>6, <3>1, <4>1 DEF SubSat
      <4>3. QED
        BY <1>2, <4>2
    <3>2. CASE ~(first + z > L.N)
      <4>1. first + R = v * (g * c + c) /\ g * c + c \in Int
        BY <1>1, <2>1, <2>4, <2>5, <2>6, <3>2
      <4>2. QED
        BY <4>1
    <3>3. QED
      BY <3>1, <3>2
  <2>12. v * r + v <= v * e
    <3>1. v * r < v * e
      BY <2>9, <2>10, <2>11
    <3>2. r < e
      <4>1. e <= r => v * e <= v * r
        BY <1>1, TimesMonotone
      <4>2. v * e \in Int /\ v * r \in Int
        BY <1>1
      <4>3. QED
        BY <3>1, <4>1, <4>2
    <3>3. QED
      BY <1>1, <3>2, LessTimes
  <2>13. y + v <= L.N
    BY <1>1, <2>9, <2>10, <2>11, <2>12
  <2>14. QED
    BY <2>9, <2>13 DEF v
<1>5. QED
  BY <1>3, <1>4

\* No item visits anything but points.
LEMMA LanesWithin ==
  ASSUME NEW L, Striped(L), WholeVectors(L), NEW w \in Items(L), NEW p \in Lanes(L, w)
  PROVE  p \in 0 .. L.N - 1
<1>1. PICK y \in Starts(L, w) : p \in y .. y + L.vec - 1
  BY LanesOf
<1>2. y \in Nat /\ y + L.vec <= L.N
  BY VectorsWithin
<1>3. QED
  BY <1>1, <1>2 DEF Striped

\* No point has two visitors.
LEMMA VisitorUnique ==
  ASSUME NEW L, Linear(L), WholeVectors(L), L.lstride \in BOOLEAN,
         NEW u \in Items(L), NEW w \in Items(L), NEW p \in Lanes(L, u), p \in Lanes(L, w)
  PROVE  u = w
<1>1. p \in 0 .. L.N - 1
  BY LinearStriped, LanesWithin
<1>2. PICK n \in Nat : L.N = L.vec * n
  BY DEF WholeVectors
<1>3. CASE L.lstride = FALSE
  <2>1. OneVisitor(L, p)
    BY <1>1, <1>2, <1>3, GlobalStrideOnce
  <2>2. QED
    BY <2>1 DEF OneVisitor
<1>4. CASE L.lstride = TRUE
  <2>1. BlockSize(L) * L.groups \in Nat
    BY <1>2, Blocks DEF Linear
  <2>2. p < BlockSize(L) * L.groups
    <3> DEFINE z == BlockSize(L) * L.groups
    <3>1. p \in Nat /\ z \in Nat
      BY <1>1, <2>1 DEF Linear
    <3>2. p >= z => p \notin Lanes(L, u)
      BY <1>1, <1>2, <1>4, LocalStrideTail
    <3> HIDE DEF z
    <3>3. p < z
      BY <3>1, <3>2
    <3>4. QED
      BY <3>3 DEF z
  <2>3. OneVisitor(L, p)
    BY <1>1, <1>2, <1>4, <2>2, LocalStrideOnce
  <2>4. QED
    BY <2>3 DEF OneVisitor
<1>5. QED
  BY <1>3, <1>4

\* Whole shares: with LOCAL_STRIDE, vectors of more than one point are dealt out
\* evenly to the groups.
EvenGroups(L) ==
  L.lstride => L.vec = 1 \/ \E k \in Nat : L.N = (L.vec * L.groups) * k

\* Then every point has a visitor.
LEMMA LanesCover ==
  ASSUME NEW L, Linear(L), WholeVectors(L), EvenGroups(L), L.lstride \in BOOLEAN,
         NEW p \in 0 .. L.N - 1
  PROVE  \E w \in Items(L) : p \in Lanes(L, w)
<1>1. PICK n \in Nat : L.N = L.vec * n
  BY DEF WholeVectors
<1>2. CASE L.lstride = FALSE
  <2>1. OneVisitor(L, p)
    BY <1>1, <1>2, GlobalStrideOnce
  <2>2. QED
    BY <2>1 DEF OneVisitor
<1>3. CASE L.lstride = TRUE
  <2>1. BlockSize(L) * L.groups \in Nat
    BY <1>1, Blocks DEF Linear
  <2>2. L.N <= BlockSize(L) * L.groups
    <3>1. CASE L.vec = 1
      BY <3>1, ScalarBlocksCover
    <3>2. CASE L.vec # 1
      <4>1. PICK k \in Nat : L.N = (L.vec * L.groups) * k
        BY <1>3, <3>2 DEF EvenGroups
      <4> DEFINE v == L.vec
      <4> DEFINE g == L.groups
      <4> DEFINE b == CeilDiv(L.N, g)
      <4>2. v \in Nat \ {0} /\ g \in Nat \ {0} /\ L.N \in Nat
        BY DEF Linear
      <4>3. BlockSize(L) = b - (b % v)
        BY LinearGeometry DEF BlockSize
      <4>4. b = (L.N + g - 1) \div g
        BY DEF CeilDiv
      <4> HIDE DEF v, g, b
      <4>5. L.N = g * (v * k) /\ v * k \in Nat
        BY <4>1, <4>2 DEF v, g
      <4>6. L.N + g - 1 = g * (v * k) + (g - 1) /\ g - 1 \in 0 .. g - 1 /\ L.N + g - 1 \in Int
        BY <4>2, <4>5
      <4>7. b = v * k
        <5> DEFINE q == v * k
        <5> DEFINE m == L.N + g - 1
        <5>1. q \in Int /\ m \in Int /\ m = g * q + (g - 1) /\ g - 1 \in 0 .. g - 1
          BY <4>5, <4>6
        <5> HIDE DEF q, m
        <5>2. m \div g = q
          BY <4>2, <5>1, DivModUnique
        <5>3. QED
          BY <4>4, <5>2 DEF q, m
      <4>8. b % v = 0
        <5>1. b = v * k + 0 /\ 0 \in 0 .. v - 1 /\ b \in Int
          BY <4>2, <4>5, <4>7
        <5>2. k \in Int
          OBVIOUS
        <5> HIDE DEF WholeVectors
        <5>3. QED
          BY <4>2, <5>1, <5>2, DivModUnique
      <4>9. BlockSize(L) = v * k
        BY <4>3, <4>5, <4>7, <4>8
      <4>10. BlockSize(L) * g = L.N
        BY <4>2, <4>5, <4>9
      <4>11. QED
        BY <4>2, <4>10 DEF g
    <3>3. QED
      BY <3>1, <3>2
  <2>3. p < BlockSize(L) * L.groups
    <3>1. L.N \in Nat
      BY DEF Linear
    <3>2. QED
      BY <2>1, <2>2, <3>1
  <2>4. OneVisitor(L, p)
    BY <1>1, <1>3, <2>3, LocalStrideOnce
  <2>5. QED
    BY <2>4 DEF OneVisitor
<1>4. QED
  BY <1>2, <1>3

-----------------------------------------------------------------------------
(***************************************************************************)
(* What an interval does to memory                                         *)
(***************************************************************************)
MemOK(m) == \A a \in DOMAIN m : m[a] \in Int

\* Values are whole numbers, and labels are clusters.
WritesOK(L, f) ==
  \A a \in DOMAIN f : f[a] \in Int /\ (a[1] = "labels" => f[a] \in Clusters(L))

\* An interval writes whole numbers, labels of clusters, and adds to no label.
EffectOK(L, e) ==
  /\ WritesOK(L, e.writes)
  /\ WritesOK(L, e.adds) /\ \A a \in DOMAIN e.adds : a[1] # "labels"

\* A cell that was never written has a value too.
LEMMA ValTyped ==
  ASSUME NEW m, MemOK(m), NEW a
  PROVE  Val(m, a) \in Int
BY DEF Val, MemOK, Junk

\* Two groups of writes, one over the other.
LEMMA OverOK ==
  ASSUME NEW L, NEW f, NEW g, WritesOK(L, f), WritesOK(L, g)
  PROVE  WritesOK(L, Over(f, g)) /\ DOMAIN Over(f, g) = DOMAIN f \cup DOMAIN g
BY DEF WritesOK, Over

\* The cells of two groups of writes.
LEMMA OverDomain ==
  ASSUME NEW f, NEW g
  PROVE  DOMAIN Over(f, g) = DOMAIN f \cup DOMAIN g
BY DEF Over

\* No writes at all.
LEMMA NoWrites ==
  ASSUME NEW L
  PROVE  WritesOK(L, <<>>) /\ DOMAIN <<>> = {}
BY DEF WritesOK

\* An item visits finitely many points.
LEMMA LanesFinite ==
  ASSUME NEW L, Striped(L), WholeVectors(L), NEW w \in Items(L)
  PROVE  IsFiniteSet(Lanes(L, w))
<1>1. Lanes(L, w) \subseteq 0 .. L.N - 1
  BY LanesWithin
<1>2. IsFiniteSet(0 .. L.N - 1)
  <2>1. 0 \in Int /\ L.N - 1 \in Int
    BY DEF Striped
  <2>2. QED
    BY <2>1, FS_Interval
<1>3. QED
  BY <1>1, <1>2, FS_Subset

\* The mass of a cluster is a number.
LEMMA MassTyped ==
  ASSUME NEW lab, IsFiniteSet(DOMAIN lab), NEW c
  PROVE  MassOf(lab, c) \in Int
<1>1. IsFiniteSet({q \in DOMAIN lab : lab[q] = c})
  BY FS_Subset
<1>2. QED
  BY <1>1, FS_CardinalityType DEF MassOf

\* The sum of a feature over a cluster is a number.
LEMMA SumOfTyped ==
  ASSUME NEW L, NEW m, MemOK(m), NEW lab, IsFiniteSet(DOMAIN lab), NEW f, NEW c
  PROVE  SumOf(L, m, lab, f, c) \in Int
<1> DEFINE S == {p \in DOMAIN lab : lab[p] = c}
<1> DEFINE g == [q \in S |-> Point(L, m, q, f)]
<1>1. IsFiniteSet(S)
  BY FS_Subset
<1>2. g \in [S -> Int]
  BY ValTyped DEF Point
<1>3. SumOf(L, m, lab, f, c) = SumFunction(g)
  BY DEF SumOf
<1> HIDE DEF g, S
<1>4. QED
  BY <1>1, <1>2, <1>3, SumTyped

\* A function of numbers below n has a least value, and a first place of it.
LEMMA FirstLeast ==
  ASSUME NEW n \in Nat \ {0}, NEW f \in [0 .. n - 1 -> Int]
  PROVE  \E c \in 0 .. n - 1 : \A d \in 0 .. n - 1 : f[c] < f[d] \/ (f[c] = f[d] /\ c <= d)
<1> DEFINE Least(k, c) == c < k /\ \A d \in 0 .. k - 1 : f[c] < f[d] \/ (f[c] = f[d] /\ c <= d)
<1> DEFINE T == {k \in Nat : k < n => \E c \in 0 .. n - 1 : Least(k + 1, c)}
<1>1. 0 \in T
  <2>1. Least(0 + 1, 0) /\ 0 \in 0 .. n - 1
    OBVIOUS
  <2>2. QED
    BY <2>1
<1>2. ASSUME NEW k \in Nat, k \in T PROVE k + 1 \in T
  <2>1. SUFFICES ASSUME k + 1 < n PROVE \E c \in 0 .. n - 1 : Least((k + 1) + 1, c)
    OBVIOUS
  <2>2. PICK c \in 0 .. n - 1 : Least(k + 1, c)
    BY <1>2, <2>1
  <2>3. f[c] \in Int /\ f[k + 1] \in Int /\ k + 1 \in 0 .. n - 1
    BY <2>1
  <2>4. \A d \in 0 .. (k + 1) + 1 - 1 : d \in 0 .. k + 1 - 1 \/ d = k + 1
    OBVIOUS
  <2>5. CASE f[k + 1] < f[c]
    <3>1. \A d \in 0 .. k + 1 - 1 : f[d] \in Int
      BY <2>1
    <3>2. \A d \in 0 .. k + 1 - 1 : f[k + 1] < f[d]
      BY <2>2, <2>3, <2>5, <3>1
    <3>3. Least((k + 1) + 1, k + 1)
      BY <2>3, <2>4, <3>2
    <3>4. QED
      BY <2>3, <3>3
  <2>6. CASE ~(f[k + 1] < f[c])
    <3>1. f[c] < f[k + 1] \/ (f[c] = f[k + 1] /\ c <= k + 1)
      BY <2>2, <2>3, <2>6
    <3>2. Least((k + 1) + 1, c)
      BY <2>2, <2>4, <3>1
    <3>3. QED
      BY <3>2
  <2>7. QED
    BY <2>5, <2>6
<1>3. Nat \subseteq T
  <2> HIDE DEF T
  <2> QED BY <1>1, <1>2, AllNumbers
<1>4. n - 1 \in Nat /\ (n - 1) + 1 = n /\ n - 1 < n
  OBVIOUS
<1>5. n - 1 \in T
  <2> HIDE DEF T
  <2> QED BY <1>3, <1>4
<1> HIDE DEF Least
<1>7. \E c \in 0 .. n - 1 : Least((n - 1) + 1, c)
  BY <1>4, <1>5
<1>8. PICK c \in 0 .. n - 1 : Least(n, c)
  BY <1>4, <1>7
<1> USE DEF Least
<1>9. QED
  BY <1>8

\* Labels are clusters.
LEMMA ClosestTyped ==
  ASSUME NEW L, NEW m, MemOK(m), L.C \in Nat \ {0}, L.F \in Nat, NEW q
  PROVE  Closest(L, m, q) \in Clusters(L)
<1> DEFINE D(c) == SumFunction([f \in Features(L) |->
          (Point(L, m, q, f) - Val(m, Glob("ro_centroids", L.C * f + c)))
            * (Point(L, m, q, f) - Val(m, Glob("ro_centroids", L.C * f + c)))])
<1> DEFINE dist == [c \in Clusters(L) |-> D(c)]
<1>1. IsFiniteSet(Features(L))
  BY FS_Interval, 0 \in Int, L.F - 1 \in Int DEF Features
<1>2. ASSUME NEW c \in Clusters(L) PROVE D(c) \in Int
  <2> DEFINE g == [f \in Features(L) |->
          (Point(L, m, q, f) - Val(m, Glob("ro_centroids", L.C * f + c)))
            * (Point(L, m, q, f) - Val(m, Glob("ro_centroids", L.C * f + c)))]
  <2>1. \A f \in Features(L) :
          Point(L, m, q, f) \in Int /\ Val(m, Glob("ro_centroids", L.C * f + c)) \in Int
    BY ValTyped DEF Point
  <2>2. \A x, y \in Int : (x - y) * (x - y) \in Int
    OBVIOUS
  <2>3. g \in [Features(L) -> Int]
    BY <2>1, <2>2
  <2>4. D(c) = SumFunction(g)
    OBVIOUS
  <2> HIDE DEF g, D
  <2>5. QED
    BY <1>1, <2>3, <2>4, SumTyped
<1>3. dist \in [0 .. L.C - 1 -> Int]
  <2> HIDE DEF D
  <2> QED BY <1>2 DEF Clusters
<1>4. Closest(L, m, q) = CHOOSE c \in Clusters(L) : \A d \in Clusters(L) :
        dist[c] < dist[d] \/ (dist[c] = dist[d] /\ c <= d)
  BY Zenon DEF Closest
<1> HIDE DEF dist
<1>5. \E c \in Clusters(L) : \A d \in Clusters(L) :
        dist[c] < dist[d] \/ (dist[c] = dist[d] /\ c <= d)
  BY <1>3, FirstLeast DEF Clusters
<1>6. QED
  BY <1>4, <1>5

-----------------------------------------------------------------------------
(***************************************************************************)
(* Sets of cells                                                           *)
(***************************************************************************)
\* The k-th n cells of a global buffer.
Chunk(buf, n, k) == {Glob(buf, n * k + c) : c \in 0 .. n - 1}

\* n cells of an item in a local buffer, one for every item of the group apart.
Strided(L, w, buf, n) == {Loc(w, buf, L.local * k + w[2]) : k \in 0 .. n - 1}

\* The labels and the points of a block.
LabelCells(L) == {InBlock(L, "labels", q) : q \in 0 .. L.N - 1}
PointCells(L) == {InBlock(L, "points", i) : i \in 0 .. L.N * L.F - 1}

\* The sizes of buffers, and that one has room for n numbers.
Sized(sz) == \A b \in DOMAIN sz : sz[b] \in Nat
\* Buffer b has at least n cells.
Room(sz, b, n) == b \in DOMAIN sz /\ n <= sz[b]
GlobalName(L, b) == b \notin DOMAIN L.locals /\ b # "labels" /\ b # "points"

\* Address a is in its buffer: what InBounds says of the command that runs.
Within(L, sz, a) ==
  /\ a[3] \in Nat
  /\ a[1] \in DOMAIN L.locals => L.locals[a[1]] \in Nat /\ a[3] < L.locals[a[1]]
  /\ a[1] \notin DOMAIN L.locals /\ a[1] = "points" => L.N * L.dims \in Nat /\ a[3] < L.N * L.dims
  /\ a[1] \notin DOMAIN L.locals /\ a[1] = "labels" => L.N \in Nat /\ a[3] < L.N
  /\ GlobalName(L, a[1]) => a[1] \in DOMAIN sz /\ a[3] < sz[a[1]]

\* n * k + c is below n * g, and determines k and c.
LEMMA ChunkIndex ==
  ASSUME NEW n \in Nat, NEW g \in Nat, NEW k \in 0 .. g - 1, NEW c \in 0 .. n - 1
  PROVE  n * k + c \in Nat /\ n * k + c < n * g
<1>1. n * k + n <= n * g
  BY LessTimes, k < g, n # 0
<1>2. n * k \in Nat /\ n * g \in Nat
  OBVIOUS
<1>3. QED
  BY <1>1, <1>2

\* The k-th of g chunks of n cells is inside of a buffer with room for g.
LEMMA ChunkWithin ==
  ASSUME NEW L, NEW sz, Sized(sz), NEW buf, GlobalName(L, buf), NEW n \in Nat, NEW g \in Nat,
         NEW k \in 0 .. g - 1, Room(sz, buf, n * g), NEW a \in Chunk(buf, n, k)
  PROVE  Within(L, sz, a)
<1>1. PICK c \in 0 .. n - 1 : a = <<buf, 0, n * k + c>>
  BY DEF Chunk, Glob
<1>2. n * k + c \in Nat /\ n * k + c < n * g /\ n * g \in Nat
  BY ChunkIndex
<1>3. sz[buf] \in Nat /\ n * g <= sz[buf] /\ buf \in DOMAIN sz
  BY DEF Sized, Room
<1>4. a[1] = buf /\ a[3] = n * k + c
  BY <1>1
<1> DEFINE x == n * k + c
<1> DEFINE y == n * g
<1>5. x \in Nat /\ x < y /\ y \in Nat /\ y <= sz[buf] /\ a[3] = x
  BY <1>2, <1>3, <1>4
<1> HIDE DEF x, y
<1>6. QED
  BY <1>3, <1>4, <1>5 DEF Within, GlobalName

\* Chunks of different numbers are disjoint.
LEMMA ChunkApart ==
  ASSUME NEW buf, NEW n \in Nat, NEW k \in Int, NEW l \in Int,
         NEW a \in Chunk(buf, n, k), a \in Chunk(buf, n, l)
  PROVE  k = l
<1>1. PICK c \in 0 .. n - 1 : a = <<buf, 0, n * k + c>>
  BY DEF Chunk, Glob
<1>2. PICK d \in 0 .. n - 1 : a = <<buf, 0, n * l + d>>
  BY DEF Chunk, Glob
<1>3. n * k + c = n * l + d /\ n \in Nat \ {0}
  BY <1>1, <1>2
<1>4. QED
  BY <1>3, SameDivision

\* Cell k of item r in local memory, where the items' cells alternate.
LEMMA StridedIndex ==
  ASSUME NEW l \in Nat \ {0}, NEW n \in Nat, NEW k \in 0 .. n - 1, NEW r \in 0 .. l - 1
  PROVE  l * k + r \in Nat /\ l * k + r < l * n /\ (l * k + r) % l = r
<1>1. l * k + r \in Nat /\ l * k + r < l * n
  BY ChunkIndex
<1>2. (l * k + r) % l = r
  BY <1>1, DivModUnique
<1>3. QED
  BY <1>1, <1>2

\* An item's cells in local memory are inside of the argument it was given.
LEMMA StridedWithin ==
  ASSUME NEW L, NEW sz, NEW w, L.local \in Nat \ {0}, w[2] \in 0 .. L.local - 1,
         NEW buf \in DOMAIN L.locals, NEW n \in Nat, L.locals[buf] \in Nat,
         L.local * n <= L.locals[buf], NEW a \in Strided(L, w, buf, n)
  PROVE  Within(L, sz, a)
<1>1. PICK k \in 0 .. n - 1 : a = <<buf, w[1], L.local * k + w[2]>>
  BY DEF Strided, Loc
<1>2. L.local * k + w[2] \in Nat /\ L.local * k + w[2] < L.local * n /\ L.local * n \in Nat
  BY StridedIndex
<1> DEFINE x == L.local * k + w[2]
<1> DEFINE y == L.local * n
<1>3. x \in Nat /\ x < y /\ y \in Nat /\ y <= L.locals[buf] /\ a[3] = x /\ a[1] = buf
  BY <1>1, <1>2
<1> HIDE DEF x, y
<1>4. QED
  BY <1>3 DEF Within, GlobalName

\* In local memory items have cells of their own; different groups have different memory.
LEMMA StridedApart ==
  ASSUME NEW L, L.local \in Nat \ {0}, NEW u \in Items(L), NEW w \in Items(L),
         NEW buf, NEW n \in Nat, NEW k \in Nat,
         NEW a \in Strided(L, u, buf, n), a \in Strided(L, w, buf, k)
  PROVE  u = w
<1>1. PICK i \in 0 .. n - 1 : a = <<buf, u[1], L.local * i + u[2]>>
  BY DEF Strided, Loc
<1>2. PICK j \in 0 .. k - 1 : a = <<buf, w[1], L.local * j + w[2]>>
  BY DEF Strided, Loc
<1>3. u[2] \in 0 .. L.local - 1 /\ w[2] \in 0 .. L.local - 1 /\ u = <<u[1], u[2]>>
        /\ w = <<w[1], w[2]>>
  BY DEF Items
<1>4. u[1] = w[1] /\ L.local * i + u[2] = L.local * j + w[2]
  BY <1>1, <1>2
<1>5. (L.local * i + u[2]) % L.local = u[2] /\ (L.local * j + w[2]) % L.local = w[2]
  BY <1>3, StridedIndex
<1>6. u[2] = w[2]
  BY <1>4, <1>5
<1>7. QED
  BY <1>3, <1>4, <1>6

\* A kernel's labels and points are inside of its block.
LEMMA PointCellsWithin ==
  ASSUME NEW L, NEW sz, L.N \in Nat, L.F \in Nat, L.dims = L.F,
         DOMAIN L.locals \cap {"labels", "points"} = {},
         NEW a, a \in LabelCells(L) \cup PointCells(L)
  PROVE  Within(L, sz, a)
<1>1. CASE a \in LabelCells(L)
  <2>1. PICK q \in 0 .. L.N - 1 : a = <<"labels", L.b, q>>
    BY <1>1 DEF LabelCells, InBlock
  <2>2. a[1] = "labels" /\ a[3] = q
    BY <2>1
  <2>3. QED
    BY <2>2 DEF Within, GlobalName
<1>2. CASE a \in PointCells(L)
  <2>1. PICK q \in 0 .. L.N * L.F - 1 : a = <<"points", L.b, q>>
    BY <1>2 DEF PointCells, InBlock
  <2>2. a[1] = "points" /\ a[3] = q /\ L.N * L.F \in Nat
    BY <2>1
  <2>3. QED
    BY <2>2 DEF Within, GlobalName
<1>3. QED
  BY <1>1, <1>2

\* Items number the cells of a launch.
LEMMA GidTyped ==
  ASSUME NEW L, L.groups \in Nat \ {0}, L.local \in Nat \ {0}, NEW w \in Items(L)
  PROVE  Gid(L, w) \in 0 .. L.groups * L.local - 1
<1>1. w[1] \in 0 .. L.groups - 1 /\ w[2] \in 0 .. L.local - 1
  BY DEF Items
<1>2. L.local * w[1] + w[2] \in Nat /\ L.local * w[1] + w[2] < L.local * L.groups
  BY <1>1, ChunkIndex
<1>3. L.local * w[1] = w[1] * L.local /\ L.local * L.groups = L.groups * L.local
  BY <1>1
<1>4. L.groups * L.local \in Nat /\ w[1] * L.local \in Nat
  BY <1>1
<1>5. QED
  BY <1>2, <1>3, <1>4 DEF Gid

\* Items have different global ids.
LEMMA GidUnique ==
  ASSUME NEW L, L.groups \in Nat \ {0}, L.local \in Nat \ {0}, NEW u \in Items(L),
         NEW w \in Items(L),
         Gid(L, u) = Gid(L, w)
  PROVE  u = w
<1>1. /\ u[1] \in 0 .. L.groups - 1 /\ u[2] \in 0 .. L.local - 1 /\ u = <<u[1], u[2]>>
      /\ w[1] \in 0 .. L.groups - 1 /\ w[2] \in 0 .. L.local - 1 /\ w = <<w[1], w[2]>>
  BY DEF Items
<1> DEFINE x == Gid(L, u)
<1>2. x \in Int /\ x = L.local * u[1] + u[2] /\ x = L.local * w[1] + w[2]
  BY <1>1, GidTyped DEF Gid
<1> HIDE DEF x
<1>3. x \div L.local = u[1] /\ x % L.local = u[2] /\ x \div L.local = w[1] /\ x % L.local = w[2]
  <2>1. x \div L.local = u[1] /\ x % L.local = u[2]
    BY <1>1, <1>2, DivModUnique
  <2>2. x \div L.local = w[1] /\ x % L.local = w[2]
    BY <1>1, <1>2, DivModUnique
  <2>3. QED
    BY <2>1, <2>2
<1>4. QED
  BY <1>1, <1>3

\* A launch over points.
PointsLaunch(L) ==
  /\ Striped(L) /\ WholeVectors(L) /\ L.groups \in Nat \ {0} /\ L.local \in Nat \ {0}
  /\ L.lstride \in BOOLEAN /\ L.lmem \in BOOLEAN
  /\ L.C \in Nat \ {0} /\ L.F \in Nat \ {0} /\ L.dims = L.F
  /\ DOMAIN L.locals \cap {"labels", "points", "masses", "ro_centroids", "tmp_masses",
                           "tmp_centroids", "tmp_new_centroids", "new_masses"} = {}

\* The histograms that take labels as indices of bins.
Counts(L) == L.kernel \in {"histogram_global", "histogram_part_global", "histogram_part_local"}

\* Memory when launch L runs: the labels of its block are clusters.
MemFor(L, m) ==
  /\ MemOK(m)
  /\ Counts(L) => \A q \in 0 .. L.N - 1 : Label(L, m, q) \in Clusters(L)

\* Effect e reads and writes at these addresses.
Touches(e, R, W, A) ==
  e.reads \subseteq R /\ DOMAIN e.writes \subseteq W /\ DOMAIN e.adds \subseteq A

\* An item visits points of its block.
LEMMA LanesIn ==
  ASSUME NEW L, PointsLaunch(L), NEW w \in Items(L)
  PROVE  Lanes(L, w) \subseteq 0 .. L.N - 1 /\ IsFiniteSet(Lanes(L, w))
BY LanesWithin, LanesFinite DEF PointsLaunch

\* Labels of points of the block.
LEMMA LabelReadsIn ==
  ASSUME NEW L, NEW S, S \subseteq 0 .. L.N - 1
  PROVE  LabelReads(L, S) \subseteq LabelCells(L)
BY DEF LabelReads, LabelCells

\* Features of points of the block.
LEMMA PointReadsIn ==
  ASSUME NEW L, L.N \in Nat, L.F \in Nat, NEW S, S \subseteq 0 .. L.N - 1,
         NEW Fs, Fs \subseteq 0 .. L.F - 1
  PROVE  PointReads(L, S, Fs) \subseteq PointCells(L)
<1>1. SUFFICES ASSUME NEW q \in S, NEW f \in Fs
               PROVE InBlock(L, "points", L.N * f + q) \in PointCells(L)
  BY DEF PointReads
<1>2. L.N * f + q \in Nat /\ L.N * f + q < L.N * L.F
  BY ChunkIndex, f \in 0 .. L.F - 1, q \in 0 .. L.N - 1
<1>3. L.N * f + q \in 0 .. L.N * L.F - 1
  <2> DEFINE x == L.N * f + q
  <2> DEFINE y == L.N * L.F
  <2>1. x \in Nat /\ y \in Nat /\ x < y
    BY <1>2
  <2> HIDE DEF x, y
  <2>2. x \in 0 .. y - 1
    BY <2>1
  <2>3. QED
    BY <2>2 DEF x, y
<1>4. QED
  BY <1>3 DEF PointCells

\* The labels a kernel reads and those it computes.
LEMMA LabelsOf ==
  ASSUME NEW L, NEW m, NEW S
  PROVE  /\ DOMAIN Labels(L, m, S) = S /\ \A q \in S : Labels(L, m, S)[q] = Label(L, m, q)
         /\ DOMAIN Relabelled(L, m, S) = S /\ \A q \in S : Relabelled(L, m, S)[q] = Closest(L, m, q)
BY DEF Labels, Relabelled

\* The counts and sums of a labelling of finitely many points.
LEMMA MassesTyped ==
  ASSUME NEW L, NEW m, MemOK(m), NEW S, IsFiniteSet(S)
  PROVE  \A c : MassOf(Labels(L, m, S), c) \in Int /\ MassOf(Relabelled(L, m, S), c) \in Int
BY LabelsOf, MassTyped

\* Sums over either are numbers.
LEMMA SumsTyped ==
  ASSUME NEW L, NEW m, MemOK(m), NEW S, IsFiniteSet(S)
  PROVE  \A f, c :
           SumOf(L, m, Labels(L, m, S), f, c) \in Int
             /\ SumOf(L, m, Relabelled(L, m, S), f, c) \in Int
BY LabelsOf, SumOfTyped

-----------------------------------------------------------------------------
(***************************************************************************)
(* The mass updates                                                        *)
(***************************************************************************)
LEMMA FootHistogramGlobal ==
  ASSUME NEW L, PointsLaunch(L), L.kernel = "histogram_global", L.out = "masses",
         NEW w \in Items(L), NEW j, NEW m, MemFor(L, m)
  PROVE  LET e == Interval(L, w, j, m)
         IN  EffectOK(L, e) /\ Touches(e, LabelCells(L), {}, Chunk("masses", L.C, 0))
<1> DEFINE S == Lanes(L, w)
<1> DEFINE lab == Labels(L, m, S)
<1> DEFINE e == Interval(L, w, j, m)
<1>1. e = HistogramGlobal(L, w, m)
  BY Zenon DEF Interval
<1>2. HistogramGlobal(L, w, m) =
        [reads |-> LabelReads(L, S), writes |-> <<>>,
         adds |-> [a \in {Glob(L.out, d) : d \in {lab[q] : q \in S}} |->
                     MassOf(lab, CHOOSE d \in {lab[q] : q \in S} : Glob(L.out, d) = a)]]
  BY Zenon DEF HistogramGlobal, Increments, Atomic, Place
<1>3. S \subseteq 0 .. L.N - 1 /\ IsFiniteSet(S)
  BY LanesIn
<1>4. \A q \in S : lab[q] \in 0 .. L.C - 1
  BY <1>3, LabelsOf DEF MemFor, Counts, Clusters
<1>5. \A c : MassOf(lab, c) \in Int
  BY <1>3, MassesTyped DEF MemFor
<1> HIDE DEF S, lab, e
<1>6. e.reads \subseteq LabelCells(L)
  <2>1. e.reads = LabelReads(L, S)
    BY <1>1, <1>2
  <2>2. QED
    BY <2>1, <1>3, LabelReadsIn
<1>7. e.writes = <<>> /\ WritesOK(L, e.writes) /\ DOMAIN e.writes \subseteq {}
  BY <1>1, <1>2, NoWrites
<1>8. DOMAIN e.adds = {Glob("masses", d) : d \in {lab[q] : q \in S}}
  BY <1>1, <1>2
<1>9. \A a \in DOMAIN e.adds : e.adds[a] \in Int /\ a[1] # "labels"
  <2>1. \A a \in DOMAIN e.adds : a[1] = "masses"
    BY <1>8 DEF Glob
  <2>2. \A a \in DOMAIN e.adds : e.adds[a] \in Int
    BY <1>1, <1>2, <1>5, <1>8
  <2>3. QED
    BY <2>1, <2>2
<1>10. DOMAIN e.adds \subseteq Chunk("masses", L.C, 0)
  <2>1. ASSUME NEW d \in 0 .. L.C - 1 PROVE Glob("masses", d) \in Chunk("masses", L.C, 0)
    BY L.C * 0 + d = d DEF Chunk, PointsLaunch
  <2>2. QED
    BY <1>4, <1>8, <2>1
<1>11. QED
  BY <1>6, <1>7, <1>9, <1>10 DEF Touches, EffectOK, WritesOK, e

\* What is congruent to r is a multiple of l apart from it.
LEMMA ShareIndex ==
  ASSUME NEW l \in Nat \ {0}, NEW n \in Nat, NEW c \in 0 .. n - 1
  PROVE  \E k \in 0 .. n - 1 : c = l * k + (c % l)
<1>1. 1 * (c + 1) <= (c + 1) * l
  BY TimesMonotone
<1>2. c < l * (c + 1) /\ c \in Nat
  BY <1>1
<1> DEFINE k == c \div l
<1>3. k \in 0 .. (c + 1) - 1
  BY <1>2, DivBelow
<1>4. c = l * k + (c % l)
  BY DivMod
<1> HIDE DEF k
<1>5. k \in 0 .. n - 1
  BY <1>3
<1>6. QED
  BY <1>4, <1>5

\* The bins of a group that an item zeroes or copies.
BinShare(L, w) == {Glob("tmp_masses", L.C * w[1] + c) : c \in ShareOfBins(L, w)}
LocalShare(L, w) == {Loc(w, "l_bins", c) : c \in ShareOfBins(L, w)}
LocalBins(L, w) == {Loc(w, "l_bins", c) : c \in Clusters(L)}

\* The bins an item resets or writes are its group's.
LEMMA BinShareIn ==
  ASSUME NEW L, PointsLaunch(L), NEW w \in Items(L)
  PROVE  /\ BinShare(L, w) \subseteq Chunk("tmp_masses", L.C, w[1])
         /\ LocalShare(L, w) \subseteq Strided(L, w, "l_bins", L.C)
<1>1. BinShare(L, w) \subseteq Chunk("tmp_masses", L.C, w[1])
  BY DEF BinShare, Chunk, ShareOfBins, Clusters
<1>2. ASSUME NEW c \in ShareOfBins(L, w) PROVE \E k \in 0 .. L.C - 1 : c = L.local * k + w[2]
  <2>1. c \in 0 .. L.C - 1 /\ c % L.local = w[2] /\ L.local \in Nat \ {0} /\ L.C \in Nat
    BY DEF ShareOfBins, Clusters, PointsLaunch
  <2>2. PICK k \in 0 .. L.C - 1 : c = L.local * k + (c % L.local)
    BY <2>1, ShareIndex, Zenon
  <2>3. c = L.local * k + w[2]
    BY <2>1, <2>2
  <2>4. QED
    BY <2>3
<1>3. LocalShare(L, w) \subseteq Strided(L, w, "l_bins", L.C)
  BY <1>2 DEF Strided, LocalShare
<1>4. QED
  BY <1>1, <1>3

\* Items of a group share out the bins.
LEMMA BinShareApart ==
  ASSUME NEW L, PointsLaunch(L), NEW u \in Items(L), NEW w \in Items(L),
         NEW a \in BinShare(L, u), a \in BinShare(L, w)
  PROVE  u = w
<1>1. PICK c \in ShareOfBins(L, u) : a = <<"tmp_masses", 0, L.C * u[1] + c>>
  BY DEF BinShare, Glob
<1>2. PICK d \in ShareOfBins(L, w) : a = <<"tmp_masses", 0, L.C * w[1] + d>>
  BY DEF BinShare, Glob
<1>3. u[1] \in Int /\ w[1] \in Int /\ u = <<u[1], u[2]>> /\ w = <<w[1], w[2]>> /\ L.C \in Nat \ {0}
  BY DEF Items, PointsLaunch
<1>4. c \in 0 .. L.C - 1 /\ d \in 0 .. L.C - 1 /\ c % L.local = u[2] /\ d % L.local = w[2]
  BY DEF ShareOfBins, Clusters
<1> DEFINE x == L.C * u[1] + c
<1>5. x \in Int /\ x = L.C * u[1] + c /\ x = L.C * w[1] + d
  BY <1>1, <1>2, <1>3, <1>4
<1> HIDE DEF x
<1>6. x \div L.C = u[1] /\ x % L.C = c
  BY <1>3, <1>4, <1>5, DivModUnique
<1>7. x \div L.C = w[1] /\ x % L.C = d
  BY <1>3, <1>4, <1>5, DivModUnique
<1>8. QED
  BY <1>3, <1>4, <1>6, <1>7

\* histogram_part_global: every item resets its bins, then adds to any bin of its group.
LEMMA FootHistogramPartGlobal ==
  ASSUME NEW L, PointsLaunch(L), L.kernel = "histogram_part_global", L.out = "tmp_masses",
         NEW w \in Items(L), NEW j \in Nat, NEW m, MemFor(L, m)
  PROVE  LET e == Interval(L, w, j, m)
         IN  /\ EffectOK(L, e)
             /\ j = 0 => Touches(e, {}, BinShare(L, w), {})
             /\ j # 0 => Touches(e, LabelCells(L), {}, Chunk("tmp_masses", L.C, w[1]))
<1> DEFINE S == Lanes(L, w)
<1> DEFINE lab == Labels(L, m, S)
<1> DEFINE e == Interval(L, w, j, m)
<1> DEFINE o == w[1] * L.C
<1>1. e = HistogramPartGlobal(L, w, j, m)
  BY Zenon DEF Interval
<1>2. S \subseteq 0 .. L.N - 1 /\ IsFiniteSet(S)
  BY LanesIn
<1>3. \A q \in S : lab[q] \in 0 .. L.C - 1
  BY <1>2, LabelsOf DEF MemFor, Counts, Clusters
<1>4. \A c : MassOf(lab, c) \in Int
  BY <1>2, MassesTyped DEF MemFor
<1>5. o = L.C * w[1] /\ o \in Int
  BY DEF Items, PointsLaunch
<1>6. CASE j = 0
  <2>1. HistogramPartGlobal(L, w, j, m) =
          [reads |-> {},
           writes |-> [a \in {Glob(L.out, o + c) : c \in ShareOfBins(L, w)} |-> 0], adds |-> <<>>]
    BY <1>6, Zenon DEF HistogramPartGlobal, Zero, Effect, Place
  <2> HIDE DEF S, lab, e, o
  <2>2. e.reads = {} /\ e.adds = <<>>
    BY <1>1, <2>1
  <2>3. DOMAIN e.writes = {Glob("tmp_masses", o + c) : c \in ShareOfBins(L, w)}
    BY <1>1, <2>1
  <2>4. DOMAIN e.writes = BinShare(L, w)
    BY <1>5, <2>3 DEF BinShare
  <2>5. \A a \in DOMAIN e.writes : e.writes[a] = 0 /\ a[1] = "tmp_masses"
    BY <1>1, <2>1 DEF Glob
  <2>6. WritesOK(L, e.writes)
    BY <2>5 DEF WritesOK
  <2>7. DOMAIN e.adds = {} /\ WritesOK(L, e.adds)
    BY <2>2, NoWrites
  <2>8. QED
    BY <1>6, <2>2, <2>4, <2>6, <2>7 DEF EffectOK, Touches, e
<1>7. CASE j # 0
  <2>1. HistogramPartGlobal(L, w, j, m) =
        [reads |-> LabelReads(L, S), writes |-> <<>>,
         adds |-> [a \in {Glob(L.out, o + d) : d \in {lab[q] : q \in S}} |->
                     MassOf(lab, CHOOSE d \in {lab[q] : q \in S} : Glob(L.out, o + d) = a)]]
    BY <1>7, Zenon DEF HistogramPartGlobal, Increments, Atomic, Place
  <2> HIDE DEF S, lab, e, o
  <2>2. e.reads \subseteq LabelCells(L)
    BY <1>1, <1>2, <2>1, LabelReadsIn
  <2>3. e.writes = <<>> /\ WritesOK(L, e.writes) /\ DOMAIN e.writes \subseteq {}
    BY <1>1, <2>1, NoWrites
  <2>4. DOMAIN e.adds = {Glob("tmp_masses", o + d) : d \in {lab[q] : q \in S}}
    BY <1>1, <2>1
  <2>5. \A a \in DOMAIN e.adds : a[1] = "tmp_masses"
    BY <2>4 DEF Glob
  <2>6. \A a \in DOMAIN e.adds : e.adds[a] \in Int
    BY <1>1, <1>4, <2>1, <2>4
  <2>7. DOMAIN e.adds \subseteq Chunk("tmp_masses", L.C, w[1])
    BY <1>3, <1>5, <2>4 DEF Chunk
  <2>8. QED
    BY <1>7, <2>2, <2>3, <2>5, <2>6, <2>7 DEF EffectOK, WritesOK, Touches, e
<1>8. QED
  BY <1>6, <1>7

\* histogram_part_local: the same in local memory, and every item copies its bins out.
LEMMA FootHistogramPartLocal ==
  ASSUME NEW L, PointsLaunch(L), L.kernel = "histogram_part_local", L.out = "tmp_masses",
         NEW w \in Items(L), NEW j \in 0 .. 2, NEW m, MemFor(L, m)
  PROVE  LET e == Interval(L, w, j, m)
             own == LocalShare(L, w)
         IN  /\ EffectOK(L, e)
             /\ j = 0 => Touches(e, {}, own, {})
             /\ j = 1 => Touches(e, LabelCells(L), {}, LocalBins(L, w))
             /\ j = 2 => Touches(e, own, BinShare(L, w), {})
<1> DEFINE S == Lanes(L, w)
<1> DEFINE B == ShareOfBins(L, w)
<1> DEFINE lab == Labels(L, m, S)
<1> DEFINE e == Interval(L, w, j, m)
<1> DEFINE o == w[1] * L.C
<1> DEFINE own == LocalShare(L, w)
<1>1. e = HistogramPartLocal(L, w, j, m)
  BY Zenon DEF Interval
<1>2. S \subseteq 0 .. L.N - 1 /\ IsFiniteSet(S)
  BY LanesIn
<1>3. \A q \in S : lab[q] \in Clusters(L)
  BY <1>2, LabelsOf DEF MemFor, Counts
<1>4. \A c : MassOf(lab, c) \in Int
  BY <1>2, MassesTyped DEF MemFor
<1>5. o = L.C * w[1] /\ o \in Int
  BY DEF Items, PointsLaunch
<1>6. {Loc(w, "l_bins", c) : c \in B} \subseteq own
  BY DEF LocalShare
<1>7. \A a \in {Loc(w, "l_bins", c) : c \in Clusters(L)} : a[1] = "l_bins"
  BY DEF Loc
<1>8. CASE j = 0
  <2>1. HistogramPartLocal(L, w, j, m) =
          [reads |-> {}, writes |-> [a \in {Loc(w, "l_bins", c) : c \in B} |-> 0], adds |-> <<>>]
    BY <1>8, 1 # 0, 2 # 0, Zenon DEF HistogramPartLocal, Zero, Effect, Place
  <2>2. B \subseteq Clusters(L)
    BY DEF ShareOfBins
  <2> HIDE DEF S, B, lab, e, o, own
  <2>3. e.reads = {} /\ e.adds = <<>> /\ DOMAIN e.writes = {Loc(w, "l_bins", c) : c \in B}
    BY <1>1, <2>1
  <2>4. \A a \in DOMAIN e.writes : e.writes[a] = 0 /\ a[1] = "l_bins"
    BY <1>1, <1>7, <2>1, <2>2
  <2>5. WritesOK(L, e.writes)
    BY <2>4 DEF WritesOK
  <2>6. DOMAIN e.adds = {} /\ WritesOK(L, e.adds)
    BY <2>3, NoWrites
  <2>7. QED
    BY <1>6, <1>8, <2>3, <2>5, <2>6 DEF EffectOK, Touches, e, own
<1>9. CASE j = 1
  <2>1. HistogramPartLocal(L, w, j, m) =
        [reads |-> LabelReads(L, S), writes |-> <<>>,
         adds |-> [a \in {Loc(w, "l_bins", d) : d \in {lab[q] : q \in S}} |->
                     MassOf(lab, CHOOSE d \in {lab[q] : q \in S} : Loc(w, "l_bins", d) = a)]]
    BY <1>9, 1 # 0, 2 # 1, Zenon DEF HistogramPartLocal, Increments, Atomic, Place
  <2> HIDE DEF S, B, lab, e, o, own
  <2>2. e.reads \subseteq LabelCells(L)
    BY <1>1, <1>2, <2>1, LabelReadsIn
  <2>3. e.writes = <<>> /\ WritesOK(L, e.writes) /\ DOMAIN e.writes \subseteq {}
    BY <1>1, <2>1, NoWrites
  <2>4. DOMAIN e.adds = {Loc(w, "l_bins", d) : d \in {lab[q] : q \in S}}
    BY <1>1, <2>1
  <2>5. DOMAIN e.adds \subseteq {Loc(w, "l_bins", c) : c \in Clusters(L)}
    BY <1>3, <2>4
  <2>6. \A a \in DOMAIN e.adds : e.adds[a] \in Int
    BY <1>1, <1>4, <2>1, <2>4
  <2>7. \A a \in DOMAIN e.adds : a[1] = "l_bins"
    BY <1>7, <2>5
  <2>8. QED
    BY <1>9, <2>2, <2>3, <2>5, <2>6, <2>7 DEF EffectOK, WritesOK, Touches, LocalBins, e
<1>10. CASE j = 2
  <2>1. HistogramPartLocal(L, w, j, m) =
        [reads |-> {Loc(w, "l_bins", c) : c \in B},
         writes |-> [a \in {Glob(L.out, o + c) : c \in B} |->
                       Val(m, Loc(w, "l_bins", CHOOSE c \in B : Glob(L.out, o + c) = a))],
         adds |-> <<>>]
    BY <1>10, 2 # 0, 2 # 1, Zenon DEF HistogramPartLocal, CopyCells, Effect, Place
  <2>2. {Glob("tmp_masses", o + c) : c \in B} = BinShare(L, w)
    BY <1>5 DEF BinShare
  <2> HIDE DEF S, B, lab, e, o, own
  <2>3. e.reads = {Loc(w, "l_bins", c) : c \in B} /\ e.adds = <<>>
    BY <1>1, <2>1
  <2>4. DOMAIN e.writes = {Glob("tmp_masses", o + c) : c \in B}
    BY <1>1, <2>1
  <2>5. \A a \in DOMAIN e.writes : a[1] = "tmp_masses"
    BY <2>4 DEF Glob
  <2>6. \A a \in DOMAIN e.writes : e.writes[a] \in Int
    BY <1>1, <2>1, <2>4, ValTyped DEF MemFor
  <2>7. WritesOK(L, e.writes)
    BY <2>5, <2>6 DEF WritesOK
  <2>8. DOMAIN e.adds = {} /\ WritesOK(L, e.adds)
    BY <2>3, NoWrites
  <2>9. QED
    BY <1>6, <1>10, <2>2, <2>3, <2>4, <2>7, <2>8 DEF EffectOK, Touches, e, own
<1>11. QED
  BY <1>8, <1>9, <1>10

\* The largest of finitely many numbers.
LEMMA MaxTyped ==
  ASSUME NEW n \in Nat, NEW S, S \subseteq 0 .. n, S # {}
  PROVE  Max(S) \in S
<1> DEFINE T == {n - x : x \in S}
<1>1. T \subseteq Nat /\ T # {}
  <2>1. \A x \in S : n - x \in Nat
    OBVIOUS
  <2>2. QED
    BY <2>1
<1>2. PICK t \in T : \A y \in T : t <= y
  <2> HIDE DEF T
  <2> QED BY <1>1, LeastNat
<1>3. PICK x \in S : t = n - x
  OBVIOUS
<1>4. \A y \in S : n - x <= n - y
  BY <1>2, <1>3
<1>5. \A y \in S : x >= y
  BY <1>4
<1>6. QED
  BY <1>5 DEF Max

\* The places where an item's vectors start.
LEMMA StartsIn ==
  ASSUME NEW L, PointsLaunch(L), NEW w \in Items(L)
  PROVE  Starts(L, w) \subseteq 0 .. L.N
<1>1. SUFFICES ASSUME NEW y \in Starts(L, w) PROVE y \in 0 .. L.N
  OBVIOUS
<1>2. y \in Nat /\ y + L.vec <= L.N
  BY VectorsWithin DEF PointsLaunch
<1>3. QED
  BY <1>2 DEF PointsLaunch, Striped

\* The cells of l_points that an item writes are its own.
LEMMA CachedOK ==
  ASSUME NEW L, PointsLaunch(L), NEW w \in Items(L), NEW S, S \subseteq 0 .. L.N
  PROVE  WritesOK(L, Cached(L, w, S))
           /\ DOMAIN Cached(L, w, S) \subseteq Strided(L, w, "l_points", L.F)
<1> DEFINE D == {f \in Features(L) : S # {}}
<1> DEFINE e == Cached(L, w, S)
<1>1. e = [a \in {Loc(w, "l_points", L.local * f + w[2]) : f \in D} |->
             L.N * (CHOOSE f \in D : Loc(w, "l_points", L.local * f + w[2]) = a) + Max(S)]
  BY Zenon DEF Cached, Place
<1>2. D \subseteq 0 .. L.F - 1 /\ D \subseteq Int
  BY DEF Features
<1>3. S # {} => Max(S) \in Int
  <2>1. L.N \in Nat
    BY DEF PointsLaunch, Striped
  <2>2. S # {} => Max(S) \in S
    BY <2>1, MaxTyped, Zenon
  <2>3. \A x \in S : x \in Int
    BY <2>1
  <2>4. QED
    BY <2>2, <2>3, Zenon
<1>4. D # {} => S # {}
  OBVIOUS
<1>5. L.N \in Nat
  BY DEF PointsLaunch, Striped
<1> HIDE DEF D, e
<1>6. DOMAIN e = {Loc(w, "l_points", L.local * f + w[2]) : f \in D}
  BY <1>1
<1>7. ASSUME NEW a \in DOMAIN e PROVE e[a] \in Int /\ a[1] = "l_points"
  <2> DEFINE f == CHOOSE f \in D : Loc(w, "l_points", L.local * f + w[2]) = a
  <2>1. f \in D
    BY <1>6, <1>7
  <2>2. e[a] = L.N * f + Max(S)
    BY <1>1, <1>6, <1>7, Zenon
  <2> HIDE DEF f
  <2>3. e[a] \in Int
    BY <1>2, <1>3, <1>4, <1>5, <2>1, <2>2
  <2>4. a[1] = "l_points"
    BY <1>6, <1>7 DEF Loc
  <2>5. QED
    BY <2>3, <2>4
<1>8. WritesOK(L, e)
  BY <1>7 DEF WritesOK
<1>9. DOMAIN e \subseteq Strided(L, w, "l_points", L.F)
  BY <1>2, <1>6 DEF Strided
<1>10. QED
  BY <1>8, <1>9 DEF e

\* The labels that an item writes.
LabelWrites(L, m, S) ==
  [a \in {InBlock(L, "labels", d) : d \in DOMAIN Relabelled(L, m, S)} |->
     Relabelled(L, m, S)[CHOOSE d \in DOMAIN Relabelled(L, m, S) : InBlock(L, "labels", d) = a]]

\* The labels an item writes are clusters, one for each of its points.
LEMMA LabelWritesOK ==
  ASSUME NEW L, PointsLaunch(L), NEW m, MemOK(m), NEW S, S \subseteq 0 .. L.N - 1
  PROVE  /\ WritesOK(L, LabelWrites(L, m, S)) /\ LabelReads(L, S) \subseteq LabelCells(L)
         /\ DOMAIN LabelWrites(L, m, S) = LabelReads(L, S)
<1> DEFINE new == Relabelled(L, m, S)
<1> DEFINE e == LabelWrites(L, m, S)
<1>1. DOMAIN new = S /\ \A q \in S : new[q] \in Clusters(L)
  BY LabelsOf, ClosestTyped DEF PointsLaunch
<1>2. e = [a \in {InBlock(L, "labels", d) : d \in DOMAIN new} |->
             new[CHOOSE d \in DOMAIN new : InBlock(L, "labels", d) = a]]
  BY Zenon DEF LabelWrites
<1> HIDE DEF new, e
<1>3. DOMAIN e = {InBlock(L, "labels", d) : d \in S}
  BY <1>1, <1>2
<1>4. \A a \in DOMAIN e : e[a] \in Clusters(L)
  BY <1>1, <1>2, <1>3
<1>5. Clusters(L) \subseteq Int
  BY DEF Clusters
<1>6. QED
  BY <1>3, <1>4, <1>5, LabelReadsIn DEF WritesOK, LabelReads, e

-----------------------------------------------------------------------------
(***************************************************************************)
(* Mass updates with more than one histogram                               *)
(***************************************************************************)
\* histogram_part_private: every item has bins of its own.
LEMMA FootHistogramPartPrivate ==
  ASSUME NEW L, PointsLaunch(L), L.kernel = "histogram_part_private", L.out = "tmp_masses",
         NEW w \in Items(L), NEW j, NEW m, MemFor(L, m)
  PROVE  LET e == Interval(L, w, j, m)
         IN  /\ EffectOK(L, e)
             /\ Touches(e, LabelCells(L),
                        Chunk("tmp_masses", L.C, Gid(L, w))
                          \cup Strided(L, w, "local_buf", L.C), {})
<1> DEFINE S == Lanes(L, w)
<1> DEFINE lab == Labels(L, m, S)
<1> DEFINE e == Interval(L, w, j, m)
<1> DEFINE o == w[1] * L.local * L.C
<1> DEFINE A(c) == Glob(L.out, o + L.C * w[2] + c)
<1> DEFINE B(c) == Loc(w, "local_buf", L.local * c + w[2])
<1> DEFINE result == [a \in {A(c) : c \in Clusters(L)} |->
                        MassOf(lab, CHOOSE c \in Clusters(L) : A(c) = a)]
<1> DEFINE cached == [a \in {B(c) : c \in Clusters(L)} |->
                        MassOf(lab, CHOOSE c \in Clusters(L) : B(c) = a)]
<1>1. e = HistogramPartPrivate(L, w, m)
  BY Zenon DEF Interval
<1>2. HistogramPartPrivate(L, w, m) =
        [reads |-> LabelReads(L, DOMAIN lab),
         writes |-> IF L.lmem THEN Over(cached, result) ELSE result, adds |-> <<>>]
  BY Zenon DEF HistogramPartPrivate, Effect, Place
<1>3. S \subseteq 0 .. L.N - 1 /\ IsFiniteSet(S) /\ DOMAIN lab = S
  BY LanesIn, LabelsOf
<1>4. \A c : MassOf(lab, c) \in Int
  BY <1>3, MassesTyped DEF MemFor
<1>5. \A c \in Clusters(L) : o + L.C * w[2] + c = L.C * Gid(L, w) + c
  <2>1. w[1] \in Int /\ w[2] \in Int /\ L.local \in Int /\ L.C \in Int
          /\ \A c \in Clusters(L) : c \in Int
    BY DEF Items, PointsLaunch, Clusters
  <2>2. o + L.C * w[2] = L.C * (w[1] * L.local + w[2])
    BY <2>1
  <2>3. QED
    BY <2>2 DEF Gid
<1>6. {A(c) : c \in Clusters(L)} \subseteq Chunk("tmp_masses", L.C, Gid(L, w))
  BY <1>5 DEF Chunk, Clusters
<1>7. {B(c) : c \in Clusters(L)} \subseteq Strided(L, w, "local_buf", L.C)
  BY DEF Strided, Clusters
<1>8. \A c : A(c)[1] = "tmp_masses" /\ B(c)[1] = "local_buf"
  BY DEF Glob, Loc
<1> HIDE DEF S, lab, e, o, A, B
<1>9. DOMAIN result = {A(c) : c \in Clusters(L)} /\ WritesOK(L, result)
  BY <1>4, <1>8 DEF WritesOK
<1>10. DOMAIN cached = {B(c) : c \in Clusters(L)} /\ WritesOK(L, cached)
  BY <1>4, <1>8 DEF WritesOK
<1> HIDE DEF result, cached
<1>11. WritesOK(L, Over(cached, result))
         /\ DOMAIN Over(cached, result) = DOMAIN cached \cup DOMAIN result
  <2>1. WritesOK(L, result) /\ WritesOK(L, cached)
    BY <1>9, <1>10
  <2>2. WritesOK(L, Over(cached, result))
    BY <2>1, OverOK, Zenon
  <2>3. QED
    BY <2>2, OverDomain, Zenon
<1>12. /\ WritesOK(L, e.writes)
       /\ DOMAIN e.writes \subseteq Chunk("tmp_masses", L.C, Gid(L, w))
            \cup Strided(L, w, "local_buf", L.C)
  BY <1>1, <1>2, <1>6, <1>7, <1>9, <1>10, <1>11
<1>13. e.reads \subseteq LabelCells(L)
  BY <1>1, <1>2, <1>3, LabelReadsIn
<1>14. WritesOK(L, e.adds) /\ DOMAIN e.adds = {}
  BY <1>1, <1>2, NoWrites
<1>15. QED
  BY <1>12, <1>13, <1>14 DEF Touches, EffectOK, e

\* lloyd_labeling_vp_clcp: every item writes the labels of the points it visits.
LEMMA FootLabeling ==
  ASSUME NEW L, PointsLaunch(L), L.kernel = "lloyd_labeling_vp_clcp",
         NEW w \in Items(L), NEW j, NEW m, MemFor(L, m)
  PROVE  LET e == Interval(L, w, j, m)
         IN  /\ EffectOK(L, e)
             /\ Touches(e, PointCells(L) \cup CentroidReads(L),
                        LabelReads(L, Lanes(L, w)) \cup Strided(L, w, "l_points", L.F), {})
             /\ LabelReads(L, Lanes(L, w)) \subseteq DOMAIN e.writes
             /\ LabelReads(L, Lanes(L, w)) \subseteq LabelCells(L)
<1> DEFINE S == Lanes(L, w)
<1> DEFINE V == Starts(L, w)
<1> DEFINE new == Relabelled(L, m, S)
<1> DEFINE labels == LabelWrites(L, m, S)
<1> DEFINE e == Interval(L, w, j, m)
<1>1. e = LloydLabelingVpClcp(L, w, m)
  BY Zenon DEF Interval
<1>2. LloydLabelingVpClcp(L, w, m) =
        [reads |-> PointReads(L, DOMAIN new, Features(L)) \cup CentroidReads(L),
         writes |-> IF L.lmem THEN Over(Cached(L, w, V), labels) ELSE labels, adds |-> <<>>]
  BY Zenon DEF LloydLabelingVpClcp, Effect, Place, LabelWrites
<1>3. S \subseteq 0 .. L.N - 1 /\ DOMAIN new = S
  BY LanesIn, LabelsOf
<1>4. PointReads(L, S, Features(L)) \subseteq PointCells(L)
  <2>1. Features(L) \subseteq 0 .. L.F - 1 /\ L.N \in Nat /\ L.F \in Nat
    BY DEF Features, PointsLaunch, Striped
  <2>2. QED
    BY <1>3, <2>1, PointReadsIn
<1>5. WritesOK(L, labels) /\ DOMAIN labels = LabelReads(L, S)
        /\ LabelReads(L, S) \subseteq LabelCells(L)
  BY <1>3, LabelWritesOK DEF MemFor
<1>6. WritesOK(L, Cached(L, w, V))
        /\ DOMAIN Cached(L, w, V) \subseteq Strided(L, w, "l_points", L.F)
  BY StartsIn, CachedOK
<1> HIDE DEF S, V, new, labels, e
<1>7. /\ WritesOK(L, Over(Cached(L, w, V), labels))
      /\ DOMAIN Over(Cached(L, w, V), labels) = DOMAIN Cached(L, w, V) \cup DOMAIN labels
  <2>1. WritesOK(L, labels) /\ WritesOK(L, Cached(L, w, V))
    BY <1>5, <1>6
  <2>2. WritesOK(L, Over(Cached(L, w, V), labels))
    BY <2>1, OverOK, Zenon
  <2>3. QED
    BY <2>2, OverDomain, Zenon
<1>8. /\ WritesOK(L, e.writes)
      /\ DOMAIN e.writes \subseteq LabelReads(L, S) \cup Strided(L, w, "l_points", L.F)
      /\ LabelReads(L, S) \subseteq DOMAIN e.writes
  BY <1>1, <1>2, <1>5, <1>6, <1>7
<1>9. e.reads \subseteq PointCells(L) \cup CentroidReads(L)
  BY <1>1, <1>2, <1>3, <1>4
<1>10. WritesOK(L, e.adds) /\ DOMAIN e.adds = {}
  BY <1>1, <1>2, NoWrites
<1>11. QED
  BY <1>5, <1>8, <1>9, <1>10 DEF Touches, EffectOK, e, S

\* The index of a cell in a matrix of n features.
LEMMA CellIn ==
  ASSUME NEW L, L.C \in Nat \ {0}, NEW n \in Nat, NEW d \in Clusters(L) \X (0 .. n - 1)
  PROVE  Cell(L, d) \in 0 .. L.C * n - 1
<1>1. d[1] \in 0 .. L.C - 1 /\ d[2] \in 0 .. n - 1
  BY DEF Clusters
<1>2. L.C * d[2] + d[1] \in Nat /\ L.C * d[2] + d[1] < L.C * n
  BY <1>1, ChunkIndex
<1> DEFINE x == L.C * d[2] + d[1]
<1> DEFINE y == L.C * n
<1>3. x \in Nat /\ y \in Nat /\ x < y
  BY <1>2
<1> HIDE DEF x, y
<1>4. x \in 0 .. y - 1
  BY <1>3
<1>5. QED
  BY <1>4 DEF x, y, Cell

\* The sums that an item keeps to itself, in global and in local memory.
LEMMA OwnCells ==
  ASSUME NEW L, PointsLaunch(L), NEW w \in Items(L), NEW d \in CentroidCells(L)
  PROVE  /\ OwnCentroid(L, w, d) \in Chunk(L.out, L.C * L.F, Gid(L, w))
         /\ OwnLocal(L, w, d) \in Strided(L, w, "l_centroids", L.C * L.F)
         /\ OwnCentroid(L, w, d)[1] = L.out /\ OwnLocal(L, w, d)[1] = "l_centroids"
<1>1. Cell(L, d) \in 0 .. L.C * L.F - 1
  BY CellIn DEF CentroidCells, Features, PointsLaunch
<1>2. Gid(L, w) \in Int /\ L.C \in Int /\ L.F \in Int
  BY GidTyped DEF PointsLaunch
<1>3. Gid(L, w) * L.F * L.C = (L.C * L.F) * Gid(L, w)
  BY <1>2
<1>4. OwnCentroid(L, w, d) \in Chunk(L.out, L.C * L.F, Gid(L, w))
  BY <1>1, <1>3 DEF OwnCentroid, Chunk
<1>5. OwnLocal(L, w, d) \in Strided(L, w, "l_centroids", L.C * L.F)
  BY <1>1 DEF OwnLocal, Strided
<1>6. QED
  BY <1>4, <1>5 DEF OwnCentroid, OwnLocal, Glob, Loc

\* lloyd_cluster_merge: every item has sums of its own.
LEMMA FootClusterMerge ==
  ASSUME NEW L, PointsLaunch(L), L.kernel = "lloyd_cluster_merge", L.out = "tmp_centroids",
         NEW w \in Items(L), NEW j, j \in 0 .. 2, NEW m, MemFor(L, m)
  PROVE  LET e == Interval(L, w, j, m)
             own == Chunk("tmp_centroids", L.C * L.F, Gid(L, w))
                      \cup Strided(L, w, "l_centroids", L.C * L.F)
         IN  EffectOK(L, e) /\ Touches(e, LabelCells(L) \cup PointCells(L) \cup own, own, {})
<1> DEFINE S == Lanes(L, w)
<1> DEFINE lab == Labels(L, m, S)
<1> DEFINE e == Interval(L, w, j, m)
<1> DEFINE reads == LabelReads(L, DOMAIN lab) \cup PointReads(L, DOMAIN lab, Features(L))
<1> DEFINE D == CentroidCells(L)
<1> DEFINE g(d) == OwnCentroid(L, w, d)
<1> DEFINE l(d) == OwnLocal(L, w, d)
<1> DEFINE sum(d) == SumOf(L, m, lab, d[2], d[1])
<1> DEFINE G == Chunk("tmp_centroids", L.C * L.F, Gid(L, w))
<1> DEFINE O == Strided(L, w, "l_centroids", L.C * L.F)
<1>1. e = LloydClusterMerge(L, w, j, m)
  BY Zenon DEF Interval
<1>2. S \subseteq 0 .. L.N - 1 /\ IsFiniteSet(S) /\ DOMAIN lab = S
  BY LanesIn, LabelsOf
<1>3. \A d : sum(d) \in Int
  BY <1>2, SumsTyped DEF MemFor
<1>4. LabelReads(L, S) \subseteq LabelCells(L)
        /\ PointReads(L, S, Features(L)) \subseteq PointCells(L)
  <2>1. Features(L) \subseteq 0 .. L.F - 1 /\ L.N \in Nat /\ L.F \in Nat
    BY DEF Features, PointsLaunch, Striped
  <2>2. QED
    BY <1>2, <2>1, PointReadsIn, LabelReadsIn
<1>5. \A d \in D : g(d) \in G /\ l(d) \in O /\ g(d)[1] # "labels" /\ l(d)[1] # "labels"
  BY OwnCells
<1>6. L.lmem = FALSE \/ L.lmem = TRUE
  BY DEF PointsLaunch
<1> HIDE DEF G, O
<1>7. CASE L.lmem = FALSE
  <2>1. LloydClusterMerge(L, w, j, m) =
          [reads |-> reads, writes |-> [a \in {g(d) : d \in D} |-> sum(CHOOSE d \in D : g(d) = a)],
           adds |-> <<>>]
    BY <1>7, Zenon DEF LloydClusterMerge, Effect, Place
  <2> HIDE DEF S, lab, e, D, g, l, sum, reads
  <2>2. e.reads = reads /\ e.adds = <<>> /\ DOMAIN e.writes = {g(d) : d \in D}
    BY <1>1, <2>1
  <2>3. \A a \in DOMAIN e.writes : e.writes[a] \in Int
    BY <1>1, <1>3, <2>1
  <2>4. DOMAIN e.writes \subseteq G /\ \A a \in DOMAIN e.writes : a[1] # "labels"
    BY <1>5, <2>2
  <2>5. DOMAIN e.adds = {} /\ WritesOK(L, e.adds)
    BY <2>2, NoWrites
  <2>6. e.reads \subseteq LabelCells(L) \cup PointCells(L)
    BY <1>2, <1>4, <2>2 DEF reads
  <2>7. QED
    BY <2>3, <2>4, <2>5, <2>6 DEF EffectOK, WritesOK, Touches, e, G, O
<1>8. CASE L.lmem = TRUE /\ j = 0
  <2>1. LloydClusterMerge(L, w, j, m) =
          [reads |-> {}, writes |-> [a \in {l(d) : d \in D} |-> 0], adds |-> <<>>]
    BY <1>8, 1 # 0, 2 # 0, Zenon DEF LloydClusterMerge, Zero, Effect, Place
  <2> HIDE DEF S, lab, e, D, g, l, sum, reads
  <2>2. e.reads = {} /\ e.adds = <<>> /\ DOMAIN e.writes = {l(d) : d \in D}
    BY <1>1, <2>1
  <2>3. \A a \in DOMAIN e.writes : e.writes[a] \in Int
    BY <1>1, <2>1
  <2>4. DOMAIN e.writes \subseteq O /\ \A a \in DOMAIN e.writes : a[1] # "labels"
    BY <1>5, <2>2
  <2>5. DOMAIN e.adds = {} /\ WritesOK(L, e.adds)
    BY <2>2, NoWrites
  <2>6. QED
    BY <2>2, <2>3, <2>4, <2>5 DEF EffectOK, WritesOK, Touches, e, G, O
<1>9. CASE L.lmem = TRUE /\ j = 1
  <2>1. LloydClusterMerge(L, w, j, m) =
          [reads |-> reads \cup {l(d) : d \in D},
           writes |-> [a \in {l(d) : d \in D} |->
              Val(m, l(CHOOSE d \in D : l(d) = a)) + sum(CHOOSE d \in D : l(d) = a)],
           adds |-> <<>>]
    BY <1>9, 1 # 0, 2 # 1, Zenon DEF LloydClusterMerge, Accumulate, Effect, Place
  <2>2. \A a : Val(m, a) \in Int
    BY ValTyped DEF MemFor
  <2> HIDE DEF S, lab, e, D, g, l, sum, reads
  <2>3. e.reads = reads \cup {l(d) : d \in D} /\ e.adds = <<>> /\ DOMAIN e.writes = {l(d) : d \in D}
    BY <1>1, <2>1
  <2>4. \A a \in DOMAIN e.writes : e.writes[a] \in Int
    BY <1>1, <1>3, <2>1, <2>2
  <2>5. DOMAIN e.writes \subseteq O /\ \A a \in DOMAIN e.writes : a[1] # "labels"
    BY <1>5, <2>3
  <2>6. DOMAIN e.adds = {} /\ WritesOK(L, e.adds)
    BY <2>3, NoWrites
  <2>7. e.reads \subseteq LabelCells(L) \cup PointCells(L) \cup O
    BY <1>2, <1>4, <1>5, <2>3 DEF reads
  <2>8. QED
    BY <2>4, <2>5, <2>6, <2>7 DEF EffectOK, WritesOK, Touches, e, G, O
<1>10. CASE L.lmem = TRUE /\ j = 2
  <2>1. LloydClusterMerge(L, w, j, m) =
          [reads |-> {l(d) : d \in D},
           writes |-> [a \in {g(d) : d \in D} |-> Val(m, l(CHOOSE d \in D : g(d) = a))],
           adds |-> <<>>]
    BY <1>10, 2 # 0, 2 # 1, Zenon DEF LloydClusterMerge, CopyCells, Effect, Place
  <2>2. \A a : Val(m, a) \in Int
    BY ValTyped DEF MemFor
  <2> HIDE DEF S, lab, e, D, g, l, sum, reads
  <2>3. e.reads = {l(d) : d \in D} /\ e.adds = <<>> /\ DOMAIN e.writes = {g(d) : d \in D}
    BY <1>1, <2>1
  <2>4. \A a \in DOMAIN e.writes : e.writes[a] \in Int
    BY <1>1, <2>1, <2>2
  <2>5. DOMAIN e.writes \subseteq G /\ \A a \in DOMAIN e.writes : a[1] # "labels"
    BY <1>5, <2>3
  <2>6. DOMAIN e.adds = {} /\ WritesOK(L, e.adds)
    BY <2>3, NoWrites
  <2>7. e.reads \subseteq O
    BY <1>5, <2>3
  <2>8. QED
    BY <2>4, <2>5, <2>6, <2>7 DEF EffectOK, WritesOK, Touches, e, G, O
<1>11. j = 0 \/ j = 1 \/ j = 2
  OBVIOUS
<1>12. QED
  BY <1>6, <1>7, <1>8, <1>9, <1>10, <1>11, Zenon

\* What the block of an item in the feature sum needs.
SumShape(L) == L.F <= L.groups * L.local

\* An item of lloyd_feature_sum visits points of its block of points.
LEMMA BlockPointsIn ==
  ASSUME NEW L, PointsLaunch(L), SumShape(L), NEW w \in Items(L)
  PROVE  BlockPoints(L, w) \subseteq 0 .. L.N - 1 /\ IsFiniteSet(BlockPoints(L, w))
<1> DEFINE n == CeilDiv(L.N, PointBlocks(L))
<1> DEFINE b == PointBlockOf(L, w)
<1> DEFINE real == IF n * (b + 1) > L.N THEN SubSat(L.N, n * b) ELSE n
<1>1. Gid(L, w) \in Nat /\ L.F \in Nat \ {0} /\ L.N \in Nat /\ L.groups * L.local \in Nat
  BY GidTyped DEF PointsLaunch, Striped
<1>2. b \in Nat
  BY <1>1, DivNat DEF PointBlockOf
<1>3. PointBlocks(L) \in Nat \ {0}
  <2> DEFINE g == L.groups * L.local
  <2> DEFINE q == g \div L.F
  <2>1. g \in Nat /\ L.F <= g
    BY <1>1 DEF SumShape
  <2>2. PointBlocks(L) = q
    BY DEF PointBlocks
  <2> HIDE DEF g
  <2>3. q \in Nat
    BY <1>1, <2>1, DivNat
  <2>6. g % L.F \in 0 .. L.F - 1 /\ g = L.F * q + (g % L.F)
    <3>1. g \in Int
      BY <2>1
    <3>2. QED
      BY <1>1, <3>1, DivMod
  <2> HIDE DEF q
  <2>4. q # 0
    BY <1>1, <2>1, <2>3, <2>6
  <2>5. QED
    BY <2>2, <2>3, <2>4
<1>4. n \in Nat
  BY <1>1, <1>3, CeilCovers
<1>5. BlockPoints(L, w) = n * b .. n * b + real - 1
  BY DEF BlockPoints
<1> HIDE DEF n, b
<1>6. n * b \in Nat /\ n * (b + 1) = n * b + n
  BY <1>2, <1>4
<1>7. real \in Nat /\ (n * b + real <= L.N \/ real = 0)
  BY <1>1, <1>4, <1>6 DEF SubSat
<1> HIDE DEF real
<1>8. BlockPoints(L, w) \subseteq 0 .. L.N - 1
  BY <1>1, <1>5, <1>6, <1>7
<1>9. IsFiniteSet(0 .. L.N - 1)
  <2>1. 0 \in Int /\ L.N - 1 \in Int
    BY <1>1
  <2>2. QED
    BY <2>1, FS_Interval
<1>10. QED
  BY <1>8, <1>9, FS_Subset

\* lloyd_feature_sum: every item has sums of one feature and one block of points.
LEMMA FootFeatureSum ==
  ASSUME NEW L, PointsLaunch(L), SumShape(L), L.kernel = "lloyd_feature_sum",
         L.out = "tmp_centroids",
         NEW w \in Items(L), NEW j, NEW m, MemFor(L, m)
  PROVE  LET e == Interval(L, w, j, m)
         IN  /\ EffectOK(L, e)
             /\ Touches(e, LabelCells(L) \cup PointCells(L),
                        Chunk("tmp_centroids", L.C, Gid(L, w)), {})
<1> DEFINE S == BlockPoints(L, w)
<1> DEFINE lab == Labels(L, m, S)
<1> DEFINE e == Interval(L, w, j, m)
<1> DEFINE f == FeatureOf(L, w)
<1> DEFINE o == L.C * L.F * PointBlockOf(L, w)
<1> DEFINE D == Clusters(L)
<1> DEFINE g(c) == Glob(L.out, o + L.C * f + c)
<1>1. e = LloydFeatureSum(L, w, m)
  BY Zenon DEF Interval
<1>2. LloydFeatureSum(L, w, m) =
        [reads |-> LabelReads(L, DOMAIN lab) \cup PointReads(L, DOMAIN lab, {f}),
         writes |-> [a \in {g(c) : c \in D} |-> SumOf(L, m, lab, f, CHOOSE c \in D : g(c) = a)],
         adds |-> <<>>]
  BY Zenon DEF LloydFeatureSum, Effect, Place
<1>3. S \subseteq 0 .. L.N - 1 /\ IsFiniteSet(S) /\ DOMAIN lab = S
  BY BlockPointsIn, LabelsOf
<1>4. \A c : SumOf(L, m, lab, f, c) \in Int
  BY <1>3, SumsTyped DEF MemFor
<1>5. /\ f \in 0 .. L.F - 1 /\ PointBlockOf(L, w) \in Int
      /\ Gid(L, w) = L.F * PointBlockOf(L, w) + f
  <2>1. Gid(L, w) \in Int /\ L.F \in Nat \ {0}
    BY GidTyped DEF PointsLaunch
  <2>2. QED
    BY <2>1, DivMod DEF FeatureOf, PointBlockOf
<1>6. o + L.C * f = L.C * Gid(L, w)
  <2> DEFINE p == PointBlockOf(L, w)
  <2>1. L.C \in Int /\ L.F \in Int /\ f \in Int /\ p \in Int /\ Gid(L, w) = L.F * p + f
    BY <1>5 DEF PointsLaunch
  <2>2. o = L.C * L.F * p
    OBVIOUS
  <2> HIDE DEF p, f, o
  <2>3. QED
    BY <2>1, <2>2
<1>7. LabelReads(L, S) \subseteq LabelCells(L) /\ PointReads(L, S, {f}) \subseteq PointCells(L)
  <2>1. {f} \subseteq 0 .. L.F - 1 /\ L.N \in Nat /\ L.F \in Nat
    BY <1>5 DEF PointsLaunch, Striped
  <2>2. QED
    BY <1>3, <2>1, PointReadsIn, LabelReadsIn
<1>8. \A c \in D : g(c) \in Chunk("tmp_centroids", L.C, Gid(L, w)) /\ g(c)[1] # "labels"
  <2>1. \A c \in D : c \in 0 .. L.C - 1
    BY DEF Clusters
  <2> HIDE DEF f, o, D
  <2>2. \A c \in D : g(c) = Glob("tmp_centroids", L.C * Gid(L, w) + c)
    BY <1>6
  <2> HIDE DEF g
  <2>3. QED
    BY <2>1, <2>2 DEF Chunk, Glob
<1> HIDE DEF S, lab, e, f, o, D, g
<1>9. e.adds = <<>> /\ DOMAIN e.writes = {g(c) : c \in D}
  BY <1>1, <1>2
<1>10. \A a \in DOMAIN e.writes : e.writes[a] \in Int
  BY <1>1, <1>2, <1>4
<1>11. DOMAIN e.writes \subseteq Chunk("tmp_centroids", L.C, Gid(L, w))
         /\ \A a \in DOMAIN e.writes : a[1] # "labels"
  BY <1>8, <1>9
<1>12. DOMAIN e.adds = {} /\ WritesOK(L, e.adds)
  BY <1>9, NoWrites
<1>13. e.reads \subseteq LabelCells(L) \cup PointCells(L)
  <2>1. e.reads = LabelReads(L, DOMAIN lab) \cup PointReads(L, DOMAIN lab, {f})
    BY <1>1, <1>2
  <2>2. QED
    BY <1>3, <1>7, <2>1
<1>14. QED
  BY <1>10, <1>11, <1>12, <1>13 DEF EffectOK, WritesOK, Touches, e

\* How many elements of S are below x.
Rank(S, x) == Cardinality({y \in S : y < x})

\* Every rank below the size of a set of numbers is that of an element.
LEMMA RankOf ==
  ASSUME NEW n \in Nat, NEW S, S \subseteq 0 .. n, NEW k \in Nat, k < Cardinality(S)
  PROVE  \E x \in S : Rank(S, x) = k
<1> DEFINE Below(x) == {y \in S : y < x}
<1> DEFINE T == {i \in Nat : i < Cardinality(S) => \E x \in S : Cardinality(Below(x)) = i}
<1>1. IsFiniteSet(S) /\ Cardinality(S) \in Nat
  <2>1. IsFiniteSet(0 .. n)
    BY FS_Interval, 0 \in Int, n \in Int
  <2>2. QED
    BY <2>1, FS_Subset, FS_CardinalityType
<1>2. S \subseteq Nat
  OBVIOUS
<1>3. 0 \in T
  <2>1. SUFFICES ASSUME 0 < Cardinality(S) PROVE \E x \in S : Cardinality(Below(x)) = 0
    OBVIOUS
  <2>2. S # {}
    BY <2>1, FS_EmptySet
  <2>3. PICK x \in S : \A y \in S : x <= y
    BY <1>2, <2>2, LeastNat
  <2>6. \A y \in S : ~(y < x)
    BY <1>2, <2>3
  <2>4. Below(x) = {}
    BY <2>6
  <2>5. QED
    BY <2>4, FS_EmptySet
<1>4. ASSUME NEW i \in Nat, i \in T PROVE i + 1 \in T
  <2>1. SUFFICES ASSUME i + 1 < Cardinality(S) PROVE \E x \in S : Cardinality(Below(x)) = i + 1
    OBVIOUS
  <2>2. PICK x \in S : Cardinality(Below(x)) = i
    BY <1>1, <1>4, <2>1
  <2> DEFINE P == Below(x) \cup {x}
  <2>3. IsFiniteSet(Below(x)) /\ x \notin Below(x)
    BY <1>1, <1>2, FS_Subset
  <2>4. IsFiniteSet(P) /\ Cardinality(P) = i + 1
    BY <2>2, <2>3, FS_AddElement
  <2>5. S \ P # {}
    <3>1. S \ P = {} => P = S
      OBVIOUS
    <3> HIDE DEF P
    <3>2. QED
      BY <1>1, <2>1, <2>4, <3>1
  <2>6. S \ P \subseteq Nat
    BY <1>2
  <2>7. PICK z \in S \ P : \A y \in S \ P : z <= y
    <3> HIDE DEF P
    <3> QED BY <2>5, <2>6, LeastNat
  <2>8. Below(z) = P
    <3>1. ASSUME NEW y \in Below(z) PROVE y \in P
      BY <1>2, <2>7
    <3>2. ASSUME NEW y \in P PROVE y \in Below(z)
      BY <1>2, <2>7
    <3>3. QED
      BY <3>1, <3>2
  <2>9. QED
    BY <2>4, <2>7, <2>8
<1>5. k \in T
  <2> HIDE DEF T
  <2> QED BY <1>3, <1>4, AllNumbers
<1>6. QED
  BY <1>5 DEF Rank

\* The k-th element of a set of numbers is in it.
LEMMA NthIn ==
  ASSUME NEW n \in Nat, NEW S, S \subseteq 0 .. n, NEW k \in 1 .. Cardinality(S)
  PROVE  Nth(S, k) \in S
<1>1. IsFiniteSet(S) /\ Cardinality(S) \in Nat
  <2>1. IsFiniteSet(0 .. n)
    BY FS_Interval, 0 \in Int, n \in Int
  <2>2. QED
    BY <2>1, FS_Subset, FS_CardinalityType
<1>2. k - 1 \in Nat /\ k - 1 < Cardinality(S)
  BY <1>1
<1>3. \E x \in S : Cardinality({y \in S : y < x}) = k - 1
  <2> DEFINE i == k - 1
  <2>1. i \in Nat /\ i < Cardinality(S)
    BY <1>2
  <2> HIDE DEF i
  <2>2. \E x \in S : Rank(S, x) = i
    BY <2>1, RankOf
  <2>3. QED
    BY <2>2 DEF i, Rank
<1>4. QED
  BY <1>3 DEF Nth

\* The tiles of pardim: an item is that of its ids in the two dimensions.
TileShape(L) ==
  /\ L.tf \in Nat \ {0} /\ L.cols \in Nat \ {0} /\ L.F = L.tf * L.cols
  /\ GlobalSize0(L) \in Nat
  /\ \A w \in Items(L) : Gid0(L, w) \in 0 .. GlobalSize0(L) - 1 /\ Gid1(L, w) \in 0 .. L.cols - 1
  /\ \A u, w \in Items(L) : Gid0(L, u) = Gid0(L, w) /\ Gid1(L, u) = Gid1(L, w) => u = w

\* The number of the tile of an item.
TileNumber(L, w) == L.cols * Gid0(L, w) + Gid1(L, w)

\* The points of a vector.
LEMMA VectorIn ==
  ASSUME NEW L, PointsLaunch(L), NEW w \in Items(L), NEW k \in 1 .. Cardinality(Starts(L, w))
  PROVE  LET S == Nth(Starts(L, w), k) .. Nth(Starts(L, w), k) + L.vec - 1
         IN  S \subseteq 0 .. L.N - 1 /\ IsFiniteSet(S)
<1> DEFINE y == Nth(Starts(L, w), k)
<1>1. L.N \in Nat /\ L.vec \in Nat
  BY DEF PointsLaunch, Striped
<1>2. y \in Starts(L, w)
  BY <1>1, StartsIn, NthIn
<1>3. y \in Nat /\ y + L.vec <= L.N
  BY <1>2, VectorsWithin DEF PointsLaunch
<1> HIDE DEF y
<1>4. y .. y + L.vec - 1 \subseteq 0 .. L.N - 1
  BY <1>1, <1>3
<1>5. IsFiniteSet(y .. y + L.vec - 1)
  <2>1. y \in Int /\ y + L.vec - 1 \in Int
    BY <1>1, <1>3
  <2>2. QED
    BY <2>1, FS_Interval
<1>6. QED
  BY <1>4, <1>5 DEF y

\* The sums that an item of lloyd_feature_sum_pardim has in its tile.
LEMMA TileCells ==
  ASSUME NEW L, PointsLaunch(L), TileShape(L), NEW w \in Items(L),
         NEW d \in Clusters(L) \X (0 .. L.tf - 1)
  PROVE  LET a == Glob(L.out, L.cols * Gid0(L, w) * L.tf * L.C
                                + Cell(L, <<d[1], L.tf * Gid1(L, w) + d[2]>>))
             b == OwnLocal(L, w, d)
         IN  /\ a \in Chunk(L.out, L.C * L.tf, TileNumber(L, w)) /\ a[1] = L.out
             /\ b \in Strided(L, w, "l_centroids", L.C * L.tf) /\ b[1] = "l_centroids"
<1> DEFINE x == Gid0(L, w)
<1> DEFINE y == Gid1(L, w)
<1>1. Cell(L, d) \in 0 .. L.C * L.tf - 1
  BY CellIn DEF TileShape, PointsLaunch
<1>2. /\ x \in Int /\ y \in Int /\ L.C \in Int /\ L.tf \in Int /\ L.cols \in Int
      /\ d[1] \in Int /\ d[2] \in Int
  BY DEF TileShape, PointsLaunch, Clusters
<1>3. Cell(L, <<d[1], L.tf * y + d[2]>>) = L.C * (L.tf * y + d[2]) + d[1]
        /\ Cell(L, d) = L.C * d[2] + d[1]
  BY DEF Cell
<1> DEFINE r == Cell(L, d)
<1> DEFINE z == L.cols * x * L.tf * L.C + Cell(L, <<d[1], L.tf * y + d[2]>>)
<1>4. z = (L.C * L.tf) * (L.cols * x + y) + r
  <2>1. r = L.C * d[2] + d[1] /\ z = L.cols * x * L.tf * L.C + (L.C * (L.tf * y + d[2]) + d[1])
    BY <1>3
  <2> HIDE DEF x, y, r, z
  <2>2. QED
    BY <1>2, <2>1
<1> HIDE DEF r, z
<1>5. Glob(L.out, z) \in Chunk(L.out, L.C * L.tf, TileNumber(L, w))
  BY <1>1, <1>4 DEF Chunk, TileNumber, r
<1>6. OwnLocal(L, w, d) \in Strided(L, w, "l_centroids", L.C * L.tf)
  BY <1>1 DEF OwnLocal, Strided
<1>7. Glob(L.out, z)[1] = L.out /\ OwnLocal(L, w, d)[1] = "l_centroids"
  BY DEF Glob, OwnLocal, Loc
<1>8. QED
  BY <1>5, <1>6, <1>7 DEF z

\* lloyd_feature_sum_pardim: every item has a tile of sums.
LEMMA FootPardim ==
  ASSUME NEW L, PointsLaunch(L), TileShape(L), L.kernel = "lloyd_feature_sum_pardim",
         L.out = "tmp_centroids", NEW w \in Items(L), NEW j, j \in 0 .. Cardinality(Starts(L, w)),
         NEW m, MemFor(L, m)
  PROVE  LET e == Interval(L, w, j, m)
             own == Chunk("tmp_centroids", L.C * L.tf, TileNumber(L, w))
                      \cup Strided(L, w, "l_centroids", L.C * L.tf)
         IN  EffectOK(L, e) /\ Touches(e, LabelCells(L) \cup PointCells(L) \cup own, own, {})
<1> DEFINE starts == Starts(L, w)
<1> DEFINE last == Cardinality(starts)
<1> DEFINE vector(k) == Nth(starts, k) .. Nth(starts, k) + L.vec - 1
<1> DEFINE base == L.tf * Gid1(L, w)
<1> DEFINE D == Clusters(L) \X (0 .. L.tf - 1)
<1> DEFINE g(d) == Glob(L.out, L.cols * Gid0(L, w) * L.tf * L.C + Cell(L, <<d[1], base + d[2]>>))
<1> DEFINE l(d) == OwnLocal(L, w, d)
<1> DEFINE reads == PointReads(L, vector(j), base .. base + L.tf - 1)
<1> DEFINE sum(d) == SumOf(L, m, Labels(L, m, vector(j)), base + d[2], d[1])
<1> DEFINE step == IF L.lmem
                   THEN IF j = 0
                        THEN [reads |-> {}, writes |-> [a \in {l(d) : d \in D} |-> 0],
                              adds |-> <<>>]
                        ELSE [reads |-> reads \cup {l(d) : d \in D},
                              writes |-> [a \in {l(d) : d \in D} |->
                                            Val(m, l(CHOOSE d \in D : l(d) = a))
                                              + sum(CHOOSE d \in D : l(d) = a)],
                              adds |-> <<>>]
                   ELSE IF j = 0
                        THEN [reads |-> {}, writes |-> [a \in {g(d) : d \in D} |-> 0],
                              adds |-> <<>>]
                        ELSE [reads |-> reads \cup {g(d) : d \in D},
                              writes |-> [a \in {g(d) : d \in D} |->
                                            Val(m, g(CHOOSE d \in D : g(d) = a))
                                              + sum(CHOOSE d \in D : g(d) = a)],
                              adds |-> <<>>]
<1> DEFINE loads == IF j < last THEN LabelReads(L, vector(j + 1)) ELSE {}
<1> DEFINE back == IF L.lmem /\ j = last
                   THEN [a \in {g(d) : d \in D} |-> step.writes[l(CHOOSE d \in D : g(d) = a)]]
                   ELSE <<>>
<1> DEFINE e == Interval(L, w, j, m)
<1> DEFINE G == Chunk("tmp_centroids", L.C * L.tf, TileNumber(L, w))
<1> DEFINE O == Strided(L, w, "l_centroids", L.C * L.tf)
<1>1. e = LloydFeatureSumPardim(L, w, j, m)
  BY Zenon DEF Interval
<1>2. LloydFeatureSumPardim(L, w, j, m) =
        [reads |-> step.reads \cup loads, writes |-> Over(back, step.writes), adds |-> <<>>]
  BY Zenon DEF LloydFeatureSumPardim, Zero, Accumulate, Effect, Place
<1>3. last \in Nat
  <2>1. 0 \in Int /\ L.N \in Int
    BY DEF PointsLaunch, Striped
  <2>2. IsFiniteSet(0 .. L.N)
    BY <2>1, FS_Interval
  <2>3. QED
    BY <2>2, StartsIn, FS_Subset, FS_CardinalityType
<1>4. j # 0 => vector(j) \subseteq 0 .. L.N - 1 /\ IsFiniteSet(vector(j))
  BY <1>3, VectorIn
<1>5. j < last => vector(j + 1) \subseteq 0 .. L.N - 1
  BY <1>3, VectorIn
<1>6. j # 0 => \A d : sum(d) \in Int
  BY <1>4, SumsTyped DEF MemFor
<1>7. base .. base + L.tf - 1 \subseteq 0 .. L.F - 1
  <2> DEFINE y == Gid1(L, w)
  <2>1. y \in 0 .. L.cols - 1 /\ L.tf \in Nat \ {0} /\ L.cols \in Nat \ {0} /\ L.F = L.tf * L.cols
    BY DEF TileShape
  <2> HIDE DEF y
  <2>2. L.tf * y + L.tf <= L.tf * L.cols /\ L.tf * y \in Nat /\ L.tf * L.cols \in Nat
    BY <2>1, LessTimes
  <2>3. L.tf * y .. L.tf * y + L.tf - 1 \subseteq 0 .. L.F - 1
    BY <2>1, <2>2
  <2>4. QED
    BY <2>3 DEF y
<1>8. j # 0 => reads \subseteq PointCells(L)
  <2>1. L.N \in Nat /\ L.F \in Nat
    BY DEF PointsLaunch, Striped
  <2> HIDE DEF vector, base
  <2>2. QED
    BY <1>4, <1>7, <2>1, PointReadsIn
<1>9. loads \subseteq LabelCells(L)
  <2> HIDE DEF vector, last
  <2> QED BY <1>5, LabelReadsIn
<1>10. \A d \in D : g(d) \in G /\ l(d) \in O /\ g(d)[1] # "labels" /\ l(d)[1] # "labels"
  BY TileCells, Zenon
<1>11. \A a : Val(m, a) \in Int
  BY ValTyped DEF MemFor
<1>12. L.lmem \in BOOLEAN
  BY DEF PointsLaunch
<1> HIDE DEF starts, last, vector, base, D, g, l, reads, sum, loads, e, G, O
<1>13. /\ DOMAIN step.writes = IF L.lmem THEN {l(d) : d \in D} ELSE {g(d) : d \in D}
       /\ j # 0 => step.reads = reads \cup (IF L.lmem THEN {l(d) : d \in D} ELSE {g(d) : d \in D})
       /\ j = 0 => step.reads = {}
  BY <1>12
<1>14. \A a \in DOMAIN step.writes : step.writes[a] \in Int
  <2>1. CASE j = 0
    BY <1>12, <2>1
  <2>2. CASE j # 0
    BY <1>6, <1>11, <1>12, <2>2
  <2>3. QED
    BY <2>1, <2>2
<1> HIDE DEF step
<1>15. DOMAIN step.writes \subseteq G \cup O /\ \A a \in DOMAIN step.writes : a[1] # "labels"
  BY <1>10, <1>12, <1>13
<1>16. step.reads \subseteq PointCells(L) \cup G \cup O
  BY <1>8, <1>10, <1>12, <1>13
<1>17. DOMAIN back \subseteq G /\ \A a \in DOMAIN back : a[1] # "labels" /\ back[a] \in Int
  <2>1. CASE L.lmem /\ j = last
    <3>1. DOMAIN back = {g(d) : d \in D}
      BY <2>1
    <3>2. DOMAIN step.writes = {l(d) : d \in D}
      BY <1>13, <2>1
    <3>3. \A d \in D : step.writes[l(d)] \in Int
      BY <1>14, <3>2
    <3>4. \A a \in DOMAIN back : back[a] \in Int
      BY <2>1, <3>1, <3>3
    <3> HIDE DEF back
    <3>5. QED
      BY <1>10, <3>1, <3>4
  <2>2. CASE ~(L.lmem /\ j = last)
    <3>1. DOMAIN back = {}
      BY <2>2
    <3> HIDE DEF back
    <3>2. QED
      BY <3>1
  <2>3. QED
    BY <2>1, <2>2
<1> HIDE DEF back
<1>18. WritesOK(L, back) /\ WritesOK(L, step.writes)
  BY <1>14, <1>15, <1>17 DEF WritesOK
<1>19. WritesOK(L, Over(back, step.writes))
         /\ DOMAIN Over(back, step.writes) = DOMAIN back \cup DOMAIN step.writes
  <2>1. WritesOK(L, Over(back, step.writes))
    BY <1>18, OverOK, Zenon
  <2>2. QED
    BY <2>1, OverDomain, Zenon
<1>20. e.reads = step.reads \cup loads /\ e.writes = Over(back, step.writes) /\ e.adds = <<>>
  BY <1>1, <1>2
<1>21. DOMAIN e.adds = {} /\ WritesOK(L, e.adds)
  BY <1>20, NoWrites
<1>22. WritesOK(L, e.writes) /\ DOMAIN e.writes \subseteq G \cup O
  BY <1>15, <1>17, <1>19, <1>20
<1>23. e.reads \subseteq LabelCells(L) \cup PointCells(L) \cup (G \cup O)
  BY <1>9, <1>16, <1>20
<1>24. QED
  BY <1>21, <1>22, <1>23 DEF EffectOK, Touches, e, G, O

\* The masses that an item keeps to itself.
LEMMA OwnMasses ==
  ASSUME NEW L, PointsLaunch(L), NEW w \in Items(L), NEW c \in Clusters(L)
  PROVE  /\ OwnMass(L, w, c) \in Chunk("new_masses", L.C, Gid(L, w))
         /\ OwnLocalMass(L, w, c) \in Strided(L, w, "l_masses", L.C)
         /\ OwnMass(L, w, c)[1] = "new_masses" /\ OwnLocalMass(L, w, c)[1] = "l_masses"
<1>1. c \in 0 .. L.C - 1 /\ L.C \in Int /\ Gid(L, w) \in Int
  BY GidTyped DEF PointsLaunch, Clusters
<1>2. Gid(L, w) * L.C = L.C * Gid(L, w)
  BY <1>1
<1>3. QED
  BY <1>1, <1>2 DEF OwnMass, OwnLocalMass, Chunk, Strided, Glob, Loc

\* What an item of the fused kernels may change.
FusedOwn(L, w) ==
  LabelReads(L, Lanes(L, w))
    \cup Chunk("tmp_new_centroids", L.C * L.F, Gid(L, w)) \cup Chunk("new_masses", L.C, Gid(L, w))
    \cup Strided(L, w, "l_centroids", L.C * L.F) \cup Strided(L, w, "l_masses", L.C)
    \cup Strided(L, w, "l_points", L.F)

\* What two parts of an interval do together.
LEMMA BothIs ==
  ASSUME NEW e, NEW f
  PROVE  /\ Both(e, f).reads = e.reads \cup f.reads /\ Both(e, f).writes = Over(e.writes, f.writes)
         /\ Both(e, f).adds = <<>>
BY DEF Both, Effect

\* Writes that stay within O.
Into(L, f, O) == WritesOK(L, f) /\ DOMAIN f \subseteq O

\* Two groups of writes into the same cells.
LEMMA OverInto ==
  ASSUME NEW L, NEW O, NEW f, NEW g, Into(L, f, O), Into(L, g, O)
  PROVE  Into(L, Over(f, g), O)
<1>1. WritesOK(L, Over(f, g))
  BY OverOK DEF Into
<1>2. DOMAIN Over(f, g) = DOMAIN f \cup DOMAIN g
  BY OverDomain
<1>3. QED
  BY <1>1, <1>2 DEF Into

\* lloyd_fused_cluster_merge: labels, masses and sums of its own.
LEMMA FootFusedClusterMerge ==
  ASSUME NEW L, PointsLaunch(L), L.kernel = "lloyd_fused_cluster_merge",
         L.out = "tmp_new_centroids",
         NEW w \in Items(L), NEW j, j \in 0 .. 1, NEW m, MemFor(L, m)
  PROVE  LET e == Interval(L, w, j, m)
         IN  /\ EffectOK(L, e)
             /\ Touches(e, PointCells(L) \cup CentroidReads(L) \cup FusedOwn(L, w), FusedOwn(L, w),
                        {})
<1> DEFINE S == Lanes(L, w)
<1> DEFINE V == Starts(L, w)
<1> DEFINE new == Relabelled(L, m, S)
<1> DEFINE e == Interval(L, w, j, m)
<1> DEFINE reads == PointReads(L, DOMAIN new, Features(L)) \cup CentroidReads(L)
<1> DEFINE labels == LabelWrites(L, m, S)
<1> DEFINE D == CentroidCells(L)
<1> DEFINE C == Clusters(L)
<1> DEFINE g(d) == OwnCentroid(L, w, d)
<1> DEFINE l(d) == OwnLocal(L, w, d)
<1> DEFINE gm(c) == OwnMass(L, w, c)
<1> DEFINE lm(c) == OwnLocalMass(L, w, c)
<1> DEFINE sum(d) == SumOf(L, m, new, d[2], d[1])
<1> DEFINE mass(c) == MassOf(new, c)
<1> DEFINE O == FusedOwn(L, w)
<1>1. e = LloydFusedClusterMerge(L, w, j, m)
  BY Zenon DEF Interval
<1>2. S \subseteq 0 .. L.N - 1 /\ IsFiniteSet(S) /\ DOMAIN new = S
  BY LanesIn, LabelsOf
<1>3. (\A d : sum(d) \in Int) /\ \A c : mass(c) \in Int
  <2>1. MemOK(m)
    BY DEF MemFor
  <2>2. QED
    BY <1>2, <2>1, SumsTyped, MassesTyped
<1>4. PointReads(L, S, Features(L)) \subseteq PointCells(L)
  <2>1. Features(L) \subseteq 0 .. L.F - 1 /\ L.N \in Nat /\ L.F \in Nat
    BY DEF Features, PointsLaunch, Striped
  <2>2. QED
    BY <1>2, <2>1, PointReadsIn
<1>5. Into(L, labels, O)
  <2>1. WritesOK(L, labels) /\ DOMAIN labels = LabelReads(L, S)
    BY <1>2, LabelWritesOK DEF MemFor
  <2>2. QED
    BY <2>1 DEF FusedOwn, Into
<1>6. Into(L, Cached(L, w, V), O)
  <2>1. WritesOK(L, Cached(L, w, V))
          /\ DOMAIN Cached(L, w, V) \subseteq Strided(L, w, "l_points", L.F)
    BY StartsIn, CachedOK
  <2>2. QED
    BY <2>1 DEF FusedOwn, Into
<1>7. \A d \in D : g(d) \in O /\ l(d) \in O /\ g(d)[1] # "labels" /\ l(d)[1] # "labels"
  BY OwnCells DEF FusedOwn
<1>8. \A c \in C : gm(c) \in O /\ lm(c) \in O /\ gm(c)[1] # "labels" /\ lm(c)[1] # "labels"
  BY OwnMasses DEF FusedOwn
<1>9. \A a : Val(m, a) \in Int
  BY ValTyped DEF MemFor
<1>10. L.lmem = FALSE \/ L.lmem = TRUE
  BY DEF PointsLaunch
<1> HIDE DEF O
<1>11. CASE L.lmem = FALSE
  <2> DEFINE sums == [a \in {g(d) : d \in D} |-> sum(CHOOSE d \in D : g(d) = a)]
  <2> DEFINE masses == [a \in {gm(c) : c \in C} |-> mass(CHOOSE c \in C : gm(c) = a)]
  <2>1. LloydFusedClusterMerge(L, w, j, m) =
          [reads |-> reads, writes |-> Over(labels, Over(sums, masses)), adds |-> <<>>]
    BY <1>11, Zenon DEF LloydFusedClusterMerge, Effect, Place, LabelWrites
  <2> HIDE DEF S, V, new, e, D, C, g, l, gm, lm, sum, mass, reads, labels
  <2>2. Into(L, sums, O)
    BY <1>3, <1>7 DEF WritesOK, Into
  <2>3. Into(L, masses, O)
    BY <1>3, <1>8 DEF WritesOK, Into
  <2> HIDE DEF sums, masses
  <2>4. Into(L, Over(sums, masses), O)
    BY <2>2, <2>3, OverInto, Zenon
  <2>5. Into(L, Over(labels, Over(sums, masses)), O)
    BY <1>5, <2>4, OverInto, Zenon
  <2>6. e.reads = reads /\ e.writes = Over(labels, Over(sums, masses)) /\ e.adds = <<>>
    BY <1>1, <2>1
  <2>7. DOMAIN e.adds = {} /\ WritesOK(L, e.adds)
    BY <2>6, NoWrites
  <2>8. e.reads \subseteq PointCells(L) \cup CentroidReads(L)
    BY <1>2, <1>4, <2>6 DEF reads
  <2>9. QED
    BY <2>5, <2>6, <2>7, <2>8 DEF EffectOK, Touches, Into, e, O
<1>12. CASE L.lmem = TRUE /\ j = 0
  <2> DEFINE sums == [a \in {l(d) : d \in D} |-> 0]
  <2> DEFINE masses == [a \in {lm(c) : c \in C} |-> 0]
  <2>1. LloydFusedClusterMerge(L, w, j, m) =
          Both([reads |-> {}, writes |-> sums, adds |-> <<>>],
               [reads |-> {}, writes |-> masses, adds |-> <<>>])
    BY <1>12, 1 # 0, Zenon DEF LloydFusedClusterMerge, Zero, Effect, Place
  <2> HIDE DEF S, V, new, e, D, C, g, l, gm, lm, sum, mass, reads, labels
  <2>2. Into(L, sums, O)
    BY <1>7 DEF WritesOK, Into
  <2>3. Into(L, masses, O)
    BY <1>8 DEF WritesOK, Into
  <2> HIDE DEF sums, masses
  <2>4. Into(L, Over(sums, masses), O)
    BY <2>2, <2>3, OverInto, Zenon
  <2>5. e.reads = {} /\ e.writes = Over(sums, masses) /\ e.adds = <<>>
    BY <1>1, <2>1, BothIs
  <2>6. DOMAIN e.adds = {} /\ WritesOK(L, e.adds)
    BY <2>5, NoWrites
  <2>7. QED
    BY <2>4, <2>5, <2>6 DEF EffectOK, Touches, Into, e, O
<1>13. CASE L.lmem = TRUE /\ j = 1
  <2> DEFINE sums == [a \in {l(d) : d \in D} |->
                        Val(m, l(CHOOSE d \in D : l(d) = a)) + sum(CHOOSE d \in D : l(d) = a)]
  <2> DEFINE masses == [a \in {lm(c) : c \in C} |->
                          Val(m, lm(CHOOSE c \in C : lm(c) = a)) + mass(CHOOSE c \in C : lm(c) = a)]
  <2> DEFINE p == [reads |-> {} \cup {l(d) : d \in D}, writes |-> sums, adds |-> <<>>]
  <2> DEFINE q == [reads |-> {} \cup {lm(c) : c \in C}, writes |-> masses, adds |-> <<>>]
  <2> DEFINE local == Both(p, q)
  <2> DEFINE backs == [a \in {g(d) : d \in D} |-> local.writes[l(CHOOSE d \in D : g(d) = a)]]
  <2> DEFINE backm == [a \in {gm(c) : c \in C} |-> local.writes[lm(CHOOSE c \in C : gm(c) = a)]]
  <2> DEFINE x == Over(local.writes, Over(backs, backm))
  <2>1. LloydFusedClusterMerge(L, w, j, m) =
          [reads |-> reads \cup local.reads,
           writes |-> Over(Cached(L, w, V), Over(labels, x)), adds |-> <<>>]
    BY <1>13, 1 # 0, Zenon DEF LloydFusedClusterMerge, Accumulate, Effect, Place, LabelWrites
  <2> HIDE DEF S, V, new, e, D, C, g, l, gm, lm, sum, mass, reads, labels
  <2>2. WritesOK(L, sums) /\ DOMAIN sums = {l(d) : d \in D} /\ DOMAIN sums \subseteq O
    BY <1>3, <1>7, <1>9 DEF WritesOK, Into
  <2>3. WritesOK(L, masses) /\ DOMAIN masses = {lm(c) : c \in C} /\ DOMAIN masses \subseteq O
    BY <1>3, <1>8, <1>9 DEF WritesOK, Into
  <2> HIDE DEF sums, masses
  <2>4. local.writes = Over(sums, masses) /\ local.reads = {l(d) : d \in D} \cup {lm(c) : c \in C}
    <3>1. p.reads = {l(d) : d \in D} /\ p.writes = sums /\ q.reads = {lm(c) : c \in C}
            /\ q.writes = masses
      OBVIOUS
    <3> HIDE DEF p, q
    <3>2. QED
      BY <3>1, BothIs
  <2> HIDE DEF local, p, q
  <2>5. WritesOK(L, local.writes)
    <3>1. WritesOK(L, Over(sums, masses))
      BY <2>2, <2>3, OverOK
    <3>2. QED
      BY <2>4, <3>1, Zenon
  <2>6. DOMAIN local.writes = {l(d) : d \in D} \cup {lm(c) : c \in C}
          /\ DOMAIN local.writes \subseteq O
    <3>1. DOMAIN Over(sums, masses) = {l(d) : d \in D} \cup {lm(c) : c \in C}
      BY <2>2, <2>3, OverDomain
    <3>2. QED
      BY <2>2, <2>3, <2>4, <3>1
  <2>7. \A a \in DOMAIN local.writes : local.writes[a] \in Int
    BY <2>5 DEF WritesOK, Into
  <2>8. Into(L, backs, O)
    <3>1. \A d \in D : local.writes[l(d)] \in Int
      BY <2>6, <2>7
    <3>2. QED
      BY <1>7, <3>1 DEF WritesOK, Into
  <2>9. Into(L, backm, O)
    <3>1. \A c \in C : local.writes[lm(c)] \in Int
      BY <2>6, <2>7
    <3>2. QED
      BY <1>8, <3>1 DEF WritesOK, Into
  <2> HIDE DEF backs, backm
  <2>10. Into(L, Over(backs, backm), O)
    BY <2>8, <2>9, OverInto, Zenon
  <2>11. Into(L, x, O)
    <3>1. Into(L, local.writes, O)
      BY <2>5, <2>6 DEF Into
    <3>2. QED
      BY <2>10, <3>1, OverInto, Zenon
  <2> HIDE DEF x
  <2>12. Into(L, Over(labels, x), O)
    BY <1>5, <2>11, OverInto, Zenon
  <2> DEFINE y == Over(Cached(L, w, V), Over(labels, x))
  <2>13. Into(L, y, O)
    BY <1>6, <2>12, OverInto, Zenon
  <2> HIDE DEF y
  <2>14. e.reads = reads \cup local.reads /\ e.writes = y /\ e.adds = <<>>
    BY <1>1, <2>1 DEF y
  <2>15. DOMAIN e.adds = {} /\ WritesOK(L, e.adds)
    BY <2>14, NoWrites
  <2>16. reads \subseteq PointCells(L) \cup CentroidReads(L)
    BY <1>2, <1>4 DEF reads
  <2>17. local.reads \subseteq O
    BY <2>4, <2>6
  <2>18. QED
    BY <2>13, <2>14, <2>15, <2>16, <2>17 DEF EffectOK, Touches, Into, e, O
<1>14. j = 0 \/ j = 1
  OBVIOUS
<1>15. QED
  BY <1>10, <1>11, <1>12, <1>13, <1>14, Zenon

-----------------------------------------------------------------------------
(***************************************************************************)
(* The fused feature sum                                                   *)
(***************************************************************************)
\* Tiles divide the features and the group; a turn of a group stays in its block.
FusedShape(L) ==
  /\ Linear(L) /\ L.tf \in Nat \ {0}
  /\ TileBlock(L) \in Nat \ {0} /\ TileBlocks(L) \in Nat \ {0}
  /\ L.F = TileBlock(L) * L.tf /\ L.local = TileBlock(L) * TileBlocks(L)
  /\ L.lstride => \E k \in Nat : BlockSize(L) = (L.vec * L.local) * k

\* What only this item uses, what it sums up, and what it clears.
FusedMine(L, w) ==
  LabelReads(L, Lanes(L, w))
    \cup Chunk("new_masses", L.C, Gid(L, w)) \cup Strided(L, w, "l_masses", L.C)
    \cup Strided(L, w, "l_points", L.F) \cup Strided(L, w, "l_labels", 1)

\* The cells of a tile in local memory, and where they are copied to.
TileCell(L, w, x) ==
  Loc(w, "l_centroids", L.F * TileBlocks(L) * x[1] + L.F * TileOf(L, w) + x[2])
TileLocal(L, w) == {TileCell(L, w, x) : x \in Clusters(L) \X TileFeatures(L, w)}
TileGlobal(L, w) ==
  {Glob(L.out, TileOffset(L, w) + Cell(L, x)) : x \in Clusters(L) \X TileFeatures(L, w)}

\* The sums that an item resets, in local or in global memory.
ZeroLocal(L, w) ==
  {Loc(w, "l_centroids", i) : i \in {k \in 0 .. TileBlocks(L) * L.F * L.C - 1 : k % L.local = w[2]}}
ZeroGlobal(L, w) ==
  {Glob(L.out, TileOffset(L, w) + i) :
     i \in {k \in 0 .. L.F * L.C - 1 : k % TileBlock(L) = w[2] % TileBlock(L)}}

\* The cells of its group.
GroupLabels(L, w) == {Loc(w, "l_labels", i) : i \in 0 .. L.local - 1}
GroupPoints(L, w) == {Loc(w, "l_points", i) : i \in 0 .. L.local * L.F - 1}

\* The tile of an item is one of its group's.
LEMMA TileTyped ==
  ASSUME NEW L, PointsLaunch(L), FusedShape(L), NEW w \in Items(L)
  PROVE  TileOf(L, w) \in 0 .. TileBlocks(L) - 1
<1>1. w[2] \in Nat /\ w[2] < TileBlock(L) * TileBlocks(L)
  BY DEF Items, FusedShape, PointsLaunch
<1>2. QED
  BY <1>1, DivBelow DEF TileOf, FusedShape

\* The cells of a group in the temporary sums.
LEMMA TileChunk ==
  ASSUME NEW L, PointsLaunch(L), FusedShape(L), NEW w \in Items(L), NEW i \in 0 .. L.F * L.C - 1
  PROVE  Glob(L.out, TileOffset(L, w) + i)
           \in Chunk(L.out, L.C * L.F, w[1] * TileBlocks(L) + TileOf(L, w))
<1>1. TileOffset(L, w) = L.C * L.F * (w[1] * TileBlocks(L) + TileOf(L, w))
  BY DEF TileOffset
<1>2. L.F * L.C = L.C * L.F
  BY DEF PointsLaunch
<1>3. QED
  BY <1>1, <1>2 DEF Chunk

\* The results of a tile are in its chunk of the sums.
LEMMA TileCellsIn ==
  ASSUME NEW L, PointsLaunch(L), FusedShape(L), NEW w \in Items(L)
  PROVE  /\ TileGlobal(L, w) \subseteq Chunk(L.out, L.C * L.F, w[1] * TileBlocks(L) + TileOf(L, w))
         /\ ZeroGlobal(L, w) \subseteq Chunk(L.out, L.C * L.F, w[1] * TileBlocks(L) + TileOf(L, w))
<1>1. L.F \in Nat /\ L.C \in Nat \ {0} /\ L.F * L.C = L.C * L.F
  BY DEF PointsLaunch
<1>2. ASSUME NEW x \in Clusters(L) \X TileFeatures(L, w) PROVE Cell(L, x) \in 0 .. L.F * L.C - 1
  <2>1. x \in Clusters(L) \X (0 .. L.F - 1)
    BY DEF TileFeatures, Features
  <2>2. Cell(L, x) \in 0 .. L.C * L.F - 1
    BY <1>1, <2>1, CellIn
  <2>3. QED
    BY <1>1, <2>2
<1>3. TileGlobal(L, w) \subseteq Chunk(L.out, L.C * L.F, w[1] * TileBlocks(L) + TileOf(L, w))
  BY <1>2, TileChunk DEF TileGlobal
<1>4. ZeroGlobal(L, w) \subseteq Chunk(L.out, L.C * L.F, w[1] * TileBlocks(L) + TileOf(L, w))
  BY TileChunk DEF ZeroGlobal
<1>5. QED
  BY <1>3, <1>4

-----------------------------------------------------------------------------
(***************************************************************************)
(* Intervals of the fused feature sum                                      *)
(***************************************************************************)
\* lloyd_fused_feature_sum, before the first barrier: an item resets its part of the sums.
LEMMA FootFusedZero ==
  ASSUME NEW L, PointsLaunch(L), FusedShape(L), L.kernel = "lloyd_fused_feature_sum",
         L.out = "tmp_new_centroids", NEW w \in Items(L), NEW m, MemFor(L, m)
  PROVE  LET e == Interval(L, w, 0, m)
         IN  /\ EffectOK(L, e) /\ e.reads = {} /\ DOMAIN e.adds = {}
             /\ DOMAIN e.writes
                  \subseteq FusedMine(L, w)
                    \cup (IF L.lmem THEN ZeroLocal(L, w) ELSE ZeroGlobal(L, w))
<1> DEFINE e == Interval(L, w, 0, m)
<1> DEFINE C == Clusters(L)
<1> DEFINE T == {i \in 0 .. L.F * L.C - 1 : i % TileBlock(L) = w[2] % TileBlock(L)}
<1> DEFINE U == {i \in 0 .. TileBlocks(L) * L.F * L.C - 1 : i % L.local = w[2]}
<1> DEFINE lc == [a \in {Loc(w, "l_centroids", i) : i \in U} |-> 0]
<1> DEFINE gc == [a \in {Glob(L.out, TileOffset(L, w) + i) : i \in T} |-> 0]
<1> DEFINE lm == [a \in {OwnLocalMass(L, w, c) : c \in C} |-> 0]
<1> DEFINE gm == [a \in {OwnMass(L, w, c) : c \in C} |-> 0]
<1> DEFINE p(x) == [reads |-> {}, writes |-> x, adds |-> <<>>]
<1> DEFINE O == FusedMine(L, w) \cup (IF L.lmem THEN ZeroLocal(L, w) ELSE ZeroGlobal(L, w))
<1>1. e = LloydFusedFeatureSum(L, w, 0, m)
  BY Zenon DEF Interval
<1>2. LloydFusedFeatureSum(L, w, 0, m) = FusedZero(L, w)
  <2>1. ~(0 > 2 * Cardinality(GroupOffsets(L, w)))
    <3>1. IsFiniteSet(0 .. L.N)
      <4>1. 0 \in Int /\ L.N \in Int
        BY DEF PointsLaunch, Striped
      <4>2. QED
        BY <4>1, FS_Interval
    <3>2. <<w[1], 0>> \in Items(L)
      BY DEF Items, PointsLaunch
    <3>3. GroupOffsets(L, w) \subseteq 0 .. L.N
      BY <3>2, StartsIn DEF GroupOffsets
    <3>4. Cardinality(GroupOffsets(L, w)) \in Nat
      BY <3>1, <3>3, FS_Subset, FS_CardinalityType
    <3>5. QED
      BY <3>4
  <2>2. ~(0 \in 1 .. 2 * Cardinality(GroupOffsets(L, w)))
    OBVIOUS
  <2>3. QED
    BY <2>1, <2>2, Zenon DEF LloydFusedFeatureSum
<1>3. FusedZero(L, w) = IF L.lmem THEN Both(p(lc), p(lm)) ELSE Both(p(gc), p(gm))
  BY Zenon DEF FusedZero, Zero, Effect, Place
<1>4. \A c \in C : OwnMass(L, w, c) \in FusedMine(L, w) /\ OwnLocalMass(L, w, c) \in FusedMine(L, w)
  BY OwnMasses DEF FusedMine
<1>5. \A c \in C : OwnMass(L, w, c)[1] # "labels" /\ OwnLocalMass(L, w, c)[1] # "labels"
  BY OwnMasses
<1>6. DOMAIN lc = ZeroLocal(L, w) /\ DOMAIN gc = ZeroGlobal(L, w)
  BY DEF ZeroLocal, ZeroGlobal
<1>7. (\A a \in DOMAIN lc : a[1] = "l_centroids") /\ \A a \in DOMAIN gc : a[1] = "tmp_new_centroids"
  BY DEF Loc, Glob
<1>8. WritesOK(L, lc) /\ WritesOK(L, gc)
  BY <1>7 DEF WritesOK
<1>9. WritesOK(L, lm) /\ WritesOK(L, gm)
  BY <1>5 DEF WritesOK
<1>10. DOMAIN lm \subseteq FusedMine(L, w) /\ DOMAIN gm \subseteq FusedMine(L, w)
  BY <1>4
<1>11. CASE L.lmem
  <2>1. e = Both(p(lc), p(lm))
    BY <1>1, <1>2, <1>3, <1>11, Zenon
  <2>2. p(lc).reads = {} /\ p(lc).writes = lc /\ p(lm).reads = {} /\ p(lm).writes = lm
    OBVIOUS
  <2>3. Into(L, lc, O) /\ Into(L, lm, O)
    BY <1>6, <1>8, <1>9, <1>10, <1>11 DEF Into
  <2> HIDE DEF lc, lm, p, e, O
  <2>4. e.reads = {} /\ e.writes = Over(lc, lm) /\ e.adds = <<>>
    BY <2>1, <2>2, BothIs
  <2>5. Into(L, Over(lc, lm), O)
    BY <2>3, OverInto, Zenon
  <2>6. DOMAIN e.adds = {} /\ WritesOK(L, e.adds)
    BY <2>4, NoWrites
  <2>7. QED
    BY <2>4, <2>5, <2>6 DEF EffectOK, Into, e, O
<1>12. CASE ~L.lmem
  <2>1. e = Both(p(gc), p(gm))
    BY <1>1, <1>2, <1>3, <1>12, Zenon
  <2>2. p(gc).reads = {} /\ p(gc).writes = gc /\ p(gm).reads = {} /\ p(gm).writes = gm
    OBVIOUS
  <2>3. Into(L, gc, O) /\ Into(L, gm, O)
    BY <1>6, <1>8, <1>9, <1>10, <1>12 DEF Into
  <2> HIDE DEF gc, gm, p, e, O
  <2>4. e.reads = {} /\ e.writes = Over(gc, gm) /\ e.adds = <<>>
    BY <2>1, <2>2, BothIs
  <2>5. Into(L, Over(gc, gm), O)
    BY <2>3, OverInto, Zenon
  <2>6. DOMAIN e.adds = {} /\ WritesOK(L, e.adds)
    BY <2>4, NoWrites
  <2>7. QED
    BY <2>4, <2>5, <2>6 DEF EffectOK, Into, e, O
<1>13. QED
  BY <1>11, <1>12

\* The offsets of a group are those of its first item; it labels its own points.
LEMMA GroupOffsetsIn ==
  ASSUME NEW L, PointsLaunch(L), NEW w \in Items(L)
  PROVE  /\ <<w[1], 0>> \in Items(L) /\ GroupOffsets(L, w) \subseteq 0 .. L.N
         /\ Cardinality(GroupOffsets(L, w)) \in Nat
<1>1. IsFiniteSet(0 .. L.N)
  <2>1. 0 \in Int /\ L.N \in Int
    BY DEF PointsLaunch, Striped
  <2>2. QED
    BY <2>1, FS_Interval
<1>2. <<w[1], 0>> \in Items(L)
  BY DEF Items, PointsLaunch
<1>3. GroupOffsets(L, w) \subseteq 0 .. L.N
  BY <1>2, StartsIn DEF GroupOffsets
<1>4. Cardinality(GroupOffsets(L, w)) \in Nat
  BY <1>1, <1>3, FS_Subset, FS_CardinalityType
<1>5. QED
  BY <1>2, <1>3, <1>4

\* The vector that an item labels in a turn of its group is one of its own.
LEMMA TurnIsOwn ==
  ASSUME NEW L, PointsLaunch(L), FusedShape(L), L.lstride \in BOOLEAN, NEW w \in Items(L),
         NEW o \in GroupOffsets(L, w), o + w[2] * L.vec < L.N - L.vec + 1
  PROVE  o + w[2] * L.vec \in Starts(L, w)
<1> DEFINE u == <<w[1], 0>>
<1> DEFINE v == L.vec
<1> DEFINE p == o + w[2] * v
<1>1. u \in Items(L) /\ o \in 0 .. L.N
  BY GroupOffsetsIn
<1>2. /\ w[1] \in Nat /\ w[2] \in 0 .. L.local - 1 /\ v \in Nat \ {0} /\ L.N \in Nat /\ o \in Nat
      /\ L.local \in Nat \ {0} /\ L.groups \in Nat \ {0}
  BY <1>1 DEF Items, PointsLaunch, Striped
<1>3. o \in Starts(L, u)
  BY DEF GroupOffsets
<1>4. /\ Gid0(L, u) = L.local * w[1] /\ Gid0(L, w) = L.local * w[1] + w[2]
      /\ Group0(L, u) = w[1] /\ Group0(L, w) = w[1] /\ Lid0(L, u) = 0 /\ Lid0(L, w) = w[2]
      /\ LocalSize0(L) = L.local
  <2>1. Gid0(L, u) = L.local * w[1] + 0
    BY <1>1, LinearGeometry DEF FusedShape
  <2>2. L.local * w[1] \in Int
    BY <1>2
  <2>3. Gid0(L, u) = L.local * w[1]
    BY <2>1, <2>2
  <2>4. Group0(L, u) = w[1] /\ Lid0(L, u) = 0
    BY <1>1, LinearGeometry DEF FusedShape
  <2>5. QED
    BY <2>3, <2>4, LinearGeometry DEF FusedShape
<1>5. CASE L.lstride = FALSE
  <2> DEFINE s == v * Gid0(L, u)
  <2> DEFINE t == v * Gid0(L, w)
  <2>1. o \in s .. L.N - v /\ (o - s) % (v * GlobalSize0(L)) = 0
    BY <1>3, <1>5 DEF Starts, GlobalStride
  <2>2. s = v * (L.local * w[1]) /\ t = v * (L.local * w[1]) + v * w[2] /\ s \in Int /\ t \in Int
    BY <1>2, <1>4
  <2>3. w[2] * v = v * w[2] /\ v * w[2] \in Nat
    BY <1>2
  <2>4. p - t = o - s /\ p >= t /\ p <= L.N - v /\ p \in Int
    <3> HIDE DEF s, t, v
    <3>1. p = o + v * w[2] /\ s <= o /\ t = s + v * w[2]
      BY <2>1, <2>2, <2>3, <1>2
    <3>2. p \in Int
      BY <1>2, <2>3
    <3>3. p < L.N - v + 1
      BY DEF v
    <3> HIDE DEF p
    <3>4. QED
      BY <1>2, <2>2, <2>3, <3>1, <3>2, <3>3
  <2>5. p \in {x \in t .. L.N - v : (x - t) % (v * GlobalSize0(L)) = 0}
    <3> HIDE DEF p, s, t, v
    <3>1. p \in t .. L.N - v
      BY <1>2, <2>2, <2>4
    <3>2. (p - t) % (v * GlobalSize0(L)) = 0
      BY <2>1, <2>4
    <3>3. QED
      BY <3>1, <3>2
  <2>6. QED
    BY <1>5, <2>5 DEF Starts, GlobalStride
<1>6. CASE L.lstride = TRUE
  <2> DEFINE z == BlockSize(L)
  <2> DEFINE f == w[1] * z
  <2> DEFINE R == RealBlockSize(L, w[1])
  <2> DEFINE r == v * L.local
  <2>1. PICK k \in Nat : z = r * k
    BY <1>6 DEF FusedShape
  <2>2. r \in Nat \ {0} /\ z \in Nat /\ f \in Nat
    <3>1. v * L.local \in Nat \ {0}
      BY <1>2
    <3> HIDE DEF z, v
    <3>2. z \in Nat
      BY <2>1, <3>1
    <3>3. QED
      BY <1>2, <3>1, <3>2
  <2>3. o \in f + v * 0 .. f + R - 1 /\ (o - (f + v * 0)) % (v * L.local) = 0
    BY <1>3, <1>4, <1>6 DEF Starts, LocalStride
  <2>4. R = IF f + z > L.N THEN SubSat(L.N, f) ELSE z
    BY DEF RealBlockSize
  <2>5. R \in Nat /\ R <= z /\ (R = z \/ R = L.N - f \/ R = 0)
    <3> HIDE DEF z, f, R
    <3> QED BY <1>2, <2>2, <2>4 DEF SubSat
  <2>6. o - f \in Nat /\ o - f < z /\ (o - f) % r = 0 /\ R # 0
    <3> HIDE DEF z, f, R
    <3>1. v * 0 = 0
      BY <1>2
    <3>2. QED
      BY <1>2, <2>2, <2>3, <2>5, <3>1
  <2> DEFINE q == (o - f) \div r
  <2>7. q \in Int /\ o - f = r * q
    <3> DEFINE d == o - f
    <3>1. d \in Int /\ d % r = 0
      BY <2>6
    <3> HIDE DEF d
    <3>2. d \div r \in Int /\ d = r * (d \div r) + (d % r)
      BY <2>2, <3>1, DivMod
    <3>3. r * (d \div r) \in Int
      BY <2>2, <3>2
    <3>4. QED
      BY <3>1, <3>2, <3>3 DEF d
  <2> HIDE DEF q, z, f, R
  <2>8. r * q + r <= r * k
    <3>1. k <= q => r * k <= r * q
      BY <2>2, <2>7, TimesMonotone
    <3>2. r * k \in Int /\ r * q \in Int
      BY <2>2, <2>7
    <3>3. q < k
      BY <2>1, <2>6, <2>7, <3>1, <3>2
    <3> HIDE DEF r
    <3>4. QED
      BY <2>2, <2>7, <3>3, LessTimes
  <2>9. v * w[2] + v <= r /\ v * w[2] \in Nat /\ w[2] * v = v * w[2]
    <3>1. v * w[2] + v <= v * L.local
      BY <1>2, LessTimes
    <3>2. QED
      BY <1>2, <3>1
  <2> HIDE DEF r
  <2>10. p < f + R /\ p >= f + v * w[2] /\ p - (f + v * w[2]) = o - f /\ p \in Int
    <3>1. p = o + v * w[2] /\ p \in Int
      BY <1>2, <2>9
    <3>2. p < L.N - v + 1
      BY DEF v
    <3> HIDE DEF p, v
    <3>3. p < f + z
      <4> DEFINE a == r * q
      <4> DEFINE b == v * w[2]
      <4>1. a \in Int /\ b \in Int
        BY <2>2, <2>7, <2>9
      <4>2. o - f = a /\ a + r <= z /\ b + v <= r /\ p = o + b
        BY <2>1, <2>7, <2>8, <2>9, <3>1
      <4>3. o \in Int /\ f \in Int /\ z \in Int /\ r \in Int /\ v \in Int /\ v > 0
        BY <1>2, <2>2 DEF v
      <4> HIDE DEF a, b
      <4>4. QED
        BY <4>1, <4>2, <4>3
    <3>4. p < f + R
      BY <1>2, <2>2, <2>5, <2>6, <3>1, <3>2, <3>3
    <3>5. QED
      BY <1>2, <2>2, <2>6, <2>9, <3>1, <3>4
  <2>11. p \in {x \in f + v * w[2] .. f + R - 1 : (x - (f + v * w[2])) % (v * L.local) = 0}
    <3> HIDE DEF p, v
    <3>1. p \in f + v * w[2] .. f + R - 1
      BY <1>2, <2>2, <2>5, <2>9, <2>10
    <3>2. (p - (f + v * w[2])) % (v * L.local) = 0
      BY <2>6, <2>10 DEF r
    <3>3. QED
      BY <3>1, <3>2
  <2>12. QED
    BY <1>4, <1>6, <2>11 DEF Starts, LocalStride, f, z, R
<1>7. QED
  BY <1>5, <1>6

\* Labels in a word, digit by digit.
LEMMA PackTyped ==
  ASSUME NEW L, L.C \in Nat \ {0}, L.vec \in Nat, NEW lab, \A q \in DOMAIN lab : lab[q] \in Int,
         NEW p \in Int, DOMAIN lab = p .. p + L.vec - 1
  PROVE  Pack(L, lab, p) \in Int
<1> DEFINE f == [k \in 0 .. L.vec - 1 |-> lab[p + k] * Power(L.C, k)]
<1>1. IsFiniteSet(0 .. L.vec - 1)
  <2>1. 0 \in Int /\ L.vec - 1 \in Int
    OBVIOUS
  <2>2. QED
    BY <2>1, FS_Interval
<1>2. ASSUME NEW k \in 0 .. L.vec - 1 PROVE lab[p + k] * Power(L.C, k) \in Int
  <2>1. p + k \in DOMAIN lab
    OBVIOUS
  <2>2. lab[p + k] \in Int
    BY <2>1
  <2>3. Power(L.C, k) \in Nat
    <3>1. k \in Nat
      OBVIOUS
    <3>2. Power(L.C, k) \in Nat \ {0}
      BY <3>1, PowerTyped, Zenon
    <3>3. QED
      BY <3>2
  <2>4. \A x, y \in Int : x * y \in Int
    OBVIOUS
  <2>5. QED
    BY <2>2, <2>3, <2>4
<1>3. f \in [0 .. L.vec - 1 -> Int]
  BY <1>2
<1>4. Pack(L, lab, p) = SumFunction(f)
  BY DEF Pack
<1> HIDE DEF f
<1>5. QED
  BY <1>1, <1>3, <1>4, SumTyped

\* A digit of a word is a label.
LEMMA UnpackTyped ==
  ASSUME NEW L, L.C \in Nat \ {0}, NEW v \in Int, NEW k \in Nat
  PROVE  Unpack(L, v, k) \in Clusters(L)
<1>1. Power(L.C, k) \in Nat \ {0}
  BY PowerTyped
<1>2. v \div Power(L.C, k) \in Int
  BY <1>1, DivMod
<1>3. (v \div Power(L.C, k)) % L.C \in 0 .. L.C - 1
  BY <1>2, DivMod
<1>4. QED
  BY <1>3 DEF Unpack, Clusters

\* An interval that does nothing.
LEMMA NoEffect ==
  ASSUME NEW L
  PROVE  LET e == Effect({}, <<>>)
         IN  EffectOK(L, e) /\ e.reads = {} /\ DOMAIN e.writes = {} /\ DOMAIN e.adds = {}
BY NoWrites DEF Effect, EffectOK, WritesOK

\* A turn of lloyd_fused_feature_sum that labels: an item keeps to its own cells.
LEMMA FootFusedLabel ==
  ASSUME NEW L, PointsLaunch(L), FusedShape(L), NEW w \in Items(L),
         NEW o \in GroupOffsets(L, w), NEW m, MemFor(L, m)
  PROVE  LET e == FusedLabel(L, w, o, m)
         IN  /\ EffectOK(L, e)
             /\ Touches(e, PointCells(L) \cup CentroidReads(L) \cup FusedMine(L, w),
                        FusedMine(L, w), {})
<1> DEFINE p == o + w[2] * L.vec
<1> DEFINE S == p .. p + L.vec - 1
<1> DEFINE e == FusedLabel(L, w, o, m)
<1> DEFINE new == Relabelled(L, m, S)
<1> DEFINE mass(c) == MassOf(new, c)
<1> DEFINE C == Clusters(L)
<1> DEFINE lm(c) == OwnLocalMass(L, w, c)
<1> DEFINE gm(c) == OwnMass(L, w, c)
<1> DEFINE labels == LabelWrites(L, m, S)
<1> DEFINE packed == [a \in {Loc(w, "l_labels", i) : i \in {w[2]}} |-> Pack(L, new, p)]
<1> DEFINE cached == IF L.lmem THEN Cached(L, w, {p}) ELSE <<>>
<1> DEFINE lcounts == [a \in {lm(c) : c \in C} |->
                          Val(m, lm(CHOOSE c \in C : lm(c) = a)) + mass(CHOOSE c \in C : lm(c) = a)]
<1> DEFINE gcounts == [a \in {gm(c) : c \in C} |->
                          Val(m, gm(CHOOSE c \in C : gm(c) = a)) + mass(CHOOSE c \in C : gm(c) = a)]
<1> DEFINE counts == IF L.lmem
                     THEN [reads |-> {} \cup {lm(c) : c \in C}, writes |-> lcounts, adds |-> <<>>]
                     ELSE [reads |-> {} \cup {gm(c) : c \in C}, writes |-> gcounts, adds |-> <<>>]
<1> DEFINE O == FusedMine(L, w)
<1> DEFINE reads == PointReads(L, DOMAIN new, Features(L)) \cup CentroidReads(L) \cup counts.reads
<1>1. CASE ~(p < L.N - L.vec + 1)
  <2>1. e = Effect({}, <<>>)
    BY <1>1, Zenon DEF FusedLabel
  <2>2. EffectOK(L, e) /\ e.reads = {} /\ DOMAIN e.writes = {} /\ DOMAIN e.adds = {}
    BY <2>1, NoEffect, Zenon
  <2> HIDE DEF e
  <2>3. QED
    BY <2>2 DEF Touches, e
<1>2. CASE p < L.N - L.vec + 1
  <2>1. e = [reads |-> reads,
             writes |-> Over(counts.writes, Over(labels, Over(packed, cached))), adds |-> <<>>]
    BY <1>2, Zenon DEF FusedLabel, Effect, Accumulate, Place, LabelWrites
  <2>2. p \in Starts(L, w)
    BY <1>2, TurnIsOwn DEF PointsLaunch
  <2>3. p \in Nat /\ p + L.vec <= L.N /\ L.N \in Nat /\ L.vec \in Nat
    BY <2>2, VectorsWithin DEF PointsLaunch, Striped
  <2>4. S \subseteq 0 .. L.N - 1 /\ IsFiniteSet(S)
    <3> HIDE DEF p
    <3>1. S \subseteq 0 .. L.N - 1
      BY <2>3
    <3>2. p \in Int /\ p + L.vec - 1 \in Int
      BY <2>3
    <3>3. QED
      BY <3>1, <3>2, FS_Interval
  <2>5. S \subseteq Lanes(L, w)
    BY <2>2, LanesOf
  <2>6. MemOK(m) /\ \A a : Val(m, a) \in Int
    BY ValTyped DEF MemFor
  <2>7. DOMAIN new = S /\ \A q \in S : new[q] \in C
    <3> HIDE DEF p, S
    <3>1. DOMAIN new = S /\ \A q \in S : new[q] = Closest(L, m, q)
      BY LabelsOf, Zenon
    <3>2. L.C \in Nat \ {0} /\ L.F \in Nat
      BY DEF PointsLaunch
    <3>3. \A q : Closest(L, m, q) \in C
      BY <2>6, <3>2, ClosestTyped
    <3> HIDE DEF new, C
    <3>4. QED
      BY <3>1, <3>3
  <2>8. \A c : mass(c) \in Int
    BY <2>4, <2>6, MassesTyped
  <2>9. Into(L, labels, O)
    <3>1. WritesOK(L, labels) /\ DOMAIN labels = LabelReads(L, S)
      BY <2>4, <2>6, LabelWritesOK
    <3>2. LabelReads(L, S) \subseteq LabelReads(L, Lanes(L, w))
      BY <2>5 DEF LabelReads
    <3>3. QED
      BY <3>1, <3>2 DEF FusedMine, Into
  <2>10. Into(L, packed, O)
    <3>1. Pack(L, new, p) \in Int
      <4>1. L.C \in Nat \ {0} /\ L.vec \in Nat /\ p \in Int
        BY <2>3 DEF PointsLaunch
      <4>2. \A c \in C : c \in Int
        BY DEF Clusters
      <4>3. DOMAIN new = p .. p + L.vec - 1
        BY <2>7
      <4> HIDE DEF new, p, C
      <4>4. \A q \in DOMAIN new : new[q] \in Int
        BY <2>7, <4>2
      <4>5. QED
        BY <4>1, <4>3, <4>4, PackTyped, Zenon
    <3>2. DOMAIN packed = {Loc(w, "l_labels", w[2])}
            /\ \A a \in DOMAIN packed : packed[a] = Pack(L, new, p)
      <4> HIDE DEF new, p
      <4> QED OBVIOUS
    <3>3. Loc(w, "l_labels", w[2]) \in Strided(L, w, "l_labels", 1)
            /\ Loc(w, "l_labels", w[2])[1] = "l_labels"
      <4>1. L.local * 0 + w[2] = w[2] /\ 0 \in 0 .. 1 - 1
        BY DEF Items, PointsLaunch
      <4>2. Loc(w, "l_labels", L.local * 0 + w[2]) \in Strided(L, w, "l_labels", 1)
        BY <4>1 DEF Strided
      <4>3. QED
        BY <4>1, <4>2 DEF Loc
    <3> HIDE DEF packed
    <3>4. QED
      BY <3>1, <3>2, <3>3 DEF FusedMine, Into, WritesOK
  <2>11. Into(L, cached, O)
    <3>1. CASE L.lmem
      <4>1. {p} \subseteq 0 .. L.N
        BY <2>2, StartsIn
      <4>2. WritesOK(L, Cached(L, w, {p}))
              /\ DOMAIN Cached(L, w, {p}) \subseteq Strided(L, w, "l_points", L.F)
        BY <4>1, CachedOK
      <4>3. QED
        BY <3>1, <4>2 DEF FusedMine, Into
    <3>2. CASE ~L.lmem
      BY <3>2, NoWrites DEF Into
    <3>3. QED
      BY <3>1, <3>2
  <2>12. \A c \in C : /\ gm(c) \in O /\ lm(c) \in O
                      /\ gm(c)[1] # "labels" /\ lm(c)[1] # "labels"
    BY OwnMasses DEF FusedMine
  <2> HIDE DEF p, S, e, new, mass, C, lm, gm, labels, packed, cached, O
  <2>13. Into(L, lcounts, O) /\ {lm(c) : c \in C} \subseteq O
    BY <2>6, <2>8, <2>12 DEF Into, WritesOK
  <2>14. Into(L, gcounts, O) /\ {gm(c) : c \in C} \subseteq O
    BY <2>6, <2>8, <2>12 DEF Into, WritesOK
  <2> HIDE DEF lcounts, gcounts
  <2>15. Into(L, counts.writes, O) /\ counts.reads \subseteq O
    BY <2>13, <2>14
  <2> HIDE DEF counts
  <2>16. Into(L, Over(packed, cached), O)
    BY <2>10, <2>11, OverInto, Zenon
  <2>17. Into(L, Over(labels, Over(packed, cached)), O)
    BY <2>9, <2>16, OverInto, Zenon
  <2> DEFINE y == Over(counts.writes, Over(labels, Over(packed, cached)))
  <2>18. Into(L, y, O)
    BY <2>15, <2>17, OverInto, Zenon
  <2> HIDE DEF y
  <2>19. e.reads = reads /\ e.writes = y /\ e.adds = <<>>
    BY <2>1 DEF y
  <2>20. DOMAIN e.adds = {} /\ WritesOK(L, e.adds)
    BY <2>19, NoWrites
  <2>21. reads \subseteq PointCells(L) \cup CentroidReads(L) \cup O
    <3>1. Features(L) \subseteq 0 .. L.F - 1 /\ L.F \in Nat
      BY DEF Features, PointsLaunch
    <3>2. PointReads(L, S, Features(L)) \subseteq PointCells(L)
      BY <2>3, <2>4, <3>1, PointReadsIn
    <3>3. QED
      BY <2>7, <2>15, <3>2
  <2> HIDE DEF reads
  <2>22. QED
    BY <2>18, <2>19, <2>20, <2>21 DEF EffectOK, Touches, Into, e, O
<1>3. QED
  BY <1>1, <1>2

-----------------------------------------------------------------------------
(***************************************************************************)
(* What a turn of the fused feature sum uses                               *)
(***************************************************************************)
\* The vectors that the block of an item adds up are those of its group, and
\* end before the last point.
LEMMA RealBlockIn ==
  ASSUME NEW L, PointsLaunch(L), FusedShape(L), NEW w \in Items(L), NEW o \in Nat,
         NEW i \in RealBlockPoints(L, w, o)
  PROVE  i \in 0 .. L.local - 1 /\ \A k \in 0 .. L.vec - 1 : o + i + k < L.N
<1> DEFINE n == L.local \div TileBlocks(L)
<1> DEFINE t == TileOf(L, w)
<1> DEFINE v == L.vec
<1> DEFINE first == o + t * n * v
<1> DEFINE real == IF first + n * v >= L.N THEN SubSat(L.N, first) \div v ELSE n
<1>1. t \in 0 .. TileBlocks(L) - 1
  BY TileTyped
<1>2. /\ TileBlock(L) \in Nat \ {0} /\ TileBlocks(L) \in Nat \ {0}
      /\ L.local = TileBlock(L) * TileBlocks(L)
  BY DEF FusedShape
<1>3. v \in Nat \ {0} /\ L.N \in Nat
  BY DEF PointsLaunch, Striped
<1>4. n = TileBlock(L)
  <2> DEFINE b == TileBlocks(L)
  <2> DEFINE a == TileBlock(L)
  <2>1. a \in Nat \ {0} /\ b \in Nat \ {0} /\ L.local = a * b
    BY <1>2
  <2> HIDE DEF a, b
  <2>2. L.local = b * a + 0 /\ L.local \in Int /\ 0 \in 0 .. b - 1
    BY <2>1
  <2>3. L.local \div b = a
    BY <2>1, <2>2, DivModUnique
  <2>4. QED
    BY <2>3 DEF a, b
<1>5. RealBlockPoints(L, w, o) = t * n .. t * n + real - 1
  BY DEF RealBlockPoints
<1>6. n \in Nat \ {0} /\ L.local = n * TileBlocks(L)
  BY <1>2, <1>4
<1> HIDE DEF n, t, v
<1>7. n * t + n <= L.local /\ n * t \in Nat /\ t * n = n * t /\ L.local \in Nat
  <2>1. n * t + n <= n * TileBlocks(L)
    BY <1>1, <1>2, <1>6, LessTimes
  <2>2. n * t \in Nat /\ n * TileBlocks(L) \in Nat /\ t * n = n * t
    BY <1>1, <1>2, <1>6
  <2>3. QED
    BY <1>6, <2>1, <2>2
<1>8. n * v \in Nat /\ t * n * v = v * (n * t) /\ v * (n * t) \in Nat /\ n * t <= v * (n * t)
  <2> DEFINE x == n * t
  <2>1. x \in Nat /\ t * n = x
    BY <1>7
  <2> HIDE DEF x
  <2>2. t * n * v = v * x /\ v * x \in Nat
    BY <1>3, <2>1
  <2>3. 1 * x <= x * v
    BY <1>3, <2>1, TimesMonotone
  <2>4. x <= v * x
    BY <1>3, <2>1, <2>3
  <2>5. n * v \in Nat
    BY <1>3, <1>6
  <2>6. QED
    BY <2>2, <2>4, <2>5 DEF x
<1>9. first \in Nat /\ o + n * t <= first
  <2> DEFINE x == v * (n * t)
  <2>1. first = o + x /\ x \in Nat /\ n * t <= x
    BY <1>8
  <2> HIDE DEF x, first
  <2>2. QED
    BY <1>7, <2>1
<1> HIDE DEF first
<1>10. real \in Nat /\ real <= n /\ (real # 0 => first + v * real <= L.N)
  <2>1. CASE first + n * v >= L.N
    <3> DEFINE d == SubSat(L.N, first)
    <3>1. d \in Nat /\ d <= n * v /\ (d # 0 => first + d <= L.N)
      BY <1>3, <1>8, <1>9, <2>1 DEF SubSat
    <3>2. real = d \div v
      BY <2>1
    <3> HIDE DEF d
    <3> DEFINE q == d \div v
    <3>3. q \in Nat /\ d % v \in 0 .. v - 1 /\ d = v * q + (d % v)
      <4>1. d \in Int
        BY <3>1
      <4>2. QED
        BY <1>3, <3>1, <4>1, DivNat, DivMod
    <3> HIDE DEF q
    <3>4. v * q <= d /\ v * q \in Nat
      BY <1>3, <3>1, <3>3
    <3>5. q <= n
      <4>1. n < q => v * n + v <= v * q
        BY <1>3, <1>6, <3>3, LessTimes
      <4>2. v * n = n * v
        BY <1>3, <1>6
      <4>3. QED
        BY <1>3, <1>6, <1>8, <3>1, <3>3, <3>4, <4>1, <4>2
    <3>6. q # 0 => d # 0
      <4>1. q # 0 => v * 0 + v <= v * q
        BY <1>3, <3>3, LessTimes
      <4>2. QED
        BY <1>3, <3>1, <3>4, <4>1
    <3>7. q # 0 => first + v * q <= L.N
      BY <1>3, <1>9, <3>1, <3>4, <3>6
    <3>8. QED
      BY <3>2, <3>3, <3>5, <3>7 DEF q
  <2>2. CASE ~(first + n * v >= L.N)
    <3>1. real = n /\ n * v = v * n
      BY <1>3, <1>6, <2>2
    <3>2. QED
      BY <1>3, <1>6, <1>8, <1>9, <2>2, <3>1
  <2>3. QED
    BY <2>1, <2>2
<1> HIDE DEF real
<1>11. i \in n * t .. n * t + real - 1
  BY <1>5, <1>7
<1>12. i \in 0 .. L.local - 1
  BY <1>6, <1>7, <1>10, <1>11
<1>13. ASSUME NEW k \in 0 .. v - 1 PROVE o + i + k < L.N
  <2>1. real # 0 /\ real \in Nat
    BY <1>7, <1>10, <1>11
  <2> DEFINE r == real - 1
  <2>2. r \in Nat /\ real = r + 1
    BY <2>1
  <2> HIDE DEF r
  <2>3. v * real = v * r + v /\ r <= v * r /\ v * r \in Nat
    <3>1. 1 * r <= r * v
      BY <1>3, <2>2, TimesMonotone
    <3>2. QED
      BY <1>3, <2>2, <3>1
  <2>4. i <= n * t + r
    BY <1>7, <1>11, <2>2
  <2> DEFINE x == v * r
  <2> DEFINE z == n * t
  <2>5. x \in Nat /\ z \in Nat /\ r <= x /\ first + (x + v) <= L.N /\ o + z <= first /\ i <= z + r
    BY <1>7, <1>9, <1>10, <2>1, <2>3, <2>4
  <2>6. i \in Int
    BY <1>12
  <2> HIDE DEF x, z
  <2>7. QED
    BY <1>3, <1>9, <2>2, <2>5, <2>6
<1>14. QED
  BY <1>12, <1>13 DEF v

\* The sums of a tile, where they are accumulated.
Tile(L, w) == IF L.lmem THEN TileLocal(L, w) ELSE TileGlobal(L, w)

\* The pairs of a vector and a lane that the block of an item adds up.
TurnLanes(L, w, o) == RealBlockPoints(L, w, o) \X (0 .. L.vec - 1)

\* The points of a group's turn.
LEMMA TurnLanesIn ==
  ASSUME NEW L, PointsLaunch(L), FusedShape(L), NEW w \in Items(L), NEW o \in Nat
  PROVE  /\ IsFiniteSet(TurnLanes(L, w, o))
         /\ \A d \in TurnLanes(L, w, o) :
              d[1] \in 0 .. L.local - 1 /\ d[2] \in 0 .. L.vec - 1 /\ o + d[1] + d[2] < L.N
<1>1. L.local \in Nat /\ L.vec \in Nat
  BY DEF PointsLaunch, Striped
<1>2. RealBlockPoints(L, w, o) \subseteq 0 .. L.local - 1
  BY RealBlockIn
<1>3. IsFiniteSet(0 .. L.local - 1) /\ IsFiniteSet(0 .. L.vec - 1)
  <2>1. 0 \in Int /\ L.local - 1 \in Int /\ L.vec - 1 \in Int
    BY <1>1
  <2>2. QED
    BY <2>1, FS_Interval
<1>4. IsFiniteSet(RealBlockPoints(L, w, o))
  BY <1>2, <1>3, FS_Subset
<1>5. IsFiniteSet(TurnLanes(L, w, o))
  BY <1>3, <1>4, FS_Product DEF TurnLanes
<1>6. ASSUME NEW d \in TurnLanes(L, w, o)
      PROVE  d[1] \in 0 .. L.local - 1 /\ d[2] \in 0 .. L.vec - 1 /\ o + d[1] + d[2] < L.N
  <2>1. d[1] \in RealBlockPoints(L, w, o) /\ d[2] \in 0 .. L.vec - 1
    BY DEF TurnLanes
  <2>2. QED
    BY <2>1, RealBlockIn
<1>7. QED
  BY <1>5, <1>6

\* A turn that adds: an item reads the labels of its group and writes its tile.
LEMMA FootFusedSum ==
  ASSUME NEW L, PointsLaunch(L), FusedShape(L), L.out = "tmp_new_centroids",
         NEW w \in Items(L), NEW o \in Nat, NEW m, MemFor(L, m)
  PROVE  LET e == FusedSum(L, w, o, m)
         IN  /\ EffectOK(L, e)
             /\ Touches(e, GroupLabels(L, w) \cup GroupPoints(L, w) \cup PointCells(L)
                          \cup Tile(L, w),
                        Tile(L, w), {})
<1> DEFINE e == FusedSum(L, w, o, m)
<1> DEFINE lanes == TurnLanes(L, w, o)
<1> DEFINE Fs == TileFeatures(L, w)
<1> DEFINE labelOf(d) == Unpack(L, Val(m, Loc(w, "l_labels", d[1])), d[2])
<1> DEFINE cells == {labelOf(d) : d \in lanes} \X Fs
<1> DEFINE source(d, f) == IF L.lmem
                           THEN Val(m, Loc(w, "l_points", L.local * f + d[1])) + d[2]
                           ELSE L.N * f + o + d[1] + d[2]
<1> DEFINE added(x) == SumFunction([d \in {y \in lanes : labelOf(y) = x[1]} |->
                                      Val(m, InBlock(L, "points", source(d, x[2])))])
<1> DEFINE A(x) == IF L.lmem THEN TileCell(L, w, x) ELSE Glob(L.out, TileOffset(L, w) + Cell(L, x))
<1> DEFINE labelReads == {Loc(w, "l_labels", d[1]) : d \in lanes}
<1> DEFINE cachedReads == UNION {{Loc(w, "l_points", L.local * f + d[1]) : d \in lanes} : f \in Fs}
<1> DEFINE sourceReads == UNION {{InBlock(L, "points", source(d, f)) : d \in lanes} : f \in Fs}
<1> DEFINE pointReads == IF L.lmem THEN cachedReads ELSE sourceReads
<1> DEFINE R == labelReads \cup pointReads
<1>1. e = [reads |-> R \cup {A(x) : x \in cells},
           writes |-> [a \in {A(x) : x \in cells} |->
                         Val(m, A(CHOOSE x \in cells : A(x) = a))
                           + added(CHOOSE x \in cells : A(x) = a)],
           adds |-> <<>>]
  <2>1. e = Accumulate(m, R, cells, A, added)
    BY Zenon DEF FusedSum, TurnLanes, TileCell
  <2> HIDE DEF R, cells, A, added, e
  <2>2. QED
    BY <2>1, Zenon DEF Accumulate, Effect, Place
<1>2. MemOK(m) /\ \A a : Val(m, a) \in Int
  BY ValTyped DEF MemFor
<1>3. /\ L.local \in Nat \ {0} /\ L.vec \in Nat /\ L.N \in Nat /\ L.C \in Nat \ {0}
      /\ L.F \in Nat \ {0}
      /\ L.lmem \in BOOLEAN
  BY DEF PointsLaunch, Striped
<1>4. /\ IsFiniteSet(lanes)
      /\ \A d \in lanes : /\ d[1] \in 0 .. L.local - 1 /\ d[2] \in 0 .. L.vec - 1
                          /\ o + d[1] + d[2] < L.N
  BY TurnLanesIn
<1>5. Fs \subseteq 0 .. L.F - 1
  BY DEF TileFeatures, Features
<1>6. cells \subseteq Clusters(L) \X Fs
  <2>1. ASSUME NEW d \in lanes PROVE labelOf(d) \in Clusters(L)
    <3>1. d[2] \in Nat
      BY <1>3, <1>4
    <3>2. Val(m, Loc(w, "l_labels", d[1])) \in Int
      BY <1>2
    <3>3. QED
      BY <1>3, <3>1, <3>2, UnpackTyped
  <2> HIDE DEF labelOf, lanes
  <2>2. QED
    BY <2>1
<1>7. \A x : added(x) \in Int
  <2>1. ASSUME NEW x PROVE added(x) \in Int
    <3> DEFINE T == {y \in lanes : labelOf(y) = x[1]}
    <3> DEFINE g == [d \in T |-> Val(m, InBlock(L, "points", source(d, x[2])))]
    <3>1. IsFiniteSet(T)
      BY <1>4, FS_Subset
    <3> HIDE DEF T
    <3>2. g \in [T -> Int]
      BY <1>2
    <3> HIDE DEF g
    <3>3. SumFunction(g) \in Int
      BY <3>1, <3>2, SumTyped
    <3>4. added(x) = SumFunction(g)
      BY DEF g, T
    <3>5. QED
      BY <3>3, <3>4
  <2> HIDE DEF added
  <2>2. QED
    BY <2>1
<1>8. \A x \in cells : A(x) \in Tile(L, w) /\ A(x)[1] # "labels"
  <2>1. ASSUME NEW x \in cells PROVE A(x) \in Tile(L, w) /\ A(x)[1] # "labels"
    <3>1. x \in Clusters(L) \X Fs
      BY <1>6
    <3>2. TileCell(L, w, x) \in TileLocal(L, w)
      BY <3>1 DEF TileLocal
    <3>3. Glob(L.out, TileOffset(L, w) + Cell(L, x)) \in TileGlobal(L, w)
      BY <3>1 DEF TileGlobal
    <3>4. TileCell(L, w, x)[1] = "l_centroids"
            /\ Glob(L.out, TileOffset(L, w) + Cell(L, x))[1] = "tmp_new_centroids"
      BY DEF TileCell, Loc, Glob
    <3> HIDE DEF cells
    <3>5. QED
      BY <3>2, <3>3, <3>4 DEF Tile
  <2>2. QED
    BY <2>1
<1>9. labelReads \subseteq GroupLabels(L, w)
  <2> HIDE DEF lanes
  <2>1. QED
    BY <1>4 DEF GroupLabels
<1>10. cachedReads \subseteq GroupPoints(L, w)
  <2>1. ASSUME NEW d \in lanes, NEW f \in Fs
        PROVE  Loc(w, "l_points", L.local * f + d[1]) \in GroupPoints(L, w)
    <3>1. L.local * f + d[1] \in 0 .. L.local * L.F - 1
      <4>1. f \in 0 .. L.F - 1 /\ d[1] \in 0 .. L.local - 1
        BY <1>4, <1>5
      <4>2. L.local * f + d[1] \in Nat /\ L.local * f + d[1] < L.local * L.F
        BY <1>3, <4>1, ChunkIndex
      <4>3. L.local * L.F \in Nat
        BY <1>3
      <4>4. QED
        BY <4>2, <4>3
    <3>2. QED
      BY <3>1 DEF GroupPoints
  <2> HIDE DEF lanes, Fs
  <2>2. QED
    BY <2>1
<1>11. ASSUME ~L.lmem PROVE pointReads \subseteq PointCells(L)
  <2>1. ASSUME NEW d \in lanes, NEW f \in Fs
        PROVE  InBlock(L, "points", source(d, f)) \in PointCells(L)
    <3> DEFINE q == o + d[1] + d[2]
    <3>1. f \in 0 .. L.F - 1 /\ q \in 0 .. L.N - 1
      BY <1>3, <1>4, <1>5
    <3>2. source(d, f) = L.N * f + q
      <4>1. source(d, f) = L.N * f + o + d[1] + d[2]
        BY <1>11
      <4> DEFINE z == L.N * f
      <4>2. z \in Int /\ d[1] \in Int /\ d[2] \in Int
        BY <1>3, <1>4, <3>1
      <4> HIDE DEF z
      <4>3. z + o + d[1] + d[2] = z + q
        BY <4>2
      <4>4. QED
        BY <4>1, <4>3 DEF z
    <3> HIDE DEF q
    <3>3. L.N * f + q \in Nat /\ L.N * f + q < L.N * L.F
      BY <1>3, <3>1, ChunkIndex
    <3>4. L.N * L.F \in Nat
      BY <1>3
    <3>5. L.N * f + q \in 0 .. L.N * L.F - 1
      BY <3>3, <3>4
    <3>6. QED
      BY <3>2, <3>5 DEF PointCells
  <2> HIDE DEF lanes, Fs, source
  <2>2. sourceReads \subseteq PointCells(L)
    BY <2>1
  <2>3. QED
    BY <1>11, <2>2
<1>12. R \subseteq GroupLabels(L, w) \cup GroupPoints(L, w) \cup PointCells(L)
  <2> HIDE DEF labelReads, cachedReads, sourceReads
  <2>1. CASE L.lmem
    BY <1>9, <1>10, <2>1
  <2>2. CASE ~L.lmem
    <3> HIDE DEF pointReads
    <3>1. pointReads \subseteq PointCells(L)
      BY <1>11, <2>2
    <3>2. QED
      BY <1>9, <3>1
  <2>3. QED
    BY <2>1, <2>2
<1> HIDE DEF e, R, cells, A, added
<1>13. e.reads = R \cup {A(x) : x \in cells} /\ e.adds = <<>>
         /\ DOMAIN e.writes = {A(x) : x \in cells}
  BY <1>1
<1>14. \A a \in DOMAIN e.writes : e.writes[a] \in Int
  BY <1>1, <1>2, <1>7
<1>15. {A(x) : x \in cells} \subseteq Tile(L, w) /\ \A a \in {A(x) : x \in cells} : a[1] # "labels"
  BY <1>8
<1>16. DOMAIN e.adds = {} /\ WritesOK(L, e.adds)
  BY <1>13, NoWrites
<1>17. EffectOK(L, e)
  BY <1>13, <1>14, <1>15, <1>16 DEF EffectOK, WritesOK
<1>18. QED
  BY <1>12, <1>13, <1>15, <1>16, <1>17 DEF Touches, e

\* After the last barrier an item copies its masses and its tile out.
LEMMA FootFusedWriteBack ==
  ASSUME NEW L, PointsLaunch(L), FusedShape(L), L.out = "tmp_new_centroids",
         NEW w \in Items(L), NEW m, MemFor(L, m)
  PROVE  LET e == FusedWriteBack(L, w, m)
         IN  /\ EffectOK(L, e)
             /\ Touches(e, FusedMine(L, w) \cup TileLocal(L, w),
                        FusedMine(L, w) \cup TileGlobal(L, w), {})
<1> DEFINE e == FusedWriteBack(L, w, m)
<1> DEFINE C == Clusters(L)
<1> DEFINE X == Clusters(L) \X TileFeatures(L, w)
<1> DEFINE lm(c) == OwnLocalMass(L, w, c)
<1> DEFINE gm(c) == OwnMass(L, w, c)
<1> DEFINE lc(x) == TileCell(L, w, x)
<1> DEFINE gc(x) == Glob(L.out, TileOffset(L, w) + Cell(L, x))
<1> DEFINE mw == [a \in {gm(c) : c \in C} |-> Val(m, lm(CHOOSE c \in C : gm(c) = a))]
<1> DEFINE cw == [a \in {gc(x) : x \in X} |-> Val(m, lc(CHOOSE x \in X : gc(x) = a))]
<1> DEFINE mr == {lm(c) : c \in C}
<1> DEFINE cr == {lc(x) : x \in X}
<1> DEFINE p(r, f) == [reads |-> r, writes |-> f, adds |-> <<>>]
<1> DEFINE R == FusedMine(L, w) \cup TileLocal(L, w)
<1> DEFINE W == FusedMine(L, w) \cup TileGlobal(L, w)
<1>1. e = Both(p(mr, mw), p(cr, cw))
  BY Zenon DEF FusedWriteBack, CopyCells, Effect, Place, TileCell
<1>2. MemOK(m) /\ \A a : Val(m, a) \in Int
  BY ValTyped DEF MemFor
<1>3. \A c \in C : /\ gm(c) \in FusedMine(L, w) /\ lm(c) \in FusedMine(L, w)
                   /\ gm(c)[1] # "labels"
  BY OwnMasses DEF FusedMine
<1>4. \A x \in X : lc(x) \in TileLocal(L, w) /\ gc(x) \in TileGlobal(L, w) /\ gc(x)[1] # "labels"
  BY DEF TileLocal, TileGlobal, Glob
<1>5. p(mr, mw).reads = mr /\ p(mr, mw).writes = mw /\ p(cr, cw).reads = cr /\ p(cr, cw).writes = cw
  OBVIOUS
<1> HIDE DEF e, C, X, lm, gm, lc, gc, p, R, W
<1>6. Into(L, mw, W)
  BY <1>2, <1>3 DEF Into, WritesOK, W
<1>7. Into(L, cw, W)
  BY <1>2, <1>4 DEF Into, WritesOK, W
<1>8. mr \cup cr \subseteq R
  BY <1>3, <1>4 DEF R
<1> HIDE DEF mr, cr, mw, cw
<1>9. e.reads = mr \cup cr /\ e.writes = Over(mw, cw) /\ e.adds = <<>>
  BY <1>1, <1>5, BothIs
<1>10. Into(L, Over(mw, cw), W)
  BY <1>6, <1>7, OverInto, Zenon
<1>11. DOMAIN e.adds = {} /\ WritesOK(L, e.adds)
  BY <1>9, NoWrites
<1>12. QED
  BY <1>8, <1>9, <1>10, <1>11 DEF EffectOK, Touches, Into, e, R, W

-----------------------------------------------------------------------------
(***************************************************************************)
(* Reads and writes of the fused feature sum, interval by interval         *)
(***************************************************************************)
\* The intervals between the first, which resets, and the last, which copies out.
Turns(L, w) == 2 * Cardinality(GroupOffsets(L, w))

\* What interval j of lloyd_fused_feature_sum reads and writes: it resets, labels and
\* adds in turns, and copies out.
FusedReads(L, w, j) ==
  IF j = 0 THEN {}
  ELSE IF j > Turns(L, w) THEN FusedMine(L, w) \cup TileLocal(L, w)
  ELSE IF j % 2 = 1 THEN PointCells(L) \cup CentroidReads(L) \cup FusedMine(L, w)
  ELSE GroupLabels(L, w) \cup GroupPoints(L, w) \cup PointCells(L) \cup Tile(L, w)

FusedWrites(L, w, j) ==
  IF j = 0 THEN FusedMine(L, w) \cup (IF L.lmem THEN ZeroLocal(L, w) ELSE ZeroGlobal(L, w))
  ELSE IF j > Turns(L, w) THEN FusedMine(L, w) \cup TileGlobal(L, w)
  ELSE IF j % 2 = 1 THEN FusedMine(L, w)
  ELSE Tile(L, w)

\* lloyd_fused_feature_sum, interval by interval.
LEMMA FootFusedFeatureSum ==
  ASSUME NEW L, PointsLaunch(L), FusedShape(L), L.kernel = "lloyd_fused_feature_sum",
         L.out = "tmp_new_centroids", NEW w \in Items(L), NEW j \in Nat, NEW m, MemFor(L, m)
  PROVE  LET e == Interval(L, w, j, m)
         IN  EffectOK(L, e) /\ Touches(e, FusedReads(L, w, j), FusedWrites(L, w, j), {})
<1> DEFINE e == Interval(L, w, j, m)
<1> DEFINE n == Cardinality(GroupOffsets(L, w))
<1> DEFINE o == Nth(GroupOffsets(L, w), (j + 1) \div 2)
<1>1. n \in Nat /\ GroupOffsets(L, w) \subseteq 0 .. L.N /\ L.N \in Nat
  BY GroupOffsetsIn DEF PointsLaunch, Striped
<1>2. j \in 1 .. 2 * n => o \in GroupOffsets(L, w)
  <2>1. j \in 1 .. 2 * n => (j + 1) \div 2 \in 1 .. n
    <3> HIDE DEF n
    <3>1. QED
      BY <1>1
  <2>2. QED
    BY <1>1, <2>1, NthIn
<1>3. e = LloydFusedFeatureSum(L, w, j, m)
  BY Zenon DEF Interval
<1>4. CASE j = 0
  <2>1. /\ EffectOK(L, e) /\ e.reads = {} /\ DOMAIN e.adds = {}
        /\ DOMAIN e.writes
             \subseteq FusedMine(L, w) \cup (IF L.lmem THEN ZeroLocal(L, w) ELSE ZeroGlobal(L, w))
    BY <1>4, FootFusedZero
  <2>2. FusedReads(L, w, j) = {}
    BY <1>4, Zenon DEF FusedReads
  <2>3. FusedWrites(L, w, j) = FusedMine(L, w)
          \cup (IF L.lmem THEN ZeroLocal(L, w) ELSE ZeroGlobal(L, w))
    BY <1>4, Zenon DEF FusedWrites
  <2> HIDE DEF e
  <2>4. QED
    BY <2>1, <2>2, <2>3 DEF Touches, e
<1>5. CASE j > 2 * n
  <2>1. j # 0 /\ ~(j \in 1 .. 2 * n)
    <3> HIDE DEF n
    <3>1. QED
      BY <1>1, <1>5
  <2>2. e = FusedWriteBack(L, w, m)
    BY <1>3, <1>5, <2>1, Zenon DEF LloydFusedFeatureSum
  <2>3. /\ FusedReads(L, w, j) = FusedMine(L, w) \cup TileLocal(L, w)
        /\ FusedWrites(L, w, j) = FusedMine(L, w) \cup TileGlobal(L, w)
    BY <1>5, <2>1, Zenon DEF FusedReads, FusedWrites, Turns
  <2>4. QED
    BY <2>2, <2>3, FootFusedWriteBack
<1>6. CASE j \in 1 .. 2 * n /\ j % 2 = 1
  <2>1. j # 0 /\ ~(j > 2 * n) /\ j % 2 # 0
    <3> HIDE DEF n
    <3>1. QED
      BY <1>1, <1>6
  <2>2. e = FusedLabel(L, w, o, m)
    BY <1>3, <1>6, <2>1, Zenon DEF LloydFusedFeatureSum
  <2>3. /\ FusedReads(L, w, j) = PointCells(L) \cup CentroidReads(L) \cup FusedMine(L, w)
        /\ FusedWrites(L, w, j) = FusedMine(L, w)
    BY <1>6, <2>1, Zenon DEF FusedReads, FusedWrites, Turns
  <2>4. o \in GroupOffsets(L, w)
    BY <1>2, <1>6
  <2> HIDE DEF o
  <2>5. QED
    BY <2>2, <2>3, <2>4, FootFusedLabel
<1>7. CASE j \in 1 .. 2 * n /\ j % 2 = 0
  <2>1. j # 0 /\ ~(j > 2 * n) /\ j % 2 # 1
    <3> HIDE DEF n
    <3>1. QED
      BY <1>1, <1>7
  <2>2. e = FusedSum(L, w, o, m)
    BY <1>3, <1>7, <2>1, Zenon DEF LloydFusedFeatureSum
  <2>3. /\ FusedReads(L, w, j) = GroupLabels(L, w) \cup GroupPoints(L, w) \cup PointCells(L)
             \cup Tile(L, w)
        /\ FusedWrites(L, w, j) = Tile(L, w)
    BY <1>7, <2>1, Zenon DEF FusedReads, FusedWrites, Turns
  <2>4. o \in Nat
    BY <1>1, <1>2, <1>7
  <2> HIDE DEF o
  <2>5. QED
    BY <2>2, <2>3, <2>4, FootFusedSum
<1>8. j = 0 \/ j > 2 * n \/ (j \in 1 .. 2 * n /\ j % 2 = 1) \/ (j \in 1 .. 2 * n /\ j % 2 = 0)
  <2> HIDE DEF n
  <2>1. QED
    BY <1>1
<1>9. QED
  BY <1>4, <1>5, <1>6, <1>7, <1>8, Zenon

-----------------------------------------------------------------------------
(***************************************************************************)
(* The reduction                                                           *)
(***************************************************************************)
ReduceLike(L) ==
  /\ L.groups \in Nat \ {0} /\ L.local \in Nat \ {0} /\ L.size \in Nat /\ L.rows \in Nat
  /\ L.buf # "labels"

\* The elements that are a global size apart, from the item's number on.
ReduceMine(L, w) ==
  {i \in Gid(L, w) .. L.size - 1 : (i - Gid(L, w)) % (L.groups * L.local) = 0}

\* reduce_vector_parcol_compact: every item has a cell of its own.
LEMMA FootReduceCompact ==
  ASSUME NEW L, ReduceLike(L), L.kernel = "reduce_vector_parcol_compact",
         NEW w \in Items(L), NEW j, NEW m, MemOK(m)
  PROVE  LET e == Interval(L, w, j, m)
         IN  /\ EffectOK(L, e)
             /\ Touches(e, {Glob(L.buf, i) : i \in ReduceMine(L, w)}, {Glob(L.buf, Gid(L, w))}, {})
<1> DEFINE e == Interval(L, w, j, m)
<1> DEFINE S == ReduceMine(L, w)
<1> DEFINE v == SumFunction([k \in S |-> Val(m, Glob(L.buf, k))])
<1>1. e = ReduceCompact(L, w, m)
  BY Zenon DEF Interval
<1>2. e = [reads |-> {Glob(L.buf, i) : i \in S},
           writes |-> [a \in {Glob(L.buf, i) : i \in {Gid(L, w)}} |-> v], adds |-> <<>>]
  BY <1>1, Zenon DEF ReduceCompact, Effect, Place, ReduceMine
<1>3. v \in Int
  <2> DEFINE g == [k \in S |-> Val(m, Glob(L.buf, k))]
  <2>1. Gid(L, w) \in Int /\ L.size - 1 \in Int
    BY DEF Gid, Items, ReduceLike
  <2>2. IsFiniteSet(Gid(L, w) .. L.size - 1)
    BY <2>1, FS_Interval
  <2>3. IsFiniteSet(S)
    BY <2>2, FS_Subset DEF ReduceMine
  <2>4. \A a : Val(m, a) \in Int
    BY ValTyped
  <2> HIDE DEF S
  <2>5. g \in [S -> Int]
    BY <2>4
  <2> HIDE DEF g
  <2>6. SumFunction(g) \in Int
    BY <2>3, <2>5, SumTyped
  <2>7. QED
    BY <2>6 DEF g
<1> HIDE DEF e, S, v
<1>4. e.reads = {Glob(L.buf, i) : i \in S} /\ DOMAIN e.writes = {Glob(L.buf, Gid(L, w))}
        /\ e.adds = <<>>
  BY <1>2
<1>5. \A a \in DOMAIN e.writes : e.writes[a] \in Int /\ a[1] # "labels"
  <2>1. \A a \in DOMAIN e.writes : e.writes[a] \in Int
    BY <1>2, <1>3
  <2>2. Glob(L.buf, Gid(L, w))[1] # "labels"
    BY DEF Glob, ReduceLike
  <2>3. QED
    BY <1>4, <2>1, <2>2
<1>6. DOMAIN e.adds = {} /\ WritesOK(L, e.adds)
  BY <1>4, NoWrites
<1>7. QED
  BY <1>4, <1>5, <1>6 DEF EffectOK, WritesOK, Touches, e, S

-----------------------------------------------------------------------------
\* A quotient is at most the dividend.
LEMMA DivDown ==
  ASSUME NEW a \in Nat, NEW p \in Nat \ {0}
  PROVE  a \div p \in 0 .. a
<1> DEFINE q == a \div p
<1> DEFINE r == a % p
<1>1. q \in Nat
  BY DivNat
<1>2. r \in 0 .. p - 1 /\ a = p * q + r
  BY DivMod
<1> HIDE DEF q, r
<1>3. 1 * q <= q * p
  BY <1>1, TimesMonotone
<1> DEFINE x == p * q
<1>4. x \in Int /\ q <= x /\ a = x + r /\ r \in Nat
  BY <1>1, <1>2, <1>3
<1> HIDE DEF x
<1>5. q \in 0 .. a
  BY <1>1, <1>4
<1>6. QED
  BY <1>5 DEF q

\* The elements that are added in round j of the inner kernel.
Half(L, j) == IF j = 0 THEN 0 ELSE Remaining(L, j)

\* Rounds of the reduction add the upper half of at most all items.
LEMMA HalfIn ==
  ASSUME NEW L, ReduceLike(L), NEW j \in Nat
  PROVE  Half(L, j) \in 0 .. L.local
<1>1. CASE j = 0
  BY <1>1 DEF Half, ReduceLike
<1>2. CASE j # 0
  <2>1. j - 1 \in Nat
    BY <1>2
  <2> DEFINE p == Power(2, j - 1)
  <2>2. p \in Nat \ {0}
    BY <2>1, PowerTyped
  <2> HIDE DEF p
  <2>3. L.local \in Nat
    BY DEF ReduceLike
  <2>4. L.local \div p \in 0 .. L.local
    BY <2>2, <2>3, DivDown
  <2>5. Half(L, j) = L.local \div p
    BY <1>2 DEF Half, Remaining, p
  <2>6. QED
    BY <2>4, <2>5
<1>3. QED
  BY <1>1, <1>2

\* What an item of the inner kernel uses in interval j, in the local buffer
\* and in the global one.
InnerLoads(L, w) == {Glob(L.buf, i) : i \in CopyShare(L, w, 2 * L.local)}
InnerStores(L, w) == {Glob(L.buf, i) : i \in CopyShare(L, w, L.rows)}
InnerShare(L, w, n) == {Loc(w, "l_data", i) : i \in CopyShare(L, w, n)}
InnerTurn(L, w, j) == {w[2]} \cap (0 .. Half(L, j) - 1)
InnerAdds(L, w, j) == {Loc(w, "l_data", i) : i \in InnerTurn(L, w, j)}
InnerOthers(L, w, j) == {Loc(w, "l_data", Half(L, j) + i) : i \in InnerTurn(L, w, j)}

\* What interval j of reduce_vector_parcol_inner reads and writes: it loads, adds in
\* rounds, and stores.
InnerReads(L, w, j) ==
  IF j = 0 THEN InnerLoads(L, w)
  ELSE IF j > ReduceRounds(L) THEN InnerShare(L, w, L.rows)
  ELSE InnerAdds(L, w, j) \cup InnerOthers(L, w, j)

InnerWrites(L, w, j) ==
  IF j = 0 THEN InnerShare(L, w, 2 * L.local)
  ELSE IF j > ReduceRounds(L) THEN InnerStores(L, w)
  ELSE InnerAdds(L, w, j)

\* reduce_vector_parcol_inner, round by round.
LEMMA FootReduceInner ==
  ASSUME NEW L, ReduceLike(L), L.kernel = "reduce_vector_parcol_inner",
         NEW w \in Items(L), NEW j \in Nat, NEW m, MemOK(m)
  PROVE  LET e == Interval(L, w, j, m)
         IN  EffectOK(L, e) /\ Touches(e, InnerReads(L, w, j), InnerWrites(L, w, j), {})
<1> DEFINE e == Interval(L, w, j, m)
<1> DEFINE l(i) == Loc(w, "l_data", i)
<1> DEFINE g(i) == Glob(L.buf, i)
<1> DEFINE h == Half(L, j)
<1> DEFINE S(n) == CopyShare(L, w, n)
<1> DEFINE T == InnerTurn(L, w, j)
<1>1. e = ReduceInner(L, w, j, m)
  BY Zenon DEF Interval
<1>2. ReduceRounds(L) \in Nat
  <2>1. L.local \in Nat
    BY DEF ReduceLike
  <2>2. IsFiniteSet(1 .. L.local)
    BY <2>1, 1 \in Int, L.local \in Int, FS_Interval
  <2>3. IsFiniteSet({k \in 1 .. L.local : Remaining(L, k) >= L.rows})
    BY <2>2, FS_Subset
  <2>4. QED
    BY <2>3, FS_CardinalityType DEF ReduceRounds
<1>3. \A a : Val(m, a) \in Int
  BY ValTyped
<1>4. (\A i : l(i)[1] # "labels") /\ \A i : g(i)[1] # "labels"
  BY DEF Loc, Glob, ReduceLike
<1>5. CASE j = 0
  <2>0. ~(j > ReduceRounds(L)) /\ ~(j \in 1 .. ReduceRounds(L))
    BY <1>2, <1>5
  <2>1. e = [reads |-> {g(i) : i \in S(2 * L.local)},
             writes |-> [a \in {l(i) : i \in S(2 * L.local)} |->
                           Val(m, g(CHOOSE i \in S(2 * L.local) : l(i) = a))], adds |-> <<>>]
    BY <1>1, <1>5, <2>0, Zenon DEF ReduceInner, CopyCells, Effect, Place
  <2>2. /\ InnerReads(L, w, j) = {g(i) : i \in S(2 * L.local)}
        /\ InnerWrites(L, w, j) = {l(i) : i \in S(2 * L.local)}
    BY <1>5, Zenon DEF InnerReads, InnerWrites, InnerLoads, InnerShare
  <2> HIDE DEF e, l, g, S
  <2>3. /\ e.reads = {g(i) : i \in S(2 * L.local)}
        /\ DOMAIN e.writes = {l(i) : i \in S(2 * L.local)}
        /\ e.adds = <<>>
    BY <2>1
  <2>4. \A a \in DOMAIN e.writes : e.writes[a] \in Int
    BY <1>3, <2>1
  <2>5. \A a \in DOMAIN e.writes : a[1] # "labels"
    BY <1>4, <2>3
  <2>6. DOMAIN e.adds = {} /\ WritesOK(L, e.adds)
    BY <2>3, NoWrites
  <2>7. QED
    BY <2>2, <2>3, <2>4, <2>5, <2>6 DEF EffectOK, WritesOK, Touches, e
<1>6. CASE j > ReduceRounds(L)
  <2>0. j # 0 /\ ~(j \in 1 .. ReduceRounds(L))
    BY <1>2, <1>6
  <2>1. e = [reads |-> {l(i) : i \in S(L.rows)},
             writes |-> [a \in {g(i) : i \in S(L.rows)} |->
                           Val(m, l(CHOOSE i \in S(L.rows) : g(i) = a))], adds |-> <<>>]
    BY <1>1, <1>6, <2>0, Zenon DEF ReduceInner, CopyCells, Effect, Place
  <2>2. /\ InnerReads(L, w, j) = {l(i) : i \in S(L.rows)}
        /\ InnerWrites(L, w, j) = {g(i) : i \in S(L.rows)}
    BY <1>6, <2>0, Zenon DEF InnerReads, InnerWrites, InnerStores, InnerShare
  <2> HIDE DEF e, l, g, S
  <2>3. /\ e.reads = {l(i) : i \in S(L.rows)} /\ DOMAIN e.writes = {g(i) : i \in S(L.rows)}
        /\ e.adds = <<>>
    BY <2>1
  <2>4. \A a \in DOMAIN e.writes : e.writes[a] \in Int
    BY <1>3, <2>1
  <2>5. \A a \in DOMAIN e.writes : a[1] # "labels"
    BY <1>4, <2>3
  <2>6. DOMAIN e.adds = {} /\ WritesOK(L, e.adds)
    BY <2>3, NoWrites
  <2>7. QED
    BY <2>2, <2>3, <2>4, <2>5, <2>6 DEF EffectOK, WritesOK, Touches, e
<1>7. CASE j \in 1 .. ReduceRounds(L)
  <2>0. j # 0 /\ ~(j > ReduceRounds(L))
    BY <1>2, <1>7
  <2> DEFINE R == {l(h + i) : i \in T}
  <2> DEFINE v(i) == Val(m, l(i)) + Val(m, l(h + i))
  <2>1. h = Remaining(L, j)
    BY <2>0 DEF Half
  <2>2. e = [reads |-> R \cup {l(i) : i \in T},
             writes |-> [a \in {l(i) : i \in T} |-> v(CHOOSE i \in T : l(i) = a)], adds |-> <<>>]
    BY <1>1, <1>7, <2>0, Zenon DEF ReduceInner, Accumulate, Effect, Place, Half, InnerTurn
  <2>3. /\ InnerReads(L, w, j) = InnerAdds(L, w, j) \cup InnerOthers(L, w, j)
        /\ InnerWrites(L, w, j) = InnerAdds(L, w, j)
    BY <2>0, Zenon DEF InnerReads, InnerWrites
  <2>4. InnerAdds(L, w, j) = {l(i) : i \in T} /\ InnerOthers(L, w, j) = R
    BY Zenon DEF InnerAdds, InnerOthers
  <2>10. \A i : v(i) \in Int
    BY <1>3
  <2> HIDE DEF e, l, T, R, h, v
  <2>5. /\ e.reads = R \cup {l(i) : i \in T} /\ DOMAIN e.writes = {l(i) : i \in T}
        /\ e.adds = <<>>
    BY <2>2
  <2>6. \A a \in DOMAIN e.writes : e.writes[a] \in Int
    BY <2>10, <2>2
  <2>7. \A a \in DOMAIN e.writes : a[1] # "labels"
    BY <1>4, <2>5
  <2>8. DOMAIN e.adds = {} /\ WritesOK(L, e.adds)
    BY <2>5, NoWrites
  <2>9. QED
    BY <2>3, <2>4, <2>5, <2>6, <2>7, <2>8 DEF EffectOK, WritesOK, Touches, e
<1>8. j = 0 \/ j > ReduceRounds(L) \/ j \in 1 .. ReduceRounds(L)
  BY <1>2
<1>9. QED
  BY <1>5, <1>6, <1>7, <1>8, Zenon

-----------------------------------------------------------------------------
(***************************************************************************)
(* Matrices and commands                                                   *)
(***************************************************************************)
\* A launch over the cells of a matrix; a copy or a fill.
CellsLike(L) ==
  /\ L.rows \in Nat \ {0} /\ L.cols \in Nat \ {0} /\ L.groups = L.rows * L.cols
  /\ L.local = 1 /\ L.lcols = 1 /\ L.fst # "labels" /\ L.fst # L.snd
CommandLike(L) ==
  L.groups = 1 /\ L.local = 1 /\ L.size \in Nat /\ L.fst # "labels" /\ L.snd # "labels"

\* matrix_matrix: one cell for every item.
LEMMA FootMatrixMatrix ==
  ASSUME NEW L, CellsLike(L), L.kernel = "matrix_matrix", NEW w \in Items(L), NEW j, NEW m, MemOK(m)
  PROVE  LET e == Interval(L, w, j, m)
         IN  /\ EffectOK(L, e)
             /\ Touches(e, {Glob(L.snd, Gid(L, w)), Glob(L.fst, Gid(L, w))},
                        {Glob(L.fst, Gid(L, w))}, {})
<1> DEFINE e == Interval(L, w, j, m)
<1> DEFINE g == Gid(L, w)
<1> DEFINE A(i) == Glob(L.fst, i)
<1> DEFINE v(i) == Val(m, A(i)) + Val(m, Glob(L.snd, i))
<1>1. e = [reads |-> {Glob(L.snd, g)} \cup {A(i) : i \in {g}},
           writes |-> [a \in {A(i) : i \in {g}} |-> v(CHOOSE i \in {g} : A(i) = a)], adds |-> <<>>]
  BY Zenon DEF Interval, MatrixMatrix, Accumulate, Effect, Place
<1>2. \A i : v(i) \in Int
  BY ValTyped
<1>3. \A i : A(i)[1] # "labels"
  BY DEF Glob, CellsLike
<1> HIDE DEF e, g, A, v
<1>4. e.reads = {Glob(L.snd, g), A(g)} /\ DOMAIN e.writes = {A(g)} /\ e.adds = <<>>
  BY <1>1
<1>5. \A a \in DOMAIN e.writes : e.writes[a] \in Int
  BY <1>1, <1>2
<1>6. DOMAIN e.adds = {} /\ WritesOK(L, e.adds)
  BY <1>4, NoWrites
<1>7. QED
  BY <1>3, <1>4, <1>5, <1>6 DEF EffectOK, WritesOK, Touches, e, g, A

\* Quotients are numbers, division by zero included.
LEMMA QuotientTyped ==
  ASSUME NEW s \in Int, NEW x \in Int
  PROVE  Quotient(s, x) \in Int
<1>1. CASE x = 0
  BY <1>1 DEF Quotient, NaN
<1>2. CASE x > 0 /\ Unit % x = 0
  <2>1. Unit \in Nat /\ x \in Nat \ {0} /\ x # 0
    BY <1>2, UnitAssumption
  <2>2. Unit \div x \in Int
    BY <2>1, DivNat
  <2>3. Quotient(s, x) = s * (Unit \div x)
    BY <1>2, <2>1, Zenon DEF Quotient
  <2> DEFINE y == Unit \div x
  <2> HIDE DEF y
  <2>4. s * y \in Int
    BY <2>2 DEF y
  <2>5. QED
    BY <2>3, <2>4 DEF y
<1>3. CASE ~(x = 0) /\ ~(x > 0 /\ Unit % x = 0)
  <2>1. Quotient(s, x) = Junk
    BY <1>3, Zenon DEF Quotient
  <2>2. QED
    BY <2>1 DEF Junk
<1>4. QED
  BY <1>1, <1>2, <1>3

\* The cell of an item, and the mass it divides by.
MatrixCell(L, w) == Glob(L.fst, L.rows * Gid1(L, w) + Gid0(L, w))

\* matrix_row_vector: one cell for every item.
LEMMA FootMatrixRowVector ==
  ASSUME NEW L, CellsLike(L), L.kernel = "matrix_row_vector", NEW w \in Items(L), NEW j,
         NEW m, MemOK(m)
  PROVE  LET e == Interval(L, w, j, m)
         IN  /\ EffectOK(L, e)
             /\ Touches(e, {MatrixCell(L, w), Glob(L.snd, Gid0(L, w))}, {MatrixCell(L, w)}, {})
<1> DEFINE e == Interval(L, w, j, m)
<1> DEFINE c == MatrixCell(L, w)
<1> DEFINE v == Glob(L.snd, Gid0(L, w))
<1> DEFINE q == Quotient(Val(m, c), Val(m, v))
<1>1. e = [reads |-> {c, v}, writes |-> [a \in {c} |-> q], adds |-> <<>>]
  BY Zenon DEF Interval, MatrixRowVector, Effect, MatrixCell
<1>2. q \in Int
  BY ValTyped, QuotientTyped
<1>3. c[1] # "labels"
  BY DEF MatrixCell, Glob, CellsLike
<1> HIDE DEF e, c, v, q
<1>4. e.reads = {c, v} /\ DOMAIN e.writes = {c} /\ e.adds = <<>>
  BY <1>1
<1>5. \A a \in DOMAIN e.writes : e.writes[a] \in Int
  BY <1>1, <1>2
<1>6. DOMAIN e.adds = {} /\ WritesOK(L, e.adds)
  BY <1>4, NoWrites
<1>7. QED
  BY <1>3, <1>4, <1>5, <1>6 DEF EffectOK, WritesOK, Touches, e, c, v

\* A copy reads one buffer and writes another.
LEMMA FootCopy ==
  ASSUME NEW L, CommandLike(L), L.kernel = "copy", NEW w, NEW j, NEW m, MemOK(m)
  PROVE  LET e == Interval(L, w, j, m)
         IN  /\ EffectOK(L, e)
             /\ Touches(e, {Glob(L.fst, i) : i \in 0 .. L.size - 1},
                        {Glob(L.snd, i) : i \in 0 .. L.size - 1}, {})
<1> DEFINE e == Interval(L, w, j, m)
<1> DEFINE D == 0 .. L.size - 1
<1> DEFINE A(i) == Glob(L.snd, i)
<1> DEFINE v(i) == Val(m, Glob(L.fst, i))
<1>1. e = [reads |-> {Glob(L.fst, i) : i \in D},
           writes |-> [a \in {A(i) : i \in D} |-> v(CHOOSE i \in D : A(i) = a)], adds |-> <<>>]
  BY Zenon DEF Interval, CopyBuffer, CopyCells, Effect, Place
<1>2. \A i : v(i) \in Int
  BY ValTyped
<1>3. \A i : A(i)[1] # "labels"
  BY DEF Glob, CommandLike
<1> HIDE DEF e, D, A, v
<1>4. e.reads = {Glob(L.fst, i) : i \in D} /\ DOMAIN e.writes = {A(i) : i \in D} /\ e.adds = <<>>
  BY <1>1
<1>5. \A a \in DOMAIN e.writes : e.writes[a] \in Int
  BY <1>1, <1>2
<1>6. DOMAIN e.adds = {} /\ WritesOK(L, e.adds)
  BY <1>4, NoWrites
<1>7. QED
  BY <1>3, <1>4, <1>5, <1>6 DEF EffectOK, WritesOK, Touches, e, A, D

\* A fill writes a buffer.
LEMMA FootFill ==
  ASSUME NEW L, CommandLike(L), L.kernel = "fill", NEW w, NEW j, NEW m
  PROVE  LET e == Interval(L, w, j, m)
         IN  EffectOK(L, e) /\ Touches(e, {}, {Glob(L.fst, i) : i \in 0 .. L.size - 1}, {})
<1> DEFINE e == Interval(L, w, j, m)
<1> DEFINE D == 0 .. L.size - 1
<1> DEFINE A(i) == Glob(L.fst, i)
<1>1. e = [reads |-> {}, writes |-> [a \in {A(i) : i \in D} |-> 0], adds |-> <<>>]
  BY Zenon DEF Interval, FillBuffer, Zero, Effect, Place
<1>2. \A i : A(i)[1] # "labels"
  BY DEF Glob, CommandLike
<1> HIDE DEF e, D, A
<1>3. e.reads = {} /\ DOMAIN e.writes = {A(i) : i \in D} /\ e.adds = <<>>
  BY <1>1
<1>4. \A a \in DOMAIN e.writes : e.writes[a] \in Int
  BY <1>1
<1>5. DOMAIN e.adds = {} /\ WritesOK(L, e.adds)
  BY <1>3, NoWrites
<1>6. QED
  BY <1>2, <1>3, <1>4, <1>5 DEF EffectOK, WritesOK, Touches, e, A, D

-----------------------------------------------------------------------------
(***************************************************************************)
(* The kernels: what they use, and the launches they fit                   *)
(***************************************************************************)
Uses(R, W, A) == [reads |-> R, writes |-> W, adds |-> A]

\* The cells an item may read, write and add to in interval j.
OwnSums(L, w) ==
  Chunk("tmp_centroids", L.C * L.F, Gid(L, w)) \cup Strided(L, w, "l_centroids", L.C * L.F)
OwnTile(L, w) ==
  Chunk("tmp_centroids", L.C * L.tf, TileNumber(L, w)) \cup Strided(L, w, "l_centroids", L.C * L.tf)

\* The footprint of interval j of item w: what it may read, write and add to.
Foot(L, w, j) ==
  CASE L.kernel = "histogram_global" -> Uses(LabelCells(L), {}, Chunk("masses", L.C, 0))
    [] L.kernel = "histogram_part_global" ->
         IF j = 0 THEN Uses({}, BinShare(L, w), {})
         ELSE Uses(LabelCells(L), {}, Chunk("tmp_masses", L.C, w[1]))
    [] L.kernel = "histogram_part_local" ->
         IF j = 0 THEN Uses({}, LocalShare(L, w), {})
         ELSE IF j = 1 THEN Uses(LabelCells(L), {}, LocalBins(L, w))
         ELSE Uses(LocalShare(L, w), BinShare(L, w), {})
    [] L.kernel = "histogram_part_private" ->
         Uses(LabelCells(L),
              Chunk("tmp_masses", L.C, Gid(L, w)) \cup Strided(L, w, "local_buf", L.C), {})
    [] L.kernel = "lloyd_labeling_vp_clcp" ->
         Uses(PointCells(L) \cup CentroidReads(L),
              LabelReads(L, Lanes(L, w)) \cup Strided(L, w, "l_points", L.F), {})
    [] L.kernel = "lloyd_cluster_merge" ->
         Uses(LabelCells(L) \cup PointCells(L) \cup OwnSums(L, w), OwnSums(L, w), {})
    [] L.kernel = "lloyd_feature_sum" ->
         Uses(LabelCells(L) \cup PointCells(L), Chunk("tmp_centroids", L.C, Gid(L, w)), {})
    [] L.kernel = "lloyd_feature_sum_pardim" ->
         Uses(LabelCells(L) \cup PointCells(L) \cup OwnTile(L, w), OwnTile(L, w), {})
    [] L.kernel = "lloyd_fused_cluster_merge" ->
         Uses(PointCells(L) \cup CentroidReads(L) \cup FusedOwn(L, w), FusedOwn(L, w), {})
    [] L.kernel = "lloyd_fused_feature_sum" -> Uses(FusedReads(L, w, j), FusedWrites(L, w, j), {})
    [] L.kernel = "reduce_vector_parcol_compact" ->
         Uses({Glob(L.buf, i) : i \in ReduceMine(L, w)}, {Glob(L.buf, Gid(L, w))}, {})
    [] L.kernel = "reduce_vector_parcol_inner" ->
         Uses(InnerReads(L, w, j), InnerWrites(L, w, j), {})
    [] L.kernel = "matrix_matrix" ->
         Uses({Glob(L.snd, Gid(L, w)), Glob(L.fst, Gid(L, w))}, {Glob(L.fst, Gid(L, w))}, {})
    [] L.kernel = "matrix_row_vector" ->
         Uses({MatrixCell(L, w), Glob(L.snd, Gid0(L, w))}, {MatrixCell(L, w)}, {})
    [] L.kernel = "copy" ->
         Uses({Glob(L.fst, i) : i \in 0 .. L.size - 1}, {Glob(L.snd, i) : i \in 0 .. L.size - 1},
              {})
    [] L.kernel = "fill" -> Uses({}, {Glob(L.fst, i) : i \in 0 .. L.size - 1}, {})

\* Local memory for n cells in argument b.
HasLocal(L, b, n) == b \in DOMAIN L.locals /\ L.locals[b] \in Nat /\ n <= L.locals[b]

\* The vectors of a launch are shared out evenly.
EvenShares(L) == \E k \in Nat : L.N = (L.vec * GlobalSize0(L)) * k

\* A launch over points in one dimension with room in buffers of sizes sz.
FitsOnce(L, sz) ==
  \/ L.kernel = "histogram_global" /\ L.out = "masses" /\ Room(sz, "masses", L.C)
  \/ /\ L.kernel = "histogram_part_global" /\ L.out = "tmp_masses"
     /\ Room(sz, "tmp_masses", L.C * L.groups)
  \/ /\ L.kernel = "histogram_part_local" /\ L.out = "tmp_masses"
     /\ Room(sz, "tmp_masses", L.C * L.groups) /\ HasLocal(L, "l_bins", L.C)
  \/ /\ L.kernel = "histogram_part_private" /\ L.out = "tmp_masses"
     /\ Room(sz, "tmp_masses", L.C * (L.groups * L.local))
     /\ HasLocal(L, "local_buf", L.local * L.C)
  \/ /\ L.kernel = "lloyd_labeling_vp_clcp" /\ EvenGroups(L)
     /\ Room(sz, "ro_centroids", L.C * L.F) /\ HasLocal(L, "l_points", L.local * L.F)
  \/ /\ L.kernel = "lloyd_cluster_merge" /\ L.out = "tmp_centroids"
     /\ Room(sz, "tmp_centroids", (L.C * L.F) * (L.groups * L.local))
     /\ HasLocal(L, "l_centroids", L.local * (L.C * L.F))
  \/ /\ L.kernel = "lloyd_feature_sum" /\ L.out = "tmp_centroids" /\ SumShape(L)
     /\ Room(sz, "tmp_centroids", L.C * (L.groups * L.local))
  \/ /\ L.kernel = "lloyd_fused_cluster_merge" /\ L.out = "tmp_new_centroids"
     /\ Room(sz, "ro_centroids", L.C * L.F) /\ Room(sz, "new_masses", L.C * (L.groups * L.local))
     /\ Room(sz, "tmp_new_centroids", (L.C * L.F) * (L.groups * L.local))
     /\ HasLocal(L, "l_centroids", L.local * (L.C * L.F)) /\ HasLocal(L, "l_masses", L.local * L.C)
     /\ HasLocal(L, "l_points", L.local * L.F)
  \/ /\ L.kernel = "lloyd_fused_feature_sum" /\ L.out = "tmp_new_centroids" /\ FusedShape(L)
     /\ Room(sz, "ro_centroids", L.C * L.F) /\ Room(sz, "new_masses", L.C * (L.groups * L.local))
     /\ Room(sz, "tmp_new_centroids", (L.C * L.F) * (L.groups * TileBlocks(L)))
     /\ HasLocal(L, "l_centroids", TileBlocks(L) * L.F * L.C)
     /\ HasLocal(L, "l_masses", L.local * L.C)
     /\ HasLocal(L, "l_points", L.local * L.F) /\ HasLocal(L, "l_labels", L.local * 1)

\* The buffers that lloyd_feature_sum_pardim needs,
FitsPardim(L, sz) ==
  /\ L.kernel = "lloyd_feature_sum_pardim" /\ L.out = "tmp_centroids" /\ TileShape(L)
  /\ EvenShares(L)
  /\ Room(sz, "tmp_centroids", (L.C * L.tf) * (L.cols * GlobalSize0(L)))
  /\ HasLocal(L, "l_centroids", L.local * (L.C * L.tf))

\* the reductions,
FitsReduce(L, sz) ==
  /\ ReduceLike(L) /\ GlobalName(L, L.buf)
  /\ \/ /\ L.kernel = "reduce_vector_parcol_compact" /\ L.groups * L.local <= L.size
        /\ Room(sz, L.buf, L.size)
     \/ /\ L.kernel = "reduce_vector_parcol_inner" /\ L.groups = 1
        /\ Room(sz, L.buf, 2 * L.local) /\ Room(sz, L.buf, L.rows)
        /\ HasLocal(L, "l_data", 2 * L.local) /\ HasLocal(L, "l_data", L.rows)

\* the kernels over matrices,
FitsCells(L, sz) ==
  /\ CellsLike(L) /\ GlobalName(L, L.fst) /\ GlobalName(L, L.snd)
  /\ Room(sz, L.fst, L.rows * L.cols)
  /\ \/ L.kernel = "matrix_matrix" /\ Room(sz, L.snd, L.rows * L.cols)
     \/ L.kernel = "matrix_row_vector" /\ Room(sz, L.snd, L.rows)

\* the fills and the copies.
FitsCommand(L, sz) ==
  /\ CommandLike(L) /\ GlobalName(L, L.fst) /\ GlobalName(L, L.snd)
  /\ \/ L.kernel = "copy" /\ Room(sz, L.fst, L.size) /\ Room(sz, L.snd, L.size)
     \/ L.kernel = "fill" /\ Room(sz, L.fst, L.size)

\* A launch that the buffers of sizes sz have room for, with c clusters.
Fits(L, sz, c) ==
  \/ PointsLaunch(L) /\ L.C = c /\ Linear(L) /\ FitsOnce(L, sz)
  \/ PointsLaunch(L) /\ L.C = c /\ FitsPardim(L, sz)
  \/ FitsReduce(L, sz)
  \/ FitsCells(L, sz)
  \/ FitsCommand(L, sz)

\* What an interval does to memory of c clusters.
Keeps(e, c) ==
  /\ \A a \in DOMAIN e.writes :
       e.writes[a] \in Int /\ (a[1] = "labels" => e.writes[a] \in 0 .. c - 1)
  /\ \A a \in DOMAIN e.adds : e.adds[a] \in Int /\ a[1] # "labels"

\* An interval keeps to a footprint.
Uses3(e, f) == Touches(e, f.reads, f.writes, f.adds)

\* What a kernel over points does to memory is fit for its own number of clusters.
LEMMA KeepsPoints ==
  ASSUME NEW L, NEW e, EffectOK(L, e)
  PROVE  Keeps(e, L.C)
BY DEF EffectOK, WritesOK, Keeps, Clusters

\* What writes no label is fit for any number of clusters.
LEMMA KeepsOthers ==
  ASSUME NEW L, NEW e, EffectOK(L, e), \A a \in DOMAIN e.writes : a[1] # "labels", NEW c
  PROVE  Keeps(e, c)
BY DEF EffectOK, WritesOK, Keeps

\* Kernels of one dimension over points keep to their footprints,
LEMMA FootOnce ==
  ASSUME NEW L, NEW sz, PointsLaunch(L), Linear(L), FitsOnce(L, sz),
         NEW w \in Items(L), NEW j \in Nat, j < Intervals(L, w), NEW m, MemFor(L, m)
  PROVE  LET e == Interval(L, w, j, m) IN EffectOK(L, e) /\ Uses3(e, Foot(L, w, j))
<1> DEFINE e == Interval(L, w, j, m)
<1> DEFINE f == Foot(L, w, j)
<1>1. CASE L.kernel = "histogram_global"
  <2>1. f = Uses(LabelCells(L), {}, Chunk("masses", L.C, 0))
    BY <1>1, Zenon DEF Foot
  <2>2. L.out = "masses"
    BY <1>1 DEF FitsOnce
  <2>3. EffectOK(L, e) /\ Touches(e, LabelCells(L), {}, Chunk("masses", L.C, 0))
    BY <1>1, <2>2, FootHistogramGlobal
  <2> HIDE DEF e, f
  <2>4. QED
    BY <2>1, <2>3 DEF Uses, Uses3, e, f
<1>2. CASE L.kernel = "histogram_part_global"
  <2>1. /\ j = 0 => f = Uses({}, BinShare(L, w), {})
        /\ j # 0 => f = Uses(LabelCells(L), {}, Chunk("tmp_masses", L.C, w[1]))
    BY <1>2, Zenon DEF Foot
  <2>2. L.out = "tmp_masses"
    BY <1>2 DEF FitsOnce
  <2>3. /\ EffectOK(L, e)
        /\ j = 0 => Touches(e, {}, BinShare(L, w), {})
        /\ j # 0 => Touches(e, LabelCells(L), {}, Chunk("tmp_masses", L.C, w[1]))
    BY <1>2, <2>2, FootHistogramPartGlobal
  <2> HIDE DEF e, f
  <2>4. QED
    BY <2>1, <2>3 DEF Uses, Uses3, e, f
<1>3. CASE L.kernel = "histogram_part_local"
  <2>1. /\ j = 0 => f = Uses({}, LocalShare(L, w), {})
        /\ j = 1 => f = Uses(LabelCells(L), {}, LocalBins(L, w))
        /\ j = 2 => f = Uses(LocalShare(L, w), BinShare(L, w), {})
    BY <1>3, 1 # 0, 2 # 0, 2 # 1, Zenon DEF Foot
  <2>2. L.out = "tmp_masses"
    BY <1>3 DEF FitsOnce
  <2>3. Intervals(L, w) = 3
    BY <1>3, Zenon DEF Intervals
  <2>4. j \in 0 .. 2 /\ (j = 0 \/ j = 1 \/ j = 2)
    BY <2>3
  <2>5. /\ EffectOK(L, e)
        /\ j = 0 => Touches(e, {}, LocalShare(L, w), {})
        /\ j = 1 => Touches(e, LabelCells(L), {}, LocalBins(L, w))
        /\ j = 2 => Touches(e, LocalShare(L, w), BinShare(L, w), {})
    BY <1>3, <2>2, <2>4, FootHistogramPartLocal
  <2> HIDE DEF e, f
  <2>6. QED
    BY <2>1, <2>4, <2>5 DEF Uses, Uses3, e, f
<1>4. CASE L.kernel = "histogram_part_private"
  <2>1. f = Uses(LabelCells(L),
                 Chunk("tmp_masses", L.C, Gid(L, w)) \cup Strided(L, w, "local_buf", L.C), {})
    BY <1>4, Zenon DEF Foot
  <2>2. L.out = "tmp_masses"
    BY <1>4 DEF FitsOnce
  <2>3. EffectOK(L, e) /\ Touches(e, LabelCells(L), Chunk("tmp_masses", L.C, Gid(L, w))
                                                      \cup Strided(L, w, "local_buf", L.C), {})
    BY <1>4, <2>2, FootHistogramPartPrivate
  <2> HIDE DEF e, f
  <2>4. QED
    BY <2>1, <2>3 DEF Uses, Uses3, e, f
<1>5. CASE L.kernel = "lloyd_labeling_vp_clcp"
  <2>1. f = Uses(PointCells(L) \cup CentroidReads(L),
                 LabelReads(L, Lanes(L, w)) \cup Strided(L, w, "l_points", L.F), {})
    BY <1>5, Zenon DEF Foot
  <2>2. EffectOK(L, e) /\ Touches(e, PointCells(L) \cup CentroidReads(L),
                                  LabelReads(L, Lanes(L, w))
                                    \cup Strided(L, w, "l_points", L.F), {})
    BY <1>5, FootLabeling
  <2> HIDE DEF e, f
  <2>3. QED
    BY <2>1, <2>2 DEF Uses, Uses3, e, f
<1>6. CASE L.kernel = "lloyd_cluster_merge"
  <2>1. f = Uses(LabelCells(L) \cup PointCells(L) \cup OwnSums(L, w), OwnSums(L, w), {})
    BY <1>6, Zenon DEF Foot
  <2>2. L.out = "tmp_centroids"
    BY <1>6 DEF FitsOnce
  <2>3. Intervals(L, w) \in {1, 3}
    BY <1>6, Zenon DEF Intervals
  <2>4. j \in 0 .. 2
    BY <2>3
  <2>5. EffectOK(L, e)
          /\ Touches(e, LabelCells(L) \cup PointCells(L) \cup OwnSums(L, w), OwnSums(L, w), {})
    BY <1>6, <2>2, <2>4, FootClusterMerge DEF OwnSums
  <2> HIDE DEF e, f
  <2>6. QED
    BY <2>1, <2>5 DEF Uses, Uses3, e, f
<1>7. CASE L.kernel = "lloyd_feature_sum"
  <2>1. f = Uses(LabelCells(L) \cup PointCells(L), Chunk("tmp_centroids", L.C, Gid(L, w)), {})
    BY <1>7, Zenon DEF Foot
  <2>2. L.out = "tmp_centroids" /\ SumShape(L)
    BY <1>7 DEF FitsOnce
  <2>3. EffectOK(L, e)
          /\ Touches(e, LabelCells(L) \cup PointCells(L), Chunk("tmp_centroids", L.C, Gid(L, w)),
                     {})
    BY <1>7, <2>2, FootFeatureSum
  <2> HIDE DEF e, f
  <2>4. QED
    BY <2>1, <2>3 DEF Uses, Uses3, e, f
<1>8. CASE L.kernel = "lloyd_fused_cluster_merge"
  <2>1. f = Uses(PointCells(L) \cup CentroidReads(L) \cup FusedOwn(L, w), FusedOwn(L, w), {})
    BY <1>8, Zenon DEF Foot
  <2>2. L.out = "tmp_new_centroids"
    BY <1>8 DEF FitsOnce
  <2>3. Intervals(L, w) \in {1, 2}
    BY <1>8, Zenon DEF Intervals
  <2>4. j \in 0 .. 1
    BY <2>3
  <2>5. EffectOK(L, e)
          /\ Touches(e, PointCells(L) \cup CentroidReads(L) \cup FusedOwn(L, w), FusedOwn(L, w), {})
    BY <1>8, <2>2, <2>4, FootFusedClusterMerge
  <2> HIDE DEF e, f
  <2>6. QED
    BY <2>1, <2>5 DEF Uses, Uses3, e, f
<1>9. CASE L.kernel = "lloyd_fused_feature_sum"
  <2>1. f = Uses(FusedReads(L, w, j), FusedWrites(L, w, j), {})
    BY <1>9, Zenon DEF Foot
  <2>2. L.out = "tmp_new_centroids" /\ FusedShape(L)
    BY <1>9 DEF FitsOnce
  <2>3. EffectOK(L, e) /\ Touches(e, FusedReads(L, w, j), FusedWrites(L, w, j), {})
    BY <1>9, <2>2, FootFusedFeatureSum
  <2> HIDE DEF e, f
  <2>4. QED
    BY <2>1, <2>3 DEF Uses, Uses3, e, f
<1>10. QED
  BY <1>1, <1>2, <1>3, <1>4, <1>5, <1>6, <1>7, <1>8, <1>9 DEF FitsOnce

\* and so does lloyd_feature_sum_pardim,
LEMMA FootTiles ==
  ASSUME NEW L, NEW sz, PointsLaunch(L), FitsPardim(L, sz),
         NEW w \in Items(L), NEW j \in Nat, j < Intervals(L, w), NEW m, MemFor(L, m)
  PROVE  LET e == Interval(L, w, j, m) IN EffectOK(L, e) /\ Uses3(e, Foot(L, w, j))
<1> DEFINE e == Interval(L, w, j, m)
<1> DEFINE f == Foot(L, w, j)
<1>1. L.kernel = "lloyd_feature_sum_pardim" /\ L.out = "tmp_centroids" /\ TileShape(L)
  BY DEF FitsPardim
<1>2. f = Uses(LabelCells(L) \cup PointCells(L) \cup OwnTile(L, w), OwnTile(L, w), {})
  BY <1>1, Zenon DEF Foot
<1>3. Intervals(L, w) = Cardinality(Starts(L, w)) + 1
  BY <1>1, Zenon DEF Intervals
<1>4. Cardinality(Starts(L, w)) \in Nat
  <2>1. Starts(L, w) \subseteq 0 .. L.N /\ L.N \in Int /\ 0 \in Int
    BY StartsIn DEF PointsLaunch, Striped
  <2>2. QED
    BY <2>1, FS_Interval, FS_Subset, FS_CardinalityType
<1>5. j \in 0 .. Cardinality(Starts(L, w))
  BY <1>3, <1>4
<1>6. EffectOK(L, e)
        /\ Touches(e, LabelCells(L) \cup PointCells(L) \cup OwnTile(L, w), OwnTile(L, w), {})
  BY <1>1, <1>5, FootPardim DEF OwnTile
<1> HIDE DEF e, f
<1>7. QED
  BY <1>2, <1>6 DEF Uses, Uses3, e, f

\* the reductions,
LEMMA FootReduce ==
  ASSUME NEW L, NEW sz, FitsReduce(L, sz), NEW w \in Items(L), NEW j \in Nat, NEW m, MemOK(m), NEW c
  PROVE  LET e == Interval(L, w, j, m) IN Keeps(e, c) /\ Uses3(e, Foot(L, w, j))
<1> DEFINE e == Interval(L, w, j, m)
<1> DEFINE f == Foot(L, w, j)
<1>1. ReduceLike(L) /\ L.buf # "labels" /\ GlobalName(L, L.buf)
  BY DEF FitsReduce, ReduceLike
<1>2. CASE L.kernel = "reduce_vector_parcol_compact"
  <2> DEFINE R == {Glob(L.buf, i) : i \in ReduceMine(L, w)}
  <2> DEFINE W == {Glob(L.buf, Gid(L, w))}
  <2>1. f = Uses(R, W, {})
    BY <1>2, Zenon DEF Foot
  <2>2. EffectOK(L, e) /\ Touches(e, R, W, {})
    BY <1>1, <1>2, FootReduceCompact
  <2>3. \A a \in W : a[1] # "labels"
    BY <1>1 DEF Glob
  <2> HIDE DEF e, f, R, W
  <2>4. \A a \in DOMAIN e.writes : a[1] # "labels"
    BY <2>2, <2>3 DEF Touches
  <2>5. Keeps(e, c)
    BY <2>2, <2>4, KeepsOthers
  <2>6. QED
    BY <2>1, <2>2, <2>5 DEF Uses, Uses3, e, f
<1>3. CASE L.kernel = "reduce_vector_parcol_inner"
  <2> DEFINE R == InnerReads(L, w, j)
  <2> DEFINE W == InnerWrites(L, w, j)
  <2>1. f = Uses(R, W, {})
    BY <1>3, Zenon DEF Foot
  <2>2. EffectOK(L, e) /\ Touches(e, R, W, {})
    BY <1>1, <1>3, FootReduceInner
  <2>3. \A a \in W : a[1] # "labels"
    BY <1>1 DEF Glob, Loc, InnerWrites, InnerShare, InnerStores, InnerAdds
  <2> HIDE DEF e, f, R, W
  <2>4. \A a \in DOMAIN e.writes : a[1] # "labels"
    BY <2>2, <2>3 DEF Touches
  <2>5. Keeps(e, c)
    BY <2>2, <2>4, KeepsOthers
  <2>6. QED
    BY <2>1, <2>2, <2>5 DEF Uses, Uses3, e, f
<1>4. QED
  BY <1>2, <1>3 DEF FitsReduce

\* the kernels over matrices,
LEMMA FootCells ==
  ASSUME NEW L, NEW sz, FitsCells(L, sz), NEW w \in Items(L), NEW j \in Nat, NEW m, MemOK(m), NEW c
  PROVE  LET e == Interval(L, w, j, m) IN Keeps(e, c) /\ Uses3(e, Foot(L, w, j))
<1> DEFINE e == Interval(L, w, j, m)
<1> DEFINE f == Foot(L, w, j)
<1>1. CellsLike(L) /\ L.fst # "labels"
  BY DEF FitsCells, CellsLike
<1>2. CASE L.kernel = "matrix_matrix"
  <2> DEFINE R == {Glob(L.snd, Gid(L, w)), Glob(L.fst, Gid(L, w))}
  <2> DEFINE W == {Glob(L.fst, Gid(L, w))}
  <2>1. f = Uses(R, W, {})
    BY <1>2, Zenon DEF Foot
  <2>2. EffectOK(L, e) /\ Touches(e, R, W, {})
    BY <1>1, <1>2, FootMatrixMatrix
  <2>3. \A a \in W : a[1] # "labels"
    BY <1>1 DEF Glob
  <2> HIDE DEF e, f, R, W
  <2>4. \A a \in DOMAIN e.writes : a[1] # "labels"
    BY <2>2, <2>3 DEF Touches
  <2>5. Keeps(e, c)
    BY <2>2, <2>4, KeepsOthers
  <2>6. QED
    BY <2>1, <2>2, <2>5 DEF Uses, Uses3, e, f
<1>3. CASE L.kernel = "matrix_row_vector"
  <2> DEFINE R == {MatrixCell(L, w), Glob(L.snd, Gid0(L, w))}
  <2> DEFINE W == {MatrixCell(L, w)}
  <2>1. f = Uses(R, W, {})
    BY <1>3, Zenon DEF Foot
  <2>2. EffectOK(L, e) /\ Touches(e, R, W, {})
    BY <1>1, <1>3, FootMatrixRowVector
  <2>3. \A a \in W : a[1] # "labels"
    BY <1>1 DEF Glob, MatrixCell
  <2> HIDE DEF e, f, R, W
  <2>4. \A a \in DOMAIN e.writes : a[1] # "labels"
    BY <2>2, <2>3 DEF Touches
  <2>5. Keeps(e, c)
    BY <2>2, <2>4, KeepsOthers
  <2>6. QED
    BY <2>1, <2>2, <2>5 DEF Uses, Uses3, e, f
<1>4. QED
  BY <1>2, <1>3 DEF FitsCells

\* the fills and the copies.
LEMMA FootCommand ==
  ASSUME NEW L, NEW sz, FitsCommand(L, sz), NEW w \in Items(L), NEW j \in Nat, NEW m, MemOK(m),
         NEW c
  PROVE  LET e == Interval(L, w, j, m) IN Keeps(e, c) /\ Uses3(e, Foot(L, w, j))
<1> DEFINE e == Interval(L, w, j, m)
<1> DEFINE f == Foot(L, w, j)
<1>1. CommandLike(L) /\ L.fst # "labels" /\ L.snd # "labels"
  BY DEF FitsCommand, CommandLike
<1> DEFINE F == {Glob(L.fst, i) : i \in 0 .. L.size - 1}
<1> DEFINE S == {Glob(L.snd, i) : i \in 0 .. L.size - 1}
<1>2. (\A a \in F : a[1] # "labels") /\ \A a \in S : a[1] # "labels"
  BY <1>1 DEF Glob
<1>3. CASE L.kernel = "copy"
  <2>1. f = Uses(F, S, {})
    BY <1>3, Zenon DEF Foot
  <2>2. EffectOK(L, e) /\ Touches(e, F, S, {})
    BY <1>1, <1>3, FootCopy
  <2> HIDE DEF e, f, F, S
  <2>4. \A a \in DOMAIN e.writes : a[1] # "labels"
    BY <2>2, <1>2 DEF Touches
  <2>5. Keeps(e, c)
    BY <2>2, <2>4, KeepsOthers
  <2>6. QED
    BY <2>1, <2>2, <2>5 DEF Uses, Uses3, e, f
<1>4. CASE L.kernel = "fill"
  <2>1. f = Uses({}, F, {})
    BY <1>4, Zenon DEF Foot
  <2>2. EffectOK(L, e) /\ Touches(e, {}, F, {})
    BY <1>1, <1>4, FootFill
  <2> HIDE DEF e, f, F, S
  <2>4. \A a \in DOMAIN e.writes : a[1] # "labels"
    BY <2>2, <1>2 DEF Touches
  <2>5. Keeps(e, c)
    BY <2>2, <2>4, KeepsOthers
  <2>6. QED
    BY <2>1, <2>2, <2>5 DEF Uses, Uses3, e, f
<1>5. QED
  BY <1>3, <1>4 DEF FitsCommand

\* Every interval keeps to the cells of its kernel and to whole numbers.
LEMMA FootHolds ==
  ASSUME NEW L, NEW sz, NEW c, Fits(L, sz, c), NEW w \in Items(L),
         NEW j \in Nat, j < Intervals(L, w),
         NEW m, MemFor(L, m)
  PROVE  LET e == Interval(L, w, j, m) IN Keeps(e, c) /\ Uses3(e, Foot(L, w, j))
<1> DEFINE e == Interval(L, w, j, m)
<1>1. MemOK(m)
  BY DEF MemFor
<1>2. CASE PointsLaunch(L) /\ L.C = c /\ ((Linear(L) /\ FitsOnce(L, sz)) \/ FitsPardim(L, sz))
  <2>1. EffectOK(L, e) /\ Uses3(e, Foot(L, w, j))
    BY <1>2, FootOnce, FootTiles
  <2>2. Keeps(e, c)
    BY <1>2, <2>1, KeepsPoints
  <2>3. QED
    BY <2>1, <2>2
<1>3. CASE FitsReduce(L, sz)
  BY <1>1, <1>3, FootReduce
<1>4. CASE FitsCells(L, sz)
  BY <1>1, <1>4, FootCells
<1>5. CASE FitsCommand(L, sz)
  BY <1>1, <1>5, FootCommand
<1>6. QED
  BY <1>2, <1>3, <1>4, <1>5 DEF Fits

-----------------------------------------------------------------------------
(***************************************************************************)
(* Bounds                                                                  *)
(***************************************************************************)
AllWithin(L, sz, S) == \A a \in S : Within(L, sz, a)

\* Cells of local memory.
LEMMA LocalWithin ==
  ASSUME NEW L, NEW sz, NEW b, NEW n \in Nat, HasLocal(L, b, n), NEW i \in 0 .. n - 1, NEW w
  PROVE  Within(L, sz, Loc(w, b, i))
BY DEF Within, HasLocal, Loc, GlobalName

\* Cells of global memory.
LEMMA GlobalWithin ==
  ASSUME NEW L, NEW sz, Sized(sz), NEW b, GlobalName(L, b), NEW n \in Nat, Room(sz, b, n),
         NEW i \in 0 .. n - 1
  PROVE  Within(L, sz, Glob(b, i))
BY DEF Within, Room, Sized, Glob, GlobalName

\* The buffers of the phases are in global memory.
LEMMA GlobalNames ==
  ASSUME NEW L, PointsLaunch(L)
  PROVE  \A b \in {"masses", "ro_centroids", "tmp_masses", "tmp_centroids", "tmp_new_centroids",
                   "new_masses"} :
           GlobalName(L, b)
BY DEF PointsLaunch, GlobalName

\* Chunks of a buffer with room for all of them.
LEMMA ChunkIsWithin ==
  ASSUME NEW L, NEW sz, Sized(sz), NEW b, GlobalName(L, b), NEW n \in Nat, NEW g \in Nat,
         NEW k \in 0 .. g - 1, Room(sz, b, n * g)
  PROVE  AllWithin(L, sz, Chunk(b, n, k))
BY ChunkWithin DEF AllWithin

\* The items' cells of an argument with room for all of them.
LEMMA StridedIsWithin ==
  ASSUME NEW L, NEW sz, L.local \in Nat \ {0}, NEW w \in Items(L), NEW b,
         NEW n \in Nat, HasLocal(L, b, L.local * n)
  PROVE  AllWithin(L, sz, Strided(L, w, b, n))
<1>1. w[2] \in 0 .. L.local - 1
  BY DEF Items
<1>2. b \in DOMAIN L.locals /\ L.locals[b] \in Nat /\ L.local * n <= L.locals[b]
  BY DEF HasLocal
<1>3. QED
  BY <1>1, <1>2, StridedWithin DEF AllWithin

\* The labels and points of a kernel.
LEMMA BlockWithin ==
  ASSUME NEW L, NEW sz, PointsLaunch(L), NEW w \in Items(L)
  PROVE  /\ AllWithin(L, sz, LabelCells(L) \cup PointCells(L))
         /\ AllWithin(L, sz, LabelReads(L, Lanes(L, w)))
<1>1. L.N \in Nat /\ L.F \in Nat /\ L.dims = L.F /\ DOMAIN L.locals \cap {"labels", "points"} = {}
  BY DEF PointsLaunch, Striped
<1>2. AllWithin(L, sz, LabelCells(L) \cup PointCells(L))
  BY <1>1, PointCellsWithin DEF AllWithin
<1>3. LabelReads(L, Lanes(L, w)) \subseteq LabelCells(L)
  BY LanesIn, LabelReadsIn
<1>4. QED
  BY <1>2, <1>3 DEF AllWithin

\* The centroids that a kernel reads.
LEMMA CentroidsWithin ==
  ASSUME NEW L, NEW sz, Sized(sz), PointsLaunch(L), Room(sz, "ro_centroids", L.C * L.F)
  PROVE  AllWithin(L, sz, CentroidReads(L))
<1>1. L.C * L.F \in Nat
  BY DEF PointsLaunch
<1>2. GlobalName(L, "ro_centroids")
  BY GlobalNames
<1>3. QED
  BY <1>1, <1>2, GlobalWithin DEF AllWithin, CentroidReads

\* The bins that a group keeps in local memory.
LEMMA BinsWithin ==
  ASSUME NEW L, NEW sz, PointsLaunch(L), NEW w \in Items(L), HasLocal(L, "l_bins", L.C)
  PROVE  AllWithin(L, sz, LocalShare(L, w)) /\ AllWithin(L, sz, LocalBins(L, w))
<1>1. L.C \in Nat
  BY DEF PointsLaunch
<1>2. \A i \in 0 .. L.C - 1 : Within(L, sz, Loc(w, "l_bins", i))
  BY <1>1, LocalWithin
<1>3. QED
  BY <1>2 DEF AllWithin, LocalShare, LocalBins, ShareOfBins, Clusters

-----------------------------------------------------------------------------
(***************************************************************************)
(* Bounds of the fused feature sum                                         *)
(***************************************************************************)
\* The sums of tiles in local memory.
LEMMA TileCellIn ==
  ASSUME NEW L, PointsLaunch(L), FusedShape(L), NEW w \in Items(L),
         NEW x \in Clusters(L) \X TileFeatures(L, w)
  PROVE  LET i == L.F * TileBlocks(L) * x[1] + L.F * TileOf(L, w) + x[2]
         IN  i \in 0 .. TileBlocks(L) * L.F * L.C - 1
<1> DEFINE B == TileBlocks(L)
<1> DEFINE t == TileOf(L, w)
<1> DEFINE F == L.F
<1> DEFINE c == x[1]
<1> DEFINE f == x[2]
<1>1. t \in 0 .. B - 1
  BY TileTyped
<1>2. B \in Nat \ {0} /\ F \in Nat \ {0} /\ L.C \in Nat \ {0}
  BY DEF PointsLaunch, FusedShape
<1>3. c \in 0 .. L.C - 1 /\ f \in 0 .. F - 1
  BY DEF Clusters, TileFeatures, Features
<1> HIDE DEF B, t, F, c, f
<1> DEFINE y == F * t + f
<1>4. y \in Nat /\ y < F * B
  BY <1>1, <1>2, <1>3, ChunkIndex
<1> DEFINE n == F * B
<1>5. n \in Nat /\ y \in 0 .. n - 1
  BY <1>2, <1>4
<1>6. n * c + y = F * B * c + F * t + f
  BY <1>1, <1>2, <1>3
<1>7. B * F * L.C = n * L.C
  BY <1>2
<1> HIDE DEF y, n
<1>8. n * c + y \in Nat /\ n * c + y < n * L.C
  BY <1>2, <1>3, <1>5, ChunkIndex
<1>9. n * L.C \in Nat
  BY <1>2, <1>5
<1> DEFINE z == n * c + y
<1> DEFINE k == n * L.C
<1>10. z \in Nat /\ k \in Nat /\ z < k
  BY <1>8, <1>9
<1>11. z \in 0 .. k - 1
  <2> HIDE DEF z, k
  <2>1. QED
    BY <1>10
<1>12. QED
  BY <1>6, <1>7, <1>11 DEF B, t, F, c, f

\* What lloyd_fused_feature_sum keeps in local memory.
LEMMA FusedLocalsWithin ==
  ASSUME NEW L, NEW sz, PointsLaunch(L), FusedShape(L), NEW w \in Items(L),
         HasLocal(L, "l_centroids", TileBlocks(L) * L.F * L.C),
         HasLocal(L, "l_points", L.local * L.F), HasLocal(L, "l_labels", L.local * 1)
  PROVE  /\ AllWithin(L, sz, TileLocal(L, w)) /\ AllWithin(L, sz, ZeroLocal(L, w))
         /\ AllWithin(L, sz, GroupLabels(L, w)) /\ AllWithin(L, sz, GroupPoints(L, w))
<1> DEFINE n == TileBlocks(L) * L.F * L.C
<1>1. n \in Nat /\ L.local * L.F \in Nat /\ L.local \in Nat /\ L.local * 1 = L.local
  BY DEF PointsLaunch, FusedShape
<1>2. \A x \in Clusters(L) \X TileFeatures(L, w) :
        L.F * TileBlocks(L) * x[1] + L.F * TileOf(L, w) + x[2] \in 0 .. n - 1
  BY TileCellIn
<1> HIDE DEF n
<1>3. \A i \in 0 .. n - 1 : Within(L, sz, Loc(w, "l_centroids", i))
  BY <1>1, LocalWithin DEF n
<1>4. AllWithin(L, sz, TileLocal(L, w))
  BY <1>2, <1>3 DEF AllWithin, TileLocal, TileCell
<1>5. AllWithin(L, sz, ZeroLocal(L, w))
  BY <1>3 DEF AllWithin, ZeroLocal, n
<1>6. AllWithin(L, sz, GroupLabels(L, w))
  BY <1>1, LocalWithin DEF AllWithin, GroupLabels
<1>7. AllWithin(L, sz, GroupPoints(L, w))
  BY <1>1, LocalWithin DEF AllWithin, GroupPoints
<1>8. QED
  BY <1>4, <1>5, <1>6, <1>7

\* The number of a tile among those of all groups.
LEMMA TileRank ==
  ASSUME NEW L, PointsLaunch(L), FusedShape(L), NEW w \in Items(L)
  PROVE  w[1] * TileBlocks(L) + TileOf(L, w) \in 0 .. L.groups * TileBlocks(L) - 1
<1> DEFINE B == TileBlocks(L)
<1> DEFINE t == TileOf(L, w)
<1>1. t \in 0 .. B - 1
  BY TileTyped
<1>2. B \in Nat \ {0} /\ L.groups \in Nat \ {0} /\ w[1] \in 0 .. L.groups - 1
  BY DEF PointsLaunch, FusedShape, Items
<1> HIDE DEF B, t
<1>3. B * w[1] + t \in Nat /\ B * w[1] + t < B * L.groups
  BY <1>1, <1>2, ChunkIndex
<1>4. B * w[1] = w[1] * B /\ B * L.groups = L.groups * B
  BY <1>2
<1> DEFINE x == B * w[1] + t
<1> DEFINE y == B * L.groups
<1>5. x \in Nat /\ y \in Nat /\ x < y
  BY <1>2, <1>3
<1> HIDE DEF x, y
<1>6. x \in 0 .. y - 1
  BY <1>5
<1>7. QED
  BY <1>4, <1>6 DEF B, t, x, y

\* A footprint is inside of the buffers.
Bounded(L, sz, f) ==
  AllWithin(L, sz, f.reads) /\ AllWithin(L, sz, f.writes) /\ AllWithin(L, sz, f.adds)

\* A footprint whose parts are inside of their buffers.
LEMMA UsesBounded ==
  ASSUME NEW L, NEW sz, NEW R, NEW W, NEW A,
         AllWithin(L, sz, R), AllWithin(L, sz, W), AllWithin(L, sz, A)
  PROVE  Bounded(L, sz, Uses(R, W, A))
BY DEF Bounded, Uses

\* Cells of two sets.
LEMMA WithinUnion ==
  ASSUME NEW L, NEW sz, NEW S, NEW T, AllWithin(L, sz, S), AllWithin(L, sz, T)
  PROVE  AllWithin(L, sz, S \cup T)
BY DEF AllWithin

\* No cells at all.
LEMMA NothingWithin ==
  ASSUME NEW L, NEW sz
  PROVE  AllWithin(L, sz, {})
BY DEF AllWithin

\* What an item of the fused feature sum uses.
LEMMA FusedMineWithin ==
  ASSUME NEW L, NEW sz, Sized(sz), PointsLaunch(L), NEW w \in Items(L),
         Room(sz, "new_masses", L.C * (L.groups * L.local)), HasLocal(L, "l_masses", L.local * L.C),
         HasLocal(L, "l_points", L.local * L.F), HasLocal(L, "l_labels", L.local * 1)
  PROVE  AllWithin(L, sz, FusedMine(L, w))
<1>1. AllWithin(L, sz, LabelReads(L, Lanes(L, w)))
  BY BlockWithin
<1>2. /\ L.C \in Nat /\ L.F \in Nat /\ 1 \in Nat /\ L.local \in Nat \ {0} /\ L.groups \in Nat \ {0}
      /\ L.groups * L.local \in Nat
  BY DEF PointsLaunch
<1>3. AllWithin(L, sz, Chunk("new_masses", L.C, Gid(L, w)))
  BY <1>2, GidTyped, GlobalNames, ChunkIsWithin
<1>4. /\ AllWithin(L, sz, Strided(L, w, "l_masses", L.C))
      /\ AllWithin(L, sz, Strided(L, w, "l_points", L.F))
      /\ AllWithin(L, sz, Strided(L, w, "l_labels", 1))
  BY <1>2, StridedIsWithin
<1>5. QED
  BY <1>1, <1>3, <1>4 DEF FusedMine, AllWithin

\* What an item of lloyd_fused_cluster_merge keeps to itself.
LEMMA FusedOwnWithin ==
  ASSUME NEW L, NEW sz, Sized(sz), PointsLaunch(L), NEW w \in Items(L),
         Room(sz, "new_masses", L.C * (L.groups * L.local)), HasLocal(L, "l_masses", L.local * L.C),
         Room(sz, "tmp_new_centroids", (L.C * L.F) * (L.groups * L.local)),
         HasLocal(L, "l_centroids", L.local * (L.C * L.F)), HasLocal(L, "l_points", L.local * L.F)
  PROVE  AllWithin(L, sz, FusedOwn(L, w))
<1>1. AllWithin(L, sz, LabelReads(L, Lanes(L, w)))
  BY BlockWithin
<1>2. /\ L.C \in Nat /\ L.F \in Nat /\ L.C * L.F \in Nat /\ L.local \in Nat \ {0}
      /\ L.groups \in Nat \ {0}
      /\ L.groups * L.local \in Nat
  BY DEF PointsLaunch
<1>3. AllWithin(L, sz, Chunk("new_masses", L.C, Gid(L, w)))
  BY <1>2, GidTyped, GlobalNames, ChunkIsWithin
<1>4. AllWithin(L, sz, Chunk("tmp_new_centroids", L.C * L.F, Gid(L, w)))
  BY <1>2, GidTyped, GlobalNames, ChunkIsWithin
<1>5. /\ AllWithin(L, sz, Strided(L, w, "l_masses", L.C))
      /\ AllWithin(L, sz, Strided(L, w, "l_points", L.F))
      /\ AllWithin(L, sz, Strided(L, w, "l_centroids", L.C * L.F))
  BY <1>2, StridedIsWithin
<1>6. QED
  BY <1>1, <1>3, <1>4, <1>5 DEF FusedOwn, AllWithin

\* The footprint of lloyd_fused_feature_sum is inside of its buffers,
LEMMA FusedWithin ==
  ASSUME NEW L, NEW sz, Sized(sz), PointsLaunch(L), FusedShape(L), L.out = "tmp_new_centroids",
         NEW w \in Items(L), NEW j \in Nat,
         Room(sz, "ro_centroids", L.C * L.F), Room(sz, "new_masses", L.C * (L.groups * L.local)),
         Room(sz, "tmp_new_centroids", (L.C * L.F) * (L.groups * TileBlocks(L))),
         HasLocal(L, "l_centroids", TileBlocks(L) * L.F * L.C),
         HasLocal(L, "l_masses", L.local * L.C),
         HasLocal(L, "l_points", L.local * L.F), HasLocal(L, "l_labels", L.local * 1)
  PROVE  AllWithin(L, sz, FusedReads(L, w, j)) /\ AllWithin(L, sz, FusedWrites(L, w, j))
<1>1. AllWithin(L, sz, FusedMine(L, w))
  BY FusedMineWithin
<1>2. AllWithin(L, sz, LabelCells(L) \cup PointCells(L))
  BY BlockWithin
<1>3. AllWithin(L, sz, CentroidReads(L))
  BY CentroidsWithin
<1>4. /\ AllWithin(L, sz, TileLocal(L, w)) /\ AllWithin(L, sz, ZeroLocal(L, w))
      /\ AllWithin(L, sz, GroupLabels(L, w)) /\ AllWithin(L, sz, GroupPoints(L, w))
  BY FusedLocalsWithin
<1>5. AllWithin(L, sz, Chunk("tmp_new_centroids", L.C * L.F, w[1] * TileBlocks(L) + TileOf(L, w)))
  <2>1. L.C * L.F \in Nat /\ L.groups * TileBlocks(L) \in Nat
    BY DEF PointsLaunch, FusedShape
  <2>2. w[1] * TileBlocks(L) + TileOf(L, w) \in 0 .. L.groups * TileBlocks(L) - 1
    BY TileRank
  <2>3. GlobalName(L, "tmp_new_centroids")
    BY GlobalNames
  <2>4. QED
    BY <2>1, <2>2, <2>3, ChunkIsWithin
<1>6. AllWithin(L, sz, TileGlobal(L, w)) /\ AllWithin(L, sz, ZeroGlobal(L, w))
  BY <1>5, TileCellsIn DEF AllWithin
<1>7. AllWithin(L, sz, Tile(L, w))
  BY <1>4, <1>6 DEF Tile
<1>8. AllWithin(L, sz, FusedReads(L, w, j))
  <2> DEFINE R1 == FusedMine(L, w) \cup TileLocal(L, w)
  <2> DEFINE R2 == PointCells(L) \cup CentroidReads(L) \cup FusedMine(L, w)
  <2> DEFINE R3 == GroupLabels(L, w) \cup GroupPoints(L, w) \cup PointCells(L) \cup Tile(L, w)
  <2>1. AllWithin(L, sz, R1) /\ AllWithin(L, sz, R2) /\ AllWithin(L, sz, R3) /\ AllWithin(L, sz, {})
    BY <1>1, <1>2, <1>3, <1>4, <1>7 DEF AllWithin
  <2>2. FusedReads(L, w, j) \in {{}, R1, R2, R3}
    BY DEF FusedReads
  <2> HIDE DEF R1, R2, R3
  <2>3. QED
    BY <2>1, <2>2
<1>9. AllWithin(L, sz, FusedWrites(L, w, j))
  <2> DEFINE W1 == FusedMine(L, w) \cup (IF L.lmem THEN ZeroLocal(L, w) ELSE ZeroGlobal(L, w))
  <2> DEFINE W2 == FusedMine(L, w) \cup TileGlobal(L, w)
  <2>1. AllWithin(L, sz, W1) /\ AllWithin(L, sz, W2)
    BY <1>1, <1>4, <1>6 DEF AllWithin
  <2>2. FusedWrites(L, w, j) \in {W1, W2, FusedMine(L, w), Tile(L, w)}
    BY DEF FusedWrites
  <2> HIDE DEF W1, W2
  <2>3. QED
    BY <1>1, <1>7, <2>1, <2>2
<1>10. QED
  BY <1>8, <1>9

-----------------------------------------------------------------------------
(***************************************************************************)
(* Bounds of all kernels                                                   *)
(***************************************************************************)
\* that of all kernels of one dimension,
LEMMA OnceWithin ==
  ASSUME NEW L, NEW sz, Sized(sz), PointsLaunch(L), Linear(L), FitsOnce(L, sz),
         NEW w \in Items(L), NEW j \in Nat, j < Intervals(L, w)
  PROVE  Bounded(L, sz, Foot(L, w, j))
<1> DEFINE f == Foot(L, w, j)
<1>1. /\ L.C \in Nat /\ L.F \in Nat /\ L.C * L.F \in Nat /\ L.local \in Nat \ {0}
      /\ L.groups \in Nat \ {0} /\ L.groups * L.local \in Nat
  BY DEF PointsLaunch
<1>2. AllWithin(L, sz, LabelCells(L) \cup PointCells(L))
  BY BlockWithin
<1>3. AllWithin(L, sz, LabelCells(L)) /\ AllWithin(L, sz, PointCells(L))
      /\ AllWithin(L, sz, LabelReads(L, Lanes(L, w))) /\ AllWithin(L, sz, {})
  BY <1>2, BlockWithin DEF AllWithin
<1>4. Gid(L, w) \in 0 .. L.groups * L.local - 1
  BY <1>1, GidTyped
<1>5. GlobalName(L, "masses") /\ GlobalName(L, "tmp_masses") /\ GlobalName(L, "tmp_centroids")
  BY GlobalNames
<1>6. w[1] \in 0 .. L.groups - 1
  BY DEF Items
<1>7. CASE L.kernel = "histogram_global"
  <2>1. f = Uses(LabelCells(L), {}, Chunk("masses", L.C, 0))
    BY <1>7, Zenon DEF Foot
  <2>2. Room(sz, "masses", L.C * 1) /\ 1 \in Nat /\ 0 \in 0 .. 1 - 1
    BY <1>1, <1>7 DEF FitsOnce
  <2>3. AllWithin(L, sz, Chunk("masses", L.C, 0))
    BY <1>1, <1>5, <2>2, ChunkIsWithin
  <2> HIDE DEF f
  <2>4. QED
    BY <1>3, <2>1, <2>3, UsesBounded DEF f
<1>8. CASE L.kernel = "histogram_part_global"
  <2>1. /\ j = 0 => f = Uses({}, BinShare(L, w), {})
        /\ j # 0 => f = Uses(LabelCells(L), {}, Chunk("tmp_masses", L.C, w[1]))
    BY <1>8, Zenon DEF Foot
  <2>2. Room(sz, "tmp_masses", L.C * L.groups)
    BY <1>8 DEF FitsOnce
  <2>3. AllWithin(L, sz, Chunk("tmp_masses", L.C, w[1]))
    BY <1>1, <1>5, <1>6, <2>2, ChunkIsWithin
  <2>4. AllWithin(L, sz, BinShare(L, w))
    BY <2>3, BinShareIn DEF AllWithin
  <2> HIDE DEF f
  <2>5. QED
    BY <1>3, <2>1, <2>3, <2>4, UsesBounded DEF f
<1>9. CASE L.kernel = "histogram_part_local"
  <2>1. /\ j = 0 => f = Uses({}, LocalShare(L, w), {})
        /\ j = 1 => f = Uses(LabelCells(L), {}, LocalBins(L, w))
        /\ j = 2 => f = Uses(LocalShare(L, w), BinShare(L, w), {})
    BY <1>9, 1 # 0, 2 # 0, 2 # 1, Zenon DEF Foot
  <2>2. Room(sz, "tmp_masses", L.C * L.groups) /\ HasLocal(L, "l_bins", L.C)
    BY <1>9 DEF FitsOnce
  <2>3. AllWithin(L, sz, Chunk("tmp_masses", L.C, w[1]))
    BY <1>1, <1>5, <1>6, <2>2, ChunkIsWithin
  <2>4. AllWithin(L, sz, BinShare(L, w))
    BY <2>3, BinShareIn DEF AllWithin
  <2>5. AllWithin(L, sz, LocalShare(L, w)) /\ AllWithin(L, sz, LocalBins(L, w))
    BY <2>2, BinsWithin
  <2>6. Intervals(L, w) = 3
    BY <1>9, Zenon DEF Intervals
  <2>7. j = 0 \/ j = 1 \/ j = 2
    BY <2>6
  <2> HIDE DEF f
  <2>8. QED
    BY <1>3, <2>1, <2>4, <2>5, <2>7, UsesBounded DEF f
<1>10. CASE L.kernel = "histogram_part_private"
  <2> DEFINE W == Chunk("tmp_masses", L.C, Gid(L, w)) \cup Strided(L, w, "local_buf", L.C)
  <2>1. f = Uses(LabelCells(L), W, {})
    BY <1>10, Zenon DEF Foot
  <2>2. Room(sz, "tmp_masses", L.C * (L.groups * L.local))
          /\ HasLocal(L, "local_buf", L.local * L.C)
    BY <1>10 DEF FitsOnce
  <2>3. AllWithin(L, sz, Chunk("tmp_masses", L.C, Gid(L, w)))
          /\ AllWithin(L, sz, Strided(L, w, "local_buf", L.C))
    BY <1>1, <1>4, <1>5, <2>2, ChunkIsWithin, StridedIsWithin
  <2>4. AllWithin(L, sz, W)
    BY <2>3, WithinUnion
  <2> HIDE DEF f, W
  <2>5. QED
    BY <1>3, <2>1, <2>4, UsesBounded DEF f
<1>11. CASE L.kernel = "lloyd_labeling_vp_clcp"
  <2> DEFINE R == PointCells(L) \cup CentroidReads(L)
  <2> DEFINE W == LabelReads(L, Lanes(L, w)) \cup Strided(L, w, "l_points", L.F)
  <2>1. f = Uses(R, W, {})
    BY <1>11, Zenon DEF Foot
  <2>2. Room(sz, "ro_centroids", L.C * L.F) /\ HasLocal(L, "l_points", L.local * L.F)
    BY <1>11 DEF FitsOnce
  <2>3. AllWithin(L, sz, CentroidReads(L)) /\ AllWithin(L, sz, Strided(L, w, "l_points", L.F))
    BY <1>1, <2>2, CentroidsWithin, StridedIsWithin
  <2>4. AllWithin(L, sz, R) /\ AllWithin(L, sz, W)
    BY <1>3, <2>3, WithinUnion
  <2> HIDE DEF f, R, W
  <2>5. QED
    BY <1>3, <2>1, <2>4, UsesBounded DEF f
<1>12. CASE L.kernel = "lloyd_cluster_merge"
  <2> DEFINE R == LabelCells(L) \cup PointCells(L) \cup OwnSums(L, w)
  <2>1. f = Uses(R, OwnSums(L, w), {})
    BY <1>12, Zenon DEF Foot
  <2>2. /\ Room(sz, "tmp_centroids", (L.C * L.F) * (L.groups * L.local))
        /\ HasLocal(L, "l_centroids", L.local * (L.C * L.F))
    BY <1>12 DEF FitsOnce
  <2>3. AllWithin(L, sz, Chunk("tmp_centroids", L.C * L.F, Gid(L, w)))
    BY <1>1, <1>4, <1>5, <2>2, ChunkIsWithin
  <2>4. AllWithin(L, sz, Strided(L, w, "l_centroids", L.C * L.F))
    BY <1>1, <2>2, StridedIsWithin
  <2>5. AllWithin(L, sz, OwnSums(L, w)) /\ AllWithin(L, sz, R)
    BY <1>2, <2>3, <2>4 DEF AllWithin, OwnSums
  <2> HIDE DEF f, R
  <2>6. QED
    BY <1>3, <2>1, <2>5, UsesBounded DEF f
<1>13. CASE L.kernel = "lloyd_feature_sum"
  <2>1. f = Uses(LabelCells(L) \cup PointCells(L), Chunk("tmp_centroids", L.C, Gid(L, w)), {})
    BY <1>13, Zenon DEF Foot
  <2>2. Room(sz, "tmp_centroids", L.C * (L.groups * L.local))
    BY <1>13 DEF FitsOnce
  <2>3. AllWithin(L, sz, Chunk("tmp_centroids", L.C, Gid(L, w)))
    BY <1>1, <1>4, <1>5, <2>2, ChunkIsWithin
  <2> HIDE DEF f
  <2>4. QED
    BY <1>2, <1>3, <2>1, <2>3, UsesBounded DEF f
<1>14. CASE L.kernel = "lloyd_fused_cluster_merge"
  <2> DEFINE R == PointCells(L) \cup CentroidReads(L) \cup FusedOwn(L, w)
  <2>1. f = Uses(R, FusedOwn(L, w), {})
    BY <1>14, Zenon DEF Foot
  <2>2. AllWithin(L, sz, FusedOwn(L, w))
    BY <1>14, FusedOwnWithin DEF FitsOnce
  <2>3. AllWithin(L, sz, CentroidReads(L))
    BY <1>14, CentroidsWithin DEF FitsOnce
  <2>4. AllWithin(L, sz, R)
    BY <1>3, <2>2, <2>3, WithinUnion
  <2> HIDE DEF f, R
  <2>5. QED
    BY <1>3, <2>1, <2>2, <2>4, UsesBounded DEF f
<1>15. CASE L.kernel = "lloyd_fused_feature_sum"
  <2>1. f = Uses(FusedReads(L, w, j), FusedWrites(L, w, j), {})
    BY <1>15, Zenon DEF Foot
  <2>2. AllWithin(L, sz, FusedReads(L, w, j)) /\ AllWithin(L, sz, FusedWrites(L, w, j))
    BY <1>15, FusedWithin DEF FitsOnce
  <2> HIDE DEF f
  <2>3. QED
    BY <1>3, <2>1, <2>2, UsesBounded DEF f
<1>16. QED
  BY <1>7, <1>8, <1>9, <1>10, <1>11, <1>12, <1>13, <1>14, <1>15 DEF FitsOnce

\* that of lloyd_feature_sum_pardim,
LEMMA TilesWithin ==
  ASSUME NEW L, NEW sz, Sized(sz), PointsLaunch(L), FitsPardim(L, sz), NEW w \in Items(L), NEW j
  PROVE  Bounded(L, sz, Foot(L, w, j))
<1> DEFINE f == Foot(L, w, j)
<1> DEFINE n == L.C * L.tf
<1> DEFINE g == L.cols * GlobalSize0(L)
<1>1. L.kernel = "lloyd_feature_sum_pardim" /\ TileShape(L)
  BY DEF FitsPardim
<1>2. n \in Nat /\ g \in Nat /\ L.local \in Nat \ {0}
  BY <1>1 DEF PointsLaunch, TileShape
<1>3. TileNumber(L, w) \in 0 .. g - 1
  <2>1. Gid0(L, w) \in 0 .. GlobalSize0(L) - 1 /\ Gid1(L, w) \in 0 .. L.cols - 1
    BY <1>1 DEF TileShape
  <2>2. L.cols \in Nat /\ GlobalSize0(L) \in Nat
    BY <1>1 DEF TileShape
  <2>3. TileNumber(L, w) \in Nat /\ TileNumber(L, w) < g
    BY <2>1, <2>2, ChunkIndex DEF TileNumber
  <2> HIDE DEF g
  <2>4. QED
    BY <1>2, <2>3
<1>4. Room(sz, "tmp_centroids", n * g) /\ HasLocal(L, "l_centroids", L.local * n)
  BY DEF FitsPardim
<1>5. GlobalName(L, "tmp_centroids")
  BY GlobalNames
<1>6. f = Uses(LabelCells(L) \cup PointCells(L) \cup OwnTile(L, w), OwnTile(L, w), {})
  BY <1>1, Zenon DEF Foot
<1>7. AllWithin(L, sz, OwnTile(L, w))
  <2> HIDE DEF g
  <2>1. AllWithin(L, sz, Chunk("tmp_centroids", n, TileNumber(L, w)))
    BY <1>2, <1>3, <1>4, <1>5, ChunkIsWithin
  <2>2. AllWithin(L, sz, Strided(L, w, "l_centroids", n))
    BY <1>2, <1>4, StridedIsWithin
  <2>3. QED
    BY <2>1, <2>2, WithinUnion DEF OwnTile
<1>8. AllWithin(L, sz, LabelCells(L) \cup PointCells(L))
  BY BlockWithin
<1>9. AllWithin(L, sz, LabelCells(L) \cup PointCells(L) \cup OwnTile(L, w))
  BY <1>7, <1>8, WithinUnion
<1>10. AllWithin(L, sz, {})
  BY NothingWithin
<1> HIDE DEF f
<1>11. QED
  BY <1>6, <1>7, <1>9, <1>10, UsesBounded DEF f

\* those of the reductions,
LEMMA ReduceWithin ==
  ASSUME NEW L, NEW sz, Sized(sz), FitsReduce(L, sz), NEW w \in Items(L), NEW j \in Nat
  PROVE  Bounded(L, sz, Foot(L, w, j))
<1> DEFINE f == Foot(L, w, j)
<1>1. ReduceLike(L) /\ GlobalName(L, L.buf)
  BY DEF FitsReduce
<1>2. L.groups \in Nat \ {0} /\ L.local \in Nat \ {0} /\ L.size \in Nat /\ L.rows \in Nat
  BY <1>1 DEF ReduceLike
<1>3. AllWithin(L, sz, {})
  BY NothingWithin
<1>4. CASE L.kernel = "reduce_vector_parcol_compact"
  <2> DEFINE R == {Glob(L.buf, i) : i \in ReduceMine(L, w)}
  <2> DEFINE W == {Glob(L.buf, Gid(L, w))}
  <2>1. f = Uses(R, W, {})
    BY <1>4, Zenon DEF Foot
  <2>2. Room(sz, L.buf, L.size) /\ L.groups * L.local <= L.size
    BY <1>4 DEF FitsReduce
  <2>3. Gid(L, w) \in 0 .. L.groups * L.local - 1
    BY <1>2, GidTyped
  <2>4. L.groups * L.local \in Nat
    BY <1>2
  <2> DEFINE p == L.groups * L.local
  <2>5. Gid(L, w) \in 0 .. L.size - 1
    <3>1. p \in Nat /\ p <= L.size /\ Gid(L, w) \in 0 .. p - 1
      BY <2>2, <2>3, <2>4
    <3> HIDE DEF p
    <3>2. QED
      BY <1>2, <3>1
  <2>6. ReduceMine(L, w) \subseteq 0 .. L.size - 1
    BY <1>2, <2>5 DEF ReduceMine
  <2>7. AllWithin(L, sz, R) /\ AllWithin(L, sz, W)
    BY <1>1, <1>2, <2>2, <2>5, <2>6, GlobalWithin DEF AllWithin
  <2> HIDE DEF f, R, W
  <2>8. QED
    BY <1>3, <2>1, <2>7, UsesBounded DEF f
<1>5. CASE L.kernel = "reduce_vector_parcol_inner"
  <2> DEFINE R == InnerReads(L, w, j)
  <2> DEFINE W == InnerWrites(L, w, j)
  <2>1. f = Uses(R, W, {})
    BY <1>5, Zenon DEF Foot
  <2>2. /\ Room(sz, L.buf, 2 * L.local) /\ Room(sz, L.buf, L.rows)
        /\ HasLocal(L, "l_data", 2 * L.local) /\ HasLocal(L, "l_data", L.rows)
    BY <1>5 DEF FitsReduce
  <2>3. \A i \in 0 .. 2 * L.local - 1 :
          Within(L, sz, Glob(L.buf, i)) /\ Within(L, sz, Loc(w, "l_data", i))
    BY <1>1, <1>2, <2>2, GlobalWithin, LocalWithin
  <2>4. \A i \in 0 .. L.rows - 1 :
          Within(L, sz, Glob(L.buf, i)) /\ Within(L, sz, Loc(w, "l_data", i))
    BY <1>1, <1>2, <2>2, GlobalWithin, LocalWithin
  <2>5. Half(L, j) \in 0 .. L.local
    BY <1>1, HalfIn
  <2>6. w[2] \in 0 .. L.local - 1
    BY DEF Items
  <2>7. /\ AllWithin(L, sz, InnerLoads(L, w)) /\ AllWithin(L, sz, InnerStores(L, w))
        /\ AllWithin(L, sz, InnerShare(L, w, 2 * L.local))
        /\ AllWithin(L, sz, InnerShare(L, w, L.rows))
    BY <2>3, <2>4 DEF AllWithin, InnerLoads, InnerStores, InnerShare, CopyShare
  <2>8. \A i \in InnerTurn(L, w, j) :
          i \in 0 .. 2 * L.local - 1 /\ Half(L, j) + i \in 0 .. 2 * L.local - 1
    BY <1>2, <2>5, <2>6 DEF InnerTurn
  <2>9. AllWithin(L, sz, InnerAdds(L, w, j)) /\ AllWithin(L, sz, InnerOthers(L, w, j))
    BY <2>3, <2>8 DEF AllWithin, InnerAdds, InnerOthers
  <2>10. AllWithin(L, sz, InnerAdds(L, w, j) \cup InnerOthers(L, w, j))
    BY <2>9, WithinUnion
  <2>11. AllWithin(L, sz, R) /\ AllWithin(L, sz, W)
    BY <2>7, <2>9, <2>10, Zenon DEF InnerReads, InnerWrites
  <2> HIDE DEF f, R, W
  <2>12. QED
    BY <1>3, <2>1, <2>11, UsesBounded DEF f
<1>6. QED
  BY <1>4, <1>5 DEF FitsReduce

\* The number of an item in a matrix, by its row and its column.
LEMMA CellNumbers ==
  ASSUME NEW L, CellsLike(L), NEW w \in Items(L)
  PROVE  /\ Gid(L, w) \in 0 .. L.rows * L.cols - 1 /\ Gid(L, w) = w[1] /\ w[2] = 0
         /\ Gid0(L, w) \in 0 .. L.rows - 1 /\ Gid1(L, w) \in 0 .. L.cols - 1
         /\ w[1] = L.cols * Gid0(L, w) + Gid1(L, w)
         /\ L.rows * Gid1(L, w) + Gid0(L, w) \in 0 .. L.rows * L.cols - 1
<1> DEFINE r == L.rows
<1> DEFINE c == L.cols
<1> DEFINE x == w[1] \div c
<1> DEFINE y == w[1] % c
<1>1. r \in Nat \ {0} /\ c \in Nat \ {0} /\ L.groups = r * c /\ L.local = 1 /\ L.lcols = 1
  BY DEF CellsLike
<1>2. r * c \in Nat /\ w[1] \in 0 .. r * c - 1 /\ w[2] = 0
  BY <1>1 DEF Items
<1>3. Gid(L, w) = w[1]
  BY <1>1, <1>2 DEF Gid
<1>4. GroupCols(L) = c
  BY <1>1 DEF GroupCols
<1>5. LocalSize0(L) = 1 /\ Lid0(L, w) = 0
  BY <1>1, <1>2 DEF LocalSize0, Lid0
<1>6. x \in Nat /\ y \in 0 .. c - 1 /\ w[1] = c * x + y
  <2> DEFINE v == w[1]
  <2>1. v \in Nat /\ v \in Int
    BY <1>2
  <2> HIDE DEF v, c
  <2>2. v \div c \in Nat
    BY <1>1, <2>1, DivNat
  <2>3. v % c \in 0 .. c - 1 /\ v = c * (v \div c) + (v % c)
    BY <1>1, <2>1, DivMod
  <2>4. QED
    BY <2>2, <2>3 DEF v
<1>7. Gid0(L, w) = x
  BY <1>4, <1>5, <1>6 DEF Gid0, Group0
<1>8. Gid1(L, w) = y
  <2>1. w[2] % 1 = 0
    BY <1>2
  <2>2. Gid1(L, w) = y * 1 + 0
    BY <1>1, <1>4, <2>1 DEF Gid1
  <2>3. QED
    BY <1>6, <2>2
<1>9. x < r
  <2> HIDE DEF x, y, r, c
  <2>1. SUFFICES ASSUME x >= r PROVE FALSE
    BY <1>1, <1>6
  <2>2. r * c <= x * c
    BY <1>1, <1>6, <2>1, TimesMonotone
  <2> DEFINE p == r * c
  <2> DEFINE q == x * c
  <2>3. q = c * x /\ q \in Int /\ p \in Int
    BY <1>1, <1>6
  <2>4. w[1] \in Int /\ w[1] < p /\ w[1] = q + y /\ p <= q
    BY <1>2, <1>6, <2>2, <2>3
  <2> HIDE DEF p, q
  <2>5. QED
    BY <1>6, <2>3, <2>4
<1> DEFINE n == r * c
<1> DEFINE z == r * y + x
<1>10. z \in Nat /\ z < n
  <2>1. x \in 0 .. r - 1 /\ y \in 0 .. c - 1
    BY <1>1, <1>6, <1>9
  <2>2. r \in Nat /\ c \in Nat
    BY <1>1
  <2>3. QED
    BY <2>1, <2>2, ChunkIndex
<1>11. z \in 0 .. n - 1
  <2>1. n \in Nat
    BY <1>2
  <2> HIDE DEF z, n
  <2>2. QED
    BY <1>10, <2>1
<1>12. QED
  BY <1>1, <1>2, <1>3, <1>6, <1>7, <1>8, <1>9, <1>11

\* of the kernels over matrices,
LEMMA CellsWithin ==
  ASSUME NEW L, NEW sz, Sized(sz), FitsCells(L, sz), NEW w \in Items(L), NEW j
  PROVE  Bounded(L, sz, Foot(L, w, j))
<1> DEFINE f == Foot(L, w, j)
<1> DEFINE n == L.rows * L.cols
<1>1. CellsLike(L) /\ GlobalName(L, L.fst) /\ GlobalName(L, L.snd) /\ Room(sz, L.fst, n)
  BY DEF FitsCells
<1>2. L.rows \in Nat /\ n \in Nat
  BY <1>1 DEF CellsLike
<1>3. /\ Gid(L, w) \in 0 .. n - 1 /\ L.rows * Gid1(L, w) + Gid0(L, w) \in 0 .. n - 1
      /\ Gid0(L, w) \in 0 .. L.rows - 1
  BY <1>1, CellNumbers
<1>4. AllWithin(L, sz, {})
  BY NothingWithin
<1> HIDE DEF n
<1>5. Within(L, sz, Glob(L.fst, Gid(L, w))) /\ Within(L, sz, MatrixCell(L, w))
  BY <1>1, <1>2, <1>3, GlobalWithin DEF MatrixCell
<1>6. CASE L.kernel = "matrix_matrix"
  <2> DEFINE R == {Glob(L.snd, Gid(L, w)), Glob(L.fst, Gid(L, w))}
  <2> DEFINE W == {Glob(L.fst, Gid(L, w))}
  <2>1. f = Uses(R, W, {})
    BY <1>6, Zenon DEF Foot
  <2>2. Room(sz, L.snd, n)
    BY <1>6 DEF FitsCells, n
  <2>3. Within(L, sz, Glob(L.snd, Gid(L, w)))
    BY <1>1, <1>2, <1>3, <2>2, GlobalWithin
  <2>4. AllWithin(L, sz, R) /\ AllWithin(L, sz, W)
    BY <1>5, <2>3 DEF AllWithin
  <2> HIDE DEF f, R, W
  <2>5. QED
    BY <1>4, <2>1, <2>4, UsesBounded DEF f
<1>7. CASE L.kernel = "matrix_row_vector"
  <2> DEFINE R == {MatrixCell(L, w), Glob(L.snd, Gid0(L, w))}
  <2> DEFINE W == {MatrixCell(L, w)}
  <2>1. f = Uses(R, W, {})
    BY <1>7, Zenon DEF Foot
  <2>2. Room(sz, L.snd, L.rows)
    BY <1>7 DEF FitsCells
  <2>3. Within(L, sz, Glob(L.snd, Gid0(L, w)))
    BY <1>1, <1>2, <1>3, <2>2, GlobalWithin
  <2>4. AllWithin(L, sz, R) /\ AllWithin(L, sz, W)
    BY <1>5, <2>3 DEF AllWithin
  <2> HIDE DEF f, R, W
  <2>5. QED
    BY <1>4, <2>1, <2>4, UsesBounded DEF f
<1>8. QED
  BY <1>6, <1>7 DEF FitsCells

\* and of fills and copies.
LEMMA CommandsWithin ==
  ASSUME NEW L, NEW sz, Sized(sz), FitsCommand(L, sz), NEW w \in Items(L), NEW j
  PROVE  Bounded(L, sz, Foot(L, w, j))
<1> DEFINE f == Foot(L, w, j)
<1> DEFINE R == {Glob(L.fst, i) : i \in 0 .. L.size - 1}
<1> DEFINE S == {Glob(L.snd, i) : i \in 0 .. L.size - 1}
<1>1. L.size \in Nat /\ GlobalName(L, L.fst) /\ GlobalName(L, L.snd)
  BY DEF FitsCommand, CommandLike
<1>2. AllWithin(L, sz, {})
  BY NothingWithin
<1>3. AllWithin(L, sz, R)
  BY <1>1, GlobalWithin DEF AllWithin, FitsCommand
<1>4. CASE L.kernel = "copy"
  <2>1. f = Uses(R, S, {})
    BY <1>4, Zenon DEF Foot
  <2>2. Room(sz, L.snd, L.size)
    BY <1>4 DEF FitsCommand
  <2>3. AllWithin(L, sz, S)
    BY <1>1, <2>2, GlobalWithin DEF AllWithin
  <2> HIDE DEF f, R, S
  <2>4. QED
    BY <1>2, <1>3, <2>1, <2>3, UsesBounded DEF f
<1>5. CASE L.kernel = "fill"
  <2>1. f = Uses({}, R, {})
    BY <1>5, Zenon DEF Foot
  <2> HIDE DEF f, R
  <2>2. QED
    BY <1>2, <1>3, <2>1, UsesBounded DEF f
<1>6. QED
  BY <1>4, <1>5 DEF FitsCommand

\* What an interval may use is within its buffers.
LEMMA FootWithin ==
  ASSUME NEW L, NEW sz, Sized(sz), NEW c, Fits(L, sz, c), NEW w \in Items(L), NEW j \in Nat,
         j < Intervals(L, w)
  PROVE  Bounded(L, sz, Foot(L, w, j))
BY OnceWithin, TilesWithin, ReduceWithin, CellsWithin, CommandsWithin DEF Fits

-----------------------------------------------------------------------------
(***************************************************************************)
(* Races                                                                   *)
(***************************************************************************)
\* Ordered for launch L.
OrderedIn(L, a, i, k) ==
  /\ i # k
  /\ \/ a[1] \in LocalBuffers(L)
     \/ \E x \in Min2(i, k) .. i + k - Min2(i, k) - 1 : GlobalFence(L, x)

\* What a footprint changes, and what it relies on not being changed.
Alters(f) == f.writes \cup f.adds
Relies(f) == f.reads \cup f.writes

\* Where interval i of u changes what interval k of w relies on, a barrier is
\* between them.
Guarded(L, u, i, w, k) ==
  \A a \in Alters(Foot(L, u, i)) \cap Relies(Foot(L, w, k)) : u[1] = w[1] /\ OrderedIn(L, a, i, k)

\* What a footprint changes and what it relies on.
LEMMA UsesParts ==
  ASSUME NEW R, NEW W, NEW A
  PROVE  Alters(Uses(R, W, A)) = W \cup A /\ Relies(Uses(R, W, A)) = R \cup W
BY DEF Alters, Relies, Uses

\* All addresses of S are in buffer b.
Of(S, b) == \A a \in S : a[1] = b

\* The buffer that each group of cells is in.
LEMMA Buffers ==
  ASSUME NEW L, NEW w
  PROVE  /\ \A b, n, k : Of(Chunk(b, n, k), b) /\ Of(Strided(L, w, b, n), b)
         /\ Of(LabelCells(L), "labels") /\ Of(PointCells(L), "points")
         /\ \A S : Of(LabelReads(L, S), "labels")
         /\ Of(CentroidReads(L), "ro_centroids")
         /\ Of(BinShare(L, w), "tmp_masses") /\ Of(LocalShare(L, w), "l_bins")
         /\ Of(LocalBins(L, w), "l_bins")
BY DEF Of, Chunk, Strided, LabelCells, PointCells, LabelReads, CentroidReads, BinShare, LocalShare,
       LocalBins, Glob, Loc, InBlock

\* An item is the only one to change its cells.
LEMMA LabelsApart ==
  ASSUME NEW L, PointsLaunch(L), Linear(L), NEW u \in Items(L), NEW w \in Items(L),
         NEW a \in LabelReads(L, Lanes(L, u)), a \in LabelReads(L, Lanes(L, w))
  PROVE  u = w
<1>1. PICK p \in Lanes(L, u) : a = InBlock(L, "labels", p)
  BY DEF LabelReads
<1>2. PICK q \in Lanes(L, w) : a = InBlock(L, "labels", q)
  BY DEF LabelReads
<1>3. p = q
  BY <1>1, <1>2 DEF InBlock
<1>4. WholeVectors(L) /\ L.lstride \in BOOLEAN
  BY DEF PointsLaunch
<1>5. QED
  BY <1>3, <1>4, VisitorUnique

\* Items with chunks of their own share no cell.
LEMMA OwnChunkApart ==
  ASSUME NEW L, L.groups \in Nat \ {0}, L.local \in Nat \ {0}, NEW u \in Items(L),
         NEW w \in Items(L),
         NEW b, NEW n \in Nat, NEW a \in Chunk(b, n, Gid(L, u)), a \in Chunk(b, n, Gid(L, w))
  PROVE  u = w
<1>1. Gid(L, u) \in Int /\ Gid(L, w) \in Int
  BY DEF Gid, Items
<1>2. Gid(L, u) = Gid(L, w)
  BY <1>1, ChunkApart
<1>3. QED
  BY <1>2, GidUnique

\* Items with sums of their own share no cell.
LEMMA SumsApart ==
  ASSUME NEW L, PointsLaunch(L), NEW u \in Items(L), NEW w \in Items(L),
         NEW a \in OwnSums(L, u), a \in OwnSums(L, w)
  PROVE  u = w
<1> DEFINE n == L.C * L.F
<1>1. n \in Nat /\ L.local \in Nat \ {0} /\ L.groups \in Nat \ {0}
  BY DEF PointsLaunch
<1>2. /\ Of(Chunk("tmp_centroids", n, Gid(L, u)), "tmp_centroids")
      /\ Of(Strided(L, u, "l_centroids", n), "l_centroids")
      /\ Of(Chunk("tmp_centroids", n, Gid(L, w)), "tmp_centroids")
      /\ Of(Strided(L, w, "l_centroids", n), "l_centroids")
  BY Buffers
<1> HIDE DEF n
<1>3. CASE a \in Chunk("tmp_centroids", n, Gid(L, u))
  <2>1. a \in Chunk("tmp_centroids", n, Gid(L, w))
    BY <1>2, <1>3 DEF Of, OwnSums, n
  <2>2. QED
    BY <1>1, <1>3, <2>1, OwnChunkApart
<1>4. CASE a \in Strided(L, u, "l_centroids", n)
  <2>1. a \in Strided(L, w, "l_centroids", n)
    BY <1>2, <1>4 DEF Of, OwnSums, n
  <2>2. QED
    BY <1>1, <1>4, <2>1, StridedApart
<1>5. QED
  BY <1>3, <1>4 DEF OwnSums, n

\* The row and the column of a tile.
LEMMA TileNumbers ==
  ASSUME NEW L, TileShape(L), NEW w \in Items(L)
  PROVE  TileNumber(L, w) \div L.cols = Gid0(L, w) /\ TileNumber(L, w) % L.cols = Gid1(L, w)
<1> DEFINE c == L.cols
<1> DEFINE k == Gid0(L, w)
<1> DEFINE r == Gid1(L, w)
<1>1. c \in Nat \ {0} /\ k \in Int /\ r \in 0 .. c - 1
  BY DEF TileShape
<1> HIDE DEF c, k, r
<1> DEFINE a == c * k + r
<1>2. a \in Int
  BY <1>1
<1>3. a \div c = k /\ a % c = r
  BY <1>1, <1>2, DivModUnique
<1>4. QED
  BY <1>3 DEF TileNumber, c, k, r

\* Items with tiles of their own share no cell.
LEMMA TilesApart ==
  ASSUME NEW L, PointsLaunch(L), TileShape(L), NEW u \in Items(L), NEW w \in Items(L),
         NEW a \in OwnTile(L, u), a \in OwnTile(L, w)
  PROVE  u = w
<1> DEFINE n == L.C * L.tf
<1>1. n \in Nat /\ L.local \in Nat \ {0} /\ L.groups \in Nat \ {0} /\ L.cols \in Nat \ {0}
  BY DEF PointsLaunch, TileShape
<1>2. /\ Gid0(L, u) \in Int /\ Gid0(L, w) \in Int /\ Gid1(L, u) \in 0 .. L.cols - 1
      /\ Gid1(L, w) \in 0 .. L.cols - 1
  BY DEF TileShape
<1>3. /\ Of(Chunk("tmp_centroids", n, TileNumber(L, u)), "tmp_centroids")
      /\ Of(Strided(L, u, "l_centroids", n), "l_centroids")
      /\ Of(Chunk("tmp_centroids", n, TileNumber(L, w)), "tmp_centroids")
      /\ Of(Strided(L, w, "l_centroids", n), "l_centroids")
  BY Buffers
<1> HIDE DEF n
<1>4. CASE a \in Chunk("tmp_centroids", n, TileNumber(L, u))
  <2>1. a \in Chunk("tmp_centroids", n, TileNumber(L, w))
    BY <1>3, <1>4 DEF Of, OwnTile, n
  <2>2. TileNumber(L, u) \in Int /\ TileNumber(L, w) \in Int
    BY <1>1, <1>2 DEF TileNumber
  <2>3. TileNumber(L, u) = TileNumber(L, w)
    BY <1>1, <1>4, <2>1, <2>2, ChunkApart
  <2> DEFINE x == TileNumber(L, u)
  <2> DEFINE y == TileNumber(L, w)
  <2>4. x \div L.cols = Gid0(L, u) /\ x % L.cols = Gid1(L, u)
    BY TileNumbers
  <2>5. y \div L.cols = Gid0(L, w) /\ y % L.cols = Gid1(L, w)
    BY TileNumbers
  <2>8. x = y
    BY <2>3
  <2> HIDE DEF x, y
  <2>6. Gid0(L, u) = Gid0(L, w) /\ Gid1(L, u) = Gid1(L, w)
    BY <2>4, <2>5, <2>8
  <2>7. QED
    BY <2>6, Zenon DEF TileShape
<1>5. CASE a \in Strided(L, u, "l_centroids", n)
  <2>1. a \in Strided(L, w, "l_centroids", n)
    BY <1>3, <1>5 DEF Of, OwnTile, n
  <2>2. QED
    BY <1>1, <1>5, <2>1, StridedApart
<1>6. QED
  BY <1>4, <1>5 DEF OwnTile, n

\* Items of lloyd_fused_cluster_merge share no cell.
LEMMA FusedOwnApart ==
  ASSUME NEW L, PointsLaunch(L), Linear(L), NEW u \in Items(L), NEW w \in Items(L),
         NEW a \in FusedOwn(L, u), a \in FusedOwn(L, w)
  PROVE  u = w
<1> DEFINE n == L.C * L.F
<1> DEFINE S1(x) == LabelReads(L, Lanes(L, x))
<1> DEFINE S2(x) == Chunk("tmp_new_centroids", n, Gid(L, x))
<1> DEFINE S3(x) == Chunk("new_masses", L.C, Gid(L, x))
<1> DEFINE S4(x) == Strided(L, x, "l_centroids", n)
<1> DEFINE S5(x) == Strided(L, x, "l_masses", L.C)
<1> DEFINE S6(x) == Strided(L, x, "l_points", L.F)
<1>1. n \in Nat /\ L.C \in Nat /\ L.F \in Nat /\ L.local \in Nat \ {0} /\ L.groups \in Nat \ {0}
  BY DEF PointsLaunch
<1>2. \A x : /\ Of(S1(x), "labels") /\ Of(S2(x), "tmp_new_centroids") /\ Of(S3(x), "new_masses")
             /\ Of(S4(x), "l_centroids") /\ Of(S5(x), "l_masses") /\ Of(S6(x), "l_points")
  BY Buffers
<1>3. \A x : FusedOwn(L, x) = S1(x) \cup S2(x) \cup S3(x) \cup S4(x) \cup S5(x) \cup S6(x)
  BY DEF FusedOwn
<1>4. a \in S1(u) /\ a \in S1(w) => u = w
  BY LabelsApart
<1>5. (a \in S2(u) /\ a \in S2(w) => u = w) /\ (a \in S3(u) /\ a \in S3(w) => u = w)
  BY <1>1, OwnChunkApart
<1>6. /\ (a \in S4(u) /\ a \in S4(w) => u = w) /\ (a \in S5(u) /\ a \in S5(w) => u = w)
      /\ (a \in S6(u) /\ a \in S6(w) => u = w)
  BY <1>1, StridedApart
<1> HIDE DEF n, S1, S2, S3, S4, S5, S6
<1>7. QED
  BY <1>2, <1>3, <1>4, <1>5, <1>6 DEF Of

\* A barrier is between resetting the bins of a group and adding to them,
LEMMA PartGlobalGuarded ==
  ASSUME NEW L, PointsLaunch(L), L.kernel = "histogram_part_global", NEW u \in Items(L),
         NEW w \in Items(L),
         u # w, NEW i \in 0 .. 1, NEW k \in 0 .. 1
  PROVE  Guarded(L, u, i, w, k)
<1>1. \A x \in Items(L), j \in 0 .. 1 :
        /\ j = 0 => Foot(L, x, j) = Uses({}, BinShare(L, x), {})
        /\ j = 1 => Foot(L, x, j) = Uses(LabelCells(L), {}, Chunk("tmp_masses", L.C, x[1]))
  <2> TAKE x \in Items(L), j \in 0 .. 1
  <2>1. /\ j = 0 => Foot(L, x, j) = Uses({}, BinShare(L, x), {})
        /\ j # 0 => Foot(L, x, j) = Uses(LabelCells(L), {}, Chunk("tmp_masses", L.C, x[1]))
    BY Zenon DEF Foot
  <2>2. QED
    BY <2>1
<1>2. \A x \in Items(L) : BinShare(L, x) \subseteq Chunk("tmp_masses", L.C, x[1])
  BY BinShareIn
<1>3. Of(LabelCells(L), "labels") /\ Of(Chunk("tmp_masses", L.C, u[1]), "tmp_masses")
        /\ Of(BinShare(L, u), "tmp_masses")
  BY Buffers
<1>4. SUFFICES ASSUME NEW a \in Alters(Foot(L, u, i)) \cap Relies(Foot(L, w, k))
               PROVE  u[1] = w[1] /\ OrderedIn(L, a, i, k)
  BY DEF Guarded
<1>5. CASE i = 0 /\ k = 0
  <2>1. a \in BinShare(L, u) /\ a \in BinShare(L, w)
    BY <1>1, <1>4, <1>5, UsesParts
  <2>2. QED
    BY <2>1, BinShareApart
<1>6. CASE k = 1
  <2>1. a \in LabelCells(L)
    BY <1>1, <1>4, <1>6, UsesParts
  <2>2. a \in BinShare(L, u) \/ a \in Chunk("tmp_masses", L.C, u[1])
    BY <1>1, <1>4, UsesParts
  <2>3. QED
    BY <1>3, <2>1, <2>2 DEF Of
<1>7. CASE i = 1 /\ k = 0
  <2>1. a \in Chunk("tmp_masses", L.C, u[1]) /\ a \in Chunk("tmp_masses", L.C, w[1])
    BY <1>1, <1>2, <1>4, <1>7, UsesParts
  <2>2. u[1] \in Int /\ w[1] \in Int /\ L.C \in Nat
    BY DEF Items, PointsLaunch
  <2>3. u[1] = w[1]
    BY <2>1, <2>2, ChunkApart
  <2>4. GlobalFence(L, 0)
    BY DEF GlobalFence
  <2>5. Min2(1, 0) = 0
    BY DEF Min2
  <2>6. OrderedIn(L, a, i, k)
    BY <1>7, <2>4, <2>5 DEF OrderedIn
  <2>7. QED
    BY <2>3, <2>6
<1>8. QED
  BY <1>5, <1>6, <1>7

\* and, in local memory, between adding to them and copying them out.
LEMMA PartLocalGuarded ==
  ASSUME NEW L, PointsLaunch(L), L.kernel = "histogram_part_local", HasLocal(L, "l_bins", L.C),
         NEW u \in Items(L), NEW w \in Items(L), u # w, NEW i \in 0 .. 2, NEW k \in 0 .. 2
  PROVE  Guarded(L, u, i, w, k)
<1>1. \A x \in Items(L), j \in 0 .. 2 :
        /\ j = 0 => Foot(L, x, j) = Uses({}, LocalShare(L, x), {})
        /\ j = 1 => Foot(L, x, j) = Uses(LabelCells(L), {}, LocalBins(L, x))
        /\ j = 2 => Foot(L, x, j) = Uses(LocalShare(L, x), BinShare(L, x), {})
  <2> TAKE x \in Items(L), j \in 0 .. 2
  <2>1. QED
    BY 1 # 0, 2 # 0, 2 # 1, Zenon DEF Foot
<1>2. \A x \in Items(L) :
        /\ LocalShare(L, x) \subseteq Strided(L, x, "l_bins", L.C)
        /\ LocalShare(L, x) \subseteq LocalBins(L, x)
  BY BinShareIn DEF LocalShare, LocalBins, ShareOfBins
<1>3. /\ Of(LabelCells(L), "labels")
      /\ \A x :
           Of(BinShare(L, x), "tmp_masses") /\ Of(LocalShare(L, x), "l_bins")
             /\ Of(LocalBins(L, x), "l_bins")
  BY Buffers
<1>4. \A x, y \in Items(L) : \A b \in LocalShare(L, x) : b \in LocalShare(L, y) => x = y
  <2>1. L.C \in Nat /\ L.local \in Nat \ {0}
    BY DEF PointsLaunch
  <2>2. QED
    BY <1>2, <2>1, StridedApart
<1>5. SUFFICES ASSUME NEW a \in Alters(Foot(L, u, i)) \cap Relies(Foot(L, w, k))
               PROVE  u[1] = w[1] /\ OrderedIn(L, a, i, k)
  BY DEF Guarded
<1>6. (i = 0 \/ i = 1 \/ i = 2) /\ (k = 0 \/ k = 1 \/ k = 2)
  OBVIOUS
<1>7. /\ i = 0 => a \in LocalShare(L, u)
      /\ i = 1 => a \in LocalBins(L, u)
      /\ i = 2 => a \in BinShare(L, u)
  BY <1>1, <1>5, UsesParts
<1>8. /\ k = 0 => a \in LocalShare(L, w)
      /\ k = 1 => a \in LabelCells(L)
      /\ k = 2 => a \in LocalShare(L, w) \/ a \in BinShare(L, w)
  BY <1>1, <1>5, UsesParts
<1>9. CASE i = 1 /\ a \in LocalShare(L, w)
  <2>1. a \in LocalBins(L, u) /\ a \in LocalBins(L, w)
    BY <1>2, <1>7, <1>9
  <2>2. u[1] = w[1] /\ a[1] = "l_bins"
    BY <2>1 DEF LocalBins, Loc
  <2>3. a[1] \in LocalBuffers(L)
    BY <2>2 DEF HasLocal, LocalBuffers
  <2>4. i # k
    BY <1>3, <1>8, <1>9, <2>2 DEF Of
  <2>5. QED
    BY <2>2, <2>3, <2>4 DEF OrderedIn
<1>10. CASE i = 0 /\ a \in LocalShare(L, w)
  BY <1>4, <1>7, <1>10
<1>11. CASE i = 2 /\ a \in BinShare(L, w)
  BY <1>7, <1>11, BinShareApart
<1>12. QED
  BY <1>3, <1>6, <1>7, <1>8, <1>9, <1>10, <1>11 DEF Of

\* Items that change their own cells, and rely on these and on cells that
\* nobody changes.
LEMMA OwnGuarded ==
  ASSUME NEW L, NEW u, NEW i, NEW w, NEW k, NEW P, NEW Q, NEW S,
         Alters(Foot(L, u, i)) \subseteq P, Relies(Foot(L, w, k)) \subseteq S \cup Q,
         P \cap S = {}, P \cap Q = {}
  PROVE  Guarded(L, u, i, w, k)
BY DEF Guarded

\* What an item of the fused cluster merge changes is no input of another.
LEMMA FusedOwnPlaces ==
  ASSUME NEW L, NEW w, NEW a \in FusedOwn(L, w)
  PROVE  a[1] # "points" /\ a[1] # "ro_centroids"
<1>1. ASSUME NEW buf, NEW n, NEW k, a \in Chunk(buf, n, k)
      PROVE  a[1] = buf
  BY <1>1 DEF Chunk, Glob
<1>2. ASSUME NEW buf, NEW n, a \in Strided(L, w, buf, n)
      PROVE  a[1] = buf
  BY <1>2 DEF Strided, Loc
<1>3. CASE a \in LabelReads(L, Lanes(L, w))
  BY <1>3 DEF LabelReads, InBlock
<1>4. CASE a \in Chunk("tmp_new_centroids", L.C * L.F, Gid(L, w))
  BY <1>1, <1>4
<1>5. CASE a \in Chunk("new_masses", L.C, Gid(L, w))
  BY <1>1, <1>5
<1>6. CASE a \in Strided(L, w, "l_centroids", L.C * L.F)
  BY <1>2, <1>6
<1>7. CASE a \in Strided(L, w, "l_masses", L.C)
  BY <1>2, <1>7
<1>8. CASE a \in Strided(L, w, "l_points", L.F)
  BY <1>2, <1>8
<1>9. QED
  BY <1>3, <1>4, <1>5, <1>6, <1>7, <1>8 DEF FusedOwn

\* All other kernels of one dimension but one share nothing.
LEMMA OnceGuarded ==
  ASSUME NEW L, NEW sz, PointsLaunch(L), Linear(L), FitsOnce(L, sz),
         L.kernel # "lloyd_fused_feature_sum",
         NEW u \in Items(L), NEW w \in Items(L), u # w,
         NEW i \in Nat, i < Intervals(L, u), NEW k \in Nat, k < Intervals(L, w)
  PROVE  Guarded(L, u, i, w, k)
<1>1. /\ L.C \in Nat /\ L.F \in Nat /\ L.C * L.F \in Nat /\ L.local \in Nat \ {0}
      /\ L.groups \in Nat \ {0}
  BY DEF PointsLaunch
<1>2. /\ \A x, b, n, t : Of(Chunk(b, n, t), b) /\ Of(Strided(L, x, b, n), b)
      /\ \A S : Of(LabelReads(L, S), "labels")
      /\ Of(LabelCells(L), "labels") /\ Of(PointCells(L), "points")
      /\ Of(CentroidReads(L), "ro_centroids")
  BY Buffers
<1>3. CASE L.kernel = "histogram_global"
  <2> DEFINE P == Chunk("masses", L.C, 0)
  <2> DEFINE S == LabelCells(L)
  <2>1. Foot(L, u, i) = Uses(S, {}, P) /\ Foot(L, w, k) = Uses(S, {}, P)
    BY <1>3, Zenon DEF Foot
  <2>2. Of(P, "masses") /\ Of(S, "labels")
    BY <1>2
  <2> HIDE DEF P, S
  <2>3. Alters(Foot(L, u, i)) \subseteq P /\ Relies(Foot(L, w, k)) \subseteq S \cup {}
    BY <2>1, UsesParts
  <2>4. P \cap S = {} /\ P \cap {} = {}
    BY <2>2 DEF Of
  <2>5. QED
    BY <2>3, <2>4, OwnGuarded
<1>4. CASE L.kernel = "histogram_part_global"
  <2>1. Intervals(L, u) = 2 /\ Intervals(L, w) = 2
    BY <1>4, Zenon DEF Intervals
  <2>2. i \in 0 .. 1 /\ k \in 0 .. 1
    BY <2>1
  <2>3. QED
    BY <1>4, <2>2, PartGlobalGuarded
<1>5. CASE L.kernel = "histogram_part_local"
  <2>1. Intervals(L, u) = 3 /\ Intervals(L, w) = 3
    BY <1>5, Zenon DEF Intervals
  <2>2. i \in 0 .. 2 /\ k \in 0 .. 2
    BY <2>1
  <2>3. HasLocal(L, "l_bins", L.C)
    BY <1>5 DEF FitsOnce
  <2>4. QED
    BY <1>5, <2>2, <2>3, PartLocalGuarded
<1>6. CASE L.kernel = "histogram_part_private"
  <2> DEFINE G(x) == Chunk("tmp_masses", L.C, Gid(L, x))
  <2> DEFINE T(x) == Strided(L, x, "local_buf", L.C)
  <2> DEFINE S == LabelCells(L)
  <2>1. Foot(L, u, i) = Uses(S, G(u) \cup T(u), {}) /\ Foot(L, w, k) = Uses(S, G(w) \cup T(w), {})
    BY <1>6, Zenon DEF Foot
  <2>2. Of(S, "labels") /\ \A x : Of(G(x), "tmp_masses") /\ Of(T(x), "local_buf")
    BY <1>2
  <2>3. G(u) \cap G(w) = {}
    BY <1>1, OwnChunkApart
  <2>4. T(u) \cap T(w) = {}
    BY <1>1, StridedApart
  <2> HIDE DEF G, T, S
  <2> DEFINE P == G(u) \cup T(u)
  <2> DEFINE Q == G(w) \cup T(w)
  <2>5. Alters(Foot(L, u, i)) \subseteq P /\ Relies(Foot(L, w, k)) \subseteq S \cup Q
    BY <2>1, UsesParts
  <2>6. P \cap S = {} /\ P \cap Q = {}
    BY <2>2, <2>3, <2>4 DEF Of
  <2> HIDE DEF P, Q
  <2>7. QED
    BY <2>5, <2>6, OwnGuarded
<1>7. CASE L.kernel = "lloyd_labeling_vp_clcp"
  <2> DEFINE G(x) == LabelReads(L, Lanes(L, x))
  <2> DEFINE T(x) == Strided(L, x, "l_points", L.F)
  <2> DEFINE S == PointCells(L) \cup CentroidReads(L)
  <2>1. Foot(L, u, i) = Uses(S, G(u) \cup T(u), {}) /\ Foot(L, w, k) = Uses(S, G(w) \cup T(w), {})
    BY <1>7, Zenon DEF Foot
  <2>2. (\A a \in S : a[1] = "points" \/ a[1] = "ro_centroids") /\ \A x :
          Of(G(x), "labels") /\ Of(T(x), "l_points")
    BY <1>2 DEF Of
  <2>3. G(u) \cap G(w) = {}
    BY LabelsApart
  <2>4. T(u) \cap T(w) = {}
    BY <1>1, StridedApart
  <2> HIDE DEF G, T, S
  <2> DEFINE P == G(u) \cup T(u)
  <2> DEFINE Q == G(w) \cup T(w)
  <2>5. Alters(Foot(L, u, i)) \subseteq P /\ Relies(Foot(L, w, k)) \subseteq S \cup Q
    BY <2>1, UsesParts
  <2>6. P \cap S = {} /\ P \cap Q = {}
    BY <2>2, <2>3, <2>4 DEF Of
  <2> HIDE DEF P, Q
  <2>7. QED
    BY <2>5, <2>6, OwnGuarded
<1>8. CASE L.kernel = "lloyd_cluster_merge"
  <2> DEFINE S == LabelCells(L) \cup PointCells(L)
  <2> DEFINE P == OwnSums(L, u)
  <2> DEFINE Q == OwnSums(L, w)
  <2>1. Foot(L, u, i) = Uses(S \cup P, P, {}) /\ Foot(L, w, k) = Uses(S \cup Q, Q, {})
    BY <1>8, Zenon DEF Foot
  <2>2. /\ \A a \in S : a[1] = "points" \/ a[1] = "labels"
        /\ \A a \in P : a[1] = "tmp_centroids" \/ a[1] = "l_centroids"
    BY <1>2 DEF Of, OwnSums
  <2>3. P \cap Q = {}
    BY SumsApart
  <2> HIDE DEF P, Q, S
  <2>4. Alters(Foot(L, u, i)) \subseteq P /\ Relies(Foot(L, w, k)) \subseteq S \cup Q
    BY <2>1, UsesParts
  <2>5. P \cap S = {}
    BY <2>2
  <2>6. QED
    BY <2>3, <2>4, <2>5, OwnGuarded
<1>9. CASE L.kernel = "lloyd_feature_sum"
  <2> DEFINE S == LabelCells(L) \cup PointCells(L)
  <2> DEFINE P == Chunk("tmp_centroids", L.C, Gid(L, u))
  <2> DEFINE Q == Chunk("tmp_centroids", L.C, Gid(L, w))
  <2>1. Foot(L, u, i) = Uses(S, P, {}) /\ Foot(L, w, k) = Uses(S, Q, {})
    BY <1>9, Zenon DEF Foot
  <2>2. (\A a \in S : a[1] = "points" \/ a[1] = "labels") /\ \A a \in P : a[1] = "tmp_centroids"
    BY <1>2 DEF Of
  <2>3. P \cap Q = {}
    BY <1>1, OwnChunkApart
  <2> HIDE DEF P, Q, S
  <2>4. Alters(Foot(L, u, i)) \subseteq P /\ Relies(Foot(L, w, k)) \subseteq S \cup Q
    BY <2>1, UsesParts
  <2>5. P \cap S = {}
    BY <2>2
  <2>6. QED
    BY <2>3, <2>4, <2>5, OwnGuarded
<1>10. CASE L.kernel = "lloyd_fused_cluster_merge"
  <2> DEFINE S == PointCells(L) \cup CentroidReads(L)
  <2> DEFINE P == FusedOwn(L, u)
  <2> DEFINE Q == FusedOwn(L, w)
  <2>1. Foot(L, u, i) = Uses(S \cup P, P, {}) /\ Foot(L, w, k) = Uses(S \cup Q, Q, {})
    BY <1>10, Zenon DEF Foot
  <2>2. /\ \A a \in S : a[1] = "points" \/ a[1] = "ro_centroids"
        /\ \A a \in P : a[1] # "points" /\ a[1] # "ro_centroids"
    <3>1. \A a \in S : a[1] = "points" \/ a[1] = "ro_centroids"
      BY <1>2 DEF Of
    <3>2. \A a \in P : a[1] # "points" /\ a[1] # "ro_centroids"
      BY FusedOwnPlaces
    <3>3. QED
      BY <3>1, <3>2
  <2>3. P \cap Q = {}
    BY FusedOwnApart
  <2> HIDE DEF P, Q, S
  <2>4. Alters(Foot(L, u, i)) \subseteq P /\ Relies(Foot(L, w, k)) \subseteq S \cup Q
    BY <2>1, UsesParts
  <2>5. P \cap S = {}
    BY <2>2
  <2>6. QED
    BY <2>3, <2>4, <2>5, OwnGuarded
<1>11. QED
  BY <1>3, <1>4, <1>5, <1>6, <1>7, <1>8, <1>9, <1>10 DEF FitsOnce

\* Nor does lloyd_feature_sum_pardim.
LEMMA TilesGuarded ==
  ASSUME NEW L, NEW sz, PointsLaunch(L), FitsPardim(L, sz),
         NEW u \in Items(L), NEW w \in Items(L), u # w, NEW i, NEW k
  PROVE  Guarded(L, u, i, w, k)
<1> DEFINE S == LabelCells(L) \cup PointCells(L)
<1> DEFINE P == OwnTile(L, u)
<1> DEFINE Q == OwnTile(L, w)
<1>1. L.kernel = "lloyd_feature_sum_pardim" /\ TileShape(L)
  BY DEF FitsPardim
<1>2. Foot(L, u, i) = Uses(S \cup P, P, {}) /\ Foot(L, w, k) = Uses(S \cup Q, Q, {})
  BY <1>1, Zenon DEF Foot
<1>3. /\ \A a \in S : a[1] = "points" \/ a[1] = "labels"
      /\ \A a \in P : a[1] = "tmp_centroids" \/ a[1] = "l_centroids"
  <2>1. /\ Of(LabelCells(L), "labels") /\ Of(PointCells(L), "points")
        /\ Of(Chunk("tmp_centroids", L.C * L.tf, TileNumber(L, u)), "tmp_centroids")
        /\ Of(Strided(L, u, "l_centroids", L.C * L.tf), "l_centroids")
    BY Buffers
  <2>2. QED
    BY <2>1 DEF Of, OwnTile
<1>4. P \cap Q = {}
  BY <1>1, TilesApart
<1> HIDE DEF P, Q, S
<1>5. Alters(Foot(L, u, i)) \subseteq P /\ Relies(Foot(L, w, k)) \subseteq S \cup Q
  BY <1>2, UsesParts
<1>6. P \cap S = {}
  BY <1>3
<1>7. QED
  BY <1>4, <1>5, <1>6, OwnGuarded

\* Items of reduce_vector_parcol_compact read cells that no other item writes.
LEMMA CompactGuarded ==
  ASSUME NEW L, ReduceLike(L), L.kernel = "reduce_vector_parcol_compact",
         NEW u \in Items(L), NEW w \in Items(L), u # w, NEW i, NEW k
  PROVE  Guarded(L, u, i, w, k)
<1> DEFINE P == {Glob(L.buf, Gid(L, u))}
<1> DEFINE R == {Glob(L.buf, n) : n \in ReduceMine(L, w)}
<1> DEFINE W == {Glob(L.buf, Gid(L, w))}
<1>1. /\ Foot(L, u, i) = Uses({Glob(L.buf, n) : n \in ReduceMine(L, u)}, P, {})
      /\ Foot(L, w, k) = Uses(R, W, {})
  BY Zenon DEF Foot
<1>2. L.groups \in Nat \ {0} /\ L.local \in Nat \ {0}
  BY DEF ReduceLike
<1> DEFINE x == Gid(L, u)
<1> DEFINE y == Gid(L, w)
<1> DEFINE n == L.groups * L.local
<1>3. n \in Nat \ {0} /\ x \in 0 .. n - 1 /\ y \in 0 .. n - 1
  BY <1>2, GidTyped
<1>4. x # y
  BY <1>2, GidUnique
<1>5. x \notin ReduceMine(L, w)
  <2>1. SUFFICES ASSUME x \in ReduceMine(L, w) PROVE FALSE
    OBVIOUS
  <2>2. x - y \in Nat /\ (x - y) % n = 0
    <3>1. x >= y /\ (x - y) % n = 0
      BY <1>3, <2>1 DEF ReduceMine
    <3> HIDE DEF x, y, n
    <3>2. QED
      BY <1>3, <3>1
  <2> HIDE DEF x, y, n
  <2>3. x - y \in 0 .. n - 1
    BY <1>3, <2>2
  <2>4. (x - y) % n = x - y
    <3> DEFINE z == x - y
    <3>1. z \in 0 .. n - 1 /\ z \in Int /\ z = n * 0 + z
      BY <1>3, <2>3
    <3> HIDE DEF z
    <3>2. z % n = z
      BY <1>3, <3>1, DivModUnique
    <3>3. QED
      BY <3>2 DEF z
  <2>5. QED
    BY <1>3, <1>4, <2>2, <2>4
<1>6. \A v : Glob(L.buf, x) = Glob(L.buf, v) => x = v
  BY DEF Glob
<1> HIDE DEF x, y, n
<1>7. P \cap R = {} /\ P \cap W = {}
  BY <1>4, <1>5, <1>6 DEF x, y
<1> HIDE DEF P, R, W
<1>8. Alters(Foot(L, u, i)) \subseteq P /\ Relies(Foot(L, w, k)) \subseteq R \cup W
  BY <1>1, UsesParts
<1>9. QED
  BY <1>7, <1>8, OwnGuarded

\* In reduce_vector_parcol_inner a barrier ends every round.
LEMMA InnerGuarded ==
  ASSUME NEW L, ReduceLike(L), L.kernel = "reduce_vector_parcol_inner", L.groups = 1,
         "l_data" \in DOMAIN L.locals, GlobalName(L, L.buf),
         NEW u \in Items(L), NEW w \in Items(L), u # w, NEW i \in Nat, NEW k \in Nat
  PROVE  Guarded(L, u, i, w, k)
<1>1. Foot(L, u, i) = Uses(InnerReads(L, u, i), InnerWrites(L, u, i), {})
      /\ Foot(L, w, k) = Uses(InnerReads(L, w, k), InnerWrites(L, w, k), {})
  BY Zenon DEF Foot
<1>2. L.local \in Nat \ {0} /\ L.rows \in Nat
  BY DEF ReduceLike
<1>3. u[1] = 0 /\ w[1] = 0 /\ u[2] \in 0 .. L.local - 1 /\ w[2] \in 0 .. L.local - 1 /\ u[2] # w[2]
  BY DEF Items
<1>4. L.buf # "l_data"
  BY DEF GlobalName
<1>5. SUFFICES ASSUME NEW a \in InnerWrites(L, u, i),
                      a \in InnerReads(L, w, k) \/ a \in InnerWrites(L, w, k),
                      ~(a[1] = "l_data" /\ i # k)
               PROVE  FALSE
  <2>1. SUFFICES ASSUME NEW a \in Alters(Foot(L, u, i)) \cap Relies(Foot(L, w, k))
                 PROVE  u[1] = w[1] /\ OrderedIn(L, a, i, k)
    BY DEF Guarded
  <2>2. a \in InnerWrites(L, u, i) /\ (a \in InnerReads(L, w, k) \/ a \in InnerWrites(L, w, k))
    BY <1>1, <2>1, UsesParts
  <2>3. a[1] = "l_data" /\ i # k
    BY <1>5, <2>2
  <2>4. QED
    BY <1>3, <2>3 DEF OrderedIn, LocalBuffers
<1>6. \A x \in Items(L) :
        /\ \A b \in InnerLoads(L, x) \cup InnerStores(L, x) :
             b[1] = L.buf /\ b[3] % L.local = x[2]
        /\ \A n : \A b \in InnerShare(L, x, n) : b[1] = "l_data" /\ b[3] % L.local = x[2]
        /\ \A j : \A b \in InnerAdds(L, x, j) :
             b[1] = "l_data" /\ b[3] = x[2] /\ b[3] \in 0 .. Half(L, j) - 1
        /\ \A j : \A b \in InnerOthers(L, x, j) : b[1] = "l_data" /\ b[3] = Half(L, j) + x[2]
  BY DEF InnerLoads, InnerStores, InnerShare, InnerAdds, InnerOthers, InnerTurn, CopyShare, Glob,
     Loc
<1>7. CASE a[1] = L.buf
  <2>1. a \in InnerStores(L, u)
    BY <1>4, <1>5, <1>6, <1>7 DEF InnerWrites
  <2>2. a \in InnerLoads(L, w) \/ a \in InnerStores(L, w)
    BY <1>4, <1>5, <1>6, <1>7 DEF InnerWrites, InnerReads
  <2>3. QED
    BY <1>3, <1>6, <2>1, <2>2
<1>8. CASE a[1] = "l_data" /\ i = k
  <2>1. CASE i = 0
    <3>1. a \in InnerShare(L, u, 2 * L.local)
            /\ (a \in InnerShare(L, w, 2 * L.local) \/ a \in InnerLoads(L, w))
      BY <1>5, <1>8, <2>1, Zenon DEF InnerWrites, InnerReads
    <3>2. QED
      BY <1>3, <1>4, <1>6, <3>1
  <2>2. CASE i # 0 /\ i > ReduceRounds(L)
    <3>1. a \in InnerStores(L, u)
      BY <1>5, <2>2, Zenon DEF InnerWrites
    <3>2. QED
      BY <1>4, <1>6, <1>8, <3>1
  <2>3. CASE i # 0 /\ ~(i > ReduceRounds(L))
    <3>1. a \in InnerAdds(L, u, i) /\ (a \in InnerAdds(L, w, i) \/ a \in InnerOthers(L, w, i))
      BY <1>5, <1>8, <2>3 DEF InnerWrites, InnerReads
    <3>2. Half(L, i) \in Nat
      BY HalfIn
    <3>3. QED
      BY <1>3, <1>6, <3>1, <3>2
  <2>4. QED
    BY <2>1, <2>2, <2>3
<1>9. a[1] = L.buf \/ a[1] = "l_data"
  BY <1>5, <1>6, Zenon DEF InnerWrites
<1>10. QED
  BY <1>5, <1>7, <1>8, <1>9

\* Items of the kernels over matrices share no cell that one of them writes.
LEMMA CellsGuarded ==
  ASSUME NEW L, NEW sz, FitsCells(L, sz), NEW u \in Items(L), NEW w \in Items(L), u # w, NEW i,
         NEW k
  PROVE  Guarded(L, u, i, w, k)
<1>1. CellsLike(L) /\ L.fst # L.snd
  BY DEF FitsCells, CellsLike
<1>2. \A x \in Items(L) : /\ Gid(L, x) = x[1] /\ x[2] = 0
                          /\ x[1] = L.cols * Gid0(L, x) + Gid1(L, x)
                          /\ Gid0(L, x) \in 0 .. L.rows - 1 /\ Gid1(L, x) \in Int
  BY <1>1, CellNumbers
<1>3. u[1] # w[1]
  BY <1>2 DEF Items
<1>4. CASE L.kernel = "matrix_matrix"
  <2> DEFINE P == {Glob(L.fst, Gid(L, u))}
  <2> DEFINE Q == {Glob(L.fst, Gid(L, w))}
  <2> DEFINE S == {Glob(L.snd, Gid(L, w))}
  <2>1. /\ Foot(L, u, i) = Uses({Glob(L.snd, Gid(L, u)), Glob(L.fst, Gid(L, u))}, P, {})
        /\ Foot(L, w, k) = Uses({Glob(L.snd, Gid(L, w)), Glob(L.fst, Gid(L, w))}, Q, {})
    BY <1>4, Zenon DEF Foot
  <2>2. P \cap Q = {} /\ P \cap S = {}
    BY <1>1, <1>2, <1>3 DEF Glob
  <2>3. {Glob(L.snd, Gid(L, w)), Glob(L.fst, Gid(L, w))} = S \cup Q
    OBVIOUS
  <2> HIDE DEF P, Q, S
  <2>4. Alters(Foot(L, u, i)) \subseteq P /\ Relies(Foot(L, w, k)) \subseteq S \cup Q
    BY <2>1, <2>3, UsesParts
  <2>5. QED
    BY <2>2, <2>4, OwnGuarded
<1>5. CASE L.kernel = "matrix_row_vector"
  <2> DEFINE P == {MatrixCell(L, u)}
  <2> DEFINE Q == {MatrixCell(L, w)}
  <2> DEFINE S == {Glob(L.snd, Gid0(L, w))}
  <2>1. /\ Foot(L, u, i) = Uses({MatrixCell(L, u), Glob(L.snd, Gid0(L, u))}, P, {})
        /\ Foot(L, w, k) = Uses({MatrixCell(L, w), Glob(L.snd, Gid0(L, w))}, Q, {})
    BY <1>5, Zenon DEF Foot
  <2>2. P \cap S = {}
    BY <1>1 DEF Glob, MatrixCell
  <2>3. P \cap Q = {}
    <3> DEFINE r == L.rows
    <3> DEFINE c == L.cols
    <3> DEFINE x0 == Gid0(L, u)
    <3> DEFINE x1 == Gid1(L, u)
    <3> DEFINE y0 == Gid0(L, w)
    <3> DEFINE y1 == Gid1(L, w)
    <3>1. /\ x0 \in 0 .. r - 1 /\ y0 \in 0 .. r - 1 /\ x1 \in Int /\ y1 \in Int /\ r \in Nat \ {0}
          /\ c \in Nat
          /\ u[1] = c * x0 + x1 /\ w[1] = c * y0 + y1
      BY <1>1, <1>2 DEF CellsLike
    <3>2. MatrixCell(L, u) = Glob(L.fst, r * x1 + x0) /\ MatrixCell(L, w) = Glob(L.fst, r * y1 + y0)
      BY DEF MatrixCell
    <3> HIDE DEF r, c, x0, x1, y0, y1
    <3> DEFINE p == r * x1 + x0
    <3> DEFINE q == r * y1 + y0
    <3>3. p \in Int /\ q \in Int
      BY <3>1
    <3>4. p \div r = x1 /\ p % r = x0
      BY <3>1, <3>3, DivModUnique
    <3>5. q \div r = y1 /\ q % r = y0
      BY <3>1, <3>3, DivModUnique
    <3> HIDE DEF p, q
    <3>6. p = q => x1 = y1 /\ x0 = y0
      BY <3>4, <3>5
    <3>7. p # q
      BY <1>3, <3>1, <3>6
    <3>8. Glob(L.fst, p) # Glob(L.fst, q)
      BY <3>7 DEF Glob
    <3>9. QED
      BY <3>2, <3>8 DEF p, q
  <2>4. {MatrixCell(L, w), Glob(L.snd, Gid0(L, w))} = S \cup Q
    OBVIOUS
  <2> HIDE DEF P, Q, S
  <2>5. Alters(Foot(L, u, i)) \subseteq P /\ Relies(Foot(L, w, k)) \subseteq S \cup Q
    BY <2>1, <2>4, UsesParts
  <2>6. QED
    BY <2>2, <2>3, <2>5, OwnGuarded
<1>6. QED
  BY <1>4, <1>5 DEF FitsCells

-----------------------------------------------------------------------------
(***************************************************************************)
(* Races in the fused feature sum                                          *)
(***************************************************************************)
\* The fused feature sum.
LEMMA TileUnique ==
  ASSUME NEW L, PointsLaunch(L), FusedShape(L), NEW u \in Items(L), NEW w \in Items(L), u[1] = w[1],
         TileOf(L, u) = TileOf(L, w), u[2] % TileBlock(L) = w[2] % TileBlock(L)
  PROVE  u = w
<1> DEFINE b == TileBlock(L)
<1> DEFINE x == u[2]
<1> DEFINE y == w[2]
<1>1. b \in Nat \ {0} /\ x \in Int /\ y \in Int
  BY DEF FusedShape, Items
<1>2. x \div b = y \div b /\ x % b = y % b
  BY DEF TileOf
<1> HIDE DEF b, x, y
<1>3. x = b * (x \div b) + (x % b)
  BY <1>1, DivMod
<1>4. y = b * (y \div b) + (y % b)
  BY <1>1, DivMod
<1>5. x = y
  BY <1>2, <1>3, <1>4
<1>6. QED
  BY <1>5 DEF x, y, Items

\* The number of a tile tells its group and its place in the group.
LEMMA TileRankUnique ==
  ASSUME NEW L, PointsLaunch(L), FusedShape(L), NEW u \in Items(L), NEW w \in Items(L),
         u[1] * TileBlocks(L) + TileOf(L, u) = w[1] * TileBlocks(L) + TileOf(L, w)
  PROVE  u[1] = w[1] /\ TileOf(L, u) = TileOf(L, w)
<1> DEFINE b == TileBlocks(L)
<1> DEFINE x == u[1]
<1> DEFINE y == w[1]
<1> DEFINE r == TileOf(L, u)
<1> DEFINE s == TileOf(L, w)
<1>1. b \in Nat \ {0} /\ x \in Int /\ y \in Int /\ r \in 0 .. b - 1 /\ s \in 0 .. b - 1
  BY TileTyped DEF FusedShape, Items
<1>2. x * b + r = y * b + s
  OBVIOUS
<1> HIDE DEF b, x, y, r, s
<1> DEFINE p == b * x + r
<1> DEFINE q == b * y + s
<1>3. p \in Int /\ q \in Int /\ p = q
  <2>1. x * b = b * x /\ y * b = b * y /\ b * x \in Int /\ b * y \in Int
    BY <1>1
  <2>2. QED
    BY <1>1, <1>2, <2>1
<1>4. p \div b = x /\ p % b = r
  BY <1>1, <1>3, DivModUnique
<1>5. q \div b = y /\ q % b = s
  BY <1>1, <1>3, DivModUnique
<1> HIDE DEF p, q
<1>6. x = y /\ r = s
  BY <1>3, <1>4, <1>5
<1>7. QED
  BY <1>6 DEF x, y, r, s

\* The tiles of two items have no cell in common.
LEMMA TileLocalApart ==
  ASSUME NEW L, PointsLaunch(L), FusedShape(L), NEW u \in Items(L), NEW w \in Items(L),
         NEW a \in TileLocal(L, u), a \in TileLocal(L, w)
  PROVE  u = w
<1> DEFINE F == L.F
<1> DEFINE B == TileBlocks(L)
<1> DEFINE s == TileOf(L, u)
<1> DEFINE t == TileOf(L, w)
<1>1. PICK x \in Clusters(L) \X TileFeatures(L, u) : a = TileCell(L, u, x)
  BY DEF TileLocal
<1>2. PICK y \in Clusters(L) \X TileFeatures(L, w) : a = TileCell(L, w, y)
  BY DEF TileLocal
<1> DEFINE c == x[1]
<1> DEFINE f == x[2]
<1> DEFINE d == y[1]
<1> DEFINE g == y[2]
<1>3. u[1] = w[1] /\ F * B * c + F * s + f = F * B * d + F * t + g
  BY <1>1, <1>2 DEF TileCell, Loc
<1>4. /\ F \in Nat \ {0} /\ B \in Nat \ {0} /\ s \in 0 .. B - 1 /\ t \in 0 .. B - 1
      /\ c \in Int /\ d \in Int /\ f \in 0 .. F - 1 /\ g \in 0 .. F - 1
      /\ f % TileBlock(L) = u[2] % TileBlock(L) /\ g % TileBlock(L) = w[2] % TileBlock(L)
  BY TileTyped DEF PointsLaunch, FusedShape, TileFeatures, Features, Clusters
<1>5. s = t /\ f = g
  <2> HIDE DEF F, B, s, t, c, f, d, g
  <2> DEFINE m == B * c + s
  <2> DEFINE n == B * d + t
  <2>1. m \in Int /\ n \in Int
    BY <1>4
  <2>2. F * B * c + F * s + f = F * m + f /\ F * B * d + F * t + g = F * n + g
    BY <1>4
  <2>3. m \div B = c /\ m % B = s
    BY <1>4, <2>1, DivModUnique
  <2>4. n \div B = d /\ n % B = t
    BY <1>4, <2>1, DivModUnique
  <2> HIDE DEF m, n
  <2>5. F * m + f = F * n + g
    BY <1>3, <2>2
  <2>6. m = n /\ f = g
    BY <1>4, <2>1, <2>5, SameDivision
  <2>7. QED
    BY <2>3, <2>4, <2>6
<1>6. QED
  BY <1>3, <1>4, <1>5, TileUnique

\* The same chunk of the temporary sums.
LEMMA SameChunk ==
  ASSUME NEW L, PointsLaunch(L), FusedShape(L), NEW u \in Items(L), NEW w \in Items(L),
         NEW a, a \in TileGlobal(L, u) \cup ZeroGlobal(L, u),
         a \in TileGlobal(L, w) \cup ZeroGlobal(L, w)
  PROVE  u[1] = w[1] /\ TileOf(L, u) = TileOf(L, w) /\ TileOffset(L, u) = TileOffset(L, w)
<1> DEFINE k == u[1] * TileBlocks(L) + TileOf(L, u)
<1> DEFINE l == w[1] * TileBlocks(L) + TileOf(L, w)
<1> DEFINE n == L.C * L.F
<1>1. n \in Nat
  BY DEF PointsLaunch
<1>2. k \in Int /\ l \in Int
  BY TileTyped DEF FusedShape, Items
<1>3. a \in Chunk(L.out, n, k) /\ a \in Chunk(L.out, n, l)
  BY TileCellsIn
<1> HIDE DEF n, k, l
<1>4. k = l
  BY <1>1, <1>2, <1>3, ChunkApart
<1>5. u[1] = w[1] /\ TileOf(L, u) = TileOf(L, w)
  BY <1>4, TileRankUnique DEF k, l
<1>6. QED
  BY <1>5 DEF TileOffset

\* Items have different parts of the sums to copy out.
LEMMA TileGlobalApart ==
  ASSUME NEW L, PointsLaunch(L), FusedShape(L), NEW u \in Items(L), NEW w \in Items(L),
         NEW a \in TileGlobal(L, u), a \in TileGlobal(L, w)
  PROVE  u = w
<1>1. PICK x \in Clusters(L) \X TileFeatures(L, u) : a = Glob(L.out, TileOffset(L, u) + Cell(L, x))
  BY DEF TileGlobal
<1>2. PICK y \in Clusters(L) \X TileFeatures(L, w) : a = Glob(L.out, TileOffset(L, w) + Cell(L, y))
  BY DEF TileGlobal
<1>3. u[1] = w[1] /\ TileOf(L, u) = TileOf(L, w) /\ TileOffset(L, u) = TileOffset(L, w)
  BY SameChunk
<1> DEFINE C == L.C
<1> DEFINE c == x[1]
<1> DEFINE f == x[2]
<1> DEFINE d == y[1]
<1> DEFINE g == y[2]
<1> DEFINE o == TileOffset(L, u)
<1>4. /\ C \in Nat \ {0} /\ c \in 0 .. C - 1 /\ d \in 0 .. C - 1 /\ f \in Int /\ g \in Int
      /\ o \in Int
      /\ f % TileBlock(L) = u[2] % TileBlock(L) /\ g % TileBlock(L) = w[2] % TileBlock(L)
  <2>1. L.C * L.F \in Int /\ u[1] * TileBlocks(L) + TileOf(L, u) \in Int
    BY TileTyped DEF PointsLaunch, FusedShape, Items
  <2>2. o \in Int
    BY <2>1 DEF TileOffset
  <2>3. QED
    BY <2>2 DEF PointsLaunch, TileFeatures, Features, Clusters
<1>5. o + (C * f + c) = o + (C * g + d)
  BY <1>1, <1>2, <1>3 DEF Glob, Cell
<1>6. f = g
  <2> HIDE DEF C, c, f, d, g, o
  <2> DEFINE p == C * f + c
  <2> DEFINE q == C * g + d
  <2>1. p \in Int /\ q \in Int /\ p = q
    <3>1. C * f \in Int /\ C * g \in Int
      BY <1>4
    <3>2. QED
      BY <1>4, <1>5, <3>1
  <2>2. p \div C = f
    BY <1>4, <2>1, DivModUnique
  <2>3. q \div C = g
    BY <1>4, <2>1, DivModUnique
  <2> HIDE DEF p, q
  <2>4. QED
    BY <2>1, <2>2, <2>3
<1>7. QED
  BY <1>3, <1>4, <1>6, TileUnique

\* Items have different parts of the sums to reset.
LEMMA ZerosApart ==
  ASSUME NEW L, PointsLaunch(L), FusedShape(L), NEW u \in Items(L), NEW w \in Items(L), NEW a
  PROVE  /\ a \in ZeroLocal(L, u) /\ a \in ZeroLocal(L, w) => u = w
         /\ a \in ZeroGlobal(L, u) /\ a \in ZeroGlobal(L, w) => u = w
<1>1. ASSUME a \in ZeroLocal(L, u), a \in ZeroLocal(L, w) PROVE u = w
  BY <1>1 DEF ZeroLocal, Loc, Items
<1>2. ASSUME a \in ZeroGlobal(L, u), a \in ZeroGlobal(L, w) PROVE u = w
  <2> DEFINE b == TileBlock(L)
  <2> DEFINE o == TileOffset(L, u)
  <2>1. u[1] = w[1] /\ TileOf(L, u) = TileOf(L, w) /\ TileOffset(L, u) = TileOffset(L, w)
    BY <1>2, SameChunk
  <2>2. PICK i \in 0 .. L.F * L.C - 1 : a = Glob(L.out, o + i) /\ i % b = u[2] % b
    BY <1>2 DEF ZeroGlobal
  <2>3. PICK k \in 0 .. L.F * L.C - 1 : a = Glob(L.out, o + k) /\ k % b = w[2] % b
    BY <1>2, <2>1 DEF ZeroGlobal
  <2>4. o \in Int
    <3>1. L.C * L.F \in Int /\ u[1] * TileBlocks(L) + TileOf(L, u) \in Int
      BY TileTyped DEF PointsLaunch, FusedShape, Items
    <3>2. QED
      BY <3>1 DEF TileOffset
  <2>5. i \in Int /\ k \in Int /\ o + i = o + k
    <3>1. i \in Int /\ k \in Int
      OBVIOUS
    <3>2. o + i = o + k
      BY <2>2, <2>3 DEF Glob
    <3>3. QED
      BY <3>1, <3>2
  <2> HIDE DEF o, b
  <2>6. i = k
    BY <2>4, <2>5
  <2>7. u[2] % b = w[2] % b
    BY <2>2, <2>3, <2>6
  <2>8. QED
    BY <2>1, <2>7, TileUnique DEF b
<1>3. QED
  BY <1>1, <1>2

\* Items have labels and masses of their own.
LEMMA MineApart ==
  ASSUME NEW L, PointsLaunch(L), Linear(L), NEW u \in Items(L), NEW w \in Items(L),
         NEW a \in FusedMine(L, u), a \in FusedMine(L, w)
  PROVE  u = w
<1> DEFINE S1(x) == LabelReads(L, Lanes(L, x))
<1> DEFINE S3(x) == Chunk("new_masses", L.C, Gid(L, x))
<1> DEFINE S4(x) == Strided(L, x, "l_labels", 1)
<1> DEFINE S5(x) == Strided(L, x, "l_masses", L.C)
<1> DEFINE S6(x) == Strided(L, x, "l_points", L.F)
<1>1. 1 \in Nat /\ L.C \in Nat /\ L.F \in Nat /\ L.local \in Nat \ {0} /\ L.groups \in Nat \ {0}
  BY DEF PointsLaunch
<1>2. \A x : /\ Of(S1(x), "labels") /\ Of(S3(x), "new_masses")
             /\ Of(S4(x), "l_labels") /\ Of(S5(x), "l_masses") /\ Of(S6(x), "l_points")
  BY Buffers
<1>3. \A x : FusedMine(L, x) = S1(x) \cup S3(x) \cup S5(x) \cup S6(x) \cup S4(x)
  BY DEF FusedMine
<1>4. a \in S1(u) /\ a \in S1(w) => u = w
  BY LabelsApart
<1>5. a \in S3(u) /\ a \in S3(w) => u = w
  BY <1>1, OwnChunkApart
<1>6. /\ (a \in S4(u) /\ a \in S4(w) => u = w) /\ (a \in S5(u) /\ a \in S5(w) => u = w)
      /\ (a \in S6(u) /\ a \in S6(w) => u = w)
  BY <1>1, StridedApart
<1> HIDE DEF S1, S3, S4, S5, S6
<1>7. QED
  BY <1>2, <1>3, <1>4, <1>5, <1>6 DEF Of

\* The sets of the fused feature sum, by their buffers.
LEMMA FusedBuffers ==
  ASSUME NEW L, L.out = "tmp_new_centroids", NEW w
  PROVE  /\ Of(TileLocal(L, w), "l_centroids") /\ Of(ZeroLocal(L, w), "l_centroids")
         /\ Of(TileGlobal(L, w), "tmp_new_centroids") /\ Of(ZeroGlobal(L, w), "tmp_new_centroids")
         /\ Of(GroupLabels(L, w), "l_labels") /\ Of(GroupPoints(L, w), "l_points")
         /\ \A a \in FusedMine(L, w) :
              a[1] \in {"labels", "new_masses", "l_masses", "l_points", "l_labels"}
<1>1. /\ Of(LabelReads(L, Lanes(L, w)), "labels")
      /\ Of(Chunk("new_masses", L.C, Gid(L, w)), "new_masses")
      /\ Of(Strided(L, w, "l_masses", L.C), "l_masses")
      /\ Of(Strided(L, w, "l_points", L.F), "l_points")
      /\ Of(Strided(L, w, "l_labels", 1), "l_labels")
  BY Buffers
<1>2. \A a \in FusedMine(L, w) :
        a[1] \in {"labels", "new_masses", "l_masses", "l_points", "l_labels"}
  BY <1>1 DEF FusedMine, Of
<1>3. QED
  BY <1>2 DEF Of, TileLocal, ZeroLocal, TileGlobal, ZeroGlobal, GroupLabels, GroupPoints,
     TileCell, Glob, Loc

\* Local cells carry the number of their group.
LEMMA FusedGroups ==
  ASSUME NEW L, NEW w
  PROVE  /\ \A a \in TileLocal(L, w) \cup ZeroLocal(L, w) \cup GroupLabels(L, w)
              \cup GroupPoints(L, w) : a[2] = w[1]
         /\ L.out = "tmp_new_centroids" =>
              \A a \in FusedMine(L, w) : a[1] \in {"l_points", "l_labels"} => a[2] = w[1]
<1>1. \A a \in TileLocal(L, w) \cup ZeroLocal(L, w) \cup GroupLabels(L, w) \cup GroupPoints(L, w) :
        a[2] = w[1]
  BY DEF TileLocal, ZeroLocal, GroupLabels, GroupPoints, TileCell, Loc
<1>2. /\ \A a \in LabelReads(L, Lanes(L, w)) : a[1] = "labels"
      /\ \A a \in Chunk("new_masses", L.C, Gid(L, w)) : a[1] = "new_masses"
  BY Buffers DEF Of
<1>3. /\ \A a \in Strided(L, w, "l_masses", L.C) : a[2] = w[1]
      /\ \A a \in Strided(L, w, "l_points", L.F) : a[2] = w[1]
      /\ \A a \in Strided(L, w, "l_labels", 1) : a[2] = w[1]
  BY DEF Strided, Loc
<1>4. QED
  BY <1>1, <1>2, <1>3 DEF FusedMine

\* The sums an item resets, and what nobody writes.
Zeroed(L, w) == IF L.lmem THEN ZeroLocal(L, w) ELSE ZeroGlobal(L, w)
Shared(L) == PointCells(L) \cup CentroidReads(L)

\* The kinds of intervals of lloyd_fused_feature_sum and the cells of each.
LEMMA FusedFeet ==
  ASSUME NEW L, L.kernel = "lloyd_fused_feature_sum", NEW w, NEW j, NEW a
  PROVE  LET f == Foot(L, w, j)
             late == j # 0 /\ j > Turns(L, w)
             odd == j # 0 /\ ~(j > Turns(L, w)) /\ j % 2 = 1
             even == j # 0 /\ ~(j > Turns(L, w)) /\ j % 2 # 1
         IN  /\ a \in Alters(f) =>
                  \/ a \in FusedMine(L, w) /\ ~even
                  \/ a \in Zeroed(L, w) /\ j = 0
                  \/ a \in TileGlobal(L, w) /\ late
                  \/ a \in Tile(L, w) /\ even
             /\ a \in Relies(f) =>
                  \/ a \in FusedMine(L, w) /\ ~even
                  \/ a \in Zeroed(L, w) /\ j = 0
                  \/ a \in TileGlobal(L, w) \cup TileLocal(L, w) /\ late
                  \/ a \in Tile(L, w) /\ even
                  \/ a \in GroupLabels(L, w) \cup GroupPoints(L, w) /\ even
                  \/ a \in Shared(L)
<1> DEFINE f == Foot(L, w, j)
<1> DEFINE R == FusedReads(L, w, j)
<1> DEFINE W == FusedWrites(L, w, j)
<1>1. f = Uses(R, W, {})
  BY Zenon DEF Foot
<1>2. Alters(f) = W \cup {} /\ Relies(f) = R \cup W
  <2> HIDE DEF R, W, f
  <2>1. QED
    BY <1>1, UsesParts
<1> HIDE DEF f
<1>3. CASE j = 0
  <2>1. R = {} /\ W = FusedMine(L, w) \cup Zeroed(L, w)
    BY <1>3, Zenon DEF FusedReads, FusedWrites, Zeroed
  <2> HIDE DEF R, W
  <2>2. QED
    BY <1>2, <1>3, <2>1 DEF f
<1>4. CASE j # 0 /\ j > Turns(L, w)
  <2>1. R = FusedMine(L, w) \cup TileLocal(L, w) /\ W = FusedMine(L, w) \cup TileGlobal(L, w)
    BY <1>4, Zenon DEF FusedReads, FusedWrites
  <2> HIDE DEF R, W
  <2>2. QED
    BY <1>2, <1>4, <2>1 DEF f
<1>5. CASE j # 0 /\ ~(j > Turns(L, w)) /\ j % 2 = 1
  <2>1. R = PointCells(L) \cup CentroidReads(L) \cup FusedMine(L, w) /\ W = FusedMine(L, w)
    BY <1>5, Zenon DEF FusedReads, FusedWrites
  <2> HIDE DEF R, W
  <2>2. QED
    BY <1>2, <1>5, <2>1 DEF f, Shared
<1>6. CASE j # 0 /\ ~(j > Turns(L, w)) /\ j % 2 # 1
  <2>1. R = GroupLabels(L, w) \cup GroupPoints(L, w) \cup PointCells(L) \cup Tile(L, w)
          /\ W = Tile(L, w)
    BY <1>6, Zenon DEF FusedReads, FusedWrites
  <2> HIDE DEF R, W
  <2>2. QED
    BY <1>2, <1>6, <2>1 DEF f, Shared
<1>7. QED
  BY <1>3, <1>4, <1>5, <1>6

\* Its barriers are between labelling and adding, resetting and adding, adding and copying out.
LEMMA FusedGuarded ==
  ASSUME NEW L, PointsLaunch(L), FusedShape(L), L.kernel = "lloyd_fused_feature_sum",
         L.out = "tmp_new_centroids",
         {"l_centroids", "l_points", "l_labels"} \subseteq DOMAIN L.locals,
         NEW u \in Items(L), NEW w \in Items(L), u # w, NEW i \in Nat, NEW k \in Nat
  PROVE  Guarded(L, u, i, w, k)
<1>1. SUFFICES ASSUME NEW a \in Alters(Foot(L, u, i)) \cap Relies(Foot(L, w, k))
               PROVE  u[1] = w[1] /\ OrderedIn(L, a, i, k)
  BY DEF Guarded
<1>2. Linear(L)
  BY DEF FusedShape
<1>3. u[1] = w[1] => Turns(L, u) = Turns(L, w)
  BY DEF Turns, GroupOffsets
<1> DEFINE evenU == i # 0 /\ ~(i > Turns(L, u)) /\ i % 2 # 1
<1> DEFINE lateU == i # 0 /\ i > Turns(L, u)
<1> DEFINE evenW == k # 0 /\ ~(k > Turns(L, w)) /\ k % 2 # 1
<1> DEFINE lateW == k # 0 /\ k > Turns(L, w)
<1>4. \/ a \in FusedMine(L, u) /\ ~evenU
      \/ a \in Zeroed(L, u) /\ i = 0
      \/ a \in TileGlobal(L, u) /\ lateU
      \/ a \in Tile(L, u) /\ evenU
  BY <1>1, FusedFeet
<1>5. \/ a \in FusedMine(L, w) /\ ~evenW
      \/ a \in Zeroed(L, w) /\ k = 0
      \/ a \in TileGlobal(L, w) \cup TileLocal(L, w) /\ lateW
      \/ a \in Tile(L, w) /\ evenW
      \/ a \in GroupLabels(L, w) \cup GroupPoints(L, w) /\ evenW
      \/ a \in Shared(L)
  BY <1>1, FusedFeet
<1>6. \A x :
        /\ \A b \in FusedMine(L, x) :
             b[1] \in {"labels", "new_masses", "l_masses", "l_points", "l_labels"}
        /\ \A b \in TileLocal(L, x) \cup ZeroLocal(L, x) : b[1] = "l_centroids"
        /\ \A b \in TileGlobal(L, x) \cup ZeroGlobal(L, x) : b[1] = "tmp_new_centroids"
        /\ \A b \in GroupLabels(L, x) \cup GroupPoints(L, x) : b[1] \in {"l_labels", "l_points"}
  BY FusedBuffers DEF Of
<1>7. \A b \in Shared(L) : b[1] \in {"points", "ro_centroids"}
  <2>1. Of(PointCells(L), "points") /\ Of(CentroidReads(L), "ro_centroids")
    BY Buffers
  <2>2. QED
    BY <2>1 DEF Of, Shared
<1>8. \A x : /\ \A b \in Zeroed(L, x) : b[1] \in {"l_centroids", "tmp_new_centroids"}
             /\ \A b \in Tile(L, x) : b[1] \in {"l_centroids", "tmp_new_centroids"}
  BY <1>6 DEF Zeroed, Tile
<1>9. CASE a \in FusedMine(L, u)
  <2>1. CASE a \in FusedMine(L, w)
    BY <1>2, <1>9, <2>1, MineApart
  <2>2. CASE a \in GroupLabels(L, w) \cup GroupPoints(L, w) /\ evenW
    <3>1. a[1] \in {"l_labels", "l_points"}
      BY <1>6, <2>2
    <3>2. a[2] = u[1] /\ a[2] = w[1]
      BY <1>9, <2>2, <3>1, FusedGroups
    <3>3. a \notin Zeroed(L, u) /\ a \notin TileGlobal(L, u) /\ a \notin Tile(L, u)
      BY <1>6, <1>8, <3>1
    <3>4. ~evenU
      BY <1>4, <3>3
    <3>5. i # k
      BY <1>3, <2>2, <3>2, <3>4
    <3>6. QED
      BY <3>1, <3>2, <3>5 DEF OrderedIn, LocalBuffers
  <2>3. a \in FusedMine(L, w) \/ (a \in GroupLabels(L, w) \cup GroupPoints(L, w) /\ evenW)
    BY <1>5, <1>6, <1>7, <1>8, <1>9
  <2>4. QED
    BY <2>1, <2>2, <2>3
<1>10. CASE a \notin FusedMine(L, u)
  <2>1. a[1] \in {"l_centroids", "tmp_new_centroids"}
    BY <1>4, <1>6, <1>8, <1>10
  <2>2. \/ a \in Zeroed(L, w) /\ k = 0
        \/ a \in TileGlobal(L, w) \cup TileLocal(L, w) /\ k # 0
    BY <1>5, <1>6, <1>7, <2>1 DEF Tile
  <2>3. \/ a \in Zeroed(L, u) /\ i = 0
        \/ a \in TileGlobal(L, u) \cup TileLocal(L, u) /\ i # 0
    BY <1>4, <1>10 DEF Tile
  <2>4. CASE a \in Zeroed(L, u) /\ a \in Zeroed(L, w)
    BY <2>4, ZerosApart DEF Zeroed
  <2>5. CASE a \in TileGlobal(L, u) \cup TileLocal(L, u)
               /\ a \in TileGlobal(L, w) \cup TileLocal(L, w)
    <3>1. \/ a \in TileGlobal(L, u) /\ a \in TileGlobal(L, w)
          \/ a \in TileLocal(L, u) /\ a \in TileLocal(L, w)
      BY <1>6, <2>5
    <3>2. QED
      BY <3>1, TileGlobalApart, TileLocalApart
  <2>6. CASE \/ a \in Zeroed(L, u) /\ i = 0 /\ k # 0 /\ a \in TileGlobal(L, w) \cup TileLocal(L, w)
             \/ a \in Zeroed(L, w) /\ k = 0 /\ i # 0 /\ a \in TileGlobal(L, u) \cup TileLocal(L, u)
    <3>1. i # k
      BY <2>6
    <3>2. CASE a[1] = "l_centroids"
      <4>1. /\ a \in ZeroLocal(L, u) \cup TileLocal(L, u)
            /\ a \in ZeroLocal(L, w) \cup TileLocal(L, w)
        BY <1>6, <2>6, <3>2 DEF Zeroed
      <4>2. u[1] = w[1]
        BY <4>1, FusedGroups
      <4>3. QED
        BY <3>1, <3>2, <4>2 DEF OrderedIn, LocalBuffers
    <3>3. CASE a[1] = "tmp_new_centroids"
      <4>1. /\ a \in ZeroGlobal(L, u) \cup TileGlobal(L, u)
            /\ a \in ZeroGlobal(L, w) \cup TileGlobal(L, w)
        BY <1>6, <2>6, <3>3 DEF Zeroed
      <4>2. u[1] = w[1]
        BY <4>1, SameChunk
      <4>3. ~L.lmem
        BY <1>6, <2>6, <3>3 DEF Zeroed
      <4>4. GlobalFence(L, 0)
        BY <4>3 DEF GlobalFence
      <4>5. 0 \in Min2(i, k) .. i + k - Min2(i, k) - 1
        BY <2>6 DEF Min2
      <4>6. QED
        BY <3>1, <4>2, <4>4, <4>5 DEF OrderedIn
    <3>4. QED
      BY <2>1, <3>2, <3>3
  <2>7. QED
    BY <2>2, <2>3, <2>4, <2>5, <2>6
<1>11. QED
  BY <1>9, <1>10

-----------------------------------------------------------------------------
(***************************************************************************)
(* Races of all kernels                                                    *)
(***************************************************************************)
\* Items that use the same cells, and not both to read or to add, have a barrier
\* between them.
LEMMA FootGuarded ==
  ASSUME NEW L, NEW sz, NEW c, Fits(L, sz, c), NEW u \in Items(L), NEW w \in Items(L), u # w,
         NEW i \in Nat, i < Intervals(L, u), NEW k \in Nat, k < Intervals(L, w)
  PROVE  Guarded(L, u, i, w, k)
<1>1. CASE PointsLaunch(L) /\ Linear(L) /\ FitsOnce(L, sz)
  <2>1. CASE L.kernel = "lloyd_fused_feature_sum"
    <3>1. /\ FusedShape(L) /\ L.out = "tmp_new_centroids"
          /\ {"l_centroids", "l_points", "l_labels"} \subseteq DOMAIN L.locals
      BY <1>1, <2>1 DEF FitsOnce, HasLocal
    <3>2. QED
      BY <1>1, <2>1, <3>1, FusedGuarded
  <2>2. CASE L.kernel # "lloyd_fused_feature_sum"
    BY <1>1, <2>2, OnceGuarded
  <2>3. QED
    BY <2>1, <2>2
<1>2. CASE PointsLaunch(L) /\ FitsPardim(L, sz)
  BY <1>2, TilesGuarded
<1>3. CASE FitsReduce(L, sz)
  <2>1. CASE L.kernel = "reduce_vector_parcol_compact"
    BY <1>3, <2>1, CompactGuarded DEF FitsReduce
  <2>2. CASE L.kernel = "reduce_vector_parcol_inner"
    <3>1. /\ ReduceLike(L) /\ GlobalName(L, L.buf) /\ L.groups = 1 /\ "l_data" \in DOMAIN L.locals
      BY <1>3, <2>2 DEF FitsReduce, HasLocal
    <3>2. QED
      BY <2>2, <3>1, InnerGuarded
  <2>3. QED
    BY <1>3, <2>1, <2>2 DEF FitsReduce
<1>4. CASE FitsCells(L, sz)
  BY <1>4, CellsGuarded
<1>5. CASE FitsCommand(L, sz)
  BY <1>5 DEF FitsCommand, CommandLike, Items
<1>6. QED
  BY <1>1, <1>2, <1>3, <1>4, <1>5 DEF Fits

-----------------------------------------------------------------------------
(***************************************************************************)
(* Barriers                                                                *)
(***************************************************************************)
\* The numbers a step d apart, of which k are below the end.
Steps(s, n, d) == {p \in s .. n : (p - s) % d = 0}

\* The number of steps of a loop, from the test of its condition.
LEMMA StepsCount ==
  ASSUME NEW s \in Int, NEW d \in Nat \ {0}, NEW k \in Nat, NEW n \in Int,
         \A t \in Nat : s + d * t <= n <=> t < k
  PROVE  Cardinality(Steps(s, n, d)) = k
<1> DEFINE T == 0 .. k - 1
<1> DEFINE S == {p \in s .. n : (p - s) % d = 0}
<1> DEFINE f == [t \in T |-> s + d * t]
<1>1. \A t \in T : s + d * t \in S
  <2> TAKE t \in T
  <2>1. t \in Nat /\ t < k
    OBVIOUS
  <2>2. s + d * t <= n
    BY <2>1
  <2> DEFINE x == d * t
  <2>3. x \in Nat
    BY <2>1
  <2>4. x % d = 0
    <3>1. x \in Int /\ x = d * t + 0 /\ 0 \in 0 .. d - 1 /\ t \in Int
      BY <2>1, <2>3
    <3> HIDE DEF x
    <3>2. QED
      BY <3>1, DivModUnique
  <2>5. (s + x) - s = x /\ s + x >= s /\ s + x \in Int /\ s + x <= n
    BY <2>2, <2>3
  <2> HIDE DEF x
  <2>6. s + x \in S
    BY <2>4, <2>5
  <2>7. QED
    BY <2>6 DEF x
<1>2. \A p \in S : \E t \in T : p = s + d * t
  <2> TAKE p \in S
  <2> DEFINE y == p - s
  <2> DEFINE t == y \div d
  <2>1. y \in Nat /\ y % d = 0 /\ p = s + y /\ p <= n
    OBVIOUS
  <2> HIDE DEF y
  <2>2. t \in Nat
    BY <2>1, DivNat
  <2>3. y = d * t
    <3>1. y = d * (y \div d) + (y % d)
      BY <2>1, DivMod
    <3> DEFINE z == d * t
    <3>2. z \in Int /\ y = z + (y % d)
      BY <2>2, <3>1
    <3> HIDE DEF z
    <3>3. y = z
      BY <2>1, <3>2
    <3>4. QED
      BY <3>3 DEF z
  <2> HIDE DEF t
  <2>4. t < k
    BY <2>1, <2>2, <2>3
  <2>5. t \in T /\ p = s + d * t
    BY <2>1, <2>2, <2>3, <2>4
  <2>6. QED
    BY <2>5
<1>3. \A t, r \in T : s + d * t = s + d * r => t = r
  <2> TAKE t \in T, r \in T
  <2>1. SUFFICES ASSUME s + d * t = s + d * r PROVE t = r
    OBVIOUS
  <2> DEFINE x == d * t
  <2> DEFINE y == d * r
  <2>2. x \in Int /\ y \in Int /\ s + x = s + y /\ t \in Int /\ r \in Int
    BY <2>1
  <2>3. x = y
    <3> HIDE DEF x, y
    <3>1. QED
      BY <2>2
  <2>4. x = d * t + 0 /\ y = d * r + 0 /\ 0 \in 0 .. d - 1
    BY <2>2
  <2> HIDE DEF x, y
  <2>5. x \div d = t
    BY <2>2, <2>4, DivModUnique
  <2>6. y \div d = r
    BY <2>2, <2>4, DivModUnique
  <2>7. QED
    BY <2>3, <2>5, <2>6
<1>4. f \in Bijection(T, S)
  <2>1. f \in [T -> S]
    BY <1>1
  <2>2. \A t, r \in T : f[t] = f[r] => t = r
    BY <1>3
  <2>3. \A p \in S : \E t \in T : f[t] = p
    BY <1>2
  <2> HIDE DEF f, S, T
  <2>4. f \in Injection(T, S) /\ f \in Surjection(T, S)
    BY <2>1, <2>2, <2>3 DEF Injection, IsInjective, Surjection
  <2>5. QED
    BY <2>4 DEF Bijection
<1>5. ExistsBijection(T, S)
  <2> HIDE DEF f
  <2>1. QED
    BY <1>4 DEF ExistsBijection
<1>6. IsFiniteSet(T) /\ Cardinality(T) = k
  <2>1. 0 \in Int /\ k - 1 \in Int
    OBVIOUS
  <2>2. IsFiniteSet(T) /\ Cardinality(T) = IF 0 > k - 1 THEN 0 ELSE k - 1 - 0 + 1
    BY <2>1, FS_Interval
  <2>3. QED
    BY <2>2
<1> HIDE DEF T, S
<1>7. Cardinality(S) = k
  BY <1>5, <1>6, FS_Bijection
<1>8. QED
  BY <1>7 DEF S, Steps

\* Item g of n takes k turns when n * k numbers are shared out.
LEMMA StepBelow ==
  ASSUME NEW n \in Nat \ {0}, NEW g \in 0 .. n - 1, NEW t \in Nat, NEW k \in Nat
  PROVE  g + n * t < n * k <=> t < k
<1> DEFINE x == n * t
<1> DEFINE y == n * k
<1>1. x \in Int /\ y \in Int
  OBVIOUS
<1>2. t < k => x + n <= y
  BY LessTimes
<1>3. k <= t => y <= x
  BY TimesMonotone
<1> HIDE DEF x, y
<1>4. g + x < y <=> t < k
  BY <1>1, <1>2, <1>3
<1>5. QED
  BY <1>4 DEF x, y

\* The same for vectors of v.
LEMMA VectorBelow ==
  ASSUME NEW v \in Nat \ {0}, NEW n \in Nat \ {0}, NEW g \in 0 .. n - 1, NEW t \in Nat,
         NEW k \in Nat
  PROVE  /\ v * g + (v * n) * t <= (v * n) * k - v <=> t < k
         /\ v * g + (v * n) * t <= (v * n) * k - 1 <=> t < k
<1> DEFINE q == g + n * t
<1> DEFINE m == n * k
<1>1. q \in Nat /\ m \in Nat
  OBVIOUS
<1>2. v * g + (v * n) * t = v * q /\ (v * n) * k = v * m
  OBVIOUS
<1>3. q < m <=> t < k
  BY StepBelow
<1> HIDE DEF q, m
<1>4. (v * q < v * m <=> q < m) /\ (q < m => v * q + v <= v * m)
  BY <1>1, WholeVector
<1> DEFINE x == v * q
<1> DEFINE y == v * m
<1>5. x \in Int /\ y \in Int
  BY <1>1
<1>6. (x < y <=> t < k) /\ (t < k => x + v <= y)
  BY <1>3, <1>4
<1> HIDE DEF x, y
<1>7. (x <= y - v <=> t < k) /\ (x <= y - 1 <=> t < k)
  BY <1>5, <1>6
<1>8. QED
  BY <1>2, <1>7 DEF x, y

\* An exact quotient.
LEMMA CeilExact ==
  ASSUME NEW g \in Nat \ {0}, NEW m \in Nat
  PROVE  CeilDiv(g * m, g) = m
<1> DEFINE a == g * m + (g - 1)
<1>1. a \in Int /\ g - 1 \in 0 .. g - 1 /\ m \in Int
  OBVIOUS
<1>2. a \div g = m
  BY <1>1, DivModUnique
<1>3. g * m + g - 1 = a
  OBVIOUS
<1>4. QED
  BY <1>2, <1>3 DEF CeilDiv

\* The number of an item in the first dimension.
LEMMA FirstTyped ==
  ASSUME NEW L, Striped(L), NEW w \in Items(L)
  PROVE  GlobalSize0(L) \in Nat \ {0} /\ Gid0(L, w) \in 0 .. GlobalSize0(L) - 1
<1> DEFINE l == LocalSize0(L)
<1> DEFINE g == NumGroups0(L)
<1> DEFINE a == Group0(L, w)
<1> DEFINE b == Lid0(L, w)
<1>1. l \in Nat \ {0} /\ g \in Nat \ {0} /\ a \in 0 .. g - 1 /\ b \in 0 .. l - 1
  BY DEF Striped
<1> HIDE DEF l, g, a, b
<1>2. l * a + b \in Nat /\ l * a + b < l * g
  BY <1>1, ChunkIndex
<1>3. l * a = a * l /\ l * g = g * l
  BY <1>1
<1> DEFINE x == a * l + b
<1> DEFINE y == g * l
<1>4. x \in Nat /\ y \in Nat /\ x < y
  BY <1>1, <1>2, <1>3
<1> HIDE DEF x, y
<1>5. y \in Nat \ {0} /\ x \in 0 .. y - 1
  BY <1>4
<1>6. QED
  BY <1>5 DEF x, y, l, g, a, b, Gid0, GlobalSize0

\* Items that share out the vectors evenly visit equally many.
LEMMA EvenStarts ==
  ASSUME NEW L, PointsLaunch(L), NEW k \in Nat, L.N = (L.vec * GlobalSize0(L)) * k,
         NEW w \in Items(L)
  PROVE  Cardinality(Starts(L, w)) = k
<1>1. Striped(L) /\ L.lstride \in BOOLEAN
  BY DEF PointsLaunch
<1> DEFINE v == L.vec
<1>2. v \in Nat \ {0}
  BY <1>1 DEF Striped
<1>3. CASE ~L.lstride
  <2> DEFINE n == GlobalSize0(L)
  <2> DEFINE g == Gid0(L, w)
  <2> DEFINE s == v * g
  <2> DEFINE d == v * n
  <2> DEFINE e == L.N - v
  <2>1. n \in Nat \ {0} /\ g \in 0 .. n - 1
    BY <1>1, FirstTyped
  <2>2. Starts(L, w) = Steps(s, e, d)
    BY <1>3 DEF Starts, GlobalStride, Steps
  <2>3. L.N = d * k
    OBVIOUS
  <2> HIDE DEF n, g, v
  <2>4. s \in Int /\ d \in Nat \ {0} /\ d * k \in Int
    BY <1>2, <2>1
  <2>5. \A t \in Nat : s + d * t <= d * k - v <=> t < k
    BY <1>2, <2>1, VectorBelow
  <2>6. e \in Int /\ \A t \in Nat : s + d * t <= e <=> t < k
    BY <1>2, <2>3, <2>4, <2>5
  <2> HIDE DEF s, d, e
  <2>7. d \in Nat \ {0} /\ s \in Int /\ e \in Int
    BY <2>4, <2>6
  <2>8. \A t \in Nat : s + d * t <= e <=> t < k
    BY <2>6
  <2>9. Cardinality(Steps(s, e, d)) = k
    BY <2>7, <2>8, StepsCount, Zenon
  <2>10. QED
    BY <2>2, <2>9, Zenon
<1>4. CASE L.lstride
  <2> DEFINE n == LocalSize0(L)
  <2> DEFINE g == Lid0(L, w)
  <2> DEFINE b == v * n * k
  <2> DEFINE G == NumGroups0(L)
  <2> DEFINE h == Group0(L, w)
  <2>1. n \in Nat \ {0} /\ g \in 0 .. n - 1 /\ G \in Nat \ {0} /\ h \in 0 .. G - 1
    BY <1>1 DEF Striped
  <2>2. L.N = v * (G * n) * k
    BY DEF GlobalSize0
  <2>3. CeilDiv(L.N, G) = b /\ b \in Nat /\ L.N = G * b
    <3> HIDE DEF n, G, v
    <3>1. b \in Nat /\ v * (G * n) * k = G * b
      BY <1>2, <2>1
    <3> HIDE DEF b
    <3>2. QED
      BY <2>1, <2>2, <3>1, CeilExact
  <2>4. b % v = 0
    <3> HIDE DEF n, G, v
    <3> DEFINE c == n * k
    <3>1. c \in Int /\ b = v * c + 0 /\ b \in Int /\ 0 \in 0 .. v - 1
      BY <1>2, <2>1
    <3> HIDE DEF b, c
    <3>2. QED
      BY <1>2, <3>1, DivModUnique
  <2>5. BlockSize(L) = b
    <3> HIDE DEF b
    <3>1. BlockSize(L) = b - 0
      BY <2>3, <2>4 DEF BlockSize
    <3>2. QED
      BY <2>3, <3>1
  <2>6. RealBlockSize(L, h) = b
    <3> HIDE DEF n, G, v, b, h
    <3>1. h * b + b <= G * b
      <4>1. b * h + b <= b * G \/ b = 0
        BY <2>1, <2>3, LessTimes
      <4> DEFINE x == b * h
      <4> DEFINE y == b * G
      <4>2. x \in Int /\ y \in Int /\ h * b = x /\ G * b = y /\ (x + b <= y \/ b = 0)
        BY <2>1, <2>3, <4>1
      <4>3. b = 0 => x = 0 /\ y = 0
        BY <2>1
      <4> HIDE DEF x, y
      <4>4. QED
        BY <2>3, <4>2, <4>3
    <3> DEFINE x == h * b
    <3> DEFINE y == G * b
    <3>2. x \in Int /\ y \in Int /\ x + b <= y /\ L.N = y
      BY <2>1, <2>3, <3>1
    <3>3. RealBlockSize(L, h) = IF x + b > L.N THEN SubSat(L.N, x) ELSE b
      BY <2>5 DEF RealBlockSize
    <3> HIDE DEF x, y
    <3>4. QED
      BY <2>3, <3>2, <3>3
  <2> DEFINE f == h * b
  <2> DEFINE s == f + v * g
  <2> DEFINE d == v * n
  <2> DEFINE e == f + b - 1
  <2>7. Starts(L, w) = Steps(s, e, d)
    <3> HIDE DEF b
    <3>1. QED
      BY <1>4, <2>5, <2>6 DEF Starts, LocalStride, Steps
  <2> HIDE DEF n, g, v, h
  <2>8. f \in Int /\ v * g \in Int /\ d \in Nat \ {0} /\ b = d * k
    BY <1>2, <2>1, <2>3
  <2>9. \A t \in Nat : v * g + d * t <= d * k - 1 <=> t < k
    BY <1>2, <2>1, VectorBelow
  <2>10. s \in Int /\ e \in Int /\ \A t \in Nat : s + d * t <= e <=> t < k
    <3> DEFINE x == v * g
    <3>1. \A t \in Nat : d * t \in Int
      BY <2>8
    <3> HIDE DEF f, d, b
    <3>2. b \in Int
      BY <2>3
    <3>3. \A t \in Nat : x + d * t <= b - 1 <=> t < k
      BY <2>8, <2>9
    <3>4. s = f + x /\ x \in Int /\ f \in Int
      BY <2>8
    <3>5. e = f + b - 1
      OBVIOUS
    <3> HIDE DEF x, s, e
    <3>6. QED
      BY <3>1, <3>2, <3>3, <3>4, <3>5
  <2> HIDE DEF s, d, e
  <2>11. d \in Nat \ {0} /\ s \in Int /\ e \in Int
    BY <2>8, <2>10
  <2>12. \A t \in Nat : s + d * t <= e <=> t < k
    BY <2>10
  <2>13. Cardinality(Steps(s, e, d)) = k
    BY <2>11, <2>12, StepsCount, Zenon
  <2>14. QED
    BY <2>7, <2>13, Zenon
<1>5. QED
  BY <1>1, <1>3, <1>4

\* The kernels whose barriers are in a loop.
LEMMA IntervalsOf ==
  ASSUME NEW L, NEW w
  PROVE  \/ /\ L.kernel = "lloyd_feature_sum_pardim"
            /\ Intervals(L, w) = Cardinality(Starts(L, w)) + 1
         \/ /\ L.kernel = "lloyd_fused_feature_sum"
            /\ Intervals(L, w) = 2 * Cardinality(GroupOffsets(L, w)) + (IF L.lmem THEN 2 ELSE 1)
         \/ /\ L.kernel = "reduce_vector_parcol_inner"
            /\ Intervals(L, w) = ReduceRounds(L) + 2
         \/ /\ L.kernel \notin {"lloyd_feature_sum_pardim", "lloyd_fused_feature_sum",
                                "reduce_vector_parcol_inner"}
            /\ Intervals(L, w) \in {1, 2, 3}
            /\ \A u : Intervals(L, w) = Intervals(L, u)
<1>1. CASE L.kernel = "lloyd_feature_sum_pardim"
  BY <1>1, Zenon DEF Intervals
<1>2. CASE L.kernel = "lloyd_fused_feature_sum"
  BY <1>2, Zenon DEF Intervals
<1>3. CASE L.kernel = "reduce_vector_parcol_inner"
  BY <1>3, Zenon DEF Intervals
<1>4. CASE L.kernel \notin {"lloyd_feature_sum_pardim", "lloyd_fused_feature_sum",
                            "reduce_vector_parcol_inner"}
  <2>1. \A u : Intervals(L, u) =
          CASE L.kernel = "histogram_part_global" -> 2
            [] L.kernel = "histogram_part_local" -> 3
            [] L.kernel = "lloyd_cluster_merge" -> IF L.lmem THEN 3 ELSE 1
            [] L.kernel = "lloyd_fused_cluster_merge" -> IF L.lmem THEN 2 ELSE 1
            [] OTHER -> 1
    BY <1>4 DEF Intervals
  <2> DEFINE n == CASE L.kernel = "histogram_part_global" -> 2
                    [] L.kernel = "histogram_part_local" -> 3
                    [] L.kernel = "lloyd_cluster_merge" -> IF L.lmem THEN 3 ELSE 1
                    [] L.kernel = "lloyd_fused_cluster_merge" -> IF L.lmem THEN 2 ELSE 1
                    [] OTHER -> 1
  <2>2. n \in {1, 2, 3}
    OBVIOUS
  <2>3. \A u : Intervals(L, u) = n
    BY <2>1
  <2> HIDE DEF n
  <2>4. QED
    BY <1>4, <2>2, <2>3
<1>5. QED
  BY <1>1, <1>2, <1>3, <1>4

\* Every item has an interval to execute.
LEMMA IntervalsTyped ==
  ASSUME NEW L, NEW sz, NEW c, Fits(L, sz, c), NEW w \in Items(L)
  PROVE  Intervals(L, w) \in Nat \ {0}
<1>1. CASE L.kernel = "lloyd_feature_sum_pardim"
  <2>1. PointsLaunch(L)
    BY <1>1 DEF Fits, FitsReduce, FitsCells, FitsCommand
  <2>2. Cardinality(Starts(L, w)) \in Nat
    <3>1. Starts(L, w) \subseteq 0 .. L.N /\ L.N \in Int /\ 0 \in Int
      BY <2>1, StartsIn DEF PointsLaunch, Striped
    <3>2. QED
      BY <3>1, FS_Interval, FS_Subset, FS_CardinalityType
  <2>3. QED
    BY <1>1, <2>2, IntervalsOf
<1>2. CASE L.kernel = "lloyd_fused_feature_sum"
  <2>1. PointsLaunch(L)
    BY <1>2 DEF Fits, FitsReduce, FitsCells, FitsCommand
  <2>2. Cardinality(GroupOffsets(L, w)) \in Nat
    BY <2>1, GroupOffsetsIn
  <2>3. QED
    BY <1>2, <2>2, IntervalsOf
<1>3. CASE L.kernel = "reduce_vector_parcol_inner"
  <2>1. L.local \in Int
    BY <1>3 DEF Fits, FitsOnce, FitsPardim, FitsReduce, ReduceLike, FitsCells, FitsCommand
  <2> DEFINE S == {j \in 1 .. L.local : Remaining(L, j) >= L.rows}
  <2>4. IsFiniteSet(1 .. L.local)
    BY <2>1, FS_Interval
  <2>5. S \subseteq 1 .. L.local
    OBVIOUS
  <2>6. Cardinality(S) \in Nat
    <3> HIDE DEF S
    <3>1. QED
      BY <2>4, <2>5, FS_Subset, FS_CardinalityType
  <2>2. ReduceRounds(L) \in Nat
    BY <2>6 DEF ReduceRounds
  <2>3. QED
    BY <1>3, <2>2, IntervalsOf
<1>4. QED
  BY <1>1, <1>2, <1>3, IntervalsOf

\* The items of a group meet at the same barriers.
LEMMA BarriersUniform ==
  ASSUME NEW L, NEW sz, NEW c, Fits(L, sz, c), NEW u \in Items(L), NEW w \in Items(L), u[1] = w[1]
  PROVE  Intervals(L, u) = Intervals(L, w)
<1>1. CASE L.kernel = "lloyd_feature_sum_pardim"
  <2>1. PointsLaunch(L) /\ EvenShares(L)
    BY <1>1 DEF Fits, FitsOnce, FitsPardim, FitsReduce, FitsCells, FitsCommand
  <2>2. PICK k \in Nat : L.N = (L.vec * GlobalSize0(L)) * k
    BY <2>1 DEF EvenShares
  <2>3. Cardinality(Starts(L, u)) = k /\ Cardinality(Starts(L, w)) = k
    BY <2>1, <2>2, EvenStarts
  <2>4. QED
    BY <1>1, <2>3, IntervalsOf
<1>2. CASE L.kernel = "lloyd_fused_feature_sum"
  <2>1. GroupOffsets(L, u) = GroupOffsets(L, w)
    BY DEF GroupOffsets
  <2>2. QED
    BY <1>2, <2>1, IntervalsOf
<1>3. CASE L.kernel = "reduce_vector_parcol_inner"
  BY <1>3, IntervalsOf
<1>4. QED
  BY <1>1, <1>2, <1>3, IntervalsOf
=============================================================================
