-------------------------- MODULE NetStreamsProofs --------------------------
(***************************************************************************)
(* Proofs about the streams, for every size of the buffers, of chunks and  *)
(* of the link: that the offsets frame whole chunks, that a netOutStream   *)
(* and a netInStream are a channel of chunks, and that a reader is left    *)
(* asleep with a large chunk only.                                         *)
(***************************************************************************)
EXTENDS NetStreams, SequenceTheorems, TLAPS

Cells == [id : Nat, size : Nat, at : Nat]

LEMMA Constants ==
  /\ Header \in Nat \ {0} /\ LinkSize \in Nat \ {0}
  /\ OutSize \in Nat /\ InSize \in Nat /\ OutSize > Header /\ InSize > Header
  /\ FreeMidChunk \in BOOLEAN
  BY LinkAssumption, OutAssumption, InAssumption

LEMMA Extents ==
  ASSUME NEW n \in Sizes
  PROVE  /\ n \in Nat \ {0} /\ Extent(n) \in Nat
         /\ Extent(n) = Header + n /\ Extent(n) > Header /\ Extent(n) > 1
<1>1. n \in Nat \ {0} BY OutAssumption
<1> QED BY <1>1, Constants DEF Extent

LEMMA CellIs ==
  ASSUME NEW i \in Nat, NEW n \in Nat, NEW q \in Nat
  PROVE  /\ Cell(i, n, q) \in Cells
         /\ Cell(i, n, q).id = i /\ Cell(i, n, q).size = n /\ Cell(i, n, q).at = q
  BY DEF Cell, Cells

LEMMA CellHas ==
  ASSUME NEW i \in Nat, NEW n \in Nat, NEW q \in Nat, NEW c, c = Cell(i, n, q)
  PROVE  c \in Cells /\ c.id = i /\ c.size = n /\ c.at = q
  BY CellIs

-----------------------------------------------------------------------------
(* Chunks in a buffer.                                                     *)

(* What Framed says of one cell.                                           *)
LEMMA FramedCell ==
  ASSUME NEW f, NEW a \in Int, NEW b \in Int, NEW m \in Nat, Framed(f, a, b, m),
         NEW p \in a .. b - 1, f[p] \in Cells
  PROVE  LET first == p - f[p].at
             next == first + Extent(f[p].size)
         IN  /\ f[p].id \in 1 .. m /\ f[p].size \in Sizes
             /\ first \in a .. p /\ next \in p + 1 .. b
             /\ \A q \in 0 .. Extent(f[p].size) - 1 : f[first + q] = Cell(f[p].id, f[p].size, q)
             /\ f[first].id = f[p].id /\ f[first].size = f[p].size
             /\ next < b => f[next].id = f[p].id + 1
  BY DEF Framed, ChunkAt

(* The first chunk.                                                        *)
LEMMA FramedFirst ==
  ASSUME NEW f, NEW a \in Int, NEW b \in Int, NEW m \in Nat, Framed(f, a, b, m),
         a < b, f[a] \in Cells
  PROVE  LET n == f[a].size
         IN  /\ n \in Sizes /\ f[a].id \in 1 .. m /\ f[a].at = 0
             /\ a + Extent(n) <= b
             /\ \A q \in 0 .. Extent(n) - 1 : f[a + q] = Cell(f[a].id, n, q)
             /\ a + Extent(n) < b => f[a + Extent(n)].id = f[a].id + 1
<1> DEFINE n == f[a].size
<1>1. a \in a .. b - 1 OBVIOUS
<1>2. a - f[a].at \in a .. a /\ f[a].at \in Nat BY <1>1, FramedCell DEF Cells
<1>3. f[a].at = 0 /\ a - f[a].at = a BY <1>2
<1>4. n \in Sizes BY <1>1, FramedCell
<1>5. Extent(n) \in Nat BY <1>4, Extents
<1>6. /\ f[a].id \in 1 .. m /\ a + Extent(n) \in a + 1 .. b
      /\ \A q \in 0 .. Extent(n) - 1 : f[a + q] = Cell(f[a].id, n, q)
      /\ a + Extent(n) < b => f[a + Extent(n)].id = f[a].id + 1
      BY <1>1, <1>3, FramedCell
<1>7. a + Extent(n) <= b BY <1>5, <1>6
<1> QED BY <1>3, <1>4, <1>6, <1>7

(* The last chunk ends at the end.                                         *)
LEMMA FramedLast ==
  ASSUME NEW f, NEW a \in Int, NEW b \in Int, NEW m \in Nat, Framed(f, a, b, m),
         a < b, f[b - 1] \in Cells
  PROVE  /\ f[b - 1].id \in 1 .. m /\ f[b - 1].size \in Sizes
         /\ f[b - 1].at + 1 = Extent(f[b - 1].size)
<1> DEFINE p == b - 1
<1>1. p \in a .. b - 1 OBVIOUS
<1>2. /\ f[p].id \in 1 .. m /\ f[p].size \in Sizes
      /\ p - f[p].at + Extent(f[p].size) \in p + 1 .. b
      BY <1>1, FramedCell
<1>3. f[p].at \in Nat /\ Extent(f[p].size) \in Nat BY <1>2, Extents DEF Cells
<1>4. p + 1 = b /\ p \in Int OBVIOUS
<1> HIDE DEF p
<1>5. f[p].at + 1 = Extent(f[p].size) BY <1>2, <1>3, <1>4
<1> QED BY <1>2, <1>5 DEF p

LEMMA FramedNone ==
  ASSUME NEW f, NEW a \in Int, NEW b \in Int, b <= a, NEW m
  PROVE  Framed(f, a, b, m)
  BY DEF Framed

(* Nothing changes if no cell does.                                        *)
LEMMA FramedSame ==
  ASSUME NEW f, NEW g, NEW a \in Int, NEW b \in Int, NEW m \in Nat, NEW k \in Nat, m <= k,
         Framed(f, a, b, m), \A p \in a .. b - 1 : f[p] \in Cells /\ g[p] = f[p]
  PROVE  Framed(g, a, b, k)
<1> SUFFICES ASSUME NEW p \in a .. b - 1
    PROVE  LET first == p - g[p].at
               next == first + Extent(g[p].size)
           IN  /\ g[p].id \in 1 .. k /\ g[p].size \in Sizes
               /\ first \in a .. p /\ next \in p + 1 .. b
               /\ ChunkAt(g, first) /\ g[first].id = g[p].id /\ g[first].size = g[p].size
               /\ next < b => g[next].id = g[p].id + 1
    BY DEF Framed
<1> DEFINE first == p - f[p].at
           n == f[p].size
           next == first + Extent(n)
<1>1. g[p] = f[p] /\ f[p] \in Cells OBVIOUS
<1>2. /\ f[p].id \in 1 .. m /\ n \in Sizes
      /\ first \in a .. p /\ next \in p + 1 .. b
      /\ \A q \in 0 .. Extent(n) - 1 : f[first + q] = Cell(f[p].id, n, q)
      /\ f[first].id = f[p].id /\ f[first].size = n
      /\ next < b => f[next].id = f[p].id + 1
      BY <1>1, FramedCell
<1>3. Extent(n) \in Nat BY <1>2, Extents
<1>4. g[first] = f[first] BY <1>2
<1>5. next < b => g[next] = f[next] BY <1>2
<1>6. ASSUME NEW q \in 0 .. Extent(n) - 1 PROVE g[first + q] = Cell(f[p].id, n, q)
  <2>1. first + q \in a .. b - 1 BY <1>2, <1>3
  <2> QED BY <2>1, <1>2
<1>7. ChunkAt(g, first) BY <1>2, <1>4, <1>6 DEF ChunkAt
<1>8. f[p].id \in 1 .. k BY <1>2
<1> QED BY <1>1, <1>2, <1>4, <1>5, <1>7, <1>8

(* Without its first chunk.                                                *)
LEMMA FramedRest ==
  ASSUME NEW f, NEW a \in Int, NEW b \in Int, NEW m \in Nat, Framed(f, a, b, m),
         a < b, \A p \in a .. b - 1 : f[p] \in Cells
  PROVE  /\ Framed(f, a + Extent(f[a].size), b, m)
         /\ a + Extent(f[a].size) = b => f[b - 1].id = f[a].id
<1> DEFINE n == f[a].size
           c == a + Extent(n)
<1>0. a \in a .. b - 1 OBVIOUS
<1>1. /\ n \in Sizes /\ c <= b /\ f[a] \in Cells
      /\ \A q \in 0 .. Extent(n) - 1 : f[a + q] = Cell(f[a].id, n, q)
      BY <1>0, FramedFirst
<1>2. Extent(n) \in Nat /\ Extent(n) > 1 /\ n \in Nat BY <1>1, Extents
<1>3. c \in Int /\ a < c BY <1>2
<1>4. ASSUME NEW p \in c .. b - 1 PROVE p - f[p].at \in c .. p
  <2> DEFINE first == p - f[p].at
  <2>1. p \in a .. b - 1 /\ f[p] \in Cells BY <1>3
  <2>2. /\ first \in a .. p /\ f[p].size \in Sizes
        /\ first + Extent(f[p].size) \in p + 1 .. b
        /\ \A q \in 0 .. Extent(f[p].size) - 1 : f[first + q] = Cell(f[p].id, f[p].size, q)
        /\ f[first].size = f[p].size
        BY <2>1, FramedCell
  <2>3. Extent(f[p].size) \in Nat /\ Extent(f[p].size) > 1 /\ f[p].size \in Nat
        BY <2>2, Extents
  <2>4. first \in Int /\ first + 0 = first BY <2>2
  <2>5. f[p].id \in Nat /\ f[a].id \in Nat BY <2>1, <1>1 DEF Cells
  <2>6. f[first] = Cell(f[p].id, f[p].size, 0)
    <3>1. 0 \in 0 .. Extent(f[p].size) - 1 BY <2>3
    <3> QED BY <3>1, <2>2, <2>4
  <2>7. ASSUME first < c PROVE FALSE
    <3>1. first - a \in 0 .. Extent(n) - 1 /\ a + (first - a) = first BY <2>7, <2>2, <2>4, <1>2
    <3>2. f[first] = Cell(f[a].id, n, first - a) BY <3>1, <1>1
    <3> DEFINE d == first - a
    <3>3. d = 0
      <4> DEFINE x == f[first]
                 i == f[p].id
                 j == f[a].id
                 k == f[p].size
      <4>1. d \in Nat /\ i \in Nat /\ j \in Nat /\ k \in Nat /\ n \in Nat
            BY <3>1, <1>2, <2>3, <2>5 DEF Cells
      <4>2. x = Cell(j, n, d) BY <3>2
      <4>3. x = Cell(i, k, 0) BY <2>6
      <4> HIDE DEF d, n, x, i, j, k
      <4>4. x.at = d BY <4>1, <4>2, CellHas
      <4>5. x.at = 0 BY <4>1, <4>3, CellHas
      <4> QED BY <4>4, <4>5
    <3> HIDE DEF first
    <3>4. first = a BY <3>3, <2>4
    <3>5. f[p].size = n BY <3>4, <2>2
    <3>6. c \in p + 1 .. b BY <3>4, <3>5, <2>2
    <3> QED BY <3>6, <1>3
  <2> QED BY <2>2, <2>4, <2>7, <1>3
<1>5. Framed(f, c, b, m)
  <2> HIDE DEF c
  <2>1. \A p \in c .. b - 1 : p \in a .. b - 1 BY <1>3
  <2> QED BY <2>1, <1>4 DEF Framed
<1>6. c = b => f[b - 1].id = f[a].id
  <2> SUFFICES ASSUME c = b PROVE f[b - 1].id = f[a].id OBVIOUS
  <2>1. Extent(n) - 1 \in 0 .. Extent(n) - 1 /\ a + (Extent(n) - 1) = b - 1 BY <1>2
  <2>2. f[b - 1] = Cell(f[a].id, n, Extent(n) - 1) BY <2>1, <1>1
  <2>3. f[a].id \in Nat BY <1>1 DEF Cells
  <2> QED BY <2>1, <2>2, <2>3, <1>2, CellIs
<1> QED BY <1>5, <1>6

(* The first and the last cell of a chunk.                                 *)
LEMMA BegunEnds ==
  ASSUME NEW f, NEW b \in Int, NEW i \in Nat, NEW n \in Sizes, Begun(f, b, i, n, Extent(n))
  PROVE  f[b].id = i /\ f[b].size = n /\ f[b + Extent(n) - 1].id = i
<1> DEFINE e == b + Extent(n)
<1>1. Extent(n) \in Nat /\ Extent(n) > 1 /\ n \in Nat BY Extents
<1>2. \A q \in 0 .. Extent(n) - 1 : f[b + q] = Cell(i, n, q) BY DEF Begun
<1>3. f[b] = Cell(i, n, 0) /\ f[e - 1] = Cell(i, n, Extent(n) - 1)
  <2>1. 0 \in 0 .. Extent(n) - 1 /\ Extent(n) - 1 \in 0 .. Extent(n) - 1 BY <1>1
  <2>2. b + 0 = b /\ b + (Extent(n) - 1) = e - 1 BY <1>1
  <2> QED BY <2>1, <2>2, <1>2
<1> QED BY <1>1, <1>3, CellIs

(* With one more chunk.                                                    *)
LEMMA FramedMore ==
  ASSUME NEW f, NEW a \in Int, NEW b \in Int, a <= b, NEW m \in Nat, Framed(f, a, b, m),
         \A p \in a .. b - 1 : f[p] \in Cells,
         NEW n \in Sizes, NEW i \in 1 .. m, Begun(f, b, i, n, Extent(n)),
         a < b => i = f[b - 1].id + 1
  PROVE  Framed(f, a, b + Extent(n), m)
<1> DEFINE e == b + Extent(n)
<1>1. Extent(n) \in Nat /\ Extent(n) > 1 /\ n \in Nat /\ i \in Nat BY Extents
<1>2. \A q \in 0 .. Extent(n) - 1 : f[b + q] = Cell(i, n, q) BY DEF Begun
<1>4. f[b].id = i /\ f[b].size = n BY <1>1, BegunEnds
<1>5. ASSUME NEW p \in a .. e - 1
      PROVE  LET first == p - f[p].at
                 next == first + Extent(f[p].size)
             IN  /\ f[p].id \in 1 .. m /\ f[p].size \in Sizes
                 /\ first \in a .. p /\ next \in p + 1 .. e
                 /\ ChunkAt(f, first) /\ f[first].id = f[p].id /\ f[first].size = f[p].size
                 /\ next < e => f[next].id = f[p].id + 1
  <2> DEFINE first == p - f[p].at
             next == first + Extent(f[p].size)
  <2>1. CASE p < b
    <3>1. p \in a .. b - 1 /\ f[p] \in Cells BY <2>1
    <3>2. /\ f[p].id \in 1 .. m /\ f[p].size \in Sizes
          /\ first \in a .. p /\ next \in p + 1 .. b
          /\ \A q \in 0 .. Extent(f[p].size) - 1 : f[first + q] = Cell(f[p].id, f[p].size, q)
          /\ f[first].id = f[p].id /\ f[first].size = f[p].size
          /\ next < b => f[next].id = f[p].id + 1
          BY <3>1, FramedCell
    <3>3. /\ Extent(f[p].size) \in Nat /\ Extent(f[p].size) > 1
          /\ f[p].size \in Nat /\ f[p].id \in Nat
          BY <3>2, Extents
    <3>4. next \in p + 1 .. e /\ f[p].id \in 1 .. m BY <3>2, <1>1
    <3>5. next = b => f[next].id = f[p].id + 1
      <4> SUFFICES ASSUME next = b PROVE f[next].id = f[p].id + 1 OBVIOUS
      <4>1. /\ Extent(f[p].size) - 1 \in 0 .. Extent(f[p].size) - 1
            /\ first + (Extent(f[p].size) - 1) = b - 1
            BY <3>2, <3>3
      <4>2. f[b - 1] = Cell(f[p].id, f[p].size, Extent(f[p].size) - 1) BY <4>1, <3>2
      <4>3. f[b - 1].id = f[p].id
        <5> DEFINE x == f[b - 1]
                   i0 == f[p].id
                   n0 == f[p].size
                   d == Extent(f[p].size) - 1
        <5>1. d \in Nat /\ i0 \in Nat /\ n0 \in Nat BY <3>3
        <5>2. x = Cell(i0, n0, d) BY <4>2
        <5> HIDE DEF d, x, i0, n0
        <5>3. x.id = i0 BY <5>1, <5>2, CellHas
        <5> QED BY <5>3 DEF x, i0
      <4> HIDE DEF next
      <4> QED BY <4>3, <1>4, <3>1
    <3>6. ChunkAt(f, first) BY <3>2 DEF ChunkAt
    <3> QED BY <3>2, <3>4, <3>5, <3>6
  <2>2. CASE p >= b
    <3> DEFINE q == p - b
    <3>1. q \in 0 .. Extent(n) - 1 /\ b + q = p BY <2>2, <1>1
    <3>2. f[p] = Cell(i, n, q) BY <3>1, <1>2
    <3>3. f[p].id = i /\ f[p].size = n /\ f[p].at = q
      <4>1. q \in Nat BY <3>1, <1>1
      <4> HIDE DEF q
      <4> QED BY <4>1, <3>2, <1>1, CellIs
    <3>4. first = b /\ next = e BY <3>3
    <3>5. ChunkAt(f, first) BY <3>4, <1>2, <1>4 DEF ChunkAt
    <3> QED BY <3>3, <3>4, <3>5, <1>1, <1>4, <2>2
  <2> QED BY <2>1, <2>2, <1>1
<1> HIDE DEF e
<1>6. Framed(f, a, e, m) BY <1>5 DEF Framed
<1> QED BY <1>6 DEF e

(* With the next one handed over.                                          *)
LEMMA FramedNext ==
  ASSUME NEW f, NEW a \in Int, NEW b \in Int, a <= b, NEW m \in Nat,
         Framed(f, a, b, m), \A p \in a .. b - 1 : f[p] \in Cells,
         NEW n \in Sizes, Begun(f, b, m + 1, n, Extent(n)), a < b => f[b - 1].id = m
  PROVE  Framed(f, a, b + Extent(n), m + 1)
<1> DEFINE i == m + 1
<1>1. i \in Nat /\ m <= i /\ i \in 1 .. i OBVIOUS
<1>2. Begun(f, b, i, n, Extent(n)) /\ (a < b => i = f[b - 1].id + 1) OBVIOUS
<1> HIDE DEF i
<1>3. Framed(f, a, b, i) BY <1>1, FramedSame
<1>4. Framed(f, a, b + Extent(n), i) BY <1>1, <1>2, <1>3, FramedMore, Zenon
<1> QED BY <1>4 DEF i

-----------------------------------------------------------------------------
(* Places in the stream.                                                   *)

LEMMA AfterIs ==
  ASSUME NEW i \in Nat, NEW n \in Nat, NEW q \in Nat
  PROVE  /\ q + 1 < Extent(n) => After(Cell(i, n, q)) = Cell(i, n, q + 1)
         /\ ~(q + 1 < Extent(n)) => After(Cell(i, n, q)) = Cell(i + 1, 0, 0)
<1> DEFINE c == Cell(i, n, q)
<1>1. c.id = i /\ c.size = n /\ c.at = q BY CellIs
<1> HIDE DEF c
<1> QED BY <1>1 DEF After, c

LEMMA PlaceIs ==
  ASSUME NEW i \in Nat, NEW n \in Nat, NEW q \in Nat
  PROVE  Place(Cell(i, n, q)) = IF q = 0 THEN Cell(i, 0, 0) ELSE Cell(i, n, q)
<1> DEFINE c == Cell(i, n, q)
<1>1. c.id = i /\ c.size = n /\ c.at = q BY CellIs
<1> HIDE DEF c
<1> QED BY <1>1 DEF Place, c

-----------------------------------------------------------------------------
(* The marks of the netOutStream.                                          *)

Marked == [start : Int, end : Int, write : Int]
OutCells == [0 .. OutSize - 1 -> Cells]

LEMMA OutMarks ==
  ASSUME NEW o \in Marked, Marks(o, OutSize)
  PROVE  /\ o.start \in Int /\ o.end \in Int /\ o.write \in Int
         /\ 0 <= o.start /\ o.start <= o.end /\ o.end <= OutSize
         /\ 0 <= o.write /\ o.write <= o.end
         /\ o.write # o.end => o.write < o.end /\ (o.write < o.start \/ o.write = 0)
  BY Constants DEF Marks, Marked

LEMMA OutCellsIn ==
  ASSUME NEW f \in OutCells, NEW a \in Nat, NEW b \in Int, b <= OutSize
  PROVE  \A p \in a .. b - 1 : p \in 0 .. OutSize - 1 /\ f[p] \in Cells
<1> SUFFICES ASSUME NEW p \in a .. b - 1
    PROVE  p \in 0 .. OutSize - 1 /\ f[p] \in Cells
    OBVIOUS
<1>1. p \in 0 .. OutSize - 1 BY Constants
<1> QED BY <1>1 DEF OutCells

(* An empty buffer is begun again from the front.                          *)
LEMMA RewoundOut ==
  ASSUME NEW o \in Marked, NEW f \in OutCells, NEW m \in Nat, OutStored(o, f, m)
  PROVE  /\ Rewound(o) \in Marked /\ OutStored(Rewound(o), f, m)
         /\ ToShip(Rewound(o), f, m) = ToShip(o, f, m)
         /\ o.start < o.end => Rewound(o) = o
         /\ ~ (o.start < o.end) => Rewound(o) = [start |-> 0, end |-> 0, write |-> 0]
<1> DEFINE z == [start |-> 0, end |-> 0, write |-> 0]
<1>1. Marks(o, OutSize) BY DEF OutStored
<1>2. o.start \in Int /\ o.end \in Int /\ o.start <= o.end BY <1>1, OutMarks
<1>3. CASE o.start < o.end
  <2>1. Rewound(o) = o BY <1>2, <1>3 DEF Rewound
  <2> QED BY <2>1, <1>3
<1>4. CASE o.start = o.end
  <2>1. Rewound(o) = z BY <1>4 DEF Rewound
  <2>2. z \in Marked /\ z.start = 0 /\ z.end = 0 /\ z.write = 0 BY DEF Marked
  <2> HIDE DEF z
  <2>3. Marks(z, OutSize) BY <2>2, Constants DEF Marks
  <2>4. Framed(f, 0, 0, m) BY FramedNone
  <2>5. OutInOrder(z, f, m) BY <2>2 DEF OutInOrder
  <2>6. OutStored(z, f, m) BY <2>2, <2>3, <2>4, <2>5 DEF OutStored
  <2>7. ToShip(z, f, m) = ToShip(o, f, m) BY <2>2, <1>4, <1>2 DEF ToShip
  <2> QED BY <2>1, <2>2, <2>6, <2>7, <1>4, <1>2 DEF z
<1> QED BY <1>2, <1>3, <1>4

(* The user wraps to the front of the buffer.                              *)
LEMMA WrappedOut ==
  ASSUME NEW o \in Marked, NEW f \in OutCells, NEW m \in Nat, OutStored(o, f, m),
         o.write = o.end, o.start < o.end
  PROVE  LET w == [o EXCEPT !.write = 0]
         IN  /\ w \in Marked /\ OutStored(w, f, m) /\ ToShip(w, f, m) = ToShip(o, f, m)
             /\ w.start = o.start /\ w.end = o.end /\ w.write = 0
<1> DEFINE w == [o EXCEPT !.write = 0]
<1>1. w \in Marked /\ w.start = o.start /\ w.end = o.end /\ w.write = 0 BY DEF Marked
<1> HIDE DEF w
<1>2. Marks(o, OutSize) /\ Framed(f, o.start, o.end, m) /\ OutInOrder(o, f, m) BY DEF OutStored
<1>3. o.start \in Int /\ o.end \in Int /\ 0 <= o.start /\ o.end <= OutSize BY <1>2, OutMarks
<1>4. 0 \in 0 .. w.end - 1 /\ w.end \in 0 .. OutSize /\ w.start \in 0 .. w.end
      BY <1>1, <1>3, Constants
<1>5. Marks(w, OutSize) BY <1>1, <1>4 DEF Marks
<1>6. Framed(f, 0, 0, m) BY FramedNone
<1>7. OutInOrder(w, f, m) BY <1>1, <1>2 DEF OutInOrder
<1>8. OutStored(w, f, m) BY <1>1, <1>2, <1>5, <1>6, <1>7 DEF OutStored
<1>9. ToShip(w, f, m) = ToShip(o, f, m) BY <1>1 DEF ToShip
<1> QED BY <1>1, <1>8, <1>9 DEF w

(* A chunk is handed over.                                                 *)
LEMMA HandedOut ==
  ASSUME NEW o \in Marked, NEW f \in OutCells, NEW m \in Nat, OutStored(o, f, m),
         NEW n \in Sizes, Fits(o, n, OutSize), Begun(f, o.write, m + 1, n, Extent(n))
  PROVE  LET h == Handed(o, n)
         IN  /\ h \in Marked /\ OutStored(h, f, m + 1)
             /\ ToShip(h, f, m + 1) = ToShip(o, f, m)
             /\ h.start = o.start /\ o.end <= h.end /\ h.write # -1
<1> DEFINE h == Handed(o, n)
<1>1. /\ Marks(o, OutSize) /\ Framed(f, o.start, o.end, m) /\ OutInOrder(o, f, m)
      /\ o.write # o.end => o.start < o.end /\ Framed(f, 0, o.write, m)
      BY DEF OutStored
<1>2. /\ o.start \in Int /\ o.end \in Int /\ o.write \in Int
      /\ 0 <= o.start /\ o.start <= o.end /\ o.end <= OutSize
      /\ 0 <= o.write /\ o.write <= o.end
      BY <1>1, OutMarks
<1>3. Extent(n) \in Nat /\ Extent(n) > 1 BY Extents
<1>4. /\ h \in Marked /\ h.start = o.start /\ h.write = o.write + Extent(n)
      /\ h.end = IF o.end = o.write THEN o.end + Extent(n) ELSE o.end
  <2> DEFINE e == IF o.end = o.write THEN o.end + Extent(n) ELSE o.end
             w == o.write + Extent(n)
  <2>1. h = [o EXCEPT !.end = e, !.write = w] BY DEF Handed
  <2>2. e \in Int /\ w \in Int BY <1>2, <1>3
  <2> HIDE DEF e, w, h
  <2>3. h \in Marked /\ h.start = o.start /\ h.end = e /\ h.write = w BY <2>1, <2>2 DEF Marked
  <2> QED BY <2>3 DEF e, w
<1> HIDE DEF h
<1>5. m + 1 \in Nat /\ m <= m + 1 /\ m + 1 \in 1 .. m + 1 BY Constants
<1>6. \A p \in o.start .. o.end - 1 : f[p] \in Cells BY <1>2, OutCellsIn
<1>7. CASE o.write = o.end
  <2>1. h.end = o.end + Extent(n) /\ h.write = h.end BY <1>4, <1>7
  <2>2. o.end + Extent(n) <= OutSize BY <1>2, <1>7 DEF Fits
  <2>3. o.start < o.end => f[o.end - 1].id = m BY <1>1, <1>7 DEF OutInOrder
  <2>4. /\ Framed(f, o.start, o.end + Extent(n), m + 1)
        /\ f[o.end].id = m + 1 /\ f[o.end + Extent(n) - 1].id = m + 1
    <3>1. Begun(f, o.end, m + 1, n, Extent(n)) BY <1>7
    <3>2. Framed(f, o.start, o.end + Extent(n), m + 1)
          BY <3>1, <2>3, <1>1, <1>2, <1>6, FramedNext, Zenon
    <3> QED BY <3>1, <3>2, <1>2, <1>5, BegunEnds
  <2>5. Marks(h, OutSize) BY <2>1, <2>2, <1>2, <1>3, <1>4 DEF Marks
  <2>6. OutInOrder(h, f, m + 1)
    <3>1. f[h.end - 1].id = m + 1 BY <2>1, <2>4, <1>2, <1>3
    <3> QED BY <3>1, <2>1 DEF OutInOrder
  <2>7. OutStored(h, f, m + 1) BY <2>1, <2>4, <2>5, <2>6, <1>4 DEF OutStored
  <2>8. ToShip(h, f, m + 1) = ToShip(o, f, m)
    <3>1. h.start < h.end BY <2>1, <1>2, <1>3, <1>4
    <3>2. ~ (o.start < o.end) => o.start = o.end BY <1>2
    <3> QED BY <3>1, <3>2, <2>4, <1>4 DEF ToShip
  <2> QED BY <2>1, <2>7, <2>8, <1>2, <1>3, <1>4 DEF h
<1>8. CASE o.write # o.end
  <2>1. h.end = o.end /\ h.write = o.write + Extent(n) BY <1>4, <1>8
  <2>2. o.write < o.end /\ h.write < o.start /\ h.write > 1
        BY <1>2, <1>3, <1>8, <2>1 DEF Fits
  <2>3. o.write # 0 => f[o.write - 1].id = m /\ f[0].id = f[o.end - 1].id + 1
        BY <1>1, <1>8 DEF OutInOrder
  <2>4. o.write = 0 => f[o.end - 1].id = m BY <1>1, <1>8 DEF OutInOrder
  <2>5. /\ Framed(f, 0, o.write + Extent(n), m + 1)
        /\ f[o.write].id = m + 1 /\ f[o.write + Extent(n) - 1].id = m + 1
    <3>1. 0 < o.write => f[o.write - 1].id = m BY <2>3, <1>2
    <3>2. \A p \in 0 .. o.write - 1 : f[p] \in Cells BY <1>2, OutCellsIn
    <3>3. Framed(f, 0, o.write, m) /\ 0 <= o.write /\ 0 \in Int BY <1>1, <1>2, <1>8
    <3>4. Framed(f, 0, o.write + Extent(n), m + 1)
          BY <3>1, <3>2, <3>3, <1>2, FramedNext, Zenon
    <3> QED BY <3>4, <1>2, <1>5, BegunEnds
  <2>6. Framed(f, o.start, o.end, m + 1) BY <1>1, <1>2, <1>5, <1>6, FramedSame
  <2>7. Marks(h, OutSize)
    <3>1. h.write \in 0 .. h.end - 1 BY <2>1, <2>2, <1>2, <1>3
    <3> QED BY <3>1, <2>1, <2>2, <1>2, <1>4 DEF Marks
  <2>8. f[0].id = f[o.end - 1].id + 1 BY <2>3, <2>4, <2>5
  <2>9. h.write \notin {0, h.end} BY <2>1, <2>2, <1>2
  <2>10. OutInOrder(h, f, m + 1)
    <3>1. f[h.write - 1].id = m + 1 BY <2>1, <2>5, <1>2, <1>3
    <3>2. f[0].id = f[h.end - 1].id + 1 BY <2>1, <2>8
    <3> QED BY <3>1, <3>2, <2>9 DEF OutInOrder
  <2>11. OutStored(h, f, m + 1)
         BY <2>1, <2>5, <2>6, <2>7, <2>10, <1>1, <1>4, <1>8 DEF OutStored
  <2>12. ToShip(h, f, m + 1) = ToShip(o, f, m) BY <2>1, <1>1, <1>4, <1>8 DEF ToShip
  <2>13. h.write # -1 /\ o.end <= h.end BY <2>1, <2>2, <1>2
  <2> QED BY <2>11, <2>12, <2>13, <1>4 DEF h
<1> QED BY <1>7, <1>8

(* A chunk is shipped, and the thread may follow the user.                 *)
LEMMA FollowedOut ==
  ASSUME NEW o \in Marked, NEW f \in OutCells, NEW m \in Nat, OutStored(o, f, m),
         o.start < o.end
  PROVE  LET c == o.start + Extent(f[o.start].size)
             h == Followed([o EXCEPT !.start = c])
         IN  /\ h \in Marked /\ OutStored(h, f, m) /\ c \in 0 .. OutSize
             /\ ToShip(h, f, m) = ToShip(o, f, m) + 1 /\ h.write = o.write
             /\ \A n \in Sizes : Fits(o, n, OutSize) => Fits(h, n, OutSize)
<1> DEFINE c == o.start + Extent(f[o.start].size)
           s == [o EXCEPT !.start = c]
           h == Followed(s)
<1>1. /\ Marks(o, OutSize) /\ Framed(f, o.start, o.end, m) /\ OutInOrder(o, f, m)
      /\ o.write # o.end => Framed(f, 0, o.write, m)
      BY DEF OutStored
<1>2. /\ o.start \in Int /\ o.end \in Int /\ o.write \in Int
      /\ 0 <= o.start /\ o.start <= o.end /\ o.end <= OutSize
      /\ 0 <= o.write /\ o.write <= o.end
      /\ o.write # o.end => o.write < o.end /\ (o.write < o.start \/ o.write = 0)
      BY <1>1, OutMarks
<1>3. \A p \in o.start .. o.end - 1 : f[p] \in Cells BY <1>2, OutCellsIn
<1>4. o.start \in o.start .. o.end - 1 /\ f[o.start] \in Cells BY <1>2, <1>3
<1>5. /\ f[o.start].size \in Sizes /\ f[o.start].id \in 1 .. m /\ c <= o.end
      /\ c < o.end => f[c].id = f[o.start].id + 1
      BY <1>1, <1>2, <1>4, FramedFirst
<1>6. c \in Int /\ o.start < c
  <2>1. Extent(f[o.start].size) \in Nat /\ Extent(f[o.start].size) > 1 BY <1>5, Extents
  <2> QED BY <2>1, <1>2
<1>7. Framed(f, c, o.end, m) /\ (c = o.end => f[o.end - 1].id = f[o.start].id)
      BY <1>1, <1>2, <1>3, FramedRest
<1>8. s \in Marked /\ s.start = c /\ s.end = o.end /\ s.write = o.write BY <1>6 DEF Marked
<1>9. ToShip(o, f, m) = f[o.start].id BY DEF ToShip
<1>10. c \in 0 .. OutSize BY <1>2, <1>5, <1>6, Constants
<1> DEFINE Goal == /\ h \in Marked /\ OutStored(h, f, m)
                   /\ ToShip(h, f, m) = ToShip(o, f, m) + 1 /\ h.write = o.write
                   /\ \A n \in Sizes : Fits(o, n, OutSize) => Fits(h, n, OutSize)
<1> SUFFICES Goal BY <1>10
<1>11. CASE c < o.end \/ o.write = o.end
  <2>1. h = s
    <3> HIDE DEF s
    <3>1. ~ (s.start = s.end /\ s.write # s.start) BY <1>11, <1>8, <1>6, <1>2
    <3> QED BY <3>1 DEF Followed
  <2> HIDE DEF c, h
  <2>2. h \in Marked /\ h.start = c /\ h.end = o.end /\ h.write = o.write BY <2>1, <1>8
  <2>3. o.write # o.end => o.write \in 0 .. o.end - 1 /\ (o.write < c \/ o.write = 0)
        BY <1>2, <1>6
  <2>4. o.end \in 0 .. OutSize /\ c \in 0 .. o.end BY <1>2, <1>5, <1>6
  <2>5. Marks(h, OutSize) BY <2>2, <2>3, <2>4 DEF Marks
  <2>6. OutInOrder(h, f, m) BY <2>2, <1>1 DEF OutInOrder
  <2>7. o.write # o.end => c < o.end BY <1>11
  <2>8. OutStored(h, f, m) BY <2>2, <2>5, <2>6, <2>7, <1>1, <1>7 DEF OutStored
  <2>9. ToShip(h, f, m) = f[o.start].id + 1
    <3>1. CASE c < o.end BY <3>1, <2>2, <1>5 DEF ToShip
    <3>2. CASE c = o.end
      <4>1. o.write = o.end BY <3>2, <1>2, <1>6, <1>11
      <4>2. f[o.end - 1].id = m BY <4>1, <1>1 DEF OutInOrder
      <4>3. ~ (h.start < h.end) BY <3>2, <2>2, <1>6
      <4>4. m = f[o.start].id BY <4>2, <3>2, <1>7
      <4> QED BY <4>3, <4>4 DEF ToShip
    <3> QED BY <3>1, <3>2, <1>2, <1>5, <1>6
  <2>10. ASSUME NEW n \in Sizes, Fits(o, n, OutSize) PROVE Fits(h, n, OutSize)
    <3>1. Extent(n) \in Nat BY Extents
    <3> QED BY <3>1, <2>2, <2>10, <1>2, <1>6 DEF Fits
  <2> QED BY <2>2, <2>8, <2>9, <2>10, <1>9
<1>12. CASE c = o.end /\ o.write # o.end
  <2>1. h = [s EXCEPT !.start = 0, !.end = s.write]
    <3> HIDE DEF s
    <3>1. s.start = s.end /\ s.write # s.start BY <1>12, <1>8
    <3> QED BY <3>1 DEF Followed
  <2>2. h \in Marked /\ h.start = 0 /\ h.end = o.write /\ h.write = o.write
    <3> DEFINE w == o.write
    <3>1. h = [s EXCEPT !.start = 0, !.end = w] BY <2>1, <1>8
    <3> HIDE DEF s, h, w, c
    <3>2. w \in Int /\ s \in Marked /\ s.write = w BY <1>2, <1>8 DEF w
    <3>3. h = [start |-> 0, end |-> w, write |-> w] BY <3>1, <3>2 DEF Marked
    <3>4. h.start = 0 /\ h.end = w /\ h.write = w BY <3>3
    <3>5. h \in Marked BY <3>3, <3>2 DEF Marked
    <3> QED BY <3>4, <3>5 DEF w
  <2> HIDE DEF c, h, s
  <2>3. Marks(h, OutSize)
    <3>1. o.write \in 0 .. OutSize /\ 0 \in 0 .. o.write BY <1>2, Constants
    <3> QED BY <3>1, <2>2 DEF Marks
  <2>4. o.write # 0 => f[o.write - 1].id = m /\ f[0].id = f[o.end - 1].id + 1
        BY <1>1, <1>12 DEF OutInOrder
  <2>5. o.write = 0 => f[o.end - 1].id = m BY <1>1, <1>12 DEF OutInOrder
  <2>6. OutInOrder(h, f, m) BY <2>2, <2>4, <1>2 DEF OutInOrder
  <2>7. OutStored(h, f, m) BY <2>2, <2>3, <2>6, <1>1, <1>12 DEF OutStored
  <2>8. ToShip(h, f, m) = f[o.start].id + 1
    <3>1. f[o.end - 1].id = f[o.start].id BY <1>7, <1>12
    <3>2. CASE o.write = 0 BY <3>1, <3>2, <2>2, <2>5 DEF ToShip
    <3>3. CASE o.write # 0
      <4>1. h.start < h.end BY <3>3, <2>2, <1>2
      <4> QED BY <4>1, <3>1, <3>3, <2>2, <2>4 DEF ToShip
    <3> QED BY <3>2, <3>3
  <2>9. ASSUME NEW n \in Sizes, Fits(o, n, OutSize) PROVE Fits(h, n, OutSize)
    <3>1. Extent(n) \in Nat BY Extents
    <3>2. o.write + Extent(n) < o.start BY <2>9, <1>12, <1>2 DEF Fits
    <3> QED BY <3>1, <3>2, <2>2, <1>2, Constants DEF Fits
  <2> QED BY <2>2, <2>7, <2>8, <2>9, <1>9
<1> QED BY <1>11, <1>12, <1>2, <1>5, <1>6

-----------------------------------------------------------------------------
(* OutInv, action by action.                                               *)

SenderPcs == {"begin", "wait", "woken", "size", "ship", "ended"}
UserPcs == {"idle", "wait", "woken", "fill", "filled", "freeing", "freed"}
Senders == [pc : SenderPcs, at : 0 .. OutSize, left : Nat]
Users == [pc : UserPcs, size : Nat]

LEMMA OutTyped ==
  OutTypes <=> /\ out \in Marked /\ outBuffer \in OutCells
               /\ sender \in Senders /\ user \in Users /\ sent \in Nat
  BY DEF OutTypes, Marked, OutCells, Cells, Senders, SenderPcs, Users, UserPcs

LEMMA OutTypedNext ==
  OutTypes' <=> /\ out' \in Marked /\ outBuffer' \in OutCells
                /\ sender' \in Senders /\ user' \in Users /\ sent' \in Nat
  BY DEF OutTypes, Marked, OutCells, Cells, Senders, SenderPcs, Users, UserPcs

(* What the thread ships stays where it is.                                *)
LEMMA SenderKept ==
  ASSUME SenderShips, sender'.at = sender.at, sender'.left = sender.left,
         sender'.pc = sender.pc \/ sender'.pc \notin {"size", "ship"},
         out.start < out.end => /\ out'.start = out.start /\ out'.start < out'.end
                                /\ outBuffer'[out.start] = outBuffer[out.start]
  PROVE  SenderShips'
<1>1. CASE sender'.pc \notin {"size", "ship"} BY <1>1 DEF SenderShips
<1>2. CASE sender'.pc = sender.pc
  <2>1. CASE sender.pc \notin {"size", "ship"} BY <2>1, <1>2 DEF SenderShips
  <2>2. CASE sender.pc \in {"size", "ship"}
    <3>1. /\ out.start < out.end /\ out'.start = out.start /\ out'.start < out'.end
          /\ outBuffer'[out.start] = outBuffer[out.start]
          BY <2>2 DEF SenderShips
    <3> QED BY <3>1, <1>2 DEF SenderShips
  <2> QED BY <2>1, <2>2
<1> QED BY <1>1, <1>2

LEMMA SenderWokenIs ==
  ASSUME sender \in Senders
  PROVE  /\ SenderWoken \in Senders
         /\ SenderWoken.at = sender.at /\ SenderWoken.left = sender.left
         /\ SenderWoken.pc = sender.pc \/ SenderWoken.pc = "woken"
         /\ SenderWoken.pc # "woken" => SenderWoken = sender
         /\ sender.pc \in {"size", "ship", "ended"} => SenderWoken = sender
  BY DEF SenderWoken, Senders, SenderPcs

LEMMA UserWokenIs ==
  ASSUME user \in Users
  PROVE  /\ UserWoken \in Users /\ UserWoken.size = user.size
         /\ user.pc = "wait" => UserWoken.pc = "woken"
         /\ user.pc # "wait" => UserWoken = user
  BY DEF UserWoken, Users, UserPcs

(* The chunk the thread ships.                                             *)
LEMMA SenderSees ==
  ASSUME OutInv, sender.pc \in {"size", "ship"}
  PROVE  LET n == outBuffer[out.start].size
         IN  /\ n \in Sizes /\ Extent(n) \in Nat /\ Extent(n) > 1
             /\ out.start \in Nat /\ out.end \in Nat /\ out.start < out.end
             /\ out.start + Extent(n) <= out.end /\ out.end <= OutSize
             /\ outBuffer[out.start].id \in 1 .. sent
             /\ \A q \in 0 .. Extent(n) - 1 :
                  outBuffer[out.start + q] = Cell(outBuffer[out.start].id, n, q)
<1>1. OutTypes /\ SenderShips BY DEF OutInv
<1>2. outBuffer \in OutCells /\ out \in Marked /\ sent \in Nat BY <1>1, OutTyped
<1>3. out.start < out.end BY <1>1 DEF SenderShips
<1>4. /\ Framed(outBuffer, out.start, out.end, sent)
      /\ out.start \in Int /\ out.end \in Int /\ 0 <= out.start /\ out.end <= OutSize
  <2>1. CASE Writing
    <3>1. OutStored(out, outBuffer, sent) BY <2>1 DEF OutInv
    <3>2. Marks(out, OutSize) /\ Framed(outBuffer, out.start, out.end, sent)
          BY <3>1 DEF OutStored
    <3> QED BY <3>2, <1>2, OutMarks
  <2>2. CASE ~Writing
    <3>1. /\ out.end \in 0 .. OutSize /\ out.start \in 0 .. out.end
          /\ Framed(outBuffer, out.start, out.end, sent)
          BY <2>2 DEF OutInv
    <3> QED BY <3>1, Constants
  <2> QED BY <2>1, <2>2
<1>5. out.start \in Nat /\ out.end \in Nat BY <1>3, <1>4
<1>6. outBuffer[out.start] \in Cells
  <2>1. out.start \in 0 .. OutSize - 1 BY <1>3, <1>4, Constants
  <2> QED BY <2>1, <1>2 DEF OutCells
<1> DEFINE f == outBuffer
           a == out.start
           b == out.end
<1>7. a \in Int /\ b \in Int /\ a < b /\ f[a] \in Cells /\ Framed(f, a, b, sent)
      BY <1>3, <1>4, <1>6
<1> HIDE DEF f, a, b
<1>8. /\ f[a].size \in Sizes /\ f[a].id \in 1 .. sent /\ a + Extent(f[a].size) <= b
      /\ \A q \in 0 .. Extent(f[a].size) - 1 : f[a + q] = Cell(f[a].id, f[a].size, q)
      BY <1>2, <1>7, FramedFirst
<1>9. Extent(f[a].size) \in Nat /\ Extent(f[a].size) > 1 BY <1>8, Extents
<1> QED BY <1>3, <1>4, <1>5, <1>8, <1>9 DEF f, a, b

(* The sender goes on where it was.                                        *)
SendsOn == Shipping' => Shipping /\ SendPlace' = SendPlace

LEMMA SendPlaceKept ==
  ASSUME OutInv, sender'.pc = "ship" <=> sender.pc = "ship",
         sender.pc = "ship" =>
           /\ sender'.at = sender.at /\ sender'.left = sender.left /\ out'.start = out.start
           /\ \A p \in out.start .. out.end - 1 : outBuffer'[p] = outBuffer[p],
         ToShip(out', outBuffer', sent') = ToShip(out, outBuffer, sent)
  PROVE  SendPlace' = SendPlace
<1> DEFINE e == Extent(outBuffer[out.start].size)
<1>1. CASE sender.pc # "ship" BY <1>1 DEF SendPlace
<1>2. CASE sender.pc = "ship"
  <2>1. /\ e \in Nat /\ out.start \in Nat /\ out.end \in Nat /\ out.start < out.end
        /\ out.start + e <= out.end
        BY <1>2, SenderSees
  <2>2. outBuffer'[out.start] = outBuffer[out.start]
    <3>1. out.start \in out.start .. out.end - 1 BY <2>1
    <3> QED BY <3>1, <1>2
  <2>3. sender.left \in 0 .. e /\ sender.at + sender.left = out.start + e
        /\ out.start <= sender.at
        BY <1>2 DEF OutInv, SenderShips
  <2>4. sender.at \in Int BY OutTyped, Constants DEF OutInv, Senders
  <2>5. sender.left < e => outBuffer'[sender.at - 1] = outBuffer[sender.at - 1]
    <3> HIDE DEF e
    <3>1. sender.left < e => sender.at - 1 \in out.start .. out.end - 1
          BY <2>1, <2>3, <2>4
    <3> QED BY <3>1, <1>2
  <2> QED BY <2>2, <2>5, <1>2 DEF SendPlace
<1> QED BY <1>1, <1>2

(* The user's thread while it writes: what is left to show of a step.      *)
LEMMA OutWhileWriting ==
  ASSUME OutTypes', SenderShips', OutStored(out, outBuffer, sent)', UserFills', Writing'
  PROVE  OutInv'
<1>1. Marks(out', OutSize) /\ out' \in Marked BY OutTypedNext DEF OutStored
<1>2. /\ out'.start \in Int /\ out'.end \in Int
      /\ 0 <= out'.start /\ out'.start <= out'.end /\ out'.end <= OutSize
      BY <1>1, OutMarks
<1>3. out'.start \in 0 .. OutSize /\ out'.end \in -1 .. OutSize BY <1>2, Constants
<1> QED BY <1>3 DEF OutInv

LEMMA OutInitially == Init => OutInv
<1> SUFFICES ASSUME Init PROVE OutInv OBVIOUS
<1> USE DEF Init, OutInit
<1>1. Junk \in Cells BY CellIs DEF Junk
<1>2. out \in Marked /\ out.start = 0 /\ out.end = 0 /\ out.write = 0 BY DEF Marked
<1>3. outBuffer \in OutCells BY <1>1 DEF OutCells
<1>4. sender \in Senders /\ sender.pc = "begin"
      BY Constants DEF Senders, SenderPcs
<1>5. user \in Users /\ user.pc = "idle" BY DEF Users, UserPcs
<1>6. OutTypes BY <1>2, <1>3, <1>4, <1>5, OutTyped
<1>7. Framed(outBuffer, 0, 0, sent) BY FramedNone
<1>8. Marks(out, OutSize) BY <1>2, Constants DEF Marks
<1>9. OutStored(out, outBuffer, sent) BY <1>2, <1>7, <1>8 DEF OutStored, OutInOrder
<1>10. SenderShips /\ UserFills /\ Writing BY <1>4, <1>5 DEF SenderShips, UserFills, Writing
<1>11. out.start \in 0 .. OutSize /\ out.end \in -1 .. OutSize BY <1>2, Constants
<1> QED BY <1>6, <1>9, <1>10, <1>11 DEF OutInv

(* The user reserves room, or waits for it.                                *)
LEMMA Reserved ==
  ASSUME OutInv, Writing, NEW n \in Sizes, Extent(n) < OutSize,
         NEW o \in Marked, OutStored(o, outBuffer, sent),
         out.start < out.end => o.start = out.start /\ o.end = out.end,
         ToShip(o, outBuffer, sent) = ToShip(out, outBuffer, sent),
         out' = o, user' = [pc |-> "wait", size |-> n] \/
                   (user' = [pc |-> "fill", size |-> n] /\ Fits(o, n, OutSize)),
         UNCHANGED <<outBuffer, sender, sent, up>>
  PROVE  OutInv' /\ SendsOn
<1>1. n \in Nat BY Extents
<1>2. OutTypes /\ SenderShips BY DEF OutInv
<1>3. /\ user' \in Users /\ user'.size = n
      /\ user'.pc = "wait" \/ (user'.pc = "fill" /\ Fits(o, n, OutSize))
      BY <1>1 DEF Users, UserPcs
<1>4. OutTypes' BY <1>2, <1>3, OutTyped, OutTypedNext
<1>5. SenderShips' BY <1>2, SenderKept
<1>6. UserFills' BY <1>3 DEF UserFills
<1>7. Writing' BY <1>3 DEF Writing
<1>8. OutStored(out, outBuffer, sent)' OBVIOUS
<1>9. OutInv' BY <1>4, <1>5, <1>6, <1>7, <1>8, OutWhileWriting
<1>10. sender.pc = "ship" => out'.start = out.start BY <1>2 DEF SenderShips
<1>11. SendPlace' = SendPlace BY <1>10, SendPlaceKept
<1> QED BY <1>9, <1>11 DEF SendsOn, Shipping

LEMMA ReserveKeeps ==
  ASSUME OutInv, Writing, NEW n \in Sizes, Extent(n) < OutSize,
         NEW o \in Marked, OutStored(o, outBuffer, sent),
         out.start < out.end => o.start = out.start /\ o.end = out.end,
         ToShip(o, outBuffer, sent) = ToShip(out, outBuffer, sent),
         Reserve(Rewound(o), n), UNCHANGED <<outBuffer, sender, sent, up>>
  PROVE  OutInv' /\ SendsOn
<1> DEFINE r == Rewound(o)
<1>1. OutTypes BY DEF OutInv
<1>2. outBuffer \in OutCells /\ sent \in Nat /\ out \in Marked BY <1>1, OutTyped
<1>3. /\ r \in Marked /\ OutStored(r, outBuffer, sent)
      /\ o.start < o.end => r = o
      /\ ToShip(r, outBuffer, sent) = ToShip(out, outBuffer, sent)
      BY <1>2, RewoundOut
<1>4. out.start < out.end => r.start = out.start /\ r.end = out.end
  <2> HIDE DEF r
  <2> QED BY <1>3
<1> HIDE DEF r
<1>5. Reserve(r, n) BY DEF r
<1>6. Marks(r, OutSize) BY <1>3 DEF OutStored
<1>7. /\ r.start \in Int /\ r.end \in Int /\ r.write \in Int
      /\ 0 <= r.start /\ r.start <= r.end /\ r.end <= OutSize
      /\ 0 <= r.write /\ r.write <= r.end
      BY <1>3, <1>6, OutMarks
<1>8. Extent(n) \in Nat BY Extents
<1>9. ~NoRoom(r, n) => Fits(r, n, OutSize)
      BY <1>7, <1>8, Constants DEF NoRoom, Fits
<1>10. /\ out' = r
       /\ \/ user' = [pc |-> "wait", size |-> n]
          \/ user' = [pc |-> "fill", size |-> n] /\ Fits(r, n, OutSize)
       BY <1>5, <1>9 DEF Reserve
<1> QED BY <1>3, <1>4, <1>10, Reserved

LEMMA BufferKeeps ==
  ASSUME OutInv, Buffer
  PROVE  OutInv' /\ SendsOn
<1>1. PICK n \in {s \in Sizes : Extent(s) < OutSize} :
        LET o == OutWrapped(out, n)
        IN  IF o.write = o.end
            THEN out' = o /\ user' = [pc |-> "fill", size |-> n]
            ELSE Reserve(Rewound(o), n)
      BY DEF Buffer
<1> DEFINE o == OutWrapped(out, n)
<1>2. n \in Sizes /\ Extent(n) < OutSize /\ Extent(n) \in Nat BY Extents
<1>3. Writing BY DEF Buffer, Writing
<1>4. OutTypes /\ OutStored(out, outBuffer, sent) BY <1>3 DEF OutInv
<1>5. outBuffer \in OutCells /\ sent \in Nat /\ out \in Marked BY <1>4, OutTyped
<1>6. Marks(out, OutSize) BY <1>4 DEF OutStored
<1>7. /\ out.start \in Int /\ out.end \in Int /\ out.write \in Int
      /\ 0 <= out.start /\ out.start <= out.end
      BY <1>5, <1>6, OutMarks
<1>8. UNCHANGED <<outBuffer, sender, sent, up>> BY DEF Buffer
<1>9. CASE out.write = out.end /\ out.end + Extent(n) > OutSize
  <2>1. o = [out EXCEPT !.write = 0] BY <1>9 DEF OutWrapped
  <2>2. o.write = 0 /\ o.start = out.start /\ o.end = out.end /\ o \in Marked
        BY <2>1, <1>5 DEF Marked
  <2>3. o.write # o.end
    <3> HIDE DEF o
    <3> QED BY <2>2, <1>2, <1>7, <1>9, Constants
  <2>4. Reserve(Rewound(o), n) BY <2>3, <1>1
  <2>5. CASE out.start < out.end
    <3>1. /\ OutStored(o, outBuffer, sent)
          /\ ToShip(o, outBuffer, sent) = ToShip(out, outBuffer, sent)
          BY <2>1, <2>5, <1>4, <1>5, <1>9, WrappedOut
    <3> HIDE DEF o
    <3> QED BY <3>1, <2>2, <2>4, <1>2, <1>3, <1>8, ReserveKeeps
  <2>6. CASE out.start = out.end
    <3>1. Rewound(o) = Rewound(out) BY <2>2, <2>6 DEF Rewound
    <3> HIDE DEF o
    <3>2. Reserve(Rewound(out), n) BY <2>4, <3>1
    <3> QED BY <3>2, <1>2, <1>3, <1>4, <1>5, <1>8, ReserveKeeps
  <2> QED BY <2>5, <2>6, <1>7
<1>10. CASE ~(out.write = out.end /\ out.end + Extent(n) > OutSize)
  <2>1. o = out BY <1>10 DEF OutWrapped
  <2> HIDE DEF o
  <2>2. CASE out.write = out.end
    <3>1. out' = out /\ user' = [pc |-> "fill", size |-> n] BY <2>1, <2>2, <1>1 DEF o
    <3>2. Fits(out, n, OutSize) BY <2>2, <1>2, <1>7, <1>10, Constants DEF Fits
    <3> QED BY <3>1, <3>2, <1>2, <1>3, <1>4, <1>5, <1>8, Reserved
  <2>3. CASE out.write # out.end
    <3>1. Reserve(Rewound(out), n) BY <2>1, <2>3, <1>1 DEF o
    <3> QED BY <3>1, <1>2, <1>3, <1>4, <1>5, <1>8, ReserveKeeps
  <2> QED BY <2>2, <2>3
<1> QED BY <1>9, <1>10

LEMMA BufferWakesKeeps ==
  ASSUME OutInv, BufferWakes
  PROVE  OutInv' /\ SendsOn
<1>1. Writing BY DEF BufferWakes, Writing
<1>2. OutTypes /\ OutStored(out, outBuffer, sent) /\ UserFills BY <1>1 DEF OutInv
<1>3. outBuffer \in OutCells /\ sent \in Nat /\ out \in Marked BY <1>2, OutTyped
<1>4. user.size \in Sizes /\ Extent(user.size) < OutSize
      BY <1>2 DEF BufferWakes, UserFills
<1>5. Reserve(Rewound(out), user.size) /\ UNCHANGED <<outBuffer, sender, sent, up>>
      BY DEF BufferWakes
<1> QED BY <1>1, <1>2, <1>3, <1>4, <1>5, ReserveKeeps

LEMMA FillKeeps ==
  ASSUME OutInv, Fill
  PROVE  OutInv' /\ SendsOn
<1> DEFINE n == user.size
           w == out.write
           room == w .. w + Extent(n) - 1
<1>1. Writing /\ user.pc = "fill" BY DEF Fill, Writing
<1>2. OutTypes /\ OutStored(out, outBuffer, sent) /\ UserFills /\ SenderShips
      BY <1>1 DEF OutInv
<1>3. /\ outBuffer \in OutCells /\ sent \in Nat /\ out \in Marked
      /\ sender \in Senders /\ user \in Users
      BY <1>2, OutTyped
<1>4. n \in Sizes /\ Extent(n) < OutSize /\ Fits(out, n, OutSize) BY <1>1, <1>2 DEF UserFills
<1>5. Extent(n) \in Nat /\ n \in Nat BY <1>4, Extents
<1>6. /\ Marks(out, OutSize) /\ Framed(outBuffer, out.start, out.end, sent)
      /\ out.write # out.end => Framed(outBuffer, 0, out.write, sent)
      /\ out.write # out.end => out.start < out.end
      /\ OutInOrder(out, outBuffer, sent)
      BY <1>2 DEF OutStored
<1>7. /\ out.start \in Int /\ out.end \in Int /\ w \in Int
      /\ 0 <= out.start /\ out.start <= out.end /\ out.end <= OutSize
      /\ 0 <= w /\ w <= out.end
      BY <1>3, <1>6, OutMarks
<1>8. /\ outBuffer' = [i \in DOMAIN outBuffer |->
           IF i \in room THEN Cell(sent + 1, n, i - w) ELSE outBuffer[i]]
      /\ user' = [user EXCEPT !.pc = "filled"]
      /\ out' = out /\ sender' = sender /\ sent' = sent
      BY DEF Fill
<1>9. DOMAIN outBuffer = 0 .. OutSize - 1 BY <1>3 DEF OutCells
<1>10. user' \in Users /\ user'.pc = "filled" /\ user'.size = n
       BY <1>1, <1>3, <1>8 DEF Users, UserPcs
<1>11. outBuffer' \in OutCells
  <2> SUFFICES ASSUME NEW i \in 0 .. OutSize - 1
      PROVE  (IF i \in room THEN Cell(sent + 1, n, i - w) ELSE outBuffer[i]) \in Cells
      BY <1>8, <1>9 DEF OutCells
  <2>1. CASE i \in room
    <3>1. i - w \in Nat /\ sent + 1 \in Nat BY <2>1, <1>3, <1>5, <1>7, Constants
    <3> QED BY <3>1, <2>1, <1>5, CellIs
  <2>2. CASE i \notin room BY <2>2, <1>3 DEF OutCells
  <2> QED BY <2>1, <2>2
<1>12. \A i \in room : i \in DOMAIN outBuffer
  <2>1. w + Extent(n) <= OutSize BY <1>4, <1>5, <1>7, Constants DEF Fits
  <2> QED BY <2>1, <1>5, <1>7, <1>9, Constants
<1>13. ASSUME NEW p \in 0 .. OutSize - 1, p \notin room PROVE outBuffer'[p] = outBuffer[p]
       BY <1>8, <1>9, <1>13
<1>14. \A p \in out.start .. out.end - 1 : outBuffer[p] \in Cells /\ outBuffer'[p] = outBuffer[p]
  <2> TAKE p \in out.start .. out.end - 1
  <2>1. p \in 0 .. OutSize - 1 /\ outBuffer[p] \in Cells BY <1>3, <1>7, OutCellsIn
  <2>2. p \notin room BY <1>4, <1>5, <1>7 DEF Fits
  <2> QED BY <2>1, <2>2, <1>13
<1>15. w # out.end =>
         \A p \in 0 .. w - 1 : outBuffer[p] \in Cells /\ outBuffer'[p] = outBuffer[p]
  <2> SUFFICES ASSUME NEW p \in 0 .. w - 1
      PROVE  outBuffer[p] \in Cells /\ outBuffer'[p] = outBuffer[p]
      OBVIOUS
  <2>1. p \in 0 .. OutSize - 1 /\ outBuffer[p] \in Cells BY <1>3, <1>7, OutCellsIn
  <2>2. p \notin room BY <1>5, <1>7
  <2> QED BY <2>1, <2>2, <1>13
<1> HIDE DEF room
<1>16. OutTypes' BY <1>3, <1>8, <1>10, <1>11, OutTypedNext
<1>17. SenderShips'
  <2>1. out.start < out.end => outBuffer'[out.start] = outBuffer[out.start] BY <1>7, <1>14
  <2> QED BY <2>1, <1>2, <1>8, SenderKept
<1>18. OutStored(out', outBuffer', sent')
  <2>1. Framed(outBuffer', out.start, out.end, sent) BY <1>3, <1>6, <1>7, <1>14, FramedSame
  <2>2. w # out.end => Framed(outBuffer', 0, w, sent) BY <1>3, <1>6, <1>7, <1>15, FramedSame
  <2>3. out.start < out.end => outBuffer'[out.end - 1] = outBuffer[out.end - 1]
        BY <1>7, <1>14
  <2>4. w \notin {0, out.end} => /\ outBuffer'[w - 1] = outBuffer[w - 1]
                                 /\ outBuffer'[0] = outBuffer[0]
        BY <1>7, <1>15
  <2>5. OutInOrder(out, outBuffer', sent) BY <2>3, <2>4, <1>6 DEF OutInOrder
  <2> QED BY <2>1, <2>2, <2>5, <1>6, <1>8 DEF OutStored
<1>19. Begun(outBuffer', w, sent + 1, n, Extent(n))
  <2> SUFFICES ASSUME NEW q \in 0 .. Extent(n) - 1
      PROVE  outBuffer'[w + q] = Cell(sent + 1, n, q)
      BY DEF Begun
  <2>1. w + q \in room /\ (w + q) - w = q BY <1>5, <1>7 DEF room
  <2>2. outBuffer'[w + q] = Cell(sent + 1, n, (w + q) - w) BY <2>1, <1>8, <1>12
  <2> QED BY <2>1, <2>2
<1>20. UserFills' BY <1>4, <1>8, <1>10, <1>19 DEF UserFills
<1>21. Writing' BY <1>10 DEF Writing
<1>22. OutInv' BY <1>16, <1>17, <1>18, <1>20, <1>21, OutWhileWriting
<1>23. ToShip(out', outBuffer', sent') = ToShip(out, outBuffer, sent)
  <2>1. out.start < out.end => outBuffer'[out.start] = outBuffer[out.start] BY <1>7, <1>14
  <2> QED BY <2>1, <1>8 DEF ToShip
<1>24. SendPlace' = SendPlace BY <1>8, <1>14, <1>23, SendPlaceKept
<1>25. Shipping' => Shipping BY <1>1, <1>8 DEF Shipping, Fill
<1> QED BY <1>22, <1>24, <1>25 DEF SendsOn

LEMMA SendKeeps ==
  ASSUME OutInv, Send
  PROVE  OutInv' /\ SendsOn
<1> DEFINE n == user.size
<1>1. Writing /\ user.pc = "filled" BY DEF Send, Writing
<1>2. OutTypes /\ OutStored(out, outBuffer, sent) /\ UserFills /\ SenderShips
      BY <1>1 DEF OutInv
<1>3. /\ outBuffer \in OutCells /\ sent \in Nat /\ out \in Marked
      /\ sender \in Senders /\ user \in Users
      BY <1>2, OutTyped
<1>4. /\ n \in Sizes /\ Fits(out, n, OutSize)
      /\ Begun(outBuffer, out.write, sent + 1, n, Extent(n))
      BY <1>1, <1>2 DEF UserFills
<1>5. Marks(out, OutSize) BY <1>2 DEF OutStored
<1>6. out.write \in Int /\ out.start \in Int /\ out.end \in Int BY <1>3, <1>5, OutMarks
<1>7. outBuffer[out.write].size = n
  <2>1. sent + 1 \in Nat BY <1>3
  <2> QED BY <2>1, <1>4, <1>6, BegunEnds
<1>8. /\ out' = Handed(out, n) /\ sender' = SenderWoken /\ sent' = sent + 1
      /\ user' = [pc |-> "idle", size |-> 0] /\ outBuffer' = outBuffer
      BY <1>7 DEF Send
<1>9. /\ out' \in Marked /\ OutStored(out', outBuffer, sent + 1)
      /\ ToShip(out', outBuffer, sent + 1) = ToShip(out, outBuffer, sent)
      /\ out'.start = out.start /\ out.end <= out'.end
      BY <1>2, <1>3, <1>4, <1>8, HandedOut
<1>10. user' \in Users /\ user'.pc = "idle" /\ sent' \in Nat BY <1>3, <1>8 DEF Users, UserPcs
<1>11. OutTypes' BY <1>3, <1>8, <1>9, <1>10, SenderWokenIs, OutTypedNext
<1>12. out.start < out.end => out'.start = out.start /\ out'.start < out'.end
  <2>1. out'.end \in Int BY <1>9 DEF Marked
  <2> QED BY <2>1, <1>6, <1>9
<1>13. SenderShips' BY <1>2, <1>3, <1>8, <1>12, SenderWokenIs, SenderKept
<1>14. UserFills' /\ Writing' BY <1>10 DEF UserFills, Writing
<1>15. OutInv' BY <1>8, <1>9, <1>11, <1>13, <1>14, OutWhileWriting
<1>16. /\ sender'.at = sender.at /\ sender'.left = sender.left
       /\ sender'.pc = "ship" <=> sender.pc = "ship"
       /\ sender'.pc = "ended" => sender.pc = "ended"
       BY <1>3, <1>8, SenderWokenIs
<1>17. SendPlace' = SendPlace BY <1>8, <1>9, <1>16, SendPlaceKept
<1>18. Shipping' => Shipping BY <1>1, <1>8, <1>3, SenderWokenIs DEF Shipping, Send
<1> QED BY <1>15, <1>17, <1>18 DEF SendsOn

(* The stream is being freed.                                              *)
LEMMA OutWhileFreeing ==
  ASSUME OutTypes', SenderShips', ~Writing', out'.write = -1,
         out'.end \in -1 .. OutSize, out'.start \in 0 .. OutSize,
         sender'.pc # "ended" => /\ out'.end \in 0 .. OutSize /\ out'.start \in 0 .. out'.end
                                 /\ Framed(outBuffer', out'.start, out'.end, sent')
  PROVE  OutInv'
  BY DEF OutInv

LEMMA OutFreeKeeps ==
  ASSUME OutInv, OutFree
  PROVE  OutInv' /\ SendsOn
<1>1. Writing /\ user.pc = "idle" BY DEF OutFree, Writing
<1>2. OutTypes /\ OutStored(out, outBuffer, sent) /\ SenderShips
      BY <1>1 DEF OutInv
<1>3. /\ outBuffer \in OutCells /\ sent \in Nat /\ out \in Marked
      /\ sender \in Senders /\ user \in Users
      BY <1>2, OutTyped
<1>4. /\ out' = [out EXCEPT !.write = -1] /\ sender' = SenderWoken
      /\ user' = [user EXCEPT !.pc = "freeing"] /\ outBuffer' = outBuffer /\ sent' = sent
      BY DEF OutFree
<1>5. out' \in Marked /\ out'.start = out.start /\ out'.end = out.end /\ out'.write = -1
      BY <1>3, <1>4 DEF Marked
<1>6. user' \in Users /\ user'.pc = "freeing" BY <1>3, <1>4 DEF Users, UserPcs
<1>7. OutTypes' BY <1>3, <1>4, <1>5, <1>6, SenderWokenIs, OutTypedNext
<1>8. SenderShips' BY <1>2, <1>3, <1>4, <1>5, SenderWokenIs, SenderKept
<1>9. Marks(out, OutSize) /\ Framed(outBuffer, out.start, out.end, sent) BY <1>2 DEF OutStored
<1>10. /\ out.start \in Int /\ out.end \in Int
       /\ 0 <= out.start /\ out.start <= out.end /\ out.end <= OutSize
       BY <1>3, <1>9, OutMarks
<1>11. out.end \in 0 .. OutSize /\ out.start \in 0 .. out.end /\ out.start \in 0 .. OutSize
       /\ out.end \in -1 .. OutSize
       BY <1>10, Constants
<1>12. ~Writing' BY <1>6 DEF Writing
<1>13. /\ out'.end \in 0 .. OutSize /\ out'.start \in 0 .. out'.end
       /\ out'.end \in -1 .. OutSize /\ out'.start \in 0 .. OutSize
       /\ Framed(outBuffer', out'.start, out'.end, sent')
       BY <1>4, <1>5, <1>9, <1>11
<1>14. OutInv' BY <1>5, <1>7, <1>8, <1>12, <1>13, OutWhileFreeing
<1>15. /\ sender'.at = sender.at /\ sender'.left = sender.left
       /\ sender'.pc = "ship" <=> sender.pc = "ship"
       BY <1>3, <1>4, SenderWokenIs
<1>16. ToShip(out', outBuffer', sent') = ToShip(out, outBuffer, sent)
       BY <1>4, <1>5 DEF ToShip
<1>17. SendPlace' = SendPlace BY <1>4, <1>5, <1>15, <1>16, SendPlaceKept
<1>18. Shipping' => Shipping BY <1>1, <1>3, <1>4, SenderWokenIs DEF Shipping, OutFree
<1> QED BY <1>14, <1>17, <1>18 DEF SendsOn

(* A step that leaves the buffer and its marks alone.                      *)
LEMMA OutMarksKept ==
  ASSUME OutInv, UNCHANGED <<out, outBuffer, sent>>, sender' \in Senders, SenderShips',
         user' \in Users, user'.size = user.size,
         \/ user'.pc = user.pc
         \/ user.pc = "wait" /\ user'.pc = "woken"
         \/ user.pc = "freeing" /\ user'.pc = "freed",
         sender.pc = "ended" => sender'.pc = "ended"
  PROVE  OutInv'
<1>1. OutTypes BY DEF OutInv
<1>2. OutTypes' BY <1>1, OutTyped, OutTypedNext
<1>3. Writing' <=> Writing BY DEF Writing
<1>4. CASE Writing
  <2>1. OutStored(out, outBuffer, sent) /\ UserFills BY <1>4 DEF OutInv
  <2>2. UserFills' BY <2>1 DEF UserFills
  <2> QED BY <2>1, <2>2, <1>2, <1>3, <1>4, OutWhileWriting
<1>5. CASE ~Writing
  <2>1. /\ out.write = -1 /\ out.end \in -1 .. OutSize /\ out.start \in 0 .. OutSize
        /\ sender.pc # "ended" => /\ out.end \in 0 .. OutSize /\ out.start \in 0 .. out.end
                                  /\ Framed(outBuffer, out.start, out.end, sent)
        BY <1>5 DEF OutInv
  <2> QED BY <2>1, <1>2, <1>3, <1>5, OutWhileFreeing
<1> QED BY <1>4, <1>5

LEMMA OutFreedKeeps ==
  ASSUME OutInv, OutFreed
  PROVE  OutInv' /\ SendsOn
<1>1. OutTypes /\ SenderShips BY DEF OutInv
<1>2. sender \in Senders /\ user \in Users BY <1>1, OutTyped
<1>3. UNCHANGED <<out, outBuffer, sent>> /\ sender' = sender BY DEF OutFreed
<1>4. user' \in Users /\ user'.size = user.size /\ user.pc = "freeing" /\ user'.pc = "freed"
      BY <1>2 DEF OutFreed, Users, UserPcs
<1>5. SenderShips' BY <1>1, <1>3, SenderKept
<1>6. OutInv' BY <1>2, <1>3, <1>4, <1>5, OutMarksKept
<1>7. ~Shipping' BY <1>3 DEF OutFreed, Shipping
<1> QED BY <1>6, <1>7 DEF SendsOn

LEMMA LooksKeeps ==
  ASSUME OutInv, Looks
  PROVE  OutInv' /\ SendsOn
<1>1. OutTypes BY DEF OutInv
<1>2. sender \in Senders /\ user \in Users /\ out \in Marked BY <1>1, OutTyped
<1>3. /\ UNCHANGED <<out, outBuffer, sent>> /\ user' = user
      /\ sender.pc # "ended" /\ sender' = NextOf(out)
      BY DEF Looks
<1>4. out.start \in 0 .. OutSize BY DEF OutInv
<1> DEFINE Goal == OutInv' /\ sender'.pc # "ship" /\ (out.write = -1 => sender'.pc = "ended")
<1>5. ASSUME out.write = -1 PROVE Goal
  <2>1. sender' = [sender EXCEPT !.pc = "ended"] BY <1>3, <1>5 DEF NextOf
  <2>2. sender' \in Senders /\ sender'.pc = "ended" BY <2>1, <1>2 DEF Senders, SenderPcs
  <2>3. SenderShips' BY <2>2 DEF SenderShips
  <2> QED BY <2>2, <2>3, <1>2, <1>3, OutMarksKept
<1>6. ASSUME out.write # -1, out.start = out.end PROVE Goal
  <2>1. sender' = [sender EXCEPT !.pc = "wait"] BY <1>3, <1>6 DEF NextOf
  <2>2. sender' \in Senders /\ sender'.pc = "wait" BY <2>1, <1>2 DEF Senders, SenderPcs
  <2>3. SenderShips' BY <2>2 DEF SenderShips
  <2> QED BY <2>2, <2>3, <1>2, <1>3, <1>6, OutMarksKept
<1>7. ASSUME out.write # -1, out.start # out.end PROVE Goal
  <2>1. sender' = [sender EXCEPT !.pc = "size", !.at = out.start]
        BY <1>3, <1>7 DEF NextOf
  <2>2. sender' \in Senders /\ sender'.pc = "size" /\ sender'.at = out.start
        BY <2>1, <1>2, <1>4 DEF Senders, SenderPcs
  <2>3. Writing BY <1>7 DEF OutInv
  <2>4. OutStored(out, outBuffer, sent) BY <2>3 DEF OutInv
  <2>5. out.start < out.end
    <3>1. Marks(out, OutSize) BY <2>4 DEF OutStored
    <3> QED BY <3>1, <1>2, <1>7, OutMarks
  <2>6. out.start <= out.start BY <1>4
  <2>7. SenderShips' BY <2>2, <2>5, <2>6, <1>3 DEF SenderShips
  <2> QED BY <2>2, <2>7, <1>2, <1>3, <1>7, OutMarksKept
<1>8. OutInv' /\ sender'.pc # "ship" /\ (out.write = -1 => sender'.pc = "ended")
      BY <1>5, <1>6, <1>7
<1>9. SendPlace' = SendPlace
  <2>1. ToShip(out', outBuffer', sent') = ToShip(out, outBuffer, sent) BY <1>3
  <2>2. sender.pc # "ship" BY DEF Looks
  <2> QED BY <2>1, <2>2, <1>8, SendPlaceKept
<1>10. Shipping' => Shipping
  <2>1. CASE Writing BY <2>1, <1>3 DEF Shipping, Looks
  <2>2. CASE ~Writing
    <3>1. out.write = -1 BY <2>2 DEF OutInv
    <3> QED BY <3>1, <1>8 DEF Shipping
  <2> QED BY <2>1, <2>2
<1> QED BY <1>8, <1>9, <1>10 DEF SendsOn

LEMMA ReadsSizeKeeps ==
  ASSUME OutInv, ReadsSize
  PROVE  OutInv' /\ SendsOn
<1>1. OutTypes /\ SenderShips BY DEF OutInv
<1>2. sender \in Senders /\ user \in Users /\ out \in Marked BY <1>1, OutTyped
<1>3. /\ UNCHANGED <<out, outBuffer, sent>> /\ user' = user /\ sender.pc = "size"
      /\ sender' = [sender EXCEPT !.pc = "ship", !.left = Extent(outBuffer[sender.at].size)]
      BY DEF ReadsSize
<1>4. sender.at = out.start /\ out.start < out.end BY <1>1, <1>3 DEF SenderShips
<1> DEFINE e == Extent(outBuffer[out.start].size)
<1>5. sender' = [sender EXCEPT !.pc = "ship", !.left = e] BY <1>3, <1>4
<1>6. e \in Nat /\ out.start \in Nat BY <1>3, SenderSees
<1> HIDE DEF e
<1>7. sender' \in Senders /\ sender'.pc = "ship" /\ sender'.left = e /\ sender'.at = out.start
      BY <1>2, <1>4, <1>5, <1>6 DEF Senders, SenderPcs
<1>8. sender'.left \in 0 .. e /\ sender'.at + sender'.left = out.start + e
      /\ out.start <= sender'.at
      BY <1>6, <1>7
<1>9. SenderShips' BY <1>3, <1>4, <1>7, <1>8 DEF SenderShips, e
<1>10. OutInv' BY <1>2, <1>3, <1>7, <1>9, OutMarksKept
<1>11. SendPlace' = SendPlace
  <2>1. sender'.left = Extent(outBuffer'[out'.start].size) BY <1>3, <1>7 DEF e
  <2>2. ~(sender'.left < Extent(outBuffer'[out'.start].size)) BY <2>1, <1>6, <1>7
  <2>3. ToShip(out', outBuffer', sent') = ToShip(out, outBuffer, sent) BY <1>3
  <2> QED BY <2>2, <2>3, <1>3 DEF SendPlace
<1>12. Shipping' => Shipping BY <1>3 DEF Shipping, ReadsSize
<1> QED BY <1>10, <1>11, <1>12 DEF SendsOn

LEMMA ShipsKeeps ==
  ASSUME OutInv, Ships
  PROVE  /\ OutInv' /\ sender'.pc = "ship"
         /\ sender'.left = sender.left - 1 /\ sender'.at = sender.at + 1
<1>1. OutTypes /\ SenderShips BY DEF OutInv
<1>2. sender \in Senders /\ user \in Users /\ out \in Marked BY <1>1, OutTyped
<1>3. /\ UNCHANGED <<out, outBuffer, sent>> /\ user' = user
      /\ sender.pc = "ship" /\ sender.left > 0
      /\ sender' = [sender EXCEPT !.at = @ + 1, !.left = @ - 1]
      BY DEF Ships
<1> DEFINE e == Extent(outBuffer[out.start].size)
<1>4. /\ e \in Nat /\ out.start \in Nat /\ out.end \in Nat
      /\ out.start + e <= out.end /\ out.end <= OutSize
      BY <1>3, SenderSees
<1>5. /\ sender.left \in 0 .. e /\ sender.at + sender.left = out.start + e
      /\ out.start < out.end /\ out.start <= sender.at
      BY <1>1, <1>3 DEF SenderShips
<1> HIDE DEF e
<1>6. sender.at \in 0 .. OutSize /\ sender.left \in Nat BY <1>2 DEF Senders
<1>7. sender.at + 1 \in 0 .. OutSize /\ sender.left - 1 \in Nat
      BY <1>3, <1>4, <1>5, <1>6, Constants
<1>8. /\ sender' \in Senders /\ sender'.pc = "ship"
      /\ sender'.left = sender.left - 1 /\ sender'.at = sender.at + 1
      BY <1>2, <1>3, <1>7 DEF Senders, SenderPcs
<1>9. /\ sender'.left \in 0 .. e /\ sender'.at + sender'.left = out.start + e
      /\ out.start <= sender'.at
      BY <1>3, <1>4, <1>5, <1>6, <1>8
<1>10. SenderShips' BY <1>3, <1>5, <1>8, <1>9 DEF SenderShips, e
<1>11. OutInv' BY <1>2, <1>3, <1>8, <1>10, OutMarksKept
<1> QED BY <1>8, <1>11

LEMMA ShipRaisesKeeps ==
  ASSUME OutInv, ShipRaises
  PROVE  OutInv' /\ SendsOn
<1>1. OutTypes BY DEF OutInv
<1>2. sender \in Senders /\ user \in Users BY <1>1, OutTyped
<1>3. UNCHANGED <<out, outBuffer, sent>> /\ user' = user BY DEF ShipRaises
<1>4. sender' \in Senders /\ sender'.pc = "ended"
      BY <1>2 DEF ShipRaises, Senders, SenderPcs
<1>5. SenderShips' BY <1>4 DEF SenderShips
<1>6. OutInv' BY <1>2, <1>3, <1>4, <1>5, OutMarksKept
<1> QED BY <1>4, <1>6 DEF SendsOn, Shipping

LEMMA OutSpuriousKeeps ==
  ASSUME OutInv, OutSpurious
  PROVE  OutInv' /\ SendsOn
<1>1. OutTypes /\ SenderShips BY DEF OutInv
<1>2. sender \in Senders /\ user \in Users BY <1>1, OutTyped
<1>3. UNCHANGED <<out, outBuffer, sent>> BY DEF OutSpurious
<1> DEFINE Goal == OutInv' /\ (sender' = sender \/ (sender.pc = "wait" /\ sender'.pc = "woken"))
<1>4. ASSUME sender.pc = "wait", sender' = [sender EXCEPT !.pc = "woken"], UNCHANGED user
      PROVE  Goal /\ Writing' = Writing
  <2>1. sender' \in Senders /\ sender'.pc = "woken" BY <1>2, <1>4 DEF Senders, SenderPcs
  <2>2. SenderShips' BY <2>1 DEF SenderShips
  <2>3. OutInv' BY <2>1, <2>2, <1>2, <1>3, <1>4, OutMarksKept
  <2> QED BY <2>1, <2>3, <1>4 DEF Writing
<1>5. ASSUME user.pc = "wait", user' = [user EXCEPT !.pc = "woken"], UNCHANGED sender
      PROVE  Goal /\ Writing' = Writing
  <2>1. user' \in Users /\ user'.pc = "woken" /\ user'.size = user.size
        BY <1>2, <1>5 DEF Users, UserPcs
  <2>2. SenderShips' BY <1>1, <1>3, <1>5, SenderKept
  <2>3. sender' = sender BY <1>5
  <2>4. OutInv' BY <2>1, <2>2, <2>3, <1>2, <1>3, <1>5, OutMarksKept
  <2> QED BY <2>1, <2>3, <2>4, <1>5 DEF Writing
<1>6. Goal /\ Writing' = Writing BY <1>4, <1>5 DEF OutSpurious
<1>7. SendPlace' = SendPlace
  <2>1. ToShip(out', outBuffer', sent') = ToShip(out, outBuffer, sent) BY <1>3
  <2> QED BY <2>1, <1>3, <1>6, SendPlaceKept
<1>8. Shipping' => Shipping BY <1>6 DEF Shipping, OutSpurious
<1> QED BY <1>6, <1>7, <1>8 DEF SendsOn

LEMMA ShippedKeeps ==
  ASSUME OutInv, Shipped
  PROVE  /\ OutInv' /\ sender'.pc # "ship"
         /\ Writing => ToShip(out', outBuffer', sent') = ToShip(out, outBuffer, sent) + 1
         /\ ~Writing => sender'.pc = "ended"
<1> DEFINE c == out.start + Extent(outBuffer[out.start].size)
           o == Followed([out EXCEPT !.start = c])
<1>1. OutTypes /\ SenderShips /\ sender.pc = "ship" /\ sender.left = 0
      BY DEF OutInv, Shipped
<1>2. /\ sender \in Senders /\ user \in Users /\ out \in Marked
      /\ outBuffer \in OutCells /\ sent \in Nat
      BY <1>1, OutTyped
<1>3. sender.at = c /\ out.start < out.end
  <2>1. sender.at \in Nat BY <1>2, Constants DEF Senders
  <2>2. sender.at + sender.left = c /\ out.start < out.end BY <1>1 DEF SenderShips
  <2> HIDE DEF c
  <2> QED BY <2>1, <2>2, <1>1
<1>4. /\ out' = o /\ sender' = NextOf(o) /\ user' = UserWoken
      /\ outBuffer' = outBuffer /\ sent' = sent
      BY <1>3 DEF Shipped
<1>5. UserWoken \in Users /\ UserWoken.size = user.size
      /\ (user.pc = "wait" => UserWoken.pc = "woken")
      /\ (user.pc # "wait" => UserWoken = user)
      BY <1>2, UserWokenIs
<1>6. CASE Writing
  <2>1. OutStored(out, outBuffer, sent) /\ UserFills BY <1>6 DEF OutInv
  <2>2. /\ o \in Marked /\ OutStored(o, outBuffer, sent) /\ o.write = out.write
        /\ ToShip(o, outBuffer, sent) = ToShip(out, outBuffer, sent) + 1
        /\ \A n \in Sizes : Fits(out, n, OutSize) => Fits(o, n, OutSize)
        BY <2>1, <1>2, <1>3, FollowedOut
  <2> HIDE DEF c, o
  <2>3. Marks(o, OutSize) BY <2>2 DEF OutStored
  <2>4. /\ o.start \in Int /\ o.end \in Int /\ 0 <= o.start /\ o.start <= o.end
        /\ o.end <= OutSize /\ 0 <= o.write /\ o.write \in Int
        BY <2>2, <2>3, OutMarks
  <2>5. o.start \in 0 .. OutSize /\ o.write # -1 BY <2>4, Constants
  <2>6. sender' \in Senders /\ SenderShips' /\ sender'.pc # "ship"
    <3>1. CASE o.start = o.end
      <4>1. sender' = [sender EXCEPT !.pc = "wait"] BY <2>5, <3>1, <1>4 DEF NextOf
      <4>2. sender' \in Senders /\ sender'.pc = "wait" BY <4>1, <1>2 DEF Senders, SenderPcs
      <4> QED BY <4>2 DEF SenderShips
    <3>2. CASE o.start # o.end
      <4>1. sender' = [sender EXCEPT !.pc = "size", !.at = o.start]
            BY <2>5, <3>2, <1>4 DEF NextOf
      <4>2. sender' \in Senders /\ sender'.pc = "size" /\ sender'.at = o.start
            BY <4>1, <2>5, <1>2 DEF Senders, SenderPcs
      <4>3. o.start < o.end /\ o.start <= o.start BY <2>4, <3>2
      <4> QED BY <4>2, <4>3, <1>4 DEF SenderShips
    <3> QED BY <3>1, <3>2
  <2>7. user' \in Users /\ user'.size = user.size
        /\ (user'.pc = user.pc \/ (user.pc = "wait" /\ user'.pc = "woken"))
    <3>1. CASE user.pc = "wait" BY <3>1, <1>4, <1>5
    <3>2. CASE user.pc # "wait" BY <3>2, <1>2, <1>4, <1>5
    <3> QED BY <3>1, <3>2
  <2>8. Writing' BY <2>7, <1>6 DEF Writing
  <2>9. UserFills'
    <3>1. user.pc \in {"wait", "woken", "fill", "filled"} =>
            user.size \in Sizes /\ Extent(user.size) < OutSize
          BY <2>1 DEF UserFills
    <3>2. user.pc \in {"fill", "filled"} => Fits(out', user.size, OutSize)
          BY <2>1, <2>2, <1>4, <3>1 DEF UserFills
    <3>3. user.pc = "filled" =>
            Begun(outBuffer', out'.write, sent' + 1, user.size, Extent(user.size))
          BY <2>1, <2>2, <1>4 DEF UserFills
    <3> QED BY <3>1, <3>2, <3>3, <2>7 DEF UserFills
  <2>10. OutTypes' BY <2>2, <2>6, <2>7, <1>2, <1>4, OutTypedNext
  <2>11. OutInv' BY <2>2, <2>6, <2>8, <2>9, <2>10, <1>4, OutWhileWriting
  <2> QED BY <2>2, <2>6, <2>11, <1>4, <1>6
<1>7. CASE ~Writing
  <2>1. out.write = -1 /\ out.end \in -1 .. OutSize BY <1>7 DEF OutInv
  <2>2. c \in 0 .. OutSize
    <3> DEFINE e == Extent(outBuffer[out.start].size)
    <3>1. /\ e \in Nat /\ out.start \in Nat /\ out.end \in Nat
          /\ out.start + e <= out.end /\ out.end <= OutSize
          BY <1>1, SenderSees
    <3> HIDE DEF e
    <3>2. out.start + e \in 0 .. OutSize BY <3>1, Constants
    <3> QED BY <3>2 DEF e
  <2> HIDE DEF c
  <2> DEFINE s == [out EXCEPT !.start = c]
  <2>3. s \in Marked /\ s.start = c /\ s.end = out.end /\ s.write = -1
        BY <2>1, <2>2, <1>2 DEF Marked
  <2> HIDE DEF s
  <2>4. o \in Marked /\ o.write = -1 /\ o.start \in 0 .. OutSize /\ o.end \in -1 .. OutSize
    <3>1. CASE s.start = s.end /\ s.write # s.start
      <4>1. o = [s EXCEPT !.start = 0, !.end = s.write] BY <3>1 DEF Followed, s
      <4> DEFINE w == -1
      <4>2. o = [s EXCEPT !.start = 0, !.end = w] BY <4>1, <2>3
      <4>3. w \in Int /\ s.write = w /\ w \in -1 .. OutSize /\ 0 \in 0 .. OutSize
            BY <2>3, Constants
      <4> HIDE DEF w, o
      <4>4. o = [start |-> 0, end |-> w, write |-> w] BY <4>2, <4>3, <2>3 DEF Marked
      <4>5. o.start = 0 /\ o.end = w /\ o.write = w BY <4>4
      <4>6. o \in Marked BY <4>3, <4>4 DEF Marked
      <4> QED BY <4>3, <4>5, <4>6 DEF w
    <3>2. CASE ~(s.start = s.end /\ s.write # s.start)
      <4>1. o = s BY <3>2 DEF Followed, s
      <4> QED BY <4>1, <2>1, <2>2, <2>3
    <3> QED BY <3>1, <3>2
  <2> HIDE DEF o
  <2>5. sender' = [sender EXCEPT !.pc = "ended"] BY <2>4, <1>4 DEF NextOf
  <2>6. sender' \in Senders /\ sender'.pc = "ended" BY <2>5, <1>2 DEF Senders, SenderPcs
  <2>7. SenderShips' BY <2>6 DEF SenderShips
  <2>8. user' = user BY <1>4, <1>5, <1>7 DEF Writing
  <2>9. ~Writing' BY <2>8, <1>7 DEF Writing
  <2>10. OutTypes' BY <2>4, <2>6, <2>8, <1>2, <1>4, OutTypedNext
  <2>11. OutInv' BY <2>4, <2>6, <2>7, <2>9, <2>10, <1>4, OutWhileFreeing
  <2> QED BY <2>6, <2>11, <1>7
<1> QED BY <1>6, <1>7

(* What goes out is what comes next.                                       *)
LEMMA ShipsSends ==
  ASSUME OutInv, Ships
  PROVE  LET c == outBuffer[sender.at]
         IN  /\ c.id \in 1 .. sent /\ c.size \in Sizes /\ c.at \in Nat
             /\ c = Cell(c.id, c.size, c.at) /\ c.at < Extent(c.size)
             /\ Shipping /\ SendPlace = Place(c) /\ SendPlace' = After(c)
<1> DEFINE L == outBuffer[out.start].id
           n == outBuffer[out.start].size
           a == out.start
           d == sender.at - a
<1>1. OutTypes /\ SenderShips /\ sender.pc = "ship" /\ sender.left > 0
      /\ out' = out /\ outBuffer' = outBuffer /\ up
      BY DEF OutInv, Ships, SendCell
<1>2. sent \in Nat /\ sender \in Senders BY <1>1, OutTyped
<1>3. /\ n \in Sizes /\ Extent(n) \in Nat /\ a \in Nat /\ L \in 1 .. sent
      /\ \A q \in 0 .. Extent(n) - 1 : outBuffer[a + q] = Cell(L, n, q)
      /\ out.start < out.end
      BY <1>1, SenderSees
<1>4. n \in Nat /\ L \in Nat BY <1>2, <1>3, Extents
<1>5. /\ sender.left \in 0 .. Extent(n) /\ sender.at + sender.left = a + Extent(n)
      /\ a <= sender.at
      BY <1>1 DEF SenderShips
<1>6. sender.at \in Nat BY <1>2, Constants DEF Senders
<1> HIDE DEF n, L, a
<1>7. /\ d \in 0 .. Extent(n) - 1 /\ a + d = sender.at /\ d \in Nat
      /\ sender.left = Extent(n) - d
      BY <1>1, <1>3, <1>5, <1>6
<1> HIDE DEF d
<1>8. outBuffer[sender.at] = Cell(L, n, d) BY <1>3, <1>7
<1> DEFINE c == Cell(L, n, d)
<1>9. c.id = L /\ c.size = n /\ c.at = d BY <1>4, <1>7, CellIs
<1>10. d < Extent(n) BY <1>3, <1>7
<1>11. Shipping BY <1>1 DEF Shipping
<1>12. SendPlace = Place(c)
  <2>1. CASE d = 0
    <3>1. ~(sender.left < Extent(n)) BY <2>1, <1>3, <1>7
    <3>2. SendPlace = Cell(L, 0, 0) BY <3>1, <1>3 DEF SendPlace, ToShip, n, L
    <3> QED BY <3>2, <2>1, <1>4, <1>7, PlaceIs
  <2>2. CASE d # 0
    <3> DEFINE e == d - 1
    <3>1. sender.left < Extent(n) /\ e \in Nat /\ e + 1 = d /\ e \in 0 .. Extent(n) - 1
          /\ a + e = sender.at - 1
          BY <2>2, <1>3, <1>6, <1>7
    <3>2. SendPlace = After(outBuffer[sender.at - 1]) BY <3>1, <1>1 DEF SendPlace, n
    <3> HIDE DEF e
    <3>3. outBuffer[sender.at - 1] = Cell(L, n, e) BY <3>1, <1>3
    <3>4. After(Cell(L, n, e)) = Cell(L, n, d) BY <3>1, <1>4, <1>10, AfterIs
    <3> QED BY <3>2, <3>3, <3>4, <2>2, <1>4, <1>7, PlaceIs
  <2> QED BY <2>1, <2>2
<1>13. SendPlace' = After(c)
  <2>1. sender'.pc = "ship" /\ sender'.left = sender.left - 1 /\ sender'.at = sender.at + 1
        BY ShipsKeeps
  <2>2. sender'.left < Extent(n) /\ sender'.at - 1 = sender.at
        BY <2>1, <1>3, <1>6, <1>7
  <2>3. SendPlace' = After(outBuffer'[sender'.at - 1])
        BY <2>1, <2>2, <1>1 DEF SendPlace, n
  <2> QED BY <2>2, <2>3, <1>1, <1>8
<1> HIDE DEF c
<1>14. outBuffer[sender.at] = c /\ c = Cell(c.id, c.size, c.at) BY <1>8, <1>9 DEF c
<1> QED BY <1>3, <1>7, <1>9, <1>10, <1>11, <1>12, <1>13, <1>14

LEMMA ShippedSends ==
  ASSUME OutInv, Shipped
  PROVE  SendsOn
<1> DEFINE L == outBuffer[out.start].id
           n == outBuffer[out.start].size
           a == out.start
           d == Extent(n) - 1
<1>1. OutTypes /\ SenderShips /\ sender.pc = "ship" /\ sender.left = 0 /\ up' = up
      /\ user' = UserWoken
      BY DEF OutInv, Shipped
<1>2. sent \in Nat /\ sender \in Senders /\ user \in Users BY <1>1, OutTyped
<1>3. /\ n \in Sizes /\ Extent(n) \in Nat /\ Extent(n) > 1 /\ a \in Nat /\ L \in 1 .. sent
      /\ \A q \in 0 .. Extent(n) - 1 : outBuffer[a + q] = Cell(L, n, q)
      /\ out.start < out.end
      BY <1>1, SenderSees
<1>4. n \in Nat /\ L \in Nat BY <1>2, <1>3, Extents
<1>5. sender.at + sender.left = a + Extent(n) BY <1>1 DEF SenderShips
<1>6. sender.at \in Nat BY <1>2, Constants DEF Senders
<1> HIDE DEF n, L, a
<1>7. /\ d \in 0 .. Extent(n) - 1 /\ a + d = sender.at - 1 /\ d \in Nat
      /\ ~(d + 1 < Extent(n)) /\ sender.left < Extent(n)
      BY <1>1, <1>3, <1>5, <1>6
<1> HIDE DEF d
<1>8. SendPlace = Cell(L + 1, 0, 0)
  <2>1. SendPlace = After(outBuffer[sender.at - 1]) BY <1>1, <1>7 DEF SendPlace, n
  <2>2. outBuffer[sender.at - 1] = Cell(L, n, d) BY <1>3, <1>7
  <2> QED BY <2>1, <2>2, <1>4, <1>7, AfterIs
<1>9. ToShip(out, outBuffer, sent) = L BY <1>3 DEF ToShip, L
<1>10. /\ sender'.pc # "ship" /\ (~Writing => sender'.pc = "ended")
       /\ Writing => ToShip(out', outBuffer', sent') = L + 1
       BY <1>9, ShippedKeeps
<1>11. SUFFICES ASSUME Shipping' PROVE Shipping /\ SendPlace' = SendPlace BY DEF SendsOn
<1>12. Writing BY <1>10, <1>11 DEF Shipping
<1>13. SendPlace' = Cell(L + 1, 0, 0) BY <1>10, <1>12 DEF SendPlace
<1>14. Shipping BY <1>1, <1>11 DEF Shipping
<1> QED BY <1>8, <1>13, <1>14

-----------------------------------------------------------------------------
(* The marks of the netInStream.                                           *)

InCells == [-Header .. InSize - 1 -> Cells]

LEMMA InMarks ==
  ASSUME NEW i \in Marked, Marks(i, InSize)
  PROVE  /\ i.start \in Int /\ i.end \in Int /\ i.write \in Int
         /\ 0 <= i.start /\ i.start <= i.end /\ i.end <= InSize
         /\ 0 <= i.write /\ i.write <= i.end
         /\ i.write # i.end => i.write < i.end /\ (i.write < i.start \/ i.write = 0)
  BY Constants DEF Marks, Marked

LEMMA InCellsIn ==
  ASSUME NEW f \in InCells, NEW a \in Nat, NEW b \in Int, b <= InSize
  PROVE  \A p \in a .. b - 1 : p \in -Header .. InSize - 1 /\ f[p] \in Cells
<1> SUFFICES ASSUME NEW p \in a .. b - 1
    PROVE  p \in -Header .. InSize - 1 /\ f[p] \in Cells
    OBVIOUS
<1>1. p \in -Header .. InSize - 1 BY Constants
<1> QED BY <1>1 DEF InCells

LEMMA ComingIn ==
  ASSUME NEW i \in Marked, NEW f \in InCells, NEW k \in Nat, NEW m \in Nat,
         InStored(i, f, k, m)
  PROVE  Coming(i, f, k) \in Nat \ {0} /\ AfterEnd(i, f, k) \in Nat \ {0}
<1>1. Marks(i, InSize) BY DEF InStored
<1>2. /\ i.start \in Int /\ i.end \in Int /\ i.write \in Int
      /\ 0 <= i.start /\ i.start <= i.end /\ i.end <= InSize
      /\ 0 <= i.write /\ i.write <= i.end
      BY <1>1, InMarks
<1>3. AfterEnd(i, f, k) \in Nat \ {0}
  <2>1. CASE i.start < i.end
    <3>1. i.end - 1 \in -Header .. InSize - 1 BY <2>1, <1>2, Constants
    <3>2. f[i.end - 1].id \in Nat BY <3>1 DEF InCells, Cells
    <3> QED BY <3>2, <2>1 DEF AfterEnd
  <2>2. CASE ~(i.start < i.end) BY <2>2 DEF AfterEnd
  <2> QED BY <2>1, <2>2
<1>4. CASE i.write \notin {0, i.end}
  <2>1. i.write - 1 \in -Header .. InSize - 1 BY <1>2, <1>4, Constants
  <2>2. f[i.write - 1].id \in Nat BY <2>1 DEF InCells, Cells
  <2> QED BY <2>2, <1>3, <1>4 DEF Coming
<1>5. CASE i.write \in {0, i.end} BY <1>3, <1>5 DEF Coming
<1> QED BY <1>4, <1>5

(* The thread wraps to the front of the buffer.                            *)
LEMMA WrappedIn ==
  ASSUME NEW i \in Marked, NEW f \in InCells, NEW k \in Nat, NEW m \in Nat,
         InStored(i, f, k, m), i.write = i.end
  PROVE  LET w == [i EXCEPT !.write = 0]
         IN  /\ w \in Marked /\ InStored(w, f, k, m) /\ Coming(w, f, k) = Coming(i, f, k)
             /\ w.start = i.start /\ w.end = i.end /\ w.write = 0
<1> DEFINE w == [i EXCEPT !.write = 0]
<1>1. w \in Marked /\ w.start = i.start /\ w.end = i.end /\ w.write = 0 BY DEF Marked
<1> HIDE DEF w
<1>2. /\ Marks(i, InSize) /\ Framed(f, i.start, i.end, m)
      /\ i.start < i.end => f[i.start].id = k + 1
      BY DEF InStored
<1>3. i.start \in Int /\ i.end \in Int /\ 0 <= i.start /\ i.start <= i.end /\ i.end <= InSize
      BY <1>2, InMarks
<1>4. Marks(w, InSize)
  <2>1. w.end \in 0 .. InSize /\ w.start \in 0 .. w.end BY <1>1, <1>3, Constants
  <2>2. w.write = w.end \/ w.write \in 0 .. w.end - 1 BY <1>1, <1>3
  <2> QED BY <2>1, <2>2, <1>1 DEF Marks
<1>5. Framed(f, 0, 0, m) BY FramedNone
<1>6. InStored(w, f, k, m) BY <1>1, <1>2, <1>4, <1>5 DEF InStored
<1>7. AfterEnd(w, f, k) = AfterEnd(i, f, k) BY <1>1 DEF AfterEnd
<1>8. Coming(w, f, k) = Coming(i, f, k) BY <1>1, <1>7 DEF Coming
<1> QED BY <1>1, <1>6, <1>8 DEF w

(* A chunk is stored.                                                      *)
LEMMA StoredIn ==
  ASSUME NEW i \in Marked, NEW f \in InCells, NEW k \in Nat, NEW m \in Nat,
         InStored(i, f, k, m), NEW n \in Sizes, Fits(i, n, InSize), Coming(i, f, k) <= m,
         Begun(f, i.write, Coming(i, f, k), n, Extent(n))
  PROVE  LET h == Stored(i, n)
         IN  /\ h \in Marked /\ InStored(h, f, k, m) /\ Coming(h, f, k) = Coming(i, f, k) + 1
             /\ h.start = i.start /\ i.end <= h.end
<1> DEFINE h == Stored(i, n)
           c == Coming(i, f, k)
<1>1. /\ Marks(i, InSize) /\ Framed(f, i.start, i.end, m)
      /\ i.start < i.end => f[i.start].id = k + 1
      /\ i.write # i.end => Framed(f, 0, i.write, m)
      /\ i.write \notin {0, i.end} => f[0].id = AfterEnd(i, f, k)
      BY DEF InStored
<1>2. /\ i.start \in Int /\ i.end \in Int /\ i.write \in Int
      /\ 0 <= i.start /\ i.start <= i.end /\ i.end <= InSize
      /\ 0 <= i.write /\ i.write <= i.end
      BY <1>1, InMarks
<1>3. Extent(n) \in Nat /\ Extent(n) > 1 /\ Extent(n) = Header + n /\ n \in Nat BY Extents
<1>4. /\ h \in Marked /\ h.start = i.start /\ h.write = i.write + Extent(n)
      /\ h.end = IF i.end = i.write THEN i.end + Extent(n) ELSE i.end
  <2> DEFINE e == IF i.end = i.write THEN i.end + n + Header ELSE i.end
             w == i.write + n + Header
  <2>1. h = [i EXCEPT !.end = e, !.write = w] BY DEF Stored
  <2>2. e \in Int /\ w \in Int /\ w = i.write + Extent(n)
        /\ e = IF i.end = i.write THEN i.end + Extent(n) ELSE i.end
        BY <1>2, <1>3, Constants
  <2> HIDE DEF e, w, h
  <2>3. h \in Marked /\ h.start = i.start /\ h.end = e /\ h.write = w BY <2>1, <2>2 DEF Marked
  <2> QED BY <2>2, <2>3
<1> HIDE DEF h
<1>5. c \in 1 .. m /\ c \in Nat
  <2>1. c \in Nat \ {0} BY ComingIn
  <2> QED BY <2>1
<1>6. Begun(f, i.write, c, n, Extent(n)) OBVIOUS
<1> HIDE DEF c
<1>7. /\ f[i.write].id = c /\ f[i.write + Extent(n) - 1].id = c
      BY <1>2, <1>5, <1>6, BegunEnds
<1>8. \A p \in i.start .. i.end - 1 : f[p] \in Cells BY <1>2, InCellsIn
<1>9. CASE i.write = i.end
  <2>1. h.end = i.end + Extent(n) /\ h.write = h.end BY <1>4, <1>9
  <2>2. h.end <= InSize BY <2>1, <1>2, <1>9 DEF Fits
  <2>3. c = AfterEnd(i, f, k) BY <1>9 DEF Coming, c
  <2>4. i.start < i.end => c = f[i.end - 1].id + 1 BY <2>3 DEF AfterEnd
  <2>5. Begun(f, i.end, c, n, Extent(n)) BY <1>6, <1>9
  <2>6. Framed(f, i.start, i.end + Extent(n), m)
        BY <2>4, <2>5, <1>1, <1>2, <1>5, <1>8, FramedMore, Zenon
  <2>7. Marks(h, InSize)
    <3>1. h.end \in 0 .. InSize /\ h.start \in 0 .. h.end
          BY <2>1, <2>2, <1>2, <1>3, <1>4, Constants
    <3> QED BY <3>1, <2>1 DEF Marks
  <2>8. h.start < h.end BY <2>1, <1>2, <1>3, <1>4
  <2>9. f[h.start].id = k + 1
    <3>1. CASE i.start < i.end BY <3>1, <1>1, <1>4
    <3>2. CASE i.start = i.end
      <4>1. c = k + 1 BY <3>2, <2>3, <1>2 DEF AfterEnd
      <4> QED BY <4>1, <3>2, <1>4, <1>7, <1>9
    <3> QED BY <3>1, <3>2, <1>2
  <2>10. InStored(h, f, k, m) BY <2>1, <2>6, <2>7, <2>9, <1>4 DEF InStored
  <2>11. f[h.end - 1].id = c BY <2>1, <1>2, <1>3, <1>7, <1>9
  <2>12. Coming(h, f, k) = c + 1 BY <2>1, <2>8, <2>11 DEF Coming, AfterEnd
  <2>13. i.end <= h.end BY <2>1, <1>2, <1>3
  <2> QED BY <2>10, <2>12, <2>13, <1>4 DEF h, c
<1>10. CASE i.write # i.end
  <2>1. h.end = i.end /\ h.write = i.write + Extent(n) BY <1>4, <1>10
  <2>2. i.write < i.end /\ h.write < i.start /\ h.write > 1
        BY <2>1, <1>2, <1>3, <1>10 DEF Fits
  <2>3. h.write \notin {0, h.end} BY <2>1, <2>2, <1>2
  <2>4. i.write = 0 => c = AfterEnd(i, f, k) BY DEF Coming, c
  <2>5. i.write # 0 => c = f[i.write - 1].id + 1 BY <1>10 DEF Coming, c
  <2>6. Framed(f, 0, i.write + Extent(n), m)
    <3>1. 0 < i.write => c = f[i.write - 1].id + 1 BY <2>5, <1>2
    <3>2. \A p \in 0 .. i.write - 1 : f[p] \in Cells
      <4>1. i.write <= InSize BY <1>2, Constants
      <4> QED BY <4>1, <1>2, InCellsIn
    <3>3. Framed(f, 0, i.write, m) /\ 0 <= i.write /\ 0 \in Int BY <1>1, <1>2, <1>10
    <3> QED BY <3>1, <3>2, <3>3, <1>2, <1>5, <1>6, FramedMore, Zenon
  <2>7. Marks(h, InSize)
    <3>1. h.write \in 0 .. h.end - 1 /\ h.write < h.start BY <2>1, <2>2, <1>2, <1>3, <1>4
    <3>2. h.end \in 0 .. InSize /\ h.start \in 0 .. h.end BY <2>1, <1>2, <1>4, Constants
    <3> QED BY <3>1, <3>2 DEF Marks
  <2>8. AfterEnd(h, f, k) = AfterEnd(i, f, k) BY <2>1, <1>4 DEF AfterEnd
  <2>9. f[0].id = AfterEnd(h, f, k)
    <3>1. CASE i.write = 0 BY <3>1, <2>4, <2>8, <1>7
    <3>2. CASE i.write # 0 BY <3>2, <2>8, <1>1, <1>10
    <3> QED BY <3>1, <3>2
  <2>10. InStored(h, f, k, m)
         BY <2>1, <2>6, <2>7, <2>9, <1>1, <1>4 DEF InStored
  <2>11. f[h.write - 1].id = c BY <2>1, <1>2, <1>3, <1>7
  <2>12. Coming(h, f, k) = c + 1 BY <2>3, <2>11 DEF Coming
  <2>13. i.end <= h.end BY <2>1, <1>2
  <2> QED BY <2>10, <2>12, <2>13, <1>4 DEF h, c
<1> QED BY <1>9, <1>10

(* The user follows the thread to the front of the buffer.                 *)
LEMMA CaughtIn ==
  ASSUME NEW i \in Marked, NEW f \in InCells, NEW k \in Nat, NEW m \in Nat,
         InStored(i, f, k, m)
  PROVE  LET h == Caught(i)
         IN  /\ h \in Marked /\ InStored(h, f, k, m) /\ Coming(h, f, k) = Coming(i, f, k)
             /\ h.write = i.write
             /\ \A n \in Sizes : Fits(i, n, InSize) => Fits(h, n, InSize)
<1> DEFINE h == Caught(i)
<1>1. /\ Marks(i, InSize) /\ Framed(f, i.start, i.end, m)
      /\ i.start < i.end => f[i.start].id = k + 1
      /\ i.write # i.end => Framed(f, 0, i.write, m)
      /\ i.write \notin {0, i.end} => f[0].id = AfterEnd(i, f, k)
      BY DEF InStored
<1>2. /\ i.start \in Int /\ i.end \in Int /\ i.write \in Int
      /\ 0 <= i.start /\ i.start <= i.end /\ i.end <= InSize
      /\ 0 <= i.write /\ i.write <= i.end
      BY <1>1, InMarks
<1>3. CASE i.start = i.end /\ i.write < i.end
  <2> DEFINE w == i.write
  <2>1. h = [i EXCEPT !.start = 0, !.end = w] BY <1>3 DEF Caught
  <2>2. w \in Int /\ i.write = w BY <1>2
  <2> HIDE DEF w, h
  <2>3. h = [start |-> 0, end |-> w, write |-> w] BY <2>1, <2>2 DEF Marked
  <2>4. h.start = 0 /\ h.end = w /\ h.write = w BY <2>3
  <2>5. h \in Marked BY <2>2, <2>3 DEF Marked
  <2>6. Marks(h, InSize)
    <3>1. w \in 0 .. InSize /\ 0 \in 0 .. w BY <2>2, <1>2, Constants
    <3> QED BY <3>1, <2>4 DEF Marks
  <2>7. AfterEnd(i, f, k) = k + 1 BY <1>2, <1>3 DEF AfterEnd
  <2>8. w # 0 => f[0].id = k + 1 BY <2>2, <2>7, <1>1, <1>2, <1>3
  <2>9. Framed(f, 0, w, m) BY <2>2, <1>1, <1>2, <1>3
  <2>10. InStored(h, f, k, m) BY <2>2, <2>4, <2>6, <2>8, <2>9 DEF InStored
  <2>11. Coming(h, f, k) = Coming(i, f, k)
    <3>1. CASE w = 0
      <4>1. Coming(i, f, k) = k + 1 BY <3>1, <2>2, <2>7 DEF Coming
      <4> QED BY <4>1, <3>1, <2>4 DEF Coming, AfterEnd
    <3>2. CASE w # 0
      <4>1. Coming(i, f, k) = f[w - 1].id + 1 BY <3>2, <2>2, <1>2, <1>3 DEF Coming
      <4>2. 0 < w BY <3>2, <2>2, <1>2
      <4> QED BY <4>1, <4>2, <2>4 DEF Coming, AfterEnd
    <3> QED BY <3>1, <3>2
  <2>12. ASSUME NEW n \in Sizes, Fits(i, n, InSize) PROVE Fits(h, n, InSize)
    <3>1. Extent(n) \in Nat BY Extents
    <3> QED BY <3>1, <2>2, <2>4, <2>12, <1>2, <1>3, Constants DEF Fits
  <2> QED BY <2>2, <2>4, <2>5, <2>10, <2>11, <2>12 DEF h
<1>4. CASE ~(i.start = i.end /\ i.write < i.end)
  <2>1. h = i BY <1>4 DEF Caught
  <2> HIDE DEF h
  <2> QED BY <2>1 DEF h
<1> QED BY <1>3, <1>4

(* The user is done with the first chunk.                                  *)
LEMMA ReadIn ==
  ASSUME NEW i \in Marked, NEW f \in InCells, NEW k \in Nat, NEW m \in Nat,
         InStored(i, f, k, m), i.start < i.end
  PROVE  LET n == f[i.start].size
             h == [i EXCEPT !.start = i.start + Extent(n)]
         IN  /\ h \in Marked /\ InStored(h, f, k + 1, m)
             /\ Coming(h, f, k + 1) = Coming(i, f, k) /\ h.write = i.write
             /\ \A s \in Sizes : Fits(i, s, InSize) => Fits(h, s, InSize)
             /\ n \in Sizes /\ f[i.start].id = k + 1 /\ k + 1 <= m
             /\ i.start \in Nat /\ i.start + Extent(n) <= InSize
             /\ \A q \in 0 .. Extent(n) - 1 : f[i.start + q] = Cell(k + 1, n, q)
<1> DEFINE n == f[i.start].size
           c == i.start + Extent(n)
           h == [i EXCEPT !.start = c]
<1>1. /\ Marks(i, InSize) /\ Framed(f, i.start, i.end, m)
      /\ f[i.start].id = k + 1
      /\ i.write # i.end => Framed(f, 0, i.write, m)
      /\ i.write \notin {0, i.end} => f[0].id = AfterEnd(i, f, k)
      BY DEF InStored
<1>2. /\ i.start \in Int /\ i.end \in Int /\ i.write \in Int
      /\ 0 <= i.start /\ i.start <= i.end /\ i.end <= InSize
      /\ 0 <= i.write /\ i.write <= i.end
      /\ i.write # i.end => i.write < i.end /\ (i.write < i.start \/ i.write = 0)
      BY <1>1, InMarks
<1>3. \A p \in i.start .. i.end - 1 : f[p] \in Cells BY <1>2, InCellsIn
<1>4. i.start \in i.start .. i.end - 1 /\ f[i.start] \in Cells BY <1>2, <1>3
<1>5. /\ n \in Sizes /\ f[i.start].id \in 1 .. m /\ c <= i.end
      /\ \A q \in 0 .. Extent(n) - 1 : f[i.start + q] = Cell(k + 1, n, q)
      /\ c < i.end => f[c].id = k + 2
  <2>1. /\ n \in Sizes /\ f[i.start].id \in 1 .. m /\ c <= i.end
        /\ \A q \in 0 .. Extent(n) - 1 : f[i.start + q] = Cell(f[i.start].id, n, q)
        /\ c < i.end => f[c].id = f[i.start].id + 1
        BY <1>1, <1>2, <1>4, FramedFirst
  <2>2. (k + 1) + 1 = k + 2 OBVIOUS
  <2> HIDE DEF c, n
  <2> QED BY <2>1, <2>2, <1>1
<1>6. c \in Int /\ i.start < c /\ k + 1 <= m
  <2>1. Extent(n) \in Nat /\ Extent(n) > 1 BY <1>5, Extents
  <2> QED BY <2>1, <1>1, <1>2, <1>5
<1>7. Framed(f, c, i.end, m) /\ (c = i.end => f[i.end - 1].id = k + 1)
  <2>1. Framed(f, c, i.end, m) /\ (c = i.end => f[i.end - 1].id = f[i.start].id)
        BY <1>1, <1>2, <1>3, FramedRest
  <2> QED BY <2>1, <1>1
<1>8. h \in Marked /\ h.start = c /\ h.end = i.end /\ h.write = i.write BY <1>6 DEF Marked
<1> HIDE DEF c, h, n
<1>9. Marks(h, InSize)
  <2>1. h.end \in 0 .. InSize /\ h.start \in 0 .. h.end BY <1>2, <1>5, <1>6, <1>8, Constants
  <2>2. i.write # i.end => i.write \in 0 .. i.end - 1 /\ (i.write < c \/ i.write = 0)
        BY <1>2, <1>6
  <2> QED BY <2>1, <2>2, <1>8 DEF Marks
<1>10. AfterEnd(h, f, k + 1) = AfterEnd(i, f, k)
  <2>1. AfterEnd(i, f, k) = f[i.end - 1].id + 1 BY DEF AfterEnd
  <2>2. CASE c < i.end BY <2>1, <2>2, <1>8 DEF AfterEnd
  <2>3. CASE c = i.end
    <3>1. ~(h.start < h.end) BY <2>3, <1>2, <1>8
    <3> QED BY <3>1, <2>1, <2>3, <1>7 DEF AfterEnd
  <2> QED BY <2>2, <2>3, <1>2, <1>5, <1>6
<1>11. h.start < h.end => f[h.start].id = (k + 1) + 1
  <2>1. (k + 1) + 1 = k + 2 OBVIOUS
  <2> QED BY <2>1, <1>5, <1>8
<1>12. InStored(h, f, k + 1, m)
       BY <1>1, <1>7, <1>8, <1>9, <1>10, <1>11 DEF InStored
<1>13. Coming(h, f, k + 1) = Coming(i, f, k) BY <1>8, <1>10 DEF Coming
<1>14. ASSUME NEW s \in Sizes, Fits(i, s, InSize) PROVE Fits(h, s, InSize)
  <2>1. Extent(s) \in Nat BY Extents
  <2> QED BY <2>1, <1>2, <1>6, <1>8, <1>14 DEF Fits
<1>15. i.start \in Nat /\ c <= InSize BY <1>2, <1>5, <1>6, Constants
<1> QED BY <1>1, <1>5, <1>6, <1>8, <1>12, <1>13, <1>14, <1>15 DEF c, h, n

(* More is sent.                                                           *)
LEMMA MoreIn ==
  ASSUME NEW i \in Marked, NEW f \in InCells, NEW k \in Nat, NEW m \in Nat, NEW l \in Nat,
         m <= l, InStored(i, f, k, m)
  PROVE  InStored(i, f, k, l)
<1>1. /\ Marks(i, InSize) /\ Framed(f, i.start, i.end, m)
      /\ i.write # i.end => Framed(f, 0, i.write, m)
      BY DEF InStored
<1>2. /\ i.start \in Int /\ i.end \in Int /\ i.write \in Int /\ 0 <= i.start
      /\ i.end <= InSize /\ i.write <= InSize
  <2>1. /\ i.start \in Int /\ i.end \in Int /\ i.write \in Int /\ 0 <= i.start
        /\ i.end <= InSize /\ i.write <= i.end
        BY <1>1, InMarks
  <2> QED BY <2>1, Constants
<1>3. /\ \A p \in i.start .. i.end - 1 : f[p] \in Cells
      /\ \A p \in 0 .. i.write - 1 : f[p] \in Cells
      BY <1>2, InCellsIn
<1>4. Framed(f, i.start, i.end, l) BY <1>1, <1>2, <1>3, FramedSame
<1>5. i.write # i.end => Framed(f, 0, i.write, l) BY <1>1, <1>2, <1>3, FramedSame
<1> QED BY <1>4, <1>5 DEF InStored

(* Cells are written in the thread's room.                                 *)
LEMMA FilledIn ==
  ASSUME NEW i \in Marked, NEW f \in InCells, NEW g \in InCells, NEW k \in Nat, NEW m \in Nat,
         InStored(i, f, k, m), NEW n \in Sizes, Fits(i, n, InSize),
         \A p \in -Header .. InSize - 1 :
           p \notin i.write .. (i.write + Extent(n)) - 1 => g[p] = f[p]
  PROVE  InStored(i, g, k, m) /\ Coming(i, g, k) = Coming(i, f, k)
<1>1. /\ Marks(i, InSize) /\ Framed(f, i.start, i.end, m)
      /\ i.start < i.end => f[i.start].id = k + 1
      /\ i.write # i.end => Framed(f, 0, i.write, m)
      /\ i.write \notin {0, i.end} => f[0].id = AfterEnd(i, f, k)
      BY DEF InStored
<1>2. /\ i.start \in Int /\ i.end \in Int /\ i.write \in Int
      /\ 0 <= i.start /\ i.start <= i.end /\ i.end <= InSize
      /\ 0 <= i.write /\ i.write <= i.end
      BY <1>1, InMarks
<1>3. Extent(n) \in Nat BY Extents
<1>4. \A p \in i.start .. i.end - 1 : f[p] \in Cells /\ g[p] = f[p]
  <2> TAKE p \in i.start .. i.end - 1
  <2>1. p \in -Header .. InSize - 1 /\ f[p] \in Cells BY <1>2, InCellsIn
  <2>2. p \notin i.write .. (i.write + Extent(n)) - 1 BY <1>2, <1>3 DEF Fits
  <2> QED BY <2>1, <2>2
<1>5. \A p \in 0 .. i.write - 1 : f[p] \in Cells /\ g[p] = f[p]
  <2> TAKE p \in 0 .. i.write - 1
  <2>1. p \in -Header .. InSize - 1 /\ f[p] \in Cells
    <3>1. i.write <= InSize BY <1>2, Constants
    <3> QED BY <3>1, <1>2, InCellsIn
  <2>2. p \notin i.write .. (i.write + Extent(n)) - 1 BY <1>2, <1>3
  <2> QED BY <2>1, <2>2
<1>6. Framed(g, i.start, i.end, m) BY <1>1, <1>2, <1>4, FramedSame
<1>7. i.write # i.end => Framed(g, 0, i.write, m) BY <1>1, <1>2, <1>5, FramedSame
<1>8. i.start < i.end => g[i.start] = f[i.start] /\ g[i.end - 1] = f[i.end - 1] BY <1>2, <1>4
<1>9. i.write \notin {0, i.end} => g[0] = f[0] /\ g[i.write - 1] = f[i.write - 1] BY <1>2, <1>5
<1>10. AfterEnd(i, g, k) = AfterEnd(i, f, k) BY <1>8 DEF AfterEnd
<1>11. Coming(i, g, k) = Coming(i, f, k) BY <1>9, <1>10 DEF Coming
<1>12. InStored(i, g, k, m) BY <1>1, <1>6, <1>7, <1>8, <1>9, <1>10 DEF InStored
<1> QED BY <1>11, <1>12

-----------------------------------------------------------------------------
(* InInv, action by action.                                                *)

ReaderPcs == {"size", "wait", "woken", "store", "receive", "receiving", "spins", "ended"}
Readers == [pc : ReaderPcs, id : Nat, size : Nat, at : -1 .. InSize, left : Nat]
Holders == {"idle", "holds", "freeing", "freed"}

LEMMA InTyped ==
  InTypes <=> in \in Marked /\ inBuffer \in InCells /\ reader \in Readers
  BY DEF InTypes, Marked, InCells, Cells, Readers, ReaderPcs

LEMMA InTypedNext ==
  InTypes' <=> in' \in Marked /\ inBuffer' \in InCells /\ reader' \in Readers
  BY DEF InTypes, Marked, InCells, Cells, Readers, ReaderPcs

LEMMA Counted ==
  ASSUME NEW s \in Seq(Nat)
  PROVE  Len(s) \in Nat
  OBVIOUS

(* What is left to show of a step, while the user reads and after.         *)
LEMMA InWhileReading ==
  ASSUME received' \in Seq(Nat), holder' \in {"idle", "holds"}, InTypes', ReaderStores',
         InStored(in', inBuffer', Len(received'), sent'),
         holder' = "holds" => in'.start < in'.end
  PROVE  InInv'
  BY DEF InInv, Reading

LEMMA InWhileFreeing ==
  ASSUME received' \in Seq(Nat), holder' \in {"freeing", "freed"},
         ~FreeMidChunk => /\ InTypes' /\ in'.start \in 0 .. InSize /\ in'.end \in 0 .. InSize
                          /\ in'.write = -1 /\ reader'.pc \in {"size", "wait", "woken", "ended"}
  PROVE  InInv'
  BY DEF InInv, Reading

(* What the invariant says while the user reads.                           *)
LEMMA InSees ==
  ASSUME InInv, Reading, sent \in Nat
  PROVE  /\ in \in Marked /\ inBuffer \in InCells /\ reader \in Readers /\ ReaderStores
         /\ InStored(in, inBuffer, Len(received), sent)
         /\ received \in Seq(Nat) /\ Len(received) \in Nat /\ Awaited \in Nat \ {0}
         /\ in.start \in Nat /\ in.end \in Nat /\ in.write \in Nat
         /\ in.start <= in.end /\ in.end <= InSize
         /\ holder \in {"idle", "holds"} /\ (holder = "holds" => in.start < in.end)
<1>1. /\ InTypes /\ ReaderStores /\ InStored(in, inBuffer, Len(received), sent)
      /\ received \in Seq(Nat) /\ (holder = "holds" => in.start < in.end)
      BY DEF InInv
<1>2. in \in Marked /\ inBuffer \in InCells /\ reader \in Readers BY <1>1, InTyped
<1>3. Len(received) \in Nat BY <1>1, Counted
<1>4. Awaited \in Nat \ {0} BY <1>1, <1>2, <1>3, ComingIn DEF Awaited
<1>5. Marks(in, InSize) BY <1>1 DEF InStored
<1>6. /\ in.start \in Nat /\ in.end \in Nat /\ in.write \in Nat
      /\ in.start <= in.end /\ in.end <= InSize
  <2>1. /\ in.start \in Int /\ in.end \in Int /\ in.write \in Int
        /\ 0 <= in.start /\ in.start <= in.end /\ in.end <= InSize
        /\ 0 <= in.write /\ in.write <= in.end
        BY <1>2, <1>5, InMarks
  <2> QED BY <2>1
<1> QED BY <1>1, <1>2, <1>3, <1>4, <1>6 DEF Reading

LEMMA InInitially == Init => InInv
<1> SUFFICES ASSUME Init PROVE InInv OBVIOUS
<1> USE DEF Init, InInit
<1>1. Junk \in Cells BY CellIs DEF Junk
<1>2. in \in Marked /\ in.start = 0 /\ in.end = 0 /\ in.write = 0 BY DEF Marked
<1>3. inBuffer \in InCells BY <1>1 DEF InCells
<1>4. reader \in Readers /\ reader.pc = "size" /\ reader.left = Header
      BY Constants DEF Waiting, Readers, ReaderPcs
<1>5. InTypes BY <1>2, <1>3, <1>4, InTyped
<1>6. received \in Seq(Nat) /\ Len(received) = 0 OBVIOUS
<1>7. Framed(inBuffer, 0, 0, sent) BY FramedNone
<1>8. Marks(in, InSize) BY <1>2, Constants DEF Marks
<1>9. InStored(in, inBuffer, Len(received), sent) BY <1>2, <1>7, <1>8 DEF InStored
<1>10. ReaderStores
  <2>1. ~Sized BY <1>4, Constants DEF Sized
  <2> QED BY <2>1, <1>4, Constants DEF ReaderStores
<1> QED BY <1>5, <1>6, <1>9, <1>10 DEF InInv, Reading

(* The thread neither stores nor moves its mark.                           *)
LEMMA ReaderKept ==
  ASSUME ReaderStores, sent \in Nat, sent' \in Nat, sent <= sent',
         reader'.id = reader.id, reader'.size = reader.size,
         reader'.at = reader.at, reader'.left = reader.left,
         reader'.pc = reader.pc \/ (reader.pc = "wait" /\ reader'.pc = "woken"),
         inBuffer' = inBuffer, in'.write = in.write, Awaited' = Awaited,
         reader.id \in Nat,
         \A n \in Sizes : Fits(in, n, InSize) => Fits(in', n, InSize)
  PROVE  ReaderStores' /\ ReadPlace' = ReadPlace
<1>1. Sized' <=> Sized BY DEF Sized
<1>2. /\ Sized => reader.id = Awaited /\ reader.id <= sent /\ reader.size \in Sizes
      /\ reader.pc = "size" => reader.left <= Header
      /\ reader.pc \in {"store", "receive", "receiving"} => Fits(in, reader.size, InSize)
      /\ reader.pc = "receive" => Begun(inBuffer, in.write, reader.id, reader.size, Header)
      /\ reader.pc = "receiving" =>
           /\ reader.left <= reader.size
           /\ reader.at + reader.left = in.write + Extent(reader.size)
           /\ Begun(inBuffer, in.write, reader.id, reader.size,
                    Extent(reader.size) - reader.left)
      BY DEF ReaderStores
<1>3. Sized' => reader'.id = Awaited' /\ reader'.id <= sent' /\ reader'.size \in Sizes
      BY <1>1, <1>2
<1>4. reader'.pc \in {"store", "receive", "receiving"} => Fits(in', reader'.size, InSize)
  <2> SUFFICES ASSUME reader'.pc \in {"store", "receive", "receiving"}
      PROVE  Fits(in', reader'.size, InSize)
      OBVIOUS
  <2>1. reader.pc \in {"store", "receive", "receiving"} OBVIOUS
  <2>2. Sized BY <2>1 DEF Sized
  <2>3. reader.size \in Sizes /\ Fits(in, reader.size, InSize) BY <2>1, <2>2, <1>2
  <2> QED BY <2>3
<1>5. ReaderStores' BY <1>2, <1>3, <1>4 DEF ReaderStores
<1>6. Taken' = Taken
  <2>1. CASE reader'.pc = reader.pc BY <2>1 DEF Taken
  <2>2. CASE reader.pc = "wait" /\ reader'.pc = "woken" BY <2>2 DEF Taken
  <2> QED BY <2>1, <2>2
<1>7. ReadPlace' = ReadPlace BY <1>6 DEF ReadPlace
<1> QED BY <1>5, <1>7

LEMMA ReaderWokenIs ==
  ASSUME reader \in Readers
  PROVE  /\ ReaderWoken \in Readers /\ ReaderWoken.id = reader.id
         /\ ReaderWoken.size = reader.size
         /\ ReaderWoken.at = reader.at /\ ReaderWoken.left = reader.left
         /\ ReaderWoken.pc = reader.pc \/ (reader.pc = "wait" /\ ReaderWoken.pc = "woken")
  BY DEF ReaderWoken, Readers, ReaderPcs

LEMMA ReadKeeps ==
  ASSUME InInv, sent \in Nat, sent' = sent, Read
  PROVE  InInv' /\ Takes' = Takes /\ ReadPlace' = ReadPlace
<1>1. Reading BY DEF Read, Reading
<1>2. /\ in' = Caught(in) /\ holder' = IF in'.start < in'.end THEN "holds" ELSE "idle"
      /\ inBuffer' = inBuffer /\ reader' = reader /\ received' = received
      BY DEF Read
<1>3. /\ in \in Marked /\ inBuffer \in InCells /\ reader \in Readers /\ ReaderStores
      /\ InStored(in, inBuffer, Len(received), sent)
      /\ received \in Seq(Nat) /\ Len(received) \in Nat
      BY <1>1, InSees
<1>4. /\ in' \in Marked /\ InStored(in', inBuffer, Len(received), sent)
      /\ Coming(in', inBuffer, Len(received)) = Awaited
      /\ in'.write = in.write
      /\ \A n \in Sizes : Fits(in, n, InSize) => Fits(in', n, InSize)
      BY <1>2, <1>3, CaughtIn DEF Awaited
<1>5. Awaited' = Awaited BY <1>2, <1>4 DEF Awaited
<1>6. reader.id \in Nat BY <1>3 DEF Readers
<1>7. ReaderStores' /\ ReadPlace' = ReadPlace BY <1>2, <1>3, <1>4, <1>5, <1>6, ReaderKept
<1>8. InTypes' BY <1>2, <1>3, <1>4, InTypedNext
<1>9. holder' \in {"idle", "holds"} /\ (holder' = "holds" => in'.start < in'.end) BY <1>2
<1>10. InStored(in', inBuffer', Len(received'), sent') BY <1>2, <1>4
<1>11. InInv' BY <1>2, <1>3, <1>7, <1>8, <1>9, <1>10, InWhileReading
<1>12. Takes' = Takes BY <1>1, <1>2, <1>9 DEF Takes, Reading
<1> QED BY <1>7, <1>11, <1>12

LEMMA DoneReadKeeps ==
  ASSUME InInv, sent \in Nat, sent' = sent, DoneRead
  PROVE  /\ InInv' /\ Takes' = Takes /\ ReadPlace' = ReadPlace
         /\ Len(received) < sent /\ received' = Append(received, Len(received) + 1)
<1> DEFINE k == Len(received)
           n == inBuffer[in.start].size
<1>1. Reading /\ holder = "holds" BY DEF DoneRead, Reading
<1>2. /\ in \in Marked /\ inBuffer \in InCells /\ reader \in Readers /\ ReaderStores
      /\ InStored(in, inBuffer, k, sent) /\ in.start < in.end
      /\ received \in Seq(Nat) /\ k \in Nat /\ in.start \in Nat
      BY <1>1, InSees
<1>3. /\ received' = Append(received, Held) /\ reader' = ReaderWoken /\ holder' = "idle"
      /\ in' = [in EXCEPT !.start = @ + Header + n] /\ inBuffer' = inBuffer
      BY DEF DoneRead
<1>4. LET h == [in EXCEPT !.start = in.start + Extent(n)]
      IN  /\ h \in Marked /\ InStored(h, inBuffer, k + 1, sent)
          /\ Coming(h, inBuffer, k + 1) = Coming(in, inBuffer, k) /\ h.write = in.write
          /\ \A s \in Sizes : Fits(in, s, InSize) => Fits(h, s, InSize)
      BY <1>2, ReadIn
<1>5. /\ n \in Sizes /\ inBuffer[in.start].id = k + 1 /\ k + 1 <= sent
      /\ in.start + Extent(n) <= InSize
      /\ \A q \in 0 .. Extent(n) - 1 : inBuffer[in.start + q] = Cell(k + 1, n, q)
      BY <1>2, ReadIn
<1>6. n \in Nat /\ Extent(n) \in Nat /\ Extent(n) = Header + n BY <1>5, Extents
<1>7. in' = [in EXCEPT !.start = in.start + Extent(n)]
  <2>1. in.start + Header + n = in.start + Extent(n) BY <1>2, <1>6, Constants
  <2> QED BY <2>1, <1>3
<1>8. /\ in' \in Marked /\ InStored(in', inBuffer, k + 1, sent)
      /\ Coming(in', inBuffer, k + 1) = Awaited /\ in'.write = in.write
      /\ \A s \in Sizes : Fits(in, s, InSize) => Fits(in', s, InSize)
      BY <1>4, <1>7 DEF Awaited
<1>9. Held = k + 1
  <2> HIDE DEF n, k
  <2>1. ASSUME NEW q \in 0 .. Extent(n) - 1
        PROVE  in.start + q \in DOMAIN inBuffer /\ inBuffer[in.start + q] = Cell(k + 1, n, q)
    <3>1. in.start + q \in -Header .. InSize - 1 BY <1>2, <1>5, <1>6, Constants
    <3> QED BY <3>1, <1>2, <1>5 DEF InCells
  <2>2. inBuffer[in.start].size = n /\ inBuffer[in.start].id = k + 1 BY <1>5 DEF n
  <2> QED BY <2>1, <2>2 DEF Held
<1>10. k + 1 \in Nat /\ k < sent BY <1>2, <1>5
<1> HIDE DEF n
<1>11. /\ received' = Append(received, k + 1)
       /\ received' \in Seq(Nat) /\ Len(received') = k + 1
  <2>1. received' = Append(received, k + 1) BY <1>3, <1>9
  <2> QED BY <2>1, <1>2, <1>10, AppendProperties
<1>12. Awaited' = Awaited BY <1>3, <1>8, <1>11 DEF Awaited
<1>13. reader.id \in Nat BY <1>2 DEF Readers
<1>14. /\ reader' \in Readers /\ reader'.id = reader.id /\ reader'.size = reader.size
       /\ reader'.at = reader.at /\ reader'.left = reader.left
       /\ reader'.pc = reader.pc \/ (reader.pc = "wait" /\ reader'.pc = "woken")
       BY <1>2, <1>3, ReaderWokenIs
<1>15. ReaderStores' /\ ReadPlace' = ReadPlace
  <2>1. ReaderStores /\ sent' \in Nat /\ sent <= sent' /\ inBuffer' = inBuffer BY <1>2, <1>3
  <2> QED BY <2>1, <1>8, <1>12, <1>13, <1>14, ReaderKept
<1>16. InTypes' BY <1>2, <1>3, <1>8, <1>14, InTypedNext
<1>17. InStored(in', inBuffer', Len(received'), sent') BY <1>3, <1>8, <1>11
<1>18. holder' \in {"idle", "holds"} /\ holder' # "holds" BY <1>3
<1>19. InInv' BY <1>11, <1>15, <1>16, <1>17, <1>18, InWhileReading
<1>20. Takes' = Takes BY <1>1, <1>14, <1>18 DEF Takes, Reading
<1> QED BY <1>10, <1>11, <1>15, <1>19, <1>20 DEF k

LEMMA InFreeKeeps ==
  ASSUME InInv, sent \in Nat, InFree
  PROVE  InInv' /\ ~Takes'
<1>1. Reading BY DEF InFree, Reading
<1>2. /\ in \in Marked /\ inBuffer \in InCells /\ reader \in Readers
      /\ received \in Seq(Nat) /\ InStored(in, inBuffer, Len(received), sent)
      BY <1>1, InSees
<1>3. /\ in' = [in EXCEPT !.write = -1] /\ reader' = ReaderWoken /\ holder' = "freeing"
      /\ inBuffer' = inBuffer /\ received' = received /\ reader.pc # "spins"
      /\ FreeMidChunk \/ reader.pc \notin {"store", "receive", "receiving"}
      BY DEF InFree
<1>4. in' \in Marked /\ in'.start = in.start /\ in'.end = in.end /\ in'.write = -1
      BY <1>2, <1>3 DEF Marked
<1>5. reader' \in Readers
      /\ (reader'.pc = reader.pc \/ (reader.pc = "wait" /\ reader'.pc = "woken"))
      BY <1>2, <1>3, ReaderWokenIs
<1>6. InTypes' BY <1>2, <1>3, <1>4, <1>5, InTypedNext
<1>7. in'.start \in 0 .. InSize /\ in'.end \in 0 .. InSize
  <2>1. Marks(in, InSize) BY <1>2 DEF InStored
  <2>2. /\ in.start \in Int /\ in.end \in Int
        /\ 0 <= in.start /\ in.start <= in.end /\ in.end <= InSize
        BY <2>1, <1>2, InMarks
  <2> QED BY <2>2, <1>4, Constants
<1>8. ~FreeMidChunk => reader'.pc \in {"size", "wait", "woken", "ended"}
      BY <1>2, <1>3, <1>5 DEF Readers, ReaderPcs
<1>9. received' \in Seq(Nat) /\ holder' \in {"freeing", "freed"} BY <1>2, <1>3
<1>10. InInv' BY <1>4, <1>6, <1>7, <1>8, <1>9, InWhileFreeing
<1> QED BY <1>3, <1>10 DEF Takes, Reading

LEMMA InFreedKeeps ==
  ASSUME InInv, InFreed
  PROVE  InInv' /\ ~Takes'
<1>1. /\ holder = "freeing" /\ holder' = "freed"
      /\ in' = in /\ inBuffer' = inBuffer /\ reader' = reader /\ received' = received
      BY DEF InFreed
<1>2. ~Reading BY <1>1 DEF Reading
<1>3. /\ received' \in Seq(Nat) /\ holder' \in {"freeing", "freed"}
      /\ ~FreeMidChunk => /\ InTypes /\ in.start \in 0 .. InSize /\ in.end \in 0 .. InSize
                          /\ in.write = -1 /\ reader.pc \in {"size", "wait", "woken", "ended"}
      BY <1>1, <1>2 DEF InInv
<1>4. InTypes' <=> InTypes BY <1>1, InTyped, InTypedNext
<1>5. InInv' BY <1>1, <1>3, <1>4, InWhileFreeing
<1> QED BY <1>1, <1>5 DEF Takes, Reading

(* A step of the thread once the stream is being freed.                    *)
LEMMA AfterFree ==
  ASSUME InInv, ~Reading, received' = received, holder' = holder,
         ~FreeMidChunk => /\ in' = in /\ inBuffer' = inBuffer /\ reader' \in Readers
                          /\ reader'.pc \in {"size", "wait", "woken", "ended"}
  PROVE  InInv' /\ ~Takes'
<1>1. received' \in Seq(Nat) /\ holder' \in {"freeing", "freed"} BY DEF InInv, Reading
<1>2. CASE FreeMidChunk
  <2>1. InInv' BY <1>1, <1>2, InWhileFreeing
  <2> QED BY <2>1, <1>1 DEF Takes, Reading
<1>3. CASE ~FreeMidChunk
  <2>1. InTypes /\ in.start \in 0 .. InSize /\ in.end \in 0 .. InSize /\ in.write = -1
        BY <1>3 DEF InInv
  <2>2. InTypes' BY <2>1, <1>3, InTyped, InTypedNext
  <2>3. InInv' BY <2>1, <2>2, <1>1, <1>3, InWhileFreeing
  <2> QED BY <2>3, <1>1 DEF Takes, Reading
<1> QED BY <1>2, <1>3

LEMMA FreedSees ==
  ASSUME InInv, ~Reading, ~FreeMidChunk
  PROVE  /\ in.write = -1 /\ reader \in Readers
         /\ reader.pc \in {"size", "wait", "woken", "ended"}
  BY InTyped DEF InInv

LEMMA InSpuriousKeeps ==
  ASSUME InInv, sent \in Nat, sent' = sent, InSpurious
  PROVE  InInv' /\ (Takes' => Takes /\ ReadPlace' = ReadPlace)
<1>1. /\ reader.pc = "wait" /\ reader' = [reader EXCEPT !.pc = "woken"]
      /\ in' = in /\ inBuffer' = inBuffer /\ holder' = holder /\ received' = received
      BY DEF InSpurious
<1>2. CASE Reading
  <2>1. /\ in \in Marked /\ inBuffer \in InCells /\ reader \in Readers /\ ReaderStores
        /\ InStored(in, inBuffer, Len(received), sent)
        /\ received \in Seq(Nat) /\ holder \in {"idle", "holds"}
        /\ holder = "holds" => in.start < in.end
        BY <1>2, InSees
  <2>2. /\ reader' \in Readers /\ reader'.pc = "woken"
        /\ reader'.id = reader.id /\ reader'.size = reader.size
        /\ reader'.at = reader.at /\ reader'.left = reader.left /\ reader.id \in Nat
        BY <1>1, <2>1 DEF Readers, ReaderPcs
  <2>3. Awaited' = Awaited BY <1>1 DEF Awaited
  <2>4. ReaderStores' /\ ReadPlace' = ReadPlace BY <1>1, <2>1, <2>2, <2>3, ReaderKept
  <2>5. InTypes' BY <1>1, <2>1, <2>2, InTypedNext
  <2>6. InInv' BY <1>1, <2>1, <2>4, <2>5, InWhileReading
  <2> QED BY <1>1, <1>2, <2>4, <2>6 DEF Takes, Reading
<1>3. CASE ~Reading
  <2>1. ~FreeMidChunk => reader' \in Readers /\ reader'.pc = "woken"
        BY <1>1, <1>3, FreedSees DEF Readers, ReaderPcs
  <2> QED BY <2>1, <1>1, <1>3, AfterFree
<1> QED BY <1>2, <1>3

LEMMA FindsRoomKeeps ==
  ASSUME InInv, sent \in Nat, sent' = sent, FindsRoom
  PROVE  InInv' /\ (Takes' => Takes /\ ReadPlace' = ReadPlace)
<1> DEFINE n == reader.size
           i == InWrapped(in, n)
<1>1. /\ (reader.pc = "size" /\ reader.left = 0) \/ reader.pc = "woken"
      /\ inBuffer' = inBuffer /\ holder' = holder /\ received' = received
      BY DEF FindsRoom
<1>2. CASE Reading
  <2>1. /\ in \in Marked /\ inBuffer \in InCells /\ reader \in Readers /\ ReaderStores
        /\ InStored(in, inBuffer, Len(received), sent)
        /\ received \in Seq(Nat) /\ holder \in {"idle", "holds"} /\ Len(received) \in Nat
        /\ holder = "holds" => in.start < in.end
        /\ in.start \in Nat /\ in.end \in Nat /\ in.write \in Nat
        BY <1>2, InSees
  <2>2. Sized BY <1>1, Constants DEF Sized
  <2>3. reader.id = Awaited /\ reader.id <= sent /\ n \in Sizes BY <2>1, <2>2 DEF ReaderStores
  <2>4. Extent(n) \in Nat /\ Extent(n) = Header + n /\ n \in Nat BY <2>3, Extents
  <2>5. /\ i \in Marked /\ InStored(i, inBuffer, Len(received), sent)
        /\ Coming(i, inBuffer, Len(received)) = Awaited
        /\ i.start = in.start /\ i.end = in.end /\ i.write \in Nat
    <3>1. CASE in.write = in.end /\ in.write + n + Header > InSize
      <4>1. i = [in EXCEPT !.write = 0] BY <3>1 DEF InWrapped
      <4> HIDE DEF i
      <4> DEFINE k == Len(received)
      <4>2. k \in Nat /\ InStored(in, inBuffer, k, sent) /\ in.write = in.end BY <3>1, <2>1
      <4>3. Awaited = Coming(in, inBuffer, k) BY DEF Awaited
      <4> HIDE DEF k, n
      <4>4. /\ i \in Marked /\ InStored(i, inBuffer, k, sent)
            /\ Coming(i, inBuffer, k) = Coming(in, inBuffer, k)
            /\ i.start = in.start /\ i.end = in.end /\ i.write = 0
            BY <4>1, <4>2, <2>1, WrappedIn
      <4> QED BY <4>3, <4>4 DEF k
    <3>2. CASE ~(in.write = in.end /\ in.write + n + Header > InSize)
      <4>1. i = in BY <3>2 DEF InWrapped
      <4> HIDE DEF i
      <4> QED BY <4>1, <2>1 DEF Awaited
    <3> QED BY <3>1, <3>2
  <2> HIDE DEF i
  <2>6. Marks(i, InSize) BY <2>5 DEF InStored
  <2>7. i.write <= i.end BY <2>5, <2>6, InMarks
  <2>8. ~InBlocked(i, n) => Fits(i, n, InSize)
    <3> HIDE DEF n
    <3> QED BY <2>1, <2>4, <2>5, <2>7, Constants DEF InBlocked, Fits
  <2>9. in.write # -1 BY <2>1
  <2>10. /\ in' = i
         /\ \/ reader' = [reader EXCEPT !.pc = "spins"]
            \/ reader' = [reader EXCEPT !.pc = "wait"]
            \/ reader' = [reader EXCEPT !.pc = "store"] /\ Fits(i, n, InSize)
    <3>1. CASE i.write = i.end /\ InBlocked(i, n)
      <4>1. in' = i /\ reader' = [reader EXCEPT !.pc = "spins"]
            BY <3>1, <2>9 DEF FindsRoom, i
      <4> QED BY <4>1
    <3>2. CASE i.write # i.end /\ InBlocked(i, n)
      <4>1. in' = i /\ reader' = [reader EXCEPT !.pc = "wait"]
            BY <3>2, <2>9 DEF FindsRoom, i
      <4> QED BY <4>1
    <3>3. CASE ~InBlocked(i, n)
      <4>1. in' = i /\ reader' = [reader EXCEPT !.pc = "store"]
            BY <3>3, <2>9 DEF FindsRoom, i
      <4> QED BY <4>1, <3>3, <2>8
    <3> QED BY <3>1, <3>2, <3>3
  <2>11. /\ reader' \in Readers /\ reader'.id = reader.id /\ reader'.size = n
         /\ reader'.pc \in {"spins", "wait", "store"}
         /\ reader'.pc = "store" => Fits(in', n, InSize)
         BY <2>1, <2>10 DEF Readers, ReaderPcs
  <2>12. Awaited' = Awaited BY <1>1, <2>5, <2>10 DEF Awaited
  <2>13. ReaderStores' BY <2>3, <2>11, <2>12 DEF ReaderStores
  <2>14. InTypes' BY <1>1, <2>1, <2>5, <2>10, <2>11, InTypedNext
  <2>15. InStored(in', inBuffer', Len(received'), sent') BY <1>1, <2>5, <2>10
  <2>16. holder' = "holds" => in'.start < in'.end BY <1>1, <2>1, <2>5, <2>10
  <2>17. InInv' BY <1>1, <2>1, <2>13, <2>14, <2>15, <2>16, InWhileReading
  <2>18. Taken' = Header /\ Taken = Header
    <3>1. Taken' = Header BY <2>11 DEF Taken
    <3>2. CASE reader.pc = "size" /\ reader.left = 0 BY <3>1, <3>2, Constants DEF Taken
    <3>3. CASE reader.pc = "woken" BY <3>1, <3>3 DEF Taken
    <3> QED BY <3>1, <3>2, <3>3, <1>1
  <2>19. ReadPlace' = ReadPlace BY <2>11, <2>18, Constants DEF ReadPlace
  <2>20. Takes BY <1>1, <1>2 DEF Takes
  <2> QED BY <2>17, <2>19, <2>20
<1>3. CASE ~Reading
  <2>1. ~FreeMidChunk => in' = in /\ reader' = [reader EXCEPT !.pc = "ended"]
        BY <1>3, FreedSees DEF FindsRoom
  <2>2. ~FreeMidChunk => reader' \in Readers /\ reader'.pc = "ended"
        BY <2>1, <1>3, FreedSees DEF Readers, ReaderPcs
  <2> QED BY <2>1, <2>2, <1>1, <1>3, AfterFree
<1> QED BY <1>2, <1>3

LEMMA StoresSizeKeeps ==
  ASSUME InInv, sent \in Nat, sent' = sent, StoresSize
  PROVE  InInv' /\ (Takes' => Takes /\ ReadPlace' = ReadPlace)
<1> DEFINE n == reader.size
           w == in.write
<1>1. /\ reader.pc = "store" /\ reader' = [reader EXCEPT !.pc = "receive"]
      /\ inBuffer' = [p \in DOMAIN inBuffer |->
           IF p \in w .. w + Header - 1 THEN Cell(reader.id, n, p - w) ELSE inBuffer[p]]
      /\ in' = in /\ holder' = holder /\ received' = received
      BY DEF StoresSize
<1>2. CASE Reading
  <2>1. /\ in \in Marked /\ inBuffer \in InCells /\ reader \in Readers /\ ReaderStores
        /\ InStored(in, inBuffer, Len(received), sent)
        /\ received \in Seq(Nat) /\ holder \in {"idle", "holds"} /\ Len(received) \in Nat
        /\ holder = "holds" => in.start < in.end
        /\ in.start \in Nat /\ in.end \in Nat /\ w \in Nat
        /\ in.start <= in.end /\ in.end <= InSize
        BY <1>2, InSees
  <2>2. Sized BY <1>1 DEF Sized
  <2>3. /\ reader.id = Awaited /\ reader.id <= sent /\ n \in Sizes /\ Fits(in, n, InSize)
        BY <1>1, <2>1, <2>2 DEF ReaderStores
  <2>4. Extent(n) \in Nat /\ Extent(n) = Header + n /\ n \in Nat BY <2>3, Extents
  <2>5. reader.id \in Nat /\ DOMAIN inBuffer = -Header .. InSize - 1
        BY <2>1 DEF Readers, InCells
  <2>6. w + Extent(n) <= InSize BY <2>1, <2>3, <2>4, Constants DEF Fits
  <2> HIDE DEF n, w
  <2>7. inBuffer' \in InCells
    <3> SUFFICES ASSUME NEW p \in -Header .. InSize - 1
        PROVE  (IF p \in w .. w + Header - 1 THEN Cell(reader.id, n, p - w)
                ELSE inBuffer[p]) \in Cells
        BY <1>1, <2>5 DEF InCells
    <3>1. CASE p \in w .. w + Header - 1
      <4>1. p - w \in Nat BY <3>1, <2>1, Constants
      <4> QED BY <4>1, <3>1, <2>4, <2>5, CellIs
    <3>2. CASE p \notin w .. w + Header - 1 BY <3>2, <2>1 DEF InCells
    <3> QED BY <3>1, <3>2
  <2>8. \A p \in -Header .. InSize - 1 :
          p \notin w .. (w + Extent(n)) - 1 => inBuffer'[p] = inBuffer[p]
    <3> TAKE p \in -Header .. InSize - 1
    <3>1. p \notin w .. (w + Extent(n)) - 1 => p \notin w .. w + Header - 1
          BY <2>1, <2>4, Constants
    <3> QED BY <3>1, <1>1, <2>5
  <2>9. /\ InStored(in, inBuffer', Len(received), sent)
        /\ Coming(in, inBuffer', Len(received)) = Awaited
        BY <2>1, <2>3, <2>7, <2>8, FilledIn DEF Awaited, w, n
  <2>10. Awaited' = Awaited BY <1>1, <2>9 DEF Awaited
  <2>11. Begun(inBuffer', w, reader.id, n, Header)
    <3> SUFFICES ASSUME NEW q \in 0 .. Header - 1
        PROVE  inBuffer'[w + q] = Cell(reader.id, n, q)
        BY DEF Begun
    <3>1. w + q \in w .. w + Header - 1 /\ (w + q) - w = q BY <2>1, Constants
    <3>2. w + q \in -Header .. InSize - 1 BY <2>1, <2>4, <2>6, Constants
    <3>3. inBuffer'[w + q] = Cell(reader.id, n, (w + q) - w) BY <3>1, <3>2, <1>1, <2>5
    <3> QED BY <3>1, <3>3
  <2>12. /\ reader' \in Readers /\ reader'.pc = "receive" /\ reader'.id = reader.id
         /\ reader'.size = n
         BY <1>1, <2>1 DEF Readers, ReaderPcs, n
  <2>13. in'.write = w BY <1>1 DEF w
  <2>14. ReaderStores' BY <1>1, <2>3, <2>10, <2>11, <2>12, <2>13 DEF ReaderStores
  <2>15. InTypes' BY <1>1, <2>1, <2>7, <2>12, InTypedNext
  <2>16. InInv' BY <1>1, <2>1, <2>9, <2>14, <2>15, InWhileReading
  <2>17. Taken' = Header /\ Taken = Header BY <1>1, <2>12 DEF Taken
  <2>18. ReadPlace' = ReadPlace BY <2>12, <2>17, Constants DEF ReadPlace, n
  <2> QED BY <1>1, <1>2, <2>16, <2>18 DEF Takes
<1>3. CASE ~Reading
  <2>1. FreeMidChunk BY <1>1, <1>3, FreedSees, Constants
  <2> QED BY <2>1, <1>1, <1>3, AfterFree
<1> QED BY <1>2, <1>3

LEMMA ReceivesKeeps ==
  ASSUME InInv, sent \in Nat, sent' = sent, Receives
  PROVE  InInv' /\ (Takes' => Takes /\ ReadPlace' = ReadPlace)
<1> DEFINE n == reader.size
           a == in.write + Header
<1>1. /\ reader.pc = "receive"
      /\ reader' = [reader EXCEPT !.pc = "receiving", !.at = a, !.left = n]
      /\ in' = in /\ inBuffer' = inBuffer /\ holder' = holder /\ received' = received
      BY DEF Receives
<1>2. CASE Reading
  <2>1. /\ in \in Marked /\ inBuffer \in InCells /\ reader \in Readers /\ ReaderStores
        /\ InStored(in, inBuffer, Len(received), sent)
        /\ received \in Seq(Nat) /\ holder \in {"idle", "holds"}
        /\ holder = "holds" => in.start < in.end
        /\ in.start \in Nat /\ in.end \in Nat /\ in.write \in Nat
        /\ in.start <= in.end /\ in.end <= InSize
        BY <1>2, InSees
  <2>2. Sized BY <1>1 DEF Sized
  <2>3. /\ reader.id = Awaited /\ reader.id <= sent /\ n \in Sizes /\ Fits(in, n, InSize)
        /\ Begun(inBuffer, in.write, reader.id, n, Header)
        BY <1>1, <2>1, <2>2 DEF ReaderStores
  <2>4. Extent(n) \in Nat /\ Extent(n) = Header + n /\ n \in Nat BY <2>3, Extents
  <2>5. in.write + Extent(n) <= InSize BY <2>1, <2>3, <2>4, Constants DEF Fits
  <2>6. /\ a \in -1 .. InSize /\ a + n = in.write + Extent(n) /\ Extent(n) - n = Header
    <3> DEFINE x == in.write
    <3>1. x \in Nat /\ x + Extent(n) <= InSize BY <2>1, <2>5
    <3> HIDE DEF n, x
    <3>2. x + Header \in -1 .. InSize BY <3>1, <2>4, Constants
    <3>3. (x + Header) + n = x + Extent(n) /\ Extent(n) - n = Header
          BY <3>1, <2>4, Constants
    <3> QED BY <3>2, <3>3 DEF x
  <2> HIDE DEF a
  <2>7. /\ reader' \in Readers /\ reader'.pc = "receiving" /\ reader'.id = reader.id
        /\ reader'.size = n /\ reader'.at = a /\ reader'.left = n
        BY <1>1, <2>1, <2>4, <2>6 DEF Readers, ReaderPcs
  <2>8. Awaited' = Awaited BY <1>1 DEF Awaited
  <2> HIDE DEF n
  <2>9. /\ reader'.left <= reader'.size
        /\ reader'.at + reader'.left = in'.write + Extent(reader'.size)
        /\ Begun(inBuffer', in'.write, reader'.id, reader'.size,
                 Extent(reader'.size) - reader'.left)
        BY <1>1, <2>3, <2>4, <2>6, <2>7
  <2>10. ReaderStores' BY <1>1, <2>3, <2>7, <2>8, <2>9 DEF ReaderStores
  <2>11. InTypes' BY <1>1, <2>1, <2>7, InTypedNext
  <2>12. InInv' BY <1>1, <2>1, <2>10, <2>11, InWhileReading
  <2>13. Taken' = Header /\ Taken = Header BY <1>1, <2>6, <2>7 DEF Taken
  <2>14. ReadPlace' = ReadPlace BY <2>7, <2>13, Constants DEF ReadPlace, n
  <2> QED BY <1>1, <1>2, <2>12, <2>14 DEF Takes
<1>3. CASE ~Reading
  <2>1. FreeMidChunk BY <1>1, <1>3, FreedSees, Constants
  <2> QED BY <2>1, <1>1, <1>3, AfterFree
<1> QED BY <1>2, <1>3

LEMMA GetsNoMoreKeeps ==
  ASSUME InInv, sent \in Nat, sent' = sent, GetsNoMore
  PROVE  InInv' /\ ~Takes'
<1>1. /\ reader.pc \in {"size", "receiving"} /\ reader' = [reader EXCEPT !.pc = "ended"]
      /\ in' = in /\ inBuffer' = inBuffer /\ holder' = holder /\ received' = received
      BY DEF GetsNoMore
<1>2. CASE Reading
  <2>1. /\ in \in Marked /\ inBuffer \in InCells /\ reader \in Readers
        /\ InStored(in, inBuffer, Len(received), sent)
        /\ received \in Seq(Nat) /\ holder \in {"idle", "holds"}
        /\ holder = "holds" => in.start < in.end
        BY <1>2, InSees
  <2>2. reader' \in Readers /\ reader'.pc = "ended" BY <1>1, <2>1 DEF Readers, ReaderPcs
  <2>3. ReaderStores' BY <2>2 DEF ReaderStores, Sized
  <2>4. InTypes' BY <1>1, <2>1, <2>2, InTypedNext
  <2>5. InInv' BY <1>1, <2>1, <2>3, <2>4, InWhileReading
  <2> QED BY <2>2, <2>5 DEF Takes
<1>3. CASE ~Reading
  <2>1. ~FreeMidChunk => reader' \in Readers /\ reader'.pc = "ended"
        BY <1>1, <1>3, FreedSees DEF Readers, ReaderPcs
  <2> QED BY <2>1, <1>1, <1>3, AfterFree
<1> QED BY <1>2, <1>3

LEMMA StoresKeeps ==
  ASSUME InInv, sent \in Nat, sent' = sent, Stores
  PROVE  InInv' /\ (Takes' => Takes /\ ReadPlace' = ReadPlace)
<1> DEFINE n == reader.size
           k == Len(received)
<1>1. /\ reader.pc = "receiving" /\ reader.left = 0 /\ reader' = Waiting
      /\ in' = Stored(in, n)
      /\ inBuffer' = inBuffer /\ holder' = holder /\ received' = received
      BY DEF Stores
<1>2. /\ reader' \in Readers /\ reader'.pc = "size" /\ reader'.left = Header
      BY <1>1, Constants DEF Waiting, Readers, ReaderPcs
<1>3. CASE Reading
  <2>1. /\ in \in Marked /\ inBuffer \in InCells /\ reader \in Readers /\ ReaderStores
        /\ InStored(in, inBuffer, k, sent)
        /\ received \in Seq(Nat) /\ holder \in {"idle", "holds"} /\ k \in Nat
        /\ holder = "holds" => in.start < in.end
        /\ in.start \in Nat /\ in.end \in Nat /\ in.write \in Nat /\ in.end <= InSize
        /\ Awaited \in Nat \ {0}
        BY <1>3, InSees
  <2>2. Sized BY <1>1 DEF Sized
  <2>3. /\ reader.id = Awaited /\ reader.id <= sent /\ n \in Sizes /\ Fits(in, n, InSize)
        /\ Begun(inBuffer, in.write, reader.id, n, Extent(n) - reader.left)
        BY <1>1, <2>1, <2>2 DEF ReaderStores
  <2>4. Extent(n) \in Nat /\ Extent(n) > 1 /\ n \in Nat BY <2>3, Extents
  <2>5. Extent(n) - reader.left = Extent(n) BY <1>1, <2>4
  <2>6. Coming(in, inBuffer, k) <= sent
        /\ Begun(inBuffer, in.write, Coming(in, inBuffer, k), n, Extent(n))
        BY <2>3, <2>5 DEF Awaited
  <2>7. /\ in' \in Marked /\ InStored(in', inBuffer, k, sent)
        /\ Coming(in', inBuffer, k) = Awaited + 1
        /\ in'.start = in.start /\ in.end <= in'.end
        BY <1>1, <2>1, <2>3, <2>6, StoredIn DEF Awaited
  <2>8. Awaited' = Awaited + 1 BY <1>1, <2>7 DEF Awaited
  <2>9. ReaderStores'
    <3>1. ~Sized' BY <1>2, Constants DEF Sized
    <3> QED BY <3>1, <1>2, Constants DEF ReaderStores
  <2>10. InTypes' BY <1>1, <1>2, <2>1, <2>7, InTypedNext
  <2>11. holder' = "holds" => in'.start < in'.end
    <3>1. in'.end \in Int BY <2>7 DEF Marked
    <3> QED BY <3>1, <1>1, <2>1, <2>7
  <2>12. InInv' BY <1>1, <2>1, <2>7, <2>9, <2>10, <2>11, InWhileReading
  <2>13. ReadPlace' = Cell(Awaited + 1, 0, 0)
    <3>1. Taken' = 0 BY <1>2, Constants DEF Taken
    <3> QED BY <3>1, <2>8 DEF ReadPlace
  <2>14. ReadPlace = Cell(Awaited + 1, 0, 0)
    <3>1. Taken = Extent(n) BY <1>1, <2>5 DEF Taken
    <3>2. ReadPlace = After(Cell(reader.id, n, Extent(n) - 1)) BY <3>1, <2>4 DEF ReadPlace
    <3> DEFINE d == Extent(n) - 1
    <3>3. d \in Nat /\ ~(d + 1 < Extent(n)) /\ Awaited \in Nat BY <2>1, <2>4
    <3>4. ReadPlace = After(Cell(Awaited, n, d)) BY <3>2, <2>3
    <3> HIDE DEF d, n
    <3> QED BY <3>3, <3>4, <2>4, AfterIs
  <2> QED BY <1>1, <1>3, <2>12, <2>13, <2>14 DEF Takes
<1>4. CASE ~Reading
  <2>1. FreeMidChunk BY <1>1, <1>4, FreedSees, Constants
  <2> QED BY <2>1, <1>1, <1>4, AfterFree
<1> QED BY <1>3, <1>4

(* What comes in is what is awaited.                                       *)
LEMMA NextCell ==
  ASSUME InInv, LinkInv, sent \in Nat, Takes, reader.pc \in {"size", "receiving"},
         reader.left > 0, net # <<>>
  PROVE  LET c == Head(net)
         IN  /\ c = Cell(c.id, c.size, c.at) /\ c.id = Awaited /\ c.id \in 1 .. sent
             /\ c.size \in Sizes /\ c.at = Taken /\ c.at \in Nat
             /\ c.at > 0 => c.id = reader.id /\ c.size = reader.size /\ Sized
<1> DEFINE c == Head(net)
           n == reader.size
<1>1. /\ reader \in Readers /\ ReaderStores /\ Awaited \in Nat
      BY InSees DEF Takes
<1>2. reader.left \in Nat /\ reader.id \in Nat /\ n \in Nat BY <1>1 DEF Readers
<1>3. c \in [id : 1 .. sent, size : Sizes, at : Nat] /\ Place(c) = ReadPlace
  <2> DEFINE S == [id : 1 .. sent, size : Sizes, at : Nat]
  <2>1. net \in Seq(S) /\ Place(net[1]) = ReadPlace BY DEF LinkInv
  <2> HIDE DEF S
  <2>2. c \in S BY <2>1, HeadTailProperties
  <2>3. c = net[1] BY <2>1
  <2> QED BY <2>1, <2>2, <2>3 DEF S
<1>4. /\ c = Cell(c.id, c.size, c.at) /\ c.id \in 1 .. sent /\ c.size \in Sizes /\ c.at \in Nat
      BY <1>3 DEF Cell
<1>5. c.id \in Nat /\ c.size \in Nat BY <1>4, Extents
<1>6. Place(c) = IF c.at = 0 THEN Cell(c.id, 0, 0) ELSE c
  <2> HIDE DEF c
  <2> QED BY DEF Place
<1> HIDE DEF c
<1>7. Taken \in Nat /\ (Taken > 0 => Sized)
  <2>1. CASE reader.pc = "size"
    <3>1. Taken = Header - reader.left BY <2>1 DEF Taken
    <3>2. reader.left <= Header BY <2>1, <1>1 DEF ReaderStores
    <3> QED BY <3>1, <3>2, <2>1, <1>2, Constants DEF Sized
  <2>2. CASE reader.pc = "receiving"
    <3>1. Taken = Extent(n) - reader.left BY <2>2 DEF Taken
    <3>2. Sized BY <2>2 DEF Sized
    <3>3. reader.left <= n BY <2>2, <1>1 DEF ReaderStores
    <3>4. Extent(n) = Header + n BY DEF Extent
    <3> QED BY <3>1, <3>2, <3>3, <3>4, <1>2, Constants
  <2> QED BY <2>1, <2>2
<1>8. CASE Taken = 0
  <2>1. Place(c) = Cell(Awaited, 0, 0) BY <1>3, <1>8 DEF ReadPlace, c
  <2>2. Cell(Awaited, 0, 0).at = 0 /\ Cell(Awaited, 0, 0).id = Awaited BY <1>1, CellIs
  <2>3. c.at = 0 BY <2>1, <2>2, <1>6
  <2>4. Cell(c.id, 0, 0).id = c.id BY <1>5, CellIs
  <2>5. c.id = Awaited BY <2>1, <2>2, <2>3, <2>4, <1>6
  <2> QED BY <2>3, <2>5, <1>4, <1>8 DEF c
<1>9. CASE Taken # 0
  <2> DEFINE t == Taken - 1
             x == Taken
  <2>1. t \in Nat /\ t + 1 = x /\ x \in Nat /\ x # 0 /\ Sized BY <1>7, <1>9
  <2>2. reader.id = Awaited /\ n \in Sizes BY <2>1, <1>1 DEF ReaderStores
  <2>3. Extent(n) \in Nat /\ Extent(n) > Header BY <2>2, Extents
  <2>4. x < Extent(n)
    <3>1. CASE reader.pc = "size"
      <4>1. x = Header - reader.left BY <3>1 DEF Taken
      <4> HIDE DEF x
      <4> QED BY <4>1, <2>3, <1>2, Constants
    <3>2. CASE reader.pc = "receiving"
      <4>1. x = Extent(n) - reader.left BY <3>2 DEF Taken
      <4> HIDE DEF x
      <4> QED BY <4>1, <2>3, <1>2
    <3> QED BY <3>1, <3>2
  <2>5. ReadPlace = After(Cell(Awaited, n, t)) BY <2>2, <1>9 DEF ReadPlace
  <2> HIDE DEF t, x, n
  <2>6. After(Cell(Awaited, n, t)) = Cell(Awaited, n, x)
        BY <2>1, <2>4, <1>1, <1>2, AfterIs DEF n
  <2>7. Place(c) = Cell(Awaited, n, x) BY <2>5, <2>6, <1>3 DEF c
  <2>8. /\ Cell(Awaited, n, x).at = x /\ Cell(Awaited, n, x).id = Awaited
        /\ Cell(Awaited, n, x).size = n
    <3>1. n \in Nat BY <1>2 DEF n
    <3> QED BY <3>1, <2>1, <1>1, CellIs
  <2>9. c.at # 0
    <3>1. Cell(c.id, 0, 0).at = 0 BY <1>5, CellIs
    <3> QED BY <3>1, <2>1, <2>7, <2>8, <1>6
  <2>10. c.at = x /\ c.id = Awaited /\ c.size = n BY <2>7, <2>8, <2>9, <1>6
  <2> QED BY <2>1, <2>2, <2>10, <1>4 DEF c, x, n
<1> QED BY <1>8, <1>9

LEMMA GetsSizeKeeps ==
  ASSUME InInv, LinkInv, sent \in Nat, sent' = sent, GetsSize
  PROVE  InInv' /\ (Takes' => Takes /\ ReadPlace' = After(Head(net)))
<1> DEFINE c == Head(net)
<1>1. /\ reader.pc = "size" /\ reader.left > 0 /\ net # <<>> /\ net' = Tail(net)
      /\ reader' = [reader EXCEPT !.left = @ - 1, !.id = c.id, !.size = c.size]
      /\ in' = in /\ inBuffer' = inBuffer /\ holder' = holder /\ received' = received
      BY DEF GetsSize, ReadCell
<1>2. c.id \in Nat /\ c.size \in Nat
  <2>1. net \in Seq([id : 1 .. sent, size : Sizes, at : Nat]) BY DEF LinkInv
  <2>2. c \in [id : 1 .. sent, size : Sizes, at : Nat] BY <2>1, <1>1, HeadTailProperties
  <2> HIDE DEF c
  <2> QED BY <2>2, Extents
<1> HIDE DEF c
<1>3. CASE Reading
  <2>1. /\ in \in Marked /\ inBuffer \in InCells /\ reader \in Readers /\ ReaderStores
        /\ InStored(in, inBuffer, Len(received), sent)
        /\ received \in Seq(Nat) /\ holder \in {"idle", "holds"}
        /\ holder = "holds" => in.start < in.end
        BY <1>3, InSees
  <2>2. Takes BY <1>1, <1>3 DEF Takes
  <2>3. /\ c = Cell(c.id, c.size, c.at) /\ c.id = Awaited /\ c.id \in 1 .. sent
        /\ c.size \in Sizes /\ c.at = Taken /\ c.at \in Nat
        BY <2>2, <1>1, NextCell DEF c
  <2>4. reader.left \in Nat /\ reader.left <= Header BY <1>1, <2>1 DEF Readers, ReaderStores
  <2>5. /\ reader' \in Readers /\ reader'.pc = "size" /\ reader'.left = reader.left - 1
        /\ reader'.id = c.id /\ reader'.size = c.size
    <3> DEFINE l == reader.left - 1
    <3>1. l \in Nat BY <1>1, <2>4
    <3>2. reader' = [reader EXCEPT !.left = l, !.id = c.id, !.size = c.size] BY <1>1
    <3> HIDE DEF l
    <3>3. /\ reader' \in Readers /\ reader'.pc = "size" /\ reader'.left = l
          /\ reader'.id = c.id /\ reader'.size = c.size
          BY <3>1, <3>2, <1>1, <1>2, <2>1 DEF Readers, ReaderPcs
    <3> QED BY <3>3 DEF l
  <2>6. Awaited' = Awaited BY <1>1 DEF Awaited
  <2>7. reader'.left <= Header /\ c.id <= sent BY <2>3, <2>4, <2>5, Constants
  <2>8. ReaderStores' BY <2>3, <2>5, <2>6, <2>7 DEF ReaderStores
  <2>9. InTypes' BY <1>1, <2>1, <2>5, InTypedNext
  <2>10. InInv' BY <1>1, <2>1, <2>8, <2>9, InWhileReading
  <2>11. Taken' = c.at + 1
    <3>1. Taken' = Header - (reader.left - 1) /\ Taken = Header - reader.left
          BY <1>1, <2>5 DEF Taken
    <3> QED BY <3>1, <2>3, <2>4, Constants
  <2>12. ReadPlace' = After(Cell(c.id, c.size, c.at))
    <3>1. Taken' # 0 /\ Taken' - 1 = c.at BY <2>3, <2>11
    <3> QED BY <3>1, <2>5 DEF ReadPlace
  <2> QED BY <2>2, <2>3, <2>10, <2>12 DEF c
<1>4. CASE ~Reading
  <2>1. ~FreeMidChunk => reader' \in Readers /\ reader'.pc = "size"
    <3> SUFFICES ASSUME ~FreeMidChunk PROVE reader' \in Readers /\ reader'.pc = "size" OBVIOUS
    <3>1. reader \in Readers BY <1>4, FreedSees
    <3>2. reader.left - 1 \in Nat BY <3>1, <1>1 DEF Readers
    <3> QED BY <3>1, <3>2, <1>1, <1>2 DEF Readers, ReaderPcs
  <2> QED BY <2>1, <1>1, <1>4, AfterFree
<1> QED BY <1>3, <1>4

LEMMA GetsDataKeeps ==
  ASSUME InInv, LinkInv, sent \in Nat, sent' = sent, GetsData
  PROVE  InInv' /\ (Takes' => Takes /\ ReadPlace' = After(Head(net)))
<1> DEFINE c == Head(net)
           n == reader.size
           w == in.write
           a == reader.at
<1>1. /\ reader.pc = "receiving" /\ reader.left > 0 /\ net # <<>> /\ net' = Tail(net)
      /\ reader' = [reader EXCEPT !.at = @ + 1, !.left = @ - 1]
      /\ inBuffer' = [inBuffer EXCEPT ![a] = c]
      /\ in' = in /\ holder' = holder /\ received' = received
      BY DEF GetsData, ReadCell
<1>2. CASE Reading
  <2>1. /\ in \in Marked /\ inBuffer \in InCells /\ reader \in Readers /\ ReaderStores
        /\ InStored(in, inBuffer, Len(received), sent)
        /\ received \in Seq(Nat) /\ holder \in {"idle", "holds"} /\ Len(received) \in Nat
        /\ holder = "holds" => in.start < in.end
        /\ in.start \in Nat /\ in.end \in Nat /\ w \in Nat
        /\ in.start <= in.end /\ in.end <= InSize
        BY <1>2, InSees
  <2>2. Takes BY <1>1, <1>2 DEF Takes
  <2>3. /\ c = Cell(c.id, c.size, c.at) /\ c.id = Awaited /\ c.id \in 1 .. sent
        /\ c.size \in Sizes /\ c.at = Taken /\ c.at \in Nat
        /\ c.at > 0 => c.id = reader.id /\ c.size = n
        BY <2>2, <1>1, NextCell
  <2>4. Sized BY <1>1 DEF Sized
  <2>5. /\ reader.id = Awaited /\ reader.id <= sent /\ n \in Sizes /\ Fits(in, n, InSize)
        /\ reader.left <= n /\ a + reader.left = w + Extent(n)
        /\ Begun(inBuffer, w, reader.id, n, Extent(n) - reader.left)
        BY <1>1, <2>1, <2>4 DEF ReaderStores
  <2>6. Extent(n) \in Nat /\ Extent(n) = Header + n /\ n \in Nat BY <2>5, Extents
  <2>7. reader.left \in Nat /\ a \in Int /\ reader.id \in Nat BY <2>1, Constants DEF Readers
  <2>8. w + Extent(n) <= InSize BY <2>1, <2>5, <2>6, Constants DEF Fits
  <2>9. Taken = Extent(n) - reader.left BY <1>1 DEF Taken
  <2> HIDE DEF c, n, w, a
  <2>10. /\ c.at = Extent(n) - reader.left /\ c.at > 0 /\ c.at < Extent(n)
         /\ a = w + c.at
    <3> DEFINE x == c.at
               l == reader.left
               e == Extent(n)
    <3>1. /\ x = e - l /\ l > 0 /\ l <= n /\ a + l = w + e /\ e = Header + n
          /\ l \in Nat /\ n \in Nat /\ e \in Nat /\ a \in Int /\ w \in Nat
          BY <1>1, <2>1, <2>3, <2>5, <2>6, <2>7, <2>9
    <3> HIDE DEF x, l, e
    <3>2. x = e - l /\ x > 0 /\ x < e /\ a = w + x BY <3>1, Constants
    <3> QED BY <3>2 DEF x, l, e
  <2>11. c = Cell(reader.id, n, c.at) BY <2>3, <2>10
  <2>12. inBuffer' \in InCells
    <3> DEFINE x == c.at
               i == reader.id
    <3>a. x \in Nat /\ i \in Nat /\ n \in Nat /\ c = Cell(i, n, x) BY <2>3, <2>6, <2>7, <2>11
    <3> HIDE DEF x, i
    <3>1. c \in Cells BY <3>a, CellHas
    <3> QED BY <3>1, <1>1, <2>1 DEF InCells
  <2>13. a \in -Header .. InSize - 1 /\ DOMAIN inBuffer = -Header .. InSize - 1
         BY <2>1, <2>8, <2>10, <2>3, <2>6, Constants DEF InCells
  <2>14. \A p \in -Header .. InSize - 1 :
           p \notin w .. (w + Extent(n)) - 1 => inBuffer'[p] = inBuffer[p]
    <3> TAKE p \in -Header .. InSize - 1
    <3>1. p \notin w .. (w + Extent(n)) - 1 => p # a BY <2>1, <2>3, <2>6, <2>10
    <3> QED BY <3>1, <1>1, <2>13
  <2>15. /\ InStored(in, inBuffer', Len(received), sent)
         /\ Coming(in, inBuffer', Len(received)) = Awaited
         BY <2>1, <2>5, <2>12, <2>14, FilledIn DEF Awaited, w
  <2>16. Awaited' = Awaited BY <1>1, <2>15 DEF Awaited
  <2> DEFINE k == Extent(n) - (reader.left - 1)
  <2>17. k = c.at + 1 BY <2>6, <2>7, <2>10
  <2> HIDE DEF k
  <2>18. Begun(inBuffer', w, reader.id, n, k)
    <3> SUFFICES ASSUME NEW q \in 0 .. k - 1
        PROVE  inBuffer'[w + q] = Cell(reader.id, n, q)
        BY DEF Begun
    <3>1. CASE q = c.at
      <4>1. inBuffer'[a] = c BY <1>1, <2>13
      <4> QED BY <4>1, <3>1, <2>10, <2>11
    <3>2. CASE q # c.at
      <4>1. q \in 0 .. (Extent(n) - reader.left) - 1 BY <3>2, <2>3, <2>10, <2>17
      <4>2. inBuffer[w + q] = Cell(reader.id, n, q) BY <4>1, <2>5 DEF Begun
      <4>3. w + q # a BY <3>2, <2>1, <2>3, <2>10, <4>1
      <4>4. inBuffer'[w + q] = inBuffer[w + q] BY <4>3, <1>1
      <4> QED BY <4>2, <4>4
    <3> QED BY <3>1, <3>2
  <2>19. /\ a + 1 \in -1 .. InSize /\ reader.left - 1 \in Nat
         /\ (a + 1) + (reader.left - 1) = w + Extent(n) /\ reader.left - 1 <= n
    <3> DEFINE x == c.at
               l == reader.left
               e == Extent(n)
    <3>1. /\ x \in Nat /\ l > 0 /\ l <= n /\ a + l = w + e /\ w + e <= InSize
          /\ x < e /\ a = w + x /\ l \in Nat /\ n \in Nat /\ e \in Nat /\ w \in Nat
          BY <1>1, <2>1, <2>3, <2>5, <2>6, <2>7, <2>8, <2>10
    <3> HIDE DEF x, l, e
    <3>2. /\ a + 1 \in -1 .. InSize /\ l - 1 \in Nat /\ (a + 1) + (l - 1) = w + e
          /\ l - 1 <= n
          BY <3>1, Constants
    <3> QED BY <3>2 DEF x, l, e
  <2>20. /\ reader' \in Readers /\ reader'.pc = "receiving" /\ reader'.id = reader.id
         /\ reader'.size = n /\ reader'.at = a + 1 /\ reader'.left = reader.left - 1
         BY <1>1, <2>1, <2>19 DEF Readers, ReaderPcs, n, a
  <2>21. in'.write = w BY <1>1 DEF w
  <2>22. /\ reader'.left <= reader'.size
         /\ reader'.at + reader'.left = in'.write + Extent(reader'.size)
         /\ Begun(inBuffer', in'.write, reader'.id, reader'.size,
                  Extent(reader'.size) - reader'.left)
         BY <2>18, <2>19, <2>20, <2>21 DEF k
  <2>23. ReaderStores' BY <1>1, <2>5, <2>16, <2>20, <2>22 DEF ReaderStores
  <2>24. InTypes' BY <1>1, <2>1, <2>12, <2>20, InTypedNext
  <2>25. InInv' BY <1>1, <2>1, <2>15, <2>23, <2>24, InWhileReading
  <2>26. Taken' = c.at + 1 BY <2>17, <2>20 DEF Taken, k
  <2>27. ReadPlace' = After(Cell(reader.id, n, c.at))
    <3>1. Taken' # 0 /\ Taken' - 1 = c.at BY <2>3, <2>26
    <3> QED BY <3>1, <2>20 DEF ReadPlace
  <2> QED BY <2>2, <2>11, <2>25, <2>27 DEF c
<1>3. CASE ~Reading
  <2>1. FreeMidChunk BY <1>1, <1>3, FreedSees, Constants
  <2> QED BY <2>1, <1>1, <1>3, AfterFree
<1> QED BY <1>2, <1>3

-----------------------------------------------------------------------------
(* A stream while a step of the other one, or of the link, is taken.       *)

LEMMA InKept ==
  ASSUME InInv, UNCHANGED inVars, sent \in Nat, sent' \in Nat, sent <= sent'
  PROVE  InInv' /\ Takes' = Takes /\ ReadPlace' = ReadPlace
<1>1. /\ in' = in /\ inBuffer' = inBuffer /\ reader' = reader
      /\ holder' = holder /\ received' = received
      BY DEF inVars
<1>2. Awaited' = Awaited BY <1>1 DEF Awaited, Coming, AfterEnd
<1>3. Taken' = Taken BY <1>1 DEF Taken
<1>4. ReadPlace' = ReadPlace BY <1>1, <1>2, <1>3 DEF ReadPlace
<1>5. Takes' = Takes BY <1>1 DEF Takes, Reading
<1>6. CASE Reading
  <2>1. /\ in \in Marked /\ inBuffer \in InCells /\ reader \in Readers /\ ReaderStores
        /\ InStored(in, inBuffer, Len(received), sent)
        /\ received \in Seq(Nat) /\ Len(received) \in Nat
        /\ holder \in {"idle", "holds"} /\ (holder = "holds" => in.start < in.end)
        BY <1>6, InSees
  <2>2. InStored(in, inBuffer, Len(received), sent') BY <2>1, MoreIn
  <2>3. reader.id \in Nat BY <2>1 DEF Readers
  <2>4. ReaderStores' BY <1>1, <1>2, <2>1, <2>3, ReaderKept
  <2>5. InTypes' BY <1>1, <2>1, InTypedNext
  <2>6. InInv' BY <1>1, <2>1, <2>2, <2>4, <2>5, InWhileReading
  <2> QED BY <2>6, <1>4, <1>5
<1>7. CASE ~Reading
  <2>1. received \in Seq(Nat) /\ holder \in {"freeing", "freed"}
        BY <1>7 DEF InInv, Reading
  <2>2. ~FreeMidChunk => /\ InTypes /\ in.start \in 0 .. InSize /\ in.end \in 0 .. InSize
                         /\ in.write = -1
                         /\ reader.pc \in {"size", "wait", "woken", "ended"}
        BY <1>7 DEF InInv
  <2>3. InTypes' = InTypes BY <1>1 DEF InTypes
  <2>4. InInv' BY <1>1, <2>1, <2>2, <2>3, InWhileFreeing
  <2> QED BY <2>4, <1>4, <1>5
<1> QED BY <1>6, <1>7

LEMMA OutKept ==
  ASSUME OutInv, UNCHANGED outVars
  PROVE  OutInv' /\ SendPlace' = SendPlace /\ (up' = up => Shipping' = Shipping)
<1>1. /\ out' = out /\ outBuffer' = outBuffer /\ sender' = sender
      /\ user' = user /\ sent' = sent
      BY DEF outVars
<1>2. OutTypes' = OutTypes BY <1>1 DEF OutTypes
<1>3. SenderShips' = SenderShips BY <1>1 DEF SenderShips
<1>4. Writing' = Writing BY <1>1 DEF Writing
<1>5. UserFills' = UserFills BY <1>1 DEF UserFills
<1>6. OutInv' BY <1>1, <1>2, <1>3, <1>4, <1>5 DEF OutInv
<1>7. SendPlace' = SendPlace BY <1>1 DEF SendPlace, ToShip
<1>8. up' = up => Shipping' = Shipping BY <1>1, <1>4 DEF Shipping
<1> QED BY <1>6, <1>7, <1>8

-----------------------------------------------------------------------------
(* The link.                                                               *)

InFlight(m) == [id : 1 .. m, size : Sizes, at : Nat]

LEMMA MoreInFlight ==
  ASSUME NEW m \in Nat, NEW l \in Nat, m <= l, NEW s \in Seq(InFlight(m))
  PROVE  s \in Seq(InFlight(l))
<1> DEFINE S == InFlight(m)
           T == InFlight(l)
<1>1. S \subseteq T BY DEF InFlight
<1>2. s \in Seq(S) OBVIOUS
<1> HIDE DEF S, T
<1>3. PICK n \in Nat : s \in [1 .. n -> S] BY <1>2, SeqDef
<1>4. s \in [1 .. n -> T] BY <1>1, <1>3
<1>5. s \in Seq(T) BY <1>4, SeqDef
<1> QED BY <1>5 DEF T

LEMMA LinkInitially == Init => LinkInv
<1> SUFFICES ASSUME Init PROVE LinkInv
    OBVIOUS
<1>1. /\ net = <<>> /\ up = TRUE /\ reader = Waiting /\ sent = 0 /\ received = <<>>
      /\ in = [start |-> 0, end |-> 0, write |-> 0]
      /\ out = [start |-> 0, end |-> 0, write |-> 0]
      /\ sender = [pc |-> "begin", at |-> 0, left |-> 0]
      BY DEF Init, InInit, OutInit
<1>2. Len(net) = 0 /\ Len(received) = 0 BY <1>1
<1>3. net \in Seq([id : 1 .. sent, size : Sizes, at : Nat]) BY <1>1
<1>4. Taken = 0 BY <1>1, Constants DEF Taken, Waiting
<1>5. in.start = 0 /\ in.end = 0 /\ in.write = 0 BY <1>1
<1>6. Awaited = 1 BY <1>2, <1>5 DEF Awaited, Coming, AfterEnd
<1>7. ReadPlace = Cell(1, 0, 0) BY <1>4, <1>6 DEF ReadPlace
<1>8. out.start = 0 /\ out.end = 0 /\ sender.pc = "begin" BY <1>1
<1>9. ToShip(out, outBuffer, sent) = 1 BY <1>1, <1>8 DEF ToShip
<1>10. SendPlace = Cell(1, 0, 0) BY <1>8, <1>9 DEF SendPlace
<1> QED BY <1>1, <1>2, <1>3, <1>7, <1>10 DEF LinkInv

(* Nothing is sent or received.                                            *)
LEMMA LinkKept ==
  ASSUME LinkInv, net' = net, up' = up, sent \in Nat, sent' \in Nat, sent <= sent', SendsOn,
         Takes' => Takes /\ ReadPlace' = ReadPlace
  PROVE  LinkInv'
<1>1. /\ up \in BOOLEAN /\ net \in Seq(InFlight(sent))
      /\ \A i \in 1 .. Len(net) : net[i].at < Extent(net[i].size)
      /\ \A i \in 1 .. Len(net) - 1 : Place(net[i + 1]) = After(net[i])
      /\ Takes /\ net # <<>> => Place(net[1]) = ReadPlace
      /\ Shipping /\ net # <<>> => SendPlace = After(net[Len(net)])
      /\ Shipping /\ Takes /\ net = <<>> => SendPlace = ReadPlace
      BY DEF LinkInv, InFlight
<1>2. net' \in Seq(InFlight(sent')) BY <1>1, MoreInFlight
<1>3. Shipping' => Shipping /\ SendPlace' = SendPlace BY DEF SendsOn
<1> QED BY <1>1, <1>2, <1>3 DEF LinkInv, InFlight

LEMMA LinkShips ==
  ASSUME LinkInv, sent \in Nat, sent' = sent, up' = up, NEW c,
         c \in InFlight(sent), c.at < Extent(c.size), net' = Append(net, c),
         Shipping, SendPlace = Place(c), SendPlace' = After(c),
         Takes' => Takes /\ ReadPlace' = ReadPlace
  PROVE  LinkInv'
<1> DEFINE S == InFlight(sent)
           l == Len(net)
<1>1. /\ up \in BOOLEAN /\ net \in Seq(S)
      /\ \A i \in 1 .. Len(net) : net[i].at < Extent(net[i].size)
      /\ \A i \in 1 .. Len(net) - 1 : Place(net[i + 1]) = After(net[i])
      /\ Takes /\ net # <<>> => Place(net[1]) = ReadPlace
      /\ net # <<>> => Place(c) = After(net[Len(net)])
      /\ Takes /\ net = <<>> => Place(c) = ReadPlace
      BY DEF LinkInv, InFlight
<1> HIDE DEF S
<1>2. c \in S BY DEF S
<1>3. /\ net' \in Seq(S) /\ net' # <<>> /\ Len(net') = l + 1
      /\ \A i \in 1 .. l : net'[i] = net[i]
      /\ net'[l + 1] = c /\ l \in Nat /\ (net # <<>> => l > 0) /\ (net = <<>> => l = 0)
      BY <1>1, <1>2, AppendProperties
<1> HIDE DEF l
<1>4. \A i \in 1 .. l : net[i].at < Extent(net[i].size) BY <1>1 DEF l
<1>5. \A i \in 1 .. l - 1 : Place(net[i + 1]) = After(net[i]) BY <1>1 DEF l
<1>6. net # <<>> => Place(c) = After(net[l]) BY <1>1 DEF l
<1>7. \A i \in 1 .. Len(net') : net'[i].at < Extent(net'[i].size)
  <2> TAKE i \in 1 .. Len(net')
  <2>1. CASE i = l + 1 BY <2>1, <1>3
  <2>2. CASE i # l + 1
    <3>1. i \in 1 .. l BY <2>2, <1>3
    <3> QED BY <3>1, <1>3, <1>4
  <2> QED BY <2>1, <2>2
<1>8. \A i \in 1 .. Len(net') - 1 : Place(net'[i + 1]) = After(net'[i])
  <2> TAKE i \in 1 .. Len(net') - 1
  <2>1. i \in 1 .. l /\ net'[i] = net[i] BY <1>3
  <2>2. CASE i = l
    <3>1. net # <<>> BY <2>1, <1>3
    <3> QED BY <3>1, <2>1, <2>2, <1>3, <1>6
  <2>3. CASE i # l
    <3>1. i \in 1 .. l - 1 /\ i + 1 \in 1 .. l BY <2>1, <2>3, <1>3
    <3> QED BY <3>1, <2>1, <1>3, <1>5
  <2> QED BY <2>2, <2>3
<1>9. Takes' => Place(net'[1]) = ReadPlace'
  <2>1. CASE net = <<>> BY <2>1, <1>1, <1>3
  <2>2. CASE net # <<>>
    <3>1. net'[1] = net[1] BY <2>2, <1>3
    <3> QED BY <3>1, <2>2, <1>1
  <2> QED BY <2>1, <2>2
<1>10. SendPlace' = After(net'[Len(net')]) BY <1>3
<1>11. net' \in Seq([id : 1 .. sent', size : Sizes, at : Nat]) BY <1>3 DEF S, InFlight
<1> QED BY <1>1, <1>3, <1>7, <1>8, <1>9, <1>10, <1>11 DEF LinkInv

LEMMA LinkRead ==
  ASSUME LinkInv, sent' = sent, up' = up, net # <<>>, net' = Tail(net), SendsOn,
         Takes' => Takes /\ ReadPlace' = After(Head(net))
  PROVE  LinkInv'
<1> DEFINE S == InFlight(sent)
           l == Len(net)
<1>1. /\ up \in BOOLEAN /\ net \in Seq(S)
      /\ \A i \in 1 .. Len(net) : net[i].at < Extent(net[i].size)
      /\ \A i \in 1 .. Len(net) - 1 : Place(net[i + 1]) = After(net[i])
      /\ Shipping => SendPlace = After(net[Len(net)])
      BY DEF LinkInv, InFlight
<1> HIDE DEF S
<1>2. /\ net' \in Seq(S) /\ Len(net') = l - 1
      /\ \A i \in 1 .. Len(net') : net'[i] = net[i + 1]
      /\ l \in Nat /\ l > 0 /\ Head(net) = net[1] /\ (net' # <<>> => l > 1)
      /\ (net' = <<>> => l = 1)
  <2>1. /\ net' \in Seq(S) /\ Len(net') = Len(net) - 1
        /\ \A i \in 1 .. Len(net') : net'[i] = net[i + 1]
        BY <1>1, HeadTailProperties
  <2>2. Len(net) \in Nat /\ Len(net) > 0 /\ Head(net) = net[1] BY <1>1
  <2> DEFINE t == net'
  <2>3. t \in Seq(S) BY <2>1
  <2> HIDE DEF t
  <2>4. (t # <<>> => Len(t) > 0) /\ (t = <<>> => Len(t) = 0) /\ Len(t) \in Nat
        BY <2>3, EmptySeq, LenProperties
  <2> QED BY <2>1, <2>2, <2>4 DEF t
<1> HIDE DEF l
<1>3. \A i \in 1 .. l : net[i].at < Extent(net[i].size) BY <1>1 DEF l
<1>4. \A i \in 1 .. l - 1 : Place(net[i + 1]) = After(net[i]) BY <1>1 DEF l
<1>5. Shipping => SendPlace = After(net[l]) BY <1>1 DEF l
<1>6. \A i \in 1 .. Len(net') : net'[i].at < Extent(net'[i].size)
  <2> TAKE i \in 1 .. Len(net')
  <2>1. i + 1 \in 1 .. l /\ net'[i] = net[i + 1] BY <1>2
  <2> QED BY <2>1, <1>3
<1>7. \A i \in 1 .. Len(net') - 1 : Place(net'[i + 1]) = After(net'[i])
  <2> TAKE i \in 1 .. Len(net') - 1
  <2>1. /\ i + 1 \in 1 .. l - 1 /\ i \in 1 .. Len(net') /\ i + 1 \in 1 .. Len(net')
        BY <1>2
  <2>2. net'[i] = net[i + 1] /\ net'[i + 1] = net[(i + 1) + 1] BY <2>1, <1>2
  <2> QED BY <2>1, <2>2, <1>4
<1>8. Takes' /\ net' # <<>> => Place(net'[1]) = ReadPlace'
  <2> SUFFICES ASSUME Takes', net' # <<>> PROVE Place(net'[1]) = ReadPlace'
      OBVIOUS
  <2>1. 1 \in 1 .. l - 1 /\ 1 \in 1 .. Len(net') BY <1>2
  <2>2. net'[1] = net[1 + 1] BY <2>1, <1>2
  <2> QED BY <2>1, <2>2, <1>2, <1>4
<1>9. Shipping' => SendPlace' = After(net[l]) BY <1>5 DEF SendsOn
<1>10. net' # <<>> => net'[Len(net')] = net[l]
  <2> SUFFICES ASSUME net' # <<>> PROVE net'[Len(net')] = net[l]
      OBVIOUS
  <2>1. Len(net') \in 1 .. Len(net') /\ Len(net') + 1 = l BY <1>2
  <2> QED BY <2>1, <1>2
<1>11. net' \in Seq([id : 1 .. sent', size : Sizes, at : Nat]) BY <1>2 DEF S, InFlight
<1> QED BY <1>1, <1>2, <1>6, <1>7, <1>8, <1>9, <1>10, <1>11 DEF LinkInv

(* What is still in flight is the front of what was.                       *)
LEMMA LinkBreaks ==
  ASSUME LinkInv, Breaks, UNCHANGED <<outVars, inVars>>
  PROVE  LinkInv'
<1> DEFINE S == InFlight(sent)
<1>1. /\ net \in Seq(S)
      /\ \A i \in 1 .. Len(net) : net[i].at < Extent(net[i].size)
      /\ \A i \in 1 .. Len(net) - 1 : Place(net[i + 1]) = After(net[i])
      /\ Takes /\ net # <<>> => Place(net[1]) = ReadPlace
      BY DEF LinkInv, InFlight
<1>2. PICK n \in 0 .. Len(net) : net' = SubSeq(net, 1, n) BY DEF Breaks
<1>3. up' = FALSE BY DEF Breaks
<1>4. sent' = sent BY DEF outVars
<1> HIDE DEF S
<1>5. n \in Int /\ \A i \in 1 .. n : i \in 1 .. Len(net) /\ net[i] \in S BY <1>1, <1>2
<1>6. /\ net' \in Seq(S) /\ Len(net') = n /\ \A i \in 1 .. n : net'[i] = net[i]
  <2>1. /\ SubSeq(net, 1, n) \in Seq(S)
        /\ Len(SubSeq(net, 1, n)) = IF 1 <= n THEN n - 1 + 1 ELSE 0
        /\ \A i \in 1 .. n - 1 + 1 : SubSeq(net, 1, n)[i] = net[1 + i - 1]
        BY <1>5, SubSeqProperties
  <2> QED BY <2>1, <1>1, <1>2, <1>5
<1>7. \A i \in 1 .. Len(net') : net'[i].at < Extent(net'[i].size) BY <1>1, <1>5, <1>6
<1>8. \A i \in 1 .. Len(net') - 1 : Place(net'[i + 1]) = After(net'[i])
  <2> TAKE i \in 1 .. Len(net') - 1
  <2>1. i \in 1 .. n /\ i + 1 \in 1 .. n /\ i \in 1 .. Len(net) - 1 BY <1>1, <1>2, <1>6
  <2> QED BY <2>1, <1>1, <1>6
<1>9. Takes' /\ net' # <<>> => Place(net'[1]) = ReadPlace'
  <2>1. Takes' = Takes BY DEF inVars, Takes, Reading
  <2>2. ReadPlace' = ReadPlace BY DEF inVars, ReadPlace, Taken, Awaited, Coming, AfterEnd
  <2>3. net' # <<>> => 1 \in 1 .. n BY <1>2, <1>6
  <2>4. net' # <<>> => net'[1] = net[1] /\ net # <<>> BY <2>3, <1>5, <1>6
  <2> QED BY <2>1, <2>2, <2>4, <1>1
<1>10. ~Shipping' BY <1>3 DEF Shipping
<1>11. net' \in Seq([id : 1 .. sent', size : Sizes, at : Nat]) BY <1>4, <1>6 DEF S, InFlight
<1> QED BY <1>3, <1>7, <1>8, <1>9, <1>10, <1>11 DEF LinkInv

-----------------------------------------------------------------------------
(* The steps.                                                              *)

(* A step of the out stream that sends nothing, and what it hands over.    *)
LEMMA OutSteps ==
  ASSUME IInv, OutStep, ~Ships
  PROVE  /\ OutInv' /\ SendsOn /\ net' = net /\ up' = up
         /\ sent' = sent \/ sent' = sent + 1
<1>0. OutInv BY DEF IInv
<1>1. CASE Buffer BY <1>0, <1>1, BufferKeeps DEF Buffer
<1>2. CASE BufferWakes BY <1>0, <1>2, BufferWakesKeeps DEF BufferWakes
<1>3. CASE Fill BY <1>0, <1>3, FillKeeps DEF Fill
<1>4. CASE Send BY <1>0, <1>4, SendKeeps DEF Send
<1>5. CASE OutFree BY <1>0, <1>5, OutFreeKeeps DEF OutFree
<1>6. CASE OutFreed BY <1>0, <1>6, OutFreedKeeps DEF OutFreed
<1>7. CASE Looks BY <1>0, <1>7, LooksKeeps DEF Looks
<1>8. CASE ReadsSize BY <1>0, <1>8, ReadsSizeKeeps DEF ReadsSize
<1>9. CASE ShipRaises BY <1>0, <1>9, ShipRaisesKeeps DEF ShipRaises, SendRaises
<1>10. CASE Shipped BY <1>0, <1>10, ShippedKeeps, ShippedSends DEF Shipped
<1>11. CASE OutSpurious BY <1>0, <1>11, OutSpuriousKeeps DEF OutSpurious
<1> QED BY <1>1, <1>2, <1>3, <1>4, <1>5, <1>6, <1>7, <1>8, <1>9, <1>10, <1>11
        DEF OutStep, User, Sender

LEMMA OutStepsKeep ==
  ASSUME IInv, OutStep, UNCHANGED inVars
  PROVE  IInv' /\ (sent' = sent \/ sent' = sent + 1)
<1>1. OutInv /\ InInv /\ LinkInv /\ sent \in Nat BY DEF IInv, OutInv, OutTypes
<1>2. CASE Ships
  <2> DEFINE c == outBuffer[sender.at]
  <2>1. OutInv' BY <1>1, <1>2, ShipsKeeps
  <2>2. /\ sent' = sent /\ up' = up /\ net' = Append(net, c)
        BY <1>2 DEF Ships, SendCell
  <2>3. /\ c.id \in 1 .. sent /\ c.size \in Sizes /\ c.at \in Nat
        /\ c = Cell(c.id, c.size, c.at) /\ c.at < Extent(c.size)
        /\ Shipping /\ SendPlace = Place(c) /\ SendPlace' = After(c)
        BY <1>1, <1>2, ShipsSends
  <2> HIDE DEF c
  <2>4. c \in InFlight(sent) BY <2>3 DEF Cell, InFlight
  <2>5. sent' \in Nat /\ sent <= sent' BY <1>1, <2>2
  <2>6. InInv' /\ Takes' = Takes /\ ReadPlace' = ReadPlace BY <1>1, <2>5, InKept
  <2>7. LinkInv' BY <1>1, <2>2, <2>3, <2>4, <2>6, LinkShips
  <2> QED BY <2>1, <2>2, <2>6, <2>7 DEF IInv
<1>3. CASE ~Ships
  <2>1. /\ OutInv' /\ SendsOn /\ net' = net /\ up' = up
        /\ sent' = sent \/ sent' = sent + 1
        BY <1>3, OutSteps
  <2>2. sent' \in Nat /\ sent <= sent' BY <1>1, <2>1
  <2>3. InInv' /\ Takes' = Takes /\ ReadPlace' = ReadPlace BY <1>1, <2>2, InKept
  <2>4. LinkInv' BY <1>1, <2>1, <2>2, <2>3, LinkKept
  <2> QED BY <2>1, <2>3, <2>4 DEF IInv
<1> QED BY <1>2, <1>3

(* A step of the in stream that reads nothing off the link.                *)
LEMMA InSteps ==
  ASSUME IInv, InStep, sent' = sent, ~GetsSize, ~GetsData
  PROVE  /\ InInv' /\ (Takes' => Takes /\ ReadPlace' = ReadPlace) /\ net' = net /\ up' = up
<1>0. InInv /\ sent \in Nat BY DEF IInv, OutInv, OutTypes
<1>1. CASE Read BY <1>0, <1>1, ReadKeeps DEF Read
<1>2. CASE DoneRead BY <1>0, <1>2, DoneReadKeeps DEF DoneRead
<1>3. CASE InFree BY <1>0, <1>3, InFreeKeeps DEF InFree
<1>4. CASE InFreed BY <1>0, <1>4, InFreedKeeps DEF InFreed
<1>5. CASE FindsRoom BY <1>0, <1>5, FindsRoomKeeps DEF FindsRoom
<1>6. CASE StoresSize BY <1>0, <1>6, StoresSizeKeeps DEF StoresSize
<1>7. CASE Receives BY <1>0, <1>7, ReceivesKeeps DEF Receives
<1>8. CASE GetsNoMore BY <1>0, <1>8, GetsNoMoreKeeps DEF GetsNoMore, GetRaises
<1>9. CASE Stores BY <1>0, <1>9, StoresKeeps DEF Stores
<1>10. CASE InSpurious BY <1>0, <1>10, InSpuriousKeeps DEF InSpurious
<1> QED BY <1>1, <1>2, <1>3, <1>4, <1>5, <1>6, <1>7, <1>8, <1>9, <1>10
        DEF InStep, Reader, Holder

LEMMA InStepsKeep ==
  ASSUME IInv, InStep, UNCHANGED outVars
  PROVE  IInv'
<1>1. OutInv /\ InInv /\ LinkInv /\ sent \in Nat BY DEF IInv, OutInv, OutTypes
<1>2. sent' = sent BY DEF outVars
<1>3. OutInv' /\ SendPlace' = SendPlace /\ (up' = up => Shipping' = Shipping)
      BY <1>1, OutKept
<1>4. up' = up => SendsOn BY <1>3 DEF SendsOn
<1>5. CASE GetsSize
  <2>1. up' = up /\ net # <<>> /\ net' = Tail(net) BY <1>5 DEF GetsSize, ReadCell
  <2>2. InInv' /\ (Takes' => Takes /\ ReadPlace' = After(Head(net)))
        BY <1>1, <1>2, <1>5, GetsSizeKeeps
  <2>3. LinkInv' BY <1>1, <1>2, <1>4, <2>1, <2>2, LinkRead
  <2> QED BY <1>3, <2>2, <2>3 DEF IInv
<1>6. CASE GetsData
  <2>1. up' = up /\ net # <<>> /\ net' = Tail(net) BY <1>6 DEF GetsData, ReadCell
  <2>2. InInv' /\ (Takes' => Takes /\ ReadPlace' = After(Head(net)))
        BY <1>1, <1>2, <1>6, GetsDataKeeps
  <2>3. LinkInv' BY <1>1, <1>2, <1>4, <2>1, <2>2, LinkRead
  <2> QED BY <1>3, <2>2, <2>3 DEF IInv
<1>7. CASE ~GetsSize /\ ~GetsData
  <2>1. InInv' /\ (Takes' => Takes /\ ReadPlace' = ReadPlace) /\ net' = net /\ up' = up
        BY <1>2, <1>7, InSteps
  <2>2. sent' \in Nat /\ sent <= sent' BY <1>1, <1>2
  <2>3. LinkInv' BY <1>1, <1>4, <2>1, <2>2, LinkKept
  <2> QED BY <1>3, <2>1, <2>3 DEF IInv
<1> QED BY <1>5, <1>6, <1>7

LEMMA BreaksKeeps ==
  ASSUME IInv, Breaks, UNCHANGED <<outVars, inVars>>
  PROVE  IInv'
<1>1. OutInv /\ InInv /\ LinkInv /\ sent \in Nat BY DEF IInv, OutInv, OutTypes
<1>2. UNCHANGED outVars /\ UNCHANGED inVars OBVIOUS
<1>3. sent' = sent BY <1>2 DEF outVars
<1>4. OutInv' BY <1>1, <1>2, OutKept
<1>5. sent' \in Nat /\ sent <= sent' BY <1>1, <1>3
<1>6. InInv' BY <1>1, <1>2, <1>5, InKept
<1>7. LinkInv' BY <1>1, LinkBreaks
<1> QED BY <1>4, <1>6, <1>7 DEF IInv

LEMMA StutterKeeps ==
  ASSUME IInv, UNCHANGED vars
  PROVE  IInv'
<1>1. OutInv /\ InInv /\ LinkInv /\ sent \in Nat BY DEF IInv, OutInv, OutTypes
<1>2. UNCHANGED outVars /\ UNCHANGED inVars /\ net' = net /\ up' = up BY DEF vars
<1>3. sent' = sent BY <1>2 DEF outVars
<1>4. OutInv' /\ SendsOn BY <1>1, <1>2, OutKept DEF SendsOn
<1>5. sent' \in Nat /\ sent <= sent' BY <1>1, <1>3
<1>6. InInv' /\ Takes' = Takes /\ ReadPlace' = ReadPlace BY <1>1, <1>2, <1>5, InKept
<1>7. LinkInv' BY <1>1, <1>2, <1>4, <1>5, <1>6, LinkKept
<1> QED BY <1>4, <1>6, <1>7 DEF IInv

(* The whole chunks that lie in both buffers, apart from the room that the *)
(* user of one and the thread of the other fill outside their mutexes, and *)
(* the cells in flight, which go on where the reader is and end where the  *)
(* sender is, whatever is freed and wherever the link breaks               *)
(* (netOutStream.c and netInStream.c, all of their handlers).              *)
THEOREM InductiveInvariant == Spec => []IInv
<1>1. Init => IInv BY OutInitially, InInitially, LinkInitially DEF IInv
<1>2. IInv /\ [Next]_vars => IInv'
  <2> SUFFICES ASSUME IInv, [Next]_vars PROVE IInv'
      OBVIOUS
  <2>1. CASE OutStep /\ UNCHANGED inVars BY <2>1, OutStepsKeep
  <2>2. CASE InStep /\ UNCHANGED outVars BY <2>2, InStepsKeep
  <2>3. CASE Breaks /\ UNCHANGED <<outVars, inVars>> BY <2>3, BreaksKeeps
  <2>4. CASE UNCHANGED vars BY <2>4, StutterKeeps
  <2> QED BY <2>1, <2>2, <2>3, <2>4 DEF Next
<1> QED BY <1>1, <1>2, PTL DEF Spec

LEMMA InvImpliesType ==
  ASSUME IInv, FreeMidChunk = FALSE
  PROVE  TypeOK
<1>1. OutInv /\ InInv BY DEF IInv
<1>2. /\ out.start \in 0 .. OutSize /\ out.end \in -1 .. OutSize
      /\ out \in Marked /\ sender \in Senders /\ user \in Users
      BY <1>1, OutTyped DEF OutInv
<1>3. out.write \in -1 .. OutSize
  <2>1. CASE Writing
    <3>1. Marks(out, OutSize) BY <1>1, <2>1 DEF OutInv, OutStored
    <3> QED BY <3>1, <1>2, OutMarks, Constants
  <2>2. CASE ~Writing BY <2>2, <1>1, Constants DEF OutInv
  <2> QED BY <2>1, <2>2
<1>4. holder \in {"idle", "holds", "freeing", "freed"} BY <1>1 DEF InInv
<1>5. /\ in.start \in 0 .. InSize /\ in.end \in 0 .. InSize /\ in.write \in -1 .. InSize
      /\ reader \in Readers
  <2>1. CASE Reading
    <3>1. sent \in Nat BY <1>1, OutTyped DEF OutInv
    <3>2. in \in Marked /\ reader \in Readers /\ InStored(in, inBuffer, Len(received), sent)
          BY <1>1, <2>1, <3>1, InSees
    <3>3. Marks(in, InSize) BY <3>2 DEF InStored
    <3> QED BY <3>2, <3>3, InMarks, Constants
  <2>2. CASE ~Reading
    <3>1. /\ in.start \in 0 .. InSize /\ in.end \in 0 .. InSize /\ in.write = -1
          /\ InTypes
          BY <1>1, <2>2 DEF InInv
    <3> QED BY <3>1, InTyped, Constants
  <2> QED BY <2>1, <2>2
<1>6. /\ sender.pc \in {"begin", "wait", "woken", "size", "ship", "ended"}
      /\ sender.at \in 0 .. OutSize
      BY <1>2 DEF Senders, SenderPcs
<1>7. user.pc \in {"idle", "wait", "woken", "fill", "filled", "freeing", "freed"}
      BY <1>2 DEF Users, UserPcs
<1>8. /\ reader.pc \in {"size", "wait", "woken", "store", "receive", "receiving", "spins",
                        "ended"}
      /\ reader.at \in -1 .. InSize
      BY <1>5 DEF Readers, ReaderPcs
<1> QED BY <1>2, <1>3, <1>4, <1>5, <1>6, <1>7, <1>8 DEF TypeOK

(* Offsets stay in the buffers, unless netInStreamOnFree comes while its   *)
(* thread stores a chunk, whose end then moves on from -1 (netInStream.c   *)
(* 35-45 and 115-123).                                                     *)
THEOREM TypeCorrect == ASSUME FreeMidChunk = FALSE PROVE Spec => []TypeOK
<1>1. IInv => TypeOK BY InvImpliesType
<1> QED BY <1>1, InductiveInvariant, PTL

(* What a step is to who sends and who reads.                              *)
LEMMA StepsMap ==
  ASSUME IInv, [Next]_vars
  PROVE  [Channel!Send \/ Channel!Receive]_<<sent, received>>
<1>1. InInv /\ sent \in Nat BY DEF IInv, OutInv, OutTypes
<1>2. CASE OutStep /\ UNCHANGED inVars
  <2>1. sent' = sent \/ sent' = sent + 1 BY <1>2, OutStepsKeep
  <2>2. received' = received BY <1>2 DEF inVars
  <2> QED BY <2>1, <2>2 DEF Channel!Send
<1>3. CASE InStep /\ UNCHANGED outVars
  <2>1. sent' = sent BY <1>3 DEF outVars
  <2>2. CASE DoneRead
    <3>1. Len(received) < sent /\ received' = Append(received, Len(received) + 1)
          BY <1>1, <2>1, <2>2, DoneReadKeeps
    <3> QED BY <2>1, <3>1 DEF Channel!Receive
  <2>3. CASE ~DoneRead
    <3>1. received' = received
          BY <1>3, <2>3 DEF InStep, Reader, Holder, GetsSize, FindsRoom, StoresSize, Receives,
             GetsData, GetsNoMore, Stores, Read, InFree, InFreed, InSpurious
    <3> QED BY <2>1, <3>1
  <2> QED BY <2>2, <2>3
<1>4. CASE Breaks /\ UNCHANGED <<outVars, inVars>>
      BY <1>4 DEF outVars, inVars
<1>5. CASE UNCHANGED vars BY <1>5 DEF vars, outVars, inVars
<1> QED BY <1>2, <1>3, <1>4, <1>5 DEF Next

(* The user of the in stream reads every chunk whole, once and in the      *)
(* order netOutStreamSend was called, up to where the link broke or one of *)
(* the streams was freed (netOutStream.c 92-97 and 196-202, netInStream.c  *)
(* 110-113).                                                               *)
THEOREM StreamsAreChannel == Spec => ImplementsChannel
<1>1. Init => Channel!Init BY DEF Init, OutInit, InInit, Channel!Init
<1>2. IInv /\ [Next]_vars => [Channel!Send \/ Channel!Receive]_<<sent, received>>
      BY StepsMap
<1> QED BY <1>1, <1>2, InductiveInvariant, PTL DEF Spec, ImplementsChannel, Channel!Spec

-----------------------------------------------------------------------------
(* The reader that waits.                                                  *)

(* A step that leaves the marks and the thread alone, or takes the thread  *)
(* away from its waits, or moves it while it receives.                     *)
LEMMA RoomKept ==
  ASSUME RoomInv, Reading' => Reading, in' = in, reader'.size = reader.size,
         \/ reader'.pc = reader.pc
         \/ reader.pc = "wait" /\ reader'.pc = "woken"
         \/ reader'.pc \notin {"size", "wait", "woken"}
  PROVE  RoomInv'
<1>1. WaitsAtFront' BY DEF RoomInv, WaitsAtFront
<1>2. OnlyLargeStranded'
  <2> SUFFICES ASSUME Stranded' PROVE reader'.size \in LargeSizes
      BY DEF OnlyLargeStranded, LargeSizes
  <2>1. Reading' /\ reader'.pc = "wait" /\ in.start = in.end /\ in.write \in {0, in.end}
        BY DEF Stranded, Reading
  <2>2. Stranded BY <2>1 DEF Stranded, Reading
  <2> QED BY <2>2 DEF RoomInv, OnlyLargeStranded
<1> QED BY <1>1, <1>2 DEF RoomInv

(* Freeing and what comes after.                                           *)
LEMMA RoomFreed ==
  ASSUME ~Reading'
  PROVE  RoomInv'
  BY DEF RoomInv, WaitsAtFront, OnlyLargeStranded, Stranded, Reading

(* The user goes to the front: to nothing only if the reader was stranded  *)
(* before.                                                                 *)
LEMMA ReadKeepsRoom ==
  ASSUME RoomInv, InInv, sent \in Nat, Read
  PROVE  RoomInv'
<1>1. Reading /\ in' = Caught(in) /\ reader' = reader BY DEF Read, Reading
<1>2. /\ in \in Marked /\ in.start \in Nat /\ in.end \in Nat /\ in.write \in Nat
      BY <1>1, InSees
<1>3. WaitsAtFront /\ OnlyLargeStranded BY DEF RoomInv
<1>4. CASE in.start = in.end /\ in.write < in.end
  <2>1. in' = [start |-> 0, end |-> in.write, write |-> in.write]
        BY <1>1, <1>2, <1>4 DEF Caught, Marked
  <2>2. in'.start = 0 /\ in'.end = in.write /\ in'.write = in.write BY <2>1
  <2>3. WaitsAtFront'
    <3> SUFFICES ASSUME Reading'
        PROVE  /\ reader'.pc = "size" /\ in'.write = 0 => in'.end = 0
               /\ reader'.pc \in {"wait", "woken"} /\ in'.write = 0 /\ in'.end > 0 =>
                    in'.end + Extent(reader'.size) > InSize
        BY DEF WaitsAtFront, Extent
    <3> QED BY <1>2, <2>2
  <2>4. OnlyLargeStranded'
    <3> SUFFICES ASSUME Stranded' PROVE reader'.size \in LargeSizes
        BY DEF OnlyLargeStranded, LargeSizes
    <3>1. reader.pc = "wait" /\ in.write = 0 BY <1>1, <2>2 DEF Stranded
    <3>2. Stranded BY <1>1, <1>4, <3>1 DEF Stranded, Reading
    <3> QED BY <1>1, <1>3, <3>2 DEF OnlyLargeStranded
  <2> QED BY <2>3, <2>4 DEF RoomInv
<1>5. CASE ~(in.start = in.end /\ in.write < in.end)
  <2>1. in' = in BY <1>1, <1>5 DEF Caught
  <2> QED BY <1>1, <2>1, RoomKept
<1> QED BY <1>4, <1>5

(* The thread starts to wait, or waits again: at the front because its     *)
(* chunk did not fit behind what is there, and with all of that read only  *)
(* if it does not fit in front of it either.                               *)
LEMMA FindsRoomKeepsRoom ==
  ASSUME RoomInv, InInv, sent \in Nat, FindsRoom
  PROVE  RoomInv'
<1> DEFINE n == reader.size
           i == InWrapped(in, n)
<1>1. /\ (reader.pc = "size" /\ reader.left = 0) \/ reader.pc = "woken"
      /\ holder' = holder
      BY DEF FindsRoom
<1>2. CASE Reading
  <2>1. /\ in \in Marked /\ reader \in Readers /\ ReaderStores
        /\ in.start \in Nat /\ in.end \in Nat /\ in.write \in Nat
        BY <1>2, InSees
  <2>2. Sized BY <1>1, Constants DEF Sized
  <2>3. n \in Sizes BY <2>1, <2>2 DEF ReaderStores
  <2>4. Extent(n) \in Nat /\ Extent(n) = Header + n /\ n \in Nat BY <2>3, Extents
  <2>5. WaitsAtFront BY DEF RoomInv
  <2>6. /\ i.start = in.start /\ i.end = in.end /\ i.write \in Nat
        /\ i.write = 0 /\ i.end > 0 => i.end + Extent(n) > InSize
    <3>1. CASE in.write = in.end /\ in.write + n + Header > InSize
      <4>1. i = [in EXCEPT !.write = 0] BY <3>1 DEF InWrapped
      <4> HIDE DEF i
      <4>2. i = [start |-> in.start, end |-> in.end, write |-> 0]
            BY <4>1, <2>1 DEF Marked
      <4> HIDE DEF n
      <4> QED BY <4>2, <3>1, <2>1, <2>4, Constants
    <3>2. CASE ~(in.write = in.end /\ in.write + n + Header > InSize)
      <4>1. i = in BY <3>2 DEF InWrapped
      <4> HIDE DEF i
      <4>2. in.write = 0 /\ in.end > 0 => in.end + Extent(n) > InSize
            BY <1>1, <1>2, <2>1, <2>5 DEF WaitsAtFront
      <4> QED BY <4>1, <4>2, <2>1
    <3> QED BY <3>1, <3>2
  <2>7. in.write # -1 BY <2>1
  <2>8. /\ in' = i
        /\ \/ reader' = [reader EXCEPT !.pc = "spins"]
           \/ reader' = [reader EXCEPT !.pc = "wait"] /\ i.write # i.end /\ InBlocked(i, n)
           \/ reader' = [reader EXCEPT !.pc = "store"]
    <3> HIDE DEF i
    <3>1. CASE i.write = i.end /\ InBlocked(i, n)
      <4>1. in' = i /\ reader' = [reader EXCEPT !.pc = "spins"]
            BY <3>1, <2>7 DEF FindsRoom, i
      <4> QED BY <4>1
    <3>2. CASE i.write # i.end /\ InBlocked(i, n)
      <4>1. in' = i /\ reader' = [reader EXCEPT !.pc = "wait"]
            BY <3>2, <2>7 DEF FindsRoom, i
      <4> QED BY <4>1, <3>2
    <3>3. CASE ~InBlocked(i, n)
      <4>1. in' = i /\ reader' = [reader EXCEPT !.pc = "store"]
            BY <3>3, <2>7 DEF FindsRoom, i
      <4> QED BY <4>1
    <3> QED BY <3>1, <3>2, <3>3
  <2> HIDE DEF i
  <2>9. /\ reader'.size = n /\ reader'.pc \in {"spins", "wait", "store"}
        /\ reader'.pc = "wait" => i.write # i.end /\ InBlocked(i, n)
        BY <2>1, <2>8 DEF Readers, ReaderPcs
  <2> HIDE DEF n
  <2>10. WaitsAtFront' BY <2>6, <2>8, <2>9 DEF WaitsAtFront, Extent
  <2>11. OnlyLargeStranded'
    <3> SUFFICES ASSUME Stranded' PROVE reader'.size \in LargeSizes
        BY DEF OnlyLargeStranded, LargeSizes
    <3>1. reader'.pc = "wait" /\ i.start = i.end /\ i.write \in {0, i.end}
          BY <2>8 DEF Stranded
    <3>2. i.write = 0 /\ i.end # 0 BY <2>9, <3>1
    <3>3. i.end + Extent(n) > InSize BY <2>1, <2>6, <3>2
    <3>4. 0 + n + Header >= i.start BY <2>9, <3>1, <3>2, <2>1, <2>4, <2>6, Constants DEF InBlocked
    <3>5. 2 * Extent(n) > InSize BY <2>1, <2>4, <2>6, <3>1, <3>3, <3>4, Constants
    <3> QED BY <2>3, <2>9, <3>5 DEF LargeSizes
  <2> QED BY <2>10, <2>11 DEF RoomInv
<1>3. CASE ~Reading
  <2>1. ~Reading' BY <1>1, <1>3 DEF Reading
  <2> QED BY <2>1, RoomFreed
<1> QED BY <1>2, <1>3

(* A chunk that is stored leaves write behind the front.                   *)
LEMMA StoresKeepsRoom ==
  ASSUME RoomInv, InInv, sent \in Nat, Stores
  PROVE  RoomInv'
<1>1. /\ in' = Stored(in, reader.size) /\ reader' = Waiting /\ holder' = holder
      BY DEF Stores
<1>2. reader'.pc = "size" BY <1>1 DEF Waiting
<1>3. CASE Reading
  <2>1. in \in Marked /\ reader \in Readers /\ in.write \in Nat BY <1>3, InSees
  <2>2. reader.size \in Nat BY <2>1 DEF Readers
  <2>3. in'.write = in.write + reader.size + Header BY <1>1, <2>1 DEF Stored, Marked
  <2>4. in'.write # 0 BY <2>1, <2>2, <2>3, Constants
  <2> QED BY <1>2, <2>4 DEF RoomInv, WaitsAtFront, OnlyLargeStranded, Stranded
<1>4. CASE ~Reading
  <2>1. ~Reading' BY <1>1, <1>4 DEF Reading
  <2> QED BY <2>1, RoomFreed
<1> QED BY <1>3, <1>4

LEMMA InStepKeepsRoom ==
  ASSUME RoomInv, InInv, sent \in Nat, InStep
  PROVE  RoomInv'
<1>1. CASE Read BY <1>1, ReadKeepsRoom
<1>2. CASE FindsRoom BY <1>2, FindsRoomKeepsRoom
<1>3. CASE Stores BY <1>3, StoresKeepsRoom
<1>4. CASE InFree \/ InFreed
  <2>1. ~Reading' BY <1>4 DEF InFree, InFreed, Reading
  <2> QED BY <2>1, RoomFreed
<1>5. CASE DoneRead
  <2>1. Reading BY <1>5 DEF DoneRead, Reading
  <2>2. in \in Marked /\ reader \in Readers BY <2>1, InSees
  <2>3. in' = [in EXCEPT !.start = @ + Header + inBuffer[in.start].size]
        BY <1>5 DEF DoneRead
  <2>4. in'.end = in.end /\ in'.write = in.write BY <2>2, <2>3 DEF Marked
  <2>5. reader' = ReaderWoken BY <1>5 DEF DoneRead
  <2>6. /\ reader'.size = reader.size /\ reader'.pc # "wait"
        /\ reader'.pc = reader.pc \/ (reader.pc = "wait" /\ reader'.pc = "woken")
        BY <2>2, <2>5 DEF ReaderWoken, Readers, ReaderPcs
  <2>7. OnlyLargeStranded' BY <2>6 DEF OnlyLargeStranded, Stranded
  <2>8. WaitsAtFront' BY <2>1, <2>4, <2>6 DEF RoomInv, WaitsAtFront
  <2> QED BY <2>7, <2>8 DEF RoomInv
<1>6. CASE GetsSize \/ StoresSize \/ Receives \/ GetsData \/ GetsNoMore \/ InSpurious
  <2>1. in' = in /\ holder' = holder
        BY <1>6 DEF GetsSize, StoresSize, Receives, GetsData, GetsNoMore, InSpurious
  <2>2. CASE ~Reading
    <3>1. ~Reading' BY <2>1, <2>2 DEF Reading
    <3> QED BY <3>1, RoomFreed
  <2>3. CASE Reading
    <3>1. reader \in Readers BY <2>3, InSees
    <3>2. CASE GetsSize
      <4>1. reader.pc = "size" /\ reader'.pc = "size" BY <3>1, <3>2 DEF GetsSize, Readers
      <4> QED BY <2>1, <2>3, <4>1
              DEF RoomInv, WaitsAtFront, OnlyLargeStranded, Stranded
    <3>3. CASE StoresSize \/ Receives \/ GetsData \/ GetsNoMore
      <4>1. reader'.pc \in {"receive", "receiving", "ended"}
            BY <3>1, <3>3 DEF StoresSize, Receives, GetsData, GetsNoMore, Readers
      <4> QED BY <4>1 DEF RoomInv, WaitsAtFront, OnlyLargeStranded, Stranded
    <3>4. CASE InSpurious
      <4>1. reader.pc = "wait" /\ reader'.pc = "woken" /\ reader'.size = reader.size
            BY <3>1, <3>4 DEF InSpurious, Readers
      <4> QED BY <2>1, <2>3, <4>1, RoomKept
    <3> QED BY <1>6, <3>2, <3>3, <3>4
  <2> QED BY <2>2, <2>3
<1> QED BY <1>1, <1>2, <1>3, <1>4, <1>5, <1>6 DEF InStep, Reader, Holder

(* A reader of the in stream sleeps with everything read, nobody left to   *)
(* signal it, only if its chunk takes more than half the buffer: for       *)
(* smaller ones the signal that netInStreamRead does not send when it goes *)
(* to the front is never missed (netInStream.c 81-103, 158-200).           *)
THEOREM SmallNeverStranded == Spec => []OnlyLargeStranded
<1>1. Init => RoomInv
  <2> SUFFICES ASSUME Init PROVE RoomInv OBVIOUS
  <2>1. in.end = 0 /\ reader.pc = "size" BY DEF Init, InInit, Waiting
  <2> QED BY <2>1 DEF RoomInv, WaitsAtFront, OnlyLargeStranded, Stranded
<1>2. IInv /\ RoomInv /\ [Next]_vars => RoomInv'
  <2> SUFFICES ASSUME IInv, RoomInv, [Next]_vars PROVE RoomInv'
      OBVIOUS
  <2>1. InInv /\ sent \in Nat BY DEF IInv, OutInv, OutTypes
  <2>2. CASE InStep /\ UNCHANGED outVars BY <2>1, <2>2, InStepKeepsRoom
  <2>3. CASE UNCHANGED inVars
    <3>1. in' = in /\ reader' = reader /\ holder' = holder BY <2>3 DEF inVars
    <3>2. Reading' => Reading BY <3>1 DEF Reading
    <3> QED BY <3>1, <3>2, RoomKept
  <2> QED BY <2>2, <2>3 DEF Next, vars, inVars
<1>3. RoomInv => OnlyLargeStranded BY DEF RoomInv
<1> QED BY <1>1, <1>2, <1>3, InductiveInvariant, PTL DEF Spec
=============================================================================
