------------------------------- MODULE Felics -------------------------------
(***************************************************************************)
(* The row codec of bitStreamEncodeFelics and bitStreamDecodeFelics.  A    *)
(* sample is coded as its difference from the sample of the same component *)
(* to its left; in every row but the first, in the few bits that tell it   *)
(* from the residuals to its left and above when it lies about them.       *)
(* Rows are functions of the sample's place, 0 to w * nc - 1.              *)
(***************************************************************************)
EXTENDS BitStream, FiniteSets

M == 16
R == 5

(* A difference, folded into the natural numbers, and back.                *)
Residual(left, this) ==
  LET bx == 2 * (left - this) IN IF bx < 0 THEN -bx - 1 ELSE bx
Difference(b) == IF b % 2 = 1 THEN -((b + 1) \div 2) ELSE b \div 2

(* Ones, a zero and four bits; the zero is the first of the R bits.        *)
Golomb(b, more) == <<PushOne(b \div M + more), Exact(b - M * (b \div M), R)>>

Size(d) == Cardinality(DOMAIN d)

-----------------------------------------------------------------------------
(* The range a residual is expected in, from those to its left and above.  *)
Leading(n) == 32 - Cardinality({i \in 0 .. 9 : n >= 2 ^ i})   (* __builtin_clz *)
Larger(m, n) == IF m < n THEN n ELSE m
Smaller(m, n) == IF m < n THEN m ELSE n

Coded(b, cmStart, mask, numBits) ==
  IF cmStart >= 0 /\ cmStart <= mask /\ numBits * M < b + R * M
  THEN <<Exact(cmStart, numBits + 1)>>
  ELSE Golomb(b, 1)

(* One sample at a time.                                                   *)
CodeOne(left, up, b) ==
  LET mask  == 2 ^ (32 - Leading(Larger(left, up) - Smaller(left, up))) - 1
      start == (left + up) \div 2 - mask \div 2
  IN  IF left = up
      THEN IF b = left THEN <<Exact(0, 1)>> ELSE Golomb(b, 1)
      ELSE Coded(b, b - start, mask, 32 - Leading(Larger(left, up) - Smaller(left, up)))

(* Four at a time: the case of equal neighbours is mended afterwards.      *)
CodeFour(left, up, b) ==
  LET numBits == IF left = up THEN 32 ELSE Leading(Larger(left, up) - Smaller(left, up))
      mask    == IF left = up THEN 0 ELSE 2 ^ (32 - numBits) - 1
      mid     == (left + up) \div 2
      start   == IF left = up THEN mid ELSE mid - mask \div 2
  IN  Coded(b, b - start, mask, 32 - numBits)

(* Lane by lane, out of the vectors.                                       *)
Emit(inRange, b, cmStart, numBits) ==
  IF inRange THEN <<Exact(cmStart, numBits)>>
  ELSE <<PushOne(b \div M + 1), Exact(b - M * (b \div M), R)>>

(* Eight lanes of 16 bits: the leading zeroes are counted by comparisons,  *)
(* and the shift by their number is taken modulo 16.                       *)
CodeLane(left, up, b) ==
  LET vd      == Larger(left, up) - Smaller(left, up)
      numBits == 7 + Cardinality({i \in 0 .. 8 : vd < 2 ^ i})
      bitmask == 65535 \div 2 ^ (numBits % 16)
      mid     == (left + up) \div 2
      start   == IF left = up THEN mid ELSE mid - bitmask \div 2
      mask    == IF left = up THEN 0 ELSE bitmask
      inRange == ~(b - start < 0 \/ b - start > mask) /\ 16 * (16 - numBits) < b + R * M
  IN  Emit(inRange, b, b - start, 16 - numBits + 1)

-----------------------------------------------------------------------------
(* The rows of buff.                                                       *)
ScalarResiduals(d, nc) ==
  [x \in DOMAIN d |-> IF x < nc THEN d[x] ELSE Residual(d[x - nc], d[x])]

(* Sixteen at a time after the first sixteen, always with the third sample *)
(* to the left; what is left over is not written.                          *)
VectorResiduals(d, nc, old) ==
  [x \in DOMAIN d |->
     CASE x < nc -> d[x]
       [] x >= nc /\ x < 16 -> Residual(d[x - nc], d[x])
       [] x >= 16 /\ x < 16 * (Size(d) \div 16) ->
            LET bx == 2 * (d[x - 3] - d[x])
            IN  IF bx < 0 THEN (-bx) - 1 ELSE bx
       [] OTHER -> old[x]]

(* What is pushed for sample x, of the first row and of the others: the    *)
(* first of each component raw, the others one of three ways.              *)
FirstRowCode(b, x) == Golomb(b[x], 0)

ScalarCode(nc, b, bp, x) ==
  LET four == nc + 4 * ((Size(b) - nc) \div 4)
  IN  CASE x < nc -> Golomb(b[x], 0)
        [] nc <= x /\ x < four -> CodeFour(b[x - nc], bp[x], b[x])
        [] four <= x -> CodeOne(b[x - nc], bp[x], b[x])

VectorCode(nc, b, bp, x) ==
  LET last == 8 + 16 * ((Size(b) - 8) \div 16)
  IN  CASE x < nc -> Golomb(b[x], 0)
        [] (nc <= x /\ x < 8) \/ (8 <= x /\ last <= x) -> CodeOne(b[x - nc], bp[x], b[x])
        [] 8 <= x /\ x < last -> CodeLane(b[x - 3], bp[x], b[x])

-----------------------------------------------------------------------------
(* Decoding, one sample at a time: [b, bs].                                *)
RECURSIVE ReadOnes(_, _)
ReadOnes(bs, r) ==
  LET one == Read(bs, 1)
  IN  IF one.val = 1 THEN ReadOnes(one.bs, r + 1) ELSE [r |-> r, bs |-> one.bs]

ReadGolomb(bs) ==
  LET ones == ReadOnes(bs, 0)
      rest == Read(ones.bs, R - 1)
  IN  [b |-> M * ones.r + rest.val, bs |-> rest.bs]

(* Mistake: the mask is one bit short, and so the middle is elsewhere.     *)
ReadRange_Short(bs, left, up) ==
  LET first   == Read(bs, 1)
      numBits == 32 - Leading(Larger(left, up) - Smaller(left, up))
      start   == (left + up) \div 2 - (2 ^ (numBits - 1) - 1) \div 2
      there   == Read(first.bs, numBits)
  IN  IF first.val = 1 THEN ReadGolomb(first.bs)
      ELSE IF left = up THEN [b |-> left, bs |-> first.bs]
      ELSE [b |-> there.val + start, bs |-> there.bs]

ReadRange(bs, left, up) ==
  LET first   == Read(bs, 1)
      numBits == 32 - Leading(Larger(left, up) - Smaller(left, up))
      start   == (left + up) \div 2 - (2 ^ numBits - 1) \div 2
      there   == Read(first.bs, numBits)
  IN  IF first.val = 1 THEN ReadGolomb(first.bs)
      ELSE IF left = up THEN [b |-> left, bs |-> first.bs]
      ELSE [b |-> there.val + start, bs |-> there.bs]
=============================================================================
