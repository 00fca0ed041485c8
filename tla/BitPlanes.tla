----------------------------- MODULE BitPlanes ------------------------------
(***************************************************************************)
(* The other row codec of bitstream.c, bitStreamEncodeField and            *)
(* bitStreamDecodeField.  The differences along a row, one component after *)
(* the other, are coded as nine planes of bits (the ninth holds the sign), *)
(* each by the lengths of its runs or, when that does not pay, as it is.   *)
(***************************************************************************)
EXTENDS BitStream, FiniteSets

LOCAL Size(d) == Cardinality(DOMAIN d)

(* b: the differences, magnitude and sign.  d is the row's component c.    *)
Deltas(d) ==
  [x \in DOMAIN d |->
     IF x = 0 THEN d[0]
     ELSE IF d[x - 1] >= d[x] THEN d[x - 1] - d[x] ELSE 256 + d[x] - d[x - 1]]

Plane(b, bit) == [x \in DOMAIN b |-> (b[x] \div 2 ^ bit) % 2]

(* ohBits: enough for the longest run so far, and one more than enough.    *)
RECURSIVE Widened(_, _)
Widened(ohBits, maxCount) ==
  IF maxCount > 2 ^ (ohBits - 1) + 1 THEN Widened(ohBits + 1, maxCount) ELSE ohBits

(* The runs seen before place x: the lengths of those that are over, the   *)
(* length of the last, and the bits a length takes.  The scan stops where  *)
(* the runs cost as much as the bits.                                      *)
Dear(runs, ohBits, w) == w <= runs * ohBits + 1

RECURSIVE Scan(_, _, _, _, _)
Scan(p, x, amt, count, ohBits) ==
  IF x = Size(p) \/ Dear(Len(amt) + 1, ohBits, Size(p))
  THEN [amt |-> Append(amt, count), ohBits |-> Widened(ohBits, count)]
  ELSE IF x = 0 \/ p[x] = p[x - 1] THEN Scan(p, x + 1, amt, count + 1, ohBits)
  ELSE Scan(p, x + 1, Append(amt, count), 1, Widened(ohBits, count))

Runs(p) == Scan(p, 0, <<>>, 0, 1)

(* What is pushed for a plane.                                             *)
PlanePushes(p) ==
  LET run == Runs(p)
  IN  IF Dear(Len(run.amt), run.ohBits, Size(p))
      THEN <<Push(0, 4)>> \o [i \in 1 .. Size(p) |-> Push(p[i - 1], 1)]
      ELSE <<Push(run.ohBits, 4), Push(p[0], 1)>>
             \o [i \in 1 .. Len(run.amt) |-> Push(run.amt[i] - 1, run.ohBits)]

-----------------------------------------------------------------------------
(* Decoding: the bits of a plane and the stream after it.                  *)
RECURSIVE ReadBits(_, _), ReadRuns(_, _, _, _)
ReadBits(bs, n) ==
  IF n = 0 THEN [bits |-> <<>>, bs |-> bs]
  ELSE LET one  == Read(bs, 1)
           rest == ReadBits(one.bs, n - 1)
       IN  [bits |-> <<one.val>> \o rest.bits, bs |-> rest.bs]
ReadRuns(bs, n, cb, ohBits) ==
  IF n <= 0 THEN [bits |-> <<>>, bs |-> bs]
  ELSE LET size == Read(bs, ohBits)
           rest == ReadRuns(size.bs, n - size.val - 1, 1 - cb, ohBits)
       IN  [bits |-> [i \in 1 .. size.val + 1 |-> cb] \o rest.bits, bs |-> rest.bs]

ReadPlane(bs, w) ==
  LET ohBits == Read(bs, 4)
      cb     == Read(ohBits.bs, 1)
  IN  IF ohBits.val = 0 THEN ReadBits(ohBits.bs, w)
                        ELSE ReadRuns(cb.bs, w, cb.val, ohBits.val)

(* The samples of a component from its differences.                        *)
Samples(b) ==
  LET row[x \in DOMAIN b] ==
        IF x = 0 THEN b[0] % 256
        ELSE IF b[x] >= 256 THEN (row[x - 1] + (b[x] % 256)) % 256
                            ELSE (row[x - 1] - b[x]) % 256
  IN  row
=============================================================================
