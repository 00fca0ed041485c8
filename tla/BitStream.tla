----------------------------- MODULE BitStream ------------------------------
(***************************************************************************)
(* The bit stream of bitstream.c, bit for bit: what is pushed gathers in   *)
(* a 32-bit accumulator, which goes to r_dat when it is full; nothing      *)
(* writes the last, incomplete word.  A word is the sequence of its bits,  *)
(* the most significant first.                                             *)
(***************************************************************************)
EXTENDS Integers, Sequences

CONSTANT
  OverShift   (* what a shift by 32, which C leaves undefined, gives: "zero" *)
              (* where the machine has longer shifts (PowerPC), "kept" where *)
              (* it takes the amount modulo 32 (x86)                         *)

ASSUME OverShiftAssumption == OverShift \in {"zero", "kept"}

Word == [1 .. 32 -> {0, 1}]
Zero == [i \in 1 .. 32 |-> 0]
AllOnes == [i \in 1 .. 32 |-> 1]

(* Values have at most 16 bits, so that only a push or a read of no bits,  *)
(* such as an empty run of ones, asks for a shift by 32.                   *)
Amount(n) == IF n = 32 /\ OverShift = "kept" THEN 0 ELSE n
LeftBy(v, n) == SubSeq(v, Amount(n) + 1, 32) \o SubSeq(Zero, 1, Amount(n))
RightBy(v, n) == SubSeq(Zero, 1, Amount(n)) \o SubSeq(v, 1, 32 - Amount(n))
Or(v, u) == <<>> \o [i \in 1 .. 32 |-> IF v[i] = 1 \/ u[i] = 1 THEN 1 ELSE 0]

(* The values pushed and read have at most 16 bits.                        *)
Low(n) == [i \in 1 .. 32 |-> IF i > 16 THEN (n \div 2 ^ (32 - i)) % 2 ELSE 0]
Value(v) ==
  LET upTo[i \in 0 .. 32] == IF i = 0 THEN 0 ELSE 2 * upTo[i - 1] + v[i]
  IN  upTo[32]

(* bitStreamCreate: the memory holds zeroes; r_dat is what was written.    *)
Empty == [r_dat |-> <<>>, accum |-> Zero, numBit |-> 0, curBit |-> 0]

Reset(bs) == [bs EXCEPT !.numBit = 0, !.curBit = 0, !.accum = Zero]

(* Mistake: a word that is just full is not written yet.                   *)
PushExact_Late(bs, val, bits) ==
  LET tp == LeftBy(val, 32 - bits)
      accum == Or(bs.accum, RightBy(tp, bs.curBit))
  IN  IF bs.curBit + bits > 32
      THEN [r_dat |-> Append(bs.r_dat, accum), accum |-> LeftBy(tp, 32 - bs.curBit),
            numBit |-> bs.numBit + 1, curBit |-> bs.curBit + bits - 32]
      ELSE [bs EXCEPT !.accum = accum, !.curBit = @ + bits]

(* bitStreamPushExact, on a stream that is only written since its creation *)
PushExact(bs, val, bits) ==
  LET tp == LeftBy(val, 32 - bits)
      accum == Or(bs.accum, RightBy(tp, bs.curBit))
  IN  IF bs.curBit + bits >= 32
      THEN [r_dat |-> Append(bs.r_dat, accum), accum |-> LeftBy(tp, 32 - bs.curBit),
            numBit |-> bs.numBit + 1, curBit |-> bs.curBit + bits - 32]
      ELSE [bs EXCEPT !.accum = accum, !.curBit = @ + bits]

(* What is pushed: the bits of a number, or nothing but ones.              *)
Exact(val, bits) == <<Low(val), bits>>
PushOne(bits) == <<RightBy(AllOnes, 32 - bits), bits>>
Push(val, bits) == Exact(val % 2 ^ bits, bits)

RECURSIVE PushAll(_, _)
PushAll(bs, pushes) ==
  IF pushes = <<>> THEN bs
  ELSE PushAll(PushExact(bs, pushes[1][1], pushes[1][2]), Tail(pushes))

LowBits(v, n) == SubSeq(Zero, 1, 32 - n) \o SubSeq(v, 33 - n, 32)

(* bitStreamRead: the value read, and the stream after it                  *)
WordAt(bs, n) == IF n < Len(bs.r_dat) THEN bs.r_dat[n + 1] ELSE Zero
Read(bs, bits) ==
  LET rbits == bits - (32 - bs.curBit)
      here  == LowBits(RightBy(LeftBy(WordAt(bs, bs.numBit), bs.curBit), 32 - bits), bits)
      next  == RightBy(WordAt(bs, bs.numBit + 1), 32 - rbits)
  IN  [val |-> Value(IF rbits > 0 THEN Or(next, here) ELSE here),
       bs  |-> IF bs.curBit + bits >= 32
               THEN [bs EXCEPT !.numBit = @ + 1, !.curBit = @ + bits - 32]
               ELSE [bs EXCEPT !.curBit = @ + bits]]

Position(bs) == 32 * bs.numBit + bs.curBit
=============================================================================
