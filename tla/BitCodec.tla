------------------------------ MODULE BitCodec ------------------------------
(***************************************************************************)
(* A field of bytes written to a bit stream row by row and read back, the  *)
(* way FluidZip_Delegate.m tries the codecs of bitstream.c: all rows are   *)
(* encoded, the stream is reset, and the rows are decoded into the same    *)
(* field.  With the bit planes goes the header, which bitstream.h offers   *)
(* to describe the field.                                                  *)
(***************************************************************************)
EXTENDS Felics, BitPlanes

CONSTANT
  Fields   (* the fields tried: [method, nc, d], d a sequence of rows *)

(* The AltiVec encoder is written for three components and rows of sixteen *)
(* samples, aligned.                                                       *)
ASSUME FieldsAssumption ==
  \A f \in Fields :
    /\ f.method \in {"scalar", "vector", "planes"}
    /\ f.method = "vector" => f.nc = 3 /\ Cardinality(DOMAIN f.d[1]) % 16 = 0

VARIABLES
  field,      (* what was to be encoded *)
  d,          (* the field's data, decoded in place *)
  buff,       (* rows of residuals: the encoder of FELICS fills one per row, *)
              (* its decoder and the planes use the first                    *)
  bs,
  step        (* [what, y, x, bit]: what is done next, at which row, sample *)
              (* (of the planes, component) and plane                       *)

vars == <<field, d, buff, bs, step>>

Height == Len(d)
RowSize == Cardinality(DOMAIN d[1])
Width == RowSize \div field.nc
Planes == field.method = "planes"
At(what) == step.what = what
Start(what) == [what |-> what, y |-> 1, x |-> 0, bit |-> 0]

Init ==
  /\ field \in Fields /\ d = field.d
  /\ buff = [y \in 1 .. Len(field.d) |-> [x \in DOMAIN field.d[1] |-> 0]]
  /\ bs = Empty
  /\ step = Start(IF field.method = "planes" THEN "header" ELSE "residuals")

(* The next sample of the row, and after its last the next row.            *)
NextSample(size, row, over) ==
  CASE step.x < size - 1 -> [step EXCEPT !.x = @ + 1, !.bit = 0]
    [] step.x = size - 1 /\ step.y < Height ->
         [step EXCEPT !.what = row, !.x = 0, !.bit = 0, !.y = @ + 1]
    [] step.x = size - 1 /\ step.y = Height -> Start(over)

(* The next plane of the component, and after its last the next component. *)
NextPlane(row, over) ==
  IF step.bit < 8 THEN [step EXCEPT !.bit = @ + 1] ELSE NextSample(field.nc, row, over)

-----------------------------------------------------------------------------
(* bitStreamEncodeFelics                                                   *)
Residuals ==
  /\ At("residuals")
  /\ buff' = [buff EXCEPT ![step.y] =
                IF field.method = "vector" /\ step.y > 1
                THEN VectorResiduals(d[step.y], field.nc, @)
                ELSE ScalarResiduals(d[step.y], field.nc)]
  /\ step' = [step EXCEPT !.what = "encode"]
  /\ UNCHANGED <<field, d, bs>>

EncodeFelics ==
  /\ At("encode") /\ ~Planes
  /\ bs' = PushAll(bs,
              CASE step.y = 1 -> FirstRowCode(buff[1], step.x)
                [] step.y > 1 /\ field.method = "scalar" ->
                     ScalarCode(field.nc, buff[step.y], buff[step.y - 1], step.x)
                [] step.y > 1 /\ field.method = "vector" ->
                     VectorCode(field.nc, buff[step.y], buff[step.y - 1], step.x))
  /\ step' = NextSample(RowSize, "residuals", "reset")
  /\ UNCHANGED <<field, d, buff>>

(* bitStreamEncodeFieldHeader, and bitStreamEncodeField plane by plane     *)
EncodeHeader ==
  /\ At("header")
  /\ bs' = PushAll(bs, <<Push(Width, 16), Push(Height, 16), Push(field.nc, 4)>>)
  /\ step' = Start("encode")
  /\ UNCHANGED <<field, d, buff>>

EncodePlanes ==
  /\ At("encode") /\ Planes
  /\ LET b == IF step.bit > 0 THEN buff[1]
              ELSE Deltas([x \in 0 .. Width - 1 |-> d[step.y][step.x + x * field.nc]])
     IN  /\ buff' = [buff EXCEPT ![1] = b]
         /\ bs' = PushAll(bs, PlanePushes(Plane(b, step.bit)))
  /\ step' = NextPlane("encode", "reset")
  /\ UNCHANGED <<field, d>>

(* bitStreamReset: the bits still in the accumulator are lost.             *)
ResetStream ==
  /\ At("reset")
  /\ bs' = Reset(bs)
  /\ step' = Start(IF Planes THEN "header back" ELSE "decode")
  /\ UNCHANGED <<field, d, buff>>

-----------------------------------------------------------------------------
(* bitStreamDecodeFelics: beyond x, buff still holds the row above.        *)
DecodeFelics ==
  /\ At("decode") /\ ~Planes
  /\ LET x   == step.x
         got == IF x < field.nc \/ step.y = 1 THEN ReadGolomb(bs)
                ELSE ReadRange(bs, buff[1][x - field.nc], buff[1][x])
     IN  /\ bs' = got.bs
         /\ buff' = [buff EXCEPT ![1][x] = got.b]
         /\ d' = [d EXCEPT ![step.y][x] =
                    IF x < field.nc THEN got.b % 256
                    ELSE (d[step.y][x - field.nc] - Difference(got.b)) % 256]
  /\ step' = NextSample(RowSize, "decode", "over")
  /\ UNCHANGED field

(* bitStreamDecodeFieldHeader: what it reads sizes the field decoded into. *)
DecodeHeader ==
  /\ At("header back")
  /\ LET w == Read(bs, 16)
         h == Read(w.bs, 16)
         c == Read(h.bs, 4)
     IN  /\ bs' = c.bs
         /\ d' = [y \in 1 .. h.val |-> [x \in 0 .. w.val * c.val - 1 |-> 0]]
  /\ step' = Start("decode")
  /\ UNCHANGED <<field, buff>>

(* bitStreamDecodeField, a plane; with the ninth, the component is known.  *)
DecodePlanes ==
  /\ At("decode") /\ Planes
  /\ LET got == ReadPlane(bs, Width)
         b   == [x \in 0 .. Width - 1 |->
                   (IF step.bit = 0 THEN 0 ELSE buff[1][x]) + 2 ^ step.bit * got.bits[x + 1]]
     IN  /\ bs' = got.bs
         /\ buff' = [buff EXCEPT ![1] = b]
         /\ d' = IF step.bit < 8 THEN d
                 ELSE [d EXCEPT ![step.y] =
                         [x \in DOMAIN @ |-> IF x % field.nc = step.x
                                             THEN Samples(b)[x \div field.nc] ELSE @[x]]]
  /\ step' = NextPlane("decode", "over")
  /\ UNCHANGED field

Next ==
  \/ EncodeHeader \/ EncodePlanes \/ Residuals \/ EncodeFelics \/ ResetStream
  \/ DecodeHeader \/ DecodePlanes \/ DecodeFelics

Spec == Init /\ [][Next]_vars

-----------------------------------------------------------------------------
Decoding == step.what \in {"decode", "over"}
Decoded(y, x) ==
  \/ At("over") \/ y < step.y
  \/ y = step.y /\ (IF Planes THEN x % field.nc ELSE x) < step.x

TypeOK ==
  /\ \A y \in 1 .. Height : \A x \in DOMAIN d[y] : d[y][x] \in 0 .. 255
  /\ bs.accum \in Word /\ bs.curBit \in 0 .. 31
  /\ ~Decoding => /\ bs.numBit = Len(bs.r_dat) \/ At("header back")
                  /\ \A i \in bs.curBit + 1 .. 32 : bs.accum[i] = 0

(* What is decoded is what was encoded, the size of the field too, for     *)
(* both codecs and both encoders of the first, as long as it is read from  *)
(* words that were written: the last, incomplete one never is              *)
(* (bitstream.c 72-107, 186-207, 210-390, 396-1134, 1137-1282).            *)
RoundTrip ==
  Decoding /\ Position(bs) <= 32 * Len(bs.r_dat) =>
    /\ Height = Len(field.d) /\ DOMAIN d[1] = DOMAIN field.d[1]
    /\ \A y \in 1 .. Height, x \in 0 .. RowSize - 1 :
         Decoded(y, x) => d[y][x] = field.d[y][x]
=============================================================================
