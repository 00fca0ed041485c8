------------------------------ MODULE MCBitCodec ------------------------------
EXTENDS BitCodec

CONSTANTS MaxWidth, MaxComponents, MaxHeight

(* Rows that are flat, climb, jump from black to white, repeat the row     *)
(* above or not: sample x of row y is one of four bytes.                   *)
Bytes == <<0, 255, 9, 130>>
Pattern(w, nc, h, a, b, c) ==
  [y \in 1 .. h |-> [x \in 0 .. w * nc - 1 |-> Bytes[((a * x + b * y + x \div c) % 4) + 1]]]
Ramp(w, nc, h, a, b, c) ==
  [y \in 1 .. h |-> [x \in 0 .. w * nc - 1 |-> (a * x + b * y * y + (x * y) \div c) % 256]]

Patterns(w, nc, h) ==
  {Pattern(w, nc, h, a, b, c) : a \in 0 .. 3, b \in 0 .. 1, c \in {2, 5}}
    \cup {Ramp(w, nc, h, a, b, c) : a \in {1, 40}, b \in {3, 11}, c \in {1, 4}}

FieldsOf(method, w, nc, h) ==
  {[method |-> method, nc |-> nc, d |-> rows] : rows \in Patterns(w, nc, h)}

SmallFields ==
  UNION {FieldsOf(method, w, nc, MaxHeight) :
           method \in {"scalar", "planes"}, w \in 2 .. MaxWidth, nc \in 1 .. MaxComponents}
    \cup FieldsOf("planes", 20, 1, 2)
    \cup FieldsOf("vector", 16, 3, 2)
===============================================================================
