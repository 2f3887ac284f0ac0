--------------------------------- MODULE Codec ---------------------------------
(* IOBuffer::UpdateInt and ReadInt of src/src/buf/buffer.h:170-230, which     *)
(* Int<T> of src/src/net/event-bus/data.hpp encodes and decodes with: an      *)
(* unsigned integer as pieces of 16 bits, the least significant first, each in *)
(* network order (so that ntohs gives back what htons was given).             *)
EXTENDS Integers

B16 == 65536
B31 == 2147483648
B32 == 4294967296
B48 == 281474976710656
B63 == 9223372036854775808
B64 == 18446744073709551616

\* UpdateInt: (uint16_t) v, then v >> 16, and so on.
Piece0(v) == v % B16
Piece1(v) == (v \div B16) % B16
Piece2(v) == (v \div B32) % B16
Piece3(v) == (v \div B48) % B16

\* What ReadInt shifts is an int: the 16 bits of ntohs are promoted to it.
Int32(x) == IF x % B32 < B31 THEN x % B32 ELSE (x % B32) - B32

\* ntohs(*p) << 16 may run into the sign.
Shifted16(p) == Int32(p * B16)

\* A shift of an int by 32 or 48 is undefined: the machine shifts by the count
\* modulo 32, and a compiler that knows the count may give 0.
Shifted32(p) == {p, 0}
Shifted48(p) == {Shifted16(p), 0}

\* t += ..., in the width of T: what ReadInt makes of the pieces of v.
Read16(v) == Piece0(v)
Read32(v) == (Piece0(v) + Shifted16(Piece1(v))) % B32
Read64(v) == {(Piece0(v) + Shifted16(Piece1(v)) + a + b) % B64 :
                a \in Shifted32(Piece2(v)), b \in Shifted48(Piece3(v))}
================================================================================
