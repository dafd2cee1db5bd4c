--------------------------------- MODULE Alu ---------------------------------
(***************************************************************************)
(* The arithmetic of the CPU: the functions of lib/z80_gameboy.h that      *)
(* compute a result and the four flags, as operators.  They take and give  *)
(* bytes; flags are [z, n, h, c], each 0 or 1 (`h' is `ac' in the code).   *)
(*                                                                         *)
(* The code gets carries and half carries from a wider result and from     *)
(* a ^ b ^ result; what they should be is said at the end in arithmetic.   *)
(***************************************************************************)
EXTENDS Integers

Byte == 0 .. 255
Flag == {0, 1}
Truth(p) == IF p THEN 1 ELSE 0

\* The bit of n with the weight w, and a byte as the set of the weights of its
\* bits.
Bit(n, w) == (n \div w) % 2
Weight == <<1, 2, 4, 8, 16, 32, 64, 128>>
Bits(n) == {w \in {1, 2, 4, 8, 16, 32, 64, 128} : Bit(n, w) = 1}
Number(S) ==
  LET One(w) == IF w \in S THEN w ELSE 0
  IN One(1) + One(2) + One(4) + One(8) + One(16) + One(32) + One(64) + One(128)

\* A result with its flags.
Out(v, z, n, h, c) == [v |-> v, f |-> [z |-> z, n |-> n, h |-> h, c |-> c]]

\* z80_set_flags_ac: bit 4 (bit 12 in 16 bits) of a ^ b ^ r, r unsigned.
Xored(w, a, b, r) == (Bit(a, w) + Bit(b, w) + Bit(r % 131072, w)) % 2

\* zc[r & 0x1ff]: zero and carry of a result of nine bits.
Nine(r, a, b, n) ==
  Out(r % 256, Truth(r % 256 = 0), n, Xored(16, a, b, r), Truth(r % 512 > 255))

-----------------------------------------------------------------------------
(* With the accumulator.                                                   *)

z80_add(a, b)    == Nine(a + b, a, b, 0)
z80_adc(a, b, f) == Nine(a + b + f.c, a, b, 0)
z80_sub(a, b)    == Nine(a - b, a, b, 1)

\* (a slip: the borrow is taken after the flags)
z80_sbc_late(a, b, f) ==
  [Nine(a - b, a, b, 1) EXCEPT !.v = (a - b - f.c) % 256]

z80_sbc(a, b, f) == Nine(a - b - f.c, a, b, 1)
z80_cmp(a, b)    == [Nine(a - b, a, b, 1) EXCEPT !.v = a]

z80_ana(a, b) == LET r == Number(Bits(a) \cap Bits(b)) IN Out(r, Truth(r = 0), 0, 1, 0)
z80_ora(a, b) == LET r == Number(Bits(a) \cup Bits(b)) IN Out(r, Truth(r = 0), 0, 0, 0)
z80_xra(a, b) ==
  LET r == Number((Bits(a) \cup Bits(b)) \ (Bits(a) \cap Bits(b)))
  IN Out(r, Truth(r = 0), 0, 0, 0)

\* (a slip: the carry of the low digit is not looked at)
z80_daa_digits(a, f) ==
  LET low  == IF f.n = 1 THEN IF f.h = 1 THEN (a - 6) % 256 ELSE a
              ELSE IF (a % 16) > 9 THEN a + 6 ELSE a
      high == IF f.n = 1 THEN IF f.c = 1 THEN low - 96 ELSE low
              ELSE IF f.c = 1 \/ low - (low % 16) > 144 THEN low + 96 ELSE low
      v    == (high % 256)
  IN Out(v, Truth(v = 0), f.n, 0, IF Bit(high % 65536, 256) = 1 THEN 1 ELSE f.c)

\* The accumulator as two decimal digits again.  (`a' is an unsigned int; bits
\* 4 to 8 of it are compared with 0x90.)
z80_daa(a, f) ==
  LET low  == IF f.n = 1 THEN IF f.h = 1 THEN (a - 6) % 256 ELSE a
              ELSE IF (a % 16) > 9 \/ f.h = 1 THEN a + 6 ELSE a
      high == IF f.n = 1 THEN IF f.c = 1 THEN low - 96 ELSE low
              ELSE IF f.c = 1 \/ low - (low % 16) > 144 THEN low + 96 ELSE low
      v    == (high % 256)
  IN Out(v, Truth(v = 0), f.n, 0, IF Bit(high % 65536, 256) = 1 THEN 1 ELSE f.c)

-----------------------------------------------------------------------------
(* With a register or (HL): the carry is kept by the first two.            *)

z80_inr(b, f) == [Nine(b + 1, b, 1, 0) EXCEPT !.f.c = f.c]
z80_dcr(b, f) == [Nine(b - 1, b, 1, 1) EXCEPT !.f.c = f.c]

\* Rotations: `around' is the parameter with_carry, TRUE for RLC and RRC, which
\* put the bit that falls out back in; RL and RR put the carry in.
z80_rl(v, f, around) ==
  LET out == Bit(v, 128)
      r   == ((2 * v) % 256) + (IF around THEN out ELSE f.c)
  IN Out(r, Truth(r = 0), 0, 0, out)

z80_rr(v, f, around) ==
  LET out == Bit(v, 1)
      r   == (v \div 2) + 128 * (IF around THEN out ELSE f.c)
  IN Out(r, Truth(r = 0), 0, 0, out)

\* The one-byte forms on the accumulator do not set Z.
z80_rla(v, f, around) == [z80_rl(v, f, around) EXCEPT !.f.z = 0]
z80_rra(v, f, around) == [z80_rr(v, f, around) EXCEPT !.f.z = 0]

z80_sl(v, one) ==
  LET r == ((2 * v) % 256) + one IN Out(r, Truth(r = 0), 0, 0, Bit(v, 128))

z80_sr(v, preserve) ==
  LET r == (v \div 2) + (IF preserve THEN 128 * Bit(v, 128) ELSE 0)
  IN Out(r, Truth(r = 0), 0, 0, Bit(v, 1))

swap(v) == Out((v \div 16) + 16 * (v % 16), Truth(v = 0), 0, 0, 0)

z80_bit(v, pos, f) == Out(v, Truth(Bit(v, Weight[pos + 1]) = 0), 0, 1, f.c)
z80_res(v, pos)    == LET w == Weight[pos + 1] IN v - w * Bit(v, w)
z80_set(v, pos)    == LET w == Weight[pos + 1] IN v + w * (1 - Bit(v, w))

\* The byte after 0xCB: two bits of family, three of operation or position.
Turned(y, v, f) ==
  CASE y = 0 -> z80_rl(v, f, TRUE)  [] y = 1 -> z80_rr(v, f, TRUE)
    [] y = 2 -> z80_rl(v, f, FALSE) [] y = 3 -> z80_rr(v, f, FALSE)
    [] y = 4 -> z80_sl(v, 0)        [] y = 5 -> z80_sr(v, TRUE)
    [] y = 6 -> swap(v)             [] y = 7 -> z80_sr(v, FALSE)

z80_ext_cb_execute(code, v, f) ==
  LET y == (code \div 8) % 8
  IN CASE code \div 64 = 0 -> Turned(y, v, f)
       [] code \div 64 = 1 -> z80_bit(v, y, f)
       [] code \div 64 = 2 -> [v |-> z80_res(v, y), f |-> f]
       [] code \div 64 = 3 -> [v |-> z80_set(v, y), f |-> f]

-----------------------------------------------------------------------------
(* With 16 bits.                                                           *)

dad_16(a, b, f) ==
  Out((a + b) % 65536, f.z, 0, Xored(4096, a, b, a + b), Truth(a + b > 65535))

Signed(b) == IF b < 128 THEN b ELSE b - 256

\* ADD SP,dd and LD HL,SP+dd: the flags are of the low bytes, unsigned.
add_sp(sp, b) ==
  LET r == (sp % 256) + b
  IN Out((sp + Signed(b)) % 65536, 0, 0, Xored(16, (sp % 256), b, r), Truth(r > 255))

-----------------------------------------------------------------------------
(* What the results should be.                                             *)

Flags   == [z : Flag, n : Flag, h : Flag, c : Flag]
NoFlags == [z |-> 0, n |-> 0, h |-> 0, c |-> 0]
Carry(c) == [NoFlags EXCEPT !.c = c]

Sum(a, b, c) ==
  Out((a + b + c) % 256, Truth((a + b + c) % 256 = 0), 0,
      Truth((a % 16) + (b % 16) + c > 15), Truth(a + b + c > 255))

Difference(a, b, c) ==
  Out((a - b - c) % 256, Truth((a - b - c) % 256 = 0), 1,
      Truth((a % 16) < (b % 16) + c), Truth(a < b + c))

\* In 16 bits, of the numbers with bytes a and b in either order.
WideSum(a, b, f) ==
  LET x == 256 * a + b
      y == 256 * b + a
      o == dad_16(x, y, f)
      s == add_sp(x, a)
  IN /\ o.v = (x + y) % 65536
     /\ o.f = [f EXCEPT !.n = 0, !.c = Truth(x + y > 65535),
                        !.h = Truth((x % 4096) + (y % 4096) > 4095)]
     /\ s.v = (x + Signed(a)) % 65536
     /\ s.f = [Sum(b, a, 0).f EXCEPT !.z = 0]

Decimal == 0 .. 99
Bcd(n)  == 16 * (n \div 10) + (n % 10)

\* A code of the family and the operation or bit after 0xCB.
CodeOf(family, y) == 64 * family + 8 * y
=============================================================================
