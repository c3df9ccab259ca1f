------------------------------ MODULE FmtFloat ------------------------------
(***************************************************************************)
(* Floating-point numbers of the bundled fmt library: their digits (bigint,*)
(* format_dragon, the first-segment method of format_float, Dragonbox) and *)
(* the fields made of them (format.h, format-inl.h).                       *)
(*                                                                         *)
(* A number x is [neg, b, m]: sign, biased exponent and the SigBits stored *)
(* bits, or kind "inf"/"nan". The widths are scaled down from double's 52  *)
(* bits and 11, the bigits from 32 bits, the first segment from 9+9+1      *)
(* decimal digits; the relations the algorithms rest on are kept. Products *)
(* with cached powers of ten, and divisions by magic multiplication, are   *)
(* exact here: that the tables and magic numbers are good enough is theory *)
(* of their authors. Letters of upper-case output are left out.            *)
(***************************************************************************)
EXTENDS FmtWrite
CONSTANTS SigBits,     \* num_significand_bits
          BiasBits,    \* exponent_bias + num_significand_bits
          BigitBits,   \* bigit_bits
          Subsegment,  \* the digits of a subsegment: a segment has 2 * Subsegment + 1
          ExpUpper     \* exp_upper

Ten(k) == 10 ^ k
Pos(k) == Max({k, 0})
(* floor(n * 2^e * 10^k), and whether nothing was cut off.                 *)
Scaled(n, e, k) == LET num == n * 2 ^ Pos(e) * Ten(Pos(k)) den == 2 ^ Pos(-e) * Ten(Pos(-k))
                   IN [floor |-> num \div den, exact |-> num % den = 0]
floor_log10_pow2(e) == (e * 315653) \div 2 ^ 20
floor_log10_pow2_minus_log10_4_over_3(e) == (e * 631305 - 261663) \div 2 ^ 21

(* basic_fp::assign.                                                       *)
assign_fp(x) ==
  [f |-> IF x.b = 0 THEN x.m ELSE x.m + 2 ^ SigBits,
   e |-> Max({x.b, 1}) - BiasBits,
   closer |-> x.m = 0 /\ x.b > 1]

-----------------------------------------------------------------------------
(* bigint: bigits, least significant first, times 2^(BigitBits * exp).     *)
Bigit == 2 ^ BigitBits
assign(n) == LET size == CHOOSE k \in 1..20 : n < Bigit ^ k /\ (k = 1 \/ n >= Bigit ^ (k - 1))
             IN [bigits |-> [i \in 1..size |-> (n \div Bigit ^ (i - 1)) % Bigit], exp |-> 0]
num_bigits(b) == Len(b.bigits) + b.exp
get_bigit(b, i) == IF i >= b.exp /\ i < num_bigits(b) THEN b.bigits[i - b.exp + 1] ELSE 0
remove_leading_zeros(s) == LET n == Max({1} \cup {i \in DOMAIN s : s[i] # 0}) IN SubSeq(s, 1, n)

(* A pass over the bigits with a carry: step gives <<bigit, carry>>.       *)
Pass(s, step(_, _)) == FoldLeft(LAMBDA acc, x : LET r == step(x, acc[2]) IN <<Append(acc[1], r[1]), r[2]>>, <<<<>>, 0>>, s)
Carried(r) == IF r[2] # 0 THEN Append(r[1], r[2]) ELSE r[1]
(* multiply(uint32_t), for a value of one bigit.                           *)
multiply(b, v) == [b EXCEPT !.bigits = Carried(Pass(@, LAMBDA x, c : LET r == x * v + c IN <<r % Bigit, (r \div Bigit) % Bigit>>))]
(* multiply(uint128_t): a value of four bigits, in two halves.             *)
RECURSIVE push_carry(_, _)
push_carry(s, carry) == IF carry = 0 THEN s ELSE push_carry(Append(s, carry % Bigit), carry \div Bigit)
multiply_wide(b, v) ==
  LET half == Bigit ^ 2
      lower == v % half
      upper == v \div half
      r == Pass(b.bigits, LAMBDA x, c : LET p == lower * x + (c % Bigit)
                                        IN <<p % Bigit, ((upper * x * Bigit) + p \div Bigit + c \div Bigit) % half ^ 2>>)
  IN [b EXCEPT !.bigits = push_carry(r[1], r[2])]
shift_left(b, n) ==
  LET s == n % BigitBits
      c == [b EXCEPT !.exp = @ + n \div BigitBits]
  IN IF s = 0 THEN c
     ELSE [c EXCEPT !.bigits = Carried(Pass(@, LAMBDA x, k : <<((x * 2 ^ s) % Bigit) + k, x \div 2 ^ (BigitBits - s)>>))]
square(b) ==
  LET n == b.bigits
      column(k) == FoldLeft(LAMBDA a, i : a + n[i] * n[k - i + 1], 0,
                     SetToSeq({i \in DOMAIN n : k - i + 1 \in DOMAIN n}))
  IN [bigits |-> remove_leading_zeros(Pass([k \in 1..(2 * Len(n)) |-> column(k)],
                   LAMBDA x, c : <<(x + c) % Bigit, (x + c) \div Bigit>>)[1]), exp |-> 2 * b.exp]
RECURSIVE pow5(_, _, _)
pow5(b, exp, bitmask) ==
  IF bitmask = 0 THEN b
  ELSE LET s == square(b) IN pow5(IF (exp \div bitmask) % 2 = 1 THEN multiply(s, 5) ELSE s, exp, bitmask \div 2)
assign_pow10(exp) ==
  IF exp = 0 THEN assign(1) ELSE shift_left(pow5(assign(5), exp, 2 ^ HighestBit(exp) \div 2), exp)

Order(a, b) == IF a > b THEN 1 ELSE IF a < b THEN -1 ELSE 0
(* The bigits from the top, then the lengths.                              *)
compare(a, b) ==
  LET n == Len(a.bigits) m == Len(b.bigits)
      differ == {k \in 0..(Min({n, m}) - 1) : a.bigits[n - k] # b.bigits[m - k]}
      k == Min(differ)
  IN IF num_bigits(a) # num_bigits(b) THEN Order(num_bigits(a), num_bigits(b))
     ELSE IF differ # {} THEN Order(a.bigits[n - k], b.bigits[m - k]) ELSE Order(n, m)
(* compare(lhs1 + lhs2, rhs), from the top bigit down with what is missing *)
(* so far.                                                                 *)
RECURSIVE add_compare_from(_, _, _, _, _)
add_compare_from(a, b, rhs, i, borrow) ==
  LET sum == get_bigit(a, i) + get_bigit(b, i)
      have == get_bigit(rhs, i) + borrow
  IN IF i < Min({a.exp, b.exp, rhs.exp}) THEN IF borrow # 0 THEN -1 ELSE 0
     ELSE IF sum > have THEN 1
     ELSE IF have - sum > 1 THEN -1
     ELSE add_compare_from(a, b, rhs, i - 1, (have - sum) * Bigit)
add_compare(a, b, rhs) ==
  LET most == Max({num_bigits(a), num_bigits(b)})
  IN IF most + 1 < num_bigits(rhs) THEN -1
     ELSE IF most > num_bigits(rhs) THEN 1
     ELSE add_compare_from(a, b, rhs, num_bigits(rhs) - 1, 0)

align(b, other) == LET d == b.exp - other.exp
                   IN IF d <= 0 THEN b ELSE [bigits |-> Repeat(0, d) \o b.bigits, exp |-> b.exp - d]
subtract_aligned(b, other) ==
  LET at == other.exp - b.exp
      n == Len(other.bigits)
      r == FoldLeft(LAMBDA acc, j : LET v == acc[1][at + j] - (IF j <= n THEN other.bigits[j] ELSE 0) - acc[2]
                                    IN IF j > n /\ acc[2] = 0 THEN acc
                                       ELSE <<[acc[1] EXCEPT ![at + j] = v % Bigit], IF v < 0 THEN 1 ELSE 0>>,
                    <<b.bigits, 0>>, [j \in 1..Min({n + 1, Len(b.bigits) - at}) |-> j])
  IN [b EXCEPT !.bigits = remove_leading_zeros(r[1])]
RECURSIVE divide(_, _, _)
divide(b, divisor, quotient) ==
  LET r == subtract_aligned(b, divisor)
  IN IF compare(r, divisor) >= 0 THEN divide(r, divisor, quotient + 1) ELSE <<quotient + 1, r>>
divmod_assign(b, divisor) == IF compare(b, divisor) < 0 THEN <<0, b>> ELSE divide(align(b, divisor), divisor, 0)

-----------------------------------------------------------------------------
(* format_dragon. The boundaries are numerator - lower and + upper.        *)
dragon_start(v, exp10) ==
  LET shift2 == IF v.closer THEN 2 ELSE 1
      up(b) == IF v.closer THEN shift_left(b, 1) ELSE b
      p == assign_pow10(-exp10)
  IN IF v.e >= 0
     THEN [num |-> shift_left(assign(v.f), v.e + shift2), lower |-> shift_left(assign(1), v.e),
           upper |-> up(shift_left(assign(1), v.e)), den |-> shift_left(assign_pow10(exp10), shift2)]
     ELSE IF exp10 < 0
     THEN [num |-> shift_left(multiply_wide(p, v.f), shift2), lower |-> p, upper |-> up(p),
           den |-> shift_left(assign(1), shift2 - v.e)]
     ELSE [num |-> shift_left(assign(v.f), shift2), lower |-> assign(1), upper |-> up(assign(1)),
           den |-> shift_left(assign_pow10(exp10), shift2 - v.e)]
TimesTen(d) == [d EXCEPT !.num = multiply(@, 10), !.lower = multiply(@, 10), !.upper = multiply(@, 10)]
RoundsUp(num, den, digit) == LET r == add_compare(num, num, den) IN r > 0 \/ (r = 0 /\ digit % 2 # 0)

RECURSIVE dragon_shortest(_, _, _)
dragon_shortest(d, even, out) ==
  LET q == divmod_assign(d.num, d.den)
      low == compare(q[2], d.lower) - even < 0
      high == add_compare(q[2], d.upper, d.den) + even > 0
      up == IF ~low \/ (high /\ RoundsUp(q[2], d.den, q[1])) THEN 1 ELSE 0
  IN IF low \/ high THEN Append(out, q[1] + up)
     ELSE dragon_shortest(TimesTen([d EXCEPT !.num = q[2]]), even, Append(out, q[1]))
RECURSIVE dragon_digits(_, _, _, _)
dragon_digits(num, den, n, out) ==
  LET q == divmod_assign(num, den)
  IN IF n = 1 THEN Append(out, q[1] + (IF RoundsUp(q[2], den, q[1]) THEN 1 ELSE 0))
     ELSE dragon_digits(multiply(q[2], 10), den, n - 1, Append(out, q[1]))
(* The carry of a last digit that became ten.                              *)
RECURSIVE carry_up(_, _)
carry_up(s, i) == IF i = 1 \/ s[i] < 10 THEN s ELSE carry_up([s EXCEPT ![i] = 0, ![i - 1] = @ + 1], i - 1)
RoundedUp(s, fixed) == LET c == carry_up(s, Len(s))
  IN IF c[1] < 10 THEN [d |-> c, up |-> 0]
     ELSE [d |-> [c EXCEPT ![1] = 1] \o (IF fixed THEN <<0>> ELSE <<>>), up |-> IF fixed THEN 0 ELSE 1]
(* The digits of the fraction d, n of them or the shortest.                *)
ShortestDigits(s, exp10) == [d |-> s, exp |-> exp10 - (Len(s) - 1)]
RoundedDigits(r, exp) == [d |-> r.d, exp |-> exp + r.up]
dragon_write(d, exp10, even, n, fixed, precision) ==
  CASE precision < 0 -> ShortestDigits(dragon_shortest(d, even, <<>>), exp10)
    [] precision >= 0 /\ n < 0 -> [d |-> <<0>>, exp |-> exp10 - (n - 1)]
    [] precision >= 0 /\ n = 0 -> [d |-> <<IF add_compare(d.num, d.num, multiply(d.den, 10)) > 0 THEN 1 ELSE 0>>, exp |-> exp10 + 1]
    [] precision >= 0 /\ n > 0 -> RoundedDigits(RoundedUp(dragon_digits(d.num, d.den, n, <<>>), fixed), exp10 - (n - 1))
(* off: the estimated power of ten was too large by one.                   *)
dragon_fixed_up(start, off, exp10, even, fixup, fixed, precision) ==
  dragon_write(IF ~off THEN start ELSE IF precision < 0 THEN TimesTen(start) ELSE [start EXCEPT !.num = multiply(@, 10)],
               exp10, even, IF fixup /\ fixed THEN precision + exp10 + 1 ELSE precision, fixed, precision)
dragon_fixup(start, even, fixup, fixed, precision, approx) ==
  LET off == fixup /\ add_compare(start.num, start.upper, start.den) + even <= 0
  IN dragon_fixed_up(start, off, IF off THEN approx - 1 ELSE approx, even, fixup, fixed, precision)
format_dragon(v, fixup, fixed, precision, approx) ==
  dragon_fixup(dragon_start(v, approx), IF v.f % 2 = 0 THEN 1 ELSE 0, fixup, fixed, precision, approx)

-----------------------------------------------------------------------------
(* Dragonbox: the interval of numbers that round to x, scaled so that its  *)
(* length is between 10^kappa and 10^(kappa + 1), and the multiple of      *)
(* 10^(kappa + 1), or else of 10^kappa, in it.                             *)
kappa == 1
big_divisor == Ten(kappa + 1)
small_divisor == Ten(kappa)
(* floor(log5(2^(SigBits + 2))): -35 and -77 are this for float and double *)
tie_threshold == -(CHOOSE n \in 0..12 : 5 ^ n <= 2 ^ (SigBits + 2) /\ 2 ^ (SigBits + 2) < 5 ^ (n + 1)) - 2 - SigBits
compute_mul(n, e, k) == Scaled(n, e - 1, k)
RECURSIVE remove_trailing_zeros(_, _)
remove_trailing_zeros(n, s) == IF n % 100 = 0 THEN remove_trailing_zeros(n \div 100, s + 2)
                               ELSE IF n % 10 = 0 THEN [n |-> n \div 10, s |-> s + 1] ELSE [n |-> n, s |-> s]
Stripped(n, exp) == LET z == remove_trailing_zeros(n, 0) IN [significand |-> z.n, exponent |-> exp + z.s]
shorter_interval_case(e) ==
  LET minus_k == floor_log10_pow2_minus_log10_4_over_3(e)
      at(n) == Scaled(n, e - 2, -minus_k).floor \* n quarters of a unit
      f4 == 4 * 2 ^ SigBits
      xi == at(f4 - 1) + (IF e \in 2..3 THEN 0 ELSE 1)
      zi == at(f4 + 2)
      y == (Scaled(2 ^ SigBits, e + 1, -minus_k).floor + 1) \div 2
  IN IF (zi \div 10) * 10 >= xi THEN Stripped(zi \div 10, minus_k + 1)
     ELSE [exponent |-> minus_k,
           significand |-> IF e = tie_threshold THEN IF y % 2 = 0 THEN y ELSE y - 1
                           ELSE IF y < xi THEN y + 1 ELSE y]
to_decimal(x) ==
  LET v == assign_fp(x)
      even == v.f % 2 = 0
      minus_k == floor_log10_pow2(v.e) - kappa
      deltai == Scaled(1, v.e, -minus_k).floor
      z == compute_mul(2 * v.f + 1, v.e, -minus_k)
      q == z.floor \div big_divisor
      r == z.floor % big_divisor
      xl == compute_mul(2 * v.f - 1, v.e, -minus_k)
      open == r = 0 /\ z.exact /\ ~even                \* the right endpoint is a multiple, and excluded
      big == \/ r < deltai /\ ~open
             \/ r = deltai /\ (xl.floor % 2 = 1 \/ (xl.exact /\ even))
      r2 == IF r < deltai THEN big_divisor ELSE r
      dist == r2 - deltai \div 2 + small_divisor \div 2
      guess == (IF r < deltai THEN q - 1 ELSE q) * 10 + dist \div small_divisor
      y == compute_mul(2 * v.f, v.e, -minus_k)
      approx_parity == (dist + small_divisor \div 2) % 2
      less == dist % small_divisor = 0 /\ (y.floor % 2 # approx_parity \/ (y.exact /\ guess % 2 # 0))
  IN IF x.b # 0 /\ x.m = 0 THEN shorter_interval_case(v.e)
     ELSE IF v.f = 0 THEN [significand |-> 0, exponent |-> 0]
     ELSE IF big THEN Stripped(q, minus_k + kappa + 1)
     ELSE [significand |-> IF less THEN guess - 1 ELSE guess, exponent |-> minus_k + kappa]

-----------------------------------------------------------------------------
(* format_float: the digits of x, and the exponent of the last one.        *)
StripZeros(r) == LET n == Max({0} \cup {i \in DOMAIN r.d : r.d[i] # 0})
                 IN [d |-> SubSeq(r.d, 1, n), exp |-> r.exp + Len(r.d) - n]
DigitsOf(n, len) == [i \in 1..len |-> (n \div Ten(len - i)) % 10]
(* Constant evaluation, and long double: a power of ten that is too large  *)
(* by at most one.                                                         *)
approx_exp10(v) == LET n == v.e + HighestBit(v.f) IN IF n = 0 THEN 0 ELSE floor_log10_pow2(n) + 1
format_float_slow(v, precision, fixed) == format_dragon(v, TRUE, fixed, precision, approx_exp10(v))

(* The first segment: 2 * Subsegment or one more digits of x, aligned to   *)
(* the larger number; more says whether anything was cut off.              *)
first_segment(v) ==
  LET s == SigBits - HighestBit(v.f)
      k == kappa - floor_log10_pow2(v.e - s)
      r == Scaled(v.f, v.e, k)
      all == 2 * Subsegment + 1
      full == r.floor >= Ten(all - 1)
  IN [n |-> IF full THEN r.floor ELSE r.floor * 10, more |-> ~r.exact, len |-> IF full THEN all ELSE all - 1, exp |-> -k]
InsideUp_ignores_rest(sub, n, rest) == LET w == Ten(Subsegment - n) IN
  2 * (sub % w) > w \/ (2 * (sub % w) = w /\ (sub \div w) % 2 = 1)
(* Rounding inside a subsegment, of which the first n digits are printed.  *)
InsideUp(sub, n, rest) == LET w == Ten(Subsegment - n) IN
  2 * (sub % w) > w \/ (2 * (sub % w) = w /\ ((sub \div w) % 2 = 1 \/ rest))
BoundaryUp(rest, half, odd, more) == rest > half \/ (rest = half /\ (odd \/ more))
(* A segment whose first precision digits are printed, in two subsegments  *)
(* and a last digit.                                                       *)
SegmentDigits(first, second, n) ==
  DigitsOf(first \div Ten(Subsegment - Min({n, Subsegment})), Min({n, Subsegment}))
  \o (IF n <= Subsegment THEN <<>> ELSE DigitsOf(second \div Ten(2 * Subsegment - n), n - Subsegment))
SegmentUp(first, second, third, n, more) ==
  CASE n < Subsegment -> InsideUp(first, n, second # 0 \/ third # 0 \/ more)
    [] n = Subsegment -> BoundaryUp(10 * second + third, Ten(Subsegment + 1) \div 2, first % 2 = 1, more)
    [] n > Subsegment /\ n < 2 * Subsegment -> InsideUp(second, n - Subsegment, third # 0 \/ more)
    [] OTHER -> BoundaryUp(third, 5, second % 2 = 1, more)
write_segment(first, second, third, precision, more, fixed) ==
  RoundedUp([SegmentDigits(first, second, precision) EXCEPT
               ![precision] = @ + (IF SegmentUp(first, second, third, precision, more) THEN 1 ELSE 0)], fixed)
format_segment(v, seg, precision, fixed) ==
  LET half == 5 * Ten(2 * Subsegment)
      rest == seg.n % Ten(Subsegment + 1)
  IN CASE seg.len <= precision -> format_dragon(v, FALSE, fixed, precision, seg.exp + seg.len - 1)
       [] precision < 0 -> [d |-> <<>>, exp |-> seg.exp + seg.len]
       [] precision = 0 -> [d |-> <<IF seg.n > half \/ (seg.n = half /\ seg.more) THEN 1 ELSE 0>>, exp |-> seg.exp + seg.len]
       [] OTHER -> RoundedDigits(write_segment(seg.n \div Ten(Subsegment + 1), rest \div 10, rest % 10, precision, seg.more, fixed),
                                 seg.exp + seg.len - precision)
FromSegment(v, seg, wanted, fixed) == format_segment(v, seg, IF fixed THEN wanted + seg.exp + seg.len ELSE wanted, fixed)
format_float_fast(v, wanted, fixed) == FromSegment(v, first_segment(v), wanted, fixed)
WithoutZeros(r, strip) == IF strip THEN StripZeros(r) ELSE r
format_float(x, precision, specs, fast) ==
  LET fixed == specs.type = "fixed"
  IN IF x.b = 0 /\ x.m = 0
     THEN IF precision <= 0 \/ ~fixed THEN [d |-> <<0>>, exp |-> 0] ELSE [d |-> Repeat(0, precision), exp |-> -precision]
     ELSE WithoutZeros(IF fast THEN format_float_fast(assign_fp(x), precision, fixed) ELSE format_float_slow(assign_fp(x), precision, fixed),
                       ~fixed /\ ~specs.alt)

(* format_hexfloat. xdigits[0] takes what rounding adds.                   *)
num_xdigits == (SigBits + 4) \div 4
format_hexfloat(x, specs) ==
  LET v == assign_fp(x)
      cut == specs.precision >= 0 /\ num_xdigits - 1 > specs.precision
      sh == 2 ^ (4 * (num_xdigits - 1 - specs.precision))
      f == IF cut /\ (v.f \div (sh \div 16)) % 16 >= 8 THEN (v.f \div sh + 1) * sh ELSE v.f
      xdigits == [i \in 1..num_xdigits |-> (f \div 16 ^ (num_xdigits - i)) % 16]
      limit == IF cut THEN specs.precision ELSE num_xdigits - 1
      shown == Max({0} \cup {i \in 1..limit : xdigits[i + 1] # 0})
      e == v.e + SigBits
  IN <<Zero, 120, HexDigit(xdigits[1])>>
     \o (IF specs.alt \/ shown > 0 \/ shown < specs.precision THEN <<46>> ELSE <<>>)
     \o [i \in 1..shown |-> HexDigit(xdigits[i + 1])] \o Repeat(Zero, Pos(specs.precision - shown))
     \o <<112, IF e < 0 THEN 45 ELSE 43>> \o do_format_decimal[IF e < 0 THEN -e ELSE e]

-----------------------------------------------------------------------------
(* From digits d (as code units) with exponent exp to a field.             *)
getsign(s) == CASE s = "minus" -> <<45>> [] s = "plus" -> <<43>> [] s = "space" -> <<32>> [] OTHER -> <<>>
LocaleGrouping == <<1, 2>>  \* numpunct of the locale in use
Grouped(specs, d) == IF specs.loc THEN apply(LocaleGrouping, 39, d) ELSE d
Separators(specs, n) == IF specs.loc THEN count_separators(LocaleGrouping, n) ELSE 0
point(specs) == IF specs.loc THEN 44 ELSE 46
write_exponent(exp) == LET u == IF exp < 0 THEN -exp ELSE exp
                       IN <<IF exp < 0 THEN 45 ELSE 43>> \o (IF u < 10 THEN <<Zero>> ELSE <<>>) \o do_format_decimal[u]
compute_exp_size(exp) == LET u == IF exp < 0 THEN -exp ELSE exp IN 2 + (IF u < 100 THEN 2 ELSE IF u >= 1000 THEN 4 ELSE 3)
use_fixed(exp, upper) == exp >= -4 /\ exp < upper

write_fixed(d, exponent, specs, s) ==
  LET size == Len(d) + Len(getsign(s))
      exp == exponent + Len(d)
      zeros1 == specs.precision - exp
      pad1 == IF zeros1 > 0 THEN zeros1 ELSE 0
      pad2 == IF specs.alt THEN Pos(specs.precision - Len(d)) ELSE 0
      zeros3 == IF d = <<>> /\ specs.precision >= 0 /\ specs.precision < -exp THEN specs.precision ELSE -exp
      pointy == zeros3 # 0 \/ d # <<>> \/ specs.alt
  IN IF exponent >= 0
     THEN write_padded(specs, size + exponent + (IF specs.alt THEN 1 + pad1 ELSE 0) + Separators(specs, exp),
            getsign(s) \o Grouped(specs, d \o Repeat(Zero, exponent))
            \o (IF specs.alt THEN <<point(specs)>> \o Repeat(Zero, pad1) ELSE <<>>), "right")
     ELSE IF exp > 0
     THEN write_padded(specs, size + 1 + pad2 + Separators(specs, exp),
            getsign(s) \o Grouped(specs, SubSeq(d, 1, exp)) \o <<point(specs)>> \o SubSeq(d, exp + 1, Len(d))
            \o Repeat(Zero, pad2), "right")
     ELSE write_padded(specs, size + 1 + (IF pointy THEN 1 ELSE 0) + zeros3,
            getsign(s) \o <<Zero>> \o (IF pointy THEN <<point(specs)>> \o Repeat(Zero, zeros3) \o d ELSE <<>>), "right")
do_write_float(d, exponent, specs, s) ==
  LET exp == exponent + Len(d) - 1
      zeros == IF specs.alt THEN Pos(specs.precision - Len(d)) ELSE 0
      pt == IF ~specs.alt /\ Len(d) = 1 THEN <<>> ELSE <<point(specs)>>
  IN IF \/ specs.type = "fixed"
        \/ specs.type # "exp" /\ use_fixed(exp, IF specs.precision > 0 THEN specs.precision ELSE ExpUpper)
     THEN write_fixed(d, exponent, specs, s)
     ELSE write_padded(specs, Len(d) + Len(getsign(s)) + zeros + Len(pt) + compute_exp_size(exp),
            getsign(s) \o <<d[1]>> \o pt \o Tail(d) \o Repeat(Zero, zeros) \o <<101>> \o write_exponent(exp), "right")
write_nonfinite(kind, specs, s) ==
  LET sp == IF specs.fill = <<Zero>> THEN [specs EXCEPT !.fill = <<32>>] ELSE specs
  IN write_padded(sp, 3 + Len(getsign(s)), getsign(s) \o (IF kind = "nan" THEN <<110, 97, 110>> ELSE <<105, 110, 102>>), "left")

Codes(d) == [i \in DOMAIN d |-> Zero + d[i]]
write_shortest(dec, specs, s) == do_write_float(do_format_decimal[dec.significand], dec.exponent, specs, s)
write_digits(r, specs, s) == do_write_float(Codes(r.d), r.exp, specs, s)
write_hexfloat(t, specs) == write_padded(specs, Len(t), t, "right")
Precise(x, specs, s, fast) == write_digits(format_float(x, specs.precision, specs, fast), specs, s)
Adjusted(specs, p) ==
  [specs EXCEPT !.alt = @ \/ (specs.type \in {"exp", "fixed"} /\ specs.precision # 0),
                !.precision = CASE specs.type = "exp" -> p + 1 [] specs.type \in {"none", "general"} /\ p = 0 -> 1 [] OTHER -> p]
write_signed(x, specs, s, fast) ==
  IF specs.type = "none" /\ specs.precision < 0 /\ fast THEN write_shortest(to_decimal(x), specs, s)
  ELSE IF specs.type = "hexfloat" THEN write_hexfloat(getsign(s) \o format_hexfloat(x, specs), specs)
  ELSE Precise(x, Adjusted(specs, IF specs.precision < 0 /\ specs.type # "none" THEN 6 ELSE specs.precision), s, fast)
(* write(T, format_specs): numeric alignment writes the sign first.        *)
write_float_specs(x, specs, fast) ==
  LET s == IF x.neg THEN "minus" ELSE specs.sign
      early == specs.align = "numeric" /\ s # "none"
  IN IF x.kind # "finite" THEN write_nonfinite(x.kind, specs, s)
     ELSE (IF early THEN getsign(s) ELSE <<>>)
          \o write_signed(x, IF early /\ specs.width # 0 THEN [specs EXCEPT !.width = @ - 1] ELSE specs,
                          IF early THEN "none" ELSE s, fast)
(* write(T): "{}".                                                         *)
NoFloatSpecs == [type |-> "none", align |-> "none", sign |-> "none", alt |-> FALSE, loc |-> FALSE,
                 fill |-> <<32>>, width |-> 0, precision |-> -1]
write_float(x) ==
  LET dec == to_decimal(x)
      d == do_format_decimal[dec.significand]
      exponent == dec.exponent + Len(d) - 1
      s == IF x.neg THEN "minus" ELSE "none"
  IN IF x.kind # "finite" THEN write_nonfinite(x.kind, NoFloatSpecs, s)
     ELSE IF use_fixed(exponent, ExpUpper) THEN write_fixed(d, dec.exponent, NoFloatSpecs, s)
     ELSE getsign(s) \o <<d[1]>> \o (IF Len(d) = 1 THEN <<>> ELSE <<46>> \o Tail(d)) \o <<101>> \o write_exponent(exponent)

-----------------------------------------------------------------------------
(* What the text of a number should be, in exact arithmetic.               *)
HalfEven(num, den) == LET q == num \div den r == 2 * (num % den)
                      IN IF r > den \/ (r = den /\ q % 2 = 1) THEN q + 1 ELSE q
Rounded(v, p) == HalfEven(v.f * 2 ^ Pos(v.e) * Ten(Pos(p)), 2 ^ Pos(-v.e) * Ten(Pos(-p)))
(* The number is at least 10^k.                                            *)
AtLeast(v, k) == v.f * 2 ^ Pos(v.e) * Ten(Pos(-k)) >= 2 ^ Pos(-v.e) * Ten(Pos(k))
Magnitude(v) == IF v.f = 0 THEN 0 ELSE Max({k \in (IF AtLeast(v, 0) THEN 0..4 ELSE -6..-1) : AtLeast(v, k)})
(* n significant digits: [d, x] with x the exponent of the first.          *)
SignificantAt(N, n, X) == IF N = Ten(n) THEN [d |-> DigitsOf(Ten(n - 1), n), x |-> X + 1] ELSE [d |-> DigitsOf(N, n), x |-> X]
SignificantFrom(v, n, X) == SignificantAt(Rounded(v, n - 1 - X), n, X)
Significant(v, n) == IF v.f = 0 THEN [d |-> Repeat(0, n), x |-> 0] ELSE SignificantFrom(v, n, Magnitude(v))
(* The shortest decimal that still denotes x, the nearest one of them.     *)
Candidates(v, k) ==
  LET M == Pos(-v.e) N == Pos(-k)
      val == 4 * v.f * 2 ^ (v.e + M) * Ten(N)
      ulp == 2 ^ (v.e + M) * Ten(N)
      q == Scaled(v.f, v.e, -k).floor
      at(d) == 4 * d * Ten(k + N) * 2 ^ M
      dist(d) == IF at(d) > val THEN at(d) - val ELSE val - at(d)
      in(d) == LET room == IF at(d) < val /\ v.closer THEN ulp ELSE 2 * ulp
               IN dist(d) < room \/ (dist(d) = room /\ v.f % 2 = 0)
      ok == {d \in {q, q + 1} : d > 0 /\ in(d)}
  IN {d \in ok : \A c \in ok : dist(d) < dist(c) \/ c = d \/ (dist(d) = dist(c) /\ d % 2 = 0)}
RECURSIVE ShortestFrom(_, _)
ShortestOr(v, k, c) == IF c = {} THEN ShortestFrom(v, k - 1) ELSE [n |-> CHOOSE d \in c : TRUE, k |-> k]
ShortestFrom(v, k) == ShortestOr(v, k, Candidates(v, k))
ShortestOf(v) == ShortestFrom(v, Magnitude(v) + 1)

Cut(d) == SubSeq(d, 1, Max({1} \cup {i \in DOMAIN d : d[i] # 0}))
PlainText(d, x, specs) ==  \* the digits d in fixed notation, the first one of exponent x
  LET whole == IF x < 0 THEN <<0>> ELSE SubSeq(d, 1, Min({x + 1, Len(d)})) \o Repeat(0, Pos(x + 1 - Len(d)))
      frac == IF x < 0 THEN Repeat(0, -x - 1) \o d ELSE SubSeq(d, x + 2, Len(d))
      group(w) == IF ~specs.loc THEN w ELSE FlattenSeq([i \in DOMAIN w |->
                    (IF Len(w) - i + 1 \in Boundaries(LocaleGrouping, Len(w)) THEN <<39>> ELSE <<>>) \o <<w[i]>>])
  IN group(Codes(whole)) \o (IF frac # <<>> \/ specs.alt THEN <<point(specs)>> ELSE <<>>) \o Codes(frac)
ExpText(d, x, specs) == Codes(<<d[1]>>) \o (IF Len(d) > 1 \/ specs.alt THEN <<point(specs)>> ELSE <<>>) \o Codes(Tail(d))
                        \o <<101>> \o write_exponent(x)
InNotation(fixed, d, x, specs) == IF fixed THEN PlainText(d, x, specs) ELSE ExpText(d, x, specs)
FixedText(N, p, specs) ==
  LET len == Max({p + 1, count_digits_fallback[N]}) IN PlainText(DigitsOf(N, len), len - p - 1, specs)
SignificantText(g, upper, specs) ==
  InNotation(specs.type # "exp" /\ use_fixed(g.x, upper), IF specs.type = "exp" \/ specs.alt THEN g.d ELSE Cut(g.d), g.x, specs)
ShortestText(d, x, specs) == InNotation(use_fixed(x, ExpUpper), Cut(d), x, specs)
ShortestDecimal(d, k, specs) == ShortestText(d, k + Len(d) - 1, specs)
ShortText(sh, specs) == ShortestDecimal(DigitsOf(sh.n, count_digits_fallback[sh.n]), sh.k, specs)
Expected(v, p, specs) ==
  IF specs.type = "fixed" THEN FixedText(Rounded(v, p), p, specs)
  ELSE IF specs.type = "none" /\ specs.precision < 0
  THEN ShortText(IF v.f = 0 THEN [n |-> 0, k |-> 0] ELSE ShortestOf(v), specs)
  ELSE SignificantText(Significant(v, IF specs.type = "exp" THEN p + 1 ELSE Max({p, 1})), Max({p, 1}), specs)
ExpectedText(x, specs) == Expected(assign_fp(x), IF specs.precision < 0 THEN 6 ELSE specs.precision, specs)
(* A hexadecimal text denotes the number, or one half a unit of its last   *)
(* digit away.                                                             *)
HexValue(digits) == FoldLeft(LAMBDA a, c : a * 16 + (IF c < 58 THEN c - 48 ELSE c - 87), 0, digits)
HalfUnit(diff, unit, exact) == IF exact THEN diff = 0 ELSE 2 * diff <= unit /\ -2 * diff <= unit
HexDenotes(v, digits, lastexp, specs) ==
  LET low == Min({v.e, lastexp})
  IN /\ specs.precision >= 0 => Len(digits) = specs.precision + 1
     /\ HalfUnit(HexValue(digits) * 2 ^ (lastexp - low) - v.f * 2 ^ (v.e - low), 2 ^ (lastexp - low), specs.precision < 0)
HexScaled(v, digits, E, specs) == HexDenotes(v, digits, E - 4 * (Len(digits) - 1), specs)
HexText(v, t, p, specs) ==
  HexScaled(v, SelectSeq(SubSeq(t, 3, p - 1), LAMBDA c : c # 46),
            FoldLeft(LAMBDA a, c : a * 10 + c - Zero, 0, SubSeq(t, p + 2, Len(t))) * (IF t[p + 1] = 45 THEN -1 ELSE 1), specs)
HexNear(v, t, specs) == HexText(v, t, CHOOSE i \in DOMAIN t : t[i] = 112, specs)

NumberField(out, sign, text, specs) ==
  IF specs.align = "numeric" /\ sign # <<>> THEN out = sign \o fill(Pos(specs.width - 1 - Len(text)), specs) \o text
  ELSE Field(out, sign \o text, Len(sign) + Len(text), specs, "right")
(* Whatever path is taken to the digits, a field shows the number rounded  *)
(* half to even as the precision asks, or the shortest decimal that reads  *)
(* back as the same number, laid out as the presentation type says; signs, *)
(* separators and fill make up exactly the width.                          *)
FloatWellWritten(x, specs, fast) ==
  IF specs.type = "hexfloat" THEN HexNear(assign_fp(x), format_hexfloat(x, specs), specs)
  ELSE NumberField(write_float_specs(x, specs, fast), getsign(IF x.neg THEN "minus" ELSE specs.sign), ExpectedText(x, specs), specs)
ShortWellWritten(x) == write_float(x) = getsign(IF x.neg THEN "minus" ELSE "none") \o ExpectedText(x, NoFloatSpecs)
=============================================================================
