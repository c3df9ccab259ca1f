------------------------------ MODULE FmtWrite ------------------------------
(***************************************************************************)
(* Writing an argument with its format specifications: integers, strings,  *)
(* characters and pointers of the bundled fmt library (format.h). A text   *)
(* is the sequence of its code units, as numbers. The specifications are   *)
(* a record:                                                               *)
(*   type   "dec" "hex" "oct" "bin" "chr" "string" "debug" "pointer"       *)
(*   align  "none" "left" "right" "center" "numeric"                       *)
(*   sign   "none" "plus" "space"      alt, loc  the flags # and L         *)
(*   fill   the fill's code units      width, precision (-1: none)         *)
(* The letters of upper-case presentations are left out, and is_printable  *)
(* is the constant set of what its tables hold.                            *)
(***************************************************************************)
EXTENDS Integers, Sequences, FiniteSetsExt, SequencesExt, Functions
CONSTANTS Bits,        \* the width of an integer argument
          Unprintable  \* the code points the tables of is_printable leave out

Zero == 48
HexDigit(d) == IF d < 10 THEN Zero + d ELSE 87 + d
Repeat(x, n) == [i \in 1..n |-> x]
InvalidCp == 2147483647

-----------------------------------------------------------------------------
(* The number of decimal digits, by groups of four and by two tables that  *)
(* are indexed with the position of the highest bit.                       *)
count_digits_fallback[n \in Nat] ==
  CASE n < 10 -> 1 [] 10 <= n /\ n < 100 -> 2 [] 100 <= n /\ n < 1000 -> 3 [] 1000 <= n /\ n < 10000 -> 4
    [] OTHER -> 4 + count_digits_fallback[n \div 10000]
HighestBit(n) == CHOOSE b \in 0..30 : 2 ^ b <= Max({n, 1}) /\ (b = 30 \/ Max({n, 1}) < 2 ^ (b + 1))
bsr2log10 == <<1, 1, 1, 2, 2, 2, 3, 3, 3, 4, 4, 4, 4, 5, 5, 5, 6, 6, 6, 7, 7, 7, 7, 8, 8, 8, 9, 9, 9, 10, 10>>
do_count_digits64(n) == LET t == bsr2log10[HighestBit(n) + 1]
                        IN t - (IF t > 1 /\ n < 10 ^ (t - 1) THEN 1 ELSE 0)
inc_table(b) == IF b < 3 THEN 0 ELSE 10 ^ Min({b \div 3, 9})
inc_length(T) == IF T = 0 THEN 1 ELSE CHOOSE k \in 1..10 : T = 10 ^ (k - 1)
do_count_digits32(n) == LET T == inc_table(HighestBit(n)) IN inc_length(T) - (IF n < T THEN 1 ELSE 0)
count_digits_base2e[bits \in 1..4, n \in Nat] == IF n < 2 ^ bits THEN 1 ELSE 1 + count_digits_base2e[bits, n \div 2 ^ bits]

(* Digits, from the end of a buffer: two at a time in base ten.            *)
write2digits(v) == <<Zero + v \div 10, Zero + (v % 10)>>
do_format_decimal[v \in Nat] ==
  IF v >= 100 THEN do_format_decimal[v \div 100] \o write2digits(v % 100)
  ELSE IF v >= 10 THEN write2digits(v) ELSE <<Zero + v>>
do_format_base2e[bits \in 1..4, v \in Nat] ==
  (IF v >= 2 ^ bits THEN do_format_base2e[bits, v \div 2 ^ bits] ELSE <<>>) \o <<HexDigit(v % 2 ^ bits)>>

-----------------------------------------------------------------------------
(* write_padded: f's output of the given display width, padded to the      *)
(* specified one. The shifts are "\x1f\x1f\0\1" or "\0\x1f\0\1", indexed   *)
(* by the alignment; numeric alignment reads the terminating zero.         *)
shift(default, align) == CASE align = "none" -> IF default = "left" THEN 31 ELSE 0
                           [] align = "left" -> 31
                           [] align = "center" -> 1
                           [] align \in {"right", "numeric"} -> 0
fill(n, specs) == [i \in 1..(n * Len(specs.fill)) |-> specs.fill[1 + ((i - 1) % Len(specs.fill))]]
Surrounded(specs, left, right, f) == fill(left, specs) \o f \o fill(right, specs)
PaddedBy(specs, padding, left, f) == Surrounded(specs, left, padding - left, f)
Padding(specs, padding, f, default) ==
  PaddedBy(specs, padding, IF shift(default, specs.align) > 20 THEN 0 ELSE padding \div 2 ^ shift(default, specs.align), f)
write_padded(specs, width, f, default) == Padding(specs, IF specs.width > width THEN specs.width - width ELSE 0, f, default)

(* make_write_int_arg: the magnitude as an unsigned number of the same     *)
(* width, and the prefix. prefix_append puts at most one sign before it.   *)
Unsigned(v) == v % 2 ^ Bits
make_write_int_arg(v, sign) ==
  IF v < 0 THEN [abs |-> (2 ^ Bits - Unsigned(v)) % 2 ^ Bits, prefix |-> <<45>>]
  ELSE [abs |-> v, prefix |-> CASE sign = "plus" -> <<43>> [] sign = "space" -> <<32>> [] OTHER -> <<>>]
prefix_append(prefix, value) == prefix \o value

IntDigits(specs, v) == CASE specs.type = "hex" -> do_format_base2e[4, v] [] specs.type = "oct" -> do_format_base2e[3, v]
                         [] specs.type = "bin" -> do_format_base2e[1, v] [] OTHER -> do_format_decimal[v]
IntPrefix(specs, arg, n) ==
  CASE specs.type = "hex" /\ specs.alt -> prefix_append(arg.prefix, <<Zero, 120>>)
    [] specs.type = "bin" /\ specs.alt -> prefix_append(arg.prefix, <<Zero, 98>>)
    [] specs.type = "oct" /\ specs.alt /\ specs.precision <= n /\ arg.abs # 0 -> prefix_append(arg.prefix, <<Zero>>)
    [] OTHER -> arg.prefix

size_padding_with_sign(n, prefix, specs) ==
  IF specs.align = "numeric" THEN Max({0, specs.width - n})
  ELSE IF specs.precision > n THEN specs.precision - n ELSE 0
size_padding(n, prefix, specs) ==
  IF specs.align = "numeric" THEN Max({0, specs.width - Len(prefix) - n})
  ELSE IF specs.precision > n THEN specs.precision - n ELSE 0

write_char(c, specs) == write_padded(specs, 1, <<c>>, "left")
write_body(body, specs) == write_padded(specs, Len(body), body, "right")
write_prefixed(prefix, d, specs) ==
  IF specs.width = 0 /\ specs.precision = -1 THEN prefix \o d
  ELSE write_body(prefix \o Repeat(Zero, size_padding(Len(d), prefix, specs)) \o d, specs)
write_digits_of(arg, d, specs) == write_prefixed(IntPrefix(specs, arg, Len(d)), d, specs)
write_int(arg, specs) ==
  IF specs.type = "chr" THEN write_char(arg.abs, specs) ELSE write_digits_of(arg, IntDigits(specs, arg.abs), specs)

(* digit_grouping: where the separators of n digits go, counted from the   *)
(* right. The last group repeats; 0 and CHAR_MAX end the grouping.         *)
NoMore == 2147483647
next(grouping, state) ==
  IF state.group > Len(grouping) THEN [state EXCEPT !.pos = @ + grouping[Len(grouping)]]
  ELSE IF grouping[state.group] \in {0, 127} THEN [state EXCEPT !.pos = NoMore]
  ELSE [group |-> state.group + 1, pos |-> state.pos + grouping[state.group]]
RECURSIVE separators(_, _, _)
separators(grouping, state, n) ==
  LET s == next(grouping, state) IN IF s.pos >= n THEN {} ELSE {s.pos} \cup separators(grouping, s, n)
apply(grouping, sep, d) ==
  LET seps == separators(grouping, [group |-> 1, pos |-> 0], Len(d))
  IN FlattenSeq([i \in 1..Len(d) |-> (IF Len(d) - i + 1 \in seps THEN <<sep>> ELSE <<>>) \o <<d[i]>>])
count_separators(grouping, n) == Cardinality(separators(grouping, [group |-> 1, pos |-> 0], n))
write_int_grouped(arg, specs, grouping, sep) ==
  LET d == IntDigits(specs, arg.abs)
      prefix == IntPrefix(specs, arg, Len(d))
  IN IF specs.type = "chr" THEN write_char(arg.abs, specs)
     ELSE write_padded(specs, Len(prefix) + Len(d) + count_separators(grouping, Len(d)),
                       prefix \o apply(grouping, sep, d), "right")
write_ptr(v, specs) ==
  write_padded(specs, count_digits_base2e[4, v] + 2, <<Zero, 120>> \o do_format_base2e[4, v], "right")

-----------------------------------------------------------------------------
(* utf8_decode reads four bytes, whatever the length; what is past the end *)
(* of the string is zero.                                                  *)
Byte(s, i) == IF i <= Len(s) THEN s[i] ELSE 0
lead_length(b) == CASE b < 128 -> 1 [] b \in 128..191 -> 0 [] b \in 192..223 -> 2 [] b \in 224..239 -> 3
                    [] b \in 240..247 -> 4 [] OTHER -> 0
DecodedAs(c, bad, len) ==
  LET error == \/ bad
               \/ c < <<4194304, 0, 128, 2048, 65536>>[len + 1]  \* non-canonical
               \/ c \div 2 ^ 11 = 27                              \* a surrogate half
               \/ c > 1114111
  IN [cp |-> IF error THEN InvalidCp ELSE c, len |-> IF error THEN 1 ELSE len]
DecodeLength(s, p, len) ==
  LET mask == <<0, 128, 32, 16, 8>>[len + 1]
  IN DecodedAs(((IF mask = 0 THEN 0 ELSE Byte(s, p) % mask) * 2 ^ 18 + (Byte(s, p + 1) % 64) * 2 ^ 12
                + (Byte(s, p + 2) % 64) * 2 ^ 6 + (Byte(s, p + 3) % 64)) \div 2 ^ <<0, 18, 12, 6, 0>>[len + 1],
               \E i \in 2..len : Byte(s, p + i - 1) \div 64 # 2, len)
utf8_decode(s, p) == DecodeLength(s, p, lead_length(Byte(s, p)))
RECURSIVE codepoints(_, _)
CodepointAt(s, p, d) == <<[cp |-> d.cp, sv |-> SubSeq(s, p, Min({p + d.len - 1, Len(s)}))]>> \o codepoints(s, p + d.len)
codepoints(s, p) == IF p > Len(s) THEN <<>> ELSE CodepointAt(s, p, utf8_decode(s, p))
for_each_codepoint(s) == codepoints(s, 1)

(* Wide text: to UTF-16 code units, and back from WChars of 16 or 32 bits; *)
(* a surrogate without its partner ends the conversion or is replaced.     *)
utf8_to_utf16(s) ==
  LET cs == for_each_codepoint(s)
      units(cp) == IF cp <= 65535 THEN <<cp>> ELSE <<55296 + (cp - 65536) \div 1024, 56320 + ((cp - 65536) % 1024)>>
  IN [ok |-> \A i \in DOMAIN cs : cs[i].cp # InvalidCp, text |-> FlattenSeq([i \in DOMAIN cs |-> units(cs[i].cp)])]
Utf8(c) ==
  CASE c < 128 -> <<c>>
    [] c \in 128..2047 -> <<192 + c \div 64, 128 + (c % 64)>>
    [] c \in 2048..55295 \cup 57344..65535 -> <<224 + c \div 4096, 128 + ((c % 4096) \div 64), 128 + (c % 64)>>
    [] c \in 65536..1114111 -> <<240 + c \div 262144, 128 + ((c % 262144) \div 4096), 128 + ((c % 4096) \div 64), 128 + (c % 64)>>
    [] OTHER -> <<>>
RECURSIVE to_utf8(_, _, _, _)
to_utf8(s, p, bits, replace) ==
  LET surrogate == bits = 16 /\ s[p] \in 55296..57343
      pair == p < Len(s) /\ s[p] \div 1024 = 54 /\ s[p + 1] \div 1024 = 55
      lone == surrogate /\ ~pair
      unit == IF lone THEN <<239, 191, 189>> ELSE Utf8(IF surrogate THEN s[p] * 1024 + s[p + 1] - 56613888 ELSE s[p])
      rest == to_utf8(s, IF surrogate /\ pair THEN p + 2 ELSE p + 1, bits, replace)
  IN IF p > Len(s) THEN [ok |-> TRUE, text |-> <<>>]
     ELSE IF (lone /\ ~replace) \/ unit = <<>> THEN [ok |-> FALSE, text |-> <<>>]
     ELSE [rest EXCEPT !.text = unit \o @]

Between(cp, a, b) == a <= cp /\ cp <= b
display_width_of(cp) ==
  IF \/ Between(cp, 4352, 4447) \/ cp \in {9001, 9002} \/ (Between(cp, 11904, 42191) /\ cp # 12351)
     \/ Between(cp, 44032, 55203) \/ Between(cp, 63744, 64255) \/ Between(cp, 65040, 65049)
     \/ Between(cp, 65072, 65135) \/ Between(cp, 65280, 65376) \/ Between(cp, 65504, 65510)
     \/ Between(cp, 131072, 196605) \/ Between(cp, 196608, 262141) \/ Between(cp, 127744, 128591)
     \/ Between(cp, 129280, 129535)
  THEN 2 ELSE 1

needs_escape(cp) == cp < 32 \/ cp \in {127, 34, 92} \/ cp \in Unprintable \/ cp = InvalidCp
HexField(cp, width) == LET d == do_format_base2e[4, cp] IN Repeat(Zero, width - Len(d)) \o d
write_codepoint(prefix, cp, width) == <<92, prefix>> \o HexField(cp, width)
write_escaped_cp(x) ==
  CASE x.cp = 10 -> <<92, 110>> [] x.cp = 13 -> <<92, 114>> [] x.cp = 9 -> <<92, 116>>
    [] x.cp \in {34, 39, 92} -> <<92, x.cp>>
    [] OTHER -> IF x.cp < 256 THEN write_codepoint(120, x.cp, 2)
                ELSE IF x.cp < 65536 THEN write_codepoint(117, x.cp, 4)
                ELSE IF x.cp < 1114112 THEN write_codepoint(85, x.cp, 8)
                ELSE FlattenSeq([i \in DOMAIN x.sv |-> write_codepoint(120, x.sv[i], 2)])
EscapeAll(cs) == <<34>> \o FlattenSeq([i \in DOMAIN cs |-> IF needs_escape(cs[i].cp) THEN write_escaped_cp(cs[i]) ELSE cs[i].sv]) \o <<34>>
write_escaped_string(s) == EscapeAll(for_each_codepoint(s))
write_escaped_char(c) ==
  <<39>> \o (IF (needs_escape(c) /\ c # 34) \/ c = 39 THEN write_escaped_cp([cp |-> c, sv |-> <<c>>]) ELSE <<c>>) \o <<39>>

(* write(string_view): how many code units, of which display width, fit    *)
(* into the precision; the escaped text is cut off at that size.           *)
CloseQuote(m, last, limit) == IF last /\ m.width < limit THEN [m EXCEPT !.width = @ + 1, !.size = @ + 1] ELSE m
Take(m, width, size, last, limit) == CloseQuote([m EXCEPT !.width = @ + width, !.size = @ + size], last, limit)
Measured(m, width, size, escaped, last, limit) ==
  CASE m.width + width <= limit -> Take(m, width, size, last, limit)
    [] m.width + width > limit /\ escaped -> [size |-> m.size + limit - m.width, width |-> limit, go |-> FALSE]
    [] OTHER -> [m EXCEPT !.go = FALSE]
EscapedBy(m, n, last, limit) == Measured(m, n, n, TRUE, last, limit)
Measure(m, x, last, debug, limit) ==
  CASE ~m.go -> m
    [] m.go /\ debug /\ needs_escape(x.cp) -> EscapedBy(m, Len(write_escaped_cp(x)), last, limit)
    [] OTHER -> Measured(m, display_width_of(x.cp), Len(x.sv), FALSE, debug /\ last, limit)
RECURSIVE MeasureFrom(_, _, _, _, _)
MeasureFrom(m, cs, i, debug, limit) ==
  IF i > Len(cs) THEN m ELSE MeasureFrom(Measure(m, cs[i], i = Len(cs), debug, limit), cs, i + 1, debug, limit)
write_measured(m, text, specs) == write_padded(specs, m.width, SubSeq(text, 1, Min({m.size, Len(text)})), "left")
write_text(text, cs, specs) ==
  LET debug == specs.type = "debug"
      limit == IF specs.precision < 0 THEN 1000 ELSE specs.precision
      q == IF ~debug \/ specs.precision = 0 THEN 0 ELSE 1
  IN IF specs.precision < 0 /\ specs.width = 0 THEN text
     ELSE write_measured(MeasureFrom([size |-> q, width |-> q, go |-> TRUE], cs, 1, debug, limit), text, specs)
write_decoded(s, cs, specs) == write_text(IF specs.type = "debug" THEN EscapeAll(cs) ELSE s, cs, specs)
write_string(s, specs) == write_decoded(s, for_each_codepoint(s), specs)

-----------------------------------------------------------------------------
(* What the fields should look like. A field is the content, and fill on   *)
(* the side the alignment leaves open until the width is reached.          *)
Field(out, content, width, specs, default) ==
  LET n == Max({0, specs.width - width})
      side == IF specs.align = "none" THEN default ELSE specs.align
      l == CASE side = "left" -> 0 [] side = "center" -> n \div 2 [] OTHER -> n
  IN out = fill(l, specs) \o content \o fill(n - l, specs)
Base(specs) == CASE specs.type = "hex" -> 16 [] specs.type = "oct" -> 8 [] specs.type = "bin" -> 2 [] OTHER -> 10
Value(d, base) == FoldLeft(LAMBDA acc, c : acc * base + (IF c < 58 THEN c - 48 ELSE c - 87), 0, d)
Sign(v, specs) == CASE v < 0 -> <<45>> [] v >= 0 /\ specs.sign = "plus" -> <<43>> [] v >= 0 /\ specs.sign = "space" -> <<32>> [] OTHER -> <<>>
Radix(specs) == CASE specs.alt /\ specs.type = "hex" -> <<48, 120>> [] specs.alt /\ specs.type = "bin" -> <<48, 98>> [] OTHER -> <<>>
(* The digits a reader of the number v expects: no more than are needed,   *)
(* one zero more for an octal number with #, at least the precision, and   *)
(* with numeric alignment enough to fill the width.                        *)
DigitCount(v, specs) ==
  LET needed == CHOOSE k \in 1..20 : Base(specs) ^ (k - 1) <= Max({v, 1}) /\ v < Base(specs) ^ k
      octal == IF specs.type = "oct" /\ specs.alt /\ v # 0 THEN needed + 1 ELSE needed
  IN IF specs.align = "numeric" THEN octal ELSE Max({octal, specs.precision})
IntWellWritten(v, specs) ==
  LET abs == IF v < 0 THEN -v ELSE v
      sign == Sign(v, specs) \o Radix(specs)
      n == IF specs.align = "numeric" THEN Max({DigitCount(abs, specs), specs.width - Len(sign)}) ELSE DigitCount(abs, specs)
      out == write_int(make_write_int_arg(v, specs.sign), specs)
  IN \E i \in 0..(Len(out) - n) : LET d == SubSeq(out, i + 1, i + n)
        IN /\ \A k \in 1..n : d[k] \in 48..57 \/ d[k] \in 97..102
           /\ Value(d, Base(specs)) = abs
           /\ Field(out, sign \o d, Len(sign) + n, specs, "right")

(* Grouped numbers: the digits of the number with a separator wherever the *)
(* groups say, and the width counted with the separators. (With numeric    *)
(* alignment the zeros go before the sign: nothing is claimed for it.)     *)
Boundaries(grouping, n) == {b \in 1..(n - 1) : \E k \in 1..n :
  b = FoldLeft(LAMBDA a, i : a + grouping[Min({i, Len(grouping)})], 0, [i \in 1..k |-> i])
  /\ \A i \in 1..k : grouping[Min({i, Len(grouping)})] \notin {0, 127}}
GroupsWellWritten(v, specs, grouping) ==
  LET arg == make_write_int_arg(v, specs.sign)
      plain == write_int(arg, [specs EXCEPT !.width = 0, !.precision = -1])
      n == Len(IntDigits(specs, arg.abs))
      B == Boundaries(grouping, n)
      out == write_int_grouped(arg, specs, grouping, 44)
      content == FlattenSeq([i \in DOMAIN plain |-> (IF Len(plain) - i + 1 \in B THEN <<44>> ELSE <<>>) \o <<plain[i]>>])
  IN Field(out, content, Len(content), specs, "right")

(* A string field shows the longest beginning of the (escaped) string that *)
(* fits into the precision, counted in columns: wide characters are never  *)
(* split, and a closing quote is shown whenever there is room for it.      *)
(* (Not so for an empty string with ? and a width or precision: the quote is*)
(* accounted for after the last character only, and is missing.)           *)
Pieces(s, debug) ==
  LET cs == for_each_codepoint(s)
      piece(x) == IF debug /\ needs_escape(x.cp) THEN LET t == write_escaped_cp(x) IN [k \in DOMAIN t |-> [units |-> <<t[k]>>, width |-> 1]]
                  ELSE <<[units |-> x.sv, width |-> display_width_of(x.cp)]>>
      quote == IF debug THEN <<[units |-> <<34>>, width |-> 1]>> ELSE <<>>
  IN quote \o FlattenSeq([i \in DOMAIN cs |-> piece(cs[i])]) \o quote
Columns(ps) == FoldLeft(LAMBDA a, x : a + x.width, 0, ps)
StringWellWritten(s, specs) ==
  LET ps == Pieces(s, specs.type = "debug")
      limit == IF specs.precision < 0 THEN 1000 ELSE specs.precision
      k == Max({j \in 0..Len(ps) : Columns(SubSeq(ps, 1, j)) <= limit})
      shown == SubSeq(ps, 1, k)
      content == FlattenSeq([i \in DOMAIN shown |-> shown[i].units])
  IN (specs.type = "debug" /\ s = <<>> /\ (specs.width # 0 \/ specs.precision >= 0)) \/ Field(write_string(s, specs), content, Columns(shown), specs, "left")

(* utf8_decode against the definition of well-formed UTF-8.                *)
Encode(cp) ==
  CASE cp < 128 -> <<cp>>
    [] cp \in 128..2047 -> <<192 + cp \div 64, 128 + (cp % 64)>>
    [] cp \in 2048..65535 -> <<224 + cp \div 4096, 128 + ((cp \div 64) % 64), 128 + (cp % 64)>>
    [] OTHER -> <<240 + cp \div 262144, 128 + ((cp \div 4096) % 64), 128 + ((cp \div 64) % 64), 128 + (cp % 64)>>
DecodesUtf8(s) ==
  LET d == utf8_decode(s, 1)
      good == d.cp # InvalidCp
  IN /\ good => /\ d.cp \notin 55296..57343 /\ d.cp <= 1114111
                /\ \A i \in 1..d.len : Byte(s, i) = Encode(d.cp)[i]
                /\ d.len = Len(Encode(d.cp))
     /\ ~good => \A n \in 1..Min({4, Len(s)}) : LET b == SubSeq(s, 1, n)
          c == CASE n = 1 -> s[1] [] n = 2 -> (s[1] % 32) * 64 + (s[2] % 64)
                 [] n = 3 -> (s[1] % 16) * 4096 + (s[2] % 64) * 64 + (s[3] % 64)
                 [] OTHER -> (s[1] % 8) * 262144 + (s[2] % 64) * 4096 + (s[3] % 64) * 64 + (s[4] % 64)
          IN Encode(c) # b \/ c \in 55296..57343 \/ c > 1114111

(* UTF-16 to UTF-8: pairs are joined, a lone surrogate is replaced (or the *)
(* conversion fails), nothing else is lost, and well-formed text survives  *)
(* the way there and back.                                                 *)
High(u) == u \in 55296..56319
Low(u) == u \in 56320..57343
ConvertsUtf16(v) ==
  LET starts == SelectSeq([i \in DOMAIN v |-> i], LAMBDA i : ~(Low(v[i]) /\ i > 1 /\ High(v[i - 1])))
      paired(i) == High(v[i]) /\ i < Len(v) /\ Low(v[i + 1])
      cp(i) == IF paired(i) THEN 65536 + (v[i] - 55296) * 1024 + v[i + 1] - 56320
               ELSE IF High(v[i]) \/ Low(v[i]) THEN 65533 ELSE v[i]
      out == to_utf8(v, 1, 16, TRUE)
      strict == to_utf8(v, 1, 16, FALSE)
      whole == \A i \in DOMAIN starts : paired(starts[i]) \/ ~(High(v[starts[i]]) \/ Low(v[starts[i]]))
  IN /\ out.ok /\ [i \in DOMAIN for_each_codepoint(out.text) |-> for_each_codepoint(out.text)[i].cp] = [i \in DOMAIN starts |-> cp(starts[i])]
     /\ strict.ok = whole /\ (whole => strict = out /\ utf8_to_utf16(out.text) = [ok |-> TRUE, text |-> v])


(* The three ways to count digits agree with each other and with the       *)
(* digits written.                                                         *)
CountsDigits(n) ==
  /\ do_count_digits64(n) = count_digits_fallback[n]
  /\ do_count_digits32(n) = count_digits_fallback[n]
  /\ Len(do_format_decimal[n]) = count_digits_fallback[n]
  /\ \A b \in {1, 3, 4} : Len(do_format_base2e[b, n]) = count_digits_base2e[b, n]
=============================================================================
