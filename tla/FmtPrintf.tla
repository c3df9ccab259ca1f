----------------------------- MODULE FmtPrintf -----------------------------
(***************************************************************************)
(* The printf functions of the bundled fmt library (printf.h): a grammar   *)
(* of its own, read with the argument counter of FmtParse, whose fields    *)
(* are written by FmtWrite and FmtFloat. An argument is [type, value]; a   *)
(* cstring's value is its code units, Null the null pointer. int has Bits  *)
(* bits, the other widths are scaled with it. Handles of user-defined      *)
(* types, wchar_t and upper-case letters are left out. The character read  *)
(* behind a final % is the string's terminator.                            *)
(***************************************************************************)
EXTENDS FmtParse, FmtFloat

Null == <<-1>>
Unit(c) == IF c = "%" THEN 37 ELSE 97
CharBits == Bits \div 2
ShortBits == Bits - 2
LongBits == Bits + 4
Wrap(v, bits) == LET u == v % 2 ^ bits IN IF u >= 2 ^ (bits - 1) THEN u - 2 ^ bits ELSE u
BitsOf(type) == CASE type = "bool" -> 1 [] type = "char" -> CharBits
                  [] type \in {"int", "uint"} -> Bits [] OTHER -> LongBits

(* The next argument, or the one with the given number, counted from one.  *)
get_arg(e, z, index) ==
  Then(IF index < 0 THEN next_arg_id(e, z) ELSE check_arg_id(e, z, index - 1),
       LAMBDA y : IF y.id >= Len(e.args) THEN Fail(y, "argument not found") ELSE y)
ArgOf(e, z) == e.args[z.id + 1]

PrintfSpecs == [type |-> "none", align |-> "right", sign |-> "none", alt |-> FALSE, loc |-> FALSE,
                fill |-> <<32>>, width |-> 0, precision |-> -1]

printf_width_handler(e, z) ==
  LET a == ArgOf(e, z) w == IF a.value < 0 THEN -a.value ELSE a.value
  IN IF ~is_integral_type(a.type) THEN Fail(z, "width is not integer")
     ELSE IF w > MaxInt THEN Fail(z, "number is too big")
     ELSE [z EXCEPT !.sp.width = w, !.sp.align = IF a.value < 0 THEN "left" ELSE @]
printf_precision_handler(e, z) ==
  LET a == ArgOf(e, z)
  IN IF ~is_integral_type(a.type) THEN Fail(z, "precision is not integer")
     ELSE IF a.value \notin (-MaxInt - 1)..MaxInt THEN Fail(z, "number is too big")
     ELSE [z EXCEPT !.sp.precision = Max({a.value, 0})]

RECURSIVE parse_flags(_, _)
parse_flags(e, z) ==
  LET Set(field, v) == parse_flags(e, [z EXCEPT !.p = @ + 1, !.sp[field] = v])
  IN CASE At(e, z.p) = "-" -> Set("align", "left")
       [] At(e, z.p) = "+" -> Set("sign", "plus")
       [] At(e, z.p) = "0" -> Set("fill", <<Zero>>)
       [] At(e, z.p) = " " -> Set("sign", IF z.sp.sign = "plus" THEN "plus" ELSE "space")
       [] At(e, z.p) = "#" -> Set("alt", TRUE)
       [] OTHER -> z

(* Flags and width behind an argument number, which is left in val.        *)
parse_width_of(e, z) ==
  LET n == parse_nonnegative_int(e, z.p)
  IN CASE IsDigit(At(e, z.p)) -> IF n.value = -1 THEN Fail(z, "number is too big")
                                 ELSE [z EXCEPT !.p = n.end, !.sp.width = n.value]
       [] At(e, z.p) = "*" -> Then(get_arg(e, Skip(z, 1), -1), LAMBDA y : printf_width_handler(e, y))
       [] OTHER -> z
parse_header(e, z) ==
  LET n == parse_nonnegative_int(e, z.p)
      zero == IF At(e, z.p) = "0" THEN [z EXCEPT !.sp.fill = <<Zero>>] ELSE z
      flags(y) == parse_width_of(e, parse_flags(e, y))
  IN CASE ~IsDigit(At(e, z.p)) -> flags([z EXCEPT !.val = -1])
       [] IsDigit(At(e, z.p)) /\ At(e, n.end) = "$" ->
            flags([z EXCEPT !.p = n.end + 1, !.val = IF n.value # -1 THEN n.value ELSE MaxInt])
       [] OTHER -> CASE n.value = -1 -> Fail(z, "number is too big")
                     [] n.value = 0 -> flags([zero EXCEPT !.p = n.end, !.val = -1])
                     [] OTHER -> [zero EXCEPT !.p = n.end, !.val = -1, !.sp.width = n.value]
parse_printf_precision(e, z) ==
  LET n == parse_nonnegative_int(e, z.p + 1)
  IN CASE At(e, z.p) # "." -> z
       [] At(e, z.p) = "." /\ IsDigit(At(e, z.p + 1)) -> [z EXCEPT !.p = n.end, !.sp.precision = IF n.value = -1 THEN 0 ELSE n.value]
       [] At(e, z.p) = "." /\ At(e, z.p + 1) = "*" -> Then(get_arg(e, Skip(z, 2), -1), LAMBDA y : printf_precision_handler(e, y))
       [] OTHER -> [z EXCEPT !.p = @ + 1, !.sp.precision = 0]

(* What precision, zero and # mean depends on the argument.                *)
Truncated(a, precision) ==
  IF precision >= 0 /\ a.type = "cstring" THEN [type |-> "string", value |-> SubSeq(a.value, 1, Min({precision, Len(a.value)}))] ELSE a
is_zero_int(a) == is_integral_type(a.type) /\ a.value = 0
FlagsFor(sp, a) ==
  LET fill1 == IF sp.precision >= 0 /\ is_integral_type(a.type) THEN <<32>> ELSE sp.fill
      alt == sp.alt /\ ~is_zero_int(a)
      numeric == is_arithmetic_type(a.type) /\ sp.align # "left"
  IN [sp EXCEPT !.alt = alt, !.fill = IF fill1 = <<Zero>> /\ ~numeric THEN <<32>> ELSE fill1,
                !.align = IF fill1 = <<Zero>> /\ numeric THEN "numeric" ELSE @]

(* convert_arg<T>: T is given by its width, 0 for void.                    *)
arg_converter(a, bits, c) ==
  LET target == IF bits = 0 THEN BitsOf(a.type) ELSE bits
      signed == c \in {"d", "i"}
  IN IF ~is_integral_type(a.type) \/ (a.type = "bool" /\ c = "s") THEN a
     ELSE IF target <= Bits
     THEN IF signed THEN [type |-> "int", value |-> IF target = 1 THEN a.value ELSE Wrap(a.value, target)]
                    ELSE [type |-> "uint", value |-> a.value % 2 ^ target]
     ELSE IF signed THEN [type |-> "long_long", value |-> Wrap(a.value, LongBits)]
          ELSE [type |-> CASE a.type = "bool" -> "bool" [] BitsOf(a.type) = LongBits -> "ulong_long" [] OTHER -> "uint",
                value |-> a.value % 2 ^ BitsOf(a.type)]
char_converter(a) == [type |-> "char", value |-> a.value % 2 ^ CharBits]
(* The length modifier at z.p: how long it is and the width it stands for. *)
Length(e, z) ==
  LET c == At(e, z.p) t == At(e, z.p + 1)
  IN CASE c = "h" -> IF t = "h" THEN [n |-> 2, bits |-> CharBits] ELSE [n |-> 1, bits |-> ShortBits]
       [] c = "l" -> [n |-> IF t = "l" THEN 2 ELSE 1, bits |-> LongBits]
       [] c \in {"j", "z", "t"} -> [n |-> 1, bits |-> LongBits]
       [] c = "L" -> [n |-> 1, bits |-> -1]
       [] OTHER -> [n |-> 0, bits |-> 0]

parse_printf_presentation_type(c, t) ==
  LET Type(S, name) == IF t \in S THEN name ELSE "none"
  IN CASE c = "d" -> Type(IntegralSet, "dec") [] c = "o" -> Type(IntegralSet, "oct")
       [] c \in {"x", "X"} -> Type(IntegralSet, "hex") [] c \in {"e", "E"} -> Type(FloatSet, "exp")
       [] c \in {"f", "F"} -> Type(FloatSet, "fixed") [] c \in {"g", "G"} -> Type(FloatSet, "general")
       [] c \in {"a", "A"} -> Type(FloatSet, "hexfloat") [] c = "c" -> Type(IntegralSet, "chr")
       [] c = "s" -> Type(StringSet, "string") [] c = "p" -> Type({"pointer", "cstring"}, "pointer")
       [] OTHER -> "none"

write_null_pointer(sp, is_string) ==
  LET text == IF is_string THEN <<40, 110, 117, 108, 108, 41>> ELSE <<40, 110, 105, 108, 41>>
  IN write_padded(sp, Len(text), text, "left")
IntArg(v, sign) == [abs |-> IF v < 0 THEN -v ELSE v, prefix |-> make_write_int_arg(IF v < 0 THEN -1 ELSE 1, sign).prefix]
printf_arg_formatter(a, sp) ==
  CASE a.type = "char" /\ sp.type \in {"none", "chr"} ->
         write_char(a.value, [sp EXCEPT !.fill = <<32>>, !.align = IF @ \in {"none", "numeric"} THEN "right" ELSE @])
    [] is_integral_type(a.type) /\ ~(a.type = "char" /\ sp.type \in {"none", "chr"}) -> write_int(IntArg(a.value, sp.sign), sp)
    [] a.type = "float" -> write_float_specs(a.value, sp, TRUE)
    [] a.type = "cstring" /\ a.value = Null -> write_null_pointer(sp, sp.type # "pointer")
    [] a.type = "cstring" /\ a.value # Null /\ sp.type = "pointer" -> write_ptr(Len(a.value) + 1, sp)
    [] a.type \in StringSet /\ a.value # Null /\ sp.type # "pointer" -> write_string(a.value, sp)
    [] a.type = "pointer" -> IF a.value = 0 THEN write_null_pointer(sp, FALSE) ELSE write_ptr(a.value, sp)

(* One conversion, from behind its % to behind its letter: the length      *)
(* modifier, the argument converted as it says, and its presentation.      *)
WriteArg(y, a, presentation, sp, n) ==
  IF presentation = "none" THEN Fail(y, "invalid format specifier")
  ELSE [y EXCEPT !.p = @ + n + 1, !.out = @ \o printf_arg_formatter(a, [sp EXCEPT !.type = presentation])]
PresentArg(y, a, sp, type, n) ==
  LET integral == is_integral_type(a.type)
      shown == IF integral /\ type = "c" THEN char_converter(a) ELSE a
  IN WriteArg(y, shown, parse_printf_presentation_type(IF integral /\ type \in {"i", "u"} THEN "d" ELSE type, shown.type), sp, n)
ConvertArg(y, a, len, type) ==
  IF type = "end" THEN Fail(y, "invalid format string")
  ELSE PresentArg(y, IF len.bits = -1 THEN a ELSE arg_converter(a, len.bits, type), FlagsFor(y.sp, a), type, len.n)
AfterArg(e, y, len) == ConvertArg(y, Truncated(ArgOf(e, y), y.sp.precision), len, At(e, y.p + len.n))
convert(e, z) ==
  Then(parse_header(e, [z EXCEPT !.sp = PrintfSpecs]), LAMBDA h :
  IF h.val = 0 THEN Fail(h, "argument not found") ELSE
  Then(Then(parse_printf_precision(e, h), LAMBDA q : get_arg(e, q, h.val)), LAMBDA y : AfterArg(e, y, Length(e, y))))
RECURSIVE vprintf(_, _)
vprintf(e, z) ==
  LET here == At(e, z.p)
  IN IF z.err # "" \/ here = "end" THEN z
     ELSE IF here # "%" THEN vprintf(e, [z EXCEPT !.p = @ + 1, !.out = Append(@, Unit(here))])
     ELSE IF At(e, z.p + 1) = "%" THEN vprintf(e, [z EXCEPT !.p = @ + 2, !.out = Append(@, Unit("%"))])
     ELSE vprintf(e, convert(e, Skip(z, 1)))
Result(z) == [err |-> z.err, out |-> IF z.err = "" THEN z.out ELSE <<>>]
sprintf(text, args) == Result(vprintf([text |-> text, args |-> args, reader |-> "run"], Reader))

-----------------------------------------------------------------------------
(* What C says of a conversion c of an argument: its flags, its width and  *)
(* precision (-1: none), the length modifier and the letter. A value is    *)
(* printed as the type of the conversion, without a modifier as its own.   *)
LongLengths == {<<"l">>, <<"l", "l">>, <<"j">>, <<"z">>, <<"t">>}
CValue(a, length, letter) ==
  LET bits == CASE length = <<"h", "h">> -> CharBits [] length = <<"h">> -> ShortBits [] OTHER -> BitsOf(a.type)
  IN IF a.type = "bool" THEN a.value
     ELSE IF letter \notin {"d", "i"} THEN a.value % 2 ^ bits
     ELSE IF length \in LongLengths THEN Wrap(a.value, LongBits) ELSE Wrap(a.value, bits)
CField(body, c) == LET pad == Repeat(32, Max({0, c.width - Len(body)})) IN IF "-" \in c.flags THEN body \o pad ELSE pad \o body
CInteger(c, a) ==
  LET v == CValue(a, c.length, c.letter)
      base == CASE c.letter \in {"x", "X"} -> 16 [] c.letter = "o" -> 8 [] OTHER -> 10
      abs == IF v < 0 THEN -v ELSE v
      n == CHOOSE k \in 1..20 : base ^ (k - 1) <= Max({abs, 1}) /\ abs < base ^ k
      sign == CASE v < 0 -> <<45>> [] "+" \in c.flags -> <<43>> [] " " \in c.flags -> <<32>> [] OTHER -> <<>>
      prefix == sign \o IF "#" \in c.flags /\ base = 16 /\ abs # 0 THEN <<48, 120>> ELSE <<>>
      octal == IF "#" \in c.flags /\ base = 8 /\ abs # 0 THEN n + 1 ELSE n
      count == IF c.precision >= 0 THEN Max({octal, c.precision})
               ELSE IF "0" \in c.flags /\ "-" \notin c.flags THEN Max({octal, c.width - Len(prefix)}) ELSE octal
  IN CField(prefix \o [i \in 1..count |-> LET d == (abs \div base ^ Min({count - i, n})) % base IN IF d < 10 THEN 48 + d ELSE 87 + d], c)
CString(c, a) == CField(IF c.precision >= 0 THEN SubSeq(a.value, 1, Min({c.precision, Len(a.value)})) ELSE a.value, c)

DigitOf == [d \in 0..3 |-> <<"0", "1", "2", "3">>[d + 1]]
NumberText(n) == IF n = -1 THEN <<>> ELSE <<DigitOf[n]>>
FlagOrder == <<"#", "0", "-", " ", "+">>
FlagText(F) == SelectSeq(FlagOrder, LAMBDA f : f \in F)
PrintfText(c, number) == <<"a", "%">> \o number \o FlagText(c.flags) \o (IF c.width = 0 THEN <<>> ELSE NumberText(c.width))
                         \o (IF c.precision = -1 THEN <<>> ELSE <<".">> \o NumberText(c.precision)) \o c.length \o <<c.letter>>
StarText(c) == <<"a", "%">> \o FlagText(c.flags) \o <<"*", ".", "*">> \o c.length \o <<c.letter>>
IntOf(v) == [type |-> "int", value |-> v]

(* All ways to write the conversion agree, and the integer and string ones *)
(* with C.                                                                 *)
AgreesWithC(c, a, plain) ==
  LET integer == c.letter \in {"d", "i", "u", "o", "x"} /\ is_integral_type(a.type)
      unclear == \/ c.letter \notin {"d", "i"} /\ c.flags \cap {"+", " "} # {}
                 \/ CValue(a, c.length, c.letter) = 0 /\ (c.precision = 0 \/ ("#" \in c.flags /\ a.value # 0))
  IN /\ integer /\ ~unclear => plain.err = "" /\ plain.out = <<97>> \o CInteger(c, a)
     /\ c.letter = "s" /\ a.type = "cstring" /\ a.value # Null => plain.out = <<97>> \o CString(c, a)
Ways(c, a) ==
  LET stars(w) == [text |-> StarText(c), args |-> <<IntOf(w), IntOf(c.precision), a>>]
  IN <<[text |-> PrintfText(c, <<>>), args |-> <<a>>], [text |-> PrintfText(c, <<"2", "$">>), args |-> <<IntOf(0), a>>]>>
     \o (IF c.precision < 0 THEN <<>> ELSE IF "-" \in c.flags THEN <<stars(c.width), stars(-c.width)>> ELSE <<stars(c.width)>>)
Written(ways) == [i \in DOMAIN ways |-> sprintf(ways[i].text, ways[i].args)]
ConversionAgrees(c, a, outs) == AgreesWithC(c, a, outs[1]) /\ \A i \in DOMAIN outs : outs[i] = outs[1]
(* A conversion of printf writes what C's writes. (fmt shows + and space   *)
(* also for unsigned conversions, one digit for a zero with precision zero *)
(* and a prefix for what only the conversion makes zero: nothing is        *)
(* claimed for these.) The same conversion with *.* takes width, precision *)
(* and value from three arguments in this order, a negative width meaning  *)
(* -, and a numbered one takes that argument.                              *)
PrintfWellWritten(c, a) == ConversionAgrees(c, a, Written(Ways(c, a)))

(* A format that is accepted with its arguments is accepted with more of   *)
(* them and writes the same: nothing depends on what is not asked for.     *)
PrintfUsesArguments(text) ==
  \A n \in 0..2 : LET args == [i \in 1..n |-> IntOf(i + 1)]
                      both == [few |-> args, more |-> Append(args, IntOf(1))]
                      Same(r) == r["few"].err = "" => r["more"] = r["few"]
                  IN Same([x \in {"few", "more"} |-> sprintf(text, both[x])])
=============================================================================
