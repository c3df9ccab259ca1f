------------------------------- MODULE MCFmt -------------------------------
(***************************************************************************)
(* The bundled fmt library on bounded inputs. A behaviour is one call: it  *)
(* takes a format string with its arguments, a number, a text, a time or a *)
(* duration from small sets chosen around the edges of the algorithms, or  *)
(* it fills an output buffer piece by piece.                               *)
(***************************************************************************)
EXTENDS FmtPrintf, FmtBuffer, FmtChrono, FmtRanges
CONSTANTS MaxText  \* the longest text put into a buffer
VARIABLES call,    \* the call being made, with its arguments
          b, text  \* an output buffer and what was put into it
vars == <<call, b, text>>
Idle(use) == [k |-> "idle", use |-> use]
Buffers == {memory_buffer, container_buffer, counting_buffer} \cup {iterator_buffer(n) : n \in {NoLimit, 0, 3}}
           \cup {pointer_buffer(n) : n \in 0..4}
Uses == {"format", "text", "number", "time", "printf", "range"}
Init == /\ text = <<>>
        /\ \/ call = Idle("buffer") /\ b \in Buffers
           \/ call \in {Idle(use) : use \in Uses} /\ b = memory_buffer
Filling == call = Idle("buffer")
Choose(c) == call' = c /\ UNCHANGED <<b, text>>

(* Format strings: everything of up to four characters behind a brace,     *)
(* every specification of up to three, and two fields with dynamic widths. *)
Arg(t, v, n, s) == [type |-> t, value |-> v, name |-> n, static |-> s]
ArgLists == {<<>>, <<Arg("int", 1, <<>>, TRUE)>>, <<Arg("int", 1, <<>>, TRUE), Arg("string", 0, <<>>, TRUE)>>,
             <<Arg("string", 0, <<>>, TRUE), Arg("int", 2, <<"a">>, TRUE)>>,
             <<Arg("char", 0, <<>>, TRUE), Arg("bool", 0, <<"a">>, FALSE)>>,
             <<Arg("int", 1, <<>>, TRUE), Arg("int", 2, <<>>, TRUE), Arg("string", 0, <<>>, TRUE)>>,
             <<Arg("float", 0, <<>>, TRUE), Arg("int", 26, <<>>, TRUE), Arg("uint", 3, <<>>, TRUE)>>}
Braces == {"{", "}", ":", "0", "1", "a", "<", ".", "d"}
SpecChars == {"{", "}", "0", "1", "9", "<", "+", "#", ".", "L", "d", "c", "s", "?", "p", "f", "lead", "trail", "a"}
Openings == {<<"{", ":">>, <<"{", "0", ":">>, <<"{", "a", ":">>}
Dynamic == {<<"{", "}">>, <<"{", "0", "}">>, <<"{", "}", ".", "{", "}">>, <<"1">>, <<".", "{", "a", "}">>}
Following == {<<"{", "}">>, <<"{", ":", "{", "}", "}">>, <<"{", "1", "}">>, <<"{", "a", "}">>}
Read(t) == \E args \in ArgLists : Choose([k |-> "string", text |-> t, args |-> args])
FormatString == \/ \E n \in 0..4 : \E s \in [1..n -> Braces] : Read(<<"{">> \o s)
                \/ \E o \in Openings, n \in 0..3 : \E s \in [1..n -> SpecChars] : (n # 3 \/ o = <<"{", ":">>) /\ Read(o \o s \o <<"}">>)
                \/ \E o \in Openings, s \in Dynamic, f \in Following, t \in {<<>>, <<"a">>, <<"{", "}">>} : Read(o \o s \o <<"}">> \o f \o t)

(* Integers, grouped integers, strings of up to three code points (some    *)
(* wide, some to be escaped, some invalid), bytes to decode, digit counts. *)
Spec8(t, a, g, alt, f, w, p) == [type |-> t, align |-> a, sign |-> g, alt |-> alt, loc |-> FALSE, fill |-> f, width |-> w, precision |-> p]
Units == {<<65>>, <<10>>, <<34>>, <<195, 169>>, <<228, 189, 160>>, <<240, 159, 152, 128>>, <<255>>, <<128>>}
Bytes == {0, 65, 127, 128, 143, 144, 159, 160, 191, 192, 193, 194, 223, 224, 237, 239, 240, 244, 245, 255}
FormatInteger ==
  \E v \in {-128, -127, -9, -1, 0, 1, 7, 8, 10, 99, 100, 127}, t \in {"dec", "hex", "oct", "bin"}, g \in {"none", "plus"}, alt \in BOOLEAN, w \in {0, 4, 7} :
     \/ \E a \in {"none", "left", "right", "center"}, p \in {-1, 0, 3} : Choose([k |-> "int", v |-> v, s |-> Spec8(t, a, g, alt, <<42>>, w, p)])
     \/ Choose([k |-> "int", v |-> v, s |-> Spec8(t, "numeric", g, alt, <<48>>, w, -1)])
FormatGrouped ==
  \E v \in {-128, 0, 7, 100, 127}, t \in {"dec", "bin"}, a \in {"none", "left", "center"}, w \in {0, 6}, g \in {<<3>>, <<1>>, <<1, 2>>, <<2, 127>>, <<1, 0>>} :
     Choose([k |-> "group", v |-> v, s |-> Spec8(t, a, "none", FALSE, <<42>>, w, -1), g |-> g])
FormatText ==
  \E n \in 0..3 : \E u \in [1..n -> Units], t \in {"string", "debug"}, a \in {"none", "center"}, w \in {0, 5}, p \in {-1, 0, 1, 2, 3, 4, 6} :
     Choose([k |-> "text", v |-> FlattenSeq(u), s |-> Spec8(t, a, "none", FALSE, <<42>>, w, p)])
DecodeBytes == \E n \in 1..3 : \E v \in [1..n -> Bytes], z \in {0, 128, 192} : Choose([k |-> "bytes", v |-> Append(v, z)])
Wides == {65, 233, 20320, 55295, 55296, 55357, 56319, 56320, 56832, 57343, 57344, 65535}
ConvertWide == \E n \in 0..3 : \E v \in [1..n -> Wides] : Choose([k |-> "wide", v |-> v])
CountDigits == \E n \in 0..300 \cup {10 ^ i : i \in 3..9} \cup {10 ^ i - 1 : i \in 3..9} \cup {2 ^ i : i \in 9..30} \cup {2147483647} :
     Choose([k |-> "digits", v |-> n])

Finite(n, e, m) == [kind |-> "finite", neg |-> n, b |-> e, m |-> m]
(* printf conversions, one at a time, and every text of up to four         *)
(* characters behind a %.                                                  *)
PrintfArgs == {[type |-> t, value |-> v] : t \in {"int", "long_long"}, v \in {-128, -9, 0, 20, 127}}
              \cup {[type |-> t, value |-> v] : t \in {"uint", "ulong_long"}, v \in {0, 200}}
              \cup {[type |-> "bool", value |-> 1], [type |-> "char", value |-> -3], [type |-> "cstring", value |-> <<65, 66, 67>>],
                    [type |-> "pointer", value |-> 0], [type |-> "pointer", value |-> 30], [type |-> "float", value |-> Finite(TRUE, 12, 128)]}
PrintfChars == {"%", "0", "1", "9", "$", "*", ".", "-", "h", "l", "d", "s", "a"}
FormatPrintf ==
  \E a \in PrintfArgs, F \in SUBSET {"#", "0", "-", "+"}, w \in {0, 3}, p \in {-1, 0, 2}, l \in LongLengths \cup {<<>>, <<"h">>, <<"h", "h">>},
     c \in {"d", "u", "o", "x", "s", "c", "p", "f"} :
     /\ l \in {<<"j">>, <<"z">>, <<"t">>, <<"l">>} => F = {}
     /\ Choose([k |-> "printf", c |-> [flags |-> F, width |-> w, precision |-> p, length |-> l, letter |-> c], a |-> a])
ParsePrintf == \E n \in 0..4 : \E t \in [1..n -> PrintfChars] : Choose([k |-> "vprintf", t |-> <<"%">> \o t])

(* Floating-point numbers: every one of a small format for the shortest    *)
(* output, and a selection for each presentation and precision.            *)
FloatSpecs(t, p, alt, loc, w, a) == [type |-> t, align |-> a, sign |-> "none", alt |-> alt, loc |-> loc, fill |-> <<48>>, width |-> w, precision |-> p]
FormatShortest == \E e \in 0..19, m \in 0..255 : (e > 0 \/ m > 0) /\ (e # 1 \/ m # 0) /\ Choose([k |-> "short", x |-> Finite(FALSE, e, m)])
FormatFloat ==
  \/ \E e \in {0, 1, 2, 8, 12, 15, 16, 19}, m \in {0, 1, 2, 17, 100, 128, 240, 252, 254, 255},
        t \in {"none", "fixed", "exp", "general", "hexfloat"}, p \in -1..4, alt \in BOOLEAN, fast \in BOOLEAN :
       /\ (e # 1 \/ m # 0) /\ (p = -1 => t \in {"none", "hexfloat"})
       /\ Choose([k |-> "float", x |-> Finite(FALSE, e, m), s |-> FloatSpecs(t, p, alt, FALSE, 0, "none"), fast |-> fast])
  \/ \E e \in {0, 1, 12, 16, 19}, m \in {0, 1, 128, 255}, t \in {"none", "fixed", "exp"}, p \in {0, 2}, loc \in BOOLEAN,
        w \in {0, 6, 9}, a \in {"none", "left", "center", "numeric"}, n \in BOOLEAN :
       Choose([k |-> "float", x |-> Finite(n, e, m), s |-> FloatSpecs(t, p, FALSE, loc, w, a), fast |-> TRUE])

(* Days of 140 years around the epoch, years of every length and sign,     *)
(* instants around the epoch, durations around the units' borders, and     *)
(* every chrono format of up to three characters.                          *)
ChronoChars == {"%", "Y", "e", "E", "O", "_", "-", "S", "Q", "j", "x", "z", "T", "d"}
Days == (-731..1500) \cup {-365 * n : n \in 1..70} \cup {365 * n : n \in 1..70} \cup {365 * n + n \div 4 : n \in 1..70}
FormatDay == \E day \in Days : Choose([k |-> "day", v |-> day])
FormatYear == \E y \in {-12345, -10000, -9999, -101, -100, -99, -1, 0, 1, 99, 100, 999, 1000, 9999, 10000, 12345} : Choose([k |-> "year", v |-> y])
FormatInstant ==
  \/ \E c \in -130..130, den \in {1, 2, 10, 128, 1000} : Choose([k |-> "instant", d |-> [count |-> c, num |-> 1, den |-> den]])
  \/ \E c \in {-1000000, -86400001, -86400000, 951868799, 951868800, -2147483, 2000000000} :
       Choose([k |-> "instant", d |-> [count |-> c, num |-> 1, den |-> 1000]])
  \/ \E c \in {-1899999999, -1000000000, -899999999, -800000000, 1, 100000001, 1200000002} :
       Choose([k |-> "instant", d |-> [count |-> c, num |-> 1, den |-> 1000000000]])
FormatDuration ==
  LET use(c, n, den, p) == Choose([k |-> "duration", d |-> [count |-> c, num |-> n, den |-> den], p |-> p])
  IN \E p \in (-1..4) \cup {9} :
       \/ \E c \in {-100, -61, -60, -59, -1, 0, 1, 7, 59, 60, 61, 99, 100}, n \in {1, 3, 60, 3600}, den \in {1, 7, 10, 128, 1000} :
            gcd[n, den] = 1 /\ use(c, n, den, p)
       \/ \E c \in {-200000002, -1, 1, 100000001, 1000000000} : use(c, 1, 1000000000, p)
       \* up to MaxField days and beyond, up to MaxSeconds and beyond, up to MaxCommon and beyond
       \/ \E c \in {864086399, 864086400, -1000000000} : use(c, 1, 1, p)
       \/ \E c \in {14401439, 14401440, -16666667, 33333333, 33333334} : use(c, 60, 1, p)
       \/ \E c \in {240023, -240024, 277777, 277778, 555555, -555556} : use(c, 3600, 1, p)
ParseChrono == \E n \in 1..3 : \E t \in [1..n -> ChronoChars] : Choose([k |-> "chrono", t |-> t])

(* Ranges of numbers, characters, strings and ranges with every element    *)
(* specification of up to two characters; pairs of values to tell apart;   *)
(* styles; dumps with every flag and the line sizes around their length.   *)
IntT == [t |-> "int", of |-> <<>>]
CharT == [t |-> "char", of |-> <<>>]
StringT == [t |-> "string", of |-> <<>>]
ListOf(T) == [t |-> "sequence", of |-> <<T>>]
ValuesOf(t) == CASE t = "int" -> {0, -7, 12} [] t = "char" -> {65, 39, 34, 44} [] t = "string" -> {<<>>, <<65>>, <<34, 44, 32, 34>>, <<92, 34>>}
FewOf(t) == CASE t = "int" -> {0, 12} [] t = "char" -> {65, 39} [] t = "string" -> {<<>>, <<34, 44, 32, 34>>}
Lists(S) == UNION {[1..n -> S] : n \in 0..2}
RangeSpecs == UNION {[1..n -> {"?", "s", "n", ":", "d", "x", "c", "3", "<", "0", "."}] : n \in 0..2}
FormatRange ==
  \/ \E T \in {IntT, CharT, StringT} : \E s \in RangeSpecs, v \in Lists(ValuesOf(T.t)) : Choose([k |-> "range", T |-> T, s |-> s, v |-> v])
  \/ \E T \in {IntT, CharT, StringT} : \E s \in RangeSpecs, v \in Lists(Lists(FewOf(T.t))) :
       Len(s) < 2 /\ Choose([k |-> "range", T |-> ListOf(T), s |-> s, v |-> v])
TellApart == \E T \in {CharT, StringT} : \E v \in Lists(ValuesOf(T.t)), w \in Lists(ValuesOf(T.t)) :
  Choose([k |-> "apart", T |-> ListOf(T), v |-> v, w |-> w])
Colors == {0} \cup {rgb_color(v) : v \in {0, 255, 65280, 16777215}} \cup {terminal_color(v) : v \in {30, 37, 90, 97}}
Styles == {or_style(or_style(fg(f), bg(g)), text_style(em)) : f \in Colors, g \in Colors, em \in {0, 161}}
FormatStyle == \E x \in Styles, y \in Styles : y.em # x.em /\ (y.fg = 0 \/ y.bg = x.fg) /\ Choose([k |-> "style", x |-> x, y |-> y])
FormatDump == \E f \in Lists({"s", "p", "n", "a", "X"}), n \in 0..5, per_line \in {0, 1, 2, 3, 5, 6, 127} :
  Choose([k |-> "dump", f |-> f, v |-> [i \in 1..n |-> 5 + 32 * i], n |-> per_line])

(* Filling a buffer.                                                       *)
Piece(n) == [i \in 1..n |-> Len(text) + i]
Fill(Op(_, _)) == Filling /\ \E n \in 0..5 : /\ Len(text) + n <= MaxText
                                  /\ text' = text \o Piece(n) /\ b' = Op(b, Piece(n)) /\ UNCHANGED call
AppendBlock == Fill(append)
WriteDirect == Fill(write_direct)
WriteReserved == Fill(write_reserved)
MoveBuffer == Filling /\ b.kind = "memory" /\ b' = move(b)[1] /\ UNCHANGED <<call, text>>
ReuseMoved == /\ Filling /\ b.kind = "memory" /\ b' = clear(move(b)[2]) /\ text' = <<>> /\ UNCHANGED call
ResizeBuffer == \E n \in 0..Len(text) : /\ Filling /\ b.kind = "memory" /\ b' = try_resize(b, n)
                                        /\ text' = SubSeq(text, 1, n) /\ UNCHANGED call

Calls == \/ call = Idle("format") /\ FormatString
         \/ call = Idle("text") /\ (FormatText \/ DecodeBytes \/ ConvertWide \/ FormatStyle \/ FormatDump)
         \/ call = Idle("number") /\ (FormatInteger \/ FormatGrouped \/ CountDigits \/ FormatShortest \/ FormatFloat)
         \/ call = Idle("time") /\ (FormatDay \/ FormatYear \/ FormatInstant \/ FormatDuration \/ ParseChrono)
         \/ call = Idle("printf") /\ (FormatPrintf \/ ParsePrintf)
         \/ call = Idle("range") /\ (FormatRange \/ TellApart)
Next == \/ Calls
        \/ AppendBlock \/ WriteDirect \/ WriteReserved \/ MoveBuffer \/ ReuseMoved \/ ResizeBuffer
Spec == Init /\ [][Next]_vars

(* A format string the compile-time checker accepts formats at run time.   *)
AcceptedFormats == call.k = "string" => AcceptedStringsFormat(call.text, call.args)
(* FMT_COMPILE and the run-time formatter write the same.                  *)
CompiledSame == call.k = "string" => CompiledAgrees(call.text, call.args)
(* Integers, grouped integers and strings fill their fields as specified,  *)
(* with printf as C does, and the decoder and the digit counters they rely *)
(* on are exact; ranges, styles and dumps show what they hold.             *)
FieldsWellWritten ==
  /\ call.k = "int" => IntWellWritten(call.v, call.s)
  /\ call.k = "group" => GroupsWellWritten(call.v, call.s, call.g)
  /\ call.k = "text" => StringWellWritten(call.v, call.s)
  /\ call.k = "printf" => PrintfWellWritten(call.c, call.a)
  /\ call.k = "vprintf" => PrintfUsesArguments(call.t)
  /\ call.k = "bytes" => DecodesUtf8(call.v)
  /\ call.k = "wide" => ConvertsUtf16(call.v)
  /\ call.k = "digits" => CountsDigits(call.v)
  /\ call.k = "range" => RangeWellWritten(call.T, call.s, call.v)
  /\ call.k = "apart" => RangeReadsBack(call.T, call.v, call.w)
  /\ call.k = "style" => StyleWellWritten(call.x, call.y, <<65>>)
  /\ call.k = "dump" => DumpWellWritten(call.f, call.v, call.n)
(* The shortest output is the shortest and closest decimal that reads back *)
(* as the number; with a precision the output is correctly rounded.        *)
FloatsExact == /\ call.k = "short" => ShortWellWritten(call.x)
               /\ call.k = "float" => FloatWellWritten(call.x, call.s, call.fast)
(* Weeks, years, instants and durations are written as what they are.      *)
TimesExact ==
  /\ call.k = "day" => WeeksExact(call.v)
  /\ call.k = "year" => YearsExact(call.v)
  /\ call.k = "instant" => SysTimeExact(call.d)
  /\ call.k = "duration" => DurationExact(call.d, call.p)
  /\ call.k = "chrono" => AcceptedCallsWrite(call.t)
(* Every kind of output buffer delivers what was put into it.              *)
BuffersKeepText == KeepsText(b, text)
=============================================================================
