----------------------------- MODULE FmtRanges -----------------------------
(***************************************************************************)
(* Formatters built on other formatters: ranges, tuples and joins of the   *)
(* bundled fmt library (ranges.h), text styles (color.h) and spdlog's hex  *)
(* dump (fmt/bin_to_hex.h).                                                *)
(*                                                                         *)
(* A formatter is a record: t is what it formats, sp the specifications of *)
(* an int, a char or a string, under the formatters of the elements. A     *)
(* value is a number, a text or a sequence of values. Every parser takes   *)
(* the formatter and the reader of FmtParse and returns both. Dynamic      *)
(* widths inside a range are left out.                                     *)
(***************************************************************************)
EXTENDS FmtParse, FmtWrite, Bitwise

Leaves == {"int", "char", "string"}
Comma == <<44, 32>>
Quote == <<34>>
Joined(parts, sep) == FlattenSeq([i \in DOMAIN parts |-> (IF i > 1 THEN sep ELSE <<>>) \o parts[i]])

-----------------------------------------------------------------------------
(* The formatter of a type, as it is constructed. A type is [t, of, sep]:  *)
(* its kind, its elements' types and what a join puts between them.        *)
set_brackets(f, open, close) == [f EXCEPT !.open = open, !.close = close]
RECURSIVE formatter(_)
formatter(T) ==
  LET f == [t |-> T.t, sp |-> NoSpecs, under |-> [i \in DOMAIN T.of |-> formatter(T.of[i])],
            open |-> <<>>, close |-> <<>>, sep |-> Comma, debug |-> FALSE]
  IN CASE T.t \in {"sequence", "adaptor"} -> set_brackets(f, <<91>>, <<93>>)
       [] T.t \in {"set", "map"} -> set_brackets(f, <<123>>, <<125>>)
       [] T.t = "tuple" -> set_brackets(f, <<40>>, <<41>>)
       [] T.t = "debug_string" -> set_brackets(f, Quote, Quote)
       [] T.t \in {"join", "tuple_join"} -> [f EXCEPT !.sep = T.sep]
       [] OTHER -> f

maybe_set_debug_format(f, set) ==
  IF f.t \in {"char", "string"} THEN [f EXCEPT !.sp.type = IF set THEN "?" ELSE "none"] ELSE f
Debug(f, set) == [f EXCEPT !.under = [i \in DOMAIN @ |-> maybe_set_debug_format(@[i], set)]]

Parsed(f, z) == [f |-> f, z |-> z]
Bad_specifier(f, z) == Parsed(f, Fail(z, "invalid format specifier"))
RECURSIVE parse(_, _, _)
(* The one element of a range or a join.                                   *)
WithElement(f, r) == Parsed([f EXCEPT !.under[1] = r.f], r.z)
parse_underlying(f, e, z) == WithElement(f, parse(f.under[1], e, z))
(* parse_empty_specs: all elements read from where the context stands, and *)
(* none moves it.                                                          *)
RECURSIVE parse_elements(_, _, _, _)
AfterElement(f, e, p, i, r) ==
  IF r.z.err # "" THEN Parsed(f, r.z)
  ELSE parse_elements([f EXCEPT !.under[i] = maybe_set_debug_format(r.f, TRUE)], e, [r.z EXCEPT !.p = p], i + 1)
parse_elements(f, e, z, i) ==
  IF i > Len(f.under) THEN Parsed(f, z) ELSE AfterElement(f, e, z.p, i, parse(f.under[i], e, z))

(* What n leaves out, and where the rest of the specification begins.      *)
Bare(f) == IF f.t = "tuple" THEN [set_brackets(f, <<>>, <<>>) EXCEPT !.sep = <<>>] ELSE set_brackets(f, <<>>, <<>>)
AfterBare(f, e, z) == IF At(e, z.p) = "n" THEN Parsed(Bare(f), Skip(z, 1)) ELSE Parsed(f, z)
tuple_rest(f, e, z) == IF At(e, z.p) \in {"end", "}"} THEN parse_elements(f, e, z, 1) ELSE Bad_specifier(f, z)
tuple_parse(r, e) == tuple_rest(r.f, e, r.z)
map_rest(f, e, z) ==
  IF At(e, z.p) \in {"end", "}", ":"} THEN parse_elements(f, e, IF At(e, z.p) = ":" THEN Skip(z, 1) ELSE z, 1) ELSE Bad_specifier(f, z)
map_parse(r, e) == map_rest(r.f, e, r.z)

range_rest(f, e, z) ==
  IF At(e, z.p) \in {"end", "}", ":"}
  THEN parse_underlying(IF At(e, z.p) = ":" THEN Debug(f, FALSE) ELSE f, e, IF At(e, z.p) = ":" THEN Skip(z, 1) ELSE z)
  ELSE Bad_specifier(f, z)
range_elements(r, e) == range_rest(r.f, e, r.z)
range_parse(f, e, z) ==
  LET c == At(e, z.p)
      text == f.under[1].t = "char" /\ (c = "s" \/ At(e, z.p + 1) = "s")
  IN CASE c = "?" /\ text -> Parsed([Bare(Debug(f, TRUE)) EXCEPT !.debug = TRUE], Skip(z, 2))
       [] c = "s" /\ text -> Parsed([set_brackets(Debug(f, FALSE), Quote, Quote) EXCEPT !.sep = <<>>], Skip(z, 1))
       [] c \in {"?", "s"} /\ ~text -> Bad_specifier(f, z)
       [] OTHER -> range_elements(AfterBare(Debug(f, TRUE), e, z), e)

WithSpecs(f, y) == Parsed([f EXCEPT !.sp = y.sp], y)
string_parse(f, e, z, type) == WithSpecs(f, native_parse(e, [z EXCEPT !.sp = f.sp, !.st = 0], type))
parse(f, e, z) ==
  CASE f.t \in Leaves \cup {"range_string", "debug_string"} -> string_parse(f, e, z, IF f.t \in Leaves THEN f.t ELSE "string")
    [] f.t \in {"sequence", "set", "adaptor"} -> range_parse(f, e, z)
    [] f.t = "map" -> map_parse(AfterBare(f, e, z), e)
    [] f.t = "tuple" -> tuple_parse(AfterBare(f, e, z), e)
    [] f.t = "join" -> parse_underlying(f, e, z)
    [] f.t = "tuple_join" -> Parsed(f, z)

(* native_formatter::format: the specifications as FmtWrite takes them.    *)
WriteSpecs(sp, t) ==
  [type |-> CASE sp.type = "x" -> "hex" [] sp.type = "c" -> "chr" [] sp.type = "?" -> "debug"
              [] sp.type = "none" /\ t = "string" -> "string" [] OTHER -> IF t = "string" THEN "string" ELSE "dec",
   align |-> CASE sp.align = "<" -> "left" [] sp.align = ">" -> "right" [] sp.align = "^" -> "center" [] OTHER -> sp.align,
   sign |-> sp.sign, alt |-> sp.alt, loc |-> FALSE, fill |-> IF sp.fill = <<"0">> THEN <<Zero>> ELSE <<32>>,
   width |-> sp.width, precision |-> sp.precision]
write_char_arg(c, sp) ==
  LET specs == WriteSpecs(sp, "char")
  IN CASE sp.type = "?" -> write_padded(specs, 1, write_escaped_char(c), "left")
       [] sp.type \in {"none", "c"} -> write_char(c, specs)
       [] OTHER -> write_int(make_write_int_arg(c, specs.sign), specs)
write_leaf(t, v, sp) ==
  CASE t = "int" -> write_int(make_write_int_arg(v, sp.sign), WriteSpecs(sp, t))
    [] t = "char" -> write_char_arg(v, sp)
    [] t = "string" -> write_string(v, WriteSpecs(sp, t))

RECURSIVE format(_, _)
format_tuple_element(f, v, sep) == Joined([i \in DOMAIN v |-> format(f.under[i], v[i])], sep)
format_range(f, v) ==
  IF f.debug THEN write_string(v, WriteSpecs([NoSpecs EXCEPT !.type = "?"], "string"))
  ELSE f.open \o Joined([i \in DOMAIN v |-> format(f.under[1], v[i])], f.sep) \o f.close
format_map(f, v) == f.open \o Joined([i \in DOMAIN v |-> format_tuple_element(f, v[i], <<58, 32>>)], f.sep) \o f.close
format(f, v) ==
  CASE f.t \in Leaves -> write_leaf(f.t, v, f.sp)
    [] f.t \in {"range_string", "debug_string"} -> f.open \o write_leaf("string", v, f.sp) \o f.close
    [] f.t \in {"sequence", "set", "adaptor", "join"} -> format_range(f, v)
    [] f.t = "map" -> format_map(f, v)
    [] f.t \in {"tuple", "tuple_join"} -> f.open \o format_tuple_element(f, v, f.sep) \o f.close

(* format_custom: the replacement field {:specs} of a value of type T.     *)
Taken(r, n) == [ok |-> r.z.err = "" /\ r.z.p = n + 1, f |-> r.f]
ReadField(T, specs) == Taken(parse(formatter(T), Env(Append(specs, "}"), <<>>, "run"), Reader), Len(specs))
format_custom(T, specs, v) == format(ReadField(T, specs).f, v)

-----------------------------------------------------------------------------
(* text_style: the 27-bit groups of style_ for the two colors, and the     *)
(* emphases. A color is its 24 bits with 01 or, for a terminal color, 11   *)
(* above them, so that no sum of two groups carries into the next one.     *)
Discriminator == 2 ^ 24
rgb_color(v) == Discriminator + v
terminal_color(v) == 3 * Discriminator + v
text_style(em) == [fg |-> 0, bg |-> 0, em |-> em]
fg(color) == [text_style(0) EXCEPT !.fg = color]
bg(color) == [text_style(0) EXCEPT !.bg = color]
Bit(n, i) == (n \div 2 ^ i) % 2 = 1
cannot_or(x, y) == Bit(x.fg + y.fg, 26) \/ Bit(x.bg + y.bg, 26)
or_style(x, y) == [fg |-> x.fg | y.fg, bg |-> x.bg | y.bg, em |-> x.em | y.em]
has_foreground(ts) == Bit(ts.fg, 24)
has_background(ts) == Bit(ts.bg, 24)
has_emphasis(ts) == ts.em # 0
color_value(color) == color % Discriminator
is_terminal_color(color) == Bit(color, 25)

(* ansi_color_escape.                                                      *)
Escape == <<27, 91>>
to_esc(c, delimiter) == <<Zero + c \div 100, Zero + ((c \div 10) % 10), Zero + (c % 10), delimiter>>
terminal_escape(v) == Escape \o (IF v >= 100 THEN <<Zero + 1>> ELSE <<>>) \o write2digits(v % 100) \o <<109>>
color_escape(color, background) ==
  LET v == color_value(color)
  IN IF is_terminal_color(color) THEN terminal_escape(IF background THEN v + 10 ELSE v)
     ELSE Escape \o <<IF background THEN Zero + 4 ELSE Zero + 3, Zero + 8, 59, Zero + 2, 59>>
          \o to_esc(v \div 65536, 59) \o to_esc((v \div 256) % 256, 59) \o to_esc(v % 256, 109)
em_codes == <<1, 2, 3, 4, 5, 7, 8, 9>>
emphasis_escape(em) ==
  LET codes == FlattenSeq([i \in 1..8 |-> IF Bit(em, i - 1) THEN <<Zero + em_codes[i], 59>> ELSE <<>>])
  IN Escape \o [codes EXCEPT ![Len(codes)] = 109]
Prologue(ts) == (IF has_emphasis(ts) THEN emphasis_escape(ts.em) ELSE <<>>)
                \o (IF has_foreground(ts) THEN color_escape(ts.fg, FALSE) ELSE <<>>)
                \o (IF has_background(ts) THEN color_escape(ts.bg, TRUE) ELSE <<>>)
reset_color == Escape \o <<Zero, 109>>
vformat_styled(ts, s) == Prologue(ts) \o s \o (IF ts # text_style(0) THEN reset_color ELSE <<>>)
format_styled_arg(ts, s) ==
  Prologue(ts) \o s \o (IF has_emphasis(ts) \/ has_foreground(ts) \/ has_background(ts) THEN reset_color ELSE <<>>)

-----------------------------------------------------------------------------
(* bin_to_hex.h: the flags, and the dump written byte by byte. dump is     *)
(* the text so far and the first byte of the current line.                 *)
DumpFlags == [newlines |-> TRUE, delimiters |-> TRUE, positions |-> TRUE, ascii |-> FALSE]
parse_dump_flag(d, c) ==
  CASE c = "s" -> [d EXCEPT !.delimiters = FALSE]
    [] c = "p" -> [d EXCEPT !.positions = FALSE]
    [] c = "n" -> [d EXCEPT !.newlines = FALSE, !.ascii = FALSE]
    [] c = "a" -> [d EXCEPT !.ascii = @ \/ d.newlines]
    [] OTHER -> d
parse_dump(flags) == FoldLeft(parse_dump_flag, DumpFlags, flags)

Blank == <<32>>
HexByte(v) == <<HexDigit(v \div 16), HexDigit(v % 16)>>
printable(v) == IF v \in 32..126 THEN v ELSE 46
ascii(bytes, from, to) == Blank \o Blank \o [i \in 1..(to - from + 1) |-> printable(bytes[from + i - 1])]
put_newline(d, pos) == <<10>> \o (IF d.positions THEN HexField(pos, 4) \o <<58>> \o Blank ELSE <<>>)
dump_byte(d, bytes, per_line, dump, i) ==
  IF d.newlines /\ (i = 1 \/ i - dump.start >= per_line)
  THEN [start |-> i, out |-> dump.out \o (IF d.ascii /\ i > 1 THEN ascii(bytes, dump.start, i - 1) ELSE <<>>)
                             \o put_newline(d, i - 1) \o HexByte(bytes[i])]
  ELSE [dump EXCEPT !.out = @ \o (IF d.delimiters /\ i > 1 THEN Blank ELSE <<>>) \o HexByte(bytes[i])]
format_dump(d, bytes, size_per_line) ==
  LET per_line == IF size_per_line >= 2 ^ (Bits - 1) THEN size_per_line - 2 ^ Bits ELSE size_per_line
      n == Len(bytes)
      dump == FoldLeft(LAMBDA acc, i : dump_byte(d, bytes, per_line, acc, i), [start |-> 1, out |-> <<>>], [i \in 1..n |-> i])
      blanks == IF n > per_line THEN Max({0, per_line - (n - dump.start + 1)}) ELSE 0
  IN dump.out \o (IF d.ascii THEN Repeat(32, blanks * (IF d.delimiters THEN 3 ELSE 2)) \o ascii(bytes, dump.start, n) ELSE <<>>)

-----------------------------------------------------------------------------
Inside(s) == SubSeq(s, 2, Len(s) - 1)
Of(t, T) == [t |-> t, of |-> <<T>>, sep |-> <<47>>]
Pair(t, T) == [t |-> t, of |-> <<T, T>>]
Shown(r, vs) == [ok |-> r.ok, out |-> IF r.ok THEN [i \in DOMAIN vs |-> format(r.f, vs[i])] ELSE <<>>]
(* The fields compared below: a type, its specifications and values.       *)
Fields(T, specs, v) ==
  LET list == Of("sequence", T)
      colon == <<":">> \o specs
      default == IF T.t \in {"char", "string"} THEN <<":", "?">> ELSE <<":">>
      two == IF Len(v) = 2 THEN <<v>> ELSE <<>>
      chars == IF T.t = "char" THEN <<v>> ELSE <<>>
  IN [element |-> <<T, specs, v>>, list |-> <<list, colon, <<v>>>>, set |-> <<Of("set", T), colon, <<v>>>>,
      adaptor |-> <<Of("adaptor", T), <<"n">> \o colon, <<v>>>>, join |-> <<Of("join", T), specs, <<v>>>>,
      default |-> <<list, <<>>, <<v>>>>, explicit |-> <<list, default, <<v>>>>, bare |-> <<list, <<"n">>, <<v>>>>,
      quoted |-> <<list, <<>>, [i \in DOMAIN v |-> <<v[i]>>]>>,
      chars |-> <<list, <<"s">>, chars>>, debug |-> <<list, <<"?", "s">>, chars>>,
      text |-> <<[t |-> "string", of |-> <<>>], <<"?">>, chars>>,
      pairSpecs |-> <<Pair("tuple", T), specs, <<>>>>, mapSpecs |-> <<Pair("map", T), colon, <<>>>>,
      pair |-> <<Pair("tuple", T), <<>>, two>>, barePair |-> <<Pair("tuple", T), <<"n">>, two>>,
      map |-> <<Pair("map", T), <<":">>, [i \in DOMAIN two |-> <<v, v>>]>>,
      plain |-> <<T, <<>>, v>>, tupleJoin |-> <<[t |-> "tuple_join", of |-> <<T, T>>, sep |-> <<47>>], <<>>, two>>,
      string |-> <<[t |-> "range_string", of |-> <<>>], specs, IF T.t = "string" THEN v ELSE <<>>>>,
      debugString |-> <<[t |-> "debug_string", of |-> <<>>], specs, IF T.t = "string" THEN v ELSE <<>>>>]
Obeys(w, T, specs, v) ==
  LET Out(k) == w[k].out[1]
      Takes(k) == w[k].ok
      quoted(i) == Inside(w["quoted"].out[i])
  IN /\ Takes("element") = Takes("list") /\ Takes("element") = Takes("join")
     /\ Takes("element") => /\ Out("list") = <<91>> \o Joined(w["element"].out, Comma) \o <<93>>
                            /\ Out("set") = <<123>> \o Joined(w["element"].out, Comma) \o <<125>>
                            /\ Out("adaptor") = Joined(w["element"].out, Comma)
                            /\ Out("join") = Joined(w["element"].out, <<47>>)
     /\ Out("default") = Out("explicit") /\ Out("bare") = Inside(Out("default"))
     /\ Takes("chars") = (T.t = "char") /\ Takes("debug") = (T.t = "char")
     /\ T.t = "char" => Out("chars") = Quote \o v \o Quote /\ Out("debug") = Out("text")
     /\ Takes("pairSpecs") => specs \in {<<>>, <<"n">>}
     /\ Takes("mapSpecs") => specs = <<>>
     /\ T.t = "string" => /\ w["string"] = w["element"]
                          /\ w["debugString"] = [w["element"] EXCEPT !.out = [i \in DOMAIN @ |-> Quote \o @[i] \o Quote]]
     /\ Len(v) = 2 => /\ T.t \in Leaves => Out("tupleJoin") = Joined(w["plain"].out, <<47>>)
                      /\ Out("pair") = <<40>> \o Inside(Out("default")) \o <<41>>
                      /\ Out("barePair") = quoted(1) \o quoted(2)
                      /\ Out("map") = <<123>> \o Joined([i \in 1..2 |-> quoted(1) \o <<58, 32>> \o quoted(2)], Comma) \o <<125>>
ObeysFields(q, T, specs, v) == Obeys([k \in DOMAIN q |-> Shown(ReadField(q[k][1], q[k][2]), q[k][3])], T, specs, v)
(* What ranges promise. After a colon the elements are written as each of  *)
(* them is with the same specifications, and no others are taken; without  *)
(* one, characters and strings are quoted. n leaves the brackets out, s    *)
(* and ?s show characters as one text. Tuples, and the pairs of a map, are *)
(* written like a sequence of their elements and take no specifications, a *)
(* joined tuple writes each element as it is by itself, and a range that   *)
(* is a string is written like one.                                        *)
RangeWellWritten(T, specs, v) == ObeysFields(Fields(T, specs, v), T, specs, v)
(* The default output of a range tells its values apart: escaping keeps    *)
(* the quotes and commas of an element from passing for the range's own.   *)
RangeReadsBack(T, v, w) == v # w => Cardinality({format_custom(T, <<>>, x) : x \in {v, w}}) = 2

(* Two styles can be joined unless one has a terminal color where the      *)
(* other has a color; what is joined reads back from the escape sequences, *)
(* and the text after a style is in none.                                  *)
Clash(x, y) == \/ is_terminal_color(x) /\ y # 0
               \/ is_terminal_color(y) /\ x # 0
ReadCode(acc, u) == CASE u = 91 -> Append(acc, <<0>>)
                      [] u = 59 -> [acc EXCEPT ![Len(acc)] = Append(@, 0)]
                      [] u \in 48..57 -> [acc EXCEPT ![Len(acc)] = [@ EXCEPT ![Len(@)] = 10 * @ + u - 48]]
                      [] OTHER -> acc
ReadCodes(s) == FoldLeft(ReadCode, <<>>, s)
ColorCode(color, background) ==
  LET v == color_value(color) shifted == IF background THEN 10 ELSE 0
  IN IF is_terminal_color(color) THEN <<v + shifted>> ELSE <<38 + shifted, 2, v \div 65536, (v \div 256) % 256, v % 256>>
StyleWellWritten(x, y, s) ==
  LET ts == or_style(x, y)
      ems == SelectSeq(em_codes, LAMBDA c : \E i \in 1..8 : em_codes[i] = c /\ (Bit(x.em, i - 1) \/ Bit(y.em, i - 1)))
      shown == (IF ems # <<>> THEN <<ems>> ELSE <<>>) \o (IF ts.fg # 0 THEN <<ColorCode(ts.fg, FALSE)>> ELSE <<>>)
               \o (IF ts.bg # 0 THEN <<ColorCode(ts.bg, TRUE)>> ELSE <<>>)
  IN /\ cannot_or(x, y) = (Clash(x.fg, y.fg) \/ Clash(x.bg, y.bg))
     /\ ~cannot_or(x, y) =>
          /\ ReadCodes(vformat_styled(ts, s)) = IF shown = <<>> THEN <<>> ELSE Append(shown, <<0>>)
          /\ vformat_styled(ts, s) = format_styled_arg(ts, s)

(* A dump has its bytes in lines of at most size_per_line, each with its   *)
(* position, and the characters of all lines stand in one column.          *)
DumpLine(d, bytes, from, to, last, per_line) ==
  LET hex == Joined([i \in 1..(to - from + 1) |-> HexByte(bytes[from + i - 1])], IF d.delimiters THEN Blank ELSE <<>>)
      cell == IF d.delimiters THEN 3 ELSE 2
      column == IF from = 1 THEN Len(hex) ELSE cell * per_line - (cell - 2)
  IN put_newline(d, from - 1) \o hex
     \o (IF d.ascii THEN Repeat(32, column - Len(hex)) \o ascii(bytes, from, to) ELSE <<>>)
DumpWellWritten(flags, bytes, size_per_line) ==
  LET d == parse_dump(flags) n == Len(bytes)
      per_line == Max({1, size_per_line})
      lines == (n + per_line - 1) \div per_line
      Line(k) == DumpLine(d, bytes, (k - 1) * per_line + 1, Min({k * per_line, n}), k = lines, per_line)
      flat == Joined([i \in 1..n |-> HexByte(bytes[i])], IF d.delimiters THEN Blank ELSE <<>>)
  IN /\ d.ascii = ("a" \in Range(flags) /\ "n" \notin Range(flags))
     /\ n > 0 => format_dump(d, bytes, size_per_line) = IF d.newlines THEN FlattenSeq([k \in 1..lines |-> Line(k)]) ELSE flat
=============================================================================
