------------------------------ MODULE FmtParse ------------------------------
(***************************************************************************)
(* Format strings of the bundled fmt library (base.h, format.h,            *)
(* compile.h). The same string is read by three readers that share one     *)
(* grammar: the compile-time checker ("check"), the run-time formatter     *)
(* ("run") and the compiler of FMT_COMPILE ("compile"). A text is a        *)
(* sequence of code units; "lead" and "trail" are the two units of a       *)
(* two-byte code point. A reader is a record z that the operators pass on: *)
(*   p      the position of begin      next  next_arg_id_                  *)
(*   err    the first error reported, which ends the reading               *)
(*   id,ref the last argument named    val   the last number read          *)
(*   sp,st  specs and enter_state      out   what has been emitted         *)
(* e is what does not change: the text, the arguments and the reader.      *)
(***************************************************************************)
EXTENDS Integers, Sequences
CONSTANTS MaxInt,  \* INT_MAX, scaled down
          Digits10 \* numbers of so many digits always fit in an int
ASSUME IntWidth == 10 ^ Digits10 <= MaxInt /\ MaxInt < 10 ^ (Digits10 + 1)

Digits == [d \in {"0","1","2","3","9"} |->
             CASE d = "0" -> 0 [] d = "1" -> 1 [] d = "2" -> 2 [] d = "3" -> 3 [] d = "9" -> 9]
IsDigit(c) == c \in DOMAIN Digits
is_name_start(c) == c \in {"a", "b"}
IsAlign(c) == c \in {"<", ">", "^"}
code_point_length(c) == IF c = "lead" THEN 2 ELSE 1

SintSet == {"int", "long_long"}
FloatSet == {"float"}
StringSet == {"string", "cstring"}
is_integral_type(t) == t \in {"int", "uint", "long_long", "ulong_long", "bool", "char"}
is_arithmetic_type(t) == is_integral_type(t) \/ t = "float"
IntegralSet == {"int", "uint", "long_long", "ulong_long", "bool", "char"}

(* A letter that ends a specification, and the types it may present.       *)
Presentation == [c \in {"d", "x", "c", "s", "p", "?", "f"} |->
   CASE c \in {"d", "x"} -> IntegralSet
     [] c = "c" -> IntegralSet \ {"bool"}
     [] c = "s" -> {"bool"} \cup StringSet
     [] c = "p" -> {"pointer", "cstring"}
     [] c = "?" -> {"char"} \cup StringSet
     [] c = "f" -> FloatSet]

None == [k |-> "none"]
Index(i) == [k |-> "index", i |-> i]
Name(n) == [k |-> "name", n |-> n]
NoSpecs == [type |-> "none", align |-> "none", sign |-> "none", alt |-> FALSE, loc |-> FALSE,
            fill |-> <<" ">>, width |-> 0, precision |-> -1, wref |-> None, pref |-> None]
Reader == [p |-> 1, next |-> 0, err |-> "", id |-> 0, ref |-> None, val |-> 0,
           sp |-> NoSpecs, st |-> 0, out |-> <<>>, unknown |-> FALSE]

At(e, p) == IF p <= Len(e.text) THEN e.text[p] ELSE "end"
Fail(z, why) == [z EXCEPT !.err = why]
Then(z, Op(_)) == IF z.err # "" THEN z ELSE Op(z)
Skip(z, n) == [z EXCEPT !.p = @ + n]
Emit(z, x) == [z EXCEPT !.out = Append(@, x)]
Text(z, c) == Emit(z, [text |-> c])

-----------------------------------------------------------------------------
(* parse_nonnegative_int: where the digits end and what they say, -1 when  *)
(* that does not fit in an int.                                            *)
RECURSIVE NumberFrom(_, _, _)
NumberFrom(e, p, v) == IF IsDigit(At(e, p)) THEN NumberFrom(e, p + 1, v * 10 + Digits[At(e, p)])
                       ELSE [end |-> p, value |-> v]
parse_nonnegative_int(e, p) ==
  LET n == NumberFrom(e, p, 0) len == n.end - p
  IN [n EXCEPT !.value = IF len <= Digits10 \/ (len = Digits10 + 1 /\ @ <= MaxInt) THEN @ ELSE -1]

(* parse_context and compile_parse_context: argument numbers are automatic *)
(* or manual, and only a compile-time reader knows how many there are.     *)
NumArgs(e) == IF e.reader = "compile" THEN MaxInt ELSE Len(e.args)
do_check_arg_id_off_by_one(e, z) == IF e.reader # "run" /\ z.id > NumArgs(e) THEN Fail(z, "argument not found") ELSE z
do_check_arg_id(e, z) == IF e.reader # "run" /\ z.id >= NumArgs(e) THEN Fail(z, "argument not found") ELSE z
next_arg_id(e, z) ==
  IF z.next < 0 THEN Fail(z, "manual to automatic")
  ELSE do_check_arg_id(e, [z EXCEPT !.id = z.next, !.next = @ + 1, !.ref = Index(z.next)])
check_arg_id(e, z, id) ==
  IF z.next > 0 THEN Fail(z, "automatic to manual")
  ELSE do_check_arg_id(e, [z EXCEPT !.id = id, !.next = -1, !.ref = Index(id)])
check_arg_name(z, n) == [z EXCEPT !.next = -1, !.ref = Name(n)]
check_dynamic_spec(e, z) ==
  IF e.reader = "check" /\ z.id < Len(e.args) /\ ~is_integral_type(e.args[z.id + 1].type)
  THEN Fail(z, "width/precision is not integer") ELSE z

(* parse_arg_id: a number or a name; the handler gets it as z.ref.         *)
RECURSIVE NameEnd(_, _)
NameEnd(e, p) == IF is_name_start(At(e, p)) \/ IsDigit(At(e, p)) THEN NameEnd(e, p + 1) ELSE p
parse_arg_id(e, z) ==
  LET c == At(e, z.p)
      n == IF c = "0" THEN [end |-> z.p + 1, value |-> 0] ELSE parse_nonnegative_int(e, z.p)
      q == NameEnd(e, z.p)
  IN CASE IsDigit(c) -> IF At(e, n.end) \in {"}", ":"}
                        THEN [z EXCEPT !.p = n.end, !.ref = Index(IF n.value = -1 THEN MaxInt ELSE n.value)]
                        ELSE Fail(z, "invalid format string")
       [] is_name_start(c) -> [z EXCEPT !.p = q, !.ref = Name(SubSeq(e.text, z.p, q - 1))]
       [] OTHER -> Fail(z, "invalid format string")

(* parse_dynamic_spec: integer | "{" [arg_id] "}".                         *)
dynamic_spec_handler(e, z) ==
  IF z.ref.k = "name" THEN check_arg_name(z, z.ref.n)
  ELSE Then(check_arg_id(e, z, z.ref.i), LAMBDA y : check_dynamic_spec(e, y))
CloseBrace(e, z) == IF At(e, z.p) = "}" THEN Skip(z, 1) ELSE Fail(z, "invalid format string")
parse_dynamic_spec(e, z) ==
  LET n == parse_nonnegative_int(e, z.p)
      d == At(e, z.p + 1)
      named == IF d \in {"}", ":"}
               THEN Then(next_arg_id(e, Skip(z, 1)), LAMBDA y : check_dynamic_spec(e, y))
               ELSE Then(parse_arg_id(e, Skip(z, 1)), LAMBDA y : dynamic_spec_handler(e, y))
  IN CASE IsDigit(At(e, z.p)) -> IF n.value = -1 THEN Fail(z, "number is too big")
                                 ELSE [z EXCEPT !.p = n.end, !.val = n.value, !.ref = None]
       [] At(e, z.p) = "{" /\ d # "end" -> Then(named, LAMBDA y : CloseBrace(e, y))
       [] OTHER -> Fail(z, "invalid format string")
parse_width(e, z) == Then(parse_dynamic_spec(e, z),
  LAMBDA y : [y EXCEPT !.sp.wref = y.ref, !.sp.width = IF y.ref = None THEN y.val ELSE @])
parse_precision(e, z) ==
  IF At(e, z.p + 1) = "end" THEN Fail(z, "invalid precision")
  ELSE Then(parse_dynamic_spec(e, Skip(z, 1)),
            LAMBDA y : [y EXCEPT !.sp.pref = y.ref, !.sp.precision = IF y.ref = None THEN y.val ELSE @])

-----------------------------------------------------------------------------
(* parse_format_specs: the parts of a specification come in the order of   *)
(* enter_state's numbers, and only those the argument's type allows.       *)
enter_state(z, s, valid) == IF z.st >= s \/ ~valid THEN Fail(z, "invalid format specifier") ELSE [z EXCEPT !.st = s]
parse_presentation_type(e, z, c, t) ==
  IF t \notin Presentation[c] THEN Fail(z, "invalid format specifier") ELSE [Skip(z, 1) EXCEPT !.sp.type = c]
parse_fill(e, z) ==
  LET q == z.p + code_point_length(At(e, z.p))
  IN CASE At(e, q) = "end" -> Fail(z, "invalid format specifier")
       [] At(e, z.p) = "{" -> Fail(z, "invalid fill character")
       [] OTHER -> Then(enter_state(z, 1, IsAlign(At(e, q))),
            LAMBDA y : [y EXCEPT !.sp.fill = SubSeq(e.text, z.p, q - 1), !.sp.align = At(e, q), !.p = q + 1])
ZeroFlag(z, t) ==
  IF ~is_arithmetic_type(t) THEN Fail(z, "format specifier requires numeric argument")
  ELSE IF z.sp.align # "none" THEN Skip(z, 1)
  ELSE [Skip(z, 1) EXCEPT !.sp.align = "numeric", !.sp.fill = <<"0">>]
(* The flag c, or "fill" when an alignment follows the next character.     *)
parse_flag(e, z, c, t) ==
  CASE IsAlign(c) -> Then(enter_state(z, 1, TRUE), LAMBDA y : [Skip(y, 1) EXCEPT !.sp.align = c])
    [] c \in {"+", "-"} -> Then(enter_state(z, 2, t \in SintSet \cup FloatSet),
                                LAMBDA y : [Skip(y, 1) EXCEPT !.sp.sign = IF c = "+" THEN "plus" ELSE @])
    [] c = "#" -> Then(enter_state(z, 3, is_arithmetic_type(t)), LAMBDA y : [Skip(y, 1) EXCEPT !.sp.alt = TRUE])
    [] c = "0" -> Then(enter_state(z, 4, TRUE), LAMBDA y : ZeroFlag(y, t))
    [] c = "{" \/ IsDigit(c) -> Then(enter_state(z, 5, TRUE), LAMBDA y : parse_width(e, y))
    [] c = "." -> Then(enter_state(z, 6, t \in FloatSet \cup StringSet), LAMBDA y : parse_precision(e, y))
    [] c = "L" -> Then(enter_state(z, 7, is_arithmetic_type(t)), LAMBDA y : [Skip(y, 1) EXCEPT !.sp.loc = TRUE])
    [] OTHER -> parse_fill(e, z)
RECURSIVE specs_loop(_, _, _, _)
specs_loop(e, z, c, t) ==
  CASE c \in DOMAIN Presentation -> parse_presentation_type(e, z, c, t)
    [] At(e, z.p) = "}" -> z
    [] OTHER -> Then(parse_flag(e, z, c, t),
                     LAMBDA y : IF At(e, y.p) = "end" THEN y ELSE specs_loop(e, y, At(e, y.p), t))
parse_format_specs(e, z, t) ==
  IF At(e, z.p) = "end" THEN z
  ELSE specs_loop(e, z, IF IsAlign(At(e, z.p + 1)) THEN "fill" ELSE At(e, z.p), t)
check_char_specs(z) ==
  IF z.sp.type \in {"none", "c", "?"} /\ (z.sp.align = "numeric" \/ z.sp.sign # "none" \/ z.sp.alt)
  THEN Fail(z, "invalid format specifier for char") ELSE z
(* formatter<T>::parse, which the two compile-time readers call.           *)
native_parse(e, z, t) ==
  IF At(e, z.p) \in {"end", "}"} THEN z
  ELSE Then(parse_format_specs(e, z, t), LAMBDA y : IF t = "char" THEN check_char_specs(y) ELSE y)

-----------------------------------------------------------------------------
(* handle_dynamic_spec: the width or precision an argument gives.          *)
NameIds(e, n) == {i \in 1..Len(e.args) : e.args[i].name = n}
StaticIds(e, n) == {i \in NameIds(e, n) : e.args[i].static}
Least(S) == CHOOSE i \in S : \A j \in S : i <= j
HandleDynamicSpec(e, z, ref) ==
  LET ids == IF ref.k = "index" THEN {ref.i + 1} \cap 1..Len(e.args) ELSE NameIds(e, ref.n)
      arg == e.args[Least(ids)]
  IN CASE ids = {} -> Fail(z, IF ref.k = "name" THEN "dynamic name" ELSE "argument not found")
       [] arg.type \notin {"int", "uint"} -> Fail(z, "dynamic type")
       [] arg.value < 0 \/ arg.value > MaxInt -> Fail(z, "dynamic range")
       [] OTHER -> [z EXCEPT !.val = arg.value]
handle_width(e, z) == IF z.sp.wref = None THEN z ELSE Then(HandleDynamicSpec(e, z, z.sp.wref),
                        LAMBDA y : [y EXCEPT !.sp.width = y.val, !.sp.wref = None])
handle_precision(e, z) == IF z.sp.pref = None THEN z ELSE Then(HandleDynamicSpec(e, z, z.sp.pref),
                        LAMBDA y : [y EXCEPT !.sp.precision = y.val, !.sp.pref = None])
(* Formatting an argument with its specifications; a character checks them *)
(* once more when it is written.                                           *)
FormatArg(e, z, i) == Then(Then(handle_width(e, z), LAMBDA y : handle_precision(e, y)),
  LAMBDA y : LET w == IF e.args[i + 1].type = "char" THEN check_char_specs(y) ELSE y
             IN Then(w, LAMBDA x : Emit(x, [arg |-> i, sp |-> x.sp])))

(* The handlers of parse_format_string: format_string_checker and          *)
(* format_handler. An argument the checker does not know is -1, and its    *)
(* specification is skipped bracket by bracket.                            *)
on_arg_id(e, z) == Then(next_arg_id(e, z), LAMBDA y : do_check_arg_id(e, y))
on_arg_index(e, z, id) == Then(check_arg_id(e, z, id), LAMBDA y : do_check_arg_id(e, y))
on_arg_name(e, z, n) ==
  IF e.reader = "run"
  THEN IF NameIds(e, n) = {} THEN Fail(z, "argument not found")
       ELSE [check_arg_name(z, n) EXCEPT !.id = Least(NameIds(e, n)) - 1]
  ELSE IF StaticIds(e, n) # {} THEN [z EXCEPT !.id = Least(StaticIds(e, n)) - 1]
  ELSE IF \E i \in 1..Len(e.args) : e.args[i].name # <<>> /\ ~e.args[i].static THEN [z EXCEPT !.id = -1]
  ELSE Fail(z, "argument not found")
RECURSIVE skip_specs(_, _, _)
skip_specs(e, z, depth) ==
  LET c == At(e, z.p)
  IN IF c = "end" \/ (depth <= 0 /\ c = "}") THEN z
     ELSE skip_specs(e, Skip(z, 1), depth + (IF c = "{" THEN 1 ELSE IF c = "}" THEN -1 ELSE 0))
on_format_specs(e, z) ==
  LET y == [z EXCEPT !.sp = NoSpecs, !.st = 0] t == e.args[z.id + 1].type i == z.id
  IN IF e.reader = "check"
     THEN IF z.id \in 0..(Len(e.args) - 1) THEN native_parse(e, y, t) ELSE skip_specs(e, y, 0)
     ELSE IF z.id >= Len(e.args) THEN Fail(z, "argument not found")
     ELSE Then(parse_format_specs(e, y, t), LAMBDA x : FormatArg(e, x, i))
on_replacement_field(e, z) ==
  IF e.reader = "check" THEN z
  ELSE IF z.id >= Len(e.args) THEN Fail(z, "argument not found") ELSE Emit(z, [arg |-> z.id, sp |-> NoSpecs])
on_text(e, z, c) == Text(z, c)

id_adapter(e, z) == IF z.ref.k = "name" THEN on_arg_name(e, z, z.ref.n) ELSE on_arg_index(e, z, z.ref.i)
FieldSpecs(e, z) == Then(on_format_specs(e, Skip(z, 1)),
  LAMBDA y : IF At(e, y.p) = "}" THEN Skip(y, 1) ELSE Fail(y, "unknown format specifier"))
AfterId(e, z) == CASE At(e, z.p) = "}" -> Then(on_replacement_field(e, z), LAMBDA y : Skip(y, 1))
                   [] At(e, z.p) = ":" -> FieldSpecs(e, z)
                   [] OTHER -> Fail(z, "missing '}'")
parse_replacement_field(e, z) ==
  LET c == At(e, z.p + 1) y == Skip(z, 1)
  IN CASE c = "end" -> Fail(z, "invalid format string")
       [] c = "{" -> on_text(e, Skip(y, 1), "{")
       [] c \in {"}", ":"} -> Then(on_arg_id(e, y), LAMBDA x : AfterId(e, x))
       [] OTHER -> Then(Then(parse_arg_id(e, y), LAMBDA x : id_adapter(e, x)), LAMBDA x : AfterId(e, x))
RECURSIVE parse_format_string(_, _)
parse_format_string(e, z) ==
  LET c == At(e, z.p)
      y == CASE c = "{" -> parse_replacement_field(e, z)
             [] c = "}" -> IF At(e, z.p + 1) = "}" THEN on_text(e, Skip(z, 2), "}") ELSE Fail(z, "unmatched '}'")
             [] OTHER -> on_text(e, Skip(z, 1), c)
  IN IF c = "end" THEN z ELSE Then(y, LAMBDA x : parse_format_string(e, x))

-----------------------------------------------------------------------------
(* compile.h: FMT_COMPILE reads the text itself, with an argument counter  *)
(* that the specifications continue. z.next is ID, -1 manual_indexing_id.  *)
parse_specs_drops_next(e, z, t) ==
  Then(native_parse(e, [z EXCEPT !.next = IF @ = -1 THEN 0 ELSE @, !.sp = NoSpecs, !.st = 0], t),
       LAMBDA y : [y EXCEPT !.next = z.next])
parse_specs(e, z, t) ==
  LET from == IF z.next = -1 THEN 0 ELSE z.next
  IN Then(native_parse(e, [z EXCEPT !.next = from, !.sp = NoSpecs, !.st = 0], t),
          LAMBDA y : IF from = 0 THEN [y EXCEPT !.next = -1]
                     ELSE IF y.next < 0 THEN Fail(y, "manual to automatic") ELSE y)
field_then_tail(e, z, i) ==
  CASE i >= Len(e.args) -> Fail(z, "argument not found")
    [] At(e, z.p) = "}" -> Emit(Skip(z, 1), [arg |-> i, sp |-> NoSpecs])
    [] At(e, z.p) = ":" -> Then(parse_specs(e, Skip(z, 1), e.args[i + 1].type),
         LAMBDA y : IF At(e, y.p) # "}" THEN Fail(y, "expected '}'")
                    ELSE Emit(Skip(y, 1), [arg |-> i, sp |-> y.sp]))
    [] OTHER -> Fail(z, "expected ':'")
NextId(z) == [z EXCEPT !.next = IF @ = -1 THEN -1 ELSE @ + 1]
compiled_field(e, z) ==
  LET c == At(e, z.p)
  IN CASE z.ref.k = "index" ->
            IF z.next > 0 THEN Fail(z, "automatic to manual")
            ELSE field_then_tail(e, [z EXCEPT !.next = -1], z.ref.i)
       [] StaticIds(e, z.ref.n) # {} -> field_then_tail(e, NextId(z), Least(StaticIds(e, z.ref.n)) - 1)
       [] c = "}" -> Emit(Skip(z, 1), [named |-> z.ref.n])
       [] c = ":" -> [z EXCEPT !.unknown = TRUE, !.p = Len(e.text) + 1]
RECURSIVE compile_format_string(_, _)
compile_format_string(e, z) ==
  LET c == At(e, z.p) d == At(e, z.p + 1)
      y == CASE c = "{" /\ d = "end" -> Fail(z, "unmatched '{'")
             [] c = "{" /\ d = "{" -> Text(Skip(z, 2), "{")
             [] c = "{" /\ d \in {"}", ":"} -> IF z.next = -1 THEN Fail(z, "manual to automatic")
                                               ELSE field_then_tail(e, Skip(NextId(z), 1), z.next)
             [] c = "{" -> Then(parse_arg_id(e, Skip(z, 1)),
                  LAMBDA x : IF At(e, x.p) \in {"}", ":"} THEN compiled_field(e, x) ELSE Fail(x, "missing '}'"))
             [] c = "}" -> IF d = "end" THEN Fail(z, "unmatched '}'") ELSE Text(Skip(z, 2), "}")
             [] OTHER -> Text(Skip(z, 1), c)
  IN IF c = "end" THEN z ELSE Then(y, LAMBDA x : compile_format_string(e, x))

(* Formatting with the compiled parts: spec_field, runtime_named_field.    *)
FormatPart(e, z, x) ==
  IF "text" \in DOMAIN x THEN Emit(z, x)
  ELSE IF "named" \in DOMAIN x
  THEN IF NameIds(e, x.named) = {} THEN Fail(z, "argument not found")
       ELSE Emit(z, [arg |-> Least(NameIds(e, x.named)) - 1, sp |-> NoSpecs])
  ELSE FormatArg(e, [z EXCEPT !.sp = x.sp], x.arg)
RECURSIVE format_compiled(_, _, _)
format_compiled(e, z, parts) ==
  IF parts = <<>> THEN z
  ELSE Then(FormatPart(e, z, Head(parts)), LAMBDA y : format_compiled(e, y, Tail(parts)))

-----------------------------------------------------------------------------
(* The three readers on one text and its arguments.                        *)
Env(text, args, reader) == [text |-> text, args |-> args, reader |-> reader]
check(text, args) == parse_format_string(Env(text, args, "check"), Reader)
vformat_to(text, args) == parse_format_string(Env(text, args, "run"), Reader)
compile(text, args) == compile_format_string(Env(text, args, "compile"), Reader)
WithCompiled(cf, text, args) ==
  IF cf.err # "" THEN cf ELSE IF cf.unknown THEN vformat_to(text, args)
  ELSE format_compiled(Env(text, args, "run"), Reader, cf.out)
format_to(text, args) == WithCompiled(compile(text, args), text, args)

Names(args) == {i \in 1..Len(args) : args[i].name # <<>>}
(* Whether a text refers to a name, whether it counts on automatic numbers.*)
UsesName(text) == \E i \in 1..Len(text) : is_name_start(text[i]) /\ i > 1 /\ text[i - 1] = "{"
UsesAuto(text) == \E i \in 1..(Len(text) - 1) : text[i] = "{" /\ text[i + 1] \in {"}", ":"}

MayReport(err, text) ==
  \/ err \in {"", "dynamic name", "dynamic type", "dynamic range"}
  \/ UsesName(text) /\ UsesAuto(text) /\ err \in {"manual to automatic", "automatic to manual"}
(* A format string the compile-time checker accepts can still fail when it *)
(* is used, but only through what the checker does not look at: the value, *)
(* the exact type (bool, char) and the name of a dynamic width, and        *)
(* names mixed with automatic numbers, which format_handler rejects and    *)
(* format_string_checker does not (format_handler::on_arg_id(name) calls   *)
(* check_arg_id, format_string_checker::on_arg_id(name) does not).         *)
AcceptedStringsFormat(text, args) ==
  (\A i \in Names(args) : args[i].static) /\ check(text, args).err = ""
    => MayReport(vformat_to(text, args).err, text)
SameOutput(c, r) == c.err = "" /\ r.err = "" => c.out = r.out
(* FMT_COMPILE writes what the run-time formatter writes, whenever both    *)
(* take the string: the same text, the same arguments in the same places   *)
(* and the same specifications, although compile_format_string counts the  *)
(* automatic arguments itself and hands the count to every specification.  *)
CompiledAgrees(text, args) == SameOutput(format_to(text, args), vformat_to(text, args))
=============================================================================
