-------------------------- MODULE PatternFormatter --------------------------
(***************************************************************************)
(* pattern_formatter: a pattern is compiled to a list of flag formatters;  *)
(* format runs them in order over a message, with the calendar time it     *)
(* caches by the second.  %z, %+ and the elapsed-time flags keep state of  *)
(* their own.                                                              *)
(***************************************************************************)
EXTENDS Text, FiniteSets, SequencesExt

CONSTANTS Characters,       \* what patterns are made of
          Patterns,         \* patterns, as sequences of characters
          Repatterns,       \* patterns that set_pattern is given
          Messages,         \* log_msg: time in secs and nanos, name, level, thread_id, payload, source
          localtime, gmtime,\* calendar times of the seconds in Messages
          Pid,
          Now,              \* the clock, in seconds, when a formatter is constructed
          CustomFlags,      \* characters with a custom_flag_formatter
          Keys,             \* mdc keys, in the order of the map
          MaxFormats        \* bound: calls of format

(* The log clock counts nanoseconds from 1970 in 64 bits: no second is     *)
(* beyond 2262.                                                            *)
ASSUME PatternsAssumption == "%" \in Characters /\ Patterns \cup Repatterns \subseteq Seq(Characters)
ASSUME SecondsAssumption == \A m \in Messages : m.secs \in Nat
ASSUME MessagesAssumption ==
    \A m \in Messages :
        /\ m.secs \div 10 ^ 9 < 10 /\ m.nanos \in 0 .. 10 ^ 9 - 1
        /\ m.level \in 0 .. 6 /\ m.line \in Int /\ m.thread_id \in Nat
        /\ \A text \in {m.name, m.payload, m.file, m.func} : text \in Seq(Range(text))

Offsets == -1440 .. 1440    \* of a time zone, in minutes
CalendarTime(tm) ==
    /\ tm.year \in 70 .. 362 /\ tm.mon \in 0 .. 11 /\ tm.mday \in 1 .. 31 /\ tm.wday \in 0 .. 6
    /\ tm.hour \in 0 .. 23 /\ tm.min \in 0 .. 59 /\ tm.sec \in 0 .. 60
    /\ tm.gmtoff \in Int /\ tm.gmtoff \div 60 \in Offsets
ASSUME TimesAssumption ==
    \A m \in Messages : CalendarTime(localtime[m.secs]) /\ CalendarTime(gmtime[m.secs])
ASSUME EnvironmentAssumption == Pid \in Nat /\ Now \in Nat /\ Keys \in Seq(Range(Keys))
ASSUME MaxFormatsAssumption == MaxFormats \in Nat

VARIABLES
    pattern, formatters,        \* pattern_, formatters_ with the state of each
    need_localtime,             \* need_localtime_
    last_log_secs, cached_tm,   \* last_log_secs_, cached_tm_
    utc,                        \* pattern_time_type_
    mdc,                        \* the thread's diagnostic context
    \* history
    last,                       \* message of the last format, and the context it saw
    dest, range,                \* its text, and color_range_start and _end
    steps,                      \* what each formatter made of it
    seen                        \* seconds the cache has been asked for

vars == <<pattern, formatters, need_localtime, last_log_secs, cached_tm, utc, mdc,
          last, dest, range, steps, seen>>

-----------------------------------------------------------------------------
(* padding_info *)
NoPad == [enabled |-> FALSE, width |-> 0, side |-> "left", truncate |-> FALSE]
padding_info(width, side, truncate) ==
    [enabled |-> TRUE, width |-> width, side |-> side, truncate |-> truncate]

DigitChars == <<"0", "1", "2", "3", "4", "5", "6", "7", "8", "9">>
isdigit(c) == c \in Range(DigitChars)
DigitValue(c) == CHOOSE v \in 0 .. 9 : DigitChars[v + 1] = c

(* First position from i on that is not in S.                              *)
SkipWhile(p, i, S) == CHOOSE j \in i .. Len(p) + 1 : /\ j = Len(p) + 1 \/ p[j] \notin S
                                                     /\ \A k \in i .. j - 1 : p[k] \in S

MaxWidth == 64

Width(p, i, j) == LET value[k \in i .. j] == IF k = i THEN 0 ELSE 10 * value[k - 1] + DigitValue(p[k - 1])
                  IN  IF value[j] < MaxWidth THEN value[j] ELSE MaxWidth

(* handle_padspec_ that leaves the truncate marker for the flag.           *)
handle_padspec_bang(p, it) ==
    LET side   == IF it <= Len(p) /\ p[it] \in {"-", "="} THEN p[it] ELSE ""
        first  == IF side = "" THEN it ELSE it + 1
        after  == SkipWhile(p, first, Range(DigitChars))
        digits == first <= Len(p) /\ after > first
    IN  [it  |-> after,
         pad |-> IF digits THEN padding_info(Width(p, first, after),
                                  CASE side = "-" -> "right" [] side = "=" -> "center" [] OTHER -> "left",
                                  after <= Len(p) /\ p[after] = "!")
                 ELSE NoPad]

(* handle_padspec_: the padding, and where the flag is.  Without a digit   *)
(* there is no padding, and a side mark is skipped all the same.           *)
handle_padspec_(p, it) ==
    LET side   == IF it <= Len(p) /\ p[it] \in {"-", "="} THEN p[it] ELSE ""
        first  == IF side = "" THEN it ELSE it + 1
        after  == SkipWhile(p, first, Range(DigitChars))
        digits == first <= Len(p) /\ after > first
        bang   == digits /\ after <= Len(p) /\ p[after] = "!"
    IN  [it  |-> IF bang THEN after + 1 ELSE after,
         pad |-> IF digits THEN padding_info(Width(p, first, after),
                                  CASE side = "-" -> "right" [] side = "=" -> "center" [] OTHER -> "left",
                                  bang)
                 ELSE NoPad]

(* State of a flag formatter: a time, an offset, a text.                   *)
Fresh == [secs |-> 0, nanos |-> 0, offset |-> 0, text |-> <<>>]
ElapsedFlags == {"u", "i", "o", "O"}
Formatter(flag, pad) == [flag |-> flag, pad |-> pad, chars |-> <<>>,
                         st |-> IF flag \in ElapsedFlags THEN [Fresh EXCEPT !.secs = Now] ELSE Fresh]
Literal(chars) == [Formatter("chars", NoPad) EXCEPT !.chars = chars]
Custom(flag, pad) == [Formatter("custom", pad) EXCEPT !.chars = <<flag>>]

TimeFlags == {"+", "a", "A", "b", "B", "c", "C", "Y", "D", "m", "d", "H", "I", "M", "S",
              "p", "r", "R", "T", "z"}
OtherFlags == {"n", "l", "L", "t", "v", "e", "f", "F", "E", "P", "^", "$", "@", "s", "g", "#", "!", "&"}
             \cup ElapsedFlags
Alias(flag) == CASE flag = "h" -> "b" [] flag = "x" -> "D" [] flag = "X" -> "T" [] OTHER -> flag

(* handle_flag_.  A custom flag hides a built-in one.  An unknown flag     *)
(* stands for itself; after a truncate mark the mark was the flag "!" and  *)
(* the character is text.                                                  *)
handle_flag_(flag, pad) ==
    CASE flag \in CustomFlags                          -> <<Custom(flag, pad)>>
      [] flag \notin CustomFlags /\ Alias(flag) \in TimeFlags \cup OtherFlags
                                                       -> <<Formatter(Alias(flag), pad)>>
      [] flag \notin CustomFlags /\ flag = "%"         -> <<Literal(<<"%">>)>>
      [] OTHER -> IF pad.truncate
                  THEN <<Formatter("!", [pad EXCEPT !.truncate = FALSE]), Literal(<<flag>>)>>
                  ELSE <<Literal(<<"%", flag>>)>>

(* compile_pattern_: runs of characters between the flags are one literal; *)
(* a flag cut off by the end of the pattern is dropped.                    *)
compile_pattern_(p) ==
    LET from[i \in 1 .. Len(p) + 1] ==
            IF i > Len(p) THEN <<>>
            ELSE IF p[i] # "%"
            THEN LET j == CHOOSE k \in i + 1 .. Len(p) + 1 :
                              (k = Len(p) + 1 \/ p[k] = "%") /\ \A n \in i .. k - 1 : p[n] # "%"
                 IN  <<Literal(SubSeq(p, i, j - 1))>> \o from[j]
            ELSE LET spec == handle_padspec_(p, i + 1)
                 IN  IF spec.it > Len(p) THEN <<>>
                     ELSE handle_flag_(p[spec.it], spec.pad) \o from[spec.it + 1]
    IN  from[1]

(* need_localtime_ as the built-in flags set it.                           *)
NeedsTime(fs) == \E i \in DOMAIN fs : fs[i].flag \in TimeFlags

-----------------------------------------------------------------------------
(* What a flag writes, and the size it announces to the padder.            *)
Out(size, text) == [size |-> size, text |-> text]
Whole(text) == Out(Len(text), text)

LevelNameLen == <<5, 5, 4, 7, 5, 8, 3>>

name_level_text(flag, m) ==
    CASE flag = "n" -> Whole(m.name)
      [] flag = "l" -> Whole(Str(<<"level", m.level>>, LevelNameLen[m.level + 1]))
      [] flag = "L" -> Whole(Str(<<"L", m.level>>, 1))

payload_text(m) == Whole(m.payload)

literal_text(f) == [i \in DOMAIN f.chars |-> <<f.chars[i], 0>>]

color_range(flag, range0, at) == IF flag = "^" THEN <<at, range0[2]>> ELSE <<range0[1], at>>

FullDayLen == <<6, 6, 7, 9, 8, 6, 8>>
FullMonthLen == <<7, 8, 5, 5, 3, 4, 4, 6, 9, 7, 8, 8>>
DayName(tm) == Str(<<"day", tm.wday>>, 3)
MonthName(tm) == Str(<<"month", tm.mon>>, 3)

day_month_text(flag, tm) ==
    CASE flag = "a" -> Whole(DayName(tm))
      [] flag = "A" -> Whole(Str(<<"full_day", tm.wday>>, FullDayLen[tm.wday + 1]))
      [] flag = "b" -> Whole(MonthName(tm))
      [] flag = "B" -> Whole(Str(<<"full_month", tm.mon>>, FullMonthLen[tm.mon + 1]))

Join2(a, b, sep) == a \o Chr(sep) \o b
Join3(a, b, c, sep) == Join2(Join2(a, b, sep), c, sep)

Clock24(tm) == Join3(pad2(tm.hour), pad2(tm.min), pad2(tm.sec), ":")

(* %c announces 24 characters; a day of one digit makes it 23.             *)
date_text(flag, tm) ==
    CASE flag = "c" -> Out(24, Join3(Join3(DayName(tm), MonthName(tm), append_int(tm.mday), " "),
                                     Clock24(tm), append_int(tm.year + 1900), " "))
      [] flag = "C" -> Out(2, pad2(tm.year % 100))
      [] flag = "D" -> Out(8, Join3(pad2(tm.mon + 1), pad2(tm.mday), pad2(tm.year % 100), "/"))
      [] flag = "Y" -> Out(4, append_int(tm.year + 1900))
      [] flag = "m" -> Out(2, pad2(tm.mon + 1))
      [] flag = "d" -> Out(2, pad2(tm.mday))

ampm(tm) == Str(IF tm.hour >= 12 THEN "PM" ELSE "AM", 2)
to12h(tm) == IF tm.hour > 12 THEN tm.hour - 12 ELSE tm.hour

hour_text(flag, tm) ==
    CASE flag = "H" -> Out(2, pad2(tm.hour))
      [] flag = "I" -> Out(2, pad2(to12h(tm)))
      [] flag = "M" -> Out(2, pad2(tm.min))
      [] flag = "S" -> Out(2, pad2(tm.sec))

clock_text(flag, tm) ==
    CASE flag = "p" -> Out(2, ampm(tm))
      [] flag = "r" -> Out(11, Join2(Join3(pad2(to12h(tm)), pad2(tm.min), pad2(tm.sec), ":"), ampm(tm), " "))
      [] flag = "R" -> Out(5, Join2(pad2(tm.hour), pad2(tm.min), ":"))
      [] flag = "T" -> Out(8, Clock24(tm))

(* time_fraction, in 10^-w seconds.                                        *)
time_fraction(m, w) == m.nanos \div 10 ^ (9 - w)

fraction_text(flag, m) ==
    CASE flag = "e" -> Out(3, pad3(time_fraction(m, 3)))
      [] flag = "f" -> Out(6, pad_uint(time_fraction(m, 6), 6))
      [] flag = "F" -> Out(9, pad_uint(time_fraction(m, 9), 9))
      [] flag = "E" -> Out(10, append_int(m.secs))

id_text(flag, m) == LET n == IF flag = "t" THEN m.thread_id ELSE Pid
                    IN  Out(count_digits_fallback[n], append_int(n))

(* basename: what follows the last separator.                              *)
basename(file) == SubSeq(file, SelectLastInSeq(file, LAMBDA c : c = <<"/", 0>>) + 1, Len(file))

source_text(flag, m) ==
    IF m.line <= 0 THEN Out(0, <<>>)
    ELSE CASE flag = "@" -> Out(Len(m.file) + count_digits_fallback[m.line] + 1,
                                Join2(m.file, append_int(m.line), ":"))
           [] flag = "s" -> Whole(basename(m.file))
           [] flag = "g" -> Whole(m.file)
           [] flag = "#" -> Out(count_digits_fallback[m.line], append_int(m.line))
           [] flag = "!" -> Whole(m.func)

(* elapsed_formatter: the time since the message before, never negative.   *)
Units == [u |-> 9, i |-> 6, o |-> 3, O |-> 0]
elapsed_text(flag, m, st) ==
    LET earlier == m.secs < st.secs \/ (m.secs = st.secs /\ m.nanos < st.nanos)
        borrow  == IF m.nanos < st.nanos THEN 1 ELSE 0
        secs    == IF earlier THEN 0 ELSE m.secs - st.secs - borrow
        nanos   == IF earlier THEN 0 ELSE m.nanos - st.nanos + borrow * 10 ^ 9
        w       == Units[flag]
    IN  Whole(IF w = 0 THEN Dec[secs] ELSE DecScaled(secs, nanos \div 10 ^ (9 - w), w))

(* get_cached_offset: refreshed when the message is ten seconds newer.     *)
get_cached_offset(m, tm, st) ==
    IF m.secs - st.secs > 10 \/ (m.secs - st.secs = 10 /\ m.nanos >= st.nanos)
    THEN [st EXCEPT !.secs = m.secs, !.nanos = m.nanos, !.offset = tm.gmtoff \div 60]
    ELSE st

zone_text(offset) ==
    LET minutes == IF offset < 0 THEN -offset ELSE offset
    IN  Out(6, Chr(IF offset < 0 THEN "-" ELSE "+") \o Join2(pad2(minutes \div 60), pad2(minutes % 60), ":"))

-----------------------------------------------------------------------------
(* scoped_padder that cuts the whole buffer to the width of the field.     *)
scoped_padder_resizes(pad, before, o) ==
    LET remaining == pad.width - o.size
    IN  IF remaining >= 0 THEN before \o Spaces(remaining) \o o.text
        ELSE IF pad.truncate THEN SubSeq(before \o o.text, 1, pad.width)
        ELSE before \o o.text

(* scoped_padder: spaces before or after, or the end of the buffer cut by  *)
(* as much as the announced size exceeds the width.                        *)
scoped_padder(pad, before, o) ==
    LET remaining == pad.width - o.size
        left  == CASE pad.side = "left"   -> remaining
                   [] pad.side = "center" -> remaining \div 2
                   [] pad.side = "right"  -> 0
        full  == before \o o.text
        cut   == Len(full) + remaining
    IN  IF remaining >= 0 THEN before \o Spaces(left) \o o.text \o Spaces(remaining - left)
        ELSE IF pad.truncate THEN SubSeq(full, 1, IF cut < 0 THEN 0 ELSE cut)
        ELSE full

Padded(pad, before, o) == IF pad.enabled THEN scoped_padder(pad, before, o) ELSE before \o o.text

(* format_mdc: the pairs in the order of the keys, every one padded by     *)
(* itself.                                                                 *)
format_mdc(pad, before, ctx) ==
    LET last_key(i) == \A k \in i + 1 .. Len(Keys) : Keys[k] \notin DOMAIN ctx
        pair(i) == Str(Keys[i], 1) \o Chr(":") \o ctx[Keys[i]] \o (IF last_key(i) THEN <<>> ELSE Chr(" "))
        upto[i \in 0 .. Len(Keys)] ==
            IF i = 0 THEN before
            ELSE IF Keys[i] \in DOMAIN ctx THEN Padded(pad, upto[i - 1], Whole(pair(i)))
            ELSE upto[i - 1]
    IN  IF DOMAIN ctx = {} THEN Padded(pad, before, Out(0, <<>>)) ELSE upto[Len(Keys)]

datetime_text(tm) == Join2(Join3(append_int(tm.year + 1900), pad2(tm.mon + 1), pad2(tm.mday), "-"),
                           Clock24(tm), " ")

(* full_formatter keeping the text of the first message for ever.          *)
full_datetime_stale(m, tm, st) ==
    IF st.text = <<>> THEN [st EXCEPT !.secs = m.secs, !.text = datetime_text(tm)] ELSE st

(* full_formatter: date and time are rendered once a second.               *)
full_datetime(m, tm, st) ==
    IF st.secs # m.secs \/ st.text = <<>>
    THEN [st EXCEPT !.secs = m.secs, !.text = datetime_text(tm)]
    ELSE st

Bracketed(text) == Chr("[") \o text \o Chr("]") \o Chr(" ")

(* full_formatter: what comes before the level, and what comes after it.   *)
full_head(m, st) == Bracketed(st.text \o Chr(".") \o pad3(time_fraction(m, 3)))
                    \o (IF m.name = <<>> THEN <<>> ELSE Bracketed(m.name)) \o Chr("[")
full_tail(m, ctx) == Chr("]") \o Chr(" ")
                     \o (IF m.line <= 0 THEN <<>>
                         ELSE Bracketed(Join2(basename(m.file), append_int(m.line), ":")))
                     \o (IF ctx = <<>> THEN <<>> ELSE Bracketed(format_mdc(NoPad, <<>>, ctx)))
                     \o m.payload

(* What a flag without a state of its own writes.                          *)
field_text(f, m, tm) ==
    LET flag == f.flag
    IN  CASE flag = "v"                            -> payload_text(m)
          [] flag = "custom"                       -> Whole(Str(<<"custom", f.chars>>, 1))
          [] flag \in {"n", "l", "L"}              -> name_level_text(flag, m)
          [] flag \in {"a", "A", "b", "B"}         -> day_month_text(flag, tm)
          [] flag \in {"c", "C", "D", "Y", "m", "d"} -> date_text(flag, tm)
          [] flag \in {"H", "I", "M", "S"}         -> hour_text(flag, tm)
          [] flag \in {"p", "r", "R", "T"}         -> clock_text(flag, tm)
          [] flag \in {"e", "f", "F", "E"}         -> fraction_text(flag, m)
          [] flag \in {"t", "P"}                   -> id_text(flag, m)
          [] flag \in {"@", "s", "g", "#", "!"}    -> source_text(flag, m)

(* One flag_formatter::format: the buffer, the colour range and its state. *)
(* Only z_formatter is told whether times are UTC.                         *)
FormatFlag(f, m, tm, ctx, at_utc, acc) ==
    LET flag  == f.flag
        after(to, st) == [dest |-> to, range |-> acc.range, st |-> st]
        padded(o) == Padded(f.pad, acc.dest, o)
        zone  == get_cached_offset(m, tm, f.st)
        full  == full_datetime(m, tm, f.st)
        head  == acc.dest \o full_head(m, full)
        level == name_level_text("l", m).text
    IN  CASE flag = "chars" -> after(acc.dest \o literal_text(f), f.st)
          [] flag \in ElapsedFlags -> after(padded(elapsed_text(flag, m, f.st)),
                                            [f.st EXCEPT !.secs = m.secs, !.nanos = m.nanos])
          [] flag = "z" -> IF at_utc THEN after(padded(zone_text(0)), f.st)
                           ELSE after(padded(zone_text(zone.offset)), zone)
          [] flag = "&" -> after(format_mdc(f.pad, acc.dest, ctx), f.st)
          [] flag \in {"^", "$"} -> [dest |-> acc.dest, range |-> color_range(flag, acc.range, Len(acc.dest)),
                                     st   |-> f.st]
          [] flag = "+" -> [dest  |-> head \o level \o full_tail(m, ctx),
                            range |-> <<Len(head), Len(head) + Len(level)>>, st |-> full]
          [] OTHER -> after(padded(field_text(f, m, tm)), f.st)

(* The formatters in order: what the buffer holds before and after each.   *)
Run(fs, m, tm, ctx, at_utc) ==
    LET acc[i \in 0 .. Len(fs)] ==
            IF i = 0 THEN [dest |-> <<>>, range |-> <<0, 0>>, st |-> Fresh]
                     ELSE FormatFlag(fs[i], m, tm, ctx, at_utc, acc[i - 1])
    IN  acc

-----------------------------------------------------------------------------
NoTm == [year |-> 0, mon |-> 0, mday |-> 0, hour |-> 0, min |-> 0, sec |-> 0, wday |-> 0, gmtoff |-> 0]
NoMsg == [secs |-> 0]

(* The constructor.                                                        *)
Init == /\ pattern \in Patterns
        /\ utc \in BOOLEAN
        /\ formatters = compile_pattern_(pattern)
        /\ need_localtime = NeedsTime(formatters)
        /\ last_log_secs = 0 /\ cached_tm = NoTm
        /\ mdc = <<>>
        /\ last = [msg |-> NoMsg, mdc |-> <<>>, count |-> 0]
        /\ dest = <<>> /\ range = <<0, 0>> /\ steps = <<>> /\ seen = {}

get_time_(m) == IF utc THEN gmtime[m.secs] ELSE localtime[m.secs]

Nl == Chr("eol")

format(m) ==
    /\ last.count < MaxFormats
    /\ LET refresh == need_localtime /\ m.secs # last_log_secs
           tm  == IF refresh THEN get_time_(m) ELSE cached_tm
           acc == Run(formatters, m, tm, mdc, utc)
           n   == Len(formatters)
       IN  /\ cached_tm' = tm
           /\ last_log_secs' = IF refresh THEN m.secs ELSE last_log_secs
           /\ formatters' = [i \in DOMAIN formatters |-> [formatters[i] EXCEPT !.st = acc[i].st]]
           /\ dest' = acc[n].dest \o Nl
           /\ range' = acc[n].range
           /\ steps' = [i \in DOMAIN formatters |-> [before |-> acc[i - 1].dest, after |-> acc[i].dest]]
    /\ last' = [msg |-> m, mdc |-> mdc, count |-> last.count + 1]
    /\ seen' = IF need_localtime THEN seen \cup {m.secs} ELSE seen
    /\ UNCHANGED <<pattern, need_localtime, utc, mdc>>

Recompiled(p, need) ==
    /\ pattern' = p
    /\ formatters' = compile_pattern_(p)
    /\ need_localtime' = (need \/ NeedsTime(formatters'))
    /\ last' = [last EXCEPT !.msg = NoMsg]
    /\ dest' = <<>> /\ range' = <<0, 0>> /\ steps' = <<>>
    /\ UNCHANGED <<utc, mdc>>

(* set_pattern keeps the cached time.                                      *)
set_pattern(p) == /\ last.count \in 1 .. MaxFormats - 1 /\ last.msg # NoMsg
                  /\ Recompiled(p, FALSE)
                  /\ UNCHANGED <<last_log_secs, cached_tm, seen>>

(* clone starts with no cached time, and keeps need_localtime_.            *)
clone == /\ last.count \in 1 .. MaxFormats - 1 /\ last.msg # NoMsg
         /\ Recompiled(pattern, need_localtime)
         /\ last_log_secs' = 0 /\ cached_tm' = NoTm /\ seen' = {}

(* mdc::put, remove, clear.                                                *)
SetContext(ctx) == /\ mdc = <<>> /\ ctx # mdc /\ last.count = 0
                   /\ \E i \in DOMAIN formatters : formatters[i].flag \in {"&", "+"}
                   /\ mdc' = ctx
                   /\ UNCHANGED <<pattern, formatters, need_localtime, last_log_secs, cached_tm, utc,
                                  last, dest, range, steps, seen>>

Contexts == UNION {[K -> {Str("value", 2)}] : K \in SUBSET Range(Keys)}

Next == \/ \E m \in Messages : format(m)
        \/ \E p \in Repatterns : set_pattern(p)
        \/ clone
        \/ \E ctx \in Contexts : SetContext(ctx)
        \/ last.count = MaxFormats /\ UNCHANGED vars

Spec == Init /\ [][Next]_vars

-----------------------------------------------------------------------------
Formatted == last.msg # NoMsg

(* Text that keeps no state beyond the second it belongs to.               *)
Stateless == \A i \in DOMAIN formatters : formatters[i].flag \notin {"z"} \cup ElapsedFlags

(* The caches cannot be seen: a message reads as it would in a formatter   *)
(* made for it alone, whatever messages, patterns and clock jumps came     *)
(* before; and an offset is shown only within ten seconds of a message it  *)
(* was right for, or behind the clock.  The one exception is second 0,     *)
(* which last_log_secs_ = 0 takes for a second it has already seen.        *)
TimeCacheInvisible ==
    Formatted =>
        /\ Stateless /\ (last.msg.secs # 0 \/ seen # {0}) =>
              LET fresh == compile_pattern_(pattern)
              IN  dest = Run(fresh, last.msg, get_time_(last.msg), last.mdc, utc)[Len(fresh)].dest \o Nl
        /\ \A i \in DOMAIN formatters : formatters[i].flag = "z" /\ ~utc =>
              LET st == formatters[i].st
              IN  /\ last.msg.secs - st.secs <= 10
                  /\ st.secs # 0 => st.offset = localtime[st.secs].gmtoff \div 60

(* Flags whose announced size is not the size of their text.               *)
Misannounced(f) == \/ f.flag = "c" /\ cached_tm.mday < 10
                   \/ f.flag = "E" /\ last.msg.secs < 10 ^ 9

(* A padded field never disturbs the text before it, is as wide as asked   *)
(* (cut to it only when the pattern says so), and shows its text from the  *)
(* start: every flag announces to the padder the size it will write.  The  *)
(* colour range stays inside the text.                                     *)
FieldsFit ==
    Formatted =>
        /\ \A i \in DOMAIN formatters :
              LET f == formatters[i]
                  width == Len(steps[i].after) - Len(steps[i].before)
              IN  ~Misannounced(f) =>
                      /\ IsPrefix(steps[i].before, steps[i].after)
                      /\ f.pad.enabled /\ f.flag \notin {"&", "+", "^", "$"} =>
                            /\ width >= f.pad.width
                            /\ f.pad.truncate => width = f.pad.width
        /\ (\A i \in DOMAIN formatters : ~Misannounced(formatters[i])) => range[2] <= Len(dest)

-----------------------------------------------------------------------------
(* The grammar of patterns: a flag is a percent sign, an optional side, an *)
(* optional width with an optional truncate mark, and a character.         *)
SpecParts(p) ==
    {s \in [side : {"", "-", "="}, width : 0 .. Len(p), bang : BOOLEAN] :
        LET n == (IF s.side = "" THEN 0 ELSE 1) + s.width + (IF s.bang THEN 1 ELSE 0)
            d == 1 + (IF s.side = "" THEN 0 ELSE 1)
        IN  /\ Len(p) >= n + 2
            /\ s.side # "" => p[2] = s.side
            /\ \A i \in d + 1 .. d + s.width : isdigit(p[i])
            /\ s.bang => s.width > 0 /\ p[d + s.width + 1] = "!"
            /\ ~s.bang => ~isdigit(p[n + 2])
            /\ s.side = "" /\ s.width = 0 => p[2] \notin {"-", "="}
            /\ s.width > 0 /\ ~s.bang => p[n + 2] # "!"}

Meaning(p, s) ==
    LET d == 1 + (IF s.side = "" THEN 0 ELSE 1)
        n == d + s.width + (IF s.bang THEN 1 ELSE 0)
    IN  [flag |-> p[n + 1], rest |-> SubSeq(p, n + 2, Len(p)),
         pad  |-> IF s.width = 0 THEN NoPad
                  ELSE padding_info(Width(p, d + 1, d + s.width + 1),
                                    CASE s.side = "-" -> "right" [] s.side = "=" -> "center" [] OTHER -> "left",
                                    s.bang)]

Singles(fs) == FlattenSeq([i \in DOMAIN fs |->
                   IF fs[i].flag = "chars" THEN [k \in DOMAIN fs[i].chars |-> Literal(<<fs[i].chars[k]>>)]
                                           ELSE <<[fs[i] EXCEPT !.st = Fresh]>>])

(* A pattern means what its grammar says: it splits in exactly one way     *)
(* into characters and flags, and the formatters are those, in order; only *)
(* a flag cut short by the end of the pattern is left out.                 *)
CompiledByGrammar ==
    LET meaning[n \in 0 .. Len(pattern)] ==          \* of the last n characters
            LET p == SubSeq(pattern, Len(pattern) - n + 1, Len(pattern))
            IN  IF n = 0 THEN <<>>
                ELSE IF p[1] # "%" THEN <<Literal(<<p[1]>>)>> \o meaning[n - 1]
                ELSE IF SpecParts(p) = {} THEN <<>>
                ELSE LET s == CHOOSE s \in SpecParts(p) : TRUE
                         x == Meaning(p, s)
                     IN  Singles(handle_flag_(x.flag, x.pad)) \o meaning[Len(x.rest)]
    IN  last.count = 0 => Singles(formatters) = meaning[Len(pattern)]
=============================================================================
