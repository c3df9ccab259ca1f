----------------------------- MODULE FmtChrono -----------------------------
(***************************************************************************)
(* Times and durations in the bundled fmt library (chrono.h), in the       *)
(* classic locale and with integral counts.                                *)
(*                                                                         *)
(* A format is a sequence of characters (as strings); output is code units *)
(* as in FmtWrite, with names of days and months as one unit each. A       *)
(* duration is [count, num, den]: count periods of num/den seconds. tm is  *)
(* struct tm, with the year as it is written and the zone's offset off.    *)
(* Instead of an exception a conversion yields Overflow.                   *)
(***************************************************************************)
EXTENDS FmtWrite
CONSTANTS MaxRep,     \* the largest count of a duration's rep
          MaxCommon,  \* the largest value of the type duration_cast computes in
          MaxSeconds, \* the largest count of std::chrono::seconds
          MaxField    \* max_value<int>(), the largest number duration_formatter writes
ASSUME RepFits == 2 * MaxRep + 1 <= MaxCommon /\ MaxRep <= MaxSeconds /\ 59 <= MaxField

Quot(a, b) == IF a < 0 THEN -((-a) \div b) ELSE a \div b  \* as in C
Rem(a, b) == a - b * Quot(a, b)
Overflow == -1000000000
Literal(c) == CASE c = " " -> 32 [] c = ":" -> 58 [] c = "-" -> 45 [] c = "%" -> 37 [] c = "n" -> 10 [] c = "t" -> 9 [] OTHER -> 120
WeekdayName(abbr, w) == <<(IF abbr THEN 1000 ELSE 1100) + w>>
MonthName(abbr, m) == <<(IF abbr THEN 1200 ELSE 1300) + m>>

-----------------------------------------------------------------------------
(* parse_chrono_format: the handler's calls, as [flag, alt, pad] with the  *)
(* conversion's letter for the call and alt for the alternative numerals.  *)
StandardFlags == {"Y", "y", "C", "G", "g", "a", "A", "w", "u", "b", "B", "m", "U", "W", "V", "j", "d", "H", "I", "M", "S",
                  "c", "x", "X", "D", "F", "r", "R", "T", "p", "Q", "q", "z", "Z"}
EFlags == {"Y", "y", "C", "c", "x", "X", "z"}
OFlags == {"y", "m", "U", "W", "V", "d", "w", "u", "H", "I", "M", "S", "z"}
Call(c, alt, pad) == [flag |-> IF c = "h" THEN "b" ELSE IF c = "e" THEN "d" ELSE c, alt |-> alt,
                      pad |-> IF c = "e" THEN "space" ELSE pad]
OnText(c) == [flag |-> "text", alt |-> FALSE, pad |-> c]
Bad == [ok |-> FALSE, calls |-> <<>>]
RECURSIVE parse_from(_, _, _)
parse_from(t, i, calls) ==
  LET ch(k) == IF k <= Len(t) THEN t[k] ELSE "end"
      padded == ch(i + 1) \in {"_", "-"}
      pad == CASE ch(i + 1) = "_" -> "space" [] ch(i + 1) = "-" -> "none" [] OTHER -> "zero"
      j == IF padded THEN i + 2 ELSE i + 1
      c == ch(j)
      d == ch(j + 1)
  IN IF ch(i) \in {"end", "}"} THEN [ok |-> TRUE, calls |-> calls]
     ELSE IF ch(i) # "%" THEN parse_from(t, i + 1, Append(calls, OnText(ch(i))))
     ELSE IF c \in {"%", "n", "t"} THEN parse_from(t, j + 1, Append(calls, OnText(c)))
     ELSE IF c \in StandardFlags \cup {"h", "e"} THEN parse_from(t, j + 1, Append(calls, Call(c, FALSE, pad)))
     ELSE IF c = "E" /\ d \in EFlags THEN parse_from(t, j + 2, Append(calls, Call(d, TRUE, pad)))
     ELSE IF c = "O" /\ d \in OFlags \cup {"e"} THEN parse_from(t, j + 2, Append(calls, Call(d, TRUE, pad)))
     ELSE Bad
parse_chrono_format(t) == IF t = <<>> \/ Head(t) = "}" THEN [ok |-> TRUE, calls |-> <<>>]
                          ELSE IF Head(t) # "%" THEN Bad ELSE parse_from(t, 1, <<>>)
Flags(r) == {r.calls[i].flag : i \in DOMAIN r.calls}
tm_format_checker(r, has_timezone) ==
  r.ok /\ Flags(r) \cap ({"Q", "q"} \cup (IF has_timezone THEN {} ELSE {"z", "Z"})) = {}
chrono_format_checker(r, has_precision_integral) ==
  r.ok /\ Flags(r) \subseteq {"text", "j", "H", "I", "M", "S", "r", "R", "T", "p", "q"}
                             \cup (IF has_precision_integral THEN {} ELSE {"Q"})

-----------------------------------------------------------------------------
(* Durations. duration_cast multiplies, divides and converts with checks.  *)
lossless_integral_conversion(n, lo, hi) == IF lo <= n /\ n <= hi THEN n ELSE Overflow
duration_cast(count, num, den, lo, hi) ==
  IF num # 1 /\ (count > MaxCommon \div num \/ count < -(MaxCommon \div num)) THEN Overflow
  ELSE lossless_integral_conversion(Quot(count * num, den), lo, hi)
(* The first n of 0..18 for which num * 10^n is a multiple of den, as long *)
(* as the product fits a long long: num * 10^(n-1) is no more than a tenth *)
(* of its maximum, 922337203 * 10^9 and some.                              *)
count_fractional_digits(num, den) ==
  LET rest[n \in 0..18] == IF n = 0 THEN num % den ELSE (rest[n - 1] * 10) % den
      exact == {n \in 0..18 : rest[n] = 0 /\ (n > 9 => num <= 922337203 \div 10 ^ (n - 10))}
  IN IF exact = {} THEN 6 ELSE Min(exact)
gcd[a, b \in Nat] == IF b = 0 THEN a ELSE gcd[b, a % b]
get_units(d) == CASE d.num = 1 /\ d.den = 1 -> <<115>> [] d.num = 1 /\ d.den = 10 -> <<100, 115>> [] d.num = 1 /\ d.den = 1000 -> <<109, 115>>
                  [] d.num = 60 /\ d.den = 1 -> <<109, 105, 110>> [] d.num = 3600 /\ d.den = 1 -> <<104>>
                  [] OTHER -> <<91>> \o do_format_decimal[d.num] \o (IF d.den # 1 THEN <<47>> \o do_format_decimal[d.den] ELSE <<>>) \o <<93, 115>>
write_padding(pad, n) == IF pad = "none" THEN <<>> ELSE Repeat(IF pad = "space" THEN 32 ELSE Zero, n)
(* The digits of the fraction of a nonnegative duration: as many as its    *)
(* period needs, or cut off or filled up to the precision.                 *)
write_fractional_seconds(d, precision) ==
  LET digits == count_fractional_digits(d.num, d.den)
      common == gcd[10 ^ digits, d.den]
      n == (((d.count * d.num) % d.den) * (10 ^ digits \div common)) \div (d.den \div common)
      len == count_digits_fallback[n]
      zeros == Max({0, digits - len})
      some == Min({zeros, precision})
      rest == precision - some
      cut == n \div 10 ^ (len - rest)
  IN IF precision < 0
     THEN IF digits = 0 THEN <<>> ELSE <<46>> \o Repeat(Zero, zeros) \o do_format_decimal[n]
     ELSE IF precision = 0 THEN <<>>
     ELSE <<46>> \o Repeat(Zero, some)
          \o (IF rest < len THEN IF cut # 0 THEN do_format_decimal[cut] ELSE <<>>
              ELSE IF n # 0 THEN do_format_decimal[n] \o Repeat(Zero, rest - len) ELSE Repeat(Zero, rest))

-----------------------------------------------------------------------------
(* tm_writer.                                                              *)
(* write_digit2_separated: a number below 100 in binary-coded decimal.     *)
bcd(x) == x + (((x * 205) \div 2048) % 16) * 6
bcd_digits(x) == <<Zero + bcd(x) \div 16, Zero + (bcd(x) % 16)>>
write_digit2_separated(a, b, c, sep) == bcd_digits(a) \o <<sep>> \o bcd_digits(b) \o <<sep>> \o bcd_digits(c)
write1(v) == <<Zero + (v % 10)>>
write2(v) == write2digits(v % 100)
write2_pad(v, pad) == IF v % 100 >= 10 THEN write2(v) ELSE write_padding(pad, 1) \o <<Zero + (v % 100)>>
write_year_extended(year, pad) ==
  LET neg == year < 0
      d == do_format_decimal[IF neg THEN -year ELSE year]
      minus(when) == IF neg /\ when THEN <<45>> ELSE <<>>
      width == IF neg THEN 3 ELSE 4
  IN minus(pad = "zero") \o (IF width > Len(d) THEN write_padding(pad, width - Len(d)) ELSE <<>>) \o minus(pad # "zero") \o d
split_year_lower(year) == LET l == Rem(year, 100) IN IF l < 0 THEN -l ELSE l
on_century(year) ==
  LET upper == Quot(year, 100)
  IN IF year \in -99..-1 THEN <<45, Zero>>
     ELSE IF upper \in 0..99 THEN write2(upper)
     ELSE IF upper < 0 THEN <<45>> \o do_format_decimal[-upper] ELSE do_format_decimal[upper]
tm_hour12(h) == LET z == IF h < 12 THEN h ELSE h - 12 IN IF z = 0 THEN 12 ELSE z
iso_year_weeks(y) == LET p(n) == Rem(n + Quot(n, 4) - Quot(n, 100) + Quot(n, 400), 7)
                     IN 52 + (IF p(y) = 4 \/ p(y - 1) = 3 THEN 1 ELSE 0)
iso_week_num(tm) == (tm.yday + 11 - (IF tm.wday = 0 THEN 7 ELSE tm.wday)) \div 7
tm_iso_week_year(tm) == LET w == iso_week_num(tm)
                        IN IF w < 1 THEN tm.year - 1 ELSE IF w > iso_year_weeks(tm.year) THEN tm.year + 1 ELSE tm.year
tm_iso_week_of_year_unwrapped(tm) == LET w == iso_week_num(tm) IN IF w < 1 THEN iso_year_weeks(tm.year - 1) ELSE w
tm_iso_week_of_year(tm) == LET w == iso_week_num(tm)
                           IN IF w < 1 THEN iso_year_weeks(tm.year - 1) ELSE IF w > iso_year_weeks(tm.year) THEN 1 ELSE w
on_us_date(tm) == write_digit2_separated(tm.mon + 1, tm.mday, split_year_lower(tm.year), 47)
on_iso_date(tm) ==
  IF tm.year \in 0..9999 THEN write2(tm.year \div 100) \o write_digit2_separated(tm.year % 100, tm.mon + 1, tm.mday, 45)
  ELSE write_year_extended(tm.year, "zero") \o SubSeq(write_digit2_separated(0, tm.mon + 1, tm.mday, 45), 3, 8)
on_day_of_year(tm, pad) == LET n == tm.yday + 1
  IN (IF n \div 100 # 0 THEN write1(n \div 100) ELSE write_padding(pad, 1)) \o write2_pad(n % 100, pad)
on_second(tm, sub, pad) == write2_pad(tm.sec, pad) \o (IF sub.den = 0 THEN <<>> ELSE write_fractional_seconds(sub, -1))
on_24_hour_time(tm) == write2(tm.hour) \o <<58>> \o write2(tm.min)
on_iso_time(tm, sub) == on_24_hour_time(tm) \o <<58>> \o on_second(tm, sub, "zero")
on_am_pm(tm) == <<IF tm.hour < 12 THEN 65 ELSE 80, 77>>
write_utc_offset(off, alt) == LET m == (IF off < 0 THEN -off ELSE off) \div 60
  IN <<IF off < 0 THEN 45 ELSE 43>> \o write2(m \div 60) \o (IF alt THEN <<58>> ELSE <<>>) \o write2(m % 60)
week_of_year(tm, first) == (tm.yday + 7 - ((tm.wday + 7 - first) % 7)) \div 7
tm_writer(x, tm, sub) ==
  CASE x.flag = "text" -> <<Literal(x.pad)>>
    [] x.flag \in {"a", "A"} -> WeekdayName(x.flag = "a", tm.wday)
    [] x.flag \in {"b", "B"} -> MonthName(x.flag = "b", tm.mon)
    [] x.flag = "w" -> write1(tm.wday)
    [] x.flag = "u" -> write1(IF tm.wday = 0 THEN 7 ELSE tm.wday)
    [] x.flag = "c" -> WeekdayName(TRUE, tm.wday) \o <<32>> \o MonthName(TRUE, tm.mon) \o <<32>> \o write2_pad(tm.mday, "space")
                       \o <<32>> \o on_iso_time(tm, sub) \o <<32>> \o write_year_extended(tm.year, "space")
    [] x.flag \in {"x", "D"} -> on_us_date(tm)
    [] x.flag \in {"X", "T"} -> on_iso_time(tm, sub)
    [] x.flag = "F" -> on_iso_date(tm)
    [] x.flag = "z" -> write_utc_offset(tm.off, x.alt)
    [] x.flag = "Z" -> <<1400>>
    [] x.flag = "Y" -> write_year_extended(tm.year, x.pad)
    [] x.flag = "y" -> write2(split_year_lower(tm.year))
    [] x.flag = "C" -> on_century(tm.year)
    [] x.flag = "m" -> write2_pad(tm.mon + 1, x.pad)
    [] x.flag = "U" -> write2_pad(week_of_year(tm, 0), x.pad)
    [] x.flag = "W" -> write2_pad(week_of_year(tm, 1), x.pad)
    [] x.flag = "V" -> write2_pad(tm_iso_week_of_year(tm), x.pad)
    [] x.flag = "G" -> write_year_extended(tm_iso_week_year(tm), "zero")
    [] x.flag = "g" -> write2(split_year_lower(tm_iso_week_year(tm)))
    [] x.flag = "j" -> on_day_of_year(tm, x.pad)
    [] x.flag = "d" -> write2_pad(tm.mday, x.pad)
    [] x.flag = "H" -> write2_pad(tm.hour, x.pad)
    [] x.flag = "I" -> write2_pad(tm_hour12(tm.hour), x.pad)
    [] x.flag = "M" -> write2_pad(tm.min, x.pad)
    [] x.flag = "S" -> on_second(tm, sub, x.pad)
    [] x.flag = "r" -> write_digit2_separated(tm_hour12(tm.hour), tm.min, tm.sec, 58) \o <<32>> \o on_am_pm(tm)
    [] x.flag = "R" -> on_24_hour_time(tm)
    [] x.flag = "p" -> on_am_pm(tm)
    [] OTHER -> <<>>
NoSubsecs == [count |-> 0, num |-> 1, den |-> 0]
do_format(t, tm, sub, specs) ==
  LET calls == parse_chrono_format(t).calls
  IN write_string(FlattenSeq([i \in DOMAIN calls |-> tm_writer(calls[i], tm, sub)]), specs)

(* gmtime: the C library's calendar.                                       *)
DaysBefore(y) == 365 * (y - 1970) + (y - 1969) \div 4 - (y - 1901) \div 100 + (y - 1601) \div 400
Leap(y) == (y % 4 = 0 /\ y % 100 # 0) \/ y % 400 = 0
MonthStart(y, m) == <<0, 31, 59, 90, 120, 151, 181, 212, 243, 273, 304, 334, 365>>[m + 1] + (IF Leap(y) /\ m > 1 THEN 1 ELSE 0)
CivilDay(day) == LET y == CHOOSE n \in (1968 + day \div 366)..(1972 + day \div 365) : DaysBefore(n) <= day /\ day < DaysBefore(n + 1)
                     yd == day - DaysBefore(y)
                     m == CHOOSE k \in 0..11 : MonthStart(y, k) <= yd /\ yd < MonthStart(y, k + 1)
                 IN [year |-> y, mon |-> m, mday |-> yd - MonthStart(y, m) + 1, yday |-> yd, wday |-> (day + 4) % 7]
gmtime(t) == LET d == CivilDay(t \div 86400) s == t % 86400
             IN [year |-> d.year, mon |-> d.mon, mday |-> d.mday, yday |-> d.yday, wday |-> d.wday,
                 hour |-> s \div 3600, min |-> (s \div 60) % 60, sec |-> s % 60, off |-> 0]
(* formatter<sys_time>: the time is cut off towards zero, and before the   *)
(* epoch the second it is in is the one before.                            *)
format_sys_time(t, d, specs) ==
  LET whole == Quot(d.count * d.num, d.den)
      sub == d.count - whole * d.den
      tm == gmtime(whole)
  IN IF d.num = 1 /\ d.den = 1 THEN do_format(t, tm, NoSubsecs, specs)
     ELSE IF sub >= 0 THEN do_format(t, tm, [d EXCEPT !.count = sub], specs)
     ELSE do_format(t, IF tm.sec # 0 THEN [tm EXCEPT !.sec = @ - 1] ELSE gmtime(Quot(d.count - d.den, d.den)),
                    [d EXCEPT !.count = sub + d.den], specs)
(* formatter<local_time> has no such correction: a local time before the   *)
(* epoch with a fraction writes the negative fraction as an unsigned one.  *)
format_local_time(t, d, specs) ==
  LET whole == Quot(d.count * d.num, d.den)
      sub == d.count - whole * d.den
  IN IF d.num = 1 /\ d.den = 1 THEN do_format(t, gmtime(whole), NoSubsecs, specs)
     ELSE IF sub >= 0 THEN do_format(t, gmtime(whole), [d EXCEPT !.count = sub], specs)
     ELSE <<2000>>
(* The formatters of weekday, day, month, year and year_month_day.         *)
ZeroTm == [year |-> 1900, mon |-> 0, mday |-> 0, yday |-> 0, wday |-> 0, hour |-> 0, min |-> 0, sec |-> 0, off |-> 0]
calendar_tm(kind, v) == CASE kind = "weekday" -> [ZeroTm EXCEPT !.wday = IF v = 7 THEN 0 ELSE v] [] kind = "day" -> [ZeroTm EXCEPT !.mday = v]
                          [] kind = "month" -> [ZeroTm EXCEPT !.mon = v - 1] [] OTHER -> [ZeroTm EXCEPT !.year = v]
calendar_default == [weekday |-> "a", day |-> "d", month |-> "b", year |-> "Y", year_month_day |-> "F"]

-----------------------------------------------------------------------------
(* duration_formatter: z is [out, negative, thrown]; the sign goes before  *)
(* the first number. s is the number of whole seconds.                     *)
to_nonnegative_int(v, upper) == IF 0 <= v /\ v <= upper THEN v ELSE Overflow
write_sign(z) == IF z.negative THEN [z EXCEPT !.out = Append(@, 45), !.negative = FALSE] ELSE z
write_n(z, v, width, pad) ==
  LET n == to_nonnegative_int(v, MaxField) y == write_sign(z)
      d == do_format_decimal[n]
  IN IF n = Overflow THEN [y EXCEPT !.thrown = TRUE]
     ELSE [y EXCEPT !.out = @ \o (IF width > Len(d) THEN write_padding(pad, width - Len(d)) ELSE <<>>) \o d]
Put(z, text) == [z EXCEPT !.out = @ \o text]
time(s) == [ZeroTm EXCEPT !.hour = (s \div 3600) % 24, !.min = (s \div 60) % 60, !.sec = s % 60]
hour12(s) == LET h == (s \div 3600) % 12 IN IF h <= 0 THEN 12 ELSE h
duration_call(z, x, s, d, precision) ==
  LET tm == time(s)
      \* write_fractional_seconds subtracts the seconds, as std::chrono::seconds
      seconds(y, pad) == IF duration_cast(d.count, d.num, d.den, -MaxSeconds, MaxSeconds) = Overflow THEN [y EXCEPT !.thrown = TRUE]
                         ELSE Put(write_n(y, tm.sec, 2, pad), write_fractional_seconds(d, precision))
      hm == write_n(Put(write_n(z, tm.hour, 2, "zero"), <<58>>), tm.min, 2, "zero")
  IN CASE x.flag = "text" -> Put(z, <<Literal(x.pad)>>)
       [] x.flag = "j" -> write_n(z, s \div 86400, 0, "zero")
       [] x.alt /\ x.flag \in {"H", "I", "M", "S"} -> Put(z, tm_writer([x EXCEPT !.alt = FALSE], tm, NoSubsecs))
       [] x.flag = "H" -> write_n(z, tm.hour, 2, x.pad)
       [] x.flag = "I" -> write_n(z, hour12(s), 2, x.pad)
       [] x.flag = "M" -> write_n(z, tm.min, 2, x.pad)
       [] x.flag = "S" -> seconds(z, x.pad)
       [] x.flag \in {"r", "p"} -> Put(z, tm_writer(x, tm, NoSubsecs))
       [] x.flag = "R" -> hm
       [] x.flag = "T" -> seconds(Put(hm, <<58>>), "zero")
       [] x.flag = "Q" -> Put(write_sign(z), do_format_decimal[d.count])
       [] x.flag = "q" -> Put(z, get_units(d))
       [] OTHER -> z
duration_calls(z, calls, s, d, precision) == FoldLeft(LAMBDA y, x : duration_call(y, x, s, d, precision), z, calls)
format_duration(t, d, precision, specs) ==
  LET val == IF d.count < 0 THEN -d.count ELSE d.count
      s == duration_cast(val, d.num, d.den, 0, 2 * MaxRep + 1)
      number == (IF d.count < 0 THEN <<45>> ELSE <<>>) \o do_format_decimal[val]
  IN IF t = <<>> THEN write_string(number \o get_units(d), specs)
     ELSE IF s = Overflow THEN <<Overflow>>
     ELSE LET z == duration_calls([out |-> <<>>, negative |-> d.count < 0, thrown |-> FALSE], parse_chrono_format(t).calls,
                                  s, [d EXCEPT !.count = val], precision)
          IN IF z.thrown THEN <<Overflow>> ELSE write_string(z.out, specs)

-----------------------------------------------------------------------------
(* What the texts should say.                                              *)
ChronoSpecs == [type |-> "string", align |-> "none", sign |-> "none", alt |-> FALSE, loc |-> FALSE,
                fill |-> <<32>>, width |-> 0, precision |-> -1]
Number(s) == FoldLeft(LAMBDA a, c : a * 10 + c - Zero, 0, s)
Fixed(n, width) == [i \in 1..width |-> Zero + ((n \div 10 ^ (width - i)) % 10)]
Clock(s) == Fixed((s \div 3600) % 24, 2) \o <<58>> \o Fixed((s \div 60) % 60, 2) \o <<58>> \o Fixed(s % 60, 2)
(* The decimal places 1/den needs, 6 when no number of them is enough.     *)
Places(den) == LET twos == Max({k \in 0..30 : den % 2 ^ k = 0})
                   fives == Max({k \in 0..13 : den % 5 ^ k = 0})
               IN IF den = 2 ^ twos * 5 ^ fives THEN Max({twos, fives}) ELSE 6
(* frac/den by long division, with zeros after the places it needs.        *)
Fraction(frac, den, digits) ==
  LET rest[k \in 0..digits] == IF k = 0 THEN frac ELSE (rest[k - 1] * 10) % den
  IN IF digits = 0 THEN <<>>
     ELSE <<46>> \o [k \in 1..digits |-> IF k <= Places(den) THEN Zero + (rest[k - 1] * 10) \div den ELSE Zero]
(* A time of the system clock is written as the second it lies in, before  *)
(* the epoch too, and the fraction counts from there.                      *)
SysTimeExact(d) ==
  LET t == (d.count * d.num) \div d.den
      date == tm_writer([flag |-> "F", alt |-> FALSE, pad |-> "zero"], gmtime(t), NoSubsecs)
  IN format_sys_time(<<"%", "F", " ", "%", "T">>, d, ChronoSpecs)
       = date \o <<32>> \o Clock(t % 86400) \o Fraction((d.count * d.num) % d.den, d.den, Places(d.den))
(* %G-W%V is the year and week that the week's Thursday belongs to, %U and *)
(* %W count the Sundays and Mondays of the year so far, and %C with %y is  *)
(* what %Y writes, for years of any sign and length.                       *)
WeeksExact(day) ==
  LET tm == CivilDay(day)
      thursday == CivilDay(day + 4 - (IF tm.wday = 0 THEN 7 ELSE tm.wday))
      starts(first) == Cardinality({k \in 0..tm.yday : (tm.wday + 371 - (tm.yday - k)) % 7 = first})
  IN /\ tm_iso_week_year(tm) = thursday.year
     /\ tm_iso_week_of_year(tm) = thursday.yday \div 7 + 1
     /\ week_of_year(tm, 0) = starts(0) /\ week_of_year(tm, 1) = starts(1)
YearsExact(year) == on_century(year) \o write2(split_year_lower(year)) = write_year_extended(year, "zero")
(* A duration's parts add up to it; the sign is written once, in front.    *)
(* What cannot be written throws: seconds beyond the types they are cast   *)
(* to, and more days than an int holds.                                    *)
DurationExact(d, precision) ==
  LET val == IF d.count < 0 THEN -d.count ELSE d.count
      sign == IF d.count < 0 THEN <<45>> ELSE <<>>
      fits == val <= MaxCommon \div d.num /\ (val * d.num) \div d.den <= 2 * MaxRep + 1
      s == (val * d.num) \div d.den
      days == s \div 86400
      clock == Clock(s) \o Fraction((val * d.num) % d.den, d.den, IF precision < 0 THEN Places(d.den) ELSE precision)
      written(text) == format_duration(text, d, precision, ChronoSpecs)
  IN /\ written(<<"%", "T">>) = IF fits /\ s <= MaxSeconds THEN sign \o clock ELSE <<Overflow>>
     /\ written(<<"%", "j", " ", "%", "T">>) = IF fits /\ s <= MaxSeconds /\ days <= MaxField
                                              THEN sign \o do_format_decimal[days] \o <<32>> \o clock ELSE <<Overflow>>
(* A format string the checkers accept says everything it is asked for:    *)
(* no call of the handler is one that writes nothing.                      *)
AcceptedCallsWrite(t) ==
  LET r == parse_chrono_format(t)
      tm == gmtime(951782400)
  IN /\ tm_format_checker(r, TRUE) => \A i \in DOMAIN r.calls : tm_writer(r.calls[i], tm, NoSubsecs) # <<>>
     /\ chrono_format_checker(r, FALSE) => \A i \in DOMAIN r.calls :
          duration_call([out |-> <<>>, negative |-> FALSE, thrown |-> FALSE], r.calls[i], 1, [count |-> 1, num |-> 1, den |-> 1], -1).out # <<>>
=============================================================================
