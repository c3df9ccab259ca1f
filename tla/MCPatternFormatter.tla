------------------------ MODULE MCPatternFormatter ------------------------
(* A small instance of PatternFormatter: every pattern of at most four     *)
(* characters over an alphabet with all the marks, and every flag with     *)
(* seven paddings, after a field that it could spoil.                      *)
EXTENDS PatternFormatter

AllFlags == TimeFlags \cup OtherFlags \cup CustomFlags \cup {"h", "x", "X", "%", "q"}
PadSpecs == {<<>>, <<"2">>, <<"-", "9">>, <<"=", "3", "0">>, <<"3", "!">>, <<"=", "1", "!">>, <<"9", "9">>}

MCPatterns == SeqOf({"%", "-", "5", "!", "n", "q"}, 4)
              \cup {<<"%", "v", "%">> \o pad \o <<flag>> : pad \in PadSpecs, flag \in AllFlags}
MCCharacters == AllFlags \cup {"-", "=", "!"} \cup Range(DigitChars)
MCRepatterns == {<<"%", "+">>, <<"%", "z">>, <<"%", "v">>}

Tm(mday, hour, min, sec, gmtoff) ==
    [year |-> 123, mon |-> 10, mday |-> mday, hour |-> hour, min |-> min, sec |-> sec, wday |-> 2,
     gmtoff |-> gmtoff]

(* 14 Nov 2023 22:13:20 UTC and the seconds around it, half an hour before *)
(* them, 9 Nov, and the epoch; the zone changes between two of them.       *)
T == 1700000000
Utc == [s \in {0, T - 432000, T - 1800, T, T + 9, T + 10} |->
          CASE s = 0          -> [Tm(1, 0, 0, 0, 0) EXCEPT !.year = 70, !.mon = 0, !.wday = 4]
            [] s = T - 432000 -> [Tm(9, 22, 13, 20, 0) EXCEPT !.wday = 4]
            [] s = T - 1800   -> Tm(14, 21, 43, 20, 0)
            [] s = T          -> Tm(14, 22, 13, 20, 0)
            [] s = T + 9      -> Tm(14, 22, 13, 29, 0)
            [] s = T + 10     -> Tm(14, 22, 13, 30, 0)]
Local == [s \in DOMAIN Utc |->
          IF s < T THEN [Utc[s] EXCEPT !.hour = (@ + 13) % 24, !.gmtoff = -39600]
                   ELSE [Utc[s] EXCEPT !.hour = (@ + 14) % 24, !.gmtoff = 19800]]

File == Str("dir", 2) \o Chr("/") \o Str("file", 3)
Msg(secs, nanos, level, line) ==
    [secs |-> secs, nanos |-> nanos, level |-> level, line |-> line, file |-> File, func |-> Str("func", 4),
     name |-> IF level = 2 THEN <<>> ELSE Str("name", 3), payload |-> Str("payload", 4), thread_id |-> 12345]
MCMessages == {Msg(0, 5, 2, 7), Msg(T - 432000, 1000000, 5, 123), Msg(T - 1800, 0, 3, 0),
               Msg(T, 999999999, 4, 0), Msg(T + 9, 70000000, 2, 10), Msg(T + 10, 0, 0, 9999)}
MCKeys == <<"k1", "k2">>
=============================================================================
