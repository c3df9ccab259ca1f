-------------------------------- MODULE Text --------------------------------
(***************************************************************************)
(* Texts and decimal numbers, and details/fmt_helper.h that writes them.   *)
(*                                                                         *)
(* A text is a sequence of cells: <<c, 0>> is the character c, <<"d", n>>  *)
(* the digit n, <<s, i>> the i-th character of the string named s.  What a *)
(* string says is left out; how long it is, and where each of its          *)
(* characters ends up, is kept.                                            *)
(***************************************************************************)
EXTENDS Integers, Sequences

Chr(c) == << <<c, 0>> >>
Str(s, len) == [i \in 1 .. len |-> <<s, i>>]
Spaces(n) == [i \in 1 .. n |-> <<" ", 0>>]
Zeros(n) == [i \in 1 .. n |-> <<"d", 0>>]

(* The decimal digits of a natural number.                                 *)
Dec[n \in Nat] == IF n < 10 THEN << <<"d", n>> >> ELSE Dec[n \div 10] \o << <<"d", n % 10>> >>

append_int(n) == IF n < 0 THEN Chr("-") \o Dec[-n] ELSE Dec[n]

(* count_digits: four digits at a time.                                    *)
count_digits_fallback[n \in Nat] ==
    CASE n < 10                  -> 1
      [] 10 <= n /\ n < 100      -> 2
      [] 100 <= n /\ n < 1000    -> 3
      [] 1000 <= n /\ n < 10000  -> 4
      [] OTHER                   -> 4 + count_digits_fallback[n \div 10000]

pad_uint(n, width) == Zeros(width - count_digits_fallback[n]) \o append_int(n)

(* pad2 leaves numbers of more digits, and negative ones, to "{:02}".      *)
pad2(n) == IF n \in 0 .. 99 THEN << <<"d", n \div 10>>, <<"d", n % 10>> >>
           ELSE IF n < 0 THEN Chr("-") \o Dec[-n] ELSE Dec[n]

pad3(n) == IF n < 1000 THEN << <<"d", n \div 100>> >> \o pad2(n % 100) ELSE append_int(n)

(* A count of secs seconds and frac units of 10^-w seconds, in that unit:  *)
(* the product would not fit the checker's integers.                       *)
DecScaled(secs, frac, w) == IF secs = 0 THEN Dec[frac] ELSE Dec[secs] \o pad_uint(frac, w)
=============================================================================
