-------------------------------- MODULE Cfg --------------------------------
(***************************************************************************)
(* cfg/helpers: the levels that SPDLOG_LEVEL, in the environment or on the *)
(* command line, asks for.  A text is a sequence of words, " ", "=" and    *)
(* ",".  A level is its place in level_string_views, so that 0 is free to  *)
(* mean that there is none.                                                *)
(***************************************************************************)
EXTENDS Integers, Sequences, FiniteSetsExt, SequencesExt

NoLevel == 0
level_string_views == <<"trace", "debug", "info", "warning", "error", "critical", "off">>
Info == 3
Off == 7

(* level::from_str of a value, which is one word or nothing it knows.      *)
from_str(v) == IF Len(v) = 1 /\ v[1] \in ToSet(level_string_views)
               THEN CHOOSE i \in DOMAIN level_string_views : level_string_views[i] = v[1]
               ELSE CASE v = <<"warn">> -> 4 [] v = <<"err">> -> 5 [] OTHER -> Off

to_lower_(v) == [i \in DOMAIN v |-> IF v[i] = "DEBUG" THEN "debug" ELSE v[i]]

trim_(s) == LET solid == {i \in DOMAIN s : s[i] # " "}
            IN  IF solid = {} THEN <<>> ELSE SubSeq(s, Min(solid), Max(solid))

(* "key=val" => (key, val), "val" => ("", val).                            *)
extract_kv_(s) ==
    LET seps == {i \in DOMAIN s : s[i] = "="}
        n == Min(seps)
    IN  IF seps = {} THEN [key |-> <<>>, val |-> trim_(s)]
        ELSE [key |-> trim_(SubSeq(s, 1, n - 1)), val |-> trim_(SubSeq(s, n + 1, Len(s)))]

(* The comma-separated tokens, the empty ones left out.                    *)
Tokens(text) ==
    LET commas == {0, Len(text) + 1} \cup {i \in DOMAIN text : text[i] = ","}
        ends == SetToSortSeq(commas, <)
        token(i) == SubSeq(text, ends[i] + 1, ends[i + 1] - 1)
    IN  SelectSeq([i \in 1 .. Len(ends) - 1 |-> token(i)], LAMBDA s : s # <<>>)

(* A key given twice has its last value, recognized or not.                *)
extract_key_vals_(text) ==
    LET kvs == [i \in DOMAIN Tokens(text) |-> extract_kv_(Tokens(text)[i])]
    IN  [k \in {kvs[i].key : i \in DOMAIN kvs} |->
            kvs[Max({i \in DOMAIN kvs : kvs[i].key = k})].val]

(* The level of a key, none if it has no value that is a level.            *)
LevelOf(key_vals, key) ==
    IF key \notin DOMAIN key_vals THEN NoLevel
    ELSE LET v == to_lower_(key_vals[key])
         IN  IF from_str(v) = Off /\ v # <<"off">> THEN NoLevel ELSE from_str(v)

MaxSpec == 32768
Usable(text) == text # <<>> /\ Len(text) < MaxSpec
GlobalLevel(text) == LevelOf(extract_key_vals_(text), <<>>)
NamedLevel(text, name) == LevelOf(extract_key_vals_(text), <<name>>)
=============================================================================
