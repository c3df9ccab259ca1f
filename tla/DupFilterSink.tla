--------------------------- MODULE DupFilterSink ---------------------------
(***************************************************************************)
(* sinks/dup_filter_sink.h over sinks/dist_sink.h, with two sub-sinks: a   *)
(* ringbuffer_sink that takes every level, and a callback_sink with a      *)
(* level of its own, whose callback may throw.  base_sink::log holds the   *)
(* sink's mutex for the whole of sink_it_, so a call is one step.          *)
(***************************************************************************)
EXTENDS FifoOps, Functions

CONSTANTS RingSize,             \* n_items of the ringbuffer_sink
          MaxSkip,              \* max_skip_duration_
          CallbackLevel         \* level of the callback_sink

ASSUME DupFilterAssumption == RingSize \in Nat \ {0} /\ MaxSkip \in Nat

VARIABLES
    dup,            \* last_msg_time_, last_msg_payload_, skip_counter_, skipped_msg_log_level_
    subsinks,       \* dist_sink::sinks_, in order; the ring is always one of them
    ring,           \* q_ of the ringbuffer_sink
    \* history
    shown,          \* text and time of the last message that all sub-sinks took
    duplicates,     \* messages with the text of the last one shown that came within
                    \* max_skip_duration_ of it
    reported,       \* sum of the counts in the "Skipped" messages the ring was given
    sub_threw       \* how often a callback threw

dup_vars == <<dup, subsinks, ring, shown, duplicates, reported, sub_threw>>

NoPayload == "empty"            \* the empty string

DupInit == /\ dup = [time |-> 0, payload |-> NoPayload, skip |-> 0, level |-> 6]
           /\ subsinks = <<"ring", "callback">>
           /\ ring = NewFifo(RingSize)
           /\ shown = [time |-> 0, payload |-> NoPayload]
           /\ duplicates = 0 /\ reported = 0 /\ sub_threw = 0

(* The message that reports n skipped ones.                                *)
SkippedMsg(msg) == [msg EXCEPT !.payload = <<"Skipped", dup.skip>>, !.level = dup.level]

(* filter_ that shows a message as soon as the duration has passed.        *)
filter_at_limit(msg) == msg.time - dup.time >= MaxSkip \/ msg.payload # dup.payload

(* filter_: TRUE when the message is to be shown.                          *)
filter(msg) == msg.time - dup.time > MaxSkip \/ msg.payload # dup.payload

(* The ring after the messages of msgs.                                    *)
RingAfter(msgs) == LET step[i \in 0 .. Len(msgs)] ==
                           IF i = 0 THEN ring ELSE Pushed(step[i - 1], msgs[i])
                   IN  step[Len(msgs)]

(* A throw of the callback: sub-sinks before it already have the message,  *)
(* sub-sinks after it do not.                                              *)
RingBeforeCallback == subsinks[1] = "ring"

CanThrow(msg) == "callback" \in Range(subsinks) /\ msg.level >= CallbackLevel

(* What a throw of a sub-sink leaves: the assignments after it are not     *)
(* reached, so neither the last message nor the count changes.             *)
AfterThrow == dup

(* History: what is to be kept back.                                       *)
Duplicate(msg) == msg.payload = shown.payload /\ msg.time <= shown.time + MaxSkip

(* dup_filter_sink::sink_it_ and dist_sink::sink_it_.  outcome is "ok" or  *)
(* the kind of exception that leaves the call.                             *)
dup_sink_it(msg, outcome) ==
    LET msgs == IF dup.skip > 0 THEN <<SkippedMsg(msg), msg>> ELSE <<msg>>
        give(n) == /\ ring' = RingAfter(SubSeq(msgs, 1, n))
                   /\ reported' = IF n > 0 THEN reported + dup.skip ELSE reported
    IN  /\ duplicates' = IF Duplicate(msg) THEN duplicates + 1 ELSE duplicates
        /\ UNCHANGED subsinks
        /\ \/ /\ ~filter(msg) /\ outcome = "ok"
              /\ dup' = [dup EXCEPT !.skip = @ + 1, !.level = msg.level]
              /\ UNCHANGED <<ring, shown, reported, sub_threw>>
           \/ /\ filter(msg) /\ outcome = "ok"
              /\ give(Len(msgs))
              /\ dup' = [dup EXCEPT !.time = msg.time, !.payload = msg.payload, !.skip = 0]
              /\ shown' = [time |-> msg.time, payload |-> msg.payload]
              /\ UNCHANGED sub_threw
           \/ /\ filter(msg) /\ outcome # "ok"
              /\ \E n \in DOMAIN msgs :
                    CanThrow(msgs[n]) /\ give(IF RingBeforeCallback THEN n ELSE n - 1)
              /\ sub_threw' = sub_threw + 1
              /\ dup' = AfterThrow
              /\ UNCHANGED shown

(* dist_sink::add_sink, remove_sink, set_sinks.                            *)
set_sinks(sinks) == /\ subsinks' = sinks
                    /\ UNCHANGED <<dup, ring, shown, duplicates, reported, sub_threw>>

-----------------------------------------------------------------------------
(* Exactly the duplicates are kept back, those that come at the limit of   *)
(* max_skip_duration_ included, and none disappears without a trace: they  *)
(* are in the count still to be reported, or were reported to a sub-sink   *)
(* that takes every level.  What is kept back does not prolong the         *)
(* duration, and a message on which a sub-sink threw does not count as     *)
(* shown.  A sub-sink that throws may make a count appear twice; it never  *)
(* makes one disappear.                                                    *)
(*                                                                         *)
(* The header differs from the code twice: it speaks of less than          *)
(* max_skip_duration, and its example reports 3 for a text that was logged *)
(* three times, where the two that were kept back are counted.             *)
SkippedAccounted ==
    /\ reported + dup.skip >= duplicates
    /\ sub_threw = 0 => reported + dup.skip = duplicates
=============================================================================
