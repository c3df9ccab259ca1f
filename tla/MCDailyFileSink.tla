-------------------------- MODULE MCDailyFileSink ---------------------------
(* Daily sinks that rotate at the start of the day and in the middle of    *)
(* it, and hourly sinks.                                                   *)
EXTENDS DailyFileSink

Daily(max_files, truncate, offset) ==
    [max_files |-> max_files, truncate |-> truncate, offset |-> offset, hourly |-> FALSE]

Hourly(max_files, truncate) ==
    [max_files |-> max_files, truncate |-> truncate, offset |-> 0, hourly |-> TRUE]

MCConfigs == {Daily(0, FALSE, 1), Daily(1, FALSE, 0), Daily(2, FALSE, 1),
              Daily(1, TRUE, 1), Hourly(1, FALSE), Hourly(2, TRUE)}

OneFile == {Daily(1, FALSE, 1)}
=============================================================================
