---------------------- MODULE MCDailyRotatingFileSink -----------------------
(* Sinks that rotate at midnight and at noon, keeping one to three files.  *)
EXTENDS DailyRotatingFileSink

Config(n, truncate, offset) ==
    [max_size |-> 2, max_files |-> n, truncate |-> truncate, offset |-> offset]

MCConfigs == {Config(0, FALSE, 0), Config(2, FALSE, 1), Config(3, FALSE, 0)}
=============================================================================
