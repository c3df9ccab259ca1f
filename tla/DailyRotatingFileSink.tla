----------------------- MODULE DailyRotatingFileSink ------------------------
(***************************************************************************)
(* daily_rotating_file_sink.h of the porting stage: a file per day that is *)
(* also rotated by size.  A file is named <<day, index>>; index 0 is the   *)
(* day's main file, 1 .. max_files_ - 1 its older parts.                   *)
(*                                                                         *)
(* rotate_() asks the clock for the day whose files it renames, while the  *)
(* open file bears the day of the message that opened it.  It ignores what *)
(* rename and remove return.  As in the other file sinks each use of the   *)
(* clock and each rename is a step, and messages arrive late and in any    *)
(* order.                                                                  *)
(***************************************************************************)
EXTENDS FileHelper, RotationClock

CONSTANTS Configs,      \* arguments of the constructor
          MsgSizes,     \* sizes of formatted messages
          MaxMsgs       \* bound: messages that reach the sink

ASSUME ConfigsAssumption ==
    Configs \subseteq [max_size : Nat \ {0}, max_files : Nat, truncate : BOOLEAN,
                       offset : 0 .. TicksPerPeriod - 1]
ASSUME MsgsAssumption == MsgSizes \subseteq Nat \ {0} /\ MaxMsgs \in Nat

VARIABLES config,       \* max_size_, rotation time, as given to the constructor
          max_files,    \* max_files_
          current_size, \* current_size_
          rotation_tp,  \* rotation_tp_
          call,         \* the call in progress
          pending,      \* stamps of messages that have not reached the sink
          logged        \* messages that have

sinkVars == <<config, max_files, current_size, rotation_tp>>
vars == <<fileVars, now, sinkVars, call, pending, logged>>

-----------------------------------------------------------------------------
Msg(id, size) == [id |-> id, size |-> size, torn |-> FALSE]

calc_filename(date, index) == <<date, index>>

(* A call: date and i are locals of rotate_, failed tells that one of its  *)
(* renames or removals failed.                                             *)
NoSink == [stage |-> "no_sink", msg |-> Msg(0, 0), new_size |-> 0,
           date |-> 0, i |-> 0, failed |-> FALSE]

Idle == [NoSink EXCEPT !.stage = "idle"]

Init == /\ files = << >>
        /\ buf = <<>>
        /\ filename = calc_filename(0, 0)
        /\ is_open = FALSE
        /\ faults = 0
        /\ now = 0
        /\ config \in Configs
        /\ max_files = 1
        /\ current_size = 0
        /\ rotation_tp = 0
        /\ call = NoSink
        /\ pending = {}
        /\ logged = 0

Tick == Advance /\ UNCHANGED <<fileVars, sinkVars, call, pending, logged>>

Log == /\ call.stage \notin {"no_sink", "construct"}
       /\ pending' = pending \cup {now}
       /\ UNCHANGED <<fileVars, now, sinkVars, call, logged>>

-----------------------------------------------------------------------------
(* max_files_(max_files > 0 ? max_files : 1)                               *)
at_least_one(n) == IF n > 0 THEN n ELSE 1

(* The constructor, up to next_rotation_tp_.  When open() throws there is  *)
(* no sink; the file may be truncated already.                             *)
Construct(c) ==
    LET name == calc_filename(Period(now), 0)
    IN  /\ call = NoSink
        /\ config' = c
        /\ max_files' = at_least_one(c.max_files)
        /\ current_size' = IF c.truncate THEN 0 ELSE Bytes(Opened(files, name, FALSE)[name])
        /\ \/ OpenOk(files, name, c.truncate) /\ NoFault
              /\ call' = [NoSink EXCEPT !.stage = "construct"]
           \/ OpenThrows(files, name, c.truncate) /\ Fault /\ UNCHANGED call
        /\ UNCHANGED <<now, rotation_tp, pending, logged>>

Schedule ==
    /\ call.stage \in {"construct", "new_day"}
    /\ rotation_tp' = next_rotation_tp(config.offset)
    /\ call' = IF call.stage = "construct" THEN Idle ELSE [call EXCEPT !.stage = "check_size"]
    /\ UNCHANGED <<fileVars, now, config, max_files, current_size, pending, logged>>

(* sink_it_, first check: a message past rotation_tp_ opens the file of    *)
(* its day.                                                                *)
SinkIt(time, size) ==
    LET msg  == Msg(logged + 1, size)
        name == calc_filename(Period(time), 0)
    IN  /\ call = Idle
        /\ logged < MaxMsgs
        /\ logged' = logged + 1
        /\ pending' = pending \ {time}
        /\ \/ /\ time < rotation_tp
              /\ call' = [Idle EXCEPT !.stage = "check_size", !.msg = msg]
              /\ UNCHANGED <<fileVars, current_size>>
           \/ /\ time >= rotation_tp
              /\ \E fs \in {Flushed, files} : ClosedFiles(fs) /\ OpenOk(fs, name, FALSE)
              /\ current_size' = 0
              /\ call' = [Idle EXCEPT !.stage = "new_day", !.msg = msg]
           \/ /\ time >= rotation_tp
              /\ OpenThrows(Flushed, name, FALSE)
              /\ Fault
              /\ UNCHANGED <<call, current_size>>
        /\ UNCHANGED <<now, config, max_files, rotation_tp>>

(* rotate_() up to its loop.  With max_files_ = 1 the oldest file is the   *)
(* main file.                                                              *)
StartRotation ==
    LET date         == Period(now)
        target_index == max_files - 1
        oldest       == calc_filename(date, target_index)
    IN  /\ \/ files' = Without(Flushed, oldest) /\ NoFault
              /\ call' = [call EXCEPT !.stage = "rotate", !.date = date,
                                      !.i = target_index, !.new_size = call.msg.size]
           \/ Exists(Flushed, oldest) /\ files' = Flushed /\ Fault
              /\ call' = [call EXCEPT !.stage = "rotate", !.date = date, !.failed = TRUE,
                                      !.i = target_index, !.new_size = call.msg.size]
        /\ buf' = <<>>
        /\ is_open' = FALSE
        /\ UNCHANGED filename

(* sink_it_, second check: rotate a file that would grow too large.        *)
CheckSize ==
    LET new_size == current_size + call.msg.size
    IN  /\ call.stage = "check_size"
        /\ \/ /\ new_size <= config.max_size
              /\ call' = [call EXCEPT !.stage = "write", !.new_size = new_size]
              /\ UNCHANGED fileVars
           \/ /\ new_size > config.max_size
              /\ FlushThrows \/ (~is_open /\ FlushOk)
              /\ call' = Idle
           \/ /\ new_size > config.max_size
              /\ is_open
              /\ size_after_flush > 0
              /\ StartRotation
           \/ /\ new_size > config.max_size
              /\ is_open
              /\ size_after_flush = 0
              /\ FlushOk
              /\ call' = [call EXCEPT !.stage = "write", !.new_size = new_size]
        /\ UNCHANGED <<now, sinkVars, pending, logged>>

-----------------------------------------------------------------------------
Renamed(src, target) ==
    IF Exists(files, src) THEN With(Without(files, src), target, files[src]) ELSE files

(* The loop of rotate_ in ascending order: a part is renamed over the next *)
(* one before that has moved.                                              *)
ShiftFile_ascending ==
    LET src == calc_filename(call.date, max_files - call.i - 1)
        dst == calc_filename(call.date, max_files - call.i)
    IN  /\ call.stage = "rotate"
        /\ call.i > 1
        /\ files' = Renamed(src, dst)
        /\ call' = [call EXCEPT !.i = @ - 1]
        /\ NoFault
        /\ UNCHANGED <<buf, filename, is_open, now, sinkVars, pending, logged>>

(* One turn of the loop of rotate_(); a failed rename goes unnoticed.      *)
ShiftFile ==
    LET src == calc_filename(call.date, call.i - 1)
        dst == calc_filename(call.date, call.i)
    IN  /\ call.stage = "rotate"
        /\ call.i > 1
        /\ \/ /\ files' = Renamed(src, dst)
              /\ NoFault
              /\ call' = [call EXCEPT !.i = @ - 1]
           \/ /\ Exists(files, src)
              /\ Fault
              /\ call' = [call EXCEPT !.i = @ - 1, !.failed = TRUE]
              /\ UNCHANGED files
        /\ UNCHANGED <<buf, filename, is_open, now, sinkVars, pending, logged>>

(* The day's main file becomes part 1.                                     *)
ShiftCurrent ==
    LET current == calc_filename(call.date, 0)
    IN  /\ call.stage = "rotate"
        /\ call.i <= 1
        /\ \/ /\ files' = Renamed(current, calc_filename(call.date, 1))
              /\ NoFault
              /\ call' = [call EXCEPT !.stage = "reopen"]
           \/ /\ Exists(files, current)
              /\ Fault
              /\ call' = [call EXCEPT !.stage = "reopen", !.failed = TRUE]
              /\ UNCHANGED files
        /\ UNCHANGED <<buf, filename, is_open, now, sinkVars, pending, logged>>

(* The end of rotate_(): reopen(true) truncates whatever filename_ names.  *)
Reopen ==
    /\ call.stage = "reopen"
    /\ \/ /\ OpenOk(files, filename, TRUE)
          /\ NoFault
          /\ current_size' = 0
          /\ call' = [call EXCEPT !.stage = "write"]
       \/ /\ OpenThrows(files, filename, TRUE)
          /\ Fault
          /\ call' = Idle
          /\ UNCHANGED current_size
    /\ UNCHANGED <<now, config, max_files, rotation_tp, pending, logged>>

Write ==
    /\ call.stage = "write"
    /\ \/ WriteOk(call.msg) /\ current_size' = call.new_size
       \/ WriteThrows(call.msg) /\ UNCHANGED current_size
    /\ call' = Idle
    /\ UNCHANGED <<now, config, max_files, rotation_tp, pending, logged>>

-----------------------------------------------------------------------------
Flush == /\ call = Idle
         /\ FlushOk \/ FlushThrows
         /\ UNCHANGED <<now, sinkVars, call, pending, logged>>

(* The sink object is gone, its members with it.                           *)
Gone == /\ buf' = <<>>
        /\ is_open' = FALSE
        /\ current_size' = 0
        /\ rotation_tp' = 0
        /\ call' = NoSink
        /\ UNCHANGED <<filename, now, config, max_files, logged>>

Destroy == /\ call = Idle
           /\ pending = {}
           /\ \E fs \in {Flushed, files} : ClosedFiles(fs) /\ files' = fs
           /\ Gone
           /\ UNCHANGED pending

Crash == /\ call # NoSink
         /\ Gone
         /\ pending' = {}
         /\ UNCHANGED <<files, faults>>

Next == \/ Tick
        \/ Log
        \/ \E c \in Configs : Construct(c)
        \/ Schedule
        \/ \E time \in pending, size \in MsgSizes : SinkIt(time, size)
        \/ CheckSize
        \/ ShiftFile
        \/ ShiftCurrent
        \/ Reopen
        \/ Write
        \/ Flush
        \/ Destroy
        \/ Crash

Spec == Init /\ [][Next]_vars

-----------------------------------------------------------------------------
Content(n) == (IF Exists(files, n) THEN files[n] ELSE <<>>)
                  \o (IF n = filename THEN buf ELSE <<>>)

Accounted(msgs) ==
    Total([k \in 1 .. Len(msgs) |-> IF msgs[k].torn THEN 0 ELSE msgs[k].size], Len(msgs))

(* "max_size: the largest size of a file": a write adds to a file that has *)
(* messages only if it stays within max_size_.  For sinks that rotate at   *)
(* midnight: any other rotation time lets sink_it_ open the same day's     *)
(* file again and count it as empty.                                       *)
WriteWithinLimit ==
    [][(config.offset = 0 /\ call.stage = "write" /\ Content(filename) # <<>>
        /\ Len(Content(filename)') > Len(Content(filename)))
          => Accounted(Content(filename)') <= config.max_size]_vars

(* The messages of the oldest part that max_files_ keeps of today's files. *)
InOldestPart(id) ==
    LET oldest == calc_filename(Period(now), max_files - 1)
    IN  Exists(files, oldest) /\ id \in Ids(files[oldest])

(* A sink in use deletes a message from the disk only with the oldest part *)
(* of the day being rotated, unless a rename failed unnoticed, or rotate_  *)
(* renamed the files of another day than that of the open file and then    *)
(* truncated the open file.                                                *)
DeletesOldestOrStale ==
    [][call # NoSink =>
          \A id \in OnDisk(files) \ OnDisk(files)' :
              \/ call.stage = "check_size" /\ InOldestPart(id)
              \/ call.failed
              \/ /\ call.stage = "reopen"
                 /\ call.date # filename[1]
                 /\ id \in Ids(files[filename])]_vars
=============================================================================
