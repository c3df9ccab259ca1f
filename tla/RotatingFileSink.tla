-------------------------- MODULE RotatingFileSink --------------------------
(***************************************************************************)
(* sinks/rotating_file_sink: a file that is rotated when it would exceed   *)
(* max_size_.  File 0 is the one being written, files 1 .. max_files_ the  *)
(* older ones, the largest index the oldest.                               *)
(*                                                                         *)
(* Every member function holds the sink's mutex, so one call runs at a     *)
(* time; a call is split into the steps between which the process may      *)
(* crash: each rename of rotate_() and the final write.  A new sink may    *)
(* then be constructed, with other limits, on the files left behind.       *)
(***************************************************************************)
EXTENDS FileHelper

CONSTANTS MaxSizes,     \* values of max_size_
          MaxFilesSet,  \* values of max_files_
          MsgSizes,     \* sizes of formatted messages
          MaxMsgs       \* bound: messages logged

ASSUME MaxSizesAssumption == MaxSizes \subseteq Nat \ {0}
ASSUME MaxFilesSetAssumption == MaxFilesSet \subseteq Nat
ASSUME MsgSizesAssumption == MsgSizes \subseteq Nat \ {0}
ASSUME MaxMsgsAssumption == MaxMsgs \in Nat

VARIABLES current_size, \* current_size_
          max_size,     \* max_size_
          max_files,    \* max_files_
          call,         \* the call in progress
          threw,        \* the last call ended in an exception
          logged        \* messages handed to sink_it_ so far

sinkVars == <<current_size, max_size, max_files>>
vars == <<fileVars, sinkVars, call, threw, logged>>

-----------------------------------------------------------------------------
Msg(id, size) == [id |-> id, size |-> size, torn |-> FALSE]

NoMsg == Msg(0, 0)

(* No sink object; a sink between two calls.                               *)
NoSink == [op |-> "no_sink", stage |-> "done", i |-> 0, msg |-> NoMsg, new_size |-> 0]

Idle == [NoSink EXCEPT !.op = "idle"]

(* rotate_() entered from op, about to treat index i.                      *)
Rotating(op, i, msg) ==
    [op |-> op, stage |-> "rotate", i |-> i, msg |-> msg, new_size |-> msg.size]

(* sink_it_ about to call file_helper_.write().                            *)
Writing(msg, new_size) ==
    [op |-> "sink_it", stage |-> "write", i |-> 0, msg |-> msg, new_size |-> new_size]

Throw == /\ call' = IF call.op = "construct" THEN NoSink ELSE Idle
         /\ threw' = TRUE

Return == call' = Idle /\ threw' = FALSE

-----------------------------------------------------------------------------
Init == /\ files = << >>
        /\ buf = <<>>
        /\ filename = 0
        /\ is_open = FALSE
        /\ faults = 0
        /\ current_size = 0
        /\ max_size \in MaxSizes
        /\ max_files \in MaxFilesSet
        /\ call = NoSink
        /\ threw = FALSE
        /\ logged = 0

(* The constructor.  When the first open() throws there is no sink, as     *)
(* before.                                                                 *)
Construct(size_limit, files_limit, rotate_on_open) ==
    LET fs    == Opened(files, 0, FALSE)
        bytes == Bytes(fs[0])
    IN  /\ call = NoSink
        /\ max_size' = size_limit
        /\ max_files' = files_limit
        /\ current_size' = bytes
        /\ IF rotate_on_open /\ bytes > 0
           THEN /\ call' = Rotating("construct", files_limit, NoMsg)
                /\ files' = fs
                /\ buf' = <<>>
                /\ filename' = 0
                /\ is_open' = FALSE
                /\ UNCHANGED threw
           ELSE OpenOk(files, 0, FALSE) /\ Return
        /\ NoFault
        /\ UNCHANGED logged

(* rotate_() closes the file and starts its loop at max_files_.            *)
StartRotation(op, msg, fs) ==
    /\ files' = fs
    /\ buf' = <<>>
    /\ is_open' = FALSE
    /\ call' = Rotating(op, max_files, msg)
    /\ UNCHANGED <<filename, sinkVars, threw>>

(* sink_it_ up to the write.  The flush before size() makes size() exact.  *)
SinkIt(size) ==
    LET msg      == Msg(logged + 1, size)
        new_size == current_size + size
    IN  /\ call = Idle
        /\ logged < MaxMsgs
        /\ logged' = logged + 1
        /\ \/ /\ new_size <= max_size
              /\ call' = Writing(msg, new_size)
              /\ UNCHANGED <<fileVars, sinkVars, threw>>
           \/ /\ new_size > max_size
              /\ FlushThrows
              /\ Throw
              /\ UNCHANGED sinkVars
           \/ /\ new_size > max_size
              /\ ~is_open
              /\ FlushOk
              /\ Throw
              /\ UNCHANGED sinkVars
           \/ /\ new_size > max_size
              /\ is_open
              /\ size_after_flush > 0
              /\ StartRotation("sink_it", msg, Flushed)
              /\ NoFault
           \/ /\ new_size > max_size
              /\ is_open
              /\ size_after_flush = 0
              /\ FlushOk
              /\ call' = Writing(msg, new_size)
              /\ UNCHANGED <<sinkVars, threw>>

(* The rest of sink_it_: current_size_ is only assigned after a write that *)
(* did not throw.                                                          *)
Write == /\ call.stage = "write"
         /\ \/ WriteOk(call.msg) /\ Return /\ current_size' = call.new_size
            \/ WriteThrows(call.msg) /\ Throw /\ UNCHANGED current_size
         /\ UNCHANGED <<max_size, max_files, logged>>

-----------------------------------------------------------------------------
RotateNow == /\ call = Idle
             /\ \E fs \in {Flushed, files} :
                  ClosedFiles(fs) /\ StartRotation("rotate_now", NoMsg, fs)
             /\ UNCHANGED logged

(* rename_file_(): the target is removed first.                            *)
rename_file(fs, src, target) == With(Without(fs, src), target, fs[src])

(* The loop stopping at the first file that is missing.                    *)
ShiftFile_stops_at_hole ==
    LET src == call.i - 1 IN
    /\ call.stage = "rotate"
    /\ call.i > 0
    /\ files' = IF Exists(files, src) THEN rename_file(files, src, call.i) ELSE files
    /\ call' = [call EXCEPT !.i = IF Exists(files, src) THEN src ELSE 0]
    /\ NoFault
    /\ UNCHANGED <<buf, filename, is_open, sinkVars, threw, logged>>

(* The loop copying the files instead of renaming them.                    *)
ShiftFile_copies ==
    LET src == call.i - 1 IN
    /\ call.stage = "rotate"
    /\ call.i > 0
    /\ files' = IF Exists(files, src) THEN With(files, call.i, files[src]) ELSE files
    /\ call' = [call EXCEPT !.i = src]
    /\ NoFault
    /\ UNCHANGED <<buf, filename, is_open, sinkVars, threw, logged>>

(* One turn of the loop of rotate_(): index i takes over index i - 1.      *)
ShiftFile ==
    LET src == call.i - 1 IN
    /\ call.stage = "rotate"
    /\ call.i > 0
    /\ files' = IF Exists(files, src) THEN rename_file(files, src, call.i) ELSE files
    /\ call' = [call EXCEPT !.i = src]
    /\ NoFault
    /\ UNCHANGED <<buf, filename, is_open, sinkVars, threw, logged>>

(* Both attempts to rename fail, the target being removed already or not:  *)
(* the log is truncated all the same and rotate_() throws.                 *)
ShiftFails ==
    /\ call.stage = "rotate"
    /\ call.i > 0
    /\ Exists(files, call.i - 1)
    /\ Fault
    /\ \E fs \in {files, Without(files, call.i)} :
          \/ OpenOk(fs, filename, TRUE) /\ current_size' = 0
          \/ OpenThrows(fs, filename, TRUE) /\ UNCHANGED current_size
    /\ Throw
    /\ UNCHANGED <<max_size, max_files, logged>>

(* The loop is over: reopen(true), and back to the caller of rotate_().    *)
ReopenOk ==
    /\ call.stage = "rotate"
    /\ call.i = 0
    /\ OpenOk(files, filename, TRUE)
    /\ NoFault
    /\ \/ /\ call.op = "sink_it"
          /\ call' = Writing(call.msg, call.new_size)
          /\ UNCHANGED <<current_size, threw>>
       \/ call.op = "rotate_now" /\ Return /\ UNCHANGED current_size
       \/ call.op = "construct" /\ Return /\ current_size' = 0
    /\ UNCHANGED <<max_size, max_files, logged>>

ReopenFails ==
    /\ call.stage = "rotate"
    /\ call.i = 0
    /\ OpenThrows(files, filename, TRUE)
    /\ Fault
    /\ Throw
    /\ UNCHANGED <<sinkVars, logged>>

-----------------------------------------------------------------------------
Flush == /\ call = Idle
         /\ (FlushOk /\ Return) \/ (FlushThrows /\ Throw)
         /\ UNCHANGED <<sinkVars, logged>>

SetMaxSize(n) == /\ call = Idle
                 /\ max_size' = n
                 /\ threw' = FALSE
                 /\ UNCHANGED <<fileVars, current_size, max_files, call, logged>>

SetMaxFiles(n) == /\ call = Idle
                  /\ max_files' = n
                  /\ threw' = FALSE
                  /\ UNCHANGED <<fileVars, current_size, max_size, call, logged>>

(* The destructor closes the file.                                         *)
Destroy == /\ call = Idle
           /\ \E fs \in {Flushed, files} : ClosedFiles(fs) /\ files' = fs
           /\ buf' = <<>>
           /\ is_open' = FALSE
           /\ call' = NoSink
           /\ UNCHANGED <<filename, sinkVars, threw, logged>>

(* The process dies: what stdio had buffered is gone.                      *)
Crash == /\ call # NoSink
         /\ buf' = <<>>
         /\ is_open' = FALSE
         /\ call' = NoSink
         /\ UNCHANGED <<files, filename, faults, sinkVars, threw, logged>>

Next == \/ \E s \in MaxSizes, n \in MaxFilesSet, r \in BOOLEAN : Construct(s, n, r)
        \/ \E n \in MsgSizes : SinkIt(n)
        \/ Write
        \/ RotateNow
        \/ ShiftFile
        \/ ShiftFails
        \/ ReopenOk
        \/ ReopenFails
        \/ Flush
        \/ \E n \in MaxSizes : SetMaxSize(n)
        \/ \E n \in MaxFilesSet : SetMaxFiles(n)
        \/ Destroy
        \/ Crash

Spec == Init /\ [][Next]_vars

-----------------------------------------------------------------------------
(* The messages of file i, the buffer counted to file 0.                   *)
Content(i) == (IF i \in DOMAIN files THEN files[i] ELSE <<>>)
                 \o (IF i = 0 THEN buf ELSE <<>>)

(* Read from the largest index to file 0, the files hold messages in the   *)
(* order they were logged, whatever rotations failed or were cut short by  *)
(* a crash and however max_files_ changed (rotate_ and its failure paths). *)
Chronological ==
    \A i, j \in DOMAIN files \cup {0} :
        /\ i < j => \A a \in 1 .. Len(Content(i)), b \in 1 .. Len(Content(j)) :
                        Content(j)[b].id < Content(i)[a].id
        /\ \A a, b \in 1 .. Len(Content(i)) :
                a < b => Content(i)[a].id < Content(i)[b].id

(* The bytes of file 0 that current_size_ is meant to know of.             *)
Accounted(msgs) ==
    Total([k \in 1 .. Len(msgs) |-> IF msgs[k].torn THEN 0 ELSE msgs[k].size], Len(msgs))

(* A write adds to a file that already has messages only if the file stays *)
(* within max_size_ (torn writes not counted): the decision of sink_it_,   *)
(* across restarts, changes of the limit and failed rotations.             *)
WriteWithinLimit ==
    [][(call.stage = "write" /\ Len(Content(0)') > Len(Content(0)) /\ Content(0) # <<>>)
          => Accounted(Content(0)') <= max_size]_vars

(* A step deletes a message from the disk only if it is in the oldest file *)
(* max_files_ keeps, or if it is in the current file and a rename has just *)
(* failed: rotate_ never renames over a file it has not moved, and never   *)
(* truncates a log it has not renamed.                                     *)
OnlyOldestDeleted ==
    [][\A id \in OnDisk(files) \ OnDisk(files)' :
          \/ max_files \in DOMAIN files /\ id \in Ids(files[max_files])
          \/ ShiftFails /\ 0 \in DOMAIN files /\ id \in Ids(files[0])]_vars
=============================================================================
