--------------------------- MODULE DailyFileSink ----------------------------
(***************************************************************************)
(* sinks/daily_file_sink.h and sinks/hourly_file_sink.h: a new file every  *)
(* period, named after the period, of which the last max_files_ are kept.  *)
(* The two classes differ in the length of the period, in the rotation     *)
(* offset (0 for the hourly sink) and in remove_init_file_.                *)
(*                                                                         *)
(* A message is stamped when it is logged and reaches the sink later, in   *)
(* any order: it waits for the sink's mutex or in the asynchronous queue.  *)
(* Each use of the clock is a step of its own, the clock may tick between. *)
(***************************************************************************)
EXTENDS FileHelper, FifoOps, RotationClock, FiniteSets

CONSTANTS Configs,      \* arguments of the constructors
          MaxMsgs       \* bound: messages logged

ASSUME ConfigsAssumption ==
    /\ Configs \subseteq [max_files : Nat, truncate : BOOLEAN,
                          offset : 0 .. TicksPerPeriod - 1, hourly : BOOLEAN]
    /\ \A c \in Configs : c.hourly => c.offset = 0
ASSUME MaxMsgsAssumption == MaxMsgs \in Nat

VARIABLES config,           \* base_filename_ etc., fixed by the constructor
          rotation_tp,      \* rotation_tp_
          filenames_q,      \* filenames_q_
          remove_init_file, \* remove_init_file_ of the hourly sink
          call,             \* the call in progress
          pending,          \* messages logged that the sink has not got yet
          logged,           \* messages logged so far
          \* history
          mine,             \* files this sink opened or found
          forgotten         \* files of mine that filenames_q_ will never delete

sinkVars == <<config, rotation_tp, filenames_q, remove_init_file>>
vars == <<fileVars, now, sinkVars, call, pending, logged, mine, forgotten>>

-----------------------------------------------------------------------------
Msg(id, time) == [id |-> id, time |-> time, size |-> 1, torn |-> FALSE]

At(stage, msg, should_rotate) ==
    [stage |-> stage, msg |-> msg, should_rotate |-> should_rotate]

NoSink == At("no_sink", Msg(0, 0), FALSE)
Idle   == At("idle", Msg(0, 0), FALSE)

Init == /\ files = << >>
        /\ buf = <<>>
        /\ filename = 0
        /\ is_open = FALSE
        /\ faults = 0
        /\ now = 0
        /\ config \in Configs
        /\ rotation_tp = 0
        /\ filenames_q = DisabledFifo
        /\ remove_init_file = FALSE
        /\ call = NoSink
        /\ pending = {}
        /\ logged = 0
        /\ mine = {}
        /\ forgotten = {}

Tick == Advance /\ UNCHANGED <<fileVars, sinkVars, call, pending, logged, mine, forgotten>>

(* A logging thread stamps a message.                                      *)
Log == /\ call.stage \notin {"no_sink", "construct", "init_q"}
       /\ logged < MaxMsgs
       /\ logged' = logged + 1
       /\ pending' = pending \cup {Msg(logged + 1, now)}
       /\ UNCHANGED <<fileVars, now, sinkVars, call, mine, forgotten>>

-----------------------------------------------------------------------------
(* The constructor opens the file of the current period.  No formatted     *)
(* message is empty, so size() is 0 when the file has none.                *)
Construct(c) ==
    /\ call = NoSink
    /\ config' = c
    /\ \/ /\ OpenOk(files, Period(now), c.truncate)
          /\ NoFault
          /\ call' = At("construct", Msg(0, 0), FALSE)
          /\ mine' = {Period(now)}
       \/ /\ OpenThrows(files, Period(now), c.truncate)
          /\ Fault
          /\ UNCHANGED <<call, mine>>
    /\ remove_init_file' = (c.hourly /\ Opened(files, Period(now), c.truncate)[Period(now)] = <<>>)
    /\ filenames_q' = DisabledFifo
    /\ forgotten' = {}
    /\ UNCHANGED <<now, rotation_tp, pending, logged>>

(* rotation_tp_ = next_rotation_tp_(), in the constructor and in sink_it_. *)
Schedule ==
    /\ call.stage \in {"construct", "rotated"}
    /\ rotation_tp' = next_rotation_tp(config.offset)
    /\ call' = [call EXCEPT !.stage = IF @ = "rotated" THEN "write"
                                      ELSE IF config.max_files > 0 THEN "init_q" ELSE "idle"]
    /\ UNCHANGED <<fileVars, now, config, filenames_q, remove_init_file,
                   pending, logged, mine, forgotten>>

(* The loop of init_filenames_q_ finds n files: the one of the current     *)
(* period and those before it, up to the first one missing, at most        *)
(* max_files_ of them.                                                     *)
Finds(n) == /\ \A k \in 0 .. n - 1 : Exists(files, Period(now) - k)
            /\ n < config.max_files => ~Exists(files, Period(now) - n)

(* init_filenames_q_, oldest first.                                        *)
init_filenames_q ==
    /\ call.stage = "init_q"
    /\ \E n \in 0 .. config.max_files :
          LET first == Period(now) - n + 1
              found == first .. Period(now)
          IN  /\ Finds(n)
              /\ filenames_q' = [NewFifo(config.max_files) EXCEPT
                                    !.items = [k \in 1 .. n |-> first + k - 1]]
              /\ mine' = mine \cup found
              /\ forgotten' = mine \ found
    /\ call' = Idle
    /\ UNCHANGED <<fileVars, now, config, rotation_tp, remove_init_file, pending, logged>>

-----------------------------------------------------------------------------
(* sink_it_ that rotates whenever the date of the message is another one.  *)
should_rotate_by_date(m) == Period(m.time) # filename

should_rotate(m) == m.time >= rotation_tp

(* The hourly sink that never clears remove_init_file_.                    *)
clear_remove_init_file_never == UNCHANGED remove_init_file

(* remove_init_file_ = false, once the first message has a file.           *)
clear_remove_init_file == remove_init_file' = FALSE

(* The files when the old file is closed, and removed by an hourly sink    *)
(* that has not logged anything to it.                                     *)
LeaveFile(fs) == IF remove_init_file THEN Without(fs, filename) ELSE fs

(* sink_it_ up to the write, or up to the clock in next_rotation_tp_.      *)
SinkIt(m) ==
    /\ call = Idle
    /\ pending' = pending \ {m}
    /\ \/ /\ ~should_rotate(m)
          /\ call' = At("write", m, FALSE)
          /\ clear_remove_init_file
          /\ UNCHANGED <<fileVars, mine>>
       \/ /\ should_rotate(m)
          /\ \E fs \in {Flushed, files} :
                ClosedFiles(fs) /\ OpenOk(LeaveFile(fs), Period(m.time), config.truncate)
          /\ mine' = mine \cup {Period(m.time)}
          /\ clear_remove_init_file
          /\ call' = At("rotated", m, TRUE)
       \/ /\ should_rotate(m)
          /\ OpenThrows(LeaveFile(Flushed), Period(m.time), config.truncate)
          /\ Fault
          /\ UNCHANGED <<call, mine, remove_init_file>>
    /\ UNCHANGED <<now, config, rotation_tp, filenames_q, logged, forgotten>>

(* The write; a write that throws skips the cleaning, and the file just    *)
(* opened does not get into filenames_q_.                                  *)
Write ==
    /\ call.stage = "write"
    /\ \/ /\ WriteOk(call.msg)
          /\ call' = IF call.should_rotate /\ config.max_files > 0
                     THEN [call EXCEPT !.stage = "clean"] ELSE Idle
          /\ UNCHANGED forgotten
       \/ /\ WriteThrows(call.msg)
          /\ call' = Idle
          /\ forgotten' = IF call.should_rotate THEN forgotten \cup {filename} ELSE forgotten
    /\ UNCHANGED <<now, sinkVars, pending, logged, mine>>

(* delete_old_ that pushes without deleting.                               *)
delete_old_keeps_file ==
    /\ call.stage = "clean"
    /\ filenames_q' = Pushed(filenames_q, filename)
    /\ call' = Idle
    /\ UNCHANGED <<fileVars, now, config, rotation_tp, remove_init_file,
                   pending, logged, mine, forgotten>>

(* delete_old_: make room in filenames_q_ by deleting the file at its      *)
(* front, then push the current file, also when the deletion failed.       *)
delete_old ==
    LET full == ~HasRoom(filenames_q.items, filenames_q.cap)
        old  == Head(filenames_q.items)
        kept == [filenames_q EXCEPT !.items = IF full THEN Tail(@) ELSE @]
    IN  /\ call.stage = "clean"
        /\ filenames_q' = Pushed(kept, filename)
        /\ \/ /\ files' = IF full THEN Without(files, old) ELSE files
              /\ NoFault
              /\ UNCHANGED forgotten
           \/ /\ full
              /\ Exists(files, old)
              /\ Fault
              /\ forgotten' = forgotten \cup {old}
              /\ UNCHANGED files
        /\ call' = Idle
        /\ UNCHANGED <<buf, filename, is_open, now, config, rotation_tp,
                       remove_init_file, pending, logged, mine>>

-----------------------------------------------------------------------------
Flush == /\ call = Idle
         /\ FlushOk \/ FlushThrows
         /\ UNCHANGED <<now, sinkVars, call, pending, logged, mine, forgotten>>

(* The sink object is gone, its members with it.                           *)
Gone == /\ buf' = <<>>
        /\ filename' = 0
        /\ is_open' = FALSE
        /\ rotation_tp' = 0
        /\ filenames_q' = DisabledFifo
        /\ remove_init_file' = FALSE
        /\ call' = NoSink
        /\ mine' = {}
        /\ forgotten' = {}
        /\ UNCHANGED <<now, config, logged>>

(* The destructor, once no message is under way.                           *)
Destroy == /\ call = Idle
           /\ pending = {}
           /\ \E fs \in {Flushed, files} : ClosedFiles(fs) /\ files' = fs
           /\ Gone
           /\ UNCHANGED pending

Crash == /\ call # NoSink
         /\ Gone
         /\ pending' = {}
         /\ UNCHANGED <<files, faults>>

Next == \/ Tick
        \/ Log
        \/ \E c \in Configs : Construct(c)
        \/ Schedule
        \/ init_filenames_q
        \/ \E m \in pending : SinkIt(m)
        \/ Write
        \/ delete_old
        \/ Flush
        \/ Destroy
        \/ Crash

Spec == Init /\ [][Next]_vars

-----------------------------------------------------------------------------
(* "If max_files > 0, retain only the last max_files": between two calls   *)
(* at most max_files_ of the files this sink opened or found exist.  The   *)
(* found ones count: init_filenames_q_ queues them and delete_old_ deletes *)
(* them, where the class comments say that log files from previous         *)
(* executions will not be deleted.  What escapes are the files             *)
(* filenames_q_ forgot: one whose first write threw, one that could not be *)
(* deleted, and the first one when a period ended within the constructor.  *)
RetentionBound ==
    (call = Idle /\ config.max_files > 0)
        => Cardinality((mine \ forgotten) \cap DOMAIN files) <= config.max_files

(* The rotation moment is the start of the period, or the configuration    *)
(* bears that the file of a period is opened twice.                        *)
NoCollision(c) == c.offset = 0 \/ (c.max_files # 1 /\ ~c.truncate)

(* While a sink is in use a message leaves the disk only with the oldest   *)
(* file of a full filenames_q_, never with the file being written: not by  *)
(* delete_old_, not by the truncation of a file at its rotation, not by    *)
(* remove_init_file_.  For the configurations in which no file is opened   *)
(* twice, or twice does no harm.                                           *)
OnlyOldFilesDeleted ==
    [][(NoCollision(config) /\ call # NoSink) =>
          \A id \in OnDisk(files) \ OnDisk(files)' :
              /\ call.stage = "clean"
              /\ Head(filenames_q.items) # filename
              /\ id \in Ids(files[Head(filenames_q.items)])]_vars

(* The open file is the latest of the sink's files: a sink never goes back *)
(* to the file of an earlier period, however late and in whatever order    *)
(* messages reach it.  rotation_tp_ lies after the time of the last        *)
(* rotation, and only younger messages get past it.                        *)
NeverBackInTime == is_open => \A p \in mine : filename >= p

(* The file a sink writes to exists: delete_old_ deletes "the file N       *)
(* rotations ago".                                                         *)
CurrentFileKept == (call = Idle /\ is_open) => Exists(files, filename)
=============================================================================
