-------------------- MODULE DailyRotatingFileSink_proofs --------------------
(***************************************************************************)
(* The daily rotating file sink for any limits, rotation times and number  *)
(* of messages: what its rotation may delete, and that a sink that rotates *)
(* at midnight keeps its files within the limit.                           *)
(***************************************************************************)
EXTENDS DailyRotatingFileSink, SequenceTheorems, WellFoundedInduction, TLAPS

Message == [id : Nat, size : Nat \ {0}, torn : BOOLEAN]

(* The stages without a message, and the message of the others.            *)
NoMessage == {"no_sink", "construct", "idle"}
Whole(m) == m \in Message /\ m.torn = FALSE

CallOK == /\ DOMAIN call = {"stage", "msg", "new_size", "date", "i", "failed"}
          /\ call.stage \in NoMessage \/ Whole(call.msg)
          /\ call.i \in Nat /\ call.failed \in BOOLEAN

TypeOK == /\ now \in Nat /\ max_files \in Nat /\ max_files > 0 /\ logged \in Nat
          /\ config \in Configs
          /\ \A n \in DOMAIN files : files[n] \in Seq(Message)
          /\ buf \in Seq(Message)
          /\ CallOK

(* The place rotate_() fills next is empty, unless one of its renames has  *)
(* failed; the open file is the main file of some day.                     *)
RotationOK ==
    /\ \E d : filename = calc_filename(d, 0)
    /\ call.stage = "rotate" /\ ~call.failed => ~Exists(files, calc_filename(call.date, call.i))
    /\ call.stage = "reopen" /\ ~call.failed => ~Exists(files, calc_filename(call.date, 0))

(* The inductive invariant.                                                *)
Inv == TypeOK /\ RotationOK
-----------------------------------------------------------------------------
(* What the operations on files keep.                                      *)
FilesOK(fs) == \A n \in DOMAIN fs : fs[n] \in Seq(Message)

LEMMA EmptyIds == <<>> \in Seq(Message) /\ Ids(<<>>) = {}
<1>1. <<>> \in Seq(Message) /\ Len(<<>>) = 0
  BY EmptySeq
<1>2. \A k \in 1 .. Len(<<>>) : FALSE
  BY <1>1, SMT
<1>3. QED
  BY <1>1, <1>2 DEF Ids

LEMMA OnDiskIs ==
    ASSUME NEW fs, NEW id
    PROVE  id \in OnDisk(fs) <=> \E n \in DOMAIN fs : id \in Ids(fs[n])
BY DEF OnDisk

LEMMA StoredFacts ==
    ASSUME FilesOK(files), NEW b \in Seq(Message), NEW fs, fs = Stored(b)
    PROVE  /\ DOMAIN fs = DOMAIN files /\ FilesOK(fs)
           /\ \A n \in DOMAIN files : Ids(files[n]) \subseteq Ids(fs[n])
<1>1. CASE filename \notin DOMAIN files
  BY <1>1 DEF Stored, Exists
<1>2. CASE filename \in DOMAIN files
  <2> PICK f \in Seq(Message) : f = files[filename]
    BY <1>2 DEF FilesOK
  <2>1. PICK c : f = files[filename] /\ c = f \o b
    OBVIOUS
  <2>2. /\ DOMAIN fs = DOMAIN files /\ fs[filename] = c
        /\ \A n \in DOMAIN files : n # filename => fs[n] = files[n]
    BY <1>2, <2>1 DEF Stored, Exists, With
  <2>3. /\ c \in Seq(Message) /\ Len(c) = Len(f) + Len(b) /\ Len(f) \in Nat /\ Len(b) \in Nat
        /\ \A k \in 1 .. Len(f) + Len(b) : c[k] = IF k <= Len(f) THEN f[k] ELSE b[k - Len(f)]
    BY <2>1, ConcatProperties, LenProperties
  <2>4. ASSUME NEW k \in 1 .. Len(f) PROVE k \in 1 .. Len(c) /\ c[k] = f[k]
    <3>1. k \in 1 .. Len(f) + Len(b) /\ k <= Len(f)
      BY <2>3, SMT
    <3>2. QED
      BY <2>3, <3>1
  <2>5. Ids(f) \subseteq Ids(c)
    BY <2>4 DEF Ids
  <2>6. QED
    BY <2>1, <2>2, <2>3, <2>5 DEF FilesOK
<1>3. QED
  BY <1>1, <1>2

LEMMA OpenedFacts ==
    ASSUME NEW fs, FilesOK(fs), NEW name, NEW truncate \in BOOLEAN, NEW r, r = Opened(fs, name, truncate)
    PROVE  /\ FilesOK(r) /\ DOMAIN r = DOMAIN fs \cup {name}
           /\ \A n \in DOMAIN fs : n # name \/ ~truncate => r[n] = fs[n]
<1>1. /\ DOMAIN r = DOMAIN fs \cup {name}
      /\ \A n \in DOMAIN fs : n # name \/ ~truncate => r[n] = fs[n]
      /\ r[name] = <<>> \/ (name \in DOMAIN fs /\ r[name] = fs[name])
  BY DEF Opened, Exists, With
<1>2. QED
  BY <1>1, EmptyIds DEF FilesOK

LEMMA WithoutFacts ==
    ASSUME NEW fs, FilesOK(fs), NEW name, NEW r, r = Without(fs, name)
    PROVE  /\ FilesOK(r) /\ DOMAIN r = DOMAIN fs \ {name}
           /\ \A n \in DOMAIN fs \ {name} : r[n] = fs[n]
BY DEF Without, Restrict, FilesOK

(* The files after a rename to another name: only what the target held is  *)
(* gone.                                                                   *)
LEMMA RenamedFacts ==
    ASSUME FilesOK(files), NEW src, NEW target, src # target, NEW r, r = Renamed(src, target)
    PROVE  /\ FilesOK(r) /\ src \notin DOMAIN r /\ (src \notin DOMAIN files => r = files)
           /\ target \notin DOMAIN files =>
                 \A n \in DOMAIN files : \A id \in Ids(files[n]) : \E k \in DOMAIN r : id \in Ids(r[k])
<1>1. CASE src \notin DOMAIN files
  BY <1>1 DEF Renamed, Exists
<1>2. CASE src \in DOMAIN files
  <2>1. /\ DOMAIN r = (DOMAIN files \ {src}) \cup {target} /\ r[target] = files[src]
        /\ \A n \in DOMAIN files : n # src /\ n # target => r[n] = files[n]
    BY <1>2 DEF Renamed, Exists, With, Without, Restrict
  <2>2. FilesOK(r) /\ src \notin DOMAIN r
    BY <1>2, <2>1 DEF FilesOK
  <2>3. ASSUME target \notin DOMAIN files, NEW n \in DOMAIN files, NEW id \in Ids(files[n])
        PROVE  \E k \in DOMAIN r : id \in Ids(r[k])
    <3>1. CASE n = src
      BY <2>1, <2>3, <3>1
    <3>2. CASE n # src
      BY <2>1, <2>3, <3>2
    <3>3. QED
      BY <3>1, <3>2
  <2>4. QED
    BY <1>2, <2>2, <2>3
<1>3. QED
  BY <1>1, <1>2

LEMMA CallShapes ==
    /\ DOMAIN NoSink = {"stage", "msg", "new_size", "date", "i", "failed"}
    /\ NoSink.stage = "no_sink" /\ NoSink.i \in Nat /\ NoSink.failed \in BOOLEAN
    /\ DOMAIN Idle = {"stage", "msg", "new_size", "date", "i", "failed"}
    /\ Idle.stage = "idle" /\ Idle.i \in Nat /\ Idle.failed \in BOOLEAN
<1>1. 0 \in Nat
  BY SMT
<1>2. /\ DOMAIN NoSink = {"stage", "msg", "new_size", "date", "i", "failed"}
      /\ NoSink.stage = "no_sink" /\ NoSink.i \in Nat /\ NoSink.failed \in BOOLEAN
  BY <1>1 DEF NoSink
<1>3. /\ DOMAIN Idle = DOMAIN NoSink /\ Idle.stage = "idle"
      /\ Idle.i = NoSink.i /\ Idle.failed = NoSink.failed
  BY <1>2 DEF Idle
<1>4. QED
  BY <1>2, <1>3

LEMMA NamesDiffer ==
    ASSUME NEW d, NEW e, NEW i, NEW j
    PROVE  calc_filename(d, i) = calc_filename(e, j) <=> (d = e /\ i = j)
BY DEF calc_filename

(* Outside rotate_() nothing is asked of the files but their type.         *)
LEMMA OutsideRotation ==
    ASSUME Inv, FilesOK(files'), buf' \in Seq(Message), \E d : filename' = calc_filename(d, 0),
           now' \in Nat, max_files' \in Nat, max_files' > 0, logged' \in Nat, CallOK',
           config' \in Configs, call'.stage \notin {"rotate", "reopen"}
    PROVE  Inv'
BY DEF Inv, TypeOK, RotationOK, FilesOK

LEMMA Facts ==
    ASSUME Inv
    PROVE  /\ FilesOK(files) /\ FilesOK(Flushed) /\ buf \in Seq(Message) /\ <<>> \in Seq(Message)
           /\ now \in Nat /\ max_files \in Nat /\ max_files > 0 /\ logged \in Nat /\ CallOK
           /\ config \in Configs
           /\ \E d : filename = calc_filename(d, 0)
<1>1. FilesOK(files) /\ buf \in Seq(Message)
  BY DEF Inv, TypeOK, FilesOK
<1>2. FilesOK(Flushed)
  BY <1>1, StoredFacts DEF Flushed
<1>3. QED
  BY <1>1, <1>2, EmptyIds DEF Inv, TypeOK, RotationOK

LEMMA ClockKeeps == ASSUME Inv, Tick \/ Log PROVE Inv'
<1>1. UNCHANGED <<files, buf, filename, config, max_files, call, logged>>
  BY DEF Tick, Log, fileVars, sinkVars
<1>2. now' \in Nat
  BY SMT DEF Tick, Log, Advance, Inv, TypeOK
<1>3. QED
  BY <1>1, <1>2 DEF Inv, TypeOK, CallOK, RotationOK, Exists, calc_filename

LEMMA ConstructKeeps == ASSUME Inv, NEW c \in Configs, Construct(c) PROVE Inv'
<1>1. PICK name : name = calc_filename(Period(now), 0)
  OBVIOUS
<1>2. c.truncate \in BOOLEAN /\ c.max_files \in Nat
  BY ConfigsAssumption
<1>3. /\ call = NoSink /\ config' = c
      /\ max_files' = at_least_one(c.max_files) /\ now' = now /\ logged' = logged
      /\ buf' = <<>> /\ filename' = name
      /\ files' \in {files, Opened(files, name, c.truncate), Opened(files, name, TRUE)}
      /\ call' = [NoSink EXCEPT !.stage = "construct"] \/ call' = call
  BY <1>1 DEF Construct, OpenOk, OpenThrows
<1>4. max_files' \in Nat /\ max_files' > 0
  BY <1>2, <1>3, SMT DEF at_least_one
<1>5. FilesOK(files')
  BY <1>2, <1>3, Facts, OpenedFacts
<1>6. CallOK' /\ call'.stage \in {"construct", "no_sink"}
  BY <1>3, CallShapes DEF CallOK, NoMessage
<1>7. QED
  BY <1>1, <1>3, <1>4, <1>5, <1>6, Facts, OutsideRotation

LEMMA ScheduleKeeps == ASSUME Inv, Schedule PROVE Inv'
<1>1. /\ UNCHANGED <<files, buf, filename, now, config, max_files, logged>>
      /\ call' = IF call.stage = "construct" THEN Idle ELSE [call EXCEPT !.stage = "check_size"]
      /\ call.stage \in {"construct", "new_day"}
  BY DEF Schedule, fileVars
<1>2. CallOK' /\ call'.stage \in {"idle", "check_size"}
  <2>1. CASE call.stage = "construct"
    BY <1>1, <2>1, CallShapes DEF CallOK, NoMessage
  <2>2. CASE call.stage = "new_day"
    BY <1>1, <2>2, Facts DEF CallOK, NoMessage
  <2>3. QED
    BY <1>1, <2>1, <2>2
<1>3. FilesOK(files')
  BY <1>1, Facts
<1>4. QED
  BY <1>1, <1>2, <1>3, Facts, OutsideRotation

LEMMA SinkItKeeps ==
    ASSUME Inv, NEW time \in pending, NEW size \in MsgSizes, SinkIt(time, size)
    PROVE  Inv'
<1>1. PICK name, msg : name = calc_filename(Period(time), 0) /\ msg = Msg(logged + 1, size)
  OBVIOUS
<1>2. Whole(msg) /\ logged + 1 \in Nat
  <2>1. logged + 1 \in Nat /\ size \in Nat \ {0}
    BY Facts, MsgsAssumption, SMT
  <2>2. QED
    BY <1>1, <2>1 DEF Msg, Message, Whole
<1>3. /\ logged' = logged + 1 /\ now' = now /\ max_files' = max_files /\ call = Idle
      /\ config' = config
      /\ \/ files' = files /\ buf' = buf /\ filename' = filename
         \/ /\ files' \in {Flushed, files, Opened(Flushed, name, FALSE), Opened(files, name, FALSE)}
            /\ buf' = <<>> /\ filename' = name
      /\ \/ call' = [Idle EXCEPT !.stage = "check_size", !.msg = msg]
         \/ call' = [Idle EXCEPT !.stage = "new_day", !.msg = msg]
         \/ call' = Idle
  BY <1>1 DEF SinkIt, OpenOk, OpenThrows, fileVars
<1>4. FilesOK(Opened(Flushed, name, FALSE)) /\ FilesOK(Opened(files, name, FALSE))
  BY Facts, OpenedFacts
<1>5. FilesOK(files') /\ buf' \in Seq(Message) /\ \E d : filename' = calc_filename(d, 0)
  BY <1>1, <1>3, <1>4, Facts
<1>6. CallOK' /\ call'.stage \in {"check_size", "new_day", "idle"}
  BY <1>2, <1>3, CallShapes DEF CallOK, NoMessage
<1>7. QED
  BY <1>2, <1>3, <1>5, <1>6, Facts, OutsideRotation

(* rotate_() starts where it has just removed the oldest part.             *)
LEMMA StartRotationKeeps ==
    ASSUME Inv, StartRotation, call.stage = "check_size", UNCHANGED <<now, config, max_files, logged>>
    PROVE  Inv'
<1>1. PICK date, index, oldest : /\ date = Period(now) /\ index = max_files - 1
                                 /\ oldest = calc_filename(date, index)
  OBVIOUS
<1>2. index \in Nat
  BY <1>1, Facts, SMT
<1>3. /\ buf' = <<>> /\ filename' = filename
      /\ \/ /\ files' = Without(Flushed, oldest)
            /\ call' = [call EXCEPT !.stage = "rotate", !.date = date,
                                    !.i = index, !.new_size = call.msg.size]
         \/ /\ files' = Flushed
            /\ call' = [call EXCEPT !.stage = "rotate", !.date = date, !.failed = TRUE,
                                    !.i = index, !.new_size = call.msg.size]
  BY <1>1 DEF StartRotation
<1>4. FilesOK(files')
  BY <1>3, Facts, WithoutFacts
<1>5. /\ CallOK' /\ call'.stage = "rotate" /\ call'.date = date /\ call'.i = index
      /\ ~call'.failed => files' = Without(Flushed, oldest)
  BY <1>2, <1>3, Facts DEF CallOK, NoMessage
<1>6. ~call'.failed => oldest \notin DOMAIN files'
  BY <1>5 DEF Without, Restrict
<1>7. RotationOK'
  BY <1>1, <1>3, <1>5, <1>6, Facts DEF RotationOK, Exists, calc_filename
<1>8. TypeOK'
  BY <1>3, <1>4, <1>5, Facts DEF TypeOK, FilesOK
<1>9. QED
  BY <1>7, <1>8 DEF Inv

LEMMA CheckSizeKeeps == ASSUME Inv, CheckSize PROVE Inv'
<1>1. UNCHANGED <<now, config, max_files, logged>> /\ call.stage = "check_size"
  BY DEF CheckSize, sinkVars
<1>2. CASE StartRotation
  BY <1>1, <1>2, StartRotationKeeps
<1>3. CASE ~StartRotation
  <2>1. /\ files' \in {files, Flushed} /\ buf' \in {buf, <<>>} /\ filename' = filename
        /\ \/ call' = Idle
           \/ call' = [call EXCEPT !.stage = "write", !.new_size = current_size + call.msg.size]
    BY <1>3 DEF CheckSize, FlushThrows, FlushOk, fileVars
  <2>2. CallOK' /\ call'.stage \in {"idle", "write"}
    BY <1>1, <2>1, CallShapes, Facts DEF CallOK, NoMessage
  <2>3. FilesOK(files') /\ buf' \in Seq(Message)
    BY <2>1, Facts
  <2>4. QED
    BY <1>1, <2>1, <2>2, <2>3, Facts, OutsideRotation
<1>4. QED
  BY <1>2, <1>3

(* A turn of the loop empties the place that the next turn fills.          *)
LEMMA ShiftFileKeeps == ASSUME Inv, ShiftFile PROVE Inv'
<1>1. PICK j \in Nat : j = call.i - 1 /\ j # call.i
  <2>1. call.i \in Nat /\ call.i > 1
    BY Facts DEF ShiftFile, CallOK
  <2>2. call.i - 1 \in Nat /\ call.i - 1 # call.i
    BY <2>1, SMT
  <2>3. QED
    BY <2>2
<1>2. PICK src, dst, r : /\ src = calc_filename(call.date, j) /\ dst = calc_filename(call.date, call.i)
                         /\ r = Renamed(src, dst)
  OBVIOUS
<1>3. /\ UNCHANGED <<buf, filename, now, config, max_files, logged>> /\ call.stage = "rotate"
      /\ \/ files' = r /\ call' = [call EXCEPT !.i = j]
         \/ files' = files /\ call' = [call EXCEPT !.i = j, !.failed = TRUE]
  BY <1>1, <1>2 DEF ShiftFile, sinkVars
<1>4. FilesOK(r) /\ src \notin DOMAIN r
  BY <1>1, <1>2, Facts, NamesDiffer, RenamedFacts
<1>5. /\ CallOK' /\ call'.stage = "rotate" /\ call'.date = call.date /\ call'.i = j
      /\ ~call'.failed => files' = r
  BY <1>1, <1>3, Facts DEF CallOK, NoMessage
<1>6. TypeOK'
  BY <1>3, <1>4, <1>5, Facts DEF TypeOK, FilesOK
<1>7. RotationOK'
  BY <1>2, <1>3, <1>4, <1>5, Facts DEF RotationOK, Exists, calc_filename
<1>8. QED
  BY <1>6, <1>7 DEF Inv

LEMMA ShiftCurrentKeeps == ASSUME Inv, ShiftCurrent PROVE Inv'
<1>1. PICK src, dst, r : /\ src = calc_filename(call.date, 0) /\ dst = calc_filename(call.date, 1)
                         /\ r = Renamed(src, dst)
  OBVIOUS
<1>2. /\ UNCHANGED <<buf, filename, now, config, max_files, logged>> /\ call.stage = "rotate"
      /\ \/ files' = r /\ call' = [call EXCEPT !.stage = "reopen"]
         \/ files' = files /\ call' = [call EXCEPT !.stage = "reopen", !.failed = TRUE]
  BY <1>1 DEF ShiftCurrent, sinkVars
<1>3. src # dst
  BY <1>1, SMT DEF calc_filename
<1>4. FilesOK(r) /\ src \notin DOMAIN r
  BY <1>1, <1>3, Facts, RenamedFacts
<1>5. /\ CallOK' /\ call'.stage = "reopen" /\ call'.date = call.date
      /\ ~call'.failed => files' = r
  BY <1>2, Facts DEF CallOK, NoMessage
<1>6. TypeOK'
  BY <1>2, <1>4, <1>5, Facts DEF TypeOK, FilesOK
<1>7. RotationOK'
  BY <1>1, <1>2, <1>4, <1>5, Facts DEF RotationOK, Exists, calc_filename
<1>8. QED
  BY <1>6, <1>7 DEF Inv

LEMMA ReopenKeeps == ASSUME Inv, Reopen PROVE Inv'
<1>1. PICK r : r = Opened(files, filename, TRUE)
  OBVIOUS
<1>2. /\ UNCHANGED <<filename, now, config, max_files, logged>> /\ buf' = <<>>
      /\ call.stage = "reopen"
      /\ files' \in {files, r}
      /\ call' = [call EXCEPT !.stage = "write"] \/ call' = Idle
  BY <1>1 DEF Reopen, OpenOk, OpenThrows
<1>3. FilesOK(files')
  BY <1>1, <1>2, Facts, OpenedFacts
<1>4. CallOK' /\ call'.stage \in {"write", "idle"}
  BY <1>2, CallShapes, Facts DEF CallOK, NoMessage
<1>5. QED
  BY <1>2, <1>3, <1>4, Facts, OutsideRotation

(* What a write leaves in the buffer and in the files.                     *)
LEMMA WriteFacts ==
    ASSUME Inv, Write
    PROVE  /\ buf' \in Seq(Message) /\ filename' = filename
           /\ \E b \in Seq(Message) : files' \in {files, Stored(b)}
<1>1. call.msg \in Message /\ Torn(call.msg) \in Message
  BY Facts DEF Write, CallOK, NoMessage, Whole, Torn, Message
<1>2. PICK one, torn : one = Append(buf, call.msg) /\ torn = Append(buf, Torn(call.msg))
  OBVIOUS
<1>3. one \in Seq(Message) /\ torn \in Seq(Message)
  BY <1>1, <1>2, Facts, AppendProperties
<1>4. /\ filename' = filename /\ files' \in {files, Stored(one)}
      /\ buf' \in {buf, one, torn, <<>>}
  BY <1>2 DEF Write, WriteOk, WriteStores, WriteIgnored, WriteThrows, fileVars
<1>5. QED
  BY <1>3, <1>4, Facts

LEMMA WriteKeeps == ASSUME Inv, Write PROVE Inv'
<1>1. UNCHANGED <<now, config, max_files, logged>> /\ call' = Idle
  BY DEF Write
<1>2. PICK b \in Seq(Message) : files' \in {files, Stored(b)}
  BY WriteFacts
<1>3. FilesOK(files')
  BY <1>2, Facts, StoredFacts
<1>4. CallOK' /\ call'.stage = "idle"
  BY <1>1, CallShapes DEF CallOK, NoMessage
<1>5. QED
  BY <1>1, <1>3, <1>4, Facts, WriteFacts, OutsideRotation

LEMMA FlushKeeps == ASSUME Inv, Flush PROVE Inv'
<1>1. /\ UNCHANGED <<filename, now, config, max_files, logged, call>> /\ call = Idle
      /\ files' \in {files, Flushed} /\ buf' \in {buf, <<>>}
  BY DEF Flush, FlushOk, FlushThrows, sinkVars
<1>2. FilesOK(files') /\ buf' \in Seq(Message) /\ CallOK' /\ call'.stage = "idle"
  BY <1>1, Facts, CallShapes DEF CallOK, NoMessage
<1>3. QED
  BY <1>1, <1>2, Facts, OutsideRotation

LEMMA EndKeeps == ASSUME Inv, Destroy \/ Crash PROVE Inv'
<1>1. /\ UNCHANGED <<filename, now, config, max_files, logged>> /\ call' = NoSink
      /\ files' \in {files, Flushed} /\ buf' = <<>>
  BY DEF Destroy, Crash, Gone
<1>2. FilesOK(files') /\ buf' \in Seq(Message) /\ CallOK' /\ call'.stage = "no_sink"
  BY <1>1, Facts, CallShapes DEF CallOK, NoMessage
<1>3. QED
  BY <1>1, <1>2, Facts, OutsideRotation

LEMMA NextKeepsInv == Inv /\ [Next]_vars => Inv'
<1>1. ASSUME Inv, UNCHANGED vars PROVE Inv'
  BY <1>1 DEF vars, fileVars, sinkVars, Inv, TypeOK, CallOK, RotationOK, Exists, calc_filename
<1>2. ASSUME Inv, Next PROVE Inv'
  BY <1>2, ClockKeeps, ConstructKeeps, ScheduleKeeps, SinkItKeeps, CheckSizeKeeps, ShiftFileKeeps,
     ShiftCurrentKeeps, ReopenKeeps, WriteKeeps, FlushKeeps, EndKeeps DEF Next
<1>3. QED
  BY <1>1, <1>2

LEMMA InitInv == Init => Inv
<1> SUFFICES ASSUME Init PROVE Inv
  OBVIOUS
<1>1. /\ now = 0 /\ max_files = 1 /\ logged = 0 /\ buf = <<>> /\ call = NoSink
      /\ DOMAIN files = {} /\ filename = calc_filename(0, 0) /\ config \in Configs
  <2>1. DOMAIN << >> = {}
    BY EmptySeq, SMT
  <2>2. QED
    BY <2>1 DEF Init
<1>2. 0 \in Nat /\ 1 \in Nat /\ 1 > 0
  BY SMT
<1>3. QED
  BY <1>1, <1>2, EmptyIds, CallShapes DEF Inv, TypeOK, CallOK, NoMessage, RotationOK

LEMMA Invariance == Spec => []Inv
BY InitInv, NextKeepsInv, PTL DEF Spec
-----------------------------------------------------------------------------
(* Which messages leave the disk.                                          *)
LEMMA StoredKeepsDisk ==
    ASSUME Inv, NEW b \in Seq(Message), NEW id \in OnDisk(files)
    PROVE  id \in OnDisk(Stored(b))
<1>1. PICK n \in DOMAIN files : id \in Ids(files[n])
  BY OnDiskIs
<1>2. n \in DOMAIN Stored(b) /\ id \in Ids(Stored(b)[n])
  BY <1>1, Facts, StoredFacts
<1>3. QED
  BY <1>2, OnDiskIs

LEMMA OpenedKeepsDisk ==
    ASSUME NEW fs, NEW name, NEW id \in OnDisk(fs)
    PROVE  /\ id \in OnDisk(Opened(fs, name, FALSE))
           /\ id \notin OnDisk(Opened(fs, name, TRUE)) => name \in DOMAIN fs /\ id \in Ids(fs[name])
<1>1. PICK n \in DOMAIN fs : id \in Ids(fs[n])
  BY OnDiskIs
<1>2. PICK r, s : r = Opened(fs, name, FALSE) /\ s = Opened(fs, name, TRUE)
  OBVIOUS
<1>3. n \in DOMAIN r /\ r[n] = fs[n]
  BY <1>1, <1>2 DEF Opened, Exists, With
<1>4. n # name => n \in DOMAIN s /\ s[n] = fs[n]
  BY <1>1, <1>2 DEF Opened, Exists, With
<1>5. QED
  BY <1>1, <1>2, <1>3, <1>4, OnDiskIs

(* rotate_() starts by removing the oldest part.                           *)
LEMMA StartRotationDeletes ==
    ASSUME Inv, StartRotation, NEW id \in OnDisk(files), id \notin OnDisk(files')
    PROVE  InOldestPart(id)
<1>1. PICK oldest : oldest = calc_filename(Period(now), max_files - 1)
  OBVIOUS
<1>2. files' \in {Flushed, Without(Flushed, oldest)}
  BY <1>1 DEF StartRotation
<1>3. id \in OnDisk(Flushed)
  BY Facts, StoredKeepsDisk DEF Flushed
<1>4. id \notin OnDisk(Without(Flushed, oldest))
  BY <1>2, <1>3
<1>5. PICK n \in DOMAIN files : id \in Ids(files[n])
  BY OnDiskIs
<1>6. n \in DOMAIN Flushed /\ id \in Ids(Flushed[n])
  BY <1>5, Facts, StoredFacts DEF Flushed
<1>7. PICK r : r = Without(Flushed, oldest)
  OBVIOUS
<1>8. n # oldest => n \in DOMAIN r /\ r[n] = Flushed[n]
  <2>1. DOMAIN r = DOMAIN Flushed \ {oldest} /\ \A k \in DOMAIN Flushed \ {oldest} : r[k] = Flushed[k]
    BY <1>7 DEF Without, Restrict
  <2>2. QED
    BY <1>6, <2>1
<1>9. n = oldest
  BY <1>4, <1>6, <1>7, <1>8, OnDiskIs
<1>10. QED
  BY <1>1, <1>5, <1>9 DEF InOldestPart, Exists

(* As long as no rename failed, every rename of rotate_() goes to a free   *)
(* name, or finds nothing to rename.                                       *)
LEMMA RenamesKeepDisk ==
    ASSUME Inv, ShiftFile \/ ShiftCurrent, ~call.failed, NEW id \in OnDisk(files)
    PROVE  id \in OnDisk(files')
<1>1. call.stage = "rotate" /\ call.i \in Nat /\ calc_filename(call.date, call.i) \notin DOMAIN files
  BY Facts DEF ShiftFile, ShiftCurrent, Inv, RotationOK, CallOK, Exists
<1>2. PICK n \in DOMAIN files : id \in Ids(files[n])
  BY OnDiskIs
<1>3. CASE ShiftFile
  <2>1. PICK src, dst, r : /\ src = calc_filename(call.date, call.i - 1)
                           /\ dst = calc_filename(call.date, call.i)
                           /\ r = Renamed(src, dst)
    OBVIOUS
  <2>2. files' \in {files, r}
    BY <1>3, <2>1 DEF ShiftFile
  <2>3. call.i - 1 # call.i
    BY <1>1, SMT
  <2>4. src # dst /\ dst \notin DOMAIN files
    BY <1>1, <2>1, <2>3, NamesDiffer
  <2>5. \E k \in DOMAIN r : id \in Ids(r[k])
    BY <1>2, <2>1, <2>4, Facts, RenamedFacts
  <2>6. QED
    BY <2>2, <2>5, OnDiskIs
<1>4. CASE ShiftCurrent
  <2>1. PICK src, dst, r : /\ src = calc_filename(call.date, 0) /\ dst = calc_filename(call.date, 1)
                           /\ r = Renamed(src, dst)
    OBVIOUS
  <2>2. files' \in {files, r} /\ call.i <= 1
    BY <1>4, <2>1 DEF ShiftCurrent
  <2>3. call.i = 0 \/ call.i = 1
    BY <1>1, <2>2, SMT
  <2>4. src # dst
    BY <2>1, SMT DEF calc_filename
  <2>5. src \notin DOMAIN files \/ dst \notin DOMAIN files
    BY <1>1, <2>1, <2>3
  <2>6. r = files \/ \E k \in DOMAIN r : id \in Ids(r[k])
    BY <1>2, <2>1, <2>4, <2>5, Facts, RenamedFacts
  <2>7. QED
    BY <2>2, <2>6, OnDiskIs
<1>5. QED
  BY <1>3, <1>4

(* reopen(true) truncates the open file, which rotate_() has renamed if it *)
(* bears the day of the rotation.                                          *)
LEMMA ReopenDeletes ==
    ASSUME Inv, Reopen, ~call.failed, NEW id \in OnDisk(files), id \notin OnDisk(files')
    PROVE  call.stage = "reopen" /\ call.date # filename[1] /\ id \in Ids(files[filename])
<1>1. /\ call.stage = "reopen" /\ files' \in {files, Opened(files, filename, TRUE)}
      /\ calc_filename(call.date, 0) \notin DOMAIN files
  BY DEF Reopen, OpenOk, OpenThrows, Inv, RotationOK, Exists
<1>2. filename \in DOMAIN files /\ id \in Ids(files[filename])
  BY <1>1, Facts, OpenedKeepsDisk
<1>3. PICK d : filename = calc_filename(d, 0)
  BY Facts
<1>4. filename[1] = d
  BY <1>3 DEF calc_filename
<1>5. QED
  BY <1>1, <1>2, <1>3, <1>4

LEMMA OthersKeepDisk ==
    ASSUME Inv, NEW id \in OnDisk(files),
           \/ Tick \/ Log \/ Schedule \/ Write \/ Flush \/ Destroy \/ Crash
           \/ \E time \in pending, size \in MsgSizes : SinkIt(time, size)
           \/ CheckSize /\ ~StartRotation
           \/ UNCHANGED vars
    PROVE  id \in OnDisk(files')
<1>1. id \in OnDisk(Flushed)
  BY Facts, StoredKeepsDisk DEF Flushed
<1>2. CASE Tick \/ Log \/ Schedule \/ UNCHANGED vars
  <2>1. files' = files
    BY <1>2 DEF Tick, Log, Schedule, vars, fileVars
  <2>2. QED
    BY <2>1
<1>3. CASE Flush \/ Destroy \/ Crash \/ (CheckSize /\ ~StartRotation)
  <2>1. files' \in {files, Flushed}
    BY <1>3 DEF Flush, FlushOk, FlushThrows, Destroy, Crash, CheckSize, fileVars
  <2>2. QED
    BY <1>1, <2>1
<1>4. CASE Write
  <2>1. PICK b \in Seq(Message) : files' \in {files, Stored(b)}
    BY <1>4, WriteFacts
  <2>2. QED
    BY <2>1, StoredKeepsDisk
<1>5. ASSUME NEW time \in pending, NEW size \in MsgSizes, SinkIt(time, size)
      PROVE  id \in OnDisk(files')
  <2>1. PICK name : name = calc_filename(Period(time), 0)
    OBVIOUS
  <2>2. files' \in {files, Flushed, Opened(Flushed, name, FALSE), Opened(files, name, FALSE)}
    BY <1>5, <2>1 DEF SinkIt, OpenOk, OpenThrows, fileVars
  <2>3. id \in OnDisk(Opened(Flushed, name, FALSE)) /\ id \in OnDisk(Opened(files, name, FALSE))
    BY <1>1, Facts, OpenedKeepsDisk
  <2>4. QED
    BY <1>1, <2>2, <2>3
<1>6. QED
  BY <1>2, <1>3, <1>4, <1>5

(* For all limits and rotation times and any number of messages, a sink in *)
(* use deletes a message from the disk only with the oldest part of the    *)
(* day being rotated, unless a rename of rotate_() failed unnoticed, or    *)
(* rotate_() renamed the files of another day than that of the open file   *)
(* and then truncated the open file.                                       *)
THEOREM OldestOrStaleDeleted == Spec => DeletesOldestOrStale
<1> DEFINE Allowed(id) == \/ call.stage = "check_size" /\ InOldestPart(id)
                          \/ call.failed
                          \/ /\ call.stage = "reopen"
                             /\ call.date # filename[1]
                             /\ id \in Ids(files[filename])
<1>1. ASSUME Inv, [Next]_vars, call # NoSink, NEW id \in OnDisk(files) \ OnDisk(files)'
      PROVE  Allowed(id)
  <2>1. id \in OnDisk(files) /\ id \notin OnDisk(files')
    BY <1>1 DEF OnDisk, Ids
  <2>2. \A c \in Configs : ~Construct(c)
    BY <1>1 DEF Construct
  <2>3. (CheckSize /\ StartRotation) \/ ShiftFile \/ ShiftCurrent \/ Reopen
    BY <1>1, <2>1, <2>2, OthersKeepDisk DEF Next
  <2>4. CASE CheckSize /\ StartRotation
    BY <1>1, <2>1, <2>4, StartRotationDeletes DEF CheckSize
  <2>5. CASE ShiftFile \/ ShiftCurrent
    BY <1>1, <2>1, <2>5, RenamesKeepDisk
  <2>6. CASE Reopen
    BY <1>1, <2>1, <2>6, ReopenDeletes
  <2>7. QED
    BY <2>3, <2>4, <2>5, <2>6
<1>2. Inv /\ [Next]_vars
         => [call # NoSink =>
                \A id \in OnDisk(files) \ OnDisk(files)' :
                    \/ call.stage = "check_size" /\ InOldestPart(id)
                    \/ call.failed
                    \/ /\ call.stage = "reopen"
                       /\ call.date # filename[1]
                       /\ id \in Ids(files[filename])]_vars
  BY <1>1
<1>3. QED
  BY <1>2, Invariance, PTL DEF Spec, DeletesOldestOrStale
-----------------------------------------------------------------------------
(* Sums of sequences of numbers, as in RotatingFileSink_proofs: by         *)
(* induction, for a non-empty set of naturals has a least element.         *)
LEMMA LeastElement ==
    ASSUME NEW S, S \subseteq Nat, S # {}
    PROVE  \E n \in S : \A m \in S : ~(m < n)
<1>1. PICK R : R = {ss \in Nat \X Nat : ss[1] < ss[2]}
  OBVIOUS
<1>2. IsWellFoundedOn({ss \in Nat \X Nat : ss[1] < ss[2]}, Nat)
  BY NatLessThanWellFounded DEF OpToRel
<1>3. IsWellFoundedOn(R, Nat)
  BY <1>1, <1>2
<1>4. PICK n \in S : \A m \in S : <<m, n>> \notin R
  BY <1>3, WFMin
<1>5. \A m \in S : m < n => <<m, n>> \in R
  BY <1>1
<1>6. QED
  BY <1>4, <1>5

(* The partial sums of w.                                                  *)
Weights(w, n) == \A k \in 1 .. n : w[k] \in Nat
Sums(f, w, n) == /\ f \in [0 .. n -> Nat]
                 /\ f[0] = 0
                 /\ \A k \in 1 .. n : f[k] = f[k - 1] + w[k]

LEMMA SumsExist ==
    ASSUME NEW n \in Nat, NEW w, Weights(w, n)
    PROVE  \E f : Sums(f, w, n)
<1> DEFINE S == {j \in 0 .. n : ~\E f : Sums(f, w, j)}
<1> SUFFICES ASSUME ~\E f : Sums(f, w, n) PROVE FALSE
  OBVIOUS
<1>1. PICK j \in S : \A m \in S : ~(m < j)
  <2>1. n \in S /\ S \subseteq Nat
    BY SMT
  <2>2. QED
    BY <2>1, LeastElement
<1>2. j \in 0 .. n /\ j \in Nat /\ ~\E f : Sums(f, w, j)
  BY <1>1, SMT
<1>3. CASE j = 0
  <2>1. PICK f : f = [k \in 0 .. 0 |-> 0]
    OBVIOUS
  <2>2. f \in [0 .. 0 -> Nat] /\ f[0] = 0 /\ \A k \in 1 .. 0 : FALSE
    BY <2>1, SMT
  <2>3. QED
    BY <1>2, <1>3, <2>2 DEF Sums
<1>4. CASE j > 0
  <2>1. PICK m : m = j - 1
    OBVIOUS
  <2>2. m \in 0 .. n /\ m < j /\ m \in Nat /\ m \in 0 .. m /\ j \in 1 .. n
    BY <1>2, <1>4, <2>1, SMT
  <2>3. PICK g : Sums(g, w, m)
    BY <1>1, <2>2
  <2>4. PICK x \in Nat : x = g[m] + w[j]
    <3>1. g[m] \in Nat /\ w[j] \in Nat
      BY <2>2, <2>3 DEF Sums, Weights
    <3>2. g[m] + w[j] \in Nat
      BY <3>1, SMT
    <3>3. QED
      BY <3>2
  <2>5. PICK f : f = [k \in 0 .. j |-> IF k = j THEN x ELSE g[k]]
    OBVIOUS
  <2>6. /\ \A k \in 0 .. j : k = j \/ k \in 0 .. m
        /\ \A k \in 1 .. j : k = j \/ (k \in 1 .. m /\ k # j /\ k - 1 # j)
        /\ \A k \in 1 .. j : k \in 0 .. j /\ k - 1 \in 0 .. j
        /\ j - 1 = m /\ j - 1 # j /\ 0 # j /\ 0 \in 0 .. j /\ j \in 0 .. j
    BY <1>2, <1>4, <2>1, <2>2, SMT
  <2>7. f \in [0 .. j -> Nat] /\ f[0] = 0
    BY <2>3, <2>4, <2>5, <2>6 DEF Sums
  <2>8. ASSUME NEW k \in 1 .. j PROVE f[k] = f[k - 1] + w[k]
    <3>1. CASE k = j
      BY <2>4, <2>5, <2>6, <3>1
    <3>2. CASE k # j
      BY <2>3, <2>5, <2>6, <3>2 DEF Sums
    <3>3. QED
      BY <3>1, <3>2
  <2>9. QED
    BY <1>2, <2>7, <2>8 DEF Sums
<1>5. QED
  BY <1>2, <1>3, <1>4, SMT

(* Two sequences of sums that start alike and grow alike are the same.     *)
LEMMA SumsUnique ==
    ASSUME NEW n \in Nat, NEW w, NEW f, NEW g, f[0] = g[0],
           \A k \in 1 .. n : f[k] = f[k - 1] + w[k] /\ g[k] = g[k - 1] + w[k]
    PROVE  \A k \in 0 .. n : f[k] = g[k]
<1> SUFFICES ASSUME \E k \in 0 .. n : f[k] # g[k] PROVE FALSE
  OBVIOUS
<1> DEFINE S == {k \in 0 .. n : f[k] # g[k]}
<1>1. PICK k \in S : \A m \in S : ~(m < k)
  <2>1. S # {} /\ S \subseteq Nat
    BY SMT
  <2>2. QED
    BY <2>1, LeastElement
<1>2. k \in 0 .. n /\ k # 0 /\ f[k] # g[k]
  BY <1>1
<1>3. k \in 1 .. n /\ k - 1 \in 0 .. n /\ k - 1 < k
  BY <1>2, SMT
<1>4. f[k - 1] = g[k - 1]
  BY <1>1, <1>3
<1>5. QED
  BY <1>2, <1>3, <1>4

LEMMA TotalIs ==
    ASSUME NEW n \in Nat, NEW w, Weights(w, n)
    PROVE  \E f : Sums(f, w, n) /\ Total(w, n) = f[n]
<1>1. PICK g : Sums(g, w, n)
  BY SumsExist
<1>2. n \in 0 .. n /\ 0 \in 0 .. n /\ \A k \in 0 .. n : k = 0 <=> k \notin 1 .. n
  BY SMT
<1> DEFINE Unfolded(f) == [k \in 0 .. n |-> IF k = 0 THEN 0 ELSE f[k - 1] + w[k]]
           upto == CHOOSE f : f = Unfolded(f)
<1>3. g = Unfolded(g)
  BY <1>1, <1>2 DEF Sums
<1>4. upto = Unfolded(upto)
  BY <1>3
<1>5. Total(w, n) = upto[n]
  BY DEF Total
<1>6. PICK f : f = upto
  OBVIOUS
<1>7. f = Unfolded(f)
  BY <1>4, <1>6
<1>8. f[0] = 0 /\ \A k \in 1 .. n : f[k] = f[k - 1] + w[k]
  <2>1. \A k \in 1 .. n : k \in 0 .. n /\ k # 0
    BY SMT
  <2>2. QED
    BY <1>2, <1>7, <2>1
<1>9. g[0] = 0 /\ \A k \in 1 .. n : g[k] = g[k - 1] + w[k]
  BY <1>1 DEF Sums
<1>10. \A k \in 0 .. n : f[k] = g[k]
  BY <1>8, <1>9, SumsUnique
<1>11. QED
  BY <1>1, <1>2, <1>5, <1>6, <1>10

(* Sums that start from c.                                                 *)
LEMMA SumsFrom ==
    ASSUME NEW n \in Nat, NEW v, Weights(v, n), NEW g, Sums(g, v, n), NEW c \in Nat,
           NEW a, a[0] = c, \A k \in 1 .. n : a[k] = a[k - 1] + v[k]
    PROVE  a[n] = c + g[n]
<1>1. PICK b : b = [k \in 0 .. n |-> c + g[k]]
  OBVIOUS
<1>2. /\ n \in 0 .. n /\ 0 \in 0 .. n
      /\ \A k \in 1 .. n : k \in 0 .. n /\ k - 1 \in 0 .. n
  BY SMT
<1>3. b[0] = a[0]
  <2>1. g[0] = 0 /\ c + 0 = c
    BY SMT DEF Sums
  <2>2. QED
    BY <1>1, <1>2, <2>1
<1>4. ASSUME NEW k \in 1 .. n PROVE b[k] = b[k - 1] + v[k]
  <2>1. /\ g[k] = g[k - 1] + v[k]
        /\ v[k] \in Nat /\ g[k - 1] \in Nat
    BY <1>2 DEF Sums, Weights
  <2>2. c + (g[k - 1] + v[k]) = (c + g[k - 1]) + v[k]
    BY <2>1, SMT
  <2>3. QED
    BY <1>1, <1>2, <2>1, <2>2
<1>5. \A k \in 0 .. n : a[k] = b[k]
  BY <1>3, <1>4, SumsUnique
<1>6. QED
  BY <1>1, <1>2, <1>5

(* The m weights of u and then the n weights of v are those of w, and their*)
(* total is the sum of the two.                                            *)
Joins(w, u, m, v, n) == /\ \A k \in 1 .. m : w[k] = u[k]
                        /\ \A k \in 1 .. n : w[m + k] = v[k]
LEMMA TotalOfParts ==
    ASSUME NEW m \in Nat, NEW n \in Nat, NEW u, NEW v, NEW w, Weights(u, m), Weights(v, n),
           Joins(w, u, m, v, n)
    PROVE  /\ Total(u, m) \in Nat /\ Total(v, n) \in Nat
           /\ Total(w, m + n) = Total(u, m) + Total(v, n)
<1>1. PICK f : Sums(f, u, m) /\ Total(u, m) = f[m]
  BY TotalIs
<1>2. PICK g : Sums(g, v, n) /\ Total(v, n) = g[n]
  BY TotalIs
<1>3. Weights(w, m + n) /\ m + n \in Nat
  <2>1. \A k \in 1 .. m + n : k \in 1 .. m \/ (k - m \in 1 .. n /\ m + (k - m) = k)
    BY SMT
  <2>2. QED
    BY <2>1 DEF Weights, Joins
<1>4. PICK h : Sums(h, w, m + n) /\ Total(w, m + n) = h[m + n]
  BY <1>3, TotalIs
<1>5. /\ m \in 0 .. m /\ n \in 0 .. n /\ 0 \in 0 .. n
      /\ \A k \in 1 .. m : k \in 1 .. m + n
      /\ \A k \in 1 .. n : m + k \in 1 .. m + n /\ (m + k) - 1 = m + (k - 1)
                           /\ k \in 0 .. n /\ k - 1 \in 0 .. n
      /\ m + 0 = m
  BY SMT
<1>6. h[m] = f[m]
  <2>1. h[0] = f[0] /\ \A k \in 1 .. m : h[k] = h[k - 1] + u[k]
    BY <1>1, <1>4, <1>5 DEF Sums, Joins
  <2>2. \A k \in 1 .. m : f[k] = f[k - 1] + u[k]
    BY <1>1 DEF Sums
  <2>3. \A k \in 0 .. m : h[k] = f[k]
    BY <2>1, <2>2, SumsUnique
  <2>4. QED
    BY <1>5, <2>3
<1>7. h[m + n] = f[m] + g[n]
  <2>1. PICK a : a = [k \in 0 .. n |-> h[m + k]]
    OBVIOUS
  <2>2. f[m] \in Nat
    BY <1>1, <1>5 DEF Sums
  <2>3. a[0] = f[m]
    BY <1>5, <1>6, <2>1
  <2>4. ASSUME NEW k \in 1 .. n PROVE a[k] = a[k - 1] + v[k]
    <3>1. h[m + k] = h[(m + k) - 1] + w[m + k]
      BY <1>4, <1>5 DEF Sums
    <3>2. QED
      BY <1>5, <2>1, <3>1 DEF Joins
  <2>5. a[n] = f[m] + g[n]
    BY <1>2, <2>2, <2>3, <2>4, SumsFrom
  <2>6. QED
    BY <1>5, <2>1, <2>5
<1>8. QED
  BY <1>1, <1>2, <1>4, <1>5, <1>7 DEF Sums

(* The total of no more than the weights v is no more.                     *)
LEMMA TotalBounded ==
    ASSUME NEW n \in Nat, NEW u, NEW v, Weights(u, n), Weights(v, n), \A k \in 1 .. n : u[k] <= v[k]
    PROVE  Total(u, n) <= Total(v, n)
<1>1. PICK f : Sums(f, u, n) /\ Total(u, n) = f[n]
  BY TotalIs
<1>2. PICK g : Sums(g, v, n) /\ Total(v, n) = g[n]
  BY TotalIs
<1> SUFFICES ASSUME ~(f[n] <= g[n]) PROVE FALSE
  BY <1>1, <1>2
<1> DEFINE S == {k \in 0 .. n : ~(f[k] <= g[k])}
<1>3. PICK k \in S : \A m \in S : ~(m < k)
  <2>1. n \in S /\ S \subseteq Nat
    BY SMT
  <2>2. QED
    BY <2>1, LeastElement
<1>4. k \in 0 .. n /\ k # 0 /\ ~(f[k] <= g[k])
  <2>1. f[0] = 0 /\ g[0] = 0 /\ 0 <= 0
    BY <1>1, <1>2, SMT DEF Sums
  <2>2. QED
    BY <1>3, <2>1
<1>5. k \in 1 .. n /\ k - 1 \in 0 .. n /\ k - 1 < k
  BY <1>4, SMT
<1>6. f[k - 1] <= g[k - 1]
  BY <1>3, <1>5
<1>7. /\ f[k] = f[k - 1] + u[k] /\ g[k] = g[k - 1] + v[k] /\ u[k] <= v[k]
      /\ f[k - 1] \in Nat /\ g[k - 1] \in Nat /\ u[k] \in Nat /\ v[k] \in Nat
  BY <1>1, <1>2, <1>5 DEF Sums, Weights
<1>8. f[k - 1] + u[k] <= g[k - 1] + v[k]
  BY <1>6, <1>7, SMT
<1>9. QED
  BY <1>4, <1>7, <1>8

LEMMA TotalOfNone == ASSUME NEW w PROVE Total(w, 0) = 0
<1>1. Weights(w, 0)
  BY SMT DEF Weights
<1>2. PICK f : Sums(f, w, 0) /\ Total(w, 0) = f[0]
  BY <1>1, TotalIs, SMT
<1>3. QED
  BY <1>2 DEF Sums

(* The last weight is part of the total.                                   *)
LEMMA TotalOfSome ==
    ASSUME NEW n \in Nat, n > 0, NEW w, Weights(w, n), w[n] > 0
    PROVE  Total(w, n) > 0
<1>1. PICK f : Sums(f, w, n) /\ Total(w, n) = f[n]
  BY TotalIs
<1>2. n \in 1 .. n /\ n - 1 \in 0 .. n
  BY SMT
<1>3. f[n] = f[n - 1] + w[n] /\ f[n - 1] \in Nat /\ w[n] \in Nat
  BY <1>1, <1>2 DEF Sums, Weights
<1>4. QED
  BY <1>1, <1>3, SMT

LEMMA TotalOfOne == ASSUME NEW w, w[1] \in Nat PROVE Weights(w, 1) /\ Total(w, 1) = w[1]
<1>1. Weights(w, 1)
  BY SMT DEF Weights
<1>2. PICK f : Sums(f, w, 1) /\ Total(w, 1) = f[1]
  BY <1>1, TotalIs, SMT
<1>3. f[0] = 0 /\ f[1] = f[0] + w[1]
  <2>1. 1 \in 1 .. 1 /\ 1 - 1 = 0
    BY SMT
  <2>2. f[0] = 0 /\ f[1] = f[1 - 1] + w[1]
    BY <1>2, <2>1 DEF Sums
  <2>3. QED
    BY <2>1, <2>2
<1>4. QED
  BY <1>1, <1>2, <1>3, SMT
-----------------------------------------------------------------------------
(* What the messages of a file weigh, and what current_size_ knows of them.*)
Weight(m) == IF m.torn THEN 0 ELSE m.size
Sizes(s) == [k \in 1 .. Len(s) |-> s[k].size]
Counted(s) == [k \in 1 .. Len(s) |-> IF s[k].torn THEN 0 ELSE s[k].size]

LEMMA MessageWeight ==
    ASSUME NEW m \in Message
    PROVE  m.size \in Nat /\ m.size > 0 /\ Weight(m) \in Nat /\ Weight(m) <= m.size
<1>1. m.size \in Nat /\ m.size > 0
  BY SMT DEF Message
<1>2. QED
  BY <1>1, SMT DEF Weight

LEMMA MessageWeights ==
    ASSUME NEW s \in Seq(Message)
    PROVE  /\ Len(s) \in Nat
           /\ \A k \in 1 .. Len(s) : s[k] \in Message /\ Counted(s)[k] = Weight(s[k])
                                     /\ Sizes(s)[k] = s[k].size
           /\ Weights(Counted(s), Len(s)) /\ Weights(Sizes(s), Len(s))
<1>1. Len(s) \in Nat /\ \A k \in 1 .. Len(s) : s[k] \in Message
  BY LenProperties, ElementOfSeq
<1>2. \A k \in 1 .. Len(s) : Counted(s)[k] = Weight(s[k]) /\ Sizes(s)[k] = s[k].size
  BY DEF Counted, Sizes, Weight
<1>3. QED
  BY <1>1, <1>2, MessageWeight DEF Weights

LEMMA NothingWeighs == Accounted(<<>>) = 0 /\ Bytes(<<>>) = 0
BY EmptySeq, TotalOfNone DEF Accounted, Bytes

LEMMA AccountedBounds ==
    ASSUME NEW s \in Seq(Message)
    PROVE  /\ Accounted(s) \in Nat /\ Bytes(s) \in Nat /\ Accounted(s) <= Bytes(s)
           /\ Bytes(s) = 0 => s = <<>>
<1>1. Accounted(s) = Total(Counted(s), Len(s)) /\ Bytes(s) = Total(Sizes(s), Len(s))
  BY DEF Accounted, Bytes, Counted, Sizes
<1>2. PICK n \in Nat : n = Len(s)
  BY MessageWeights
<1>3. PICK u, v : u = Counted(s) /\ v = Sizes(s)
  OBVIOUS
<1>4. Weights(u, n) /\ Weights(v, n)
  BY <1>2, <1>3, MessageWeights
<1>5. \A k \in 1 .. n : u[k] <= v[k] /\ v[k] > 0
  BY <1>2, <1>3, MessageWeights, MessageWeight
<1>6. Total(u, n) <= Total(v, n)
  BY <1>4, <1>5, TotalBounded
<1>7. Total(u, n) \in Nat /\ Total(v, n) \in Nat
  <2>1. PICK f : Sums(f, u, n) /\ Total(u, n) = f[n]
    BY <1>4, TotalIs
  <2>2. PICK g : Sums(g, v, n) /\ Total(v, n) = g[n]
    BY <1>4, TotalIs
  <2>3. n \in 0 .. n
    BY SMT
  <2>4. QED
    BY <2>1, <2>2, <2>3 DEF Sums
<1>8. ASSUME s # <<>> PROVE Total(v, n) # 0
  <2>1. Len(s) \in Nat \ {0}
    BY <1>8, EmptySeq
  <2>2. n > 0 /\ n \in 1 .. n
    BY <1>2, <2>1, SMT
  <2>3. Total(v, n) > 0
    BY <1>4, <1>5, <2>2, TotalOfSome
  <2>4. QED
    BY <1>7, <2>3, SMT
<1>9. QED
  BY <1>1, <1>2, <1>3, <1>6, <1>7, <1>8

LEMMA AccountedConcat ==
    ASSUME NEW s \in Seq(Message), NEW u \in Seq(Message)
    PROVE  s \o u \in Seq(Message) /\ Accounted(s \o u) = Accounted(s) + Accounted(u)
<1>1. PICK c : c = s \o u
  OBVIOUS
<1>2. PICK m \in Nat, n \in Nat : m = Len(s) /\ n = Len(u)
  BY MessageWeights
<1>3. /\ c \in Seq(Message) /\ Len(c) = m + n
      /\ \A i \in 1 .. m + n : c[i] = IF i <= m THEN s[i] ELSE u[i - m]
  BY <1>1, <1>2, ConcatProperties
<1>4. /\ \A k \in 1 .. m : k \in 1 .. m + n /\ k <= m
      /\ \A k \in 1 .. n : m + k \in 1 .. m + n /\ ~(m + k <= m) /\ (m + k) - m = k
  BY SMT
<1>5. PICK p, q, w : p = Counted(s) /\ q = Counted(u) /\ w = Counted(c)
  OBVIOUS
<1>6. \A k \in 1 .. m + n : w[k] = Weight(c[k])
  BY <1>3, <1>5, MessageWeights
<1>7. \A k \in 1 .. m : w[k] = p[k]
  <2>1. \A k \in 1 .. m : c[k] = s[k]
    BY <1>3, <1>4
  <2>2. \A k \in 1 .. m : p[k] = Weight(s[k])
    BY <1>2, <1>5, MessageWeights
  <2>3. QED
    BY <1>6, <1>4, <2>1, <2>2
<1>8. \A k \in 1 .. n : w[m + k] = q[k]
  <2>1. \A k \in 1 .. n : c[m + k] = u[k]
    BY <1>3, <1>4
  <2>2. \A k \in 1 .. n : q[k] = Weight(u[k])
    BY <1>2, <1>5, MessageWeights
  <2>3. QED
    BY <1>6, <1>4, <2>1, <2>2
<1>9. Weights(p, m) /\ Weights(q, n)
  BY <1>2, <1>5, MessageWeights
<1>10. Joins(w, p, m, q, n)
  BY <1>7, <1>8 DEF Joins
<1>11. Total(w, m + n) = Total(p, m) + Total(q, n)
  BY <1>9, <1>10, TotalOfParts
<1>12. /\ Accounted(c) = Total(w, m + n) /\ Accounted(s) = Total(p, m)
       /\ Accounted(u) = Total(q, n)
  BY <1>2, <1>3, <1>5 DEF Accounted, Counted
<1>13. QED
  BY <1>1, <1>3, <1>11, <1>12

LEMMA AccountedAppend ==
    ASSUME NEW s \in Seq(Message), NEW x \in Message
    PROVE  Append(s, x) \in Seq(Message) /\ Accounted(Append(s, x)) = Accounted(s) + Weight(x)
<1>1. PICK c : c = Append(s, x)
  OBVIOUS
<1>2. PICK m \in Nat : m = Len(s)
  BY MessageWeights
<1>3. c \in Seq(Message) /\ Len(c) = m + 1 /\ c[m + 1] = x /\ \A k \in 1 .. m : c[k] = s[k]
  BY <1>1, <1>2, AppendProperties
<1>4. PICK p, q, w : p = Counted(s) /\ q = [k \in 1 .. 1 |-> Weight(x)] /\ w = Counted(c)
  OBVIOUS
<1>5. 1 \in 1 .. 1 /\ m + 1 \in 1 .. m + 1 /\ \A k \in 1 .. m : k \in 1 .. m + 1
  BY SMT
<1>6. q[1] = Weight(x) /\ q[1] \in Nat
  BY <1>4, <1>5, MessageWeight
<1>7. Weights(q, 1) /\ Total(q, 1) = Weight(x)
  BY <1>6, TotalOfOne
<1>8. Weights(p, m) /\ \A k \in 1 .. m : w[k] = p[k]
  BY <1>2, <1>3, <1>4, <1>5, MessageWeights
<1>9. \A k \in 1 .. 1 : w[m + k] = q[k]
  <2>1. w[m + 1] = Weight(x)
    BY <1>3, <1>4, <1>5, MessageWeights
  <2>2. \A k \in 1 .. 1 : k = 1
    BY SMT
  <2>3. QED
    BY <1>6, <2>1, <2>2
<1>10. Total(w, m + 1) = Total(p, m) + Weight(x)
  <2>1. 1 \in Nat
    BY SMT
  <2>2. Joins(w, p, m, q, 1)
    BY <1>8, <1>9 DEF Joins
  <2>3. Total(w, m + 1) = Total(p, m) + Total(q, 1)
    BY <1>7, <1>8, <2>1, <2>2, TotalOfParts
  <2>4. QED
    BY <1>7, <2>3
<1>11. Accounted(c) = Total(w, m + 1) /\ Accounted(s) = Total(p, m)
  BY <1>2, <1>3, <1>4 DEF Accounted, Counted
<1>12. QED
  BY <1>1, <1>3, <1>10, <1>11
-----------------------------------------------------------------------------
(* The messages of the file n and of the buffer b.                         *)
Base(fs, n) == IF n \in DOMAIN fs THEN fs[n] ELSE <<>>
Held(fs, n, b) == Base(fs, n) \o b

LEMMA BaseOK == ASSUME NEW fs, FilesOK(fs), NEW n PROVE Base(fs, n) \in Seq(Message)
BY EmptyIds DEF Base, FilesOK

LEMMA HeldSize ==
    ASSUME NEW fs, FilesOK(fs), NEW n, NEW b \in Seq(Message)
    PROVE  /\ Held(fs, n, b) \in Seq(Message)
           /\ Accounted(Held(fs, n, b)) \in Nat /\ Accounted(Base(fs, n)) \in Nat
           /\ Accounted(b) \in Nat
           /\ Accounted(Held(fs, n, b)) = Accounted(Base(fs, n)) + Accounted(b)
<1>1. PICK f \in Seq(Message) : f = Base(fs, n)
  BY BaseOK
<1>2. f \o b \in Seq(Message) /\ Accounted(f \o b) = Accounted(f) + Accounted(b)
  BY AccountedConcat
<1>3. Accounted(f) \in Nat /\ Accounted(b) \in Nat /\ Accounted(f \o b) \in Nat
  BY <1>2, AccountedBounds
<1>4. QED
  BY <1>1, <1>2, <1>3 DEF Held

LEMMA HeldEmpty ==
    ASSUME NEW fs, NEW n, Base(fs, n) = <<>>
    PROVE  Held(fs, n, <<>>) = <<>> /\ Accounted(Held(fs, n, <<>>)) = 0
<1>1. <<>> \o <<>> = <<>>
  BY EmptyIds, ConcatEmptySeq
<1>2. QED
  BY <1>1, NothingWeighs DEF Held

LEMMA HeldDropped ==
    ASSUME NEW fs, FilesOK(fs), NEW n, NEW b \in Seq(Message)
    PROVE  Accounted(Held(fs, n, <<>>)) <= Accounted(Held(fs, n, b))
<1>1. PICK x, y : x = Accounted(Base(fs, n)) /\ y = Accounted(b)
  OBVIOUS
<1>2. x \in Nat /\ y \in Nat /\ Accounted(Held(fs, n, b)) = x + y
  BY <1>1, HeldSize
<1>3. Accounted(Held(fs, n, <<>>)) = x + 0
  <2>1. PICK e \in Seq(Message) : e = <<>>
    BY EmptyIds
  <2>2. Accounted(Held(fs, n, e)) = x + Accounted(e) /\ Accounted(e) = 0
    BY <1>1, <2>1, HeldSize, NothingWeighs
  <2>3. QED
    BY <2>1, <2>2
<1>4. x + 0 <= x + y
  BY <1>2, SMT
<1>5. QED
  BY <1>2, <1>3, <1>4

LEMMA HeldStored ==
    ASSUME NEW b \in Seq(Message), FilesOK(files)
    PROVE  Accounted(Held(Stored(b), filename, <<>>)) <= Accounted(Held(files, filename, b))
<1>1. CASE filename \notin DOMAIN files
  BY <1>1, HeldDropped DEF Stored, Exists
<1>2. CASE filename \in DOMAIN files
  <2>1. PICK c : c = files[filename] \o b
    OBVIOUS
  <2>2. PICK r : r = With(files, filename, c)
    OBVIOUS
  <2>3. Stored(b) = r
    BY <1>2, <2>1, <2>2 DEF Stored, Exists
  <2>4. Base(r, filename) = c
    BY <1>2, <2>2 DEF With, Base
  <2>5. Held(files, filename, b) = c
    BY <1>2, <2>1 DEF Held, Base
  <2>6. c \in Seq(Message) /\ Accounted(c) \in Nat
    BY <2>5, HeldSize
  <2>7. Held(r, filename, <<>>) = c
    BY <2>4, <2>6, ConcatEmptySeq DEF Held
  <2>8. Accounted(c) <= Accounted(c)
    BY <2>6, SMT
  <2>9. QED
    BY <2>3, <2>5, <2>7, <2>8
<1>3. QED
  BY <1>1, <1>2

LEMMA HeldAppended ==
    ASSUME NEW fs, FilesOK(fs), NEW n, NEW b \in Seq(Message), NEW x \in Message
    PROVE  /\ Append(b, x) \in Seq(Message)
           /\ Accounted(Held(fs, n, Append(b, x))) = Accounted(Held(fs, n, b)) + Weight(x)
<1>1. PICK c : c = Append(b, x)
  OBVIOUS
<1>2. c \in Seq(Message) /\ Accounted(c) = Accounted(b) + Weight(x)
  BY <1>1, AccountedAppend
<1>3. PICK p, q, w : p = Accounted(Base(fs, n)) /\ q = Accounted(b) /\ w = Weight(x)
  OBVIOUS
<1>4. /\ p \in Nat /\ q \in Nat /\ w \in Nat /\ Accounted(Held(fs, n, b)) = p + q
      /\ Accounted(Held(fs, n, c)) = p + (q + w)
  <2>1. p \in Nat /\ q \in Nat /\ Accounted(Held(fs, n, b)) = p + q
    BY <1>3, HeldSize
  <2>2. w \in Nat
    BY <1>3, MessageWeight
  <2>3. Accounted(Held(fs, n, c)) = p + Accounted(c)
    BY <1>2, <1>3, HeldSize
  <2>4. QED
    BY <1>2, <1>3, <2>1, <2>2, <2>3
<1>5. p + (q + w) = (p + q) + w
  BY <1>4, SMT
<1>6. QED
  BY <1>1, <1>2, <1>3, <1>4, <1>5

LEMMA BaseOpened ==
    ASSUME NEW fs, NEW n
    PROVE  /\ Base(Opened(fs, n, TRUE), n) = <<>>
           /\ Base(Opened(fs, n, FALSE), n) = Base(fs, n)
           /\ Base(fs, n) = Opened(fs, n, FALSE)[n]
BY DEF Opened, With, Base, Exists
-----------------------------------------------------------------------------
(* The days of a sink that rotates at midnight.  Its rotation is due on a  *)
(* later day than that of any main file and of the file in use, so a       *)
(* message past rotation_tp_ opens a file that does not exist yet.         *)
Scheduled == config.offset = 0 /\ call.stage \notin {"no_sink", "construct", "new_day"}
InUse == is_open \/ call.stage \in {"rotate", "reopen"}
Due == Period(rotation_tp)
Before(fs, p) == \A d \in Nat : calc_filename(d, 0) \in DOMAIN fs => d < p
Until(fs, p) == \A d \in Nat : calc_filename(d, 0) \in DOMAIN fs => d <= p

DayOK == /\ rotation_tp \in Nat
         /\ \A t \in pending : t \in Nat /\ t <= now
         /\ filename[1] \in Nat /\ filename[1] <= Period(now)
         /\ Scheduled /\ InUse => filename[1] < Due
         /\ Until(files, Period(now))
         /\ Scheduled => Before(files, Due)

LEMMA PeriodProps == ASSUME NEW t \in Nat PROVE Period(t) \in Nat
BY ClockAssumption, SMT DEF Period

LEMMA PeriodMono ==
    ASSUME NEW t \in Nat, NEW u \in Nat, t <= u
    PROVE  Period(t) <= Period(u)
BY ClockAssumption, SMT DEF Period

(* next_rotation_tp_ names a moment of a later day.                        *)
LEMMA NextMidnight ==
    ASSUME now \in Nat, NEW off \in 0 .. TicksPerPeriod - 1, NEW tp, tp = next_rotation_tp(off)
    PROVE  tp \in Nat /\ (off = 0 => Period(now) < Period(tp))
<1>1. PICK T \in Nat : T = TicksPerPeriod /\ T > 0
  BY ClockAssumption, SMT
<1>2. PICK p \in Nat : p = Period(now)
  BY PeriodProps
<1>3. PICK r \in Nat : r = p * T /\ r <= now /\ now < r + T
  <2>1. p = now \div T
    BY <1>1, <1>2 DEF Period
  <2>2. p * T \in Nat /\ p * T <= now /\ now < p * T + T
    BY <1>1, <2>1, SMT
  <2>3. QED
    BY <2>2
<1>4. tp = IF r + off > now THEN r + off ELSE r + off + T
  BY <1>1, <1>2, <1>3 DEF next_rotation_tp
<1>5. tp \in Nat
  BY <1>1, <1>4, SMT
<1>6. ASSUME off = 0 PROVE p < Period(tp)
  <2>1. tp = r + T
    BY <1>3, <1>4, <1>6, SMT
  <2>2. r + T = (p + 1) * T
    BY <1>3, SMT
  <2>3. ((p + 1) * T) \div T = p + 1
    BY <1>1, SMT
  <2>4. Period(tp) = p + 1
    BY <1>1, <2>1, <2>2, <2>3 DEF Period
  <2>5. QED
    BY <2>4, SMT
<1>7. QED
  BY <1>2, <1>5, <1>6

LEMMA MainFile == ASSUME Inv PROVE filename = calc_filename(filename[1], 0)
<1>1. PICK d : filename = calc_filename(d, 0)
  BY Facts
<1>2. QED
  BY <1>1 DEF calc_filename

LEMMA DayFacts ==
    ASSUME Inv, DayOK
    PROVE  /\ now \in Nat /\ Period(now) \in Nat /\ rotation_tp \in Nat /\ Due \in Nat
           /\ DOMAIN Flushed = DOMAIN files
<1>1. now \in Nat /\ rotation_tp \in Nat
  BY Facts DEF DayOK
<1>2. DOMAIN Flushed = DOMAIN files
  BY Facts, StoredFacts DEF Flushed
<1>3. QED
  BY <1>1, <1>2, PeriodProps DEF Due

(* Files opened until today.                                               *)
LEMMA UntilOpened ==
    ASSUME NEW p, NEW e \in Nat, e <= p, NEW fs, Until(fs, p), NEW gs,
           DOMAIN gs \subseteq DOMAIN fs \cup {calc_filename(e, 0)}
    PROVE  Until(gs, p)
BY NamesDiffer DEF Until

(* A step of a sink in use that opens no other file than the one in use.   *)
LEMMA SameDay ==
    ASSUME Inv, DayOK, now' = now, rotation_tp' = rotation_tp, config' = config,
           filename' = filename, pending' \subseteq pending,
           Scheduled' => Scheduled, InUse' => InUse,
           \A d \in Nat : calc_filename(d, 0) \in DOMAIN files' =>
               calc_filename(d, 0) \in DOMAIN files \/ (InUse /\ calc_filename(d, 0) = filename)
    PROVE  DayOK'
<1>1. PICK e : e = filename[1]
  OBVIOUS
<1>2. /\ e \in Nat /\ e <= Period(now) /\ (Scheduled /\ InUse => e < Due)
      /\ filename = calc_filename(e, 0) /\ filename' = filename
      /\ Until(files, Period(now)) /\ (Scheduled => Before(files, Due))
  BY <1>1, MainFile DEF DayOK
<1>3. \A d \in Nat : calc_filename(d, 0) \in DOMAIN files' =>
          calc_filename(d, 0) \in DOMAIN files \/ (InUse /\ d = e)
  BY <1>2, NamesDiffer
<1>4. Until(files', Period(now))
  BY <1>2, <1>3 DEF Until
<1>5. Scheduled' => Before(files', Due)
  BY <1>2, <1>3 DEF Before
<1>6. Period(now') = Period(now) /\ Period(rotation_tp') = Due
  BY DEF Due
<1>7. Until(files, Period(now))' /\ (Scheduled' => Before(files, Due)')
  BY <1>4, <1>5, <1>6 DEF Until, Before, Due
<1>8. Scheduled' /\ InUse' => (filename[1] < Due)'
  BY <1>1, <1>2, <1>6 DEF Due
<1>9. QED
  BY <1>1, <1>2, <1>6, <1>7, <1>8 DEF DayOK

(* A step after which no rotation is scheduled.                            *)
LEMMA Unscheduled ==
    ASSUME Inv, DayOK, now' = now, rotation_tp' \in Nat, pending' \subseteq pending, ~Scheduled',
           NEW e \in Nat, e <= Period(now), filename' = calc_filename(e, 0),
           DOMAIN files' \subseteq DOMAIN files \cup {calc_filename(e, 0)}
    PROVE  DayOK'
<1>1. filename'[1] = e
  BY DEF calc_filename
<1>2. Until(files', Period(now))
  BY UntilOpened DEF DayOK
<1>3. Until(files, Period(now))'
  BY <1>2 DEF Until
<1>4. QED
  BY <1>1, <1>3 DEF DayOK

LEMMA ClockDay == ASSUME Inv, DayOK, Tick \/ Log PROVE DayOK'
<1>1. /\ UNCHANGED <<files, filename, is_open, config, rotation_tp, call>>
      /\ now' \in Nat /\ now <= now' /\ pending' \subseteq pending \cup {now}
  BY DayFacts, SMT DEF Tick, Log, Advance, fileVars, sinkVars
<1>2. PICK p \in Nat, q \in Nat : p = Period(now) /\ q = Period(now') /\ p <= q
  BY <1>1, DayFacts, PeriodProps, PeriodMono
<1>3. \A t \in pending' : t \in Nat /\ t <= now'
  <2>1. \A t \in Nat : t <= now => t <= now'
    BY <1>1, DayFacts, SMT
  <2>2. QED
    BY <1>1, <2>1, DayFacts DEF DayOK
<1>4. filename[1] <= q
  <2>1. filename[1] \in Nat /\ filename[1] <= p
    BY <1>2 DEF DayOK
  <2>2. QED
    BY <1>2, <2>1, SMT
<1>5. Until(files, q)
  <2>1. \A d \in Nat : d <= p => d <= q
    BY <1>2, SMT
  <2>2. QED
    BY <1>2, <2>1 DEF DayOK, Until
<1>6. /\ Period(now)' = q /\ Scheduled' = Scheduled /\ InUse' = InUse /\ Due' = Due
      /\ Until(files, q)' = Until(files, q) /\ Before(files, Due)' = Before(files, Due)
  BY <1>1, <1>2 DEF Scheduled, InUse, Due, Until, Before, Period
<1>7. QED
  BY <1>1, <1>3, <1>4, <1>5, <1>6 DEF DayOK, Until

LEMMA ConstructDay == ASSUME Inv, DayOK, NEW c \in Configs, Construct(c) PROVE DayOK'
<1>1. PICK e \in Nat : e = Period(now) /\ e <= Period(now)
  BY DayFacts, SMT
<1>2. /\ now' = now /\ rotation_tp' = rotation_tp /\ pending' = pending
      /\ filename' = calc_filename(e, 0) /\ call = NoSink
      /\ files' \in {files, Opened(files, calc_filename(e, 0), c.truncate),
                     Opened(files, calc_filename(e, 0), TRUE)}
      /\ call' = [NoSink EXCEPT !.stage = "construct"] \/ call' = call
  BY <1>1 DEF Construct, OpenOk, OpenThrows
<1>3. ~Scheduled'
  BY <1>2, CallShapes DEF Scheduled
<1>4. c.truncate \in BOOLEAN
  BY ConfigsAssumption
<1>5. DOMAIN files' \subseteq DOMAIN files \cup {calc_filename(e, 0)}
  BY <1>2, <1>4, Facts, OpenedFacts
<1>6. QED
  BY <1>1, <1>2, <1>3, <1>5, DayFacts, Unscheduled

LEMMA ScheduleDay == ASSUME Inv, DayOK, Schedule PROVE DayOK'
<1>1. /\ UNCHANGED <<files, filename, now, config, pending>>
      /\ rotation_tp' = next_rotation_tp(config.offset)
  BY DEF Schedule, fileVars
<1>2. config.offset \in 0 .. TicksPerPeriod - 1
  BY Facts, ConfigsAssumption
<1>3. rotation_tp' \in Nat /\ (config.offset = 0 => Period(now) < Period(rotation_tp'))
  BY <1>1, <1>2, DayFacts, NextMidnight
<1>4. PICK p \in Nat, q \in Nat : p = Period(now) /\ q = Period(rotation_tp')
  BY <1>3, DayFacts, PeriodProps
<1>5. Due' = q /\ Until(files, p) /\ filename[1] \in Nat /\ filename[1] <= p
  BY <1>1, <1>4 DEF Due, DayOK
<1>6. ASSUME config.offset = 0 PROVE Before(files, q) /\ filename[1] < q
  <2>1. \A d \in Nat : d <= p => d < q
    BY <1>3, <1>4, <1>6, SMT
  <2>2. QED
    BY <1>5, <2>1 DEF Until, Before
<1>7. Scheduled' => config.offset = 0
  BY <1>1 DEF Scheduled
<1>8. Scheduled' => Before(files, Due)' /\ (filename[1] < Due)'
  BY <1>1, <1>5, <1>6, <1>7 DEF Before
<1>9. (Until(files, Period(now)))'
  BY <1>1, <1>4, <1>5 DEF Until
<1>10. QED
  BY <1>1, <1>3, <1>4, <1>5, <1>8, <1>9 DEF DayOK

LEMMA SinkItDay ==
    ASSUME Inv, DayOK, NEW time \in pending, NEW size \in MsgSizes, SinkIt(time, size)
    PROVE  DayOK'
<1>1. PICK e \in Nat : e = Period(time) /\ e <= Period(now)
  BY DayFacts, PeriodProps, PeriodMono DEF DayOK
<1>2. PICK name : name = calc_filename(e, 0)
  OBVIOUS
<1>3. /\ now' = now /\ rotation_tp' = rotation_tp /\ config' = config /\ call = Idle
      /\ pending' \subseteq pending
  BY DEF SinkIt
<1>4. CASE /\ call' = [Idle EXCEPT !.stage = "check_size", !.msg = Msg(logged + 1, size)]
           /\ UNCHANGED fileVars
  <2>1. files' = files /\ filename' = filename /\ is_open' = is_open
    BY <1>4 DEF fileVars
  <2>2. call'.stage = "check_size" /\ call.stage = "idle"
    BY <1>3, <1>4, CallShapes
  <2>3. (Scheduled' => Scheduled) /\ (InUse' => InUse)
    BY <1>3, <2>1, <2>2 DEF Scheduled, InUse
  <2>4. QED
    BY <1>3, <2>1, <2>3, SameDay
<1>5. CASE /\ \E fs \in {Flushed, files} : OpenOk(fs, name, FALSE)
           /\ call' = [Idle EXCEPT !.stage = "new_day", !.msg = Msg(logged + 1, size)]
  <2>1. PICK fs \in {Flushed, files} : OpenOk(fs, name, FALSE)
    BY <1>5
  <2>2. FilesOK(fs) /\ DOMAIN fs = DOMAIN files
    BY DayFacts, Facts
  <2>3. DOMAIN files' \subseteq DOMAIN files \cup {name} /\ filename' = name
    BY <2>1, <2>2, OpenedFacts DEF OpenOk
  <2>4. ~Scheduled'
    BY <1>5, CallShapes DEF Scheduled
  <2>5. QED
    BY <1>1, <1>2, <1>3, <2>3, <2>4, DayFacts, Unscheduled
<1>6. CASE OpenThrows(Flushed, name, FALSE) /\ UNCHANGED call
  <2>1. files' = Flushed /\ filename' = name /\ ~is_open'
    BY <1>6 DEF OpenThrows
  <2>2. ~InUse' /\ Scheduled' = Scheduled /\ Due' = Due
    BY <1>3, <1>6, <2>1, CallShapes DEF InUse, Scheduled, Due
  <2>3. filename'[1] = e
    BY <1>2, <2>1 DEF calc_filename
  <2>4. DOMAIN files' = DOMAIN files
    BY <2>1, DayFacts
  <2>5. Until(files, Period(now))' /\ (Scheduled' => Before(files, Due)')
    BY <1>3, <2>2, <2>4 DEF DayOK, Until, Before
  <2>6. QED
    BY <1>1, <1>3, <2>2, <2>3, <2>5 DEF DayOK
<1>7. QED
  BY <1>1, <1>2, <1>4, <1>5, <1>6 DEF SinkIt

(* Within a call the sink keeps to the file it has open.                   *)
LEMMA CallDay ==
    ASSUME Inv, DayOK, CheckSize \/ ShiftFile \/ ShiftCurrent \/ Write \/ Flush
    PROVE  DayOK'
<1>1. /\ now' = now /\ rotation_tp' = rotation_tp /\ config' = config
      /\ filename' = filename /\ pending' = pending
  BY WriteFacts DEF CheckSize, StartRotation, FlushThrows, FlushOk, ShiftFile, ShiftCurrent, Write,
                    Flush, fileVars, sinkVars
<1>2. call.stage \in {"idle", "check_size", "rotate", "write"}
  BY CallShapes DEF CheckSize, ShiftFile, ShiftCurrent, Write, Flush
<1>3. Scheduled' => Scheduled
  BY <1>1, <1>2 DEF Scheduled
<1>4. InUse' => InUse
  <2>1. CASE CheckSize
    <3>1. CASE is_open
      BY <3>1 DEF InUse
    <3>2. CASE ~is_open
      <4>1. is_open' = is_open
        BY <2>1, <3>2 DEF CheckSize, FlushThrows, FlushOk, fileVars
      <4>2. \/ call' = Idle
            \/ call' = [call EXCEPT !.stage = "write", !.new_size = current_size + call.msg.size]
        BY <2>1, <3>2 DEF CheckSize
      <4>3. call'.stage \in {"idle", "write"}
        BY <4>2, CallShapes, Facts DEF CallOK
      <4>4. QED
        BY <3>2, <4>1, <4>3 DEF InUse
    <3>3. QED
      BY <3>1, <3>2
  <2>2. CASE ShiftFile \/ ShiftCurrent
    BY <2>2 DEF ShiftFile, ShiftCurrent, InUse
  <2>3. CASE Write \/ Flush
    <3>1. is_open' = is_open
      BY <2>3 DEF Write, WriteOk, WriteStores, WriteIgnored, WriteThrows, Flush, FlushOk,
                  FlushThrows, fileVars
    <3>2. call' = Idle
      BY <2>3 DEF Write, Flush
    <3>3. QED
      BY <3>1, <3>2, CallShapes DEF InUse
  <2>4. QED
    BY <2>1, <2>2, <2>3
<1>5. ASSUME NEW d \in Nat, calc_filename(d, 0) \in DOMAIN files'
      PROVE  calc_filename(d, 0) \in DOMAIN files
  <2>1. CASE Write
    <3>1. PICK b \in Seq(Message) : files' \in {files, Stored(b)}
      BY <2>1, WriteFacts
    <3>2. QED
      BY <1>5, <3>1, Facts, StoredFacts
  <2>2. CASE CheckSize \/ Flush
    <3>1. PICK oldest : oldest = calc_filename(Period(now), max_files - 1)
      OBVIOUS
    <3>2. files' \in {files, Flushed, Without(Flushed, oldest)}
      BY <2>2, <3>1 DEF CheckSize, StartRotation, FlushThrows, FlushOk, Flush, fileVars
    <3>3. DOMAIN Without(Flushed, oldest) \subseteq DOMAIN Flushed
      BY DEF Without, Restrict
    <3>4. QED
      BY <1>5, <3>2, <3>3, DayFacts
  <2>3. CASE ShiftFile
    <3>1. PICK j, k : j = call.i - 1 /\ k = call.i
      OBVIOUS
    <3>2. files' \in {files, Renamed(calc_filename(call.date, j), calc_filename(call.date, k))}
          /\ k > 1 /\ k \in Nat
      BY <2>3, <3>1, Facts DEF ShiftFile, CallOK
    <3>3. k # 0
      BY <3>2, SMT
    <3>4. PICK src, dst : src = calc_filename(call.date, j) /\ dst = calc_filename(call.date, k)
      OBVIOUS
    <3>5. calc_filename(d, 0) # dst
      BY <3>3, <3>4, NamesDiffer
    <3>6. DOMAIN files' \subseteq DOMAIN files \cup {dst}
      BY <3>2, <3>4 DEF Renamed, Exists, With, Without, Restrict
    <3>7. QED
      BY <1>5, <3>5, <3>6
  <2>4. CASE ShiftCurrent
    <3>1. files' \in {files, Renamed(calc_filename(call.date, 0), calc_filename(call.date, 1))}
      BY <2>4 DEF ShiftCurrent
    <3>2. 1 # 0
      BY SMT
    <3>3. QED
      BY <1>5, <3>1, <3>2, NamesDiffer DEF Renamed, Exists, With, Without, Restrict
  <2>5. QED
    BY <2>1, <2>2, <2>3, <2>4
<1>6. QED
  BY <1>1, <1>3, <1>4, <1>5, SameDay

LEMMA ReopenDay == ASSUME Inv, DayOK, Reopen PROVE DayOK'
<1>1. /\ now' = now /\ rotation_tp' = rotation_tp /\ config' = config /\ pending' = pending
      /\ filename' = filename /\ call.stage = "reopen"
      /\ files' \in {files, Opened(files, filename, TRUE)}
  BY DEF Reopen, OpenOk, OpenThrows
<1>2. Scheduled' => Scheduled
  BY <1>1 DEF Scheduled
<1>3. InUse
  BY <1>1 DEF InUse
<1>4. DOMAIN files' \subseteq DOMAIN files \cup {filename}
  BY <1>1, Facts, OpenedFacts
<1>5. QED
  BY <1>1, <1>2, <1>3, <1>4, SameDay

LEMMA EndDay == ASSUME Inv, DayOK, Destroy \/ Crash PROVE DayOK'
<1>1. PICK e \in Nat : e = filename[1] /\ e <= Period(now) /\ filename = calc_filename(e, 0)
  BY MainFile DEF DayOK
<1>2. /\ now' = now /\ rotation_tp' = 0 /\ pending' \subseteq pending /\ filename' = filename
      /\ call' = NoSink /\ files' \in {files, Flushed}
  BY DEF Destroy, Crash, Gone
<1>3. ~Scheduled' /\ rotation_tp' \in Nat
  BY <1>2, CallShapes, SMT DEF Scheduled
<1>4. DOMAIN files' = DOMAIN files
  BY <1>2, DayFacts
<1>5. QED
  BY <1>1, <1>2, <1>3, <1>4, Unscheduled

LEMMA NextKeepsDay == ASSUME Inv, DayOK, [Next]_vars PROVE DayOK'
<1>1. CASE UNCHANGED vars
  BY <1>1 DEF vars, fileVars, sinkVars, DayOK, Scheduled, InUse, Due, Before, Until, Period
<1>2. QED
  BY <1>1, ClockDay, ConstructDay, ScheduleDay, SinkItDay, CallDay, ReopenDay, EndDay DEF Next

LEMMA InitDay == ASSUME Init PROVE DayOK
<1>1. DOMAIN files = {} /\ filename = calc_filename(0, 0) /\ now = 0 /\ rotation_tp = 0
      /\ call = NoSink /\ pending = {}
  <2>1. DOMAIN << >> = {}
    BY EmptySeq, SMT
  <2>2. QED
    BY <2>1 DEF Init
<1>2. filename[1] = 0 /\ 0 \in Nat /\ 0 <= Period(0)
  <2>1. 0 \in Nat /\ Period(0) \in Nat
    BY PeriodProps, SMT
  <2>2. 0 <= Period(0)
    BY <2>1, SMT
  <2>3. QED
    BY <1>1, <2>1, <2>2 DEF calc_filename
<1>3. ~Scheduled
  BY <1>1, CallShapes DEF Scheduled
<1>4. QED
  BY <1>1, <1>2, <1>3 DEF DayOK, Until
-----------------------------------------------------------------------------
(* current_size_ counts at least the messages of an open file that are not *)
(* torn; a call at its write has left room for the message, and has not    *)
(* passed the limit unless the file is empty.                              *)
KnownOK ==
    /\ current_size \in Nat
    /\ config.offset = 0 /\ is_open => Accounted(Held(files, filename, buf)) <= current_size

RoomLeft ==
    /\ Accounted(Held(files, filename, buf)) + call.msg.size <= call.new_size
    /\ Held(files, filename, buf) # <<>> => call.new_size <= config.max_size

PendingOK ==
    /\ call.stage \in {"rotate", "reopen"} => ~is_open /\ call.new_size = call.msg.size
    /\ call.stage = "write" => call.new_size \in Nat /\ (config.offset = 0 /\ is_open => RoomLeft)

SizeOK == KnownOK /\ PendingOK

(* Outside rotation and write only the first part says anything.           *)
LEMMA BetweenSizes ==
    ASSUME KnownOK', call'.stage \notin {"rotate", "reopen", "write"}
    PROVE  SizeOK'
BY DEF SizeOK, PendingOK

LEMMA HeldAfter ==
    ASSUME NEW fs, NEW n, NEW b, files' = fs, filename' = n, buf' = b
    PROVE  /\ (Held(files, filename, buf))' = Held(fs, n, b)
           /\ (Accounted(Held(files, filename, buf)))' = Accounted(Held(fs, n, b))
BY DEF Accounted, Total, Held, Base

LEMMA KnownKept ==
    ASSUME NEW fs, NEW n, NEW b, files' = fs, filename' = n, buf' = b, current_size' \in Nat,
           config'.offset = 0 /\ is_open' => Accounted(Held(fs, n, b)) <= current_size'
    PROVE  KnownOK'
BY HeldAfter DEF KnownOK

LEMMA ClosedKept == ASSUME current_size' \in Nat, ~is_open' PROVE KnownOK'
BY DEF KnownOK

LEMMA FilesSame ==
    ASSUME KnownOK, UNCHANGED <<files, buf, filename, is_open, current_size, config>>
    PROVE  KnownOK' /\ (RoomLeft /\ UNCHANGED call => RoomLeft')
<1>1. /\ (Held(files, filename, buf))' = Held(files, filename, buf)
      /\ (Accounted(Held(files, filename, buf)))' = Accounted(Held(files, filename, buf))
  BY DEF Accounted, Total, Held, Base
<1>2. QED
  BY <1>1 DEF KnownOK, RoomLeft

(* A step that only flushes or loses the buffer.                           *)
LEMMA BufferGone ==
    ASSUME Inv, KnownOK, NEW fs \in {files, Flushed}, files' = fs, buf' = <<>>, filename' = filename,
           current_size' = current_size, config' = config, is_open' => is_open
    PROVE  KnownOK'
<1>1. PICK x, y : /\ x = Accounted(Held(fs, filename, <<>>))
                  /\ y = Accounted(Held(files, filename, buf))
  OBVIOUS
<1>2. x <= y
  BY <1>1, Facts, HeldDropped, HeldStored DEF Flushed
<1>3. x \in Nat /\ y \in Nat
  <2>1. FilesOK(fs)
    BY Facts
  <2>2. QED
    BY <1>1, <2>1, Facts, HeldSize
<1>4. current_size \in Nat /\ (config.offset = 0 /\ is_open => y <= current_size)
  BY <1>1 DEF KnownOK
<1>5. config.offset = 0 /\ is_open => x <= current_size
  BY <1>2, <1>3, <1>4, SMT
<1>6. QED
  BY <1>1, <1>4, <1>5, KnownKept

LEMMA UnchangedSize ==
    ASSUME SizeOK, UNCHANGED <<files, buf, filename, is_open, current_size, config, call>>
    PROVE  SizeOK'
<1>1. KnownOK' /\ (RoomLeft => RoomLeft')
  BY FilesSame DEF SizeOK
<1>2. PendingOK'
  BY <1>1 DEF SizeOK, PendingOK
<1>3. QED
  BY <1>1, <1>2 DEF SizeOK

LEMMA ConstructSize == ASSUME Inv, SizeOK, NEW c \in Configs, Construct(c) PROVE SizeOK'
<1>1. PICK name : name = calc_filename(Period(now), 0)
  OBVIOUS
<1>2. PICK f \in Seq(Message) : f = Base(files, name)
  BY Facts, BaseOK
<1>3. Opened(files, name, FALSE)[name] = f /\ Base(Opened(files, name, FALSE), name) = f
  BY <1>2, BaseOpened
<1>4. /\ call = NoSink /\ current_size' = IF c.truncate THEN 0 ELSE Bytes(f)
      /\ \/ OpenOk(files, name, c.truncate) /\ call' = [NoSink EXCEPT !.stage = "construct"]
         \/ ~is_open' /\ call' = call
  BY <1>1, <1>3 DEF Construct, OpenThrows
<1>5. c.truncate \in BOOLEAN /\ 0 \in Nat
  BY ConfigsAssumption, SMT
<1>6. Accounted(f) <= Bytes(f) /\ Bytes(f) \in Nat
  BY AccountedBounds
<1>7. current_size' \in Nat
  BY <1>4, <1>5, <1>6
<1>8. call'.stage \in {"construct", "no_sink"}
  BY <1>4, CallShapes
<1>9. CASE OpenOk(files, name, c.truncate)
  <2>1. PICK fs : fs = Opened(files, name, c.truncate)
    OBVIOUS
  <2>2. files' = fs /\ filename' = name /\ buf' = <<>>
    BY <1>9, <2>1 DEF OpenOk
  <2>3. CASE c.truncate
    <3>1. fs = Opened(files, name, TRUE)
      BY <1>5, <2>1, <2>3
    <3>2. Base(fs, name) = <<>>
      BY <3>1, BaseOpened
    <3>3. 0 <= 0
      BY SMT
    <3>4. Accounted(Held(fs, name, <<>>)) <= current_size'
      BY <1>4, <2>3, <3>2, <3>3, HeldEmpty
    <3>5. QED
      BY <1>7, <1>8, <2>2, <3>4, KnownKept, BetweenSizes
  <2>4. CASE ~c.truncate
    <3>1. fs = Opened(files, name, FALSE)
      BY <1>5, <2>1, <2>4
    <3>2. Held(fs, name, <<>>) = f
      BY <1>3, <3>1, ConcatEmptySeq DEF Held
    <3>3. Accounted(Held(fs, name, <<>>)) <= current_size'
      BY <1>4, <1>6, <2>4, <3>2
    <3>4. QED
      BY <1>7, <1>8, <2>2, <3>3, KnownKept, BetweenSizes
  <2>5. QED
    BY <2>3, <2>4
<1>10. QED
  BY <1>4, <1>7, <1>8, <1>9, ClosedKept, BetweenSizes

LEMMA ScheduleSize == ASSUME Inv, SizeOK, Schedule PROVE SizeOK'
<1>1. /\ UNCHANGED <<files, buf, filename, is_open, current_size, config>>
      /\ call' = IF call.stage = "construct" THEN Idle ELSE [call EXCEPT !.stage = "check_size"]
  BY DEF Schedule, fileVars
<1>2. call'.stage \in {"idle", "check_size"}
  BY <1>1, CallShapes, Facts DEF CallOK
<1>3. QED
  BY <1>1, <1>2, FilesSame, BetweenSizes DEF SizeOK

(* A message past rotation_tp_ opens an empty file.                        *)
LEMMA NewFileEmpty ==
    ASSUME Inv, DayOK, Scheduled, NEW time \in pending, time >= rotation_tp,
           NEW fs \in {Flushed, files}, NEW name, name = calc_filename(Period(time), 0)
    PROVE  Base(Opened(fs, name, FALSE), name) = <<>>
<1>1. time \in Nat /\ rotation_tp \in Nat /\ rotation_tp <= time
  BY DayFacts, SMT DEF DayOK
<1>2. PICK p \in Nat, q \in Nat : p = Period(time) /\ q = Due /\ q <= p
  BY <1>1, PeriodProps, PeriodMono DEF Due
<1>3. ~(p < q)
  BY <1>2, SMT
<1>4. name \notin DOMAIN files
  BY <1>2, <1>3 DEF DayOK, Before
<1>5. Base(fs, name) = <<>>
  BY <1>4, DayFacts DEF Base
<1>6. QED
  BY <1>5, BaseOpened

LEMMA SinkItSize ==
    ASSUME Inv, DayOK, SizeOK, NEW time \in pending, NEW size \in MsgSizes, SinkIt(time, size)
    PROVE  SizeOK'
<1>1. PICK name : name = calc_filename(Period(time), 0)
  OBVIOUS
<1>2. call = Idle /\ config' = config /\ current_size \in Nat /\ KnownOK
  BY DEF SinkIt, SizeOK, KnownOK
<1>3. CASE /\ call' = [Idle EXCEPT !.stage = "check_size", !.msg = Msg(logged + 1, size)]
           /\ UNCHANGED <<fileVars, current_size>>
  <2>1. call'.stage = "check_size"
    BY <1>3, CallShapes
  <2>2. UNCHANGED <<files, buf, filename, is_open, current_size, config>>
    BY <1>2, <1>3 DEF fileVars
  <2>3. QED
    BY <1>2, <2>1, <2>2, FilesSame, BetweenSizes
<1>4. CASE /\ time >= rotation_tp /\ current_size' = 0
           /\ \E fs \in {Flushed, files} : OpenOk(fs, name, FALSE)
           /\ call' = [Idle EXCEPT !.stage = "new_day", !.msg = Msg(logged + 1, size)]
  <2>1. PICK fs \in {Flushed, files} : OpenOk(fs, name, FALSE)
    BY <1>4
  <2>2. PICK gs : gs = Opened(fs, name, FALSE)
    OBVIOUS
  <2>3. files' = gs /\ filename' = name /\ buf' = <<>>
    BY <2>1, <2>2 DEF OpenOk
  <2>4. ASSUME config.offset = 0 PROVE Accounted(Held(gs, name, <<>>)) = 0
    <3>1. Scheduled
      BY <1>2, <2>4, CallShapes DEF Scheduled
    <3>2. Base(gs, name) = <<>>
      BY <1>1, <1>4, <2>2, <3>1, NewFileEmpty
    <3>3. QED
      BY <3>2, HeldEmpty
  <2>5. 0 \in Nat /\ 0 <= 0
    BY SMT
  <2>6. KnownOK'
    BY <1>2, <1>4, <2>3, <2>4, <2>5, KnownKept
  <2>7. call'.stage = "new_day"
    BY <1>4, CallShapes
  <2>8. QED
    BY <2>6, <2>7, BetweenSizes
<1>5. CASE OpenThrows(Flushed, name, FALSE) /\ UNCHANGED <<call, current_size>>
  <2>1. ~is_open' /\ call'.stage = "idle" /\ current_size' \in Nat
    BY <1>2, <1>5, CallShapes DEF OpenThrows
  <2>2. QED
    BY <2>1, ClosedKept, BetweenSizes
<1>6. QED
  BY <1>1, <1>3, <1>4, <1>5 DEF SinkIt

(* sink_it_ has decided to write without a rotation.                       *)
LEMMA RoomFound ==
    ASSUME KnownOK', NEW size \in Nat, call'.stage = "write", call'.new_size = size,
           config'.offset = 0 /\ is_open' =>
               /\ (Accounted(Held(files, filename, buf)))' + call'.msg.size <= size
               /\ (Held(files, filename, buf))' # <<>> => size <= config'.max_size
    PROVE  SizeOK'
<1>1. PICK c : c = call'
  OBVIOUS
<1>2. c.stage = "write" /\ c.new_size = size
  BY <1>1
<1>3. config'.offset = 0 /\ is_open' => RoomLeft'
  BY <1>1, <1>2 DEF RoomLeft
<1>4. PendingOK'
  BY <1>1, <1>2, <1>3 DEF PendingOK
<1>5. QED
  BY <1>4 DEF SizeOK

LEMMA CheckSizeSize == ASSUME Inv, SizeOK, CheckSize PROVE SizeOK'
<1>1. PICK m : m = call.msg
  OBVIOUS
<1>2. /\ call.stage = "check_size" /\ config' = config /\ current_size' = current_size
      /\ KnownOK /\ current_size \in Nat
      /\ config.offset = 0 /\ is_open => Accounted(Held(files, filename, buf)) <= current_size
  BY DEF CheckSize, sinkVars, SizeOK, KnownOK
<1>3. m \in Message
  BY <1>1, <1>2, Facts DEF CallOK, NoMessage, Whole
<1>4. m.size \in Nat
  BY <1>3, MessageWeight
<1>5. PICK size \in Nat : size = current_size + m.size
  BY <1>2, <1>4, SMT
<1>6. PICK a \in Nat : a = Accounted(Held(files, filename, buf))
  BY Facts, HeldSize
<1>7. ASSUME call' = [call EXCEPT !.stage = "write", !.new_size = size]
      PROVE  call'.stage = "write" /\ call'.new_size = size /\ call'.msg = m
  BY <1>1, <1>7, Facts DEF CallOK
<1>8. CASE /\ size <= config.max_size
           /\ call' = [call EXCEPT !.stage = "write", !.new_size = size]
           /\ UNCHANGED fileVars
  <2>1. UNCHANGED <<files, buf, filename, is_open>>
    BY <1>8 DEF fileVars
  <2>2. KnownOK'
    BY <1>2, <2>1, FilesSame
  <2>3. (Accounted(Held(files, filename, buf)))' = a
    BY <1>6, <2>1, HeldAfter
  <2>4. config.offset = 0 /\ is_open => a + m.size <= size
    <3>1. a <= current_size => a + m.size <= size
      BY <1>2, <1>4, <1>5, SMT
    <3>2. QED
      BY <1>2, <1>6, <3>1
  <2>5. QED
    BY <1>2, <1>7, <1>8, <2>1, <2>2, <2>3, <2>4, RoomFound
<1>9. CASE (FlushThrows \/ (~is_open /\ FlushOk)) /\ call' = Idle
  <2>1. call'.stage = "idle"
    BY <1>9, CallShapes
  <2>2. CASE FlushThrows /\ buf' = buf
    BY <1>2, <2>1, <2>2, FilesSame, BetweenSizes DEF FlushThrows
  <2>3. CASE FlushThrows /\ buf' = <<>>
    <3>1. files' = files /\ filename' = filename /\ is_open' = is_open
      BY <2>3 DEF FlushThrows
    <3>2. QED
      BY <1>2, <2>1, <2>3, <3>1, BufferGone, BetweenSizes
  <2>4. CASE ~is_open /\ FlushOk
    BY <1>2, <2>1, <2>4, ClosedKept, BetweenSizes DEF FlushOk
  <2>5. QED
    BY <1>9, <2>2, <2>3, <2>4 DEF FlushThrows
<1>10. CASE is_open /\ StartRotation
  <2>1. /\ ~is_open' /\ call'.stage = "rotate" /\ call'.new_size = m.size /\ call'.msg = m
    BY <1>1, <1>10, Facts DEF StartRotation, CallOK
  <2>2. PendingOK'
    BY <2>1 DEF PendingOK
  <2>3. QED
    BY <1>2, <2>1, <2>2, ClosedKept DEF SizeOK
<1>11. CASE /\ is_open /\ size_after_flush = 0 /\ FlushOk
            /\ call' = [call EXCEPT !.stage = "write", !.new_size = size]
  <2>1. PICK fs : fs = Flushed
    OBVIOUS
  <2>2. files' = fs /\ buf' = <<>> /\ filename' = filename /\ is_open' = is_open
    BY <1>11, <2>1 DEF FlushOk
  <2>3. KnownOK'
    BY <1>2, <2>1, <2>2, BufferGone
  <2>4. Base(fs, filename) = <<>>
    <3>1. CASE filename \in DOMAIN fs
      <4>1. Base(fs, filename) = fs[filename] /\ Base(fs, filename) \in Seq(Message)
        BY <2>1, <3>1, Facts, BaseOK DEF Base
      <4>2. Bytes(fs[filename]) = 0
        BY <1>11, <2>1 DEF size_after_flush
      <4>3. QED
        BY <4>1, <4>2, AccountedBounds
    <3>2. CASE filename \notin DOMAIN fs
      BY <3>2 DEF Base
    <3>3. QED
      BY <3>1, <3>2
  <2>5. Held(fs, filename, <<>>) = <<>> /\ Accounted(Held(fs, filename, <<>>)) = 0
    BY <2>4, HeldEmpty
  <2>6. (Held(files, filename, buf))' = <<>> /\ (Accounted(Held(files, filename, buf)))' = 0
    BY <2>2, <2>5, HeldAfter
  <2>7. 0 + m.size <= size
    BY <1>2, <1>4, <1>5, SMT
  <2>8. QED
    BY <1>7, <1>11, <2>3, <2>6, <2>7, RoomFound
<1>12. QED
  BY <1>1, <1>5, <1>8, <1>9, <1>10, <1>11 DEF CheckSize

LEMMA ShiftSize == ASSUME Inv, SizeOK, ShiftFile \/ ShiftCurrent PROVE SizeOK'
<1>1. /\ call.stage = "rotate" /\ ~is_open /\ call.new_size = call.msg.size /\ current_size \in Nat
      /\ UNCHANGED <<is_open, current_size>>
  BY DEF ShiftFile, ShiftCurrent, SizeOK, KnownOK, PendingOK, sinkVars
<1>2. /\ call'.stage \in {"rotate", "reopen"} /\ call'.msg = call.msg
      /\ call'.new_size = call.new_size
  BY <1>1, Facts DEF ShiftFile, ShiftCurrent, CallOK
<1>3. PendingOK'
  BY <1>1, <1>2 DEF PendingOK
<1>4. QED
  BY <1>1, <1>3, ClosedKept DEF SizeOK

LEMMA ReopenSize == ASSUME Inv, SizeOK, Reopen PROVE SizeOK'
<1>1. /\ call.stage = "reopen" /\ call.new_size = call.msg.size /\ current_size \in Nat
      /\ config' = config
  BY DEF Reopen, SizeOK, KnownOK, PendingOK
<1>2. PICK m : m = call.msg
  OBVIOUS
<1>3. m \in Message
  BY <1>1, <1>2, Facts DEF CallOK, NoMessage, Whole
<1>4. PICK size \in Nat : size = m.size
  BY <1>3, MessageWeight
<1>5. CASE /\ OpenOk(files, filename, TRUE) /\ current_size' = 0
           /\ call' = [call EXCEPT !.stage = "write"]
  <2>1. PICK fs : fs = Opened(files, filename, TRUE)
    OBVIOUS
  <2>2. files' = fs /\ filename' = filename /\ buf' = <<>>
    BY <1>5, <2>1 DEF OpenOk
  <2>3. /\ Held(fs, filename, <<>>) = <<>> /\ Accounted(Held(fs, filename, <<>>)) = 0
    <3>1. Base(fs, filename) = <<>>
      BY <2>1, BaseOpened
    <3>2. QED
      BY <3>1, HeldEmpty
  <2>4. (Held(files, filename, buf))' = <<>> /\ (Accounted(Held(files, filename, buf)))' = 0
    BY <2>2, <2>3, HeldAfter
  <2>5. 0 \in Nat /\ 0 <= 0 /\ 0 + size <= size
    BY SMT
  <2>6. KnownOK'
    BY <1>5, <2>2, <2>3, <2>5, KnownKept
  <2>7. call'.stage = "write" /\ call'.new_size = size /\ call'.msg.size = size
    BY <1>1, <1>2, <1>4, <1>5, Facts DEF CallOK
  <2>8. QED
    BY <2>4, <2>5, <2>6, <2>7, RoomFound
<1>6. CASE OpenThrows(files, filename, TRUE) /\ call' = Idle /\ UNCHANGED current_size
  <2>1. ~is_open' /\ current_size' \in Nat /\ call'.stage = "idle"
    BY <1>1, <1>6, CallShapes DEF OpenThrows
  <2>2. QED
    BY <2>1, ClosedKept, BetweenSizes
<1>7. QED
  BY <1>5, <1>6 DEF Reopen

(* What a write makes of the open file.                                    *)
LEMMA WriteSizes ==
    ASSUME Inv, NEW m, m = call.msg, call.stage = "write",
           NEW a, a = Accounted(Held(files, filename, buf))
    PROVE  /\ m \in Message /\ m.size \in Nat /\ a \in Nat
           /\ Append(buf, m) \in Seq(Message) /\ Append(buf, Torn(m)) \in Seq(Message)
           /\ Accounted(Held(files, filename, Append(buf, m))) = a + m.size
           /\ Accounted(Held(files, filename, Append(buf, Torn(m)))) = a + 0
<1>1. m \in Message /\ m.torn = FALSE
  BY Facts DEF CallOK, NoMessage, Whole
<1>2. m.size \in Nat /\ Weight(m) = m.size
  BY <1>1, MessageWeight DEF Weight
<1>3. PICK x \in Message : x = Torn(m) /\ Weight(x) = 0
  <2>1. Torn(m) \in Message /\ Torn(m).torn = TRUE
    BY <1>1 DEF Torn, Message
  <2>2. QED
    BY <2>1 DEF Weight
<1>4. a \in Nat
  BY Facts, HeldSize
<1>5. /\ Append(buf, m) \in Seq(Message)
      /\ Accounted(Held(files, filename, Append(buf, m))) = a + Weight(m)
  BY <1>1, Facts, HeldAppended
<1>6. /\ Append(buf, x) \in Seq(Message)
      /\ Accounted(Held(files, filename, Append(buf, x))) = a + Weight(x)
  BY Facts, HeldAppended
<1>7. QED
  BY <1>1, <1>2, <1>3, <1>4, <1>5, <1>6

(* The messages of the open file once a write has passed b on.             *)
LEMMA StoredSizes ==
    ASSUME Inv, NEW b \in Seq(Message)
    PROVE  /\ Accounted(Held(files, filename, b)) \in Nat
           /\ Accounted(Held(Stored(b), filename, <<>>)) \in Nat
           /\ Accounted(Held(Stored(b), filename, <<>>)) <= Accounted(Held(files, filename, b))
<1>1. PICK fs : fs = Stored(b)
  OBVIOUS
<1>2. FilesOK(fs)
  BY <1>1, Facts, StoredFacts
<1>3. QED
  BY <1>1, <1>2, Facts, HeldSize, HeldStored

LEMMA WriteSize == ASSUME Inv, SizeOK, Write PROVE SizeOK'
<1>1. /\ call.stage = "write" /\ current_size \in Nat /\ call.new_size \in Nat
      /\ config.offset = 0 /\ is_open => RoomLeft
      /\ config.offset = 0 /\ is_open => Accounted(Held(files, filename, buf)) <= current_size
      /\ call' = Idle /\ config' = config
  BY DEF Write, SizeOK, KnownOK, PendingOK
<1>2. call'.stage = "idle"
  BY <1>1, CallShapes
<1>3. PICK m : m = call.msg
  OBVIOUS
<1>4. PICK a : a = Accounted(Held(files, filename, buf))
  OBVIOUS
<1>5. /\ m \in Message /\ m.size \in Nat /\ a \in Nat
      /\ Append(buf, m) \in Seq(Message) /\ Append(buf, Torn(m)) \in Seq(Message)
      /\ Accounted(Held(files, filename, Append(buf, m))) = a + m.size
      /\ Accounted(Held(files, filename, Append(buf, Torn(m)))) = a + 0
  BY <1>1, <1>3, <1>4, WriteSizes
<1>6. PICK s \in Nat : s = call.new_size
  BY <1>1
<1>7. config.offset = 0 /\ is_open => a + m.size <= s /\ a <= current_size
  BY <1>1, <1>3, <1>4, <1>6 DEF RoomLeft
<1>8. CASE WriteStores(m) /\ current_size' = call.new_size
  <2>1. filename' = filename /\ is_open' = is_open
    BY <1>8 DEF WriteStores
  <2>2. PICK b \in Seq(Message) : b = Append(buf, m)
    BY <1>5
  <2>3. CASE files' = files /\ buf' = b
    <3>1. config'.offset = 0 /\ is_open' => Accounted(Held(files, filename, b)) <= s
      BY <1>1, <1>5, <1>7, <2>1, <2>2
    <3>2. QED
      BY <1>2, <1>6, <1>8, <2>1, <2>3, <3>1, KnownKept, BetweenSizes
  <2>4. CASE files' = Stored(b) /\ buf' = <<>>
    <3>1. PICK fs : fs = Stored(b)
      OBVIOUS
    <3>2. PICK x \in Nat : x = Accounted(Held(fs, filename, <<>>)) /\ x <= a + m.size
      BY <1>5, <2>2, <3>1, StoredSizes
    <3>3. a + m.size <= s => x <= s
      BY <1>5, <3>2, SMT
    <3>4. config'.offset = 0 /\ is_open' => Accounted(Held(fs, filename, <<>>)) <= s
      BY <1>1, <1>7, <2>1, <3>2, <3>3
    <3>5. QED
      BY <1>2, <1>6, <1>8, <2>1, <2>4, <3>1, <3>4, KnownKept, BetweenSizes
  <2>5. QED
    BY <1>8, <2>2, <2>3, <2>4 DEF WriteStores
<1>9. CASE WriteIgnored /\ current_size' = call.new_size
  <2>1. ~is_open'
    BY <1>9 DEF WriteIgnored, fileVars
  <2>2. QED
    BY <1>1, <1>2, <1>9, <2>1, ClosedKept, BetweenSizes
<1>10. CASE WriteThrows(m) /\ current_size' = current_size
  <2>1. /\ files' = files /\ filename' = filename /\ is_open' = is_open
        /\ buf' \in {buf, Append(buf, Torn(m))}
    BY <1>10 DEF WriteThrows
  <2>2. a + 0 = a
    BY <1>5, SMT
  <2>3. PICK b \in {buf, Append(buf, Torn(m))} : b = buf'
    BY <2>1
  <2>4. Accounted(Held(files, filename, b)) = a
    BY <1>4, <1>5, <2>2
  <2>5. config'.offset = 0 /\ is_open' => Accounted(Held(files, filename, b)) <= current_size'
    BY <1>1, <1>7, <1>10, <2>1, <2>4
  <2>6. QED
    BY <1>1, <1>2, <1>10, <2>1, <2>3, <2>5, KnownKept, BetweenSizes
<1>11. QED
  BY <1>3, <1>8, <1>9, <1>10 DEF Write, WriteOk

LEMMA FlushSize == ASSUME Inv, SizeOK, Flush PROVE SizeOK'
<1>1. /\ call.stage = "idle" /\ call'.stage = "idle" /\ config' = config
      /\ current_size' = current_size /\ KnownOK /\ filename' = filename /\ is_open' = is_open
  BY CallShapes DEF Flush, FlushOk, FlushThrows, sinkVars, SizeOK
<1>2. \/ files' = files /\ buf' = buf
      \/ files' \in {files, Flushed} /\ buf' = <<>>
  BY DEF Flush, FlushOk, FlushThrows
<1>3. KnownOK'
  BY <1>1, <1>2, FilesSame, BufferGone
<1>4. QED
  BY <1>1, <1>3, BetweenSizes

LEMMA EndSize == ASSUME Inv, SizeOK, Destroy \/ Crash PROVE SizeOK'
<1>1. ~is_open' /\ current_size' = 0 /\ call' = NoSink /\ 0 \in Nat
  BY SMT DEF Destroy, Crash, Gone
<1>2. call'.stage = "no_sink"
  BY <1>1, CallShapes
<1>3. QED
  BY <1>1, <1>2, ClosedKept, BetweenSizes

LEMMA NextKeepsSize == ASSUME Inv, DayOK, SizeOK, [Next]_vars PROVE SizeOK'
<1>1. CASE Tick \/ Log \/ UNCHANGED vars
  <2>1. UNCHANGED <<files, buf, filename, is_open, current_size, config, call>>
    BY <1>1 DEF Tick, Log, vars, fileVars, sinkVars
  <2>2. QED
    BY <2>1, UnchangedSize
<1>2. QED
  BY <1>1, ConstructSize, ScheduleSize, SinkItSize, CheckSizeSize, ShiftSize, ReopenSize, WriteSize,
     FlushSize, EndSize DEF Next

LEMMA InitSize == ASSUME Init PROVE SizeOK
<1>1. ~is_open /\ current_size = 0 /\ call = NoSink /\ 0 \in Nat
  BY SMT DEF Init
<1>2. QED
  BY <1>1, CallShapes DEF SizeOK, KnownOK, PendingOK

LEMMA SizeInvariance == Spec => [](Inv /\ DayOK /\ SizeOK)
<1>1. Inv /\ DayOK /\ SizeOK /\ [Next]_vars => Inv' /\ DayOK' /\ SizeOK'
  BY NextKeepsInv, NextKeepsDay, NextKeepsSize
<1>2. Init => Inv /\ DayOK /\ SizeOK
  BY InitInv, InitDay, InitSize
<1>3. QED
  BY <1>1, <1>2, PTL DEF Spec

LEMMA ContentIsHeld ==
    /\ Content(filename) = Held(files, filename, buf)
    /\ Content(filename)' = (Held(files, filename, buf))'
BY DEF Content, Held, Base, Exists

(* A step of a call that is at its write: the write, a crash, or one that  *)
(* leaves the file alone.                                                  *)
LEMMA StepsAtWrite ==
    ASSUME [Next]_vars, call.stage = "write"
    PROVE  \/ Write
           \/ Crash
           \/ UNCHANGED <<files, buf, filename>>
<1>1. call # NoSink /\ call # Idle
  BY CallShapes
<1>2. QED
  BY <1>1 DEF Next, Tick, Log, Construct, Schedule, SinkIt, CheckSize, ShiftFile, ShiftCurrent,
              Reopen, Flush, Destroy, vars, fileVars

LEMMA DroppedIsShorter ==
    ASSUME NEW fs, FilesOK(fs), NEW n, NEW b \in Seq(Message)
    PROVE  ~(Len(Held(fs, n, <<>>)) > Len(Held(fs, n, b)))
<1>1. PICK f \in Seq(Message) : f = Base(fs, n)
  BY BaseOK
<1>2. <<>> \in Seq(Message) /\ Len(<<>>) = 0
  BY EmptySeq
<1>3. Len(f) \in Nat /\ Len(b) \in Nat
  BY LenProperties
<1>4. Len(f \o b) = Len(f) + Len(b) /\ Len(f \o <<>>) = Len(f) + 0
  BY <1>2, ConcatProperties
<1>5. ~(Len(f) + 0 > Len(f) + Len(b))
  BY <1>3, SMT
<1>6. QED
  BY <1>1, <1>4, <1>5 DEF Held

(* For all sizes, limits and times at which messages arrive, through       *)
(* failures, crashes and restarts: a sink that rotates at midnight adds to *)
(* a file with messages only if that leaves it within max_size_, torn      *)
(* writes not counted (sink_it_).                                          *)
THEOREM DailyLimitKept == Spec => WriteWithinLimit
<1>1. ASSUME Inv, SizeOK, [Next]_vars, config.offset = 0, call.stage = "write",
             Content(filename) # <<>>, Len(Content(filename)') > Len(Content(filename))
      PROVE  Accounted(Content(filename)') <= config.max_size
  <2>1. PICK c : c = Held(files, filename, buf)
    OBVIOUS
  <2>2. PICK d : d = (Held(files, filename, buf))'
    OBVIOUS
  <2>3. Content(filename) = c /\ Content(filename)' = d /\ c # <<>> /\ Len(d) > Len(c)
    BY <1>1, <2>1, <2>2, ContentIsHeld
  <2>4. Len(c) \in Nat /\ ~(Len(c) > Len(c))
    <3>1. c \in Seq(Message)
      BY <1>1, <2>1, Facts, HeldSize
    <3>2. Len(c) \in Nat
      BY <3>1, LenProperties
    <3>3. QED
      BY <3>2, SMT
  <2>5. ASSUME NEW b, files' = files, filename' = filename, buf' = b
        PROVE  d = Held(files, filename, b)
    BY <2>2, <2>5, HeldAfter
  <2>6. ~UNCHANGED <<files, buf, filename>>
    BY <2>1, <2>3, <2>4, <2>5
  <2>7. ~(files' = files /\ filename' = filename /\ buf' = <<>>)
    BY <1>1, <2>1, <2>3, <2>5, Facts, DroppedIsShorter
  <2>8. Write
    BY <1>1, <2>6, <2>7, StepsAtWrite DEF Crash, Gone
  <2>9. PICK m : m = call.msg
    OBVIOUS
  <2>10. is_open /\ filename' = filename /\ (WriteStores(m) \/ WriteThrows(m))
    BY <2>6, <2>8, <2>9 DEF Write, WriteOk, WriteIgnored, WriteStores, WriteThrows, fileVars
  <2>11. PICK a : a = Accounted(c)
    OBVIOUS
  <2>12. /\ m \in Message /\ m.size \in Nat /\ a \in Nat
         /\ Append(buf, m) \in Seq(Message) /\ Append(buf, Torn(m)) \in Seq(Message)
         /\ Accounted(Held(files, filename, Append(buf, m))) = a + m.size
         /\ Accounted(Held(files, filename, Append(buf, Torn(m)))) = a + 0
    BY <1>1, <2>1, <2>9, <2>11, WriteSizes
  <2>13. RoomLeft /\ call.new_size \in Nat
    BY <1>1, <2>10 DEF SizeOK, PendingOK
  <2>14. a + m.size <= call.new_size /\ call.new_size <= config.max_size
    BY <2>1, <2>3, <2>9, <2>11, <2>13 DEF RoomLeft
  <2>15. PICK limit \in Nat : limit = config.max_size
    <3>1. config.max_size \in Nat \ {0}
      BY <1>1, Facts, ConfigsAssumption
    <3>2. config.max_size \in Nat
      BY <3>1
    <3>3. QED
      BY <3>2
  <2>16. a + m.size <= limit /\ a + 0 <= limit
    BY <2>12, <2>13, <2>14, <2>15, SMT
  <2>17. CASE files' = files /\ buf' = Append(buf, m)
    BY <2>3, <2>5, <2>10, <2>12, <2>15, <2>16, <2>17
  <2>18. CASE files' = files /\ buf' = Append(buf, Torn(m))
    BY <2>3, <2>5, <2>10, <2>12, <2>15, <2>16, <2>18
  <2>19. CASE files' = Stored(Append(buf, m)) /\ buf' = <<>>
    <3>1. PICK b \in Seq(Message) : b = Append(buf, m)
      BY <2>12
    <3>2. PICK fs : fs = Stored(b)
      OBVIOUS
    <3>3. PICK x \in Nat : x = Accounted(Held(fs, filename, <<>>)) /\ x <= a + m.size
      BY <1>1, <2>12, <3>1, <3>2, StoredSizes
    <3>4. d = Held(fs, filename, <<>>)
      BY <2>2, <2>10, <2>19, <3>1, <3>2, HeldAfter
    <3>5. x <= limit
      BY <2>12, <2>16, <3>3, SMT
    <3>6. QED
      BY <2>3, <2>15, <3>3, <3>4, <3>5
  <2>20. QED
    <3>1. ~(files' = files /\ buf' = buf)
      BY <2>6, <2>10
    <3>2. QED
      BY <2>10, <2>17, <2>18, <2>19, <3>1 DEF WriteStores, WriteThrows
<1>2. Inv /\ DayOK /\ SizeOK /\ [Next]_vars
         => [(config.offset = 0 /\ call.stage = "write" /\ Content(filename) # <<>>
              /\ Len(Content(filename)') > Len(Content(filename)))
                => Accounted(Content(filename)') <= config.max_size]_vars
  BY <1>1
<1>3. QED
  BY <1>2, SizeInvariance, PTL DEF Spec, WriteWithinLimit
=============================================================================
