------------------------ MODULE DailyFileSink_proofs ------------------------
(***************************************************************************)
(* The daily and the hourly file sink for any length of the period, any    *)
(* rotation time, any number of files kept and any number of messages, in  *)
(* whatever order they arrive: the sink never goes back to an earlier      *)
(* file, keeps no more files than max_files_, and deletes old files only.  *)
(***************************************************************************)
EXTENDS DailyFileSink, FiniteSetTheorems, SequenceTheorems, TLAPS

Message == [id : Nat, time : Nat, size : {1}, torn : BOOLEAN]

(* The stages in which rotation_tp_ is up to date, and those of a call     *)
(* that has opened a new file.                                             *)
Scheduled == call.stage \in {"init_q", "idle", "write", "clean"}
Rotating == \/ call.stage = "rotated"
            \/ call.stage \in {"write", "clean"} /\ call.should_rotate
Settled == call.stage = "idle" \/ (call.stage = "write" /\ ~call.should_rotate)

Places == 1 .. Len(filenames_q.items)
InQ(p) == \E k \in Places : filenames_q.items[k] = p

(* The period in which the next rotation is due.                           *)
Due == Period(rotation_tp)

CallOK ==
    /\ call \in [stage : {"no_sink", "construct", "init_q", "idle", "write", "rotated", "clean"},
                 msg : Message, should_rotate : BOOLEAN]
    /\ call.msg.time <= now
    /\ call.stage = "no_sink" => call = NoSink
    /\ call.stage = "clean" => call.should_rotate /\ config.max_files > 0
    /\ call.stage = "rotated" => filename = Period(call.msg.time) /\ call.should_rotate
    /\ call.stage = "init_q" => config.max_files > 0

TypeOK ==
    /\ now \in Nat /\ config \in Configs /\ rotation_tp \in Nat /\ logged \in Nat
    /\ filename \in 0 .. Period(now) /\ mine \subseteq 0 .. Period(now)
    /\ DOMAIN files \subseteq 0 .. Period(now)
    /\ \A p \in DOMAIN files : files[p] \in Seq(Message)
    /\ buf \in Seq(Message) /\ (~is_open => buf = <<>>)
    /\ pending \subseteq Message /\ \A m \in pending : m.time <= now
    /\ filenames_q \in [cap : Int, items : Seq(Nat), overruns : Nat]

(* The open file is the latest of the sink's, and the next rotation opens  *)
(* no earlier one.                                                         *)
TimesOK ==
    /\ is_open => filename \in mine /\ \A p \in mine : p <= filename
    /\ Scheduled => /\ rotation_tp = Due * TicksPerPeriod + config.offset
                    /\ \A p \in mine : p <= Due /\ (config.offset = 0 => p < Due)
    /\ (call.stage \in {"construct", "init_q"} \/ Rotating) => is_open
    /\ call.stage \in {"construct", "init_q"} =>
          mine = {filename} /\ \A p \in DOMAIN files : p <= filename

(* filenames_q_ holds files of the sink; a file that is opened twice is    *)
(* not at its front, unless the queue has one place only.                  *)
QueueOK ==
    /\ \A k \in Places : filenames_q.items[k] \in mine
    /\ call.stage \in {"no_sink", "construct", "init_q"} => filenames_q.items = <<>>
    /\ (config.max_files > 0 /\ call.stage \notin {"no_sink", "construct", "init_q"}) =>
          filenames_q.cap = config.max_files /\ Len(filenames_q.items) <= config.max_files
    /\ Len(filenames_q.items) >= 2 => /\ Settled => filenames_q.items[1] < Due
                                      /\ Rotating => filenames_q.items[1] < filename
    /\ Rotating => \/ \A k \in Places : filenames_q.items[k] < filename
                   \/ /\ config.offset # 0
                      /\ IF call.stage = "rotated"
                         THEN call.msg.time >= filename * TicksPerPeriod + config.offset
                         ELSE filename < Due

(* A file of the sink that still exists will be deleted in its turn.       *)
Retained(p) == InQ(p) \/ (p \notin DOMAIN files /\ \E r \in mine : p < r)
RetentionOK ==
    config.max_files > 0 =>
        /\ Settled  => \A p \in mine \ forgotten : Retained(p)
        /\ Rotating => \A p \in mine \ forgotten : p = filename \/ Retained(p)

(* What remove_init_file_ and the truncation of a new file may remove.     *)
DiskOK ==
    call.stage # "no_sink" =>
        /\ \A p \in DOMAIN files : (\A r \in mine : r < p) => files[p] = <<>>
        /\ remove_init_file => /\ buf = <<>> /\ (Exists(files, filename) => files[filename] = <<>>)
                               /\ call.stage \in {"construct", "init_q", "idle"} /\ config.hourly

(* The inductive invariant.                                                *)
Inv == TypeOK /\ CallOK /\ TimesOK /\ QueueOK /\ RetentionOK /\ DiskOK
-----------------------------------------------------------------------------
(* The clock.                                                              *)
LEMMA PeriodProps ==
    ASSUME NEW t \in Nat
    PROVE  /\ Period(t) \in Nat
           /\ Period(t) * TicksPerPeriod <= t /\ t < Period(t) * TicksPerPeriod + TicksPerPeriod
BY ClockAssumption, SMT DEF Period

LEMMA PeriodMono ==
    ASSUME NEW t \in Nat, NEW u \in Nat, t <= u
    PROVE  Period(t) <= Period(u)
BY ClockAssumption, SMT DEF Period

LEMMA PeriodOf ==
    ASSUME NEW p \in Nat, NEW r \in 0 .. TicksPerPeriod - 1, NEW t, t = p * TicksPerPeriod + r
    PROVE  t \in Nat /\ Period(t) = p
BY ClockAssumption, SMT DEF Period

LEMMA Multiples ==
    ASSUME NEW p \in Nat, NEW q \in Nat
    PROVE  /\ p * TicksPerPeriod \in Nat
           /\ p < q => p * TicksPerPeriod + TicksPerPeriod <= q * TicksPerPeriod
           /\ (p + 1) * TicksPerPeriod = p * TicksPerPeriod + TicksPerPeriod
BY ClockAssumption, SMT

(* The next rotation lies in the future, at its offset into a period; a    *)
(* message past the offset of its period is in an earlier one.             *)
LEMMA NextRotation ==
    ASSUME now \in Nat, NEW off \in 0 .. TicksPerPeriod - 1, NEW tp, tp = next_rotation_tp(off)
    PROVE  /\ tp \in Nat /\ tp > now /\ Period(tp) \in Nat
           /\ tp = Period(tp) * TicksPerPeriod + off
           /\ Period(now) <= Period(tp) /\ (off = 0 => Period(now) < Period(tp))
           /\ \A t \in Nat : t <= now /\ t >= Period(t) * TicksPerPeriod + off => Period(t) < Period(tp)
<1>1. PICK p \in Nat : p = Period(now)
  BY PeriodProps
<1>2. /\ p * TicksPerPeriod \in Nat /\ p * TicksPerPeriod <= now
      /\ now < p * TicksPerPeriod + TicksPerPeriod
      /\ TicksPerPeriod \in Nat
  BY <1>1, PeriodProps, Multiples, ClockAssumption
<1>3. PICK r \in Nat : r = p * TicksPerPeriod
  BY <1>2
<1>4. tp = IF r + off > now THEN r + off ELSE r + off + TicksPerPeriod
  BY <1>1, <1>3 DEF next_rotation_tp
<1>5. tp > now
  BY <1>2, <1>3, <1>4, SMT
<1>6. PICK q \in Nat : tp = q * TicksPerPeriod + off /\ p <= q /\ (off = 0 => p < q)
  <2>1. CASE r + off > now
    BY <1>2, <1>3, <1>4, <2>1, SMT
  <2>2. CASE ~(r + off > now)
    <3>1. p + 1 \in Nat /\ p < p + 1 /\ p <= p + 1
      BY SMT
    <3>2. (p + 1) * TicksPerPeriod = r + TicksPerPeriod
      BY <1>3, <3>1, Multiples
    <3>3. tp = (p + 1) * TicksPerPeriod + off
      BY <1>2, <1>3, <1>4, <2>2, <3>2, SMT
    <3>4. QED
      BY <3>1, <3>3
  <2>3. QED
    BY <2>1, <2>2
<1>7. tp \in Nat /\ Period(tp) = q
  BY <1>6, PeriodOf
<1>8. ASSUME NEW t \in Nat, t <= now, t >= Period(t) * TicksPerPeriod + off PROVE Period(t) < q
  <2>1. PICK k \in Nat : k = Period(t)
    BY PeriodProps
  <2>2. SUFFICES ASSUME ~(k < q) PROVE FALSE
    BY <2>1
  <2>3. k * TicksPerPeriod \in Nat /\ q * TicksPerPeriod \in Nat
        /\ q * TicksPerPeriod <= k * TicksPerPeriod
    <3>1. q = k \/ q < k
      BY <2>2, SMT
    <3>2. QED
      BY <3>1, Multiples, ClockAssumption, SMT
  <2>4. QED
    BY <1>5, <1>6, <1>8, <2>1, <2>3, SMT
<1>9. QED
  BY <1>1, <1>5, <1>6, <1>7, <1>8

(* A message that is due at tp opens the file of that period, or of a      *)
(* later one.                                                              *)
LEMMA DuePeriod ==
    ASSUME NEW tp \in Nat, NEW off \in 0 .. TicksPerPeriod - 1,
           tp = Period(tp) * TicksPerPeriod + off, NEW t \in Nat, t >= tp
    PROVE  /\ Period(tp) <= Period(t)
           /\ Period(tp) < Period(t) \/ t >= Period(t) * TicksPerPeriod + off
<1>1. Period(tp) \in Nat /\ Period(t) \in Nat /\ Period(tp) <= Period(t)
  BY PeriodProps, PeriodMono
<1>2. CASE Period(tp) = Period(t)
  BY <1>1, <1>2
<1>3. QED
  BY <1>1, <1>2, SMT
-----------------------------------------------------------------------------
(* What the files hold after the operations of file_helper.                *)
LEMMA EmptyIds == <<>> \in Seq(Message) /\ Ids(<<>>) = {}
<1>1. <<>> \in Seq(Message) /\ Len(<<>>) = 0
  BY EmptySeq
<1>2. \A k \in 1 .. Len(<<>>) : FALSE
  BY <1>1, SMT
<1>3. QED
  BY <1>1, <1>2 DEF Ids

LEMMA StoredFacts ==
    ASSUME TypeOK, NEW b \in Seq(Message), NEW fs, fs = Stored(b)
    PROVE  /\ DOMAIN fs = DOMAIN files
           /\ \A p \in DOMAIN files :
                 /\ fs[p] \in Seq(Message)
                 /\ p # filename \/ b = <<>> => fs[p] = files[p]
                 /\ Ids(files[p]) \subseteq Ids(fs[p])
<1>1. CASE filename \notin DOMAIN files
  BY <1>1 DEF Stored, Exists, TypeOK
<1>2. CASE filename \in DOMAIN files
  <2> PICK f \in Seq(Message) : f = files[filename]
    BY <1>2 DEF TypeOK
  <2>1. PICK c : f = files[filename] /\ c = f \o b
    OBVIOUS
  <2>2. DOMAIN fs = DOMAIN files /\ fs[filename] = c
        /\ \A p \in DOMAIN files : p # filename => fs[p] = files[p]
    BY <1>2, <2>1 DEF Stored, Exists, With
  <2>3. /\ c \in Seq(Message) /\ Len(c) = Len(f) + Len(b) /\ Len(f) \in Nat /\ Len(b) \in Nat
        /\ \A k \in 1 .. Len(f) + Len(b) : c[k] = IF k <= Len(f) THEN f[k] ELSE b[k - Len(f)]
    BY <2>1, ConcatProperties, LenProperties
  <2>4. ASSUME NEW k \in 1 .. Len(f) PROVE k \in 1 .. Len(c) /\ c[k] = f[k]
    <3>1. k \in 1 .. Len(f) + Len(b) /\ k <= Len(f)
      BY <2>3, SMT
    <3>2. QED
      BY <2>3, <3>1
  <2>5. Ids(f) \subseteq Ids(c)
    BY <2>4 DEF Ids
  <2>6. b = <<>> => c = f
    BY <2>1, ConcatEmptySeq
  <2>7. QED
    BY <2>1, <2>2, <2>3, <2>5, <2>6 DEF TypeOK
<1>3. QED
  BY <1>1, <1>2

LEMMA WithoutFacts ==
    ASSUME NEW fs, NEW name, NEW r, r = Without(fs, name)
    PROVE  DOMAIN r = DOMAIN fs \ {name} /\ \A p \in DOMAIN r : r[p] = fs[p]
BY DEF Without, Restrict

LEMMA CallShapes ==
    /\ \A id \in Nat, t \in Nat : Msg(id, t) \in Message /\ Msg(id, t).time = t
    /\ NoSink.stage = "no_sink" /\ NoSink.msg \in Message /\ NoSink.msg.time = 0
    /\ NoSink.should_rotate = FALSE
    /\ NoSink \in [stage : {"no_sink"}, msg : Message, should_rotate : BOOLEAN]
    /\ Idle.stage = "idle" /\ Idle.msg \in Message /\ Idle.msg.time = 0 /\ Idle.should_rotate = FALSE
    /\ Idle \in [stage : {"idle"}, msg : Message, should_rotate : BOOLEAN]
<1>1. \A id \in Nat, t \in Nat : Msg(id, t) \in Message /\ Msg(id, t).time = t
  BY DEF Msg, Message
<1>2. Msg(0, 0) \in Message /\ Msg(0, 0).time = 0
  BY <1>1, SMT
<1>3. QED
  BY <1>1, <1>2 DEF NoSink, Idle, At

LEMMA AtShape ==
    ASSUME NEW stage, NEW msg, NEW rot, NEW c, c = At(stage, msg, rot)
    PROVE  c.stage = stage /\ c.msg = msg /\ c.should_rotate = rot
BY DEF At

LEMMA ConstructShape ==
    ASSUME NEW c, c = At("construct", Msg(0, 0), FALSE)
    PROVE  /\ c.stage = "construct" /\ c.msg.time = 0 /\ c.should_rotate = FALSE
           /\ c \in [stage : {"construct"}, msg : Message, should_rotate : BOOLEAN]
<1>1. Msg(0, 0) \in Message /\ Msg(0, 0).time = 0
  BY CallShapes, SMT
<1>2. QED
  BY <1>1 DEF At

LEMMA ConfigShape ==
    ASSUME config \in Configs
    PROVE  config.offset \in 0 .. TicksPerPeriod - 1 /\ config.max_files \in Nat
           /\ config.truncate \in BOOLEAN /\ config.hourly \in BOOLEAN
BY ConfigsAssumption

LEMMA NoSinkFifo ==
    /\ DisabledFifo \in [cap : Int, items : Seq(Nat), overruns : Nat]
    /\ DisabledFifo.items = <<>> /\ Len(DisabledFifo.items) = 0
<1>1. <<>> \in Seq(Nat) /\ Len(<<>>) = 0
  BY EmptySeq
<1>2. QED
  BY <1>1, SMT DEF DisabledFifo, DisabledCap
-----------------------------------------------------------------------------
(* Each action keeps the invariant.                                        *)
LEMMA TickKeeps == ASSUME Inv, Tick PROVE Inv'
<1>1. now' = now + 1 /\ now \in Nat /\ now' \in Nat /\ now <= now'
  BY SMT DEF Tick, Advance, Inv, TypeOK
<1>2. Period(now) \in Nat /\ Period(now') \in Nat /\ Period(now) <= Period(now')
  BY <1>1, PeriodProps, PeriodMono
<1>3. UNCHANGED <<files, buf, filename, is_open, config, rotation_tp, filenames_q, remove_init_file,
                  call, pending, logged, mine, forgotten>>
  BY DEF Tick, fileVars, sinkVars
<1>4. TypeOK'
  <2>1. \A p \in 0 .. Period(now) : p \in 0 .. Period(now')
    BY <1>2, SMT
  <2>2. \A m \in pending : m.time <= now'
    <3>1. ASSUME NEW m \in pending PROVE m.time \in Nat /\ m.time <= now
      BY DEF Inv, TypeOK, Message
    <3>2. QED
      BY <1>1, <3>1, SMT
  <2>3. QED
    BY <1>1, <1>3, <2>1, <2>2 DEF Inv, TypeOK
<1>5. CallOK'
  <2>1. call.msg.time \in Nat /\ call.msg.time <= now
    BY DEF Inv, CallOK, Message
  <2>2. call.msg.time <= now'
    BY <1>1, <2>1, SMT
  <2>3. QED
    BY <1>3, <2>2 DEF Inv, CallOK, Period
<1>6. TimesOK' /\ QueueOK' /\ RetentionOK' /\ DiskOK'
  BY <1>3 DEF Inv, TimesOK, QueueOK, RetentionOK, DiskOK, Scheduled, Rotating, Settled, Due, Places,
              Retained, InQ, Exists, Period
<1>7. QED
  BY <1>4, <1>5, <1>6 DEF Inv

LEMMA LogKeeps == ASSUME Inv, Log PROVE Inv'
<1>1. UNCHANGED <<files, buf, filename, is_open, now, config, rotation_tp, filenames_q,
                  remove_init_file, call, mine, forgotten>>
  BY DEF Log, fileVars, sinkVars
<1>2. logged + 1 \in Nat /\ now <= now /\ now \in Nat
  BY SMT DEF Inv, TypeOK
<1>3. Msg(logged + 1, now) \in Message /\ Msg(logged + 1, now).time = now
  BY <1>2, CallShapes
<1>4. TypeOK'
  BY <1>1, <1>2, <1>3 DEF Log, Inv, TypeOK, Period
<1>5. CallOK' /\ TimesOK' /\ QueueOK' /\ RetentionOK' /\ DiskOK'
  BY <1>1 DEF Inv, CallOK, TimesOK, QueueOK, RetentionOK, DiskOK, Scheduled, Rotating, Settled, Due,
              Places, Retained, InQ, Exists, Period
<1>6. QED
  BY <1>4, <1>5 DEF Inv

(* No sink is left, or none was there and the constructor threw.           *)
LEMMA GoneKeeps ==
    ASSUME Inv, call' = NoSink, filenames_q' = DisabledFifo, is_open' = FALSE, buf' = <<>>,
           filename' \in 0 .. Period(now), now' = now, config' \in Configs, rotation_tp' \in Nat,
           logged' = logged, pending' \subseteq pending, mine' \subseteq mine,
           DOMAIN files' \subseteq 0 .. Period(now), \A p \in DOMAIN files' : files'[p] \in Seq(Message)
    PROVE  Inv'
<1>1. TypeOK'
  BY NoSinkFifo, EmptyIds DEF Inv, TypeOK, Period
<1>2. call'.stage = "no_sink" /\ call'.msg.time = 0 /\ 0 <= now
  BY CallShapes, SMT DEF Inv, TypeOK
<1>3. CallOK'
  BY <1>2, CallShapes DEF CallOK
<1>4. TimesOK' /\ DiskOK' /\ RetentionOK'
  BY <1>2 DEF TimesOK, DiskOK, RetentionOK, Scheduled, Rotating, Settled
<1>5. QueueOK'
  <2>1. Len(filenames_q'.items) = 0 /\ filenames_q'.items = <<>>
    BY NoSinkFifo
  <2>2. ~(Len(filenames_q'.items) >= 2) /\ \A k \in 1 .. Len(filenames_q'.items) : FALSE
    BY <2>1, SMT
  <2>3. QED
    BY <1>2, <2>1, <2>2 DEF QueueOK, Places, Rotating
<1>6. QED
  BY <1>1, <1>3, <1>4, <1>5 DEF Inv
LEMMA OpenedOK ==
    ASSUME NEW fs, NEW n \in Nat, DOMAIN fs \subseteq 0 .. n, \A p \in DOMAIN fs : fs[p] \in Seq(Message),
           NEW name \in 0 .. n, NEW truncate \in BOOLEAN, NEW r, r = Opened(fs, name, truncate)
    PROVE  DOMAIN r \subseteq 0 .. n /\ \A p \in DOMAIN r : r[p] \in Seq(Message)
<1>1. /\ DOMAIN r = DOMAIN fs \cup {name}
      /\ \A p \in DOMAIN fs : p # name \/ ~truncate => r[p] = fs[p]
      /\ truncate \/ name \notin DOMAIN fs => r[name] = <<>>
  BY DEF Opened, Exists, With
<1>2. QED
  BY <1>1, EmptyIds

LEMMA ConstructKeeps ==
    ASSUME Inv, NEW c \in Configs, Construct(c)
    PROVE  Inv'
<1>1. PICK P, r : P = Period(now) /\ r = Opened(files, P, c.truncate)
  OBVIOUS
<1>2. /\ now \in Nat /\ P \in Nat /\ P \in 0 .. P /\ c.truncate \in BOOLEAN
      /\ DOMAIN files \subseteq 0 .. P /\ \A p \in DOMAIN files : files[p] \in Seq(Message)
  <2>1. now \in Nat /\ P \in Nat /\ c.truncate \in BOOLEAN
    BY <1>1, PeriodProps, ConfigsAssumption DEF Inv, TypeOK
  <2>2. QED
    BY <1>1, <2>1, SMT DEF Inv, TypeOK
<1>3. DOMAIN r \subseteq 0 .. P /\ \A p \in DOMAIN r : r[p] \in Seq(Message)
  BY <1>1, <1>2, OpenedOK
<1>4. /\ call = NoSink /\ config' = c /\ filenames_q' = DisabledFifo /\ forgotten' = {}
      /\ now' = now /\ rotation_tp' = rotation_tp /\ pending' = pending /\ logged' = logged
      /\ buf' = <<>> /\ filename' = P
      /\ remove_init_file' = (c.hourly /\ r[P] = <<>>)
  BY <1>1 DEF Construct, OpenOk, OpenThrows
<1>5. CASE call' = call
  <2>1. is_open' = FALSE /\ mine' = mine /\ files' \in {files, r}
    <3>1. NoSink # At("construct", Msg(0, 0), FALSE)
      BY CallShapes, ConstructShape
    <3>2. QED
      BY <1>1, <1>4, <1>5, <3>1 DEF Construct, OpenThrows
  <2>2. DOMAIN files' \subseteq 0 .. Period(now) /\ \A p \in DOMAIN files' : files'[p] \in Seq(Message)
    BY <1>1, <1>2, <1>3, <2>1
  <2>3. rotation_tp' \in Nat /\ config' \in Configs /\ call' = NoSink /\ filename' \in 0 .. Period(now)
    BY <1>1, <1>2, <1>4, <1>5 DEF Inv, TypeOK
  <2>4. QED
    BY <1>4, <2>1, <2>2, <2>3, GoneKeeps
<1>6. CASE call' # call
  <2>1. is_open' = TRUE /\ mine' = {P} /\ files' = r /\ call' = At("construct", Msg(0, 0), FALSE)
    BY <1>1, <1>6 DEF Construct, OpenOk
  <2>2. /\ call'.stage = "construct" /\ call'.msg.time = 0 /\ call'.should_rotate = FALSE
        /\ call' \in [stage : {"construct"}, msg : Message, should_rotate : BOOLEAN] /\ 0 <= now
    <3>1. 0 <= now
      BY <1>2, SMT
    <3>2. PICK cc : cc = call'
      OBVIOUS
    <3>3. /\ cc.stage = "construct" /\ cc.msg.time = 0 /\ cc.should_rotate = FALSE
          /\ cc \in [stage : {"construct"}, msg : Message, should_rotate : BOOLEAN]
      BY <2>1, <3>2, ConstructShape
    <3>4. QED
      BY <3>1, <3>2, <3>3
  <2>3. TypeOK'
    BY <1>1, <1>2, <1>3, <1>4, <2>1, NoSinkFifo, EmptyIds DEF Inv, TypeOK, Period
  <2>4. CallOK'
    BY <1>4, <2>2 DEF CallOK
  <2>5. TimesOK'
    <3>1. P <= P /\ \A p \in 0 .. P : p <= P
      BY <1>2, SMT
    <3>2. QED
      BY <1>3, <1>4, <2>1, <2>2, <3>1 DEF TimesOK, Scheduled, Rotating
  <2>6. QueueOK'
    <3>1. Len(filenames_q'.items) = 0 /\ filenames_q'.items = <<>>
      BY <1>4, NoSinkFifo
    <3>2. ~(Len(filenames_q'.items) >= 2) /\ \A k \in 1 .. Len(filenames_q'.items) : FALSE
      BY <3>1, SMT
    <3>3. QED
      BY <2>2, <3>1, <3>2 DEF QueueOK, Places, Rotating
  <2>7. RetentionOK'
    BY <2>2 DEF RetentionOK, Rotating, Settled
  <2>8. DiskOK'
    <3>1. \A p \in 0 .. P : ~(P < p)
      BY <1>2, SMT
    <3>2. QED
      BY <1>3, <1>4, <2>1, <2>2, <3>1 DEF DiskOK, Exists
  <2>9. QED
    BY <2>3, <2>4, <2>5, <2>6, <2>7, <2>8 DEF Inv
<1>7. QED
  BY <1>5, <1>6

LEMMA ScheduleKeeps == ASSUME Inv, Schedule PROVE Inv'
<1>1. PICK tp : tp = next_rotation_tp(config.offset)
  OBVIOUS
<1>2. /\ now \in Nat /\ config.offset \in 0 .. TicksPerPeriod - 1 /\ config.max_files \in Nat
      /\ filename \in Nat /\ filename <= Period(now) /\ Period(now) \in Nat /\ mine \subseteq Nat
  <2>1. now \in Nat /\ config.offset \in 0 .. TicksPerPeriod - 1 /\ config.max_files \in Nat
    BY ConfigShape DEF Inv, TypeOK
  <2>2. QED
    BY <2>1, PeriodProps, SMT DEF Inv, TypeOK
<1>3. /\ tp \in Nat /\ Period(tp) \in Nat /\ tp = Period(tp) * TicksPerPeriod + config.offset
      /\ Period(now) <= Period(tp) /\ (config.offset = 0 => Period(now) < Period(tp))
      /\ \A t \in Nat : t <= now /\ t >= Period(t) * TicksPerPeriod + config.offset
                             => Period(t) < Period(tp)
  BY <1>1, <1>2, NextRotation
<1>4. /\ rotation_tp' = tp
      /\ UNCHANGED <<files, buf, filename, is_open, now, config, filenames_q, remove_init_file,
                     pending, logged, mine, forgotten>>
      /\ call.stage \in {"construct", "rotated"}
      /\ call' = [call EXCEPT !.stage = IF @ = "rotated" THEN "write"
                                        ELSE IF config.max_files > 0 THEN "init_q" ELSE "idle"]
  BY <1>1 DEF Schedule, fileVars
<1>5. /\ call'.msg = call.msg /\ call'.should_rotate = call.should_rotate
      /\ call'.stage = IF call.stage = "rotated" THEN "write"
                       ELSE IF config.max_files > 0 THEN "init_q" ELSE "idle"
      /\ call' \in [stage : {"write", "init_q", "idle"}, msg : Message, should_rotate : BOOLEAN]
  BY <1>4 DEF Inv, CallOK
<1>6. is_open /\ \A p \in mine : p <= filename
  BY <1>4 DEF Inv, TimesOK, Rotating
<1>7. Due' = Period(tp)
  BY <1>4 DEF Due, Period
<1>8. TypeOK'
  BY <1>3, <1>4 DEF Inv, TypeOK, Period
<1>9. CallOK'
  BY <1>4, <1>5 DEF Inv, CallOK, Period
<1>10. TimesOK'
  <2>1. \A p \in mine : p <= Period(tp) /\ (config.offset = 0 => p < Period(tp))
    BY <1>2, <1>3, <1>6, SMT
  <2>2. QED
    BY <1>3, <1>4, <1>5, <1>7, <2>1, <1>6 DEF Inv, TimesOK, Rotating, Scheduled
<1>11. QueueOK'
  <2>1. CASE call.stage = "construct"
    <3>1. filenames_q.items = <<>> /\ Len(filenames_q.items) = 0
      BY <2>1, EmptySeq DEF Inv, QueueOK
    <3>2. ~(Len(filenames_q.items) >= 2) /\ \A k \in 1 .. Len(filenames_q.items) : FALSE
      BY <3>1, SMT
    <3>3. QED
      BY <1>4, <1>5, <2>1, <3>1, <3>2 DEF QueueOK, Places, Rotating
  <2>2. CASE call.stage = "rotated"
    <3>1. call.should_rotate /\ call.msg.time \in Nat /\ call.msg.time <= now
          /\ filename = Period(call.msg.time)
      BY <2>2 DEF Inv, CallOK, Message
    <3>2. call.msg.time >= filename * TicksPerPeriod + config.offset => filename < Period(tp)
      BY <1>3, <3>1
    <3>3. QED
      BY <1>4, <1>5, <1>7, <2>2, <3>1, <3>2 DEF Inv, QueueOK, Places, Rotating, Settled
  <2>3. QED
    BY <1>4, <2>1, <2>2
<1>12. RetentionOK'
  <2>1. config.max_files > 0 => ~Settled' /\ (Rotating' => Rotating)
    BY <1>4, <1>5 DEF Inv, CallOK, Settled, Rotating
  <2>2. QED
    BY <1>4, <2>1 DEF Inv, RetentionOK, Retained, InQ, Places
<1>13. DiskOK'
  BY <1>4, <1>5 DEF Inv, DiskOK, Exists
<1>14. QED
  BY <1>8, <1>9, <1>10, <1>11, <1>12, <1>13 DEF Inv

(* The files found are the latest ones, and the current one is the last.   *)
LEMMA InitQueueKeeps == ASSUME Inv, init_filenames_q PROVE Inv'
<1>1. PICK n \in 0 .. config.max_files :
         /\ Finds(n)
         /\ filenames_q' = [NewFifo(config.max_files) EXCEPT
                               !.items = [k \in 1 .. n |-> (Period(now) - n + 1) + k - 1]]
         /\ mine' = mine \cup ((Period(now) - n + 1) .. Period(now))
         /\ forgotten' = mine \ ((Period(now) - n + 1) .. Period(now))
  BY DEF init_filenames_q
<1>2. /\ now \in Nat /\ config.offset \in 0 .. TicksPerPeriod - 1 /\ config.max_files \in Nat
      /\ n \in Nat /\ n <= config.max_files
  <2>1. now \in Nat /\ config.offset \in 0 .. TicksPerPeriod - 1 /\ config.max_files \in Nat
    BY ConfigShape DEF Inv, TypeOK
  <2>2. QED
    BY <2>1, SMT
<1>3. PICK P \in Nat : P = Period(now)
  BY <1>2, PeriodProps
<1>4. /\ call.stage = "init_q" /\ call' = Idle
      /\ UNCHANGED <<files, buf, filename, is_open, now, config, rotation_tp, remove_init_file,
                     pending, logged>>
  BY DEF init_filenames_q, fileVars
<1>5. /\ call'.stage = "idle" /\ call'.msg.time = 0 /\ call'.should_rotate = FALSE /\ 0 <= now
      /\ call' \in [stage : {"idle"}, msg : Message, should_rotate : BOOLEAN]
  BY <1>2, <1>4, CallShapes, SMT
<1>6. PICK items : items = [k \in 1 .. n |-> P - n + k]
  OBVIOUS
<1>7. filenames_q' = [cap |-> config.max_files, items |-> items, overruns |-> 0]
  <2>1. items = [k \in 1 .. n |-> (P - n + 1) + k - 1]
    <3>1. \A k \in 1 .. n : P - n + k = (P - n + 1) + k - 1
      BY <1>2, SMT
    <3>2. QED
      BY <1>6, <3>1
  <2>2. QED
    BY <1>1, <1>3, <2>1 DEF NewFifo
<1>8. /\ is_open /\ filename \in 0 .. P /\ mine = {filename} /\ DOMAIN files \subseteq 0 .. P
      /\ \A p \in DOMAIN files : p <= filename
      /\ \A p \in mine : p <= Due /\ (config.offset = 0 => p < Due)
      /\ rotation_tp = Due * TicksPerPeriod + config.offset /\ Due \in Nat
  BY <1>3, <1>4, PeriodProps DEF Inv, TypeOK, TimesOK, Scheduled, Due
<1>9. \A p \in (P - n + 1) .. P : p \in DOMAIN files
  <2> SUFFICES ASSUME NEW p \in (P - n + 1) .. P PROVE p \in DOMAIN files
    OBVIOUS
  <2>1. PICK k \in 0 .. n - 1 : p = P - k
    <3>1. P - p \in 0 .. n - 1 /\ p = P - (P - p)
      BY <1>2, SMT
    <3>2. QED
      BY <3>1
  <2>2. QED
    BY <1>1, <1>3, <2>1 DEF Finds, Exists
<1>10. n > 0 => filename = P
  <2>1. n > 0 => P \in (P - n + 1) .. P
    BY <1>2, SMT
  <2>2. n > 0 => P <= filename
    BY <1>8, <1>9, <2>1
  <2>3. QED
    BY <1>8, <2>2, SMT
<1>11. /\ items \in Seq(Nat) /\ Len(items) = n
       /\ \A k \in 1 .. n : items[k] = P - n + k /\ items[k] \in (P - n + 1) .. P
  <2>1. \A k \in 1 .. n : P - n + k \in (P - n + 1) .. P
    BY <1>2, SMT
  <2>2. \A k \in 1 .. n : P - n + k \in Nat
    <3>1. \A p \in DOMAIN files : p \in Nat
      BY <1>8, SMT
    <3>2. QED
      BY <1>9, <2>1, <3>1
  <2>3. items \in [1 .. n -> Nat]
    BY <1>6, <2>2
  <2>4. QED
    BY <1>2, <1>6, <2>1, <2>3, SeqDef, LenProperties
<1>12. mine' = mine \cup ((P - n + 1) .. P) /\ forgotten' = mine \ ((P - n + 1) .. P)
  BY <1>1, <1>3
<1>13. \A p \in mine' : /\ p \in 0 .. P /\ p <= filename
                        /\ p <= Due /\ (config.offset = 0 => p < Due)
  <2>1. \A p \in (P - n + 1) .. P : n > 0 /\ p <= P
    BY <1>2, SMT
  <2>2. \A p \in mine' : p \in 0 .. P /\ p <= filename
    BY <1>8, <1>9, <1>10, <1>12, <2>1, SMT
  <2>3. filename <= Due /\ (config.offset = 0 => filename < Due)
    BY <1>8
  <2>4. QED
    BY <1>8, <2>2, <2>3, SMT
<1>14. TypeOK'
  <2>1. 0 \in Nat /\ config.max_files \in Int
    BY <1>2, SMT
  <2>2. filenames_q' \in [cap : Int, items : Seq(Nat), overruns : Nat]
    BY <1>7, <1>11, <2>1
  <2>3. QED
    BY <1>3, <1>4, <1>13, <2>2 DEF Inv, TypeOK, Period
<1>15. CallOK'
  BY <1>4, <1>5 DEF CallOK
<1>16. TimesOK'
  BY <1>4, <1>5, <1>8, <1>12, <1>13 DEF TimesOK, Scheduled, Rotating, Due, Period
<1>17. QueueOK'
  <2>1. filenames_q'.items = items /\ filenames_q'.cap = config.max_files
    BY <1>7
  <2>2. n >= 2 => items[1] < Due
    <3>1. n >= 2 => 1 \in 1 .. n /\ P - n + 1 < P /\ n > 0
      BY <1>2, SMT
    <3>2. filename <= Due
      BY <1>8
    <3>3. QED
      BY <1>2, <1>8, <1>10, <1>11, <3>1, <3>2, SMT
  <2>3. QED
    BY <1>2, <1>4, <1>5, <1>11, <1>12, <2>1, <2>2 DEF QueueOK, Places, Rotating, Settled, Due, Period
<1>18. RetentionOK'
  <2>1. ~Rotating'
    BY <1>5 DEF Rotating
  <2>2. ASSUME NEW p \in mine' \ forgotten' PROVE InQ(p)'
    <3>1. p \in (P - n + 1) .. P
      BY <1>12, <2>2
    <3>2. PICK k \in 1 .. n : P - n + k = p
      <4>1. p - (P - n) \in 1 .. n /\ P - n + (p - (P - n)) = p
        BY <1>2, <3>1, SMT
      <4>2. QED
        BY <4>1
    <3>3. filenames_q'.items[k] = p /\ Len(filenames_q'.items) = n
      BY <1>7, <1>11, <3>2
    <3>4. QED
      BY <3>3 DEF InQ, Places
  <2>3. QED
    BY <2>1, <2>2 DEF RetentionOK, Retained
<1>19. DiskOK'
  BY <1>4, <1>5, <1>12 DEF Inv, DiskOK, Exists
<1>20. QED
  BY <1>14, <1>15, <1>16, <1>17, <1>18, <1>19 DEF Inv

(* The files once the old one is closed and perhaps removed: none of their *)
(* messages is lost.                                                       *)
LEMMA LeaveFacts ==
    ASSUME Inv, call.stage # "no_sink", NEW fs \in {Flushed, files}, NEW left, left = LeaveFile(fs)
    PROVE  /\ DOMAIN left \subseteq DOMAIN files
           /\ \A p \in DOMAIN left :
                 left[p] \in Seq(Message) /\ ((\A r \in mine : r < p) => left[p] = <<>>)
           /\ \A p \in DOMAIN files : \A id \in Ids(files[p]) : p \in DOMAIN left /\ id \in Ids(left[p])
<1>1. TypeOK /\ buf \in Seq(Message)
  BY DEF Inv, TypeOK
<1>2. /\ DOMAIN fs = DOMAIN files
      /\ \A p \in DOMAIN files : /\ fs[p] \in Seq(Message)
                                 /\ p # filename \/ buf = <<>> => fs[p] = files[p]
                                 /\ Ids(files[p]) \subseteq Ids(fs[p])
  <2>1. CASE fs = Flushed
    BY <1>1, <2>1, StoredFacts DEF Flushed
  <2>2. CASE fs = files
    BY <1>1, <2>2 DEF TypeOK
  <2>3. QED
    BY <2>1, <2>2
<1>3. \A p \in DOMAIN files : (\A r \in mine : r < p) => fs[p] = <<>>
  <2> SUFFICES ASSUME NEW p \in DOMAIN files, \A r \in mine : r < p PROVE fs[p] = <<>>
    OBVIOUS
  <2>1. files[p] = <<>>
    BY DEF Inv, DiskOK
  <2>2. p = filename => buf = <<>>
    <3>1. ~(p < p)
      BY SMT DEF Inv, TypeOK
    <3>2. QED
      BY <3>1 DEF Inv, TypeOK, TimesOK
  <2>3. QED
    BY <1>2, <2>1, <2>2
<1>4. CASE ~remove_init_file
  BY <1>2, <1>3, <1>4 DEF LeaveFile
<1>5. CASE remove_init_file
  <2>1. filename \in DOMAIN files => Ids(files[filename]) = {}
    BY <1>5, EmptyIds DEF Inv, DiskOK, Exists
  <2>2. DOMAIN left = DOMAIN fs \ {filename} /\ \A p \in DOMAIN left : left[p] = fs[p]
    BY <1>5 DEF LeaveFile, Without, Restrict
  <2>3. QED
    BY <1>2, <1>3, <2>1, <2>2
<1>6. QED
  BY <1>4, <1>5

(* A message before rotation_tp_ goes on to the write.                     *)
LEMMA SinkItStaysKeeps ==
    ASSUME Inv, call = Idle, NEW m \in pending, pending' = pending \ {m}, call' = At("write", m, FALSE),
           remove_init_file' = FALSE,
           UNCHANGED <<files, buf, filename, is_open, now, config, rotation_tp, filenames_q, mine,
                       forgotten, logged>>
    PROVE  Inv'
<1>1. m \in Message /\ m.time <= now /\ call.stage = "idle"
  BY CallShapes DEF Inv, TypeOK
<1>2. /\ call'.stage = "write" /\ call'.msg = m /\ call'.should_rotate = FALSE
      /\ call' \in [stage : {"write"}, msg : Message, should_rotate : BOOLEAN]
  BY <1>1 DEF At
<1>3. TypeOK'
  BY DEF Inv, TypeOK, Period
<1>4. CallOK'
  BY <1>1, <1>2 DEF CallOK
<1>5. TimesOK' /\ DiskOK'
  BY <1>1, <1>2 DEF Inv, TimesOK, DiskOK, Scheduled, Rotating, Due, Period, Exists
<1>6. QueueOK' /\ RetentionOK'
  BY <1>1, <1>2 DEF Inv, QueueOK, RetentionOK, Retained, InQ, Rotating, Settled, Due, Period, Places
<1>7. QED
  BY <1>3, <1>4, <1>5, <1>6 DEF Inv

(* What the rotation to a file knows of its period.                        *)
LEMMA RotationFacts ==
    ASSUME Inv, call = Idle, NEW m \in pending, should_rotate(m), NEW P, P = Period(m.time)
    PROVE  /\ call.stage = "idle" /\ m \in Message /\ m.time \in Nat /\ m.time <= now
           /\ P \in Nat /\ Due \in Nat /\ P \in 0 .. Period(now) /\ mine \subseteq Nat
           /\ Due <= P /\ \A p \in mine : p <= P /\ (config.offset = 0 => p < P)
           /\ Due < P \/ m.time >= P * TicksPerPeriod + config.offset
<1>1. /\ m \in Message /\ m.time \in Nat /\ m.time <= now /\ call.stage = "idle" /\ now \in Nat
      /\ rotation_tp \in Nat /\ config.offset \in 0 .. TicksPerPeriod - 1
  BY CallShapes, ConfigShape DEF Inv, TypeOK, Message
<1>2. P \in Nat /\ Due \in Nat /\ Period(now) \in Nat /\ P <= Period(now)
  BY <1>1, PeriodProps, PeriodMono DEF Due
<1>3. P \in 0 .. Period(now) /\ mine \subseteq Nat
  BY <1>2, SMT DEF Inv, TypeOK
<1>4. /\ rotation_tp = Due * TicksPerPeriod + config.offset
      /\ \A p \in mine : p <= Due /\ (config.offset = 0 => p < Due)
  BY <1>1 DEF Inv, TimesOK, Scheduled
<1>5. Due <= P /\ (Due < P \/ m.time >= P * TicksPerPeriod + config.offset)
  BY <1>1, <1>4, DuePeriod DEF Due, should_rotate
<1>6. \A p \in mine : p <= P /\ (config.offset = 0 => p < P)
  BY <1>2, <1>3, <1>4, <1>5, SMT
<1>7. QED
  BY <1>1, <1>2, <1>3, <1>5, <1>6

(* A message past rotation_tp_ opens its file.                             *)
LEMMA SinkItRotatesKeeps ==
    ASSUME Inv, call = Idle, NEW m \in pending, should_rotate(m), pending' = pending \ {m},
           NEW fs \in {Flushed, files}, OpenOk(LeaveFile(fs), Period(m.time), config.truncate),
           mine' = mine \cup {Period(m.time)}, remove_init_file' = FALSE, call' = At("rotated", m, TRUE),
           UNCHANGED <<now, config, rotation_tp, filenames_q, logged, forgotten>>
    PROVE  Inv'
<1>1. PICK P, left : P = Period(m.time) /\ left = LeaveFile(fs)
  OBVIOUS
<1>2. /\ call.stage = "idle" /\ m \in Message /\ m.time \in Nat /\ m.time <= now
      /\ P \in Nat /\ Due \in Nat /\ P \in 0 .. Period(now) /\ mine \subseteq Nat
      /\ Due <= P /\ \A p \in mine : p <= P /\ (config.offset = 0 => p < P)
      /\ Due < P \/ m.time >= P * TicksPerPeriod + config.offset
  BY <1>1, RotationFacts
<1>3. /\ DOMAIN left \subseteq DOMAIN files
      /\ \A p \in DOMAIN left :
            left[p] \in Seq(Message) /\ ((\A r \in mine : r < p) => left[p] = <<>>)
  BY <1>1, <1>2, LeaveFacts
<1>4. /\ files' = Opened(left, P, config.truncate) /\ buf' = <<>> /\ filename' = P /\ is_open'
      /\ mine' = mine \cup {P} /\ config.truncate \in BOOLEAN
  BY <1>1, ConfigShape DEF OpenOk, Inv, TypeOK
<1>5. /\ DOMAIN files' = DOMAIN left \cup {P}
      /\ \A p \in DOMAIN left : p # P => files'[p] = left[p]
      /\ \A p \in DOMAIN files' : files'[p] \in Seq(Message)
  <2>1. /\ DOMAIN files' = DOMAIN left \cup {P}
        /\ \A p \in DOMAIN left : p # P => files'[p] = left[p]
        /\ files'[P] = <<>> \/ (P \in DOMAIN left /\ files'[P] = left[P])
    BY <1>4 DEF Opened, Exists, With
  <2>2. QED
    BY <1>3, <2>1, EmptyIds
<1>6. /\ call'.stage = "rotated" /\ call'.msg = m /\ call'.should_rotate = TRUE
      /\ call' \in [stage : {"rotated"}, msg : Message, should_rotate : BOOLEAN]
  BY <1>2 DEF At
<1>7. TypeOK'
  BY <1>2, <1>3, <1>4, <1>5, EmptyIds DEF Inv, TypeOK, Period
<1>8. CallOK'
  BY <1>1, <1>2, <1>4, <1>6 DEF CallOK, Period
<1>9. TimesOK'
  <2>1. P <= P
    BY <1>2, SMT
  <2>2. QED
    BY <1>2, <1>4, <1>6, <2>1 DEF TimesOK, Scheduled, Rotating
<1>10. QueueOK'
  <2>1. Rotating' /\ ~Settled'
    BY <1>6 DEF Rotating, Settled
  <2>2. Len(filenames_q.items) >= 2 => filenames_q.items[1] < P
    <3>1. Len(filenames_q.items) >= 2 =>
             filenames_q.items[1] < Due /\ 1 \in Places /\ filenames_q.items[1] \in mine
      <4>1. Len(filenames_q.items) \in Nat
        BY LenProperties DEF Inv, TypeOK
      <4>2. Len(filenames_q.items) >= 2 => 1 \in 1 .. Len(filenames_q.items)
        BY <4>1, SMT
      <4>3. QED
        BY <1>2, <4>2 DEF Inv, QueueOK, Settled, Places
    <3>2. PICK i : i = filenames_q.items[1]
      OBVIOUS
    <3>3. i \in Nat /\ i < Due => i < P
      BY <1>2, SMT
    <3>4. QED
      BY <1>2, <3>1, <3>2, <3>3
  <2>3. \/ \A k \in Places : filenames_q.items[k] < P
        \/ config.offset # 0 /\ m.time >= P * TicksPerPeriod + config.offset
    <3>1. CASE Due < P
      <4>1. \A p \in mine : p <= Due
        BY <1>2 DEF Inv, TimesOK, Scheduled
      <4>2. \A p \in mine : p < P
        BY <1>2, <3>1, <4>1, SMT
      <4>3. QED
        BY <4>2 DEF Inv, QueueOK
    <3>2. CASE config.offset = 0
      BY <1>2, <3>2 DEF Inv, QueueOK
    <3>3. QED
      BY <1>2, <3>1, <3>2
  <2>4. QED
    BY <1>2, <1>4, <1>6, <2>1, <2>2, <2>3 DEF Inv, QueueOK, Places
<1>11. RetentionOK'
  <2>1. Settled /\ Rotating' /\ ~Settled'
    BY <1>2, <1>6 DEF Rotating, Settled
  <2>2. \A p \in DOMAIN files' : p \in DOMAIN files \/ p = P
    BY <1>3, <1>5
  <2>3. ASSUME config.max_files > 0, NEW p \in mine' \ forgotten', p # P PROVE Retained(p)'
    <3>1. Retained(p) /\ (p \notin DOMAIN files => p \notin DOMAIN files') /\ mine \subseteq mine'
      BY <1>4, <2>1, <2>2, <2>3 DEF Inv, RetentionOK
    <3>2. QED
      BY <3>1 DEF Retained, InQ, Places
  <2>4. QED
    BY <1>4, <2>1, <2>3 DEF RetentionOK
<1>12. DiskOK'
  <2>1. ~(P < P)
    BY <1>2, SMT
  <2>2. ASSUME NEW p \in DOMAIN files', \A r \in mine' : r < p PROVE files'[p] = <<>>
    <3>1. p # P /\ p \in DOMAIN left /\ \A r \in mine : r < p
      BY <1>4, <1>5, <2>1, <2>2
    <3>2. QED
      BY <1>3, <1>5, <3>1
  <2>3. remove_init_file' = FALSE
    OBVIOUS
  <2>4. QED
    BY <2>2, <2>3 DEF DiskOK
<1>13. QED
  BY <1>7, <1>8, <1>9, <1>10, <1>11, <1>12 DEF Inv

(* The file of the message cannot be opened.                               *)
LEMMA SinkItThrowsKeeps ==
    ASSUME Inv, call = Idle, NEW m \in pending, should_rotate(m), pending' = pending \ {m},
           OpenThrows(LeaveFile(Flushed), Period(m.time), config.truncate),
           UNCHANGED <<now, config, rotation_tp, filenames_q, logged, forgotten, call, mine,
                       remove_init_file>>
    PROVE  Inv'
<1>1. PICK P, left : P = Period(m.time) /\ left = LeaveFile(Flushed)
  OBVIOUS
<1>2. /\ call.stage = "idle" /\ P \in Nat /\ P \in 0 .. Period(now) /\ mine \subseteq Nat
      /\ \A p \in mine : p <= P /\ (config.offset = 0 => p < P)
  BY <1>1, RotationFacts
<1>3. /\ DOMAIN left \subseteq DOMAIN files
      /\ \A p \in DOMAIN left :
            left[p] \in Seq(Message) /\ ((\A r \in mine : r < p) => left[p] = <<>>)
  BY <1>1, <1>2, LeaveFacts
<1>4. /\ files' = left \/ (config.truncate /\ files' = Opened(left, P, TRUE))
      /\ buf' = <<>> /\ filename' = P /\ ~is_open'
  BY <1>1 DEF OpenThrows
<1>5. /\ DOMAIN files' \subseteq DOMAIN files \cup {P}
      /\ \A p \in DOMAIN files' : files'[p] = <<>> \/ (p \in DOMAIN left /\ files'[p] = left[p])
      /\ \A p \in DOMAIN files' : files'[p] \in Seq(Message)
  <2>1. /\ DOMAIN files' \subseteq DOMAIN left \cup {P}
        /\ \A p \in DOMAIN files' : files'[p] = <<>> \/ (p \in DOMAIN left /\ files'[p] = left[p])
    BY <1>4 DEF Opened, Exists, With
  <2>2. QED
    BY <1>3, <2>1, EmptyIds
<1>6. TypeOK'
  BY <1>2, <1>4, <1>5, EmptyIds DEF Inv, TypeOK, Period
<1>7. CallOK' /\ TimesOK'
  BY <1>2, <1>4 DEF Inv, CallOK, TimesOK, Scheduled, Rotating, Due, Period
<1>8. QueueOK'
  BY <1>2 DEF Inv, QueueOK, Settled, Rotating, Places, Due, Period
<1>9. RetentionOK'
  <2>1. Settled /\ Settled' /\ ~Rotating'
    BY <1>2 DEF Settled, Rotating
  <2>2. ASSUME config.max_files > 0, NEW p \in mine \ forgotten PROVE Retained(p)'
    <3>1. Retained(p)
      BY <2>1, <2>2 DEF Inv, RetentionOK
    <3>2. (\E r \in mine : p < r) => p # P
      <4>1. \A r \in mine : ~(P < r)
        BY <1>2, SMT
      <4>2. QED
        BY <4>1
    <3>3. QED
      BY <1>5, <3>1, <3>2 DEF Retained, InQ, Places
  <2>3. QED
    BY <2>1, <2>2 DEF RetentionOK
<1>10. DiskOK'
  <2>1. \A p \in DOMAIN files' : (\A r \in mine : r < p) => files'[p] = <<>>
    BY <1>3, <1>5
  <2>2. remove_init_file => (P \in DOMAIN files' => files'[P] = <<>>)
    <3>1. CASE \A r \in mine : r < P
      BY <2>1, <3>1
    <3>2. remove_init_file => config.offset = 0
      BY <1>2, ConfigsAssumption DEF Inv, DiskOK, TypeOK
    <3>3. QED
      BY <1>2, <3>1, <3>2
  <2>3. QED
    BY <1>2, <1>4, <2>1, <2>2 DEF Inv, DiskOK, Exists
<1>11. QED
  BY <1>6, <1>7, <1>8, <1>9, <1>10 DEF Inv

LEMMA SinkItKeeps == ASSUME Inv, NEW m \in pending, SinkIt(m) PROVE Inv'
<1>1. /\ call = Idle /\ pending' = pending \ {m}
      /\ UNCHANGED <<now, config, rotation_tp, filenames_q, logged, forgotten>>
  BY DEF SinkIt
<1>2. CASE call' = At("write", m, FALSE) /\ remove_init_file' = FALSE
           /\ UNCHANGED <<files, buf, filename, is_open, mine>>
  BY <1>1, <1>2, SinkItStaysKeeps
<1>3. CASE /\ should_rotate(m) /\ mine' = mine \cup {Period(m.time)} /\ remove_init_file' = FALSE
           /\ call' = At("rotated", m, TRUE)
           /\ \E fs \in {Flushed, files} : OpenOk(LeaveFile(fs), Period(m.time), config.truncate)
  BY <1>1, <1>3, SinkItRotatesKeeps
<1>4. CASE /\ should_rotate(m) /\ OpenThrows(LeaveFile(Flushed), Period(m.time), config.truncate)
           /\ UNCHANGED <<call, mine, remove_init_file>>
  BY <1>1, <1>4, SinkItThrowsKeeps
<1>5. QED
  BY <1>2, <1>3, <1>4 DEF SinkIt, clear_remove_init_file, fileVars

(* The write: what is stored goes to the open file, which is the sink's.   *)
LEMMA WrittenFiles ==
    ASSUME Inv, NEW fs, NEW b \in Seq(Message), fs = files \/ (is_open /\ fs = Stored(b))
    PROVE  /\ DOMAIN fs = DOMAIN files /\ \A p \in DOMAIN fs : fs[p] \in Seq(Message)
           /\ \A p \in DOMAIN fs : (\A r \in mine : r < p) => fs[p] = files[p]
           /\ \A p \in DOMAIN fs : Ids(files[p]) \subseteq Ids(fs[p])
<1>1. CASE fs = files
  BY <1>1 DEF Inv, TypeOK
<1>2. CASE is_open /\ fs = Stored(b)
  <2>1. /\ DOMAIN fs = DOMAIN files
        /\ \A p \in DOMAIN files : /\ fs[p] \in Seq(Message)
                                   /\ p # filename \/ b = <<>> => fs[p] = files[p]
                                   /\ Ids(files[p]) \subseteq Ids(fs[p])
    BY <1>2, StoredFacts DEF Inv
  <2>2. filename \in mine /\ ~(filename < filename)
    BY <1>2, SMT DEF Inv, TypeOK, TimesOK
  <2>3. QED
    BY <2>1, <2>2
<1>3. QED
  BY <1>1, <1>2

LEMMA WriteKeeps == ASSUME Inv, Write PROVE Inv'
<1>1. /\ call.stage = "write"
      /\ UNCHANGED <<now, config, rotation_tp, filenames_q, remove_init_file, pending, logged, mine,
                     filename, is_open>>
  BY DEF Write, sinkVars, WriteOk, WriteStores, WriteIgnored, WriteThrows, fileVars
<1>2. PICK one, torn : one = Append(buf, call.msg) /\ torn = Append(buf, Torn(call.msg))
  OBVIOUS
<1>3. one \in Seq(Message) /\ torn \in Seq(Message) /\ buf \in Seq(Message)
  <2>1. call.msg \in Message /\ buf \in Seq(Message)
    BY DEF Inv, CallOK, TypeOK
  <2>2. Torn(call.msg) \in Message
    BY <2>1 DEF Torn, Message
  <2>3. QED
    BY <1>2, <2>1, <2>2, AppendProperties
<1>4. /\ files' = files \/ (is_open /\ files' = Stored(one))
      /\ buf' \in {buf, one, torn, <<>>} /\ (~is_open => buf' = buf)
  BY <1>2 DEF Write, WriteOk, WriteStores, WriteIgnored, WriteThrows, fileVars
<1>5. /\ DOMAIN files' = DOMAIN files /\ \A p \in DOMAIN files' : files'[p] \in Seq(Message)
      /\ \A p \in DOMAIN files' : (\A r \in mine : r < p) => files'[p] = files[p]
  <2>1. PICK fs : fs = files'
    OBVIOUS
  <2>2. QED
    BY <1>3, <1>4, <2>1, WrittenFiles
<1>6. \/ /\ call' = [call EXCEPT !.stage = "clean"] /\ call.should_rotate /\ config.max_files > 0
         /\ forgotten' = forgotten
      \/ /\ call' = Idle /\ ~(call.should_rotate /\ config.max_files > 0) /\ forgotten' = forgotten
      \/ /\ call' = Idle
         /\ forgotten' = IF call.should_rotate THEN forgotten \cup {filename} ELSE forgotten
  BY DEF Write
<1>7. \/ /\ call'.stage = "clean" /\ call'.should_rotate /\ call.should_rotate
         /\ config.max_files > 0 /\ forgotten' = forgotten
      \/ /\ call'.stage = "idle" /\ ~call'.should_rotate /\ forgotten \subseteq forgotten'
         /\ config.max_files > 0 /\ call.should_rotate => filename \in forgotten'
  BY <1>6, CallShapes DEF Inv, CallOK
<1>8. TypeOK'
  BY <1>1, <1>3, <1>4, <1>5, EmptyIds DEF Inv, TypeOK, Period
<1>9. CallOK'
  <2>1. /\ call' \in [stage : {"clean", "idle"}, msg : Message, should_rotate : BOOLEAN]
        /\ call'.msg.time <= now
    <3>1. Idle.msg.time <= now
      BY CallShapes, SMT DEF Inv, TypeOK
    <3>2. CASE call' = Idle
      BY <3>1, <3>2, CallShapes
    <3>3. CASE call' = [call EXCEPT !.stage = "clean"]
      BY <3>3 DEF Inv, CallOK
    <3>4. QED
      BY <1>6, <3>2, <3>3
  <2>2. QED
    BY <1>1, <1>7, <2>1 DEF CallOK
<1>10. TimesOK'
  BY <1>1, <1>7 DEF Inv, TimesOK, Scheduled, Rotating, Due, Period
<1>11. QueueOK'
  <2>1. CASE call'.stage = "clean"
    BY <1>1, <1>7, <2>1 DEF Inv, QueueOK, Settled, Rotating, Places, Due, Period
  <2>2. CASE call'.stage = "idle"
    <3>1. Len(filenames_q.items) >= 2 => filenames_q.items[1] < Due
      <4>1. CASE ~call.should_rotate
        BY <1>1, <4>1 DEF Inv, QueueOK, Settled
      <4>2. CASE call.should_rotate
        <5>1. filename \in Nat /\ filename <= Due /\ Due \in Nat
          BY <1>1, <4>2, PeriodProps, SMT DEF Inv, TypeOK, TimesOK, Rotating, Scheduled, Due
        <5>2. PICK i : i = filenames_q.items[1]
          OBVIOUS
        <5>3. Len(filenames_q.items) >= 2 => i < filename /\ i \in Nat
          <6>1. Len(filenames_q.items) \in Nat /\ filenames_q.items \in Seq(Nat)
            BY LenProperties DEF Inv, TypeOK
          <6>2. Len(filenames_q.items) >= 2 => 1 \in 1 .. Len(filenames_q.items)
            BY <6>1, SMT
          <6>3. QED
            BY <1>1, <4>2, <5>2, <6>1, <6>2, ElementOfSeq DEF Inv, QueueOK, Rotating
        <5>4. i < filename /\ i \in Nat => i < Due
          BY <5>1, SMT
        <5>5. QED
          BY <5>2, <5>3, <5>4
      <4>3. QED
        BY <4>1, <4>2
    <3>2. QED
      BY <1>1, <1>7, <2>2, <3>1 DEF Inv, QueueOK, Settled, Rotating, Places, Due, Period
  <2>3. QED
    BY <1>7, <2>1, <2>2
<1>12. RetentionOK'
  <2>1. \A p : Retained(p)' <=> Retained(p)
    BY <1>1, <1>5 DEF Retained, InQ, Places
  <2>2. ASSUME config.max_files > 0, Settled', NEW p \in mine \ forgotten' PROVE Retained(p)
    <3>1. call'.stage = "idle" /\ p \notin forgotten
      BY <1>7, <2>2 DEF Settled
    <3>2. CASE call.should_rotate
      BY <1>1, <1>7, <2>2, <3>1, <3>2 DEF Inv, RetentionOK, Rotating
    <3>3. CASE ~call.should_rotate
      BY <1>1, <2>2, <3>1, <3>3 DEF Inv, RetentionOK, Settled
    <3>4. QED
      BY <3>2, <3>3
  <2>3. ASSUME config.max_files > 0, Rotating', NEW p \in mine \ forgotten', p # filename
        PROVE  Retained(p)
    <3>1. call'.stage = "clean" /\ Rotating /\ p \in mine \ forgotten
      BY <1>1, <1>7, <2>3 DEF Rotating
    <3>2. QED
      BY <2>3, <3>1 DEF Inv, RetentionOK
  <2>4. QED
    BY <1>1, <2>1, <2>2, <2>3 DEF RetentionOK
<1>13. DiskOK'
  BY <1>1, <1>5 DEF Inv, DiskOK
<1>14. QED
  BY <1>8, <1>9, <1>10, <1>11, <1>12, <1>13 DEF Inv

(* The queue new is old, its front given up if it was full, and name.      *)
QueueAfter(old, new, max, name) ==
    /\ Len(new) <= max
    /\ \A k \in 1 .. Len(new) : new[k] = name \/ \E j \in 1 .. Len(old) : new[k] = old[j]
    /\ \E k \in 1 .. Len(new) : new[k] = name
    /\ \A j \in 1 .. Len(old) :
          (~(Len(old) < max) /\ j = 1) \/ (\E k \in 1 .. Len(new) : new[k] = old[j])
    /\ Len(new) >= 2 => \E j \in 1 .. Len(old) : new[1] = old[j]
    /\ ~(Len(old) < max) => 1 \in 1 .. Len(old) /\ Head(old) = old[1]

(* delete_old_: the queue after it, with the current file at its end.      *)
LEMMA PushedFacts ==
    ASSUME Inv, call.stage = "clean", delete_old,
           NEW old, old = filenames_q.items, NEW new, new = filenames_q'.items
    PROVE  /\ filenames_q' \in [cap : Int, items : Seq(Nat), overruns : Nat]
           /\ filenames_q'.cap = config.max_files /\ QueueAfter(old, new, config.max_files, filename)
<1>1. /\ config.max_files \in Nat /\ config.max_files > 0 /\ filenames_q.cap = config.max_files
      /\ filenames_q \in [cap : Int, items : Seq(Nat), overruns : Nat]
      /\ Len(filenames_q.items) <= config.max_files /\ filename \in Nat
  <2>1. config.max_files \in Nat /\ config.max_files > 0
    BY ConfigShape DEF Inv, TypeOK, CallOK
  <2>2. QED
    BY <2>1, SMT DEF Inv, TypeOK, QueueOK
<1>2. PICK cap : cap = filenames_q.cap
  OBVIOUS
<1>3. /\ old \in Seq(Nat) /\ Len(old) \in Nat /\ cap \in Nat /\ cap > 0 /\ Len(old) <= cap
      /\ cap = config.max_files
  BY <1>1, <1>2, LenProperties
<1> DEFINE full == ~(Len(old) < cap)
<1>4. PICK kept : kept = IF full THEN Tail(old) ELSE old
  OBVIOUS
<1>5. /\ kept \in Seq(Nat) /\ Len(kept) \in Nat /\ Len(kept) < cap
      /\ full => /\ Len(old) = cap /\ old # <<>> /\ Len(kept) = Len(old) - 1
                 /\ \A k \in 1 .. Len(kept) : kept[k] = old[k + 1]
  <2>1. CASE full
    <3>1. Len(old) = cap /\ old # <<>>
      <4>1. Len(old) = cap /\ Len(old) # 0
        BY <1>3, <2>1, SMT
      <4>2. QED
        BY <4>1, EmptySeq
    <3>2. /\ Tail(old) \in Seq(Nat) /\ Len(Tail(old)) = Len(old) - 1
          /\ \A k \in 1 .. Len(Tail(old)) : Tail(old)[k] = old[k + 1]
      BY <1>3, <3>1, HeadTailProperties
    <3>3. QED
      BY <1>3, <1>4, <2>1, <3>1, <3>2, SMT
  <2>2. CASE ~full
    BY <1>3, <1>4, <2>2, SMT
  <2>3. QED
    BY <2>1, <2>2
<1>6. PICK pushed : pushed = Append(kept, filename)
  OBVIOUS
<1>7. /\ pushed \in Seq(Nat) /\ Len(pushed) = Len(kept) + 1 /\ pushed[Len(kept) + 1] = filename
      /\ \A k \in 1 .. Len(kept) : pushed[k] = kept[k]
  BY <1>1, <1>5, <1>6, AppendProperties
<1>8. filenames_q' = [cap |-> cap, items |-> pushed, overruns |-> filenames_q.overruns + 0]
  <2>1. PICK kq : kq = [filenames_q EXCEPT !.items = kept]
    OBVIOUS
  <2>2. kq.items = kept /\ kq.cap = cap /\ kq.overruns = filenames_q.overruns /\ cap # DisabledCap
    <3>1. cap # DisabledCap
      BY <1>3, SMT DEF DisabledCap
    <3>2. QED
      BY <1>1, <1>2, <2>1, <3>1
  <2>3. filenames_q' = Pushed(kq, filename)
    <3>1. full <=> ~HasRoom(filenames_q.items, filenames_q.cap)
      BY <1>2 DEF HasRoom
    <3>2. QED
      BY <1>1, <1>2, <1>4, <2>1, <3>1 DEF delete_old
  <2>4. HasRoom(kept, cap)
    BY <1>5 DEF HasRoom
  <2>5. QED
    BY <1>6, <2>2, <2>3, <2>4 DEF Pushed, PushItems, PushLoses
<1>9. /\ filenames_q' \in [cap : Int, items : Seq(Nat), overruns : Nat]
      /\ filenames_q'.cap = config.max_files /\ new = pushed
  <2>1. filenames_q.overruns + 0 \in Nat /\ cap \in Int
    BY <1>1, <1>3, SMT
  <2>2. QED
    BY <1>3, <1>7, <1>8, <2>1
<1>10. \A k \in 1 .. Len(kept) : \E j \in 1 .. Len(old) : kept[k] = old[j]
  <2>1. CASE full
    <3>1. \A k \in 1 .. Len(kept) : k + 1 \in 1 .. Len(old)
      BY <1>3, <1>5, <2>1, SMT
    <3>2. QED
      BY <1>5, <2>1, <3>1
  <2>2. CASE ~full
    BY <1>4, <2>2
  <2>3. QED
    BY <2>1, <2>2
<1>11. \A j \in 1 .. Len(old) : (full /\ j = 1) \/ \E k \in 1 .. Len(kept) : kept[k] = old[j]
  <2>1. CASE full
    <3>1. \A j \in 1 .. Len(old) : j # 1 => j - 1 \in 1 .. Len(kept) /\ (j - 1) + 1 = j
      BY <1>3, <1>5, <2>1, SMT
    <3>2. ASSUME NEW j \in 1 .. Len(old), j # 1 PROVE \E k \in 1 .. Len(kept) : kept[k] = old[j]
      <4>1. PICK k \in 1 .. Len(kept) : k + 1 = j
        BY <3>1, <3>2
      <4>2. QED
        BY <1>5, <2>1, <4>1
    <3>3. QED
      BY <2>1, <3>2
  <2>2. CASE ~full
    BY <1>4, <2>2
  <2>3. QED
    BY <2>1, <2>2
<1>12. /\ \A k \in 1 .. Len(new) : k \in 1 .. Len(kept) \/ k = Len(kept) + 1
       /\ \A k \in 1 .. Len(kept) : k \in 1 .. Len(new)
       /\ Len(kept) + 1 \in 1 .. Len(new) /\ Len(new) <= cap
       /\ Len(new) >= 2 => 1 \in 1 .. Len(kept)
  BY <1>3, <1>5, <1>7, <1>9, SMT
<1>13. full => 1 \in 1 .. Len(old) /\ Head(old) = old[1]
  <2>1. full => 1 \in 1 .. Len(old)
    BY <1>3, <1>5, SMT
  <2>2. QED
    BY <1>3, <1>5, <2>1, HeadTailProperties
<1>14. \A k \in 1 .. Len(new) : new[k] = filename \/ \E j \in 1 .. Len(old) : new[k] = old[j]
  <2> SUFFICES ASSUME NEW k \in 1 .. Len(new)
               PROVE  new[k] = filename \/ \E j \in 1 .. Len(old) : new[k] = old[j]
    OBVIOUS
  <2>1. CASE k = Len(kept) + 1
    BY <1>7, <1>9, <2>1
  <2>2. CASE k \in 1 .. Len(kept)
    BY <1>7, <1>9, <1>10, <2>2
  <2>3. QED
    BY <1>12, <2>1, <2>2
<1>15. /\ \E k \in 1 .. Len(new) : new[k] = filename
       /\ Len(new) >= 2 => \E j \in 1 .. Len(old) : new[1] = old[j]
  <2>1. new[Len(kept) + 1] = filename /\ Len(kept) + 1 \in 1 .. Len(new)
    BY <1>7, <1>9, <1>12
  <2>2. ASSUME 1 \in 1 .. Len(kept) PROVE \E j \in 1 .. Len(old) : new[1] = old[j]
    BY <1>7, <1>9, <1>10, <2>2
  <2>3. QED
    BY <1>12, <2>1, <2>2
<1>16. \A j \in 1 .. Len(old) :
          (~(Len(old) < cap) /\ j = 1) \/ (\E k \in 1 .. Len(new) : new[k] = old[j])
  BY <1>7, <1>9, <1>11, <1>12
<1>17. QED
  BY <1>3, <1>9, <1>12, <1>13, <1>14, <1>15, <1>16 DEF QueueAfter

LEMMA DeleteOldKeeps == ASSUME Inv, delete_old PROVE Inv'
<1>1. /\ call.stage = "clean" /\ call' = Idle
      /\ UNCHANGED <<buf, filename, is_open, now, config, rotation_tp, remove_init_file, pending,
                     logged, mine>>
  BY DEF delete_old
<1>2. PICK old, new : old = filenames_q.items /\ new = filenames_q'.items
  OBVIOUS
<1>3. /\ filenames_q' \in [cap : Int, items : Seq(Nat), overruns : Nat]
      /\ filenames_q'.cap = config.max_files /\ Len(new) <= config.max_files
      /\ \A k \in 1 .. Len(new) : new[k] = filename \/ \E j \in 1 .. Len(old) : new[k] = old[j]
      /\ \E k \in 1 .. Len(new) : new[k] = filename
      /\ \A j \in 1 .. Len(old) :
            (~(Len(old) < config.max_files) /\ j = 1) \/ (\E k \in 1 .. Len(new) : new[k] = old[j])
      /\ Len(new) >= 2 => \E j \in 1 .. Len(old) : new[1] = old[j]
      /\ ~(Len(old) < config.max_files) => 1 \in 1 .. Len(old) /\ Head(old) = old[1]
  <2>1. /\ filenames_q' \in [cap : Int, items : Seq(Nat), overruns : Nat]
        /\ filenames_q'.cap = config.max_files /\ QueueAfter(old, new, config.max_files, filename)
    BY <1>1, <1>2, PushedFacts
  <2>2. QED
    BY <2>1 DEF QueueAfter
<1>4. /\ is_open /\ filename \in mine /\ \A p \in mine : p <= filename
      /\ mine \subseteq Nat /\ config.max_files > 0 /\ filenames_q.cap = config.max_files
      /\ \A j \in 1 .. Len(old) : old[j] \in mine
      /\ \A p \in mine : p <= Due
      /\ rotation_tp = Due * TicksPerPeriod + config.offset
  <2>1. call.should_rotate /\ config.max_files > 0
    BY <1>1 DEF Inv, CallOK
  <2>2. mine \subseteq Nat
    BY SMT DEF Inv, TypeOK
  <2>3. QED
    BY <1>1, <1>2, <2>1, <2>2 DEF Inv, TimesOK, QueueOK, Rotating, Scheduled, Places
<1>5. \/ files' = IF ~(Len(old) < config.max_files) THEN Without(files, Head(old)) ELSE files
      \/ /\ files' = files /\ ~(Len(old) < config.max_files) /\ Head(old) \in forgotten'
  BY <1>2, <1>4 DEF delete_old, HasRoom
<1>6. forgotten \subseteq forgotten'
  BY DEF delete_old
<1>7. /\ DOMAIN files' \subseteq DOMAIN files /\ \A p \in DOMAIN files' : files'[p] = files[p]
      /\ ~(Len(old) < config.max_files) => Head(old) \in forgotten' \/ Head(old) \notin DOMAIN files'
  <2>1. /\ DOMAIN Without(files, Head(old)) = DOMAIN files \ {Head(old)}
        /\ \A p \in DOMAIN files \ {Head(old)} : Without(files, Head(old))[p] = files[p]
    BY DEF Without, Restrict
  <2>2. QED
    BY <1>5, <2>1
<1>8. /\ call'.stage = "idle" /\ call'.should_rotate = FALSE /\ call'.msg.time = 0 /\ 0 <= now
      /\ call' \in [stage : {"idle"}, msg : Message, should_rotate : BOOLEAN]
  BY <1>1, CallShapes, SMT DEF Inv, TypeOK
<1>9. TypeOK'
  BY <1>1, <1>3, <1>7 DEF Inv, TypeOK, Period
<1>10. CallOK'
  BY <1>1, <1>8 DEF CallOK
<1>11. TimesOK'
  BY <1>1, <1>8 DEF Inv, TimesOK, Scheduled, Rotating, Due, Period
<1>12. QueueOK'
  <2>1. Len(new) >= 2 => new[1] < Due
    <3>1. SUFFICES ASSUME Len(new) >= 2 PROVE new[1] < Due
      OBVIOUS
    <3>2. PICK j \in 1 .. Len(old) : new[1] = old[j]
      BY <1>3, <3>1
    <3>3. PICK i \in Nat : i = old[j]
      BY <1>4
    <3>4. filename \in Nat /\ filename <= Due /\ Due \in Nat /\ i <= filename
      BY <1>4, <3>3, PeriodProps DEF Inv, TypeOK, Due
    <3>5. i < filename \/ filename < Due
      BY <1>1, <1>2, <3>3 DEF Inv, QueueOK, CallOK, Rotating, Places
    <3>6. i < Due
      BY <3>4, <3>5, SMT
    <3>7. QED
      BY <3>2, <3>3, <3>6
  <2>2. \A k \in 1 .. Len(new) : new[k] \in mine
    BY <1>3, <1>4
  <2>3. QED
    BY <1>1, <1>2, <1>3, <1>8, <2>1, <2>2 DEF QueueOK, Places, Settled, Rotating, Due, Period
<1>13. RetentionOK'
  <2>1. Rotating /\ ~Rotating'
    BY <1>1, <1>8 DEF Rotating, Inv, CallOK
  <2>2. ASSUME NEW p \in mine \ forgotten' PROVE Retained(p)'
    <3>1. p = filename \/ InQ(p) \/ (p \notin DOMAIN files /\ \E r \in mine : p < r)
      BY <1>4, <1>6, <2>1, <2>2 DEF Inv, RetentionOK, Retained
    <3>2. CASE p = filename
      BY <1>2, <1>3, <3>2 DEF Retained, InQ, Places
    <3>3. CASE p # filename /\ InQ(p)
      <4>1. PICK j \in 1 .. Len(old) : old[j] = p
        BY <1>2, <3>3 DEF InQ, Places
      <4>2. CASE \E k \in 1 .. Len(new) : new[k] = old[j]
        BY <1>2, <4>1, <4>2 DEF Retained, InQ, Places
      <4>3. CASE ~(Len(old) < config.max_files) /\ j = 1
        <5>1. p = Head(old) /\ p \notin DOMAIN files'
          BY <1>3, <1>7, <2>2, <4>1, <4>3
        <5>2. p < filename
          BY <1>4, <2>2, <3>3, SMT
        <5>3. QED
          BY <1>1, <1>4, <5>1, <5>2 DEF Retained
      <4>4. QED
        BY <1>3, <4>2, <4>3
    <3>4. CASE p \notin DOMAIN files /\ \E r \in mine : p < r
      BY <1>1, <1>7, <3>4 DEF Retained
    <3>5. QED
      BY <3>1, <3>2, <3>3, <3>4
  <2>3. QED
    BY <1>1, <2>1, <2>2 DEF RetentionOK
<1>14. DiskOK'
  BY <1>1, <1>7, <1>8 DEF Inv, DiskOK, Exists
<1>15. QED
  BY <1>9, <1>10, <1>11, <1>12, <1>13, <1>14 DEF Inv

LEMMA FlushKeeps == ASSUME Inv, Flush PROVE Inv'
<1>1. /\ call = Idle /\ call.stage = "idle" /\ files' \in {files, Flushed} /\ buf' \in {buf, <<>>}
      /\ UNCHANGED <<filename, is_open, now, config, rotation_tp, filenames_q, remove_init_file,
                     call, pending, logged, mine, forgotten>>
  BY CallShapes DEF Flush, FlushOk, FlushThrows, sinkVars
<1>2. PICK fs : fs = files'
  OBVIOUS
<1>3. /\ DOMAIN fs = DOMAIN files
      /\ \A p \in DOMAIN files : /\ fs[p] \in Seq(Message)
                                 /\ p # filename \/ buf = <<>> => fs[p] = files[p]
  <2>1. CASE fs = Flushed
    BY <2>1, StoredFacts DEF Flushed, Inv, TypeOK
  <2>2. CASE fs = files
    BY <2>2 DEF Inv, TypeOK
  <2>3. QED
    BY <1>1, <1>2, <2>1, <2>2
<1>4. TypeOK'
  BY <1>1, <1>2, <1>3, EmptyIds DEF Inv, TypeOK, Period
<1>5. CallOK' /\ TimesOK'
  BY <1>1, <1>2, <1>3 DEF Inv, CallOK, TimesOK, Scheduled, Rotating, Due, Period
<1>6. QueueOK' /\ RetentionOK'
  BY <1>1, <1>2, <1>3 DEF Inv, QueueOK, RetentionOK, Retained, InQ, Places, Settled, Rotating, Due, Period
<1>7. DiskOK'
  <2>1. \A p \in DOMAIN files : (\A r \in mine : r < p) => p # filename \/ buf = <<>>
    <3>1. ~(filename < filename)
      BY SMT DEF Inv, TypeOK
    <3>2. QED
      BY <3>1 DEF Inv, TypeOK, TimesOK
  <2>2. QED
    BY <1>1, <1>2, <1>3, <2>1 DEF Inv, DiskOK, Exists
<1>8. QED
  BY <1>4, <1>5, <1>6, <1>7 DEF Inv

LEMMA EndKeeps == ASSUME Inv, Destroy \/ Crash PROVE Inv'
<1>1. /\ call' = NoSink /\ filenames_q' = DisabledFifo /\ is_open' = FALSE /\ buf' = <<>> /\ filename' = 0
      /\ now' = now /\ config' = config /\ rotation_tp' = 0 /\ logged' = logged /\ mine' = {}
      /\ files' \in {Flushed, files}
      /\ pending' \subseteq pending
  BY DEF Destroy, Crash, Gone
<1>2. /\ DOMAIN files' \subseteq 0 .. Period(now) /\ \A p \in DOMAIN files' : files'[p] \in Seq(Message)
  <2>1. PICK fs : fs = files'
    OBVIOUS
  <2>2. CASE fs = Flushed
    BY <2>1, <2>2, StoredFacts DEF Flushed, Inv, TypeOK
  <2>3. CASE fs = files
    BY <2>1, <2>3 DEF Inv, TypeOK
  <2>4. QED
    BY <1>1, <2>1, <2>2, <2>3
<1>3. 0 \in Nat /\ 0 \in 0 .. Period(now) /\ config \in Configs
  <2>1. Period(now) \in Nat /\ config \in Configs
    BY PeriodProps DEF Inv, TypeOK
  <2>2. QED
    BY <2>1, SMT
<1>4. QED
  BY <1>1, <1>2, <1>3, GoneKeeps

LEMMA NextKeepsInv == ASSUME Inv, [Next]_vars PROVE Inv'
<1>1. CASE UNCHANGED vars
  BY <1>1 DEF vars, fileVars, sinkVars, Inv, TypeOK, CallOK, TimesOK, QueueOK, RetentionOK, DiskOK,
              Scheduled, Rotating, Settled, Due, Places, Retained, InQ, Exists, Period
<1>2. QED
  BY <1>1, TickKeeps, LogKeeps, ConstructKeeps, ScheduleKeeps, InitQueueKeeps, SinkItKeeps, WriteKeeps,
     DeleteOldKeeps, FlushKeeps, EndKeeps DEF Next

LEMMA InitInv == Init => Inv
<1> SUFFICES ASSUME Init PROVE Inv
  OBVIOUS
<1>1. /\ DOMAIN files = {} /\ buf = <<>> /\ filename = 0 /\ ~is_open /\ now = 0 /\ config \in Configs
      /\ rotation_tp = 0 /\ filenames_q = DisabledFifo /\ ~remove_init_file /\ call = NoSink
      /\ pending = {} /\ logged = 0 /\ mine = {}
  <2>1. DOMAIN << >> = {}
    BY EmptySeq, LenProperties, SMT
  <2>2. QED
    BY <2>1 DEF Init
<1>2. 0 \in Nat /\ 0 <= 0 /\ 0 \in 0 .. Period(0)
  <2>1. Period(0) \in Nat
    BY PeriodProps, SMT
  <2>2. QED
    BY <2>1, SMT
<1>3. TypeOK
  BY <1>1, <1>2, NoSinkFifo, EmptyIds DEF TypeOK
<1>4. CallOK /\ TimesOK /\ RetentionOK /\ DiskOK
  BY <1>1, <1>2, CallShapes DEF CallOK, TimesOK, RetentionOK, DiskOK, Scheduled, Rotating, Settled
<1>5. QueueOK
  <2>1. ~(Len(filenames_q.items) >= 2) /\ \A k \in 1 .. Len(filenames_q.items) : FALSE
    BY <1>1, NoSinkFifo, SMT
  <2>2. QED
    BY <1>1, <2>1, CallShapes, NoSinkFifo DEF QueueOK, Places, Rotating
<1>6. QED
  BY <1>3, <1>4, <1>5 DEF Inv

LEMMA Invariance == Spec => []Inv
<1>1. Inv /\ [Next]_vars => Inv'
  BY NextKeepsInv
<1>2. QED
  BY <1>1, InitInv, PTL DEF Spec

(* A daily or hourly sink never goes back to the file of an earlier        *)
(* period, however late and in whatever order messages reach sink_it_.     *)
THEOREM NeverBack == Spec => []NeverBackInTime
<1>1. Inv => NeverBackInTime
  <2> SUFFICES ASSUME Inv, is_open, NEW p \in mine PROVE filename >= p
    BY DEF NeverBackInTime
  <2>1. p <= filename
    BY DEF Inv, TimesOK
  <2>2. p \in Nat /\ filename \in Nat
    BY SMT DEF Inv, TypeOK
  <2>3. QED
    BY <2>1, <2>2, SMT
<1>2. QED
  BY <1>1, Invariance, PTL

(* A sequence of n items holds at most n different ones.                   *)
LEMMA AtMostLen ==
    ASSUME NEW s \in Seq(Nat), NEW K, \A p \in K : \E k \in 1 .. Len(s) : s[k] = p
    PROVE  Cardinality(K) <= Len(s) /\ Cardinality(K) \in Nat
<1>1. PICK R : R = {s[k] : k \in 1 .. Len(s)}
  OBVIOUS
<1>2. Len(s) \in Nat /\ s \in [1 .. Len(s) -> Nat]
  BY LenProperties
<1>3. s \in Surjection(1 .. Len(s), R)
  <2>1. s \in [1 .. Len(s) -> R] /\ \A t \in R : \E k \in 1 .. Len(s) : s[k] = t
    BY <1>1, <1>2
  <2>2. QED
    BY <2>1 DEF Surjection
<1>4. IsFiniteSet(1 .. Len(s))
  BY <1>2, FS_Interval, SMT
<1>5. IsFiniteSet(R) /\ Cardinality(R) <= Len(s)
  BY <1>2, <1>3, <1>4, FS_Surjection, FS_SurjCardinalityBound DEF ExistsSurjection
<1>6. K \in SUBSET R
  BY <1>1
<1>7. IsFiniteSet(K) /\ Cardinality(K) <= Cardinality(R)
  BY <1>5, <1>6, FS_Subset
<1>8. Cardinality(K) \in Nat /\ Cardinality(R) \in Nat
  BY <1>5, <1>7, FS_CardinalityType
<1>9. QED
  BY <1>2, <1>5, <1>7, <1>8, SMT

(* delete_old_ keeps the promise of max_files_: between two calls at most  *)
(* that many of the sink's files exist, those not counted that the queue   *)
(* filenames_q_ was never told of or could not delete.                     *)
THEOREM RetentionIsBounded == Spec => []RetentionBound
<1>1. Inv => RetentionBound
  <2> SUFFICES ASSUME Inv, call = Idle, config.max_files > 0
               PROVE  Cardinality((mine \ forgotten) \cap DOMAIN files) <= config.max_files
    BY DEF RetentionBound
  <2>1. PICK s, K : s = filenames_q.items /\ K = (mine \ forgotten) \cap DOMAIN files
    OBVIOUS
  <2>2. call.stage = "idle"
    BY CallShapes
  <2>3. \A p \in K : \E k \in 1 .. Len(s) : s[k] = p
    BY <2>1, <2>2 DEF Inv, RetentionOK, Settled, Retained, InQ, Places
  <2>4. /\ s \in Seq(Nat) /\ Len(s) <= config.max_files /\ Len(s) \in Nat /\ config.max_files \in Nat
    BY <2>1, <2>2, LenProperties, ConfigShape DEF Inv, TypeOK, QueueOK
  <2>5. Cardinality(K) <= Len(s) /\ Cardinality(K) \in Nat
    BY <2>3, <2>4, AtMostLen
  <2>6. Cardinality(K) <= config.max_files
    BY <2>4, <2>5, SMT
  <2>7. QED
    BY <2>1, <2>6
<1>2. QED
  BY <1>1, Invariance, PTL
-----------------------------------------------------------------------------
(* Which messages leave the disk.                                          *)
LEMMA OnDiskIs ==
    ASSUME NEW fs, NEW id
    PROVE  id \in OnDisk(fs) <=> \E p \in DOMAIN fs : id \in Ids(fs[p])
BY DEF OnDisk

(* A rotation deletes nothing: the file it truncates is a new one.         *)
LEMMA RotationDeletesNothing ==
    ASSUME Inv, NoCollision(config), call = Idle, NEW m \in pending, should_rotate(m),
           NEW fs \in {Flushed, files}, NEW id \in OnDisk(files), NEW truncate \in BOOLEAN,
           truncate => config.truncate
    PROVE  /\ id \in OnDisk(LeaveFile(fs))
           /\ id \in OnDisk(Opened(LeaveFile(fs), Period(m.time), truncate))
<1>1. PICK P, left : P = Period(m.time) /\ left = LeaveFile(fs)
  OBVIOUS
<1>2. /\ call.stage = "idle"
      /\ \A p \in mine : p <= P /\ (config.offset = 0 => p < P)
  BY <1>1, RotationFacts
<1>3. /\ \A p \in DOMAIN left : (\A r \in mine : r < p) => left[p] = <<>>
      /\ \A p \in DOMAIN files : id \in Ids(files[p]) => p \in DOMAIN left /\ id \in Ids(left[p])
  BY <1>1, <1>2, LeaveFacts
<1>4. PICK p \in DOMAIN left : id \in Ids(left[p])
  BY <1>3, OnDiskIs
<1>5. truncate => p # P
  <2>1. truncate => config.offset = 0
    BY DEF NoCollision
  <2>2. QED
    BY <1>2, <1>3, <1>4, <2>1, EmptyIds
<1>6. PICK r : r = Opened(left, P, truncate)
  OBVIOUS
<1>7. p \in DOMAIN r /\ r[p] = left[p]
  BY <1>4, <1>5, <1>6 DEF Opened, Exists, With
<1>8. id \in OnDisk(left) /\ id \in OnDisk(r)
  BY <1>4, <1>7, OnDiskIs
<1>9. QED
  BY <1>1, <1>6, <1>8

LEMMA SinkItDeletesNothing ==
    ASSUME Inv, NoCollision(config), NEW m \in pending, SinkIt(m), NEW id \in OnDisk(files)
    PROVE  id \in OnDisk(files')
<1>1. call = Idle /\ config.truncate \in BOOLEAN
  BY ConfigShape DEF SinkIt, Inv, TypeOK
<1>2. CASE files' = files
  BY <1>2
<1>3. CASE /\ should_rotate(m)
           /\ \E fs \in {Flushed, files} : files' = Opened(LeaveFile(fs), Period(m.time), config.truncate)
  BY <1>1, <1>3, RotationDeletesNothing
<1>4. CASE /\ should_rotate(m)
           /\ \/ files' = LeaveFile(Flushed)
              \/ config.truncate /\ files' = Opened(LeaveFile(Flushed), Period(m.time), TRUE)
  BY <1>1, <1>4, RotationDeletesNothing
<1>5. QED
  BY <1>2, <1>3, <1>4 DEF SinkIt, OpenOk, OpenThrows, fileVars

(* The front of the full queue is not the current file.                    *)
LEMMA CleanDeletes ==
    ASSUME Inv, NoCollision(config), delete_old, NEW id \in OnDisk(files), id \notin OnDisk(files')
    PROVE  /\ call.stage = "clean" /\ Head(filenames_q.items) # filename
           /\ id \in Ids(files[Head(filenames_q.items)])
<1>1. call.stage = "clean" /\ call.should_rotate /\ config.max_files > 0 /\ config.max_files \in Nat
  BY ConfigShape DEF delete_old, Inv, CallOK, TypeOK
<1>2. PICK old, new : old = filenames_q.items /\ new = filenames_q'.items
  OBVIOUS
<1>3. QueueAfter(old, new, config.max_files, filename) /\ filenames_q.cap = config.max_files
  BY <1>1, <1>2, PushedFacts DEF Inv, QueueOK
<1>4. ~(Len(old) < config.max_files) /\ files' = Without(files, Head(old))
  BY <1>2, <1>3 DEF delete_old, HasRoom
<1>5. 1 \in 1 .. Len(old) /\ Head(old) = old[1]
  BY <1>3, <1>4 DEF QueueAfter
<1>6. id \in Ids(files[Head(old)])
  <2>1. PICK p \in DOMAIN files : id \in Ids(files[p])
    BY OnDiskIs
  <2>2. /\ DOMAIN Without(files, Head(old)) = DOMAIN files \ {Head(old)}
        /\ \A n \in DOMAIN files \ {Head(old)} : Without(files, Head(old))[n] = files[n]
    BY DEF Without, Restrict
  <2>3. p = Head(old)
    BY <1>4, <2>1, <2>2, OnDiskIs
  <2>4. QED
    BY <2>1, <2>3
<1>7. old[1] < filename
  <2>1. CASE config.offset = 0
    BY <1>1, <1>2, <1>5, <2>1 DEF Inv, QueueOK, Rotating, Places
  <2>2. CASE config.max_files # 1
    <3>1. Len(old) >= 2
      <4>1. Len(old) \in Nat
        BY <1>2, LenProperties DEF Inv, TypeOK
      <4>2. QED
        BY <1>1, <1>4, <2>2, <4>1, SMT
    <3>2. QED
      BY <1>1, <1>2, <3>1 DEF Inv, QueueOK, Rotating
  <2>3. QED
    BY <2>1, <2>2 DEF NoCollision
<1>8. old[1] # filename
  <2>1. ~(filename < filename)
    BY SMT DEF Inv, TypeOK
  <2>2. QED
    BY <1>7, <2>1
<1>9. QED
  BY <1>1, <1>2, <1>5, <1>6, <1>8

LEMMA OthersDeleteNothing ==
    ASSUME Inv, NEW id \in OnDisk(files),
           \/ Tick \/ Log \/ Schedule \/ init_filenames_q \/ Write \/ Flush \/ Destroy \/ Crash
           \/ UNCHANGED vars
    PROVE  id \in OnDisk(files')
<1>1. PICK one : one = Append(buf, call.msg)
  OBVIOUS
<1>2. one \in Seq(Message) /\ buf \in Seq(Message)
  <2>1. call.msg \in Message /\ buf \in Seq(Message)
    BY DEF Inv, CallOK, TypeOK
  <2>2. QED
    BY <1>1, <2>1, AppendProperties
<1>3. files' \in {files, Stored(buf), Stored(one)}
  BY <1>1 DEF Tick, Log, Schedule, init_filenames_q, Write, WriteOk, WriteStores, WriteIgnored,
              WriteThrows, Flush, FlushOk, FlushThrows, Flushed, Destroy, Crash, vars, fileVars
<1>4. PICK p \in DOMAIN files : id \in Ids(files[p])
  BY OnDiskIs
<1>5. ASSUME NEW b \in Seq(Message) PROVE id \in OnDisk(Stored(b))
  <2>1. PICK r : r = Stored(b)
    OBVIOUS
  <2>2. DOMAIN r = DOMAIN files /\ Ids(files[p]) \subseteq Ids(r[p])
    BY <2>1, StoredFacts DEF Inv
  <2>3. QED
    BY <1>4, <2>1, <2>2, OnDiskIs
<1>6. QED
  BY <1>2, <1>3, <1>5

(* While a sink is in use a message leaves the disk only with the front of *)
(* a full filenames_q_, which is never the file being written: not by the  *)
(* truncation of a file at its rotation, and not by remove_init_file_.     *)
THEOREM OldFilesDeletedOnly == Spec => OnlyOldFilesDeleted
<1>1. ASSUME Inv, [Next]_vars, NoCollision(config), call # NoSink,
             NEW id \in OnDisk(files) \ OnDisk(files)'
      PROVE  /\ call.stage = "clean" /\ Head(filenames_q.items) # filename
             /\ id \in Ids(files[Head(filenames_q.items)])
  <2>1. id \in OnDisk(files) /\ id \notin OnDisk(files')
    BY <1>1 DEF OnDisk, Ids
  <2>2. delete_old
    <3>1. ~(\E c \in Configs : Construct(c))
      BY <1>1 DEF Construct
    <3>2. QED
      BY <1>1, <2>1, <3>1, SinkItDeletesNothing, OthersDeleteNothing DEF Next
  <2>3. QED
    BY <1>1, <2>1, <2>2, CleanDeletes
<1>2. Inv /\ [Next]_vars =>
         [(NoCollision(config) /\ call # NoSink) =>
             \A id \in OnDisk(files) \ OnDisk(files)' :
                 /\ call.stage = "clean"
                 /\ Head(filenames_q.items) # filename
                 /\ id \in Ids(files[Head(filenames_q.items)])]_vars
  BY <1>1
<1>3. QED
  BY <1>2, Invariance, PTL DEF Spec, OnlyOldFilesDeleted
=============================================================================
