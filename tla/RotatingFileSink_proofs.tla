---------------------- MODULE RotatingFileSink_proofs ----------------------
(***************************************************************************)
(* The rotating file sink for any sizes, limits and number of messages,    *)
(* through failures, crashes and restarts: the files stay in the order the *)
(* messages were logged, only the oldest file is ever given up, and no     *)
(* write takes a file with messages past the limit.                        *)
(***************************************************************************)
EXTENDS RotatingFileSink, SequenceTheorems, WellFoundedInduction, TLAPS

Message == [id : Nat, size : Nat, torn : BOOLEAN]

(* Orders on the messages of files.                                        *)
Increasing(s) == \A a, b \in 1 .. Len(s) : a < b => s[a].id < s[b].id
Older(s, u) == \A a \in 1 .. Len(s), b \in 1 .. Len(u) : s[a].id < u[b].id
Below(s, n) == \A a \in 1 .. Len(s) : s[a].id < n

(* The files fs and the buffer b hold messages with ids below n, a larger  *)
(* index the older ones, the buffer the youngest.                          *)
FilesOK(fs, n) ==
    /\ DOMAIN fs \subseteq Nat
    /\ \A i \in DOMAIN fs : fs[i] \in Seq(Message) /\ Increasing(fs[i]) /\ Below(fs[i], n)
    /\ \A i, j \in DOMAIN fs : i < j => Older(fs[j], fs[i])
StoreOK(fs, b, n) ==
    /\ FilesOK(fs, n)
    /\ b \in Seq(Message) /\ Increasing(b) /\ Below(b, n)
    /\ \A i \in DOMAIN fs : Older(fs[i], b)

(* The id of the next message to be written.                               *)
NewId == IF call.op = "sink_it" THEN logged ELSE logged + 1

(* rotate_() has moved every file below max_files_ that it has passed.     *)
CallOK == /\ DOMAIN call = {"op", "stage", "i", "msg", "new_size"}
          /\ call.op \in {"no_sink", "idle", "construct", "sink_it", "rotate_now"}
          /\ call.stage \in {"done", "rotate", "write"}
          /\ call.i \in Nat /\ call.msg \in Message
          /\ call.op = "sink_it" => call.msg.id = logged
          /\ call.stage = "write" => call.op = "sink_it"
RotationOK == call.stage = "rotate" =>
                 call.i <= max_files /\ (call.i < max_files => ~Exists(files, call.i))

(* The inductive invariant.                                                *)
TypeOK == filename = 0 /\ max_files \in Nat /\ logged \in Nat /\ CallOK
Inv == TypeOK /\ RotationOK /\ StoreOK(files, buf, NewId)
-----------------------------------------------------------------------------
(* What the operations on files and buffer keep.                           *)
LEMMA EmptyOK ==
    /\ <<>> \in Seq(Message) /\ Len(<<>>) = 0
    /\ Increasing(<<>>) /\ \A n : Below(<<>>, n)
    /\ \A s : Older(s, <<>>) /\ Older(<<>>, s)
<1>1. <<>> \in Seq(Message) /\ Len(<<>>) = 0
  BY EmptySeq
<1>2. \A a \in 1 .. Len(<<>>) : FALSE
  BY <1>1, SMT
<1>3. QED
  BY <1>1, <1>2 DEF Increasing, Below, Older

LEMMA MessageIds ==
    ASSUME NEW s \in Seq(Message)
    PROVE  Len(s) \in Nat /\ \A a \in 1 .. Len(s) : s[a] \in Message /\ s[a].id \in Nat
<1>1. Len(s) \in Nat /\ \A a \in 1 .. Len(s) : s[a] \in Message
  BY LenProperties, ElementOfSeq
<1>2. QED
  BY <1>1 DEF Message

LEMMA BufferDropped ==
    ASSUME NEW fs, NEW b, NEW n, StoreOK(fs, b, n)
    PROVE  StoreOK(fs, <<>>, n)
BY EmptyOK DEF StoreOK

LEMMA BoundRaised ==
    ASSUME NEW fs, NEW b, NEW n \in Nat, NEW k \in Nat, StoreOK(fs, b, n), n <= k
    PROVE  StoreOK(fs, b, k)
<1>1. ASSUME NEW s \in Seq(Message), Below(s, n) PROVE Below(s, k)
  <2> SUFFICES ASSUME NEW a \in 1 .. Len(s) PROVE s[a].id < k
    BY DEF Below
  <2>1. s[a].id \in Nat /\ s[a].id < n
    BY <1>1, MessageIds DEF Below
  <2>2. QED
    BY <2>1, SMT
<1>2. QED
  BY <1>1 DEF StoreOK, FilesOK

LEMMA WithoutOK ==
    ASSUME NEW fs, NEW b, NEW n, NEW name, StoreOK(fs, b, n)
    PROVE  StoreOK(Without(fs, name), b, n)
<1>1. /\ DOMAIN Without(fs, name) = DOMAIN fs \ {name}
      /\ \A i \in DOMAIN fs \ {name} : Without(fs, name)[i] = fs[i]
  BY DEF Without, Restrict
<1>2. QED
  BY <1>1 DEF StoreOK, FilesOK

LEMMA TruncatedOK ==
    ASSUME NEW fs, NEW b, NEW n, NEW name \in Nat, StoreOK(fs, b, n)
    PROVE  StoreOK(With(fs, name, <<>>), b, n)
<1>1. /\ DOMAIN With(fs, name, <<>>) = DOMAIN fs \cup {name}
      /\ With(fs, name, <<>>)[name] = <<>>
      /\ \A i \in DOMAIN fs : i # name => With(fs, name, <<>>)[i] = fs[i]
  BY DEF With
<1>2. QED
  BY <1>1, EmptyOK DEF StoreOK, FilesOK

LEMMA OpenedOK ==
    ASSUME NEW fs, NEW b, NEW n, NEW truncate, NEW name \in Nat, StoreOK(fs, b, n)
    PROVE  StoreOK(Opened(fs, name, truncate), b, n)
BY TruncatedOK DEF Opened

(* A file takes over the next index.                                       *)
LEMMA RenamedPlaces ==
    ASSUME NEW fs, NEW src \in DOMAIN fs, NEW target, src # target, NEW r,
           r = rename_file(fs, src, target)
    PROVE  /\ DOMAIN r = (DOMAIN fs \ {src}) \cup {target}
           /\ r[target] = fs[src]
           /\ \A i \in DOMAIN fs : i # src /\ i # target => r[i] = fs[i]
BY DEF rename_file, With, Without, Restrict

LEMMA RenamedOK ==
    ASSUME NEW fs, NEW b, NEW n, NEW i \in Nat, i > 0, i - 1 \in DOMAIN fs, StoreOK(fs, b, n)
    PROVE  StoreOK(rename_file(fs, i - 1, i), b, n)
<1>1. PICK r : r = rename_file(fs, i - 1, i)
  OBVIOUS
<1>2. /\ DOMAIN r = (DOMAIN fs \ {i - 1}) \cup {i} /\ r[i] = fs[i - 1] /\ i - 1 # i
      /\ \A j \in DOMAIN fs : j # i - 1 /\ j # i => r[j] = fs[j]
  <2>1. i - 1 # i
    BY SMT
  <2>2. PICK src \in DOMAIN fs : src = i - 1
    OBVIOUS
  <2>3. r = rename_file(fs, src, i) /\ src # i
    BY <1>1, <2>1, <2>2
  <2>4. /\ DOMAIN r = (DOMAIN fs \ {src}) \cup {i} /\ r[i] = fs[src]
        /\ \A j \in DOMAIN fs : j # src /\ j # i => r[j] = fs[j]
    BY <2>3, RenamedPlaces
  <2>5. QED
    BY <2>1, <2>2, <2>4
<1>3. DOMAIN fs \subseteq Nat /\ \A j \in DOMAIN fs : fs[j] \in Seq(Message)
  BY DEF StoreOK, FilesOK
<1>4. \A j, k \in DOMAIN r : j < k => Older(r[k], r[j])
  <2> SUFFICES ASSUME NEW j \in DOMAIN r, NEW k \in DOMAIN r, j < k PROVE Older(r[k], r[j])
    OBVIOUS
  <2>1. CASE j = i
    <3>1. k # i /\ k # i - 1 /\ k \in DOMAIN fs /\ i - 1 < k
      BY <1>2, <1>3, <2>1, SMT
    <3>2. QED
      BY <1>2, <2>1, <3>1 DEF StoreOK, FilesOK
  <2>2. CASE k = i
    <3>1. j # i /\ j # i - 1 /\ j \in DOMAIN fs /\ j < i - 1
      BY <1>2, <1>3, <2>2, SMT
    <3>2. QED
      BY <1>2, <2>2, <3>1 DEF StoreOK, FilesOK
  <2>3. CASE j # i /\ k # i
    BY <1>2, <2>3 DEF StoreOK, FilesOK
  <2>4. QED
    BY <2>1, <2>2, <2>3
<1>5. \A j \in DOMAIN r : /\ j \in Nat /\ r[j] \in Seq(Message) /\ Increasing(r[j])
                          /\ Below(r[j], n) /\ Older(r[j], b)
  BY <1>2, <1>3 DEF StoreOK, FilesOK
<1>6. QED
  BY <1>1, <1>4, <1>5 DEF StoreOK, FilesOK

(* Two runs of messages, one after the other.                              *)
LEMMA ConcatOK ==
    ASSUME NEW s \in Seq(Message), NEW u \in Seq(Message), NEW c, c = s \o u
    PROVE  /\ c \in Seq(Message) /\ Len(c) = Len(s) + Len(u)
           /\ Increasing(s) /\ Increasing(u) /\ Older(s, u) => Increasing(c)
           /\ \A v : Older(v, s) /\ Older(v, u) => Older(v, c)
           /\ \A v : Older(s, v) /\ Older(u, v) => Older(c, v)
           /\ \A n : Below(s, n) /\ Below(u, n) => Below(c, n)
           /\ \A a \in 1 .. Len(s) : a \in 1 .. Len(c) /\ c[a] = s[a]
<1>1. Len(s) \in Nat /\ Len(u) \in Nat
  BY LenProperties
<1>2. /\ c \in Seq(Message) /\ Len(c) = Len(s) + Len(u)
      /\ \A a \in 1 .. Len(s) + Len(u) : c[a] = IF a <= Len(s) THEN s[a] ELSE u[a - Len(s)]
  BY ConcatProperties
<1>3. \A a \in 1 .. Len(c) : \/ a \in 1 .. Len(s) /\ c[a] = s[a]
                             \/ a - Len(s) \in 1 .. Len(u) /\ c[a] = u[a - Len(s)] /\ a > Len(s)
  BY <1>1, <1>2, SMT
<1>4. ASSUME Increasing(s), Increasing(u), Older(s, u), NEW a \in 1 .. Len(c), NEW b \in 1 .. Len(c),
             a < b
      PROVE  c[a].id < c[b].id
  <2>1. CASE a \in 1 .. Len(s) /\ c[a] = s[a] /\ b \in 1 .. Len(s) /\ c[b] = s[b]
    BY <1>4, <2>1 DEF Increasing
  <2>2. CASE /\ a \in 1 .. Len(s) /\ c[a] = s[a]
             /\ b - Len(s) \in 1 .. Len(u) /\ c[b] = u[b - Len(s)]
    BY <1>4, <2>2 DEF Older
  <2>3. CASE /\ a - Len(s) \in 1 .. Len(u) /\ c[a] = u[a - Len(s)] /\ a > Len(s)
             /\ b - Len(s) \in 1 .. Len(u) /\ c[b] = u[b - Len(s)]
    <3>1. a - Len(s) < b - Len(s)
      BY <1>1, <1>2, <1>4, SMT
    <3>2. QED
      BY <1>4, <2>3, <3>1 DEF Increasing
  <2>4. ~(a > Len(s) /\ b \in 1 .. Len(s))
    BY <1>1, <1>2, <1>4, SMT
  <2>5. QED
    BY <1>3, <2>1, <2>2, <2>3, <2>4
<1>5. \A a \in 1 .. Len(s) : a \in 1 .. Len(c) /\ c[a] = s[a]
  BY <1>1, <1>2, SMT
<1>6. \A v : Older(v, s) /\ Older(v, u) => Older(v, c)
  BY <1>3 DEF Older
<1>7. \A v : Older(s, v) /\ Older(u, v) => Older(c, v)
  BY <1>3 DEF Older
<1>8. \A n : Below(s, n) /\ Below(u, n) => Below(c, n)
  BY <1>3 DEF Below
<1>9. QED
  BY <1>2, <1>4, <1>5, <1>6, <1>7, <1>8 DEF Increasing

LEMMA StoredOK ==
    ASSUME NEW b, NEW n, filename = 0, StoreOK(files, b, n)
    PROVE  StoreOK(Stored(b), <<>>, n)
<1>1. CASE 0 \notin DOMAIN files
  BY <1>1, BufferDropped DEF Stored, Exists
<1>2. CASE 0 \in DOMAIN files
  <2>1. PICK c : c = files[0] \o b
    OBVIOUS
  <2>2. PICK r : r = With(files, 0, c)
    OBVIOUS
  <2>3. Stored(b) = r
    BY <1>2, <2>1, <2>2 DEF Stored, Exists
  <2>4. DOMAIN r = DOMAIN files /\ r[0] = c /\ \A i \in DOMAIN files : i # 0 => r[i] = files[i]
    BY <1>2, <2>2 DEF With
  <2>5. files[0] \in Seq(Message) /\ b \in Seq(Message) /\ DOMAIN files \subseteq Nat
    BY <1>2 DEF StoreOK, FilesOK
  <2>6. /\ c \in Seq(Message) /\ Increasing(c) /\ Below(c, n)
        /\ \A v : Older(v, files[0]) /\ Older(v, b) => Older(v, c)
    BY <1>2, <2>1, <2>5, ConcatOK DEF StoreOK, FilesOK
  <2>7. \A i, j \in DOMAIN files : i < j => j # 0 /\ (i # 0 => Older(r[j], r[i]))
    <3>1. \A i, j \in DOMAIN files : i < j => j # 0
      BY <2>5, SMT
    <3>2. QED
      BY <2>4, <3>1 DEF StoreOK, FilesOK
  <2>8. \A i, j \in DOMAIN files : i < j => Older(r[j], r[i])
    BY <1>2, <2>4, <2>6, <2>7 DEF StoreOK, FilesOK
  <2>9. QED
    BY <2>3, <2>4, <2>6, <2>8, EmptyOK DEF StoreOK, FilesOK
<1>3. QED
  BY <1>1, <1>2

LEMMA AppendedOK ==
    ASSUME NEW fs, NEW b, NEW n \in Nat, StoreOK(fs, b, n), NEW m \in Message, m.id = n
    PROVE  StoreOK(fs, Append(b, m), n + 1)
<1>1. PICK c : c = Append(b, m)
  OBVIOUS
<1>2. b \in Seq(Message) /\ Len(b) \in Nat /\ n < n + 1 /\ n <= n + 1
  BY LenProperties, SMT DEF StoreOK
<1>3. /\ c \in Seq(Message) /\ Len(c) = Len(b) + 1 /\ c[Len(b) + 1] = m
      /\ \A a \in 1 .. Len(b) : c[a] = b[a]
  BY <1>1, <1>2, AppendProperties
<1>4. \A a \in 1 .. Len(c) : \/ a \in 1 .. Len(b) /\ c[a] = b[a]
                             \/ a = Len(b) + 1 /\ c[a] = m
  BY <1>2, <1>3, SMT
<1>5. StoreOK(fs, b, n + 1)
  BY <1>2, BoundRaised
<1>6. Increasing(c)
  <2> SUFFICES ASSUME NEW a1 \in 1 .. Len(c), NEW a2 \in 1 .. Len(c), a1 < a2
               PROVE  c[a1].id < c[a2].id
    BY DEF Increasing
  <2>1. a1 \in 1 .. Len(b) /\ c[a1] = b[a1]
    BY <1>2, <1>3, <1>4, SMT
  <2>2. CASE a2 \in 1 .. Len(b) /\ c[a2] = b[a2]
    BY <2>1, <2>2 DEF StoreOK, Increasing
  <2>3. CASE c[a2] = m
    BY <2>1, <2>3 DEF StoreOK, Below
  <2>4. QED
    BY <1>4, <2>2, <2>3
<1>7. Below(c, n + 1)
  BY <1>2, <1>4, <1>5 DEF StoreOK, Below
<1>8. \A i \in DOMAIN fs : Older(fs[i], c)
  <2> SUFFICES ASSUME NEW i \in DOMAIN fs PROVE Older(fs[i], c)
    OBVIOUS
  <2>1. Older(fs[i], b) /\ Below(fs[i], n)
    BY DEF StoreOK, FilesOK
  <2>2. QED
    BY <1>4, <2>1 DEF Older, Below
<1>9. QED
  BY <1>1, <1>3, <1>5, <1>6, <1>7, <1>8 DEF StoreOK

-----------------------------------------------------------------------------
LEMMA CallShapes ==
    /\ NoMsg \in Message
    /\ DOMAIN NoSink = {"op", "stage", "i", "msg", "new_size"}
    /\ NoSink.op = "no_sink" /\ NoSink.stage = "done" /\ NoSink.i \in Nat /\ NoSink.msg \in Message
    /\ DOMAIN Idle = {"op", "stage", "i", "msg", "new_size"}
    /\ Idle.op = "idle" /\ Idle.stage = "done" /\ Idle.i \in Nat /\ Idle.msg \in Message
<1>1. NoMsg \in Message
  BY SMT DEF NoMsg, Msg, Message
<1>2. /\ DOMAIN NoSink = {"op", "stage", "i", "msg", "new_size"}
      /\ NoSink.op = "no_sink" /\ NoSink.stage = "done" /\ NoSink.i \in Nat
      /\ NoSink.msg \in Message
  BY <1>1 DEF NoSink
<1>3. /\ DOMAIN Idle = DOMAIN NoSink
      /\ Idle.op = "idle" /\ Idle.stage = NoSink.stage /\ Idle.i = NoSink.i /\ Idle.msg = NoSink.msg
  BY <1>2 DEF Idle
<1>4. QED
  BY <1>1, <1>2, <1>3

LEMMA RotatingShape ==
    ASSUME NEW op, NEW i, NEW msg, NEW c, c = Rotating(op, i, msg)
    PROVE  /\ DOMAIN c = {"op", "stage", "i", "msg", "new_size"}
           /\ c.op = op /\ c.stage = "rotate" /\ c.i = i /\ c.msg = msg
BY DEF Rotating

LEMMA WritingShape ==
    ASSUME NEW msg, NEW new_size, NEW c, c = Writing(msg, new_size)
    PROVE  /\ DOMAIN c = {"op", "stage", "i", "msg", "new_size"}
           /\ c.op = "sink_it" /\ c.stage = "write" /\ c.i = 0 /\ c.msg = msg
BY DEF Writing

(* A call is over: the next message has a new id.                          *)
LEMMA CallOver ==
    ASSUME Inv, NEW fs, NEW b, StoreOK(fs, b, NewId), files' = fs, buf' = b,
           call' = Idle \/ call' = NoSink,
           filename' = 0, max_files' \in Nat, logged' = logged \/ logged' = logged + 1
    PROVE  Inv'
<1>1. logged \in Nat /\ NewId \in Nat /\ logged' \in Nat /\ logged' + 1 \in Nat /\ NewId <= logged' + 1
  BY SMT DEF Inv, TypeOK, NewId
<1>2. CallOK' /\ call'.op # "sink_it" /\ call'.stage # "rotate"
  BY CallShapes DEF CallOK
<1>3. NewId' = logged' + 1
  BY <1>2 DEF NewId
<1>4. StoreOK(files', buf', NewId')
  BY <1>1, <1>3, BoundRaised
<1>5. TypeOK' /\ RotationOK'
  BY <1>1, <1>2 DEF TypeOK, RotationOK
<1>6. QED
  BY <1>4, <1>5 DEF Inv, StoreOK, FilesOK

LEMMA Entries ==
    ASSUME Inv
    PROVE  /\ call = Idle => call.op = "idle" /\ NewId = logged + 1
           /\ call = NoSink => call.op = "no_sink" /\ NewId = logged + 1
           /\ logged \in Nat /\ NewId \in Nat /\ max_files \in Nat /\ filename = 0
           /\ StoreOK(files, buf, NewId) /\ StoreOK(files, <<>>, NewId)
           /\ StoreOK(Flushed, <<>>, NewId)
<1>1. logged \in Nat /\ NewId \in Nat /\ max_files \in Nat /\ filename = 0
  BY SMT DEF Inv, TypeOK, NewId
<1>2. StoreOK(files, buf, NewId) /\ StoreOK(files, <<>>, NewId) /\ StoreOK(Flushed, <<>>, NewId)
  BY <1>1, BufferDropped, StoredOK DEF Inv, Flushed
<1>3. QED
  BY <1>1, <1>2, CallShapes DEF NewId

(* rotate_() is entered: nothing has been passed yet.                      *)
LEMMA RotationStarted ==
    ASSUME Inv, NEW fs, StoreOK(fs, <<>>, NewId), files' = fs, buf' = <<>>,
           NEW op \in {"construct", "sink_it", "rotate_now"}, NEW m \in Message,
           call' = Rotating(op, max_files', m), call.op # "sink_it",
           op = "sink_it" => m.id = logged + 1 /\ logged' = logged + 1,
           op # "sink_it" => logged' = logged,
           filename' = 0, max_files' \in Nat
    PROVE  Inv'
<1>1. PICK c : c = call'
  OBVIOUS
<1>2. /\ DOMAIN c = {"op", "stage", "i", "msg", "new_size"}
      /\ c.op = op /\ c.stage = "rotate" /\ c.i = max_files' /\ c.msg = m
  BY <1>1, RotatingShape
<1>3. logged \in Nat /\ logged' \in Nat /\ NewId = logged + 1
  BY SMT DEF Inv, TypeOK, NewId
<1>4. NewId' = NewId
  BY <1>1, <1>2, <1>3 DEF NewId
<1>5. CallOK'
  BY <1>1, <1>2 DEF CallOK
<1>6. RotationOK'
  <2>1. max_files' <= max_files' /\ ~(max_files' < max_files')
    BY SMT
  <2>2. QED
    BY <1>1, <1>2, <2>1 DEF RotationOK
<1>7. StoreOK(files', buf', NewId')
  BY <1>4
<1>8. QED
  BY <1>3, <1>5, <1>6, <1>7 DEF Inv, TypeOK, StoreOK, FilesOK

(* sink_it_ goes on to the write.                                          *)
LEMMA WriteStarted ==
    ASSUME Inv, NEW fs, NEW b, StoreOK(fs, b, NewId), files' = fs, buf' = b,
           NEW m \in Message, NEW size, call' = Writing(m, size), m.id = NewId, logged' = NewId,
           filename' = 0, max_files' = max_files
    PROVE  Inv'
<1>1. PICK c : c = call'
  OBVIOUS
<1>2. /\ DOMAIN c = {"op", "stage", "i", "msg", "new_size"}
      /\ c.op = "sink_it" /\ c.stage = "write" /\ c.i = 0 /\ c.msg = m
  BY <1>1, WritingShape
<1>3. NewId' = NewId /\ NewId \in Nat
  BY <1>1, <1>2, Entries DEF NewId
<1>4. CallOK' /\ RotationOK'
  BY <1>1, <1>2 DEF CallOK, RotationOK
<1>5. StoreOK(files', buf', NewId')
  BY <1>3
<1>6. QED
  BY <1>3, <1>4, <1>5 DEF Inv, TypeOK, StoreOK, FilesOK

LEMMA ConstructKeeps ==
    ASSUME Inv, NEW size_limit \in MaxSizes, NEW files_limit \in MaxFilesSet,
           NEW rotate_on_open \in BOOLEAN, Construct(size_limit, files_limit, rotate_on_open)
    PROVE  Inv'
<1>1. /\ call = NoSink /\ max_files' = files_limit /\ logged' = logged /\ files_limit \in Nat
      /\ call.op # "sink_it"
  BY CallShapes, MaxFilesSetAssumption DEF Construct
<1>2. /\ files' = Opened(files, 0, FALSE) /\ buf' = <<>> /\ filename' = 0
      /\ call' = Rotating("construct", files_limit, NoMsg) \/ call' = Idle
  BY DEF Construct, OpenOk, Return
<1>3. StoreOK(Opened(files, 0, FALSE), <<>>, NewId)
  BY Entries, OpenedOK
<1>4. CASE call' = Idle
  BY <1>1, <1>2, <1>3, <1>4, CallOver
<1>5. CASE call' = Rotating("construct", max_files', NoMsg)
  BY <1>1, <1>2, <1>3, <1>5, CallShapes, RotationStarted
<1>6. QED
  BY <1>1, <1>2, <1>4, <1>5

LEMMA SinkItKeeps ==
    ASSUME Inv, NEW size \in MsgSizes, SinkIt(size)
    PROVE  Inv'
<1> DEFINE msg == Msg(logged + 1, size)
<1>1. /\ call = Idle /\ logged' = logged + 1 /\ NewId = logged + 1 /\ call.op # "sink_it"
      /\ call.op # "construct" /\ max_files' = max_files
  BY Entries, CallShapes DEF SinkIt, sinkVars, StartRotation
<1>2. logged + 1 \in Nat /\ size \in Nat
  BY Entries, MsgSizesAssumption, SMT
<1>3. msg \in Message /\ msg.id = logged + 1
  BY <1>2 DEF Msg, Message
<1>4. HIDE DEF msg
<1>5. \/ files' = files /\ buf' = buf /\ filename' = filename
         /\ call' = Writing(msg, current_size + size)
      \/ files' = files /\ buf' \in {buf, <<>>} /\ filename' = filename /\ call' = Idle
      \/ files' = Flushed /\ buf' = <<>> /\ filename' = filename /\ call' = Idle
      \/ files' = Flushed /\ buf' = <<>> /\ filename' = filename
         /\ call' = Rotating("sink_it", max_files, msg)
      \/ files' = Flushed /\ buf' = <<>> /\ filename' = filename
         /\ call' = Writing(msg, current_size + size)
  BY <1>1 DEF SinkIt, fileVars, FlushThrows, FlushOk, Throw, StartRotation, msg
<1>6. CASE call' = Idle
  BY <1>1, <1>5, <1>6, Entries, CallOver, WritingShape, RotatingShape, CallShapes
<1>7. CASE call' = Writing(msg, current_size + size)
  <2>1. call'.stage = "write"
    BY <1>7, WritingShape
  <2>2. /\ (files' = files /\ buf' = buf) \/ (files' = Flushed /\ buf' = <<>>)
        /\ filename' = 0
    BY <1>5, <2>1, Entries, CallShapes, RotatingShape
  <2>3. QED
    BY <1>1, <1>3, <1>7, <2>2, Entries, WriteStarted
<1>8. CASE call' = Rotating("sink_it", max_files, msg)
  <2>1. call'.stage = "rotate"
    BY <1>8, RotatingShape
  <2>2. files' = Flushed /\ buf' = <<>> /\ filename' = 0
    BY <1>5, <2>1, Entries, CallShapes, WritingShape
  <2>3. QED
    BY <1>1, <1>3, <1>8, <2>2, Entries, RotationStarted
<1>9. QED
  BY <1>5, <1>6, <1>7, <1>8

LEMMA WriteKeeps ==
    ASSUME Inv, Write
    PROVE  Inv'
<1>1. /\ call.stage = "write" /\ call.op = "sink_it" /\ call.msg \in Message /\ call.msg.id = logged
      /\ NewId = logged /\ logged \in Nat /\ filename = 0 /\ max_files \in Nat
  BY DEF Write, Inv, TypeOK, CallOK, NewId
<1>2. call' = Idle /\ max_files' = max_files /\ logged' = logged /\ filename' = filename
  BY <1>1 DEF Write, Return, Throw, WriteOk, WriteStores, WriteIgnored, WriteThrows, fileVars
<1>3. Torn(call.msg) \in Message /\ Torn(call.msg).id = logged
  BY <1>1 DEF Torn, Message
<1>4. /\ StoreOK(files, Append(buf, call.msg), logged + 1)
      /\ StoreOK(files, Append(buf, Torn(call.msg)), logged + 1)
      /\ StoreOK(files, buf, logged + 1)
  <2>1. logged + 1 \in Nat /\ logged <= logged + 1
    BY <1>1, SMT
  <2>2. QED
    BY <1>1, <1>3, <2>1, AppendedOK, BoundRaised DEF Inv
<1>5. StoreOK(Stored(Append(buf, call.msg)), <<>>, logged + 1)
  BY <1>1, <1>4, StoredOK
<1>6. \/ files' = files /\ buf' = Append(buf, call.msg)
      \/ files' = Stored(Append(buf, call.msg)) /\ buf' = <<>>
      \/ files' = files /\ buf' = buf
      \/ files' = files /\ buf' = Append(buf, Torn(call.msg))
  BY DEF Write, WriteOk, WriteStores, WriteIgnored, WriteThrows, fileVars
<1>7. StoreOK(files', buf', logged + 1)
  BY <1>4, <1>5, <1>6
<1>8. CallOK' /\ RotationOK' /\ NewId' = logged + 1
  BY <1>2, CallShapes DEF CallOK, RotationOK, NewId
<1>9. QED
  BY <1>1, <1>2, <1>7, <1>8 DEF Inv, TypeOK, StoreOK, FilesOK

LEMMA ClosedOK ==
    ASSUME Inv, NEW fs, fs \in {Flushed, files}
    PROVE  StoreOK(fs, <<>>, NewId)
BY Entries

LEMMA RotateNowKeeps ==
    ASSUME Inv, RotateNow
    PROVE  Inv'
<1>1. PICK fs \in {Flushed, files} : StartRotation("rotate_now", NoMsg, fs)
  BY DEF RotateNow
<1>2. /\ call = Idle /\ call.op # "sink_it" /\ logged' = logged /\ max_files' = max_files
      /\ files' = fs /\ buf' = <<>> /\ call' = Rotating("rotate_now", max_files, NoMsg)
      /\ filename' = 0 /\ max_files \in Nat
  BY <1>1, Entries, CallShapes DEF RotateNow, StartRotation, sinkVars
<1>3. QED
  BY <1>2, ClosedOK, CallShapes, RotationStarted

(* One index further: the place just left is empty.                        *)
LEMMA ShiftKeeps ==
    ASSUME Inv, ShiftFile
    PROVE  Inv'
<1>1. /\ call.stage = "rotate" /\ call.i \in Nat /\ call.i > 0 /\ max_files \in Nat
      /\ DOMAIN call = {"op", "stage", "i", "msg", "new_size"}
      /\ call.i <= max_files
      /\ files' = IF Exists(files, call.i - 1) THEN rename_file(files, call.i - 1, call.i) ELSE files
      /\ call' = [call EXCEPT !.i = call.i - 1]
      /\ UNCHANGED <<buf, filename, max_files, logged>>
  BY DEF ShiftFile, Inv, TypeOK, CallOK, RotationOK, sinkVars
<1>2. /\ DOMAIN call' = DOMAIN call /\ call'.i = call.i - 1 /\ call'.op = call.op
      /\ call'.stage = call.stage /\ call'.msg = call.msg
  BY <1>1
<1>3. call.i - 1 \in Nat /\ call.i - 1 <= max_files /\ call.i - 1 # call.i
  BY <1>1, SMT
<1>4. CallOK' /\ NewId' = NewId
  BY <1>1, <1>2, <1>3 DEF Inv, TypeOK, CallOK, NewId
<1>5. ~Exists(files', call.i - 1)
  <2>1. CASE call.i - 1 \in DOMAIN files
    <3>1. PICK src \in DOMAIN files : src = call.i - 1
      BY <2>1
    <3>2. files' = rename_file(files, src, call.i) /\ src # call.i
      BY <1>1, <1>3, <3>1 DEF Exists
    <3>3. PICK r, target : r = files' /\ target = call.i
      OBVIOUS
    <3>4. src # target /\ r = rename_file(files, src, target)
      BY <3>2, <3>3
    <3>5. DOMAIN r = (DOMAIN files \ {src}) \cup {target}
      BY <3>1, <3>4, RenamedPlaces
    <3>6. QED
      BY <1>3, <3>1, <3>3, <3>5 DEF Exists
  <2>2. CASE call.i - 1 \notin DOMAIN files
    BY <1>1, <2>2 DEF Exists
  <2>3. QED
    BY <2>1, <2>2
<1>6. RotationOK'
  BY <1>1, <1>2, <1>3, <1>5 DEF RotationOK, Exists
<1>7. StoreOK(files', buf', NewId')
  BY <1>1, <1>4, RenamedOK DEF Inv, Exists
<1>8. QED
  BY <1>1, <1>4, <1>6, <1>7 DEF Inv, TypeOK, StoreOK, FilesOK

LEMMA ThrowEnds == ASSUME Throw PROVE call' = Idle \/ call' = NoSink
BY DEF Throw

LEMMA ShiftFailsKeeps ==
    ASSUME Inv, ShiftFails
    PROVE  Inv'
<1>1. PICK fs \in {files, Without(files, call.i)} :
         OpenOk(fs, filename, TRUE) \/ OpenThrows(fs, filename, TRUE)
  BY DEF ShiftFails
<1>2. /\ logged' = logged /\ max_files' = max_files
      /\ call' = Idle \/ call' = NoSink
  BY ThrowEnds DEF ShiftFails
<1>3. filename = 0 /\ max_files \in Nat /\ StoreOK(fs, <<>>, NewId)
  BY Entries, WithoutOK
<1>4. StoreOK(Opened(fs, 0, TRUE), <<>>, NewId)
  BY <1>3, OpenedOK
<1>5. files' \in {fs, Opened(fs, 0, TRUE)} /\ buf' = <<>> /\ filename' = 0
  BY <1>1, <1>3 DEF OpenOk, OpenThrows
<1>6. StoreOK(files', <<>>, NewId)
  BY <1>3, <1>4, <1>5
<1>7. PICK fs2 : fs2 = files'
  OBVIOUS
<1>8. QED
  BY <1>2, <1>3, <1>5, <1>6, <1>7, CallOver

LEMMA ReopenKeeps ==
    ASSUME Inv, ReopenOk \/ ReopenFails
    PROVE  Inv'
<1>1. /\ filename = 0 /\ max_files \in Nat /\ logged' = logged /\ max_files' = max_files
      /\ StoreOK(files, <<>>, NewId)
  BY Entries DEF ReopenOk, ReopenFails, sinkVars
<1>2. StoreOK(Opened(files, 0, TRUE), <<>>, NewId)
  BY <1>1, OpenedOK
<1>3. files' \in {files, Opened(files, 0, TRUE)} /\ buf' = <<>> /\ filename' = 0
  BY <1>1 DEF ReopenOk, ReopenFails, OpenOk, OpenThrows
<1>4. PICK fs2 : fs2 = files' /\ StoreOK(fs2, <<>>, NewId)
  BY <1>1, <1>2, <1>3
<1>5. CASE call' = Idle \/ call' = NoSink
  BY <1>1, <1>3, <1>4, <1>5, CallOver
<1>6. CASE call.op = "sink_it" /\ call' = Writing(call.msg, call.new_size)
  <2>1. NewId = logged /\ call.msg \in Message /\ call.msg.id = logged
    BY <1>6 DEF NewId, Inv, TypeOK, CallOK
  <2>2. QED
    BY <1>1, <1>3, <1>4, <1>6, <2>1, WriteStarted
<1>7. QED
  BY <1>5, <1>6, ThrowEnds DEF ReopenOk, ReopenFails, Return

LEMMA OtherKeeps ==
    ASSUME Inv,
           \/ Flush \/ Destroy \/ Crash
           \/ \E n \in MaxSizes : SetMaxSize(n)
           \/ \E n \in MaxFilesSet : SetMaxFiles(n)
    PROVE  Inv'
<1>1. CASE Flush
  <2>1. /\ call' = Idle /\ filename' = 0 /\ max_files' = max_files /\ logged' = logged
        /\ files' \in {files, Flushed} /\ buf' \in {buf, <<>>} /\ (files' = files \/ buf' = <<>>)
        /\ max_files \in Nat
    BY <1>1, Entries, CallShapes DEF Flush, FlushOk, FlushThrows, Return, Throw, sinkVars
  <2>2. PICK fs, b : fs = files' /\ b = buf' /\ StoreOK(fs, b, NewId)
    BY <2>1, Entries
  <2>3. QED
    BY <2>1, <2>2, CallOver
<1>2. CASE Destroy \/ Crash
  <2>1. /\ call' = NoSink /\ filename' = 0 /\ max_files' = max_files /\ logged' = logged
        /\ files' \in {files, Flushed} /\ buf' = <<>> /\ max_files \in Nat
    BY <1>2, Entries DEF Destroy, Crash, sinkVars
  <2>2. PICK fs : fs = files' /\ StoreOK(fs, <<>>, NewId)
    BY <2>1, Entries
  <2>3. QED
    BY <2>1, <2>2, CallOver
<1>3. ASSUME NEW n \in MaxSizes, SetMaxSize(n) PROVE Inv'
  <2>1. /\ call' = Idle /\ filename' = 0 /\ max_files' = max_files /\ logged' = logged
        /\ files' = files /\ buf' = buf /\ max_files \in Nat
    BY <1>3, Entries DEF SetMaxSize, fileVars
  <2>2. QED
    BY <2>1, Entries, CallOver
<1>4. ASSUME NEW n \in MaxFilesSet, SetMaxFiles(n) PROVE Inv'
  <2>1. /\ call' = Idle /\ filename' = 0 /\ max_files' \in Nat /\ logged' = logged
        /\ files' = files /\ buf' = buf
    BY <1>4, Entries, MaxFilesSetAssumption DEF SetMaxFiles, fileVars
  <2>2. QED
    BY <2>1, Entries, CallOver
<1>5. QED
  BY <1>1, <1>2, <1>3, <1>4

LEMMA NextKeepsInv == ASSUME Inv, [Next]_vars PROVE Inv'
<1>1. CASE UNCHANGED vars
  BY <1>1 DEF vars, fileVars, sinkVars, Inv, TypeOK, CallOK, RotationOK, Exists, NewId, StoreOK,
              FilesOK
<1>2. QED
  BY <1>1, ConstructKeeps, SinkItKeeps, WriteKeeps, RotateNowKeeps, ShiftKeeps, ShiftFailsKeeps,
     ReopenKeeps, OtherKeeps DEF Next

LEMMA InitInv == Init => Inv
<1> SUFFICES ASSUME Init PROVE Inv
  OBVIOUS
<1>1. DOMAIN files = {} /\ buf = <<>> /\ filename = 0 /\ logged = 0 /\ max_files \in Nat /\ call = NoSink
  <2>1. DOMAIN << >> = {}
    BY EmptySeq, LenProperties, SMT
  <2>2. QED
    BY <2>1, MaxFilesSetAssumption DEF Init
<1>2. CallOK /\ RotationOK
  BY <1>1, CallShapes DEF CallOK, RotationOK
<1>3. StoreOK(files, buf, NewId)
  BY <1>1, EmptyOK DEF StoreOK, FilesOK
<1>4. QED
  BY <1>1, <1>2, <1>3 DEF Inv, TypeOK

LEMMA Invariance == Spec => []Inv
<1>1. Inv /\ [Next]_vars => Inv'
  BY NextKeepsInv
<1>2. QED
  BY <1>1, InitInv, PTL DEF Spec

-----------------------------------------------------------------------------
(* What a reader of file i finds, with the buffer counted to file 0.       *)
LEMMA ContentOK ==
    ASSUME Inv, NEW i \in DOMAIN files \cup {0}
    PROVE  /\ Increasing(Content(i))
           /\ \A j \in DOMAIN files \cup {0} : i < j => Older(Content(j), Content(i))
<1>1. /\ DOMAIN files \subseteq Nat /\ buf \in Seq(Message) /\ Increasing(buf)
      /\ \A k \in DOMAIN files :
            files[k] \in Seq(Message) /\ Increasing(files[k]) /\ Older(files[k], buf)
      /\ \A k, j \in DOMAIN files : k < j => Older(files[j], files[k])
  BY DEF Inv, StoreOK, FilesOK
<1>2. PICK f : f = IF i \in DOMAIN files THEN files[i] ELSE <<>>
  OBVIOUS
<1>3. PICK b : b = IF i = 0 THEN buf ELSE <<>>
  OBVIOUS
<1>4. f \in Seq(Message) /\ b \in Seq(Message) /\ Increasing(f) /\ Increasing(b) /\ Older(f, b)
  BY <1>1, <1>2, <1>3, EmptyOK
<1>5. PICK c : c = f \o b
  OBVIOUS
<1>6. Content(i) = c
  BY <1>2, <1>3, <1>5 DEF Content
<1>7. Increasing(c) /\ \A v : Older(v, f) /\ Older(v, b) => Older(v, c)
  BY <1>4, <1>5, ConcatOK
<1>8. ASSUME NEW j \in DOMAIN files \cup {0}, i < j PROVE Older(Content(j), c)
  <2>1. j # 0 /\ j \in DOMAIN files
    BY <1>1, <1>8, SMT
  <2>2. Content(j) = files[j] \o <<>> /\ files[j] \in Seq(Message)
    BY <1>1, <2>1 DEF Content
  <2>3. Content(j) = files[j]
    BY <2>2, ConcatEmptySeq
  <2>4. Older(files[j], f) /\ Older(files[j], b)
    BY <1>1, <1>2, <1>3, <1>8, <2>1, EmptyOK
  <2>5. QED
    BY <1>7, <2>3, <2>4
<1>9. QED
  BY <1>6, <1>7, <1>8

(* Read from the largest index to file 0, the files hold the messages in   *)
(* the order they were logged, for all limits and any number of messages,  *)
(* whatever renames of rotate_() failed or were cut short by a crash.      *)
THEOREM FilesChronological == Spec => []Chronological
<1>1. Inv => Chronological
  <2> SUFFICES ASSUME Inv PROVE Chronological
    OBVIOUS
  <2>1. QED
    BY ContentOK DEF Chronological, Increasing, Older
<1>2. QED
  BY <1>1, Invariance, PTL
-----------------------------------------------------------------------------
(* Which messages leave the disk.                                          *)
LEMMA DiskKept ==
    ASSUME NEW fs, NEW gs, NEW id \in OnDisk(fs),
           \A i \in DOMAIN fs : id \in Ids(fs[i]) => \E j \in DOMAIN gs : id \in Ids(gs[j])
    PROVE  id \in OnDisk(gs)
BY DEF OnDisk

LEMMA StoredKeepsDisk ==
    ASSUME Inv, NEW b \in Seq(Message), NEW id \in OnDisk(files)
    PROVE  id \in OnDisk(Stored(b))
<1>1. CASE 0 \notin DOMAIN files
  BY <1>1, Entries DEF Stored, Exists
<1>2. CASE 0 \in DOMAIN files
  <2>1. PICK c : c = files[0] \o b
    OBVIOUS
  <2>2. PICK r : r = With(files, 0, c)
    OBVIOUS
  <2>3. Stored(b) = r
    BY <1>2, <2>1, <2>2, Entries DEF Stored, Exists
  <2>4. DOMAIN r = DOMAIN files /\ r[0] = c /\ \A i \in DOMAIN files : i # 0 => r[i] = files[i]
    BY <1>2, <2>2 DEF With
  <2>5. files[0] \in Seq(Message)
    BY <1>2 DEF Inv, StoreOK, FilesOK
  <2>6. \A a \in 1 .. Len(files[0]) : a \in 1 .. Len(c) /\ c[a] = files[0][a]
    BY <2>1, <2>5, ConcatOK
  <2>7. id \in Ids(files[0]) => id \in Ids(c)
    BY <2>6 DEF Ids
  <2>8. \A i \in DOMAIN files : id \in Ids(files[i]) => \E j \in DOMAIN r : id \in Ids(r[j])
    BY <2>4, <2>7
  <2>9. QED
    BY <2>3, <2>8, DiskKept
<1>3. QED
  BY <1>1, <1>2

LEMMA OpenedKeepsDisk ==
    ASSUME NEW fs, NEW name, NEW id \in OnDisk(fs)
    PROVE  /\ id \in OnDisk(Opened(fs, name, FALSE))
           /\ id \notin OnDisk(Opened(fs, name, TRUE)) => name \in DOMAIN fs /\ id \in Ids(fs[name])
<1>1. PICK r : r = With(fs, name, <<>>)
  OBVIOUS
<1>2. DOMAIN r = DOMAIN fs \cup {name} /\ \A i \in DOMAIN fs : i # name => r[i] = fs[i]
  BY <1>1 DEF With
<1>3. ASSUME ~(name \in DOMAIN fs /\ id \in Ids(fs[name])) PROVE id \in OnDisk(r)
  BY <1>2, <1>3, DiskKept
<1>4. QED
  BY <1>1, <1>3 DEF Opened, Exists

LEMMA WithoutKeepsDisk ==
    ASSUME NEW fs, NEW name, NEW id \in OnDisk(fs), id \notin OnDisk(Without(fs, name))
    PROVE  name \in DOMAIN fs /\ id \in Ids(fs[name])
<1>1. PICK r : r = Without(fs, name)
  OBVIOUS
<1>2. DOMAIN r = DOMAIN fs \ {name} /\ \A i \in DOMAIN fs \ {name} : r[i] = fs[i]
  BY <1>1 DEF Without, Restrict
<1>3. SUFFICES ASSUME ~(name \in DOMAIN fs /\ id \in Ids(fs[name])) PROVE FALSE
  OBVIOUS
<1>4. id \in OnDisk(r)
  BY <1>2, <1>3, DiskKept
<1>5. QED
  BY <1>1, <1>4

LEMMA RenamedKeepsDisk ==
    ASSUME NEW fs, NEW src \in DOMAIN fs, NEW target, src # target, NEW id \in OnDisk(fs),
           id \notin OnDisk(rename_file(fs, src, target))
    PROVE  target \in DOMAIN fs /\ id \in Ids(fs[target])
<1>1. PICK r : r = rename_file(fs, src, target)
  OBVIOUS
<1>2. /\ DOMAIN r = (DOMAIN fs \ {src}) \cup {target} /\ r[target] = fs[src]
      /\ \A i \in DOMAIN fs : i # src /\ i # target => r[i] = fs[i]
  BY <1>1 DEF rename_file, With, Without, Restrict
<1>3. SUFFICES ASSUME ~(target \in DOMAIN fs /\ id \in Ids(fs[target])) PROVE FALSE
  OBVIOUS
<1>4. \A i \in DOMAIN fs : id \in Ids(fs[i]) => \E j \in DOMAIN r : id \in Ids(r[j])
  BY <1>2, <1>3
<1>5. id \in OnDisk(r)
  BY <1>4, DiskKept
<1>6. QED
  BY <1>1, <1>5

(* A step takes a message from the disk only with the oldest file.         *)
LEMMA ShiftDeletes ==
    ASSUME Inv, ShiftFile, NEW id \in OnDisk(files), id \notin OnDisk(files')
    PROVE  max_files \in DOMAIN files /\ id \in Ids(files[max_files])
<1>1. /\ call.i \in Nat /\ call.i > 0 /\ max_files \in Nat /\ call.i <= max_files
      /\ call.i < max_files => call.i \notin DOMAIN files
  BY DEF ShiftFile, Inv, TypeOK, CallOK, RotationOK, Exists
<1>2. call.i - 1 # call.i /\ (call.i \in DOMAIN files => call.i = max_files)
  BY <1>1, SMT
<1>3. PICK src, target : src = call.i - 1 /\ target = call.i
  OBVIOUS
<1>4. /\ files' = IF src \in DOMAIN files THEN rename_file(files, src, target) ELSE files
      /\ src # target
  BY <1>2, <1>3 DEF ShiftFile, Exists
<1>5. src \in DOMAIN files /\ id \notin OnDisk(rename_file(files, src, target))
  BY <1>4
<1>6. target \in DOMAIN files /\ id \in Ids(files[target])
  BY <1>4, <1>5, RenamedKeepsDisk
<1>7. QED
  BY <1>2, <1>3, <1>6

LEMMA ReopenDeletes ==
    ASSUME Inv, ReopenOk \/ ReopenFails, NEW id \in OnDisk(files), id \notin OnDisk(files')
    PROVE  max_files \in DOMAIN files /\ id \in Ids(files[max_files])
<1>1. /\ call.i = 0 /\ max_files \in Nat /\ filename = 0
      /\ call.i < max_files => call.i \notin DOMAIN files
  BY DEF ReopenOk, ReopenFails, Inv, TypeOK, CallOK, RotationOK, Exists
<1>2. 0 \in DOMAIN files => max_files = 0
  BY <1>1, SMT
<1>3. files' \in {files, Opened(files, 0, TRUE)}
  BY <1>1 DEF ReopenOk, ReopenFails, OpenOk, OpenThrows
<1>4. 0 \in DOMAIN files /\ id \in Ids(files[0])
  BY <1>3, OpenedKeepsDisk
<1>5. QED
  BY <1>2, <1>4

LEMMA ShiftFailsDeletes ==
    ASSUME Inv, ShiftFails, NEW id \in OnDisk(files), id \notin OnDisk(files')
    PROVE  \/ max_files \in DOMAIN files /\ id \in Ids(files[max_files])
           \/ 0 \in DOMAIN files /\ id \in Ids(files[0])
<1>1. /\ call.i \in Nat /\ max_files \in Nat /\ call.i <= max_files /\ filename = 0
      /\ call.i < max_files => call.i \notin DOMAIN files
  BY DEF ShiftFails, Inv, TypeOK, CallOK, RotationOK, Exists
<1>2. call.i \in DOMAIN files => call.i = max_files
  BY <1>1, SMT
<1>3. PICK fs \in {files, Without(files, call.i)} :
         OpenOk(fs, filename, TRUE) \/ OpenThrows(fs, filename, TRUE)
  BY DEF ShiftFails
<1>4. files' \in {fs, Opened(fs, 0, TRUE)}
  BY <1>1, <1>3 DEF OpenOk, OpenThrows
<1>5. CASE id \notin OnDisk(fs)
  <2>1. PICK target : target = call.i
    OBVIOUS
  <2>2. id \notin OnDisk(Without(files, target))
    BY <1>3, <1>5, <2>1
  <2>3. target \in DOMAIN files /\ id \in Ids(files[target])
    BY <2>2, WithoutKeepsDisk
  <2>4. QED
    BY <1>2, <2>1, <2>3
<1>6. CASE id \in OnDisk(fs)
  <2>1. 0 \in DOMAIN fs /\ id \in Ids(fs[0])
    BY <1>4, <1>6, OpenedKeepsDisk
  <2>2. DOMAIN Without(files, call.i) \subseteq DOMAIN files
        /\ \A i \in DOMAIN Without(files, call.i) : Without(files, call.i)[i] = files[i]
    BY DEF Without, Restrict
  <2>3. QED
    BY <1>3, <2>1, <2>2
<1>7. QED
  BY <1>5, <1>6

LEMMA OthersKeepDisk ==
    ASSUME Inv, NEW id \in OnDisk(files),
           \/ \E s \in MaxSizes, n \in MaxFilesSet, r \in BOOLEAN : Construct(s, n, r)
           \/ \E n \in MsgSizes : SinkIt(n)
           \/ Write \/ RotateNow \/ Flush \/ Destroy \/ Crash
           \/ \E n \in MaxSizes : SetMaxSize(n)
           \/ \E n \in MaxFilesSet : SetMaxFiles(n)
           \/ UNCHANGED vars
    PROVE  id \in OnDisk(files')
<1>1. /\ buf \in Seq(Message) /\ id \in OnDisk(Flushed)
      /\ id \in OnDisk(Opened(files, 0, FALSE))
  <2>1. buf \in Seq(Message)
    BY DEF Inv, StoreOK
  <2>2. QED
    BY <2>1, StoredKeepsDisk, OpenedKeepsDisk DEF Flushed
<1>2. ASSUME NEW s, NEW n, NEW r, Construct(s, n, r) PROVE files' = Opened(files, 0, FALSE)
  BY <1>2 DEF Construct, OpenOk
<1>3. ASSUME NEW n, SinkIt(n) PROVE files' \in {files, Flushed}
  BY <1>3 DEF SinkIt, StartRotation, FlushOk, FlushThrows, fileVars
<1>4. CASE Write
  <2>1. call.msg \in Message
    BY DEF Inv, TypeOK, CallOK
  <2>2. Append(buf, call.msg) \in Seq(Message)
    BY <1>1, <2>1, AppendProperties
  <2>3. files' \in {files, Stored(Append(buf, call.msg))}
    BY <1>4 DEF Write, WriteOk, WriteStores, WriteIgnored, WriteThrows, fileVars
  <2>4. QED
    BY <2>2, <2>3, StoredKeepsDisk
<1>5. CASE RotateNow \/ Flush \/ Destroy \/ Crash
  <2>1. files' \in {files, Flushed}
    BY <1>5 DEF RotateNow, StartRotation, Flush, FlushOk, FlushThrows, Destroy, Crash
  <2>2. QED
    BY <1>1, <2>1
<1>6. CASE \/ \E n \in MaxSizes : SetMaxSize(n)
           \/ \E n \in MaxFilesSet : SetMaxFiles(n)
           \/ UNCHANGED vars
  <2>1. files' = files
    BY <1>6 DEF SetMaxSize, SetMaxFiles, vars, fileVars
  <2>2. QED
    BY <2>1
<1>7. QED
  BY <1>1, <1>2, <1>3, <1>4, <1>5, <1>6

(* Rotation gives up the oldest file only: a step takes a message from the *)
(* disk only if the message is in the file with index max_files_, or in    *)
(* file 0 when a rename has just failed (the truncation of rotate_()).     *)
THEOREM OldestDeletedOnly == Spec => OnlyOldestDeleted
<1> DEFINE Deleted(id) == \/ max_files \in DOMAIN files /\ id \in Ids(files[max_files])
                          \/ ShiftFails /\ 0 \in DOMAIN files /\ id \in Ids(files[0])
<1>1. ASSUME Inv, [Next]_vars, NEW id \in OnDisk(files) \ OnDisk(files)' PROVE Deleted(id)
  <2>1. id \in OnDisk(files) /\ id \notin OnDisk(files')
    BY <1>1 DEF OnDisk, Ids
  <2>2. ShiftFile \/ ShiftFails \/ ReopenOk \/ ReopenFails
    BY <1>1, <2>1, OthersKeepDisk DEF Next
  <2>3. QED
    BY <1>1, <2>1, <2>2, ShiftDeletes, ShiftFailsDeletes, ReopenDeletes
<1>2. Inv /\ [Next]_vars
         => [\A id \in OnDisk(files) \ OnDisk(files)' :
                \/ max_files \in DOMAIN files /\ id \in Ids(files[max_files])
                \/ ShiftFails /\ 0 \in DOMAIN files /\ id \in Ids(files[0])]_vars
  BY <1>1
<1>3. QED
  BY <1>2, Invariance, PTL DEF Spec, OnlyOldestDeleted
-----------------------------------------------------------------------------
(* Sums of sequences of numbers, by induction: a non-empty set of naturals *)
(* has a least element.                                                    *)
LEMMA LeastElement ==
    ASSUME NEW S, S \subseteq Nat, S # {}
    PROVE  \E n \in S : \A m \in S : ~(m < n)
<1>1. PICK R : R = {ss \in Nat \X Nat : ss[1] < ss[2]}
  OBVIOUS
<1>2. IsWellFoundedOn({ss \in Nat \X Nat : ss[1] < ss[2]}, Nat)
  BY NatLessThanWellFounded DEF OpToRel
<1>3. IsWellFoundedOn(R, Nat)
  BY <1>1, <1>2
<1>4. PICK n \in S : \A m \in S : <<m, n>> \notin R
  BY <1>3, WFMin
<1>5. \A m \in S : m < n => <<m, n>> \in R
  BY <1>1
<1>6. QED
  BY <1>4, <1>5

(* The partial sums of w.                                                  *)
Weights(w, n) == \A k \in 1 .. n : w[k] \in Nat
Sums(f, w, n) == /\ f \in [0 .. n -> Nat]
                 /\ f[0] = 0
                 /\ \A k \in 1 .. n : f[k] = f[k - 1] + w[k]

LEMMA SumsExist ==
    ASSUME NEW n \in Nat, NEW w, Weights(w, n)
    PROVE  \E f : Sums(f, w, n)
<1> DEFINE S == {j \in 0 .. n : ~\E f : Sums(f, w, j)}
<1> SUFFICES ASSUME ~\E f : Sums(f, w, n) PROVE FALSE
  OBVIOUS
<1>1. PICK j \in S : \A m \in S : ~(m < j)
  <2>1. n \in S /\ S \subseteq Nat
    BY SMT
  <2>2. QED
    BY <2>1, LeastElement
<1>2. j \in 0 .. n /\ j \in Nat /\ ~\E f : Sums(f, w, j)
  BY <1>1, SMT
<1>3. CASE j = 0
  <2>1. PICK f : f = [k \in 0 .. 0 |-> 0]
    OBVIOUS
  <2>2. f \in [0 .. 0 -> Nat] /\ f[0] = 0 /\ \A k \in 1 .. 0 : FALSE
    BY <2>1, SMT
  <2>3. QED
    BY <1>2, <1>3, <2>2 DEF Sums
<1>4. CASE j > 0
  <2>1. PICK m : m = j - 1
    OBVIOUS
  <2>2. m \in 0 .. n /\ m < j /\ m \in Nat /\ m \in 0 .. m /\ j \in 1 .. n
    BY <1>2, <1>4, <2>1, SMT
  <2>3. PICK g : Sums(g, w, m)
    BY <1>1, <2>2
  <2>4. PICK x \in Nat : x = g[m] + w[j]
    <3>1. g[m] \in Nat /\ w[j] \in Nat
      BY <2>2, <2>3 DEF Sums, Weights
    <3>2. g[m] + w[j] \in Nat
      BY <3>1, SMT
    <3>3. QED
      BY <3>2
  <2>5. PICK f : f = [k \in 0 .. j |-> IF k = j THEN x ELSE g[k]]
    OBVIOUS
  <2>6. /\ \A k \in 0 .. j : k = j \/ k \in 0 .. m
        /\ \A k \in 1 .. j : k = j \/ (k \in 1 .. m /\ k # j /\ k - 1 # j)
        /\ \A k \in 1 .. j : k \in 0 .. j /\ k - 1 \in 0 .. j
        /\ j - 1 = m /\ j - 1 # j /\ 0 # j /\ 0 \in 0 .. j /\ j \in 0 .. j
    BY <1>2, <1>4, <2>1, <2>2, SMT
  <2>7. f \in [0 .. j -> Nat] /\ f[0] = 0
    BY <2>3, <2>4, <2>5, <2>6 DEF Sums
  <2>8. ASSUME NEW k \in 1 .. j PROVE f[k] = f[k - 1] + w[k]
    <3>1. CASE k = j
      BY <2>4, <2>5, <2>6, <3>1
    <3>2. CASE k # j
      BY <2>3, <2>5, <2>6, <3>2 DEF Sums
    <3>3. QED
      BY <3>1, <3>2
  <2>9. QED
    BY <1>2, <2>7, <2>8 DEF Sums
<1>5. QED
  BY <1>2, <1>3, <1>4, SMT

(* Two sequences of sums that start alike and grow alike are the same.     *)
LEMMA SumsUnique ==
    ASSUME NEW n \in Nat, NEW w, NEW f, NEW g, f[0] = g[0],
           \A k \in 1 .. n : f[k] = f[k - 1] + w[k] /\ g[k] = g[k - 1] + w[k]
    PROVE  \A k \in 0 .. n : f[k] = g[k]
<1> SUFFICES ASSUME \E k \in 0 .. n : f[k] # g[k] PROVE FALSE
  OBVIOUS
<1> DEFINE S == {k \in 0 .. n : f[k] # g[k]}
<1>1. PICK k \in S : \A m \in S : ~(m < k)
  <2>1. S # {} /\ S \subseteq Nat
    BY SMT
  <2>2. QED
    BY <2>1, LeastElement
<1>2. k \in 0 .. n /\ k # 0 /\ f[k] # g[k]
  BY <1>1
<1>3. k \in 1 .. n /\ k - 1 \in 0 .. n /\ k - 1 < k
  BY <1>2, SMT
<1>4. f[k - 1] = g[k - 1]
  BY <1>1, <1>3
<1>5. QED
  BY <1>2, <1>3, <1>4

LEMMA TotalIs ==
    ASSUME NEW n \in Nat, NEW w, Weights(w, n)
    PROVE  \E f : Sums(f, w, n) /\ Total(w, n) = f[n]
<1>1. PICK g : Sums(g, w, n)
  BY SumsExist
<1>2. n \in 0 .. n /\ 0 \in 0 .. n /\ \A k \in 0 .. n : k = 0 <=> k \notin 1 .. n
  BY SMT
<1> DEFINE Unfolded(f) == [k \in 0 .. n |-> IF k = 0 THEN 0 ELSE f[k - 1] + w[k]]
           upto == CHOOSE f : f = Unfolded(f)
<1>3. g = Unfolded(g)
  BY <1>1, <1>2 DEF Sums
<1>4. upto = Unfolded(upto)
  BY <1>3
<1>5. Total(w, n) = upto[n]
  BY DEF Total
<1>6. PICK f : f = upto
  OBVIOUS
<1>7. f = Unfolded(f)
  BY <1>4, <1>6
<1>8. f[0] = 0 /\ \A k \in 1 .. n : f[k] = f[k - 1] + w[k]
  <2>1. \A k \in 1 .. n : k \in 0 .. n /\ k # 0
    BY SMT
  <2>2. QED
    BY <1>2, <1>7, <2>1
<1>9. g[0] = 0 /\ \A k \in 1 .. n : g[k] = g[k - 1] + w[k]
  BY <1>1 DEF Sums
<1>10. \A k \in 0 .. n : f[k] = g[k]
  BY <1>8, <1>9, SumsUnique
<1>11. QED
  BY <1>1, <1>2, <1>5, <1>6, <1>10

(* Sums that start from c.                                                 *)
LEMMA SumsFrom ==
    ASSUME NEW n \in Nat, NEW v, Weights(v, n), NEW g, Sums(g, v, n), NEW c \in Nat,
           NEW a, a[0] = c, \A k \in 1 .. n : a[k] = a[k - 1] + v[k]
    PROVE  a[n] = c + g[n]
<1>1. PICK b : b = [k \in 0 .. n |-> c + g[k]]
  OBVIOUS
<1>2. /\ n \in 0 .. n /\ 0 \in 0 .. n
      /\ \A k \in 1 .. n : k \in 0 .. n /\ k - 1 \in 0 .. n
  BY SMT
<1>3. b[0] = a[0]
  <2>1. g[0] = 0 /\ c + 0 = c
    BY SMT DEF Sums
  <2>2. QED
    BY <1>1, <1>2, <2>1
<1>4. ASSUME NEW k \in 1 .. n PROVE b[k] = b[k - 1] + v[k]
  <2>1. /\ g[k] = g[k - 1] + v[k]
        /\ v[k] \in Nat /\ g[k - 1] \in Nat
    BY <1>2 DEF Sums, Weights
  <2>2. c + (g[k - 1] + v[k]) = (c + g[k - 1]) + v[k]
    BY <2>1, SMT
  <2>3. QED
    BY <1>1, <1>2, <2>1, <2>2
<1>5. \A k \in 0 .. n : a[k] = b[k]
  BY <1>3, <1>4, SumsUnique
<1>6. QED
  BY <1>1, <1>2, <1>5

(* The m weights of u and then the n weights of v are those of w, and their*)
(* total is the sum of the two.                                            *)
Joins(w, u, m, v, n) == /\ \A k \in 1 .. m : w[k] = u[k]
                        /\ \A k \in 1 .. n : w[m + k] = v[k]
LEMMA TotalOfParts ==
    ASSUME NEW m \in Nat, NEW n \in Nat, NEW u, NEW v, NEW w, Weights(u, m), Weights(v, n),
           Joins(w, u, m, v, n)
    PROVE  /\ Total(u, m) \in Nat /\ Total(v, n) \in Nat
           /\ Total(w, m + n) = Total(u, m) + Total(v, n)
<1>1. PICK f : Sums(f, u, m) /\ Total(u, m) = f[m]
  BY TotalIs
<1>2. PICK g : Sums(g, v, n) /\ Total(v, n) = g[n]
  BY TotalIs
<1>3. Weights(w, m + n) /\ m + n \in Nat
  <2>1. \A k \in 1 .. m + n : k \in 1 .. m \/ (k - m \in 1 .. n /\ m + (k - m) = k)
    BY SMT
  <2>2. QED
    BY <2>1 DEF Weights, Joins
<1>4. PICK h : Sums(h, w, m + n) /\ Total(w, m + n) = h[m + n]
  BY <1>3, TotalIs
<1>5. /\ m \in 0 .. m /\ n \in 0 .. n /\ 0 \in 0 .. n
      /\ \A k \in 1 .. m : k \in 1 .. m + n
      /\ \A k \in 1 .. n : m + k \in 1 .. m + n /\ (m + k) - 1 = m + (k - 1)
                           /\ k \in 0 .. n /\ k - 1 \in 0 .. n
      /\ m + 0 = m
  BY SMT
<1>6. h[m] = f[m]
  <2>1. h[0] = f[0] /\ \A k \in 1 .. m : h[k] = h[k - 1] + u[k]
    BY <1>1, <1>4, <1>5 DEF Sums, Joins
  <2>2. \A k \in 1 .. m : f[k] = f[k - 1] + u[k]
    BY <1>1 DEF Sums
  <2>3. \A k \in 0 .. m : h[k] = f[k]
    BY <2>1, <2>2, SumsUnique
  <2>4. QED
    BY <1>5, <2>3
<1>7. h[m + n] = f[m] + g[n]
  <2>1. PICK a : a = [k \in 0 .. n |-> h[m + k]]
    OBVIOUS
  <2>2. f[m] \in Nat
    BY <1>1, <1>5 DEF Sums
  <2>3. a[0] = f[m]
    BY <1>5, <1>6, <2>1
  <2>4. ASSUME NEW k \in 1 .. n PROVE a[k] = a[k - 1] + v[k]
    <3>1. h[m + k] = h[(m + k) - 1] + w[m + k]
      BY <1>4, <1>5 DEF Sums
    <3>2. QED
      BY <1>5, <2>1, <3>1 DEF Joins
  <2>5. a[n] = f[m] + g[n]
    BY <1>2, <2>2, <2>3, <2>4, SumsFrom
  <2>6. QED
    BY <1>5, <2>1, <2>5
<1>8. QED
  BY <1>1, <1>2, <1>4, <1>5, <1>7 DEF Sums

(* The total of no more than the weights v is no more.                     *)
LEMMA TotalBounded ==
    ASSUME NEW n \in Nat, NEW u, NEW v, Weights(u, n), Weights(v, n), \A k \in 1 .. n : u[k] <= v[k]
    PROVE  Total(u, n) <= Total(v, n)
<1>1. PICK f : Sums(f, u, n) /\ Total(u, n) = f[n]
  BY TotalIs
<1>2. PICK g : Sums(g, v, n) /\ Total(v, n) = g[n]
  BY TotalIs
<1> SUFFICES ASSUME ~(f[n] <= g[n]) PROVE FALSE
  BY <1>1, <1>2
<1> DEFINE S == {k \in 0 .. n : ~(f[k] <= g[k])}
<1>3. PICK k \in S : \A m \in S : ~(m < k)
  <2>1. n \in S /\ S \subseteq Nat
    BY SMT
  <2>2. QED
    BY <2>1, LeastElement
<1>4. k \in 0 .. n /\ k # 0 /\ ~(f[k] <= g[k])
  <2>1. f[0] = 0 /\ g[0] = 0 /\ 0 <= 0
    BY <1>1, <1>2, SMT DEF Sums
  <2>2. QED
    BY <1>3, <2>1
<1>5. k \in 1 .. n /\ k - 1 \in 0 .. n /\ k - 1 < k
  BY <1>4, SMT
<1>6. f[k - 1] <= g[k - 1]
  BY <1>3, <1>5
<1>7. /\ f[k] = f[k - 1] + u[k] /\ g[k] = g[k - 1] + v[k] /\ u[k] <= v[k]
      /\ f[k - 1] \in Nat /\ g[k - 1] \in Nat /\ u[k] \in Nat /\ v[k] \in Nat
  BY <1>1, <1>2, <1>5 DEF Sums, Weights
<1>8. f[k - 1] + u[k] <= g[k - 1] + v[k]
  BY <1>6, <1>7, SMT
<1>9. QED
  BY <1>4, <1>7, <1>8

LEMMA TotalOfNone == ASSUME NEW w PROVE Total(w, 0) = 0
<1>1. Weights(w, 0)
  BY SMT DEF Weights
<1>2. PICK f : Sums(f, w, 0) /\ Total(w, 0) = f[0]
  BY <1>1, TotalIs, SMT
<1>3. QED
  BY <1>2 DEF Sums

(* The last weight is part of the total.                                   *)
LEMMA TotalOfSome ==
    ASSUME NEW n \in Nat, n > 0, NEW w, Weights(w, n), w[n] > 0
    PROVE  Total(w, n) > 0
<1>1. PICK f : Sums(f, w, n) /\ Total(w, n) = f[n]
  BY TotalIs
<1>2. n \in 1 .. n /\ n - 1 \in 0 .. n
  BY SMT
<1>3. f[n] = f[n - 1] + w[n] /\ f[n - 1] \in Nat /\ w[n] \in Nat
  BY <1>1, <1>2 DEF Sums, Weights
<1>4. QED
  BY <1>1, <1>3, SMT

LEMMA TotalOfOne == ASSUME NEW w, w[1] \in Nat PROVE Weights(w, 1) /\ Total(w, 1) = w[1]
<1>1. Weights(w, 1)
  BY SMT DEF Weights
<1>2. PICK f : Sums(f, w, 1) /\ Total(w, 1) = f[1]
  BY <1>1, TotalIs, SMT
<1>3. f[0] = 0 /\ f[1] = f[0] + w[1]
  <2>1. 1 \in 1 .. 1 /\ 1 - 1 = 0
    BY SMT
  <2>2. f[0] = 0 /\ f[1] = f[1 - 1] + w[1]
    BY <1>2, <2>1 DEF Sums
  <2>3. QED
    BY <2>1, <2>2
<1>4. QED
  BY <1>1, <1>2, <1>3, SMT
-----------------------------------------------------------------------------
(* What the messages of a file weigh, and what current_size_ knows of them.*)
Written == [id : Nat, size : Nat \ {0}, torn : BOOLEAN]
Weight(m) == IF m.torn THEN 0 ELSE m.size
Sizes(s) == [k \in 1 .. Len(s) |-> s[k].size]
Counted(s) == [k \in 1 .. Len(s) |-> IF s[k].torn THEN 0 ELSE s[k].size]

LEMMA WrittenWeight ==
    ASSUME NEW m \in Written
    PROVE  m.size \in Nat /\ m.size > 0 /\ Weight(m) \in Nat /\ Weight(m) <= m.size
<1>1. m.size \in Nat /\ m.size > 0
  BY SMT DEF Written
<1>2. QED
  BY <1>1, SMT DEF Weight

LEMMA WrittenWeights ==
    ASSUME NEW s \in Seq(Written)
    PROVE  /\ Len(s) \in Nat
           /\ \A k \in 1 .. Len(s) : s[k] \in Written /\ Counted(s)[k] = Weight(s[k])
                                     /\ Sizes(s)[k] = s[k].size
           /\ Weights(Counted(s), Len(s)) /\ Weights(Sizes(s), Len(s))
<1>1. Len(s) \in Nat /\ \A k \in 1 .. Len(s) : s[k] \in Written
  BY LenProperties, ElementOfSeq
<1>2. \A k \in 1 .. Len(s) : Counted(s)[k] = Weight(s[k]) /\ Sizes(s)[k] = s[k].size
  BY DEF Counted, Sizes, Weight
<1>3. QED
  BY <1>1, <1>2, WrittenWeight DEF Weights

LEMMA NothingWeighs == Accounted(<<>>) = 0 /\ Bytes(<<>>) = 0
BY EmptyOK, TotalOfNone DEF Accounted, Bytes

LEMMA AccountedBounds ==
    ASSUME NEW s \in Seq(Written)
    PROVE  /\ Accounted(s) \in Nat /\ Bytes(s) \in Nat /\ Accounted(s) <= Bytes(s)
           /\ Bytes(s) = 0 => s = <<>>
<1>1. Accounted(s) = Total(Counted(s), Len(s)) /\ Bytes(s) = Total(Sizes(s), Len(s))
  BY DEF Accounted, Bytes, Counted, Sizes
<1>2. PICK n \in Nat : n = Len(s)
  BY WrittenWeights
<1>3. PICK u, v : u = Counted(s) /\ v = Sizes(s)
  OBVIOUS
<1>4. Weights(u, n) /\ Weights(v, n)
  BY <1>2, <1>3, WrittenWeights
<1>5. \A k \in 1 .. n : u[k] <= v[k] /\ v[k] > 0
  BY <1>2, <1>3, WrittenWeights, WrittenWeight
<1>6. Total(u, n) <= Total(v, n)
  BY <1>4, <1>5, TotalBounded
<1>7. Total(u, n) \in Nat /\ Total(v, n) \in Nat
  <2>1. PICK f : Sums(f, u, n) /\ Total(u, n) = f[n]
    BY <1>4, TotalIs
  <2>2. PICK g : Sums(g, v, n) /\ Total(v, n) = g[n]
    BY <1>4, TotalIs
  <2>3. n \in 0 .. n
    BY SMT
  <2>4. QED
    BY <2>1, <2>2, <2>3 DEF Sums
<1>8. ASSUME s # <<>> PROVE Total(v, n) # 0
  <2>1. Len(s) \in Nat \ {0}
    BY <1>8, EmptySeq
  <2>2. n > 0 /\ n \in 1 .. n
    BY <1>2, <2>1, SMT
  <2>3. Total(v, n) > 0
    BY <1>4, <1>5, <2>2, TotalOfSome
  <2>4. QED
    BY <1>7, <2>3, SMT
<1>9. QED
  BY <1>1, <1>2, <1>3, <1>6, <1>7, <1>8

LEMMA AccountedConcat ==
    ASSUME NEW s \in Seq(Written), NEW u \in Seq(Written)
    PROVE  s \o u \in Seq(Written) /\ Accounted(s \o u) = Accounted(s) + Accounted(u)
<1>1. PICK c : c = s \o u
  OBVIOUS
<1>2. PICK m \in Nat, n \in Nat : m = Len(s) /\ n = Len(u)
  BY WrittenWeights
<1>3. /\ c \in Seq(Written) /\ Len(c) = m + n
      /\ \A i \in 1 .. m + n : c[i] = IF i <= m THEN s[i] ELSE u[i - m]
  BY <1>1, <1>2, ConcatProperties
<1>4. /\ \A k \in 1 .. m : k \in 1 .. m + n /\ k <= m
      /\ \A k \in 1 .. n : m + k \in 1 .. m + n /\ ~(m + k <= m) /\ (m + k) - m = k
  BY SMT
<1>5. PICK p, q, w : p = Counted(s) /\ q = Counted(u) /\ w = Counted(c)
  OBVIOUS
<1>6. \A k \in 1 .. m + n : w[k] = Weight(c[k])
  BY <1>3, <1>5, WrittenWeights
<1>7. \A k \in 1 .. m : w[k] = p[k]
  <2>1. \A k \in 1 .. m : c[k] = s[k]
    BY <1>3, <1>4
  <2>2. \A k \in 1 .. m : p[k] = Weight(s[k])
    BY <1>2, <1>5, WrittenWeights
  <2>3. QED
    BY <1>6, <1>4, <2>1, <2>2
<1>8. \A k \in 1 .. n : w[m + k] = q[k]
  <2>1. \A k \in 1 .. n : c[m + k] = u[k]
    BY <1>3, <1>4
  <2>2. \A k \in 1 .. n : q[k] = Weight(u[k])
    BY <1>2, <1>5, WrittenWeights
  <2>3. QED
    BY <1>6, <1>4, <2>1, <2>2
<1>9. Weights(p, m) /\ Weights(q, n)
  BY <1>2, <1>5, WrittenWeights
<1>10. Joins(w, p, m, q, n)
  BY <1>7, <1>8 DEF Joins
<1>11. Total(w, m + n) = Total(p, m) + Total(q, n)
  BY <1>9, <1>10, TotalOfParts
<1>12. /\ Accounted(c) = Total(w, m + n) /\ Accounted(s) = Total(p, m)
       /\ Accounted(u) = Total(q, n)
  BY <1>2, <1>3, <1>5 DEF Accounted, Counted
<1>13. QED
  BY <1>1, <1>3, <1>11, <1>12

LEMMA AccountedAppend ==
    ASSUME NEW s \in Seq(Written), NEW x \in Written
    PROVE  Append(s, x) \in Seq(Written) /\ Accounted(Append(s, x)) = Accounted(s) + Weight(x)
<1>1. PICK c : c = Append(s, x)
  OBVIOUS
<1>2. PICK m \in Nat : m = Len(s)
  BY WrittenWeights
<1>3. c \in Seq(Written) /\ Len(c) = m + 1 /\ c[m + 1] = x /\ \A k \in 1 .. m : c[k] = s[k]
  BY <1>1, <1>2, AppendProperties
<1>4. PICK p, q, w : p = Counted(s) /\ q = [k \in 1 .. 1 |-> Weight(x)] /\ w = Counted(c)
  OBVIOUS
<1>5. 1 \in 1 .. 1 /\ m + 1 \in 1 .. m + 1 /\ \A k \in 1 .. m : k \in 1 .. m + 1
  BY SMT
<1>6. q[1] = Weight(x) /\ q[1] \in Nat
  BY <1>4, <1>5, WrittenWeight
<1>7. Weights(q, 1) /\ Total(q, 1) = Weight(x)
  BY <1>6, TotalOfOne
<1>8. Weights(p, m) /\ \A k \in 1 .. m : w[k] = p[k]
  BY <1>2, <1>3, <1>4, <1>5, WrittenWeights
<1>9. \A k \in 1 .. 1 : w[m + k] = q[k]
  <2>1. w[m + 1] = Weight(x)
    BY <1>3, <1>4, <1>5, WrittenWeights
  <2>2. \A k \in 1 .. 1 : k = 1
    BY SMT
  <2>3. QED
    BY <1>6, <2>1, <2>2
<1>10. Total(w, m + 1) = Total(p, m) + Weight(x)
  <2>1. 1 \in Nat
    BY SMT
  <2>2. Joins(w, p, m, q, 1)
    BY <1>8, <1>9 DEF Joins
  <2>3. Total(w, m + 1) = Total(p, m) + Total(q, 1)
    BY <1>7, <1>8, <2>1, <2>2, TotalOfParts
  <2>4. QED
    BY <1>7, <2>3
<1>11. Accounted(c) = Total(w, m + 1) /\ Accounted(s) = Total(p, m)
  BY <1>2, <1>3, <1>4 DEF Accounted, Counted
<1>12. QED
  BY <1>1, <1>3, <1>10, <1>11
-----------------------------------------------------------------------------
(* The messages of file 0 and of the buffer b.                             *)
Base(fs) == IF 0 \in DOMAIN fs THEN fs[0] ELSE <<>>
Held(fs, b) == Base(fs) \o b
HeldOK(fs, b) == Base(fs) \in Seq(Written) /\ b \in Seq(Written)

LEMMA HeldSize ==
    ASSUME NEW fs, NEW b, HeldOK(fs, b)
    PROVE  /\ Held(fs, b) \in Seq(Written)
           /\ Accounted(Held(fs, b)) \in Nat /\ Accounted(Base(fs)) \in Nat /\ Accounted(b) \in Nat
           /\ Accounted(Held(fs, b)) = Accounted(Base(fs)) + Accounted(b)
<1>1. PICK f : f = Base(fs)
  OBVIOUS
<1>2. f \in Seq(Written) /\ b \in Seq(Written) /\ Held(fs, b) = f \o b
  BY <1>1 DEF HeldOK, Held
<1>3. f \o b \in Seq(Written) /\ Accounted(f \o b) = Accounted(f) + Accounted(b)
  BY <1>2, AccountedConcat
<1>4. Accounted(f) \in Nat /\ Accounted(b) \in Nat /\ Accounted(f \o b) \in Nat
  BY <1>2, <1>3, AccountedBounds
<1>5. QED
  BY <1>1, <1>2, <1>3, <1>4

LEMMA NothingWritten == <<>> \in Seq(Written) /\ Accounted(<<>>) = 0
BY EmptySeq, NothingWeighs

LEMMA HeldEmpty ==
    ASSUME NEW fs, Base(fs) = <<>>
    PROVE  HeldOK(fs, <<>>) /\ Held(fs, <<>>) = <<>> /\ Accounted(Held(fs, <<>>)) = 0
<1>1. <<>> \o <<>> = <<>>
  BY NothingWritten, ConcatEmptySeq
<1>2. QED
  BY <1>1, NothingWritten DEF HeldOK, Held

LEMMA HeldDropped ==
    ASSUME NEW fs, NEW b, HeldOK(fs, b)
    PROVE  HeldOK(fs, <<>>) /\ Accounted(Held(fs, <<>>)) <= Accounted(Held(fs, b))
<1>1. HeldOK(fs, <<>>)
  BY NothingWritten DEF HeldOK
<1>2. PICK x, y : x = Accounted(Base(fs)) /\ y = Accounted(b)
  OBVIOUS
<1>3. x \in Nat /\ y \in Nat /\ Accounted(Held(fs, b)) = x + y
  BY <1>2, HeldSize
<1>4. Accounted(Held(fs, <<>>)) = x + 0
  BY <1>1, <1>2, HeldSize, NothingWritten
<1>5. x + 0 <= x + y
  BY <1>3, SMT
<1>6. QED
  BY <1>1, <1>3, <1>4, <1>5

LEMMA HeldStored ==
    ASSUME NEW b, filename = 0, HeldOK(files, b)
    PROVE  HeldOK(Stored(b), <<>>) /\ Accounted(Held(Stored(b), <<>>)) <= Accounted(Held(files, b))
<1>1. CASE 0 \notin DOMAIN files
  BY <1>1, HeldDropped DEF Stored, Exists
<1>2. CASE 0 \in DOMAIN files
  <2>1. PICK c : c = files[0] \o b
    OBVIOUS
  <2>2. PICK r : r = With(files, 0, c)
    OBVIOUS
  <2>3. Stored(b) = r
    BY <1>2, <2>1, <2>2 DEF Stored, Exists
  <2>4. Base(r) = c
    BY <1>2, <2>2 DEF With, Base
  <2>5. Held(files, b) = c
    BY <1>2, <2>1 DEF Held, Base
  <2>6. c \in Seq(Written) /\ Accounted(c) \in Nat
    BY <2>5, HeldSize
  <2>7. HeldOK(r, <<>>) /\ Held(r, <<>>) = c
    BY <2>4, <2>6, NothingWritten, ConcatEmptySeq DEF HeldOK, Held
  <2>8. Accounted(c) <= Accounted(c)
    BY <2>6, SMT
  <2>9. QED
    BY <2>3, <2>5, <2>7, <2>8
<1>3. QED
  BY <1>1, <1>2

LEMMA HeldAppended ==
    ASSUME NEW fs, NEW b, HeldOK(fs, b), NEW x \in Written
    PROVE  /\ HeldOK(fs, Append(b, x))
           /\ Accounted(Held(fs, Append(b, x))) = Accounted(Held(fs, b)) + Weight(x)
<1>1. b \in Seq(Written)
  BY DEF HeldOK
<1>2. PICK c : c = Append(b, x)
  OBVIOUS
<1>3. c \in Seq(Written) /\ Accounted(c) = Accounted(b) + Weight(x)
  BY <1>1, <1>2, AccountedAppend
<1>4. HeldOK(fs, c)
  BY <1>3 DEF HeldOK
<1>5. PICK p, q, w : p = Accounted(Base(fs)) /\ q = Accounted(b) /\ w = Weight(x)
  OBVIOUS
<1>6. /\ p \in Nat /\ q \in Nat /\ w \in Nat /\ Accounted(Held(fs, b)) = p + q
      /\ Accounted(Held(fs, c)) = p + (q + w)
  BY <1>3, <1>4, <1>5, HeldSize, WrittenWeight
<1>7. p + (q + w) = (p + q) + w
  BY <1>6, SMT
<1>8. QED
  BY <1>2, <1>4, <1>5, <1>6, <1>7

LEMMA HeldTruncated ==
    ASSUME NEW fs
    PROVE  Base(Opened(fs, 0, TRUE)) = <<>>
BY DEF Opened, With, Base

LEMMA HeldOpened ==
    ASSUME NEW fs
    PROVE  Base(Opened(fs, 0, FALSE)) = Base(fs) /\ Base(fs) = Opened(fs, 0, FALSE)[0]
BY DEF Opened, With, Base, Exists
-----------------------------------------------------------------------------
(* current_size_ counts at least the messages of an open file that are not *)
(* torn; a call at its write has left room for the message, and has not    *)
(* passed the limit unless the file is empty.                              *)
KnownOK == /\ current_size \in Nat /\ max_size \in Nat
           /\ HeldOK(files, buf)
           /\ is_open => Accounted(Held(files, buf)) <= current_size
RoomLeft == /\ Accounted(Held(files, buf)) + call.msg.size <= call.new_size
            /\ Held(files, buf) # <<>> => call.new_size <= max_size
PendingOK ==
    /\ call.op = "sink_it" => call.msg \in Written /\ call.msg.torn = FALSE
    /\ call.stage = "rotate" => ~is_open /\ (call.op = "sink_it" => call.new_size = call.msg.size)
    /\ call.stage = "write" => call.new_size \in Nat /\ (is_open => RoomLeft)
SizeOK == KnownOK /\ PendingOK

(* A call is over: only the first part says anything.                      *)
LEMMA CallOverSize ==
    ASSUME KnownOK', call' = Idle \/ call' = NoSink
    PROVE  SizeOK'
<1>1. call'.op # "sink_it" /\ call'.stage # "rotate" /\ call'.stage # "write"
  BY CallShapes
<1>2. PendingOK'
  BY <1>1 DEF PendingOK
<1>3. QED
  BY <1>2 DEF SizeOK

(* The first part after a step that left fs and b.                         *)
LEMMA KnownKept ==
    ASSUME NEW fs, NEW b, files' = fs, buf' = b, HeldOK(fs, b),
           current_size' \in Nat, max_size' \in Nat,
           is_open' => Accounted(Held(fs, b)) <= current_size'
    PROVE  KnownOK'
<1>1. HeldOK(files, buf)'
  BY DEF HeldOK, Base
<1>2. (Accounted(Held(files, buf)))' = Accounted(Held(fs, b))
  BY DEF Accounted, Total, Held, Base
<1>3. QED
  BY <1>1, <1>2 DEF KnownOK

(* A step that only flushes or loses the buffer.                           *)
LEMMA BufferGone ==
    ASSUME Inv, KnownOK, NEW fs \in {files, Flushed}, files' = fs, buf' = <<>>,
           current_size' = current_size, max_size' \in Nat, is_open' => is_open
    PROVE  KnownOK'
<1>1. /\ filename = 0 /\ HeldOK(files, buf) /\ current_size \in Nat
      /\ is_open => Accounted(Held(files, buf)) <= current_size
  BY DEF KnownOK, Inv, TypeOK
<1>2. HeldOK(fs, <<>>) /\ Accounted(Held(fs, <<>>)) <= Accounted(Held(files, buf))
  BY <1>1, HeldDropped, HeldStored DEF Flushed
<1>3. Accounted(Held(fs, <<>>)) \in Nat /\ Accounted(Held(files, buf)) \in Nat
  BY <1>1, <1>2, HeldSize
<1>4. is_open' => Accounted(Held(fs, <<>>)) <= current_size'
  BY <1>1, <1>2, <1>3, SMT
<1>5. QED
  BY <1>1, <1>2, <1>4, KnownKept

(* A step that leaves the file truncated, or closed.                       *)
LEMMA Truncated ==
    ASSUME NEW fs, files' = fs, buf' = <<>>, Base(fs) = <<>>,
           current_size' \in Nat, max_size' \in Nat
    PROVE  KnownOK' /\ (Held(files, buf))' = <<>> /\ (Accounted(Held(files, buf)))' = 0
<1>1. HeldOK(fs, <<>>) /\ Held(fs, <<>>) = <<>> /\ Accounted(Held(fs, <<>>)) = 0
  BY HeldEmpty
<1>2. 0 <= current_size'
  BY SMT
<1>3. KnownOK'
  BY <1>1, <1>2, KnownKept
<1>4. (Held(files, buf))' = Held(fs, <<>>)
  BY DEF Held, Base
<1>5. (Accounted(Held(files, buf)))' = Accounted(Held(fs, <<>>))
  BY DEF Accounted, Total, Held, Base
<1>6. QED
  BY <1>1, <1>3, <1>4, <1>5

LEMMA ConstructSize ==
    ASSUME Inv, SizeOK, NEW size_limit \in MaxSizes, NEW files_limit \in MaxFilesSet,
           NEW rotate_on_open \in BOOLEAN, Construct(size_limit, files_limit, rotate_on_open)
    PROVE  SizeOK'
<1>1. PICK fs : fs = Opened(files, 0, FALSE)
  OBVIOUS
<1>2. /\ files' = fs /\ buf' = <<>> /\ max_size' = size_limit /\ current_size' = Bytes(fs[0])
      /\ \/ call' = Rotating("construct", files_limit, NoMsg) /\ ~is_open'
         \/ call' = Idle
  BY <1>1 DEF Construct, OpenOk, Return
<1>3. max_size' \in Nat
  BY <1>2, MaxSizesAssumption, SMT
<1>4. HeldOK(files, buf)
  BY DEF SizeOK, KnownOK
<1>5. Base(fs) = fs[0] /\ Base(fs) \in Seq(Written)
  BY <1>1, <1>4, HeldOpened DEF HeldOK
<1>6. PICK f \in Seq(Written) : f = Base(fs)
  BY <1>5
<1>7. HeldOK(fs, <<>>) /\ Held(fs, <<>>) = f
  BY <1>6, NothingWritten, ConcatEmptySeq DEF HeldOK, Held
<1>8. Accounted(f) <= Bytes(f) /\ Bytes(f) \in Nat
  BY AccountedBounds
<1>9. KnownOK'
  BY <1>2, <1>3, <1>5, <1>6, <1>7, <1>8, KnownKept
<1>10. CASE call' = Idle
  BY <1>9, <1>10, CallOverSize
<1>11. CASE call' = Rotating("construct", files_limit, NoMsg) /\ ~is_open'
  <2>1. PICK c : c = call'
    OBVIOUS
  <2>2. c.op = "construct" /\ c.stage = "rotate"
    BY <1>11, <2>1, RotatingShape
  <2>3. PendingOK'
    BY <1>11, <2>1, <2>2 DEF PendingOK
  <2>4. QED
    BY <1>9, <2>3 DEF SizeOK
<1>12. QED
  BY <1>2, <1>10, <1>11

(* sink_it_ has decided to write without a rotation.                       *)
LEMMA RoomFound ==
    ASSUME KnownOK', NEW m \in Written, m.torn = FALSE, NEW size \in Nat, call' = Writing(m, size),
           is_open' => (Accounted(Held(files, buf)))' + m.size <= size,
           is_open' /\ (Held(files, buf))' # <<>> => size <= max_size'
    PROVE  SizeOK'
<1>1. PICK c : c = call'
  OBVIOUS
<1>2. c.op = "sink_it" /\ c.stage = "write" /\ c.msg = m /\ c.new_size = size
  BY <1>1 DEF Writing
<1>3. is_open' => RoomLeft'
  BY <1>1, <1>2 DEF RoomLeft
<1>4. PendingOK'
  BY <1>1, <1>2, <1>3 DEF PendingOK
<1>5. QED
  BY <1>4 DEF SizeOK

(* rotate_() has been entered from sink_it_ or rotate_now().               *)
LEMMA RotationEntered ==
    ASSUME KnownOK', ~is_open', NEW op, NEW i, NEW m, call' = Rotating(op, i, m),
           op = "sink_it" => m \in Written /\ m.torn = FALSE
    PROVE  SizeOK'
<1>1. PICK c : c = call'
  OBVIOUS
<1>2. c.op = op /\ c.stage = "rotate" /\ c.msg = m /\ c.new_size = m.size
  BY <1>1 DEF Rotating
<1>3. PendingOK'
  BY <1>1, <1>2 DEF PendingOK
<1>4. QED
  BY <1>3 DEF SizeOK

LEMMA SinkItSize ==
    ASSUME Inv, SizeOK, NEW size \in MsgSizes, SinkIt(size)
    PROVE  SizeOK'
<1>1. PICK msg : msg = Msg(logged + 1, size)
  OBVIOUS
<1>2. /\ logged + 1 \in Nat /\ size \in Nat \ {0} /\ size \in Nat
      /\ current_size \in Nat /\ max_size \in Nat /\ KnownOK /\ filename = 0
      /\ current_size + size \in Nat
      /\ HeldOK(files, buf) /\ (is_open => Accounted(Held(files, buf)) <= current_size)
  BY Entries, MsgSizesAssumption, SMT DEF SizeOK, KnownOK
<1>3. msg \in Written /\ msg.torn = FALSE /\ msg.size = size
  BY <1>1, <1>2 DEF Msg, Written
<1>4. Accounted(Held(files, buf)) \in Nat
  BY <1>2, HeldSize
<1>5. call = Idle /\ call.op # "construct" /\ current_size' = current_size /\ max_size' = max_size
  BY CallShapes DEF SinkIt, sinkVars, StartRotation
<1>6. CASE /\ current_size + size <= max_size
           /\ call' = Writing(msg, current_size + size)
           /\ UNCHANGED fileVars
  <2>1. files' = files /\ buf' = buf /\ is_open' = is_open
    BY <1>6 DEF fileVars
  <2>2. KnownOK'
    BY <1>2, <1>5, <2>1, KnownKept
  <2>3. /\ (Accounted(Held(files, buf)))' = Accounted(Held(files, buf))
        /\ (Held(files, buf))' = Held(files, buf)
    BY <2>1 DEF Accounted, Total, Held, Base
  <2>4. is_open => Accounted(Held(files, buf)) + size <= current_size + size
    BY <1>2, <1>4, SMT
  <2>5. QED
    BY <1>2, <1>3, <1>5, <1>6, <2>1, <2>2, <2>3, <2>4, RoomFound
<1>7. CASE FlushThrows /\ Throw
  <2>1. files' = files /\ buf' \in {buf, <<>>} /\ is_open' = is_open
    BY <1>7 DEF FlushThrows
  <2>2. KnownOK'
    <3>1. CASE buf' = <<>>
      BY <1>2, <1>5, <2>1, <3>1, BufferGone
    <3>2. CASE buf' = buf
      BY <1>2, <1>5, <2>1, <3>2, KnownKept
    <3>3. QED
      BY <2>1, <3>1, <3>2
  <2>3. QED
    BY <1>7, <2>2, ThrowEnds, CallOverSize
<1>8. CASE /\ FlushOk
           /\ \/ Throw
              \/ is_open /\ size_after_flush = 0 /\ call' = Writing(msg, current_size + size)
  <2>1. files' = Flushed /\ buf' = <<>> /\ is_open' = is_open
    BY <1>8 DEF FlushOk
  <2>2. KnownOK'
    BY <1>2, <1>5, <2>1, BufferGone
  <2>3. CASE Throw
    BY <2>2, <2>3, ThrowEnds, CallOverSize
  <2>4. CASE /\ is_open /\ size_after_flush = 0
             /\ call' = Writing(msg, current_size + size)
    <3>1. PICK fs : fs = Flushed
      OBVIOUS
    <3>2. HeldOK(fs, <<>>)
      BY <1>2, <3>1, HeldStored DEF Flushed
    <3>3. Base(fs) = <<>>
      <4>1. CASE 0 \in DOMAIN fs
        <5>1. Base(fs) = fs[0] /\ Base(fs) \in Seq(Written)
          BY <3>2, <4>1 DEF Base, HeldOK
        <5>2. Bytes(fs[0]) = 0
          BY <1>2, <2>4, <3>1 DEF size_after_flush
        <5>3. QED
          BY <5>1, <5>2, AccountedBounds
      <4>2. CASE 0 \notin DOMAIN fs
        BY <4>2 DEF Base
      <4>3. QED
        BY <4>1, <4>2
    <3>4. (Held(files, buf))' = <<>> /\ (Accounted(Held(files, buf)))' = 0
      BY <1>2, <1>5, <2>1, <3>1, <3>3, Truncated
    <3>5. 0 + size <= current_size + size
      BY <1>2, SMT
    <3>6. QED
      BY <1>2, <1>3, <2>2, <2>4, <3>4, <3>5, RoomFound
  <2>5. QED
    BY <1>8, <2>3, <2>4
<1>9. CASE StartRotation("sink_it", msg, Flushed)
  <2>1. files' = Flushed /\ buf' = <<>> /\ ~is_open' /\ call' = Rotating("sink_it", max_files, msg)
    BY <1>9 DEF StartRotation
  <2>2. KnownOK'
    BY <1>2, <1>5, <2>1, BufferGone
  <2>3. QED
    BY <1>3, <2>1, <2>2, RotationEntered
<1>10. QED
  BY <1>1, <1>6, <1>7, <1>8, <1>9 DEF SinkIt

LEMMA WriteSize ==
    ASSUME Inv, SizeOK, Write
    PROVE  SizeOK'
<1>1. /\ call.stage = "write" /\ call.op = "sink_it" /\ filename = 0
      /\ call.msg \in Written /\ call.msg.torn = FALSE /\ call.new_size \in Nat
      /\ is_open => RoomLeft
      /\ HeldOK(files, buf) /\ current_size \in Nat /\ max_size \in Nat
      /\ is_open => Accounted(Held(files, buf)) <= current_size
  BY DEF Write, Inv, TypeOK, CallOK, SizeOK, KnownOK, PendingOK
<1>2. max_size' = max_size /\ call' = Idle
  BY <1>1 DEF Write, Return, Throw
<1>3. PICK m : m = call.msg
  OBVIOUS
<1>4. Torn(m) \in Written /\ Weight(Torn(m)) = 0 /\ Weight(m) = m.size /\ m \in Written
  BY <1>1, <1>3 DEF Torn, Written, Weight
<1>5. PICK a : a = Accounted(Held(files, buf))
  OBVIOUS
<1>6. /\ HeldOK(files, Append(buf, m))
      /\ Accounted(Held(files, Append(buf, m))) = a + m.size
      /\ HeldOK(files, Append(buf, Torn(m)))
      /\ Accounted(Held(files, Append(buf, Torn(m)))) = a + 0
      /\ a \in Nat /\ m.size \in Nat
  <2>1. a \in Nat /\ m.size \in Nat
    BY <1>1, <1>4, <1>5, HeldSize, WrittenWeight
  <2>2. /\ HeldOK(files, Append(buf, m))
        /\ Accounted(Held(files, Append(buf, m))) = a + m.size
    BY <1>1, <1>4, <1>5, HeldAppended
  <2>3. PICK x \in Written : x = Torn(m)
    BY <1>4
  <2>4. /\ HeldOK(files, Append(buf, x))
        /\ Accounted(Held(files, Append(buf, x))) = a + 0
    BY <1>1, <1>4, <1>5, <2>3, HeldAppended
  <2>5. QED
    BY <2>1, <2>2, <2>3, <2>4
<1>7. CASE WriteStores(m) /\ current_size' = call.new_size
  <2>1. is_open /\ RoomLeft /\ a + m.size <= call.new_size
    BY <1>1, <1>3, <1>5, <1>7 DEF WriteStores, RoomLeft
  <2>2. CASE files' = files /\ buf' = Append(buf, m)
    BY <1>1, <1>2, <1>6, <1>7, <2>1, <2>2, KnownKept, CallOverSize
  <2>3. CASE files' = Stored(Append(buf, m)) /\ buf' = <<>>
    <3>1. PICK b : b = Append(buf, m)
      OBVIOUS
    <3>2. PICK fs : fs = Stored(b)
      OBVIOUS
    <3>3. HeldOK(files, b) /\ Accounted(Held(files, b)) = a + m.size
      BY <1>6, <3>1
    <3>4. HeldOK(fs, <<>>) /\ Accounted(Held(fs, <<>>)) <= a + m.size
      BY <1>1, <3>2, <3>3, HeldStored
    <3>5. PICK x \in Nat : x = Accounted(Held(fs, <<>>))
      BY <3>4, HeldSize
    <3>6. x <= call.new_size
      BY <1>1, <1>6, <2>1, <3>4, <3>5, SMT
    <3>7. KnownOK'
      BY <1>1, <1>2, <1>7, <2>3, <3>1, <3>2, <3>4, <3>5, <3>6, KnownKept
    <3>8. QED
      BY <1>2, <3>7, CallOverSize
  <2>4. QED
    BY <1>7, <2>2, <2>3 DEF WriteStores
<1>8. CASE WriteIgnored /\ current_size' = call.new_size
  <2>1. files' = files /\ buf' = buf /\ ~is_open'
    BY <1>8 DEF WriteIgnored, fileVars
  <2>2. KnownOK'
    BY <1>1, <1>2, <1>8, <2>1, KnownKept
  <2>3. QED
    BY <1>2, <2>2, CallOverSize
<1>9. CASE WriteThrows(m) /\ current_size' = current_size
  <2>1. /\ files' = files /\ is_open /\ is_open' = is_open
        /\ buf' \in {buf, Append(buf, Torn(m))} /\ a <= current_size
    BY <1>1, <1>5, <1>9 DEF WriteThrows
  <2>2. a + 0 <= current_size
    BY <1>1, <1>6, <2>1, SMT
  <2>3. PICK b \in {buf, Append(buf, Torn(m))} : b = buf'
    BY <2>1
  <2>4. HeldOK(files, b) /\ Accounted(Held(files, b)) <= current_size
    BY <1>1, <1>5, <1>6, <2>1, <2>2, <2>3
  <2>5. KnownOK'
    BY <1>1, <1>2, <1>9, <2>1, <2>3, <2>4, KnownKept
  <2>6. QED
    BY <1>2, <2>5, CallOverSize
<1>10. QED
  BY <1>3, <1>7, <1>8, <1>9 DEF Write, WriteOk

LEMMA RotateNowSize ==
    ASSUME Inv, SizeOK, RotateNow
    PROVE  SizeOK'
<1>1. PICK fs \in {Flushed, files} : StartRotation("rotate_now", NoMsg, fs)
  BY DEF RotateNow
<1>2. /\ files' = fs /\ buf' = <<>> /\ ~is_open' /\ call' = Rotating("rotate_now", max_files, NoMsg)
      /\ current_size' = current_size /\ max_size' = max_size
  BY <1>1 DEF StartRotation, sinkVars
<1>3. KnownOK /\ max_size \in Nat
  BY DEF SizeOK, KnownOK
<1>4. KnownOK'
  BY <1>2, <1>3, BufferGone
<1>5. QED
  BY <1>2, <1>4, RotationEntered

(* The loop of rotate_() only ever empties index 0.                        *)
LEMMA ShiftSize ==
    ASSUME Inv, SizeOK, ShiftFile
    PROVE  SizeOK'
<1>1. /\ call.stage = "rotate" /\ call.i \in Nat /\ call.i > 0 /\ ~is_open
      /\ DOMAIN call = {"op", "stage", "i", "msg", "new_size"}
      /\ files' = IF Exists(files, call.i - 1) THEN rename_file(files, call.i - 1, call.i) ELSE files
      /\ call' = [call EXCEPT !.i = call.i - 1]
      /\ UNCHANGED <<buf, is_open, current_size, max_size>>
      /\ HeldOK(files, buf) /\ current_size \in Nat /\ max_size \in Nat
  BY DEF ShiftFile, Inv, TypeOK, CallOK, SizeOK, KnownOK, PendingOK, sinkVars
<1>2. /\ call'.op = call.op /\ call'.stage = call.stage /\ call'.msg = call.msg
      /\ call'.new_size = call.new_size
  BY <1>1
<1>3. PendingOK'
  BY <1>1, <1>2 DEF SizeOK, PendingOK
<1>4. PICK fs : fs = files'
  OBVIOUS
<1>5. Base(fs) \in {Base(files), <<>>}
  <2>1. CASE call.i - 1 \in DOMAIN files
    <3>1. PICK src, target : src = call.i - 1 /\ target = call.i
      OBVIOUS
    <3>2. src # target /\ target # 0 /\ src \in DOMAIN files
      BY <1>1, <2>1, <3>1, SMT
    <3>3. fs = rename_file(files, src, target)
      BY <1>1, <1>4, <2>1, <3>1 DEF Exists
    <3>4. /\ DOMAIN fs = (DOMAIN files \ {src}) \cup {target}
          /\ \A i \in DOMAIN files : i # src /\ i # target => fs[i] = files[i]
      BY <3>2, <3>3 DEF rename_file, With, Without, Restrict
    <3>5. QED
      BY <3>2, <3>4 DEF Base
  <2>2. CASE call.i - 1 \notin DOMAIN files
    BY <1>1, <1>4, <2>2 DEF Exists
  <2>3. QED
    BY <2>1, <2>2
<1>6. HeldOK(fs, buf)
  BY <1>1, <1>5, NothingWritten DEF HeldOK
<1>7. KnownOK'
  BY <1>1, <1>4, <1>6, KnownKept
<1>8. QED
  BY <1>3, <1>7 DEF SizeOK

LEMMA ShiftFailsSize ==
    ASSUME Inv, SizeOK, ShiftFails
    PROVE  SizeOK'
<1>1. PICK fs \in {files, Without(files, call.i)} :
         \/ OpenOk(fs, filename, TRUE) /\ current_size' = 0
         \/ OpenThrows(fs, filename, TRUE) /\ UNCHANGED current_size
  BY DEF ShiftFails
<1>2. /\ filename = 0 /\ current_size \in Nat /\ max_size' = max_size /\ max_size \in Nat
      /\ HeldOK(files, buf)
      /\ call' = Idle \/ call' = NoSink
  BY ThrowEnds DEF ShiftFails, Inv, TypeOK, SizeOK, KnownOK
<1>3. current_size' \in Nat
  <2>1. current_size' \in {current_size, 0} /\ 0 \in Nat
    BY <1>1
  <2>2. QED
    BY <1>2, <2>1
<1>4. PICK gs : gs = files'
  OBVIOUS
<1>5. CASE gs = Opened(fs, 0, TRUE) /\ buf' = <<>>
  <2>1. Base(gs) = <<>>
    BY <1>5, HeldTruncated
  <2>2. KnownOK'
    BY <1>2, <1>3, <1>4, <1>5, <2>1, Truncated
  <2>3. QED
    BY <1>2, <2>2, CallOverSize
<1>6. CASE gs = fs /\ buf' = <<>> /\ ~is_open'
  <2>1. DOMAIN Without(files, call.i) \subseteq DOMAIN files
        /\ \A i \in DOMAIN Without(files, call.i) : Without(files, call.i)[i] = files[i]
    BY DEF Without, Restrict
  <2>2. Base(fs) \in {Base(files), <<>>}
    BY <1>1, <2>1 DEF Base
  <2>3. HeldOK(gs, <<>>)
    BY <1>2, <1>6, <2>2, NothingWritten DEF HeldOK
  <2>4. KnownOK'
    BY <1>2, <1>3, <1>4, <1>6, <2>3, KnownKept
  <2>5. QED
    BY <1>2, <2>4, CallOverSize
<1>7. QED
  BY <1>1, <1>2, <1>4, <1>5, <1>6 DEF OpenOk, OpenThrows

LEMMA ReopenOkSize ==
    ASSUME Inv, SizeOK, ReopenOk
    PROVE  SizeOK'
<1>1. /\ call.stage = "rotate" /\ filename = 0 /\ current_size \in Nat /\ max_size \in Nat
      /\ max_size' = max_size /\ current_size' \in {current_size, 0}
      /\ OpenOk(files, 0, TRUE)
  BY DEF ReopenOk, Return, Inv, TypeOK, SizeOK, KnownOK
<1>2. PICK fs : fs = Opened(files, 0, TRUE)
  OBVIOUS
<1>3. files' = fs /\ buf' = <<>> /\ Base(fs) = <<>> /\ current_size' \in Nat
  <2>1. 0 \in Nat
    BY SMT
  <2>2. QED
    BY <1>1, <1>2, <2>1, HeldTruncated DEF OpenOk
<1>4. KnownOK' /\ (Held(files, buf))' = <<>> /\ (Accounted(Held(files, buf)))' = 0
  BY <1>1, <1>3, Truncated
<1>5. CASE call' = Idle
  BY <1>4, <1>5, CallOverSize
<1>6. CASE call.op = "sink_it" /\ call' = Writing(call.msg, call.new_size)
  <2>1. call.msg \in Written /\ call.msg.torn = FALSE /\ call.new_size = call.msg.size
    BY <1>1, <1>6 DEF SizeOK, PendingOK
  <2>2. PICK m, size : m = call.msg /\ size = call.new_size
    OBVIOUS
  <2>3. m \in Written /\ m.torn = FALSE /\ size = m.size /\ size \in Nat
    BY <2>1, <2>2, WrittenWeight
  <2>4. 0 + m.size <= size
    BY <2>3, SMT
  <2>5. QED
    BY <1>4, <1>6, <2>2, <2>3, <2>4, RoomFound
<1>7. QED
  BY <1>5, <1>6 DEF ReopenOk, Return

LEMMA ReopenFailsSize ==
    ASSUME Inv, SizeOK, ReopenFails
    PROVE  SizeOK'
<1>1. /\ filename = 0 /\ current_size \in Nat /\ max_size \in Nat /\ HeldOK(files, buf)
      /\ max_size' = max_size /\ current_size' = current_size
      /\ OpenThrows(files, 0, TRUE)
      /\ call' = Idle \/ call' = NoSink
  BY ThrowEnds DEF ReopenFails, sinkVars, Inv, TypeOK, SizeOK, KnownOK
<1>2. PICK fs : fs = files'
  OBVIOUS
<1>3. fs \in {files, Opened(files, 0, TRUE)} /\ buf' = <<>> /\ ~is_open'
  BY <1>1, <1>2 DEF OpenThrows
<1>4. HeldOK(fs, <<>>)
  BY <1>1, <1>3, HeldTruncated, NothingWritten DEF HeldOK
<1>5. KnownOK'
  BY <1>1, <1>2, <1>3, <1>4, KnownKept
<1>6. QED
  BY <1>1, <1>5, CallOverSize

LEMMA OtherSize ==
    ASSUME Inv, SizeOK,
           \/ Flush \/ Destroy \/ Crash
           \/ \E n \in MaxSizes : SetMaxSize(n)
           \/ \E n \in MaxFilesSet : SetMaxFiles(n)
    PROVE  SizeOK'
<1>1. /\ KnownOK /\ current_size \in Nat /\ max_size \in Nat /\ HeldOK(files, buf)
      /\ is_open => Accounted(Held(files, buf)) <= current_size
  BY DEF SizeOK, KnownOK
<1>2. CASE files' = files /\ buf' = buf /\ is_open' = is_open /\ current_size' = current_size
           /\ max_size' \in Nat /\ call' = Idle
  <2>1. KnownOK'
    BY <1>1, <1>2, KnownKept
  <2>2. QED
    BY <1>2, <2>1, CallOverSize
<1>3. CASE files' \in {files, Flushed} /\ buf' = <<>> /\ (is_open' => is_open)
           /\ current_size' = current_size /\ max_size' = max_size /\ (call' = Idle \/ call' = NoSink)
  <2>1. PICK fs \in {files, Flushed} : fs = files'
    BY <1>3
  <2>2. KnownOK'
    BY <1>1, <1>3, <2>1, BufferGone
  <2>3. QED
    BY <1>3, <2>2, CallOverSize
<1>4. CASE Flush
  <2>1. /\ call' = Idle /\ current_size' = current_size /\ max_size' = max_size
        /\ is_open' = is_open
        /\ \/ files' = Flushed /\ buf' = <<>>
           \/ files' = files /\ buf' \in {buf, <<>>}
    BY <1>4, CallShapes DEF Flush, FlushOk, FlushThrows, Return, Throw, sinkVars
  <2>2. QED
    BY <1>1, <1>2, <1>3, <2>1
<1>5. CASE Destroy \/ Crash
  BY <1>3, <1>5 DEF Destroy, Crash, sinkVars
<1>6. ASSUME NEW n \in MaxSizes, SetMaxSize(n) PROVE SizeOK'
  <2>1. n \in Nat
    BY MaxSizesAssumption, SMT
  <2>2. QED
    BY <1>2, <1>6, <2>1 DEF SetMaxSize, fileVars
<1>7. ASSUME NEW n \in MaxFilesSet, SetMaxFiles(n) PROVE SizeOK'
  BY <1>1, <1>2, <1>7 DEF SetMaxFiles, fileVars
<1>8. QED
  BY <1>4, <1>5, <1>6, <1>7

LEMMA NextKeepsSize == ASSUME Inv, SizeOK, [Next]_vars PROVE SizeOK'
<1>1. CASE UNCHANGED vars
  <2>1. /\ UNCHANGED <<files, buf, is_open, current_size, max_size, call>>
        /\ HeldOK(files, buf) /\ current_size \in Nat /\ max_size \in Nat
        /\ is_open => Accounted(Held(files, buf)) <= current_size
    BY <1>1 DEF vars, fileVars, sinkVars, SizeOK, KnownOK
  <2>2. KnownOK'
    BY <2>1, KnownKept
  <2>3. /\ (Accounted(Held(files, buf)))' = Accounted(Held(files, buf))
        /\ (Held(files, buf))' = Held(files, buf)
    BY <2>1 DEF Accounted, Total, Held, Base
  <2>4. RoomLeft => RoomLeft'
    BY <2>1, <2>3 DEF RoomLeft
  <2>5. PendingOK'
    BY <2>1, <2>4 DEF SizeOK, PendingOK
  <2>6. QED
    BY <2>2, <2>5 DEF SizeOK
<1>2. QED
  BY <1>1, ConstructSize, SinkItSize, WriteSize, RotateNowSize, ShiftSize, ShiftFailsSize,
     ReopenOkSize, ReopenFailsSize, OtherSize DEF Next

LEMMA InitSize == ASSUME Init PROVE SizeOK
<1>1. DOMAIN files = {} /\ buf = <<>> /\ ~is_open /\ current_size = 0 /\ call = NoSink
  <2>1. DOMAIN << >> = {}
    BY EmptySeq, LenProperties, SMT
  <2>2. QED
    BY <2>1 DEF Init
<1>2. max_size \in Nat /\ current_size \in Nat
  BY <1>1, MaxSizesAssumption, SMT DEF Init
<1>3. HeldOK(files, buf)
  BY <1>1, NothingWritten DEF HeldOK, Base
<1>4. PendingOK
  BY <1>1, CallShapes DEF PendingOK
<1>5. QED
  BY <1>1, <1>2, <1>3, <1>4 DEF SizeOK, KnownOK

LEMMA SizeInvariance == Spec => [](Inv /\ SizeOK)
<1>1. Inv /\ SizeOK /\ [Next]_vars => Inv' /\ SizeOK'
  BY NextKeepsInv, NextKeepsSize
<1>2. Init => Inv /\ SizeOK
  BY InitInv, InitSize
<1>3. QED
  BY <1>1, <1>2, PTL DEF Spec

LEMMA ContentIsHeld == Content(0) = Held(files, buf) /\ (Content(0))' = Held(files', buf')
BY DEF Content, Held, Base

(* A step of a call that is at its write: the write, a crash or none.      *)
LEMMA StepsAtWrite ==
    ASSUME [Next]_vars, call.stage = "write"
    PROVE  Write \/ Crash \/ UNCHANGED vars
<1>1. call # NoSink /\ call # Idle
  BY CallShapes
<1>2. QED
  BY <1>1 DEF Next, Construct, SinkIt, RotateNow, ShiftFile, ShiftFails, ReopenOk, ReopenFails,
              Flush, SetMaxSize, SetMaxFiles, Destroy

LEMMA DroppedIsShorter ==
    ASSUME NEW fs, NEW b, HeldOK(fs, b)
    PROVE  ~(Len(Held(fs, <<>>)) > Len(Held(fs, b)))
<1>1. PICK f \in Seq(Written) : f = Base(fs)
  BY DEF HeldOK
<1>2. b \in Seq(Written) /\ <<>> \in Seq(Written) /\ Len(<<>>) = 0
  BY NothingWritten, EmptyOK DEF HeldOK
<1>3. Len(f) \in Nat /\ Len(b) \in Nat
  BY <1>2, LenProperties
<1>4. Len(f \o b) = Len(f) + Len(b) /\ Len(f \o <<>>) = Len(f) + 0
  BY <1>2, ConcatProperties
<1>5. ~(Len(f) + 0 > Len(f) + Len(b))
  BY <1>3, SMT
<1>6. QED
  BY <1>1, <1>4, <1>5 DEF Held

(* For all limits, sizes and numbers of messages: a write that adds to a   *)
(* file with messages leaves it within max_size_, torn writes not counted, *)
(* across restarts, changed limits and failed rotations (sink_it_).        *)
THEOREM LimitKept == Spec => WriteWithinLimit
<1>1. ASSUME Inv, SizeOK, [Next]_vars, call.stage = "write",
             Len(Content(0)') > Len(Content(0)), Content(0) # <<>>
      PROVE  Accounted(Content(0)') <= max_size
  <2>1. PICK c, d : c = Held(files, buf) /\ d = Held(files', buf')
    OBVIOUS
  <2>2. Content(0) = c /\ Content(0)' = d /\ c # <<>> /\ Len(d) > Len(c)
    BY <1>1, <2>1, ContentIsHeld
  <2>3. /\ HeldOK(files, buf) /\ filename = 0 /\ max_size \in Nat /\ call.new_size \in Nat
        /\ call.op = "sink_it" /\ call.msg \in Written /\ call.msg.torn = FALSE
        /\ is_open => RoomLeft
    BY <1>1 DEF SizeOK, KnownOK, PendingOK, Inv, TypeOK, CallOK
  <2>4. c \in Seq(Written) /\ Len(c) \in Nat /\ ~(Len(c) > Len(c))
    BY <2>1, <2>3, HeldSize, LenProperties, SMT
  <2>5. Write /\ is_open
    <3>1. ~(files' = files /\ buf' = buf)
      BY <2>1, <2>2, <2>4
    <3>2. ~(files' = files /\ buf' = <<>>)
      BY <2>1, <2>2, <2>3, DroppedIsShorter
    <3>3. Write
      BY <1>1, <3>1, <3>2, StepsAtWrite DEF Crash, vars, fileVars
    <3>4. QED
      BY <3>1, <3>3 DEF Write, WriteOk, WriteStores, WriteIgnored, WriteThrows, fileVars
  <2>6. PICK m \in Written : m = call.msg
    BY <2>3
  <2>7. /\ Accounted(c) \in Nat /\ m.size \in Nat
        /\ Accounted(c) + m.size <= call.new_size /\ call.new_size <= max_size
    BY <2>1, <2>2, <2>3, <2>5, <2>6, HeldSize, WrittenWeight DEF RoomLeft
  <2>8. Accounted(c) + m.size <= max_size /\ Accounted(c) + 0 <= Accounted(c) + m.size
    BY <2>3, <2>7, SMT
  <2>9. /\ Torn(m) \in Written /\ Weight(Torn(m)) = 0 /\ Weight(m) = m.size
    BY <2>3, <2>6 DEF Torn, Written, Weight
  <2>10. PICK b, t : b = Append(buf, m) /\ t = Append(buf, Torn(m))
    OBVIOUS
  <2>11. /\ HeldOK(files, b) /\ Accounted(Held(files, b)) = Accounted(c) + m.size
         /\ HeldOK(files, t) /\ Accounted(Held(files, t)) = Accounted(c) + 0
    BY <2>1, <2>3, <2>9, <2>10, HeldAppended
  <2>12. \/ files' = files /\ buf' = b
         \/ files' = Stored(b) /\ buf' = <<>>
         \/ files' = files /\ buf' = t
    <3>1. ~(files' = files /\ buf' = buf)
      BY <2>1, <2>2, <2>4
    <3>2. QED
      BY <2>5, <2>6, <2>10, <3>1 DEF Write, WriteOk, WriteStores, WriteIgnored, WriteThrows
  <2>13. Accounted(d) <= Accounted(c) + m.size
    <3>1. CASE files' = files /\ buf' = b
      <4>1. Accounted(d) = Accounted(c) + m.size /\ Accounted(c) + m.size <= Accounted(c) + m.size
        BY <2>1, <2>7, <2>11, <3>1, SMT
      <4>2. QED
        BY <4>1
    <3>2. CASE files' = Stored(b) /\ buf' = <<>>
      BY <2>1, <2>3, <2>11, <3>2, HeldStored
    <3>3. CASE files' = files /\ buf' = t
      BY <2>1, <2>8, <2>11, <3>3
    <3>4. QED
      BY <2>12, <3>1, <3>2, <3>3
  <2>14. Accounted(d) \in Nat
    <3>1. HeldOK(files', buf')
      BY <2>3, <2>11, <2>12, HeldStored
    <3>2. QED
      BY <2>1, <3>1, HeldSize
  <2>15. Accounted(d) <= max_size
    BY <2>3, <2>7, <2>8, <2>13, <2>14, SMT
  <2>16. QED
    BY <2>2, <2>15
<1>2. Inv /\ SizeOK /\ [Next]_vars
         => [(call.stage = "write" /\ Len(Content(0)') > Len(Content(0)) /\ Content(0) # <<>>)
                => Accounted(Content(0)') <= max_size]_vars
  BY <1>1
<1>3. QED
  BY <1>2, SizeInvariance, PTL DEF Spec, WriteWithinLimit
=============================================================================
