----------------------------- MODULE FileHelper -----------------------------
(***************************************************************************)
(* details/file_helper: the stdio file under every file sink, and the file *)
(* system it writes to.  A file is the sequence of messages in it; a       *)
(* message is [id, size, torn], torn when the write that stored it failed  *)
(* part-way.  What fwrite accepted and stdio has not yet passed to the     *)
(* file is buf: a crash loses it, and size(), which asks the operating     *)
(* system, does not see it.                                                *)
(*                                                                         *)
(* The operators are the member functions as action fragments: those that  *)
(* end in Ok return normally, those that end in Throws throw spdlog_ex.    *)
(* A failing system call is a fault of the environment; MaxFaults bounds   *)
(* the calls of the sink in which one occurs.  Event handlers are left out.*)
(***************************************************************************)
EXTENDS Integers, Sequences, SequencesExt, Functions

CONSTANT MaxFaults      \* bound: calls in which a system call fails
ASSUME MaxFaultsAssumption == MaxFaults \in Nat

VARIABLES files,        \* the files that exist: name -> messages on disk
          buf,          \* messages still in the stdio buffer of fd_
          filename,     \* filename_
          is_open,      \* fd_ # nullptr
          faults        \* faults so far

fileVars == <<files, buf, filename, is_open, faults>>

-----------------------------------------------------------------------------
Ids(msgs) == {msgs[k].id : k \in 1 .. Len(msgs)}

OnDisk(fs) == UNION {Ids(fs[n]) : n \in DOMAIN fs}

(* The sum of the first n numbers of w.                                    *)
Total(w, n) == LET upto[k \in 0 .. n] == IF k = 0 THEN 0 ELSE upto[k - 1] + w[k] IN upto[n]

Bytes(msgs) == Total([k \in 1 .. Len(msgs) |-> msgs[k].size], Len(msgs))

Torn(m) == [m EXCEPT !.torn = TRUE]

Fault == faults < MaxFaults /\ faults' = faults + 1

NoFault == UNCHANGED faults

Exists(fs, name) == name \in DOMAIN fs

With(fs, name, msgs) ==
    [n \in DOMAIN fs \cup {name} |-> IF n = name THEN msgs ELSE fs[n]]

Without(fs, name) == Restrict(fs, DOMAIN fs \ {name})

(* The files after msgs were written through fd_.  A file removed while it *)
(* is open takes what is written to it along.                              *)
Stored(msgs) == IF Exists(files, filename)
                THEN With(files, filename, files[filename] \o msgs)
                ELSE files

(* The files once the buffer has been handed to the operating system.      *)
Flushed == Stored(buf)

(* fs after fopen(name, "wb"), or "ab".                                    *)
Opened(fs, name, truncate) ==
    IF truncate \/ ~Exists(fs, name) THEN With(fs, name, <<>>) ELSE fs

(* close() ignores what fclose returns: on a full disk the buffer is lost  *)
(* and nobody is told.  fs: the files afterwards.                          *)
ClosedFiles(fs) == \/ fs = Flushed /\ NoFault
                   \/ buf # <<>> /\ fs = files /\ Fault

(* open(name, truncate), the former file being closed and the files being  *)
(* fs.                                                                     *)
OpenOk(fs, name, truncate) ==
    /\ files' = Opened(fs, name, truncate)
    /\ buf' = <<>>
    /\ filename' = name
    /\ is_open' = TRUE

(* All open_tries_ attempts failed; one may have got past the truncation.  *)
OpenThrows(fs, name, truncate) ==
    /\ files' \in {fs} \cup (IF truncate THEN {Opened(fs, name, TRUE)} ELSE {})
    /\ buf' = <<>>
    /\ filename' = name
    /\ is_open' = FALSE

(* flush(): fflush(nullptr) flushes every stream and succeeds.             *)
FlushOk == /\ files' = Flushed
           /\ buf' = <<>>
           /\ NoFault
           /\ UNCHANGED <<filename, is_open>>

(* A failing fflush keeps the buffer or, with some C libraries, drops it.  *)
FlushThrows == /\ is_open
               /\ buf # <<>>
               /\ buf' \in {buf, <<>>}
               /\ Fault
               /\ UNCHANGED <<files, filename, is_open>>

(* write(m) to an open file: stdio keeps the message, or passes the whole  *)
(* buffer on because it is full.                                           *)
WriteStores(m) ==
    /\ is_open
    /\ \/ buf' = Append(buf, m) /\ UNCHANGED files
       \/ buf' = <<>> /\ files' = Stored(Append(buf, m))
    /\ NoFault
    /\ UNCHANGED <<filename, is_open>>

(* write() on a closed file returns at once.                               *)
WriteIgnored == ~is_open /\ UNCHANGED fileVars

WriteOk(m) == WriteStores(m) \/ WriteIgnored

WriteThrows(m) == /\ is_open
                  /\ buf' \in {buf, Append(buf, Torn(m))}
                  /\ Fault
                  /\ UNCHANGED <<files, filename, is_open>>

(* size() of an open file once it has been flushed; without the flush the  *)
(* buffer would not count.                                                 *)
size_unflushed == Bytes(files[filename])

size_after_flush == Bytes(Flushed[filename])
=============================================================================
