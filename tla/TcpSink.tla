------------------------------ MODULE TcpSink ------------------------------
(***************************************************************************)
(* sinks/tcp_sink.h and details/tcp_client.h: connect on demand, send the  *)
(* whole message, close the connection and throw on an error.  A message   *)
(* is MsgSize units; the peer may go away after any of them.               *)
(***************************************************************************)
EXTENDS Integers, Sequences

CONSTANTS MsgSize,          \* units of a message on the wire
          Addresses,        \* what getaddrinfo returns for the host
          Timed,            \* config_.timeout_ms > 0
          LazyConnect       \* config_.lazy_connect

ASSUME TcpAssumption == MsgSize \in Nat \ {0} /\ Addresses \in Nat /\ {Timed, LazyConnect} \subseteq BOOLEAN

VARIABLES
    socket,         \* socket_ as the client sees it: Open or Closed
    torn            \* history: what cut off an unfinished message that the connection
                    \* in use carries, or Whole

tcp_vars == <<socket, torn>>

Closed == "closed"
Open == "open"
Whole == "whole"

is_connected == socket # Closed

(* connect_socket_with_timeout: what ::connect, ::select and SO_ERROR say. *)
Attempts == [rv       : {"ok", "EISCONN", "EINPROGRESS", "error"},
             select   : {"writable", "timeout"},
             so_error : {"none", "EISCONN", "error"}]

connect_socket_with_timeout(a) ==
    \/ a.rv \in {"ok", "EISCONN"}
    \/ Timed /\ a.rv = "EINPROGRESS" /\ a.select = "writable" /\ a.so_error # "error"

(* tcp_client::connect, which closes first and tries each address in turn: *)
(* TRUE when some attempt succeeds, otherwise it throws.                   *)
ConnectResults ==
    {\E i \in 1 .. Addresses : tried[i] :
        tried \in [1 .. Addresses -> {connect_socket_with_timeout(a) : a \in Attempts}]}

(* tcp_sink::tcp_sink.                                                     *)
TcpInit == socket = (IF LazyConnect THEN Closed ELSE Open) /\ torn = Whole

(* How send leaves its loop: with everything sent, at a ::send that failed *)
(* or at one that returned 0.                                              *)
Endings == {"all", "error", "zero"}

(* send that leaves a broken connection open.                              *)
AfterSend_open(ending) == Open

(* The socket after send: only an error closes it.                         *)
AfterSend(ending) == IF ending = "error" THEN Closed ELSE Open

(* tcp_sink::sink_it_.  ::send takes part of the data at a time; n is what *)
(* the peer got in all.  A ::send that returns 0 breaks the loop, and send *)
(* returns as if it had sent the rest.                                     *)
tcp_sink_it(msg, outcome) ==
    \/ /\ ~is_connected /\ FALSE \in ConnectResults       \* connect threw
       /\ outcome = "std"
       /\ UNCHANGED tcp_vars
    \/ \E n \in 0 .. MsgSize, ending \in Endings :
          /\ is_connected \/ TRUE \in ConnectResults
          /\ n = MsgSize <=> ending = "all"
          /\ outcome = IF ending = "error" THEN "std" ELSE "ok"
          /\ socket' = AfterSend(ending)
          /\ torn' = IF socket' = Closed THEN Whole
                     ELSE IF n \in 1 .. MsgSize - 1 THEN ending ELSE torn

-----------------------------------------------------------------------------
(* A message torn by an error is the last thing on its connection, and the *)
(* next one starts on a new connection, so the receiver can tell where     *)
(* messages begin: only a ::send that returned 0 leaves an unfinished      *)
(* message on a connection in use.                                         *)
StreamsWhole == torn \in {Whole, "zero"}
=============================================================================
