---------------------------- MODULE MCWebServer ----------------------------
(* Two threads, a queue of one and two users with two requests each: main     *)
(* may wait with the second connection before a full queue, a thread may take *)
(* what another was woken for, and of two requests of a user the first may be *)
(* cut off by an interrupted thread and the second by the end of the server.  *)
EXTENDS WebServer
CONSTANTS t1, t2, u1, u2
MCWorkers == {t1, t2}
MCUsers == {u1, u2}
=============================================================================
