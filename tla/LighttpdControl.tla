-------------------------- MODULE LighttpdControl --------------------------
(***************************************************************************)
(* What is particular to lighttpd (src/LighttpdController.cpp): the start  *)
(* command forks a daemon and says nothing of its fate, off() is a signal  *)
(* to the pid in the pidfile, and reload() is a restart.  A lighttpd that  *)
(* acts on SIGINT closes its sockets and removes its pidfile at once; the  *)
(* requests it is passing on do not hold it.                               *)
(***************************************************************************)
EXTENDS Controller

\* An exit code of 0 only means that the fork succeeded; a bind failure may show in
\* the exit code, or not.
LighttpdStart(c) ==
  /\ at(c, "start") /\ kind = "Lighttpd"
  /\ \/ launching' = launching \cup {snippet} /\ goto(c, "rise")
     \/ fails(binds(snippet)) /\ UNCHANGED launching /\ finish(c, FALSE)
  /\ UNCHANGED <<options, setting, server, orphans, carries>>

Rise_NotAtAll(c) ==
  /\ at(c, "rise")
  /\ finish(c, TRUE)
  /\ UNCHANGED <<options, world>>

\* The loop that waits for the pidfile.
Rise(c) ==
  /\ at(c, "rise")
  /\ setting.prompt => launching = {}
  /\ poll(c, ~is_running, "risen")
  /\ UNCHANGED <<options, world>>

Risen(c) ==
  /\ at(c, "risen")
  /\ finish(c, is_running)
  /\ UNCHANGED <<options, world>>

\* read_pid() and kill(), in one step: the pidfile may have gone before the one, and
\* the process before the other.
Interrupt(c) ==
  /\ at(c, "quit") /\ kind = "Lighttpd"
  /\ \/ is_running /\ server' = [server EXCEPT !.state = "quitting"] /\ after_off(c, TRUE)
     \/ ~is_running /\ UNCHANGED server /\ after_off(c, TRUE)
     \/ fails(is_running) /\ UNCHANGED server /\ after_off(c, FALSE)
  /\ UNCHANGED <<options, setting, launching, orphans, carries>>

LighttpdReload_Untested(c) ==
  /\ kind = "Lighttpd"
  /\ at(c, "reload")
  /\ goto(c, IF is_running THEN "reset" ELSE "rollback")
  /\ UNCHANGED <<options, world>>

\* reload(): running, valid, then a reset.
LighttpdReload(c) ==
  /\ kind = "Lighttpd"
  /\ \/ at(c, "reload") /\ goto(c, IF is_running THEN "reload_test" ELSE "rollback")
     \/ at(c, "reload_test") /\ test_config /\ goto(c, "reset")
     \/ /\ at(c, "reload_test") /\ fails(test_config)
        /\ goto(c, "rollback")
  /\ UNCHANGED <<options, world>>

\* A forked daemon comes up, or finds that it cannot listen.
LighttpdRises ==
  \E p \in launching :
    /\ launching' = launching \ {p}
    /\ IF binds(p) THEN Rises(p) ELSE UNCHANGED <<server, orphans>>
    /\ UNCHANGED <<options, setting, carries, call>>

LighttpdExits ==
  /\ kind = "Lighttpd" /\ server.state = "quitting"
  /\ server' = Down
  /\ UNCHANGED <<options, setting, launching, orphans, carries, call>>

=============================================================================
