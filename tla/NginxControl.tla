---------------------------- MODULE NginxControl ----------------------------
(***************************************************************************)
(* What is particular to nginx (src/NginxController.cpp): the start        *)
(* command binds before it exits, quit and reload are commands, a reload   *)
(* is a signal the master acts on later, and a graceful quit waits for the *)
(* requests nginx is passing on.                                           *)
(***************************************************************************)
EXTENDS Controller

NginxStart_Unchecked(c) ==
  /\ at(c, "start") /\ kind = "Nginx"
  /\ IF binds(snippet) THEN Rises(snippet) ELSE UNCHANGED <<server, orphans>>
  /\ finish(c, TRUE)
  /\ UNCHANGED <<options, setting, launching, carries>>

NginxStart(c) ==
  /\ at(c, "start") /\ kind = "Nginx"
  /\ \/ binds(snippet) /\ Rises(snippet) /\ finish(c, TRUE)
     \/ /\ fails(binds(snippet))
        /\ UNCHANGED <<server, orphans>>
        /\ finish(c, FALSE)
  /\ UNCHANGED <<options, setting, launching, carries>>

\* `nginx -s quit` signals the process the pidfile names.
Quit(c) ==
  /\ at(c, "quit") /\ kind = "Nginx"
  /\ \/ is_running /\ server' = [server EXCEPT !.state = "quitting"] /\ after_off(c, TRUE)
     \/ fails(is_running) /\ UNCHANGED server /\ after_off(c, FALSE)
  /\ UNCHANGED <<options, setting, launching, orphans, carries>>

NginxReload_ByRestart(c) ==
  /\ kind = "Nginx"
  /\ at(c, "reload") \/ at(c, "reload_test")
  /\ goto(c, IF at(c, "reload") THEN "reload_test" ELSE "reset")
  /\ UNCHANGED <<options, world>>

\* reload(): running, valid, then the signal.
NginxReload(c) ==
  /\ kind = "Nginx"
  /\ \/ at(c, "reload") /\ goto(c, IF is_running THEN "reload_test" ELSE "rollback")
     \/ at(c, "reload_test") /\ test_config /\ goto(c, "reload_signal")
     \/ /\ at(c, "reload_test") /\ fails(test_config)
        /\ goto(c, "rollback")
  /\ UNCHANGED <<options, world>>

\* `nginx -s reload`
ReloadSignal(c) ==
  /\ at(c, "reload_signal")
  /\ \/ is_running /\ server' = [server EXCEPT !.hup = TRUE] /\ return(c, TRUE)
     \/ fails(is_running) /\ UNCHANGED server /\ goto(c, "rollback")
  /\ UNCHANGED <<options, setting, launching, orphans, carries>>

\* nginx acts on a reload: the new port, unless it cannot bind it.
NginxReloads ==
  /\ server.hup /\ server.state = "up"
  /\ server' = Up(IF binds(snippet) THEN snippet ELSE server.port)
  /\ UNCHANGED <<options, setting, launching, orphans, carries, call>>

\* A quitting nginx exits when it passes on no request any more.
NginxExits ==
  /\ kind = "Nginx" /\ server.state = "quitting" /\ carries = {}
  /\ server' = Down
  /\ UNCHANGED <<options, setting, launching, orphans, carries, call>>

=============================================================================
