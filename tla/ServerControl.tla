--------------------------- MODULE ServerControl ---------------------------
(***************************************************************************)
(* The control endpoints of example/main.cpp, and the startup and shutdown *)
(* in its main(), with the controller that the environment selects and the *)
(* server it controls.                                                     *)
(***************************************************************************)
EXTENDS NginxControl, LighttpdControl

Idle == [pc |-> "idle", op |-> None, want |-> None, prev |-> None, polls |-> 0,
         answer |-> None, found |-> Down]

\* main() sets the port before it starts the server, whatever state it finds it in.
booting(s, srv) ==
  [c \in Callers |->
     IF c = Main THEN [Idle EXCEPT !.pc = "set", !.op = "startup", !.want = s.start, !.found = srv]
     ELSE Idle]

Init ==
  /\ setting \in Settings
  /\ http_port = DefaultPort /\ snippet = None
  /\ server = Down /\ launching = {} /\ orphans = {} /\ carries = {}
  /\ call = booting(setting, Down)

begin(c, place, o, p) ==
  call' = [call EXCEPT ![c] =
    [Idle EXCEPT !.pc = place, !.op = o, !.want = p, !.found = server]]

\* main() goes on from setting the port, whatever that returned, to on().
Boot ==
  /\ at(Main, "done") /\ call[Main].op = "startup"
  /\ begin(Main, "on", "boot", None)
  /\ UNCHANGED <<options, world>>

\* engine.run() serves requests.
serving == call[Main].op \notin {"startup", "boot", "shutdown"}

\* An administrator's request reaches its endpoint.
Begin(c) ==
  /\ at(c, "idle") /\ c \in setting.callers /\ serving
  /\ setting.proxied => server.state = "up" \/ orphans # {}
  /\ \/ \E o \in {"on", "off", "reset"} : begin(c, o, o, None)
     \/ \E p \in Ports : begin(c, "set", "port", p)
  /\ carries' = IF setting.proxied /\ server.state = "up" THEN carries \cup {c} ELSE carries
  /\ UNCHANGED <<options, setting, server, launching, orphans>>

\* The response has been sent.
End(c) ==
  /\ at(c, "done") /\ call[c].op \notin {"startup", "shutdown"}
  /\ call' = [call EXCEPT ![c] = Idle]
  /\ carries' = carries \ {c}
  /\ UNCHANGED <<options, setting, server, launching, orphans>>

\* run() has returned, so no request is being served: main() stops the server.
Shutdown ==
  /\ setting.restarts
  /\ \A c \in Callers : at(c, "idle")
  /\ begin(Main, "off", "shutdown", None)
  /\ UNCHANGED <<options, world>>

\* The backend ends, by a crash at any moment or after its shutdown, and is started
\* again.  Started by hand, it finds the server it left, a process of its own that goes
\* on; a prompt one has come up by then.
Restart ==
  /\ setting.restarts
  /\ setting.prompt => launching = {}
  /\ call' = booting(setting, server)
  /\ http_port' = DefaultPort
  /\ carries' = {}
  /\ UNCHANGED <<snippet, setting, server, launching, orphans>>

\* In a container or a systemd unit the server ends with the backend, and the start
\* removes the pidfile.  The snippet stays.
Relaunch ==
  /\ setting.restarts
  /\ call' = booting(setting, Down)
  /\ http_port' = DefaultPort
  /\ server' = Down /\ launching' = {} /\ orphans' = {} /\ carries' = {}
  /\ UNCHANGED <<snippet, setting>>

ServerCrashes ==
  /\ setting.crashes /\ is_running
  /\ server' = Down /\ carries' = {}
  /\ UNCHANGED <<options, setting, launching, orphans, call>>

-----------------------------------------------------------------------------

Continue(c) ==
  \/ On(c) \/ OnWrite(c) \/ OnTest(c) \/ NginxStart(c) \/ LighttpdStart(c) \/ Rise(c) \/ Risen(c)
  \/ Off(c) \/ Quit(c) \/ Interrupt(c) \/ Reset(c) \/ Wait(c) \/ Waited(c)
  \/ Set(c) \/ SetWrite(c) \/ SetRunning(c)
  \/ NginxReload(c) \/ ReloadSignal(c) \/ LighttpdReload(c)
  \/ Rollback(c) \/ RollbackWrite(c) \/ End(c)

\* A prompt nginx acts on a reload before the backend does anything else.
settled == setting.prompt => ~(server.hup /\ server.state = "up")

Next ==
  \/ settled /\ Boot
  \/ settled /\ Shutdown
  \/ \E c \in Callers : settled /\ Begin(c)
  \/ \E c \in Callers : settled /\ Continue(c)
  \/ NginxReloads \/ NginxExits
  \/ LighttpdRises \/ LighttpdExits
  \/ Restart \/ Relaunch
  \/ ServerCrashes

Spec == Init /\ [][Next]_vars

\* Threads are scheduled, and a server acts on signals and comes up or not; nobody
\* need call anything, and nothing need crash.  A caller waits for nothing but the
\* commands it spawns, and those are assumed to exit: proc::spawn() waits for them without
\* a limit.  What else keeps a step back here for a while only says how fast a prompt
\* server is, hence strong fairness.
FairSpec ==
  /\ Spec
  /\ \A c \in Callers : SF_vars(settled /\ Continue(c))
  /\ WF_vars(settled /\ Boot)
  /\ WF_vars(NginxReloads) /\ WF_vars(NginxExits)
  /\ WF_vars(LighttpdRises) /\ WF_vars(LighttpdExits)

-----------------------------------------------------------------------------

\* One caller at a time, a prompt server, nothing fails.
calm ==
  /\ setting.prompt /\ ~setting.faults /\ ~setting.crashes
  /\ setting.callers = {Main}

done(c, o) == at(c, "done") /\ call[c].op = o

bindable(p) == p \notin setting.rejected \cup setting.unbindable

\* A reset that finds the server up leaves it up, unless the port it is configured
\* for cannot be bound at all (WebServerController.hpp: "hard restart: off, wait for
\* exit, on"; main.cpp offers it instead of a stop that makes the API unreachable).
EveryResetKeepsIngress ==
  \A c \in Callers :
    done(c, "reset") /\ call[c].found.state = "up" /\ bindable(http_port)
      => server.state = "up"

\* So it is for every lighttpd, and for an nginx that the request did not come
\* through: off(), the wait and on() come in that order and each sees what the one
\* before it did (reset()).
ResetKeepsIngress ==
  calm /\ (kind = "Nginx" => ~setting.proxied) => EveryResetKeepsIngress

\* At rest - no call under way, no reload pending - a server that is up, the snippet
\* and the controller's option name the same port, whether the changes before
\* succeeded or were rolled back, and however often the backend was killed in the
\* middle of one (set_listen_ports, reload, on, main).  nginx needs every port it
\* accepts to be free; lighttpd does not.  The port main() starts with must be one
\* that validates: main() does not look at what became of it, and rolled back to the
\* default it leaves a server from before alone with the port it had.
PortsAgree ==
  calm /\ setting.start \notin setting.rejected /\ (kind = "Nginx" => setting.unbindable = {}) =>
    ((\A c \in Callers : at(c, "idle")) /\ ~server.hup /\ server.state = "up"
       => server.port = http_port /\ snippet = http_port)

\* One controller, used by one caller at a time, never loses a running server from
\* its pidfile by starting another beside it: on() returns only when it knows what
\* became of the one it started (NginxController::on, LighttpdController::on).
NoOrphans ==
  setting.prompt /\ setting.callers = {Main} => orphans = {}

\* A port that the server's validation refuses changes nothing for a server that is
\* up: it serves the port it served (WebServerController.hpp, set_listen_port:
\* "Returns false (leaving the server on the old port)").
RefusedChangeKeepsServing ==
  setting.prompt /\ setting.callers = {Main} /\ ~setting.crashes =>
    \A c \in Callers :
      done(c, "port") /\ call[c].want \in setting.rejected /\ call[c].found.state = "up"
        => call[c].answer = FALSE /\ server = call[c].found

\* When on() says that the server is on, it is up and not merely launched, or it was
\* already being stopped when the call began (on(): the exit code of nginx, the
\* pidfile of lighttpd).
OnMeansServing ==
  setting.callers = {Main} /\ ~setting.crashes =>
    \A c \in Callers :
      (done(c, "on") \/ done(c, "boot")) /\ call[c].answer = TRUE
        => server.state = "up" \/ call[c].found.state = "quitting"

\* A change of port that is reported as done has been (WebServerController.hpp,
\* set_listen_port: "validate + apply it so the change takes effect immediately").
PortTakesEffect ==
  \A c \in Callers :
    done(c, "port") /\ call[c].found.state = "up" /\ call[c].answer = TRUE /\ ~server.hup
      => server.state = "up" /\ server.port = call[c].want

\* nginx is taken down by nothing but the calls that say so, and the end of the container
\* or unit it runs in: not by a change of port, whether it is applied, refused or rolled
\* back (NginxController::reload signals and never stops; WebServerController.hpp: "nginx
\* reloads gracefully with zero downtime").
ZeroDowntime ==
  [][kind = "Nginx" /\ ~setting.crashes /\ server.state = "up" /\ server'.state # "up"
       => (\E c \in Callers : call[c].op \in {"off", "reset", "shutdown"}) \/ Relaunch]_vars

\* A change of port never takes down a server that is up (main.cpp: the server is the
\* API's only ingress, so an unguarded stop would lock the caller out).
PortChangeKeepsIngress ==
  \A c \in Callers : done(c, "port") /\ call[c].found.state = "up" => server.state = "up"

\* Every call returns and its response is sent, even if nginx waits for the very
\* request that waits for nginx to exit: both polling loops are bounded.
EveryCallReturns ==
  \A c \in Callers : ~at(c, "idle") /\ ~setting.restarts ~> at(c, "idle")

=============================================================================
