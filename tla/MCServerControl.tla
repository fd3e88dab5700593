-------------------------- MODULE MCServerControl --------------------------
EXTENDS ServerControl

CONSTANTS main, c2

\* A server by itself: nothing fails, it is prompt, one caller who reaches the backend
\* directly.
Quiet == [name |-> "nginx", callers |-> {main}, start |-> 8080, rejected |-> {80},
          unbindable |-> {}, proxied |-> FALSE, prompt |-> TRUE, faults |-> FALSE,
          crashes |-> FALSE, restarts |-> FALSE]

Lighttpd(s) == [s EXCEPT !.name = "lighttpd"]
Proxied(s) == [s EXCEPT !.proxied = TRUE]
PortTaken(s) == [s EXCEPT !.unbindable = {8081}]
Restarts(s) == [s EXCEPT !.restarts = TRUE]
Faulty(s) == [s EXCEPT !.faults = TRUE]
Late(s) == [s EXCEPT !.prompt = FALSE]

\* Everything that can go wrong at once, with two callers; with lighttpd, all but faults.
Rough == [Quiet EXCEPT !.callers = {main, c2}, !.unbindable = {8081}, !.prompt = FALSE,
                       !.proxied = TRUE, !.faults = TRUE]

ControlSettings ==
  {Quiet, PortTaken(Quiet), Restarts(Quiet), Faulty(Quiet), Late(Quiet),
   Lighttpd(Proxied(Quiet)), Lighttpd(PortTaken(Quiet)), Lighttpd(Restarts(Quiet)),
   Lighttpd(Faulty(Quiet)), Lighttpd(Late(Quiet)),
   [Quiet EXCEPT !.name = "other", !.crashes = TRUE],
   Rough, [Lighttpd(Rough) EXCEPT !.prompt = TRUE, !.faults = FALSE]}

NginxProxied == {Proxied(Quiet)}
NginxPortTaken == {PortTaken(Quiet)}
LighttpdPortTaken == {Lighttpd(PortTaken(Quiet))}

=============================================================================
