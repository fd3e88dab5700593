----------------------------- MODULE Controller -----------------------------
(***************************************************************************)
(* What the two web-server controllers have in common                      *)
(* (src/NginxController.cpp, src/LighttpdController.cpp), and the server   *)
(* they control.                                                           *)
(*                                                                         *)
(* A controller learns about its server only from the pidfile and from the *)
(* exit codes of the commands it spawns.  Between two of those the server  *)
(* runs by itself, and so do the other threads of the backend, which share *)
(* the controller without a lock.  A step of a caller is one observation   *)
(* or one effect; the snippet is written in one step (see SnippetFile).    *)
(* Only the HTTP port is represented; the HTTPS port is handled alike.     *)
(*                                                                         *)
(* The members used in the two classes are the same line by line; where    *)
(* they differ, NginxControl and LighttpdControl say how.                  *)
(***************************************************************************)
EXTENDS Integers

CONSTANTS
  Callers,       \* threads of the backend that may serve a control request
  Main,          \* the one that runs main()
  Ports,         \* ports that may be asked for
  DefaultPort,   \* Options::http_port before main() sets it
  Settings,      \* the circumstances to consider, see Setting
  MaxPolls,      \* rounds of a polling loop (50 and 30 in the code)
  None

\* One set of circumstances.
Setting == [
  name: {"nginx", "lighttpd", "other"},  \* WEBENGINE_WEBSERVER, in lower case
  callers: SUBSET Callers,   \* the threads that serve control requests
  start: Ports,              \* WEBENGINE_HTTP_PORT
  rejected: SUBSET Ports,    \* ports the server's own validation refuses
  unbindable: SUBSET Ports,  \* ports it accepts, and then cannot bind
  proxied: BOOLEAN,          \* requests come through the server
  prompt: BOOLEAN,           \* the server acts faster than the code's timeouts
  faults: BOOLEAN,           \* spawning a command or writing the snippet may fail
  crashes: BOOLEAN,          \* the server may crash
  restarts: BOOLEAN]         \* the backend may crash, or be stopped, and is started again

\* What a caller may be in the middle of.
Op == {"startup", "boot", "on", "off", "reset", "port", "shutdown"}

ASSUME ControllerAssumption ==
  /\ Main \in Callers
  /\ DefaultPort \in Ports
  /\ None \notin Ports /\ None \notin Op
  /\ Settings \subseteq Setting
  /\ MaxPolls \in Nat \ {0}

VARIABLES
  setting,    \* one of Settings, chosen once
  http_port,  \* opts_.http_port
  snippet,    \* the port in the generated listen file, None before the first
  server,     \* the server the pidfile names: its state, port and pending reload
  launching,  \* ports of daemons that were forked and have not come up yet
  orphans,    \* ports of servers that no pidfile names any more
  carries,    \* the callers whose requests the server is passing on
  call        \* each caller's place in the code and its local variables

options == <<http_port, snippet>>
world == <<setting, server, launching, orphans, carries>>
vars == <<options, world, call>>

Place == {"idle", "on", "dirs", "test", "start", "rise", "risen", "off", "quit",
          "reset", "wait", "waited", "set", "set_write", "set_running", "reload", "reload_test",
          "reload_signal", "rollback", "rollback_write", "done"}

Down == [state |-> "down", port |-> None, hup |-> FALSE]
Server == [state: {"up", "quitting"}, port: Ports, hup: BOOLEAN] \cup {Down}
Up(p) == [state |-> "up", port |-> p, hup |-> FALSE]

\* found is the server as it was when the call began (a history variable).
Call == [pc: Place, op: Op \cup {None}, want: Ports \cup {None}, prev: Ports \cup {None},
         polls: 0..MaxPolls, answer: BOOLEAN \cup {None}, found: Server]

TypeOK ==
  /\ setting \in Settings
  /\ http_port \in Ports /\ snippet \in Ports \cup {None}
  /\ server \in Server /\ launching \subseteq Ports /\ orphans \subseteq Ports
  /\ carries \subseteq Callers
  /\ call \in [Callers -> Call]

-----------------------------------------------------------------------------
(* The server as the controller sees it. *)

\* Anything but a known name means nginx.
kind == IF setting.name = "lighttpd" THEN "Lighttpd" ELSE "Nginx"

\* The pidfile names a live server; one that is quitting still is.
is_running == server.state # "down"

\* `nginx -t`, `lighttpd -tt`: they do not notice a port that cannot be bound.
test_config == snippet \notin setting.rejected

\* A server that starts with this port can listen on it.
binds(p) ==
  /\ p \notin setting.rejected \cup setting.unbindable \cup orphans
  /\ ~(server.state = "up" /\ server.port = p)

\* It does, and writes the pidfile; a server that was up there loses it.
Rises(p) ==
  /\ server' = Up(p)
  /\ orphans' = IF server.state = "up" THEN orphans \cup {server.port} ELSE orphans

\* A command reports a failure when it does not work, or cannot be spawned, or is killed.
\* (One that cannot be waited for would pass for a success.)
fails(works) == ~works \/ setting.faults

-----------------------------------------------------------------------------
(* Steps of a caller. *)

at(c, place) == call[c].pc = place

goto(c, place) == call' = [call EXCEPT ![c].pc = place]

return(c, ok) == call' = [call EXCEPT ![c] = [@ EXCEPT !.pc = "done", !.answer = ok]]

\* on(), off() or reset() is over: set_listen_ports(), if it called, may have to roll back.
finish(c, ok) ==
  IF ~ok /\ call[c].op \in {"port", "startup"} THEN goto(c, "rollback") ELSE return(c, ok)

\* off() is over: a reset() goes on.
after_off(c, ok) ==
  IF ok /\ call[c].op \notin {"off", "shutdown"} THEN goto(c, "wait") ELSE finish(c, ok)

\* One round of a polling loop, left early when the loop's condition fails.
poll(c, goes_on, next) ==
  call' = IF goes_on /\ call[c].polls < MaxPolls
          THEN [call EXCEPT ![c].polls = @ + 1]
          ELSE [call EXCEPT ![c] = [@ EXCEPT !.polls = 0, !.pc = next]]

On(c) ==
  /\ at(c, "on")
  /\ IF is_running THEN finish(c, TRUE) ELSE goto(c, "dirs")
  /\ UNCHANGED <<options, world>>

\* ensure_dirs() and write_listen_snippet()
OnWrite(c) ==
  /\ at(c, "dirs")
  /\ \/ snippet' = http_port /\ goto(c, "test")
     \/ setting.faults /\ UNCHANGED snippet /\ finish(c, FALSE)
  /\ UNCHANGED <<http_port, world>>

OnTest(c) ==
  /\ at(c, "test")
  /\ \/ test_config /\ goto(c, "start")
     \/ fails(test_config) /\ finish(c, FALSE)
  /\ UNCHANGED <<options, world>>

Off(c) ==
  /\ at(c, "off")
  /\ IF is_running THEN goto(c, "quit") ELSE after_off(c, TRUE)
  /\ UNCHANGED <<options, world>>

Reset(c) ==
  /\ at(c, "reset")
  /\ goto(c, IF is_running THEN "off" ELSE "on")
  /\ UNCHANGED <<options, world>>

\* A quitting server may last through all the polls: a slow one, or an nginx some
\* request keeps from exiting.
lingers == ~setting.prompt \/ (kind = "Nginx" /\ carries # {})

Wait_NotAtAll(c) ==
  /\ at(c, "wait")
  /\ goto(c, "waited")
  /\ UNCHANGED <<options, world>>

Wait_Forever(c) ==
  /\ at(c, "wait")
  /\ ~is_running
  /\ goto(c, "waited")
  /\ UNCHANGED <<options, world>>

Wait_OneMore(c) ==
  /\ at(c, "wait")
  /\ server.state = "quitting" => lingers
  /\ call' = IF is_running /\ call[c].polls <= MaxPolls
             THEN [call EXCEPT ![c].polls = @ + 1]
             ELSE [call EXCEPT ![c] = [@ EXCEPT !.polls = 0, !.pc = "waited"]]
  /\ UNCHANGED <<options, world>>

\* The loop after off().
Wait(c) ==
  /\ at(c, "wait")
  /\ server.state = "quitting" => lingers
  /\ poll(c, is_running, "waited")
  /\ UNCHANGED <<options, world>>

Waited(c) ==
  /\ at(c, "waited")
  /\ IF is_running THEN finish(c, FALSE) ELSE goto(c, "on")
  /\ UNCHANGED <<options, world>>

-----------------------------------------------------------------------------
(* set_listen_ports() *)

\* Remember the option and change it.
Set(c) ==
  /\ at(c, "set")
  /\ http_port' = call[c].want
  /\ call' = [call EXCEPT ![c] = [@ EXCEPT !.prev = http_port, !.pc = "set_write"]]
  /\ UNCHANGED <<snippet, world>>

\* Write the snippet; a write that fails puts the option back.
SetWrite(c) ==
  /\ at(c, "set_write")
  /\ \/ snippet' = http_port /\ goto(c, "set_running") /\ UNCHANGED http_port
     \/ /\ setting.faults
        /\ http_port' = call[c].prev /\ return(c, FALSE) /\ UNCHANGED snippet
  /\ UNCHANGED world

SetRunning(c) ==
  /\ at(c, "set_running")
  /\ IF is_running THEN goto(c, "reload") ELSE return(c, TRUE)
  /\ UNCHANGED <<options, world>>

Rollback_OptionOnly(c) ==
  /\ at(c, "rollback")
  /\ http_port' = call[c].prev
  /\ return(c, FALSE)
  /\ UNCHANGED <<snippet, world>>

\* Put the option back ...
Rollback(c) ==
  /\ at(c, "rollback")
  /\ http_port' = call[c].prev
  /\ goto(c, "rollback_write")
  /\ UNCHANGED <<snippet, world>>

\* ... and the snippet; whether the write succeeds is not looked at.
RollbackWrite(c) ==
  /\ at(c, "rollback_write")
  /\ snippet' = http_port \/ (setting.faults /\ UNCHANGED snippet)
  /\ return(c, FALSE)
  /\ UNCHANGED <<http_port, world>>

=============================================================================
