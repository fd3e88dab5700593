---------------------------- MODULE ServerProofs ----------------------------
(***************************************************************************)
(* The controllers' variables keep their types, nginx is taken down by     *)
(* nothing but the calls that say so, and what the controllers promise to  *)
(* one caller at a time: the theorems, for every set of callers, ports and *)
(* circumstances.                                                          *)
(*                                                                         *)
(* None is inductive alone.  A port is written, restored or listened on    *)
(* only where a call has one, and with nginx the places from which the     *)
(* server is stopped are reached in some calls only: Sound says both of a  *)
(* call, and Inv that there is a snippet whenever there is a server.  For  *)
(* one caller, OneCallerInv says at each place of a call what the server,  *)
(* the snippet and the option are to one another.                          *)
(***************************************************************************)
EXTENDS ServerControl, TLAPS

Changes == {"port", "startup"}
Changing ==
  {"set", "set_write", "set_running", "reload", "reload_test", "reload_signal", "rollback",
   "rollback_write"}
Purpose == {"off", "reset", "shutdown"}
Stopping == {"off", "quit", "reset", "wait", "waited"}

\* Where the call r can be, when s is the port in the snippet and k the controller.
Sound(r, s, k) ==
  /\ r.pc \in {"test", "start"} => s \in Ports
  /\ r.pc = "set" => r.want \in Ports
  /\ r.pc \in Changing => r.op \in Changes
  /\ r.op \in Changes /\ r.pc # "set" => r.prev \in Ports
  /\ k = "Nginx" /\ r.pc \in Stopping => r.op \in Purpose

Inv ==
  /\ TypeOK
  /\ server # Down \/ launching # {} => snippet \in Ports
  /\ \A c \in Callers : Sound(call[c], snippet, kind)

\* A step takes the call of c to one of these places, and no other call anywhere.
Moves(c, places) ==
  /\ call' = [call EXCEPT ![c] = call'[c]]
  /\ call'[c] \in Call /\ call'[c].pc \in places
  /\ call'[c].op = call[c].op /\ call'[c].want = call[c].want /\ call'[c].prev = call[c].prev

-----------------------------------------------------------------------------
(* The moves of a caller. *)

LEMMA Servers == Down \in Server /\ \A p \in Ports : Up(p) \in Server /\ Up(p) # Down
BY DEF Down, Up, Server

LEMMA IdleCall ==
  /\ Idle \in Call
  /\ Idle.pc = "idle" /\ Idle.op = None /\ Idle.prev = None /\ Idle.answer = None
<1>1. 0 \in 0..MaxPolls
  BY ControllerAssumption
<1> QED BY <1>1, Servers DEF Idle, Call, Place

LEMMA Goto ==
  ASSUME TypeOK, NEW c \in Callers, NEW place \in Place, goto(c, place)
  PROVE  Moves(c, {place})
BY DEF TypeOK, goto, Call, Moves

LEMMA Returned ==
  ASSUME TypeOK, NEW c \in Callers, NEW ok \in BOOLEAN, return(c, ok)
  PROVE  Moves(c, {"done"})
<1>1. [call[c] EXCEPT !.pc = "done", !.answer = ok] \in Call
  BY DEF TypeOK, Call, Place
<1> QED BY <1>1 DEF TypeOK, return, Call, Moves

LEMMA Finished ==
  ASSUME TypeOK, NEW c \in Callers, NEW ok \in BOOLEAN, finish(c, ok)
  PROVE  \/ Moves(c, {"done"})
         \/ Moves(c, {"rollback"}) /\ call[c].op \in Changes
BY Goto, Returned DEF finish, Changes, Place

LEMMA OffOver ==
  ASSUME TypeOK, NEW c \in Callers, NEW ok \in BOOLEAN, after_off(c, ok)
  PROVE  \/ Moves(c, {"done", "wait"})
         \/ Moves(c, {"rollback"}) /\ call[c].op \in Changes
<1>1. Moves(c, {"done"}) \/ Moves(c, {"wait"}) => Moves(c, {"done", "wait"})
  BY DEF Moves
<1>2. goto(c, "wait") => Moves(c, {"wait"})
  BY Goto DEF Place
<1> QED BY <1>1, <1>2, Finished DEF after_off

LEMMA Polled ==
  ASSUME TypeOK, NEW c \in Callers, NEW next \in Place, NEW on \in BOOLEAN, poll(c, on, next)
  PROVE  Moves(c, {call[c].pc, next})
<1>1. MaxPolls \in Nat
  BY ControllerAssumption
<1>2. CASE call' = [call EXCEPT ![c] = [@ EXCEPT !.polls = 0, !.pc = next]]
  <2>1. [call[c] EXCEPT !.polls = 0, !.pc = next] \in Call
    <3>1. 0 \in 0..MaxPolls
      BY <1>1
    <3>2. [call[c] EXCEPT !.polls = 0] \in Call
      BY <3>1 DEF TypeOK, Call
    <3> QED BY <3>2 DEF Call
  <2> QED BY <1>2, <2>1 DEF TypeOK, Call, Moves
<1>3. CASE call[c].polls < MaxPolls /\ call' = [call EXCEPT ![c].polls = @ + 1]
  <2>1. call[c].polls + 1 \in 0..MaxPolls
    BY <1>1, <1>3 DEF TypeOK, Call
  <2>2. [call[c] EXCEPT !.polls = call[c].polls + 1] \in Call
    BY <2>1 DEF TypeOK, Call
  <2>3. call' = [call EXCEPT ![c] = [call[c] EXCEPT !.polls = call[c].polls + 1]]
    BY <1>3
  <2> QED BY <2>2, <2>3 DEF TypeOK, Call, Moves
<1> QED BY <1>2, <1>3 DEF poll

LEMMA Rising ==
  ASSUME TypeOK, NEW p \in Ports, Rises(p)
  PROVE  server' \in Server /\ orphans' \subseteq Ports
<1>1. server.state = "up" => server.port \in Ports
  BY DEF TypeOK, Server, Down
<1> QED BY <1>1, Servers DEF Rises, TypeOK

-----------------------------------------------------------------------------
(* The steps *)

LEMMA InitSound == Init => Inv
<1> SUFFICES ASSUME Init PROVE Inv
  OBVIOUS
<1>1. setting \in Setting
  BY ControllerAssumption DEF Init
<1>2. call \in [Callers -> Call]
  <2>2. setting.start \in Ports
    BY <1>1 DEF Setting
  <2>3. Idle \in Call
    BY IdleCall
  <2>4. [Idle EXCEPT !.pc = "set", !.op = "startup", !.want = setting.start, !.found = Down] \in Call
    BY <2>2, <2>3, Servers DEF Call, Place, Op
  <2> QED BY <2>3, <2>4 DEF Init, booting
<1>3. TypeOK
  BY <1>2, Servers, ControllerAssumption DEF Init, TypeOK
<1>4. \A c \in Callers : Sound(call[c], snippet, kind)
  <2>1. setting.start \in Ports
    BY <1>1 DEF Setting
  <2> SUFFICES ASSUME NEW c \in Callers PROVE Sound(call[c], snippet, kind)
    OBVIOUS
  <2>2. CASE c = Main
    BY <2>1, <2>2 DEF Init, booting, Idle, Sound, Changes, Changing, Stopping
  <2>3. CASE c # Main
    BY <2>3, ControllerAssumption DEF Init, booting, Idle, Sound, Changes, Changing, Stopping, Op
  <2> QED BY <2>2, <2>3
<1> QED BY <1>3, <1>4 DEF Init, Inv

\* What a step of c has to show: the others' calls stay sound while there is a snippet.
LEMMA Step ==
  ASSUME Inv, NEW c \in Callers,
         call' = [call EXCEPT ![c] = call'[c]], call'[c] \in Call,
         Sound(call'[c], snippet', kind),
         setting' = setting, http_port' \in Ports,
         snippet' = snippet \/ snippet' \in Ports,
         server' \in Server, launching' \subseteq Ports, orphans' \subseteq Ports,
         carries' \subseteq Callers,
         server' # Down \/ launching' # {} => snippet' \in Ports
  PROVE  Inv'
<1>1. kind' = kind
  BY DEF kind
<1>2. \A d \in Callers : Sound(call[d], snippet', kind)
  BY DEF Inv, Sound
<1>3. \A d \in Callers : Sound(call[d], snippet, kind)'
  BY <1>1, <1>2 DEF Inv, TypeOK
<1>4. TypeOK'
  BY DEF Inv, TypeOK
<1> QED BY <1>3, <1>4, Servers DEF Inv, Down

\* The steps that only look.
LEMMA Look ==
  ASSUME Inv, NEW c \in Callers, NEW places, Moves(c, places),
         Sound(call'[c], snippet, kind), UNCHANGED <<options, world>>
  PROVE  Inv'
BY Step DEF Inv, TypeOK, Moves, options, world

\* The steps of a caller with either controller that leave the server alone.
LEMMA CommonStep ==
  ASSUME Inv, NEW c \in Callers,
         \/ On(c) \/ OnTest(c) \/ Off(c) \/ Reset(c) \/ Wait(c) \/ Waited(c)
         \/ SetRunning(c) \/ Rise(c) \/ Risen(c)
  PROVE  Inv'
<1>1. TypeOK /\ Sound(call[c], snippet, kind) /\ is_running \in BOOLEAN
  BY DEF Inv, is_running
<1> USE DEF Sound, Changes, Changing, Stopping, Purpose, Place, at
<1>2. CASE On(c)
  <2>1. Moves(c, {"done"}) \/ Moves(c, {"dirs"}) \/ (Moves(c, {"rollback"}) /\ call[c].op \in Changes)
    BY <1>1, <1>2, Goto, Finished DEF On
  <2> QED BY <1>1, <1>2, <2>1, Look DEF On, Moves
<1>3. CASE OnTest(c)
  <2>1. Moves(c, {"done"}) \/ Moves(c, {"start"}) \/ (Moves(c, {"rollback"}) /\ call[c].op \in Changes)
    BY <1>1, <1>3, Goto, Finished DEF OnTest
  <2> QED BY <1>1, <1>3, <2>1, Look DEF OnTest, Moves
<1>4. CASE Off(c)
  <2>1. \/ Moves(c, {"quit"}) \/ Moves(c, {"done", "wait"})
        \/ Moves(c, {"rollback"}) /\ call[c].op \in Changes
    BY <1>1, <1>4, Goto, OffOver DEF Off
  <2> QED BY <1>1, <1>4, <2>1, Look DEF Off, Moves
<1>5. CASE Reset(c)
  <2>1. Moves(c, {"off"}) \/ Moves(c, {"on"})
    BY <1>1, <1>5, Goto DEF Reset
  <2> QED BY <1>1, <1>5, <2>1, Look DEF Reset, Moves
<1>6. CASE Wait(c)
  <2>1. Moves(c, {"wait", "waited"})
    BY <1>1, <1>6, Polled DEF Wait
  <2> QED BY <1>1, <1>6, <2>1, Look DEF Wait, Moves
<1>7. CASE Waited(c)
  <2>1. \/ Moves(c, {"on"}) \/ Moves(c, {"done"})
        \/ Moves(c, {"rollback"}) /\ call[c].op \in Changes
    BY <1>1, <1>7, Goto, Finished DEF Waited
  <2> QED BY <1>1, <1>7, <2>1, Look DEF Waited, Moves
<1>8. CASE SetRunning(c)
  <2>1. Moves(c, {"reload"}) \/ Moves(c, {"done"})
    BY <1>1, <1>8, Goto, Returned DEF SetRunning
  <2> QED BY <1>1, <1>8, <2>1, Look DEF SetRunning, Moves
<1>9. CASE Rise(c)
  <2>1. Moves(c, {"rise", "risen"})
    BY <1>1, <1>9, Polled DEF Rise
  <2> QED BY <1>1, <1>9, <2>1, Look DEF Rise, Moves
<1>10. CASE Risen(c)
  <2>1. Moves(c, {"done"}) \/ (Moves(c, {"rollback"}) /\ call[c].op \in Changes)
    BY <1>1, <1>10, Finished DEF Risen
  <2> QED BY <1>1, <1>10, <2>1, Look DEF Risen, Moves
<1> QED BY <1>2, <1>3, <1>4, <1>5, <1>6, <1>7, <1>8, <1>9, <1>10

\* The steps of a caller that write the options, or act on the server.
LEMMA ActingStep ==
  ASSUME Inv, NEW c \in Callers,
         \/ OnWrite(c) \/ Set(c) \/ SetWrite(c) \/ Rollback(c) \/ RollbackWrite(c)
         \/ NginxStart(c) \/ Quit(c) \/ NginxReload(c) \/ ReloadSignal(c)
         \/ LighttpdStart(c) \/ Interrupt(c) \/ LighttpdReload(c)
  PROVE  Inv'
<1>1. TypeOK /\ Sound(call[c], snippet, kind)
  BY DEF Inv
<1> USE DEF Sound, Changes, Changing, Stopping, Purpose, Place, at
<1>2. CASE OnWrite(c)
  <2>1. \/ Moves(c, {"test"}) /\ snippet' = http_port
        \/ Moves(c, {"done"}) /\ snippet' = snippet
        \/ Moves(c, {"rollback"}) /\ call[c].op \in Changes /\ snippet' = snippet
    BY <1>1, <1>2, Goto, Finished DEF OnWrite
  <2>2. Sound(call'[c], snippet', kind)
    BY <1>1, <1>2, <2>1 DEF OnWrite, Moves, TypeOK
  <2> QED BY <1>1, <1>2, <2>1, <2>2, Step DEF OnWrite, Moves, Inv, TypeOK, world
<1>3. CASE Set(c)
  <2>1. call[c].want \in Ports
    BY <1>1, <1>3 DEF Set
  <2>2. [call[c] EXCEPT !.prev = http_port, !.pc = "set_write"] \in Call
    <3>1. [call[c] EXCEPT !.prev = http_port] \in Call
      BY <1>1 DEF TypeOK, Call
    <3> QED BY <3>1 DEF Call
  <2>3. /\ call' = [call EXCEPT ![c] = call'[c]] /\ call'[c] \in Call
        /\ call'[c].pc = "set_write" /\ call'[c].op = call[c].op /\ call'[c].prev \in Ports
    BY <1>1, <1>3, <2>2 DEF Set, TypeOK, Call
  <2>4. Sound(call'[c], snippet', kind)
    BY <1>1, <1>3, <2>3 DEF Set
  <2> QED BY <1>1, <1>3, <2>1, <2>3, <2>4, Step DEF Set, Inv, TypeOK, world
<1>11. CASE SetWrite(c)
  <2>1. \/ Moves(c, {"set_running"}) /\ snippet' = http_port /\ http_port' = http_port
        \/ Moves(c, {"done"}) /\ snippet' = snippet /\ http_port' = call[c].prev
    BY <1>1, <1>11, Goto, Returned DEF SetWrite
  <2>2. Sound(call'[c], snippet', kind)
    BY <1>1, <1>11, <2>1 DEF SetWrite, Moves, TypeOK
  <2>3. call[c].prev \in Ports
    BY <1>1, <1>11 DEF SetWrite
  <2> QED BY <1>1, <1>11, <2>1, <2>2, <2>3, Step DEF SetWrite, Moves, Inv, TypeOK, world
<1>4. CASE Rollback(c)
  <2>1. Moves(c, {"rollback_write"})
    BY <1>1, <1>4, Goto DEF Rollback
  <2>2. Sound(call'[c], snippet', kind)
    BY <1>1, <1>4, <2>1 DEF Rollback, Moves
  <2>3. call[c].prev \in Ports
    BY <1>1, <1>4 DEF Rollback
  <2> QED BY <1>1, <1>4, <2>1, <2>2, <2>3, Step DEF Rollback, Moves, Inv, TypeOK, world
<1>12. CASE RollbackWrite(c)
  <2>1. Moves(c, {"done"})
    BY <1>1, <1>12, Returned DEF RollbackWrite
  <2>2. Sound(call'[c], snippet', kind)
    BY <1>1, <1>12, <2>1 DEF RollbackWrite, Moves, TypeOK
  <2> QED BY <1>1, <1>12, <2>1, <2>2, Step DEF RollbackWrite, Moves, Inv, TypeOK, world
<1>5. CASE NginxStart(c)
  <2>1. Moves(c, {"done"}) \/ (Moves(c, {"rollback"}) /\ call[c].op \in Changes)
    BY <1>1, <1>5, Finished DEF NginxStart
  <2>2. snippet \in Ports
    BY <1>1, <1>5 DEF NginxStart
  <2>3. server' \in Server /\ orphans' \subseteq Ports
    BY <1>1, <1>5, <2>2, Rising DEF NginxStart, TypeOK
  <2>4. Sound(call'[c], snippet', kind)
    BY <1>1, <1>5, <2>1 DEF NginxStart, Moves, options
  <2> QED BY <1>1, <1>5, <2>1, <2>2, <2>3, <2>4, Step DEF NginxStart, Moves, Inv, TypeOK, options
<1>6. CASE Quit(c) \/ Interrupt(c)
  <2>1. \/ Moves(c, {"done", "wait"}) \/ (Moves(c, {"rollback"}) /\ call[c].op \in Changes)
    BY <1>1, <1>6, OffOver DEF Quit, Interrupt
  <2>2. server' = server \/ (server.state # "down" /\ server' = [server EXCEPT !.state = "quitting"])
    BY <1>6 DEF Quit, Interrupt, is_running
  <2>3. server' \in Server /\ (server' # Down => server # Down)
    BY <1>1, <2>2 DEF TypeOK, Server, Down
  <2>4. Sound(call'[c], snippet', kind)
    BY <1>1, <1>6, <2>1 DEF Quit, Interrupt, Moves, options
  <2> QED BY <1>1, <1>6, <2>1, <2>3, <2>4, Step DEF Quit, Interrupt, Moves, Inv, TypeOK, options
<1>7. CASE NginxReload(c) \/ LighttpdReload(c)
  <2>1. \/ Moves(c, {"reload_test"}) \/ Moves(c, {"reload_signal"}) \/ Moves(c, {"rollback"})
        \/ kind = "Lighttpd" /\ Moves(c, {"reset"})
    BY <1>1, <1>7, Goto DEF NginxReload, LighttpdReload
  <2> QED BY <1>1, <1>7, <2>1, Look DEF NginxReload, LighttpdReload, Moves
<1>8. CASE ReloadSignal(c)
  <2>1. Moves(c, {"done"}) \/ Moves(c, {"rollback"})
    BY <1>1, <1>8, Goto, Returned DEF ReloadSignal
  <2>2. server' = server \/ (server.state # "down" /\ server' = [server EXCEPT !.hup = TRUE])
    BY <1>8 DEF ReloadSignal, is_running
  <2>3. server' \in Server /\ (server' # Down => server # Down)
    <3>1. CASE server.state # "down" /\ server' = [server EXCEPT !.hup = TRUE]
      <4>1. server \in [state: {"up", "quitting"}, port: Ports, hup: BOOLEAN]
        BY <1>1, <3>1 DEF TypeOK, Server, Down
      <4>2. server' \in [state: {"up", "quitting"}, port: Ports, hup: BOOLEAN]
        BY <3>1, <4>1
      <4> QED BY <3>1, <4>2 DEF Server, Down
    <3> QED BY <1>1, <2>2, <3>1 DEF TypeOK
  <2>4. Sound(call'[c], snippet', kind)
    BY <1>1, <1>8, <2>1 DEF ReloadSignal, Moves, options
  <2> QED BY <1>1, <1>8, <2>1, <2>3, <2>4, Step DEF ReloadSignal, Moves, Inv, TypeOK, options
<1>9. CASE LighttpdStart(c)
  <2>1. Moves(c, {"rise"}) \/ Moves(c, {"done"}) \/ (Moves(c, {"rollback"}) /\ call[c].op \in Changes)
    BY <1>1, <1>9, Goto, Finished DEF LighttpdStart
  <2>2. snippet \in Ports
    BY <1>1, <1>9 DEF LighttpdStart
  <2>3. launching' \subseteq Ports
    BY <1>1, <1>9, <2>2 DEF LighttpdStart, TypeOK
  <2>4. Sound(call'[c], snippet', kind)
    BY <1>1, <1>9, <2>1 DEF LighttpdStart, Moves, options
  <2> QED BY <1>1, <1>9, <2>1, <2>2, <2>3, <2>4, Step DEF LighttpdStart, Moves, Inv, TypeOK, options
<1> QED BY <1>2, <1>3, <1>4, <1>5, <1>6, <1>7, <1>8, <1>9, <1>11, <1>12

\* A call that begins.
LEMMA Begun ==
  ASSUME TypeOK, NEW c \in Callers, NEW place \in Place, NEW o \in Op, NEW p \in Ports \cup {None},
         begin(c, place, o, p)
  PROVE  /\ call' = [call EXCEPT ![c] = call'[c]] /\ call'[c] \in Call
         /\ call'[c].pc = place /\ call'[c].op = o /\ call'[c].want = p
<1> DEFINE r == [Idle EXCEPT !.pc = place, !.op = o, !.want = p, !.found = server]
<1>1. Idle \in Call
  BY IdleCall
<1>2. server \in Server
  BY DEF TypeOK
<1>3. r \in Call /\ r.pc = place /\ r.op = o /\ r.want = p
  <2>1. [Idle EXCEPT !.pc = place, !.op = o] \in Call
    BY <1>1 DEF Call
  <2> QED BY <1>1, <1>2, <2>1 DEF Call
<1>4. call' = [call EXCEPT ![c] = r]
  BY DEF begin
<1> HIDE DEF r
<1>5. call'[c] = r
  BY <1>4 DEF TypeOK
<1> QED BY <1>3, <1>4, <1>5

\* The calls that begin and end, and the steps of main().
LEMMA OuterStep ==
  ASSUME Inv, NEW c \in Callers, Boot \/ Shutdown \/ Begin(c) \/ End(c)
  PROVE  Inv'
<1>1. TypeOK /\ Main \in Callers
  BY ControllerAssumption DEF Inv
<1>a. {"on", "off", "reset", "set"} \subseteq Place /\ Op \ {"startup"} = {"boot", "on", "off", "reset", "port", "shutdown"}
  BY DEF Place, Op
<1> USE DEF Sound, Changes, Changing, Stopping, Purpose
<1>2. CASE Boot
  <2>1. /\ call' = [call EXCEPT ![Main] = call'[Main]] /\ call'[Main] \in Call
        /\ call'[Main].pc = "on" /\ call'[Main].op = "boot"
    BY <1>1, <1>2, <1>a, Begun DEF Boot
  <2> QED BY <1>1, <1>2, <2>1, Step DEF Boot, Inv, TypeOK, options, world
<1>3. CASE Shutdown
  <2>1. /\ call' = [call EXCEPT ![Main] = call'[Main]] /\ call'[Main] \in Call
        /\ call'[Main].pc = "off" /\ call'[Main].op = "shutdown"
    BY <1>1, <1>3, <1>a, Begun DEF Shutdown
  <2> QED BY <1>1, <1>3, <2>1, Step DEF Shutdown, Inv, TypeOK, options, world
<1>4. CASE Begin(c)
  <2>1. /\ call' = [call EXCEPT ![c] = call'[c]] /\ call'[c] \in Call
        /\ \/ call'[c].pc \in {"on", "off", "reset"} /\ call'[c].op = call'[c].pc
           \/ call'[c].pc = "set" /\ call'[c].op = "port" /\ call'[c].want \in Ports
    BY <1>1, <1>4, <1>a, Begun DEF Begin
  <2> QED BY <1>1, <1>4, <2>1, Step DEF Begin, Inv, TypeOK, options
<1>5. CASE End(c)
  <2>1. Idle \in Call /\ Idle.pc = "idle" /\ Idle.op = None
    BY IdleCall
  <2>2. call'[c] = Idle /\ call' = [call EXCEPT ![c] = Idle]
    BY <1>1, <1>5 DEF End, TypeOK
  <2>3. None \notin Changes
    BY ControllerAssumption DEF Op
  <2> QED BY <1>1, <1>5, <2>1, <2>2, <2>3, Step DEF End, Inv, TypeOK, options
<1> QED BY <1>2, <1>3, <1>4, <1>5

\* main() starts, whatever server it finds.
LEMMA Booting ==
  ASSUME setting \in Settings, NEW found \in Server
  PROVE  /\ booting(setting, found) \in [Callers -> Call]
         /\ \A c \in Callers : \A s, k : Sound(booting(setting, found)[c], s, k)
<1>1. setting.start \in Ports
  BY ControllerAssumption DEF Setting
<1>2. Idle \in Call /\ Idle.pc = "idle" /\ Idle.op = None
  BY IdleCall
<1> DEFINE r == [Idle EXCEPT !.pc = "set", !.op = "startup", !.want = setting.start, !.found = found]
<1>3. r \in Call /\ r.pc = "set" /\ r.op = "startup" /\ r.want \in Ports
  <2>1. [Idle EXCEPT !.pc = "set", !.op = "startup"] \in Call
    BY <1>2 DEF Call, Place, Op
  <2> QED BY <1>1, <1>2, <2>1 DEF Call
<1>4. booting(setting, found) = [c \in Callers |-> IF c = Main THEN r ELSE Idle]
  BY DEF booting
<1> HIDE DEF r
<1>5. None \notin Changes
  BY ControllerAssumption DEF Changes, Op
<1> QED BY <1>2, <1>3, <1>4, <1>5 DEF Sound, Changes, Changing, Stopping

\* The steps of the server and of its surroundings.
LEMMA ServerStep ==
  ASSUME Inv, \/ NginxReloads \/ NginxExits \/ LighttpdRises \/ LighttpdExits
              \/ Restart \/ Relaunch \/ ServerCrashes
  PROVE  Inv'
<1>1. TypeOK /\ (server # Down \/ launching # {} => snippet \in Ports)
  BY DEF Inv
<1>2. setting' = setting /\ snippet' = snippet /\ kind' = kind
  BY DEF NginxReloads, NginxExits, LighttpdRises, LighttpdExits, Restart, Relaunch, ServerCrashes, options,
         kind
<1>3. ASSUME server' \in Server, launching' \subseteq launching, orphans' \subseteq Ports,
             carries' \subseteq Callers, http_port' = http_port, call' = call,
             server' # Down => server # Down \/ launching # {}
      PROVE  Inv'
  BY <1>1, <1>2, <1>3 DEF Inv, TypeOK
<1>4. CASE NginxReloads
  <2>1. server # Down /\ server.port \in Ports
    BY <1>1, <1>4 DEF NginxReloads, Down, TypeOK, Server
  <2>2. server' \in Server
    BY <1>1, <1>4, <2>1, Servers DEF NginxReloads
  <2> QED BY <1>1, <1>3, <1>4, <2>1, <2>2 DEF NginxReloads, options, TypeOK
<1>5. CASE NginxExits \/ LighttpdExits
  BY <1>1, <1>3, <1>5, Servers DEF NginxExits, LighttpdExits, options, TypeOK
<1>6. CASE LighttpdRises
  <2>1. PICK p \in launching :
          /\ launching' = launching \ {p}
          /\ IF binds(p) THEN Rises(p) ELSE UNCHANGED <<server, orphans>>
          /\ UNCHANGED <<options, setting, carries, call>>
    BY <1>6 DEF LighttpdRises
  <2>2. server' \in Server /\ orphans' \subseteq Ports
    BY <1>1, <2>1, Rising DEF TypeOK
  <2> QED BY <1>1, <1>3, <2>1, <2>2 DEF options, TypeOK
<1>7. CASE Restart
  <2>1. setting \in Settings /\ server \in Server
    BY <1>1 DEF TypeOK
  <2>2. /\ call' \in [Callers -> Call]
        /\ \A c \in Callers : Sound(call'[c], snippet, kind)
    BY <1>7, <2>1, Booting DEF Restart
  <2>3. TypeOK'
    BY <1>1, <1>2, <1>7, <2>2, ControllerAssumption DEF Restart, TypeOK
  <2> QED BY <1>1, <1>2, <1>7, <2>2, <2>3 DEF Restart, Inv, Down
<1>8. CASE Relaunch
  <2>1. setting \in Settings /\ Down \in Server
    BY <1>1, Servers DEF TypeOK
  <2>2. /\ booting(setting, Down) \in [Callers -> Call]
        /\ \A c \in Callers : Sound(booting(setting, Down)[c], snippet, kind)
    BY <2>1, Booting
  <2>3. TypeOK'
    BY <1>1, <1>2, <1>8, <2>1, <2>2, ControllerAssumption DEF Relaunch, TypeOK
  <2> QED BY <1>1, <1>2, <1>8, <2>2, <2>3 DEF Relaunch, Inv
<1>9. CASE ServerCrashes
  BY <1>1, <1>3, <1>9, Servers DEF ServerCrashes, options, TypeOK
<1> QED BY <1>4, <1>5, <1>6, <1>7, <1>8, <1>9

\* The types of ServerControl, and what a call may be in the middle of, in every state.
LEMMA ServerInvariant == Spec => []Inv
<1>1. Inv /\ [Next]_vars => Inv'
  <2> SUFFICES ASSUME Inv, [Next]_vars PROVE Inv'
    OBVIOUS
  <2>1. ASSUME NEW c \in Callers, Continue(c) PROVE Inv'
    BY <2>1, CommonStep, ActingStep, OuterStep DEF Continue
  <2>2. CASE Boot \/ Shutdown \/ \E c \in Callers : Begin(c)
    BY <2>2, OuterStep, ControllerAssumption
  <2>3. CASE UNCHANGED vars
    BY <2>3 DEF vars, options, world, Inv, TypeOK, Sound, kind
  <2> QED BY <2>1, <2>2, <2>3, ServerStep DEF Next
<1> QED BY <1>1, InitSound, PTL DEF Spec

\* Every variable keeps its type: a port is only ever written, restored or listened on
\* where a call has one, and no polling loop counts past its bound (set_listen_ports,
\* on, reset of both controllers).
THEOREM ServerTyped == Spec => []TypeOK
<1>1. Inv => TypeOK
  BY DEF Inv
<1> QED BY <1>1, ServerInvariant, PTL

-----------------------------------------------------------------------------

\* Only a call that is meant to takes an nginx down that is up: reload() signals it,
\* and neither a change of port nor its rollback leads to off().
THEOREM ZeroDowntimeAlways == Spec => ZeroDowntime
<1> DEFINE Keeps ==
      kind = "Nginx" /\ ~setting.crashes /\ server.state = "up" /\ server'.state # "up"
        => (\E c \in Callers : call[c].op \in {"off", "reset", "shutdown"}) \/ Relaunch
<1>1. Inv /\ [Next]_vars => Keeps
  <2> SUFFICES ASSUME Inv, [Next]_vars, kind = "Nginx", ~setting.crashes,
                      server.state = "up", server'.state # "up", ~Relaunch
               PROVE  \E c \in Callers : call[c].op \in {"off", "reset", "shutdown"}
    OBVIOUS
  <2>2. ASSUME NEW c \in Callers, Continue(c) PROVE call[c].op \in Purpose
    <3>1. CASE Quit(c)
      BY <3>1 DEF Quit, at, Inv, Sound, Stopping
    <3>2. CASE NginxStart(c)
      <4>1. Rises(snippet) => server'.state = "up"
        BY DEF Rises, Up
      <4> QED BY <3>2, <4>1 DEF NginxStart
    <3>3. CASE ReloadSignal(c)
      <4>1. server \in [state: {"up", "quitting"}, port: Ports, hup: BOOLEAN]
        BY DEF Inv, TypeOK, Server, Down
      <4>2. server'.state = "up"
        BY <3>3, <4>1 DEF ReloadSignal
      <4> QED BY <4>2
    <3>4. CASE Interrupt(c)
      BY <3>4 DEF Interrupt
    <3> QED
      BY <2>2, <3>1, <3>2, <3>3, <3>4
      DEF Continue, On, OnWrite, OnTest, LighttpdStart, Rise, Risen, Off, Reset, Wait, Waited,
          Set, SetWrite, SetRunning, NginxReload, LighttpdReload, Rollback, RollbackWrite, End, world
  <2>3. ~NginxReloads /\ ~LighttpdRises
    BY DEF NginxReloads, LighttpdRises, Rises, Up
  <2>4. ~NginxExits /\ ~LighttpdExits /\ ~ServerCrashes
    BY DEF NginxExits, LighttpdExits, ServerCrashes
  <2>5. ~Boot /\ ~Shutdown /\ ~Restart /\ \A c \in Callers : ~Begin(c)
    BY DEF Boot, Shutdown, Restart, Begin, world
  <2>6. ~UNCHANGED vars
    BY DEF vars, world
  <2> QED BY <2>2, <2>3, <2>4, <2>5, <2>6 DEF Next, Purpose
<1> QED BY <1>1, ServerInvariant, PTL DEF Spec, ZeroDowntime

-----------------------------------------------------------------------------
(* One caller.  Every step of it is told apart by what it observes, writes *)
(* or commands, or by the call it begins or ends (Observes, Writes,        *)
(* Commands, Turns), in terms of the one call there is (mine).             *)

Single == setting.callers = {Main}

mine == call[Main]

\* The other threads have no call under way.
Alone == Single => \A c \in Callers \ {Main} : at(c, "idle")

\* The call goes on at another place, or returns.
Same == mine'.op = mine.op /\ mine'.want = mine.want /\ mine'.prev = mine.prev /\ mine'.found = mine.found

To(place) == mine'.pc = place /\ Same

Done(ok) == To("done") /\ mine'.answer = ok

\* What the helpers of Controller do to the one call.
LEMMA CallRecord ==
  ASSUME TypeOK
  PROVE  Main \in Callers /\ call \in [Callers -> Call] /\ call[Main] \in Call /\ mine = call[Main]
BY ControllerAssumption DEF TypeOK, mine

LEMMA Goes ==
  ASSUME TypeOK, NEW place, goto(Main, place)
  PROVE  To(place)
BY CallRecord DEF goto, To, Same, mine, Call

LEMMA Returns ==
  ASSUME TypeOK, NEW ok \in BOOLEAN, return(Main, ok)
  PROVE  Done(ok)
BY CallRecord DEF return, Done, To, Same, mine, Call

LEMMA Polls ==
  ASSUME TypeOK, NEW on \in BOOLEAN, NEW next, poll(Main, on, next)
  PROVE  To(next) \/ (on /\ To(mine.pc))
BY CallRecord DEF poll, To, Same, mine, Call

\* on(), off() or reset() has failed.
Failed ==
  \/ mine.op \in Changes /\ To("rollback")
  \/ mine.op \notin Changes /\ Done(FALSE)

\* off() has succeeded.
OffIsOver ==
  \/ mine.op \in {"off", "shutdown"} /\ Done(TRUE)
  \/ mine.op \notin {"off", "shutdown"} /\ To("wait")

LEMMA Fails ==
  ASSUME TypeOK, finish(Main, FALSE)
  PROVE  Failed
BY Goes, Returns DEF finish, Failed, mine, Changes

LEMMA Succeeds ==
  ASSUME TypeOK, finish(Main, TRUE)
  PROVE  Done(TRUE)
BY Returns DEF finish

LEMMA OffOvers ==
  ASSUME TypeOK
  PROVE  /\ after_off(Main, TRUE) => OffIsOver
         /\ after_off(Main, FALSE) => Failed
BY Goes, Fails, Succeeds DEF after_off, mine, OffIsOver

\* The steps that only look, and what they make of it.
Observes ==
  \/ mine.pc = "on" /\ is_running /\ Done(TRUE)
  \/ mine.pc = "on" /\ ~is_running /\ To("dirs")
  \/ mine.pc = "test" /\ test_config /\ To("start")
  \/ mine.pc = "test" /\ fails(test_config) /\ Failed
  \/ mine.pc = "off" /\ is_running /\ To("quit")
  \/ mine.pc = "off" /\ ~is_running /\ OffIsOver
  \/ mine.pc = "reset" /\ is_running /\ To("off")
  \/ mine.pc = "reset" /\ ~is_running /\ To("on")
  \/ mine.pc = "wait" /\ (server.state = "quitting" => lingers) /\ ~is_running /\ To("waited")
  \/ mine.pc = "wait" /\ (server.state = "quitting" => lingers) /\ is_running /\ (To("wait") \/ To("waited"))
  \/ mine.pc = "waited" /\ is_running /\ Failed
  \/ mine.pc = "waited" /\ ~is_running /\ To("on")
  \/ mine.pc = "set_running" /\ is_running /\ To("reload")
  \/ mine.pc = "set_running" /\ ~is_running /\ Done(TRUE)
  \/ mine.pc = "reload" /\ is_running /\ To("reload_test")
  \/ mine.pc = "reload" /\ ~is_running /\ To("rollback")
  \/ mine.pc = "reload_test" /\ fails(test_config) /\ To("rollback")
  \/ mine.pc = "reload_test" /\ test_config /\ kind = "Nginx" /\ To("reload_signal")
  \/ mine.pc = "reload_test" /\ test_config /\ kind = "Lighttpd" /\ To("reset")
  \/ mine.pc = "rise" /\ (setting.prompt => launching = {}) /\ (To("risen") \/ (~is_running /\ To("rise")))
  \/ mine.pc = "risen" /\ is_running /\ Done(TRUE)
  \/ mine.pc = "risen" /\ ~is_running /\ Failed

LEMMA Observations ==
  ASSUME TypeOK,
         \/ On(Main) \/ OnTest(Main) \/ Off(Main) \/ Reset(Main) \/ Wait(Main) \/ Waited(Main)
         \/ SetRunning(Main) \/ NginxReload(Main) \/ LighttpdReload(Main) \/ Rise(Main) \/ Risen(Main)
  PROVE  Observes /\ UNCHANGED <<options, world>>
<1>1. UNCHANGED <<options, world>>
  BY DEF On, OnTest, Off, Reset, Wait, Waited, SetRunning, NginxReload, LighttpdReload, Rise, Risen
<1>2. is_running \in BOOLEAN
  BY DEF is_running
<1> USE DEF at, mine
<1>3. CASE On(Main)
  <2>1. (is_running /\ finish(Main, TRUE)) \/ (~is_running /\ goto(Main, "dirs"))
    BY <1>3 DEF On
  <2> QED BY <1>1, <1>3, <2>1, Goes, Succeeds DEF On, Observes
<1>4. CASE OnTest(Main)
  BY <1>1, <1>4, Goes, Fails DEF OnTest, Observes
<1>5. CASE Off(Main)
  <2>1. (is_running /\ goto(Main, "quit")) \/ (~is_running /\ after_off(Main, TRUE))
    BY <1>5 DEF Off
  <2> QED BY <1>1, <1>5, <2>1, Goes, OffOvers DEF Off, Observes
<1>6. CASE Reset(Main)
  <2>1. (is_running /\ goto(Main, "off")) \/ (~is_running /\ goto(Main, "on"))
    BY <1>6 DEF Reset
  <2> QED BY <1>1, <1>6, <2>1, Goes DEF Reset, Observes
<1>7. CASE Wait(Main)
  <2>1. To("waited") \/ (is_running /\ To("wait"))
    BY <1>2, <1>7, Polls DEF Wait
  <2> QED BY <1>1, <1>2, <1>7, <2>1 DEF Wait, Observes
<1>8. CASE Waited(Main)
  <2>1. (is_running /\ finish(Main, FALSE)) \/ (~is_running /\ goto(Main, "on"))
    BY <1>8 DEF Waited
  <2> QED BY <1>1, <1>8, <2>1, Goes, Fails DEF Waited, Observes
<1>9. CASE SetRunning(Main)
  <2>1. (is_running /\ goto(Main, "reload")) \/ (~is_running /\ return(Main, TRUE))
    BY <1>9 DEF SetRunning
  <2>2. return(Main, TRUE) => Done(TRUE)
    BY Returns
  <2> QED BY <1>1, <1>9, <2>1, <2>2, Goes DEF SetRunning, Observes
<1>10. CASE NginxReload(Main) \/ LighttpdReload(Main)
  <2>1. CASE at(Main, "reload")
    <3>1. (is_running /\ goto(Main, "reload_test")) \/ (~is_running /\ goto(Main, "rollback"))
      BY <1>10, <2>1 DEF NginxReload, LighttpdReload
    <3> QED BY <1>1, <2>1, <3>1, Goes DEF Observes
  <2>2. CASE ~at(Main, "reload")
    <3>1. \/ fails(test_config) /\ goto(Main, "rollback")
          \/ test_config /\ kind = "Nginx" /\ goto(Main, "reload_signal")
          \/ test_config /\ kind = "Lighttpd" /\ goto(Main, "reset")
      BY <1>10, <2>2 DEF NginxReload, LighttpdReload
    <3> QED BY <1>1, <1>10, <2>2, <3>1, Goes DEF NginxReload, LighttpdReload, Observes
  <2> QED BY <2>1, <2>2
<1>11. CASE Rise(Main)
  <2>1. To("risen") \/ (~is_running /\ To("rise"))
    BY <1>2, <1>11, Polls DEF Rise
  <2> QED BY <1>1, <1>11, <2>1 DEF Rise, Observes
<1>12. CASE Risen(Main)
  <2>1. (is_running /\ finish(Main, TRUE)) \/ (~is_running /\ finish(Main, FALSE))
    <3>1. is_running = TRUE \/ is_running = FALSE
      BY <1>2
    <3> QED BY <1>12, <3>1 DEF Risen
  <2> QED BY <1>1, <1>12, <2>1, Fails, Succeeds DEF Risen, Observes
<1> QED BY <1>3, <1>4, <1>5, <1>6, <1>7, <1>8, <1>9, <1>10, <1>11, <1>12

\* A call that has begun.
Starts(place, o, p) ==
  mine'.pc = place /\ mine'.op = o /\ mine'.want = p /\ mine'.found = server

LEMMA Begins ==
  ASSUME TypeOK, NEW place, NEW o, NEW p, begin(Main, place, o, p)
  PROVE  Starts(place, o, p)
<1> DEFINE r == [Idle EXCEPT !.pc = place, !.op = o, !.want = p, !.found = server]
<1>1. r.pc = place /\ r.op = o /\ r.want = p /\ r.found = server
  BY IdleCall DEF Call
<1>2. call' = [call EXCEPT ![Main] = r]
  BY DEF begin
<1> HIDE DEF r
<1>3. call'[Main] = r
  BY <1>2, ControllerAssumption DEF TypeOK
<1> QED BY <1>1, <1>3 DEF mine, Starts

\* set_listen_ports() remembers the option and changes it.
Sets ==
  /\ mine'.pc = "set_write" /\ mine'.prev = http_port
  /\ mine'.op = mine.op /\ mine'.want = mine.want /\ mine'.found = mine.found
  /\ http_port' = mine.want /\ snippet' = snippet

LEMMA SetStep ==
  ASSUME TypeOK, Set(Main)
  PROVE  Sets
<1> DEFINE here == [call[Main] EXCEPT !.prev = http_port, !.pc = "set_write"]
<1>1. /\ here.prev = http_port /\ here.pc = "set_write"
      /\ here.op = mine.op /\ here.want = mine.want /\ here.found = mine.found
  BY CallRecord DEF Call, mine
<1>2. call' = [call EXCEPT ![Main] = here] /\ http_port' = mine.want /\ snippet' = snippet
  BY DEF Set, mine
<1> HIDE DEF here
<1>3. mine' = here
  BY <1>2, CallRecord DEF mine
<1> QED BY <1>1, <1>2, <1>3 DEF Sets

\* The steps that write the options.
Writes ==
  \/ mine.pc = "dirs" /\ To("test") /\ snippet' = http_port /\ http_port' = http_port
  \/ mine.pc = "dirs" /\ setting.faults /\ Failed /\ UNCHANGED options
  \/ mine.pc = "set" /\ Sets
  \/ mine.pc = "set_write" /\ To("set_running") /\ snippet' = http_port /\ http_port' = http_port
  \/ /\ mine.pc = "set_write" /\ setting.faults /\ Done(FALSE)
     /\ http_port' = mine.prev /\ snippet' = snippet
  \/ mine.pc = "rollback" /\ To("rollback_write") /\ http_port' = mine.prev /\ snippet' = snippet
  \/ /\ mine.pc = "rollback_write" /\ Done(FALSE) /\ http_port' = http_port
     /\ snippet' = http_port \/ (setting.faults /\ snippet' = snippet)

LEMMA Writing ==
  ASSUME TypeOK,
         \/ OnWrite(Main) \/ Set(Main) \/ SetWrite(Main) \/ Rollback(Main) \/ RollbackWrite(Main)
  PROVE  Writes /\ UNCHANGED world
<1> USE DEF at, mine
<1>1. return(Main, FALSE) => Done(FALSE)
  BY Returns
<1>2. CASE OnWrite(Main)
  BY <1>2, Goes, Fails DEF OnWrite, Writes, options
<1>3. CASE Set(Main)
  BY <1>3, SetStep DEF Set, Writes
<1>4. CASE SetWrite(Main)
  BY <1>1, <1>4, Goes DEF SetWrite, Writes
<1>5. CASE Rollback(Main)
  BY <1>5, Goes DEF Rollback, Writes
<1>6. CASE RollbackWrite(Main)
  BY <1>1, <1>6 DEF RollbackWrite, Writes
<1> QED BY <1>2, <1>3, <1>4, <1>5, <1>6

\* The steps that act on the server.
Commands ==
  \/ /\ mine.pc = "start" /\ kind = "Nginx" /\ binds(snippet) /\ Rises(snippet) /\ Done(TRUE)
     /\ launching' = launching
  \/ /\ mine.pc = "start" /\ kind = "Lighttpd" /\ launching' = launching \cup {snippet} /\ To("rise")
     /\ UNCHANGED <<server, orphans>>
  \/ /\ mine.pc = "start" /\ fails(binds(snippet)) /\ Failed
     /\ UNCHANGED <<server, launching, orphans>>
  \/ /\ mine.pc = "quit" /\ is_running /\ server' = [server EXCEPT !.state = "quitting"] /\ OffIsOver
     /\ UNCHANGED <<launching, orphans>>
  \/ /\ mine.pc = "quit" /\ ~is_running /\ OffIsOver
     /\ UNCHANGED <<server, launching, orphans>>
  \/ /\ mine.pc = "quit" /\ fails(is_running) /\ Failed
     /\ UNCHANGED <<server, launching, orphans>>
  \/ /\ mine.pc = "reload_signal" /\ is_running /\ server' = [server EXCEPT !.hup = TRUE] /\ Done(TRUE)
     /\ UNCHANGED <<launching, orphans>>
  \/ /\ mine.pc = "reload_signal" /\ fails(is_running) /\ To("rollback")
     /\ UNCHANGED <<server, launching, orphans>>

LEMMA Commanding ==
  ASSUME TypeOK,
         \/ NginxStart(Main) \/ LighttpdStart(Main) \/ Quit(Main) \/ Interrupt(Main) \/ ReloadSignal(Main)
  PROVE  Commands /\ UNCHANGED <<options, setting, carries>>
<1> USE DEF at, mine
<1>1. CASE NginxStart(Main)
  BY <1>1, Fails, Succeeds DEF NginxStart, Commands
<1>2. CASE LighttpdStart(Main)
  BY <1>2, Goes, Fails DEF LighttpdStart, Commands
<1>3. CASE Quit(Main)
  BY <1>3, OffOvers DEF Quit, Commands
<1>4. CASE Interrupt(Main)
  BY <1>4, OffOvers DEF Interrupt, Commands
<1>5. CASE ReloadSignal(Main)
  <2>1. return(Main, TRUE) => Done(TRUE)
    BY Returns
  <2> QED BY <1>5, <2>1, Goes DEF ReloadSignal, Commands
<1> QED BY <1>1, <1>2, <1>3, <1>4, <1>5

\* The calls that begin and end.
Turns ==
  \/ /\ mine.pc = "done" /\ mine.op = "startup" /\ Starts("on", "boot", None)
     /\ carries' = carries
  \/ /\ mine.pc = "idle" /\ setting.restarts /\ Starts("off", "shutdown", None)
     /\ carries' = carries
  \/ /\ mine.pc = "idle" /\ (setting.proxied \/ carries' = carries)
     /\ \/ \E o \in {"on", "off", "reset"} : Starts(o, o, None)
        \/ \E p \in Ports : Starts("set", "port", p)
  \/ /\ mine.pc = "done" /\ mine' = Idle
     /\ carries' = carries \ {Main}

LEMMA Turning ==
  ASSUME TypeOK, Boot \/ Shutdown \/ Begin(Main) \/ End(Main)
  PROVE  Turns /\ UNCHANGED <<options, setting, server, launching, orphans>>
<1> USE DEF at, mine
<1>1. CASE Boot
  BY <1>1, Begins DEF Boot, Turns, world
<1>2. CASE Shutdown
  BY <1>2, Begins, ControllerAssumption DEF Shutdown, Turns, world
<1>3. CASE Begin(Main)
  BY <1>3, Begins DEF Begin, Turns
<1>4. CASE End(Main)
  BY <1>4, CallRecord DEF End, Turns
<1> QED BY <1>1, <1>2, <1>3, <1>4

\* The backend starts again, with the server it finds.
Boots ==
  mine'.pc = "set" /\ mine'.op = "startup" /\ mine'.want = setting.start

LEMMA Restarting ==
  ASSUME Restart \/ Relaunch
  PROVE  Boots
<1>1. PICK found : call' = booting(setting, found)
  BY DEF Restart, Relaunch
<1> DEFINE r == [Idle EXCEPT !.pc = "set", !.op = "startup", !.want = setting.start, !.found = found]
<1>2. r.pc = "set" /\ r.op = "startup" /\ r.want = setting.start
  BY IdleCall DEF Call
<1>3. call' = [c \in Callers |-> IF c = Main THEN r ELSE Idle]
  BY <1>1 DEF booting
<1> HIDE DEF r
<1> QED BY <1>2, <1>3, ControllerAssumption DEF mine, Boots

\* The circumstances are chosen once.
LEMMA CircumstancesStay == Inv /\ [Next]_vars => setting' = setting
<1> USE DEF world, options
<1>1. ASSUME NEW c \in Callers, Continue(c) PROVE setting' = setting
  BY <1>1
  DEF Continue, On, OnWrite, OnTest, NginxStart, LighttpdStart, Rise, Risen, Off, Quit, Interrupt,
      Reset, Wait, Waited, Set, SetWrite, SetRunning, NginxReload, ReloadSignal, LighttpdReload,
      Rollback, RollbackWrite, End
<1>2. ASSUME NEW c \in Callers, Begin(c) PROVE setting' = setting
  BY <1>2 DEF Begin
<1> QED
  BY <1>1, <1>2
  DEF Next, Boot, Shutdown, NginxReloads, NginxExits, LighttpdRises, LighttpdExits, Restart,
      Relaunch, ServerCrashes, vars

OwnStep == settled /\ (Boot \/ Shutdown \/ Begin(Main) \/ Continue(Main))

ServerMoves ==
  \/ NginxReloads \/ NginxExits \/ LighttpdRises \/ LighttpdExits
  \/ Restart \/ Relaunch \/ ServerCrashes

LEMMA AloneStep ==
  ASSUME Inv, Alone, Single, [Next]_vars
  PROVE  /\ Alone' /\ setting' = setting
         /\ OwnStep \/ ServerMoves \/ UNCHANGED vars
<1>1. Main \in Callers /\ call \in [Callers -> Call]
  BY ControllerAssumption DEF Inv, TypeOK
<1>2. \A c \in Callers \ {Main} : ~Continue(c) /\ ~Begin(c)
  BY DEF Alone, Single, at, Continue, Begin,
     On, OnWrite, OnTest, NginxStart, LighttpdStart, Rise, Risen, Off, Quit, Interrupt, Reset,
     Wait, Waited, Set, SetWrite, SetRunning, NginxReload, ReloadSignal, LighttpdReload, Rollback,
     RollbackWrite, End
<1>3. setting' = setting
  BY CircumstancesStay
<1>4. ASSUME NEW c \in Callers \ {Main}, OwnStep \/ (ServerMoves /\ ~Restart /\ ~Relaunch) \/ UNCHANGED vars
      PROVE call'[c] = call[c]
  BY <1>1, <1>4 DEF OwnStep, ServerMoves, Continue, Begin, Boot, Shutdown, begin, NginxReloads, NginxExits, LighttpdRises, LighttpdExits,
     Restart, Relaunch, ServerCrashes, vars, goto, return, finish, poll, after_off,
     On, OnWrite, OnTest, NginxStart, LighttpdStart, Rise, Risen, Off, Quit, Interrupt, Reset,
     Wait, Waited, Set, SetWrite, SetRunning, NginxReload, ReloadSignal, LighttpdReload, Rollback,
     RollbackWrite, End
<1>5. ASSUME NEW c \in Callers \ {Main}, Restart \/ Relaunch
      PROVE  call'[c].pc = "idle"
  BY <1>5 DEF Restart, Relaunch, booting, Idle
<1>6. OwnStep \/ ServerMoves \/ UNCHANGED vars
  BY <1>2 DEF Next, OwnStep, ServerMoves
<1>7. Alone'
  BY <1>3, <1>4, <1>5, <1>6 DEF Alone, Single, at, ServerMoves
<1> QED BY <1>3, <1>6, <1>7

\* What the one caller does in a step.
Acts ==
  /\ settled
  /\ \/ Observes /\ UNCHANGED <<options, world>>
     \/ Writes /\ UNCHANGED world
     \/ Commands /\ UNCHANGED <<options, setting, carries>>
     \/ Turns /\ UNCHANGED <<options, setting, server, launching, orphans>>

LEMMA OneCaller ==
  ASSUME Inv, Alone, Single, [Next]_vars
  PROVE  /\ TypeOK /\ Alone' /\ setting' = setting /\ Single'
         /\ Acts \/ ServerMoves \/ UNCHANGED vars
<1>1. ASSUME OwnStep PROVE Acts
  BY <1>1, Observations, Writing, Commanding, Turning DEF OwnStep, Continue, Acts, Inv
<1> QED BY <1>1, AloneStep DEF Inv, Single

-----------------------------------------------------------------------------

Starting == {"dirs", "test", "start"}

\* A prompt server, and one caller: a server is started only when there is none.
Tracked ==
  setting.prompt /\ Single =>
    /\ orphans = {}
    /\ mine.pc \in Starting => server.state = "down"
    /\ launching # {} =>
         mine.pc = "rise" /\ server.state = "down" /\ \E p \in Ports : launching = {p}

LEMMA TrackedStep ==
  ASSUME Inv, Alone, Single, Tracked, [Next]_vars
  PROVE  Tracked'
<1> SUFFICES ASSUME setting.prompt PROVE Tracked'
  BY OneCaller DEF Tracked
<1>1. TypeOK /\ is_running \in BOOLEAN /\ setting' = setting /\ snippet \in Ports \cup {None}
  BY OneCaller DEF TypeOK, is_running
<1>2. /\ orphans = {}
      /\ mine.pc \in Starting => server.state = "down"
      /\ launching # {} =>
           mine.pc = "rise" /\ server.state = "down" /\ \E p \in Ports : launching = {p}
  BY DEF Tracked
<1> USE <1>1, <1>2 DEF Tracked, Starting, To, Done, Failed
<1>3. CASE Observes /\ UNCHANGED <<options, world>>
  BY <1>3 DEF Observes, OffIsOver, is_running, world
<1>4. CASE Writes /\ UNCHANGED world
  BY <1>4 DEF Writes, Sets, world
<1>5. CASE Commands /\ UNCHANGED <<options, setting, carries>>
  <2>1. mine.pc = "start" => snippet \in Ports
    BY ControllerAssumption DEF Inv, Sound, mine
  <2> QED BY <1>5, <2>1 DEF Commands, OffIsOver, Rises
<1>6. CASE Turns /\ UNCHANGED <<options, setting, server, launching, orphans>>
  BY <1>6, IdleCall DEF Turns, Starts
<1>7. CASE NginxReloads \/ NginxExits \/ LighttpdExits \/ ServerCrashes
  <2>1. launching' = launching /\ orphans' = orphans /\ mine' = mine
    BY <1>7 DEF NginxReloads, NginxExits, LighttpdExits, ServerCrashes, mine
  <2>2. server.state = "down" => server'.state = "down"
    BY <1>7 DEF NginxReloads, NginxExits, LighttpdExits, ServerCrashes, is_running
  <2> QED BY <2>1, <2>2
<1>8. CASE LighttpdRises
  BY <1>8 DEF LighttpdRises, Rises, mine
<1>9. CASE Restart \/ Relaunch
  BY <1>9, Restarting DEF Restart, Relaunch, Boots, Down
<1>10. CASE UNCHANGED vars
  BY <1>10 DEF vars, world, mine
<1> QED
  BY <1>3, <1>4, <1>5, <1>6, <1>7, <1>8, <1>9, <1>10, OneCaller DEF Acts, ServerMoves

\* Where a call of on() can be, and what it may say of the server.
Believing == Single /\ ~setting.crashes /\ mine.op \in {"on", "boot"}

Believable ==
  /\ mine.pc \in {"on", "dirs", "test", "start", "rise", "risen", "done"}
  /\ server.state = "quitting" => mine.found.state = "quitting"
  /\ mine.pc = "done" /\ mine.answer = TRUE => server.state = "up" \/ mine.found.state = "quitting"

Believed == Believing => Believable

LEMMA BelievedStep ==
  ASSUME Inv, Alone, Single, Believed, [Next]_vars
  PROVE  Believed'
<1> SUFFICES ASSUME Believing' PROVE Believable'
  BY DEF Believed
<1>1. /\ TypeOK /\ setting' = setting /\ ~setting.crashes
      /\ server.state \in {"up", "quitting", "down"} /\ mine'.op \in {"on", "boot"}
  BY OneCaller DEF TypeOK, Server, Down, Believing
<1>2. mine.op \in {"on", "boot"} => Believable
  BY <1>1 DEF Believed, Believing
<1> USE <1>1, <1>2 DEF Believable, To, Same, Done, Failed, Changes
<1>3. CASE Observes /\ UNCHANGED <<options, world>>
  BY <1>3 DEF Observes, OffIsOver, is_running, world
<1>4. CASE Writes /\ UNCHANGED world
  BY <1>4 DEF Writes, Sets, world
<1>5. CASE Commands /\ UNCHANGED <<options, setting, carries>>
  BY <1>5 DEF Commands, OffIsOver, Rises, Up
<1>6. CASE Turns /\ UNCHANGED <<options, setting, server, launching, orphans>>
  BY <1>6, IdleCall, ControllerAssumption DEF Turns, Starts, Op
<1>7. CASE NginxReloads \/ NginxExits \/ LighttpdExits \/ LighttpdRises
  <2>1. mine' = mine
    BY <1>7 DEF NginxReloads, NginxExits, LighttpdExits, LighttpdRises, mine
  <2>2. /\ server'.state = "quitting" => server.state = "quitting"
        /\ server.state = "up" => server'.state = "up"
    BY <1>7 DEF NginxReloads, NginxExits, LighttpdExits, LighttpdRises, Rises, Up, Down
  <2> QED BY <2>1, <2>2
<1>8. CASE ServerCrashes
  BY <1>8 DEF ServerCrashes
<1>9. CASE Restart \/ Relaunch
  BY <1>9, Restarting DEF Boots
<1>10. CASE UNCHANGED vars
  BY <1>10 DEF vars, world, mine
<1> QED
  BY <1>3, <1>4, <1>5, <1>6, <1>7, <1>8, <1>9, <1>10, OneCaller DEF Acts, ServerMoves

\* A change to a port that is refused leaves the server as it was found.
Refused ==
  /\ setting.prompt /\ Single /\ ~setting.crashes
  /\ mine.op = "port" /\ mine.want \in setting.rejected /\ mine.found.state = "up"

Untouched ==
  /\ mine.pc \in {"set", "set_write", "set_running", "reload", "reload_test", "rollback",
                  "rollback_write", "done"}
  /\ server = mine.found /\ ~server.hup
  /\ mine.pc = "set_write" => http_port = mine.want
  /\ mine.pc \in {"set_running", "reload", "reload_test"} => snippet = mine.want
  /\ mine.pc = "done" => mine.answer = FALSE

RefusedInv == Refused => Untouched

LEMMA RefusedStep ==
  ASSUME Inv, Alone, Single, Tracked, RefusedInv, [Next]_vars
  PROVE  RefusedInv'
<1> SUFFICES ASSUME Refused' PROVE Untouched'
  BY DEF RefusedInv
<1>1. TypeOK /\ setting' = setting /\ setting.prompt /\ ~setting.crashes
  BY OneCaller DEF Refused
<1>2. Same => Refused /\ Untouched /\ launching = {}
  BY <1>1 DEF Same, Refused, RefusedInv, Untouched, Tracked
<1> USE DEF Refused, Untouched
<1>3. CASE Observes /\ UNCHANGED <<options, world>>
  <2>1. Same
    BY <1>3 DEF Observes, To, Done, Failed, OffIsOver
  <2> QED
    BY <1>1, <1>2, <1>3, <2>1
    DEF Observes, To, Same, Done, Failed, OffIsOver, Changes, is_running, test_config, world, options
<1>4. CASE Writes /\ UNCHANGED world
  BY <1>1, <1>2, <1>4 DEF Writes, Sets, To, Same, Done, Failed, world, options, RefusedInv
<1>5. CASE Commands /\ UNCHANGED <<options, setting, carries>>
  BY <1>1, <1>2, <1>5 DEF Commands, To, Done, Failed, OffIsOver
<1>6. CASE settled /\ Turns /\ UNCHANGED <<options, setting, server, launching, orphans>>
  BY <1>1, <1>6, IdleCall, ControllerAssumption DEF Turns, Starts, Op, settled
<1>7. CASE NginxReloads \/ NginxExits \/ LighttpdExits \/ LighttpdRises
  <2>1. mine' = mine /\ Same
    BY <1>7 DEF NginxReloads, NginxExits, LighttpdExits, LighttpdRises, mine, Same
  <2> QED BY <1>2, <1>7, <2>1 DEF NginxReloads, NginxExits, LighttpdExits, LighttpdRises
<1>8. CASE ServerCrashes
  BY <1>1, <1>8 DEF ServerCrashes
<1>9. CASE Restart \/ Relaunch
  BY <1>9, Restarting DEF Boots
<1>10. CASE UNCHANGED vars
  BY <1>2, <1>10 DEF vars, world, options, mine, Same
<1> QED
  BY <1>3, <1>4, <1>5, <1>6, <1>7, <1>8, <1>9, <1>10, OneCaller DEF Acts, ServerMoves

\* A reset that found the server up: where it can be, and what there is to go on with.
Resetting ==
  /\ calm /\ (kind = "Nginx" => ~setting.proxied)
  /\ mine.op = "reset" /\ mine.found.state = "up" /\ bindable(http_port)

Replaceable ==
  /\ mine.pc \in {"reset", "off", "quit", "wait", "waited", "on", "dirs", "test", "start",
                  "rise", "risen", "done"}
  /\ mine.pc \in {"reset", "off", "quit", "risen", "done"} => server.state = "up"
  /\ mine.pc = "wait" => server.state # "up"
  /\ mine.pc \in {"waited", "on"} => server.state = "down"
  /\ mine.pc \in {"test", "start"} => snippet = http_port
  /\ mine.pc = "rise" => server.state = "up" \/ launching = {http_port}

ResetInv ==
  /\ Single /\ ~setting.proxied => carries = {}
  /\ Resetting => Replaceable

LEMMA ResetStep ==
  ASSUME Inv, Alone, Single, Tracked, ResetInv, [Next]_vars
  PROVE  ResetInv'
<1>1. ~setting.proxied => carries' = {}
  <2>1. carries' \in {carries, carries \ {Main}, {}} \/ setting.proxied
    BY OneCaller
    DEF Acts, Turns, ServerMoves, NginxReloads, NginxExits, LighttpdExits, LighttpdRises,
        Restart, Relaunch, ServerCrashes, vars, world
  <2> QED BY <2>1 DEF ResetInv
<1> SUFFICES ASSUME Resetting' PROVE Replaceable'
  BY <1>1, OneCaller DEF ResetInv
<1>2. /\ TypeOK /\ setting' = setting /\ setting.prompt /\ ~setting.faults /\ ~setting.crashes
      /\ kind' = kind /\ (kind = "Nginx" => ~setting.proxied)
      /\ mine'.op = "reset" /\ mine'.found.state = "up"
  BY OneCaller DEF Resetting, calm, kind
<1>3. Same /\ http_port' = http_port => Resetting /\ Replaceable /\ orphans = {}
  BY <1>2 DEF Same, Resetting, bindable, calm, ResetInv, Tracked
<1>4. kind = "Nginx" => carries = {}
  BY <1>2 DEF ResetInv
<1> USE <1>2 DEF Replaceable
<1>5. CASE Observes /\ UNCHANGED <<options, world>>
  <2>1. Same
    BY <1>5 DEF Observes, To, Done, Failed, OffIsOver
  <2>2. ~lingers /\ server.state \in {"up", "quitting", "down"}
    BY <1>4 DEF lingers, TypeOK, Server, Down
  <2>3. mine.op = "reset" /\ Replaceable /\ (launching = {} => launching # {http_port})
    BY <1>3, <1>5, <2>1 DEF options, Same
  <2>4. mine.pc = "test" => test_config /\ ~fails(test_config)
    BY <1>3, <1>5, <2>1, <2>3 DEF Resetting, bindable, test_config, fails, options
  <2>5. UNCHANGED <<http_port, snippet, server, launching>>
    BY <1>5 DEF options, world
  <2> QED
    BY <1>5, <2>2, <2>3, <2>4, <2>5
    DEF Observes, To, Done, Failed, OffIsOver, Changes, is_running
<1>6. CASE Writes /\ UNCHANGED world
  <2>1. mine.op = "reset"
    BY <1>6 DEF Writes, Sets, To, Same, Done, Failed
  <2>2. mine.pc \notin {"set", "set_write", "rollback", "rollback_write"}
    BY <2>1, ControllerAssumption DEF Inv, Sound, Changes, Changing, mine
  <2>3. To("test") /\ snippet' = http_port /\ http_port' = http_port
    BY <1>6, <2>2 DEF Writes
  <2> QED BY <2>3 DEF To
<1>7. CASE Commands /\ UNCHANGED <<options, setting, carries>>
  <2>1. Same
    BY <1>7 DEF Commands, To, Done, Failed, OffIsOver
  <2>2. Replaceable /\ orphans = {} /\ Resetting /\ mine.op = "reset"
    BY <1>3, <1>7, <2>1 DEF options, Same
  <2>3. CASE mine.pc = "start"
    <3>1. server.state = "down" /\ snippet = http_port /\ launching = {}
      BY <2>2, <2>3 DEF Tracked, Starting, Resetting, calm, Single
    <3>2. binds(snippet)
      BY <2>2, <3>1 DEF binds, Resetting, bindable
    <3> QED BY <1>7, <2>1, <2>3, <3>1, <3>2 DEF Commands, To, Done, Failed, Rises, Up, fails, options
  <2>4. CASE mine.pc = "quit"
    <3>1. is_running /\ server.state = "up"
      BY <2>2, <2>4 DEF is_running
    <3>2. mine'.pc = "wait" /\ server' = [server EXCEPT !.state = "quitting"]
      BY <1>7, <2>2, <2>4, <3>1 DEF Commands, OffIsOver, To, fails
    <3>3. server \in [state: {"up", "quitting"}, port: Ports, hup: BOOLEAN]
      BY <3>1 DEF TypeOK, Server, Down
    <3> QED BY <3>2, <3>3
  <2> QED BY <1>7, <2>2, <2>3, <2>4 DEF Commands
<1>8. CASE settled /\ Turns /\ UNCHANGED <<options, setting, server, launching, orphans>>
  BY <1>8, IdleCall, ControllerAssumption DEF Turns, Starts, Op
<1>9. CASE NginxReloads \/ NginxExits \/ LighttpdExits
  <2>1. mine' = mine /\ Same /\ options' = options /\ launching' = launching
    BY <1>9 DEF NginxReloads, NginxExits, LighttpdExits, mine, Same
  <2>2. Replaceable
    BY <1>3, <2>1 DEF options
  <2> QED BY <1>9, <2>1, <2>2 DEF NginxReloads, NginxExits, LighttpdExits, Up, Down, options
<1>10. CASE LighttpdRises
  <2>1. mine' = mine /\ Same /\ options' = options
    BY <1>10 DEF LighttpdRises, mine, Same
  <2>2. Replaceable /\ orphans = {} /\ Resetting
    BY <1>3, <2>1 DEF options
  <2>3. mine.pc = "rise" /\ server.state = "down" /\ launching = {http_port}
    BY <1>10, <2>2 DEF LighttpdRises, Tracked, Resetting, calm, Single
  <2>4. binds(http_port)
    BY <2>2, <2>3 DEF binds, Resetting, bindable
  <2> QED BY <1>10, <2>1, <2>3, <2>4 DEF LighttpdRises, Rises, Up
<1>11. CASE ServerCrashes
  BY <1>11 DEF ServerCrashes
<1>12. CASE Restart \/ Relaunch
  BY <1>12, Restarting DEF Boots
<1>13. CASE UNCHANGED vars
  BY <1>3, <1>13 DEF vars, world, options, mine, Same
<1> QED
  BY <1>5, <1>6, <1>7, <1>8, <1>9, <1>10, <1>11, <1>12, <1>13, OneCaller DEF Acts, ServerMoves

\* The conditions under which the ports agree at rest.
Orderly ==
  calm /\ setting.start \notin setting.rejected /\ (kind = "Nginx" => setting.unbindable = {})

\* main() is about to set its port: nothing is known of a server from before.
AtStartup == mine.op = "startup" /\ mine.pc = "set"

\* Option, snippet and what is being started name one port, that of main() in its call,
\* unless the snippet is about to be written.
OnePort ==
  /\ AtStartup \/ mine.pc \in {"set_write", "rollback_write"} \/ snippet = http_port
  /\ launching \subseteq {http_port}
  /\ mine.op = "startup" => mine.want = setting.start
  /\ mine.op = "startup" /\ mine.pc \notin {"set", "rollback", "rollback_write", "done"} =>
       http_port = setting.start

\* A reload is pending only after a change has reported success, to a port that is valid.
Pending ==
  /\ mine.pc = "reload_signal" => kind = "Nginx" /\ snippet \notin setting.rejected
  /\ server.hup /\ server.state = "up" =>
       \/ AtStartup
       \/ /\ mine.pc = "done" /\ mine.op \in Changes
          /\ kind = "Nginx" /\ snippet \notin setting.rejected

\* Where no server is up.
Vacant ==
  /\ mine.pc \in {"wait", "waited"} => server.state # "up"
  /\ mine.pc = "on" /\ mine.op \in Changes \cup {"reset"} => server.state # "up"
  /\ mine.pc \in {"rollback", "rollback_write"} /\ mine.op = "startup" => server.state # "up"

\* The port of a server that is up: the option's, but during a change the one before.
InForce ==
  \/ mine.op \notin Changes
  \/ mine.pc \in {"rise", "risen", "rollback_write", "done"}
  \/ mine.pc = "set" /\ mine.op = "port"

Midway ==
  /\ mine.op = "port"
  /\ mine.pc \in {"set_write", "set_running", "reload", "reload_test", "reload_signal", "rollback"}

Listening ==
  server.state = "up" /\ ~server.hup =>
    /\ InForce => server.port = http_port
    /\ Midway => server.port = mine.prev

PortsInv ==
  Single =>
    /\ mine.pc = "idle" => mine.op \notin Changes
    /\ Orderly => OnePort /\ Pending /\ Vacant /\ Listening

LEMMA IdleStep ==
  ASSUME Inv, Alone, Single, PortsInv, [Next]_vars
  PROVE  mine'.pc = "idle" => mine'.op \notin Changes
<1>1. mine.pc = "idle" => mine.op \notin Changes
  BY DEF PortsInv
<1>2. None \notin Changes
  BY ControllerAssumption DEF Changes, Op
<1> USE DEF To, Same, Done, Failed
<1>3. CASE Observes
  BY <1>3 DEF Observes, OffIsOver
<1>4. CASE Writes \/ Commands
  BY <1>4 DEF Writes, Sets, Commands, OffIsOver
<1>5. CASE Turns
  BY <1>2, <1>5, IdleCall DEF Turns, Starts
<1>6. CASE Restart \/ Relaunch
  BY <1>6, Restarting DEF Boots
<1>7. ASSUME mine' = mine PROVE mine'.pc = "idle" => mine'.op \notin Changes
  BY <1>1, <1>7
<1>8. CASE UNCHANGED call
  BY <1>7, <1>8 DEF mine
<1> QED
  BY <1>3, <1>4, <1>5, <1>6, <1>8, OneCaller
  DEF Acts, ServerMoves, NginxReloads, NginxExits, LighttpdExits, LighttpdRises, ServerCrashes, vars

LEMMA PortsStep ==
  ASSUME Inv, Alone, Single, Tracked, PortsInv, [Next]_vars
  PROVE  PortsInv'
<1>1. /\ TypeOK /\ setting' = setting /\ kind' = kind
      /\ server.state \in {"up", "quitting", "down"}
      /\ server.state # "down" => server \in [state: {"up", "quitting"}, port: Ports, hup: BOOLEAN]
  BY OneCaller DEF TypeOK, Server, Down, kind
<1> SUFFICES ASSUME Orderly' PROVE (OnePort /\ Pending /\ Vacant /\ Listening)'
  BY IdleStep, OneCaller DEF PortsInv
<1>2. Orderly /\ setting.prompt /\ ~setting.faults /\ ~setting.crashes /\ setting.start \notin setting.rejected
  BY <1>1 DEF Orderly, calm
<1>3. /\ OnePort /\ Pending /\ Vacant /\ Listening
      /\ mine.pc = "idle" => mine.op \notin Changes
  BY <1>2 DEF PortsInv
<1>4. /\ orphans = {}
      /\ mine.pc \in {"dirs", "test", "start"} => server.state = "down"
      /\ launching # {} => mine.pc = "rise" /\ server.state = "down"
  BY <1>2 DEF Tracked, Starting
<1>5. mine.pc \in Changing => mine.op \in Changes
  BY ControllerAssumption DEF Inv, Sound, mine
<1> USE DEF AtStartup, OnePort, Pending, Vacant, Listening, InForce, Midway, Changes, To, Same, Done
<1>6. CASE settled /\ Observes /\ UNCHANGED <<options, world>>
  <2>1. UNCHANGED <<http_port, snippet, server, launching>>
    BY <1>6 DEF options, world
  <2>2. server.state = "up" => ~server.hup
    BY <1>2, <1>6 DEF settled
  <2>3. mine.op = "startup" /\ mine.pc = "reload_test" => test_config /\ ~fails(test_config)
    BY <1>2, <1>3 DEF test_config, fails
  <2>4. mine.pc = "test" => test_config \/ fails(test_config)
    BY DEF fails
  <2>5. Same
    BY <1>6 DEF Observes, Failed, OffIsOver
  <2>6. OnePort'
    BY <1>1, <1>3, <1>6, <2>1, <2>5 DEF Observes, Failed, OffIsOver
  <2>7. Pending'
    BY <1>1, <1>3, <1>6, <2>1, <2>2, <2>5 DEF Observes, Failed, OffIsOver, test_config
  <2>8. Vacant'
    BY <1>1, <1>3, <1>4, <1>6, <2>1, <2>3, <2>5 DEF Observes, Failed, OffIsOver, is_running
  <2>9. Listening'
    BY <1>1, <1>3, <1>4, <1>6, <2>1, <2>2, <2>3, <2>5 DEF Observes, Failed, OffIsOver, is_running
  <2> QED BY <2>6, <2>7, <2>8, <2>9
<1>7. CASE settled /\ Writes /\ UNCHANGED world
  <2>1. UNCHANGED <<server, launching>>
    BY <1>7 DEF world
  <2>2. server.state = "up" => ~server.hup
    BY <1>2, <1>7 DEF settled
  <2> QED
    BY <1>1, <1>2, <1>3, <1>4, <1>5, <1>7, <2>1, <2>2 DEF Writes, Sets, Failed, Changing
<1>8. CASE settled /\ Commands /\ UNCHANGED <<options, setting, carries>>
  <2>1. UNCHANGED <<http_port, snippet>>
    BY <1>8 DEF options
  <2>2. server.state = "up" => ~server.hup
    BY <1>2, <1>8 DEF settled
  <2>3. CASE mine.pc = "start"
    BY <1>1, <1>3, <1>4, <1>8, <2>1, <2>2, <2>3 DEF Commands, Failed, Rises, Up
  <2>4. CASE mine.pc = "quit"
    BY <1>1, <1>2, <1>3, <1>4, <1>8, <2>1, <2>2, <2>4 DEF Commands, Failed, OffIsOver, fails, is_running
  <2>5. CASE mine.pc = "reload_signal"
    BY <1>1, <1>2, <1>3, <1>4, <1>5, <1>8, <2>1, <2>2, <2>5 DEF Commands, fails, is_running, Changing
  <2> QED BY <1>8, <2>3, <2>4, <2>5 DEF Commands
<1>9. CASE settled /\ Turns /\ UNCHANGED <<options, setting, server, launching, orphans>>
  <2>1. server.state = "up" => ~server.hup
    BY <1>2, <1>9 DEF settled
  <2> QED
    BY <1>1, <1>3, <1>4, <1>9, <2>1, IdleCall, ControllerAssumption DEF Turns, Starts, options, Op
<1>10. CASE NginxReloads
  <2>1. mine' = mine /\ UNCHANGED <<http_port, snippet, launching>>
    BY <1>10 DEF NginxReloads, mine, options
  <2>2. server' = Up(IF binds(snippet) THEN snippet ELSE server.port)
    BY <1>10 DEF NginxReloads
  <2>3. server.hup /\ server.state = "up"
    BY <1>10 DEF NginxReloads
  <2>4. ~AtStartup => server'.port = snippet
    BY <1>2, <1>3, <1>4, <2>2, <2>3 DEF binds, Up, Orderly
  <2> QED BY <1>1, <1>3, <2>1, <2>2, <2>3, <2>4 DEF Up
<1>11. CASE LighttpdRises
  BY <1>3, <1>4, <1>11 DEF LighttpdRises, Rises, Up, mine, options
<1>12. CASE NginxExits \/ LighttpdExits
  BY <1>1, <1>3, <1>12 DEF NginxExits, LighttpdExits, Down, mine, options
<1>13. CASE ServerCrashes
  BY <1>2, <1>13 DEF ServerCrashes
<1>14. CASE Restart \/ Relaunch
  BY <1>1, <1>2, <1>14, Restarting DEF Restart, Relaunch, Boots, Down
<1>15. CASE UNCHANGED vars
  BY <1>1, <1>3, <1>15 DEF vars, options, world, mine
<1> QED
  BY <1>6, <1>7, <1>8, <1>9, <1>10, <1>11, <1>12, <1>13, <1>14, <1>15, OneCaller DEF Acts, ServerMoves

-----------------------------------------------------------------------------
(* What one caller can rely on. *)

OneCallerInv == Alone /\ Tracked /\ Believed /\ RefusedInv /\ ResetInv /\ PortsInv

LEMMA OneCallerInit == Init => OneCallerInv
<1> SUFFICES ASSUME Init PROVE OneCallerInv
  OBVIOUS
<1>1. Inv /\ TypeOK
  BY InitSound DEF Inv
<1>2. mine.pc = "set" /\ mine.op = "startup" /\ mine.want = setting.start
  <2> DEFINE r == [Idle EXCEPT !.pc = "set", !.op = "startup", !.want = setting.start, !.found = Down]
  <2>1. r.pc = "set" /\ r.op = "startup" /\ r.want = setting.start
    BY IdleCall DEF Call
  <2>2. call = [c \in Callers |-> IF c = Main THEN r ELSE Idle]
    BY DEF Init, booting
  <2> HIDE DEF r
  <2> QED BY <2>1, <2>2, ControllerAssumption DEF mine
<1>3. \A c \in Callers \ {Main} : at(c, "idle")
  BY IdleCall DEF Init, booting, at
<1>4. server.state = "down" /\ ~server.hup /\ launching = {} /\ orphans = {} /\ carries = {}
  BY DEF Init, Down
<1>5. Alone /\ Tracked /\ ResetInv
  BY <1>2, <1>3, <1>4 DEF Alone, Tracked, Starting, ResetInv, Resetting
<1>6. Believed /\ RefusedInv
  BY <1>2 DEF Believed, Believing, RefusedInv, Refused
<1>7. PortsInv
  BY <1>2, <1>4 DEF PortsInv, OnePort, Pending, Vacant, Listening, AtStartup
<1> QED BY <1>5, <1>6, <1>7 DEF OneCallerInv

LEMMA OneCallerInvariant == Spec => []OneCallerInv
<1>1. Inv /\ OneCallerInv /\ [Next]_vars => OneCallerInv'
  <2> SUFFICES ASSUME Inv, OneCallerInv, [Next]_vars PROVE OneCallerInv'
    OBVIOUS
  <2>1. CASE Single
    BY <2>1, OneCaller, TrackedStep, BelievedStep, RefusedStep, ResetStep, PortsStep DEF OneCallerInv
  <2>2. CASE ~Single
    <3>1. ~Single'
      BY <2>2, CircumstancesStay DEF Single
    <3>2. Alone' /\ Tracked' /\ PortsInv'
      BY <3>1 DEF Alone, Tracked, PortsInv
    <3>3. Believed' /\ RefusedInv' /\ ResetInv'
      BY <3>1 DEF Believed, Believing, RefusedInv, Refused, ResetInv, Resetting, calm, Single
    <3> QED BY <3>2, <3>3 DEF OneCallerInv
  <2> QED BY <2>1, <2>2
<1> QED BY <1>1, OneCallerInit, ServerInvariant, PTL DEF Spec

\* A single caller never starts a server beside one that is running: on() starts one
\* only when there is none, and returns only when it knows what became of it.
THEOREM NoOrphansAlways == Spec => []NoOrphans
<1>1. OneCallerInv => NoOrphans
  BY DEF OneCallerInv, Tracked, NoOrphans, Single
<1> QED BY <1>1, OneCallerInvariant, PTL

\* When on() returns TRUE the server is up, or was being stopped when the call began.
THEOREM OnMeansServingAlways == Spec => []OnMeansServing
<1>1. OneCallerInv => OnMeansServing
  <2> SUFFICES ASSUME OneCallerInv, Single, ~setting.crashes, NEW c \in Callers,
                      done(c, "on") \/ done(c, "boot"), call[c].answer = TRUE
               PROVE  server.state = "up" \/ call[c].found.state = "quitting"
    BY DEF OnMeansServing, Single
  <2>1. c = Main
    BY DEF OneCallerInv, Alone, done, at
  <2> QED BY <2>1 DEF OneCallerInv, Believed, Believing, Believable, done, at, mine
<1> QED BY <1>1, OneCallerInvariant, PTL

\* A port that the server's validation refuses leaves a server that is up as it was.
THEOREM RefusedChangeKeepsServingAlways == Spec => []RefusedChangeKeepsServing
<1>1. OneCallerInv => RefusedChangeKeepsServing
  <2> SUFFICES ASSUME OneCallerInv, setting.prompt, Single, ~setting.crashes, NEW c \in Callers,
                      done(c, "port"), call[c].want \in setting.rejected,
                      call[c].found.state = "up"
               PROVE  call[c].answer = FALSE /\ server = call[c].found
    BY DEF RefusedChangeKeepsServing, Single
  <2>1. c = Main
    BY DEF OneCallerInv, Alone, done, at
  <2> QED BY <2>1 DEF OneCallerInv, RefusedInv, Refused, Untouched, done, at, mine
<1> QED BY <1>1, OneCallerInvariant, PTL

\* A reset that finds the server up leaves it up, unless its port cannot be bound: with
\* nginx, if the request for it does not come through it.
THEOREM ResetKeepsIngressAlways == Spec => []ResetKeepsIngress
<1>1. OneCallerInv => ResetKeepsIngress
  <2> SUFFICES ASSUME OneCallerInv, calm, kind = "Nginx" => ~setting.proxied, NEW c \in Callers,
                      done(c, "reset"), call[c].found.state = "up", bindable(http_port)
               PROVE  server.state = "up"
    BY DEF ResetKeepsIngress, EveryResetKeepsIngress
  <2>1. c = Main
    BY DEF OneCallerInv, Alone, Single, calm, done, at
  <2> QED BY <2>1 DEF OneCallerInv, ResetInv, Resetting, Replaceable, done, at, mine
<1> QED BY <1>1, OneCallerInvariant, PTL

\* At rest, server, snippet and option name one port, whether changes succeeded or were
\* rolled back, and wherever in one the backend was killed.
THEOREM PortsAgreeAlways == Spec => []PortsAgree
<1>1. Inv /\ OneCallerInv => PortsAgree
  <2> SUFFICES ASSUME Inv, OneCallerInv, Orderly, \A c \in Callers : at(c, "idle"),
                      ~server.hup, server.state = "up"
               PROVE  server.port = http_port /\ snippet = http_port
    BY DEF PortsAgree, Orderly
  <2>1. mine.pc = "idle" /\ Single
    BY ControllerAssumption DEF at, mine, Orderly, calm, Single
  <2> QED
    BY <2>1 DEF OneCallerInv, PortsInv, OnePort, AtStartup, Listening, InForce
<1> QED BY <1>1, OneCallerInvariant, ServerInvariant, PTL

=============================================================================
