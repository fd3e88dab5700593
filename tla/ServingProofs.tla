--------------------------- MODULE ServingProofs ---------------------------
(***************************************************************************)
(* A session is used by one handler or one operation at a time, no handler *)
(* runs outside run(), run() returns only when asked and fails to start    *)
(* only for a cause of its own: the theorems, for every set of threads and *)
(* connections and all bounds.                                             *)
(*                                                                         *)
(* None is inductive alone.  That an accepted connection is in nobody's    *)
(* hands yet has to be known while it is queued (Unused); that no handler  *)
(* starts outside run(), from no thread being idle there (OutOutsideRun);  *)
(* and what a handler starts, from the shape of completions (TypeOK).      *)
(***************************************************************************)
EXTENDS Serving, TLAPS

\* Nothing is under way for a connection that is not accepted, or is closed.
Unused ==
  \A c \in Conns :
    conn[c] \in {"away", "queued"} =>
      /\ Read(c) \notin ops /\ Write(c) \notin ops
      /\ \A t \in Threads : ~serves(t, c)

\* Outside run() every thread is out of the loop.
OutOutsideRun == main # "serving" => \A t \in Threads : at(t, "out")

Inv == TypeOK /\ OneAtATime /\ Unused /\ OutOutsideRun

-----------------------------------------------------------------------------
(* Types *)

\* The values the definitions compare.
LEMMA Values ==
  /\ \A r \in 1..MaxRuns : Accept(r) \in AcceptOp /\ Accept(r) \in Operation
  /\ \A c \in Conns : Read(c) \in SessionOp /\ Write(c) \in SessionOp
                        /\ Read(c) \in Operation /\ Write(c) \in Operation
  /\ SignalWait \in Operation
  /\ Out.op.kind = "out" /\ IdleThread.op.kind = "idle"
BY DEF Accept, Read, Write, SignalWait, AcceptOp, SessionOp, Operation, Out, IdleThread

LEMMA Kinds ==
  /\ \A r \in 1..MaxRuns : Accept(r).kind = "accept"
  /\ \A c \in Conns : /\ Read(c).kind = "read" /\ Read(c).of = c
                      /\ Write(c).kind = "write" /\ Write(c).of = c
  /\ SignalWait.kind = "signal"
BY DEF Accept, Read, Write, SignalWait

\* A thread that handles something has a completion, and its parts have the types of
\* its kind.
LEMMA HandledTypes ==
  ASSUME TypeOK, NEW t \in Threads, handling(t)
  PROVE  /\ thread[t] \in Completion
         /\ at(t, "accept") \/ at(t, "read") \/ at(t, "write") \/ at(t, "signal")
         /\ at(t, "accept") => thread[t].op.of \in 1..MaxRuns
         /\ at(t, "accept") /\ thread[t].ok => thread[t].new \in Conns
         /\ at(t, "accept") /\ ~thread[t].ok => thread[t].new = None
         /\ at(t, "read") \/ at(t, "write") => thread[t].op.of \in Conns
<1>1. thread[t] \in {Out, IdleThread} \cup Completion
  BY DEF TypeOK
<1>2. thread[t] \in Completion
  BY <1>1, Values DEF handling
<1>3. CASE thread[t] \in [op : AcceptOp, ok : {TRUE}, new : Conns]
                           \cup [op : AcceptOp, ok : {FALSE}, new : {None}]
  BY <1>2, <1>3 DEF AcceptOp, at
<1>4. CASE thread[t] \in [op : SessionOp, ok : BOOLEAN, new : {None}]
  BY <1>2, <1>4 DEF SessionOp, at
<1>5. CASE thread[t] \in [op : {SignalWait}, ok : {TRUE}, new : {None}]
  <2>1. thread[t].op.kind = "signal"
    BY <1>5, SignalWait.kind = "signal" DEF SignalWait
  <2> QED BY <1>2, <2>1 DEF at
<1> QED BY <1>2, <1>3, <1>4, <1>5 DEF Completion

LEMMA SettingTypes ==
  ASSUME TypeOK
  PROVE  setting.runs \in 1..MaxRuns /\ setting.mishaps \in 0..MaxMishaps
BY ServingAssumption DEF TypeOK, Setting

\* A mishap is counted, or there is none.
LEMMA Mishaps == ASSUME TypeOK, mishap \/ fine PROVE mishaps' \in 0..MaxMishaps
BY SettingTypes, ServingAssumption DEF mishap, fine, TypeOK

LEMMA TypeInit == Init => TypeOK
<1> SUFFICES ASSUME Init PROVE TypeOK
  OBVIOUS
<1>1. ops \subseteq Operation
  BY Values DEF Init
<1>2. mishaps \in 0..MaxMishaps /\ runs \in 0..MaxRuns
  BY ServingAssumption DEF Init
<1>3. thread \in [Threads -> {Out, IdleThread} \cup Completion]
  BY DEF Init
<1> QED BY <1>1, <1>2, <1>3 DEF Init, TypeOK

-----------------------------------------------------------------------------
(* Steps that complete an operation, and steps that handle a completion. *)

LEMMA TakeTypes ==
  ASSUME TypeOK, NEW t \in Threads, NEW o, NEW ok, NEW new,
         take(t, o, ok, new), [op |-> o, ok |-> ok, new |-> new] \in Completion
  PROVE  /\ thread' \in [Threads -> {Out, IdleThread} \cup Completion]
         /\ ops' \subseteq Operation
BY DEF take, TypeOK

LEMMA HandledOps ==
  ASSUME TypeOK, NEW t \in Threads, NEW started \in SUBSET Operation, handled(t, started)
  PROVE  /\ thread' \in [Threads -> {Out, IdleThread} \cup Completion]
         /\ ops' \subseteq Operation
BY DEF handled, TypeOK

LEMMA TypeNext == TypeOK /\ [Next]_vars => TypeOK'
<1> SUFFICES ASSUME TypeOK, [Next]_vars PROVE TypeOK'
  OBVIOUS
<1>1. CASE Run
  <2>1. runs' \in 0..MaxRuns /\ runs' > 0
    BY <1>1, SettingTypes, ServingAssumption DEF Run, TypeOK
  <2> QED BY <1>1, <2>1 DEF Run, TypeOK
<1>2. CASE Stop \/ Exhaust \/ Return
  BY <1>2 DEF Stop, Exhaust, Return, TypeOK
<1>3. CASE Unlink \/ Bind
  <2>1. mishaps' \in 0..MaxMishaps
    BY <1>3, Mishaps DEF Unlink, Bind
  <2>2. CASE Unlink
    BY <2>1, <2>2 DEF Unlink, TypeOK
  <2>3. CASE Bind /\ serve
    <3>1. Accept(runs) \in Operation
      BY <2>3, Values, ServingAssumption DEF Bind, TypeOK
    <3> QED BY <2>1, <2>3, <3>1 DEF Bind, serve, TypeOK
  <2>4. CASE Bind /\ ~serve
    BY <2>1, <2>4 DEF Bind, TypeOK
  <2> QED BY <1>3, <2>2, <2>3, <2>4
<1>4. ASSUME NEW t \in Threads, Leave(t) PROVE TypeOK'
  BY <1>4 DEF Leave, TypeOK
<1>5. ASSUME NEW t \in Threads, NEW r \in 1..MaxRuns, AcceptFails(t, r) PROVE TypeOK'
  <2>1. [op |-> Accept(r), ok |-> FALSE, new |-> None] \in Completion
    BY Values DEF Completion
  <2> QED BY <1>5, <2>1, TakeTypes, Mishaps DEF AcceptFails, take, TypeOK
<1>6. ASSUME NEW t \in Threads, NEW r \in 1..MaxRuns, NEW c \in Conns, Accepts(t, r, c)
      PROVE TypeOK'
  <2>1. [op |-> Accept(r), ok |-> TRUE, new |-> c] \in Completion
    BY Values DEF Completion
  <2> QED BY <1>6, <2>1, TakeTypes, Mishaps DEF Accepts, take, TypeOK
<1>7. ASSUME NEW t \in Threads, NEW c \in Conns, Reads(t, c) PROVE TypeOK'
  <2>1. \A ok \in BOOLEAN : [op |-> Read(c), ok |-> ok, new |-> None] \in Completion
    BY Values DEF Completion
  <2>2. PICK ok \in BOOLEAN : take(t, Read(c), ok, None)
    BY <1>7 DEF Reads
  <2>3. mishap \/ fine
    BY <1>7 DEF Reads
  <2> QED BY <1>7, <2>1, <2>2, <2>3, TakeTypes, Mishaps DEF Reads, take, TypeOK
<1>8. ASSUME NEW t \in Threads, NEW c \in Conns, Writes(t, c) PROVE TypeOK'
  <2>1. \A ok \in BOOLEAN : [op |-> Write(c), ok |-> ok, new |-> None] \in Completion
    BY Values DEF Completion
  <2>2. PICK ok \in BOOLEAN : take(t, Write(c), ok, None)
    BY <1>8 DEF Writes
  <2>3. (mishap \/ fine) /\ conn' \in [Conns -> {"away", "queued", "open", "asked", "taken", "left"}]
    BY <1>8 DEF Writes, TypeOK
  <2> QED BY <1>8, <2>1, <2>2, <2>3, TakeTypes, Mishaps DEF Writes, take, TypeOK
<1>9. ASSUME NEW t \in Threads, Signals(t) PROVE TypeOK'
  <2>1. [op |-> SignalWait, ok |-> TRUE, new |-> None] \in Completion
    BY DEF Completion
  <2> QED BY <1>9, <2>1, TakeTypes, Mishaps DEF Signals, take, TypeOK
<1>10. ASSUME NEW t \in Threads, OnAccept(t) PROVE TypeOK'
  <2>1. handling(t)
    BY <1>10 DEF OnAccept, at, handling
  <2>2. {Accept(thread[t].op.of)} \cup (IF thread[t].ok THEN {Read(thread[t].new)} ELSE {})
          \in SUBSET Operation
    BY <1>10, <2>1, HandledTypes, Values DEF OnAccept
  <2> QED BY <1>10, <2>2, HandledOps DEF OnAccept, handled, TypeOK
<1>11. ASSUME NEW t \in Threads, OnRead(t) \/ OnWrite(t) PROVE TypeOK'
  <2>1. handling(t)
    BY <1>11 DEF OnRead, OnWrite, at, handling
  <2>2. thread[t].op.of \in Conns
    BY <1>11, <2>1, HandledTypes DEF OnRead, OnWrite
  <2>3. PICK started \in SUBSET Operation : handled(t, started)
    BY <1>11, <2>2, Values DEF OnRead, OnWrite
  <2>4. conn' \in [Conns -> {"away", "queued", "open", "asked", "taken", "left"}]
    BY <1>11 DEF OnRead, OnWrite, close, TypeOK
  <2> QED BY <1>11, <2>3, <2>4, HandledOps DEF OnRead, OnWrite, handled, TypeOK
<1>12. ASSUME NEW t \in Threads, OnSignal(t) PROVE TypeOK'
  BY <1>12, HandledOps DEF OnSignal, handled, TypeOK
<1>13. ASSUME NEW t \in Threads, Throw(t) PROVE TypeOK'
  BY <1>13, HandledOps, Mishaps DEF Throw, throws, handled, TypeOK
<1>14. ASSUME NEW c \in Conns, Connect(c) \/ Ask(c) \/ Drain(c) \/ HangUp(c) PROVE TypeOK'
  BY <1>14 DEF Connect, Ask, Drain, HangUp, TypeOK
<1>15. CASE Signal
  BY <1>15 DEF Signal, TypeOK
<1>16. CASE NewProcess
  <2>1. ops' \subseteq Operation
    BY <1>16, Values DEF NewProcess
  <2>2. mishap \/ fine
    BY <1>16 DEF NewProcess
  <2>3. mishaps' \in 0..MaxMishaps
    BY <2>2, Mishaps
  <2>4. runs' \in 0..MaxRuns /\ main' = "configured"
    BY <1>16, ServingAssumption DEF NewProcess
  <2>5. thread' \in [Threads -> {Out, IdleThread} \cup Completion]
    BY <1>16 DEF NewProcess
  <2>6. conn' \in [Conns -> {"away", "queued", "open", "asked", "taken", "left"}]
    BY <1>16 DEF NewProcess
  <2>7. path' \in {"none", "stale", "bound"}
    BY <1>16 DEF NewProcess, TypeOK
  <2> QED BY <1>16, <2>1, <2>3, <2>4, <2>5, <2>6, <2>7 DEF NewProcess, TypeOK
<1>17. CASE UNCHANGED vars
  BY <1>17 DEF vars, process, TypeOK
<1> QED
  BY <1>1, <1>2, <1>3, <1>4, <1>5, <1>6, <1>7, <1>8, <1>9, <1>10, <1>11, <1>12, <1>13,
     <1>14, <1>15, <1>16, <1>17 DEF Next

-----------------------------------------------------------------------------
(* One at a time *)

\* The operations differ.
LEMMA Distinct ==
  /\ \A c, d \in Conns :
       /\ Read(c) # Write(d)
       /\ Read(c) # SignalWait /\ Write(c) # SignalWait
       /\ Read(c) = Read(d) => c = d
       /\ Write(c) = Write(d) => c = d
  /\ \A c \in Conns, r \in 1..MaxRuns : Read(c) # Accept(r) /\ Write(c) # Accept(r)
BY DEF Read, Write, Accept, SignalWait

\* A step that starts no operation of a session, and lets no thread serve a connection
\* it did not serve, keeps what there is, if every connection it closes is free.
LEMMA NothingStarted ==
  ASSUME OneAtATime, Unused,
         \A c \in Conns : /\ Read(c) \in ops' => Read(c) \in ops
                          /\ Write(c) \in ops' => Write(c) \in ops,
         \A t \in Threads, c \in Conns : serves(t, c)' => serves(t, c),
         \A c \in Conns : conn'[c] \in {"away", "queued"} =>
           \/ conn[c] \in {"away", "queued"}
           \/ /\ Read(c) \notin ops' /\ Write(c) \notin ops'
              /\ \A t \in Threads : ~serves(t, c)'
  PROVE  OneAtATime' /\ Unused'
<1>1. OneAtATime'
  BY DEF OneAtATime, Read, Write
<1>2. Unused'
  BY DEF Unused, Read, Write
<1> QED BY <1>1, <1>2

\* The operations under way for other connections than c are none that were not.
others(c) ==
  \A d \in Conns \ {c} : /\ Read(d) \in ops' => Read(d) \in ops
                         /\ Write(d) \in ops' => Write(d) \in ops

\* Thread t takes connection c, which no thread served, out of the operations.
LEMMA Taken ==
  ASSUME OneAtATime, Unused, NEW t \in Threads, NEW c \in Conns, others(c),
         \A u \in Threads : ~serves(u, c),
         Read(c) \notin ops' /\ Write(c) \notin ops',
         \A u \in Threads, d \in Conns : serves(u, d)' => serves(u, d) \/ (u = t /\ d = c),
         \A d \in Conns : conn'[d] \in {"away", "queued"} =>
           conn[d] \in {"away", "queued"} /\ d # c
  PROVE  OneAtATime' /\ Unused'
<1>1. OneAtATime'
  BY DEF OneAtATime, others, Read, Write
<1>2. Unused'
  BY DEF Unused, others, Read, Write
<1> QED BY <1>1, <1>2

\* The handler that served connection c starts one operation for it.
LEMMA Started ==
  ASSUME OneAtATime, Unused, NEW t \in Threads, NEW c \in Conns, others(c),
         serves(t, c),
         Read(c) \notin ops' \/ Write(c) \notin ops',
         \A u \in Threads, d \in Conns : serves(u, d)' => serves(u, d) /\ u # t,
         conn' = conn
  PROVE  OneAtATime' /\ Unused'
<1>1. OneAtATime'
  BY DEF OneAtATime, others, Read, Write
<1>2. conn[c] \notin {"away", "queued"}
  BY DEF Unused
<1>3. Unused'
  BY <1>2 DEF Unused, others, Read, Write
<1> QED BY <1>1, <1>3

-----------------------------------------------------------------------------

LEMMA TakeServes ==
  ASSUME TypeOK, NEW t \in Threads, NEW o \in Operation, NEW ok \in BOOLEAN, NEW new,
         take(t, o, ok, new)
  PROVE  /\ ops' = ops \ {o}
         /\ \A u \in Threads, d \in Conns :
              serves(u, d)' => \/ serves(u, d)
                               \/ /\ u = t
                                  /\ \/ o.kind \in {"read", "write"} /\ o.of = d
                                     \/ o.kind = "accept" /\ new = d
BY DEF take, serves, at, TypeOK

LEMMA HandledServes ==
  ASSUME TypeOK, NEW t \in Threads, NEW started, handled(t, started)
  PROVE  /\ ops' = ops \cup started
         /\ \A u \in Threads, d \in Conns : serves(u, d)' => serves(u, d) /\ u # t
<1>1. ~at(t, "read")' /\ ~at(t, "write")' /\ ~at(t, "accept")'
  BY Values DEF handled, at, TypeOK
<1> QED BY <1>1 DEF handled, serves, at, TypeOK

LEMMA SessionStep ==
  Inv /\ [Next]_vars => OneAtATime' /\ Unused'
<1> SUFFICES ASSUME Inv, [Next]_vars PROVE OneAtATime' /\ Unused'
  OBVIOUS
<1> USE DEF Inv
<1>1. CASE Run \/ Unlink \/ Stop \/ Exhaust \/ Return \/ Signal \/ UNCHANGED vars
  BY <1>1 DEF Run, Unlink, Stop, Exhaust, Return, Signal, vars, process, OneAtATime, Unused,
              serves, at
<1>2. CASE Bind
  <2>1. CASE serve
    <3>1. \A t \in Threads, c \in Conns : ~serves(t, c)'
      BY <2>1, Values DEF serve, serves, at
    <3>2. Accept(runs) \in Operation /\ runs \in 1..MaxRuns
      BY <1>2, Values, ServingAssumption DEF Bind, TypeOK
    <3>3. \A c \in Conns : /\ Read(c) \in ops' => Read(c) \in ops
                           /\ Write(c) \in ops' => Write(c) \in ops
      BY <2>1, <3>2, Distinct DEF serve
    <3>4. \A c \in Conns : conn'[c] \in {"away", "queued"} => conn[c] \in {"away", "queued"}
      BY <2>1 DEF serve
    <3> QED BY <3>1, <3>3, <3>4, NothingStarted
  <2>2. CASE ~serve
    BY <1>2, <2>2 DEF Bind, OneAtATime, Unused, serves, at
  <2> QED BY <2>1, <2>2
<1>3. ASSUME NEW t \in Threads, Leave(t) PROVE OneAtATime' /\ Unused'
  <2>1. \A u \in Threads, c \in Conns : serves(u, c)' => serves(u, c)
    BY <1>3, Values DEF Leave, serves, at, TypeOK
  <2> QED BY <1>3, <2>1, NothingStarted DEF Leave
<1>4. ASSUME NEW t \in Threads, NEW r \in 1..MaxRuns, AcceptFails(t, r)
      PROVE  OneAtATime' /\ Unused'
  <2>1. PICK ok \in BOOLEAN : take(t, Accept(r), ok, None) /\ conn' = conn
    BY <1>4 DEF AcceptFails
  <2>2. Accept(r) \in Operation /\ Accept(r).kind = "accept"
    BY Values, Kinds
  <2>3. ops' = ops \ {Accept(r)} /\ \A u \in Threads, c \in Conns : serves(u, c)' => serves(u, c)
    BY <2>1, <2>2, TakeServes, ServingAssumption
  <2> QED BY <2>1, <2>3, NothingStarted
<1>5. ASSUME NEW t \in Threads, NEW r \in 1..MaxRuns, NEW c \in Conns, Accepts(t, r, c)
      PROVE  OneAtATime' /\ Unused'
  <2>0. PICK ok \in BOOLEAN : take(t, Accept(r), ok, c)
    BY <1>5 DEF Accepts
  <2>1. /\ ops' = ops \ {Accept(r)}
        /\ \A u \in Threads, d \in Conns : serves(u, d)' => serves(u, d) \/ (u = t /\ d = c)
    <3>1. Accept(r) \in Operation /\ Accept(r).kind = "accept"
      BY Values, Kinds
    <3> QED BY <2>0, <3>1, TakeServes
  <2>2. /\ Read(c) \notin ops /\ Write(c) \notin ops
        /\ \A u \in Threads : ~serves(u, c)
    BY <1>5 DEF Accepts, Unused
  <2>3. \A d \in Conns : conn'[d] \in {"away", "queued"} =>
          conn[d] \in {"away", "queued"} /\ d # c
    BY <1>5 DEF Accepts, TypeOK
  <2> QED BY <2>1, <2>2, <2>3, Taken DEF others
<1>6. ASSUME NEW t \in Threads, NEW c \in Conns, Reads(t, c) \/ Writes(t, c)
      PROVE  OneAtATime' /\ Unused'
  <2>1. PICK o \in {Read(c), Write(c)}, ok \in BOOLEAN : take(t, o, ok, None)
    BY <1>6 DEF Reads, Writes
  <2>2. o \in Operation /\ o \in ops /\ o.kind # "accept" /\ o.of = c
    BY <2>1, Values, Kinds DEF take
  <2>3. /\ ops' = ops \ {o}
        /\ \A u \in Threads, d \in Conns : serves(u, d)' => serves(u, d) \/ (u = t /\ d = c)
    BY <2>1, <2>2, TakeServes
  <2>4. /\ \A u \in Threads : ~serves(u, c)
        /\ Read(c) \notin ops' /\ Write(c) \notin ops'
    BY <2>1, <2>2, <2>3 DEF OneAtATime
  <2>5. \A d \in Conns : conn'[d] \in {"away", "queued"} =>
          conn[d] \in {"away", "queued"} /\ d # c
    <3>1. conn[c] \notin {"away", "queued"}
      BY <2>1, <2>2 DEF Unused
    <3> QED BY <1>6, <3>1 DEF Reads, Writes, TypeOK
  <2> QED BY <2>3, <2>4, <2>5, Taken DEF others
<1>7. ASSUME NEW t \in Threads, Signals(t) PROVE OneAtATime' /\ Unused'
  <2>1. /\ ops' = ops \ {SignalWait}
        /\ \A u \in Threads, c \in Conns : serves(u, c)' => serves(u, c)
    BY <1>7, TakeServes, Values, Kinds DEF Signals
  <2> QED BY <1>7, <2>1, NothingStarted DEF Signals
<1>8. ASSUME NEW t \in Threads, OnAccept(t) PROVE OneAtATime' /\ Unused'
  <2>1. handling(t)
    BY <1>8 DEF OnAccept, at, handling
  <2>2. \A u \in Threads, d \in Conns : serves(u, d)' => serves(u, d) /\ u # t
    BY <1>8, HandledServes DEF OnAccept
  <2>3. thread[t].op.of \in 1..MaxRuns
    BY <1>8, <2>1, HandledTypes DEF OnAccept
  <2>4. CASE ~thread[t].ok
    <3>1. ops' = ops \cup {Accept(thread[t].op.of)}
      BY <1>8, <2>4, HandledServes DEF OnAccept
    <3> QED BY <1>8, <2>2, <2>3, <3>1, Distinct, NothingStarted DEF OnAccept
  <2>5. CASE thread[t].ok
    <3>1. PICK c \in Conns : c = thread[t].new /\ serves(t, c)
      BY <1>8, <2>1, <2>5, HandledTypes DEF OnAccept, serves
    <3>2. ops' = ops \cup {Accept(thread[t].op.of), Read(c)}
      BY <1>8, <2>5, <3>1, HandledServes DEF OnAccept
    <3>3. others(c) /\ Write(c) \notin ops'
      BY <2>3, <3>1, <3>2, Distinct DEF others, OneAtATime
    <3> QED BY <1>8, <2>2, <3>1, <3>3, Started DEF OnAccept
  <2> QED BY <2>4, <2>5
<1>9. ASSUME NEW t \in Threads, OnRead(t) \/ OnWrite(t) PROVE OneAtATime' /\ Unused'
  <2>1. PICK c \in Conns : c = thread[t].op.of /\ serves(t, c)
    BY <1>9, HandledTypes DEF OnRead, OnWrite, at, handling, serves
  <2>2. Read(c) \notin ops /\ Write(c) \notin ops
    BY <2>1 DEF OneAtATime
  <2>3. CASE handled(t, {}) /\ close(c)
    <3>1. ops' = ops /\ \A u \in Threads, d \in Conns : serves(u, d)' => serves(u, d) /\ u # t
      BY <2>3, HandledServes
    <3>2. \A u \in Threads : ~serves(u, c)'
      BY <2>1, <3>1 DEF OneAtATime
    <3>3. \A d \in Conns : conn'[d] \in {"away", "queued"} => conn[d] \in {"away", "queued"} \/ d = c
      BY <2>3 DEF close, TypeOK
    <3> QED BY <2>2, <3>1, <3>2, <3>3, NothingStarted
  <2>4. CASE (handled(t, {Read(c)}) \/ handled(t, {Write(c)})) /\ conn' = conn
    <3>1. /\ ops' = ops \cup {Read(c)} \/ ops' = ops \cup {Write(c)}
          /\ \A u \in Threads, d \in Conns : serves(u, d)' => serves(u, d) /\ u # t
      BY <2>4, HandledServes
    <3>2. others(c)
      BY <3>1, Distinct DEF others
    <3>3. Read(c) \notin ops' \/ Write(c) \notin ops'
      BY <2>2, <3>1, Distinct
    <3> QED BY <2>1, <2>4, <3>1, <3>2, <3>3, Started
  <2> QED BY <1>9, <2>1, <2>3, <2>4 DEF OnRead, OnWrite
<1>10. ASSUME NEW t \in Threads, OnSignal(t) PROVE OneAtATime' /\ Unused'
  <2>1. ops' = ops /\ \A u \in Threads, d \in Conns : serves(u, d)' => serves(u, d)
    BY <1>10, HandledServes DEF OnSignal
  <2> QED BY <1>10, <2>1, NothingStarted DEF OnSignal
<1>11. ASSUME NEW t \in Threads, Throw(t) PROVE OneAtATime' /\ Unused'
  <2>1. ops' = ops /\ \A u \in Threads, d \in Conns : serves(u, d)' => serves(u, d) /\ u # t
    BY <1>11, HandledServes DEF Throw
  <2>2. \A d \in Conns : serves(t, d) =>
          /\ Read(d) \notin ops /\ Write(d) \notin ops
          /\ \A u \in Threads : ~serves(u, d)'
    BY <2>1 DEF OneAtATime
  <2>3. \A d \in Conns : conn'[d] \in {"away", "queued"} =>
          conn[d] \in {"away", "queued"} \/ serves(t, d)
    BY <1>11 DEF Throw, throws
  <2> QED BY <2>1, <2>2, <2>3, NothingStarted
<1>12. ASSUME NEW c \in Conns, Connect(c) \/ Ask(c) \/ Drain(c) \/ HangUp(c)
       PROVE  OneAtATime' /\ Unused'
  <2>1. ops' = ops /\ thread' = thread
    BY <1>12 DEF Connect, Ask, Drain, HangUp
  <2>2. \A d \in Conns : conn'[d] \in {"away", "queued"} => conn[d] \in {"away", "queued"}
    BY <1>12 DEF Connect, Ask, Drain, HangUp, TypeOK
  <2> QED BY <2>1, <2>2, NothingStarted DEF serves, at
<1>13. CASE NewProcess
  <2>1. \A t \in Threads, c \in Conns : ~serves(t, c)'
    BY <1>13, Values DEF NewProcess, serves, at
  <2>2. \A c \in Conns : Read(c) \notin ops' /\ Write(c) \notin ops'
    BY <1>13, Distinct, ServingAssumption DEF NewProcess
  <2> QED BY <2>1, <2>2 DEF OneAtATime, Unused, Read, Write
<1> QED
  BY <1>1, <1>2, <1>3, <1>4, <1>5, <1>6, <1>7, <1>8, <1>9, <1>10, <1>11, <1>12, <1>13 DEF Next

LEMMA RunStep == Inv /\ [Next]_vars => OutOutsideRun'
<1> SUFFICES ASSUME Inv, [Next]_vars PROVE OutOutsideRun'
  OBVIOUS
<1> USE DEF Inv
<1>1. ASSUME NEW t \in Threads, ~at(t, "out"), main' = main PROVE OutOutsideRun'
  BY <1>1 DEF OutOutsideRun
<1>2. CASE Run \/ Unlink \/ Stop \/ Exhaust \/ Return \/ Signal \/ UNCHANGED vars
  BY <1>2 DEF Run, Unlink, Stop, Exhaust, Return, Signal, vars, process, OutOutsideRun, at
<1>3. CASE Bind \/ NewProcess
  BY <1>3, Values DEF Bind, serve, NewProcess, OutOutsideRun, at
<1>4. ASSUME NEW t \in Threads, Leave(t) PROVE OutOutsideRun'
  BY <1>4, <1>1 DEF Leave, at
<1>5. ASSUME NEW t \in Threads, NEW o, NEW ok, NEW new, take(t, o, ok, new)
      PROVE  OutOutsideRun'
  BY <1>5, <1>1 DEF take, at
<1>6. ASSUME NEW t \in Threads, NEW started, handled(t, started), ~at(t, "out")
      PROVE  OutOutsideRun'
  BY <1>6, <1>1 DEF handled
<1>7. ASSUME NEW c \in Conns, Connect(c) \/ Ask(c) \/ Drain(c) \/ HangUp(c) PROVE OutOutsideRun'
  BY <1>7 DEF Connect, Ask, Drain, HangUp, OutOutsideRun, at
<1>8. ASSUME NEW t \in Threads, OnAccept(t) \/ OnRead(t) \/ OnWrite(t) \/ OnSignal(t) \/ Throw(t)
      PROVE  OutOutsideRun'
  BY <1>8, <1>6 DEF OnAccept, OnRead, OnWrite, OnSignal, Throw, throws, handling, at
<1>9. ASSUME NEW t \in Threads, NEW r \in 1..MaxRuns, NEW c \in Conns,
             AcceptFails(t, r) \/ Accepts(t, r, c) \/ Reads(t, c) \/ Writes(t, c) \/ Signals(t)
      PROVE  OutOutsideRun'
  BY <1>9, <1>5 DEF AcceptFails, Accepts, Reads, Writes, Signals
<1> QED BY <1>2, <1>3, <1>4, <1>5, <1>7, <1>8, <1>9 DEF Next, AcceptFails, Reads, Writes, Signals

-----------------------------------------------------------------------------

LEMMA ServingInvariant == Spec => []Inv
<1>1. Init => Inv
  <2> SUFFICES ASSUME Init PROVE Inv
    OBVIOUS
  <2>1. \A t \in Threads : at(t, "out") /\ \A c \in Conns : ~serves(t, c)
    BY Values DEF Init, serves, at
  <2>2. \A c \in Conns : Read(c) \notin ops /\ Write(c) \notin ops
    BY Distinct, ServingAssumption DEF Init
  <2>3. OneAtATime /\ Unused
    BY <2>1, <2>2 DEF OneAtATime, Unused
  <2>4. OutOutsideRun
    BY <2>1 DEF OutOutsideRun
  <2> QED BY <2>3, <2>4, TypeInit DEF Inv
<1>2. Inv /\ [Next]_vars => Inv'
  BY TypeNext, SessionStep, RunStep DEF Inv
<1> QED BY <1>1, <1>2, PTL DEF Spec

\* Every variable keeps its type: a completion names a connection just when there is one
\* to name, so no handler starts on a session that was never made (Listener::do_accept).
THEOREM ServingTyped == Spec => []TypeOK
<1>1. Inv => TypeOK
  BY DEF Inv
<1> QED BY <1>1, ServingInvariant, PTL

\* A session's buffer and request are used by one handler or one operation at a time,
\* in every run of every pool of threads (Session::do_read, do_write).
THEOREM SessionsNeedNoStrand == Spec => []OneAtATime
<1>1. Inv => OneAtATime
  BY DEF Inv
<1> QED BY <1>1, ServingInvariant, PTL

\* No handler runs before run() serves or after it has returned (WebEngine::run joins
\* its threads).
THEOREM HandlersOnlyInRun == Spec => []NoHandlerOutsideRun
<1>1. Inv => NoHandlerOutsideRun
  BY DEF Inv, OutOutsideRun, NoHandlerOutsideRun, handling, at
<1> QED BY <1>1, ServingInvariant, PTL

-----------------------------------------------------------------------------
(* run() returns only when asked. *)

\* While run() serves and no exception has ended the accept loop, its accept is under
\* way or being handled: there is work.
accepting ==
  \/ Accept(runs) \in ops
  \/ \E t \in Threads : at(t, "accept") /\ thread[t].op.of = runs

Reason == asked \/ deaf

ReturnInv ==
  /\ main = "serving" => deaf \/ accepting
  /\ main \in {"unlink", "bind", "serving"} /\ stopped => Reason
  /\ main = "serving" => \A t \in Threads : at(t, "out") => stopped
  /\ main = "returned" => Reason

\* A step within run() that keeps the reasons keeps the invariant, if it lets no thread
\* out and leaves the accept in somebody's hands.
LEMMA WithinRun ==
  ASSUME ReturnInv, main' = main, stopped' => stopped \/ Reason',
         stopped => stopped', asked => asked', deaf => deaf',
         \A t \in Threads : at(t, "out")' => at(t, "out"),
         accepting => accepting' \/ deaf'
  PROVE  ReturnInv'
<1>1. Reason => Reason'
  BY DEF Reason
<1> QED BY <1>1 DEF ReturnInv

\* Another thread takes another operation, or handles another completion.
LEMMA StillAccepting ==
  ASSUME accepting, NEW t \in Threads, TypeOK, runs' = runs,
         thread' = [thread EXCEPT ![t] = thread'[t]],
         Accept(runs) \in ops => Accept(runs) \in ops',
         ~(at(t, "accept") /\ thread[t].op.of = runs)
  PROVE  accepting'
<1>1. CASE Accept(runs) \in ops
  BY <1>1 DEF accepting, Accept
<1>2. ASSUME NEW u \in Threads, at(u, "accept"), thread[u].op.of = runs PROVE accepting'
  BY <1>2 DEF accepting, at, TypeOK
<1> QED BY <1>1, <1>2 DEF accepting

LEMMA ReturnStep == Inv /\ ReturnInv /\ [Next]_vars => ReturnInv'
<1> SUFFICES ASSUME Inv, ReturnInv, [Next]_vars PROVE ReturnInv'
  OBVIOUS
<1> USE DEF Inv
<1>1. CASE Run \/ Unlink \/ NewProcess
  BY <1>1 DEF Run, Unlink, NewProcess, ReturnInv, Reason
<1>2. CASE Bind
  BY <1>2, Values DEF Bind, serve, ReturnInv, Reason, accepting, at
<1>3. CASE Stop
  BY <1>3 DEF Stop, ReturnInv, Reason, accepting, at
<1>4. ASSUME NEW t \in Threads, Leave(t) PROVE ReturnInv'
  <2>1. accepting => accepting'
    BY <1>4 DEF Leave, accepting, at, TypeOK
  <2> QED BY <1>4, <2>1 DEF Leave, ReturnInv, Reason
<1>5. CASE Exhaust
  <2>1. ~accepting
    BY <1>5 DEF Exhaust, accepting, handling, at
  <2> QED BY <1>5, <2>1 DEF Exhaust, ReturnInv, Reason
<1>6. CASE Return
  BY <1>6, ServingAssumption DEF Return, ReturnInv, Reason
<1>7. ASSUME NEW t \in Threads, NEW o \in Operation, NEW ok \in BOOLEAN, NEW new, take(t, o, ok, new)
      PROVE  ReturnInv'
  <2>1. at(t, "idle") /\ thread'[t].op = o /\ \A u \in Threads \ {t} : thread'[u] = thread[u]
    BY <1>7 DEF take, TypeOK
  <2>2. o.kind # "out"
    BY DEF Operation, AcceptOp, SessionOp, SignalWait
  <2>3. \A u \in Threads : at(u, "out")' => at(u, "out")
    BY <2>1, <2>2 DEF at
  <2>4. accepting => accepting'
    <3>1. CASE o = Accept(runs)
      BY <1>7, <2>1, <3>1 DEF take, accepting, at, Accept
    <3>2. CASE o # Accept(runs)
      <4>1. ~at(t, "accept")
        BY <2>1 DEF at
      <4> QED BY <1>7, <3>2, <4>1, StillAccepting DEF take, TypeOK
    <3> QED BY <3>1, <3>2
  <2> QED BY <1>7, <2>3, <2>4, WithinRun DEF take
<1>8. ASSUME NEW t \in Threads, OnAccept(t) \/ OnRead(t) \/ OnWrite(t) \/ OnSignal(t)
      PROVE  ReturnInv'
  <2>1. PICK started : handled(t, started)
    BY <1>8 DEF OnAccept, OnRead, OnWrite, OnSignal
  <2>2. \A u \in Threads : at(u, "out")' => at(u, "out")
    BY <2>1, Values DEF handled, at, TypeOK
  <2>3. accepting => accepting'
    <3>1. CASE at(t, "accept") /\ thread[t].op.of = runs
      <4>1. OnAccept(t)
        BY <1>8, <3>1 DEF OnRead, OnWrite, OnSignal, at
      <4>2. Accept(runs) \in ops' /\ runs' = runs
        BY <3>1, <4>1 DEF OnAccept, handled
      <4> QED BY <4>2 DEF accepting, Accept
    <3>2. CASE ~(at(t, "accept") /\ thread[t].op.of = runs)
      BY <2>1, <3>2, StillAccepting DEF handled, TypeOK
    <3> QED BY <3>1, <3>2
  <2>4. main' = main /\ deaf' = deaf
    BY <1>8, <2>1 DEF handled, OnAccept, OnRead, OnWrite, OnSignal
  <2>5. CASE OnSignal(t)
    <3>1. stopped' /\ asked'
      BY <2>5 DEF OnSignal
    <3> QED BY <3>1, <2>2, <2>3, <2>4, WithinRun DEF Reason
  <2>6. CASE OnAccept(t) \/ OnRead(t) \/ OnWrite(t)
    <3>1. stopped' = stopped /\ asked' = asked
      BY <2>6 DEF OnAccept, OnRead, OnWrite
    <3> QED BY <3>1, <2>2, <2>3, <2>4, WithinRun
  <2> QED BY <1>8, <2>5, <2>6
<1>9. ASSUME NEW t \in Threads, Throw(t) PROVE ReturnInv'
  <2>1. \A u \in Threads : at(u, "out")' => at(u, "out")
    BY <1>9, Values DEF Throw, handled, at, TypeOK
  <2>2. accepting => accepting' \/ deaf'
    <3>1. CASE at(t, "accept")
      BY <1>9, <3>1 DEF Throw, throws
    <3>2. CASE ~at(t, "accept")
      BY <1>9, <3>2, StillAccepting DEF Throw, handled, TypeOK
    <3> QED BY <3>1, <3>2
  <2>3. main' = main /\ stopped' = stopped /\ asked' = asked /\ (deaf => deaf')
    BY <1>9 DEF Throw, throws, handled
  <2> QED BY <2>1, <2>2, <2>3, WithinRun
<1>10. CASE Signal \/ UNCHANGED vars \/ \E c \in Conns : Connect(c) \/ Ask(c) \/ Drain(c) \/ HangUp(c)
  BY <1>10 DEF Signal, vars, process, Connect, Ask, Drain, HangUp, ReturnInv, Reason, accepting, at
<1>11. ASSUME NEW t \in Threads, NEW r \in 1..MaxRuns,
              AcceptFails(t, r) \/ \E c \in Conns : Accepts(t, r, c)
       PROVE  ReturnInv'
  <2>1. Accept(r) \in Operation
    BY Values
  <2>2. PICK ok \in BOOLEAN, new \in Conns \cup {None} : take(t, Accept(r), ok, new)
    BY <1>11 DEF AcceptFails, Accepts
  <2> QED BY <1>7, <2>1, <2>2
<1>12. ASSUME NEW t \in Threads,
              Signals(t) \/ \E c \in Conns : Reads(t, c) \/ Writes(t, c)
       PROVE  ReturnInv'
  <2>1. PICK o \in Operation, ok \in BOOLEAN : take(t, o, ok, None)
    BY <1>12, Values DEF Signals, Reads, Writes
  <2> QED BY <1>7, <2>1
<1> QED
  BY <1>1, <1>2, <1>3, <1>4, <1>5, <1>6, <1>8, <1>9, <1>10, <1>11, <1>12 DEF Next

\* run() returns only if someone has asked it to since it was called, whatever failed
\* meanwhile, unless an exception has ended an accept loop (WebEngine::run).
THEOREM ReturnNeedsReason == Spec => []ReturnsOnlyWhenAsked
<1>1. Init => ReturnInv
  BY DEF Init, ReturnInv
<1>2. ReturnInv => ReturnsOnlyWhenAsked
  BY DEF ReturnInv, Reason, ReturnsOnlyWhenAsked
<1> QED BY <1>1, <1>2, ReturnStep, ServingInvariant, PTL DEF Spec

-----------------------------------------------------------------------------
(* run() fails to start only if it is refused something. *)

\* Between the unlink and the bind the path is free, unless the unlink was refused.
StartInv ==
  /\ main = "bind" => path = "none" \/ refused
  /\ main = "failed" => refused

LEMMA StartStep == StartInv /\ [Next]_vars => StartInv'
<1> SUFFICES ASSUME StartInv, [Next]_vars PROVE StartInv'
  OBVIOUS
<1>1. CASE Run \/ Return \/ NewProcess
  BY <1>1 DEF Run, Return, NewProcess, StartInv
<1>2. CASE Unlink
  BY <1>2 DEF Unlink, StartInv
<1>3. CASE Bind
  BY <1>3 DEF Bind, serve, StartInv
<1>4. CASE main' = main /\ path' = path /\ refused' = refused
  BY <1>4 DEF StartInv
<1>5. CASE Stop \/ Exhaust \/ Signal \/ UNCHANGED vars
  BY <1>4, <1>5 DEF Stop, Exhaust, Signal, vars, process
<1>6. ASSUME NEW t \in Threads, Leave(t) \/ (\E o, ok, new : take(t, o, ok, new))
                                  \/ (\E started : handled(t, started))
      PROVE  StartInv'
  BY <1>4, <1>6 DEF Leave, take, handled
<1>7. ASSUME NEW c \in Conns, Connect(c) \/ Ask(c) \/ Drain(c) \/ HangUp(c) PROVE StartInv'
  BY <1>4, <1>7 DEF Connect, Ask, Drain, HangUp
<1>8. ASSUME NEW t \in Threads, OnAccept(t) \/ OnRead(t) \/ OnWrite(t) \/ OnSignal(t) \/ Throw(t)
      PROVE  StartInv'
  BY <1>6, <1>8 DEF OnAccept, OnRead, OnWrite, OnSignal, Throw
<1>9. ASSUME NEW t \in Threads, Signals(t) \/ \E r \in 1..MaxRuns :
                                   AcceptFails(t, r) \/ \E c \in Conns : Accepts(t, r, c)
      PROVE  StartInv'
  BY <1>6, <1>9 DEF AcceptFails, Accepts, Signals
<1>10. ASSUME NEW t \in Threads, NEW c \in Conns, Reads(t, c) \/ Writes(t, c)
       PROVE  StartInv'
  BY <1>6, <1>10 DEF Reads, Writes
<1> QED
  BY <1>1, <1>2, <1>3, <1>5, <1>6, <1>7, <1>8, <1>9, <1>10 DEF Next

\* run() fails to start only if the system has refused this very run() an unlink, an
\* open, a bind or a listen.  Crashes, failed starts and earlier runs may all leave a file
\* at the path, and none of it is in the way of the next run() (WebEngine::run).
THEOREM StartFailsForCauseAlways == Spec => []StartFailsForCause
<1>1. Init => StartInv
  BY DEF Init, StartInv
<1>2. StartInv => StartFailsForCause
  BY DEF StartInv, StartFailsForCause
<1> QED BY <1>1, <1>2, StartStep, PTL DEF Spec

=============================================================================
