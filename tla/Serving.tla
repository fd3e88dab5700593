------------------------------ MODULE Serving ------------------------------
(***************************************************************************)
(* The life of the engine around the requests: run() and stop()            *)
(* (src/WebEngine.cpp), the accept loop (src/Listener.cpp) and the         *)
(* connections (src/Session.cpp), on one io_context served by a pool of    *)
(* threads.                                                                *)
(*                                                                         *)
(* The io_context is the set ops of the asynchronous operations under way. *)
(* One that completes is taken by an idle thread, which then runs its      *)
(* handler, and the handler starts the next operation of its loop.  What a *)
(* handler does with a request is the business of Engine; here it takes    *)
(* its time and ends in an answer or in a stray exception.  The file at    *)
(* the socket path outlives the process.                                   *)
(***************************************************************************)
EXTENDS Integers

CONSTANTS
  Threads,     \* the threads that run the io_context
  MainThread,  \* the one that called run()
  Conns,       \* connections the proxy may open
  MaxRuns,     \* calls of run() by one process
  MaxMishaps,  \* failing operations, stray exceptions and crashes, all together
  Settings,    \* the circumstances to consider, see Setting
  None

\* One set of circumstances: whether enable_signal_shutdown() is called before run(),
\* which connections there are, and bounds of their own.
Setting ==
  [signals : BOOLEAN, conns : SUBSET Conns, runs : 1..MaxRuns, mishaps : 0..MaxMishaps]

ASSUME ServingAssumption ==
  /\ MainThread \in Threads
  /\ MaxRuns \in Nat \ {0} /\ MaxMishaps \in Nat
  /\ Settings \subseteq Setting
  /\ None \notin Conns

VARIABLES
  setting,   \* one of Settings, chosen once
  main,      \* where the caller of run() is
  runs,      \* the number of calls of run()
  stopped,   \* the io_context's latched flag
  path,      \* the file at the socket path: "none", "bound", or "stale" when its
             \* listener has gone
  ops,       \* operations under way
  thread,    \* each thread: out of the loop, idle in it, or with a completion to handle
  conn,      \* each connection as the proxy sees it: "queued" to be accepted, "open",
             \* "asked" with a request on its way, "taken" with its answer off the
             \* engine's hands, "left" by the proxy, else "away"
  raised,    \* a signal has been caught, and its handler has not run
  mishaps,   \* how many there have been
  refused,   \* the system has refused this run() a call (a history variable)
  asked,     \* this run() has been asked to stop (a history variable)
  deaf       \* an exception has ended an accept loop of this run() (a history variable)

process == <<main, runs, stopped, ops, thread, conn, raised, refused, asked, deaf>>
vars == <<setting, path, mishaps, process>>

\* The accept of a run's listener, a session's read and write, and the signal wait.
Accept(r) == [kind |-> "accept", of |-> r]
Read(c) == [kind |-> "read", of |-> c]
Write(c) == [kind |-> "write", of |-> c]
SignalWait == [kind |-> "signal", of |-> None]

AcceptOp == [kind : {"accept"}, of : 1..MaxRuns]
SessionOp == [kind : {"read", "write"}, of : Conns]
Operation == AcceptOp \cup SessionOp \cup {SignalWait}

\* What a thread is at: its operation, whether it succeeded, and the connection that an
\* accept has made.
Out == [op |-> [kind |-> "out", of |-> None], ok |-> TRUE, new |-> None]
IdleThread == [Out EXCEPT !.op.kind = "idle"]
Completion ==
  [op : AcceptOp, ok : {TRUE}, new : Conns] \cup [op : AcceptOp, ok : {FALSE}, new : {None}]
    \cup [op : SessionOp, ok : BOOLEAN, new : {None}]
    \cup [op : {SignalWait}, ok : {TRUE}, new : {None}]

TypeOK ==
  /\ setting \in Settings
  /\ main \in {"configured", "unlink", "bind", "serving", "returned", "failed"}
  /\ runs \in 0..MaxRuns /\ (main # "configured" => runs > 0) /\ stopped \in BOOLEAN
  /\ path \in {"none", "stale", "bound"}
  /\ ops \subseteq Operation
  /\ thread \in [Threads -> {Out, IdleThread} \cup Completion]
  /\ conn \in [Conns -> {"away", "queued", "open", "asked", "taken", "left"}]
  /\ raised \in BOOLEAN /\ mishaps \in 0..MaxMishaps
  /\ refused \in BOOLEAN /\ asked \in BOOLEAN /\ deaf \in BOOLEAN

Init ==
  /\ setting \in Settings
  /\ main = "configured" /\ runs = 0 /\ stopped = FALSE /\ path = "none"
  /\ ops = IF setting.signals THEN {SignalWait} ELSE {}
  /\ thread = [t \in Threads |-> Out] /\ conn = [c \in Conns |-> "away"]
  /\ raised = FALSE /\ mishaps = 0 /\ refused = FALSE /\ asked = FALSE /\ deaf = FALSE

at(t, kind) == thread[t].op.kind = kind
handling(t) == thread[t].op.kind \notin {"out", "idle"}

\* The completion t has to handle belongs to connection c.
serves(t, c) ==
  \/ (at(t, "read") \/ at(t, "write")) /\ thread[t].op.of = c
  \/ at(t, "accept") /\ thread[t].new = c

\* One of the bounded number of things that go wrong.
mishap == mishaps < setting.mishaps /\ mishaps' = mishaps + 1
fine == UNCHANGED mishaps

-----------------------------------------------------------------------------
(* run() and stop() *)

\* A stop() from before is forgotten.
Run ==
  /\ main \in {"configured", "returned"} /\ runs < setting.runs
  /\ main' = "unlink" /\ runs' = runs + 1
  /\ stopped' = FALSE /\ refused' = FALSE /\ asked' = FALSE /\ deaf' = FALSE
  /\ UNCHANGED <<setting, path, mishaps, ops, thread, conn, raised>>

Unlink_NotAtAll ==
  /\ main = "unlink"
  /\ main' = "bind"
  /\ UNCHANGED <<setting, path, mishaps, runs, stopped, ops, thread, conn, raised, refused,
                 asked, deaf>>

\* Nobody looks whether the file could be removed.
Unlink ==
  /\ main = "unlink" /\ main' = "bind"
  /\ \/ path' = "none" /\ fine /\ UNCHANGED refused
     \/ path # "none" /\ mishap /\ refused' = TRUE /\ UNCHANGED path
  /\ UNCHANGED <<setting, runs, stopped, ops, thread, conn, raised, asked, deaf>>

\* The new listener, its first accept, and the threads.  A listener of a run before
\* lives on while its accept is under way; else its backlog goes with it.
serve ==
  /\ main' = "serving" /\ path' = "bound"
  /\ ops' = ops \cup {Accept(runs)}
  /\ thread' = [t \in Threads |-> IdleThread]
  /\ conn' = [c \in Conns |->
       IF conn[c] = "queued" /\ \A o \in ops : o.kind # "accept" THEN "away" ELSE conn[c]]

\* A file in the way, or a refused open, bind or listen: the exception ends run().  The
\* socket whose listen is refused has a file already.
Bind ==
  /\ main = "bind"
  /\ \/ path = "none" /\ serve /\ fine /\ UNCHANGED refused
     \/ /\ main' = "failed" /\ UNCHANGED <<ops, thread, conn>>
        /\ \/ path # "none" /\ fine /\ UNCHANGED <<path, refused>>
           \/ /\ mishap /\ refused' = TRUE
              /\ path' \in IF path = "none" THEN {"none", "stale"} ELSE {path}
  /\ UNCHANGED <<setting, runs, stopped, raised, asked, deaf>>

\* stop(), from any thread at any time.
Stop ==
  /\ stopped' = TRUE
  /\ asked' = (main \in {"unlink", "bind", "serving"} \/ asked)
  /\ UNCHANGED <<setting, path, mishaps, main, runs, ops, thread, conn, raised, refused,
                 deaf>>

\* ioc.run() returns when the context is stopped ...
Leave_Never(t) ==
  /\ at(t, "idle") /\ stopped
  /\ UNCHANGED vars

Leave(t) ==
  /\ at(t, "idle") /\ stopped
  /\ thread' = [thread EXCEPT ![t] = Out]
  /\ UNCHANGED <<setting, path, mishaps, main, runs, stopped, ops, conn, raised, refused,
                 asked, deaf>>

\* ... which it is, too, when there is nothing left to do.
Exhaust ==
  /\ main = "serving" /\ ~stopped
  /\ ops = {} /\ \A t \in Threads : ~handling(t)
  /\ stopped' = TRUE
  /\ UNCHANGED <<setting, path, mishaps, main, runs, ops, thread, conn, raised, refused,
                 asked, deaf>>

Return_WithoutJoin ==
  /\ main = "serving" /\ at(MainThread, "out")
  /\ main' = "returned"
  /\ UNCHANGED <<setting, path, mishaps, runs, stopped, ops, thread, conn, raised, refused,
                 asked, deaf>>

\* All the threads have been joined.
Return ==
  /\ main = "serving" /\ \A t \in Threads : at(t, "out")
  /\ main' = "returned"
  /\ UNCHANGED <<setting, path, mishaps, runs, stopped, ops, thread, conn, raised, refused,
                 asked, deaf>>

-----------------------------------------------------------------------------
(* The io_context: an operation completes, and an idle thread takes it. *)

take(t, o, ok, new) ==
  /\ at(t, "idle") /\ ~stopped /\ o \in ops
  /\ ops' = ops \ {o}
  /\ thread' = [thread EXCEPT ![t] = [op |-> o, ok |-> ok, new |-> new]]
  /\ UNCHANGED <<setting, path, main, runs, stopped, refused, asked, deaf>>

Accepts(t, r, c) ==
  /\ conn[c] = "queued"
  /\ take(t, Accept(r), TRUE, c)
  /\ conn' = [conn EXCEPT ![c] = "open"]
  /\ fine /\ UNCHANGED raised

AcceptFails(t, r) ==
  /\ take(t, Accept(r), FALSE, None)
  /\ mishap /\ UNCHANGED <<conn, raised>>

\* A whole request, the end of the stream, or an error.
Reads(t, c) ==
  /\ \/ conn[c] = "asked" /\ take(t, Read(c), TRUE, None) /\ fine
     \/ conn[c] = "left" /\ take(t, Read(c), FALSE, None) /\ fine
     \/ take(t, Read(c), FALSE, None) /\ mishap
  /\ UNCHANGED <<conn, raised>>

\* The answer has been taken, or cannot be sent.  A write waits as long as the proxy
\* lets it: there is no timeout.
Writes(t, c) ==
  /\ \/ /\ conn[c] = "taken" /\ take(t, Write(c), TRUE, None) /\ fine
        /\ conn' = [conn EXCEPT ![c] = "open"]
     \/ /\ conn[c] = "left" /\ \E ok \in BOOLEAN : take(t, Write(c), ok, None)
        /\ fine /\ UNCHANGED conn
     \/ take(t, Write(c), FALSE, None) /\ mishap /\ UNCHANGED conn
  /\ UNCHANGED raised

Signals(t) ==
  /\ raised /\ take(t, SignalWait, TRUE, None)
  /\ raised' = FALSE
  /\ fine /\ UNCHANGED conn

-----------------------------------------------------------------------------
(* The handlers *)

\* The handler of t's completion returns, having started these operations.
handled(t, started) ==
  /\ ops' = ops \cup started
  /\ thread' = [thread EXCEPT ![t] = IdleThread]
  /\ UNCHANGED <<setting, path, main, runs, raised, refused>>

close(c) == conn' = [conn EXCEPT ![c] = "away"]

OnAccept_Unchecked(t) ==
  /\ at(t, "accept")
  /\ handled(t, {Accept(thread[t].op.of), Read(thread[t].new)})
  /\ UNCHANGED <<mishaps, conn, stopped, asked, deaf>>

OnAccept_OnlyAfterSuccess(t) ==
  /\ at(t, "accept")
  /\ handled(t, IF thread[t].ok THEN {Accept(thread[t].op.of), Read(thread[t].new)} ELSE {})
  /\ UNCHANGED <<mishaps, conn, stopped, asked, deaf>>

\* A session for a new connection; the next accept in any case.
OnAccept(t) ==
  /\ at(t, "accept")
  /\ handled(t, {Accept(thread[t].op.of)}
                  \cup IF thread[t].ok THEN {Read(thread[t].new)} ELSE {})
  /\ UNCHANGED <<mishaps, conn, stopped, asked, deaf>>

OnRead_Pipelined(t) ==
  /\ at(t, "read")
  /\ LET c == thread[t].op.of
     IN IF thread[t].ok THEN handled(t, {Write(c), Read(c)}) /\ UNCHANGED conn
        ELSE handled(t, {}) /\ close(c)
  /\ UNCHANGED <<mishaps, stopped, asked, deaf>>

\* The request has been dispatched: write the answer.  Errors close the connection.
OnRead(t) ==
  /\ at(t, "read")
  /\ LET c == thread[t].op.of
     IN IF thread[t].ok THEN handled(t, {Write(c)}) /\ UNCHANGED conn
        ELSE handled(t, {}) /\ close(c)
  /\ UNCHANGED <<mishaps, stopped, asked, deaf>>

\* The next request if the connection is kept alive.
OnWrite(t) ==
  /\ at(t, "write")
  /\ LET c == thread[t].op.of
     IN \/ thread[t].ok /\ handled(t, {Read(c)}) /\ UNCHANGED conn
        \/ handled(t, {}) /\ close(c)
  /\ UNCHANGED <<mishaps, stopped, asked, deaf>>

OnSignal(t) ==
  /\ at(t, "signal")
  /\ handled(t, {})
  /\ stopped' = TRUE /\ asked' = TRUE
  /\ UNCHANGED <<mishaps, conn, deaf>>

throws(t) ==
  /\ handling(t) /\ ~at(t, "signal") /\ mishap
  /\ deaf' = (deaf \/ at(t, "accept"))
  /\ conn' = [c \in Conns |-> IF serves(t, c) THEN "away" ELSE conn[c]]
  /\ UNCHANGED <<stopped, asked>>

Throw_EndsThread(t) ==
  /\ throws(t)
  /\ thread' = [thread EXCEPT ![t] = Out]
  /\ UNCHANGED <<setting, path, main, runs, raised, refused, ops>>

Throw_KeepsSession(t) ==
  /\ handling(t) /\ ~at(t, "signal") /\ mishap
  /\ handled(t, {})
  /\ deaf' = (deaf \/ at(t, "accept"))
  /\ UNCHANGED <<conn, stopped, asked>>

\* A stray exception: the handler's session or listener goes with it, the thread stays.
Throw(t) ==
  /\ throws(t)
  /\ handled(t, {})

Handle(t) == OnAccept(t) \/ OnRead(t) \/ OnWrite(t) \/ OnSignal(t)

-----------------------------------------------------------------------------
(* The environment *)

\* The proxy connects, sends a request, takes the answer, closes.
Connect(c) ==
  /\ c \in setting.conns /\ conn[c] = "away" /\ path = "bound"
  /\ conn' = [conn EXCEPT ![c] = "queued"]
  /\ UNCHANGED <<setting, path, mishaps, main, runs, stopped, ops, thread, raised, refused,
                 asked, deaf>>

Ask(c) ==
  /\ conn[c] = "open"
  /\ conn' = [conn EXCEPT ![c] = "asked"]
  /\ UNCHANGED <<setting, path, mishaps, main, runs, stopped, ops, thread, raised, refused,
                 asked, deaf>>

Drain(c) ==
  /\ conn[c] = "asked" /\ Write(c) \in ops
  /\ conn' = [conn EXCEPT ![c] = "taken"]
  /\ UNCHANGED <<setting, path, mishaps, main, runs, stopped, ops, thread, raised, refused,
                 asked, deaf>>

HangUp(c) ==
  /\ conn[c] \in {"open", "asked", "taken"}
  /\ conn' = [conn EXCEPT ![c] = "left"]
  /\ UNCHANGED <<setting, path, mishaps, main, runs, stopped, ops, thread, raised, refused,
                 asked, deaf>>

Signal ==
  /\ setting.signals /\ ~raised
  /\ raised' = TRUE
  /\ UNCHANGED <<setting, path, mishaps, main, runs, stopped, ops, thread, conn, refused,
                 asked, deaf>>

\* The process ends, by a crash or because main() does, and a new one is started.
NewProcess ==
  /\ mishap \/ (main \in {"returned", "failed"} /\ fine)
  /\ path' = IF path = "bound" THEN "stale" ELSE path
  /\ main' = "configured" /\ runs' = 0 /\ stopped' = FALSE
  /\ ops' = IF setting.signals THEN {SignalWait} ELSE {}
  /\ thread' = [t \in Threads |-> Out] /\ conn' = [c \in Conns |-> "away"]
  /\ raised' = FALSE /\ refused' = FALSE /\ asked' = FALSE /\ deaf' = FALSE
  /\ UNCHANGED setting

-----------------------------------------------------------------------------

Next ==
  \/ Run \/ Unlink \/ Bind \/ Stop \/ Exhaust \/ Return
  \/ \E t \in Threads :
       \/ Leave(t)
       \/ \E r \in 1..MaxRuns : AcceptFails(t, r) \/ \E c \in Conns : Accepts(t, r, c)
       \/ \E c \in Conns : Reads(t, c) \/ Writes(t, c)
       \/ Signals(t)
       \/ OnAccept(t) \/ OnRead(t) \/ OnWrite(t) \/ OnSignal(t)
       \/ Throw(t)
  \/ \E c \in Conns : Connect(c) \/ Ask(c) \/ Drain(c) \/ HangUp(c)
  \/ Signal
  \/ NewProcess

Spec == Init /\ [][Next]_vars

\* Threads are scheduled, handlers return, and completed operations are taken in turn,
\* so that none waits for ever while threads are idle now and again.  Nobody need
\* connect, ask, take an answer or stop anything, and nothing need go wrong.
FairSpec ==
  /\ Spec
  /\ WF_vars(Unlink) /\ WF_vars(Bind) /\ WF_vars(Return)
  /\ \A t \in Threads : WF_vars(Leave(t)) /\ WF_vars(Handle(t))
  /\ SF_vars(\E t \in Threads : Signals(t))
  /\ \A c \in Conns :
       /\ SF_vars(\E t \in Threads, r \in 1..MaxRuns : Accepts(t, r, c))
       /\ SF_vars(\E t \in Threads : fine /\ Reads(t, c))
       /\ SF_vars(\E t \in Threads : fine /\ Writes(t, c))

-----------------------------------------------------------------------------

\* A session's buffer and request are used by one handler or one operation at a time,
\* though nothing serialises the threads: a handler starts the next operation last, and
\* only one (Session::do_read, do_write).
OneAtATime ==
  \A c \in Conns :
    /\ ~(Read(c) \in ops /\ Write(c) \in ops)
    /\ \A t \in Threads : serves(t, c) => Read(c) \notin ops /\ Write(c) \notin ops
    /\ \A t, u \in Threads : serves(t, c) /\ serves(u, c) => t = u

\* No handler runs before run() serves or after it has returned, when main() goes on to
\* use and destroy what handlers refer to (run() joins every thread; main.cpp: the
\* controller is "captured by handlers; outlives them").
NoHandlerOutsideRun == main # "serving" => \A t \in Threads : ~handling(t)

\* run() returns only if someone has asked it to since it was called: neither errors
\* nor stray exceptions use up its threads or its work, unless one has ended the accept
\* loop (run(): "swallow and resume the loop to keep the engine alive"; WebEngine.hpp:
\* "Blocks until stop() is called or a fatal error occurs").
ReturnsOnlyWhenAsked == main = "returned" => asked \/ deaf

\* run() fails to start only if the system has refused this very run() something: what
\* runs and processes before have left at the path, by whatever end or failed start,
\* never is in its way (run(): "Remove any stale socket so bind() never sees EADDRINUSE").
StartFailsForCause == main = "failed" => refused

\* A run() that is asked to stop returns, and so does one that is sent the first signal
\* (stop(), enable_signal_shutdown; WebEngine.hpp: "run() returns shortly after").
StopReturns ==
  main = "serving" /\ (asked \/ (raised /\ SignalWait \in ops)) ~> main # "serving"

\* Neither a request that has been sent nor an answer that has been taken nor a
\* connection that the proxy has left stays with a session that nobody goes on with,
\* whatever error, stray exception or stop there was: the session comes to the answer,
\* to the next request, to the close, unless run() ends (Session::do_read, do_write; a
\* later run() resumes it) or it is the proxy that does not take the answer, for which
\* do_write waits without a limit.
EveryRequestEnds ==
  \A c \in Conns, s \in {"asked", "taken", "left"} :
    main = "serving" /\ conn[c] = s ~>
      conn[c] # s \/ main # "serving" \/ (s = "asked" /\ Write(c) \in ops)

\* A connection is accepted while run() serves, whatever happened to the ones before,
\* unless an exception has ended the accept loop (Listener::do_accept goes on after an
\* error).
EveryConnectionAccepted ==
  \A c \in Conns :
    main = "serving" /\ conn[c] = "queued" ~> conn[c] # "queued" \/ main # "serving" \/ deaf

=============================================================================
