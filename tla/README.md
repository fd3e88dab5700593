# Nginx-front-back-end-demo: models, checks and proofs

The program is a C++ backend engine behind a reverse proxy. Clients log in and
get a session cookie; the backend decides which API routes and which protected
files a session may reach; administrators manage users and access rules, and
control the proxy (nginx or lighttpd) itself: start, stop, restart, change its
port. Paths below are relative to `src/backend/`.

## Inventory

| Part | State | Operations | Shares with |
|---|---|---|---|
| `TokenStore` (`src/TokenStore.hpp`) | token -> user, role, expiry, under a shared mutex | `issue`, `validate`, `revoke` | handlers and `dispatch` on every worker thread |
| Users: `TestAuthProvider` | name -> password hash, role, under a shared mutex | `authenticate` (copies under the lock, verifies outside), `add_user`, `remove_user`, `set_user_role`, `list_users` | login, management endpoints |
| `Acl` (`src/Acl.hpp`) | list of prefix/role entries, under a shared mutex | `authorize`, `set`, `remove`, `list` | `/auth-check`, protected files, management endpoints, the application |
| `Router` | exact routes and prefix routes, under a shared mutex | `add_route`, `add_prefix_route`, `set_route_role`, `dispatch` | every request; the application, also while serving |
| `AuthHandler` | none of its own | login, logout, `/auth-check`, protected file | token store, users, rules |
| `WebEngine` | owns the stores, threads, socket | configuration, management endpoints, `run`, `stop`, signal shutdown | all of the above |
| Lifecycle of `WebEngine` | the `io_context` with its stopped flag, the threads, the signal wait, the file at the socket path | `run`, `stop`, the signal handler, `enable_signal_shutdown` | the main thread, the worker threads, the next process |
| `Session`, `Listener` | one connection; the accepting socket | read, dispatch, write, keep-alive; accept loop | the worker threads, the proxy |
| `ProcessUtil` | none; the file system and other processes | `spawn`, pidfile checks, `write_file_atomic` | both controllers |
| `NginxController` | port options, last error; a generated listen file; nginx itself | `on`, `off`, `reset`, `reload`, `set_listen_ports` | admin endpoints of `example/main.cpp`, on any worker thread, with no lock |
| `LighttpdController` | the same for lighttpd | the same; reload is a restart | the same |
| `WebServerFactory` | none | picks a controller and its paths | `example/main.cpp` |
| `example/main.cpp` | none of its own | sets the port and starts the server, registers routes and the control endpoints, runs the engine, stops the server | engine, controller |

What is hard here: the worker threads hold a lock only inside one store
operation, so anything copied out of a store (a route's handler and role, a
session's user and role, a user's hash and role) is used after it may have
changed; sessions end by logout and by time while requests are under way; the
controllers learn about the server only from exit codes and a pidfile, while
the server acts on signals later and may be serving the request that sent
them; lighttpd's start command does not even say whether it can bind; the
server outlives a backend that is killed, and so does the socket file; accepting,
reading, writing and stopping meet on a pool of threads with no strand; file
writes may fail or be cut off by a crash. PROJECT.json lists these
hazards line by line, with the properties that watch them.

What makes each part correct:

* sessions: never two holders of one token, never admitted after the end, never
  under another user or role than at login;
* logins: one password, one role, of one record;
* rules and routes: every decision is one that the rules in force at some
  instant of the request give; a handler never runs under another
  registration's role;
* management: only admitted administrators change users and rules, and the
  answers are true;
* every request is answered; a session's buffer is in one hand at a time; `run`
  returns when it is asked to and not before, and leaves no handler running;
* the listen file is whole whenever it is read; option, file and server agree on
  the port; a restart leaves the server serving; a running server is never lost
  from its pidfile; nginx is not taken down by a change of port; every control
  call returns.

## The modules

| Module | Models | |
|---|---|---|
| `Roles`, `Vocabulary` | `Role`, `role_satisfies`, optional roles; the names all stores share | |
| `TokenStore`, `UserStore`, `Acl`, `RouteTable` | one store each: its variables, and one operator per method of the class | operators, no `Next` |
| `Engine` | worker threads that take requests through `dispatch` and the handlers, over those four stores; the application that reconfigures them while serving | one action per critical section |
| `EngineHistory` | `Engine` with history variables, and its safety properties | properties |
| `Sessions` | abstract: what a session promises | refined by `EngineHistory` (`SessionsKept`) |
| `PolicyMap` | abstract: an access list is a map from prefixes to roles, which each call changes as it says | refined by `AclPolicy` (`IsPolicyMap`) |
| `AclPolicy` | `Engine` with a variable that notes the last `set` or `remove` of the list, and the mapping to `PolicyMap` | properties |
| `EngineProofs`, `LoginProofs`, `SessionProofs`, `RouteProofs` | proofs about `EngineHistory` | theorems |
| `RuleProofs` | proofs about `EngineHistory` and `AclPolicy`, on top of `LoginProofs` and `RouteProofs` | theorems |
| `Serving` | `run`, `stop`, signals, the accept loop and the connections on one `io_context` | one action per completion and per handler |
| `ServingProofs` | proofs about `Serving` | theorems |
| `SnippetFile` | `write_file_atomic` with inodes, directory entries and descriptors | |
| `SnippetProofs` | proofs about `SnippetFile` | theorems |
| `Controller` | what the two controllers have in common, and the state of the server they control | actions and helpers, no `Next` |
| `NginxControl`, `LighttpdControl` | where they differ, and what nginx and lighttpd do by themselves | actions, no `Next` |
| `ServerControl` | both of them with the endpoints, the startup and the shutdown of `example/main.cpp`; its properties | |
| `ServerProofs` | proofs about `ServerControl` | theorems |
| `MCEngine`, `MCHistory`, `MCAdmin`, `MCServing`, `MCSnippetFile`, `MCServerControl` | small instances | |

`Engine` EXTENDS the four stores: an action of a worker is one critical section
of one store, at most with the thread-local code around it. A worker's `pc` says
where in the code it is: `Begin` is the end of `async_read`, `Lookup` the locked
block of `dispatch`, `Gate` its role check (one `validate`), then one handler
step or two: a login is `LoginFetch` (the locked copy in `authenticate`) and
`LoginIssue` (the verification and `TokenStore::issue`, which may throw and
then is the 500 of `dispatch`); `/auth-check` and a protected file are
`Validate` and `Authorize`; a management call is one step, the two that answer a
list among them (`AdminAclList`, `AdminUserList`, whose list is the answer's
`body`). `Deliver` is the end of `async_write`. `route`, `record` and `entry` are the copies the code takes
out of the stores. `AddApi`, `SetApiRole`, `ProtectPath`, `UnprotectPath` and
`ServeProtectedFiles` are the configuration calls, which `WebEngine.hpp` allows
while serving. `AclPolicy` adds to it the variable `call`: the prefix and role of
the last `set` or `remove`, a management call's that was answered 200 or the
application's. `MCAdmin` runs the engine with both, the histories of
`EngineHistory` and this note.

What is abstracted: a path is a sequence of segments, and a prefix of it is a
prefix of that sequence, so that prefix matching is what the code does on
strings cut at those segments; a password hash is the password it was made
from; a token is a value that no earlier `issue` has returned (256 random bits);
a client has only tokens some login has delivered; a
request body is the fields the code reads, `None` when absent, empty or not
parseable; headers, JSON and wording of answers are left out.

`SnippetFile`: `Open`, `Write` / `WriteFails`, `Rename` are the calls of
`write_file_atomic` in order; a crash comes between any two. A descriptor keeps
referring to its inode when the name has moved on, which is what the case of two
writers turns on.

`Serving`: the `io_context` is the set `ops` of operations under way; an idle
thread takes one that completes and runs its handler, which starts the next
operation of its loop (`OnAccept`, `OnRead`, `OnWrite`, `OnSignal`) or throws
(`Throw`). `Run`, `Unlink`, `Bind` and `Return` are the steps of `run()`, `Leave`
is a thread coming out of `ioc.run()`. The system may refuse an unlink, which the
code does not look at and which leaves the file in the way, and it may refuse the
open, bind or listen of the new listener, whose exception ends `run()`; a refused
listen leaves a file behind. `refused` notes that this `run()` was refused
something. A write completes when the proxy has taken the answer off the socket
(`Drain`), has hung up, or on an error, and not otherwise: `do_write` has no
timeout. `stopped` is latched by `stop()`, by the
signal handler and by running out of work, and only `run()` resets it. What a
handler does with a request is `Engine`'s; here it takes its time. The two modules
meet at `Engine!Begin` (the end of a read) and `Engine!Deliver` (the end of a
write). `NewProcess` is a crash at any moment, or the end of `main()`, and the
process started next: it finds the socket file of the last.

`Controller`: each step of a caller is one observation (`is_running`), one
spawned command or one write, and `call[c].pc` names the place in the code; a
change of port sets the option (`Set`), writes the file (`SetWrite`) and, refused,
puts back the one (`Rollback`) and then the other (`RollbackWrite`). The
server is `up`, `quitting` (asked to quit, its pidfile still there) or `down`,
with its port and a reload it has yet to act on. The two classes repeat each
other line by line in `on`, `off`, `reset` and `set_listen_ports`; those lines
are in `Controller`, guarded by `kind` only where they differ. `launching` holds
the daemons that lighttpd's start command has forked and that have not come up;
`orphans` the servers that a later one has pushed out of the pidfile. `carries`
are the callers whose requests the server is passing on: a quitting nginx waits
for them, a lighttpd does not. `found`, the server as a call found it, is a
history variable.

The model of the servers, external to this code, is what the controllers rely on:
`nginx -t` and `lighttpd -tt` refuse what is wrong in the file (`rejected`) and do
not notice a port that is taken (`unbindable`); an nginx that cannot bind says so
when it starts, and keeps its old port when it reloads; a lighttpd that cannot
bind may say so or just be gone.

`ServerControl` joins them: `Begin` is the arrival of a control request at its
endpoint, `End` the end of its response, `Boot` and `Shutdown` what `main()` does
before and after `run()`. A backend may die in the middle of whatever it was doing
and be started again in two ways. `Restart` is one that is started by hand: it
finds the server it left, a process of its own that goes on. `Relaunch` is a
container or a systemd unit: the server ends with the backend, and the start
deletes the pidfile (`src/entrypoint.sh` 12-14, `src/systemd/beast-backend.service`
35-37); only the listen file is left.

## The runs

| Run | Instance | Question |
|---|---|---|
| `sessions` | 2 workers, 2 tokens, lifetime 1, clock to 2, cookies and bearer tokens | `SessionEndIsFinal`; `SessionsKept` (the engine implements `Sessions`) |
| `logins` | 2 workers, 2 tokens, 2 users, 2 passwords; logins, the list of users, every change of users, and a rule that is set | `LoginFromOneRecord`, `AnswersTrue`, `OnlyAdminsManage` |
| `admin` | 1 fairly scheduled worker, 1 token, every management call, malformed ones too, from everyone, and a request of every other handler; the application sets and removes a rule of its own at any time | `HistoryTypeOK`, `AnswersTrue`, `MostSpecificDecides`, `EveryRequestAnswered`, `IsPolicyMap` (the access list implements `PolicyMap`) |
| `config` | 1 worker and the application that changes rules and routes, `/auth-check`'s role among them, at any time; lifetime 0, clock to 1 | `DecisionJustified`, `RoleFitsHandler` |
| `stale_role` | as `logins` | violated: `AdmittedUserHasRole` |
| `one_writer` | 1 writer, 3 contents of different lengths, 2 crashes | `ReaderSeesWhole`, `ResultIsTrue` |
| `two_writers` | 2 writers | violated: `ReaderSeesWhole` |
| `serving` | 2 threads and a connection through 2 runs and 2 mishaps, with and without signals; 2 connections with 1 of each | `TypeOK`, `OneAtATime`, `NoHandlerOutsideRun`, `ReturnsOnlyWhenAsked`, `StartFailsForCause`, `StopReturns`, `EveryRequestEnds`, `EveryConnectionAccepted` |
| `control` | both servers in 13 circumstances, see below | `TypeOK`, `ResetKeepsIngress`, `PortsAgree`, `NoOrphans`, `RefusedChangeKeepsServing`, `OnMeansServing`, `EveryCallReturns`, `ZeroDowntime` |
| `reset_proxied` | nginx, 1 caller through it | violated: `EveryResetKeepsIngress` |
| `port_taken` | nginx, 1 caller, a port some other process uses | violated: `PortTakesEffect` |
| `lighttpd_down` | the same with lighttpd | violated: `PortChangeKeepsIngress` |

The circumstances of `control` are the values of the variable `setting`, chosen
once: a run per circumstance, in one. Each server by itself with one caller is
quiet, has commands and writes that fail, has a port it cannot bind, is slow, or
is beside a backend that is killed and started again, in both ways. Lighttpd
moreover is reached through itself; an unknown name, which means nginx, comes with
a server that crashes; and two callers come with a taken port, requests through the
server, and, for nginx, a slow server and commands that fail as well (lighttpd's two
callers with all of that are too many states). A
property whose statement begins with a condition on `setting` (`calm`, `prompt`,
one caller) claims no more than the code can keep: two callers do disturb each
other's ports, and a slow server outlasts the polls. `PortsAgree` and
`ResetKeepsIngress` are about calm circumstances: a rollback whose own write fails,
and a reset and an nginx that wait for each other, are outside of them. The latter
is what `reset_proxied` shows, and `EveryCallReturns` covers it.

Why the bounds are enough. Workers interact only through the stores, and every
hazard of the engine is one worker against one other change; two workers, or one
worker and the application, contain each such pair, and the second worker may be
at any place of any request. Two tokens are a session and one that may be mixed
up with it. With lifetime 1 and the clock to 2, a session is seen at its expiry
instant, before it and after it. Two nested prefixes are a general and a
specific rule; roles are all four. In `SnippetFile` three contents are enough
for a shorter over a longer one in both orders. In `admin` the
administrator sets one prefix and removes either, and the application sets one of
them to another role and removes it, before, between and after the steps of each
request: the list gets both orders, replaced rules and removed ones; its one token
is an administrator's or a plain user's session. In `logins` two of the
calls are under way at once. `MaxPolls` is 2 for the 50 and 30
of the code: a loop is entered, repeated and left both ways. Three ports are one
that is refused, one that works and one that works or is taken. In `serving` a
mishap is a failing operation, a refused unlink or bind, a stray exception or a crash; two of them are one
that meets the consequences of another, and a second run is where the leftovers of
the first show (its accept, its reads, its signal wait). Two connections are
enough for one to delay or to be mixed up with the other. In `config` the
application may put a rule on either prefix, take it away again, replace a route,
and give `/auth-check`, which is public by default, a role of its own; the clock
moves once, so that a session can end between that gate and the handler behind it.
`TTL` and `MaxTime` are 0 in the runs that do not ask about time; `MaxTime` only
stops the clock of the model, and the proofs have no such need.

The runs of `ServerControl` switch the deadlock check off, because once a server
through which alone the API is reached is down, nobody can come through it: the
system really stops there.

Fairness is assumed in three places, and never of clients, of the proxy,
administrators, signals, crashes or errors: nobody need ask, take an answer or hang
up, and nothing need fail.

* `Engine!Fairness`: each worker's step is taken if it stays possible, since each
  is a thread that the operating system schedules and no step of the engine waits
  for another worker.
* `Serving!FairSpec`: weakly, the steps of `run()`, of a thread that leaves the
  loop, and of handlers, which return. Strongly, the completions that are not
  failures, once what they wait for has happened (a connection in the queue, a
  request, an answer taken, a hang-up): they are possible only while some thread
  is idle, and the `io_context` takes completed operations in turn.
  `EveryRequestEnds` therefore exempts, by name, a request whose answer the proxy
  does not take: the session waits for it without a limit (`src/Session.cpp` 36).
* `ServerControl!FairSpec`: weakly, that a server acts on signals, and comes up or
  not. Strongly, the steps of callers: in the code a step waits for nothing but the
  commands it spawns, and the guards of the model that hold one back (`settled`,
  `lingers`) only say how fast a prompt server is. That every command exits is an
  assumption: `proc::spawn` reads its output and waits for it without a timeout
  (`src/ProcessUtil.cpp` 72-78), so a command that hangs would hold its caller for ever.

## What the runs found

* `stale_role`: a session carries the role of its login until it ends;
  `WebEngine.hpp` describes a check against the user's role. Two
  workers show a user whose role was lowered and who still passes.
* `two_writers`: `write_file_atomic` uses one temporary name per path, so two
  control calls at once can put an empty or mixed listen file in place.
* `reset_proxied`: a reset that came through nginx cannot succeed. nginx waits
  for the answer, the reset for nginx; the reset gives up after its polls, and
  then nginx exits with nobody to start it again.
* `lighttpd_down`: changing to a port that validates and cannot be bound stops
  lighttpd and does not start it again; the rollback restores the option and the
  file only. The server is the API's only ingress, as `main.cpp` says of it.
* `port_taken`: `set_listen_port` reports a change that nginx did not make,
  because neither `-t` nor `-s reload` knows whether the new port can be bound.

## The proofs

All theorems hold for every value of the constants: any number of workers,
threads, callers and connections, any tokens, users, requests, routes, rules,
ports and circumstances. They rest on the named assumptions of the modules
(`EngineAssumption`, `EndpointAssumption`, `ServingAssumption`, `FileAssumption`,
`ControllerAssumption` and those of the stores), which TLC evaluates in the runs,
and on nothing else, except for those about the file and for
`OnlyAdminsManageAlways`, whose conditions are part of their statements. The assumptions say of the constants what the code does: that a path is
a sequence, that `serve_protected_files` registers public GET routes to the file
handler (`FileRoute`), that the rules the application starts with have distinct
prefixes, because `Acl::set` replaces, and that the engine's own endpoints are
among the paths and methods.

### Sessions and logins

`EngineProofs`: `SessionEndIsFinal` says that an admitted request's session was
not over when it arrived; that is not inductive, because an admission comes several
steps after the arrival. `Inv` adds what
carries it over those steps: the token of such a request validates to nothing
from its arrival on (`OverStaysInvalid`), which lasts because a presented token
has been issued before and is never issued again (`PresentedIsIssued`), time
only advances, and an entry's expiry is the lifetime after its issue
(`StoreAgrees`); `Types` is the part of the type invariant this needs.
`SessionInvariant` is `H_Spec => []Inv`, one lemma per action that touches the
token store or a worker's credentials, one for all the others.

`SessionProofs` proves the refinement, `EngineKeepsSessions == H_Spec =>
SessionsKept`: every step of the engine is a step of `Sessions`, or none, in the
state read off the token store. The difficulty is a request that is validated
twice, by `dispatch` and by its handler: only the first admits it, and the second
must find the same user. `Copied` says that the entry copied at the first is
still the one stored under the presented token, unless that was revoked.

`LoginProofs` proves `LoginFromOneRecordAlways`. The answer that hands out a session
comes a step after the record was copied and stays under way while other workers
go on. `CopyWasSeen` says that
the copy was in the user store during this request, and what a request has seen
only grows; `RepliesAtEnd` that the session of an answer under way has been
minted, so that no other login can put an entry under its token.

### Routes, rules and management

`RouteProofs` proves `RoleFitsHandlerAlways`. What `dispatch` copies under its lock
is a route that the table held during this very request (`RouteInv`); `LookupHolds`
shows that the two-stage lookup, exact match and longest prefix, returns nothing
else. `OnlyAdminsManageAlways` adds that a route to a management handler has the role Admin
(`AdminInv`). The engine does not see to that alone: `set_api_role` may lower or
lift the role of any path, a management path among them. The theorem therefore
has the condition `ManagementIsLeft`, that the application gives such a path no
role but Admin (a late `add_api` on it needs no condition: it replaces the
managing handler together with the role). It is the only one of the engine's
theorems with a condition, and the run `logins` fulfils it.

`RuleProofs` rests on one fact, that no two rules of the list have the same prefix
(`OnePerPrefix`), which `Acl::set` and `Acl::remove` keep; `RouteProofs` proves it
(`RulesInvariant`), and `RuleProofs` again for `R_Spec` (`RulesAlways`).

* `AclIsPolicyMap`, of `R_Spec`: the list implements a map from prefixes to roles. The
  abstract step is tied to the call: a `set` leaves exactly the role it was called
  with at its prefix (`SetIsPolicySet`), a `remove` leaves none
  (`RemoveIsPolicyRemove`), and a list with two entries for a prefix is no map at all
  (`Twice`). Nothing but those calls changes the list (`OnlyCallsChange`).
* `MostSpecificAlways`: in every reachable list, the rule of the longest matching
  prefix alone decides, for every path, and without one only Admin passes. `PolicyMap` says this
  by cutting the path shorter until a rule applies, a recursive function; the
  proof takes the least length for which it would be wrong, instead of an induction.
* `DecisionJustifiedAlways` and `AnswersTrueAlways`: what a request has seen only
  grows (`SeenStays`), so that a decision, the report of a change, or a list of users
  or rules, stays justified from the critical section to the end of the answer
  (`DecisionInv`). Working on
  the proof showed that `DecisionJustified` had claimed too much: when the application gives
  `/auth-check` a role, `dispatch` validates the token first, and a session that
  ends before the handler validates it again makes the answer 401, or 302, which no
  rule gives. The property says so now, and the run `config` reaches that case.
* `HistoryTypeOKAlways`: the types of all the engine's variables. The list
  operators used by `set` and `remove` are reasoned about by what they return.

### The server loop and the file

`ServingProofs` proves `ServingTyped` (`TypeOK`), `SessionsNeedNoStrand` (`OneAtATime`),
`HandlersOnlyInRun` (`NoHandlerOutsideRun`), `ReturnNeedsReason`
(`ReturnsOnlyWhenAsked`) and `StartFailsForCauseAlways` (`StartFailsForCause`). `Inv` adds to the
types and to `OneAtATime` that nothing
is under way for a connection that is still queued or is away (`Unused`), since an
accept hands such a connection to a new session, and that every thread is out of
the loop outside `run()` (`OutOutsideRun`), since an idle one could take a
completion. `ReturnInv` adds that a thread leaves only a stopped context, and that
one is stopped only when asked to or when nothing is under way, which the accept
operation rules out until an exception has ended its loop. `StartInv` adds that
between the unlink and the bind the path is free unless the unlink was refused:
whatever crashes, failed starts and earlier runs leave at the path, only a refusal
met by this very `run()` can make it fail.

`SnippetProofs` proves both promises of `write_file_atomic` for callers that take
turns, `Spec /\ []TakeTurns => []ReaderSeesWhole` and `=> ResultIsTrue`, and that
one writer takes turns with itself (`OneWriterIsEnough`). The run `two_writers` shows
that the hypothesis cannot be dropped; it names what is missing in the code, a
lock around the controller. The argument is whose each inode is: the one behind
the path is open nowhere and is not the tmp file (`Apart`), and between its open and
its rename a call's inode is the tmp file, even one that a crash left behind (`Mine`).

### The controllers

`ServerProofs` proves `ServerTyped` (`TypeOK`) and `ZeroDowntimeAlways`
(`ZeroDowntime`). Both rest on
where a call can be for what purpose (`Sound`): a port is written, restored and
listened on only where a call has one, and with nginx the places from which a
server is stopped belong to the calls that say so; and on there being a listen
file whenever there is a server.

What the controllers promise to one caller at a time is the conjunction
`OneCallerInv`, proved inductive together. Each part follows a call from place to
place, because what the property says at its end depends on what was observed
steps before:

* `NoOrphansAlways`, from `Tracked`: between the look at the pidfile and the start
  command there is no server and none on its way up; while one is on its way, `on`
  has not returned. Only a prompt lighttpd gives that (`prompt`).
* `OnMeansServingAlways`, from `Believed`: a server that is quitting during `on` was
  so when the call began, since nobody else can stop it.
* `RefusedChangeKeepsServingAlways`, from `RefusedInv`: with a port that does not
  validate, a call gets to `reload`'s test and from there to the rollback only, and
  the server remains the one found.
* `ResetKeepsIngressAlways`, from `ResetInv`: up until the quit, not up while waiting,
  down before `on`, and from there started on a port that can be bound. `off`, the
  wait and `on` rely on nothing but that order, and on nobody holding the old server
  (`lingers`), which is where a reset that came through nginx is lost.
* `PortsAgreeAlways`, from `OnePort`, `Pending`, `Vacant` and `Listening`: a server
  that is up listens on the option's port except in the middle of a change, where it
  listens on the one before; a reload is pending only after a change that validated,
  or when the backend was killed after it. The first attempt failed for a
  reason: when the initial port itself does not validate, `main()` ignores that,
  the rollback goes to the default port of the options, and a server that has outlived
  the previous backend goes on with the port it had. The property asks for an initial
  port that validates.

### Only model-checked

Liveness (`EveryRequestAnswered`,
`StopReturns`, `EveryRequestEnds`, `EveryConnectionAccepted`, `EveryCallReturns`), which
is beyond this prover; and of course what the five runs refute.

## Not modelled

* Finding the session cookie in the header text: a client presents at most one
  cookie. That the search is by substring is a fact about text.
* PBKDF2, random bytes, JSON, MIME types, the files behind `/protected/` (whether
  one exists is left open: 200 or 404), role names as text.
* A read-only `AuthProvider` (501): the program has one provider, which is not.
* A thread that cannot be created: `run()` ends in `std::terminate`.
* A command of the controllers that never exits, and one that cannot be waited for
  (`spawn` takes it for a success).
* The HTTPS port, which each controller handles as it does the HTTP port;
  `last_error`, a text that is written without a lock; the data races on the
  controllers' options, beyond the order of whole assignments; pipes and
  descriptors of `spawn`; a pid that is recycled by an unrelated process.
* The checks of JSON fields and port range in the control endpoints, which refuse
  and change nothing; the confirmation that `off` asks for.
* The path overrides of the factory, the pages, and the configuration of the
  proxies.

## Plan

Done, in this order: stores, `Engine`, `EngineHistory` with `Sessions`, the proof
of `SessionEndIsFinal`, `SnippetFile`, the controllers, `Serving`, the proofs about
`Serving` and `ServerControl`, the proofs about logins, sessions, routes, rules
and the file, the proofs about the controllers with one caller. Every safety
property of a passing run is now a theorem.

Next:

1. `extract_cookie` against a reference definition of a cookie header.
2. What can still be said of two callers of a controller at once, and of the file
   when a controller's calls overlap.
