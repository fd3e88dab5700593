--------------------------- MODULE SnippetProofs ---------------------------
(***************************************************************************)
(* What write_file_atomic() promises when its callers take turns, as under *)
(* a lock or with one thread: a reader always finds a whole file, and a    *)
(* call reports what it did.  For every set of writers, contents and       *)
(* inodes, and for any number of crashes in the middle of a call.          *)
(*                                                                         *)
(* Neither follows from the steps of one call alone: a crash leaves the    *)
(* tmp file of a call behind, and the next call opens that very file.  The *)
(* invariant says whose each inode is: the one behind `path` is open       *)
(* nowhere and is not the tmp file (Apart), and while a call is between    *)
(* its open and its rename, the tmp file is the inode it opened, and empty *)
(* until it has written (Mine).                                            *)
(***************************************************************************)
EXTENDS SnippetFile, TLAPS

\* The callers take turns: at most one is in the middle of a call.
TakeTurns == \A v, w \in Writers : stage[v] # "idle" /\ stage[w] # "idle" => v = w

Stages == {"idle", "open", "write", "rename"}

TypeOK ==
  /\ target \in Inodes \cup {None}
  /\ tmp \in Inodes \cup {None}
  /\ data \in [Inodes -> Contents \cup {Empty, Partial, Mixed}]
  /\ fd \in [Writers -> Inodes \cup {None}]
  /\ arg \in [Writers -> Contents \cup {None}]
  /\ stage \in [Writers -> Stages]
  /\ result \in [Writers -> BOOLEAN \cup {None}]

\* The inode behind `path` is not the tmp file, and no call has it open.
Apart ==
  target # None =>
    /\ target # tmp
    /\ \A w \in Writers : fd[w] # target

\* What a call in the middle of its work knows of the tmp file.
Mine ==
  \A w \in Writers :
    /\ stage[w] # "idle" => arg[w] \in Contents
    /\ stage[w] = "write" => fd[w] \in Inodes /\ tmp = fd[w] /\ data[tmp] = Empty
    /\ stage[w] = "rename" => tmp \in Inodes /\ data[tmp] = arg[w]
    /\ stage[w] # "write" => fd[w] = None

Inv == TypeOK /\ Apart /\ Mine /\ ReaderSeesWhole

-----------------------------------------------------------------------------

\* One step of a writer whose turn it is.
LEMMA WriterStep ==
  ASSUME Inv, TakeTurns, NEW w \in Writers,
         (\E content \in Contents : Call(w, content)) \/ Open(w) \/ Write(w) \/ WriteFails(w) \/ Rename(w),
         TakeTurns'
  PROVE  Inv'
<1> USE DEF Inv
<1>0. /\ \A v \in Writers \ {w} : stage'[v] # "idle" => stage[v] # "idle"
      /\ \A v \in Writers \ {w} : fd'[v] = fd[v] /\ arg'[v] = arg[v] /\ stage'[v] = stage[v]
  BY DEF Call, Open, Write, WriteFails, Rename, return, TypeOK
<1>1. ASSUME NEW content \in Contents, Call(w, content) PROVE Inv'
  <2>1. TypeOK'
    BY <1>1 DEF Call, TypeOK, Stages
  <2>2. Apart' /\ ReaderSeesWhole'
    BY <1>1 DEF Call, Apart, ReaderSeesWhole
  <2>3. Mine'
    BY <1>1 DEF Call, TypeOK, Mine
  <2> QED BY <2>1, <2>2, <2>3
<1>2. CASE Open(w)
  <2>0. \A v \in Writers \ {w} : stage[v] = "idle"
    BY <1>2 DEF Open, TakeTurns
  <2>1. CASE return(w, FALSE) /\ UNCHANGED <<target, tmp, data, arg>>
    <3>1. TypeOK'
      BY <2>1 DEF return, TypeOK, Stages
    <3>2. Apart' /\ ReaderSeesWhole'
      BY <2>1, FileAssumption DEF return, Apart, ReaderSeesWhole, TypeOK
    <3>3. Mine'
      BY <2>1 DEF return, TypeOK, Mine
    <3> QED BY <3>1, <3>2, <3>3
  <2>2. ASSUME NEW i \in IF tmp = None THEN Free ELSE {tmp},
               tmp' = i, data' = [data EXCEPT ![i] = Empty],
               fd' = [fd EXCEPT ![w] = i], stage' = [stage EXCEPT ![w] = "write"],
               UNCHANGED <<result, target, arg>>
        PROVE  Inv'
    <3>1. i \in Inodes /\ i # target /\ (target = None \/ target # i)
      BY <2>2 DEF Free, TypeOK, Apart
    <3>2. TypeOK'
      BY <2>2, <3>1 DEF TypeOK, Stages
    <3>3. Apart' /\ ReaderSeesWhole'
      BY <2>2, <3>1 DEF Apart, ReaderSeesWhole, TypeOK
    <3>4. stage[w] = "open"
      BY <1>2 DEF Open
    <3>5. Mine'
      BY <2>0, <2>2, <3>1, <3>4 DEF TypeOK, Mine
    <3> QED BY <3>2, <3>3, <3>5
  <2> QED BY <1>2, <2>1, <2>2 DEF Open
<1>3. CASE Write(w)
  <2>0. \A v \in Writers \ {w} : stage[v] = "idle"
    BY <1>3 DEF Write, TakeTurns
  <2>1. /\ stage[w] = "write" /\ fd[w] \in Inodes /\ tmp = fd[w] /\ data[fd[w]] = Empty
        /\ arg[w] \in Contents /\ fd[w] # target
    BY <1>3, FileAssumption DEF Write, Mine, Apart, TypeOK
  <2>2. over(arg[w], Empty) = arg[w]
    BY FileAssumption DEF over, Empty, Mixed, Partial
  <2>3. data' = [data EXCEPT ![fd[w]] = arg[w]]
    BY <1>3, <2>1, <2>2 DEF Write
  <2>4. TypeOK'
    BY <1>3, <2>1, <2>3 DEF Write, TypeOK, Stages
  <2>5. Apart' /\ ReaderSeesWhole'
    BY <1>3, <2>1, <2>3, FileAssumption DEF Write, Apart, ReaderSeesWhole, TypeOK
  <2>6. Mine'
    BY <1>3, <2>0, <2>1, <2>3 DEF Write, TypeOK, Mine
  <2> QED BY <2>4, <2>5, <2>6
<1>4. CASE WriteFails(w)
  <2>0. \A v \in Writers \ {w} : stage[v] = "idle"
    BY <1>4 DEF WriteFails, TakeTurns
  <2>1. fd[w] \in Inodes /\ fd[w] # target
    BY <1>4, FileAssumption DEF WriteFails, Mine, Apart, TypeOK
  <2>2. TypeOK'
    BY <1>4, <2>1 DEF WriteFails, return, TypeOK, Stages
  <2>3. Apart' /\ ReaderSeesWhole'
    BY <1>4, <2>1, FileAssumption DEF WriteFails, return, Apart, ReaderSeesWhole, TypeOK
  <2>4. Mine'
    BY <1>4, <2>0 DEF WriteFails, return, TypeOK, Mine
  <2> QED BY <2>2, <2>3, <2>4
<1>5. CASE Rename(w)
  <2>0. \A v \in Writers \ {w} : stage[v] = "idle"
    BY <1>5 DEF Rename, TakeTurns
  <2>1. /\ tmp \in Inodes /\ data[tmp] \in Contents
        /\ \A v \in Writers : fd[v] = None
    BY <1>5, <2>0 DEF Rename, Mine
  <2>2. TypeOK'
    BY <1>5, <2>1 DEF Rename, return, TypeOK, Stages
  <2>3. Apart' /\ ReaderSeesWhole'
    BY <1>5, <2>1, FileAssumption DEF Rename, return, Apart, ReaderSeesWhole, TypeOK
  <2>4. Mine'
    BY <1>5, <2>0 DEF Rename, return, TypeOK, Mine
  <2> QED BY <2>2, <2>3, <2>4
<1> QED BY <1>1, <1>2, <1>3, <1>4, <1>5

LEMMA FileStep == Inv /\ TakeTurns /\ TakeTurns' /\ [Next]_vars => Inv'
<1> SUFFICES ASSUME Inv, TakeTurns, TakeTurns', [Next]_vars PROVE Inv'
  OBVIOUS
<1>1. CASE Crash
  <2> USE DEF Inv
  <2>1. TypeOK'
    BY <1>1 DEF Crash, TypeOK, Stages
  <2>2. Apart' /\ ReaderSeesWhole'
    BY <1>1, FileAssumption DEF Crash, Apart, ReaderSeesWhole, TypeOK
  <2>3. Mine'
    BY <1>1 DEF Crash, Mine
  <2> QED BY <2>1, <2>2, <2>3
<1>2. CASE UNCHANGED vars
  BY <1>2 DEF vars, Inv, TypeOK, Apart, Mine, ReaderSeesWhole
<1> QED BY <1>1, <1>2, WriterStep DEF Next

LEMMA FileInit == Init => Inv
BY FileAssumption DEF Init, Inv, TypeOK, Apart, Mine, ReaderSeesWhole, Stages

LEMMA FileInvariant == Spec /\ []TakeTurns => []Inv
BY FileInit, FileStep, PTL DEF Spec

\* Writers that take turns never let a reader of the path see less than the whole of a
\* content, wherever one of them was interrupted (write_file_atomic; ProcessUtil.hpp
\* promises it without a word on threads, and the run two_writers shows that it needs
\* the turns).
THEOREM TurnsAreEnough == Spec /\ []TakeTurns => []ReaderSeesWhole
<1>1. Inv => ReaderSeesWhole
  BY DEF Inv
<1> QED BY <1>1, FileInvariant, PTL

\* A call of a writer that takes turns reports what it did: TRUE with its content in
\* place, FALSE with the file untouched (write_file_atomic's return value, which
\* ensure_dirs/write_listen_snippet and set_listen_ports go by).
THEOREM TurnsTellTheTruth == Spec /\ []TakeTurns => ResultIsTrue
<1> DEFINE Truth ==
      \A w \in Writers :
        stage[w] # "idle" /\ stage'[w] = "idle" =>
          /\ result'[w] = TRUE => target' # None /\ data'[target'] = arg[w]
          /\ result'[w] # TRUE => target' = target
<1>1. Inv /\ TakeTurns /\ [Next]_vars => [Truth]_vars
  <2> SUFFICES ASSUME Inv, TakeTurns, Next PROVE Truth
    OBVIOUS
  <2> USE DEF Inv
  <2> SUFFICES ASSUME NEW w \in Writers, stage[w] # "idle", stage'[w] = "idle"
               PROVE  /\ result'[w] = TRUE => target' # None /\ data'[target'] = arg[w]
                      /\ result'[w] # TRUE => target' = target
    BY DEF Truth
  <2>1. CASE Crash
    BY <2>1, FileAssumption DEF Crash, TypeOK
  <2>2. ASSUME NEW v \in Writers,
               (\E content \in Contents : Call(v, content)) \/ Open(v) \/ Write(v) \/ WriteFails(v) \/ Rename(v)
        PROVE  v = w
    BY <2>2 DEF Call, Open, Write, WriteFails, Rename, return, TypeOK
  <2>3. CASE \E content \in Contents : Call(w, content)
    BY <2>3 DEF Call
  <2>4. CASE Open(w) \/ WriteFails(w)
    BY <2>4 DEF Open, WriteFails, return, TypeOK
  <2>5. CASE Write(w)
    BY <2>5 DEF Write, TypeOK
  <2>6. CASE Rename(w)
    <3>1. tmp \in Inodes /\ tmp # None /\ data[tmp] = arg[w]
      BY <2>6, FileAssumption DEF Rename, Mine
    <3> QED BY <2>6, <3>1 DEF Rename, return, TypeOK
  <2> QED BY <2>1, <2>2, <2>3, <2>4, <2>5, <2>6 DEF Next
<1> QED BY <1>1, FileInvariant, PTL DEF Spec, ResultIsTrue

\* A single writer is never in anybody's way, so both hold of it under every schedule
\* and with every crash: main() before the engine serves, and an application that has
\* one worker thread.
THEOREM OneWriterIsEnough ==
  ASSUME \A v, w \in Writers : v = w
  PROVE  Spec => []ReaderSeesWhole /\ ResultIsTrue
<1>1. TakeTurns
  BY DEF TakeTurns
<1> QED BY <1>1, TurnsAreEnough, TurnsTellTheTruth, PTL

=============================================================================
