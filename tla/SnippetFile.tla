---------------------------- MODULE SnippetFile ----------------------------
(***************************************************************************)
(* write_file_atomic() (src/ProcessUtil.cpp), called by any number of      *)
(* threads on one path.  A file is an inode that directory entries and     *)
(* open descriptors refer to: rename() moves the entry of path + ".tmp",   *)
(* whatever inode that is by then, and an open descriptor keeps writing to *)
(* its inode wherever the entry has gone.                                  *)
(***************************************************************************)
EXTENDS Integers, FiniteSets

CONSTANTS
  Writers,     \* threads that call write_file_atomic()
  Contents,    \* what they write
  Size,        \* length of each content
  Inodes,      \* bound on the inodes in use at once
  MaxCrashes,  \* bound on the crashes of the process
  None

Empty == "empty"       \* a truncated file
Partial == "partial"   \* some bytes of a content
Mixed == "mixed"       \* bytes of two contents

ASSUME FileAssumption ==
  /\ Size \in [Contents -> Nat \ {0}]
  /\ None \notin Inodes /\ None \notin BOOLEAN
  /\ Contents \cap {Empty, Partial, Mixed, None} = {}

VARIABLES
  target,      \* the inode of `path`, None when there is no such file
  tmp,         \* the inode of path + ".tmp"
  data,        \* what each inode holds
  fd,          \* the inode each writer has open
  arg,         \* the content it was called with
  stage,       \* where it is in write_file_atomic()
  result,      \* what the last call of each writer returned, None while it runs
  crashes

vars == <<target, tmp, data, fd, arg, stage, result, crashes>>

Init ==
  /\ target = None
  /\ tmp = None
  /\ data = [i \in Inodes |-> Empty]
  /\ fd = [w \in Writers |-> None]
  /\ arg = [w \in Writers |-> None]
  /\ stage = [w \in Writers |-> "idle"]
  /\ result = [w \in Writers |-> None]
  /\ crashes = 0

Call(w, content) ==
  /\ stage[w] = "idle"
  /\ stage' = [stage EXCEPT ![w] = "open"]
  /\ arg' = [arg EXCEPT ![w] = content]
  /\ result' = [result EXCEPT ![w] = None]
  /\ UNCHANGED <<target, tmp, data, fd, crashes>>

return(w, ok) ==
  /\ stage' = [stage EXCEPT ![w] = "idle"]
  /\ fd' = [fd EXCEPT ![w] = None]
  /\ result' = [result EXCEPT ![w] = ok]

Free == Inodes \ ({target, tmp} \cup {fd[w] : w \in Writers})

\* std::ofstream o(tmp, std::ios::trunc)
Open(w) ==
  /\ stage[w] = "open"
  /\ \/ \E i \in IF tmp = None THEN Free ELSE {tmp} :
          /\ tmp' = i
          /\ data' = [data EXCEPT ![i] = Empty]
          /\ fd' = [fd EXCEPT ![w] = i]
          /\ stage' = [stage EXCEPT ![w] = "write"]
          /\ UNCHANGED result
     \/ return(w, FALSE) /\ UNCHANGED <<tmp, data>>         \* permission
  /\ UNCHANGED <<target, arg, crashes>>

\* Bytes written from offset 0 over what the inode already holds.
over(content, old) ==
  IF old \in Contents /\ Size[old] > Size[content] THEN Mixed
  ELSE IF old \in {Mixed, Partial} THEN Mixed
  ELSE content

\* o << content; o.flush()
Write(w) ==
  /\ stage[w] = "write"
  /\ data' = [data EXCEPT ![fd[w]] = over(arg[w], @)]
  /\ fd' = [fd EXCEPT ![w] = None]
  /\ stage' = [stage EXCEPT ![w] = "rename"]
  /\ UNCHANGED <<target, tmp, arg, result, crashes>>

\* The same with the disk full: part of the content at most, and std::remove(tmp).
WriteFails_Promoted(w) ==
  /\ stage[w] = "write"
  /\ data' = [data EXCEPT ![fd[w]] = Partial]
  /\ fd' = [fd EXCEPT ![w] = None]
  /\ stage' = [stage EXCEPT ![w] = "rename"]
  /\ UNCHANGED <<target, tmp, arg, result, crashes>>

WriteFails(w) ==
  /\ stage[w] = "write"
  /\ data' = [data EXCEPT ![fd[w]] = Partial]
  /\ tmp' = None
  /\ return(w, FALSE)
  /\ UNCHANGED <<target, arg, crashes>>

\* std::rename(tmp, path), and std::remove(tmp) when it fails.
Rename_Unchecked(w) ==
  /\ stage[w] = "rename"
  /\ \/ tmp # None /\ target' = tmp
     \/ UNCHANGED target
  /\ return(w, TRUE)
  /\ tmp' = None
  /\ UNCHANGED <<data, arg, crashes>>

Rename(w) ==
  /\ stage[w] = "rename"
  /\ \/ tmp # None /\ target' = tmp /\ return(w, TRUE)
     \/ return(w, FALSE) /\ UNCHANGED target
  /\ tmp' = None
  /\ UNCHANGED <<data, arg, crashes>>

\* The process dies and is started again: its descriptors are closed, a tmp file
\* stays behind.
Crash ==
  /\ crashes < MaxCrashes
  /\ crashes' = crashes + 1
  /\ \E w \in Writers : stage[w] # "idle"
  /\ stage' = [w \in Writers |-> "idle"]
  /\ fd' = [w \in Writers |-> None]
  /\ result' = [w \in Writers |-> None]
  /\ UNCHANGED <<target, tmp, data, arg>>

Next ==
  \/ \E w \in Writers : \/ \E content \in Contents : Call(w, content)
                        \/ Open(w) \/ Write(w) \/ WriteFails(w) \/ Rename(w)
  \/ Crash

Spec == Init /\ [][Next]_vars

-----------------------------------------------------------------------------

\* At every instant a reader of the path finds no file or the whole of a content
\* some call was given, never a truncated, partial or mixed one: what
\* ProcessUtil.hpp promises.
ReaderSeesWhole == target # None => data[target] \in Contents

\* A call that returned true has put its content in place, and one that returned
\* false has not touched what was there: a writer with no other beside it.
ResultIsTrue ==
  [][\A w \in Writers :
       stage[w] # "idle" /\ stage'[w] = "idle" =>
         /\ result'[w] = TRUE => target' # None /\ data'[target'] = arg[w]
         /\ result'[w] # TRUE => target' = target]_vars

=============================================================================
