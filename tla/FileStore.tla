------------------------------- MODULE FileStore -------------------------------
(***************************************************************************)
(* PersistentStore::save of src/persistence.cpp, called by several threads *)
(* on one path.  Every save writes the same temporary file, <path>.tmp,    *)
(* and then moves it over the path.  The file calls are the operating      *)
(* system's and are modelled from how save uses them: CreateFileW asks for *)
(* share mode 0, so that while one handle is open no other thread can      *)
(* open, move or delete the file; MoveFileExW replaces the path at once.   *)
(* Each call may fail for reasons of its own when Faults names it, and     *)
(* "power" lets the machine, not only the process, stop: what was written  *)
(* and not flushed is then lost.                                           *)
(***************************************************************************)
CONSTANTS
    None, Savers,       \* threads that may be inside save
    Values,             \* encoded states
    Faults

ASSUME FaultKinds == Faults \subseteq {"create", "write", "flush", "move", "delete", "power"}
ASSUME NoneIsNothing == None \notin Values /\ None \notin Savers

VARIABLES
    path, tmp,          \* the two files: None, or what was written to them
    open,               \* the thread whose handle on tmp is open, or None
    pc, copy            \* where each thread is in save, and the value it saves

files == <<path, tmp, open>>
storeVars == <<path, tmp, open, pc, copy>>

\* The envelope of a value, with part of its bytes missing, complete but only in the
\* operating system's cache, or complete on disk.
Content == [value : Values, state : {"partial", "written", "flushed"}]

StoreInit ==
    /\ path = None
    /\ tmp = None
    /\ open = None
    /\ pc = [s \in Savers |-> "idle"]
    /\ copy = [s \in Savers |-> None]

at(s, l) == pc[s] = l
goto(s, l) == pc' = [pc EXCEPT ![s] = l]

\* save is called with value v; the envelope is built in memory.
begin(s, v) ==
    /\ at(s, "idle")
    /\ goto(s, "create")
    /\ copy' = [copy EXCEPT ![s] = v]
    /\ UNCHANGED files

return(s) == goto(s, "idle") /\ copy' = [copy EXCEPT ![s] = None]

\* Mutant: the temporary file is opened with shared access.
create_shared(s) ==
    /\ at(s, "create")
    /\ tmp' = [value |-> copy[s], state |-> "partial"]
    /\ open' = s
    /\ goto(s, "write")
    /\ UNCHANGED <<path, copy>>

\* CREATE_ALWAYS truncates what an earlier save left.  An envelope that is too large fails
\* before this call, which looks the same to the caller.
create(s) ==
    /\ at(s, "create")
    /\ \/ /\ open = None
          /\ tmp' = [value |-> copy[s], state |-> "partial"]
          /\ open' = s
          /\ goto(s, "write")
          /\ UNCHANGED <<path, copy>>
       \/ /\ open # None \/ "create" \in Faults
          /\ return(s)
          /\ UNCHANGED files

write(s) ==
    /\ at(s, "write")
    /\ \/ tmp' = [tmp EXCEPT !.state = "written"] /\ goto(s, "flush")
       \/ "write" \in Faults /\ goto(s, "abort") /\ UNCHANGED tmp
    /\ UNCHANGED <<path, open, copy>>

\* Mutant: the file is moved without FlushFileBuffers.
flush_skipped(s) ==
    /\ at(s, "flush")
    /\ goto(s, "close")
    /\ UNCHANGED <<files, copy>>

flush(s) ==
    /\ at(s, "flush")
    /\ \/ tmp' = [tmp EXCEPT !.state = "flushed"] /\ goto(s, "close")
       \/ "flush" \in Faults /\ goto(s, "abort") /\ UNCHANGED tmp
    /\ UNCHANGED <<path, open, copy>>

close(s) ==
    /\ pc[s] \in {"close", "abort"}
    /\ open' = None
    /\ goto(s, IF at(s, "close") THEN "move" ELSE "delete")
    /\ UNCHANGED <<path, tmp, copy>>

\* Mutant: a file that another thread has opened can be moved.
move_open(s) ==
    /\ at(s, "move")
    /\ tmp # None
    /\ path' = tmp
    /\ tmp' = None
    /\ return(s)
    /\ UNCHANGED open

\* tmp may by now be another thread's file, or be gone, or be open.
move(s) ==
    /\ at(s, "move")
    /\ \/ /\ tmp # None /\ open = None
          /\ path' = tmp
          /\ tmp' = None
          /\ return(s)
          /\ UNCHANGED open
       \/ /\ tmp = None \/ open # None \/ "move" \in Faults
          /\ goto(s, "delete")
          /\ UNCHANGED <<files, copy>>

\* Mutant: the way out of a failed save removes the target as well.
delete_path(s) ==
    /\ at(s, "delete")
    /\ path' = None
    /\ tmp' = IF open = None THEN None ELSE tmp
    /\ return(s)
    /\ UNCHANGED open

\* DeleteFileW on the way out of a failed save; whether it worked is not looked at.
delete(s) ==
    /\ at(s, "delete")
    /\ \/ open = None /\ tmp' = None
       \/ (open # None \/ "delete" \in Faults) /\ UNCHANGED tmp
    /\ return(s)
    /\ UNCHANGED <<path, open>>

\* A step of a save in progress.
save_step(s) ==
    create(s) \/ write(s) \/ flush(s) \/ close(s) \/ move(s) \/ delete(s)

torn(f) == IF f # None /\ f.state = "written" THEN [f EXCEPT !.state = "partial"] ELSE f

\* The process dies: its handles are closed and its threads are gone.
stop ==
    /\ open' = None
    /\ pc' = [s \in Savers |-> "idle"]
    /\ copy' = [s \in Savers |-> None]

process_crash == stop /\ UNCHANGED <<path, tmp>>

power_loss ==
    /\ "power" \in Faults
    /\ path' = torn(path)
    /\ tmp' = torn(tmp)
    /\ stop

StoreNext ==
    \/ \E s \in Savers, v \in Values : begin(s, v)
    \/ \E s \in Savers : save_step(s)
    \/ process_crash
    \/ power_loss

StoreSpec == StoreInit /\ [][StoreNext]_storeVars

-----------------------------------------------------------------------------
(* Properties.                                                             *)

\* A thread has the handle from its create to its close and nobody else has it then; the
\* temporary file holds what the holder wrote so far.  Once it is closed and some thread may
\* move it, it is whole, and the thread that wrote it has not returned from save.
HandleDiscipline ==
    /\ path \in Content \cup {None}
    /\ tmp \in Content \cup {None}
    /\ open \in Savers \cup {None}
    /\ pc \in [Savers -> {"idle", "create", "write", "flush", "close", "abort", "move", "delete"}]
    /\ copy \in [Savers -> Values \cup {None}]
    /\ \A s \in Savers :
          /\ pc[s] \in {"write", "flush", "close", "abort"} <=> open = s
          /\ pc[s] = "idle" <=> copy[s] = None
          /\ open = s => tmp \in Content /\ tmp.value = copy[s]
          /\ pc[s] = "close" => tmp.state = "flushed"
          /\ pc[s] = "abort" => Faults \cap {"write", "flush"} # {}
          /\ (pc[s] = "move" /\ open = None /\ tmp # None) =>
                /\ tmp.state = "flushed"
                /\ \E w \in Savers : pc[w] \in {"move", "delete"} /\ copy[w] = tmp.value

\* "Atomic save" (include/nmc/persistence.hpp): at every instant, also between two calls of a
\* save and after the machine stops, the path is absent or holds a whole envelope on disk.
PathIsWhole == path = None \/ path.state = "flushed"

\* What load would return, with a file that fails its checks standing for no value at all.
loadable == IF path = None THEN None
            ELSE IF path.state = "partial" THEN "unreadable" ELSE path.value

Register == INSTANCE DurableRegister
                WITH value <- loadable, offered <- {copy[s] : s \in Savers} \ {None}

\* However saves, failures and crashes interleave, the path changes from one saved value to
\* another at one instant, and only to a value some thread is saving at that instant.
ActsAsRegister == Register!Spec
=============================================================================
