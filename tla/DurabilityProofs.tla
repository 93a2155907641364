---------------------------- MODULE DurabilityProofs ----------------------------
(***************************************************************************)
(* The state file and what it keeps across restarts, for any number of     *)
(* threads, values and plans.  PersistentStore::save is a register as long *)
(* as the file calls do not fail once the file is open, or only one thread *)
(* saves at a time.  Under the same proviso a restart never reuses the     *)
(* epoch of an incarnation that saved.  What a successful save covered is  *)
(* kept for good when one connection saves and the file stays readable.    *)
(***************************************************************************)
EXTENDS Durability, SequenceTheorems, TLAPS

USE ZenonT(4), SMTT(15), ZenonT(30), SMTT(90)

\* Either one thread saves, or what a thread has opened it can also write, flush and delete.
Tame == \/ Faults \cap {"write", "flush", "delete"} = {}
        \/ \A s, t \in Savers : s = t

StoreInv == HandleDiscipline /\ PathIsWhole

\* No thread is inside save and nothing has been saved: the invariant holds at the start.
LEMMA StoreInvInit == StoreInit => StoreInv
BY NoneIsNothing DEF StoreInit, StoreInv, HandleDiscipline, PathIsWhole

\* Calling save only takes a copy.
LEMMA BeginKeepsInv ==
    ASSUME StoreInv, NEW s \in Savers, NEW v \in Values, begin(s, v) PROVE StoreInv'
BY NoneIsNothing
DEF StoreInv, HandleDiscipline, PathIsWhole, begin, at, goto, files

\* Creating the file takes the handle, or returns an error.
LEMMA CreateKeepsInv ==
    ASSUME StoreInv, NEW s \in Savers, create(s) PROVE StoreInv'
<1>1. CASE /\ open = None
           /\ tmp' = [value |-> copy[s], state |-> "partial"]
           /\ open' = s
           /\ goto(s, "write")
           /\ UNCHANGED <<path, copy>>
  BY <1>1, NoneIsNothing
  DEF StoreInv, HandleDiscipline, PathIsWhole, create, at, goto, Content
<1>2. CASE return(s) /\ UNCHANGED files
  BY <1>2, NoneIsNothing
  DEF StoreInv, HandleDiscipline, PathIsWhole, create, at, goto, return, files, Content
<1> QED BY <1>1, <1>2 DEF create

\* Writing and flushing touch only the file whose handle the thread has.
LEMMA WriteKeepsInv ==
    ASSUME StoreInv, NEW s \in Savers, write(s) \/ flush(s) PROVE StoreInv'
<1>1. open = s /\ tmp \in Content /\ open # None
  BY NoneIsNothing DEF StoreInv, HandleDiscipline, write, flush, at
<1>2. tmp' \in Content /\ tmp'.value = tmp.value
  BY <1>1 DEF write, flush, Content
<1>3. /\ pc' \in [Savers -> {"idle", "create", "write", "flush", "close", "abort", "move", "delete"}]
      /\ pc'[s] \in {"flush", "close", "abort"}
      /\ pc'[s] = "close" => tmp'.state = "flushed"
      /\ pc'[s] = "abort" => Faults \cap {"write", "flush"} # {}
      /\ \A t \in Savers \ {s} : pc'[t] = pc[t]
  BY <1>1 DEF StoreInv, HandleDiscipline, write, flush, at, goto, Content
<1>4. UNCHANGED <<path, open, copy>>
  BY DEF write, flush
<1>5. \A t \in Savers \ {s} : pc[t] # "close"
  BY <1>1 DEF StoreInv, HandleDiscipline
<1> QED BY <1>1, <1>2, <1>3, <1>4, <1>5 DEF StoreInv, HandleDiscipline, PathIsWhole, write, flush, at

\* Closing gives the handle back.  A thread whose write failed closes too; then it is the only
\* one that saves, so nobody is about to move the broken file.
LEMMA CloseKeepsInv ==
    ASSUME Tame, StoreInv, NEW s \in Savers, close(s) PROVE StoreInv'
<1>1. open = s /\ open' = None /\ tmp \in Content /\ tmp.value = copy[s] /\ copy[s] \in Values
  BY NoneIsNothing DEF StoreInv, HandleDiscipline, close
<1>2. /\ UNCHANGED <<path, tmp, copy>>
      /\ pc' = [pc EXCEPT ![s] = IF pc[s] = "close" THEN "move" ELSE "delete"]
  BY DEF close, goto, at
<1>3. CASE pc[s] = "close"
  <2>1. tmp.state = "flushed" /\ pc'[s] = "move"
    BY <1>2, <1>3 DEF StoreInv, HandleDiscipline
  <2> QED BY <1>1, <1>2, <1>3, <2>1, NoneIsNothing DEF StoreInv, HandleDiscipline, PathIsWhole
<1>4. CASE pc[s] = "abort"
  <2>1. \A t \in Savers : t = s
    BY <1>4 DEF Tame, StoreInv, HandleDiscipline
  <2> QED BY <1>1, <1>2, <1>4, <2>1, NoneIsNothing DEF StoreInv, HandleDiscipline, PathIsWhole
<1> QED BY <1>3, <1>4 DEF close

\* Only a whole file is moved over the path.
LEMMA MoveKeepsInv ==
    ASSUME StoreInv, NEW s \in Savers, move(s) PROVE StoreInv'
<1>1. CASE tmp # None /\ open = None /\ path' = tmp /\ tmp' = None /\ return(s) /\ UNCHANGED open
  BY <1>1, NoneIsNothing
  DEF StoreInv, HandleDiscipline, PathIsWhole, move, at, goto, return, Content
<1>2. CASE goto(s, "delete") /\ UNCHANGED <<files, copy>>
  BY <1>2, NoneIsNothing DEF StoreInv, HandleDiscipline, PathIsWhole, move, at, goto, files
<1> QED BY <1>1, <1>2 DEF move

\* A failed save takes its file away with it, unless it is the only one that saves.
LEMMA DeleteKeepsInv ==
    ASSUME Tame, StoreInv, NEW s \in Savers, delete(s) PROVE StoreInv'
<1>1. /\ UNCHANGED <<path, open>> /\ pc[s] = "delete"
      /\ pc' = [pc EXCEPT ![s] = "idle"] /\ copy' = [copy EXCEPT ![s] = None]
  BY DEF delete, return, goto, at
<1>2. CASE open = None /\ tmp' = None
  BY <1>1, <1>2, NoneIsNothing DEF StoreInv, HandleDiscipline, PathIsWhole
<1>3. CASE open # None /\ UNCHANGED tmp
  BY <1>1, <1>3, NoneIsNothing DEF StoreInv, HandleDiscipline, PathIsWhole
<1>4. CASE "delete" \in Faults /\ UNCHANGED tmp
  <2>1. \A t \in Savers : t = s
    BY <1>4 DEF Tame
  <2> QED BY <1>1, <1>4, <2>1, NoneIsNothing DEF StoreInv, HandleDiscipline, PathIsWhole
<1> QED BY <1>2, <1>3, <1>4 DEF delete

\* When the process or the machine stops no thread is left that could move the temporary file.
LEMMA StopKeepsInv ==
    ASSUME StoreInv, process_crash \/ power_loss PROVE StoreInv'
<1>1. path' = path /\ tmp' \in Content \cup {None}
  BY DEF StoreInv, HandleDiscipline, PathIsWhole, process_crash, power_loss, torn, Content
<1> QED BY <1>1, NoneIsNothing
        DEF StoreInv, HandleDiscipline, PathIsWhole, process_crash, power_loss, stop

\* StoreInv is inductive.
LEMMA StoreInvStep == ASSUME Tame, StoreInv, [StoreNext]_storeVars PROVE StoreInv'
<1>1. CASE UNCHANGED storeVars
  BY <1>1 DEF storeVars, StoreInv, HandleDiscipline, PathIsWhole
<1>2. CASE \E s \in Savers, v \in Values : begin(s, v)
  BY <1>2, BeginKeepsInv
<1>3. CASE \E s \in Savers : save_step(s)
  BY <1>3, CreateKeepsInv, WriteKeepsInv, CloseKeepsInv, MoveKeepsInv, DeleteKeepsInv
  DEF save_step
<1>4. CASE process_crash \/ power_loss
  BY <1>4, StopKeepsInv
<1> QED BY <1>1, <1>2, <1>3, <1>4 DEF StoreNext

\* For any number of threads, one of them at a time has the temporary file, and what a thread
\* moves over the path is whole and is the value of a save that has not returned.
THEOREM HandlesAreDisciplined == ASSUME Tame PROVE StoreSpec => []HandleDiscipline
<1>1. StoreInv /\ [StoreNext]_storeVars => StoreInv'
  BY StoreInvStep
<1>2. StoreInv => HandleDiscipline
  BY DEF StoreInv
<1> QED BY <1>1, <1>2, StoreInvInit, PTL DEF StoreSpec

\* For any number of threads, the path is never seen half-written: not between two calls of a
\* save, not after a crash, not after the machine stops.
THEOREM SaveIsAtomic == ASSUME Tame PROVE StoreSpec => []PathIsWhole
<1>1. StoreInv /\ [StoreNext]_storeVars => StoreInv'
  BY StoreInvStep
<1>2. StoreInv => PathIsWhole
  BY DEF StoreInv
<1> QED BY <1>1, <1>2, StoreInvInit, PTL DEF StoreSpec

-----------------------------------------------------------------------------
(* The refinement: the path is the register, and a thread inside save      *)
(* offers its copy.                                                        *)

\* Under the invariant the path can be loaded whenever it exists.
LEMMA LoadableValue == ASSUME StoreInv PROVE loadable = IF path = None THEN None ELSE path.value
BY DEF StoreInv, PathIsWhole, loadable

\* Before the first save the register is empty and nothing is offered.
LEMMA RegisterInit == StoreInit => Register!Init
BY DEF StoreInit, Register!Init, loadable

\* Every step of a save, a crash and a loss of power is a step of the register or no step.
LEMMA RegisterStep ==
    ASSUME Tame, StoreInv, [StoreNext]_storeVars
    PROVE  [Register!Next]_<<loadable, {copy[s] : s \in Savers} \ {None}>>
<1> DEFINE off == {copy[s] : s \in Savers} \ {None}
<1>0. StoreInv'
  BY StoreInvStep
<1>1. loadable = (IF path = None THEN None ELSE path.value) /\ copy \in [Savers -> Values \cup {None}]
  BY LoadableValue DEF StoreInv, HandleDiscipline
<1>2. loadable' = IF path' = None THEN None ELSE path'.value
  BY <1>0 DEF StoreInv, PathIsWhole, loadable
<1>3. ASSUME NEW s \in Savers, copy' = [copy EXCEPT ![s] = None] PROVE off' \in SUBSET off
  BY <1>1, <1>3
<1>4. CASE UNCHANGED storeVars
  BY <1>4, <1>1, <1>2 DEF storeVars
<1>5. ASSUME NEW s \in Savers, NEW v \in Values, begin(s, v) PROVE Register!Offer(v)
  <2>1. off' = off \cup {v}
    BY <1>1, <1>5, NoneIsNothing DEF begin, at, StoreInv, HandleDiscipline
  <2> QED BY <2>1, <1>5, <1>1, <1>2 DEF begin, files, Register!Offer
<1>6. ASSUME NEW s \in Savers, move(s), path' # path PROVE \E v \in Values : Register!Install(v)
  <2>1. /\ at(s, "move") /\ tmp # None /\ open = None /\ path' = tmp
        /\ copy' = [copy EXCEPT ![s] = None]
    BY <1>6 DEF move, files, return
  <2>2. tmp \in Content /\ tmp.value \in Values /\ \E w \in Savers : copy[w] = tmp.value
    BY <2>1 DEF StoreInv, HandleDiscipline, at, Content
  <2>3. tmp.value \in off /\ loadable' = tmp.value
    BY <2>1, <2>2, <1>2, NoneIsNothing
  <2>4. off' \in SUBSET off
    BY <2>1, <1>3
  <2> QED BY <2>2, <2>3, <2>4 DEF Register!Install
<1>7. ASSUME NEW s \in Savers, save_step(s), path' = path PROVE Register!Withdraw
  <2>1. off' \in SUBSET off
    <3>1. copy' = copy \/ copy' = [copy EXCEPT ![s] = None]
      BY <1>7 DEF save_step, create, write, flush, close, move, delete, return
    <3> QED BY <3>1, <1>3
  <2> QED BY <2>1, <1>1, <1>2, <1>7 DEF Register!Withdraw
<1>8. ASSUME NEW s \in Savers, save_step(s), path' # path PROVE move(s)
  BY <1>8 DEF save_step, create, write, flush, close, delete, files
<1>9. CASE process_crash \/ power_loss
  <2>1. path' = path
    BY <1>9 DEF process_crash, power_loss, torn, StoreInv, PathIsWhole
  <2>2. off' \in SUBSET off
    BY <1>9 DEF process_crash, power_loss, stop
  <2> QED BY <2>1, <2>2, <1>1, <1>2 DEF Register!Withdraw, Register!Next
<1> QED BY <1>4, <1>5, <1>6, <1>7, <1>8, <1>9 DEF StoreNext, Register!Next

\* For any number of threads, FileStore implements DurableRegister: a save takes effect at one
\* instant or not at all, and never leaves anything but a saved value behind.
THEOREM StoreImplementsRegister == ASSUME Tame PROVE StoreSpec => ActsAsRegister
<1>1. StoreInv /\ [StoreNext]_storeVars => StoreInv'
  BY StoreInvStep
<1>2. StoreInv /\ [StoreNext]_storeVars =>
        [Register!Next]_<<loadable, {copy[s] : s \in Savers} \ {None}>>
  BY RegisterStep
<1> QED BY <1>1, <1>2, StoreInvInit, RegisterInit, PTL
        DEF StoreSpec, ActsAsRegister, Register!Spec

-----------------------------------------------------------------------------
(* A restart advances the epoch.                                           *)

\* A copy being saved carries the epoch of the incarnation that took it; so does the file, once
\* that incarnation has saved.
EpochsAgree ==
    /\ memory \in State \cup {None}
    /\ starts \in Seq([epoch : Nat, recovered : BOOLEAN, saved : BOOLEAN])
    /\ memory # None => starts # <<>> /\ memory.epoch = starts[Len(starts)].epoch
    /\ (starts # <<>> /\ starts[Len(starts)].saved) =>
          path # None /\ path.value.epoch = starts[Len(starts)].epoch
    /\ \A s \in Savers :
          /\ stage[s] \in {"save", "saving"} => memory # None
          /\ copy[s] # None => memory # None /\ copy[s].epoch = memory.epoch

EpochInv == StoreInv /\ EpochsAgree /\ RecoveryAdvancesEpoch

\* A thread that is to save, or is saving, belongs to a running process.
Running ==
    /\ memory \in State \cup {None}
    /\ \A s \in Savers : stage[s] \in {"save", "saving"} => memory # None

\* Every step of the process is a step of the store or leaves it alone.
LEMMA DurableStepsStore ==
    ASSUME Values = State, Running, [DurableNext]_durableVars
    PROVE  [StoreNext]_storeVars
BY DEF Running, DurableNext, durableVars, start, apply, save, saving, resolve, die, StoreNext

\* What a step of a save does to the path and to its copy: the save that returns success has
\* moved the temporary file, and nothing else touches the path.
LEMMA SavingStep ==
    ASSUME StoreInv, NEW s \in Savers, save_step(s)
    PROVE  /\ copy' = copy \/ copy' = [copy EXCEPT ![s] = None]
           /\ IF at(s, "move") /\ pc'[s] = "idle"
              THEN tmp # None /\ open = None /\ path' = tmp /\ copy' = [copy EXCEPT ![s] = None]
              ELSE path' = path
<1>1. pc \in [Savers -> {"idle", "create", "write", "flush", "close", "abort", "move", "delete"}]
  BY DEF StoreInv, HandleDiscipline
<1>2. copy' = copy \/ copy' = [copy EXCEPT ![s] = None]
  BY DEF save_step, create, write, flush, close, move, delete, return
<1>3. CASE at(s, "move")
  BY <1>1, <1>3 DEF save_step, create, write, flush, close, move, delete, at, goto, return, files
<1>4. CASE ~at(s, "move")
  <2>1. path' = path
    BY <1>4 DEF save_step, create, write, flush, close, move, delete, files
  <2> QED BY <1>2, <1>4, <2>1
<1> QED BY <1>2, <1>3, <1>4

\* Before the first start there is no epoch to agree on.
LEMMA EpochInvInit == ASSUME Values = State PROVE DurableInit => EpochInv
BY StoreInvInit DEF DurableInit, EpochInv, EpochsAgree, RecoveryAdvancesEpoch, StoreInit

\* EpochInv is inductive.
LEMMA EpochInvStep ==
    ASSUME Tame, Values = State, EpochInv, [DurableNext]_durableVars
    PROVE  EpochInv'
<1> DEFINE Start == [epoch : Nat, recovered : BOOLEAN, saved : BOOLEAN]
<1>1. StoreInv'
  BY DurableStepsStore, StoreInvStep DEF EpochInv, EpochsAgree, Running
<1>2. /\ path \in Content \cup {None} /\ PathIsWhole
      /\ copy \in [Savers -> Values \cup {None}]
      /\ \A s \in Savers : pc[s] = "idle" <=> copy[s] = None
  BY DEF EpochInv, StoreInv, HandleDiscipline
<1>3. starts \in Seq(Start) /\ memory \in State \cup {None}
  BY DEF EpochInv, EpochsAgree
<1>4. CASE UNCHANGED durableVars
  BY <1>1, <1>4
  DEF durableVars, storeVars, handlerVars, historyVars, EpochInv, EpochsAgree, RecoveryAdvancesEpoch
<1>5. CASE start
  <2> DEFINE recovers == path # None /\ path.state # "partial" /\ decodes(path.value)
             n == Len(starts)
             new == [epoch |-> memory'.epoch, recovered |-> recovers, saved |-> FALSE]
  <2>1. UNCHANGED <<path, copy, stage>> /\ starts' = Append(starts, new) /\ memory = None
    BY <1>5 DEF start, storeVars, handlerVars
  <2>2. memory' \in State /\ (recovers => memory'.epoch > path.value.epoch)
    <3>1. CASE recovers
      <4>1. path.value \in State /\ memory' = [path.value EXCEPT !.epoch = later(@ + 1)]
        BY <1>2, <1>5, <3>1 DEF start, Content
      <4> QED BY <4>1, Bounds DEF State, later
    <3>2. CASE ~recovers
      BY <1>5, <3>2, Bounds DEF start, fresh, State
    <3> QED BY <3>1, <3>2
  <2>3. new \in Start /\ new.saved = FALSE /\ new.epoch = memory'.epoch /\ new.recovered = recovers
    BY <2>2 DEF State
  <2> HIDE DEF new, recovers, Start
  <2>4. /\ starts' \in Seq(Start) /\ Len(starts') = n + 1 /\ n \in Nat
        /\ starts'[n + 1] = new /\ \A i \in 1 .. n : starts'[i] = starts[i]
    BY <1>3, <2>1, <2>3
  <2>5. (starts # <<>> /\ starts[n].saved /\ recovers) => memory'.epoch > starts[n].epoch
    BY <2>2 DEF EpochInv, EpochsAgree
  <2>6. RecoveryAdvancesEpoch'
    <3> SUFFICES ASSUME NEW i \in 2 .. Len(starts'), starts'[i].recovered, starts'[i - 1].saved
                 PROVE  starts'[i].epoch > starts'[i - 1].epoch
      BY DEF RecoveryAdvancesEpoch
    <3>1. CASE i = n + 1
      <4>1. n \in 1 .. n /\ starts # <<>> /\ i - 1 = n /\ i - 1 \in 1 .. n
        BY <1>3, <2>4, <3>1
      <4> QED BY <2>3, <2>4, <2>5, <3>1, <4>1
    <3>2. CASE i # n + 1
      <4>1. i \in 2 .. n /\ i \in 1 .. n /\ i - 1 \in 1 .. n
        BY <2>4, <3>2
      <4> QED BY <2>4, <4>1 DEF EpochInv, RecoveryAdvancesEpoch
    <3> QED BY <3>1, <3>2
  <2>7. EpochsAgree'
    <3>1. \A s \in Savers : copy[s] = None /\ ~(stage[s] \in {"save", "saving"})
      BY <2>1 DEF EpochInv, EpochsAgree
    <3>2. starts' # <<>> /\ starts'[Len(starts')].saved = FALSE
          /\ starts'[Len(starts')].epoch = memory'.epoch
      BY <2>3, <2>4
    <3> QED BY <2>1, <2>2, <2>4, <3>1, <3>2 DEF EpochsAgree, Start
  <2> QED BY <1>1, <2>6, <2>7 DEF EpochInv
<1>6. ASSUME NEW s \in Savers, NEW p \in Plans, apply(s, p) PROVE EpochInv'
  <2>1. UNCHANGED <<path, copy, starts>> /\ memory # None
    BY <1>6 DEF apply, storeVars
  <2>2. memory' \in State /\ memory' # None /\ memory'.epoch = memory.epoch
    BY <1>3, <1>6, <2>1, NoneIsNothing DEF apply, State
  <2> QED BY <1>1, <2>1, <2>2 DEF EpochInv, EpochsAgree, RecoveryAdvancesEpoch
<1>7. ASSUME NEW s \in Savers, save(s) PROVE EpochInv'
  <2>1. /\ UNCHANGED <<path, memory, starts>>
        /\ copy' = [copy EXCEPT ![s] = memory] /\ memory # None
    BY <1>7 DEF save, begin, files, historyVars, EpochInv, EpochsAgree
  <2> QED BY <1>1, <1>2, <2>1 DEF EpochInv, EpochsAgree, RecoveryAdvancesEpoch
<1>8. ASSUME NEW s \in Savers, resolve(s) PROVE EpochInv'
  <2>1. /\ UNCHANGED <<path, copy, memory, starts>>
        /\ \A t \in Savers : stage'[t] \in {"save", "saving"} => memory # None
    BY <1>8 DEF resolve, storeVars, EpochInv, EpochsAgree
  <2> QED BY <1>1, <2>1 DEF EpochInv, EpochsAgree, RecoveryAdvancesEpoch
<1>9. CASE die
  <2>1. path' = path
    BY <1>2, <1>9 DEF die, process_crash, power_loss, torn, PathIsWhole
  <2>2. memory' = None /\ starts' = starts /\ \A s \in Savers : copy'[s] = None /\ stage'[s] = "receive"
    BY <1>9 DEF die, process_crash, power_loss, stop, historyVars
  <2> QED BY <1>1, <2>1, <2>2 DEF EpochInv, EpochsAgree, RecoveryAdvancesEpoch
<1>10. ASSUME NEW s \in Savers, saving(s) PROVE EpochInv'
  <2>1. UNCHANGED <<memory, stage>> /\ save_step(s) /\ memory # None
    BY <1>10 DEF saving, handlerVars, EpochInv, EpochsAgree
  <2>2. /\ copy' = copy \/ copy' = [copy EXCEPT ![s] = None]
        /\ IF at(s, "move") /\ pc'[s] = "idle"
           THEN tmp # None /\ open = None /\ path' = tmp /\ copy' = [copy EXCEPT ![s] = None]
           ELSE path' = path
    BY <2>1, SavingStep DEF EpochInv
  <2>3. \A t \in Savers : copy'[t] # None => copy'[t].epoch = memory.epoch
    BY <1>2, <2>2 DEF EpochInv, EpochsAgree
  <2>4. CASE at(s, "move") /\ pc'[s] = "idle"
    <3> DEFINE n == Len(starts)
    <3>1. tmp # None /\ path' = tmp /\ tmp.value.epoch = memory.epoch
      <4>1. PICK w \in Savers : pc[w] \in {"move", "delete"} /\ copy[w] = tmp.value
        BY <2>2, <2>4 DEF EpochInv, StoreInv, HandleDiscipline, at
      <4> QED BY <1>2, <2>2, <2>4, <4>1 DEF EpochInv, EpochsAgree
    <3>2. n \in 1 .. n /\ memory.epoch = starts[n].epoch /\ starts[n] \in Start
      <4>1. starts # <<>> /\ memory.epoch = starts[n].epoch
        BY <2>1 DEF EpochInv, EpochsAgree
      <4> HIDE DEF Start
      <4>2. n \in 1 .. n
        BY <1>3, <4>1
      <4> QED BY <1>3, <4>1, <4>2
    <3>3. starts' = [starts EXCEPT ![n] = [starts[n] EXCEPT !.saved = TRUE]]
      BY <1>10, <2>4 DEF saving
    <3>4. /\ [starts[n] EXCEPT !.saved = TRUE] \in Start
          /\ [starts[n] EXCEPT !.saved = TRUE].epoch = starts[n].epoch
          /\ [starts[n] EXCEPT !.saved = TRUE].recovered = starts[n].recovered
      BY <3>2
    <3>5. /\ starts' \in Seq(Start) /\ Len(starts') = n
          /\ \A i \in 1 .. n : /\ starts'[i].epoch = starts[i].epoch
                               /\ starts'[i].recovered = starts[i].recovered
                               /\ i # n => starts'[i].saved = starts[i].saved
      <4> DEFINE e == [starts[n] EXCEPT !.saved = TRUE]
      <4> HIDE DEF Start, e
      <4>1. e \in Start /\ e.epoch = starts[n].epoch /\ e.recovered = starts[n].recovered
        BY <3>4 DEF e
      <4>2. /\ starts' \in Seq(Start) /\ Len(starts') = n
            /\ \A i \in 1 .. n : starts'[i] = IF i = n THEN e ELSE starts[i]
        BY <1>3, <3>2, <3>3, <4>1, ExceptSeq DEF e
      <4> QED BY <4>1, <4>2
    <3>6. RecoveryAdvancesEpoch'
      <4> SUFFICES ASSUME NEW i \in 2 .. Len(starts'), starts'[i].recovered, starts'[i - 1].saved
                   PROVE  starts'[i].epoch > starts'[i - 1].epoch
        BY DEF RecoveryAdvancesEpoch
      <4>1. i \in 2 .. n /\ i \in 1 .. n /\ i - 1 \in 1 .. n /\ i - 1 # n
        <5>1. Len(starts') = n /\ n \in Nat
          BY <1>3, <3>5
        <5> HIDE DEF n
        <5> QED BY <5>1
      <4> HIDE DEF n
      <4> QED BY <3>5, <4>1 DEF EpochInv, RecoveryAdvancesEpoch, n
    <3> QED BY <1>1, <1>3, <2>1, <2>3, <3>1, <3>2, <3>5, <3>6 DEF EpochInv, EpochsAgree
  <2>5. CASE ~(at(s, "move") /\ pc'[s] = "idle")
    <3>1. starts' = starts /\ path' = path
      BY <1>10, <2>2, <2>5 DEF saving
    <3> QED BY <1>1, <2>1, <2>3, <3>1 DEF EpochInv, EpochsAgree, RecoveryAdvancesEpoch
  <2> QED BY <2>4, <2>5
<1> QED BY <1>4, <1>5, <1>6, <1>7, <1>8, <1>9, <1>10 DEF DurableNext

\* For any number of connections, a coordinator that recovers the file of an incarnation whose
\* save took effect runs in a later epoch than that incarnation.
THEOREM RestartAdvancesEpoch ==
    ASSUME Tame, Values = State PROVE DurableSpec => []RecoveryAdvancesEpoch
<1>1. EpochInv /\ [DurableNext]_durableVars => EpochInv'
  BY EpochInvStep
<1>2. EpochInv => RecoveryAdvancesEpoch
  BY DEF EpochInv
<1>3. DurableInit => EpochInv
  BY EpochInvInit
<1> QED BY <1>1, <1>2, <1>3, PTL DEF DurableSpec

\* The coordinator drives the store as FileStore says: what is proved of StoreSpec holds of the
\* state file of a coordinator that is started, saves, is killed and is started again.
THEOREM CoordinatorDrivesStore ==
    ASSUME Tame, Values = State PROVE DurableSpec => StoreSpec /\ ActsAsRegister
<1>1. EpochInv /\ [DurableNext]_durableVars => EpochInv'
  BY EpochInvStep
<1>2. EpochInv /\ [DurableNext]_durableVars => [StoreNext]_storeVars
  BY DurableStepsStore DEF EpochInv, EpochsAgree, Running
<1>3. DurableInit => EpochInv /\ StoreInit
  BY EpochInvInit DEF DurableInit
<1>4. DurableSpec => StoreSpec
  BY <1>1, <1>2, <1>3, PTL DEF DurableSpec, StoreSpec
<1>5. StoreSpec => ActsAsRegister
  BY StoreImplementsRegister
<1> QED BY <1>4, <1>5, PTL

-----------------------------------------------------------------------------
(* What a save covered is kept.                                            *)

\* One thread saves, and the results of all plans together fit into one state file.
OneWriter == \A s, t \in Savers : s = t
EverythingFits == \A v \in State : decodes(v)

\* The file, a copy being saved and the memory each contain everything saved so far.
DurableInv ==
    /\ StoreInv
    /\ memory \in State \cup {None}
    /\ saved \subseteq Plans
    /\ path = None => saved = {}
    /\ path # None => saved \subseteq path.value.results
    /\ memory # None => saved \subseteq memory.results
    /\ \A s \in Savers :
          /\ stage[s] \in {"save", "saving"} => memory # None
          /\ copy[s] # None => /\ memory # None
                               /\ saved \subseteq copy[s].results
                               /\ copy[s].results \subseteq memory.results

\* Before the first start nothing is saved.
LEMMA DurableInvInit == ASSUME Values = State PROVE DurableInit => DurableInv
BY StoreInvInit DEF DurableInit, DurableInv, StoreInit

\* DurableInv is inductive.
LEMMA DurableInvStep ==
    ASSUME Values = State, OneWriter, EverythingFits, DurableInv, [DurableNext]_durableVars
    PROVE  DurableInv'
<1>1. StoreInv'
  BY DurableStepsStore, StoreInvStep DEF DurableInv, OneWriter, Tame, Running
<1>2. /\ path \in Content \cup {None} /\ PathIsWhole
      /\ copy \in [Savers -> Values \cup {None}]
      /\ pc \in [Savers -> {"idle", "create", "write", "flush", "close", "abort", "move", "delete"}]
      /\ \A s \in Savers : pc[s] = "idle" <=> copy[s] = None
  BY DEF DurableInv, StoreInv, HandleDiscipline
<1>3. CASE UNCHANGED durableVars
  BY <1>1, <1>3 DEF durableVars, storeVars, handlerVars, historyVars, DurableInv
<1>4. CASE start
  <2>1. UNCHANGED <<path, tmp, open, pc, copy, stage, reply, saved>>
    BY <1>4 DEF start, storeVars, handlerVars
  <2>2. \A s \in Savers : copy[s] = None
    BY <1>4 DEF start, DurableInv
  <2>3. memory' \in State /\ saved \subseteq memory'.results
    <3>1. CASE path = None
      BY <1>4, <3>1, Bounds DEF start, fresh, State, DurableInv
    <3>2. CASE path # None
      <4>1. path.value \in State /\ path.state # "partial" /\ decodes(path.value)
        BY <1>2, <3>2 DEF PathIsWhole, Content, EverythingFits
      <4>2. memory' = [path.value EXCEPT !.epoch = later(@ + 1)]
        BY <1>4, <3>2, <4>1 DEF start
      <4>3. memory' \in State /\ memory'.results = path.value.results
        BY <4>1, <4>2, Bounds DEF State, later
      <4> QED BY <3>2, <4>3 DEF DurableInv
    <3> QED BY <3>1, <3>2
  <2> QED BY <1>1, <2>1, <2>2, <2>3, NoneIsNothing DEF DurableInv
<1>5. ASSUME NEW s \in Savers, NEW p \in Plans, apply(s, p) PROVE DurableInv'
  <2>1. UNCHANGED <<path, tmp, open, pc, copy, saved>> /\ memory # None
    BY <1>5 DEF apply, storeVars
  <2>2. memory' \in State /\ memory.results \subseteq memory'.results /\ memory' # None
    BY <1>5, <2>1, NoneIsNothing DEF apply, State, DurableInv
  <2> QED BY <1>1, <2>1, <2>2 DEF DurableInv
<1>6. ASSUME NEW s \in Savers, save(s) PROVE DurableInv'
  <2>1. /\ UNCHANGED <<path, tmp, open, memory, saved>>
        /\ copy' = [copy EXCEPT ![s] = memory] /\ memory # None
    BY <1>6 DEF save, begin, files, historyVars, DurableInv
  <2> QED BY <1>1, <1>2, <2>1 DEF DurableInv
<1>7. ASSUME NEW s \in Savers, resolve(s) PROVE DurableInv'
  BY <1>1, <1>7 DEF resolve, storeVars, DurableInv
<1>8. CASE die
  <2>1. path' = path
    BY <1>2, <1>8 DEF die, process_crash, power_loss, torn, PathIsWhole
  <2>2. memory' = None /\ saved' = saved /\ \A s \in Savers : copy'[s] = None /\ stage'[s] = "receive"
    BY <1>8 DEF die, process_crash, power_loss, stop, historyVars
  <2> QED BY <1>1, <2>1, <2>2 DEF DurableInv
<1>9. ASSUME NEW s \in Savers, saving(s) PROVE DurableInv'
  <2>1. UNCHANGED <<memory, stage>> /\ save_step(s) /\ memory # None
    BY <1>9 DEF saving, handlerVars, DurableInv
  <2>2. CASE at(s, "move") /\ pc'[s] = "idle"
    <3>1. tmp # None /\ open = None /\ path' = tmp /\ copy' = [copy EXCEPT ![s] = None]
      BY <2>1, <2>2, SavingStep DEF DurableInv
    <3>2. tmp.value = copy[s] /\ copy[s] # None /\ tmp # None
      BY <2>2, <3>1, <1>2, NoneIsNothing DEF DurableInv, StoreInv, HandleDiscipline, at, OneWriter
    <3>3. saved' = saved \cup copy[s].results
      BY <1>9, <2>2 DEF saving
    <3>4. copy[s] \in State
      BY <1>2, <3>2
    <3> QED BY <1>1, <1>2, <2>1, <3>1, <3>2, <3>3, <3>4, NoneIsNothing DEF DurableInv, OneWriter, State
  <2>3. CASE ~(at(s, "move") /\ pc'[s] = "idle")
    <3>1. saved' = saved /\ path' = path
      BY <1>9, <2>1, <2>3, SavingStep DEF saving, DurableInv
    <3>2. copy' = copy \/ copy' = [copy EXCEPT ![s] = None]
      BY <2>1, SavingStep DEF DurableInv
    <3> QED BY <1>1, <1>2, <2>1, <3>1, <3>2 DEF DurableInv
  <2> QED BY <2>2, <2>3
<1> QED BY <1>3, <1>4, <1>5, <1>6, <1>7, <1>8, <1>9 DEF DurableNext

\* With one writer, no crash, loss of power or failed file call loses a result that a
\* successful save covered.
THEOREM SavedIsDurable ==
    ASSUME Values = State, OneWriter, EverythingFits
    PROVE  DurableSpec => []SavedResultsSurvive
<1>1. DurableInv /\ [DurableNext]_durableVars => DurableInv'
  BY DurableInvStep
<1>2. DurableInv => SavedResultsSurvive
  BY DEF DurableInv, SavedResultsSurvive
<1>3. DurableInit => DurableInv
  BY DurableInvInit
<1> QED BY <1>1, <1>2, <1>3, PTL DEF DurableSpec
=============================================================================
