# Near-Memory Compute: verification project

TLA+ models of the near-memory compute runtime, the TLC runs that check them on small
instances, and TLAPS proofs of the properties that matter most for every size of the system.
Paths below are relative to the repository; `coordinator.cpp` is `src/coordinator.cpp`.

## The system

The runtime decides whether an operation runs next to its data or conventionally, and keeps
authority over executions that are dispatched to workers.

| part | source | role |
|---|---|---|
| coordinator engine | `coordinator.cpp`, `coordinator.hpp`, `authority.hpp`, `plan.hpp`, `result.hpp` | registries, evidence, plans, reservations, results; one mutex `mu_` around every public method |
| planner | `planning.hpp`, `economics.hpp`, `policy.hpp`, `program.hpp` | hard feasibility filter, cost comparison, ranking; pure |
| catalog records | `target.hpp`, `capability.hpp`, `dataset.hpp`, `operation.hpp`, `enums.hpp`, `ids.hpp` | value types |
| coordinator process | `apps/nmc_coordinator.cpp` | one thread per connection, a second mutex, pending promises |
| worker process | `apps/nmc_worker.cpp` | publishes itself, executes dispatches, replies |
| wire protocol | `protocol.hpp`, `net.cpp`, `checksum.hpp` | framed messages over TCP |
| persistence | `persistence.cpp`, `save`/`load`/`encode_state`/`decode_state` of the engine | checksummed state file, temporary file plus rename |
| backends | `backend.cpp`, `cuda_backend.cu` | arithmetic on byte buffers |
| discovery, digest, CLI, benchmark, examples | `system_discovery.cpp`, `digest.hpp`, `apps/nmc_cli.cpp`, ... | stateless helpers and drivers |

How a request flows: a worker connects and sends HELLO, REGISTER_TARGET, CAPABILITY,
DATA_EVIDENCE and HEARTBEAT. A client registers an operation, asks for a plan (the engine pins
an *authority snapshot*: epoch, worker boot, and the generations of everything the plan relies
on), then asks to dispatch it. Its thread calls `reserve`, `prepare_dispatch`,
`confirm_dispatched`, registers a promise, sends the message and waits. The worker's thread
applies the RESULT and fulfils the promise. Anything may intervene: an epoch, a fence, a
cancellation, a drain, a disconnect, a duplicate or late result.

## Modules

| module | models | kind |
|---|---|---|
| `Planning` | the pure planner: `hard_filter`, `choose_path`, `rank_candidates` | operators |
| `Coordinator` | the engine: one action per public method that changes state | state machine |
| `MCCoordinator` | instances of `Coordinator` for TLC | inputs |
| `MCAudit` | a statement of the repository about stale completions that the code does not keep | history + property |
| `ExecutionAuthority` | what the engine promises about an execution | abstract specification |
| `Node` | coordinator and worker processes around the engine | composition |
| `MCNode` | instances of `Node` | inputs |
| `DurableRegister` | what `PersistentStore` promises its callers | abstract specification |
| `FileStore` | `PersistentStore::save`, file call by file call | state machine |
| `Durability` | the RESULT handler and the start of a coordinator with `--persist`, over `FileStore` | composition |
| `Recovery`, `MCRecovery` | `save`, `load` and restart around the whole engine, over `DurableRegister` | composition, inputs |
| `Codec` | reader, writer and the field orders of all messages | operators |
| `Link`, `MCLink` | `send_frame` and `recv_frame` on one direction of a connection | state machine, inputs |
| `CoordinatorProofs` | type correctness and the engine's safety invariants; it implements `ExecutionAuthority` | proofs |
| `AdmissionProofs` | ranking, one live plan, the count of slots | proofs |
| `NodeProofs` | the processes implement the engine; promises are fulfilled once | proofs |
| `LossProofs` | a lost worker has no live plan; a client that waits is being served | proofs |
| `AnswerProofs` | clients are told the truth | proofs |
| `DurabilityProofs` | save is atomic and implements `DurableRegister`; what one writer saved is never lost | proofs |
| `RecoveryProofs` | the engine's invariants across restarts; no authority crosses one | proofs |
| `LinkProofs` | frames that do not mix are read whole and in order | proofs |

### Planning and Coordinator

The variables of `Coordinator` are the fields of `RuntimeState`: `epoch`; the catalog
(`descriptors` holds datasets, regions, programs and policies, which the engine treats alike;
`operations`, `targets`, `workers`); the evidence (`runtime`, `capabilities`,
`data_evidence`); `plans` with the index `active_plans`; `reservations` (the slots and workspace
in use per target) and `results`. Two history variables do not exist in the code: `sent`, every
dispatch message `prepare_dispatch` returned, and `revoked`, the plans whose authority was
withdrawn while they were not committed.

Each public method holds `mu_` for its whole body, so it is one action. A call that fails
without changing anything is not a step; `prepare_dispatch` on a stale plan, which fails *after*
marking it SUPERSEDED, is one. `fence_worker` and `on_worker_disconnected` share
`invalidate_boot`, as their bodies do. `apply_result` takes any message ever sent, any number of
times, and any of `StrayResults`: duplicates, late results and foreign results are all inputs.
What the digest comparison says is a choice (`intact`, `corrupt`, `unknown`).

Abstractions: an id is a model value (targets and plans are numbers, because ranking and the
map order compare them); a generation is a number; data type, layout and alignment are one
`Shape`; a confidence is a number of which only the order matters; unsigned sums are taken
modulo `U64`. Names, notes, explanations and timestamps are left out. `attach_coordinator` is
left out: it stores an identity that only the report and the state file show.

### Node

Each worker process is a boot (it draws worker, boot and target ids at random when it starts, so
a restarted worker is another boot with another target). Its connection is two FIFO sequences
of frames; when the process dies, a suffix of what it sent may be lost and what it was sent is
lost. Between two critical sections (an engine call, or a block under `Node::mu`) a thread can be
preempted, so each is one step:

- a worker's connection thread: `hello`, `enlist`, one action per frame type, `result` then
  `answer`, and on end of stream `disconnect`, `detach`, `close`;
- a client's thread in CLIENT_DISPATCH: `request` (reserve), `prepare`, `lookup`, `confirm` or
  `abandon`, `await` (register the promise), `send`, on failure `report_unsent` and
  `cancel_unsent`, and `get`.

`resolve_dispatch` moves the promise out under the mutex and fulfils it after the unlock; no
other thread can reach it in between, so this is one step. A `send` succeeds while the local
socket is open even if the peer has just died, and may also fail then. Taking a frame as a unit
is justified by `Link`, while frames do not mix. `Node` models a coordinator started without
`--persist`; the state file is in `Durability` and `Recovery`. SHUTDOWN is not modelled.

Fairness: every connection thread, every client thread inside a request, and every live worker
with a dispatch to execute takes a step eventually if it stays able to (weak fairness per
thread). The operating system's scheduler justifies this: none of these threads waits for a lock
held across a blocking call. Nothing obliges a worker to start or crash or a client to ask.

### FileStore, Durability and Recovery

`FileStore` has one action per file call of `save`: create, write, flush, close, move, and
delete on the error path. All threads use one temporary name, opened with share mode 0. Each call
fails when another thread's handle is in its way, and for reasons of its own when the constant
`Faults` names it. The process may stop between any two calls; with `"power"` the machine may,
and what was not flushed is then incomplete. `DurableRegister` is the promise: the path takes, at
one instant, a value that is being saved.

`Durability` puts the RESULT handler on top (apply, save, acknowledge) and `main`'s start (load,
later epoch, or a fresh state when loading fails), with the engine reduced to its epoch and its
results. `Recovery` keeps the whole engine and takes the file as a `DurableRegister`. `FileStore`
implements that with one saving thread, or while writing, flushing and deleting do not fail, so
this is an assumption of `Recovery`. A restart withdraws every plan that did not commit, and
dispatches of earlier incarnations (`lost`) can still deliver completions. Plan ids are drawn at
random from 64 bits; the model assumes that none is drawn twice. `load` refuses a file that holds
an operation with a program (see below); the other refusal, of counts over `kMaxPersistCount`, is
modelled in `Durability` only.

### Codec and Link

A payload is a sequence of numbers, one per scalar, a string being its length and its bytes. Each
message has two field orders, translated apart from its `encode_` and its `decode_` function, so
that a disagreement would show. `Link` writes frames with calls of `::send` that take any part of
what is left (at most `MaxPartial` partial calls), from threads that share no lock, loses the
connection after some prefix (`Kept`), and reads header and payload as `recv_frame` does. The
checksum is a weighted sum over the fields the CRC-32 covers: that no mixed stream passes it is a
fact about the streams of the run, as it is likely but not certain with a CRC. Scalars have no
width and enumerations are not range-checked, as in the decoders.

Fairness: the receiver's loop takes its next step if it can (`WF(recv_frame)`), because the
thread only reads. Nothing obliges a sender to send.

## Runs

| run | module | bounds | states | question |
|---|---|---|---|---|
| `authority` | MCCoordinator | 1 target, 1 plan, 2 boots, 2 dispatches, 2 epochs, 2 dataset generations, 1 stray result | 329,736 | who may commit |
| `admission` | MCCoordinator | 1 target of one slot, 2 operations, 2 plans, 2 epochs | 383,552 | index, slots, retirement |
| `race` | MCNode | 1 worker, 2 clients, 2 operations, 2 plans, 2 dispatches | 37,316 | promises, progress |
| `restart` | MCNode | 2 workers (one withholds results), 1 operation, 2 plans, 2 clients | 347,744 | truth of answers, lost dispatches |
| `file_race` | FileStore | 3 threads, 3 values; opening and moving may fail, power may fail | 22,096 | is save atomic |
| `results_saved` | Durability | 1 connection, 3 plans, 3 starts; every call may fail | 15,516 | what survives |
| `recovery` | MCRecovery | 1 target, 2 plans, 1 dispatch id, 2 epochs, 1 save at a time | 370,596 | authority across restarts |
| `wire` | MCLink | 2 threads, 2 messages, 2 partial sends, strings and lists up to 2 | 255,174 | what arrives |
| `wait` | MCNode | as `race` | | every wait ends: violated |
| `stale_commit` | MCAudit | 1 target, 1 plan | | violated, see below |
| `results_race` | Durability | 2 connections, 2 plans, no fault but a crash | | violated, see below |
| `program` | MCRecovery | 1 plan, 2 operations | | violated, see below |

Why the bounds suffice. The authority properties speak of one plan and the messages about it, so
one plan with two of everything that can change under it (boot, dispatch id, epoch, dataset
generation) contains every stale/current pair. The slot counter needs two plans that compete for
one slot. A promise can be answered by three threads, and one worker with two clients contains
them all; a second worker adds a boot that is not the one that died. `MaxEpoch` and the finite
sets of ids are the only bounds on counters.
Three savers contain a writer, one that overtakes it and one whose temporary file is taken away.
Two plans and one recovered file contain a plan that is in the file and one that is lost with the
memory. Two partial sends let each of two frames be cut by the other; `Kept` cuts inside a header,
at its end and inside a payload. `wire` sends each of the nineteen frame types, with empty,
one-element and two-element strings and lists, before a heartbeat; two DISPATCH frames from two
threads; and a payload over the limit.

What the passing runs show:

- `ResultMatchesPlan`: a plan has at most one recorded result, and is COMMITTED exactly when
  that result is a committed one, although completions are duplicated and reordered.
- `CommitsWereHandedOut`, `DispatchCarriesPinnedAuthority`: a committed result repeats the last
  hand-out of its plan, and a hand-out carries the pinned authority although
  `prepare_dispatch` fills it from current state.
- `RevokedNeverCommits`, `LivePlansAreOfThisEpoch`, `ExecutionMovesForward`: withdrawal is
  final, an epoch leaves no older live plan, no retry revives an execution.
- `ActsAsAuthority`: the engine implements `ExecutionAuthority`.
- `IndexedPlansAreOpen`, `OneLivePlanUnlessCancelled`: the index names no plan of another operation
  and none that committed, failed, was cancelled or fenced, and an operation has one live plan unless
  one of its plans was cancelled. A stale `prepare_dispatch` leaves a SUPERSEDED plan indexed until
  the next rebuild, and planning of that operation is refused meanwhile.
- `RetiredTargetIsIdle`: no plan on a target that `retire_target` retired can execute or complete.
  `reserve` does not test for RETIRED, so this rests on fencing every plan, also one the index has
  lost, and on the planner's filter. A heartbeat in which the worker itself reports RETIRED (an
  input of `admission`) fences nothing; `dynamic_current` tells the two apart.
- `NoPhantomSlots`, `SlotsAreHeld`: no more slots are counted than plans took without committing or
  being cancelled, and no fewer than such plans hold, but for those that cancelling unreserved
  plans gave back. An epoch turns CANCELLED into SUPERSEDED, so the second half asks nothing of
  superseded plans and counts an unreserved one as a possible cancellation. Both also hold with
  three plans (8,941,280 states without the RETIRED heartbeat), too large to be a run.
- `FulfilledOnce`, `PendingIsResolved`, `InFlightSettles`: no promise is fulfilled twice; one
  registered while its worker is listed is fulfilled; no plan stays in flight.
- `AnswersAreTrue`, `LostWorkerHasNoLivePlan`: a client is told "committed" exactly when the
  coordinator committed that dispatch, and one told of a disconnect or a failed send never has
  its dispatch committed afterwards; once the disconnect is handled, no plan of that worker can
  execute.
- `WaitIsServed`: a client that waits without an answer has its promise on file; its dispatch, the
  result or the answer is under way as long as its worker lives and does not withhold results; and
  while its worker is listed, the thread of the connection has `resolve_disconnect` still to do.
  So the wait that never ends (run `wait`) needs a worker that died and is not listed any more, or
  one that withholds its results.

- `PathIsWhole`, `HandleDiscipline`, `ActsAsRegister`: while writing, flushing and deleting
  succeed, the path holds a whole flushed envelope or nothing, and racing saves act as an atomic
  register.
- `SavedResultsSurvive`, `RecoveryAdvancesEpoch`: with one saving connection a result whose save
  returned success is never lost; the start after a saved incarnation has a later epoch.
- `NoAuthorityCrossesRestart`, `FileIsRemembered`, and the engine's `ResultMatchesPlan` and
  `LivePlansAreOfThisEpoch` in every incarnation.
- `ReceivedWereSent`, `ArriveInOrder`, `OnlyMixingBreaks`, `SentArrives`: a handled message equals
  one that was sent and none is handled twice; while no frames mixed, messages are handled in the
  order of sending with none left out; a frame is refused only after frames mixed; a message
  reported as sent is handled unless the connection ends or frames mixed.

`race`, `restart`, `results_saved` and `wire` do not check deadlock: clients may ask nothing more,
the starts are bounded, and a connection ends.

### Statements the code does not keep

| run | statement | behaviour |
|---|---|---|
| `wait` | "no timeout: resolved by result or worker disconnect" (`apps/nmc_coordinator.cpp:232`) | the disconnect is handled between `confirm_dispatched` and the registration of the promise, the send succeeds, the client waits for ever |
| `stale_commit` | "match the current authoritative generation set or be rejected BEFORE mutation" (`authority.hpp:3`) | `apply_result` compares the dataset generation with the plan's pin only, and staleness is not tested again in `confirm_dispatched` |
| `results_race` | "Durability: the previously committed result survives restart." (`tests/test_distributed.cpp:209`) | the second of two racing saves cannot open the temporary file; the handler ignores the error and acknowledges the commit |
| `program` | "committed result survives" (`tests/test_persist.cpp:88`) | `decode_state` reads the description of an operation before its program, `encode_state` writes it after; the file is refused and the process starts empty |

Other statements that fail on the model have no run of their own. Where a property above has an
exception, this is it:

| statement | behaviour | stated as |
|---|---|---|
| "Re-publishing must not make a retired target eligible again" (`tests/test_property.cpp:165`) | a second registration rewrites RETIRED to REGISTERED, and a disconnect, a fence or a new epoch to REVALIDATION_REQUIRED; the next heartbeat makes the target READY | no property; `RetiredTargetIsIdle` holds until RETIRED is rewritten |
| "one active plan per operation (hot-path index)" (`coordinator.hpp:61`) | cancelling an OUTCOME_UNKNOWN plan unindexes a newer one | exception of `OneLivePlanUnlessCancelled` |
| "capacity exhausted -> no overcommit" (`tests/test_concurrency.cpp:118`) | cancelling a PLANNED plan frees a slot another plan holds | exception of `SlotsAreHeld` |
| "invariant_reservation_accounting_closes_exactly" (`tests/test_property.cpp:132`) | fencing a reserved plan never releases its slot | such plans count as holders in `NoPhantomSlots` and `SlotsAreHeld` |
| "fail before dispatch if any hard authority component changed" (`plan.hpp:3`) | staleness is tested in `prepare_dispatch`, not in `confirm_dispatched` | the same gap as `stale_commit` |
| "begin_drain blocks new admission" (`README.md:175`) | a heartbeat overwrites DRAINING | no property |
| "Recovery advances the coordinator epoch" (`README.md`, Persistence) | two restarts with no save in between recover the same epoch | exception of `RecoveryAdvancesEpoch` |
| "Atomic save" (`persistence.hpp`) | a failed write of one thread leaves a truncated temporary file that another thread moves over the path; a file that could not be deleted after a failed save may be moved there by another thread too | assumption `Tame` of the theorems |

Two more limits of what was checked: an older copy of the state can be moved over a newer file
when two connections save, and a file with more plans than `kMaxPersistCount` is refused. Both lose
saved results and are outside the assumptions of `SavedIsDurable`.

## Proofs

The theorems hold for every value of the constants that satisfies the named assumptions, which TLC
evaluates on the runs:

- of the engine: `CostConstants`, `InputTypes`, `IdTypes`, `PlanIdWidth` and `TargetIdWidth` (an id
  fits its integer type), `NoneIsNoEntry` (a null pointer is no entry);
- of the processes: `PublishedTypes` (a worker publishes well-typed messages about itself under its
  own boot), `OwnTarget` (each worker process draws a target id of its own,
  `apps/nmc_worker.cpp:57`), `NoneIsNoAnswer`;
- of the store: `FaultKinds`, `NoneIsNothing`, `Bounds`;
- of the connection: `TrafficTypes` (a message has a frame type of the table and encodes to
  numbers).

- `CoordinatorProofs`. `TypeOK` is not inductive alone: `reserve` and `prepare_dispatch` look up
  the plan's operation, so `TypeInv` adds that every plan names an existing operation.
  `TypeCorrect` follows. `PlansStep` then says what one step may do to a plan (its pinned authority
  never changes and its lifecycle follows the allowed moves), which gives `OnlyForward`.
  `SafetyInv` is `TypeInv` with the six safety invariants and two strengthenings: `ResultsSettled`
  (a plan with a recorded result is closed, which is why a second completion is refused) and
  `HandedOut` (the dispatch id a plan carries is that of a message in `sent` with the plan's
  authority, which is why only handed-out executions commit). By `PlansStep` each invariant is at
  risk only from the one or two actions that add something it speaks of. Theorems:
  `WithdrawalIsFinal`, `ResultsAgreeWithPlans`, `DispatchIsPinned`, `OnlyHandedOutCommits`,
  `EpochFencesPlans`, `IndexIsOpen`. `RetirementEndsWork`: `RetiredTargetIsIdle` is inductive with
  `TypeInv`, because only `retire_target` leads to RETIRED without current evidence
  (`OnlyRetireRetires`), and a new plan is placed on a target with current evidence
  (`NewPlanPinned`). `CoordinatorImplementsAuthority`: a call that records a completion decides its
  plan, `plan` opens one, a fresh `prepare_dispatch` grants it, and every other step withdraws the
  plans that stop being live.
- `AdmissionProofs`. `RankingIsATotalOrder`, `FrontIsUnique`, `FrontSurvivesFiltering`, for
  candidates with different targets and confidences that are numbers. A NaN confidence, which the
  decoder lets through, is outside the theorem. `SelectionIsDetermined`: in every reachable state
  exactly one of the targets that pass the filter for an operation is in front, if any passes.
  `OneLivePlan`: `LivePlanInv` adds `LiveIsBlocked`, that the index entry of an operation with a
  live plan is taken or one of its plans was cancelled. The entry need not name the live plan, since
  a rebuild prefers the largest open id; that there is a largest one uses `PlanIdWidth`.
  `NoSlotIsPhantom` and `SlotsStayHeld` compare the slot counter with cardinalities of sets of
  plans. A step changes the lifecycle of many plans at once but takes or gives back at most one
  slot, so the proofs bound how far each of those sets can move in one step.
- `NodeProofs`. `NodeInv` strengthens `NodeTypeOK` with: every RESULT frame and every message on the
  way to a worker repeats one in `sent`; a client past `prepare` holds a message with its own
  dispatch id; dispatch ids are not shared, and nothing is filed under one before its client
  registers it. `NodeImplementsCoordinator` (`NodeSpec => Spec`) shows that each step of the
  processes is an engine action or a stutter, so the engine's theorems carry over (`NoLateCommit` is
  one instance, `NodeImplementsAuthority` another). `PromisesFulfilledOnce` and `NodeTypeCorrect`
  use the same invariant.
- `LossProofs`, on top of both invariants. `LostWorkerIsOut` needs `LossInv`: a target is published
  and pinned only under the boot that owns it (`TargetsAreOwned`), a boot says HELLO before anything
  else (`HelloIsFirst`), and one whose disconnect was handled says nothing more and its target stays
  out of date (`GoneIsSilent`); otherwise a plan could be made on it afterwards. `WaitersAreServed`
  is the safe part of the liveness properties: at every moment somebody who can take a step holds
  what the client waits for. `WaitInv` adds to `WaitIsServed` that a listed worker has said HELLO
  and its thread has not yet resolved its promises (`ListedAreAttended`), that a worker a client has
  found was started and one it could not send to is dead (`WorkersAreStarted`), and that the promise
  of a client from `await` on is on file or fulfilled (`PromisesAreFiled`). A dispatch is then
  followed through the queue to the worker, the queue back and the thread's reply: each step takes
  it from one only into the next.
- `AnswerProofs`. `ClientsAreToldTheTruth` needs `AnswerInv`, which follows an answer from its cause
  to the client: a dispatch id is handed out once (`DispatchedOnce`), a RESULT in the stream belongs
  to a dispatch posted on that connection (`FramesArePosted`), a client that sends has confirmed its
  plan (`ClientsConfirm`), and what a connection thread is about to answer and what a promise holds
  are settled and agree with the recorded results (`RepliesAreTrue`, `PromisesAreTrue`).

- `DurabilityProofs`. Under `Tame` (one thread saves, or any number while writing, flushing and
  deleting do not fail): `HandlesAreDisciplined`, `SaveIsAtomic` and `StoreImplementsRegister`.
  `StoreInv` is `PathIsWhole` with `HandleDiscipline`, which says why a closed temporary file that
  anybody may move is whole. `CoordinatorDrivesStore`: the process only makes the file calls of
  `FileStore`, so these results hold of it. `RestartAdvancesEpoch`: `EpochInv` adds that a copy
  carries the epoch of the incarnation that took it, and so does the file once that incarnation has
  saved. `SavedIsDurable`, for one writer, results that fit one file, and any failed call:
  `DurableInv` says that file, copy and memory each contain all that was saved.
- `RecoveryProofs`. `RecoveryInv` is `SafetyInv` with: what earlier incarnations handed out concerns
  plans that are unknown or closed now (`LostIsClosed`), and the file and every copy on its way to
  it satisfy the invariants a state needs to be loaded (`Image`) and are remembered by the running
  incarnation (`Kept`). Theorems: `RestartFencesWorkers`, `LoadForgetsNothing`,
  `ResultsAgreeAfterRestart`, `EpochFencesRestart`.
- `LinkProofs`. `FramesStayWhole` (`OnlyMixingBreaks`) and `MessagesArriveInOrder`
  (`ArriveInOrder`). `FramingInv` says that, while no frames mixed, there is a place for every frame
  relative to what is read next (`cut`): what is left in the stream agrees with the frames at their
  places, the unfinished frame included, the stream ends where the writer is unless the connection
  was lost, and the receiver stands at the start of a frame, or behind the header of that frame. The
  second theorem has the hypothesis `RoundTrips`, that each decoder undoes its encoder on the
  traffic; TLC evaluates it for the messages of `wire`.

Model-checked only: `ReceivedWereSent`, because after frames mixed it rests on the checksum of the
streams that occur; `RoundTrips`, because encoding and decoding are defined by recursion over
field lists, and what a recursive definition computes is out of the prover's reach; and the
liveness properties `PendingIsResolved`, `InFlightSettles` and `SentArrives`, which need fairness
(`WaitersAreServed` proves the invariant behind the first).

## Not modelled

- The field orders of the state file, apart from the one that disagrees: the others agree. A list,
  or the notes of a plan, with more than 64 entries would be read out of step.
- SHUTDOWN: it clears a flag that the main thread reads between two accepts; nothing else depends
  on it. Listening, accepting and connecting, and reuse of a closed socket handle by another
  socket, are the operating system's.
- CRC-32 itself, and integer widths on the wire.
- The decision that is reported when no plan is made, and what wrapped cost or workspace sums
  should mean: the operators wrap, and the repository states nothing about it.
- The memory-domain generation, which is pinned and never compared; planning again after a stale
  prepare, which depends on what the client does next.
- Backends, digest, discovery, command line, benchmark and examples. They hold no state the control
  plane depends on; a backend's effect is the outcome `apply_result` takes.
