# Verification of gate4agent

TLA+ specifications of the session runtime of gate4agent, model-checked with
TLC on small instances, with theorems proved by TLAPS for every value of the
constants. `PROJECT.json` is the index: which definition models which lines,
what each run checks, how each property was seen to fail on a mutated
definition, what was found, and which hazards of the code are covered.

    tlc -workers 2 -config MCToolEngine_core.cfg MCToolEngine
    tlc -workers 2 -config MCSessionEngine_lifecycle.cfg MCSessionEngine
    tlc -workers 2 -config DurableState.cfg DurableState
    tlapm ToolEngineProofs.tla           (and the other modules *Proofs)

## 1. The system

gate4agent drives command-line coding agents. The root crate (`src/src`) is the
transport core: it spawns a provider and talks to it over a PTY, pipes or ACP.
On top of it `src/crates` holds the session runtime that a node embeds. That
runtime is built around two pure, single-writer reducers, and everything that
can block or fail is pushed to the edge:

    clients, operators                         providers of capabilities
          |  bounded ingress                            ^   |
          v                                             |   v
       handle  ------------------------------->  kernel (one step at a time)
          ^   published snapshots, outcomes       |                 |
          |                                 control engine     tool engine
          |                                 commands in,       requests in,
          |                                 effects out        effects and
          |                                      |             completions out
          +------- native runtime: workers <-----+
                   answers and exits come back as observations

### Inventory

| Part | State it keeps | Operations | What is hard about it |
|---|---|---|---|
| **Tool engine** (`gate4agent-tool-engine`) | request table, grants per policy key, live generation and state of each instance, registered providers, queues of effects and completions, five counters | register/detach provider, set generation, set instance state, remove instance, advance time, set/revoke grant, close client, resolve approval, request, apply observation, two drains | authority withdrawn while an Invoke is queued; late, repeated and stale answers; full queues and tables; counters that run out |
| **Control engine** (`gate4agent-engine`) | per instance: status, generation, the pending operation, terminal, foreground, probe, history, resume, policy, provider snapshot; generation watermarks; operation ids; the effect queue | 16 commands; observations of spawn, stop, input, resize, settings, foreground, interactions, probes, history, resume, exits, frames, provider events and gaps | every answer can be late; exits come at any time; stop supersedes; a resolution races the provider's own progress; identities outlive sessions |
| **Kernel** (`gate4agent-kernel`) | both engines, provider bindings and their sequence, logical tick, lanes | `step_control_plane`: ingress, then observations, then the drains | phase order; what one phase may still invalidate of another; one bad effect fails a batch; a sequence that runs out |
| **Handle** (`gate4agent-handle`) | clients and their lifecycles, published bindings, the registry of provider runtimes and the state of each | dispatch, open/close client, authority commands, bind, quiesce, complete, close, publish step | stale published bindings; retry of a close; outcomes, effects and completions that must be published in order |
| **Native runtime** (`gate4agent-runtime-native`) | one worker and bounded queue per instance, a capability and a history lane, pending failures, provider supervisors | dispatch, tick, worker loop, install/retire providers | a failure overtakes queued work; an idle worker leaves |
| **Provider supervisor** (`shell-native/src/provider_supervisor.rs`) | the operations it owns, tombstones of cancellations to come, submissions without receipt, exit acknowledgements, faults, retirement | tick, begin retirement, drains | a process outlives its request, its binding or its cancellation; a fault of one operation stops the others; shutdown must end |
| **Native shell** (`gate4agent-shell-native`) | processes and terminals | one function per effect, four collections per round | process supervision |
| **Node-core durable state** (`session_registry.rs`) | a primary file, a backup, a pending backup | load with recovery, atomic write with rotation | a crash between two renames; a sync that fails; a copy that must not be overridden |
| **Bidi relay** | two slots per session, bounded channels, pending frames | open, connect, forward | both directions full at once |
| **ACP / RPC** (`src/src/acp`, `src/src/rpc`) | pending request registry, gate and host policy | call, notify, read loop, shutdown | timeouts against late answers |
| **Node protocol, wire, catalog, adapters, wake, pty** | little or none | encoding, parsing, tables, I/O | not a matter of state |

The components interact by value: commands and observations go in, effects and
completions come out, and nothing is shared except the published snapshots.
An effect carries the operation id and the generation it was issued for, and
the observation that answers it carries them back; correlation by these two
numbers is what keeps every late answer harmless. Most of the properties are
about exactly that.

What makes each part correct:

* tool engine: nothing is invoked without authority that is in force at that
  moment; every accepted request is settled exactly once and its client is told
  the truth about cancellation; limits hold; every request ends;
* control engine: no pending operation is orphaned; no process is; no
  generation number is used twice; nothing goes to a session that is over;
  interactions are settled once, and only what the policy admits is shown;
* kernel and handle: the composition keeps what the tool engine promises, in
  spite of the phases and the queues between them: a request runs where it was
  sent, no effect is lost with its batch, a close is the last word;
* provider supervisor: no process is let go before it has ended, each exit is
  told once and with its cause, and a retirement ends;
* native runtime: every effect is answered;
* durable state: an acknowledged save survives any crash; anything else a load
  returns was saved by this node;
* relay: what one side sends is copied to the other.

## 2. Modules

| Module | Models | Used by |
|---|---|---|
| `ToolEngine` | `gate4agent-tool-engine/src/engine.rs`, data of `tool-protocol` | `MCToolEngine`, `ToolEngineProofs`, `ControlPlane` |
| `ToolEngineProofs` | theorems about `ToolEngine`: authority, deadlines, types | `ToolEngineHistoryProofs` |
| `ToolEngineHistoryProofs` | theorems about what `ToolEngine` has handed out over time | `ControlPlaneProofs` |
| `ProviderReducer` | `reduce_provider_event` and its helpers, admission by policy: pure operators on a provider snapshot | `SessionEngine`, `ProviderReducerProofs` |
| `ProviderReducerProofs` | lemmas about those operators | `SessionEngineProofs` |
| `SessionEngine` | `gate4agent-engine/src/lib.rs`, and the host as the engine sees it | `MCSessionEngine`, `SessionEngineProofs` |
| `SessionEngineProofs` | theorems about `SessionEngine` | |
| `ControlPlane` | the kernel's step, the handle and the provider runtimes around the whole of `ToolEngine` | `MCControlPlane`, `ControlPlaneProofs` |
| `ControlPlaneProofs` | theorems about `ControlPlane`: capacities, clients and their closes | `ControlPlaneRegistryProofs` |
| `ControlPlaneRegistryProofs` | theorems about `ControlPlane`: the registry, the runtimes, the bindings and the effects | |
| `ProviderSupervisor` | `provider_supervisor.rs`, the binding it holds and the tick of `NativeRuntime` | `ProviderSupervisor.cfg`, `ProviderSupervisorProofs` |
| `ProviderSupervisorProofs` | theorems about `ProviderSupervisor` | |
| `EffectWorkers` | dispatcher and workers of `runtime-native`, the shell as its worker sees it | `EffectWorkers.cfg` |
| `StateRegister` | the abstract specification of durable state: one register | `DurableState` |
| `DurableState` | load, recovery and save of `session_registry.rs` | `DurableState.cfg`, `DurableStateProofs` |
| `DurableStateProofs` | theorems about `DurableState`, its refinement of `StateRegister` among them | |
| `BidiRelay` | one session of `bidi-relay` | `BidiRelay.cfg` |
| `MCToolEngine`, `MCSessionEngine`, `MCControlPlane` | the instances for TLC | the `.cfg` files |

An action is one call of the engine's interface, with every helper it calls. A
call that is rejected with an error changes nothing in the code (each engine
checks first, or works on a copy) and is a stuttering step, so the conditions of
a call are the guard of its action. An observation that is ignored still
consumes the host's answer, so those actions have no such guard: they branch.

### ToolEngine

The variables are the fields of `ToolEngine`, plus history variables that no
action of the engine reads (`delivered`, `received`, `approved`,
`grant_sequence`, `policy_sequence`). A request key is a client and the
client's own request id; keys are reused once terminal, which is why an
acceptance has a sequence number and an approval a nonce. The four ways in
which a request loses its ground (instance, client, provider, grant) and its
deadline all go through `cancel_and_close`, as they go through
`cancel_best_effort` and `close_request` in the code. Queues are sets, because
their members are distinct and the code reads only their lengths. Left out: the
audit ring, revisions, payload bytes (kept as "present" or "erased").

### ProviderReducer and SessionEngine

`ProviderReducer` gives the effect of one provider event on a snapshot:
interactions and how tool events, turns, subagents and the session's end settle
them, the lead's activity, the roster limits, cursors per source, and which
events and batches a policy admits.

`SessionEngine` has one action per command and one per observation. Operations
that the code treats alike are one action with a parameter (the three ACP
settings; completions that only clear the pending operation). The host is the
environment: `inflight` holds what was drained and not answered, `processes`
what runs, `exits` what has ended and is to be reported. A drained effect may be
answered in any order: the three lanes are independent, and in the instance's
own lane a refused effect is answered before those queued earlier (the
dispatcher reports the failure of a full queue directly). Six kinds of answer are
validated beyond their correlation (a foreground, the models of a probe, the two
of the history, an authorisation, the failure of a resolution): one that fails is
ignored and its operation stays pending (`answer_ignored`). `abandoned` remembers
the processes whose stop was reported as failed, `ignored` the operations whose
answer was ignored.

Left out: revisions and the event log, exit codes and messages, terminal size
and content, classification of the screen.

### ControlPlane

EXTENDS `ToolEngine` and takes its actions as the reductions of the kernel: a
step of the kernel thread is `BeginStep`, `FlushBinding`, `DrainIngress`, the
`Reduce` actions in the order of the channel, the two drains and then the
publications in the order of `publish_step`. Before, between and after the
publications the threads of the client, of the authority and of the provider
runtime act under the locks that the code takes (while the kernel reduces, what
they do commutes with it, and they wait); a client's dispatch is two steps, because it
reads the published binding under one lock and sends later. Provider bindings
are numbered by the sequence of their attach, as in the code. The control engine
appears as a command that stops the agent or closes the lanes. After the last
tick of the clock a step turns away all it drained (`RejectItem`), as
`blocked_step` does. History: `via` (where a request was sent), `offered`.

A close by the handle or its drop is two steps too: `request_close` cancels and
forgets the operations before it takes a lock (`BeginClose`), and sends the
detach under the locks (`CloseRuntime`). In between (`closing`) the kernel may
publish outcomes and effects to a runtime that still serves and knows nothing
any more. Of a runtime that takes no effects any more nobody sees the first part,
and its close is one step. The handle is not `Sync`, so it does nothing else meanwhile (`Free`);
its completion handles may. The retry by the kernel (`FlushBinding`) meets only
runtimes that no longer serve, and is one step. At most `MaxRuntimes` providers
are bound at a time. The model starts with its providers registered and in the
published snapshot, so a request that is sent without a binding because the
snapshot does not list its provider yet does not occur.

`RegistryAgrees` has one exception, which the code has too: once the last
provider sequence is given out, a runtime that is closed again forgets the
attach that it still has in the channel, and what the kernel then binds is
registered nowhere; the kernel retires it with the last sequence.

### ProviderSupervisor

`pc` is the one thread of `NativeRuntime::tick`: the kernel's step, its
publication to the binding, the receipts, each owned operation in turn, the
work, the end of the tick, the collection of acknowledgements. Every branch of
`tick_owned` is there (`TickPhysical` chooses the outcomes of the calls to the
executor, each of which may fail, and `TickWith` composes the signals, the poll,
the wait and the acknowledgement; `TickPending` and `TickAwaiting` are the
rest). A tick reads at most `OutcomesPerTick` receipts and does at most
`WorkPerTick` units of work; a close that finds receipts unread still resets the
count of outstanding submissions (`EndOutcomes`), and a kernel step may take any
part of the commands that are queued (`DrainIngress`). The publication takes one outcome or effect per step (`PublishOutcome`,
`PublishEffect`, then `FinishStep`), as the loops of `publish_step` do. A blocking fault fences every other operation and
quiesces the binding in the same step (`Conclude`). Beside the thread only
processes and grace periods move. The kernel is what `ControlPlane` shows of it
to one binding: an operation is invoked once and cancelled at most once, while
it is open; it may also close its lane or run out of sequence numbers. History:
`accused`, `overflowed`, `unread`, `told`. Left out: the bounded queue of faults, exit
codes, snapshots, and `Drop`, which stops what is left without waiting.

### EffectWorkers

A lane is a worker task with its bounded receiver. The worker's `select` is a
choice among its arms; between the poll of its shell and the end of the round it
awaits room in the observation channel, and a dispatch may come meanwhile. What
the shell keeps is the set of sessions, because that decides whether a worker is
idle.

### DurableState and StateRegister

Each file operation of `save` is a step that may fail, and between any two the
process or the machine may stop. Reads fail too: a save that cannot read the
primary takes it for damaged and moves it to a corrupt file (`Begin`, second
branch), and a load that cannot read a file passes over it as over a damaged one
(`Open`, `Seen`). Only the existence tests (`Path::exists`) always tell the
truth. `dir` is what a process sees, `onDisk` the set
of directories a power loss may leave: those since the last successful sync. A
content is the number of its save, or damaged, or foreign (a newer schema or
another node's state, which must not be overridden). `StateRegister` is the
promise: a value, the values a crash may leave, and what a save, its success, its
failure, a crash and a damage may do to them. A save that could not read what it
replaces is in doubt about it, and only such a save may set the value aside for an
older one (`SetAside`). The refinement mapping computes
both from the files (what `load` would return, and what it would return from
each of the directories in `onDisk`).

Four history variables serve the properties: the last acknowledged generation
(`acked`), the last one that a later acknowledged save kept as its copy
(`acked2`; the predecessor of `acked`, unless a save set that one aside, `aside`),
and the files in which foreign state may have been passed over (`passed`): the
primary by a save that could not read it, the copies by a load that found the
node's own state first or could not read a file. A generation is the number of a
save, not its content: a process that loaded an older one because it could not
read a file continues from that, which no file shows.

### BidiRelay

One pump per role: it reads a frame and forwards it, or receives one and writes
it, and waits inside either. Frames for a role without a connection are kept
(`pending`, the latest). The sender a forward has taken may belong to a
connection that was replaced meanwhile (`via`).

## 3. Runs

| Run | Instance | Shows |
|---|---|---|
| `tool_core` | one key reused, one provider, generations {1,2}, 2 ticks, 2 authority commands, u64 limit 3, fair clock and drain | no Invoke or open request outlives its authority or deadline; operations are invoked once; dispositions of closed requests are true; approvals bind to one acceptance; repeated or overtaken authority commands bring no grant back; terminal requests are final; a client, an instance or a provider that goes away leaves no open request, no grant and no queued Invoke behind (that it closes nobody else's is proved for any number of them); every accepted request is answered or counted as dropped |
| `tool_clients` | two clients of two consumers, two ids each, table of 2, completion queue of 1, 2 ticks | exactly-once accounting under eviction and drops; a Cancel always finds room |
| `session_lifecycle` | three PTY instances, one registered at a time, two identities remembered, generations 0..2, four operations, two frames, any answer that is validated may be invalid | pending operations owed unless their answer was ignored, a start and a stop always, no orphaned process, nothing queued for a session that is over, the code's `expect`s, foreground trust, unique generations, no rewinding |
| `session_interactions` | one ACP session, a question of the lead and one of a subagent, roster of 2, three events | resolutions race the provider, stop, interrupt and exit; outcomes are told once and none is left open |
| `session_live` | one PTY or ACP session, two policies, fair host | accepted operations end unless their answer was ignored as invalid, a start and a stop always; no mixture of events gets past a policy |
| `control_plane` | one client, one key, one provider, channel of 2, one runtime at a time with a work queue of 1, sequence limit 4, one control command | a request runs in the runtime it was sent to or nowhere; every drained effect has its binding and finds its operation known unless its runtime is being closed; nothing follows a close, and it is told last; registry and kernel agree between steps |
| `provider_supervisor` | two operations, queues of 2, one receipt and one unit of work per tick, one buffered acknowledgement, one attempt per signal, one error anywhere, fair ticks | see the properties of the module: `ProcessesHeld`, `ExitsReported`, `NoFalseAccusation`, `RetirementCompletes` |
| `durable_saves` | five saves over an empty or a damaged directory or one with foreign state before or beside the node's own, three failing operations (reads included), three stops, two damages | `DurableState` implements `StateRegister`; a damaged primary costs at most the last generation; foreign state is touched only where a load or a save passed over it |
| `session_probe_lost` | one PTY session | finding 1 |
| `session_lead_waits` | one ACP session, two questions of one subagent | finding 2 |
| `native_workers` | one instance, queues of 1, two effects | finding 3 |
| `relay` | channels of 2, three frames each way, two connections each, fair pumps | finding 4 |

**Bounds.** Counters are capped by the constants that stand for their integer
limits, so that exhaustion is explored and not merely cut off: with
`MaxOperation = 4` the fifth command is refused exactly as the code refuses it
at `u64::MAX`. Two generations above the first registration cover a restart and
a resume after which answers of two earlier generations are under way; three
instances with two remembered identities and one registration at a time are the
least that separate the two registry limits. A roster of two and three events
let a third question evict a pending, a resolving or a resolved one (the lead's
questions name no request, so that none supersedes another). A
completion queue of one is full after the first request; three acceptances over
a table of two force an eviction and put three effects into the queue. In the
control plane a sequence limit of four is a bind, a work's end, a close and a
second bind, after which it runs out. In the supervisor one receipt per tick
leaves the second of two unread, also when the binding closes, and one operation
can fault while the other is in any of its states. Four things take more than this
run has, and there the theorems, which have no bounds, are the evidence: a
mismatch recorded after such a close (three operations; seen in a larger
instance), an invocation beyond the capacity, a submission that meets the limit
`MaySubmit`, and a retry of a signal below its limit. Both acknowledgements find
room in the two buffers, so the liveness of an operation held back by full ones
is not exercised. Deadlock is not
checked: all commands may be refused for good once the counters are used up.
Symmetry is used for request ids and for instances, which the code never
compares, and only in runs without liveness.

**Fairness.** `ToolEngine!FairSpec` assumes weak fairness of the clock and of
the drain of completions: `step_control_plane` advances the one at its start and
performs the other at its end, every time. Nothing is assumed of providers,
clients or operators. `SessionEngine!FairSpec` assumes that the queue is drained
(the same step) and that the host goes on answering what it has drained; each
effect has an answer in `shell-native`, failures included. Operators, providers
and processes owe nothing. As operation ids are bounded, an answer to *some*
effect again and again is an answer to each. That the host answers is exactly
what finding 3 denies in one interleaving.

`ProviderSupervisor!FairSpec` assumes that the runtime goes on ticking (its
owner "must keep calling" tick, says `retire_all_native_providers`), that grace
periods end, that a process which was forced to stop successfully does end, and
that the owner reads acknowledgements again and again. Ticking is stated as
visiting the begin and the end of a tick infinitely often, which is what weak
fairness of a thread that is never blocked comes to. Processes that were only
asked owe nothing. `BidiRelay!FairSpec` has weak fairness of each pump's waiting
steps and strong fairness of its receiving arm, because `select` picks among
ready arms at random.

## 4. Findings

1. **A queued probe is dropped by an exit** (`session_probe_lost`,
   `gate4agent-engine/src/lib.rs:1145`). `ProcessExited` removes every queued
   effect of its generation, a capability probe among them, and leaves the
   probe pending. Later probes and `remove` are then refused for good, although
   the comment on `purge_generation_bound_history` calls capability discovery
   host-scoped and valid across generations. It takes a probe and an exit in
   one step, before the drain.
2. **The lead is left waiting** (`session_lead_waits`, `lib.rs:3403`). Two
   questions of one subagent, settled by tool events in the order they were
   asked: the second remembers "waiting for input" as what the lead was doing
   and restores it with nothing left to answer.

3. **An idle worker takes a request with it** (`native_workers`,
   `runtime-native/src/lib.rs:2515`). The idle test comes after the publication
   of a poll round, which awaits room in the observation channel, and does not
   look at the queue again. A request that was sent meanwhile is dropped with
   the receiver: nobody answers, and the session waits.
4. **Both pumps wait for each other** (`relay`, `bidi-relay/src/lib.rs:228`).
   A pump awaits room in the other's channel inside the arm that read the frame
   and does not empty its own meanwhile. With both channels full neither moves
   again, and a closed socket is not noticed.

Observations that no statement of the repository contradicts:

* an operation whose answer is correlated and not valid stays pending although
  no other answer will come (`gate4agent-engine/src/lib.rs:342`, `470`, `540`,
  `675`, `738`; a test, `invalid_history_result_cannot_clear_the_correlated_operation`,
  asks for it), and so does a resume whose history candidate is unloaded while it
  is being authorised (`lib.rs:600`). `OperationOwed` and `OperationSettles`
  exempt exactly the operations whose answer was ignored, and no start and no
  stop. A running session can still be stopped; one that waits for an
  authorisation can be neither started, stopped nor removed;
* a resume does not purge the history work that a start purges (`lib.rs:653`);
* a save whose last directory sync fails returns an error although the new state
  is in place (`StateRegister!Fail` allows both);
* when the primary is the only file, is damaged, and a crash follows its rename
  to `.corrupt`, the next load finds nothing and starts empty without an error;
* a healthy primary that cannot be read is set aside by the next save
  (`session_registry.rs:1942`); a stop before the commit loads an older
  generation, and the one set aside stays in a corrupt file that no load reads
  (`StateRegister!SetAside`, `aside`);
* a foreign copy behind the node's own primary is neither noticed nor kept: the
  next saves rotate it and delete it (`session_registry.rs:2155`, `2236`;
  `ForeignStateUntouched` exempts it as `passed`);
* a pending backup left by an earlier save is rotated into the backup without
  being validated (`session_registry.rs:2155`); the model damages only the
  primary, the one file that is replaced under a live name;
* the detach of a closing runtime is retried once per step before the channel is
  drained, so clients that keep the channel full can starve it
  (`provider_runtime.rs:580`), and no fairness that the code justifies decides
  that;
* a Cancel that is published after `request_close` forgot the operations and
  before it holds the locks finds its operation unknown and faults the runtime
  (`provider_runtime.rs:1044`, `1064`, `797`). The runtime is about to close, so
  what changes is how: it waits for the retry, with the detach not yet sent, and
  `EffectsDeliverable` exempts it (`closing`). An Invoke published there leaves an
  operation whose own token is not cancelled, in a runtime whose token is;
* a supervisor reads at most 64 receipts per tick; a configuration that reduces
  more commands per step can leave some unread when the runtime closes, the count
  of outstanding ones is reset all the same, and they are then recorded as
  mismatches (`provider_supervisor.rs:455`, `513`; `NoFalseAccusation` exempts
  this as `unread`);
* temporary, corrupt and preserved files are never cleaned up;
* a relayed frame that was taken for a connection which is replaced before the
  frame is sent is lost (`FramesCopied` does not ask for it);
* an invocation beyond the supervisor's capacity leaves no tombstone, so its
  cancellation is reported as unknown, and so is one whose tombstone found no
  room (`NoFalseAccusation` exempts both, and no other cancellation);
* results that are pending when a retirement or a fault begins are dropped, by
  intent; the request is closed by the engine;
* the patch of an acknowledgement's cause in `handle_cancellation` never
  applies: an operation that was signalled is not acknowledged without a cause,
  and one that was not gets none after its exit;
* a shutdown depends on its owner to drain acknowledgements once 1,024 are
  buffered in the supervisor and in the runtime, and does not end when a process
  survives three failing forced stops or the kernel's lanes have closed
  (`RetirementCompletes` names the last two).

## 5. Proofs

TLC checks the instances of section 3; the theorems hold for every value of the
constants that satisfies the named assumptions. Each proof module has one
inductive invariant (two for the tool engine, three in layers for the control
plane), which TLC checked on the
instances before it was proved; the theorems are consequences of it.

### ToolEngineProofs and ToolEngineHistoryProofs

Assumptions: `FiniteAssumption` and `BoundsAssumption` (finite sets, natural
limits, no relation between the limits).

| Theorem | States |
|---|---|
| `TypeCorrect` | `TypeOK`; no counter passes its limit |
| `NoStaleInvoke` | `InvokeAuthorized` |
| `OpenRequestsAuthorized` | `ActiveAuthorized` |
| `OpenRequestsInTime` | `DeadlineAhead`: the deadline checks of `resolve_approval` and `apply_observation` are dead code |
| `PayloadOnlyWhileWaiting` | `PayloadRetained` |
| `TerminalFinal` | `TerminalIsFinal`, an action property |
| `NoRepeatedInvoke` | `InvokedOnce` |
| `CancelTellsTheTruth` | `CancelFollowsInvoke` |
| `ApprovedBeforeInvoked` | `ApprovalBinds` |
| `SettledExactlyOnce` | `SettledOnce` |
| `RoomForEveryCancel` | `CancelNeverLostToFullQueue` |
| `LastWordOfAuthority` | `AuthorityLastWord` |
| `ClosureComplete` | `ClosureIsComplete`, an action property |

The argument. `InvokeAuthorized` is not inductive: that a queued Invoke's grant
is in force says nothing about why the next step may not withdraw it. The
inductive invariant `IndInv` adds

* `InvokeMatches`: a queued Invoke is *the* Invoke of the dispatched request
  under its key, so closing the request finds it;
* `OperationsBelow` and `NotYetDelivered`: operation ids are fresh and a queued
  Invoke was not handed out, so that removing it by its operation removes the
  right one and leaves none behind;
* `GrantsCurrent`: a grant names a registered provider and the live generation
  of an active instance, so that whatever passes `evaluate_policy` is supported;
* `ActiveAuthorized`, `DeadlineAhead`, `PayloadRetained` and the types.

All closings share one lemma: if a step closes at least the open requests that
lose their support, the survivors keep theirs (`ClosingPreserves`, `CloseFacts`,
`Survivors`). Each action then only shows which requests it closes.
`TerminalFinal` needs one more invariant, `AcceptedInOrder`: sequence numbers of
acceptances lie below the counter, so that a reuse of a key is seen to be later.

For the past, `StepForms` first shows that every step settles a set of open
requests, dispatches an approved one, accepts a new one or empties a queue; the
second invariant, `HistoryInv`, is then proved form by form. It adds that a
stored operation belongs to one request (`OperationsDistinct`), that what is
dispatched has left or is queued (`DispatchedInvoked`), that an open request was
never closed (`OpenIsFresh`), and `RoomForCancels`: the queued Cancels and the
requests in flight together are no more than the request table holds. The last
is why no Cancel is lost, and it is not obvious: one drain may put every request
in flight, but it leaves the queue empty. The action properties need no more
than the forms.

### SessionEngineProofs, on ProviderReducerProofs

Assumptions: `EngineAssumption`, `PolicyAssumption`, `ReducerAssumption`
(instances, sources and agents are finitely many; limits are natural numbers and
there is room for one interaction; a policy passes
`ProviderRuntimePolicy::validate`; the absent value is no identity, request or
agent). Events are any with the fields that their kind makes mandatory:
`ProviderEvent` is that filtered set.

| Theorem | States |
|---|---|
| `EngineTypes` | `TypeOK` |
| `EveryOperationIsOwed` | `OperationOwed` |
| `WorkForTheLiving` | `WorkerEffectsLive` |
| `NoOrphans` | `ProcessOwned` |
| `ExpectsNeverPanic` | `ExpectsHold` |
| `ForegroundIsCurrent` | `ForegroundTrust` |
| `ResolutionsArePending` | `ResolvingIsPending` |
| `ResolutionsAreWanted` | `ResolutionEffectsWanted` |
| `PoliciesWithhold` | `PolicyWithholds` |
| `NothingRewinds` | `NoRewind`, an action property |
| `OutcomesAreFinal` | `InteractionFinal`, an action property |

`ProviderReducerProofs` holds the lemmas about the reducer: it keeps a snapshot
well-formed, starts no resolution, leaves a resolved interaction alone and shows
nothing that a policy withholds. The invariant of `SessionEngineProofs` is a
conjunction in which each part supports the next:

* `Types`, with what holds of each session by itself (`SessionOK`: the phase of
  a resume fits the status, the policy withholds, a question is open only in a
  live session);
* `GenerationsUsed`, `OperationsUsed`: no effect, process or exit names a
  generation or an operation that has not been given out. Every correlation of a
  late answer rests on this;
* `WorkersServe`: a starting session has only its spawn outstanding, and nothing
  is queued behind the stop that the host holds;
* `ProcessesTracked`: a process is spawned once and exits once, and somebody
  waits for the process of an outstanding spawn, unless its stop has failed;
* `Expected`, `InputsPending`, `ResolutionsMatch`: what an answer finds;
* `Owed`: the pending operation has an outstanding effect *whose answer ends it
  in the present status*, or its answer was ignored and nothing else is
  outstanding under its id. `OperationOwed` alone is not inductive, since an
  effect of the wrong kind would be answered and leave the operation pending.

Actions that treat a session alike are shown to have one of a few forms before
the parts are proved for the forms. The action properties come from a relation
between two states of a session (`Forward`) that every action establishes.

### DurableStateProofs

Assumptions: `BoundsAssumption`, `ContentAssumption` (at least one save; a
content that is absent, damaged or foreign is no number).

| Theorem | States |
|---|---|
| `DurableTypes` | `TypeOK` |
| `OneGenerationAtMost` | `SurvivesDamage` |
| `ForeignLeftAlone` | `ForeignStateUntouched`, an action property |
| `FilesImplementRegister` | `ImplementsRegister`: `Spec => Register!Spec` |

The invariant is `TypeOK /\ Own`. `Own` says of
every directory that a power loss may leave that it is `Sound` (the copies hold
what was kept as a copy, and the acknowledged generation loads unless the primary
is damaged or was taken for damaged), and for each step of a save
where the old primary, its backup and the new file are: before the displacement,
between the two renames, after the commit and during the rotation of the backup,
which is done in either of the first and the last. The refinement is a step
simulation: for each file operation, success or failure, stop and damage, the
invariant determines what `load` returns before and after, and that is a step or
a stutter of the register. `ForeignLeftAlone` needs a second invariant on top,
`ForeignKept`: a foreign primary that no save took for damaged is in every
directory a power loss may leave, and as long as nobody has passed over the copies
none of them is foreign while a process is up, because a load that meets a
foreign one first is refused (`LoadMeetsForeign`). `StateRegister` has no fairness, so nothing about
liveness is claimed.

### ProviderSupervisorProofs

Assumption: `SupervisorAssumption` (limits are positive natural numbers; nothing
relates them). Number of operations, capacities, attempts and errors are
arbitrary, so that, for instance, tables do overflow.

| Theorem | States |
|---|---|
| `ProcessesAreHeld` | `ProcessesHeld` |
| `TypeCorrect` | `SupervisorTypeOK` |
| `ExitsAreReported` | `ExitsReported` |
| `NobodyIsAccused` | `NoFalseAccusation` |

An item passes through up to five queues (channel, batch, outcomes, receipts,
and the like for effects and acknowledgements), and the properties are about
where it is, never about its index. So the queues are treated by three
predicates: an item of a kind is in the queue, at most one is, one never comes
before another (`Has`, `One`, `Before`), with one lemma for each operation on
queues. The invariant says of each operation (`Orderly`)

* `Held`: a running process has a physical operation, which knows of an exit
  only after it;
* `Invocations`: it is invoked once, and unknown to the supervisor until then;
* `Cancellations`: it is cancelled at most once, after its invocation and when
  its token is, and not again once noticed;
* `Answers`: its result is in one place, and as long as it is on its way or its
  receipt is, the operation waits;
* `Acknowledged`: its exit is acknowledged in one place, if at all, and is when
  the supervisor has let go;

and `Recognised`: whoever may still be cancelled is owned or has a tombstone,
unless room has run out or the binding is dead. To these come what relates the
tables: `Phases` (what a phase of the tick leaves behind), `Accounts` (the
outstanding submissions are exactly the operations that wait, until the runtime
closes; so receipts never exceed them, and a receipt that nobody expects is one
that `EndOutcomes` left unread when the count was reset), `Attachment` (effects come after the
attach), `Limits` and `Reported`. Most actions concern one operation: `Elsewhere`
shows that the others are undisturbed, `StepKeeps` reduces an action of the
supervisor to the operation it is about, `Ticking` summarises `tick_owned`.

### ControlPlaneProofs

Assumptions: those of `ToolEngine` and `EdgeAssumption` (capacities, the drain
limit and the last sequence are positive, deadlines are ticks, and there is room
for one authority command). Channel size, drain limit, effect capacity, number
of clients, providers and instances are arbitrary.

| Theorem | States |
|---|---|
| `PlaneInvariance` | the inductive invariant `BaseInv` |
| `PlaneTypeCorrect` | `PlaneTypeOK` |
| `ClosedClientsAreQuiet` | `NothingFollowsClose` |
| `CompletionsBeforeDisconnect` | `OfferedBeforeClosed` |

The reductions of the kernel are shown to be steps of `ToolEngine!Next` or
stutters, so its invariants, `IndInv` and `HistoryInv`, hold behind the channel
too (`EngineInv`); `StepForms` then says what a reduction does to requests and
completions. To that `BaseInv` adds

* the types, with every capacity, and `PhaseInv`: what a phase of the kernel's
  step leaves for the next, in particular that the engine's queues are empty
  once they are drained;
* `ChannelInOrder`, over the batch and the channel as one sequence: sequences of
  the authority and of the providers increase, and no request of a client comes
  after its close. Sending appends to that sequence, reducing takes its head and
  draining leaves it alone, so each action is one of three cases;
* `ClosesRemembered`: a close in the channel is in `closing_by_sequence` under
  its own sequence, and its client waits for exactly that one. Two closes of one
  client would have one sequence;
* `SendersActive`: only an active client holds its lock to send;
* `ReducedIsQuiet`: a client whose close was reduced, though perhaps not yet
  published, has nothing in the channel and nothing open. `NothingFollowsClose`
  is not inductive without that interval between the reduction and its outcome;
* `OffersInv`: the completion of a settled request is offered, dropped, queued
  or carried by the kernel, and whoever is to hear of it is not disconnected.

### ControlPlaneRegistryProofs

| Theorem | States |
|---|---|
| `RegistryInvariance` | the inductive invariant `BaseInv /\ RegistryInv` |
| `RegistriesAgree` | `RegistryAgrees` |
| `EffectsInvariance` | the inductive invariant `BaseInv /\ RegistryInv /\ EffectsInv` |
| `EffectsAreDeliverable` | `EffectsDeliverable` |
| `RequestsRunWhereSent` | `RunsWhereSent` |

`RegistryAgrees` speaks of one moment, between two steps of the kernel; what
makes it true is spread over the channel, the runtimes' threads and the outcomes
that are not yet published. `RegistryInv` says where each of them stands:

* `SequencesInOrder`: the last sequence reduced and those of the outcomes are
  below every one in the channel. With it `SequenceRegressed` never happens;
* `RuntimesIssued`: which sequence a runtime waits for, by its life. An attach
  has the runtime's own number, a detach a later one, and `ClosingRetry`
  remembers an attach or nothing;
* `ItemsKnown`: an attach is the first item of its runtime, which stays
  registered and does not serve until the attach is reduced; a detach is the one
  its runtime waits for;
* `OutcomesKnown`: an outcome that the runtime has not heard of tells the truth
  about the binding, for instance that a failed attach left nothing bound;
* `BoundKnown`, `CurrentKnown`, `ServingIsBound`: the agreement itself, with the
  kernel's `exhausted` and the registry's `sequence_exhausted` as exceptions;
* `ExhaustedIsEmpty`: after the last sequence the kernel's own step ends with
  nothing bound and nothing registered, which closes the first exception.

Every action outside the kernel's reductions, and the publication of outcomes
and effects, is an instance of `EvolvesAll`: each runtime stays or makes one of
a few moves, each registration stays, ends when nothing is bound and no attach
is on its way, or begins, and only items with the next sequence are new.
`EvolvesRegistry` is proved once for all of them. The reductions of provider
items are instances of `Consumes`.

`EffectsDeliverable` and `RunsWhereSent` follow an effect from the client that
read a published binding, through the channel, the engine, the kernel's drain
and its publication, to the runtime's queue and back with the answer, while the
runtime may be closed, replaced or faulted at any point. `EffectsInv` says what
holds along the way:

* `SentToReady`: what is published, about to be sent or in the channel names a
  runtime whose attach was heard of; such a runtime never goes back;
* `OpenIsBound`: an open request was sent to the runtime that is bound now, and
  the provider of a queued effect is bound. A detach closes the requests of its
  provider in the same step, which is why no effect is ever unbound;
* `HandedToReady`: an effect that left the engine is with the runtime its
  request was sent to, whether the kernel, the queue or a ticket holds it;
* `OperationsKnown`: a runtime knows only operations that it was handed; while it
  serves and its handle is not inside `request_close` (`InService`), it knows
  every dispatched one until it is told to cancel it, and has not settled it. It
  forgets only what it has settled, or everything at once when its close begins;
* `AnsweredIsSettled`: an operation whose answer was applied or ignored is no
  longer dispatched when the runtime hears of it. Without it the runtime might
  forget an operation in `finish_step` that a Cancel is still to name;
* `AnswersKnown`: the answer in the channel is the one its runtime waits for
  under that sequence.

Three forms cover the actions: a reduction settles requests or opens one
(`Settles`, `Opens`) while no effect is on its way; the runtimes advance while
the engine rests (`AdvancesAll`); and one effect is handed over (`HandsOut`,
`Hands`). The invariants of `ToolEngine` carry the argument across the drain:
an operation is invoked once, a Cancel follows its Invoke, and two requests
never share an operation.

### What is only model-checked

* Liveness: `EventuallySettled`, `OperationSettles`, `RetirementCompletes`, and
  the two findings that are about progress. Fairness and ENABLED are out of the
  prover's reach.
* The findings: a violation is shown by its counterexample.

`PayloadRetained` is proved and not listed in a run: it follows from single
assignments and is kept for the invariant.

## 6. Plan

Proofs: every safety property that a passing run checks is a theorem. Next are
facts that no instance of TLC reaches, such as the order in which a runtime
receives its effects.

Modules that would come next: an abstract session lifecycle (absent, idle, live
in a generation) with `SessionEngine` as its refinement; the registry of pending
requests of the RPC transport against the reader's shutdown; the node's client
(correlation of requests over a local socket).

## 7. Not modelled

* **Protocols, wire, types** (`node-protocol`, `node-wire`, most of `types`):
  data, validation and encoding. They are most of the repository's lines and
  hold no state that a step could break; the client's correlation table is the
  exception and is in the plan.
* **Catalog, adapters, provider ports, history readers, probes, cures**: pure
  tables and parsers of formats that third parties define.
* **Native shell, PTY backend, transport sessions, one-shot shell**: system
  calls around one process each. What they promise to their callers is modelled
  where it is used (`EffectWorkers`, `SessionEngine`, `ProviderSupervisor`).
* **Wake**: mechanisms of third parties, tried in order.
* **WireGuard, platform, materialisation, keys, build stamp, test kit**:
  configuration and fixtures. The archive is retired code.
* Inside modelled parts: the audit ring, event logs and revisions; foreign
  handles and the end of the kernel's port; the windows branch of the file
  replacement; a second connection of a relay role that is still connected.
