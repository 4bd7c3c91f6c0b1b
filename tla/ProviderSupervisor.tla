------------------------- MODULE ProviderSupervisor -------------------------
(***************************************************************************)
(* The supervisor of a native capability provider                          *)
(* (gate4agent-shell-native/src/provider_supervisor.rs): it starts one     *)
(* physical operation per invocation, stops it on a cancellation, a fault  *)
(* or its own retirement, reports its exit, submits its result and detaches*)
(* from the kernel when nothing is left.                                   *)
(*                                                                         *)
(* NativeRuntime::tick runs a step of the kernel, publishes it and then    *)
(* ticks the supervisor, all on one thread: `pc` is that thread.  What     *)
(* changes meanwhile are the processes and the grace periods.  The kernel  *)
(* appears by what it promises to one binding (ControlPlane checks it): an *)
(* operation is invoked once and cancelled at most once, while it is open. *)
(*                                                                         *)
(* One installation of one provider; a submission is named by its          *)
(* operation.  Left out: payloads, the queue of faults (`accused` and      *)
(* `overflowed` remember the kinds that matter), exit codes, Drop.         *)
(***************************************************************************)
EXTENDS Naturals, Sequences, SequencesExt, FiniteSets

CONSTANTS
    MaxOperation,   \* operations the engine dispatches
    Capacity,       \* effect_capacity of the binding
    WorkPerTick,    \* MAX_PROVIDER_SUPERVISOR_WORK_PER_TICK
    OutcomesPerTick,  \* MAX_PROVIDER_SUPERVISOR_OUTCOMES_PER_TICK
    MaxOwned,       \* MAX_PROVIDER_SUPERVISOR_OPERATIONS
    MaxAcks,        \* MAX_PROVIDER_SUPERVISOR_EVENTS
    MaxStops,       \* MAX_PROVIDER_STOP_SIGNAL_ATTEMPTS
    MaxForces,      \* MAX_PROVIDER_FORCE_STOP_ATTEMPTS
    MaxErrors       \* bound: what goes wrong in the executor, the channel, the kernel

ASSUME SupervisorAssumption ==
    /\ {MaxOperation, Capacity, WorkPerTick, OutcomesPerTick, MaxOwned, MaxAcks, MaxStops,
        MaxForces} \subseteq Nat \ {0}
    /\ MaxErrors \in Nat

VARIABLES
    pc,          \* where the thread of NativeRuntime is
    \* the kernel and the handle
    ingress,     \* commands of this binding in the channel
    batch,       \* those the step reduces
    outcomes, published,  \* what the step publishes: outcomes, then effects
    engine,      \* the request behind each operation: "New", "Dispatched", "Done"
    bound,       \* the kernel holds the binding
    lane,        \* the tool lane is open
    sequence,    \* of provider commands: "open", "spent" (registry), "exhausted" (kernel)
    runtime,     \* the ProviderBindingState
    \* the supervisor
    owned,       \* OwnedProviderOperation by operation
    outstanding, \* outstanding_observations
    retirement,  \* retirement_requested
    blocked,     \* detach_blocked
    closed,      \* lifecycle = Closed
    tombstones,  \* operations whose cancellation is still expected
    exit_acks,   \* acknowledged exits ...
    provider_exit_acks,   \* ... collected by NativeRuntime ...
    told,        \* ... and drained by its owner, as a set
    todo, taken, \* of the tick: operations to look at, receipts or work taken
    \* outside
    process,     \* of each operation
    errors,      \* what has gone wrong so far
    accused, overflowed,  \* history: protocol faults recorded, capacity exceeded,
    unread       \* ... receipts behind when the runtime closed

thread_vars == <<batch, outcomes, published, todo, taken>>
kernel_vars == <<ingress, engine, bound, lane, sequence>>
own_vars == <<owned, outstanding, retirement, blocked, closed, tombstones>>
ack_vars == <<exit_acks, provider_exit_acks, told>>
world_vars == <<process, errors, accused, overflowed, unread>>
vars == <<pc, thread_vars, kernel_vars, runtime, own_vars, ack_vars, world_vars>>

Operations == 1 .. MaxOperation
Absent == [state |-> "Absent"]
Owned == {o \in Operations : owned[o] # Absent}

\* Something fails: a call to the executor, the shared channel, the kernel.
Fails == errors < MaxErrors /\ errors' = errors + 1
Works == UNCHANGED errors

-----------------------------------------------------------------------------
(* The handle of the binding (gate4agent-handle/src/provider_runtime.rs).  *)

Serves(r) == r.life \in {"Active", "Quiescing"}

\* Cancelled by its own cancellation or with the whole binding.
\* A token of its own is only kept apart while the binding is not cancelled.
IsCancelled(o) == runtime.cancelled \/ o \in runtime.tokens

\* begin_quiesce; in any other state it only reports an error.
Quiesced(r) ==
    IF r.life # "Active" THEN r
    ELSE [r EXCEPT !.life = "Quiescing", !.cancelled = TRUE, !.tokens = {}]

Silenced(r) == [r EXCEPT !.cancelled = TRUE, !.tokens = {}, !.operations = {}, !.settled = {}]

\* fault_binding_locked, and the refusal of a full work queue.
Faulted(r) ==
    IF r.life \in {"DetachSent", "Closed"} THEN Silenced(r)
    ELSE [Silenced(r) EXCEPT !.life = "ClosingRetry"]

\* retire_binding; nothing is pending when it happens here.
Retired(r) == [Silenced(r) EXCEPT !.life = "Closed"]

\* commit_sequence: a command takes a sequence number, which may be the last.
Committed == Works /\ UNCHANGED sequence
LastCommitted == Fails /\ sequence' = "spent"

\* request_close of a binding that is not closed, by its result.
CloseSent(r) ==
    /\ sequence = "open"
    /\ IF r.life = "DetachSent"
       THEN runtime' = Silenced(r) /\ UNCHANGED <<ingress, sequence, errors>>
       ELSE /\ runtime' = [Silenced(r) EXCEPT !.life = "DetachSent"]
            /\ ingress' = Append(ingress, [kind |-> "Detach", operation |-> 0])
            /\ Committed \/ LastCommitted

CloseFull(r) ==
    /\ sequence = "open" /\ r.life # "DetachSent" /\ Fails
    /\ runtime' = [Silenced(r) EXCEPT !.life = "ClosingRetry"]
    /\ UNCHANGED <<ingress, sequence>>

CloseExhausted(r) ==
    /\ sequence # "open" /\ Works
    /\ runtime' = [Silenced(r) EXCEPT !.life = "ClosingRetry"]
    /\ UNCHANGED <<ingress, sequence>>

-----------------------------------------------------------------------------
(* The step of the kernel.                                                 *)

NotSupervisor == UNCHANGED <<todo, taken, own_vars, ack_vars, process, accused,
                             overflowed, unread>>

\* drain_ingress: a binding that waits to be closed asks again ...
FlushClosing ==
    /\ pc = "idle" /\ pc' = "drain"
    /\ runtime.life = "ClosingRetry"
    /\ CloseSent(runtime) \/ CloseFull(runtime) \/ CloseExhausted(runtime)
    /\ UNCHANGED <<batch, outcomes, published, engine, bound, lane>>
    /\ NotSupervisor

\* ... and the step takes what is in the channel, or the part of it that the
\* commands of others leave room for.
DrainIngress ==
    /\ pc = "drain" \/ (pc = "idle" /\ runtime.life # "ClosingRetry")
    /\ pc' = "reduce"
    /\ \E n \in 0 .. Len(ingress) :
          /\ batch' = SubSeq(ingress, 1, n)
          /\ ingress' = SubSeq(ingress, n + 1, Len(ingress))
          /\ IF n = Len(ingress) THEN Works ELSE Fails
    /\ UNCHANGED <<outcomes, published, engine, bound, lane, sequence, runtime>>
    /\ NotSupervisor

Reducing ==
    /\ pc = "reduce"
    /\ UNCHANGED runtime
    /\ NotSupervisor

\* All requests of the provider are closed without an effect.
CloseRequests ==
    /\ engine' = [o \in Operations |-> IF engine[o] = "Dispatched" THEN "Done" ELSE engine[o]]
    /\ published' = <<>>

\* reduce_provider_runtime
ReduceCommand ==
    LET c == Head(batch)
        admitted == lane /\ sequence # "exhausted" /\ (bound <=> c.kind # "Attach")
    IN  /\ Reducing /\ batch # <<>> /\ Works /\ UNCHANGED pc
        /\ batch' = Tail(batch)
        /\ outcomes' = Append(outcomes, [kind |-> c.kind, operation |-> c.operation,
                                         ok |-> admitted])
        /\ bound' = IF admitted /\ c.kind # "Observe" THEN c.kind = "Attach" ELSE bound
        /\ \/ admitted /\ c.kind = "Detach" /\ CloseRequests
           \/ /\ admitted /\ c.kind = "Observe"
              /\ engine' = [engine EXCEPT ![c.operation] = "Done"] /\ UNCHANGED published
           \/ ~(admitted /\ c.kind # "Attach") /\ UNCHANGED <<engine, published>>
        /\ UNCHANGED <<ingress, lane, sequence>>

Effect(kind, o) == [kind |-> kind, operation |-> o]

\* A request is dispatched to the provider ...
EngineInvoke(o) ==
    /\ Reducing /\ Works /\ UNCHANGED pc
    /\ lane /\ bound /\ engine[o] = "New"
    /\ \A n \in Operations : n < o => engine[n] # "New"
    /\ engine' = [engine EXCEPT ![o] = "Dispatched"]
    /\ published' = Append(published, Effect("Invoke", o))
    /\ UNCHANGED <<ingress, batch, outcomes, bound, lane, sequence>>

\* ... and closed: a queued Invoke goes, one that left the engine is cancelled.
EngineClose(o) ==
    LET invoke == Effect("Invoke", o)
    IN  /\ Reducing /\ Works /\ UNCHANGED pc
        /\ lane /\ engine[o] = "Dispatched"
        /\ engine' = [engine EXCEPT ![o] = "Done"]
        /\ \/ \E j \in DOMAIN published :
                 published[j] = invoke /\ published' = RemoveAt(published, j)
           \/ /\ invoke \notin Range(published)
              /\ published' = Append(published, Effect("Cancel", o))
        /\ UNCHANGED <<ingress, batch, outcomes, bound, lane, sequence>>

\* A counter of the control engine is exhausted: both lanes close for good.
LaneFails ==
    /\ Reducing /\ Fails /\ UNCHANGED pc
    /\ lane
    /\ lane' = FALSE /\ published' = <<>>
    /\ UNCHANGED <<ingress, batch, outcomes, engine, bound, sequence>>

\* Another provider sends the command with the last sequence number ...
SequenceSpent ==
    /\ pc # "reduce" /\ Fails /\ UNCHANGED pc
    /\ sequence = "open"
    /\ sequence' = "spent"
    /\ UNCHANGED <<thread_vars, ingress, engine, bound, lane, runtime, own_vars, ack_vars,
                   process, accused, overflowed, unread>>

\* ... and the kernel, when it has reduced it, retires every binding.
EndReduce ==
    LET last == sequence = "spent" /\ ingress = <<>>
    IN  /\ Reducing /\ batch = <<>> /\ Works
        /\ pc' = "publish"
        /\ sequence' = IF last THEN "exhausted" ELSE sequence
        /\ IF last THEN bound' = FALSE /\ CloseRequests
           ELSE UNCHANGED <<bound, engine, published>>
        /\ UNCHANGED <<ingress, batch, outcomes, lane>>

\* publish_outcome, with publish_observation_outcome: a rejected observation
\* faults the binding, and so does a receipt that finds no room.
Concluded(r, x) ==
    LET kept == [r EXCEPT !.receipts = IF Len(@) < Capacity
                                       THEN Append(@, [operation |-> x.operation, ok |-> x.ok])
                                       ELSE @,
                          !.settled = @ \cup ({x.operation} \cap r.operations)]
    IN  CASE r.life = "Closed" -> r
          [] r.life # "Closed" /\ x.kind = "Observe" ->
               IF x.ok /\ Len(r.receipts) < Capacity THEN kept ELSE Faulted(kept)
          [] r.life # "Closed" /\ x.kind = "Attach" ->
               IF ~x.ok THEN Retired(r)
               ELSE IF r.life = "AttachSent" THEN [r EXCEPT !.life = "Active"] ELSE r
          [] r.life # "Closed" /\ x.kind = "Detach" ->
               IF r.life # "DetachSent" THEN r
               ELSE IF x.ok THEN Retired(r) ELSE [r EXCEPT !.life = "ClosingRetry"]

\* publish_effect
Delivered(r, e) ==
    LET o == e.operation
        next == [r EXCEPT !.work = Append(@, e),
                          !.operations = IF e.kind = "Invoke" THEN @ \cup {o} ELSE @ \ {o},
                          !.tokens = IF e.kind = "Cancel" /\ ~r.cancelled
                                     THEN @ \cup {o} ELSE @]
    IN  IF ~Serves(r) THEN r
        ELSE IF (o \in r.operations <=> e.kind = "Cancel") /\ Len(r.work) < Capacity THEN next
        ELSE Faulted(r)

\* finish_step and reconcile_snapshot: settled operations are forgotten, and a
\* binding that the kernel does not hold is retired.
Reconciled(r) ==
    LET sent(kind) == \E c \in Range(ingress) : c.kind = kind
        reduced == CASE r.life \in {"AttachSent", "ClosingRetry"} -> ~sent("Attach")
                     [] r.life = "DetachSent" -> ~sent("Detach")
                     [] OTHER -> TRUE
    IN  IF sequence = "exhausted" \/ (~bound /\ reduced) THEN Retired(r)
        ELSE [r EXCEPT !.operations = @ \ r.settled, !.settled = {}]

\* publish_step: the outcomes, then the effects, then the rest.
Publishing(r) ==
    /\ pc = "publish"
    /\ runtime' = r
    /\ UNCHANGED <<batch, kernel_vars, errors>>
    /\ NotSupervisor

PublishOutcome ==
    /\ outcomes # <<>> /\ outcomes' = Tail(outcomes)
    /\ Publishing(Concluded(runtime, Head(outcomes)))
    /\ UNCHANGED <<pc, published>>

PublishEffect ==
    /\ outcomes = <<>> /\ published # <<>> /\ published' = Tail(published)
    /\ Publishing(Delivered(runtime, Head(published)))
    /\ UNCHANGED <<pc, outcomes>>

FinishStep ==
    /\ outcomes = <<>> /\ published = <<>>
    /\ pc' = IF closed THEN "collect" ELSE "outcomes"
    /\ Publishing(Reconciled(runtime))
    /\ UNCHANGED <<outcomes, published>>

-----------------------------------------------------------------------------
(* One operation: tick_owned.                                              *)

Started ==
    [state |-> "Physical", stops |-> 0, stopped |-> FALSE, forces |-> 0,
     forced |-> FALSE, cause |-> "None", noticed |-> FALSE, result |-> "Pending",
     late |-> FALSE, exited |-> FALSE, acked |-> FALSE]

\* Nobody has asked it to stop, and it runs as far as the supervisor knows.
Untouched(r) == ~r.exited /\ r.stops = 0 /\ r.cause = "None"

\* fence_for_fault: an operation gets its cause to stop.
Fenced(r) ==
    IF r.state = "Physical" /\ Untouched(r)
    THEN [r EXCEPT !.cause = IF retirement THEN "Retirement" ELSE "Fault"] ELSE r

\* fence_for_runtime_close
FencedAtClose(r) ==
    IF r.cause # "None" THEN r
    ELSE IF r.stops > 0 THEN [r EXCEPT !.cause = "Fault"] ELSE Fenced(r)

\* tick_owned works on an operation taken out of `owned`, on detach_blocked
\* and on whether a blocking fault is recorded on the way.
Taken(r) == [r |-> r, blocked |-> blocked, hit |-> FALSE]
Blocking(x) == [x EXCEPT !.blocked = TRUE, !.hit = TRUE]

StopRequired(x, o) == retirement \/ x.blocked \/ IsCancelled(o) \/ x.r.cause # "None"

MayStop(x, o) ==
    ~x.r.exited /\ StopRequired(x, o) /\ ~x.r.stopped /\ x.r.stops < MaxStops

StopSignal(x, o, ok) ==
    LET y == [x EXCEPT !.r.stops = @ + 1, !.r.stopped = ok]
    IN  IF ~MayStop(x, o) THEN x
        ELSE IF ok \/ y.r.stops < MaxStops THEN y ELSE Blocking(y)

\* When cooperation was refused, or did not help within the grace period.
MayForce(x, o) ==
    /\ ~x.r.exited /\ StopRequired(x, o) /\ ~x.r.forced /\ x.r.forces < MaxForces
    /\ \/ ~x.r.stopped /\ x.r.stops = MaxStops
       \/ x.r.stopped /\ x.r.late

ForceSignal(x, o, ok) ==
    LET y == [x EXCEPT !.r.forces = @ + 1, !.r.forced = ok]
    IN  IF ~MayForce(x, o) THEN x
        ELSE IF ok \/ y.r.forces < MaxForces THEN y ELSE Blocking(y)

MayPoll(x, o) ==
    ~IsCancelled(o) /\ x.r.stops = 0 /\ x.r.cause = "None" /\ x.r.result = "Pending"

\* A lane that closes, or that gives something invalid, is a result too: that
\* of a contract violation.
PollResult(x, o, poll) ==
    IF ~MayPoll(x, o) THEN x
    ELSE IF poll # "Error" THEN [x EXCEPT !.r.result = poll]
    ELSE Blocking([x EXCEPT !.r.result = "Ready",
                            !.r.cause = IF retirement THEN "None" ELSE "Fault"])

Wait(x, o, ok) ==
    IF x.r.exited THEN x
    ELSE IF ok THEN [x EXCEPT !.r.exited = process[o] = "exited"]
    ELSE Blocking([x EXCEPT !.r = IF retirement THEN @ ELSE Fenced(@)])

\* Mutant: the exit is acknowledged before the reason for its stop is known.
MayAck_Early(r) == ~r.acked /\ Len(exit_acks) < MaxAcks

\* Mutant: the exit is acknowledged whether there is room or not.
MayAck_Unbounded(r) == ~r.acked /\ ~(r.stops > 0 /\ r.cause = "None")

\* An operation that was stopped is acknowledged with the cause, which comes
\* with the cancellation; a full buffer holds the operation back.
MayAck(r) ==
    ~r.acked /\ ~(r.stops > 0 /\ r.cause = "None") /\ Len(exit_acks) < MaxAcks

Ack(o, r) == [operation |-> o, stopped |-> r.stops > 0, cause |-> r.cause]

\* After the exit: acknowledged, dropped or turned into a completion.
Settled(x) ==
    LET r == x.r
        over == retirement \/ x.blocked \/ r.noticed \/ r.cause # "None"
    IN  CASE ~r.exited \/ ~(r.acked \/ MayAck(r)) -> r
          [] r.exited /\ (r.acked \/ MayAck(r)) /\ over -> Absent
          [] r.exited /\ (r.acked \/ MayAck(r)) /\ ~over /\ r.result # "Pending" ->
               [state |-> "PendingCompletion"]
          [] OTHER -> [r EXCEPT !.acked = TRUE]

\* push_tombstone finds no room.
NoTombstone == Cardinality(tombstones) >= 2 * MaxOwned

\* What becomes of the operations `rest` and of the runtime `r` when those in
\* `bury` leave a tombstone and a blocking fault is recorded or not
\* (push_tombstone, record_blocking_fault, record_fault): the fault blocks the
\* detach, gives every operation a cause to stop and quiesces the runtime.
Conclude(rest, r, bury, fault, kinds) ==
    LET full == bury # {} /\ NoTombstone
    IN  /\ tombstones' = IF full THEN tombstones ELSE tombstones \cup bury
        /\ accused' = accused \cup kinds
                        \cup {k \in {"TombstoneCapacityExceeded"} : full}
        /\ IF fault \/ full
           THEN /\ blocked' = TRUE
                /\ owned' = [n \in Operations |-> Fenced(rest[n])]
                /\ runtime' = Quiesced(r)
           ELSE owned' = rest /\ runtime' = r /\ UNCHANGED blocked

Without(o) == [owned EXCEPT ![o] = Absent]
With(o, r) == [owned EXCEPT ![o] = r]
Stays(rest) == Conclude(rest, runtime, {}, FALSE, {})

\* The whole of tick_owned for a physical operation, by the outcomes of its
\* calls; `rt` is the runtime.
TickWith(o, r, rt, stop, force, poll, wait) ==
    LET x0 == Taken(IF retirement \/ blocked THEN Fenced(r) ELSE r)
        x1 == StopSignal(x0, o, stop)
        x2 == ForceSignal(x1, o, force)
        x3 == PollResult(x2, o, poll)
        x4 == Wait(x3, o, wait)
        failing == {c \in {"stop", "force", "poll", "wait"} :
                      CASE c = "stop" -> ~stop [] c = "force" -> ~force
                        [] c = "poll" -> poll = "Error" [] c = "wait" -> ~wait}
        acks == wait /\ x4.r.exited /\ MayAck(x4.r)
        kept == IF wait THEN Settled(x4) ELSE x4.r
        bury == {n \in {o} : kept = Absent /\ ~x4.r.noticed}
    IN  \* a call that is not made has one outcome
        /\ ~MayStop(x0, o) => stop
        /\ ~MayForce(x1, o) => force
        /\ ~MayPoll(x2, o) => poll = "Pending"
        /\ x3.r.exited => wait
        /\ errors' = errors + Cardinality(failing) /\ errors' <= MaxErrors
        /\ exit_acks' = IF acks THEN Append(exit_acks, Ack(o, x4.r)) ELSE exit_acks
        /\ Conclude([owned EXCEPT ![o] = kept], rt, bury, x4.hit, {})
        /\ UNCHANGED overflowed

TickPhysical(o, r, rt) ==
    \E stop, force, wait \in BOOLEAN, poll \in {"Pending", "Ready", "Error"} :
        TickWith(o, r, rt, stop, force, poll, wait)

-----------------------------------------------------------------------------
(* The tick.                                                               *)

\* Mutant: a receipt settles its operation for good.
Expected_Never(o) == FALSE

\* The cancellation of a settled operation is still on its way to the supervisor.
Expected(o) == ~owned[o].noticed /\ IsCancelled(o)

\* drain_observation_outcomes stops at its limit.
MoreOutcomes == taken < OutcomesPerTick /\ runtime.receipts # <<>>

\* handle_observation_outcome
TakeOutcome ==
    LET x == Head(runtime.receipts)
        o == x.operation
        known == owned[o].state = "AwaitingOutcome"
        mismatch == ~known \/ outstanding = 0
    IN  /\ pc = "outcomes" /\ MoreOutcomes /\ UNCHANGED pc
        /\ taken' = taken + 1
        /\ outstanding' = IF outstanding = 0 THEN 0 ELSE outstanding - 1
        /\ Conclude(IF known THEN Without(o) ELSE owned,
                    [runtime EXCEPT !.receipts = Tail(@)],
                    IF known /\ Expected(o) THEN {o} ELSE {},
                    ~x.ok \/ mismatch,
                    {k \in {"ObservationOutcomeMismatch"} : mismatch})
        /\ UNCHANGED <<batch, outcomes, published, todo, kernel_vars, retirement, closed,
                       ack_vars, process, errors, overflowed, unread>>

RuntimeClosed == runtime.life = "Closed"

\* A runtime that closes under its operations is a fault, and from then on no
\* receipt is expected: those not read yet are read, as mismatches, in the
\* ticks that some process keeps going.
EndOutcomes ==
    /\ pc = "outcomes" /\ ~MoreOutcomes /\ pc' = "owned"
    /\ taken' = 0
    /\ todo' = Owned
    /\ unread' = (unread \/ (RuntimeClosed /\ runtime.receipts # <<>>))
    /\ outstanding' = IF RuntimeClosed THEN 0 ELSE outstanding
    /\ Conclude(owned, runtime, {}, RuntimeClosed /\ Owned # {} /\ ~blocked, {})
    /\ UNCHANGED <<batch, outcomes, published, kernel_vars, retirement, closed, ack_vars,
                   process, errors, overflowed>>

\* try_complete and submit_observation: sent, the binding closing with the last
\* sequence number, refused by a full channel, or refused for good.
Submit(o) ==
    LET open == Serves(runtime) /\ sequence = "open"
        awaiting == [state |-> "AwaitingOutcome", noticed |-> FALSE]
    IN  \/ /\ open
           /\ ingress' = Append(ingress, [kind |-> "Observe", operation |-> o])
           /\ outstanding' = outstanding + 1
           /\ \/ Committed /\ Stays(With(o, awaiting))
              \/ LastCommitted /\ Conclude(With(o, awaiting), Faulted(runtime), {}, FALSE, {})
        \/ /\ open /\ Fails /\ Stays(owned)
           /\ UNCHANGED <<ingress, sequence, outstanding>>
        \/ /\ ~open /\ Works
           /\ Conclude(Without(o), runtime, {o}, TRUE, {})
           /\ UNCHANGED <<ingress, sequence, outstanding>>

\* Every submission has room for its receipt.
MaySubmit == outstanding < Capacity

TickPending(o) ==
    LET idle == UNCHANGED <<ingress, sequence, outstanding, errors>>
    IN  /\ owned[o].state = "PendingCompletion"
        /\ \/ retirement /\ idle /\ Conclude(Without(o), runtime, {o}, FALSE, {})
           \/ /\ ~retirement /\ IsCancelled(o) /\ idle
              /\ Stays(With(o, [state |-> "AwaitingCancellation"]))
           \/ ~retirement /\ ~IsCancelled(o) /\ ~MaySubmit /\ idle /\ Stays(owned)
           \/ ~retirement /\ ~IsCancelled(o) /\ MaySubmit /\ Submit(o)

\* Mutant: an operation waits for its cancellation even in a retirement.
TickAwaiting_Waits(o) ==
    /\ owned[o].state \in {"AwaitingOutcome", "AwaitingCancellation"}
    /\ Stays(owned)
    /\ UNCHANGED <<ingress, sequence, outstanding, errors>>

TickAwaiting(o) ==
    /\ owned[o].state \in {"AwaitingOutcome", "AwaitingCancellation"}
    /\ IF retirement /\ owned[o].state = "AwaitingCancellation"
       THEN Conclude(Without(o), runtime, {o}, FALSE, {})
       ELSE Stays(owned)
    /\ UNCHANGED <<ingress, sequence, outstanding, errors>>

\* Mutant: nothing is left to own when the runtime has closed.
Survives_Nothing(r) == FALSE

\* has_physical_owner
Survives(r) == r.state = "Physical"

\* The operations in turn, the runtime being open or closed.
TickOwned ==
    \E o \in todo :
        LET r == owned[o]
            gone == RuntimeClosed /\ ~Survives(r)
        IN  /\ pc = "owned" /\ UNCHANGED pc
            /\ \A n \in todo : o <= n
            /\ todo' = todo \ {o}
            /\ \/ /\ gone /\ Stays(Without(o))
                  /\ UNCHANGED <<exit_acks, ingress, sequence, outstanding, errors, overflowed>>
               \/ /\ ~gone /\ r.state = "Physical"
                  /\ TickPhysical(o, IF RuntimeClosed THEN FencedAtClose(r) ELSE r, runtime)
                  /\ UNCHANGED <<ingress, sequence, outstanding>>
               \/ /\ ~gone /\ (TickPending(o) \/ TickAwaiting(o))
                  /\ UNCHANGED <<exit_acks, overflowed>>
            /\ UNCHANGED <<batch, outcomes, published, taken, engine, bound, lane, retirement,
                           closed, provider_exit_acks, told, process, unread>>

EndOwned ==
    /\ pc = "owned" /\ todo = {}
    /\ closed' = (RuntimeClosed /\ Owned = {})
    /\ blocked' = (blocked /\ ~(closed' /\ retirement))
    /\ pc' = IF RuntimeClosed THEN "collect" ELSE "work"
    /\ UNCHANGED <<thread_vars, kernel_vars, runtime, owned, outstanding, retirement,
                   tombstones, ack_vars, world_vars>>

\* handle_cancellation: a physical operation learns its cause and is looked at
\* at once; a result that was not submitted is dropped.
Cancelled(o, rt) ==
    LET r == owned[o]
        learns == ~r.exited \/ r.stops > 0
        caused == [r EXCEPT !.noticed = TRUE,
                            !.cause = IF @ = "None" /\ learns THEN "Cancellation" ELSE @]
        unknown == r = Absent /\ ~(o \in tombstones)
    IN  \/ r.state = "Physical" /\ TickPhysical(o, caused, rt)
        \/ /\ r = Absent /\ o \in tombstones
           /\ tombstones' = tombstones \ {o} /\ runtime' = rt
           /\ UNCHANGED <<owned, blocked, accused, exit_acks, errors, overflowed>>
        \/ /\ r.state # "Physical" /\ (r = Absent => unknown)
           /\ Conclude(IF r.state = "AwaitingOutcome" THEN With(o, [r EXCEPT !.noticed = TRUE])
                       ELSE Without(o),
                       rt, {}, unknown, {k \in {"UnknownCancellation"} : unknown})
           /\ UNCHANGED <<exit_acks, errors, overflowed>>

\* start_invocation: refused in a retirement or after a fault, in conflict with
\* what is known, beyond the capacity, cancelled before it began, or started;
\* the executor may fail, and a capability may be missing.
Invoked(o, rt) ==
    LET fenced == retirement \/ blocked
        conflict == ~fenced /\ (owned[o] # Absent \/ o \in tombstones)
        full == ~fenced /\ ~conflict /\ Cardinality(Owned) >= MaxOwned
        Begin(state) == Conclude(With(o, state), rt, {}, FALSE, {})
        pending == [state |-> "PendingCompletion"]
        idle == UNCHANGED process
    IN  /\ UNCHANGED <<exit_acks, errors>>
        /\ overflowed' = (overflowed \/ full)
        /\ \/ fenced /\ idle /\ Conclude(owned, rt, {o}, FALSE, {})
           \/ conflict /\ idle /\ Conclude(owned, rt, {}, TRUE, {"ConflictingInvocation"})
           \/ full /\ idle /\ Conclude(owned, rt, {}, TRUE, {})
           \/ /\ ~fenced /\ ~conflict /\ ~full
              /\ \/ idle /\ Begin(pending)
                 \/ IsCancelled(o) /\ idle /\ Begin([state |-> "AwaitingCancellation"])
                 \/ /\ ~IsCancelled(o)
                    /\ Begin(Started)
                    /\ process' = [process EXCEPT ![o] = "running"]

\* drain_work
MoreWork == taken < WorkPerTick /\ Serves(runtime) /\ runtime.work # <<>>

TakeWork ==
    LET e == Head(runtime.work)
        rt == [runtime EXCEPT !.work = Tail(@)]
    IN  /\ pc = "work" /\ MoreWork /\ UNCHANGED pc
        /\ taken' = taken + 1
        /\ \/ e.kind = "Cancel" /\ Cancelled(e.operation, rt) /\ UNCHANGED process
           \/ e.kind = "Invoke" /\ Invoked(e.operation, rt)
        /\ UNCHANGED <<batch, outcomes, published, todo, kernel_vars, outstanding, retirement,
                       closed, provider_exit_acks, told, unread>>

\* request_runtime_close; a close that fails for good is a blocking fault.
RequestRuntimeClose(blocking) ==
    \/ (CloseSent(runtime) \/ CloseFull(runtime)) /\ blocked' = blocking
    \/ CloseExhausted(runtime) /\ blocked' = TRUE

\* The end of a tick: a retirement with nothing left to own detaches.
Finish ==
    /\ pc = "work" /\ ~MoreWork /\ pc' = "collect"
    /\ taken' = 0
    /\ IF retirement /\ Owned = {} THEN RequestRuntimeClose(FALSE)
       ELSE UNCHANGED <<ingress, sequence, runtime, blocked, errors>>
    /\ UNCHANGED <<batch, outcomes, published, todo, engine, bound, lane, owned, outstanding,
                   retirement, closed, tombstones, ack_vars, process, accused, overflowed,
                   unread>>

\* collect_provider_exit_acks, as far as its own buffer has room.
Collected ==
    LET room == MaxAcks - Len(provider_exit_acks)
        n == IF Len(exit_acks) < room THEN Len(exit_acks) ELSE room
    IN  [rest |-> SubSeq(exit_acks, n + 1, Len(exit_acks)),
         acks |-> provider_exit_acks \o SubSeq(exit_acks, 1, n)]

Collect ==
    /\ pc = "collect" /\ pc' = "idle"
    /\ exit_acks' = Collected.rest
    /\ provider_exit_acks' = Collected.acks
    /\ UNCHANGED <<thread_vars, kernel_vars, runtime, own_vars, told, world_vars>>

-----------------------------------------------------------------------------
(* The owner of the runtime, between two ticks, and the world.             *)

\* begin_retirement, by retire_native_provider, retire_all_native_providers or
\* shutdown_native_providers.
BeginRetirement ==
    LET fence(r) == IF r.state = "Physical" /\ Untouched(r)
                    THEN [r EXCEPT !.cause = "Retirement"] ELSE r
    IN  /\ pc = "idle" /\ UNCHANGED pc
        /\ ~retirement /\ retirement' = TRUE
        /\ owned' = [o \in Operations |-> fence(owned[o])]
        /\ closed' = (RuntimeClosed /\ Owned = {})
        /\ \/ /\ RuntimeClosed
              /\ blocked' = (blocked /\ ~closed')
              /\ UNCHANGED <<runtime, ingress, sequence, errors>>
           \/ runtime.life = "AttachSent" /\ RequestRuntimeClose(blocked)
           \/ /\ ~(runtime.life \in {"AttachSent", "Closed"})
              /\ runtime' = Quiesced(runtime)
              /\ UNCHANGED <<blocked, ingress, sequence, errors>>
        /\ UNCHANGED <<thread_vars, engine, bound, lane, outstanding, tombstones, ack_vars,
                       process, accused, overflowed, unread>>

\* drain_provider_exit_acks
DrainAcks ==
    /\ pc = "idle" /\ UNCHANGED pc
    /\ exit_acks # <<>> \/ provider_exit_acks # <<>>
    /\ exit_acks' = Collected.rest
    /\ provider_exit_acks' = <<>>
    /\ told' = told \cup Range(Collected.acks)
    /\ UNCHANGED <<thread_vars, kernel_vars, runtime, own_vars, world_vars>>

\* A process ends, by itself or because it was told to.
ProcessExits(o) ==
    /\ process[o] = "running"
    /\ process' = [process EXCEPT ![o] = "exited"]
    /\ UNCHANGED <<pc, thread_vars, kernel_vars, runtime, own_vars, ack_vars, errors,
                   accused, overflowed, unread>>

\* The grace period of a cooperative stop is over.
GraceEnds(o) ==
    /\ owned[o].state = "Physical"
    /\ owned[o].stopped /\ ~owned[o].exited /\ ~owned[o].late
    /\ owned' = [owned EXCEPT ![o].late = TRUE]
    /\ UNCHANGED <<pc, thread_vars, kernel_vars, runtime, outstanding, retirement, blocked,
                   closed, tombstones, ack_vars, world_vars>>

-----------------------------------------------------------------------------
\* install_native_provider has bound the provider; its attach is under way.
Init ==
    /\ pc = "idle"
    /\ ingress = <<[kind |-> "Attach", operation |-> 0]>>
    /\ batch = <<>> /\ outcomes = <<>> /\ published = <<>>
    /\ engine = [o \in Operations |-> "New"]
    /\ bound = FALSE /\ lane = TRUE /\ sequence = "open"
    /\ runtime = [life |-> "AttachSent", cancelled |-> FALSE, tokens |-> {},
                  operations |-> {}, settled |-> {}, work |-> <<>>, receipts |-> <<>>]
    /\ owned = [o \in Operations |-> Absent]
    /\ outstanding = 0
    /\ retirement = FALSE /\ blocked = FALSE /\ closed = FALSE
    /\ tombstones = {}
    /\ exit_acks = <<>> /\ provider_exit_acks = <<>> /\ told = {}
    /\ todo = {} /\ taken = 0
    /\ process = [o \in Operations |-> "none"]
    /\ errors = 0 /\ accused = {} /\ overflowed = FALSE /\ unread = FALSE

Kernel ==
    \/ FlushClosing \/ DrainIngress \/ ReduceCommand \/ EndReduce
    \/ PublishOutcome \/ PublishEffect \/ FinishStep

Tick ==
    \/ TakeOutcome \/ EndOutcomes \/ TickOwned \/ EndOwned
    \/ TakeWork \/ Finish \/ Collect

Engine ==
    \/ \E o \in Operations : EngineInvoke(o) \/ EngineClose(o)
    \/ LaneFails \/ SequenceSpent

World == \E o \in Operations : ProcessExits(o) \/ GraceEnds(o)

Next == Kernel \/ Tick \/ Engine \/ World \/ BeginRetirement \/ DrainAcks

Spec == Init /\ [][Next]_vars

\* The thread goes on ticking, grace periods end, a process that was forced to
\* stop does, and the owner reads the acknowledgements.
FairSpec ==
    /\ Spec
    /\ []<>(pc = "idle") /\ []<>(pc = "collect")
    /\ WF_vars(\E o \in Operations :
                  \/ GraceEnds(o)
                  \/ owned[o].state = "Physical" /\ owned[o].forced /\ ProcessExits(o))
    /\ SF_vars(DrainAcks)

-----------------------------------------------------------------------------
(* Properties.                                                             *)

PhysicalState ==
    [state : {"Physical"}, stops : 0 .. MaxStops, stopped : BOOLEAN, forces : 0 .. MaxForces,
     forced : BOOLEAN, cause : {"None", "Cancellation", "Retirement", "Fault"},
     noticed : BOOLEAN, result : {"Pending", "Ready"}, late : BOOLEAN, exited : BOOLEAN,
     acked : BOOLEAN]

OwnedState ==
    PhysicalState \cup [state : {"Absent", "PendingCompletion", "AwaitingCancellation"}]
                  \cup [state : {"AwaitingOutcome"}, noticed : BOOLEAN]

\* Every operation is in one of the states of the supervisor, its attempts are
\* bounded, and every queue keeps to its capacity: a submission has room for
\* its receipt, also when receipts wait for a later tick, and acknowledgements
\* wait for theirs.
SupervisorTypeOK ==
    /\ owned \in [Operations -> OwnedState]
    /\ Cardinality(Owned) <= MaxOwned
    /\ outstanding \in 0 .. Capacity
    /\ Len(runtime.receipts) <= (IF unread THEN Capacity ELSE outstanding)
    /\ Len(runtime.work) <= Capacity
    /\ Len(exit_acks) <= MaxAcks /\ Len(provider_exit_acks) <= MaxAcks
    /\ tombstones \subseteq Operations \ Owned
    /\ runtime.life \in {"AttachSent", "Active", "Quiescing", "ClosingRetry", "DetachSent",
                         "Closed"}

Observed ==
    {c.operation : c \in {d \in Range(ingress) \cup Range(batch) \cup Range(outcomes) :
                            d.kind = "Observe"}}

\* The supervisor "owns native provider operations through physical exit": as
\* long as a process runs there is a physical operation that still waits for
\* it, whatever becomes of its request, of the binding or of other operations.
\* So a supervisor is closed, and asks for the detach, only over processes that
\* were reaped, and no result reaches the kernel before its process has ended.
ProcessesHeld ==
    \A o \in Operations : process[o] = "running" =>
        /\ owned[o].state = "Physical" /\ ~owned[o].exited
        /\ ~closed
        /\ ~(o \in Observed)

Buffered == exit_acks \o provider_exit_acks

\* Every exit is acknowledged once: when the supervisor lets go of an operation
\* that ran there is an acknowledgement of it, there never are two, and there
\* is none of a running process.  One of an operation that was asked to stop
\* says why, although the reason comes by another way than the signal.
ExitsReported ==
    /\ \A o \in Operations :
          LET n == Cardinality({j \in 1 .. Len(Buffered) : Buffered[j].operation = o})
                     + Cardinality({a \in told : a.operation = o})
          IN  /\ n <= 1
              /\ n = 1 => process[o] = "exited"
              /\ process[o] = "exited" /\ owned[o].state # "Physical" => n = 1
    /\ \A a \in Range(Buffered) \cup told : a.stopped => a.cause # "None"

\* The kernel is not accused of what it did not do: a receipt is recognised,
\* however late it is read and however its operation ended, unless it was
\* behind more receipts than a tick reads when the runtime closed; as long as
\* the supervisor has had room for its operations and for their tombstones, so
\* is every cancellation; and no invocation conflicts with another.
NoFalseAccusation ==
    /\ "ObservationOutcomeMismatch" \in accused => unread
    /\ "UnknownCancellation" \in accused =>
          overflowed \/ "TombstoneCapacityExceeded" \in accused
    /\ ~("ConflictingInvocation" \in accused)

\* A process that cannot be stopped.
Unstoppable ==
    \E o \in Operations : /\ owned[o].state = "Physical" /\ process[o] = "running"
                          /\ owned[o].forces = MaxForces /\ ~owned[o].forced

\* A retirement comes to its end, past failing signals, lost cancellations,
\* full queues and channels, and an exhausted sequence, unless a process
\* cannot be stopped or the kernel no longer reduces anything.
RetirementCompletes == retirement ~> (closed \/ ~lane \/ Unstoppable)
=============================================================================
