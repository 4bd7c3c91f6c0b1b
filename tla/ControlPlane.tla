---------------------------- MODULE ControlPlane ----------------------------
(***************************************************************************)
(* The control plane around the tool engine: clients, the authority and    *)
(* the provider runtimes on their own threads (gate4agent-handle), the     *)
(* bounded ingress they share, and the kernel thread that drains it,       *)
(* reduces it with the tool engine (gate4agent-kernel) and publishes the   *)
(* step back to the edge.                                                  *)
(*                                                                         *)
(* An action is what one thread does under the locks it holds.  The engine *)
(* and the bindings of the kernel belong to the kernel thread: while it    *)
(* reduces, what the others do commutes with it, and they wait here.  The  *)
(* control engine appears as a command that stops the agent or exhausts a  *)
(* counter.  Left out: subscriptions (a completion counts when it is       *)
(* offered), the cancellation flags, foreign handles, the end of the port. *)
(***************************************************************************)
EXTENDS ToolEngine, Sequences

CONSTANTS
    IngressCapacity, \* of the channel into the kernel
    DrainLimit,      \* items of one step
    WorkCapacity,    \* effect_capacity of a provider runtime
    MaxRuntimes,     \* MAX_PROVIDER_RUNTIMES
    MaxSequence,     \* u64::MAX of the provider runtime sequence
    MaxControl,      \* bound: control commands
    Deadlines        \* deadlines that clients ask for

ASSUME EdgeAssumption ==
    /\ {IngressCapacity, DrainLimit, WorkCapacity, MaxRuntimes, MaxSequence}
          \subseteq Nat \ {0}
    /\ MaxControl \in Nat /\ Deadlines \subseteq 1 .. MaxTick
    /\ MaxTick >= 1 /\ MaxAuthority >= 2

VARIABLES
    ingress,         \* the channel
    kernel,          \* the step in progress: its phase and what it carries
    lane,            \* tool_lane_open: the control health is not terminal
    binding,         \* provider_bindings of the kernel; 0: none
    last_sequence,   \* last_provider_sequence of the kernel
    exhausted,       \* provider_sequence_exhausted of the kernel
    current,         \* bindings of the runtime registry; 0: none
    foreign,         \* foreign_bindings of the registry
    next_sequence, sequence_exhausted,  \* of the registry
    runtime,         \* per binding id, the ProviderBindingState
    published,       \* available_provider_bindings at the edge
    lifecycle,       \* per client
    sending,         \* per client, the request a dispatch is about to send
    closing,         \* closing_by_sequence
    next_authority_sequence,
    commands,        \* control commands sent
    offered,         \* history: completions offered to their clients
    via              \* history: the binding its request was sent to, per key

kernel_vars == <<kernel, lane, binding, last_sequence, exhausted, via>>
registry_vars == <<current, foreign, next_sequence, sequence_exhausted>>
client_vars == <<lifecycle, sending, closing, next_authority_sequence>>
plane_vars == <<vars, ingress, kernel_vars, registry_vars, runtime, published,
                client_vars, commands, offered>>

Bindings == 1 .. MaxSequence
None == 0
NotSending == [kind |-> "None"]

Phase(pc) == kernel.pc = pc
Between == ~(kernel.pc \in {"reduce", "reject", "drain"})
Room == Len(ingress) < IngressCapacity

\* Mutant: the channel has no bound.
Send_Unbounded(item) == ingress' = Append(ingress, item)

\* try_send
Send(item) == Room /\ ingress' = Append(ingress, item)

-----------------------------------------------------------------------------
(* Clients and the authority.                                              *)

\* Mutant: the lock is not taken.
Unlocked_Ignored(c) == TRUE

\* No dispatch holds the client's lock.
Unlocked(c) == sending[c] = NotSending

\* dispatch, under the client's lock: an active client reads the published
\* binding of the provider; without one the provider, which the published
\* snapshot lists from the start, is unavailable ...
Dispatch(k, pk, d) ==
    /\ lifecycle[k.client].state = "Active"
    /\ Unlocked(k.client)
    /\ pk.client = k.client
    /\ published[pk.provider] # None
    /\ sending' = [sending EXCEPT ![k.client] =
          [kind |-> "Request", key |-> k, policy |-> pk, deadline |-> d,
           binding |-> published[pk.provider]]]
    /\ UNCHANGED <<vars, ingress, kernel_vars, registry_vars, runtime, published,
                   lifecycle, closing, next_authority_sequence, commands, offered>>

\* ... and sends it along with the request, unless the channel is full.
DispatchSend(c) ==
    /\ sending[c] # NotSending
    /\ sending' = [sending EXCEPT ![c] = NotSending]
    /\ \/ Send(sending[c])
       \/ ~Room /\ UNCHANGED ingress
    /\ UNCHANGED <<vars, kernel_vars, registry_vars, runtime, published, lifecycle,
                   closing, next_authority_sequence, commands, offered>>

\* close_client, under the locks of the authority and of the client: the
\* client is inactive from here on; the command is sent once.
CloseClient(c) ==
    /\ lifecycle[c].state \in {"Active", "ClosingRetry"}
    /\ Unlocked(c)
    /\ next_authority_sequence < MaxAuthority
    /\ \/ /\ Send([kind |-> "CloseClient", sequence |-> next_authority_sequence,
                   client |-> c])
          /\ next_authority_sequence' = next_authority_sequence + 1
          /\ closing' = closing \cup {[sequence |-> next_authority_sequence, client |-> c]}
          /\ lifecycle' = [lifecycle EXCEPT ![c] =
                [state |-> "ClosingSent", sequence |-> next_authority_sequence]]
       \/ /\ ~Room
          /\ lifecycle' = [lifecycle EXCEPT ![c] = [state |-> "ClosingRetry", sequence |-> 0]]
          /\ UNCHANGED <<ingress, next_authority_sequence, closing>>
    /\ UNCHANGED <<vars, kernel_vars, registry_vars, runtime, published, sending,
                   commands, offered>>

\* dispatch of the authority: here the resolution of an approval.
DispatchApproval(k, n) ==
    /\ next_authority_sequence < MaxAuthority
    /\ requests[k].status = "AwaitingApproval"
    /\ requests[k].accepted = n
    /\ Send([kind |-> "Approve", sequence |-> next_authority_sequence, key |-> k,
             nonce |-> n])
    /\ next_authority_sequence' = next_authority_sequence + 1
    /\ UNCHANGED <<vars, kernel_vars, registry_vars, runtime, published, lifecycle,
                   sending, closing, commands, offered>>

\* A control command enters the channel.
DispatchControl(i) ==
    /\ commands < MaxControl
    /\ commands' = commands + 1
    /\ Send([kind |-> "Control", instance |-> i])
    /\ UNCHANGED <<vars, kernel_vars, registry_vars, runtime, published, client_vars,
                   offered>>

-----------------------------------------------------------------------------
(* Provider runtimes.                                                      *)

Unbound == [life |-> "None"]

\* closing_retry keeps the sequence of an attach that is still on its way.
ClosingRetry(r) ==
    [r EXCEPT !.life = "ClosingRetry",
              !.sequence = IF r.life \in {"AttachSent", "ClosingRetry"} THEN @ ELSE 0]

\* cancel_all_operations; no more work can be sent to a runtime that is shut.
Emptied(r) == [r EXCEPT !.operations = {}, !.settled = {}]
Shut(r) == [r EXCEPT !.open = FALSE]
Silenced(r) == Shut(Emptied(r))

\* fault_binding_locked
Faulted(r) ==
    Silenced(IF r.life \in {"AttachSent", "Active", "Quiescing", "ClosingRetry"}
             THEN ClosingRetry(r) ELSE r)

\* retire_binding; what is pending is answered with RuntimeClosed.
Retired(r) ==
    [Silenced(r) EXCEPT !.life = "Closed", !.sequence = 0, !.pending = {},
                        !.receipts = MinOf(WorkCapacity, @ + Cardinality(r.pending))]

Serves(r) == r.life \in {"Active", "Quiescing"}
Opened(r) == Serves(r) \/ r.life = "AttachSent"

commit_sequence(s) ==
    /\ sequence_exhausted' = (sequence_exhausted \/ s = MaxSequence)
    /\ next_sequence' = IF s = MaxSequence THEN next_sequence ELSE s + 1

bind_provider(p) ==
    LET s == next_sequence
    IN  /\ ~sequence_exhausted
        /\ Cardinality({q \in Providers : current[q] # None}) < MaxRuntimes
        /\ current[p] = None /\ foreign[p] = None
        /\ Send([kind |-> "Attach", sequence |-> s, provider |-> p, binding |-> s])
        /\ commit_sequence(s)
        /\ current' = [current EXCEPT ![p] = s]
        /\ runtime' = [runtime EXCEPT ![s] =
              [life |-> "AttachSent", sequence |-> s, provider |-> p, open |-> TRUE,
               work |-> <<>>, operations |-> {}, settled |-> {}, pending |-> {},
               receipts |-> 0, tickets |-> {}, closing |-> FALSE]]
        /\ UNCHANGED <<vars, kernel_vars, foreign, published, client_vars, commands,
                       offered>>

Bound(b) == runtime[b].life # "None"

\* Its handle belongs to one thread, which is not inside request_close.
Free(b) == Bound(b) /\ ~runtime[b].closing
IsCurrent(b) == current[runtime[b].provider] = b

\* request_close, by the handle or its drop, or by the kernel's retry.  Before
\* it takes a lock it cancels and forgets the operations ...
BeginClose(b) ==
    /\ Free(b) /\ Opened(runtime[b])
    /\ runtime' = [runtime EXCEPT ![b] = [Emptied(@) EXCEPT !.closing = TRUE]]
    /\ UNCHANGED <<vars, ingress, kernel_vars, registry_vars, published, client_vars,
                   commands, offered>>

\* ... and what the kernel hands out until it holds the locks, r is left with.
request_close(b, r) ==
    LET detach == [kind |-> "Detach", sequence |-> next_sequence,
                   provider |-> r.provider, binding |-> b]
        refused == UNCHANGED <<ingress, next_sequence, sequence_exhausted>>
        Becomes(x) == runtime' = [runtime EXCEPT ![b] = x]
    IN  \/ ~IsCurrent(b) /\ refused /\ Becomes(Retired(r))
        \/ /\ IsCurrent(b) /\ sequence_exhausted /\ refused
           /\ Becomes(IF r.life = "Closed" THEN r ELSE Shut(ClosingRetry(r)))
        \/ /\ IsCurrent(b) /\ ~sequence_exhausted /\ r.life \in {"DetachSent", "Closed"}
           /\ refused /\ Becomes(r)
        \/ /\ IsCurrent(b) /\ ~sequence_exhausted /\ ~(r.life \in {"DetachSent", "Closed"})
           /\ \/ /\ Send(detach) /\ commit_sequence(next_sequence)
                 /\ Becomes([Shut(r) EXCEPT !.life = "DetachSent",
                                            !.sequence = next_sequence])
              \/ ~Room /\ refused /\ Becomes(Shut(ClosingRetry(r)))

\* Nobody sees what a runtime that takes no more effects forgets first.
CloseRuntime(b) ==
    /\ Bound(b)
    /\ \/ runtime[b].closing /\ request_close(b, [runtime[b] EXCEPT !.closing = FALSE])
       \/ Free(b) /\ ~Opened(runtime[b]) /\ request_close(b, Emptied(runtime[b]))
    /\ UNCHANGED <<vars, kernel_vars, current, foreign, published, client_vars,
                   commands, offered>>

begin_quiesce(b) ==
    /\ Free(b)
    /\ IsCurrent(b) => runtime[b].life = "Active"
    /\ runtime' = [runtime EXCEPT ![b] =
          IF IsCurrent(b) THEN [@ EXCEPT !.life = "Quiescing"] ELSE Retired(@)]
    /\ UNCHANGED <<vars, ingress, kernel_vars, registry_vars, published, client_vars,
                   commands, offered>>

\* try_recv: an invocation becomes a ticket, a cancellation is only a notice.
try_recv(b) ==
    /\ Free(b) /\ Serves(runtime[b])
    /\ runtime[b].work # <<>>
    /\ runtime' = [runtime EXCEPT
          ![b].work = Tail(@),
          ![b].tickets = @ \cup {e \in {Head(runtime[b].work)} : e.kind = "Invoke"}]
    /\ UNCHANGED <<vars, ingress, kernel_vars, registry_vars, published, client_vars,
                   commands, offered>>

\* try_complete and submit_observation.
try_complete(b, e) ==
    LET s == next_sequence
        r == [runtime[b] EXCEPT !.tickets = @ \ {e},
                                !.pending = @ \cup {[sequence |-> s, effect |-> e]}]
    IN  /\ Bound(b) /\ e \in runtime[b].tickets
        /\ ~sequence_exhausted
        /\ IsCurrent(b) /\ Serves(runtime[b])
        /\ Send([kind |-> "Observe", sequence |-> s, provider |-> r.provider,
                 binding |-> b, effect |-> e])
        /\ commit_sequence(s)
        /\ runtime' = [runtime EXCEPT ![b] =
              IF s = MaxSequence THEN Silenced([r EXCEPT !.life = "ClosingRetry", !.sequence = 0])
              ELSE r]
        /\ UNCHANGED <<vars, kernel_vars, current, foreign, published, client_vars,
                       commands, offered>>

try_recv_observation_outcome(b) ==
    /\ Free(b) /\ runtime[b].receipts > 0
    /\ runtime' = [runtime EXCEPT ![b].receipts = @ - 1]
    /\ UNCHANGED <<vars, ingress, kernel_vars, registry_vars, published, client_vars,
                   commands, offered>>

-----------------------------------------------------------------------------
(* The kernel thread: one step.                                            *)

Resting == [pc |-> "idle", batch |-> <<>>, provider |-> <<>>, authority |-> <<>>,
            effects |-> {}, completions |-> {}, closed |-> {},
            flush |-> {}]

NoEngine == UNCHANGED vars
Outside == UNCHANGED <<registry_vars, runtime, published, client_vars, commands, offered>>

\* flush_closing_bindings: the kernel looks at every registered runtime ...
BeginStep ==
    /\ Phase("idle")
    /\ kernel' = [kernel EXCEPT !.pc = "flush",
                                !.flush = {current[p] : p \in Providers} \ {None}]
    /\ UNCHANGED <<vars, ingress, lane, binding, last_sequence, exhausted, via>>
    /\ Outside

\* ... and one that waits to be closed asks again.
FlushBinding(b) ==
    /\ Phase("flush") /\ b \in kernel.flush
    /\ kernel' = [kernel EXCEPT !.flush = @ \ {b}]
    /\ IF runtime[b].life = "ClosingRetry" THEN request_close(b, Emptied(runtime[b]))
       ELSE UNCHANGED <<ingress, next_sequence, sequence_exhausted, runtime>>
    /\ UNCHANGED <<vars, lane, binding, last_sequence, exhausted, via, current,
                   foreign, published, client_vars, commands, offered>>

ProviderKinds == {"Attach", "Detach", "Observe"}
AuthorityKinds == {"CloseClient", "Approve"}

ProviderOutcome(item, result) ==
    [sequence |-> item.sequence, provider |-> item.provider,
     binding |-> item.binding, result |-> result]

AuthorityOutcome(item, closed) == <<[sequence |-> item.sequence, closed |-> closed]>>

\* drain_ingress and the start of step_control_plane: the clock advances;
\* after its last tick a step rejects everything it drained.
DrainIngress ==
    LET n == MinOf(Len(ingress), DrainLimit)
        items == SubSeq(ingress, 1, n)
    IN  /\ Phase("flush") /\ kernel.flush = {}
        /\ ingress' = SubSeq(ingress, n + 1, Len(ingress))
        /\ \/ /\ tick < MaxTick
              /\ advance_time(tick + 1)
              /\ kernel' = [kernel EXCEPT !.pc = "reduce", !.batch = items]
           \/ /\ tick = MaxTick
              /\ NoEngine
              /\ kernel' = [kernel EXCEPT !.pc = "reject", !.batch = items]
        /\ UNCHANGED <<lane, binding, last_sequence, exhausted, via>>
        /\ Outside

\* One item of the batch is done.
Reduced(provider, authority) ==
    kernel' = [kernel EXCEPT !.batch = Tail(@), !.provider = @ \o provider,
                             !.authority = @ \o authority]

\* blocked_step: every command and observation of the batch is turned away.
RejectItem ==
    LET item == Head(kernel.batch)
    IN  /\ Phase("reject")
        /\ \/ /\ kernel.batch # <<>>
              /\ Reduced(IF item.kind \in ProviderKinds
                         THEN <<ProviderOutcome(item, "IntegrationBlocked")>> ELSE <<>>,
                         IF item.kind \in AuthorityKinds
                         THEN AuthorityOutcome(item, FALSE) ELSE <<>>)
           \/ kernel.batch = <<>> /\ kernel' = [kernel EXCEPT !.pc = "outcomes"]
        /\ NoEngine
        /\ UNCHANGED <<ingress, lane, binding, last_sequence, exhausted, via>>
        /\ Outside

\* All bindings go once the last sequence is used; no item is reduced before.
Retiring == exhausted /\ \E p \in Providers : binding[p] # None

Reducing(kinds) ==
    /\ Phase("reduce") /\ ~Retiring
    /\ kernel.batch # <<>>
    /\ Head(kernel.batch).kind \in kinds

\* A control command: the agent stops and the tool engine follows
\* (sync_control_instance), or a counter of the control engine is exhausted
\* and both lanes close.
ReduceControl ==
    LET i == Head(kernel.batch).instance
    IN  /\ Reducing({"Control"})
        /\ Reduced(<<>>, <<>>)
        /\ \/ lane /\ set_instance_inactive(i, generations[i]) /\ UNCHANGED lane
           \/ lane' \in {lane, FALSE} /\ NoEngine
        /\ UNCHANGED <<ingress, binding, last_sequence, exhausted, via>>
        /\ Outside

\* Mutant: any binding will do.
Admitted_AnyBinding(item) == lane /\ binding[item.policy.provider] # None

\* A tool request reaches the engine only with the binding of the moment.
Admitted(item) ==
    lane /\ item.binding # None /\ binding[item.policy.provider] = item.binding

ReduceRequest ==
    LET item == Head(kernel.batch)
        acceptable == Acceptable(item.key, item.policy, item.deadline)
    IN  /\ Reducing({"Request"})
        /\ Reduced(<<>>, <<>>)
        /\ \/ /\ Admitted(item) /\ request(item.key, item.policy, item.deadline)
              /\ via' = [via EXCEPT ![item.key] = item.binding]
           \/ ~(Admitted(item) /\ acceptable) /\ NoEngine /\ UNCHANGED via
        /\ UNCHANGED <<ingress, lane, binding, last_sequence, exhausted>>
        /\ Outside

\* The two authority envelopes: the end of a client ...
ReduceClose ==
    LET item == Head(kernel.batch)
    IN  /\ Reducing({"CloseClient"})
        /\ \/ /\ lane /\ close_client(item.sequence, item.client)
              /\ Reduced(<<>>, AuthorityOutcome(item, TRUE))
           \/ /\ ~(lane /\ item.sequence > last_authority_sequence) /\ NoEngine
              /\ Reduced(<<>>, AuthorityOutcome(item, FALSE))
        /\ UNCHANGED <<ingress, lane, binding, last_sequence, exhausted, via>>
        /\ Outside

\* ... and an approval, which the engine refuses out of its order, for a
\* request that does not wait, or when an operation or effect is not left.
Approvable(item) ==
    LET q == requests[item.key]
    IN  /\ lane
        /\ item.sequence > last_authority_sequence
        /\ Resolvable(item.key, item.nonce, q.instance, q.generation)
        /\ q.deadline > tick => ensure_operation_capacity /\ ensure_effect_capacity

ReduceApproval ==
    LET item == Head(kernel.batch)
        q == requests[item.key]
    IN  /\ Reducing({"Approve"})
        /\ Reduced(<<>>, AuthorityOutcome(item, FALSE))
        /\ IF Approvable(item)
           THEN resolve_approval(item.sequence, item.key, item.nonce, q.instance,
                                 q.generation, "ApproveOnce")
           ELSE NoEngine
        /\ UNCHANGED <<ingress, lane, binding, last_sequence, exhausted, via>>
        /\ Outside

\* reduce_provider_runtime: the sequence is consumed first, whatever follows.
ReduceProvider ==
    LET item == Head(kernel.batch)
        p == item.provider
        held == binding[p] = item.binding
        Result(r) == Reduced(<<ProviderOutcome(item, r)>>, <<>>)
        Bind(b) == binding' = [binding EXCEPT ![p] = b]
        Rejected(r) == Result(r) /\ NoEngine /\ UNCHANGED binding
    IN  /\ Reducing(ProviderKinds)
        /\ IF exhausted THEN Rejected("SequenceExhausted") /\ UNCHANGED <<last_sequence, exhausted>>
           ELSE IF item.sequence <= last_sequence
           THEN Rejected("SequenceRegressed") /\ UNCHANGED <<last_sequence, exhausted>>
           ELSE /\ last_sequence' = item.sequence
                /\ exhausted' = (item.sequence = MaxSequence)
                /\ CASE ~lane -> Rejected("IntegrationBlocked")
                     [] lane /\ item.kind = "Attach" /\ binding[p] = None ->
                          Result("Attached") /\ Bind(item.binding) /\ NoEngine
                     [] lane /\ item.kind = "Detach" /\ held ->
                          Result("Detached") /\ Bind(None) /\ detach_provider_runtime(p)
                     [] lane /\ item.kind = "Observe" /\ held ->
                          /\ UNCHANGED binding
                          /\ \/ /\ apply_observation(p, item.effect, "Succeeded")
                                /\ Result("Applied")
                             \/ ~Answers(p, item.effect) /\ NoEngine /\ Result("Ignored")
                     [] OTHER -> Rejected("NotHeld")
        /\ UNCHANGED <<ingress, lane, via>>
        /\ Outside

\* retire_exhausted_provider_bindings
RetireExhausted(p) ==
    /\ Phase("reduce") /\ exhausted
    /\ binding[p] # None
    /\ detach_provider_runtime(p)
    /\ binding' = [binding EXCEPT ![p] = None]
    /\ UNCHANGED <<ingress, kernel, lane, last_sequence, exhausted, via>>
    /\ Outside

\* drain_bound_tool_effects: one unbound effect loses the whole batch.
DrainEffects ==
    LET unbound == \E e \in effects : binding[e.provider] = None
        BoundTo(e) == [effect |-> e, binding |-> binding[e.provider]]
    IN  /\ Phase("reduce") /\ ~Retiring /\ kernel.batch = <<>>
        /\ \/ lane /\ drain_effects
           \/ ~(lane /\ effects # {}) /\ NoEngine
        /\ kernel' = [kernel EXCEPT !.pc = "drain",
              !.effects = IF lane /\ ~unbound THEN {BoundTo(e) : e \in effects} ELSE {}]
        /\ UNCHANGED <<ingress, lane, binding, last_sequence, exhausted, via>>
        /\ Outside

DrainCompletions ==
    /\ Phase("drain")
    /\ \/ drain_completions
       \/ completions = {} /\ NoEngine
    /\ kernel' = [kernel EXCEPT !.pc = "outcomes", !.completions = completions]
    /\ UNCHANGED <<ingress, lane, binding, last_sequence, exhausted, via>>
    /\ Outside

-----------------------------------------------------------------------------
(* publish_step, in its fixed order.                                       *)

PublishOnly == UNCHANGED <<vars, ingress, lane, binding, last_sequence, exhausted, via,
                           commands>>

\* Mutant: a settled operation is forgotten at once.
Receipted_Forgets(r, outcome) ==
    LET mine == {o \in r.pending : o.sequence = outcome.sequence}
    IN  IF mine = {} THEN r
        ELSE [r EXCEPT !.pending = @ \ mine,
                       !.operations = @ \ {o.effect.operation : o \in mine}]

\* publish_observation_outcome: the receipt of a submitted observation; one
\* that is rejected, or that nobody takes, faults the runtime.
Receipted(r, outcome) ==
    LET mine == {o \in r.pending : o.sequence = outcome.sequence}
        good == outcome.result \in {"Applied", "Ignored"}
        room == r.receipts < WorkCapacity
        kept == [r EXCEPT !.pending = @ \ mine,
                          !.settled = IF good THEN @ \cup ({o.effect.operation : o \in mine}
                                                           \cap r.operations) ELSE @,
                          !.receipts = IF room THEN @ + 1 ELSE @]
    IN  IF mine = {} THEN r ELSE IF good /\ room THEN kept ELSE Faulted(kept)

\* Mutant: a detach that was turned away is taken for done.
Concluded_GivesUp(r, b, outcome) ==
    IF r.sequence = outcome.sequence /\ r.life = "AttachSent" /\ outcome.result = "Attached"
    THEN [r EXCEPT !.life = "Active", !.sequence = 0]
    ELSE IF r.sequence = outcome.sequence /\ r.life \in {"AttachSent", "DetachSent"}
    THEN Retired(r) ELSE r

\* The runtime's lifecycle after the outcome of its attach or detach.  A
\* failed attach leaves nothing to detach, whenever it is heard of; a detach
\* that was only turned away is retried.
Concluded(r, b, outcome) ==
    LET failed == ~(outcome.result \in {"Attached", "Detached", "Applied", "Ignored"})
        turned == outcome.result \in {"IntegrationBlocked", "SequenceRegressed"}
        own(life) == r.life = life /\ r.sequence = outcome.sequence
        dead == \/ own("AttachSent") /\ failed
                \/ r.life \in {"ClosingRetry", "DetachSent"} /\ failed /\ outcome.sequence = b
                \/ own("DetachSent") /\ ~turned
    IN  IF dead THEN Retired(r)
        ELSE IF own("AttachSent") THEN [r EXCEPT !.life = "Active", !.sequence = 0]
        ELSE IF own("DetachSent") THEN [r EXCEPT !.life = "ClosingRetry", !.sequence = 0]
        ELSE r

PublishOutcome ==
    /\ Phase("outcomes")
    /\ \/ /\ kernel.provider # <<>>
          /\ kernel' = [kernel EXCEPT !.provider = Tail(@)]
          /\ LET outcome == Head(kernel.provider)
                 p == outcome.provider
                 b == outcome.binding
                 r == Concluded(Receipted(runtime[b], outcome), b, outcome)
             IN  IF current[p] # b THEN UNCHANGED <<current, runtime>>
                 ELSE /\ runtime' = [runtime EXCEPT ![b] = r]
                      /\ current' = [current EXCEPT ![p] = IF r.life = "Closed" THEN None ELSE @]
       \/ /\ kernel.provider = <<>>
          /\ kernel' = [kernel EXCEPT !.pc = "effects"]
          /\ UNCHANGED <<current, runtime>>
    /\ UNCHANGED <<foreign, next_sequence, sequence_exhausted, published, client_vars, offered>>
    /\ PublishOnly

\* publish_effect, for a runtime that serves: an invocation adds its
\* operation, a cancellation takes it away; a misfit faults the runtime, and
\* so does a full work queue.
Delivered(r, e) ==
    LET fits == IF e.kind = "Invoke" THEN ~(e.operation \in r.operations)
                                     ELSE e.operation \in r.operations
        next == [r EXCEPT !.work = Append(@, e),
                          !.operations = IF e.kind = "Invoke" THEN @ \cup {e.operation}
                                                              ELSE @ \ {e.operation}]
    IN  IF fits /\ r.open /\ Len(r.work) < WorkCapacity THEN next
        ELSE Silenced([r EXCEPT !.life = "ClosingRetry", !.sequence = 0])

PublishEffect ==
    /\ Phase("effects")
    /\ \/ \E x \in kernel.effects :
            LET p == x.effect.provider
                b == x.binding
            IN  /\ kernel' = [kernel EXCEPT !.effects = @ \ {x}]
                /\ runtime' = IF current[p] = b /\ Serves(runtime[b])
                              THEN [runtime EXCEPT ![b] = Delivered(@, x.effect)]
                              ELSE runtime
       \/ /\ kernel.effects = {}
          /\ kernel' = [kernel EXCEPT !.pc = "reconcile"]
          /\ UNCHANGED runtime
    /\ UNCHANGED <<registry_vars, published, client_vars, offered>>
    /\ PublishOnly

\* finish_step and reconcile_snapshot: settled operations go; a runtime that
\* the kernel does not hold although its command was reduced is retired.
WasReduced(r) ==
    r.life \in {"AttachSent", "DetachSent", "ClosingRetry"} => last_sequence >= r.sequence

Reconcile ==
    LET gone == {p \in Providers :
                   /\ current[p] # None
                   /\ \/ exhausted
                      \/ binding[p] # current[p] /\ WasReduced(runtime[current[p]])}
        kept == {current[p] : p \in Providers \ gone} \ {None}
        retired == {current[p] : p \in gone}
    IN  /\ Phase("reconcile")
        /\ kernel' = [kernel EXCEPT !.pc = "edge"]
        /\ current' = [p \in Providers |-> IF p \in gone THEN None ELSE current[p]]
        /\ runtime' = [b \in Bindings |->
              CASE b \in kept -> [runtime[b] EXCEPT !.operations = @ \ runtime[b].settled,
                                                    !.settled = {}]
                [] b \in retired -> Retired(runtime[b])
                [] OTHER -> runtime[b]]
        /\ sequence_exhausted' = (sequence_exhausted \/ exhausted)
        /\ next_sequence' = IF ~sequence_exhausted' /\ last_sequence >= next_sequence
                            THEN last_sequence + 1 ELSE next_sequence
        /\ foreign' = [p \in Providers |-> IF binding[p] # current'[p] THEN binding[p] ELSE None]
        /\ UNCHANGED <<published, client_vars, offered>>
        /\ PublishOnly

\* publish_control_plane: the snapshot and the bindings that are active.
PublishEdge ==
    /\ Phase("edge")
    /\ kernel' = [kernel EXCEPT !.pc = "authority"]
    /\ published' = [p \in Providers |->
          IF current[p] # None /\ runtime[current[p]].life = "Active"
          THEN current[p] ELSE None]
    /\ UNCHANGED <<registry_vars, runtime, client_vars, offered>>
    /\ PublishOnly

\* Mutant: the client is disconnected with the outcome of its close.
StateAfter_AtOnce(closed) == IF closed THEN "Closed" ELSE "ClosingRetry"

StateAfter(closed) == IF closed THEN "CloseSucceeded" ELSE "ClosingRetry"

\* publish_authority_outcome: a client whose close was reduced has closed, one
\* whose close failed may close again.
PublishAuthority ==
    /\ Phase("authority")
    /\ \/ /\ kernel.authority # <<>>
          /\ LET outcome == Head(kernel.authority)
                 mine == {x \in closing : x.sequence = outcome.sequence}
                 cs == {x.client : x \in mine}
             IN  /\ \A c \in cs : Unlocked(c)
                 /\ kernel' = [kernel EXCEPT !.authority = Tail(@),
                       !.closed = IF outcome.closed THEN @ \cup cs ELSE @]
                 /\ closing' = closing \ mine
                 /\ lifecycle' = [c \in Clients |->
                       IF c \in cs
                       THEN [state |-> StateAfter(outcome.closed), sequence |-> 0]
                       ELSE lifecycle[c]]
       \/ /\ kernel.authority = <<>>
          /\ kernel' = [kernel EXCEPT !.pc = "completions"]
          /\ UNCHANGED <<closing, lifecycle>>
    /\ UNCHANGED <<registry_vars, runtime, published, sending, next_authority_sequence,
                   offered>>
    /\ PublishOnly

\* publish_completions: to every client that is still registered.
PublishCompletions ==
    /\ Phase("completions")
    /\ kernel' = [kernel EXCEPT !.pc = "finalize", !.completions = {}]
    /\ offered' = offered \cup {x.accepted : x \in {y \in kernel.completions :
                                    lifecycle[y.key.client].state # "Closed"}}
    /\ UNCHANGED <<registry_vars, runtime, published, client_vars>>
    /\ PublishOnly

\* finalize_client_close
FinalizeCloses ==
    /\ Phase("finalize")
    /\ kernel' = Resting
    /\ lifecycle' = [c \in Clients |->
          IF c \in kernel.closed THEN [state |-> "Closed", sequence |-> 0] ELSE lifecycle[c]]
    /\ UNCHANGED <<registry_vars, runtime, published, sending, closing,
                   next_authority_sequence, offered>>
    /\ PublishOnly

-----------------------------------------------------------------------------
\* The providers are registered, the agent runs, and every client holds a
\* grant; nothing is bound yet.
PlaneInit ==
    /\ tick = 1
    /\ generations \in [Instances -> Generations]
    /\ instance_states = [i \in Instances |-> "Active"]
    /\ providers = Providers
    /\ \E mode \in GrantModes :
          grants = [pk \in PolicyKeys |->
                      IF /\ generations[pk.instance] = pk.generation
                         /\ pk.resource \in Offers[pk.provider]
                         /\ OwnerAdmits(pk.provider, pk.client)
                      THEN mode ELSE "None"]
    /\ requests = [k \in Keys |-> Vacant]
    /\ effects = {} /\ completions = {} /\ dropped = {}
    /\ last_authority_sequence = 1
    /\ next_request_sequence = 1 /\ next_operation_id = 1
    /\ next_effect_sequence = 1 /\ next_completion_sequence = 1
    /\ delivered = {} /\ received = {} /\ approved = {}
    /\ grant_sequence = [pk \in PolicyKeys |-> 1]
    /\ policy_sequence = [pk \in PolicyKeys |-> 1]
    /\ ingress = <<>>
    /\ kernel = Resting
    /\ lane = TRUE
    /\ binding = [p \in Providers |-> None]
    /\ last_sequence = 0 /\ exhausted = FALSE
    /\ current = [p \in Providers |-> None]
    /\ foreign = [p \in Providers |-> None]
    /\ next_sequence = 1 /\ sequence_exhausted = FALSE
    /\ runtime = [b \in Bindings |-> Unbound]
    /\ published = [p \in Providers |-> None]
    /\ lifecycle = [c \in Clients |-> [state |-> "Active", sequence |-> 0]]
    /\ sending = [c \in Clients |-> NotSending]
    /\ closing = {}
    /\ next_authority_sequence = 2
    /\ commands = 0
    /\ offered = {}
    /\ via = [k \in Keys |-> None]

EdgeNext ==
    /\ Between
    /\ \/ \E k \in Keys, pk \in PolicyKeys, d \in Deadlines : Dispatch(k, pk, d)
       \/ \E c \in Clients : DispatchSend(c) \/ CloseClient(c)
       \/ \E k \in Keys, n \in Sequences : DispatchApproval(k, n)
       \/ \E i \in Instances : DispatchControl(i)
       \/ \E p \in Providers : bind_provider(p)
       \/ \E b \in Bindings : \/ BeginClose(b) \/ CloseRuntime(b) \/ begin_quiesce(b)
                              \/ try_recv(b) \/ try_recv_observation_outcome(b)
       \/ \E b \in Bindings, e \in delivered : try_complete(b, e)

KernelNext ==
    \/ BeginStep \/ (\E b \in Bindings : FlushBinding(b)) \/ DrainIngress
    \/ ReduceControl \/ ReduceRequest \/ ReduceClose \/ ReduceApproval
    \/ ReduceProvider \/ RejectItem
    \/ (\E p \in Providers : RetireExhausted(p))
    \/ DrainEffects \/ DrainCompletions
    \/ PublishOutcome \/ PublishEffect \/ Reconcile \/ PublishEdge
    \/ PublishAuthority \/ PublishCompletions \/ FinalizeCloses

PlaneNext == EdgeNext \/ KernelNext

PlaneSpec == PlaneInit /\ [][PlaneNext]_plane_vars

-----------------------------------------------------------------------------
(* Properties.                                                             *)

LifeStates == {"AttachSent", "Active", "Quiescing", "ClosingRetry", "DetachSent",
               "Closed"}

RuntimeState ==
    [life : LifeStates, sequence : 0 .. MaxSequence, provider : Providers,
     open : BOOLEAN, work : Seq(EffectEnvelope), operations : SUBSET Sequences,
     settled : SUBSET Sequences,
     pending : SUBSET [sequence : Bindings, effect : EffectEnvelope],
     receipts : 0 .. WorkCapacity, tickets : SUBSET EffectEnvelope, closing : BOOLEAN]

\* The engine, the channel, the registry, the runtimes and the clients have
\* their types and keep to their capacities.
PlaneTypeOK ==
    /\ TypeOK
    /\ Len(ingress) <= IngressCapacity
    /\ lane \in BOOLEAN /\ exhausted \in BOOLEAN /\ sequence_exhausted \in BOOLEAN
    /\ {binding, current, foreign, published} \subseteq [Providers -> 0 .. MaxSequence]
    /\ last_sequence \in 0 .. MaxSequence /\ next_sequence \in Bindings
    /\ \A b \in Bindings : \/ runtime[b] = Unbound
                           \/ /\ runtime[b] \in RuntimeState
                              /\ Len(runtime[b].work) <= WorkCapacity
    /\ lifecycle \in [Clients -> [state : {"Active", "ClosingSent", "ClosingRetry",
                                           "CloseSucceeded", "Closed"},
                                  sequence : 0 .. MaxAuthority]]
    /\ next_authority_sequence \in 1 .. MaxAuthority

\* Every effect of the engine can be delivered: its provider is bound when the
\* effects are drained (one that is not would cost the whole batch); its
\* runtime, while it serves, does not know the operation of an invocation, and
\* knows that of a cancellation unless its handle is inside request_close,
\* which has forgotten it.  So an effect faults no runtime that is not about to
\* close (drain_bound_tool_effects, publish_effect, finish_step).
EffectsDeliverable ==
    /\ \A e \in effects : binding[e.provider] # None
    /\ \A x \in kernel.effects :
          LET r == runtime[x.binding]
          IN  current[x.effect.provider] = x.binding /\ Serves(r) =>
                /\ x.effect.operation \in r.operations => x.effect.kind = "Cancel"
                /\ x.effect.kind = "Cancel" =>
                      x.effect.operation \in r.operations \/ r.closing

\* A request runs in the runtime its client saw when it dispatched, never in
\* one that replaced it while the request was in the channel, waited for an
\* approval or was being published (ToolClientHandle::dispatch, the binding
\* check of step_control_plane, publish_effect).
RunsWhereSent ==
    \A b \in Bindings : Bound(b) =>
        \A e \in {runtime[b].work[j] : j \in 1 .. Len(runtime[b].work)}
                    \cup runtime[b].tickets :
            e.kind = "Invoke" /\ requests[e.key].status # "Vacant"
              /\ requests[e.key].operation = e.operation
              => via[e.key] = b

InChannel == kernel.batch \o ingress

\* A client that closes says nothing more: behind its close there is neither
\* a request nor a second close of it in the channel, and once the close is
\* reduced no request of it is active (close_client, dispatch).
NothingFollowsClose ==
    /\ \A j, m \in 1 .. Len(InChannel) :
          LET a == InChannel[j]
              z == InChannel[m]
          IN  j < m /\ a.kind = "CloseClient" =>
                /\ z.kind = "CloseClient" => z.client # a.client
                /\ z.kind = "Request" => z.key.client # a.client
    /\ \A c \in Clients : lifecycle[c].state \in {"CloseSucceeded", "Closed"} =>
          /\ \A k \in Keys : k.client = c => ~Active(k)
          /\ sending[c] = NotSending

\* A client is disconnected only after the completion of what the table holds
\* of it under each of its keys was offered to it or counted as dropped, the
\* ClientClosed ones of its own close included
\* (publish_step, finalize_client_close).
OfferedBeforeClosed ==
    \A k \in Keys :
        lifecycle[k.client].state = "Closed" /\ requests[k].status # "Vacant" =>
            requests[k].accepted \in offered \cup dropped

\* Between two steps of the kernel the registry and the kernel agree: a
\* runtime that serves is the one the kernel has bound, and what the kernel has
\* bound is registered, so that somebody can still detach it.  That ends with
\* the last sequence: a runtime that is closed once more then forgets its
\* attach on its way, and the kernel retires what it bound (closing_retry,
\* publish_outcome, reconcile_snapshot).
RegistryAgrees ==
    Phase("idle") => \A p \in Providers :
        /\ current[p] # None /\ Serves(runtime[current[p]]) => binding[p] = current[p]
        /\ binding[p] # None => current[p] = binding[p] \/ sequence_exhausted
=============================================================================
