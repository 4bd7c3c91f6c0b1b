----------------------------- MODULE ToolEngine -----------------------------
(***************************************************************************)
(* The capability (tool) authority of gate4agent: the pure single-writer   *)
(* reducer of crates/gate4agent-tool-engine/src/engine.rs.  Clients ask    *)
(* for a capability of a provider on behalf of an agent instance; the      *)
(* engine evaluates the policy, asks for an approval where the grant says  *)
(* so, queues Invoke and Cancel effects for the providers, applies what    *)
(* they answer and queues one terminal completion per accepted request.    *)
(*                                                                         *)
(* A call that the code rejects with an error changes nothing and is a     *)
(* stuttering step.  The audit ring, the revision counter and the payload  *)
(* bytes are left out; a payload is kept as the fact that it is retained.  *)
(* The effect and completion vectors are sets: their members are distinct  *)
(* (operation ids and accepted sequences are) and only their length, never *)
(* their order, is read by the code.                                       *)
(***************************************************************************)
EXTENDS Integers, FiniteSets

CONSTANTS
    Instances,          \* AgentInstanceId
    Clients,            \* (consumer_id, actor_id) pairs
    ConsumerOf,         \* [Clients -> consumer]
    RequestIds,         \* a client's own request ids
    Providers,          \* ToolProviderId
    Owner,              \* [Providers -> consumer or Gate]: the descriptor
    Gate,
    Resources,          \* (capability_id, resource_scope_id) pairs
    Offers,             \* [Providers -> SUBSET Resources]: the descriptor
    Generations,        \* SessionGeneration values in use
    MaxTick,            \* the last logical tick (u64::MAX)
    MaxAuthority,       \* u64::MAX of the authority sequence
    MaxU64,             \* u64::MAX of the other counters
    MaxProviders,       \* TOOL_PROVIDERS_MAX
    MaxPolicies,        \* TOOL_POLICIES_MAX
    MaxRequests,        \* TOOL_REQUESTS_MAX
    MaxActivePerClient, \* TOOL_ACTIVE_REQUESTS_PER_CLIENT_MAX
    MaxCompletions      \* TOOL_COMPLETIONS_MAX

ASSUME FiniteAssumption ==
    /\ IsFiniteSet(Instances) /\ IsFiniteSet(Clients) /\ IsFiniteSet(RequestIds)
    /\ IsFiniteSet(Providers) /\ IsFiniteSet(Resources)
    /\ Generations \subseteq Nat /\ IsFiniteSet(Generations)

ASSUME BoundsAssumption ==
    /\ MaxTick \in Nat /\ MaxU64 \in Nat \ {0} /\ MaxAuthority \in Nat
    /\ MaxProviders \in Nat /\ MaxPolicies \in Nat /\ MaxRequests \in Nat
    /\ MaxActivePerClient \in Nat /\ MaxCompletions \in Nat

VARIABLES
    tick,                     \* current_tick
    generations,              \* per instance, NoGeneration when unknown
    instance_states,          \* per instance, "Unknown" when unknown
    providers,                \* registered providers
    grants,                   \* per policy key, "None" when there is no grant
    requests,                 \* per request key, Vacant when not stored
    effects,                  \* queued Invoke and Cancel effects
    completions,              \* queued terminal completions
    dropped,                  \* accepted sequences of dropped completions
    last_authority_sequence,
    next_request_sequence,
    next_operation_id,
    next_effect_sequence,     \* MaxU64 + 1: effect_sequence_exhausted
    next_completion_sequence, \* MaxU64 + 1: completion_sequence_exhausted
    \* History, read by no action of the engine:
    delivered,                \* effects handed to the providers
    received,                 \* accepted sequences of completions handed out
    approved,                 \* accepted sequences an ApproveOnce has named
    grant_sequence,           \* authority sequence that set each grant
    policy_sequence           \* highest authority sequence about each policy key

authority_vars == <<providers, generations, instance_states, grants>>
id_vars == <<next_request_sequence, next_operation_id>>
request_vars == <<requests, effects, completions, dropped,
                  next_effect_sequence, next_completion_sequence>>
history == <<delivered, received, approved, grant_sequence, policy_sequence>>
vars == <<tick, authority_vars, request_vars, last_authority_sequence, id_vars,
          history>>

-----------------------------------------------------------------------------
(* Data. *)

NoGeneration == -1
NoOperation == 0
\* Mutant: one effect per request.
TOOL_EFFECTS_MAX_Single == MaxRequests
TOOL_EFFECTS_MAX == 2 * MaxRequests

Keys == [client : Clients, id : RequestIds]
PolicyKeys == [client : Clients, instance : Instances, generation : Generations,
               provider : Providers, resource : Resources]
GrantModes == {"Allow", "RequireApproval"}

ActiveStatuses == {"AwaitingApproval", "Dispatched"}
ClosedStatuses == {"GrantRevoked", "TimedOut", "Superseded", "InstanceClosed",
                   "ClientClosed", "ProviderDetached"}
TerminalStatuses ==
    {"Denied", "Succeeded", "Failed", "ApprovalDenied"} \cup ClosedStatuses

CancellationDisposition ==
    {"NotRequired", "QueuedInvokeRemoved", "CancelQueuedUnconfirmed",
     "ProviderDetachedUnconfirmed", "DroppedQueueFull",
     "DroppedSequenceExhausted"}

\* A stored request: AcceptedRequest and its snapshot.
RequestRecord ==
    [status : ActiveStatuses \cup TerminalStatuses,
     instance : Instances, generation : Generations, provider : Providers,
     resource : Resources, deadline : 1..MaxTick, accepted : 1..MaxU64,
     decision : {"Deny", "RequireApproval", "Allow"}, operation : 0..MaxU64,
     cancellation : CancellationDisposition, payload : {"Present", "Erased"}]

\* The slot of a key that the request table does not hold.
Vacant == [status |-> "Vacant"]

EffectEnvelope ==
    [kind : {"Invoke", "Cancel"}, key : Keys, operation : 1..MaxU64,
     instance : Instances, generation : Generations, provider : Providers,
     resource : Resources, payload : {"Present", "Erased"}]

CompletionEnvelope ==
    [key : Keys, accepted : 1..MaxU64, operation : 0..MaxU64,
     outcome : TerminalStatuses, cancellation : CancellationDisposition]

MinOf(a, b) == IF a <= b THEN a ELSE b
MaxOf(a, b) == IF a >= b THEN a ELSE b

Active(k) == requests[k].status \in ActiveStatuses
is_terminal(k) == requests[k].status \in TerminalStatuses
Stored == {k \in Keys : requests[k].status # "Vacant"}

PolicyKeyOf(k, q) ==
    [client |-> k.client, instance |-> q.instance, generation |-> q.generation,
     provider |-> q.provider, resource |-> q.resource]

EffectOf(kind, k, q, payload) ==
    [kind |-> kind, key |-> k, operation |-> q.operation,
     instance |-> q.instance, generation |-> q.generation,
     provider |-> q.provider, resource |-> q.resource,
     payload |-> payload]

CompletionOf(k, q) ==
    [key |-> k, accepted |-> q.accepted, operation |-> q.operation,
     outcome |-> q.status, cancellation |-> q.cancellation]

-----------------------------------------------------------------------------
Init ==
    /\ tick = 0
    /\ generations = [i \in Instances |-> NoGeneration]
    /\ instance_states = [i \in Instances |-> "Unknown"]
    /\ providers = {}
    /\ grants = [pk \in PolicyKeys |-> "None"]
    /\ requests = [k \in Keys |-> Vacant]
    /\ effects = {} /\ completions = {} /\ dropped = {}
    /\ last_authority_sequence = 0
    /\ next_request_sequence = 1 /\ next_operation_id = 1
    /\ next_effect_sequence = 1 /\ next_completion_sequence = 1
    /\ delivered = {} /\ received = {} /\ approved = {}
    /\ grant_sequence = [pk \in PolicyKeys |-> 0]
    /\ policy_sequence = [pk \in PolicyKeys |-> 0]

-----------------------------------------------------------------------------
(* Queues. *)

ensure_effect_capacity ==
    /\ next_effect_sequence <= MaxU64
    /\ Cardinality(effects) < TOOL_EFFECTS_MAX

ensure_operation_capacity == next_operation_id < MaxU64

\* Mutant: the counter is read and not advanced.
allocate_operation_Reused == UNCHANGED next_operation_id

allocate_operation == next_operation_id' = next_operation_id + 1

\* Queue the terminal completions `new`.  Each one takes a sequence number;
\* what no longer fits in the queue, or comes after the last number, is
\* counted as dropped.  Which ones of several are dropped depends on the
\* order of their keys.
push_terminal_completions(new) ==
    LET left == MaxU64 + 1 - next_completion_sequence
        room == MaxCompletions - Cardinality(completions)
        numbered == MinOf(Cardinality(new), left)
    IN  \E kept \in SUBSET new :
            /\ Cardinality(kept) = MinOf(numbered, room)
            /\ completions' = completions \cup kept
            /\ dropped' = dropped \cup {c.accepted : c \in new \ kept}
            /\ next_completion_sequence' = next_completion_sequence + numbered

emit_invoke(k, q, payload) ==
    /\ effects' = effects \cup {EffectOf("Invoke", k, q, payload)}
    /\ next_effect_sequence' = next_effect_sequence + 1

\* Mutant: the queue is not searched before a request is closed.
queued_invoke_Ignored(k) == {}

queued_invoke(k) ==
    {e \in effects : /\ e.kind = "Invoke"
                     /\ e.key = k
                     /\ e.operation = requests[k].operation}

\* The requests T become terminal with `status`.
Closed(T, status, cancellation) ==
    [k \in Keys |->
        IF k \in T
        THEN [requests[k] EXCEPT !.status = status, !.payload = "Erased",
                                 !.cancellation = cancellation[k]]
        ELSE requests[k]]

\* Close every request of T: an invocation that is still queued is removed;
\* one that a provider may have is followed by a Cancel while the queue and
\* its sequence allow it (a Cancel may use the place of a removed Invoke,
\* when the key of the latter comes first).
cancel_and_close(T, status) ==
    LET removed == UNION {queued_invoke(k) : k \in T}
        recalled == {e.key : e \in removed}
        flying == {k \in T : requests[k].status = "Dispatched"} \ recalled
        left == MaxU64 + 1 - next_effect_sequence
        room == TOOL_EFFECTS_MAX - Cardinality(effects)
        most == MinOf(Cardinality(flying), left)
    IN  \E sent \in SUBSET flying :
          /\ Cardinality(sent) >= MinOf(most, room)
          /\ Cardinality(sent) <= most
          /\ Cardinality(sent) <= room + Cardinality(removed)
          /\ \E lost \in [flying \ sent ->
                    {d \in {"DroppedQueueFull", "DroppedSequenceExhausted"} :
                        IF d = "DroppedQueueFull"
                        THEN Cardinality(sent) >= room
                        ELSE Cardinality(sent) = left}] :
               LET cancellation ==
                     [k \in T |->
                        CASE k \in recalled -> "QueuedInvokeRemoved"
                          [] k \in sent -> "CancelQueuedUnconfirmed"
                          [] k \in flying \ sent -> lost[k]
                          [] OTHER -> "NotRequired"]
               IN /\ requests' = Closed(T, status, cancellation)
                  /\ effects' = (effects \ removed) \cup
                         {EffectOf("Cancel", k, requests'[k], "Erased") : k \in sent}
                  /\ next_effect_sequence' =
                         next_effect_sequence + Cardinality(sent)
                  /\ push_terminal_completions(
                         {CompletionOf(k, requests'[k]) : k \in T})

-----------------------------------------------------------------------------
(* Providers, instances and the clock. *)

register_provider(p) ==
    /\ p \notin providers
    /\ Cardinality(providers) < MaxProviders
    /\ providers' = providers \cup {p}
    /\ UNCHANGED <<tick, generations, instance_states, grants, request_vars,
                   last_authority_sequence, id_vars, history>>

DetachDisposition(k) ==
    IF queued_invoke(k) # {} THEN "QueuedInvokeRemoved"
    ELSE IF requests[k].status = "Dispatched"
         THEN "ProviderDetachedUnconfirmed" ELSE "NotRequired"

\* The provider's runtime is gone: no Cancel can reach it, and everything
\* queued for it is discarded, the Cancels of closed requests included.
detach_provider_runtime(p) ==
    LET T == {k \in Keys : Active(k) /\ requests[k].provider = p}
    IN  /\ p \in providers
        /\ requests' = Closed(T, "ProviderDetached",
                              [k \in T |-> DetachDisposition(k)])
        /\ effects' = {e \in effects : e.provider # p}
        /\ push_terminal_completions({CompletionOf(k, requests'[k]) : k \in T})
        /\ UNCHANGED <<tick, authority_vars, last_authority_sequence, id_vars,
                       next_effect_sequence, history>>

set_generation(i, g) ==
    /\ generations[i] = NoGeneration \/ g > generations[i]
    /\ generations' = [generations EXCEPT ![i] = g]
    /\ instance_states' = [instance_states EXCEPT
                              ![i] = IF @ = "Unknown" THEN "Active" ELSE @]
    /\ grants' = [pk \in PolicyKeys |->
                     IF pk.instance = i /\ pk.generation # g
                     THEN "None" ELSE grants[pk]]
    /\ cancel_and_close({k \in Keys : /\ Active(k)
                                      /\ requests[k].instance = i
                                      /\ requests[k].generation # g},
                        "Superseded")
    /\ UNCHANGED <<tick, providers, last_authority_sequence, id_vars,
                   history>>

purge_instance_grants(i) ==
    grants' = [pk \in PolicyKeys |->
                  IF pk.instance = i THEN "None" ELSE grants[pk]]

close_instance_requests(i) ==
    cancel_and_close({k \in Keys : Active(k) /\ requests[k].instance = i},
                     "InstanceClosed")

set_instance_active(i, g) ==
    /\ generations[i] = g
    /\ instance_states[i] # "Active"
    /\ instance_states' = [instance_states EXCEPT ![i] = "Active"]
    /\ UNCHANGED <<tick, generations, providers, grants, request_vars,
                   last_authority_sequence, id_vars, history>>

set_instance_inactive(i, g) ==
    /\ generations[i] = g
    /\ instance_states[i] # "Inactive"
    /\ instance_states' = [instance_states EXCEPT ![i] = "Inactive"]
    /\ purge_instance_grants(i)
    /\ close_instance_requests(i)
    /\ UNCHANGED <<tick, generations, providers, last_authority_sequence,
                   id_vars, history>>

remove_instance(i) ==
    /\ generations[i] # NoGeneration
    /\ generations' = [generations EXCEPT ![i] = NoGeneration]
    /\ instance_states' = [instance_states EXCEPT ![i] = "Unknown"]
    /\ purge_instance_grants(i)
    /\ close_instance_requests(i)
    /\ UNCHANGED <<tick, providers, last_authority_sequence, id_vars,
                   history>>

\* Mutant: a request may still be answered at its deadline.
expired_Late(t) == {k \in Keys : Active(k) /\ requests[k].deadline < t}

expired(t) == {k \in Keys : Active(k) /\ requests[k].deadline <= t}

timeout_requests(T) == cancel_and_close(T, "TimedOut")

advance_time(t) ==
    /\ t > tick
    /\ tick' = t
    /\ timeout_requests(expired(t))
    /\ UNCHANGED <<authority_vars, last_authority_sequence, id_vars, history>>

-----------------------------------------------------------------------------
(* The authority lane: policy, approvals and the end of a client.          *)

\* The envelope's sequence is consumed by a command that is reduced without
\* error, and only by such a one.
\* Mutant: only the latest envelope is recognised as a repetition.
apply_authority_Unordered(s) ==
    /\ s # last_authority_sequence
    /\ last_authority_sequence' = s

apply_authority(s) ==
    /\ s > last_authority_sequence
    /\ last_authority_sequence' = s

\* Mutant: a request that is already dispatched is left alone.
active_requests_for_key_Waiting(pk) ==
    {k \in Keys : /\ requests[k].status = "AwaitingApproval"
                  /\ PolicyKeyOf(k, requests[k]) = pk}

active_requests_for_key(pk) ==
    {k \in Keys : Active(k) /\ PolicyKeyOf(k, requests[k]) = pk}

OwnerAdmits(p, c) == Owner[p] \in {Gate, ConsumerOf[c]}

set_grant(s, pk, mode) ==
    /\ apply_authority(s)
    /\ pk.provider \in providers
    /\ pk.resource \in Offers[pk.provider]
    /\ OwnerAdmits(pk.provider, pk.client)
    /\ generations[pk.instance] = pk.generation
    /\ instance_states[pk.instance] = "Active"
    /\ grants[pk] = "None" =>
           Cardinality({x \in PolicyKeys : grants[x] # "None"}) < MaxPolicies
    /\ grants' = [grants EXCEPT ![pk] = mode]
    /\ cancel_and_close(
           IF grants[pk] \in {"None", mode} THEN {} ELSE active_requests_for_key(pk),
           "GrantRevoked")
    /\ grant_sequence' = [grant_sequence EXCEPT ![pk] = s]
    /\ policy_sequence' = [policy_sequence EXCEPT ![pk] = MaxOf(@, s)]
    /\ UNCHANGED <<tick, generations, instance_states, providers, id_vars,
                   delivered, received, approved>>

\* Revoking a grant that does not exist only consumes the sequence.
revoke_grant(s, pk) ==
    /\ apply_authority(s)
    /\ grants' = [grants EXCEPT ![pk] = "None"]
    /\ cancel_and_close(
           IF grants[pk] = "None" THEN {} ELSE active_requests_for_key(pk),
           "GrantRevoked")
    /\ policy_sequence' = [policy_sequence EXCEPT ![pk] = MaxOf(@, s)]
    /\ UNCHANGED <<tick, generations, instance_states, providers, id_vars,
                   delivered, received, approved, grant_sequence>>

close_client(s, c) ==
    /\ apply_authority(s)
    /\ grants' = [pk \in PolicyKeys |->
                     IF pk.client = c THEN "None" ELSE grants[pk]]
    /\ cancel_and_close({k \in Keys : Active(k) /\ k.client = c}, "ClientClosed")
    /\ policy_sequence' = [pk \in PolicyKeys |->
                              IF pk.client = c THEN MaxOf(policy_sequence[pk], s)
                              ELSE policy_sequence[pk]]
    /\ UNCHANGED <<tick, generations, instance_states, providers, id_vars,
                   delivered, received, approved, grant_sequence>>

\* What every resolution is checked for: it names the acceptance it was shown
\* (the nonce), and the instance is still active in that generation.
\* Mutant: a resolution is matched by key, not by acceptance.
Resolvable_AnyNonce(k, n, i, g) ==
    /\ requests[k].status = "AwaitingApproval"
    /\ generations[requests[k].instance] = g
    /\ instance_states[requests[k].instance] = "Active"
    /\ requests[k].instance = i
    /\ requests[k].generation = g

\* Mutant: a request that is already resolved is resolved again.
Resolvable_Again(k, n, i, g) ==
    /\ requests[k].status # "Vacant"
    /\ requests[k].accepted = n
    /\ generations[requests[k].instance] = g
    /\ instance_states[requests[k].instance] = "Active"
    /\ requests[k].instance = i
    /\ requests[k].generation = g

Resolvable(k, n, i, g) ==
    /\ requests[k].status = "AwaitingApproval"
    /\ requests[k].accepted = n
    /\ generations[requests[k].instance] = g
    /\ instance_states[requests[k].instance] = "Active"
    /\ requests[k].instance = i
    /\ requests[k].generation = g

\* ApproveOnce: one invocation, carrying the payload that was retained for it.
approve_once(k, n) ==
    /\ ensure_operation_capacity
    /\ ensure_effect_capacity
    /\ requests' = [requests EXCEPT ![k].status = "Dispatched",
                                    ![k].operation = next_operation_id,
                                    ![k].payload = "Erased"]
    /\ allocate_operation
    /\ emit_invoke(k, requests'[k], requests[k].payload)
    /\ approved' = approved \cup {n}
    /\ UNCHANGED <<completions, dropped, next_completion_sequence>>

deny_approval(k) ==
    /\ requests' = [requests EXCEPT ![k].status = "ApprovalDenied",
                                    ![k].payload = "Erased"]
    /\ push_terminal_completions({CompletionOf(k, requests'[k])})
    /\ UNCHANGED <<approved, effects, next_effect_sequence,
                   next_operation_id>>

\* A resolution that finds the deadline behind the clock expires the request.
resolve_approval(s, k, n, i, g, verdict) ==
    /\ apply_authority(s)
    /\ Resolvable(k, n, i, g)
    /\ IF requests[k].deadline <= tick
       THEN timeout_requests({k}) /\ UNCHANGED <<approved, next_operation_id>>
       ELSE IF verdict = "ApproveOnce" THEN approve_once(k, n)
                                       ELSE deny_approval(k)
    /\ UNCHANGED <<tick, authority_vars, next_request_sequence, delivered,
                   received, grant_sequence, policy_sequence>>

-----------------------------------------------------------------------------
(* Requests, the providers' answers and the two drains.                    *)

evaluate_policy(pk) ==
    IF /\ generations[pk.instance] = pk.generation
       /\ instance_states[pk.instance] = "Active"
       /\ pk.provider \in providers
       /\ OwnerAdmits(pk.provider, pk.client)
       /\ pk.resource \in Offers[pk.provider]
       /\ grants[pk] # "None"
    THEN grants[pk] ELSE "Deny"

\* Mutant: the oldest request is evicted, terminal or not.
ensure_request_capacity_AnyStatus(k) ==
    IF is_terminal(k) \/ Cardinality(Stored) < MaxRequests
    THEN {{}}
    ELSE {{v} : v \in {x \in Stored : \A y \in Stored :
                           requests[x].accepted <= requests[y].accepted}}

\* The keys to remove before a request under k can be stored: none when k is
\* stored already or there is room, else the terminal one accepted first.  The
\* set is empty when no choice is possible and the request is refused.
ensure_request_capacity(k) ==
    IF is_terminal(k) \/ Cardinality(Stored) < MaxRequests
    THEN {{}}
    ELSE {{v} : v \in {x \in Keys : /\ is_terminal(x)
                                    /\ \A y \in Keys : is_terminal(y) =>
                                         requests[x].accepted <= requests[y].accepted}}

\* Mutant: the last sequence number is given out.
ensure_correlation_capacity_Last == next_request_sequence <= MaxU64

ensure_correlation_capacity == next_request_sequence < MaxU64

ensure_client_request_capacity(c) ==
    Cardinality({k \in Keys : k.client = c /\ Active(k)}) < MaxActivePerClient

StatusFor(decision) ==
    CASE decision = "Deny" -> "Denied"
      [] decision = "RequireApproval" -> "AwaitingApproval"
      [] decision = "Allow" -> "Dispatched"

\* What request checks before it changes anything.
Acceptable(k, pk, d) ==
    LET decision == evaluate_policy(pk)
    IN  /\ d > tick
        /\ ~Active(k)
        /\ ensure_correlation_capacity
        /\ decision = "Allow" => ensure_operation_capacity /\ ensure_effect_capacity
        /\ decision # "Deny" => ensure_client_request_capacity(k.client)
        /\ ensure_request_capacity(k) # {}

request(k, pk, d) ==
    LET decision == evaluate_policy(pk)
        q == [status |-> StatusFor(decision),
              instance |-> pk.instance, generation |-> pk.generation,
              provider |-> pk.provider, resource |-> pk.resource,
              deadline |-> d, accepted |-> next_request_sequence,
              decision |-> decision,
              operation |-> IF decision = "Allow" THEN next_operation_id
                                                  ELSE NoOperation,
              cancellation |-> "NotRequired",
              payload |-> IF decision = "RequireApproval" THEN "Present" ELSE "Erased"]
    IN  /\ Acceptable(k, pk, d)
        /\ \E evicted \in ensure_request_capacity(k) :
               requests' = [x \in Keys |-> IF x = k THEN q
                                           ELSE IF x \in evicted THEN Vacant
                                           ELSE requests[x]]
        /\ next_request_sequence' = next_request_sequence + 1
        /\ IF decision = "Allow"
           THEN /\ allocate_operation
                /\ emit_invoke(k, q, "Present")
           ELSE UNCHANGED <<next_operation_id, effects, next_effect_sequence>>
        /\ IF decision = "Deny"
           THEN push_terminal_completions({CompletionOf(k, q)})
           ELSE UNCHANGED <<completions, dropped, next_completion_sequence>>
        /\ UNCHANGED <<tick, authority_vars, last_authority_sequence,
                       history>>

\* Provider p answers with the correlation of a delivered Invoke e, which
\* matches the dispatched request ...
Answers(p, e) ==
    LET q == requests[e.key]
    IN  /\ e \in delivered /\ e.kind = "Invoke"
        /\ q.status = "Dispatched"
        /\ generations[q.instance] = e.generation
        /\ q.generation = e.generation
        /\ q.instance = e.instance
        /\ q.provider = p
        /\ q.operation = e.operation

\* ... or is ignored.  An answer that is invalid as a value fails the request
\* like a reported failure; one that finds the deadline behind the clock
\* expires the request.
apply_observation(p, e, outcome) ==
    LET k == e.key
        q == requests[k]
    IN  /\ Answers(p, e)
        /\ IF q.deadline <= tick
           THEN timeout_requests({k})
           ELSE /\ requests' = [requests EXCEPT ![k].status = outcome,
                                                ![k].payload = "Erased"]
                /\ push_terminal_completions({CompletionOf(k, requests'[k])})
                /\ UNCHANGED <<effects, next_effect_sequence>>
        /\ UNCHANGED <<tick, authority_vars, last_authority_sequence, id_vars,
                       history>>

drain_effects ==
    /\ effects # {}
    /\ delivered' = delivered \cup effects
    /\ effects' = {}
    /\ UNCHANGED <<tick, authority_vars, requests, completions, dropped,
                   last_authority_sequence, id_vars, next_effect_sequence,
                   next_completion_sequence, received, approved,
                   grant_sequence, policy_sequence>>

drain_completions ==
    /\ completions # {}
    /\ received' = received \cup {c.accepted : c \in completions}
    /\ completions' = {}
    /\ UNCHANGED <<tick, authority_vars, requests, effects, dropped,
                   last_authority_sequence, id_vars, next_effect_sequence,
                   next_completion_sequence, delivered, approved,
                   grant_sequence, policy_sequence>>

-----------------------------------------------------------------------------
Ticks == 1..MaxTick
Sequences == 1..MaxU64
Outcomes == {"Succeeded", "Failed"}

Next ==
    \/ \E p \in Providers : register_provider(p)
    \/ \E p \in Providers : detach_provider_runtime(p)
    \/ \E i \in Instances, g \in Generations : set_generation(i, g)
    \/ \E i \in Instances, g \in Generations : set_instance_active(i, g)
    \/ \E i \in Instances, g \in Generations : set_instance_inactive(i, g)
    \/ \E i \in Instances : remove_instance(i)
    \/ \E t \in Ticks : advance_time(t)
    \/ \E s \in 1..MaxAuthority, pk \in PolicyKeys, mode \in GrantModes :
           set_grant(s, pk, mode)
    \/ \E s \in 1..MaxAuthority, pk \in PolicyKeys : revoke_grant(s, pk)
    \/ \E s \in 1..MaxAuthority, c \in Clients : close_client(s, c)
    \/ \E s \in 1..MaxAuthority, k \in Keys, n \in Sequences, i \in Instances,
          g \in Generations, verdict \in {"ApproveOnce", "Deny"} :
           resolve_approval(s, k, n, i, g, verdict)
    \/ \E k \in Keys, pk \in PolicyKeys, d \in Ticks :
           pk.client = k.client /\ request(k, pk, d)
    \/ \E p \in Providers, e \in delivered, outcome \in Outcomes :
           apply_observation(p, e, outcome)
    \/ drain_effects
    \/ drain_completions

Spec == Init /\ [][Next]_vars

\* The kernel advances the engine's clock at the start of every control step
\* and drains both queues at its end, so neither stops while the host runs.
FairSpec == /\ Spec
            /\ WF_vars(\E t \in Ticks : advance_time(t))
            /\ WF_vars(drain_completions)

-----------------------------------------------------------------------------
(* Properties. *)

\* Every variable has its type.
TypeOK ==
    /\ tick \in 0..MaxTick
    /\ generations \in [Instances -> Generations \cup {NoGeneration}]
    /\ instance_states \in [Instances -> {"Unknown", "Active", "Inactive"}]
    /\ providers \in SUBSET Providers
    /\ grants \in [PolicyKeys -> GrantModes \cup {"None"}]
    /\ requests \in [Keys -> RequestRecord \cup {Vacant}]
    /\ effects \in SUBSET EffectEnvelope
    /\ completions \in SUBSET CompletionEnvelope
    /\ dropped \in SUBSET Sequences
    /\ last_authority_sequence \in 0..MaxAuthority
    /\ next_request_sequence \in 1..MaxU64
    /\ next_operation_id \in 1..MaxU64
    /\ next_effect_sequence \in 1..(MaxU64 + 1)
    /\ next_completion_sequence \in 1..(MaxU64 + 1)
    /\ delivered \in SUBSET EffectEnvelope
    /\ received \in SUBSET Sequences
    /\ approved \in SUBSET Sequences
    /\ grant_sequence \in [PolicyKeys -> 0..MaxAuthority]
    /\ policy_sequence \in [PolicyKeys -> 0..MaxAuthority]

\* No invocation outlives its authority in the queue: whatever interleaving of
\* revocations, detachments, generation changes, closings and expiries came
\* before, a queued Invoke belongs to a request that is dispatched under that
\* operation, whose instance is active in that generation and whose grant is
\* still in force.  This is what the kernel hands to a provider.
InvokeAuthorized ==
    \A e \in effects : e.kind = "Invoke" =>
        LET q == requests[e.key] IN
        /\ q.status = "Dispatched"
        /\ e = EffectOf("Invoke", e.key, q, "Present")
        /\ q.deadline > tick
        /\ e.provider \in providers
        /\ generations[e.instance] = e.generation
        /\ instance_states[e.instance] = "Active"
        /\ grants[PolicyKeyOf(e.key, q)] # "None"

\* A request that is still open rests on a policy that is still there: the
\* grant it was decided under, in that mode, and the live generation of an
\* active instance.  Every way to withdraw one of them closes the request in
\* the same step.
ActiveAuthorized ==
    \A k \in Keys : Active(k) =>
        LET q == requests[k] IN
        /\ grants[PolicyKeyOf(k, q)] = q.decision
        /\ generations[q.instance] = q.generation
        /\ instance_states[q.instance] = "Active"

\* An open request has not reached its deadline, so the two checks of a passed
\* deadline in resolve_approval and apply_observation never succeed.
DeadlineAhead == \A k \in Keys : Active(k) => requests[k].deadline > tick

\* An operation is invoked at most once and cancelled at most once, and never
\* both queued and already handed out.
InvokedOnce ==
    /\ \A e, f \in effects \cup delivered :
           e.kind = f.kind /\ e.operation = f.operation => e = f
    /\ effects \cap delivered = {}

\* A closing tells the truth about what the provider may hold: it is asked to
\* cancel only an invocation it was handed in an earlier drain, and only once
\* the request is no longer dispatched; and "only QueuedInvokeRemoved proves the
\* invocation never left the engine": it does, and an operation closed with
\* another disposition did leave it.
CancelFollowsInvoke ==
    /\ \A e \in effects \cup delivered : e.kind = "Cancel" =>
          /\ \E f \in delivered : /\ f.kind = "Invoke"
                                  /\ f.operation = e.operation
                                  /\ f.key = e.key
                                  /\ f.provider = e.provider
          /\ ~(/\ requests[e.key].status = "Dispatched"
               /\ requests[e.key].operation = e.operation)
    /\ \A k \in Keys : is_terminal(k) /\ requests[k].operation # NoOperation =>
          LET invoked == \E e \in delivered : /\ e.kind = "Invoke"
                                              /\ e.operation = requests[k].operation
          IN  requests[k].cancellation = "QueuedInvokeRemoved" <=> ~invoked

\* Twice the number of requests is enough room for effects: the Cancel of an
\* invocation that a provider may hold is never lost to a full queue.
CancelNeverLostToFullQueue ==
    \A k \in Keys : requests[k].status \in ClosedStatuses =>
                        requests[k].cancellation # "DroppedQueueFull"

\* Every accepted request is settled exactly once: it is still open, or its
\* terminal completion is queued, or was handed out, or is counted as dropped.
SettledOnce ==
    LET stillopen == {requests[k].accepted : k \in {x \in Keys : Active(x)}}
        queued == {c.accepted : c \in completions}
    IN  /\ 1..(next_request_sequence - 1) = stillopen \cup queued \cup received \cup dropped
        /\ stillopen \cap (queued \cup received \cup dropped) = {}
        /\ queued \cap (received \cup dropped) = {}
        /\ received \cap dropped = {}
        /\ \A c, d \in completions : c.accepted = d.accepted => c = d

\* A request decided as RequireApproval is invoked only after an ApproveOnce
\* that named this very acceptance; one for an earlier use of the key is not
\* enough.
ApprovalBinds ==
    \A k \in Stored :
        /\ requests[k].decision = "RequireApproval"
        /\ requests[k].operation # NoOperation
        => requests[k].accepted \in approved

\* The payload is retained exactly while an approval may still need it.
PayloadRetained ==
    \A k \in Stored :
        (requests[k].payload = "Present" <=> requests[k].status = "AwaitingApproval")

\* A grant in force is the last word of the authority lane on its key: an
\* envelope that is repeated or overtaken never brings a grant back.
AuthorityLastWord ==
    \A pk \in PolicyKeys :
        grants[pk] # "None" => grant_sequence[pk] = policy_sequence[pk]

\* A terminal request is final: a late answer, approval or expiry leaves it as
\* it is until a later acceptance reuses the key or the table evicts it.
TerminalIsFinal ==
    [][\A k \in Keys : is_terminal(k) =>
           \/ requests'[k] = requests[k]
           \/ requests'[k] = Vacant
           \/ requests'[k].accepted > requests[k].accepted]_vars

\* Whoever goes away goes away completely and alone: a step that closes one
\* request because its client, instance or provider is gone leaves no open
\* request, no grant (of the client or instance) and no queued Invoke (nor, for
\* a provider, any effect) behind, and closes nobody else's requests.
CompleteStep ==
    \A k \in Keys : Active(k) =>
       LET closedAs(status) == requests'[k].status = status
           open(x) == requests'[x].status \in ActiveStatuses
           touched == {x \in Keys : Active(x) /\ ~open(x)}
       IN  /\ closedAs("ClientClosed") =>
                /\ \A x \in Keys : x.client = k.client => ~open(x)
                /\ \A pk \in PolicyKeys :
                       pk.client = k.client => grants'[pk] = "None"
                /\ \A e \in effects' : e.kind = "Invoke" => e.key.client # k.client
                /\ \A x \in touched : x.client = k.client
           /\ closedAs("InstanceClosed") =>
                /\ \A x \in Keys : open(x) =>
                       requests'[x].instance # requests[k].instance
                /\ \A pk \in PolicyKeys :
                       pk.instance = requests[k].instance => grants'[pk] = "None"
                /\ \A e \in effects' : e.kind = "Invoke" =>
                       e.instance # requests[k].instance
                /\ \A x \in touched : requests[x].instance = requests[k].instance
           /\ closedAs("ProviderDetached") =>
                /\ \A x \in Keys : open(x) =>
                       requests'[x].provider # requests[k].provider
                /\ \A e \in effects' : e.provider # requests[k].provider
                /\ \A x \in touched : requests[x].provider = requests[k].provider

\* In every step, whoever goes away goes away completely and alone.
ClosureIsComplete == [][CompleteStep]_vars

\* Whoever asked is told: every accepted request is eventually answered by a
\* completion that is handed out, or counted as dropped.
EventuallySettled ==
    \A n \in Sequences :
        n < next_request_sequence ~> n \in received \cup dropped
=============================================================================
