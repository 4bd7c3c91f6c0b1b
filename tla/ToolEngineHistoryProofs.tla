---------------------- MODULE ToolEngineHistoryProofs ----------------------
(***************************************************************************)
(* Proofs about what ToolEngine has handed out over time, for every value  *)
(* of its constants: operations are invoked and cancelled at most once and *)
(* in that order, the effect queue has room for every Cancel, approvals    *)
(* and authority envelopes count once, every accepted request is settled   *)
(* exactly once, and whoever goes away goes away completely.               *)
(*                                                                         *)
(* Every step has one of five forms (StepForms): it settles a set of open  *)
(* requests, dispatches an approved one, accepts a new one, or empties one *)
(* of the two queues.  The invariants are proved form by form.             *)
(***************************************************************************)
EXTENDS ToolEngineProofs

-----------------------------------------------------------------------------
(* The inductive invariant about the past. *)

\* The Invoke of the request under k is still queued.
Queued(k) == \E e \in effects : e.kind = "Invoke" /\ e.key = k

\* The dispatched requests whose Invoke a provider may hold.
InFlight == {k \in Keys : requests[k].status = "Dispatched" /\ ~Queued(k)}

QueuedCancels == {e \in effects : e.kind = "Cancel"}

\* A stored operation belongs to one request, and an effect with that
\* operation to the same request.
OperationsDistinct ==
    /\ \A k, x \in Stored :
           requests[k].operation = requests[x].operation
             /\ requests[k].operation # NoOperation => k = x
    /\ \A e \in effects \cup delivered, k \in Stored :
           requests[k].operation = e.operation => e.key = k

\* What was dispatched has left, or is about to.
DispatchedInvoked ==
    \A k \in Keys : requests[k].status = "Dispatched" =>
        EffectOf("Invoke", k, requests[k], "Present") \in effects \cup delivered

\* An open request was never closed, and one that waits was never dispatched.
OpenIsFresh ==
    \A k \in Keys :
        /\ Active(k) => requests[k].cancellation = "NotRequired"
        /\ requests[k].status = "AwaitingApproval" => requests[k].operation = NoOperation

\* Acceptance numbers are given out once.
AcceptedDistinct ==
    \A k, x \in Stored : requests[k].accepted = requests[x].accepted => k = x

\* The room that cancellations need.  Only a drain puts an Invoke in flight,
\* and it leaves the queue empty; from then on a queued Cancel stands for a
\* request that was in flight.
RoomForCancels ==
    /\ Cardinality(Stored) <= MaxRequests
    /\ IsFiniteSet(QueuedCancels)
    /\ Cardinality(QueuedCancels) + Cardinality(InFlight) <= MaxRequests

HistoryInv ==
    /\ OperationsDistinct
    /\ DispatchedInvoked
    /\ OpenIsFresh
    /\ AcceptedDistinct
    /\ InvokedOnce
    /\ CancelFollowsInvoke
    /\ ApprovalBinds
    /\ SettledOnce
    /\ RoomForCancels
    /\ CancelNeverLostToFullQueue

-----------------------------------------------------------------------------
(* The forms of a step. *)

\* What no settling or dispatching of a request changes in it.
SameRequest(q, r) ==
    /\ q.instance = r.instance /\ q.generation = r.generation
    /\ q.provider = r.provider /\ q.resource = r.resource
    /\ q.accepted = r.accepted /\ q.decision = r.decision

\* The completions `new` are queued or counted as dropped.
Completes(new) ==
    \E kept \in SUBSET new :
        /\ completions' = completions \cup kept
        /\ dropped' = dropped \cup {c.accepted : c \in new \ kept}

\* The open requests T become terminal, each with its completion; the Invokes
\* of T leave the queue and those of `sent`, which are in flight, are
\* cancelled; a Cancel is lost to a full queue only if there was no room.
Settles(T, sent) ==
    /\ T \in SUBSET Keys /\ sent \in SUBSET T
    /\ \A k \in T : Active(k)
    /\ sent \subseteq InFlight
    /\ \A k \in Keys \ T : requests'[k] = requests[k]
    /\ \A k \in T :
           /\ requests'[k].status \in TerminalStatuses
           /\ SameRequest(requests'[k], requests[k])
           /\ requests'[k].operation = requests[k].operation
           /\ requests'[k].cancellation = "QueuedInvokeRemoved" <=> Queued(k)
           /\ requests'[k].cancellation = "DroppedQueueFull" =>
                  /\ k \in InFlight \ sent
                  /\ Cardinality(sent) >= TOOL_EFFECTS_MAX - Cardinality(effects)
    /\ effects' \subseteq effects \cup
           {EffectOf("Cancel", k, requests'[k], "Erased") : k \in sent}
    /\ \A e \in effects : e.kind = "Invoke" => (e \in effects' <=> e.key \notin T)
    /\ Completes({CompletionOf(k, requests'[k]) : k \in T})
    /\ UNCHANGED <<id_vars, delivered, received, approved>>

\* The Invoke of a request that is dispatched now, under the next operation.
Invokes(k) ==
    /\ requests'[k].status = "Dispatched"
    /\ requests'[k].operation = next_operation_id
    /\ next_operation_id' = next_operation_id + 1
    /\ effects' = effects \cup {EffectOf("Invoke", k, requests'[k], "Present")}

\* An approved request is dispatched.
Approves(k) ==
    /\ k \in Keys /\ requests[k].status = "AwaitingApproval"
    /\ \A x \in Keys \ {k} : requests'[x] = requests[x]
    /\ SameRequest(requests'[k], requests[k])
    /\ requests'[k].cancellation = requests[k].cancellation
    /\ Invokes(k)
    /\ approved' = approved \cup {requests[k].accepted}
    /\ UNCHANGED <<completions, dropped, next_request_sequence, delivered, received>>

\* A new request is denied, waits for an approval or is dispatched, in the
\* room left by the evicted ones.
Accepts(k, evicted) ==
    /\ k \in Keys /\ ~Active(k)
    /\ evicted \in ensure_request_capacity(k)
    /\ \A x \in Keys \ {k} : requests'[x] = IF x \in evicted THEN Vacant ELSE requests[x]
    /\ requests'[k].accepted = next_request_sequence
    /\ requests'[k].cancellation = "NotRequired"
    /\ next_request_sequence' = next_request_sequence + 1
    /\ \/ /\ requests'[k].status \in {"Denied", "AwaitingApproval"}
          /\ requests'[k].operation = NoOperation
          /\ UNCHANGED <<next_operation_id, effects>>
       \/ requests'[k].decision = "Allow" /\ Invokes(k)
    /\ IF requests'[k].status = "Denied"
       THEN Completes({CompletionOf(k, requests'[k])})
       ELSE UNCHANGED <<completions, dropped>>
    /\ UNCHANGED <<delivered, received, approved>>

\* Queuing completions.
LEMMA PushCompletes ==
    ASSUME NEW new, push_terminal_completions(new)
    PROVE  Completes(new)
BY Zenon DEF push_terminal_completions, Completes

\* An Invoke is queued for a request exactly when queued_invoke finds it.
LEMMA QueuedInvoke ==
    ASSUME IndInv, NEW k \in Keys
    PROVE  /\ Queued(k) <=> queued_invoke(k) # {}
           /\ \A e \in effects : e.kind = "Invoke" /\ e.key = k => e \in queued_invoke(k)
           /\ \A e \in queued_invoke(k) : e \in effects /\ e.kind = "Invoke" /\ e.key = k
           /\ Queued(k) => requests[k].status = "Dispatched"
BY DEF IndInv, InvokeMatches, queued_invoke, Queued, EffectOf

\* Cancelling and closing settles.
LEMMA CancelSettles ==
    ASSUME IndInv, NEW T \in SUBSET Keys, \A k \in T : Active(k),
           NEW status \in ClosedStatuses, cancel_and_close(T, status),
           UNCHANGED <<id_vars, delivered, received, approved>>
    PROVE  \E sent \in SUBSET T : Settles(T, sent)
<1> DEFINE removed == UNION {queued_invoke(k) : k \in T}
           recalled == {e.key : e \in removed}
           flying == {k \in T : requests[k].status = "Dispatched"} \ recalled
           left == MaxU64 + 1 - next_effect_sequence
           room == TOOL_EFFECTS_MAX - Cardinality(effects)
           Losses(sent) == {d \in {"DroppedQueueFull", "DroppedSequenceExhausted"} :
                               IF d = "DroppedQueueFull"
                               THEN Cardinality(sent) >= room
                               ELSE Cardinality(sent) = left}
           Disposition(sent, lost) ==
               [k \in T |-> CASE k \in recalled -> "QueuedInvokeRemoved"
                              [] k \in sent -> "CancelQueuedUnconfirmed"
                              [] k \in flying \ sent -> lost[k]
                              [] OTHER -> "NotRequired"]
<1>1. PICK sent \in SUBSET flying :
         \E lost \in [flying \ sent -> Losses(sent)] :
              /\ requests' = Closed(T, status, Disposition(sent, lost))
              /\ effects' = (effects \ removed) \cup
                     {EffectOf("Cancel", k, requests'[k], "Erased") : k \in sent}
              /\ push_terminal_completions({CompletionOf(k, requests'[k]) : k \in T})
    BY Zenon DEF cancel_and_close
<1>2. PICK lost \in [flying \ sent -> Losses(sent)] :
              /\ requests' = Closed(T, status, Disposition(sent, lost))
              /\ effects' = (effects \ removed) \cup
                     {EffectOf("Cancel", k, requests'[k], "Erased") : k \in sent}
              /\ push_terminal_completions({CompletionOf(k, requests'[k]) : k \in T})
    BY <1>1
<1>3. \A k \in T : k \in recalled <=> Queued(k)
    BY QueuedInvoke DEF queued_invoke
<1>4. \A e \in effects : e \in removed <=> e.kind = "Invoke" /\ e.key \in T
    BY QueuedInvoke DEF queued_invoke
<1>5. flying \subseteq InFlight /\ flying \subseteq T
    BY <1>3 DEF InFlight
<1> DEFINE c == Disposition(sent, lost)
<1>6. ASSUME NEW k \in T
      PROVE  /\ c[k] = "QueuedInvokeRemoved" <=> Queued(k)
             /\ c[k] = "DroppedQueueFull" =>
                    k \in flying \ sent /\ Cardinality(sent) >= room
    <2>1. c[k] = CASE k \in recalled -> "QueuedInvokeRemoved"
                   [] k \in sent -> "CancelQueuedUnconfirmed"
                   [] k \in flying \ sent -> lost[k]
                   [] OTHER -> "NotRequired"
        OBVIOUS
    <2>2. k \in flying \ sent =>
              /\ lost[k] # "QueuedInvokeRemoved"
              /\ lost[k] = "DroppedQueueFull" => Cardinality(sent) >= room
        <3>. HIDE DEF flying, room, left
        <3>. QED  BY <1>2
    <2>3. k \in sent \/ k \in flying => k \notin recalled
        OBVIOUS
    <2>. HIDE DEF c, recalled, flying, room
    <2>. QED  BY <1>3, <2>1, <2>2, <2>3
<1>7. /\ \A k \in Keys \ T : requests'[k] = requests[k]
      /\ \A k \in T : requests'[k] = [requests[k] EXCEPT !.status = status,
                                        !.payload = "Erased", !.cancellation = c[k]]
    <2>1. requests' = Closed(T, status, c)
        BY <1>2
    <2>. HIDE DEF c
    <2>. QED  BY <2>1 DEF Closed
<1>. HIDE DEF c
<1>8. ASSUME NEW k \in T
      PROVE  /\ requests'[k].status \in TerminalStatuses
             /\ SameRequest(requests'[k], requests[k])
             /\ requests'[k].operation = requests[k].operation
             /\ requests'[k].cancellation = c[k]
    <2>1. requests[k] \in RequestRecord
        BY ActiveRecord DEF IndInv
    <2>2. status \in TerminalStatuses
        BY DEF TerminalStatuses
    <2> DEFINE q == requests[k]
               r == requests'[k]
               d == c[k]
    <2>3. r = [q EXCEPT !.status = status, !.payload = "Erased", !.cancellation = d]
        BY <1>7
    <2>4. q \in RequestRecord
        BY <2>1
    <2>. HIDE DEF q, r, d
    <2>5. /\ r.status = status /\ r.cancellation = d
          /\ r.operation = q.operation /\ SameRequest(r, q)
        BY <2>3, <2>4 DEF RequestRecord, SameRequest
    <2>. QED  BY <2>2, <2>5 DEF q, r, d
<1>9. Completes({CompletionOf(k, requests'[k]) : k \in T})
    BY <1>2, PushCompletes
<1>10. /\ effects' \subseteq effects \cup
              {EffectOf("Cancel", k, requests'[k], "Erased") : k \in sent}
       /\ \A e \in effects : e.kind = "Invoke" => (e \in effects' <=> e.key \notin T)
    <2>1. \A k : EffectOf("Cancel", k, requests'[k], "Erased").kind = "Cancel"
        BY DEF EffectOf
    <2>. HIDE DEF removed, recalled, flying
    <2>. QED  BY <1>2, <1>4, <2>1
<1>11. sent \in SUBSET T /\ sent \subseteq InFlight
    BY <1>5
<1>12. \A k \in T : k \in flying \ sent => k \in InFlight \ sent
    BY <1>5
<1>. HIDE DEF removed, recalled, flying, left
<1>13. \A k \in T :
           /\ requests'[k].status \in TerminalStatuses
           /\ SameRequest(requests'[k], requests[k])
           /\ requests'[k].operation = requests[k].operation
           /\ requests'[k].cancellation = "QueuedInvokeRemoved" <=> Queued(k)
           /\ requests'[k].cancellation = "DroppedQueueFull" =>
                  /\ k \in InFlight \ sent
                  /\ Cardinality(sent) >= TOOL_EFFECTS_MAX - Cardinality(effects)
    BY <1>6, <1>8, <1>12
<1>14. Settles(T, sent)
    BY <1>7, <1>9, <1>10, <1>11, <1>13, Zenon DEF Settles
<1>. QED  BY <1>11, <1>14

\* Answering or denying one request settles it.
LEMMA OneSettles ==
    ASSUME IndInv, OpenIsFresh, NEW k \in Keys, Active(k), ~Queued(k),
           NEW st \in TerminalStatuses,
           requests' = [requests EXCEPT ![k].status = st, ![k].payload = "Erased"],
           push_terminal_completions({CompletionOf(k, requests'[k])}),
           UNCHANGED <<effects, id_vars, delivered, received, approved>>
    PROVE  Settles({k}, {})
<1> DEFINE q == requests[k]
           r == requests'[k]
<1>1. q \in RequestRecord /\ q.cancellation = "NotRequired"
    BY ActiveRecord DEF IndInv, OpenIsFresh
<1>2. /\ r = [q EXCEPT !.status = st, !.payload = "Erased"]
      /\ \A x \in Keys \ {k} : requests'[x] = requests[x]
    BY DEF IndInv, TypeOK
<1>3. /\ r.status = st /\ r.cancellation = "NotRequired"
      /\ r.operation = q.operation /\ SameRequest(r, q)
    <2>. HIDE DEF q, r
    <2>. QED  BY <1>1, <1>2 DEF RequestRecord, SameRequest
<1>4. Completes({CompletionOf(x, requests'[x]) : x \in {k}})
    <2>1. {CompletionOf(x, requests'[x]) : x \in {k}} = {CompletionOf(k, requests'[k])}
        OBVIOUS
    <2>. QED  BY <2>1, PushCompletes
<1>5. \A e \in effects : e.kind = "Invoke" => e.key # k
    BY DEF Queued
<1>. HIDE DEF q, r
<1>6. \A x \in {k} :
           /\ requests'[x].status \in TerminalStatuses
           /\ SameRequest(requests'[x], requests[x])
           /\ requests'[x].operation = requests[x].operation
           /\ requests'[x].cancellation = "QueuedInvokeRemoved" <=> Queued(x)
           /\ requests'[x].cancellation # "DroppedQueueFull"
    BY <1>3 DEF q, r
<1>. QED  BY <1>2, <1>4, <1>5, <1>6, Zenon DEF Settles

\* A detached provider's requests are settled, none of them by a Cancel.
LEMMA DetachSettles ==
    ASSUME IndInv, NEW p \in Providers, detach_provider_runtime(p)
    PROVE  \E T : Settles(T, {})
<1> DEFINE T == {k \in Keys : Active(k) /\ requests[k].provider = p}
           c == [k \in T |-> DetachDisposition(k)]
<1>1. /\ requests' = Closed(T, "ProviderDetached", c)
      /\ effects' = {e \in effects : e.provider # p}
      /\ push_terminal_completions({CompletionOf(k, requests'[k]) : k \in T})
      /\ UNCHANGED <<id_vars, delivered, received, approved>>
    BY Zenon DEF detach_provider_runtime, history
<1>2. /\ \A k \in Keys \ T : requests'[k] = requests[k]
      /\ \A k \in T : requests'[k] = [requests[k] EXCEPT !.status = "ProviderDetached",
                                        !.payload = "Erased", !.cancellation = c[k]]
    <2>. HIDE DEF c, T
    <2>. QED  BY <1>1 DEF Closed, T
<1>3. ASSUME NEW k \in T
      PROVE  /\ c[k] = "QueuedInvokeRemoved" <=> Queued(k)
             /\ c[k] # "DroppedQueueFull"
    BY QueuedInvoke DEF DetachDisposition
<1>4. ASSUME NEW k \in T
      PROVE  /\ requests'[k].status \in TerminalStatuses
             /\ SameRequest(requests'[k], requests[k])
             /\ requests'[k].operation = requests[k].operation
             /\ requests'[k].cancellation = c[k]
    <2> DEFINE q == requests[k]
               r == requests'[k]
               d == c[k]
    <2>1. q \in RequestRecord
        BY ActiveRecord DEF IndInv
    <2>2. r = [q EXCEPT !.status = "ProviderDetached", !.payload = "Erased",
                        !.cancellation = d]
        BY <1>2
    <2>. HIDE DEF q, r, d
    <2>3. /\ r.status = "ProviderDetached" /\ r.cancellation = d
          /\ r.operation = q.operation /\ SameRequest(r, q)
        BY <2>1, <2>2 DEF RequestRecord, SameRequest
    <2>. QED  BY <2>3 DEF q, r, d, TerminalStatuses, ClosedStatuses
<1>5. Completes({CompletionOf(k, requests'[k]) : k \in T})
    BY <1>1, PushCompletes
<1>6. \A e \in effects : e.kind = "Invoke" => (e \in effects' <=> e.key \notin T)
    <2>. SUFFICES ASSUME NEW e \in effects, e.kind = "Invoke"
                 PROVE  e.provider = p <=> e.key \in T
        BY <1>1
    <2>1. /\ e.key \in Keys
          /\ requests[e.key].status = "Dispatched"
          /\ e.provider = requests[e.key].provider
        BY DEF IndInv, InvokeMatches, EffectOf, TypeOK, EffectEnvelope
    <2>. QED  BY <2>1 DEF Active, ActiveStatuses
<1>7. effects' \subseteq effects \cup
          {EffectOf("Cancel", k, requests'[k], "Erased") : k \in {}}
    BY <1>1
<1>8. T \in SUBSET Keys /\ \A k \in T : Active(k)
    OBVIOUS
<1>. HIDE DEF T, c
<1>9. \A k \in T :
           /\ requests'[k].status \in TerminalStatuses
           /\ SameRequest(requests'[k], requests[k])
           /\ requests'[k].operation = requests[k].operation
           /\ requests'[k].cancellation = "QueuedInvokeRemoved" <=> Queued(k)
           /\ requests'[k].cancellation # "DroppedQueueFull"
    BY <1>3, <1>4
<1>10. Settles(T, {})
    BY <1>1, <1>2, <1>5, <1>6, <1>7, <1>8, <1>9, Zenon DEF Settles
<1>. QED  BY <1>10

\* Nothing settles when nothing happens to the requests.
LEMMA QuietSettles ==
    ASSUME UNCHANGED <<requests, effects, completions, dropped, id_vars,
                       delivered, received, approved>>
    PROVE  Settles({}, {})
<1>1. Completes({})
    BY DEF Completes
<1>2. {CompletionOf(k, requests'[k]) : k \in {}} = {}
    OBVIOUS
<1>. QED  BY <1>1, <1>2 DEF Settles

\* An approval dispatches the request it names.
LEMMA ApproveForm ==
    ASSUME IndInv, NEW k \in Keys, NEW n, approve_once(k, n),
           requests[k].status = "AwaitingApproval", requests[k].accepted = n,
           UNCHANGED <<next_request_sequence, delivered, received>>
    PROVE  Approves(k)
<1> DEFINE q == requests[k]
           r == requests'[k]
<1>1. q \in RequestRecord /\ q.payload = "Present"
    BY StoredRecord DEF IndInv, PayloadRetained, Stored
<1>2. /\ r = [q EXCEPT !.status = "Dispatched", !.operation = next_operation_id,
                       !.payload = "Erased"]
      /\ \A x \in Keys \ {k} : requests'[x] = requests[x]
    BY DEF IndInv, TypeOK, approve_once
<1>3. /\ effects' = effects \cup {EffectOf("Invoke", k, requests'[k], "Present")}
      /\ next_operation_id' = next_operation_id + 1
      /\ approved' = approved \cup {requests[k].accepted}
      /\ UNCHANGED <<completions, dropped>>
    BY <1>1 DEF approve_once, emit_invoke, allocate_operation
<1>4. /\ r.status = "Dispatched" /\ r.cancellation = q.cancellation
      /\ r.operation = next_operation_id /\ SameRequest(r, q)
    <2>. HIDE DEF q, r
    <2>. QED  BY <1>1, <1>2 DEF RequestRecord, SameRequest
<1>. QED  BY <1>2, <1>3, <1>4, Zenon DEF Approves, Invokes

\* A request is accepted.
LEMMA RequestForm ==
    ASSUME IndInv, NEW k \in Keys, NEW pk \in PolicyKeys, NEW d, request(k, pk, d)
    PROVE  \E evicted : Accepts(k, evicted)
<1> DEFINE decision == evaluate_policy(pk)
           q == [status |-> StatusFor(decision),
              instance |-> pk.instance, generation |-> pk.generation,
              provider |-> pk.provider, resource |-> pk.resource,
              deadline |-> d, accepted |-> next_request_sequence,
              decision |-> decision,
              operation |-> IF decision = "Allow" THEN next_operation_id
                                                  ELSE NoOperation,
              cancellation |-> "NotRequired",
              payload |-> IF decision = "RequireApproval" THEN "Present" ELSE "Erased"]
<1>1. /\ ~Active(k)
      /\ \E evicted \in ensure_request_capacity(k) :
               requests' = [x \in Keys |-> IF x = k THEN q
                                           ELSE IF x \in evicted THEN Vacant
                                           ELSE requests[x]]
      /\ next_request_sequence' = next_request_sequence + 1
      /\ IF decision = "Allow"
         THEN /\ allocate_operation
              /\ emit_invoke(k, q, "Present")
         ELSE UNCHANGED <<next_operation_id, effects, next_effect_sequence>>
      /\ IF decision = "Deny"
         THEN push_terminal_completions({CompletionOf(k, q)})
         ELSE UNCHANGED <<completions, dropped, next_completion_sequence>>
      /\ UNCHANGED history
    BY Zenon DEF request, Acceptable
<1>2. PICK evicted \in ensure_request_capacity(k) :
               requests' = [x \in Keys |-> IF x = k THEN q
                                           ELSE IF x \in evicted THEN Vacant
                                           ELSE requests[x]]
    BY <1>1
<1>3. /\ q.accepted = next_request_sequence /\ q.cancellation = "NotRequired"
      /\ q.status = StatusFor(decision) /\ q.decision = decision
      /\ q.operation = IF decision = "Allow" THEN next_operation_id ELSE NoOperation
    OBVIOUS
<1>4. decision \in {"Deny", "Allow", "RequireApproval"}
    BY DEF evaluate_policy, IndInv, TypeOK, GrantModes
<1>. HIDE DEF decision, q
<1>5. /\ requests'[k] = q
      /\ \A x \in Keys \ {k} : requests'[x] = IF x \in evicted THEN Vacant ELSE requests[x]
    BY <1>2
<1>6. /\ decision = "Allow" => q.status = "Dispatched"
      /\ decision = "Deny" => q.status = "Denied"
      /\ decision = "RequireApproval" => q.status = "AwaitingApproval"
    BY <1>3, <1>4 DEF StatusFor
<1>7. \/ /\ requests'[k].status \in {"Denied", "AwaitingApproval"}
         /\ requests'[k].operation = NoOperation
         /\ UNCHANGED <<next_operation_id, effects>>
      \/ requests'[k].decision = "Allow" /\ Invokes(k)
    BY <1>1, <1>3, <1>4, <1>5, <1>6 DEF Invokes, emit_invoke, allocate_operation
<1>8. IF requests'[k].status = "Denied"
      THEN Completes({CompletionOf(k, requests'[k])})
      ELSE UNCHANGED <<completions, dropped>>
    BY <1>1, <1>4, <1>5, <1>6, PushCompletes
<1>9. UNCHANGED <<delivered, received, approved>>
    BY <1>1 DEF history
<1>10. Accepts(k, evicted)
    BY <1>1, <1>2, <1>3, <1>5, <1>7, <1>8, <1>9 DEF Accepts
<1>. QED  BY <1>10

\* One of the five forms.
StepForm ==
    \/ \E T, sent : Settles(T, sent)
    \/ \E k : Approves(k)
    \/ \E k, evicted : Accepts(k, evicted)
    \/ drain_effects
    \/ drain_completions

\* Every step has one of the five forms.
LEMMA StepForms ==
    ASSUME IndInv, HistoryInv, [Next]_vars
    PROVE  StepForm
<1>. USE DEF StepForm
<1>0. TypeOK /\ OpenIsFresh
    BY DEF IndInv, HistoryInv
<1>1. ASSUME NEW p \in Providers, detach_provider_runtime(p) PROVE StepForm
    BY <1>1, DetachSettles
<1>2. ASSUME NEW T, T \in SUBSET Keys, \A k \in T : Active(k),
             NEW status \in ClosedStatuses, cancel_and_close(T, status),
             UNCHANGED <<id_vars, delivered, received, approved>>
      PROVE  StepForm
    BY <1>2, CancelSettles
<1>3. ASSUME NEW i \in Instances, NEW g \in Generations, set_generation(i, g)
      PROVE  StepForm
    <2> DEFINE T == {k \in Keys : /\ Active(k)
                                  /\ requests[k].instance = i
                                  /\ requests[k].generation # g}
    <2>1. T \in SUBSET Keys /\ \A k \in T : Active(k)
        OBVIOUS
    <2>2. /\ cancel_and_close(T, "Superseded")
          /\ UNCHANGED <<id_vars, delivered, received, approved>>
        BY <1>3, Zenon DEF set_generation, history
    <2>. HIDE DEF T
    <2>. QED  BY <1>2, <2>1, <2>2 DEF ClosedStatuses
<1>4. ASSUME NEW i \in Instances, close_instance_requests(i),
             UNCHANGED <<id_vars, delivered, received, approved>>
      PROVE  StepForm
    <2> DEFINE T == {k \in Keys : Active(k) /\ requests[k].instance = i}
    <2>1. T \in SUBSET Keys /\ \A k \in T : Active(k)
        OBVIOUS
    <2>2. cancel_and_close(T, "InstanceClosed")
        BY <1>4, Zenon DEF close_instance_requests
    <2>. HIDE DEF T
    <2>. QED  BY <1>2, <1>4, <2>1, <2>2 DEF ClosedStatuses
<1>5. ASSUME NEW t \in Ticks, advance_time(t) PROVE StepForm
    <2>1. expired(t) \in SUBSET Keys /\ \A k \in expired(t) : Active(k)
        BY DEF expired
    <2>2. /\ cancel_and_close(expired(t), "TimedOut")
          /\ UNCHANGED <<id_vars, delivered, received, approved>>
        BY <1>5, Zenon DEF advance_time, timeout_requests, history
    <2>. QED  BY <1>2, <2>1, <2>2 DEF ClosedStatuses
<1>6. ASSUME NEW pk \in PolicyKeys, NEW c,
             cancel_and_close(IF c THEN {} ELSE active_requests_for_key(pk), "GrantRevoked"),
             UNCHANGED <<id_vars, delivered, received, approved>>
      PROVE  StepForm
    <2> DEFINE T == IF c THEN {} ELSE active_requests_for_key(pk)
    <2>1. T \in SUBSET Keys /\ \A k \in T : Active(k)
        BY DEF active_requests_for_key
    <2>2. cancel_and_close(T, "GrantRevoked")
        BY <1>6
    <2>. HIDE DEF T
    <2>. QED  BY <1>2, <1>6, <2>1, <2>2 DEF ClosedStatuses
<1>7. ASSUME NEW c \in Clients, NEW s, close_client(s, c) PROVE StepForm
    <2> DEFINE T == {k \in Keys : Active(k) /\ k.client = c}
    <2>1. T \in SUBSET Keys /\ \A k \in T : Active(k)
        OBVIOUS
    <2>2. /\ cancel_and_close(T, "ClientClosed")
          /\ UNCHANGED <<id_vars, delivered, received, approved>>
        BY <1>7, Zenon DEF close_client
    <2>. HIDE DEF T
    <2>. QED  BY <1>2, <2>1, <2>2 DEF ClosedStatuses
<1>8. ASSUME NEW s, NEW k \in Keys, NEW n, NEW i, NEW g, NEW verdict,
             resolve_approval(s, k, n, i, g, verdict)
      PROVE  StepForm
    <2>1. /\ Active(k) /\ requests[k].status = "AwaitingApproval"
          /\ requests[k].accepted = n
          /\ UNCHANGED <<next_request_sequence, delivered, received>>
        BY <1>8 DEF resolve_approval, Resolvable, Active, ActiveStatuses
    <2>2. ~Queued(k)
        BY <2>1, QueuedInvoke
    <2>3. CASE timeout_requests({k}) /\ UNCHANGED <<approved, next_operation_id>>
        BY <1>2, <2>1, <2>3 DEF timeout_requests, id_vars, ClosedStatuses
    <2>4. CASE approve_once(k, n)
        BY <2>1, <2>4, ApproveForm
    <2>5. CASE deny_approval(k)
        <3>1. Settles({k}, {})
            BY <1>0, <2>1, <2>2, <2>5, OneSettles DEF deny_approval, id_vars, TerminalStatuses
        <3>. QED  BY <3>1
    <2>. QED  BY <1>8, <2>3, <2>4, <2>5 DEF resolve_approval
<1>9. ASSUME NEW p, NEW e \in delivered, NEW outcome \in Outcomes,
             apply_observation(p, e, outcome)
      PROVE  StepForm
    <2> DEFINE k == e.key
    <2>1. /\ k \in Keys
          /\ Active(k)
          /\ e.kind = "Invoke" /\ requests[k].operation = e.operation
          /\ UNCHANGED <<id_vars, delivered, received, approved>>
        BY <1>0, <1>9 DEF apply_observation, Answers, Active, ActiveStatuses, TypeOK,
                          EffectEnvelope, history
    <2>2. ~Queued(k)
        BY <2>1 DEF Queued, IndInv, InvokeMatches, NotYetDelivered, EffectOf
    <2>3. CASE timeout_requests({k})
        <3>. HIDE DEF k
        <3>. QED  BY <1>2, <2>1, <2>3 DEF timeout_requests, ClosedStatuses
    <2>4. CASE /\ requests' = [requests EXCEPT ![k].status = outcome,
                                               ![k].payload = "Erased"]
               /\ push_terminal_completions({CompletionOf(k, requests'[k])})
               /\ UNCHANGED <<effects, next_effect_sequence>>
        <3>. HIDE DEF k
        <3>1. outcome \in TerminalStatuses
            BY DEF Outcomes, TerminalStatuses
        <3>2. Settles({k}, {})
            BY <1>0, <2>1, <2>2, <2>4, <3>1, OneSettles
        <3>. QED  BY <3>2
    <2>. QED  BY <1>9, <2>3, <2>4, Zenon DEF apply_observation, Answers
<1>10. ASSUME NEW k \in Keys, NEW pk \in PolicyKeys, NEW d \in Ticks, request(k, pk, d)
       PROVE  StepForm
    BY <1>10, RequestForm
<1>11. CASE UNCHANGED <<requests, effects, completions, dropped, id_vars,
                        delivered, received, approved>>
    BY <1>11, QuietSettles
<1>12. CASE \/ \E p \in Providers : register_provider(p)
            \/ \E i \in Instances, g \in Generations : set_instance_active(i, g)
            \/ UNCHANGED vars
    BY <1>11, <1>12 DEF register_provider, set_instance_active,
       vars, request_vars, id_vars, history
<1>13. CASE \E i \in Instances : \/ \E g \in Generations : set_instance_inactive(i, g)
                                 \/ remove_instance(i)
    BY <1>4, <1>13 DEF set_instance_inactive, remove_instance, id_vars, history
<1>14. CASE \E s \in 1..MaxAuthority, pk \in PolicyKeys :
               \/ \E mode \in GrantModes : set_grant(s, pk, mode)
               \/ revoke_grant(s, pk)
    <2>1. PICK s \in 1..MaxAuthority, pk \in PolicyKeys :
               \/ \E mode \in GrantModes : set_grant(s, pk, mode)
               \/ revoke_grant(s, pk)
        BY <1>14
    <2>2. UNCHANGED <<id_vars, delivered, received, approved>>
        BY <2>1 DEF set_grant, revoke_grant
    <2>3. \/ \E mode \in GrantModes :
                cancel_and_close(IF grants[pk] \in {"None", mode} THEN {}
                                 ELSE active_requests_for_key(pk), "GrantRevoked")
          \/ cancel_and_close(IF grants[pk] = "None" THEN {}
                              ELSE active_requests_for_key(pk), "GrantRevoked")
        BY <2>1, Zenon DEF set_grant, revoke_grant
    <2>. HIDE DEF StepForm
    <2>. QED  BY <1>6, <2>2, <2>3, Zenon
<1>. HIDE DEF StepForm
<1>15. drain_effects \/ drain_completions => StepForm
    BY DEF StepForm
<1>. QED
    BY <1>1, <1>3, <1>5, <1>7, <1>8, <1>9, <1>10, <1>12, <1>13, <1>14, <1>15 DEF Next

-----------------------------------------------------------------------------
(* Counting. *)

\* A function's image is no larger than its finite domain.
LEMMA RangeBound ==
    ASSUME NEW S, IsFiniteSet(S), NEW f, f = [x \in S |-> f[x]]
    PROVE  /\ IsFiniteSet({f[x] : x \in S})
           /\ Cardinality({f[x] : x \in S}) <= Cardinality(S)
<1> DEFINE R == {f[x] : x \in S}
<1>1. f \in [S -> R]
    BY Zenon
<1>2. f \in Surjection(S, R)
    BY <1>1 DEF Surjection
<1>. QED  BY <1>2, FS_Surjection

\* There are at most as many queued Invokes as stored requests, so the queue
\* holds at most twice the requests, less the invocations in flight.
LEMMA EffectsBound ==
    ASSUME IndInv, RoomForCancels
    PROVE  /\ IsFiniteSet(effects) /\ Cardinality(effects) \in Nat
           /\ IsFiniteSet(InFlight) /\ Cardinality(InFlight) \in Nat
           /\ Cardinality(effects) + Cardinality(InFlight) <= TOOL_EFFECTS_MAX
<1> DEFINE D == {k \in Keys : Queued(k)}
           f == [k \in D |-> EffectOf("Invoke", k, requests[k], "Present")]
           I == {f[k] : k \in D}
<1>1. IsFiniteSet(D) /\ IsFiniteSet(Stored) /\ IsFiniteSet(InFlight)
    BY KeySetCardinality DEF Stored, InFlight
<1>2. Cardinality(D) <= Cardinality(Stored)
    <2>1. D \subseteq Stored
        BY QueuedInvoke DEF Stored
    <2>. HIDE DEF D
    <2>. QED  BY <1>1, <2>1, FS_Subset
<1>3. f = [k \in D |-> f[k]]
    OBVIOUS
<1>4. effects = QueuedCancels \cup I
    <2>1. ASSUME NEW e \in effects, e.kind = "Invoke" PROVE e \in I
        <3>1. e.key \in D
            BY <2>1 DEF IndInv, TypeOK, EffectEnvelope, Queued
        <3>2. e = f[e.key]
            BY <2>1, <3>1 DEF IndInv, InvokeMatches
        <3>. QED  BY <3>1, <3>2
    <2>2. ASSUME NEW k \in D PROVE f[k] \in effects
        BY DEF Queued, IndInv, InvokeMatches
    <2>3. \A e \in effects : e.kind \in {"Invoke", "Cancel"}
        BY DEF IndInv, TypeOK, EffectEnvelope
    <2>. HIDE DEF D, f
    <2>. QED  BY <2>1, <2>2, <2>3 DEF QueuedCancels
<1>. HIDE DEF D, f
<1>5. IsFiniteSet(I) /\ Cardinality(I) <= Cardinality(D)
    BY <1>1, <1>3, RangeBound
<1>. HIDE DEF I
<1>6. /\ Cardinality(I) \in Nat /\ Cardinality(D) \in Nat
      /\ Cardinality(Stored) \in Nat /\ Cardinality(InFlight) \in Nat
      /\ IsFiniteSet(QueuedCancels) /\ Cardinality(QueuedCancels) \in Nat
      /\ Cardinality(QueuedCancels \cap I) \in Nat
    <2>1. IsFiniteSet(QueuedCancels \cap I)
        BY <1>5, FS_Intersection
    <2>. QED  BY <1>1, <1>5, <2>1, FS_CardinalityType DEF RoomForCancels
<1>7. /\ IsFiniteSet(effects)
      /\ Cardinality(effects) =
            Cardinality(QueuedCancels) + Cardinality(I) - Cardinality(QueuedCancels \cap I)
    BY <1>4, <1>5, <1>6, FS_Union
<1>8. Cardinality(effects) \in Nat
    BY <1>7, FS_CardinalityType
<1>. QED
    BY <1>1, <1>2, <1>5, <1>6, <1>7, <1>8, BoundsAssumption
       DEF RoomForCancels, TOOL_EFFECTS_MAX

-----------------------------------------------------------------------------
(* Settling keeps the invariant. *)

\* What a settling leaves as it was.
LEMMA SettlesFrame ==
    ASSUME IndInv, NEW T, NEW sent, Settles(T, sent), NEW k \in Keys
    PROVE  /\ SameRequest(requests'[k], requests[k])
           /\ requests'[k].operation = requests[k].operation
           /\ requests'[k].status # "Vacant" <=> requests[k].status # "Vacant"
           /\ k \in T => /\ requests[k].status \in ActiveStatuses
                         /\ requests'[k].status \in TerminalStatuses
           /\ k \notin T => requests'[k] = requests[k]
<1>1. CASE k \in T
    BY <1>1 DEF Settles, Active, ActiveStatuses, TerminalStatuses, ClosedStatuses
<1>2. CASE k \notin T
    BY <1>2 DEF Settles, SameRequest
<1>. QED  BY <1>1, <1>2

\* What it queues.
LEMMA SettlesEffects ==
    ASSUME IndInv, NEW T, NEW sent, Settles(T, sent)
    PROVE  /\ \A e \in effects' : e \in effects \/
                 \E k \in sent : e = EffectOf("Cancel", k, requests'[k], "Erased")
           /\ \A k \in sent :
                 LET e == EffectOf("Cancel", k, requests'[k], "Erased") IN
                 /\ e.kind = "Cancel" /\ e.key = k
                 /\ e.operation = requests[k].operation
                 /\ e.provider = requests[k].provider
           /\ \A k \in sent :
                 /\ k \in Keys /\ k \in T /\ k \in Stored
                 /\ requests[k].status = "Dispatched"
                 /\ requests[k].operation # NoOperation /\ ~Queued(k)
           /\ \A e : e.kind = "Invoke" => (e \in effects' <=> e \in effects /\ e.key \notin T)
           /\ delivered' = delivered
<1>1. \A e \in effects' : e \in effects \/
          \E k \in sent : e = EffectOf("Cancel", k, requests'[k], "Erased")
    BY DEF Settles
<1>2. \A k \in sent :
          /\ k \in Keys /\ k \in T /\ k \in Stored
          /\ requests[k].status = "Dispatched"
          /\ requests[k].operation # NoOperation /\ ~Queued(k)
    BY DEF Settles, InFlight, Stored, NoOperation, IndInv, OperationsBelow
<1>3. \A k \in sent :
          LET e == EffectOf("Cancel", k, requests'[k], "Erased") IN
          /\ e.kind = "Cancel" /\ e.key = k
          /\ e.operation = requests[k].operation
          /\ e.provider = requests[k].provider
    BY <1>2, SettlesFrame DEF EffectOf, SameRequest
<1>4. \A e : e.kind = "Invoke" => (e \in effects' <=> e \in effects /\ e.key \notin T)
    BY <1>1, <1>3 DEF Settles
<1>. QED  BY <1>1, <1>2, <1>3, <1>4 DEF Settles

\* Settling keeps what is known about operations and acceptances.
LEMMA SettlesIdentities ==
    ASSUME IndInv, HistoryInv, NEW T, NEW sent, Settles(T, sent)
    PROVE  /\ OperationsDistinct' /\ DispatchedInvoked' /\ OpenIsFresh'
           /\ AcceptedDistinct' /\ ApprovalBinds'
<1>. USE DEF HistoryInv
<1>1. \A k \in Keys : /\ requests'[k].operation = requests[k].operation
                      /\ requests'[k].accepted = requests[k].accepted
                      /\ requests'[k].decision = requests[k].decision
    BY SettlesFrame DEF SameRequest
<1>2. Stored' = Stored
    BY SettlesFrame DEF Stored
<1>3. \A k \in Stored : k \in Keys
    BY DEF Stored
<1>4. OperationsDistinct'
    <2>1. \A k, x \in Stored : requests'[k].operation = requests'[x].operation
                                 /\ requests'[k].operation # NoOperation => k = x
        BY <1>1, <1>3 DEF OperationsDistinct
    <2>2. ASSUME NEW e \in effects' \cup delivered', NEW k \in Stored,
                 requests'[k].operation = e.operation
          PROVE  e.key = k
        <3>1. CASE e \in effects \cup delivered
            BY <1>1, <1>3, <2>2, <3>1 DEF OperationsDistinct
        <3>2. CASE \E x \in sent : e = EffectOf("Cancel", x, requests'[x], "Erased")
            BY <1>1, <1>3, <2>2, <3>2, SettlesEffects DEF OperationsDistinct
        <3>. QED  BY <3>1, <3>2, SettlesEffects
    <2>. QED  BY <1>2, <2>1, <2>2 DEF OperationsDistinct
<1>5. DispatchedInvoked'
    <2>. SUFFICES ASSUME NEW k \in Keys, requests'[k].status = "Dispatched"
                 PROVE  EffectOf("Invoke", k, requests'[k], "Present") \in effects' \cup delivered'
        BY DEF DispatchedInvoked
    <2> DEFINE e == EffectOf("Invoke", k, requests[k], "Present")
    <2>1. k \notin T /\ requests'[k] = requests[k]
        BY SettlesFrame DEF TerminalStatuses, ClosedStatuses
    <2>2. e \in effects \cup delivered
        BY <2>1 DEF DispatchedInvoked
    <2>3. e.kind = "Invoke" /\ e.key = k
        BY DEF EffectOf
    <2>. HIDE DEF e
    <2>4. e \in effects' \cup delivered'
        BY <2>1, <2>2, <2>3, SettlesEffects
    <2>. QED  BY <2>1, <2>4 DEF e
<1>6. OpenIsFresh'
    <2>1. \A k \in Keys : requests'[k].status \in ActiveStatuses => requests'[k] = requests[k]
        BY SettlesFrame DEF TerminalStatuses, ClosedStatuses, ActiveStatuses
    <2>. QED  BY <2>1 DEF OpenIsFresh, Active, ActiveStatuses
<1>7. AcceptedDistinct'
    BY <1>1, <1>2, <1>3 DEF AcceptedDistinct
<1>8. ApprovalBinds'
    BY <1>1, <1>2, <1>3 DEF ApprovalBinds, Settles
<1>. QED  BY <1>4, <1>5, <1>6, <1>7, <1>8

\* It invokes nothing, and cancels what was delivered and not yet cancelled.
LEMMA SettlesOperations ==
    ASSUME IndInv, HistoryInv, NEW T, NEW sent, Settles(T, sent)
    PROVE  InvokedOnce' /\ CancelFollowsInvoke'
<1>. USE DEF HistoryInv
<1> DEFINE Cancelled(x) == EffectOf("Cancel", x, requests'[x], "Erased")
<1>1. ASSUME NEW x \in sent, NEW e \in effects \cup delivered, e.kind = "Cancel"
      PROVE  e.operation # Cancelled(x).operation
    <2>1. x \in Stored /\ requests[x].status = "Dispatched"
          /\ Cancelled(x).operation = requests[x].operation
        BY SettlesEffects
    <2>2. requests[x].operation = e.operation => e.key = x
        BY <2>1 DEF OperationsDistinct
    <2>3. ~(requests[e.key].status = "Dispatched" /\ requests[e.key].operation = e.operation)
        BY <1>1 DEF CancelFollowsInvoke
    <2>. HIDE DEF Cancelled
    <2>. QED  BY <2>1, <2>2, <2>3
<1>2. ASSUME NEW x \in sent, NEW y \in sent,
             Cancelled(x).operation = Cancelled(y).operation
      PROVE  x = y
    <2>1. /\ x \in Stored /\ y \in Stored /\ requests[x].operation # NoOperation
          /\ Cancelled(x).operation = requests[x].operation
          /\ Cancelled(y).operation = requests[y].operation
        BY SettlesEffects
    <2>2. \A k, z \in Stored : requests[k].operation = requests[z].operation
                                 /\ requests[k].operation # NoOperation => k = z
        BY DEF OperationsDistinct
    <2>. HIDE DEF Cancelled
    <2>. QED  BY <1>2, <2>1, <2>2
<1>3. \A x \in sent : Cancelled(x).kind = "Cancel"
    BY SettlesEffects
<1>4. \A e \in effects' : e \in effects \/ \E x \in sent : e = Cancelled(x)
    BY SettlesEffects
<1>5. delivered' = delivered
    BY DEF Settles
<1>6. InvokedOnce'
    <2>. HIDE DEF Cancelled
    <2>1. ASSUME NEW e \in effects' \cup delivered', NEW f \in effects' \cup delivered',
                 e.kind = f.kind, e.operation = f.operation
          PROVE  e = f
        <3>1. CASE e \in effects \cup delivered /\ f \in effects \cup delivered
            BY <2>1, <3>1 DEF InvokedOnce
        <3>2. CASE e \in effects \cup delivered /\ \E x \in sent : f = Cancelled(x)
            BY <1>1, <1>3, <2>1, <3>2
        <3>3. CASE f \in effects \cup delivered /\ \E x \in sent : e = Cancelled(x)
            BY <1>1, <1>3, <2>1, <3>3
        <3>4. CASE (\E x \in sent : e = Cancelled(x)) /\ \E x \in sent : f = Cancelled(x)
            BY <1>2, <2>1, <3>4
        <3>. QED  BY <1>4, <1>5, <3>1, <3>2, <3>3, <3>4
    <2>2. effects' \cap delivered' = {}
        BY <1>1, <1>3, <1>4, <1>5 DEF InvokedOnce
    <2>. QED  BY <2>1, <2>2 DEF InvokedOnce
<1>7. ASSUME NEW k \in Keys, requests[k].status = "Dispatched", ~Queued(k)
      PROVE  EffectOf("Invoke", k, requests[k], "Present") \in delivered
    <2> DEFINE e == EffectOf("Invoke", k, requests[k], "Present")
    <2>1. e \in effects \cup delivered /\ e.kind = "Invoke" /\ e.key = k
        BY <1>7 DEF DispatchedInvoked, EffectOf
    <2>. HIDE DEF e
    <2>2. e \in delivered
        BY <1>7, <2>1 DEF Queued
    <2>. QED  BY <2>2 DEF e
<1>8. ASSUME NEW e \in effects' \cup delivered', e.kind = "Cancel"
      PROVE  /\ \E f \in delivered' : /\ f.kind = "Invoke"
                                      /\ f.operation = e.operation
                                      /\ f.key = e.key
                                      /\ f.provider = e.provider
             /\ ~(/\ requests'[e.key].status = "Dispatched"
                  /\ requests'[e.key].operation = e.operation)
    <2>1. CASE e \in effects \cup delivered
        <3>1. e.key \in Keys
            BY <2>1 DEF IndInv, TypeOK, EffectEnvelope
        <3>2. requests'[e.key].status = "Dispatched" => requests'[e.key] = requests[e.key]
            BY <3>1, SettlesFrame DEF TerminalStatuses, ClosedStatuses
        <3>. QED  BY <1>5, <1>8, <2>1, <3>2 DEF CancelFollowsInvoke
    <2>2. ASSUME NEW x \in sent, e = Cancelled(x)
          PROVE  /\ \E f \in delivered' : /\ f.kind = "Invoke"
                                          /\ f.operation = e.operation
                                          /\ f.key = e.key
                                          /\ f.provider = e.provider
                 /\ requests'[e.key].status # "Dispatched"
        <3>1. /\ x \in Keys /\ x \in T /\ requests[x].status = "Dispatched" /\ ~Queued(x)
              /\ e.key = x
              /\ e.operation = requests[x].operation
              /\ e.provider = requests[x].provider
            BY <2>2, SettlesEffects
        <3> DEFINE f == EffectOf("Invoke", x, requests[x], "Present")
        <3>2. f \in delivered
            BY <1>7, <3>1
        <3>3. /\ f.kind = "Invoke" /\ f.operation = requests[x].operation
              /\ f.key = x /\ f.provider = requests[x].provider
            BY DEF EffectOf
        <3>4. requests'[x].status # "Dispatched"
            BY <3>1, SettlesFrame DEF TerminalStatuses, ClosedStatuses
        <3>. HIDE DEF f
        <3>. QED  BY <1>5, <3>1, <3>2, <3>3, <3>4
    <2>. HIDE DEF Cancelled
    <2>. QED  BY <1>4, <1>5, <2>1, <2>2
<1>9. ASSUME NEW k \in Keys, requests'[k].status \in TerminalStatuses,
             requests'[k].operation # NoOperation
      PROVE  requests'[k].cancellation = "QueuedInvokeRemoved" <=>
             ~\E e \in delivered' : e.kind = "Invoke" /\ e.operation = requests'[k].operation
    <2>1. CASE k \notin T
        BY <1>5, <1>9, <2>1, SettlesFrame DEF CancelFollowsInvoke, is_terminal
    <2>2. CASE k \in T
        <3>1. /\ requests'[k].operation = requests[k].operation
              /\ requests[k].status \in ActiveStatuses
              /\ requests'[k].cancellation = "QueuedInvokeRemoved" <=> Queued(k)
            BY <2>2, SettlesFrame DEF Settles
        <3>2. requests[k].status = "Dispatched"
            BY <1>9, <3>1 DEF OpenIsFresh, ActiveStatuses
        <3>3. ASSUME Queued(k)
              PROVE  ~\E e \in delivered : e.kind = "Invoke" /\ e.operation = requests[k].operation
            BY <3>3 DEF Queued, IndInv, InvokeMatches, NotYetDelivered, EffectOf
        <3>4. ASSUME ~Queued(k)
              PROVE  \E e \in delivered : e.kind = "Invoke" /\ e.operation = requests[k].operation
            <4>1. EffectOf("Invoke", k, requests[k], "Present") \in delivered
                BY <1>7, <3>2, <3>4
            <4>. QED  BY <4>1 DEF EffectOf
        <3>. QED  BY <1>5, <3>1, <3>3, <3>4
    <2>. QED  BY <2>1, <2>2
<1>. QED  BY <1>6, <1>8, <1>9 DEF CancelFollowsInvoke, is_terminal

\* Each request that is settled leaves its completion, once.
LEMMA SettlesAccounts ==
    ASSUME IndInv, HistoryInv, NEW T, NEW sent, Settles(T, sent)
    PROVE  SettledOnce'
<1> DEFINE stillopen == {requests[k].accepted : k \in {x \in Keys : Active(x)}}
           stillopen1 == {requests'[k].accepted : k \in {x \in Keys : Active(x)'}}
           queued == {c.accepted : c \in completions}
           queued1 == {c.accepted : c \in completions'}
           new == {CompletionOf(k, requests'[k]) : k \in T}
           settled == {requests[k].accepted : k \in T}
<1>0. /\ 1..(next_request_sequence - 1) = stillopen \cup queued \cup received \cup dropped
      /\ stillopen \cap (queued \cup received \cup dropped) = {}
      /\ queued \cap (received \cup dropped) = {}
      /\ received \cap dropped = {}
      /\ \A c, d \in completions : c.accepted = d.accepted => c = d
    BY DEF HistoryInv, SettledOnce
<1>1. PICK kept \in SUBSET new :
          /\ completions' = completions \cup kept
          /\ dropped' = dropped \cup {c.accepted : c \in new \ kept}
    BY DEF Settles, Completes
<1>2. received' = received /\ next_request_sequence' = next_request_sequence
    BY DEF Settles, id_vars
<1>3. /\ T \subseteq Keys /\ \A k \in T : k \in Stored
      /\ \A k \in Keys : requests'[k].accepted = requests[k].accepted
    BY SettlesFrame DEF Settles, SameRequest, Stored, ActiveStatuses
<1>4. \A k \in Keys : Active(k)' <=> Active(k) /\ k \notin T
    BY SettlesFrame DEF Active, ActiveStatuses, TerminalStatuses, ClosedStatuses
<1>5. \A c \in new : \E k \in T : c = CompletionOf(k, requests'[k]) /\ c.accepted = requests[k].accepted
    BY <1>3 DEF CompletionOf
<1>6. \A c, d \in new : c.accepted = d.accepted => c = d
    <2>. HIDE DEF new
    <2>. QED  BY <1>3, <1>5 DEF HistoryInv, AcceptedDistinct
<1>7. settled = {c.accepted : c \in new}
    <2>1. \A k \in T : \E c \in new : c.accepted = requests[k].accepted
        <3>. SUFFICES ASSUME NEW k \in T
                     PROVE  \E c \in new : c.accepted = requests[k].accepted
            OBVIOUS
        <3>1. CompletionOf(k, requests'[k]).accepted = requests[k].accepted
            BY <1>3 DEF CompletionOf
        <3>. QED  BY <3>1
    <2>. HIDE DEF new
    <2>. QED  BY <1>5, <2>1
<1>8. settled \subseteq stillopen
    BY <1>3 DEF Settles
<1>9. stillopen1 = stillopen \ settled
    <2>1. ASSUME NEW k \in Keys, Active(k)'
          PROVE  requests'[k].accepted \in stillopen \ settled
        <3>1. k \in Stored /\ Active(k) /\ k \notin T
            BY <1>4, <2>1 DEF Stored, Active, ActiveStatuses
        <3>2. \A x \in T : requests[x].accepted # requests[k].accepted
            BY <1>3, <3>1 DEF HistoryInv, AcceptedDistinct
        <3>. QED  BY <1>3, <3>1, <3>2
    <2>2. ASSUME NEW a \in stillopen, a \notin settled PROVE a \in stillopen1
        <3>1. PICK k \in Keys : Active(k) /\ a = requests[k].accepted
            OBVIOUS
        <3>. QED  BY <1>3, <1>4, <2>2, <3>1
    <2>. QED  BY <2>1, <2>2
<1>10. \A k \in T : Active(k)
    BY DEF Settles
<1>. HIDE DEF stillopen, stillopen1, new, settled, queued
<1> DEFINE lost == {c.accepted : c \in new \ kept}
           won == {c.accepted : c \in kept}
<1>11. won \cup lost = settled /\ won \cap lost = {}
    BY <1>6, <1>7
<1>12. queued1 = queued \cup won
    BY <1>1 DEF queued
<1>13. \A c, d \in completions' : c.accepted = d.accepted => c = d
    <2>1. \A c \in kept : c.accepted \in settled
        BY <1>7
    <2>2. \A c \in completions : c.accepted \notin settled
        BY <1>0, <1>8 DEF queued
    <2>. QED  BY <1>0, <1>1, <1>6, <2>1, <2>2
<1>14. dropped' = dropped \cup lost
    BY <1>1
<1>. HIDE DEF lost, won, queued1
<1>15. /\ 1..(next_request_sequence' - 1) = stillopen1 \cup queued1 \cup received' \cup dropped'
       /\ stillopen1 \cap (queued1 \cup received' \cup dropped') = {}
       /\ queued1 \cap (received' \cup dropped') = {}
       /\ received' \cap dropped' = {}
    <2>1. 1..(next_request_sequence' - 1) = stillopen \cup queued \cup received \cup dropped
        BY <1>0, <1>2
    <2>. QED  BY <1>0, <1>2, <1>8, <1>9, <1>11, <1>12, <1>14, <2>1, Zenon
<1>. QED  BY <1>13, <1>15 DEF SettledOnce, stillopen1, queued1

\* The Cancels of a settling were invocations in flight: there is room.
LEMMA SettlesRoom ==
    ASSUME IndInv, HistoryInv, NEW T, NEW sent, Settles(T, sent)
    PROVE  RoomForCancels' /\ CancelNeverLostToFullQueue'
<1>0. RoomForCancels
    BY DEF HistoryInv
<1> DEFINE f == [x \in sent |-> EffectOf("Cancel", x, requests'[x], "Erased")]
           C == {f[x] : x \in sent}
<1>1. Stored' = Stored
    BY SettlesFrame DEF Stored
<1>2. sent \subseteq InFlight /\ sent \subseteq T
    BY DEF Settles
<1>3. /\ IsFiniteSet(InFlight) /\ Cardinality(InFlight) \in Nat
      /\ IsFiniteSet(effects) /\ Cardinality(effects) \in Nat
      /\ Cardinality(effects) + Cardinality(InFlight) <= TOOL_EFFECTS_MAX
    BY <1>0, EffectsBound
<1>4. IsFiniteSet(sent) /\ Cardinality(sent) \in Nat
    BY <1>2, <1>3, FS_Subset, FS_CardinalityType
<1>5. QueuedCancels' \subseteq QueuedCancels \cup C
    BY SettlesEffects DEF QueuedCancels
<1>6. IsFiniteSet(C) /\ Cardinality(C) <= Cardinality(sent)
    <2>1. f = [x \in sent |-> f[x]]
        OBVIOUS
    <2>. HIDE DEF f
    <2>. QED  BY <1>4, <2>1, RangeBound
<1>7. InFlight' \subseteq InFlight \ sent
    <2>. SUFFICES ASSUME NEW k \in Keys, requests'[k].status = "Dispatched", ~Queued(k)'
                 PROVE  k \in InFlight \ sent
        BY DEF InFlight
    <2>1. k \notin T /\ requests'[k] = requests[k]
        BY SettlesFrame DEF TerminalStatuses, ClosedStatuses
    <2>2. ~Queued(k)
        BY <2>1, SettlesEffects DEF Queued
    <2>. QED  BY <1>2, <2>1, <2>2 DEF InFlight
<1>. HIDE DEF C
<1>8. RoomForCancels'
    <2>1. /\ IsFiniteSet(InFlight \ sent)
          /\ Cardinality(InFlight \ sent) = Cardinality(InFlight) - Cardinality(sent)
        <3>1. InFlight \cap sent = sent
            BY <1>2
        <3>. QED  BY <1>3, <3>1, FS_Difference
    <2>2. /\ IsFiniteSet(InFlight') /\ Cardinality(InFlight') \in Nat
          /\ Cardinality(InFlight') <= Cardinality(InFlight \ sent)
        BY <1>7, <2>1, FS_Subset, FS_CardinalityType
    <2>3. /\ IsFiniteSet(QueuedCancels) /\ Cardinality(QueuedCancels) \in Nat
          /\ Cardinality(C) \in Nat /\ Cardinality(QueuedCancels \cap C) \in Nat
        <3>1. IsFiniteSet(QueuedCancels \cap C)
            BY <1>6, FS_Intersection
        <3>. QED  BY <1>0, <1>6, <3>1, FS_CardinalityType DEF RoomForCancels
    <2>4. /\ IsFiniteSet(QueuedCancels \cup C)
          /\ Cardinality(QueuedCancels \cup C) =
                Cardinality(QueuedCancels) + Cardinality(C) - Cardinality(QueuedCancels \cap C)
        BY <1>6, <2>3, FS_Union
    <2>5. /\ IsFiniteSet(QueuedCancels')
          /\ Cardinality(QueuedCancels') \in Nat
          /\ Cardinality(QueuedCancels') <= Cardinality(QueuedCancels \cup C)
        BY <1>5, <2>4, FS_Subset, FS_CardinalityType
    <2>6. Cardinality(QueuedCancels') + Cardinality(InFlight') <= MaxRequests
        BY <1>0, <1>3, <1>4, <1>6, <2>1, <2>2, <2>3, <2>4, <2>5, BoundsAssumption
           DEF RoomForCancels
    <2>. QED  BY <1>0, <1>1, <2>5, <2>6 DEF RoomForCancels
<1>9. CancelNeverLostToFullQueue'
    <2>. SUFFICES ASSUME NEW k \in Keys, requests'[k].status \in ClosedStatuses,
                         requests'[k].cancellation = "DroppedQueueFull"
                 PROVE  FALSE
        BY DEF CancelNeverLostToFullQueue
    <2>1. CASE k \notin T
        BY <2>1, SettlesFrame DEF HistoryInv, CancelNeverLostToFullQueue
    <2>2. CASE k \in T
        <3>1. /\ k \in InFlight /\ k \notin sent
              /\ Cardinality(sent) >= TOOL_EFFECTS_MAX - Cardinality(effects)
            BY <2>2 DEF Settles
        <3>2. Cardinality(sent) < Cardinality(InFlight)
            BY <1>2, <1>3, <1>4, <3>1, FS_Subset
        <3>. QED  BY <1>3, <1>4, <3>1, <3>2, BoundsAssumption DEF TOOL_EFFECTS_MAX
    <2>. QED  BY <2>1, <2>2
<1>. QED  BY <1>8, <1>9

-----------------------------------------------------------------------------
(* Dispatching under a new operation keeps the invariant. *)

\* The next operation was never used.
LEMMA NewOperation ==
    ASSUME IndInv
    PROVE  /\ next_operation_id \in Nat /\ next_operation_id # NoOperation
           /\ \A e \in effects \cup delivered : e.operation # next_operation_id
                                                /\ e.operation # NoOperation
           /\ \A k \in Stored : requests[k].operation # next_operation_id
<1>1. next_operation_id \in Nat /\ next_operation_id # NoOperation
    BY DEF IndInv, TypeOK, NoOperation
<1>2. \A e \in effects \cup delivered : e.operation \in Nat /\ e.operation # NoOperation
                                        /\ e.operation < next_operation_id
    BY DEF IndInv, TypeOK, EffectEnvelope, NoOperation, OperationsBelow
<1>3. \A k \in Stored : requests[k].operation \in Nat /\ requests[k].operation < next_operation_id
    BY StoredRecord DEF IndInv, RequestRecord, Stored, OperationsBelow
<1>. QED  BY <1>1, <1>2, <1>3

\* The Invoke that is queued.
LEMMA InvokesEffect ==
    ASSUME NEW k, Invokes(k)
    PROVE  LET e == EffectOf("Invoke", k, requests'[k], "Present") IN
           /\ effects' = effects \cup {e}
           /\ e.kind = "Invoke" /\ e.key = k /\ e.operation = next_operation_id
BY DEF Invokes, EffectOf

\* An approved request is dispatched once, under an operation of its own.
LEMMA ApprovesPreserves ==
    ASSUME IndInv, HistoryInv, NEW k, Approves(k)
    PROVE  HistoryInv'
<1>. USE DEF HistoryInv
<1> DEFINE new == EffectOf("Invoke", k, requests'[k], "Present")
<1>1. /\ k \in Keys /\ k \in Stored /\ requests[k].status = "AwaitingApproval"
      /\ requests'[k].status = "Dispatched"
      /\ requests'[k].operation = next_operation_id
      /\ requests'[k].accepted = requests[k].accepted
      /\ requests'[k].decision = requests[k].decision
      /\ requests'[k].cancellation = requests[k].cancellation
      /\ \A x \in Keys : x # k => requests'[x] = requests[x]
    BY DEF Approves, Invokes, SameRequest, Stored
<1>2. /\ effects' = effects \cup {new} /\ delivered' = delivered
      /\ new.kind = "Invoke" /\ new.key = k /\ new.operation = next_operation_id
    BY InvokesEffect DEF Approves
<1>3. Stored' = Stored
    BY <1>1 DEF Stored
<1>4. \A x \in Stored : x \in Keys
    BY DEF Stored
<1>5. DispatchedInvoked'
    <2>. SUFFICES ASSUME NEW x \in Keys, requests'[x].status = "Dispatched"
                 PROVE  EffectOf("Invoke", x, requests'[x], "Present") \in effects' \cup delivered'
        BY DEF DispatchedInvoked
    <2>1. CASE x = k
        BY <1>2, <2>1
    <2>2. CASE x # k
        <3>. HIDE DEF new
        <3>. QED  BY <1>1, <1>2, <2>2 DEF DispatchedInvoked
    <2>. QED  BY <2>1, <2>2
<1>. HIDE DEF new
<1>6. OperationsDistinct'
    <2>1. ASSUME NEW x \in Stored, NEW y \in Stored,
                 requests'[x].operation = requests'[y].operation,
                 requests'[x].operation # NoOperation
          PROVE  x = y
        BY <1>1, <1>4, <2>1, NewOperation DEF OperationsDistinct
    <2>2. ASSUME NEW e \in effects' \cup delivered', NEW x \in Stored,
                 requests'[x].operation = e.operation
          PROVE  e.key = x
        BY <1>1, <1>2, <1>4, <2>2, NewOperation DEF OperationsDistinct
    <2>. QED  BY <1>3, <2>1, <2>2 DEF OperationsDistinct
<1>7. OpenIsFresh'
    BY <1>1 DEF OpenIsFresh, Active, ActiveStatuses
<1>8. AcceptedDistinct'
    BY <1>1, <1>3, <1>4 DEF AcceptedDistinct
<1>9. InvokedOnce'
    <2>1. ASSUME NEW e \in effects' \cup delivered', NEW f \in effects' \cup delivered',
                 e.kind = f.kind, e.operation = f.operation
          PROVE  e = f
        BY <1>2, <2>1, NewOperation DEF InvokedOnce
    <2>2. effects' \cap delivered' = {}
        BY <1>2, NewOperation DEF InvokedOnce
    <2>. QED  BY <2>1, <2>2 DEF InvokedOnce
<1>10. CancelFollowsInvoke'
    <2>1. ASSUME NEW e \in effects' \cup delivered', e.kind = "Cancel"
          PROVE  /\ \E f \in delivered' : /\ f.kind = "Invoke"
                                          /\ f.operation = e.operation
                                          /\ f.key = e.key
                                          /\ f.provider = e.provider
                 /\ ~(/\ requests'[e.key].status = "Dispatched"
                      /\ requests'[e.key].operation = e.operation)
        <3>1. e \in effects \cup delivered
            BY <1>2, <2>1
        <3>2. e.key \in Keys
            BY <3>1 DEF IndInv, TypeOK, EffectEnvelope
        <3>. QED  BY <1>1, <1>2, <2>1, <3>1, <3>2, NewOperation DEF CancelFollowsInvoke
    <2>2. ASSUME NEW x \in Keys, requests'[x].status \in TerminalStatuses,
                 requests'[x].operation # NoOperation
          PROVE  requests'[x].cancellation = "QueuedInvokeRemoved" <=>
                 ~\E e \in delivered' : e.kind = "Invoke" /\ e.operation = requests'[x].operation
        BY <1>1, <1>2, <2>2
           DEF CancelFollowsInvoke, is_terminal, TerminalStatuses, ClosedStatuses
    <2>. QED  BY <2>1, <2>2 DEF CancelFollowsInvoke, is_terminal
<1>11. ApprovalBinds'
    BY <1>1, <1>3, <1>4 DEF ApprovalBinds, Approves
<1>12. SettledOnce'
    <2>1. \A x \in Keys : /\ Active(x)' <=> Active(x)
                          /\ requests'[x].accepted = requests[x].accepted
        BY <1>1 DEF Active, ActiveStatuses
    <2>2. {requests'[x].accepted : x \in {y \in Keys : Active(y)'}}
            = {requests[x].accepted : x \in {y \in Keys : Active(y)}}
        BY <2>1
    <2>3. UNCHANGED <<completions, dropped, next_request_sequence, received>>
        BY DEF Approves
    <2>. QED  BY <2>2, <2>3, Zenon DEF SettledOnce
<1>13. RoomForCancels'
    <2>1. QueuedCancels' = QueuedCancels
        BY <1>2 DEF QueuedCancels
    <2>2. InFlight' \subseteq InFlight
        BY <1>1, <1>2 DEF InFlight, Queued
    <2>3. /\ IsFiniteSet(InFlight) /\ Cardinality(InFlight) \in Nat
          /\ Cardinality(InFlight') \in Nat
          /\ Cardinality(InFlight') <= Cardinality(InFlight)
        BY <2>2, EffectsBound, FS_Subset, FS_CardinalityType
    <2>4. Cardinality(QueuedCancels) \in Nat
        BY FS_CardinalityType DEF RoomForCancels
    <2>. QED  BY <1>3, <2>1, <2>3, <2>4, BoundsAssumption DEF RoomForCancels
<1>14. CancelNeverLostToFullQueue'
    BY <1>1 DEF CancelNeverLostToFullQueue, ClosedStatuses
<1>. QED
    BY <1>5, <1>6, <1>7, <1>8, <1>9, <1>10, <1>11, <1>12, <1>13, <1>14

\* The table keeps to its size, and only terminal requests leave it.
LEMMA EvictionRoom ==
    ASSUME IndInv, RoomForCancels, NEW k, NEW evicted, Accepts(k, evicted)
    PROVE  /\ Cardinality(Stored') <= MaxRequests
           /\ \A x \in evicted : x \in Keys /\ is_terminal(x)
           /\ \A x \in Stored' : x \in Keys /\ (x = k \/ (x \in Stored /\ requests'[x] = requests[x]))
           /\ \A x \in Keys : requests'[x].status # "Vacant" => x \in Stored'
<1>1. /\ k \in Keys /\ evicted \in ensure_request_capacity(k)
      /\ \A x \in Keys : x # k => requests'[x] = IF x \in evicted THEN Vacant ELSE requests[x]
    BY DEF Accepts
<1>2. \/ evicted = {} /\ (is_terminal(k) \/ Cardinality(Stored) < MaxRequests)
      \/ ~is_terminal(k) /\ \E v \in Keys : is_terminal(v) /\ evicted = {v}
    BY <1>1 DEF ensure_request_capacity
<1>3. \A x \in evicted : x \in Keys /\ is_terminal(x)
    BY <1>2
<1>4. \A x \in Stored' : x \in Keys /\ (x = k \/ (x \in Stored /\ x \notin evicted
                                                  /\ requests'[x] = requests[x]))
    BY <1>1 DEF Stored, Vacant
<1>5. \A x \in Keys : is_terminal(x) => x \in Stored
    BY DEF is_terminal, TerminalStatuses, ClosedStatuses, Stored
<1>6. /\ IsFiniteSet(Stored) /\ Cardinality(Stored) \in Nat
      /\ IsFiniteSet(Stored') /\ Cardinality(Stored') \in Nat
      /\ Cardinality(Stored) <= MaxRequests
    <2>1. Stored \in SUBSET Keys /\ Stored' \in SUBSET Keys
        BY DEF Stored
    <2>. QED  BY <2>1, KeySetCardinality DEF RoomForCancels
<1>7. Cardinality(Stored') <= MaxRequests
    <2>1. CASE is_terminal(k) /\ evicted = {}
        <3>1. Stored' \subseteq Stored
            BY <1>1, <1>4, <1>5, <2>1
        <3>. QED  BY <1>6, <3>1, FS_Subset, BoundsAssumption
    <2>2. CASE Cardinality(Stored) < MaxRequests
        <3>1. Stored' \subseteq Stored \cup {k}
            BY <1>4
        <3>2. /\ IsFiniteSet(Stored \cup {k})
              /\ Cardinality(Stored \cup {k}) =
                    IF k \in Stored THEN Cardinality(Stored) ELSE Cardinality(Stored) + 1
            BY <1>6, FS_AddElement
        <3>3. Cardinality(Stored') <= Cardinality(Stored \cup {k})
            BY <3>1, <3>2, FS_Subset
        <3>. QED  BY <1>6, <2>2, <3>2, <3>3, BoundsAssumption
    <2>3. ASSUME NEW v \in Keys, is_terminal(v), evicted = {v}, ~is_terminal(k)
          PROVE  Cardinality(Stored') <= MaxRequests
        <3>1. v \in Stored /\ v # k
            BY <1>5, <2>3
        <3>2. /\ IsFiniteSet(Stored \ {v})
              /\ Cardinality(Stored \ {v}) = Cardinality(Stored) - 1
            BY <1>6, <3>1, FS_RemoveElement
        <3>3. /\ IsFiniteSet((Stored \ {v}) \cup {k})
              /\ Cardinality((Stored \ {v}) \cup {k}) <= Cardinality(Stored)
            <4> DEFINE S == Stored \ {v}
            <4>1. IsFiniteSet(S) /\ Cardinality(S) = Cardinality(Stored) - 1
                BY <3>2
            <4>. HIDE DEF S
            <4>2. /\ IsFiniteSet(S \cup {k})
                  /\ Cardinality(S \cup {k}) =
                        IF k \in S THEN Cardinality(S) ELSE Cardinality(S) + 1
                BY <4>1, FS_AddElement
            <4>3. IsFiniteSet(S \cup {k}) /\ Cardinality(S \cup {k}) <= Cardinality(Stored)
                BY <1>6, <4>1, <4>2
            <4>. QED  BY <4>3 DEF S
        <3>4. Stored' \subseteq (Stored \ {v}) \cup {k}
            BY <1>4, <2>3
        <3>5. /\ Cardinality(Stored') <= Cardinality((Stored \ {v}) \cup {k})
              /\ Cardinality((Stored \ {v}) \cup {k}) \in Nat
            BY <3>3, <3>4, FS_Subset, FS_CardinalityType
        <3>. QED  BY <1>6, <3>3, <3>5, BoundsAssumption
    <2>. QED  BY <1>2, <2>1, <2>2, <2>3
<1>8. \A x \in Keys : requests'[x].status # "Vacant" => x \in Stored'
    BY DEF Stored
<1>. QED  BY <1>3, <1>4, <1>7, <1>8

\* A new request is accounted for under a number of its own.
LEMMA AcceptsAccounts ==
    ASSUME IndInv, AcceptedBelow, HistoryInv, NEW k, NEW evicted, Accepts(k, evicted)
    PROVE  SettledOnce'
<1> DEFINE n == next_request_sequence
           stillopen == {requests[x].accepted : x \in {y \in Keys : Active(y)}}
           stillopen1 == {requests'[x].accepted : x \in {y \in Keys : Active(y)'}}
           queued == {c.accepted : c \in completions}
           queued1 == {c.accepted : c \in completions'}
<1>0. /\ 1..(n - 1) = stillopen \cup queued \cup received \cup dropped
      /\ stillopen \cap (queued \cup received \cup dropped) = {}
      /\ queued \cap (received \cup dropped) = {}
      /\ received \cap dropped = {}
      /\ \A c, d \in completions : c.accepted = d.accepted => c = d
    BY DEF HistoryInv, SettledOnce
<1>1. /\ n \in Nat /\ n >= 1 /\ next_request_sequence' = n + 1 /\ received' = received
      /\ k \in Keys /\ ~Active(k) /\ requests'[k].accepted = n
    BY DEF IndInv, TypeOK, Accepts
<1>2. 1..n = (1..(n - 1)) \cup {n} /\ n \notin 1..(n - 1)
    BY <1>1
<1>3. \A x \in Keys : x # k => /\ Active(x)' <=> Active(x)
                               /\ Active(x) => requests'[x] = requests[x]
    <2>1. \A x \in evicted : ~Active(x)
        BY EvictionRoom DEF HistoryInv, is_terminal, Active, ActiveStatuses,
                            TerminalStatuses, ClosedStatuses
    <2>. QED  BY <2>1 DEF Accepts, Active, ActiveStatuses, Vacant
<1>4. /\ Active(k)' => stillopen1 = stillopen \cup {n}
      /\ ~Active(k)' => stillopen1 = stillopen
    <2>1. ASSUME NEW a \in stillopen PROVE a \in stillopen1
        <3>1. PICK x \in Keys : Active(x) /\ a = requests[x].accepted
            OBVIOUS
        <3>. QED  BY <1>1, <1>3, <3>1
    <2>2. ASSUME NEW a \in stillopen1
          PROVE  a \in stillopen \/ (Active(k)' /\ a = n)
        <3>1. PICK x \in Keys : Active(x)' /\ a = requests'[x].accepted
            OBVIOUS
        <3>. QED  BY <1>1, <1>3, <3>1
    <2>3. Active(k)' => n \in stillopen1
        BY <1>1
    <2>. HIDE DEF stillopen, stillopen1
    <2>. QED  BY <2>1, <2>2, <2>3
<1>. HIDE DEF stillopen, stillopen1
<1>5. CASE requests'[k].status = "Denied"
    <2> DEFINE c1 == CompletionOf(k, requests'[k])
    <2>1. c1.accepted = n
        BY <1>1 DEF CompletionOf
    <2>2. ~Active(k)'
        BY <1>5 DEF Active, ActiveStatuses
    <2>. HIDE DEF c1
    <2>3. \/ completions' = completions \cup {c1} /\ dropped' = dropped
          \/ completions' = completions /\ dropped' = dropped \cup {n}
        <3>1. PICK kept \in SUBSET {c1} :
                /\ completions' = completions \cup kept
                /\ dropped' = dropped \cup {c.accepted : c \in {c1} \ kept}
            BY <1>5 DEF Accepts, Completes, c1
        <3>2. CASE kept = {}
            <4>1. {c.accepted : c \in {c1} \ kept} = {n}
                BY <2>1, <3>2
            <4>. QED  BY <3>1, <3>2, <4>1
        <3>3. CASE kept = {c1}
            <4>1. {c.accepted : c \in {c1} \ kept} = {}
                BY <3>3
            <4>. QED  BY <3>1, <3>3, <4>1
        <3>. QED  BY <3>2, <3>3
    <2>4. \/ queued1 = queued \cup {n} /\ dropped' = dropped
          \/ queued1 = queued /\ dropped' = dropped \cup {n}
        BY <2>1, <2>3
    <2>5. \A c, d \in completions' : c.accepted = d.accepted => c = d
        <3>1. \A c \in completions : c.accepted # n
            BY <1>0, <1>2
        <3>. QED  BY <1>0, <2>1, <2>3, <3>1
    <2>. HIDE DEF queued, queued1, n
    <2>6. stillopen1 = stillopen
        BY <1>4, <2>2
    <2>7. 1..n = stillopen1 \cup queued1 \cup received' \cup dropped'
        BY <1>0, <1>1, <1>2, <2>4, <2>6
    <2>8. /\ stillopen1 \cap (queued1 \cup received' \cup dropped') = {}
          /\ queued1 \cap (received' \cup dropped') = {}
          /\ received' \cap dropped' = {}
        BY <1>0, <1>1, <1>2, <2>4, <2>6
    <2>9. next_request_sequence' - 1 = n
        BY <1>1
    <2>. QED  BY <2>5, <2>7, <2>8, <2>9 DEF SettledOnce, stillopen1, queued1
<1>6. CASE requests'[k].status # "Denied"
    <2>1. completions' = completions /\ dropped' = dropped /\ queued1 = queued
        BY <1>6 DEF Accepts
    <2>2. Active(k)'
        BY <1>6 DEF Accepts, Invokes, Active, ActiveStatuses
    <2>. HIDE DEF queued, queued1, n
    <2>3. stillopen1 = stillopen \cup {n}
        BY <1>4, <2>2
    <2>4. 1..n = stillopen1 \cup queued1 \cup received' \cup dropped'
        BY <1>0, <1>1, <1>2, <2>1, <2>3
    <2>5. /\ stillopen1 \cap (queued1 \cup received' \cup dropped') = {}
          /\ queued1 \cap (received' \cup dropped') = {}
          /\ received' \cap dropped' = {}
        BY <1>0, <1>1, <1>2, <2>1, <2>3
    <2>6. next_request_sequence' - 1 = n
        BY <1>1
    <2>7. \A c, d \in completions' : c.accepted = d.accepted => c = d
        BY <1>0, <2>1
    <2>. QED  BY <2>4, <2>5, <2>6, <2>7 DEF SettledOnce, stillopen1, queued1
<1>. QED  BY <1>5, <1>6

\* A new request starts with no past.
LEMMA AcceptsPreserves ==
    ASSUME IndInv, AcceptedBelow, HistoryInv, NEW k, NEW evicted, Accepts(k, evicted)
    PROVE  HistoryInv'
<1>. USE DEF HistoryInv
<1> DEFINE new == EffectOf("Invoke", k, requests'[k], "Present")
<1>1. /\ k \in Keys
      /\ requests'[k].accepted = next_request_sequence
      /\ requests'[k].cancellation = "NotRequired"
      /\ delivered' = delivered /\ approved' = approved
    BY DEF Accepts
<1>2. \/ /\ requests'[k].status \in {"Denied", "AwaitingApproval"}
         /\ requests'[k].operation = NoOperation
         /\ effects' = effects
      \/ /\ requests'[k].status = "Dispatched"
         /\ requests'[k].operation = next_operation_id
         /\ requests'[k].decision = "Allow"
         /\ effects' = effects \cup {new}
    BY DEF Accepts, Invokes
<1>3. /\ Cardinality(Stored') <= MaxRequests
      /\ \A x \in Stored' : x \in Keys /\ (x = k \/ (x \in Stored /\ requests'[x] = requests[x]))
      /\ \A x \in Keys : requests'[x].status # "Vacant" => x \in Stored'
    BY EvictionRoom
<1>4. requests'[k].operation = next_operation_id =>
          new.kind = "Invoke" /\ new.key = k /\ new.operation = next_operation_id
    BY DEF EffectOf
<1>5. DispatchedInvoked'
    <2>. SUFFICES ASSUME NEW x \in Keys, requests'[x].status = "Dispatched"
                 PROVE  EffectOf("Invoke", x, requests'[x], "Present") \in effects' \cup delivered'
        BY DEF DispatchedInvoked
    <2>1. CASE x = k
        BY <1>2, <2>1
    <2>2. CASE x # k
        <3>. HIDE DEF new
        <3>. QED  BY <1>1, <1>2, <1>3, <2>2 DEF DispatchedInvoked
    <2>. QED  BY <2>1, <2>2
<1>. HIDE DEF new
<1>6. OperationsDistinct'
    <2>1. ASSUME NEW x \in Stored', NEW y \in Stored',
                 requests'[x].operation = requests'[y].operation,
                 requests'[x].operation # NoOperation
          PROVE  x = y
        BY <1>2, <1>3, <2>1, NewOperation DEF OperationsDistinct
    <2>2. ASSUME NEW e \in effects' \cup delivered', NEW x \in Stored',
                 requests'[x].operation = e.operation
          PROVE  e.key = x
        <3>1. CASE e \in effects \cup delivered
            BY <1>2, <1>3, <2>2, <3>1, NewOperation DEF OperationsDistinct
        <3>2. CASE e \notin effects \cup delivered
            <4>1. e = new /\ requests'[k].operation = next_operation_id
                BY <1>1, <1>2, <2>2, <3>2
            <4>. QED  BY <1>3, <1>4, <2>2, <4>1, NewOperation
        <3>. QED  BY <3>1, <3>2
    <2>. QED  BY <2>1, <2>2 DEF OperationsDistinct
<1>7. OpenIsFresh'
    BY <1>1, <1>2, <1>3 DEF OpenIsFresh, Active, ActiveStatuses
<1>8. AcceptedDistinct'
    <2>1. \A x \in Stored : requests[x].accepted # next_request_sequence
        <3>1. \A x \in Stored : /\ requests[x].accepted \in Nat
                                /\ requests[x].accepted < next_request_sequence
            BY StoredRecord DEF IndInv, RequestRecord, Stored, AcceptedBelow
        <3>2. next_request_sequence \in Nat
            BY DEF IndInv, TypeOK
        <3>. QED  BY <3>1, <3>2
    <2>. QED  BY <1>1, <1>3, <2>1 DEF AcceptedDistinct
<1>9. InvokedOnce'
    <2>1. ASSUME NEW e \in effects' \cup delivered', NEW f \in effects' \cup delivered',
                 e.kind = f.kind, e.operation = f.operation
          PROVE  e = f
        BY <1>1, <1>2, <1>4, <2>1, NewOperation DEF InvokedOnce
    <2>2. effects' \cap delivered' = {}
        BY <1>1, <1>2, <1>4, NewOperation DEF InvokedOnce
    <2>. QED  BY <2>1, <2>2 DEF InvokedOnce
<1>10. CancelFollowsInvoke'
    <2>1. ASSUME NEW e \in effects' \cup delivered', e.kind = "Cancel"
          PROVE  /\ \E f \in delivered' : /\ f.kind = "Invoke"
                                          /\ f.operation = e.operation
                                          /\ f.key = e.key
                                          /\ f.provider = e.provider
                 /\ ~(/\ requests'[e.key].status = "Dispatched"
                      /\ requests'[e.key].operation = e.operation)
        <3>1. e \in effects \cup delivered
            BY <1>1, <1>2, <1>4, <2>1
        <3>2. e.key \in Keys
            BY <3>1 DEF IndInv, TypeOK, EffectEnvelope
        <3>3. \E f \in delivered' : /\ f.kind = "Invoke"
                                    /\ f.operation = e.operation
                                    /\ f.key = e.key
                                    /\ f.provider = e.provider
            BY <1>1, <2>1, <3>1 DEF CancelFollowsInvoke
        <3>4. CASE e.key = k
            BY <1>2, <3>1, <3>3, <3>4, NewOperation
        <3>5. CASE e.key # k
            BY <1>3, <2>1, <3>1, <3>2, <3>3, <3>5 DEF CancelFollowsInvoke
        <3>. QED  BY <3>4, <3>5
    <2>2. ASSUME NEW x \in Keys, requests'[x].status \in TerminalStatuses,
                 requests'[x].operation # NoOperation
          PROVE  requests'[x].cancellation = "QueuedInvokeRemoved" <=>
                 ~\E e \in delivered' : e.kind = "Invoke" /\ e.operation = requests'[x].operation
        <3>1. x # k /\ requests'[x].status # "Vacant"
            BY <1>2, <2>2 DEF TerminalStatuses, ClosedStatuses
        <3>2. requests'[x] = requests[x]
            BY <1>3, <3>1
        <3>. QED  BY <1>1, <2>2, <3>2 DEF CancelFollowsInvoke, is_terminal
    <2>. QED  BY <2>1, <2>2 DEF CancelFollowsInvoke, is_terminal
<1>11. ApprovalBinds'
    BY <1>1, <1>2, <1>3 DEF ApprovalBinds
<1>12. SettledOnce'
    BY AcceptsAccounts
<1>13. RoomForCancels'
    <2>1. QueuedCancels' = QueuedCancels
        BY <1>2, <1>4 DEF QueuedCancels
    <2>2. InFlight' \subseteq InFlight
        <3>. SUFFICES ASSUME NEW x \in Keys, requests'[x].status = "Dispatched", ~Queued(x)'
                     PROVE  x \in InFlight
            BY DEF InFlight
        <3>1. effects \subseteq effects'
            BY <1>2
        <3>2. x # k
            BY <1>2, <1>4 DEF Queued
        <3>. QED  BY <1>3, <3>1, <3>2 DEF InFlight, Queued
    <2>3. /\ IsFiniteSet(InFlight) /\ Cardinality(InFlight) \in Nat
          /\ Cardinality(InFlight') \in Nat
          /\ Cardinality(InFlight') <= Cardinality(InFlight)
        BY <2>2, EffectsBound, FS_Subset, FS_CardinalityType
    <2>4. Cardinality(QueuedCancels) \in Nat
        BY FS_CardinalityType DEF RoomForCancels
    <2>. QED  BY <1>3, <2>1, <2>3, <2>4, BoundsAssumption DEF RoomForCancels
<1>14. CancelNeverLostToFullQueue'
    <2>1. \A x \in Keys : requests'[x].status \in ClosedStatuses =>
              x \in Stored'
        BY <1>3 DEF ClosedStatuses
    <2>. QED  BY <1>1, <1>3, <2>1 DEF CancelNeverLostToFullQueue
<1>. QED
    BY <1>5, <1>6, <1>7, <1>8, <1>9, <1>10, <1>11, <1>12, <1>13, <1>14

-----------------------------------------------------------------------------
(* The drains. *)

\* What is drained was queued once, and leaves an empty queue.
LEMMA DrainEffectsPreserves ==
    ASSUME IndInv, HistoryInv, drain_effects
    PROVE  HistoryInv'
<1>. USE DEF HistoryInv
<1>1. /\ requests' = requests /\ completions' = completions /\ dropped' = dropped
      /\ received' = received /\ approved' = approved
      /\ next_request_sequence' = next_request_sequence
      /\ effects' = {} /\ delivered' = delivered \cup effects
    BY DEF drain_effects, id_vars
<1>2. effects' \cup delivered' = effects \cup delivered
    BY <1>1
<1>3. Stored' = Stored
    BY <1>1 DEF Stored
<1>4. OperationsDistinct' /\ DispatchedInvoked'
    BY <1>1, <1>2, <1>3 DEF OperationsDistinct, DispatchedInvoked
<1>5. OpenIsFresh' /\ AcceptedDistinct' /\ ApprovalBinds' /\ CancelNeverLostToFullQueue'
    BY <1>1, <1>3 DEF OpenIsFresh, Active, AcceptedDistinct, ApprovalBinds,
                      CancelNeverLostToFullQueue
<1>6. SettledOnce'
    BY <1>1 DEF SettledOnce, Active
<1>7. InvokedOnce'
    BY <1>1, <1>2 DEF InvokedOnce
<1>8. CancelFollowsInvoke'
    <2>1. ASSUME NEW k \in Keys, is_terminal(k), NEW e \in effects, e.kind = "Invoke"
          PROVE  e.operation # requests[k].operation
        <3>1. k \in Stored
            BY <2>1 DEF is_terminal, TerminalStatuses, ClosedStatuses, Stored
        <3>2. requests[e.key].status = "Dispatched"
            BY <2>1 DEF IndInv, InvokeMatches
        <3>. QED  BY <2>1, <3>1, <3>2
                  DEF OperationsDistinct, is_terminal, TerminalStatuses, ClosedStatuses
    <2>2. ASSUME NEW k \in Keys, is_terminal(k), requests[k].operation # NoOperation
          PROVE  requests[k].cancellation = "QueuedInvokeRemoved" <=>
                 ~\E e \in delivered' : e.kind = "Invoke" /\ e.operation = requests[k].operation
        BY <1>1, <2>1, <2>2 DEF CancelFollowsInvoke
    <2>3. ASSUME NEW e \in effects \cup delivered, e.kind = "Cancel"
          PROVE  /\ \E f \in delivered' : /\ f.kind = "Invoke"
                                          /\ f.operation = e.operation
                                          /\ f.key = e.key
                                          /\ f.provider = e.provider
                 /\ ~(/\ requests[e.key].status = "Dispatched"
                      /\ requests[e.key].operation = e.operation)
        BY <1>1, <2>3 DEF CancelFollowsInvoke
    <2>. QED  BY <1>1, <1>2, <2>2, <2>3 DEF CancelFollowsInvoke, is_terminal
<1>9. RoomForCancels'
    <2>1. QueuedCancels' = {}
        BY <1>1 DEF QueuedCancels
    <2>2. InFlight' \subseteq Stored
        BY <1>1 DEF InFlight, Stored
    <2>3. IsFiniteSet(Stored) /\ Cardinality(Stored) \in Nat
        BY KeySetCardinality DEF Stored
    <2>4. Cardinality(InFlight') \in Nat /\ Cardinality(InFlight') <= Cardinality(Stored)
        BY <2>2, <2>3, FS_Subset, FS_CardinalityType
    <2>5. IsFiniteSet({}) /\ Cardinality({}) = 0
        BY FS_EmptySet
    <2>. QED  BY <1>3, <2>1, <2>3, <2>4, <2>5, BoundsAssumption DEF RoomForCancels
<1>. QED  BY <1>4, <1>5, <1>6, <1>7, <1>8, <1>9

\* Handing out completions moves them between two parts of the account.
LEMMA DrainCompletionsPreserves ==
    ASSUME IndInv, HistoryInv, drain_completions
    PROVE  HistoryInv'
<1>. USE DEF HistoryInv
<1>1. /\ requests' = requests /\ effects' = effects /\ delivered' = delivered
      /\ approved' = approved /\ dropped' = dropped
      /\ next_request_sequence' = next_request_sequence
      /\ completions' = {}
      /\ received' = received \cup {c.accepted : c \in completions}
    BY DEF drain_completions, id_vars
<1>2. /\ OperationsDistinct' /\ DispatchedInvoked' /\ OpenIsFresh' /\ AcceptedDistinct'
      /\ InvokedOnce' /\ CancelFollowsInvoke' /\ ApprovalBinds'
      /\ CancelNeverLostToFullQueue'
    BY <1>1 DEF OperationsDistinct, DispatchedInvoked, OpenIsFresh, AcceptedDistinct,
       InvokedOnce, CancelFollowsInvoke, ApprovalBinds, CancelNeverLostToFullQueue,
       Stored, Active, is_terminal
<1>3. RoomForCancels'
    BY <1>1 DEF RoomForCancels, Stored, QueuedCancels, InFlight, Queued
<1>4. SettledOnce'
    <2> DEFINE stillopen == {requests[x].accepted : x \in {y \in Keys : Active(y)}}
               queued == {c.accepted : c \in completions}
    <2>1. /\ 1..(next_request_sequence - 1) = stillopen \cup queued \cup received \cup dropped
          /\ stillopen \cap (queued \cup received \cup dropped) = {}
          /\ queued \cap (received \cup dropped) = {}
          /\ received \cap dropped = {}
        BY DEF SettledOnce
    <2>2. stillopen' = stillopen
        BY <1>1 DEF Active
    <2>3. {c.accepted : c \in completions'} = {}
        BY <1>1
    <2>. HIDE DEF stillopen, queued
    <2>4. /\ 1..(next_request_sequence' - 1) = stillopen' \cup {} \cup received' \cup dropped'
          /\ stillopen' \cap ({} \cup received' \cup dropped') = {}
          /\ {} \cap (received' \cup dropped') = {}
          /\ received' \cap dropped' = {}
        <3>1. received' = received \cup queued
            BY <1>1 DEF queued
        <3>. QED  BY <1>1, <2>1, <2>2, <3>1
    <2>. QED  BY <1>1, <2>3, <2>4 DEF SettledOnce, stillopen
<1>. QED  BY <1>2, <1>3, <1>4

-----------------------------------------------------------------------------
(* The theorems. *)

\* Initially nothing has happened.
LEMMA InitHistoryInv == Init => HistoryInv
<1>. SUFFICES ASSUME Init PROVE HistoryInv
    OBVIOUS
<1>1. /\ \A k \in Keys : requests[k].status = "Vacant"
      /\ effects = {} /\ completions = {} /\ dropped = {}
      /\ delivered = {} /\ received = {} /\ approved = {} /\ next_request_sequence = 1
    BY DEF Init, Vacant
<1>2. Stored = {} /\ InFlight = {} /\ QueuedCancels = {}
    BY <1>1 DEF Stored, InFlight, QueuedCancels
<1>3. RoomForCancels
    BY <1>2, FS_EmptySet, BoundsAssumption DEF RoomForCancels
<1>4. SettledOnce
    <2>1. {requests[k].accepted : k \in {x \in Keys : Active(x)}} = {}
        BY <1>1 DEF Active, ActiveStatuses
    <2>2. 1..(next_request_sequence - 1) = {}
        BY <1>1
    <2>. QED  BY <1>1, <2>1, <2>2 DEF SettledOnce
<1>. QED
    BY <1>1, <1>2, <1>3, <1>4
       DEF HistoryInv, OperationsDistinct, DispatchedInvoked, OpenIsFresh, AcceptedDistinct,
           InvokedOnce, CancelFollowsInvoke, ApprovalBinds, CancelNeverLostToFullQueue,
           Active, ActiveStatuses, is_terminal, TerminalStatuses, ClosedStatuses

\* Every step keeps the account of the past.
LEMMA NextHistoryInv ==
    ASSUME IndInv, AcceptedBelow, HistoryInv, [Next]_vars
    PROVE  HistoryInv'
<1>1. ASSUME NEW T, NEW sent, Settles(T, sent) PROVE HistoryInv'
    BY <1>1, SettlesIdentities, SettlesOperations, SettlesAccounts, SettlesRoom DEF HistoryInv
<1>2. ASSUME NEW k, Approves(k) PROVE HistoryInv'
    BY <1>2, ApprovesPreserves
<1>3. ASSUME NEW k, NEW evicted, Accepts(k, evicted) PROVE HistoryInv'
    BY <1>3, AcceptsPreserves
<1>. QED
    BY <1>1, <1>2, <1>3, StepForms, DrainEffectsPreserves, DrainCompletionsPreserves
       DEF StepForm

\* The engine's account of the past holds in every reachable state: the
\* inductive invariant of this module.
THEOREM HistoryInvariance == Spec => []HistoryInv
<1>1. Init => HistoryInv
    BY InitHistoryInv
<1>2. IndInv /\ AcceptedBelow /\ HistoryInv /\ [Next]_vars => HistoryInv'
    BY NextHistoryInv
<1>. QED  BY <1>1, <1>2, Invariance, AcceptedInOrder, PTL DEF Spec

\* For any number of clients, requests and providers, no operation is invoked
\* or cancelled twice, and nothing is both queued and handed out.
THEOREM NoRepeatedInvoke == Spec => []InvokedOnce
BY HistoryInvariance, PTL DEF HistoryInv

\* A provider is asked to cancel only what it was handed, after the request is
\* closed, and QueuedInvokeRemoved is reported exactly for what never left.
THEOREM CancelTellsTheTruth == Spec => []CancelFollowsInvoke
BY HistoryInvariance, PTL DEF HistoryInv

\* What needed an approval was invoked only after one that named it.
THEOREM ApprovedBeforeInvoked == Spec => []ApprovalBinds
BY HistoryInvariance, PTL DEF HistoryInv

\* Every accepted request is settled exactly once, whatever is dropped.
THEOREM SettledExactlyOnce == Spec => []SettledOnce
BY HistoryInvariance, PTL DEF HistoryInv

\* Two effects per request are always enough: no Cancel is lost to a full queue.
THEOREM RoomForEveryCancel == Spec => []CancelNeverLostToFullQueue
BY HistoryInvariance, PTL DEF HistoryInv

-----------------------------------------------------------------------------
(* The authority lane. *)

\* No policy was spoken of by an envelope that is still to come.
AuthorityInv ==
    /\ AuthorityLastWord
    /\ \A pk \in PolicyKeys : policy_sequence[pk] <= last_authority_sequence

\* A grant in force is the last word of the authority lane on its key: no
\* repeated, overtaken or late envelope brings a grant back.
THEOREM LastWordOfAuthority == Spec => []AuthorityLastWord
<1>1. Init => AuthorityInv
    BY DEF Init, AuthorityInv, AuthorityLastWord
<1>2. ASSUME IndInv, AuthorityInv, [Next]_vars PROVE AuthorityInv'
    <2>0. /\ last_authority_sequence \in Int
          /\ grants = [pk \in PolicyKeys |-> grants[pk]]
          /\ grant_sequence = [pk \in PolicyKeys |-> grant_sequence[pk]]
          /\ policy_sequence = [pk \in PolicyKeys |-> policy_sequence[pk]]
          /\ \A pk \in PolicyKeys : policy_sequence[pk] \in Int
        BY <1>2 DEF IndInv, TypeOK
    <2>1. CASE /\ UNCHANGED <<grant_sequence, policy_sequence>>
               /\ \A pk \in PolicyKeys : grants'[pk] \in {grants[pk], "None"}
               /\ last_authority_sequence' \in Int
               /\ last_authority_sequence' >= last_authority_sequence
        BY <1>2, <2>0, <2>1 DEF AuthorityInv, AuthorityLastWord
    <2>2. ASSUME NEW s \in 1..MaxAuthority, NEW pk \in PolicyKeys, NEW mode \in GrantModes,
                 set_grant(s, pk, mode)
          PROVE  AuthorityInv'
        BY <1>2, <2>0, <2>2 DEF set_grant, apply_authority, MaxOf, AuthorityInv, AuthorityLastWord
    <2>3. ASSUME NEW s \in 1..MaxAuthority, NEW pk \in PolicyKeys, revoke_grant(s, pk)
          PROVE  AuthorityInv'
        BY <1>2, <2>0, <2>3 DEF revoke_grant, apply_authority, MaxOf, AuthorityInv, AuthorityLastWord
    <2>4. ASSUME NEW s \in 1..MaxAuthority, NEW c \in Clients, close_client(s, c)
          PROVE  AuthorityInv'
        BY <1>2, <2>0, <2>4 DEF close_client, apply_authority, MaxOf, AuthorityInv, AuthorityLastWord
    <2>5. ASSUME NEW s \in 1..MaxAuthority, NEW k, NEW n, NEW i, NEW g, NEW verdict,
                 resolve_approval(s, k, n, i, g, verdict)
          PROVE  AuthorityInv'
        BY <2>0, <2>1, <2>5 DEF resolve_approval, apply_authority, authority_vars
    <2>6. CASE /\ last_authority_sequence' = last_authority_sequence
               /\ UNCHANGED <<grant_sequence, policy_sequence>>
               /\ \A pk \in PolicyKeys : grants'[pk] \in {grants[pk], "None"}
        BY <2>0, <2>1, <2>6
    <2>7. CASE \E i \in Instances, g \in Generations : set_generation(i, g)
        <3>1. PICK i \in Instances, g \in Generations : set_generation(i, g)
            BY <2>7
        <3>. QED  BY <2>6, <3>1 DEF set_generation, history
    <2>8. CASE \E i \in Instances : remove_instance(i)
        BY <2>6, <2>8 DEF remove_instance, purge_instance_grants, history
    <2>9. CASE \E i \in Instances, g \in Generations : set_instance_inactive(i, g)
        BY <2>6, <2>9 DEF set_instance_inactive, purge_instance_grants, history
    <2>10. CASE UNCHANGED <<grants, last_authority_sequence, grant_sequence, policy_sequence>>
        BY <2>6, <2>10
    <2>11. CASE \/ \E p \in Providers : register_provider(p) \/ detach_provider_runtime(p)
                \/ \E i \in Instances, g \in Generations : set_instance_active(i, g)
                \/ \E t \in Ticks : advance_time(t)
                \/ drain_effects \/ drain_completions \/ UNCHANGED vars
        BY <2>10, <2>11 DEF register_provider, detach_provider_runtime, set_instance_active,
           advance_time, drain_effects, drain_completions, vars, authority_vars, history
    <2>12. ASSUME NEW k \in Keys, NEW pk \in PolicyKeys, NEW d \in Ticks, request(k, pk, d)
           PROVE  AuthorityInv'
        BY <2>10, <2>12 DEF request, Acceptable, authority_vars, history
    <2>13. ASSUME NEW p, NEW e \in delivered, NEW outcome, apply_observation(p, e, outcome)
           PROVE  AuthorityInv'
        BY <2>10, <2>13 DEF apply_observation, Answers, authority_vars, history
    <2>. QED
        BY <1>2, <2>2, <2>3, <2>4, <2>5, <2>7, <2>8, <2>9, <2>11, <2>12, <2>13 DEF Next
<1>. QED  BY <1>1, <1>2, Invariance, PTL DEF Spec, AuthorityInv

-----------------------------------------------------------------------------
(* Closing is complete. *)

\* The open requests T, and no others, are closed as `status`.
ClosesAs(T, status) ==
    /\ T \subseteq Keys /\ \A k \in T : Active(k)
    /\ \A k \in T : /\ requests'[k].status = status
                    /\ requests'[k].instance = requests[k].instance
                    /\ requests'[k].provider = requests[k].provider
    /\ \A k \in Keys : k \notin T => requests'[k] = requests[k]

\* Closing records does that.
LEMMA ClosedClosesAs ==
    ASSUME TypeOK, NEW T \in SUBSET Keys, \A k \in T : Active(k), NEW status, NEW c,
           requests' = Closed(T, status, c)
    PROVE  ClosesAs(T, status)
<1>1. ASSUME NEW k \in T
      PROVE  /\ requests'[k].status = status
             /\ requests'[k].instance = requests[k].instance
             /\ requests'[k].provider = requests[k].provider
    <2> DEFINE q == requests[k]
               r == requests'[k]
               d == c[k]
    <2>1. q \in RequestRecord
        BY ActiveRecord
    <2>2. r = [q EXCEPT !.status = status, !.payload = "Erased", !.cancellation = d]
        BY DEF Closed
    <2>. HIDE DEF q, r, d
    <2>3. r.status = status /\ r.instance = q.instance /\ r.provider = q.provider
        BY <2>1, <2>2 DEF RequestRecord
    <2>. QED  BY <2>3 DEF q, r
<1>2. \A k \in Keys : k \notin T => requests'[k] = requests[k]
    BY DEF Closed
<1>. QED  BY <1>1, <1>2 DEF ClosesAs

\* So does cancelling and closing.
LEMMA CancelClosesAs ==
    ASSUME TypeOK, NEW T \in SUBSET Keys, \A k \in T : Active(k), NEW status,
           cancel_and_close(T, status)
    PROVE  ClosesAs(T, status)
<1>1. PICK c : requests' = Closed(T, status, c)
    BY Zenon DEF cancel_and_close
<1>. QED  BY <1>1, ClosedClosesAs

\* Whoever goes away goes away completely and alone: closing a client, an
\* instance or a provider leaves none of its requests open, none of its grants
\* and queued Invokes (for a provider: no effect at all) behind, and closes
\* nothing else.
THEOREM ClosureComplete == Spec => ClosureIsComplete
<1>1. ASSUME IndInv, [Next]_vars PROVE [CompleteStep]_vars
    <2>0. TypeOK
        BY <1>1 DEF IndInv
    <2>. DEFINE Elsewhere == {"ClientClosed", "InstanceClosed", "ProviderDetached"}
    <2>1. ASSUME \A k \in Keys : Active(k) => requests'[k].status \notin Elsewhere
          PROVE  CompleteStep
        BY <2>1 DEF CompleteStep
    <2>2. ASSUME NEW T, NEW status, ClosesAs(T, status),
                 status \notin Elsewhere
          PROVE  CompleteStep
        <3>1. \A k \in Keys : Active(k) => requests'[k].status \notin Elsewhere
            BY <2>2 DEF ClosesAs, Active, ActiveStatuses
        <3>. QED  BY <2>1, <3>1
    <2>20. \A e \in effects' : e.kind = "Invoke" =>
               /\ e.key \in Keys
               /\ requests'[e.key].status = "Dispatched"
               /\ e.instance = requests'[e.key].instance
        <3>1. TypeOK' /\ InvokeMatches'
            BY <1>1, NextIndInv DEF IndInv
        <3>. QED  BY <3>1 DEF TypeOK, EffectEnvelope, InvokeMatches, EffectOf
    <2>3. ASSUME NEW s, NEW c \in Clients, close_client(s, c) PROVE CompleteStep
        <3> DEFINE T == {k \in Keys : Active(k) /\ k.client = c}
        <3>1. ClosesAs(T, "ClientClosed")
            <4>1. T \in SUBSET Keys /\ (\A k \in T : Active(k)) /\ cancel_and_close(T, "ClientClosed")
                BY <2>3, Zenon DEF close_client
            <4>. HIDE DEF T
            <4>. QED  BY <2>0, <4>1, CancelClosesAs
        <3>2. \A pk \in PolicyKeys : pk.client = c => grants'[pk] = "None"
            BY <2>3 DEF close_client
        <3>4. \A e \in effects' : e.kind = "Invoke" => e.key.client # c
            <4>1. \A k \in Keys : k.client = c => requests'[k].status # "Dispatched"
                BY <3>1 DEF ClosesAs, Active, ActiveStatuses
            <4>. QED  BY <2>20, <4>1
        <3>3. \A k \in Keys : k \in T <=> Active(k) /\ k.client = c
            OBVIOUS
        <3>. HIDE DEF T
        <3>. QED  BY <3>1, <3>2, <3>3, <3>4 DEF CompleteStep, ClosesAs, Active, ActiveStatuses
    <2>4. ASSUME NEW i \in Instances, close_instance_requests(i), purge_instance_grants(i)
          PROVE  CompleteStep
        <3> DEFINE T == {k \in Keys : Active(k) /\ requests[k].instance = i}
        <3>1. ClosesAs(T, "InstanceClosed")
            <4>1. T \in SUBSET Keys /\ (\A k \in T : Active(k)) /\ cancel_and_close(T, "InstanceClosed")
                BY <2>4, Zenon DEF close_instance_requests
            <4>. HIDE DEF T
            <4>. QED  BY <2>0, <4>1, CancelClosesAs
        <3>2. \A pk \in PolicyKeys : pk.instance = i => grants'[pk] = "None"
            BY <2>4 DEF purge_instance_grants
        <3>4. \A e \in effects' : e.kind = "Invoke" => e.instance # i
            <4>1. \A k \in Keys : requests'[k].status = "Dispatched" => requests'[k].instance # i
                BY <3>1 DEF ClosesAs, Active, ActiveStatuses
            <4>. QED  BY <2>20, <4>1
        <3>3. \A k \in Keys : k \in T <=> Active(k) /\ requests[k].instance = i
            OBVIOUS
        <3>. HIDE DEF T
        <3>. QED  BY <3>1, <3>2, <3>3, <3>4 DEF CompleteStep, ClosesAs, Active, ActiveStatuses
    <2>5. ASSUME NEW p \in Providers, detach_provider_runtime(p) PROVE CompleteStep
        <3> DEFINE T == {k \in Keys : Active(k) /\ requests[k].provider = p}
        <3>1. ClosesAs(T, "ProviderDetached")
            <4>1. T \in SUBSET Keys /\ (\A k \in T : Active(k))
                  /\ \E c : requests' = Closed(T, "ProviderDetached", c)
                BY <2>5, Zenon DEF detach_provider_runtime
            <4>. HIDE DEF T
            <4>. QED  BY <2>0, <4>1, ClosedClosesAs
        <3>2. \A e \in effects' : e.provider # p
            BY <2>5 DEF detach_provider_runtime
        <3>3. \A k \in Keys : k \in T <=> Active(k) /\ requests[k].provider = p
            OBVIOUS
        <3>. HIDE DEF T
        <3>. QED  BY <3>1, <3>2, <3>3 DEF CompleteStep, ClosesAs, Active, ActiveStatuses
    <2>6. ASSUME NEW i \in Instances, NEW g \in Generations, set_generation(i, g)
          PROVE  CompleteStep
        <3> DEFINE T == {k \in Keys : /\ Active(k)
                                      /\ requests[k].instance = i
                                      /\ requests[k].generation # g}
        <3>1. T \in SUBSET Keys /\ (\A k \in T : Active(k)) /\ cancel_and_close(T, "Superseded")
            BY <2>6, Zenon DEF set_generation
        <3>. HIDE DEF T
        <3>. QED  BY <2>0, <2>2, <3>1, CancelClosesAs
    <2>7. ASSUME NEW t \in Ticks, advance_time(t) PROVE CompleteStep
        <3>1. expired(t) \in SUBSET Keys /\ \A k \in expired(t) : Active(k)
            BY DEF expired
        <3>. QED  BY <2>0, <2>2, <2>7, <3>1, CancelClosesAs DEF advance_time, timeout_requests
    <2>8. ASSUME NEW pk \in PolicyKeys, NEW c,
                 cancel_and_close(IF c THEN {} ELSE active_requests_for_key(pk), "GrantRevoked")
          PROVE  CompleteStep
        <3> DEFINE T == IF c THEN {} ELSE active_requests_for_key(pk)
        <3>1. T \in SUBSET Keys /\ \A k \in T : Active(k)
            BY DEF active_requests_for_key
        <3>2. cancel_and_close(T, "GrantRevoked")
            BY <2>8
        <3>. HIDE DEF T
        <3>. QED  BY <2>0, <2>2, <3>1, <3>2, CancelClosesAs
    <2>9. ASSUME NEW s \in 1..MaxAuthority, NEW pk \in PolicyKeys, NEW mode \in GrantModes,
                 set_grant(s, pk, mode)
          PROVE  CompleteStep
        <3>1. cancel_and_close(IF grants[pk] \in {"None", mode} THEN {}
                               ELSE active_requests_for_key(pk), "GrantRevoked")
            BY <2>9, Zenon DEF set_grant
        <3>. QED  BY <2>8, <3>1, Zenon
    <2>10. ASSUME NEW s \in 1..MaxAuthority, NEW pk \in PolicyKeys, revoke_grant(s, pk)
          PROVE  CompleteStep
        <3>1. cancel_and_close(IF grants[pk] = "None" THEN {}
                               ELSE active_requests_for_key(pk), "GrantRevoked")
            BY <2>10, Zenon DEF revoke_grant
        <3>. QED  BY <2>8, <3>1, Zenon
    <2>11. ASSUME NEW k \in Keys, Active(k), timeout_requests({k}) PROVE CompleteStep
        BY <2>0, <2>2, <2>11, CancelClosesAs DEF timeout_requests
    <2>12. ASSUME NEW k \in Keys, Active(k), \A x \in Keys : x # k => requests'[x] = requests[x],
                  requests'[k].status \notin Elsewhere
           PROVE  CompleteStep
        <3>1. \A x \in Keys : Active(x) => requests'[x].status \notin Elsewhere
            BY <2>12 DEF Active, ActiveStatuses
        <3>. QED  BY <2>1, <3>1
    <2>13. ASSUME NEW s, NEW k \in Keys, NEW n, NEW i, NEW g, NEW verdict,
                  resolve_approval(s, k, n, i, g, verdict)
           PROVE  CompleteStep
        <3>1. Active(k) /\ requests[k] \in RequestRecord
            BY <2>0, <2>13, ActiveRecord DEF resolve_approval, Resolvable, Active, ActiveStatuses
        <3> DEFINE q == requests[k]
                   r == requests'[k]
        <3>2. CASE approve_once(k, n)
            <4>1. /\ r = [q EXCEPT !.status = "Dispatched", !.operation = next_operation_id,
                                   !.payload = "Erased"]
                  /\ \A x \in Keys : x # k => requests'[x] = requests[x]
                BY <2>0, <3>2 DEF approve_once, TypeOK
            <4>2. q \in RequestRecord
                BY <3>1
            <4>. HIDE DEF q, r
            <4>3. r.status = "Dispatched"
                BY <4>1, <4>2 DEF RequestRecord
            <4>. QED  BY <2>12, <3>1, <4>1, <4>3 DEF r
        <3>3. CASE deny_approval(k)
            <4>1. /\ r = [q EXCEPT !.status = "ApprovalDenied", !.payload = "Erased"]
                  /\ \A x \in Keys : x # k => requests'[x] = requests[x]
                BY <2>0, <3>3 DEF deny_approval, TypeOK
            <4>2. q \in RequestRecord
                BY <3>1
            <4>. HIDE DEF q, r
            <4>3. r.status = "ApprovalDenied"
                BY <4>1, <4>2 DEF RequestRecord
            <4>. QED  BY <2>12, <3>1, <4>1, <4>3 DEF r
        <3>. QED  BY <2>11, <2>13, <3>1, <3>2, <3>3 DEF resolve_approval
    <2>14. ASSUME NEW p, NEW e \in delivered, NEW outcome \in Outcomes,
                  apply_observation(p, e, outcome)
           PROVE  CompleteStep
        <3> DEFINE k == e.key
                   q == requests[k]
                   r == requests'[k]
        <3>1. k \in Keys /\ Active(k) /\ q \in RequestRecord
            BY <2>0, <2>14, ActiveRecord DEF apply_observation, Answers, Active, ActiveStatuses, TypeOK,
                                             EffectEnvelope
        <3>2. CASE requests' = [requests EXCEPT ![k].status = outcome, ![k].payload = "Erased"]
            <4>1. /\ r = [q EXCEPT !.status = outcome, !.payload = "Erased"]
                  /\ \A x \in Keys : x # k => requests'[x] = requests[x]
                BY <2>0, <3>1, <3>2 DEF TypeOK
            <4>2. r.status = outcome
                <5>1. q \in RequestRecord
                    BY <3>1
                <5>. HIDE DEF q, r
                <5>. QED  BY <4>1, <5>1 DEF RequestRecord
            <4>. QED  BY <2>12, <3>1, <4>1, <4>2 DEF Outcomes
        <3>3. CASE timeout_requests({k})
            BY <2>11, <3>1, <3>3
        <3>. QED  BY <2>14, <3>2, <3>3, Zenon DEF apply_observation, Answers
    <2>15. ASSUME NEW k \in Keys, NEW pk \in PolicyKeys, NEW d \in Ticks, request(k, pk, d)
           PROVE  CompleteStep
        <3>1. PICK evicted : Accepts(k, evicted)
            BY <1>1, <2>15, RequestForm
        <3>2. evicted \in ensure_request_capacity(k)
            BY <3>1 DEF Accepts
        <3>3. \A x \in evicted : is_terminal(x)
            BY <3>2 DEF ensure_request_capacity
        <3>4. \A x \in Keys : Active(x) => requests'[x] = requests[x]
            BY <3>1, <3>3 DEF Accepts, is_terminal, TerminalStatuses, ClosedStatuses, Active, ActiveStatuses
        <3>5. \A x \in Keys : Active(x) => requests'[x].status \notin Elsewhere
            BY <3>4 DEF Active, ActiveStatuses
        <3>. QED  BY <2>1, <3>5
    <2>16. ASSUME requests' = requests PROVE CompleteStep
        <3>1. \A x \in Keys : Active(x) => requests'[x].status \notin Elsewhere
            BY <2>16 DEF Active, ActiveStatuses
        <3>. QED  BY <2>1, <3>1
    <2>17. CASE \/ \E p \in Providers : register_provider(p)
                \/ \E i \in Instances, g \in Generations : set_instance_active(i, g)
                \/ drain_effects \/ drain_completions \/ UNCHANGED vars
        BY <2>16, <2>17 DEF register_provider, set_instance_active, drain_effects,
           drain_completions, vars, request_vars
    <2>18. CASE \E i \in Instances : \/ \E g \in Generations : set_instance_inactive(i, g)
                                     \/ remove_instance(i)
        BY <2>4, <2>18 DEF set_instance_inactive, remove_instance
    <2>. HIDE DEF Elsewhere
    <2>. QED  BY <1>1, <2>3, <2>5, <2>6, <2>7, <2>9, <2>10, <2>13, <2>14, <2>15, <2>17, <2>18
              DEF Next
<1>. QED  BY <1>1, Invariance, PTL DEF Spec, ClosureIsComplete
=============================================================================
