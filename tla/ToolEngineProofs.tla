-------------------------- MODULE ToolEngineProofs --------------------------
(***************************************************************************)
(* Machine-checked proofs about ToolEngine, for every value of its         *)
(* constants: types, and that no queued invocation outlives its authority. *)
(***************************************************************************)
EXTENDS ToolEngine, FiniteSetTheorems, TLAPS

-----------------------------------------------------------------------------
(* Finite sets. *)

\* The image of a finite domain under a function is finite.
LEMMA FiniteRange ==
    ASSUME NEW S, IsFiniteSet(S), NEW f, f = [x \in S |-> f[x]]
    PROVE  IsFiniteSet({f[x] : x \in S})
<1> DEFINE R == {f[x] : x \in S}
<1>1. f \in [S -> R]
    BY Zenon
<1>2. f \in Surjection(S, R)
    BY <1>1 DEF Surjection
<1>. QED
    BY <1>2, FS_Surjection

\* There are finitely many request keys.
LEMMA KeysFinite == IsFiniteSet(Keys)
<1> DEFINE f == [p \in Clients \X RequestIds |-> [client |-> p[1], id |-> p[2]]]
           R == {f[p] : p \in Clients \X RequestIds}
<1>1. IsFiniteSet(Clients \X RequestIds)
    BY FS_Product, FiniteAssumption
<1>2. IsFiniteSet(R)
    <2>1. f = [p \in Clients \X RequestIds |-> f[p]]
        OBVIOUS
    <2>. HIDE DEF f
    <2>. QED  BY <1>1, <2>1, FiniteRange
<1>3. Keys \subseteq R
    <2>. SUFFICES ASSUME NEW k \in Keys PROVE k \in R
        OBVIOUS
    <2>1. <<k.client, k.id>> \in Clients \X RequestIds
        BY DEF Keys
    <2>2. f[<<k.client, k.id>>] = k
        BY <2>1 DEF Keys
    <2>. QED  BY <2>1, <2>2
<1>. QED  BY <1>2, <1>3, FS_Subset

\* So every set of keys has a natural number as its cardinality.
LEMMA KeySetCardinality ==
    ASSUME NEW S \in SUBSET Keys
    PROVE  IsFiniteSet(S) /\ Cardinality(S) \in Nat
BY KeysFinite, FS_Subset, FS_CardinalityType

-----------------------------------------------------------------------------
(* The inductive invariant. *)

\* A queued Invoke is the Invoke of the dispatched request under its key.
InvokeMatches ==
    \A e \in effects : e.kind = "Invoke" =>
        /\ requests[e.key].status = "Dispatched"
        /\ e = EffectOf("Invoke", e.key, requests[e.key], "Present")
        /\ e.provider \in providers

\* Operation ids are handed out in order.
OperationsBelow ==
    /\ \A e \in effects \cup delivered : e.operation < next_operation_id
    /\ \A k \in Stored : requests[k].operation < next_operation_id
    /\ \A k \in Keys : requests[k].status = "Dispatched" => requests[k].operation > 0

\* A queued Invoke has not been handed out.
NotYetDelivered ==
    \A e \in effects, f \in delivered :
        e.kind = "Invoke" /\ f.kind = "Invoke" => e.operation # f.operation

\* A grant in force names a registered provider, and the live generation of
\* an active instance.
GrantsCurrent ==
    \A pk \in PolicyKeys : grants[pk] # "None" =>
        /\ pk.provider \in providers
        /\ generations[pk.instance] = pk.generation
        /\ instance_states[pk.instance] = "Active"

IndInv ==
    /\ TypeOK
    /\ ActiveAuthorized
    /\ DeadlineAhead
    /\ PayloadRetained
    /\ InvokeMatches
    /\ OperationsBelow
    /\ NotYetDelivered
    /\ GrantsCurrent

\* A stored request is a full record.
LEMMA StoredRecord ==
    ASSUME TypeOK, NEW k \in Keys, requests[k].status # "Vacant"
    PROVE  requests[k] \in RequestRecord
BY DEF TypeOK, Vacant

\* An open request is a full record.
LEMMA ActiveRecord ==
    ASSUME TypeOK, NEW k \in Keys, Active(k)
    PROVE  requests[k] \in RequestRecord
BY StoredRecord DEF Active, ActiveStatuses

-----------------------------------------------------------------------------
(* What the shared steps do. *)

\* Queuing completions keeps the types of the three variables it changes.
LEMMA PushTypes ==
    ASSUME TypeOK, NEW S \in SUBSET CompletionEnvelope, IsFiniteSet(S),
           push_terminal_completions(S)
    PROVE  /\ completions' \in SUBSET CompletionEnvelope
           /\ dropped' \in SUBSET Sequences
           /\ next_completion_sequence' \in 1..(MaxU64 + 1)
<1>1. Cardinality(S) \in Nat
    BY FS_CardinalityType
<1>2. next_completion_sequence' \in 1..(MaxU64 + 1)
    BY <1>1, BoundsAssumption DEF push_terminal_completions, TypeOK, MinOf
<1>3. PICK kept \in SUBSET S :
         /\ completions' = completions \cup kept
         /\ dropped' = dropped \cup {c.accepted : c \in S \ kept}
    BY Zenon DEF push_terminal_completions
<1>4. completions' \in SUBSET CompletionEnvelope
    BY <1>3 DEF TypeOK
<1>5. \A c \in S : c.accepted \in Sequences
    BY DEF CompletionEnvelope, Sequences
<1>6. dropped' \in SUBSET Sequences
    BY <1>3, <1>5 DEF TypeOK
<1>. QED  BY <1>2, <1>4, <1>6

\* The completions of a set of terminal requests are well-typed and finite.
LEMMA CompletionsOfTypes ==
    ASSUME NEW T \in SUBSET Keys,
           \A k \in T : requests'[k] \in RequestRecord /\ requests'[k].status \in TerminalStatuses
    PROVE  /\ {CompletionOf(k, requests'[k]) : k \in T} \in SUBSET CompletionEnvelope
           /\ IsFiniteSet({CompletionOf(k, requests'[k]) : k \in T})
<1>1. \A k \in T : CompletionOf(k, requests'[k]) \in CompletionEnvelope
    BY DEF CompletionOf, CompletionEnvelope, RequestRecord
<1>2. IsFiniteSet({CompletionOf(k, requests'[k]) : k \in T})
    <2> DEFINE f == [k \in T |-> CompletionOf(k, requests'[k])]
    <2>1. IsFiniteSet(T)
        BY KeySetCardinality
    <2>2. f = [k \in T |-> f[k]]
        OBVIOUS
    <2>3. {CompletionOf(k, requests'[k]) : k \in T} = {f[k] : k \in T}
        OBVIOUS
    <2>. HIDE DEF f
    <2>4. IsFiniteSet({f[k] : k \in T})
        BY <2>1, <2>2, FiniteRange
    <2>. QED  BY <2>3, <2>4
<1>. QED  BY <1>1, <1>2

\* What closing open requests leaves behind: the closed ones are terminal and
\* keep their identity, none of their Invokes stays in the queue, and what is
\* added to the queue are Cancels of operations handed out before.
Closing(T, status) ==
    /\ requests' \in [Keys -> RequestRecord \cup {Vacant}]
    /\ \A k \in Keys \ T : requests'[k] = requests[k]
    /\ \A k \in T : /\ requests'[k].status = status
                    /\ requests'[k] \in RequestRecord
                    /\ requests'[k].payload = "Erased"
                    /\ requests'[k].operation = requests[k].operation
                    /\ requests'[k].accepted = requests[k].accepted
    /\ \A e \in effects' :
           \/ e \in effects /\ ~(e.kind = "Invoke" /\ e.key \in T)
           \/ /\ e \in EffectEnvelope
              /\ e.kind = "Cancel"
              /\ e.operation < next_operation_id
    /\ next_effect_sequence' \in 1..(MaxU64 + 1)
    /\ completions' \in SUBSET CompletionEnvelope
    /\ dropped' \in SUBSET Sequences
    /\ next_completion_sequence' \in 1..(MaxU64 + 1)

\* Closing requests keeps the type of the table and what identifies them.
LEMMA ClosedRecords ==
    ASSUME TypeOK, NEW T \in SUBSET Keys, \A k \in T : Active(k),
           NEW status \in ClosedStatuses,
           requests' = [k \in Keys |-> requests'[k]],
           \A k \in Keys \ T : requests'[k] = requests[k],
           \A k \in T : \E d \in CancellationDisposition :
               requests'[k] = [requests[k] EXCEPT !.status = status,
                                  !.payload = "Erased", !.cancellation = d]
    PROVE  /\ requests' \in [Keys -> RequestRecord \cup {Vacant}]
           /\ \A k \in T : /\ requests'[k].status = status
                           /\ requests'[k] \in RequestRecord
                           /\ requests'[k].payload = "Erased"
                           /\ requests'[k].operation = requests[k].operation
                           /\ requests'[k].accepted = requests[k].accepted
<1>1. ASSUME NEW k \in T
      PROVE  /\ requests'[k].status = status
             /\ requests'[k] \in RequestRecord
             /\ requests'[k].payload = "Erased"
             /\ requests'[k].operation = requests[k].operation
             /\ requests'[k].accepted = requests[k].accepted
    <2> DEFINE q == requests[k]
    <2>1. q \in RequestRecord /\ status \in TerminalStatuses
        BY ActiveRecord DEF TerminalStatuses
    <2>2. PICK d \in CancellationDisposition :
             requests'[k] = [q EXCEPT !.status = status, !.payload = "Erased",
                                      !.cancellation = d]
        OBVIOUS
    <2>. HIDE DEF q
    <2>3. requests'[k] \in RequestRecord
        BY <2>1, <2>2 DEF RequestRecord
    <2>4. /\ requests'[k].status = status
          /\ requests'[k].payload = "Erased"
          /\ requests'[k].operation = q.operation
          /\ requests'[k].accepted = q.accepted
        BY <2>1, <2>2 DEF RequestRecord
    <2>. QED  BY <2>3, <2>4 DEF q
<1>2. \A k \in Keys : requests'[k] \in RequestRecord \cup {Vacant}
    BY <1>1 DEF TypeOK
<1>. QED  BY <1>1, <1>2

\* Closing requests does what Closing says.
LEMMA CancelAndClose ==
    ASSUME TypeOK, InvokeMatches, OperationsBelow,
           NEW T \in SUBSET Keys, \A k \in T : Active(k),
           NEW status \in ClosedStatuses,
           cancel_and_close(T, status)
    PROVE  Closing(T, status)
<1> DEFINE removed == UNION {queued_invoke(k) : k \in T}
           recalled == {e.key : e \in removed}
           flying == {k \in T : requests[k].status = "Dispatched"} \ recalled
           left == MaxU64 + 1 - next_effect_sequence
           room == TOOL_EFFECTS_MAX - Cardinality(effects)
           most == MinOf(Cardinality(flying), left)
           Losses(sent) == {d \in {"DroppedQueueFull", "DroppedSequenceExhausted"} :
                               IF d = "DroppedQueueFull"
                               THEN Cardinality(sent) >= room
                               ELSE Cardinality(sent) = left}
           Disposition(sent, lost) ==
               [k \in T |-> CASE k \in recalled -> "QueuedInvokeRemoved"
                              [] k \in sent -> "CancelQueuedUnconfirmed"
                              [] k \in flying \ sent -> lost[k]
                              [] OTHER -> "NotRequired"]
<1>1. PICK sent \in SUBSET flying :
         /\ Cardinality(sent) <= most
         /\ \E lost \in [flying \ sent -> Losses(sent)] :
              /\ requests' = Closed(T, status, Disposition(sent, lost))
              /\ effects' = (effects \ removed) \cup
                     {EffectOf("Cancel", k, requests'[k], "Erased") : k \in sent}
              /\ next_effect_sequence' = next_effect_sequence + Cardinality(sent)
              /\ push_terminal_completions({CompletionOf(k, requests'[k]) : k \in T})
    BY Zenon DEF cancel_and_close
<1>2. PICK lost \in [flying \ sent -> Losses(sent)] :
              /\ requests' = Closed(T, status, Disposition(sent, lost))
              /\ effects' = (effects \ removed) \cup
                     {EffectOf("Cancel", k, requests'[k], "Erased") : k \in sent}
              /\ next_effect_sequence' = next_effect_sequence + Cardinality(sent)
              /\ push_terminal_completions({CompletionOf(k, requests'[k]) : k \in T})
    BY <1>1
<1>3. Disposition(sent, lost) \in [T -> CancellationDisposition]
    <2>. SUFFICES ASSUME NEW k \in T
                 PROVE  (CASE k \in recalled -> "QueuedInvokeRemoved"
                           [] k \in sent -> "CancelQueuedUnconfirmed"
                           [] k \in flying \ sent -> lost[k]
                           [] OTHER -> "NotRequired") \in CancellationDisposition
        OBVIOUS
    <2>1. k \in flying \ sent => lost[k] \in CancellationDisposition
        <3>. HIDE DEF flying, room, left
        <3>. QED  BY <1>2 DEF CancellationDisposition
    <2>. HIDE DEF recalled, flying
    <2>. QED  BY <2>1 DEF CancellationDisposition
<1>4. /\ requests' = [k \in Keys |-> requests'[k]]
      /\ \A k \in Keys \ T : requests'[k] = requests[k]
      /\ \A k \in T : \E d \in CancellationDisposition :
               requests'[k] = [requests[k] EXCEPT !.status = status,
                                  !.payload = "Erased", !.cancellation = d]
    <2> DEFINE c == Disposition(sent, lost)
    <2>1. requests' = Closed(T, status, c) /\ \A k \in T : c[k] \in CancellationDisposition
        BY <1>2, <1>3
    <2>. HIDE DEF c
    <2>. QED  BY <2>1 DEF Closed
<1>. HIDE DEF Disposition
<1>5. /\ requests' \in [Keys -> RequestRecord \cup {Vacant}]
      /\ \A k \in Keys \ T : requests'[k] = requests[k]
      /\ \A k \in T : /\ requests'[k].status = status
                      /\ requests'[k] \in RequestRecord
                      /\ requests'[k].payload = "Erased"
                      /\ requests'[k].operation = requests[k].operation
                      /\ requests'[k].accepted = requests[k].accepted
    <2>. HIDE DEF removed, recalled, flying, left, room, most, Losses
    <2>. QED  BY <1>4, ClosedRecords, Zenon
<1>6. /\ completions' \in SUBSET CompletionEnvelope
      /\ dropped' \in SUBSET Sequences
      /\ next_completion_sequence' \in 1..(MaxU64 + 1)
    <2> DEFINE S == {CompletionOf(k, requests'[k]) : k \in T}
    <2>1. S \in SUBSET CompletionEnvelope /\ IsFiniteSet(S)
        <3>1. status \in TerminalStatuses
            BY DEF TerminalStatuses
        <3>2. \A k \in T : requests'[k] \in RequestRecord /\ requests'[k].status \in TerminalStatuses
            BY <1>5, <3>1
        <3>. QED  BY <3>2, CompletionsOfTypes, Zenon
    <2>. QED  BY <2>1, <1>2, PushTypes
<1>7. next_effect_sequence' \in 1..(MaxU64 + 1)
    <2>1. Cardinality(sent) \in Nat /\ Cardinality(flying) \in Nat
        BY KeySetCardinality
    <2>2. Cardinality(sent) <= left
        <3>1. left \in Nat
            BY BoundsAssumption DEF TypeOK
        <3>. QED  BY <1>1, <2>1, <3>1 DEF MinOf
    <2>. HIDE DEF flying
    <2>. QED  BY <1>2, <2>1, <2>2, BoundsAssumption DEF TypeOK
<1>8. ASSUME NEW e \in effects'
      PROVE  \/ e \in effects /\ ~(e.kind = "Invoke" /\ e.key \in T)
             \/ /\ e \in EffectEnvelope
                /\ e.kind = "Cancel"
                /\ e.operation < next_operation_id
    <2>1. CASE e \in effects \ removed
        <3>1. ASSUME e.kind = "Invoke", e.key \in T PROVE e \in queued_invoke(e.key)
            BY <2>1, <3>1 DEF InvokeMatches, queued_invoke, EffectOf
        <3>. QED  BY <2>1, <3>1
    <2>2. ASSUME NEW k \in sent, e = EffectOf("Cancel", k, requests'[k], "Erased")
          PROVE  /\ e \in EffectEnvelope
                 /\ e.kind = "Cancel"
                 /\ e.operation < next_operation_id
        <3>1. k \in T /\ requests[k].status = "Dispatched"
            OBVIOUS
        <3>2. requests'[k] \in RequestRecord /\ requests'[k].operation = requests[k].operation
            BY <1>5, <3>1
        <3>3. requests[k].operation \in 1..MaxU64 /\ requests[k].operation < next_operation_id
            BY <3>1, StoredRecord DEF OperationsBelow, Stored, RequestRecord
        <3>. QED  BY <2>2, <3>1, <3>2, <3>3 DEF EffectOf, EffectEnvelope, RequestRecord
    <2>. QED  BY <1>2, <2>1, <2>2
<1>. QED  BY <1>5, <1>6, <1>7, <1>8 DEF Closing

\* A step that only closes requests keeps the parts of the invariant that are
\* about the request table and the queues.
LEMMA ClosingPreserves ==
    ASSUME IndInv, NEW T \in SUBSET Keys, \A k \in T : Active(k),
           NEW status \in ClosedStatuses,
           Closing(T, status), providers \subseteq providers',
           UNCHANGED <<next_operation_id, delivered>>
    PROVE  /\ \A k \in Keys : requests'[k].status \in ActiveStatuses =>
                  Active(k) /\ k \notin T /\ requests'[k] = requests[k]
           /\ effects' \in SUBSET EffectEnvelope
           /\ PayloadRetained'
           /\ InvokeMatches'
           /\ OperationsBelow'
           /\ NotYetDelivered'
<1>1. status \notin ActiveStatuses /\ status # "AwaitingApproval" /\ status # "Dispatched"
    BY DEF ClosedStatuses, ActiveStatuses
<1>2. \A k \in Keys : requests'[k].status \in ActiveStatuses =>
                  Active(k) /\ k \notin T /\ requests'[k] = requests[k]
    BY <1>1 DEF Closing, Active
<1>3. effects' \in SUBSET EffectEnvelope
    BY DEF Closing, IndInv, TypeOK
<1>4. PayloadRetained'
    <2>. SUFFICES ASSUME NEW k \in Keys, requests'[k].status # "Vacant"
                 PROVE  requests'[k].payload = "Present" <=> requests'[k].status = "AwaitingApproval"
        BY DEF PayloadRetained, Stored
    <2>1. CASE k \in T
        BY <1>1, <2>1 DEF Closing
    <2>2. CASE k \notin T
        BY <2>2 DEF Closing, IndInv, PayloadRetained, Stored
    <2>. QED  BY <2>1, <2>2
<1>5. InvokeMatches'
    <2>. SUFFICES ASSUME NEW e \in effects', e.kind = "Invoke"
                 PROVE  /\ requests'[e.key].status = "Dispatched"
                        /\ e = EffectOf("Invoke", e.key, requests'[e.key], "Present")
                        /\ e.provider \in providers'
        BY Zenon DEF InvokeMatches
    <2>1. e \in effects /\ e.key \notin T
        BY DEF Closing
    <2>2. e.key \in Keys
        BY <1>3 DEF EffectEnvelope
    <2>3. requests'[e.key] = requests[e.key]
        BY <2>1, <2>2 DEF Closing
    <2>. QED  BY <2>1, <2>3 DEF IndInv, InvokeMatches
<1>6. OperationsBelow'
    <2>1. \A e \in effects' \cup delivered' : e.operation < next_operation_id'
        BY DEF Closing, IndInv, OperationsBelow
    <2>2. ASSUME NEW k \in Keys, requests'[k].status # "Vacant"
          PROVE  requests'[k].operation < next_operation_id'
        <3>1. CASE k \in T
            <4>1. k \in Stored
                BY <3>1 DEF Active, ActiveStatuses, Stored
            <4>. QED  BY <3>1, <4>1 DEF Closing, IndInv, OperationsBelow
        <3>2. CASE k \notin T
            BY <2>2, <3>2 DEF Closing, IndInv, OperationsBelow, Stored
        <3>. QED  BY <3>1, <3>2
    <2>3. ASSUME NEW k \in Keys, requests'[k].status = "Dispatched"
          PROVE  requests'[k].operation > 0
        BY <1>1, <2>3 DEF Closing, IndInv, OperationsBelow
    <2>. QED  BY <2>1, <2>2, <2>3 DEF OperationsBelow, Stored
<1>7. NotYetDelivered'
    BY DEF Closing, IndInv, NotYetDelivered
<1>. QED  BY <1>2, <1>3, <1>4, <1>5, <1>6, <1>7

-----------------------------------------------------------------------------
(* One lemma per operation that closes requests. *)

\* The facts every closing operation shares, in one place.
CloseResult(T) ==
    /\ \A k \in Keys : requests'[k].status \in ActiveStatuses =>
           Active(k) /\ k \notin T /\ requests'[k] = requests[k]
    /\ requests' \in [Keys -> RequestRecord \cup {Vacant}]
    /\ effects' \in SUBSET EffectEnvelope
    /\ next_effect_sequence' \in 1..(MaxU64 + 1)
    /\ completions' \in SUBSET CompletionEnvelope
    /\ dropped' \in SUBSET Sequences
    /\ next_completion_sequence' \in 1..(MaxU64 + 1)
    /\ PayloadRetained' /\ InvokeMatches'
    /\ OperationsBelow' /\ NotYetDelivered'

\* An operation that closes requests yields CloseResult.
LEMMA CloseFacts ==
    ASSUME IndInv, NEW T \in SUBSET Keys, \A k \in T : Active(k),
           NEW status \in ClosedStatuses,
           cancel_and_close(T, status), providers \subseteq providers',
           UNCHANGED <<next_operation_id, delivered>>
    PROVE  CloseResult(T)
<1>1. Closing(T, status)
    BY CancelAndClose DEF IndInv
<1>. QED  BY <1>1, ClosingPreserves DEF Closing, CloseResult

\* What an open request rests on.
Supported(k) ==
    LET q == requests[k] IN
    /\ q \in RequestRecord
    /\ PolicyKeyOf(k, q) \in PolicyKeys
    /\ q.deadline > tick
    /\ grants[PolicyKeyOf(k, q)] = q.decision
    /\ generations[q.instance] = q.generation
    /\ instance_states[q.instance] = "Active"

\* Under the invariant an open request is supported.
LEMMA ActiveSupported ==
    ASSUME IndInv, NEW k \in Keys, Active(k)
    PROVE  Supported(k)
<1>1. requests[k] \in RequestRecord
    BY ActiveRecord DEF IndInv
<1>2. PolicyKeyOf(k, requests[k]) \in PolicyKeys
    BY <1>1 DEF PolicyKeyOf, PolicyKeys, RequestRecord, Keys
<1>. QED
    BY <1>1, <1>2 DEF IndInv, ActiveAuthorized, DeadlineAhead, Supported

\* After a closing step it is enough that the requests left open keep what
\* they rest on.
LEMMA Survivors ==
    ASSUME IndInv, NEW T \in SUBSET Keys, CloseResult(T),
           \A k \in Keys \ T : Active(k) =>
               LET q == requests[k] IN
               /\ q.deadline > tick'
               /\ grants'[PolicyKeyOf(k, q)] = q.decision
               /\ generations'[q.instance] = q.generation
               /\ instance_states'[q.instance] = "Active"
    PROVE  ActiveAuthorized' /\ DeadlineAhead'
<1>. SUFFICES ASSUME NEW k \in Keys, requests'[k].status \in ActiveStatuses
             PROVE  /\ requests'[k].deadline > tick'
                    /\ grants'[PolicyKeyOf(k, requests'[k])] = requests'[k].decision
                    /\ generations'[requests'[k].instance] = requests'[k].generation
                    /\ instance_states'[requests'[k].instance] = "Active"
    BY Zenon DEF ActiveAuthorized, DeadlineAhead, Active
<1>1. Active(k) /\ k \in Keys \ T /\ requests'[k] = requests[k]
    BY DEF CloseResult
<1>. QED  BY <1>1

\* A new generation supersedes the requests of the old one and its grants.
LEMMA SetGenerationStep ==
    ASSUME IndInv, NEW i \in Instances, NEW g \in Generations, set_generation(i, g)
    PROVE  IndInv'
<1> DEFINE T == {k \in Keys : /\ Active(k)
                              /\ requests[k].instance = i
                              /\ requests[k].generation # g}
<1>0. T \in SUBSET Keys /\ (\A k \in T : Active(k)) /\ "Superseded" \in ClosedStatuses
    BY DEF ClosedStatuses
<1> USE DEF set_generation
<1>1. CloseResult(T)
    <2>1. /\ cancel_and_close(T, "Superseded")
          /\ UNCHANGED <<providers, next_operation_id, delivered>>
        BY DEF authority_vars, history, id_vars
    <2>. HIDE DEF T, set_generation
    <2>. QED  BY <1>0, <2>1, CloseFacts
<1>2. TypeOK'
    BY <1>1 DEF IndInv, TypeOK, CloseResult, authority_vars, history, id_vars
<1>3. ActiveAuthorized' /\ DeadlineAhead'
    <2>1. ASSUME NEW k \in Keys \ T, Active(k)
          PROVE  LET q == requests[k] IN
                 /\ q.deadline > tick'
                 /\ grants'[PolicyKeyOf(k, q)] = q.decision
                 /\ generations'[q.instance] = q.generation
                 /\ instance_states'[q.instance] = "Active"
        <3>1. Supported(k)
            BY <2>1, ActiveSupported
        <3>. QED  BY <2>1, <3>1 DEF Supported, IndInv, TypeOK, PolicyKeyOf, PolicyKeys,
                       RequestRecord, authority_vars
    <2>. HIDE DEF T, set_generation
    <2>. QED  BY <1>0, <1>1, <2>1, Survivors
<1>4. GrantsCurrent'
    BY DEF IndInv, TypeOK, GrantsCurrent, PolicyKeys, authority_vars, GrantModes
<1>. QED  BY <1>1, <1>2, <1>3, <1>4 DEF IndInv, CloseResult

\* An instance that becomes inactive loses its requests and grants.
LEMMA SetInstanceInactiveStep ==
    ASSUME IndInv, NEW i \in Instances, NEW g \in Generations, set_instance_inactive(i, g)
    PROVE  IndInv'
<1> DEFINE T == {k \in Keys : Active(k) /\ requests[k].instance = i}
<1>0. T \in SUBSET Keys /\ (\A k \in T : Active(k)) /\ "InstanceClosed" \in ClosedStatuses
    BY DEF ClosedStatuses
<1> USE DEF set_instance_inactive, purge_instance_grants, close_instance_requests
<1>1. CloseResult(T)
    <2>1. /\ cancel_and_close(T, "InstanceClosed")
          /\ UNCHANGED <<providers, next_operation_id, delivered>>
        BY DEF authority_vars, history, id_vars
    <2>. HIDE DEF T, set_instance_inactive
    <2>. QED  BY <1>0, <2>1, CloseFacts
<1>2. TypeOK'
    BY <1>1 DEF IndInv, TypeOK, CloseResult, authority_vars, history, id_vars
<1>3. ActiveAuthorized' /\ DeadlineAhead'
    <2>1. ASSUME NEW k \in Keys \ T, Active(k)
          PROVE  LET q == requests[k] IN
                 /\ q.deadline > tick'
                 /\ grants'[PolicyKeyOf(k, q)] = q.decision
                 /\ generations'[q.instance] = q.generation
                 /\ instance_states'[q.instance] = "Active"
        <3>1. Supported(k)
            BY <2>1, ActiveSupported
        <3>. QED  BY <2>1, <3>1 DEF Supported, IndInv, TypeOK, PolicyKeyOf, PolicyKeys,
                       RequestRecord, authority_vars
    <2>. HIDE DEF T, set_instance_inactive
    <2>. QED  BY <1>0, <1>1, <2>1, Survivors
<1>4. GrantsCurrent'
    BY DEF IndInv, TypeOK, GrantsCurrent, PolicyKeys, authority_vars, GrantModes
<1>. QED  BY <1>1, <1>2, <1>3, <1>4 DEF IndInv, CloseResult

\* Removing an instance closes its requests and purges its grants.
LEMMA RemoveInstanceStep ==
    ASSUME IndInv, NEW i \in Instances, remove_instance(i)
    PROVE  IndInv'
<1> DEFINE T == {k \in Keys : Active(k) /\ requests[k].instance = i}
<1>0. T \in SUBSET Keys /\ (\A k \in T : Active(k)) /\ "InstanceClosed" \in ClosedStatuses
    BY DEF ClosedStatuses
<1> USE DEF remove_instance, purge_instance_grants, close_instance_requests
<1>1. CloseResult(T)
    <2>1. /\ cancel_and_close(T, "InstanceClosed")
          /\ UNCHANGED <<providers, next_operation_id, delivered>>
        BY DEF authority_vars, history, id_vars
    <2>. HIDE DEF T, remove_instance
    <2>. QED  BY <1>0, <2>1, CloseFacts
<1>2. TypeOK'
    BY <1>1 DEF IndInv, TypeOK, CloseResult, authority_vars, history, id_vars
<1>3. ActiveAuthorized' /\ DeadlineAhead'
    <2>1. ASSUME NEW k \in Keys \ T, Active(k)
          PROVE  LET q == requests[k] IN
                 /\ q.deadline > tick'
                 /\ grants'[PolicyKeyOf(k, q)] = q.decision
                 /\ generations'[q.instance] = q.generation
                 /\ instance_states'[q.instance] = "Active"
        <3>1. Supported(k)
            BY <2>1, ActiveSupported
        <3>. QED  BY <2>1, <3>1 DEF Supported, IndInv, TypeOK, PolicyKeyOf, PolicyKeys,
                       RequestRecord, authority_vars
    <2>. HIDE DEF T, remove_instance
    <2>. QED  BY <1>0, <1>1, <2>1, Survivors
<1>4. GrantsCurrent'
    BY DEF IndInv, TypeOK, GrantsCurrent, PolicyKeys, authority_vars, GrantModes
<1>. QED  BY <1>1, <1>2, <1>3, <1>4 DEF IndInv, CloseResult

\* Advancing the clock closes the requests whose deadline it reaches.
LEMMA AdvanceTimeStep ==
    ASSUME IndInv, NEW t \in Ticks, advance_time(t)
    PROVE  IndInv'
<1> DEFINE T == expired(t)
<1>0. T \in SUBSET Keys /\ (\A k \in T : Active(k)) /\ "TimedOut" \in ClosedStatuses
    BY DEF ClosedStatuses, expired
<1> USE DEF advance_time, timeout_requests
<1>1. CloseResult(T)
    <2>1. /\ cancel_and_close(T, "TimedOut")
          /\ UNCHANGED <<providers, next_operation_id, delivered>>
        BY DEF authority_vars, history, id_vars
    <2>. HIDE DEF T, advance_time
    <2>. QED  BY <1>0, <2>1, CloseFacts
<1>2. TypeOK'
    BY <1>1, BoundsAssumption DEF IndInv, TypeOK, CloseResult, authority_vars, history, id_vars, Ticks
<1>3. ActiveAuthorized' /\ DeadlineAhead'
    <2>1. ASSUME NEW k \in Keys \ T, Active(k)
          PROVE  LET q == requests[k] IN
                 /\ q.deadline > tick'
                 /\ grants'[PolicyKeyOf(k, q)] = q.decision
                 /\ generations'[q.instance] = q.generation
                 /\ instance_states'[q.instance] = "Active"
        <3>1. Supported(k)
            BY <2>1, ActiveSupported
        <3>. QED  BY <2>1, <3>1 DEF Supported, IndInv, TypeOK, PolicyKeyOf, PolicyKeys,
                       RequestRecord, authority_vars, expired, Ticks
    <2>. HIDE DEF T, advance_time
    <2>. QED  BY <1>0, <1>1, <2>1, Survivors
<1>4. GrantsCurrent'
    BY DEF IndInv, TypeOK, GrantsCurrent, PolicyKeys, authority_vars, GrantModes
<1>. QED  BY <1>1, <1>2, <1>3, <1>4 DEF IndInv, CloseResult

\* Revoking a grant closes the requests decided under it.
LEMMA RevokeGrantStep ==
    ASSUME IndInv, NEW s \in 1..MaxAuthority, NEW pk \in PolicyKeys, revoke_grant(s, pk)
    PROVE  IndInv'
<1> DEFINE T == IF grants[pk] = "None" THEN {} ELSE active_requests_for_key(pk)
<1>0. T \in SUBSET Keys /\ (\A k \in T : Active(k)) /\ "GrantRevoked" \in ClosedStatuses
    BY DEF ClosedStatuses, active_requests_for_key
<1> USE DEF revoke_grant
<1>1. CloseResult(T)
    <2>1. /\ cancel_and_close(T, "GrantRevoked")
          /\ UNCHANGED <<providers, next_operation_id, delivered>>
        BY DEF authority_vars, history, id_vars
    <2>. HIDE DEF T, revoke_grant
    <2>. QED  BY <1>0, <2>1, CloseFacts
<1>2. TypeOK'
    BY <1>1 DEF IndInv, TypeOK, CloseResult, authority_vars, history, id_vars, apply_authority, MaxOf, GrantModes
<1>3. ActiveAuthorized' /\ DeadlineAhead'
    <2>1. ASSUME NEW k \in Keys \ T, Active(k)
          PROVE  LET q == requests[k] IN
                 /\ q.deadline > tick'
                 /\ grants'[PolicyKeyOf(k, q)] = q.decision
                 /\ generations'[q.instance] = q.generation
                 /\ instance_states'[q.instance] = "Active"
        <3>1. Supported(k)
            BY <2>1, ActiveSupported
        <3>. QED  BY <2>1, <3>1 DEF Supported, IndInv, TypeOK, PolicyKeyOf, PolicyKeys,
                       RequestRecord, authority_vars, active_requests_for_key, GrantModes
    <2>. HIDE DEF T, revoke_grant
    <2>. QED  BY <1>0, <1>1, <2>1, Survivors
<1>4. GrantsCurrent'
    BY DEF IndInv, TypeOK, GrantsCurrent, PolicyKeys, authority_vars, GrantModes
<1>. QED  BY <1>1, <1>2, <1>3, <1>4 DEF IndInv, CloseResult

\* Changing the mode of a grant closes the requests decided under the old one.
LEMMA SetGrantStep ==
    ASSUME IndInv, NEW s \in 1..MaxAuthority, NEW pk \in PolicyKeys, NEW mode \in GrantModes, set_grant(s, pk, mode)
    PROVE  IndInv'
<1> DEFINE T == IF grants[pk] \in {"None", mode} THEN {} ELSE active_requests_for_key(pk)
<1>0. T \in SUBSET Keys /\ (\A k \in T : Active(k)) /\ "GrantRevoked" \in ClosedStatuses
    BY DEF ClosedStatuses, active_requests_for_key
<1> USE DEF set_grant
<1>1. CloseResult(T)
    <2>1. /\ cancel_and_close(T, "GrantRevoked")
          /\ UNCHANGED <<providers, next_operation_id, delivered>>
        BY DEF authority_vars, history, id_vars
    <2>. HIDE DEF T, set_grant
    <2>. QED  BY <1>0, <2>1, CloseFacts
<1>2. TypeOK'
    BY <1>1 DEF IndInv, TypeOK, CloseResult, authority_vars, history, id_vars, apply_authority, MaxOf, GrantModes
<1>3. ActiveAuthorized' /\ DeadlineAhead'
    <2>1. ASSUME NEW k \in Keys \ T, Active(k)
          PROVE  LET q == requests[k] IN
                 /\ q.deadline > tick'
                 /\ grants'[PolicyKeyOf(k, q)] = q.decision
                 /\ generations'[q.instance] = q.generation
                 /\ instance_states'[q.instance] = "Active"
        <3>1. Supported(k)
            BY <2>1, ActiveSupported
        <3>. QED  BY <2>1, <3>1 DEF Supported, IndInv, TypeOK, PolicyKeyOf, PolicyKeys,
                       RequestRecord, authority_vars, active_requests_for_key, GrantModes
    <2>. HIDE DEF T, set_grant
    <2>. QED  BY <1>0, <1>1, <2>1, Survivors
<1>4. GrantsCurrent'
    BY DEF IndInv, TypeOK, GrantsCurrent, PolicyKeys, authority_vars, GrantModes
<1>. QED  BY <1>1, <1>2, <1>3, <1>4 DEF IndInv, CloseResult

\* Closing a client closes its requests and purges its grants.
LEMMA CloseClientStep ==
    ASSUME IndInv, NEW s \in 1..MaxAuthority, NEW c \in Clients, close_client(s, c)
    PROVE  IndInv'
<1> DEFINE T == {k \in Keys : Active(k) /\ k.client = c}
<1>0. T \in SUBSET Keys /\ (\A k \in T : Active(k)) /\ "ClientClosed" \in ClosedStatuses
    BY DEF ClosedStatuses
<1> USE DEF close_client
<1>1. CloseResult(T)
    <2>1. /\ cancel_and_close(T, "ClientClosed")
          /\ UNCHANGED <<providers, next_operation_id, delivered>>
        BY DEF authority_vars, history, id_vars
    <2>. HIDE DEF T, close_client
    <2>. QED  BY <1>0, <2>1, CloseFacts
<1>2. TypeOK'
    BY <1>1 DEF IndInv, TypeOK, CloseResult, authority_vars, history, id_vars, apply_authority, MaxOf, GrantModes
<1>3. ActiveAuthorized' /\ DeadlineAhead'
    <2>1. ASSUME NEW k \in Keys \ T, Active(k)
          PROVE  LET q == requests[k] IN
                 /\ q.deadline > tick'
                 /\ grants'[PolicyKeyOf(k, q)] = q.decision
                 /\ generations'[q.instance] = q.generation
                 /\ instance_states'[q.instance] = "Active"
        <3>1. Supported(k)
            BY <2>1, ActiveSupported
        <3>. QED  BY <2>1, <3>1 DEF Supported, IndInv, TypeOK, PolicyKeyOf, PolicyKeys,
                       RequestRecord, authority_vars
    <2>. HIDE DEF T, close_client
    <2>. QED  BY <1>0, <1>1, <2>1, Survivors
<1>4. GrantsCurrent'
    BY DEF IndInv, TypeOK, GrantsCurrent, PolicyKeys, authority_vars, GrantModes
<1>. QED  BY <1>1, <1>2, <1>3, <1>4 DEF IndInv, CloseResult

\* Detaching a provider closes its requests and empties its queue.
LEMMA DetachProviderStep ==
    ASSUME IndInv, NEW p \in Providers, detach_provider_runtime(p)
    PROVE  IndInv'
<1> DEFINE T == {k \in Keys : Active(k) /\ requests[k].provider = p}
<1>0. T \in SUBSET Keys /\ (\A k \in T : Active(k)) /\ "ProviderDetached" \in ClosedStatuses
    BY DEF ClosedStatuses
<1>1. /\ requests' = Closed(T, "ProviderDetached", [k \in T |-> DetachDisposition(k)])
      /\ effects' = {e \in effects : e.provider # p}
      /\ push_terminal_completions({CompletionOf(k, requests'[k]) : k \in T})
      /\ UNCHANGED <<tick, generations, instance_states, providers, grants,
                     last_authority_sequence, next_request_sequence,
                     next_operation_id, next_effect_sequence, delivered,
                     received, approved, grant_sequence, policy_sequence>>
    BY DEF detach_provider_runtime, authority_vars, history, id_vars
<1>2. /\ requests' \in [Keys -> RequestRecord \cup {Vacant}]
      /\ \A k \in Keys \ T : requests'[k] = requests[k]
      /\ \A k \in T : /\ requests'[k].status = "ProviderDetached"
                      /\ requests'[k] \in RequestRecord
                      /\ requests'[k].payload = "Erased"
                      /\ requests'[k].operation = requests[k].operation
                      /\ requests'[k].accepted = requests[k].accepted
    <2>1. /\ requests' = [k \in Keys |-> requests'[k]]
          /\ \A k \in Keys \ T : requests'[k] = requests[k]
        <3>. HIDE DEF T
        <3>. QED  BY <1>1 DEF Closed
    <2>2. ASSUME NEW k \in T
          PROVE  \E d \in CancellationDisposition :
                     requests'[k] = [requests[k] EXCEPT
                        !.status = "ProviderDetached", !.payload = "Erased",
                        !.cancellation = d]
        <3>1. DetachDisposition(k) \in CancellationDisposition
            BY DEF DetachDisposition, CancellationDisposition
        <3>2. k \in Keys
            BY <1>0
        <3>. HIDE DEF T
        <3>. QED  BY <1>1, <3>1, <3>2 DEF Closed
    <2>. HIDE DEF T
    <2>. QED  BY <1>0, <2>1, <2>2, ClosedRecords DEF IndInv
<1>3. /\ completions' \in SUBSET CompletionEnvelope
      /\ dropped' \in SUBSET Sequences
      /\ next_completion_sequence' \in 1..(MaxU64 + 1)
    <2>1. \A k \in T : requests'[k] \in RequestRecord
                       /\ requests'[k].status \in TerminalStatuses
        BY <1>2 DEF TerminalStatuses, ClosedStatuses
    <2>. HIDE DEF T
    <2>. QED  BY <1>0, <1>1, <2>1, CompletionsOfTypes, PushTypes DEF IndInv
<1>4. Closing(T, "ProviderDetached")
    <2>1. ASSUME NEW e \in effects', e.kind = "Invoke" PROVE e.key \notin T
        BY <1>1, <2>1 DEF IndInv, InvokeMatches, EffectOf
    <2>. HIDE DEF T
    <2>. QED  BY <1>1, <1>2, <1>3, <2>1 DEF Closing, IndInv, TypeOK
<1>. HIDE DEF T
<1>5. CloseResult(T)
    BY <1>0, <1>1, <1>4, ClosingPreserves DEF Closing, CloseResult
<1>6. TypeOK'
    BY <1>1, <1>5 DEF IndInv, TypeOK, CloseResult
<1>7. ActiveAuthorized' /\ DeadlineAhead'
    <2>1. ASSUME NEW k \in Keys \ T, Active(k)
          PROVE  LET q == requests[k] IN
                 /\ q.deadline > tick'
                 /\ grants'[PolicyKeyOf(k, q)] = q.decision
                 /\ generations'[q.instance] = q.generation
                 /\ instance_states'[q.instance] = "Active"
        BY <1>1, <2>1, ActiveSupported DEF Supported
    <2>. QED  BY <1>0, <1>5, <2>1, Survivors
<1>8. GrantsCurrent'
    BY <1>1 DEF IndInv, GrantsCurrent
<1>. QED  BY <1>5, <1>6, <1>7, <1>8 DEF IndInv, CloseResult

-----------------------------------------------------------------------------
(* The operations on a single request. *)

\* One request is settled by an answer or a denial: nothing else changes.
LEMMA SettleStep ==
    ASSUME IndInv, NEW k \in Keys, Active(k),
           ~\E e \in effects : e.kind = "Invoke" /\ e.key = k,
           requests' = [x \in Keys |-> requests'[x]],
           \E st \in {"Succeeded", "Failed", "ApprovalDenied"} :
               requests'[k] = [requests[k] EXCEPT !.status = st, !.payload = "Erased"],
           \A x \in Keys \ {k} : requests'[x] = requests[x],
           push_terminal_completions({CompletionOf(k, requests'[k])}),
           last_authority_sequence' \in 0..MaxAuthority,
           UNCHANGED <<tick, generations, instance_states, providers, grants,
                       effects, next_request_sequence, next_operation_id,
                       next_effect_sequence, delivered, received, approved,
                       grant_sequence, policy_sequence>>
    PROVE  IndInv'
<1> DEFINE q == requests[k]
<1>1. q \in RequestRecord
    BY ActiveRecord DEF IndInv
<1>2. PICK status \in {"Succeeded", "Failed", "ApprovalDenied"} :
         requests'[k] = [q EXCEPT !.status = status, !.payload = "Erased"]
    OBVIOUS
<1>3. \A x \in Keys \ {k} : requests'[x] = requests[x]
    OBVIOUS
<1>. HIDE DEF q
<1>4. /\ requests'[k] \in RequestRecord
      /\ requests'[k].status = status
      /\ requests'[k].payload = "Erased"
      /\ requests'[k].operation = q.operation
    <2>1. status \in TerminalStatuses
        BY DEF TerminalStatuses
    <2>2. requests'[k] \in RequestRecord
        BY <1>1, <1>2, <2>1 DEF RequestRecord
    <2>. QED  BY <1>1, <1>2, <2>2 DEF RequestRecord
<1>5. requests' \in [Keys -> RequestRecord \cup {Vacant}]
    BY <1>3, <1>4 DEF IndInv, TypeOK
<1>6. /\ completions' \in SUBSET CompletionEnvelope
      /\ dropped' \in SUBSET Sequences
      /\ next_completion_sequence' \in 1..(MaxU64 + 1)
    <2>1. {CompletionOf(k, requests'[k])} \in SUBSET CompletionEnvelope
        <3>1. requests'[k].status \in TerminalStatuses
            BY <1>4 DEF TerminalStatuses
        <3>2. CompletionOf(k, requests'[k]) \in CompletionEnvelope
            BY <1>4, <3>1 DEF CompletionOf, CompletionEnvelope, RequestRecord
        <3>. QED  BY <3>2
    <2>2. IsFiniteSet({CompletionOf(k, requests'[k])})
        BY FS_Singleton
    <2>. QED  BY <2>1, <2>2, PushTypes DEF IndInv
<1>7. TypeOK'
    BY <1>5, <1>6 DEF IndInv, TypeOK
<1>8. \A x \in Keys : requests'[x].status \in ActiveStatuses =>
                          Active(x) /\ requests'[x] = requests[x]
    BY <1>3, <1>4 DEF Active, ActiveStatuses
<1>9. ActiveAuthorized' /\ DeadlineAhead'
    <2>. SUFFICES ASSUME NEW x \in Keys, requests'[x].status \in ActiveStatuses
                 PROVE  /\ requests'[x].deadline > tick'
                        /\ grants'[PolicyKeyOf(x, requests'[x])] = requests'[x].decision
                        /\ generations'[requests'[x].instance] = requests'[x].generation
                        /\ instance_states'[requests'[x].instance] = "Active"
        BY Zenon DEF ActiveAuthorized, DeadlineAhead, Active
    <2>. QED  BY <1>8, ActiveSupported DEF Supported
<1>10. PayloadRetained'
    <2>. SUFFICES ASSUME NEW x \in Keys, requests'[x].status # "Vacant"
                 PROVE  requests'[x].payload = "Present" <=> requests'[x].status = "AwaitingApproval"
        BY DEF PayloadRetained, Stored
    <2>1. CASE x = k
        <3>1. status # "AwaitingApproval"
            OBVIOUS
        <3>. QED  BY <1>4, <2>1, <3>1
    <2>2. CASE x # k
        BY <1>3, <2>2 DEF IndInv, PayloadRetained, Stored
    <2>. QED  BY <2>1, <2>2
<1>11. InvokeMatches'
    BY <1>3, <1>7 DEF IndInv, InvokeMatches, TypeOK, EffectEnvelope
<1>12. OperationsBelow'
    <2>1. q.operation < next_operation_id
        BY DEF q, IndInv, OperationsBelow, Stored, Active, ActiveStatuses
    <2>. QED  BY <1>3, <1>4, <2>1 DEF IndInv, OperationsBelow, Stored
<1>13. NotYetDelivered' /\ GrantsCurrent'
    BY DEF IndInv, NotYetDelivered, GrantsCurrent
<1>. QED  BY <1>7, <1>9, <1>10, <1>11, <1>12, <1>13 DEF IndInv

\* A new Invoke enters the queue with a fresh operation id.
LEMMA DispatchStep ==
    ASSUME IndInv, NEW k \in Keys, NEW e \in EffectEnvelope,
           ~\E f \in effects : f.kind = "Invoke" /\ f.key = k,
           requests' \in [Keys -> RequestRecord \cup {Vacant}],
           \A x \in Keys \ {k} : requests'[x] = requests[x] \/
               (requests'[x] = Vacant /\ requests[x].status \in TerminalStatuses),
           requests'[k] \in RequestRecord,
           requests'[k].status = "Dispatched",
           requests'[k].operation = next_operation_id,
           requests'[k].payload = "Erased",
           requests'[k].provider \in providers,
           e.kind = "Invoke", e.key = k,
           e = EffectOf("Invoke", k, requests'[k], "Present"),
           effects' = effects \cup {e},
           next_operation_id' = next_operation_id + 1,
           UNCHANGED <<providers, delivered>>
    PROVE  PayloadRetained' /\ InvokeMatches' /\ OperationsBelow' /\ NotYetDelivered'
<1>1. PayloadRetained'
    <2>. SUFFICES ASSUME NEW x \in Keys, requests'[x].status # "Vacant"
                 PROVE  requests'[x].payload = "Present" <=> requests'[x].status = "AwaitingApproval"
        BY DEF PayloadRetained, Stored
    <2>1. CASE x = k
        BY <2>1
    <2>2. CASE x # k
        BY <2>2 DEF IndInv, PayloadRetained, Stored, Vacant
    <2>. QED  BY <2>1, <2>2
<1>2. InvokeMatches'
    <2>. SUFFICES ASSUME NEW f \in effects', f.kind = "Invoke"
                 PROVE  /\ requests'[f.key].status = "Dispatched"
                        /\ f = EffectOf("Invoke", f.key, requests'[f.key], "Present")
                        /\ f.provider \in providers'
        BY Zenon DEF InvokeMatches
    <2>1. CASE f = e
        <3>1. f.provider \in providers'
            BY <2>1 DEF EffectOf
        <3>. QED  BY <2>1, <3>1
    <2>2. CASE f \in effects
        <3>1. f.key \in Keys \ {k}
            BY <2>2 DEF IndInv, TypeOK, EffectEnvelope
        <3>2. requests[f.key].status = "Dispatched"
            BY <2>2 DEF IndInv, InvokeMatches
        <3>3. requests'[f.key] = requests[f.key]
            BY <3>1, <3>2 DEF TerminalStatuses, ClosedStatuses
        <3>. QED  BY <2>2, <3>3 DEF IndInv, InvokeMatches
    <2>. QED  BY <2>1, <2>2
<1>3. e.operation = next_operation_id
    BY DEF EffectOf
<1>4. next_operation_id \in Nat \ {0}
    BY DEF IndInv, TypeOK
<1>5. OperationsBelow'
    <2>1. ASSUME NEW f \in effects' \cup delivered' PROVE f.operation < next_operation_id'
        <3>1. CASE f = e
            BY <1>3, <1>4, <3>1
        <3>2. CASE f \in effects \cup delivered
            <4>1. f.operation \in Nat /\ f.operation < next_operation_id
                BY <3>2 DEF IndInv, TypeOK, EffectEnvelope, OperationsBelow
            <4>. QED  BY <1>4, <4>1
        <3>. QED  BY <3>1, <3>2
    <2>2. ASSUME NEW x \in Keys, requests'[x].status # "Vacant"
          PROVE  requests'[x].operation < next_operation_id'
        <3>1. CASE x = k
            BY <1>4, <3>1
        <3>2. CASE x # k
            <4>1. requests'[x] = requests[x]
                BY <2>2, <3>2 DEF Vacant
            <4>2. requests[x].operation < next_operation_id /\ requests[x].operation \in Nat
                BY <2>2, <4>1, StoredRecord DEF IndInv, OperationsBelow, Stored, RequestRecord
            <4>. QED  BY <1>4, <4>1, <4>2
        <3>. QED  BY <3>1, <3>2
    <2>3. ASSUME NEW x \in Keys, requests'[x].status = "Dispatched"
          PROVE  requests'[x].operation > 0
        <3>1. CASE x = k
            BY <1>4, <3>1
        <3>2. CASE x # k
            BY <2>3, <3>2 DEF Vacant, IndInv, OperationsBelow
        <3>. QED  BY <3>1, <3>2
    <2>. QED  BY <2>1, <2>2, <2>3 DEF OperationsBelow, Stored
<1>6. NotYetDelivered'
    <2>1. \A f \in delivered : f.operation \in Nat /\ f.operation < next_operation_id
        BY DEF IndInv, TypeOK, EffectEnvelope, OperationsBelow
    <2>2. \A f \in delivered : e.operation # f.operation
        BY <1>3, <1>4, <2>1
    <2>. QED  BY <2>2 DEF IndInv, NotYetDelivered
<1>. QED  BY <1>1, <1>2, <1>5, <1>6

\* The open requests of a step that opens or dispatches k.
LEMMA OpenStep ==
    ASSUME IndInv, NEW k \in Keys,
           \A x \in Keys \ {k} : requests'[x] = requests[x] \/ requests'[x] = Vacant,
           requests'[k].status \in ActiveStatuses =>
               /\ requests'[k].deadline > tick
               /\ grants[PolicyKeyOf(k, requests'[k])] = requests'[k].decision
               /\ generations[requests'[k].instance] = requests'[k].generation
               /\ instance_states[requests'[k].instance] = "Active",
           UNCHANGED <<tick, grants, generations, instance_states>>
    PROVE  ActiveAuthorized' /\ DeadlineAhead'
<1>. SUFFICES ASSUME NEW x \in Keys, requests'[x].status \in ActiveStatuses
             PROVE  /\ requests'[x].deadline > tick'
                    /\ grants'[PolicyKeyOf(x, requests'[x])] = requests'[x].decision
                    /\ generations'[requests'[x].instance] = requests'[x].generation
                    /\ instance_states'[requests'[x].instance] = "Active"
    BY Zenon DEF ActiveAuthorized, DeadlineAhead, Active
<1>1. CASE x = k
    BY <1>1
<1>2. CASE x # k
    <2>1. requests'[x] = requests[x]
        BY <1>2 DEF Vacant, ActiveStatuses
    <2>2. Active(x)
        BY <2>1 DEF Active
    <2>. QED  BY <2>1, <2>2, ActiveSupported DEF Supported
<1>. QED  BY <1>1, <1>2

\* ApproveOnce dispatches the request it names.
LEMMA ApproveStep ==
    ASSUME IndInv, NEW s \in 1..MaxAuthority, NEW k \in Keys, NEW n \in Sequences,
           NEW i \in Instances, NEW g \in Generations,
           resolve_approval(s, k, n, i, g, "ApproveOnce")
    PROVE  IndInv'
<1>1. /\ requests[k].status = "AwaitingApproval"
      /\ last_authority_sequence' = s
      /\ UNCHANGED <<tick, providers, generations, instance_states, grants,
                     next_request_sequence, delivered, received,
                     grant_sequence, policy_sequence>>
    BY DEF resolve_approval, Resolvable, apply_authority, authority_vars
<1>2. Active(k)
    BY <1>1 DEF Active, ActiveStatuses
<1>3. Supported(k)
    BY <1>2, ActiveSupported
<1>4. requests[k].deadline \in Nat /\ tick \in Nat
    BY <1>3 DEF Supported, RequestRecord, IndInv, TypeOK
<1>5. approve_once(k, n)
    BY <1>3, <1>4 DEF resolve_approval, Supported
<1> DEFINE q == requests[k]
           e == EffectOf("Invoke", k, requests'[k], "Present")
<1>6p. q.payload = "Present"
    BY <1>1, <1>3 DEF Supported, IndInv, PayloadRetained, Stored, RequestRecord
<1>6. /\ requests' = [requests EXCEPT ![k].status = "Dispatched",
                                      ![k].operation = next_operation_id,
                                      ![k].payload = "Erased"]
      /\ next_operation_id < MaxU64
      /\ next_operation_id' = next_operation_id + 1
      /\ next_effect_sequence <= MaxU64
      /\ effects' = effects \cup {e}
      /\ next_effect_sequence' = next_effect_sequence + 1
      /\ approved' = approved \cup {n}
      /\ UNCHANGED <<completions, dropped, next_completion_sequence>>
    BY <1>5, <1>6p, Zenon DEF approve_once, ensure_operation_capacity,
           ensure_effect_capacity, allocate_operation, emit_invoke
<1>7. q \in RequestRecord
    BY <1>3 DEF Supported
<1>8. /\ requests'[k] = [q EXCEPT !.status = "Dispatched", !.payload = "Erased",
                                  !.operation = next_operation_id]
      /\ requests' = [x \in Keys |-> requests'[x]]
      /\ \A x \in Keys \ {k} : requests'[x] = requests[x]
    BY <1>6 DEF IndInv, TypeOK
<1>9. next_operation_id \in 1..MaxU64
    BY DEF IndInv, TypeOK
<1>. HIDE DEF q
<1>10. /\ requests'[k] \in RequestRecord
       /\ requests'[k].status = "Dispatched"
       /\ requests'[k].operation = next_operation_id
       /\ requests'[k].payload = "Erased"
       /\ requests'[k].deadline = q.deadline
       /\ requests'[k].decision = q.decision
       /\ requests'[k].instance = q.instance
       /\ requests'[k].generation = q.generation
       /\ requests'[k].provider = q.provider
       /\ requests'[k].resource = q.resource
    <2>1. [q EXCEPT !.status = "Dispatched", !.payload = "Erased",
                    !.operation = next_operation_id] \in RequestRecord
        <3>1. "Dispatched" \in ActiveStatuses \cup TerminalStatuses
            BY DEF ActiveStatuses
        <3>2. next_operation_id \in 0..MaxU64
            BY <1>9
        <3>. HIDE DEF e
        <3>. QED  BY <1>7, <3>1, <3>2 DEF RequestRecord
    <2>. QED  BY <1>7, <1>8, <2>1 DEF RequestRecord
<1>11. requests' \in [Keys -> RequestRecord \cup {Vacant}]
    BY <1>8, <1>10 DEF IndInv, TypeOK
<1>12. PolicyKeyOf(k, requests'[k]) = PolicyKeyOf(k, q)
    BY <1>10 DEF PolicyKeyOf
<1>13. /\ e \in EffectEnvelope
       /\ e.kind = "Invoke"
       /\ e.key = k
       /\ e = EffectOf("Invoke", k, requests'[k], "Present")
    BY <1>9, <1>10 DEF EffectOf, EffectEnvelope, RequestRecord
<1>. HIDE DEF e
<1>14. q.provider \in providers
    BY <1>3, <1>7 DEF q, Supported, IndInv, GrantsCurrent, RequestRecord, PolicyKeyOf
<1>15. ~\E f \in effects : f.kind = "Invoke" /\ f.key = k
    BY <1>1 DEF IndInv, InvokeMatches
<1>16. PayloadRetained' /\ InvokeMatches' /\ OperationsBelow' /\ NotYetDelivered'
    BY <1>1, <1>6, <1>8, <1>10, <1>11, <1>13, <1>14, <1>15, DispatchStep
<1>17. ActiveAuthorized' /\ DeadlineAhead'
    BY <1>1, <1>3, <1>8, <1>10, <1>12, OpenStep DEF Supported, q
<1>18. TypeOK'
    BY <1>1, <1>6, <1>11, <1>13, BoundsAssumption DEF IndInv, TypeOK
<1>19. GrantsCurrent'
    BY <1>1 DEF IndInv, GrantsCurrent
<1>. QED  BY <1>16, <1>17, <1>18, <1>19 DEF IndInv

\* Deny settles the request it names.
LEMMA DenyStep ==
    ASSUME IndInv, NEW s \in 1..MaxAuthority, NEW k \in Keys, NEW n \in Sequences,
           NEW i \in Instances, NEW g \in Generations,
           resolve_approval(s, k, n, i, g, "Deny")
    PROVE  IndInv'
<1>1. /\ requests[k].status = "AwaitingApproval"
      /\ last_authority_sequence' = s
      /\ UNCHANGED <<tick, providers, generations, instance_states, grants,
                     next_request_sequence, delivered, received,
                     grant_sequence, policy_sequence>>
    BY DEF resolve_approval, Resolvable, apply_authority, authority_vars
<1>2. Active(k) /\ Supported(k)
    BY <1>1, ActiveSupported DEF Active, ActiveStatuses
<1>3. requests[k].deadline \in Nat /\ tick \in Nat
    BY <1>2 DEF Supported, RequestRecord, IndInv, TypeOK
<1>4. deny_approval(k)
    BY <1>2, <1>3 DEF resolve_approval, Supported
<1>5. /\ requests' = [x \in Keys |-> requests'[x]]
      /\ \E st \in {"Succeeded", "Failed", "ApprovalDenied"} :
             requests'[k] = [requests[k] EXCEPT !.status = st, !.payload = "Erased"]
      /\ \A x \in Keys \ {k} : requests'[x] = requests[x]
    BY <1>4 DEF deny_approval, IndInv, TypeOK
<1>6. /\ push_terminal_completions({CompletionOf(k, requests'[k])})
      /\ UNCHANGED <<approved, effects, next_effect_sequence, next_operation_id>>
    BY <1>4 DEF deny_approval
<1>7. ~\E e \in effects : e.kind = "Invoke" /\ e.key = k
    BY <1>1 DEF IndInv, InvokeMatches
<1>8. last_authority_sequence' \in 0..MaxAuthority
    BY <1>1
<1>. QED  BY <1>1, <1>2, <1>5, <1>6, <1>7, <1>8, SettleStep

\* A provider's answer settles the request it correlates with.
LEMMA ApplyObservationStep ==
    ASSUME IndInv, NEW p \in Providers, NEW e \in delivered, NEW outcome \in Outcomes,
           apply_observation(p, e, outcome)
    PROVE  IndInv'
<1> DEFINE k == e.key
<1>0. k \in Keys
    BY DEF IndInv, TypeOK, EffectEnvelope
<1>1. /\ e.kind = "Invoke"
      /\ requests[k].status = "Dispatched"
      /\ requests[k].operation = e.operation
      /\ UNCHANGED <<tick, providers, generations, instance_states, grants,
                     last_authority_sequence, next_request_sequence,
                     next_operation_id, delivered, received, approved,
                     grant_sequence, policy_sequence>>
    BY DEF apply_observation, Answers, authority_vars, id_vars, history
<1>2. Active(k) /\ Supported(k)
    BY <1>0, <1>1, ActiveSupported DEF Active, ActiveStatuses
<1>3. requests[k].deadline \in Nat /\ tick \in Nat
    BY <1>2 DEF Supported, RequestRecord, IndInv, TypeOK
<1>4. /\ requests' = [requests EXCEPT ![k].status = outcome, ![k].payload = "Erased"]
      /\ push_terminal_completions({CompletionOf(k, requests'[k])})
      /\ UNCHANGED <<effects, next_effect_sequence>>
    BY <1>2, <1>3 DEF apply_observation, Answers, Supported
<1>. HIDE DEF k
<1>5. /\ requests' = [x \in Keys |-> requests'[x]]
      /\ \E st \in {"Succeeded", "Failed", "ApprovalDenied"} :
             requests'[k] = [requests[k] EXCEPT !.status = st, !.payload = "Erased"]
      /\ \A x \in Keys \ {k} : requests'[x] = requests[x]
    BY <1>0, <1>4 DEF IndInv, TypeOK, Outcomes
<1>6. ~\E f \in effects : f.kind = "Invoke" /\ f.key = k
    <2>. SUFFICES ASSUME NEW f \in effects, f.kind = "Invoke", f.key = k
                 PROVE  FALSE
        OBVIOUS
    <2>1. f = EffectOf("Invoke", k, requests[k], "Present")
        BY DEF IndInv, InvokeMatches
    <2>2. f.operation = requests[k].operation
        BY <2>1 DEF EffectOf
    <2>. QED  BY <1>1, <2>2 DEF IndInv, NotYetDelivered
<1>7. last_authority_sequence' \in 0..MaxAuthority
    BY <1>1 DEF IndInv, TypeOK
<1>8. /\ push_terminal_completions({CompletionOf(k, requests'[k])})
      /\ UNCHANGED <<effects, next_effect_sequence>>
    BY <1>4
<1>. QED  BY <1>0, <1>1, <1>2, <1>5, <1>6, <1>7, <1>8, SettleStep

\* The operations that leave every request alone: registration, activation
\* and the two drains.
LEMMA QuietSteps ==
    ASSUME IndInv,
           \/ \E p \in Providers : register_provider(p)
           \/ \E i \in Instances, g \in Generations : set_instance_active(i, g)
           \/ drain_effects
           \/ drain_completions
    PROVE  IndInv'
<1>1. CASE \E p \in Providers : register_provider(p)
    <2>1. PICK p \in Providers : register_provider(p)
        BY <1>1
    <2>. USE <2>1 DEF register_provider, request_vars, id_vars, history, IndInv
    <2>2. TypeOK'
        BY DEF TypeOK
    <2>3. ActiveAuthorized' /\ DeadlineAhead' /\ PayloadRetained'
        BY DEF ActiveAuthorized, DeadlineAhead, PayloadRetained, Active, Stored
    <2>4. InvokeMatches' /\ OperationsBelow' /\ NotYetDelivered' /\ GrantsCurrent'
        BY DEF InvokeMatches, OperationsBelow, NotYetDelivered, GrantsCurrent, Stored
    <2>. QED  BY <2>2, <2>3, <2>4
<1>2. CASE \E i \in Instances, g \in Generations : set_instance_active(i, g)
    <2>1. PICK i \in Instances, g \in Generations : set_instance_active(i, g)
        BY <1>2
    <2>. USE <2>1 DEF set_instance_active, request_vars, id_vars, history, IndInv
    <2>2. TypeOK'
        BY DEF TypeOK
    <2>3. \A j \in Instances : instance_states[j] = "Active" => instance_states'[j] = "Active"
        BY DEF TypeOK
    <2>4. ActiveAuthorized'
        <3>. SUFFICES ASSUME NEW k \in Keys, Active(k)
                     PROVE  /\ grants[PolicyKeyOf(k, requests[k])] = requests[k].decision
                            /\ generations[requests[k].instance] = requests[k].generation
                            /\ instance_states'[requests[k].instance] = "Active"
            BY DEF ActiveAuthorized, Active
        <3>1. requests[k].instance \in Instances
            BY ActiveRecord DEF RequestRecord
        <3>. QED  BY <2>3, <3>1 DEF ActiveAuthorized
    <2>5. DeadlineAhead' /\ PayloadRetained'
        BY DEF DeadlineAhead, PayloadRetained, Active, Stored
    <2>6. InvokeMatches' /\ OperationsBelow' /\ NotYetDelivered'
        BY DEF InvokeMatches, OperationsBelow, NotYetDelivered, Stored
    <2>7. GrantsCurrent'
        BY <2>3 DEF GrantsCurrent, PolicyKeys
    <2>. QED  BY <2>2, <2>4, <2>5, <2>6, <2>7
<1>3. CASE drain_effects
    <2>. USE <1>3 DEF drain_effects, authority_vars, id_vars, history, IndInv
    <2>1. TypeOK'
        BY DEF TypeOK
    <2>2. ActiveAuthorized' /\ DeadlineAhead' /\ PayloadRetained'
        BY DEF ActiveAuthorized, DeadlineAhead, PayloadRetained, Active, Stored
    <2>3. InvokeMatches' /\ OperationsBelow' /\ NotYetDelivered' /\ GrantsCurrent'
        BY DEF InvokeMatches, OperationsBelow, NotYetDelivered, GrantsCurrent, Stored
    <2>. QED  BY <2>1, <2>2, <2>3
<1>4. CASE drain_completions
    <2>. USE <1>4 DEF drain_completions, authority_vars, id_vars, history, IndInv
    <2>1. TypeOK'
        BY DEF TypeOK, CompletionEnvelope, Sequences
    <2>2. ActiveAuthorized' /\ DeadlineAhead' /\ PayloadRetained'
        BY DEF ActiveAuthorized, DeadlineAhead, PayloadRetained, Active, Stored
    <2>3. InvokeMatches' /\ OperationsBelow' /\ NotYetDelivered' /\ GrantsCurrent'
        BY DEF InvokeMatches, OperationsBelow, NotYetDelivered, GrantsCurrent, Stored
    <2>. QED  BY <2>1, <2>2, <2>3
<1>. QED  BY <1>1, <1>2, <1>3, <1>4

\* A decision other than Deny is the mode of a grant that is in force.
LEMMA PolicyDecision ==
    ASSUME IndInv, NEW pk \in PolicyKeys
    PROVE  /\ evaluate_policy(pk) \in {"Deny", "RequireApproval", "Allow"}
           /\ evaluate_policy(pk) # "Deny" =>
                  /\ grants[pk] = evaluate_policy(pk)
                  /\ generations[pk.instance] = pk.generation
                  /\ instance_states[pk.instance] = "Active"
                  /\ pk.provider \in providers
<1>1. grants[pk] \in {"Allow", "RequireApproval", "None"}
    BY DEF IndInv, TypeOK, GrantModes
<1>. QED  BY <1>1 DEF evaluate_policy

\* A request is stored without an operation: it was denied or waits.
LEMMA StoreStep ==
    ASSUME IndInv, NEW k \in Keys,
           requests' \in [Keys -> RequestRecord \cup {Vacant}],
           \A x \in Keys \ {k} : requests'[x] = requests[x] \/
               (requests'[x] = Vacant /\ requests[x].status \in TerminalStatuses),
           ~Active(k),
           requests'[k] \in RequestRecord,
           requests'[k].status # "Dispatched",
           requests'[k].operation = 0,
           requests'[k].payload = "Present" <=> requests'[k].status = "AwaitingApproval",
           UNCHANGED <<providers, effects, delivered, next_operation_id>>
    PROVE  PayloadRetained' /\ InvokeMatches' /\ OperationsBelow' /\ NotYetDelivered'
<1>1. PayloadRetained'
    <2>. SUFFICES ASSUME NEW x \in Keys, requests'[x].status # "Vacant"
                 PROVE  requests'[x].payload = "Present" <=> requests'[x].status = "AwaitingApproval"
        BY DEF PayloadRetained, Stored
    <2>1. CASE x = k
        BY <2>1
    <2>2. CASE x # k
        BY <2>2 DEF IndInv, PayloadRetained, Stored, Vacant
    <2>. QED  BY <2>1, <2>2
<1>2. InvokeMatches'
    <2>. SUFFICES ASSUME NEW f \in effects, f.kind = "Invoke"
                 PROVE  requests'[f.key] = requests[f.key]
        BY DEF InvokeMatches, IndInv
    <2>1. f.key \in Keys /\ requests[f.key].status = "Dispatched"
        BY DEF IndInv, TypeOK, EffectEnvelope, InvokeMatches
    <2>2. f.key # k
        BY <2>1 DEF Active, ActiveStatuses
    <2>. QED  BY <2>1, <2>2 DEF TerminalStatuses, ClosedStatuses
<1>3. OperationsBelow'
    <2>1. ASSUME NEW x \in Keys, requests'[x].status # "Vacant"
          PROVE  requests'[x].operation < next_operation_id'
        <3>1. CASE x = k
            BY <3>1 DEF IndInv, TypeOK
        <3>2. CASE x # k
            BY <2>1, <3>2 DEF Vacant, IndInv, OperationsBelow, Stored
        <3>. QED  BY <3>1, <3>2
    <2>2. ASSUME NEW x \in Keys, requests'[x].status = "Dispatched"
          PROVE  requests'[x].operation > 0
        BY <2>2 DEF Vacant, IndInv, OperationsBelow
    <2>. QED  BY <2>1, <2>2 DEF IndInv, OperationsBelow, Stored
<1>4. NotYetDelivered'
    BY DEF IndInv, NotYetDelivered
<1>. QED  BY <1>1, <1>2, <1>3, <1>4

\* Accepting a request: it is denied, stored for an approval or dispatched,
\* and at most one terminal request makes room for it.
LEMMA RequestStep ==
    ASSUME IndInv, NEW k \in Keys, NEW pk \in PolicyKeys, NEW d \in Ticks,
           pk.client = k.client, request(k, pk, d)
    PROVE  IndInv'
<1> DEFINE decision == evaluate_policy(pk)
           q == [status |-> StatusFor(decision),
                 instance |-> pk.instance, generation |-> pk.generation,
                 provider |-> pk.provider, resource |-> pk.resource,
                 deadline |-> d, accepted |-> next_request_sequence,
                 decision |-> decision,
                 operation |-> IF decision = "Allow" THEN next_operation_id
                                                     ELSE NoOperation,
                 cancellation |-> "NotRequired",
                 payload |-> IF decision = "RequireApproval" THEN "Present" ELSE "Erased"]
<1>1. /\ d > tick
      /\ ~Active(k)
      /\ next_request_sequence < MaxU64
      /\ decision = "Allow" => /\ next_operation_id < MaxU64
                               /\ next_effect_sequence <= MaxU64
      /\ next_request_sequence' = next_request_sequence + 1
      /\ UNCHANGED <<tick, providers, generations, instance_states, grants,
                     last_authority_sequence, delivered, received, approved,
                     grant_sequence, policy_sequence>>
    BY DEF request, Acceptable, ensure_correlation_capacity, ensure_operation_capacity,
           ensure_effect_capacity, authority_vars, history
<1>2. \E evicted \in ensure_request_capacity(k) :
          requests' = [x \in Keys |-> IF x = k THEN q
                                      ELSE IF x \in evicted THEN Vacant
                                      ELSE requests[x]]
    BY Zenon DEF request, Acceptable
<1>3. IF decision = "Allow"
      THEN /\ next_operation_id' = next_operation_id + 1
           /\ effects' = effects \cup {EffectOf("Invoke", k, q, "Present")}
           /\ next_effect_sequence' = next_effect_sequence + 1
      ELSE UNCHANGED <<next_operation_id, effects, next_effect_sequence>>
    BY Zenon DEF request, Acceptable, allocate_operation, emit_invoke
<1>4. IF decision = "Deny"
      THEN push_terminal_completions({CompletionOf(k, q)})
      ELSE UNCHANGED <<completions, dropped, next_completion_sequence>>
    BY Zenon DEF request, Acceptable
<1>5. \A v \in UNION ensure_request_capacity(k) : requests[v].status \in TerminalStatuses
    BY DEF ensure_request_capacity, is_terminal
<1>6. /\ decision \in {"Deny", "RequireApproval", "Allow"}
      /\ decision # "Deny" =>
             /\ grants[pk] = decision
             /\ generations[pk.instance] = pk.generation
             /\ instance_states[pk.instance] = "Active"
             /\ pk.provider \in providers
    BY PolicyDecision, Zenon
<1>. HIDE DEF decision
<1>7. q \in RequestRecord
    <2>1. StatusFor(decision) \in ActiveStatuses \cup TerminalStatuses
        BY <1>6 DEF StatusFor, ActiveStatuses, TerminalStatuses
    <2>2. d \in 1..MaxTick /\ next_request_sequence \in 1..MaxU64
          /\ next_operation_id \in 0..MaxU64 /\ NoOperation \in 0..MaxU64
        BY BoundsAssumption DEF Ticks, IndInv, TypeOK, NoOperation
    <2>3. "NotRequired" \in CancellationDisposition
        BY DEF CancellationDisposition
    <2>. QED  BY <1>6, <2>1, <2>2, <2>3 DEF RequestRecord, PolicyKeys
<1>8. /\ q.status = StatusFor(decision)
      /\ q.deadline = d
      /\ q.decision = decision
      /\ q.instance = pk.instance
      /\ q.generation = pk.generation
      /\ q.provider = pk.provider
      /\ q.resource = pk.resource
      /\ q.accepted = next_request_sequence
      /\ q.operation = IF decision = "Allow" THEN next_operation_id ELSE 0
      /\ q.payload = IF decision = "RequireApproval" THEN "Present" ELSE "Erased"
    BY DEF NoOperation
<1>. HIDE DEF q
<1>9. /\ requests'[k] = q
      /\ \A x \in Keys \ {k} : requests'[x] = requests[x] \/
             (requests'[x] = Vacant /\ requests[x].status \in TerminalStatuses)
      /\ requests' \in [Keys -> RequestRecord \cup {Vacant}]
    BY <1>2, <1>5, <1>7 DEF IndInv, TypeOK
<1>10. PolicyKeyOf(k, q) = pk
    BY <1>8 DEF PolicyKeyOf, PolicyKeys
<1>11. ActiveAuthorized' /\ DeadlineAhead'
    <2>1. q.status \in ActiveStatuses => decision # "Deny"
        BY <1>8 DEF StatusFor, ActiveStatuses
    <2>. QED  BY <1>1, <1>6, <1>8, <1>9, <1>10, <2>1, OpenStep
<1>12. ~\E f \in effects : f.kind = "Invoke" /\ f.key = k
    BY <1>1 DEF IndInv, InvokeMatches, Active, ActiveStatuses
<1>13. /\ PayloadRetained' /\ InvokeMatches' /\ OperationsBelow' /\ NotYetDelivered'
       /\ effects' \in SUBSET EffectEnvelope
       /\ next_operation_id' \in 1..MaxU64
       /\ next_effect_sequence' \in 1..(MaxU64 + 1)
    <2>1. CASE decision = "Allow"
        <3> DEFINE e == EffectOf("Invoke", k, q, "Present")
        <3>0. /\ next_operation_id' = next_operation_id + 1
              /\ next_effect_sequence' = next_effect_sequence + 1
            BY <1>3, <2>1, Zenon
        <3>1. q.operation \in 1..MaxU64 /\ q.operation = next_operation_id
              /\ next_operation_id' \in 1..MaxU64
              /\ next_effect_sequence' \in 1..(MaxU64 + 1)
            <4>1. /\ next_operation_id \in 1..MaxU64 /\ next_operation_id < MaxU64
                  /\ next_effect_sequence \in 1..(MaxU64 + 1)
                  /\ next_effect_sequence <= MaxU64
                BY <1>1, <2>1 DEF IndInv, TypeOK
            <4>2. q.operation = next_operation_id
                BY <1>8, <2>1
            <4>. QED  BY <3>0, <4>1, <4>2, BoundsAssumption
        <3>2. e \in EffectEnvelope /\ e.kind = "Invoke" /\ e.key = k
              /\ e = EffectOf("Invoke", k, requests'[k], "Present")
            BY <1>7, <1>9, <3>1 DEF EffectOf, EffectEnvelope, RequestRecord
        <3>3. effects' = effects \cup {e} /\ next_operation_id' = next_operation_id + 1
            BY <1>3, <2>1
        <3>. HIDE DEF e
        <3>4. q.status = "Dispatched" /\ q.payload = "Erased" /\ q.provider \in providers
            BY <1>6, <1>8, <2>1 DEF StatusFor
        <3>5. PayloadRetained' /\ InvokeMatches' /\ OperationsBelow' /\ NotYetDelivered'
            BY <1>1, <1>7, <1>9, <1>12, <3>1, <3>2, <3>3, <3>4, DispatchStep
        <3>. QED  BY <3>1, <3>2, <3>3, <3>5 DEF IndInv, TypeOK
    <2>2. CASE decision # "Allow"
        <3>1. UNCHANGED <<next_operation_id, effects, next_effect_sequence>>
            BY <1>3, <2>2
        <3>2. /\ q.status # "Dispatched"
              /\ q.operation = 0
              /\ q.payload = "Present" <=> q.status = "AwaitingApproval"
            BY <1>6, <1>8, <2>2 DEF StatusFor
        <3>3. PayloadRetained' /\ InvokeMatches' /\ OperationsBelow' /\ NotYetDelivered'
            BY <1>1, <1>7, <1>9, <3>1, <3>2, StoreStep
        <3>. QED  BY <3>1, <3>3 DEF IndInv, TypeOK
    <2>. QED  BY <2>1, <2>2
<1>14. /\ completions' \in SUBSET CompletionEnvelope
       /\ dropped' \in SUBSET Sequences
       /\ next_completion_sequence' \in 1..(MaxU64 + 1)
    <2>1. CASE decision = "Deny"
        <3>1. q.status \in TerminalStatuses
            BY <1>8, <2>1 DEF StatusFor, TerminalStatuses
        <3>2. CompletionOf(k, q) \in CompletionEnvelope
            BY <1>7, <3>1 DEF CompletionOf, CompletionEnvelope, RequestRecord
        <3>3. {CompletionOf(k, q)} \in SUBSET CompletionEnvelope
              /\ IsFiniteSet({CompletionOf(k, q)})
            BY <3>2, FS_Singleton
        <3>. QED  BY <1>4, <2>1, <3>3, PushTypes DEF IndInv
    <2>2. CASE decision # "Deny"
        BY <1>4, <2>2 DEF IndInv, TypeOK
    <2>. QED  BY <2>1, <2>2
<1>15. TypeOK'
    <2>1. next_request_sequence' \in 1..MaxU64
        BY <1>1, BoundsAssumption DEF IndInv, TypeOK
    <2>. QED  BY <1>1, <1>9, <1>13, <1>14, <2>1 DEF IndInv, TypeOK
<1>16. GrantsCurrent'
    BY <1>1 DEF IndInv, GrantsCurrent
<1>. QED  BY <1>11, <1>13, <1>15, <1>16 DEF IndInv

-----------------------------------------------------------------------------
(* The theorems. *)

\* The empty engine satisfies the invariant.
LEMMA InitIndInv == Init => IndInv
<1>. SUFFICES ASSUME Init PROVE IndInv
    OBVIOUS
<1>. USE DEF Init
<1>1. TypeOK
    BY BoundsAssumption DEF TypeOK, NoGeneration
<1>2. \A k \in Keys : requests[k].status = "Vacant"
    BY DEF Vacant
<1>3. ActiveAuthorized /\ DeadlineAhead
    BY <1>2 DEF ActiveAuthorized, DeadlineAhead, Active, ActiveStatuses
<1>4. PayloadRetained /\ InvokeMatches /\ OperationsBelow
    BY <1>2 DEF PayloadRetained, InvokeMatches, OperationsBelow, Stored
<1>5. NotYetDelivered /\ GrantsCurrent
    BY DEF NotYetDelivered, GrantsCurrent
<1>. QED  BY <1>1, <1>3, <1>4, <1>5 DEF IndInv

\* Every operation of the engine preserves the invariant.
LEMMA NextIndInv == IndInv /\ [Next]_vars => IndInv'
<1>. SUFFICES ASSUME IndInv, [Next]_vars PROVE IndInv'
    OBVIOUS
<1>1. CASE \E p \in Providers : detach_provider_runtime(p)
    BY <1>1, DetachProviderStep
<1>2. CASE \E i \in Instances, g \in Generations : set_generation(i, g)
    BY <1>2, SetGenerationStep
<1>3. CASE \E i \in Instances, g \in Generations : set_instance_inactive(i, g)
    BY <1>3, SetInstanceInactiveStep
<1>4. CASE \E i \in Instances : remove_instance(i)
    BY <1>4, RemoveInstanceStep
<1>5. CASE \E t \in Ticks : advance_time(t)
    BY <1>5, AdvanceTimeStep
<1>6. CASE \E s \in 1..MaxAuthority, pk \in PolicyKeys, mode \in GrantModes :
               set_grant(s, pk, mode)
    BY <1>6, SetGrantStep
<1>7. CASE \E s \in 1..MaxAuthority, pk \in PolicyKeys : revoke_grant(s, pk)
    BY <1>7, RevokeGrantStep
<1>8. CASE \E s \in 1..MaxAuthority, c \in Clients : close_client(s, c)
    BY <1>8, CloseClientStep
<1>9. CASE \E s \in 1..MaxAuthority, k \in Keys, n \in Sequences, i \in Instances,
              g \in Generations, verdict \in {"ApproveOnce", "Deny"} :
               resolve_approval(s, k, n, i, g, verdict)
    BY <1>9, ApproveStep, DenyStep
<1>10. CASE \E k \in Keys, pk \in PolicyKeys, d \in Ticks :
               pk.client = k.client /\ request(k, pk, d)
    BY <1>10, RequestStep
<1>11. CASE \E p \in Providers, e \in delivered, outcome \in Outcomes :
               apply_observation(p, e, outcome)
    BY <1>11, ApplyObservationStep
<1>12. CASE \/ \E p \in Providers : register_provider(p)
            \/ \E i \in Instances, g \in Generations : set_instance_active(i, g)
            \/ drain_effects
            \/ drain_completions
    BY <1>12, QuietSteps
<1>13. CASE UNCHANGED vars
    <2>. USE <1>13 DEF vars, authority_vars, request_vars, id_vars, history, IndInv
    <2>1. TypeOK'
        BY DEF TypeOK
    <2>2. ActiveAuthorized' /\ DeadlineAhead' /\ PayloadRetained'
        BY DEF ActiveAuthorized, DeadlineAhead, PayloadRetained, Active, Stored
    <2>3. InvokeMatches' /\ OperationsBelow' /\ NotYetDelivered' /\ GrantsCurrent'
        BY DEF InvokeMatches, OperationsBelow, NotYetDelivered, GrantsCurrent, Stored
    <2>. QED  BY <2>1, <2>2, <2>3
<1>. QED
    BY <1>1, <1>2, <1>3, <1>4, <1>5, <1>6, <1>7, <1>8, <1>9, <1>10, <1>11,
       <1>12, <1>13 DEF Next

\* The invariant holds in every reachable state.
THEOREM Invariance == Spec => []IndInv
BY InitIndInv, NextIndInv, PTL DEF Spec

\* Every variable keeps its type: in particular no counter of the engine
\* passes its u64 limit, whatever the limit is.
THEOREM TypeCorrect == Spec => []TypeOK
BY Invariance, PTL DEF IndInv

\* No invocation outlives its authority in the queue (drain_effects hands out
\* only Invokes whose request, grant, instance and provider are still there).
THEOREM NoStaleInvoke == Spec => []InvokeAuthorized
<1>1. IndInv => InvokeAuthorized
    <2>. SUFFICES ASSUME IndInv, NEW e \in effects, e.kind = "Invoke"
                 PROVE  LET q == requests[e.key] IN
                        /\ q.status = "Dispatched"
                        /\ e = EffectOf("Invoke", e.key, q, "Present")
                        /\ q.deadline > tick
                        /\ e.provider \in providers
                        /\ generations[e.instance] = e.generation
                        /\ instance_states[e.instance] = "Active"
                        /\ grants[PolicyKeyOf(e.key, q)] # "None"
        BY Zenon DEF InvokeAuthorized
    <2>1. e.key \in Keys
        BY DEF IndInv, TypeOK, EffectEnvelope
    <2> DEFINE k == e.key
               q == requests[k]
    <2>2. /\ q.status = "Dispatched"
          /\ e = EffectOf("Invoke", k, q, "Present")
          /\ e.provider \in providers
        BY DEF IndInv, InvokeMatches
    <2>3. Supported(k)
        BY <2>1, <2>2, ActiveSupported DEF Active, ActiveStatuses
    <2>4. e.instance = q.instance /\ e.generation = q.generation
        BY <2>2 DEF EffectOf
    <2>5. grants[PolicyKeyOf(k, q)] # "None"
        BY <2>3 DEF Supported, RequestRecord
    <2>. QED  BY <2>2, <2>3, <2>4, <2>5 DEF Supported
<1>. QED  BY <1>1, Invariance, PTL

\* An open request always rests on the grant it was decided under and on the
\* live generation of an active instance.
THEOREM OpenRequestsAuthorized == Spec => []ActiveAuthorized
BY Invariance, PTL DEF IndInv

\* An open request has not reached its deadline: the deadline checks inside
\* resolve_approval and apply_observation never succeed.
THEOREM OpenRequestsInTime == Spec => []DeadlineAhead
BY Invariance, PTL DEF IndInv

\* A payload is kept exactly as long as an approval may need it.
THEOREM PayloadOnlyWhileWaiting == Spec => []PayloadRetained
BY Invariance, PTL DEF IndInv

-----------------------------------------------------------------------------
(* Terminal requests. *)

\* Acceptance numbers are handed out in order.
AcceptedBelow ==
    \A k \in Keys : requests[k].status # "Vacant" =>
                        requests[k].accepted < next_request_sequence

\* What one step may do to the slot of a key: nothing, evict it, change the
\* open request in it, or accept a new request in a slot that is not open.
SlotStep(k) ==
    \/ requests'[k] = requests[k]
    \/ requests'[k] = Vacant
    \/ Active(k) /\ requests'[k].accepted = requests[k].accepted
    \/ /\ ~Active(k)
       /\ requests'[k].accepted = next_request_sequence
       /\ next_request_sequence' = next_request_sequence + 1

SlotSteps ==
    /\ \A k \in Keys : SlotStep(k)
    /\ next_request_sequence' \in {next_request_sequence, next_request_sequence + 1}

\* Closing open requests is such a step.
LEMMA ClosedSlots ==
    ASSUME TypeOK, NEW T \in SUBSET Keys, \A k \in T : Active(k), NEW status,
           \E c : requests' = Closed(T, status, c),
           next_request_sequence' = next_request_sequence
    PROVE  SlotSteps
<1>1. PICK c : requests' = Closed(T, status, c)
    OBVIOUS
<1>2. ASSUME NEW k \in Keys PROVE SlotStep(k)
    <2>1. CASE k \notin T
        BY <1>1, <2>1 DEF Closed, SlotStep
    <2>2. CASE k \in T
        <3> DEFINE q == requests[k]
        <3>1. q \in RequestRecord /\ Active(k)
            BY <2>2, ActiveRecord
        <3>2. requests'[k] = [q EXCEPT !.status = status, !.payload = "Erased",
                                       !.cancellation = c[k]]
            BY <1>1, <2>2 DEF Closed
        <3>. HIDE DEF q
        <3>3. requests'[k].accepted = q.accepted
            BY <3>1, <3>2 DEF RequestRecord
        <3>. QED  BY <3>1, <3>3 DEF SlotStep, q
    <2>. QED  BY <2>1, <2>2
<1>. QED  BY <1>2 DEF SlotSteps

\* So is cancelling and closing them.
LEMMA CancelSlots ==
    ASSUME TypeOK, NEW T \in SUBSET Keys, \A k \in T : Active(k), NEW status,
           cancel_and_close(T, status), next_request_sequence' = next_request_sequence
    PROVE  SlotSteps
<1>1. \E c : requests' = Closed(T, status, c)
    BY Zenon DEF cancel_and_close
<1>. QED  BY <1>1, ClosedSlots

\* Changing fields of one open request other than its acceptance is one, too.
LEMMA OneSlot ==
    ASSUME TypeOK, NEW k \in Keys, Active(k), NEW st, NEW op,
           \/ requests' = [requests EXCEPT ![k].status = st, ![k].payload = "Erased"]
           \/ requests' = [requests EXCEPT ![k].status = st, ![k].operation = op,
                                           ![k].payload = "Erased"],
           next_request_sequence' = next_request_sequence
    PROVE  SlotSteps
<1> DEFINE q == requests[k]
<1>1. q \in RequestRecord
    BY ActiveRecord
<1>2. \A x \in Keys \ {k} : requests'[x] = requests[x]
    BY DEF TypeOK
<1>3. \/ requests'[k] = [q EXCEPT !.status = st, !.payload = "Erased"]
      \/ requests'[k] = [q EXCEPT !.status = st, !.operation = op, !.payload = "Erased"]
    BY DEF TypeOK
<1>. HIDE DEF q
<1>4. requests'[k].accepted = q.accepted
    BY <1>1, <1>3 DEF RequestRecord
<1>. QED  BY <1>2, <1>4 DEF SlotSteps, SlotStep, q

\* Every operation treats the slots in this way.
LEMMA NextSlots ==
    ASSUME IndInv, [Next]_vars
    PROVE  SlotSteps
<1>0. TypeOK
    BY DEF IndInv
<1>1. ASSUME NEW p \in Providers, detach_provider_runtime(p) PROVE SlotSteps
    <2> DEFINE T == {k \in Keys : Active(k) /\ requests[k].provider = p}
    <2>1. /\ T \in SUBSET Keys /\ \A k \in T : Active(k)
          /\ \E c : requests' = Closed(T, "ProviderDetached", c)
          /\ next_request_sequence' = next_request_sequence
        BY <1>1, Zenon DEF detach_provider_runtime, id_vars
    <2>. HIDE DEF T
    <2>. QED  BY <1>0, <2>1, ClosedSlots
<1>2. ASSUME NEW T, T \in SUBSET Keys, \A k \in T : Active(k), NEW status,
             cancel_and_close(T, status), next_request_sequence' = next_request_sequence
      PROVE  SlotSteps
    BY <1>0, <1>2, CancelSlots
<1>3. ASSUME NEW i \in Instances, NEW g \in Generations, set_generation(i, g)
      PROVE  SlotSteps
    <2>1. {k \in Keys : /\ Active(k)
                        /\ requests[k].instance = i
                        /\ requests[k].generation # g} \in SUBSET Keys
        OBVIOUS
    <2>. QED  BY <1>2, <1>3, <2>1, Zenon DEF set_generation, id_vars
<1>4. ASSUME NEW i \in Instances, close_instance_requests(i),
             next_request_sequence' = next_request_sequence
      PROVE  SlotSteps
    <2>1. {k \in Keys : Active(k) /\ requests[k].instance = i} \in SUBSET Keys
        OBVIOUS
    <2>. QED  BY <1>2, <1>4, <2>1, Zenon DEF close_instance_requests
<1>5. ASSUME NEW t \in Ticks, advance_time(t) PROVE SlotSteps
    <2>1. expired(t) \in SUBSET Keys /\ \A k \in expired(t) : Active(k)
        BY DEF expired
    <2>. QED  BY <1>2, <1>5, <2>1, Zenon DEF advance_time, timeout_requests, id_vars
<1>6. ASSUME NEW pk \in PolicyKeys, NEW c,
             cancel_and_close(IF c THEN {} ELSE active_requests_for_key(pk), "GrantRevoked"),
             next_request_sequence' = next_request_sequence
      PROVE  SlotSteps
    <2> DEFINE T == IF c THEN {} ELSE active_requests_for_key(pk)
    <2>1. T \in SUBSET Keys /\ \A k \in T : Active(k)
        BY DEF active_requests_for_key
    <2>2. cancel_and_close(T, "GrantRevoked")
        BY <1>6
    <2>. HIDE DEF T
    <2>. QED  BY <1>2, <1>6, <2>1, <2>2
<1>7. ASSUME NEW c \in Clients, NEW s, close_client(s, c) PROVE SlotSteps
    <2>1. {k \in Keys : Active(k) /\ k.client = c} \in SUBSET Keys
        OBVIOUS
    <2>. QED  BY <1>2, <1>7, <2>1, Zenon DEF close_client, id_vars
<1>8. ASSUME NEW s, NEW k \in Keys, NEW n, NEW i, NEW g, NEW verdict,
             resolve_approval(s, k, n, i, g, verdict)
      PROVE  SlotSteps
    <2>1. Active(k) /\ next_request_sequence' = next_request_sequence
        BY <1>8 DEF resolve_approval, Resolvable, Active, ActiveStatuses
    <2>2. CASE timeout_requests({k})
        BY <1>2, <2>1, <2>2 DEF timeout_requests
    <2>3. CASE approve_once(k, n)
        <3>1. requests' = [requests EXCEPT ![k].status = "Dispatched",
                                           ![k].operation = next_operation_id,
                                           ![k].payload = "Erased"]
            BY <2>3 DEF approve_once
        <3>. QED  BY <1>0, <2>1, <3>1, OneSlot
    <2>4. CASE deny_approval(k)
        <3>1. requests' = [requests EXCEPT ![k].status = "ApprovalDenied",
                                           ![k].payload = "Erased"]
            BY <2>4 DEF deny_approval
        <3>. QED  BY <1>0, <2>1, <3>1, OneSlot
    <2>. QED  BY <1>8, <2>2, <2>3, <2>4 DEF resolve_approval
<1>9. ASSUME NEW p, NEW e \in delivered, NEW outcome, apply_observation(p, e, outcome)
      PROVE  SlotSteps
    <2>1. /\ e.key \in Keys
          /\ Active(e.key)
          /\ next_request_sequence' = next_request_sequence
        BY <1>0, <1>9 DEF apply_observation, Answers, Active, ActiveStatuses, TypeOK,
                          EffectEnvelope, id_vars
    <2>2. CASE timeout_requests({e.key})
        BY <1>2, <2>1, <2>2 DEF timeout_requests
    <2>3. CASE requests' = [requests EXCEPT ![e.key].status = outcome,
                                            ![e.key].payload = "Erased"]
        BY <1>0, <2>1, <2>3, OneSlot
    <2>. QED  BY <1>9, <2>2, <2>3, Zenon DEF apply_observation, Answers
<1>10. ASSUME NEW k \in Keys, NEW pk \in PolicyKeys, NEW d \in Ticks, request(k, pk, d)
       PROVE  SlotSteps
    <2>1. ~Active(k) /\ next_request_sequence' = next_request_sequence + 1
        BY <1>10 DEF request, Acceptable
    <2>2. PICK q, evicted :
             /\ q.accepted = next_request_sequence
             /\ requests' = [x \in Keys |-> IF x = k THEN q
                                            ELSE IF x \in evicted THEN Vacant
                                            ELSE requests[x]]
        BY <1>10 DEF request, Acceptable
    <2>3. \A x \in Keys : SlotStep(x)
        BY <2>1, <2>2 DEF SlotStep
    <2>. QED  BY <2>1, <2>3 DEF SlotSteps
<1>11. CASE UNCHANGED <<requests, next_request_sequence>>
    BY <1>11 DEF SlotSteps, SlotStep
<1>12. CASE \/ \E p \in Providers : register_provider(p)
            \/ \E i \in Instances, g \in Generations : set_instance_active(i, g)
            \/ drain_effects \/ drain_completions
            \/ UNCHANGED vars
    BY <1>11, <1>12 DEF register_provider, set_instance_active, drain_effects,
       drain_completions, vars, request_vars, id_vars
<1>13. CASE \E i \in Instances : \/ \E g \in Generations : set_instance_inactive(i, g)
                                 \/ remove_instance(i)
    BY <1>4, <1>13 DEF set_instance_inactive, remove_instance, id_vars
<1>14. CASE \E s \in 1..MaxAuthority, pk \in PolicyKeys :
               \/ \E mode \in GrantModes : set_grant(s, pk, mode)
               \/ revoke_grant(s, pk)
    <2>1. PICK s \in 1..MaxAuthority, pk \in PolicyKeys :
               \/ \E mode \in GrantModes : set_grant(s, pk, mode)
               \/ revoke_grant(s, pk)
        BY <1>14
    <2>2. next_request_sequence' = next_request_sequence
        BY <2>1 DEF set_grant, revoke_grant, id_vars
    <2>3. \/ \E mode \in GrantModes :
                cancel_and_close(IF grants[pk] \in {"None", mode} THEN {}
                                 ELSE active_requests_for_key(pk), "GrantRevoked")
          \/ cancel_and_close(IF grants[pk] = "None" THEN {}
                              ELSE active_requests_for_key(pk), "GrantRevoked")
        BY <2>1, Zenon DEF set_grant, revoke_grant
    <2>. QED  BY <1>6, <2>2, <2>3, Zenon
<1>. QED
    BY <1>1, <1>3, <1>5, <1>7, <1>8, <1>9, <1>10, <1>12, <1>13, <1>14 DEF Next

\* Every operation keeps acceptance numbers below the counter.
LEMMA NextAcceptedBelow ==
    ASSUME IndInv, AcceptedBelow, [Next]_vars
    PROVE  AcceptedBelow'
<1>1. SlotSteps
    BY NextSlots
<1>2. next_request_sequence \in Nat
    BY DEF IndInv, TypeOK
<1>. SUFFICES ASSUME NEW k \in Keys, requests'[k].status # "Vacant"
              PROVE  requests'[k].accepted < next_request_sequence'
    BY DEF AcceptedBelow
<1>3. CASE /\ requests[k].status # "Vacant"
           /\ requests'[k].accepted = requests[k].accepted
    <2>1. requests[k].accepted \in Nat
        BY <1>3, StoredRecord DEF IndInv, RequestRecord
    <2>. QED  BY <1>1, <1>2, <1>3, <2>1 DEF AcceptedBelow, SlotSteps
<1>4. CASE /\ requests'[k].accepted = next_request_sequence
           /\ next_request_sequence' = next_request_sequence + 1
    BY <1>2, <1>4
<1>. QED  BY <1>1, <1>3, <1>4 DEF SlotSteps, SlotStep, Vacant, Active, ActiveStatuses

\* Acceptance numbers stay below the counter they are taken from.
THEOREM AcceptedInOrder == Spec => []AcceptedBelow
<1>1. Init => AcceptedBelow
    BY DEF Init, AcceptedBelow, Vacant
<1>2. IndInv /\ AcceptedBelow /\ [Next]_vars => AcceptedBelow'
    BY NextAcceptedBelow
<1>. QED  BY <1>1, <1>2, Invariance, PTL DEF Spec

\* A terminal request is final: no late answer, approval, expiry or closing
\* changes it; its slot can only be evicted or reused by a later acceptance.
THEOREM TerminalFinal == Spec => TerminalIsFinal
<1>1. ASSUME IndInv, AcceptedBelow, [Next]_vars
      PROVE  [\A k \in Keys : is_terminal(k) =>
                 \/ requests'[k] = requests[k]
                 \/ requests'[k] = Vacant
                 \/ requests'[k].accepted > requests[k].accepted]_vars
    <2>. SUFFICES ASSUME NEW k \in Keys, is_terminal(k)
                 PROVE  \/ requests'[k] = requests[k]
                        \/ requests'[k] = Vacant
                        \/ requests'[k].accepted > requests[k].accepted
        OBVIOUS
    <2>1. SlotStep(k)
        BY <1>1, NextSlots DEF SlotSteps
    <2>2. ~Active(k) /\ requests[k].status # "Vacant"
        BY DEF is_terminal, TerminalStatuses, ClosedStatuses, Active, ActiveStatuses
    <2>3. /\ requests[k].accepted < next_request_sequence
          /\ requests[k].accepted \in Nat
          /\ next_request_sequence \in Nat
        BY <1>1, <2>2, StoredRecord DEF AcceptedBelow, IndInv, TypeOK, RequestRecord
    <2>. QED  BY <2>1, <2>2, <2>3 DEF SlotStep
<1>. QED  BY <1>1, Invariance, AcceptedInOrder, PTL DEF Spec, TerminalIsFinal
=============================================================================
