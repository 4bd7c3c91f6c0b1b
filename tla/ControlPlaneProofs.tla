------------------------- MODULE ControlPlaneProofs -------------------------
(***************************************************************************)
(* Proofs about ControlPlane, for every value of its constants: the tool   *)
(* engine keeps its invariants behind the bounded channel, every queue     *)
(* keeps to its capacity, and a client that closes is quiet and has heard  *)
(* of all its requests.                                                    *)
(***************************************************************************)
EXTENDS ControlPlane, ToolEngineHistoryProofs

-----------------------------------------------------------------------------
(* Sequences. *)

\* The members of a sequence.
Elements(s) == {s[j] : j \in 1 .. Len(s)}

\* A sequence with one more element.
LEMMA AppendElements ==
    ASSUME NEW S, NEW s \in Seq(S), NEW x \in S
    PROVE  /\ Append(s, x) \in Seq(S)
           /\ Len(Append(s, x)) = Len(s) + 1
           /\ \A j \in 1 .. Len(s) : Append(s, x)[j] = s[j]
           /\ Append(s, x)[Len(s) + 1] = x
           /\ Elements(Append(s, x)) = Elements(s) \cup {x}
<1>1. /\ Append(s, x) \in Seq(S)
      /\ Len(Append(s, x)) = Len(s) + 1
      /\ \A j \in 1 .. Len(s) : Append(s, x)[j] = s[j]
      /\ Append(s, x)[Len(s) + 1] = x
    OBVIOUS
<1>2. Len(s) \in Nat
    OBVIOUS
<1>3. 1 .. Len(s) + 1 = (1 .. Len(s)) \cup {Len(s) + 1}
    BY <1>2
<1>4. Elements(Append(s, x)) = Elements(s) \cup {x}
    BY <1>1, <1>3, Zenon DEF Elements
<1>. QED  BY <1>1, <1>4

\* A sequence without its first element.
LEMMA TailElements ==
    ASSUME NEW S, NEW s \in Seq(S), s # <<>>
    PROVE  /\ Head(s) \in S /\ Head(s) = s[1] /\ Head(s) \in Elements(s)
           /\ Tail(s) \in Seq(S)
           /\ Len(Tail(s)) = Len(s) - 1
           /\ \A j \in 1 .. Len(s) - 1 : Tail(s)[j] = s[j + 1]
           /\ Elements(s) = {Head(s)} \cup Elements(Tail(s))
<1>1. /\ Len(s) \in Nat \ {0}
      /\ Head(s) \in S /\ Head(s) = s[1]
      /\ Tail(s) \in Seq(S)
      /\ Len(Tail(s)) = Len(s) - 1
      /\ \A j \in 1 .. Len(s) - 1 : Tail(s)[j] = s[j + 1]
    OBVIOUS
<1>2. Head(s) \in Elements(s)
    BY <1>1 DEF Elements
<1>3. ASSUME NEW y \in Elements(s) PROVE y \in {Head(s)} \cup Elements(Tail(s))
    <2>1. PICK j \in 1 .. Len(s) : y = s[j]
        BY <1>3 DEF Elements
    <2>2. CASE j = 1
        BY <1>1, <2>1, <2>2
    <2>3. CASE j # 1
        <3>1. j - 1 \in 1 .. Len(s) - 1 /\ s[j] = Tail(s)[j - 1]
            BY <1>1, <2>1, <2>3
        <3>. QED  BY <1>1, <2>1, <3>1 DEF Elements
    <2>. QED  BY <2>2, <2>3
<1>4. ASSUME NEW y \in Elements(Tail(s)) PROVE y \in Elements(s)
    <2>1. PICK j \in 1 .. Len(s) - 1 : y = s[j + 1]
        BY <1>1, <1>4 DEF Elements
    <2>2. j + 1 \in 1 .. Len(s)
        BY <1>1, <2>1
    <2>. QED  BY <2>1, <2>2 DEF Elements
<1>. QED  BY <1>1, <1>2, <1>3, <1>4

\* The first element of the first part is the first of the whole.
LEMMA ConcatTail ==
    ASSUME NEW S, NEW s \in Seq(S), NEW t \in Seq(S), s # <<>>
    PROVE  /\ Tail(s) \o t = Tail(s \o t) /\ Head(s) = Head(s \o t)
           /\ s \o t \in Seq(S) /\ s \o t # <<>>
OBVIOUS

\* Two parts that agree with a sequence make up the sequence.
LEMMA ConcatParts ==
    ASSUME NEW S, NEW s \in Seq(S), NEW a \in Seq(S), NEW z \in Seq(S),
           Len(a) + Len(z) = Len(s),
           \A j \in 1 .. Len(a) : a[j] = s[j],
           \A j \in 1 .. Len(z) : z[j] = s[j + Len(a)]
    PROVE  a \o z = s
<1>1. Len(a) \in Nat /\ Len(z) \in Nat
    OBVIOUS
<1>2. a \o z \in Seq(S) /\ Len(a \o z) = Len(s)
    OBVIOUS
<1>3. ASSUME NEW j \in 1 .. Len(s) PROVE (a \o z)[j] = s[j]
    <2>1. CASE j <= Len(a)
        BY <1>1, <2>1
    <2>2. CASE j > Len(a)
        <3>1. j - Len(a) \in 1 .. Len(z) /\ (j - Len(a)) + Len(a) = j
            BY <1>1, <2>2
        <3>2. (a \o z)[j] = z[j - Len(a)]
            BY <1>1, <2>2
        <3>. QED  BY <3>1, <3>2
    <2>. QED  BY <1>1, <2>1, <2>2
<1>. QED  BY <1>2, <1>3

\* Cutting a sequence in two.
LEMMA ConcatSplit ==
    ASSUME NEW S, NEW s \in Seq(S), NEW n \in 0 .. Len(s)
    PROVE  /\ SubSeq(s, 1, n) \in Seq(S) /\ SubSeq(s, n + 1, Len(s)) \in Seq(S)
           /\ SubSeq(s, 1, n) \o SubSeq(s, n + 1, Len(s)) = s
           /\ Len(SubSeq(s, n + 1, Len(s))) <= Len(s)
<1> DEFINE a == SubSeq(s, 1, n)
           z == SubSeq(s, n + 1, Len(s))
<1>1. Len(s) \in Nat /\ n \in Nat /\ n <= Len(s)
    OBVIOUS
<1>2. /\ a = [j \in 1 .. n |-> s[j]] /\ Len(a) = n
      /\ z = [j \in 1 .. Len(s) - n |-> s[j + n]] /\ Len(z) = Len(s) - n
    BY <1>1
<1>3. a \in Seq(S) /\ z \in Seq(S)
    BY <1>1
<1>. HIDE DEF a, z
<1>4. /\ Len(a) + Len(z) = Len(s)
      /\ \A j \in 1 .. Len(a) : a[j] = s[j]
      /\ \A j \in 1 .. Len(z) : z[j] = s[j + Len(a)]
    BY <1>1, <1>2
<1>5. Len(z) <= Len(s)
    BY <1>1, <1>2
<1>6. a \o z = s
    BY <1>3, <1>4, ConcatParts
<1>. QED  BY <1>3, <1>5, <1>6 DEF a, z

\* The empty sequence in front.
LEMMA ConcatEmpty ==
    ASSUME NEW S, NEW s \in Seq(S)
    PROVE  <<>> \o s = s /\ s \o <<>> = s /\ Elements(<<>>) = {}
<1>1. <<>> \o s = s /\ s \o <<>> = s
    OBVIOUS
<1>2. Elements(<<>>) = {}
    BY DEF Elements
<1>. QED  BY <1>1, <1>2

\* One element at the end of a sequence of outcomes.
LEMMA ConcatOne ==
    ASSUME NEW S, NEW s \in Seq(S), NEW x \in S
    PROVE  s \o <<x>> \in Seq(S) /\ Elements(s \o <<x>>) = Elements(s) \cup {x}
<1>1. s \o <<x>> = Append(s, x)
    OBVIOUS
<1>2. Append(s, x) \in Seq(S) /\ Elements(Append(s, x)) = Elements(s) \cup {x}
    BY AppendElements
<1>. QED  BY <1>1, <1>2
-----------------------------------------------------------------------------
(* The inductive invariant: types. *)

RequestItem ==
    {x \in [kind : {"Request"}, key : Keys, policy : PolicyKeys, deadline : Deadlines,
            binding : Bindings] : x.policy.client = x.key.client}
CloseItem == [kind : {"CloseClient"}, sequence : 1 .. MaxAuthority, client : Clients]
ApproveItem == [kind : {"Approve"}, sequence : 1 .. MaxAuthority, key : Keys,
                nonce : Sequences]
ControlItem == [kind : {"Control"}, instance : Instances]
BindItem == [kind : {"Attach", "Detach"}, sequence : Bindings, provider : Providers,
             binding : Bindings]
ObserveItem == [kind : {"Observe"}, sequence : Bindings, provider : Providers,
                binding : Bindings, effect : EffectEnvelope]
Item == RequestItem \cup CloseItem \cup ApproveItem \cup ControlItem \cup BindItem
          \cup ObserveItem

Results == {"Attached", "Detached", "Applied", "Ignored", "IntegrationBlocked",
            "SequenceExhausted", "SequenceRegressed", "NotHeld"}
ProviderOutcomeRecord == [sequence : Bindings, provider : Providers, binding : Bindings,
                          result : Results]
AuthorityOutcomeRecord == [sequence : 1 .. MaxAuthority, closed : BOOLEAN]

Phases == {"idle", "flush", "reduce", "reject", "drain", "outcomes", "effects",
           "reconcile", "edge", "authority", "completions", "finalize"}
KernelState ==
    [pc : Phases, batch : Seq(Item), provider : Seq(ProviderOutcomeRecord),
     authority : Seq(AuthorityOutcomeRecord),
     effects : SUBSET [effect : EffectEnvelope, binding : Bindings],
     completions : SUBSET CompletionEnvelope, closed : SUBSET Clients,
     flush : SUBSET Bindings]

Lifecycle == [state : {"Active", "ClosingSent", "ClosingRetry", "CloseSucceeded", "Closed"},
              sequence : 0 .. MaxAuthority]

ChannelTypes == ingress \in Seq(Item) /\ Len(ingress) <= IngressCapacity /\ kernel \in KernelState

RegistryTypes ==
    /\ lane \in BOOLEAN /\ exhausted \in BOOLEAN /\ sequence_exhausted \in BOOLEAN
    /\ binding \in [Providers -> 0 .. MaxSequence]
    /\ current \in [Providers -> 0 .. MaxSequence]
    /\ foreign \in [Providers -> 0 .. MaxSequence]
    /\ published \in [Providers -> 0 .. MaxSequence]
    /\ last_sequence \in 0 .. MaxSequence /\ next_sequence \in Bindings
    /\ exhausted <=> last_sequence = MaxSequence
    /\ via \in [Keys -> 0 .. MaxSequence]

RuntimeOK(r) == /\ r \in RuntimeState
                /\ Len(r.work) <= WorkCapacity
                /\ IsFiniteSet(r.pending)

RuntimeTypes ==
    /\ DOMAIN runtime = Bindings
    /\ runtime = [b \in Bindings |-> runtime[b]]
    /\ \A b \in Bindings : runtime[b] = Unbound \/ RuntimeOK(runtime[b])
    /\ \A p \in Providers : current[p] # None => Bound(current[p])

ClientTypes ==
    /\ lifecycle \in [Clients -> Lifecycle]
    /\ sending \in [Clients -> {NotSending} \cup RequestItem]
    /\ closing \subseteq [sequence : 1 .. MaxAuthority, client : Clients]
    /\ next_authority_sequence \in 1 .. MaxAuthority

\* The engine below the plane: its own invariants, the providers that are all
\* registered, and the generations that the plane does not change.
EngineInv ==
    /\ IndInv /\ AcceptedBelow /\ HistoryInv
    /\ providers = Providers
    /\ generations \in [Instances -> Generations]

\* What the kernel carries in each phase, and when the engine's queues are empty.
PhaseInv ==
    LET pc == kernel.pc
    IN  /\ pc \notin {"reduce", "reject"} => kernel.batch = <<>>
        /\ pc \notin {"reduce", "reject", "drain", "outcomes"} => kernel.provider = <<>>
        /\ pc \in {"idle", "flush", "completions", "finalize"} => kernel.authority = <<>>
        /\ pc \notin {"drain", "outcomes", "effects"} => kernel.effects = {}
        /\ pc \in {"idle", "flush", "reduce", "reject", "drain", "finalize"} => kernel.completions = {}
        /\ pc \notin {"authority", "completions", "finalize"} => kernel.closed = {}
        /\ pc # "reduce" /\ lane => effects = {}
        /\ pc \notin {"reduce", "drain"} => completions = {}

-----------------------------------------------------------------------------
(* The inductive invariant: the channel and the clients. *)

Channel == Elements(InChannel)
OfAuthority(z) == z.kind \in AuthorityKinds
OfProvider(z) == z.kind \in ProviderKinds
AuthorityOutcomes == Elements(kernel.authority)
ProviderOutcomes == Elements(kernel.provider)

\* What a, sent before z, means for z.
InOrder(a, z) ==
    /\ OfAuthority(a) /\ OfAuthority(z) => a.sequence < z.sequence
    /\ OfProvider(a) /\ OfProvider(z) => a.sequence < z.sequence
    /\ a.kind = "CloseClient" /\ z.kind = "Request" => z.key.client # a.client

ChannelInOrder ==
    \A j, m \in 1 .. Len(InChannel) : j < m => InOrder(InChannel[j], InChannel[m])

\* The sequence was given out.
Issued(s) == s < next_sequence \/ sequence_exhausted

ItemsIssued == \A z \in Channel : OfProvider(z) => Issued(z.sequence)

AuthorityInOrder ==
    /\ \A z \in Channel : OfAuthority(z) => z.sequence < next_authority_sequence
    /\ \A o \in AuthorityOutcomes :
          /\ o.sequence < next_authority_sequence
          /\ \A z \in Channel : OfAuthority(z) => o.sequence < z.sequence

\* The close of a client is remembered until its outcome is published.
ClosesRemembered ==
    /\ \A x \in closing : /\ lifecycle[x.client] = [state |-> "ClosingSent", sequence |-> x.sequence]
                          /\ x.sequence < next_authority_sequence
                          /\ \A y \in closing : y.sequence = x.sequence => y = x
    /\ \A z \in Channel :
          /\ z.kind = "CloseClient" => [sequence |-> z.sequence, client |-> z.client] \in closing
          /\ z.kind = "Approve" => \A x \in closing : x.sequence # z.sequence

\* Only an active client holds its lock to send, and what it sends is its own.
SendersActive ==
    \A c \in Clients : sending[c] # NotSending =>
        lifecycle[c].state = "Active" /\ sending[c].key.client = c

\* The close of c was reduced.
CloseReduced(c) ==
    \/ lifecycle[c].state \in {"CloseSucceeded", "Closed"}
    \/ \E o \in AuthorityOutcomes, x \in closing :
          o.closed /\ x.sequence = o.sequence /\ x.client = c

\* Nothing of such a client is in the channel or open in the engine.
ReducedIsQuiet ==
    /\ \A c \in Clients : CloseReduced(c) =>
          /\ \A z \in Channel : z.kind = "Request" => z.key.client # c
          /\ \A k \in Keys : k.client = c => ~Active(k)
    /\ \A c \in kernel.closed : lifecycle[c].state \in {"CloseSucceeded", "Closed"}

ClientsInv == ChannelInOrder /\ AuthorityInOrder /\ ClosesRemembered /\ SendersActive /\ ReducedIsQuiet

\* Every settled request that is stored has its completion offered, dropped,
\* or on its way to a client that is still there.
OffersInv ==
    /\ \A k \in Stored : ~Active(k) =>
          \/ requests[k].accepted \in offered \cup dropped
          \/ \E x \in completions \cup kernel.completions :
                x.key = k /\ x.accepted = requests[k].accepted
    /\ \A x \in completions \cup kernel.completions :
          lifecycle[x.key.client].state # "Closed"

\* Channel, registry, runtimes and clients have their types.
TypesInv == ChannelTypes /\ RegistryTypes /\ RuntimeTypes /\ ClientTypes

\* The invariant: what the engine, the kernel's phases and the clients rest on.
BaseInv == TypesInv /\ EngineInv /\ PhaseInv /\ ItemsIssued /\ ClientsInv /\ OffersInv

\* An effect for b, a runtime of p, is delivered.
Reaches(b, p) == current[p] = b /\ Serves(runtime[b])

-----------------------------------------------------------------------------
(* What a step does to the channel. *)

Keeps == InChannel' = InChannel

Sends(x) == x \in Item /\ InChannel' = Append(InChannel, x)

Takes(h) == InChannel # <<>> /\ h = Head(InChannel) /\ InChannel' = Tail(InChannel)

\* The channel is one sequence of items.
LEMMA ChannelItems ==
    ASSUME ChannelTypes
    PROVE  /\ InChannel \in Seq(Item)
           /\ kernel.batch \in Seq(Item)
           /\ Channel \subseteq Item
<1>1. kernel.batch \in Seq(Item) /\ ingress \in Seq(Item)
    BY DEF ChannelTypes, KernelState
<1>2. InChannel \in Seq(Item)
    BY <1>1 DEF InChannel
<1>3. \A j \in 1 .. Len(InChannel) : InChannel[j] \in Item
    BY <1>2
<1>. QED  BY <1>1, <1>2, <1>3 DEF Channel, Elements

\* A step that leaves the channel alone.
LEMMA KeepsChannel ==
    ASSUME Keeps
    PROVE  Channel' = Channel /\ (ChannelInOrder => ChannelInOrder')
BY DEF Keeps, Channel, ChannelInOrder, InOrder, OfAuthority, OfProvider

\* A step that sends x.
LEMMA SendsChannel ==
    ASSUME ChannelTypes, NEW x, Sends(x)
    PROVE  /\ Channel' = Channel \cup {x}
           /\ ChannelInOrder /\ (\A z \in Channel : InOrder(z, x)) => ChannelInOrder'
<1> DEFINE s == InChannel
<1>1. s \in Seq(Item) /\ x \in Item /\ s' = Append(s, x)
    BY ChannelItems DEF Sends
<1>2. /\ Len(Append(s, x)) = Len(s) + 1
      /\ \A j \in 1 .. Len(s) : Append(s, x)[j] = s[j]
      /\ Append(s, x)[Len(s) + 1] = x
      /\ Elements(Append(s, x)) = Elements(s) \cup {x}
    BY <1>1, AppendElements
<1>3. Len(s) \in Nat
    BY <1>1
<1>4. Channel' = Channel \cup {x}
    BY <1>1, <1>2 DEF Channel
<1>5. ASSUME ChannelInOrder, \A z \in Channel : InOrder(z, x) PROVE ChannelInOrder'
    <2>1. ASSUME NEW j \in 1 .. Len(s'), NEW m \in 1 .. Len(s'), j < m
          PROVE  InOrder(s'[j], s'[m])
        <3>1. j \in 1 .. Len(s) /\ s'[j] = s[j]
            BY <1>1, <1>2, <1>3, <2>1
        <3>2. CASE m = Len(s) + 1
            <4>1. s'[m] = x /\ s[j] \in Channel
                BY <1>1, <1>2, <3>1, <3>2 DEF Channel, Elements
            <4>. QED  BY <1>5, <3>1, <4>1
        <3>3. CASE m # Len(s) + 1
            <4>1. m \in 1 .. Len(s) /\ s'[m] = s[m]
                BY <1>1, <1>2, <1>3, <2>1, <3>3
            <4>2. InOrder(s[j], s[m])
                BY <1>5, <2>1, <3>1, <4>1 DEF ChannelInOrder
            <4>. QED  BY <3>1, <4>1, <4>2
        <3>. QED  BY <3>2, <3>3
    <2>. QED  BY <2>1 DEF ChannelInOrder, InOrder, OfAuthority, OfProvider
<1>. QED  BY <1>4, <1>5

\* A step that takes the first item.
LEMMA TakesChannel ==
    ASSUME ChannelTypes, NEW h, Takes(h)
    PROVE  /\ h \in Item /\ h \in Channel
           /\ Channel = {h} \cup Channel'
           /\ ChannelInOrder => ChannelInOrder' /\ (\A z \in Channel' : InOrder(h, z))
<1> DEFINE s == InChannel
<1>1. s \in Seq(Item) /\ s # <<>> /\ h = Head(s) /\ s' = Tail(s)
    BY ChannelItems DEF Takes
<1>2. /\ Head(s) \in Item /\ Head(s) = s[1] /\ Head(s) \in Elements(s)
      /\ Len(Tail(s)) = Len(s) - 1
      /\ \A j \in 1 .. Len(s) - 1 : Tail(s)[j] = s[j + 1]
      /\ Elements(s) = {Head(s)} \cup Elements(Tail(s))
    BY <1>1, TailElements
<1>3. Len(s) \in Nat
    BY <1>1
<1>4. Channel = {h} \cup Channel' /\ h \in Item /\ h \in Channel
    BY <1>1, <1>2 DEF Channel
<1>5. ASSUME ChannelInOrder PROVE ChannelInOrder'
    <2>1. ASSUME NEW j \in 1 .. Len(s'), NEW m \in 1 .. Len(s'), j < m
          PROVE  InOrder(s'[j], s'[m])
        <3>1. /\ j + 1 \in 1 .. Len(s) /\ m + 1 \in 1 .. Len(s) /\ j + 1 < m + 1
              /\ s'[j] = s[j + 1] /\ s'[m] = s[m + 1]
            BY <1>1, <1>2, <1>3, <2>1
        <3>2. InOrder(s[j + 1], s[m + 1])
            BY <1>5, <3>1 DEF ChannelInOrder
        <3>. QED  BY <3>1, <3>2
    <2>. QED  BY <2>1 DEF ChannelInOrder, InOrder, OfAuthority, OfProvider
<1>6. ASSUME ChannelInOrder, NEW z \in Channel' PROVE InOrder(h, z)
    <2>1. PICK j \in 1 .. Len(s') : z = s'[j]
        BY <1>6 DEF Channel, Elements
    <2>2. 1 \in 1 .. Len(s) /\ j + 1 \in 1 .. Len(s) /\ 1 < j + 1 /\ s'[j] = s[j + 1]
        BY <1>1, <1>2, <1>3
    <2>3. InOrder(s[1], s[j + 1])
        BY <1>6, <2>2 DEF ChannelInOrder
    <2>. QED  BY <1>1, <1>2, <2>1, <2>2, <2>3
<1>. QED  BY <1>4, <1>5, <1>6

\* The batch and the channel stay.
LEMMA KeepForm ==
    ASSUME ingress' = ingress, kernel'.batch = kernel.batch
    PROVE  Keeps
BY DEF Keeps, InChannel

\* try_send of an item.
LEMMA SendForm ==
    ASSUME ChannelTypes, NEW x \in Item, Send(x), kernel'.batch = kernel.batch
    PROVE  Sends(x) /\ ingress' \in Seq(Item) /\ Len(ingress') <= IngressCapacity
<1>1. kernel.batch \in Seq(Item) /\ ingress \in Seq(Item) /\ ingress' = Append(ingress, x)
    BY DEF ChannelTypes, KernelState, Send
<1>2. InChannel' = Append(InChannel, x)
    <2> DEFINE a == kernel.batch
               z == ingress
    <2>1. a \in Seq(Item) /\ z \in Seq(Item) /\ x \in Item
        BY <1>1
    <2>. HIDE DEF a, z
    <2>2. a \o Append(z, x) = Append(a \o z, x)
        BY <2>1
    <2>. QED  BY <1>1, <2>2, Zenon DEF InChannel, a, z
<1>3. Len(ingress') = Len(ingress) + 1 /\ ingress' \in Seq(Item) /\ Len(ingress) \in Nat
    BY <1>1
<1>4. Len(ingress) < IngressCapacity /\ IngressCapacity \in Nat
    BY EdgeAssumption DEF Send, Room
<1>. QED  BY <1>2, <1>3, <1>4 DEF Sends

\* An item of the batch is done.
LEMMA TakeForm ==
    ASSUME ChannelTypes, kernel.batch # <<>>, kernel'.batch = Tail(kernel.batch),
           ingress' = ingress
    PROVE  Takes(Head(kernel.batch))
<1>1. kernel.batch \in Seq(Item) /\ ingress \in Seq(Item)
    BY DEF ChannelTypes, KernelState
<1>2. /\ Tail(kernel.batch) \o ingress = Tail(kernel.batch \o ingress)
      /\ Head(kernel.batch) = Head(kernel.batch \o ingress)
      /\ kernel.batch \o ingress # <<>>
    BY <1>1, ConcatTail
<1>. QED  BY <1>2 DEF Takes, InChannel

-----------------------------------------------------------------------------
(* The engine under the plane. *)

\* A step of the engine that registers no provider and starts no generation.
LEMMA EngineStep ==
    ASSUME EngineInv, [Next]_vars, UNCHANGED <<providers, generations>>
    PROVE  EngineInv'
BY NextIndInv, NextAcceptedBelow, NextHistoryInv DEF EngineInv

\* The engine does nothing.
LEMMA EngineIdle ==
    ASSUME EngineInv, UNCHANGED vars
    PROVE  EngineInv' /\ Settles({}, {})
<1>1. EngineInv'
    BY EngineStep DEF vars, authority_vars
<1>. QED  BY <1>1, QuietSettles DEF vars, request_vars, id_vars, history

\* The clock advances.
LEMMA AdvanceForm ==
    ASSUME EngineInv, tick < MaxTick, advance_time(tick + 1)
    PROVE  EngineInv' /\ \E T, sent : Settles(T, sent)
<1>1. tick \in Nat /\ tick + 1 \in Ticks
    BY BoundsAssumption DEF EngineInv, IndInv, TypeOK, Ticks
<1>2. EngineInv'
    BY <1>1, EngineStep DEF Next, advance_time, authority_vars
<1> DEFINE T == expired(tick + 1)
<1>3. T \in SUBSET Keys /\ \A k \in T : Active(k)
    BY DEF expired
<1>4. cancel_and_close(T, "TimedOut") /\ UNCHANGED <<id_vars, delivered, received, approved>>
    BY DEF advance_time, timeout_requests, history
<1>5. IndInv /\ "TimedOut" \in ClosedStatuses
    BY DEF EngineInv, ClosedStatuses
<1>. HIDE DEF T
<1>. QED  BY <1>2, <1>3, <1>4, <1>5, CancelSettles

\* The agent stops.
LEMMA InactiveForm ==
    ASSUME EngineInv, NEW i \in Instances, set_instance_inactive(i, generations[i])
    PROVE  EngineInv' /\ \E T, sent : Settles(T, sent)
<1>1. generations[i] \in Generations
    BY DEF EngineInv
<1>2. EngineInv'
    BY <1>1, EngineStep DEF Next, set_instance_inactive
<1> DEFINE T == {k \in Keys : Active(k) /\ requests[k].instance = i}
<1>3. T \in SUBSET Keys /\ \A k \in T : Active(k)
    OBVIOUS
<1>4. cancel_and_close(T, "InstanceClosed")
        /\ UNCHANGED <<id_vars, delivered, received, approved>>
    BY DEF set_instance_inactive, close_instance_requests, history
<1>5. IndInv /\ "InstanceClosed" \in ClosedStatuses
    BY DEF EngineInv, ClosedStatuses
<1>. HIDE DEF T
<1>. QED  BY <1>2, <1>3, <1>4, <1>5, CancelSettles

\* A client ends, with all its open requests.
LEMMA CloseForm ==
    ASSUME EngineInv, NEW s \in 1 .. MaxAuthority, NEW c \in Clients, close_client(s, c)
    PROVE  /\ EngineInv'
           /\ \E sent : Settles({k \in Keys : Active(k) /\ k.client = c}, sent)
<1>2. EngineInv'
    BY EngineStep DEF Next, close_client
<1> DEFINE T == {k \in Keys : Active(k) /\ k.client = c}
<1>3. T \in SUBSET Keys /\ \A k \in T : Active(k)
    OBVIOUS
<1>4. cancel_and_close(T, "ClientClosed")
        /\ UNCHANGED <<id_vars, delivered, received, approved>>
    BY DEF close_client
<1>5. IndInv /\ "ClientClosed" \in ClosedStatuses
    BY DEF EngineInv, ClosedStatuses
<1>6. \E sent \in SUBSET T : Settles(T, sent)
    <2>. HIDE DEF T
    <2>. QED  BY <1>3, <1>4, <1>5, CancelSettles
<1>. QED  BY <1>2, <1>6

\* A provider's runtime goes, with all its open requests and its effects.
LEMMA DetachForm ==
    ASSUME EngineInv, NEW p \in Providers, detach_provider_runtime(p)
    PROVE  /\ EngineInv'
           /\ \E T : Settles(T, {})
           /\ \A k \in Keys : Active(k) /\ requests[k].provider = p =>
                 requests'[k].status \notin ActiveStatuses
           /\ \A e \in effects' : e.provider # p
<1>1. EngineInv'
    BY EngineStep DEF Next, detach_provider_runtime, authority_vars
<1>2. \E T : Settles(T, {})
    BY DetachSettles DEF EngineInv
<1>3. \A e \in effects' : e.provider # p
    BY DEF detach_provider_runtime
<1>4. ASSUME NEW k \in Keys, Active(k), requests[k].provider = p
      PROVE  requests'[k].status = "ProviderDetached"
    <2>1. requests[k] \in RequestRecord
        BY <1>4, ActiveRecord DEF EngineInv, IndInv
    <2>. QED  BY <1>4, <2>1 DEF detach_provider_runtime, Closed, RequestRecord
<1>. QED  BY <1>1, <1>2, <1>3, <1>4 DEF ActiveStatuses

\* An approval is taken: the request is dispatched, or expires.
LEMMA ApprovalForm ==
    ASSUME EngineInv, NEW s \in 1 .. MaxAuthority, NEW k \in Keys, NEW n \in Sequences,
           Resolvable(k, n, requests[k].instance, requests[k].generation),
           resolve_approval(s, k, n, requests[k].instance, requests[k].generation,
                            "ApproveOnce")
    PROVE  EngineInv' /\ (Approves(k) \/ \E T, sent : Settles(T, sent))
<1>1. /\ requests[k].status = "AwaitingApproval" /\ requests[k].accepted = n
      /\ Active(k) /\ requests[k] \in RequestRecord /\ IndInv
    BY ActiveRecord DEF EngineInv, IndInv, Resolvable, Active, ActiveStatuses
<1>2. requests[k].instance \in Instances /\ requests[k].generation \in Generations
    BY <1>1 DEF RequestRecord
<1>3. EngineInv'
    <2>1. Next
        BY <1>2 DEF Next
    <2>. QED  BY <2>1, EngineStep DEF resolve_approval, authority_vars
<1>4. CASE timeout_requests({k}) /\ UNCHANGED <<approved, next_operation_id>>
    <2>1. cancel_and_close({k}, "TimedOut")
            /\ UNCHANGED <<id_vars, delivered, received, approved>>
        BY <1>4 DEF timeout_requests, resolve_approval, id_vars
    <2>2. \E sent \in SUBSET {k} : Settles({k}, sent)
        BY <1>1, <2>1, CancelSettles DEF ClosedStatuses
    <2>. QED  BY <1>3, <2>2
<1>5. CASE approve_once(k, n)
    <2>1. UNCHANGED <<next_request_sequence, delivered, received>>
        BY DEF resolve_approval
    <2>. QED  BY <1>1, <1>3, <1>5, <2>1, ApproveForm
<1>. QED  BY <1>4, <1>5 DEF resolve_approval

\* An answer settles the request it names.
LEMMA AnswerForm ==
    ASSUME EngineInv, NEW p \in Providers, NEW e, apply_observation(p, e, "Succeeded")
    PROVE  EngineInv' /\ \E T, sent : e.key \in T /\ Settles(T, sent)
<1>1. e \in delivered /\ e \in EffectEnvelope
    BY DEF apply_observation, Answers, EngineInv, IndInv, TypeOK
<1>2. EngineInv'
    <2>1. Next
        BY <1>1 DEF Next, Outcomes
    <2>. QED  BY <2>1, EngineStep DEF apply_observation, authority_vars
<1> DEFINE k == e.key
<1>3. /\ k \in Keys /\ Active(k) /\ IndInv /\ OpenIsFresh
      /\ e.kind = "Invoke" /\ requests[k].operation = e.operation
      /\ UNCHANGED <<id_vars, delivered, received, approved>>
    BY <1>1 DEF apply_observation, Answers, Active, ActiveStatuses, EngineInv, HistoryInv,
                EffectEnvelope, history
<1>4. ~Queued(k)
    BY <1>1, <1>3 DEF Queued, IndInv, InvokeMatches, NotYetDelivered, EffectOf
<1>5. CASE timeout_requests({k})
    <2>. HIDE DEF k
    <2>1. \E sent \in SUBSET {k} : Settles({k}, sent)
        BY <1>3, <1>5, CancelSettles DEF timeout_requests, ClosedStatuses
    <2>. QED  BY <1>2, <2>1 DEF k
<1>6. CASE /\ requests' = [requests EXCEPT ![k].status = "Succeeded", ![k].payload = "Erased"]
           /\ push_terminal_completions({CompletionOf(k, requests'[k])})
           /\ UNCHANGED <<effects, next_effect_sequence>>
    <2>. HIDE DEF k
    <2>1. Settles({k}, {})
        BY <1>3, <1>4, <1>6, OneSettles DEF TerminalStatuses
    <2>. QED  BY <1>2, <2>1 DEF k
<1>. QED  BY <1>5, <1>6, Zenon DEF apply_observation

\* A request is accepted, for the provider it names.
LEMMA AcceptForm ==
    ASSUME EngineInv, NEW k \in Keys, NEW pk \in PolicyKeys, NEW d \in Ticks,
           pk.client = k.client, request(k, pk, d)
    PROVE  /\ EngineInv'
           /\ \E evicted : Accepts(k, evicted)
           /\ requests'[k].provider = pk.provider
<1>1. EngineInv'
    <2>1. Next
        BY Zenon DEF Next
    <2>. QED  BY <2>1, EngineStep DEF request, authority_vars
<1>2. \E evicted : Accepts(k, evicted)
    BY RequestForm DEF EngineInv
<1>3. requests'[k].provider = pk.provider
    BY DEF request
<1>. QED  BY <1>1, <1>2, <1>3

\* The two drains.
LEMMA DrainForm ==
    ASSUME EngineInv, drain_effects \/ drain_completions
    PROVE  EngineInv'
<1>1. Next
    BY DEF Next
<1>. QED  BY <1>1, EngineStep DEF drain_effects, drain_completions, authority_vars

-----------------------------------------------------------------------------
(* What the forms of an engine step mean for the plane. *)

\* The engine of this state and of the next one has its types, and stored
\* requests are records.
LEMMA EngineTypes ==
    ASSUME EngineInv
    PROVE  /\ TypeOK
           /\ effects \subseteq EffectEnvelope /\ delivered \subseteq EffectEnvelope
           /\ completions \subseteq CompletionEnvelope
           /\ \A k \in Keys : requests[k].status # "Vacant" =>
                 /\ requests[k].provider \in Providers
                 /\ requests[k].operation \in 0 .. MaxU64
                 /\ requests[k].accepted \in 1 .. MaxU64
                 /\ requests[k].status \in ActiveStatuses \cup TerminalStatuses
           /\ \A k \in Keys : requests[k].status \in ActiveStatuses \cup TerminalStatuses
                                => requests[k].status # "Vacant"
           /\ next_operation_id \in 1 .. MaxU64
<1>1. TypeOK
    BY DEF EngineInv, IndInv
<1>2. \A k \in Keys : requests[k].status # "Vacant" =>
          /\ requests[k].provider \in Providers
          /\ requests[k].operation \in 0 .. MaxU64
          /\ requests[k].accepted \in 1 .. MaxU64
          /\ requests[k].status \in ActiveStatuses \cup TerminalStatuses
    BY <1>1, StoredRecord DEF RequestRecord
<1>3. "Vacant" \notin ActiveStatuses \cup TerminalStatuses
    BY DEF ActiveStatuses, TerminalStatuses, ClosedStatuses
<1>. QED  BY <1>1, <1>2, <1>3 DEF TypeOK

\* No request is opened.
NoneOpened == \A k \in Keys : requests'[k].status \in ActiveStatuses => Active(k)

\* What the kernel carries for the clients, and what they were offered, stay.
OffersStay ==
    /\ kernel'.completions = kernel.completions
    /\ UNCHANGED <<lifecycle, offered>>

\* A settled request has its completion queued or counted as dropped; it is
\* of a client whose close was not reduced before.
LEMMA SettlesOffers ==
    ASSUME EngineInv, EngineInv', OffersInv, ReducedIsQuiet,
           NEW T, NEW sent, Settles(T, sent), OffersStay
    PROVE  OffersInv' /\ NoneOpened
<1>1. /\ T \subseteq Keys
      /\ \A k \in T : Active(k)
      /\ \A k \in Keys \ T : requests'[k] = requests[k]
      /\ \A k \in T : requests'[k].status \in TerminalStatuses
    BY DEF Settles
<1>2. PICK kept \in SUBSET {CompletionOf(k, requests'[k]) : k \in T} :
          /\ completions' = completions \cup kept
          /\ dropped' = dropped \cup
                {c.accepted : c \in {CompletionOf(k, requests'[k]) : k \in T} \ kept}
    BY DEF Settles, Completes
<1>3. NoneOpened
    BY <1>1 DEF NoneOpened, Active
<1>4. ASSUME NEW k \in Stored', ~(requests'[k].status \in ActiveStatuses)
      PROVE  \/ requests'[k].accepted \in offered' \cup dropped'
             \/ \E x \in completions' \cup kernel'.completions :
                   x.key = k /\ x.accepted = requests'[k].accepted
    <2>1. k \in Keys
        BY DEF Stored
    <2>2. CASE k \in T
        <3> DEFINE x == CompletionOf(k, requests'[k])
        <3>1. x.key = k /\ x.accepted = requests'[k].accepted
            BY DEF CompletionOf
        <3>2. x \in {CompletionOf(j, requests'[j]) : j \in T}
            BY <2>2
        <3>. HIDE DEF x
        <3>3. CASE x \in kept
            BY <1>2, <3>1, <3>3
        <3>4. CASE x \notin kept
            <4>1. x.accepted \in dropped'
                BY <1>2, <3>2, <3>4
            <4>. QED  BY <3>1, <4>1
        <3>. QED  BY <3>3, <3>4
    <2>3. CASE k \notin T
        <3>1. requests'[k] = requests[k] /\ k \in Stored /\ ~Active(k)
            BY <1>1, <1>4, <2>1, <2>3 DEF Stored, Active
        <3>2. completions \subseteq completions' /\ dropped \subseteq dropped'
            BY <1>2
        <3>. QED  BY <3>1, <3>2 DEF OffersInv, OffersStay
    <2>. QED  BY <2>2, <2>3
<1>5. ASSUME NEW x \in completions' \cup kernel'.completions
      PROVE  lifecycle'[x.key.client].state # "Closed"
    <2>1. CASE x \in completions \cup kernel.completions
        BY <2>1 DEF OffersInv, OffersStay
    <2>2. CASE x \in kept
        <3>1. PICK k \in T : x = CompletionOf(k, requests'[k])
            BY <2>2
        <3>2. x.key = k /\ k \in Keys /\ Active(k) /\ k.client \in Clients
            BY <1>1, <3>1 DEF CompletionOf, Keys
        <3>. QED  BY <3>2 DEF ReducedIsQuiet, CloseReduced, OffersStay
    <2>. QED  BY <1>2, <1>5, <2>1, <2>2 DEF OffersStay
<1>. QED  BY <1>3, <1>4, <1>5 DEF OffersInv, Active

\* An approval settles nothing.
LEMMA ApprovesOffers ==
    ASSUME EngineInv, EngineInv', OffersInv, NEW k0, Approves(k0), OffersStay
    PROVE  OffersInv' /\ NoneOpened
<1>1. /\ k0 \in Keys /\ Active(k0)
      /\ \A k \in Keys \ {k0} : requests'[k] = requests[k]
      /\ requests'[k0].status = "Dispatched"
      /\ UNCHANGED <<completions, dropped>>
    BY DEF Approves, Invokes, Active, ActiveStatuses
<1>2. NoneOpened
    BY <1>1 DEF NoneOpened, Active
<1>3. ASSUME NEW k \in Stored', ~(requests'[k].status \in ActiveStatuses)
      PROVE  k \in Stored /\ ~Active(k) /\ requests'[k] = requests[k]
    BY <1>1, <1>3 DEF Stored, Active, ActiveStatuses
<1>. QED  BY <1>1, <1>2, <1>3 DEF OffersInv, OffersStay, Active

\* A request that is denied at once is settled too.
LEMMA AcceptsOffers ==
    ASSUME EngineInv, EngineInv', OffersInv, NEW k0, NEW evicted, Accepts(k0, evicted),
           OffersStay, lifecycle[k0.client].state # "Closed"
    PROVE  OffersInv'
<1>1. /\ k0 \in Keys
      /\ \A k \in Keys \ {k0} : requests'[k] \in {requests[k], Vacant}
    BY DEF Accepts
<1>2. CASE requests'[k0].status = "Denied"
    <2>1. PICK kept \in SUBSET {CompletionOf(k0, requests'[k0])} :
              /\ completions' = completions \cup kept
              /\ dropped' = dropped \cup
                    {c.accepted : c \in {CompletionOf(k0, requests'[k0])} \ kept}
        BY <1>2 DEF Accepts, Completes
    <2> DEFINE x == CompletionOf(k0, requests'[k0])
    <2>2. x.key = k0 /\ x.accepted = requests'[k0].accepted
        BY DEF CompletionOf
    <2>. HIDE DEF x
    <2>3. x \in completions' \/ x.accepted \in dropped'
        BY <2>1 DEF x
    <2>4. ASSUME NEW k \in Stored', ~(requests'[k].status \in ActiveStatuses), k # k0
          PROVE  k \in Stored /\ ~Active(k) /\ requests'[k] = requests[k]
        BY <1>1, <2>4 DEF Stored, Active, Vacant
    <2>5. completions \subseteq completions' /\ dropped \subseteq dropped'
        BY <2>1
    <2>6. ASSUME NEW k \in Stored', ~(requests'[k].status \in ActiveStatuses)
          PROVE  \/ requests'[k].accepted \in offered' \cup dropped'
                 \/ \E y \in completions' \cup kernel'.completions :
                       y.key = k /\ y.accepted = requests'[k].accepted
        <3>1. CASE k = k0
            BY <2>2, <2>3, <3>1
        <3>2. CASE k # k0
            BY <2>4, <2>5, <2>6, <3>2 DEF OffersInv, OffersStay
        <3>. QED  BY <3>1, <3>2
    <2>7. ASSUME NEW y \in completions' \cup kernel'.completions
          PROVE  lifecycle'[y.key.client].state # "Closed"
        BY <2>1, <2>2, <2>7 DEF OffersInv, OffersStay, x
    <2>. QED  BY <2>6, <2>7 DEF OffersInv, Active
<1>3. CASE requests'[k0].status # "Denied"
    <2>1. UNCHANGED <<completions, dropped>> /\ requests'[k0].status \in ActiveStatuses
        BY <1>3 DEF Accepts, Invokes, ActiveStatuses
    <2>2. ASSUME NEW k \in Stored', ~(requests'[k].status \in ActiveStatuses)
          PROVE  k \in Stored /\ ~Active(k) /\ requests'[k] = requests[k]
        BY <1>1, <2>1, <2>2 DEF Stored, Active, Vacant
    <2>. QED  BY <2>1, <2>2 DEF OffersInv, OffersStay, Active
<1>. QED  BY <1>2, <1>3

\* The clients, when nothing of theirs enters the channel and none is heard of.
LEMMA ClientsFrame ==
    ASSUME ClientsInv, UNCHANGED client_vars, ChannelInOrder', NoneOpened,
           \A z \in Channel' : OfAuthority(z) \/ z.kind = "Request" => z \in Channel,
           AuthorityOutcomes' \subseteq AuthorityOutcomes,
           kernel'.closed \subseteq kernel.closed
    PROVE  ClientsInv'
<1>. USE DEF client_vars
<1>1. AuthorityInOrder'
    BY DEF ClientsInv, AuthorityInOrder, OfAuthority
<1>2. ClosesRemembered'
    BY DEF ClientsInv, ClosesRemembered, OfAuthority, AuthorityKinds
<1>3. SendersActive'
    BY DEF ClientsInv, SendersActive
<1>4. ReducedIsQuiet'
    <2>1. ASSUME NEW c \in Clients, CloseReduced(c)' PROVE CloseReduced(c)
        BY <2>1 DEF CloseReduced
    <2>2. ASSUME NEW c \in Clients, CloseReduced(c)'
          PROVE  /\ \A z \in Channel' : z.kind = "Request" => z.key.client # c
                 /\ \A k \in Keys : k.client = c => ~(requests'[k].status \in ActiveStatuses)
        BY <2>1, <2>2 DEF ClientsInv, ReducedIsQuiet, NoneOpened
    <2>. QED  BY <2>2 DEF ClientsInv, ReducedIsQuiet, Active
<1>. QED  BY <1>1, <1>2, <1>3, <1>4 DEF ClientsInv

\* The engine and what the clients are told, when the engine does nothing.
LEMMA EngineFrame ==
    ASSUME EngineInv, OffersInv, ReducedIsQuiet, UNCHANGED vars
    PROVE  EngineInv' /\ NoneOpened /\ (OffersStay => OffersInv')
<1>1. EngineInv' /\ Settles({}, {})
    BY EngineIdle
<1>2. requests' = requests
    BY DEF vars, request_vars
<1>3. NoneOpened
    BY <1>2 DEF NoneOpened, Active
<1>. QED  BY <1>1, <1>3, SettlesOffers

-----------------------------------------------------------------------------
(* Updates of a runtime. *)

\* s is r with less to answer for: same provider, work and tickets.
Shrinks(r, s) ==
    /\ RuntimeOK(s)
    /\ s.provider = r.provider /\ s.work = r.work /\ s.tickets = r.tickets
    /\ s.pending \subseteq r.pending
    /\ s.operations \subseteq r.operations

\* The bounds of the edge.
LEMMA Bounds ==
    /\ IngressCapacity \in Nat \ {0} /\ DrainLimit \in Nat \ {0}
    /\ WorkCapacity \in Nat \ {0} /\ MaxSequence \in Nat \ {0}
    /\ 0 \in 0 .. MaxSequence /\ 0 \in 0 .. WorkCapacity /\ 1 \in Bindings
    /\ Bindings \subseteq 0 .. MaxSequence /\ None \notin Bindings
    /\ \A n \in 0 .. MaxSequence : n # None => n \in Bindings
BY EdgeAssumption DEF Bindings, None

\* What a runtime record holds.
LEMMA RuntimeFields ==
    ASSUME NEW r, RuntimeOK(r)
    PROVE  /\ r.life \in LifeStates /\ r.sequence \in 0 .. MaxSequence
           /\ r.provider \in Providers /\ r.open \in BOOLEAN
           /\ r.work \in Seq(EffectEnvelope)
           /\ r.operations \subseteq Sequences /\ r.settled \subseteq Sequences
           /\ r.pending \subseteq [sequence : Bindings, effect : EffectEnvelope]
           /\ r.receipts \in 0 .. WorkCapacity
           /\ r.tickets \subseteq EffectEnvelope /\ r.closing \in BOOLEAN
BY DEF RuntimeOK, RuntimeState

\* A runtime that forgets its operations.
LEMMA EmptiedShrinks ==
    ASSUME NEW r, RuntimeOK(r)
    PROVE  /\ Shrinks(r, Emptied(r))
           /\ Emptied(r).life = r.life /\ Emptied(r).sequence = r.sequence
           /\ Emptied(r).operations = {} /\ Emptied(r).settled = {}
BY RuntimeFields DEF Emptied, Shrinks, RuntimeOK, RuntimeState

\* A runtime whose work queue is shut.
LEMMA ShutShrinks ==
    ASSUME NEW r, RuntimeOK(r)
    PROVE  /\ Shrinks(r, Shut(r))
           /\ Shut(r).life = r.life /\ Shut(r).sequence = r.sequence
           /\ Shut(r).operations = r.operations /\ Shut(r).settled = r.settled
           /\ Shut(r).pending = r.pending
BY RuntimeFields DEF Shut, Shrinks, RuntimeOK, RuntimeState

\* A runtime that stops serving.
LEMMA SilencedShrinks ==
    ASSUME NEW r, RuntimeOK(r)
    PROVE  /\ Shrinks(r, Silenced(r))
           /\ Silenced(r).life = r.life /\ Silenced(r).sequence = r.sequence
           /\ Silenced(r).operations = {} /\ Silenced(r).settled = {}
BY RuntimeFields DEF Silenced, Shut, Emptied, Shrinks, RuntimeOK, RuntimeState

\* A runtime that waits to be closed.
LEMMA RetryShrinks ==
    ASSUME NEW r, RuntimeOK(r)
    PROVE  LET s == ClosingRetry(r)
           IN  /\ Shrinks(r, s)
               /\ s.life = "ClosingRetry"
               /\ s.sequence = (IF r.life \in {"AttachSent", "ClosingRetry"} THEN r.sequence ELSE 0)
               /\ s.settled = r.settled
BY RuntimeFields, Bounds DEF ClosingRetry, Shrinks, RuntimeOK, RuntimeState, LifeStates

\* A runtime that has to be closed at once.
LEMMA MisfitShrinks ==
    ASSUME NEW r, RuntimeOK(r)
    PROVE  LET s == Silenced([r EXCEPT !.life = "ClosingRetry", !.sequence = 0])
           IN  /\ Shrinks(r, s)
               /\ s.life = "ClosingRetry" /\ s.sequence = 0
               /\ s.operations = {} /\ s.settled = {}
<1> DEFINE q == [r EXCEPT !.life = "ClosingRetry", !.sequence = 0]
<1>1. Shrinks(r, q) /\ q.life = "ClosingRetry" /\ q.sequence = 0
    BY RuntimeFields, Bounds DEF Shrinks, RuntimeOK, RuntimeState, LifeStates
<1>. HIDE DEF q
<1>2. /\ Shrinks(q, Silenced(q))
      /\ Silenced(q).life = q.life /\ Silenced(q).sequence = q.sequence
      /\ Silenced(q).operations = {} /\ Silenced(q).settled = {}
    BY <1>1, SilencedShrinks DEF Shrinks
<1>3. Shrinks(r, Silenced(q))
    BY <1>1, <1>2 DEF Shrinks
<1>. QED  BY <1>1, <1>2, <1>3 DEF q

\* A faulted runtime.
LEMMA FaultedShrinks ==
    ASSUME NEW r, RuntimeOK(r)
    PROVE  LET s == Faulted(r)
           IN  /\ Shrinks(r, s)
               /\ s.operations = {} /\ s.settled = {}
               /\ IF r.life \in {"AttachSent", "Active", "Quiescing", "ClosingRetry"}
                  THEN /\ s.life = "ClosingRetry"
                       /\ s.sequence = (IF r.life \in {"AttachSent", "ClosingRetry"}
                                        THEN r.sequence ELSE 0)
                  ELSE s.life = r.life /\ s.sequence = r.sequence
<1> DEFINE q == IF r.life \in {"AttachSent", "Active", "Quiescing", "ClosingRetry"}
                THEN ClosingRetry(r) ELSE r
<1>1. /\ Shrinks(r, q)
      /\ IF r.life \in {"AttachSent", "Active", "Quiescing", "ClosingRetry"}
         THEN /\ q.life = "ClosingRetry"
              /\ q.sequence = (IF r.life \in {"AttachSent", "ClosingRetry"}
                               THEN r.sequence ELSE 0)
         ELSE q = r
    BY RetryShrinks DEF Shrinks
<1>. HIDE DEF q
<1>2. /\ Shrinks(q, Silenced(q))
      /\ Silenced(q).life = q.life /\ Silenced(q).sequence = q.sequence
      /\ Silenced(q).operations = {} /\ Silenced(q).settled = {}
    BY <1>1, SilencedShrinks DEF Shrinks
<1>3. Shrinks(r, Silenced(q))
    BY <1>1, <1>2 DEF Shrinks
<1>4. Faulted(r) = Silenced(q)
    BY DEF Faulted, q
<1>. QED  BY <1>1, <1>2, <1>3, <1>4

\* A runtime that is gone.
LEMMA RetiredShrinks ==
    ASSUME NEW r, RuntimeOK(r)
    PROVE  LET s == Retired(r)
           IN  /\ Shrinks(r, s)
               /\ s.life = "Closed" /\ s.sequence = 0
               /\ s.operations = {} /\ s.settled = {} /\ s.pending = {}
<1> DEFINE q == Silenced(r)
           n == MinOf(WorkCapacity, q.receipts + Cardinality(r.pending))
<1>1. Shrinks(r, q) /\ q.operations = {} /\ q.settled = {} /\ q.receipts \in 0 .. WorkCapacity
    BY SilencedShrinks, RuntimeFields DEF Shrinks
<1>2. Cardinality(r.pending) \in Nat
    BY FS_CardinalityType DEF RuntimeOK
<1>3. n \in 0 .. WorkCapacity
    BY <1>1, <1>2, Bounds DEF MinOf
<1>4. Retired(r) = [q EXCEPT !.life = "Closed", !.sequence = 0, !.pending = {}, !.receipts = n]
    BY <1>1 DEF Retired, RuntimeOK, RuntimeState, Shrinks
<1>5. IsFiniteSet({})
    BY FS_EmptySet
<1>. HIDE DEF q, n
<1>6. RuntimeOK(q) /\ q \in RuntimeState
    BY <1>1 DEF Shrinks, RuntimeOK
<1> DEFINE s == [q EXCEPT !.life = "Closed", !.sequence = 0, !.pending = {}, !.receipts = n]
<1>7. s \in RuntimeState
    BY <1>3, <1>6, Bounds DEF RuntimeState, LifeStates
<1>8. /\ s.life = "Closed" /\ s.sequence = 0 /\ s.pending = {}
      /\ s.provider = q.provider /\ s.work = q.work /\ s.tickets = q.tickets
      /\ s.operations = q.operations /\ s.settled = q.settled
    BY <1>6 DEF RuntimeState
<1>. HIDE DEF s
<1>9. Shrinks(r, s)
    BY <1>1, <1>5, <1>7, <1>8 DEF Shrinks, RuntimeOK
<1>. QED  BY <1>1, <1>4, <1>8, <1>9 DEF s

\* The life that a fault leaves.
FaultLife(r, s) ==
    /\ s.operations = {} /\ s.settled = {}
    /\ IF r.life \in {"AttachSent", "Active", "Quiescing", "ClosingRetry"}
       THEN /\ s.life = "ClosingRetry"
            /\ s.sequence = (IF r.life \in {"AttachSent", "ClosingRetry"} THEN r.sequence ELSE 0)
       ELSE s.life = r.life /\ s.sequence = r.sequence

\* The receipt of an answer.
Receipts(r, s, outcome) ==
    /\ s.life = r.life /\ s.sequence = r.sequence /\ s.operations = r.operations
    /\ s.closing = r.closing
    /\ \A o \in s.settled : o \in r.settled \/
          (/\ outcome.result \in {"Applied", "Ignored"}
           /\ o \in r.operations
           /\ \E m \in r.pending : m.sequence = outcome.sequence /\ m.effect.operation = o)

\* A runtime hears of an answer, or is faulted.
LEMMA ReceiptedShrinks ==
    ASSUME NEW r, NEW outcome, RuntimeOK(r)
    PROVE  LET s == Receipted(r, outcome)
           IN  Shrinks(r, s) /\ (Receipts(r, s, outcome) \/ FaultLife(r, s))
<1> DEFINE mine == {o \in r.pending : o.sequence = outcome.sequence}
           good == outcome.result \in {"Applied", "Ignored"}
           room == r.receipts < WorkCapacity
           more == IF good THEN r.settled \cup ({o.effect.operation : o \in mine} \cap r.operations)
                   ELSE r.settled
           kept == [r EXCEPT !.pending = @ \ mine, !.settled = more,
                             !.receipts = IF room THEN @ + 1 ELSE @]
<1>1. Receipted(r, outcome) = IF mine = {} THEN r ELSE IF good /\ room THEN kept ELSE Faulted(kept)
    BY DEF Receipted, RuntimeOK, RuntimeState
<1>2. CASE mine = {}
    <2>1. Receipted(r, outcome) = r
        BY <1>1, <1>2
    <2>. QED  BY <2>1 DEF Shrinks, Receipts
<1>3. CASE mine # {}
    <2>1. more \subseteq Sequences
        BY RuntimeFields
    <2>2. r.pending \ mine \subseteq r.pending /\ IsFiniteSet(r.pending \ mine)
        BY FS_Subset DEF RuntimeOK
    <2>3. (IF room THEN r.receipts + 1 ELSE r.receipts) \in 0 .. WorkCapacity
        BY RuntimeFields, Bounds
    <2>4. \A o \in more : o \in r.settled \/
             (/\ outcome.result \in {"Applied", "Ignored"}
              /\ o \in r.operations
              /\ \E m \in r.pending : m.sequence = outcome.sequence /\ m.effect.operation = o)
        OBVIOUS
    <2> DEFINE left == r.pending \ mine
    <2>. HIDE DEF more, left
    <2>5. kept \in RuntimeState
        BY <2>1, <2>2, <2>3, RuntimeFields DEF RuntimeOK, RuntimeState, left
    <2>6. /\ kept.life = r.life /\ kept.sequence = r.sequence /\ kept.provider = r.provider
          /\ kept.work = r.work /\ kept.tickets = r.tickets /\ kept.operations = r.operations
          /\ kept.pending = left /\ kept.settled = more /\ kept.closing = r.closing
        BY DEF RuntimeOK, RuntimeState, left
    <2>. HIDE DEF kept, mine
    <2>7. Shrinks(r, kept)
        BY <2>2, <2>5, <2>6 DEF Shrinks, RuntimeOK, left
    <2>8. Receipts(r, kept, outcome)
        BY <2>4, <2>6 DEF Receipts
    <2>9. Shrinks(kept, Faulted(kept)) /\ FaultLife(kept, Faulted(kept))
        BY <2>7, FaultedShrinks DEF Shrinks, FaultLife
    <2>10. Shrinks(r, Faulted(kept)) /\ FaultLife(r, Faulted(kept))
        BY <2>6, <2>7, <2>9 DEF Shrinks, FaultLife
    <2>. QED  BY <1>1, <1>3, <2>7, <2>8, <2>10
<1>. QED  BY <1>2, <1>3

\* Its attach or detach is heard of.
LEMMA ConcludedShrinks ==
    ASSUME NEW r, NEW b, NEW outcome, RuntimeOK(r)
    PROVE  LET s == Concluded(r, b, outcome)
               failed == outcome.result \notin {"Attached", "Detached", "Applied", "Ignored"}
               turned == outcome.result \in {"IntegrationBlocked", "SequenceRegressed"}
               own(life) == r.life = life /\ r.sequence = outcome.sequence
           IN  /\ Shrinks(r, s)
               /\ \/ /\ s.life = "Closed" /\ s.operations = {} /\ s.settled = {} /\ s.pending = {}
                     /\ \/ own("AttachSent") /\ failed
                        \/ /\ r.life \in {"ClosingRetry", "DetachSent"} /\ failed
                           /\ outcome.sequence = b
                        \/ own("DetachSent") /\ ~turned
                  \/ /\ own("AttachSent") /\ ~failed /\ s.life = "Active" /\ s.sequence = 0
                     /\ s.operations = r.operations /\ s.settled = r.settled
                  \/ /\ own("DetachSent") /\ turned /\ s.life = "ClosingRetry" /\ s.sequence = 0
                     /\ s.operations = r.operations /\ s.settled = r.settled
                  \/ s = r /\ ~own("AttachSent") /\ ~own("DetachSent")
<1> DEFINE a == [r EXCEPT !.life = "Active", !.sequence = 0]
           z == [r EXCEPT !.life = "ClosingRetry", !.sequence = 0]
           g == Retired(r)
<1>1. /\ Shrinks(r, a) /\ a.life = "Active" /\ a.sequence = 0
      /\ a.operations = r.operations /\ a.settled = r.settled
    BY RuntimeFields, Bounds DEF Shrinks, RuntimeOK, RuntimeState, LifeStates
<1>2. /\ Shrinks(r, z) /\ z.life = "ClosingRetry" /\ z.sequence = 0
      /\ z.operations = r.operations /\ z.settled = r.settled
    BY RuntimeFields, Bounds DEF Shrinks, RuntimeOK, RuntimeState, LifeStates
<1>3. /\ Shrinks(r, g) /\ g.life = "Closed" /\ g.operations = {} /\ g.settled = {}
      /\ g.pending = {}
    BY RetiredShrinks
<1>4. Shrinks(r, r)
    BY DEF Shrinks
<1>5. Concluded(r, b, outcome) =
        LET failed == ~(outcome.result \in {"Attached", "Detached", "Applied", "Ignored"})
            turned == outcome.result \in {"IntegrationBlocked", "SequenceRegressed"}
            own(life) == r.life = life /\ r.sequence = outcome.sequence
            dead == \/ own("AttachSent") /\ failed
                    \/ r.life \in {"ClosingRetry", "DetachSent"} /\ failed /\ outcome.sequence = b
                    \/ own("DetachSent") /\ ~turned
        IN  IF dead THEN g ELSE IF own("AttachSent") THEN a
            ELSE IF own("DetachSent") THEN z ELSE r
    BY DEF Concluded
<1>. HIDE DEF a, z, g
<1>. QED  BY <1>1, <1>2, <1>3, <1>4, <1>5

\* An effect is delivered, or misses.
LEMMA DeliveredForm ==
    ASSUME NEW r, NEW e \in EffectEnvelope, RuntimeOK(r)
    PROVE  LET s == Delivered(r, e)
           IN  \/ /\ RuntimeOK(s)
                  /\ s.life = r.life /\ s.sequence = r.sequence /\ s.provider = r.provider
                  /\ s.tickets = r.tickets /\ s.pending = r.pending /\ s.settled = r.settled
                  /\ s.closing = r.closing
                  /\ s.work = Append(r.work, e) /\ Elements(s.work) = Elements(r.work) \cup {e}
                  /\ IF e.kind = "Invoke"
                     THEN e.operation \notin r.operations
                            /\ s.operations = r.operations \cup {e.operation}
                     ELSE e.operation \in r.operations
                            /\ s.operations = r.operations \ {e.operation}
               \/ /\ Shrinks(r, s) /\ s.life = "ClosingRetry" /\ s.sequence = 0
                  /\ s.operations = {} /\ s.settled = {}
<1> DEFINE ops == IF e.kind = "Invoke" THEN r.operations \cup {e.operation}
                  ELSE r.operations \ {e.operation}
           w == Append(r.work, e)
           fits == IF e.kind = "Invoke" THEN ~(e.operation \in r.operations)
                                     ELSE e.operation \in r.operations
           n == [r EXCEPT !.work = w, !.operations = ops]
           m == Silenced([r EXCEPT !.life = "ClosingRetry", !.sequence = 0])
<1>1. Delivered(r, e) = IF fits /\ r.open /\ Len(r.work) < WorkCapacity THEN n ELSE m
    BY DEF Delivered, RuntimeOK, RuntimeState
<1>2. /\ Shrinks(r, m) /\ m.life = "ClosingRetry" /\ m.sequence = 0
      /\ m.operations = {} /\ m.settled = {}
    BY MisfitShrinks
<1>3. e.operation \in Sequences
    BY DEF EffectEnvelope, Sequences
<1>4. w \in Seq(EffectEnvelope) /\ Len(w) = Len(r.work) + 1
        /\ Elements(w) = Elements(r.work) \cup {e} /\ Len(r.work) \in Nat
    BY AppendElements, RuntimeFields
<1>5. ops \subseteq Sequences
    BY <1>3, RuntimeFields
<1>. HIDE DEF m, w, ops
<1>6. n \in RuntimeState
    BY <1>4, <1>5, RuntimeFields DEF RuntimeOK, RuntimeState
<1>7. /\ n.life = r.life /\ n.sequence = r.sequence /\ n.provider = r.provider
      /\ n.tickets = r.tickets /\ n.pending = r.pending /\ n.settled = r.settled
      /\ n.work = w /\ n.operations = ops /\ n.closing = r.closing
    BY DEF RuntimeOK, RuntimeState
<1>. HIDE DEF n
<1>8. Len(r.work) < WorkCapacity => RuntimeOK(n)
    BY <1>4, <1>6, <1>7, Bounds DEF RuntimeOK
<1>9. Delivered(r, e) = m \/ (fits /\ Len(r.work) < WorkCapacity /\ Delivered(r, e) = n)
    BY <1>1
<1>. QED  BY <1>2, <1>4, <1>7, <1>8, <1>9 DEF w, ops

-----------------------------------------------------------------------------
(* Steps of the runtimes. *)

\* One runtime changes.
LEMMA OneRuntime ==
    ASSUME RuntimeTypes, NEW b \in Bindings, NEW s, RuntimeOK(s),
           runtime' = [runtime EXCEPT ![b] = s],
           \A p \in Providers : current'[p] \in {None, current[p], b}
    PROVE  RuntimeTypes'
<1>1. /\ DOMAIN runtime' = Bindings
      /\ runtime'[b] = s
      /\ \A a \in Bindings \ {b} : runtime'[a] = runtime[a]
      /\ runtime' = [a \in Bindings |-> runtime'[a]]
    BY DEF RuntimeTypes
<1>2. s.life # "None"
    BY DEF RuntimeOK, RuntimeState, LifeStates
<1>3. ASSUME NEW p \in Providers, current'[p] # None PROVE Bound(current[p])'
    <2>1. CASE current'[p] = b
        BY <1>1, <1>2, <2>1 DEF Bound
    <2>2. CASE current'[p] # b
        <3>1. Bound(current[p]) /\ current'[p] = current[p]
            BY <1>3, <2>2 DEF RuntimeTypes
        <3>. QED  BY <2>2, <3>1 DEF Bound, RuntimeTypes
    <2>. QED  BY <2>1, <2>2
<1>. QED  BY <1>1, <1>3 DEF RuntimeTypes, RuntimeOK

\* A bound runtime is a record.
LEMMA BoundRecord ==
    ASSUME RuntimeTypes, NEW b \in Bindings, Bound(b)
    PROVE  RuntimeOK(runtime[b])
BY DEF RuntimeTypes, Bound, Unbound

Refused == UNCHANGED <<ingress, next_sequence, sequence_exhausted>>

DetachItem(b) == [kind |-> "Detach", sequence |-> next_sequence,
                  provider |-> runtime[b].provider, binding |-> b]

\* What request_close does to the runtime b, which becomes s.
Closes(b, s) ==
    LET r == runtime[b]
    IN  /\ Shrinks(r, s) /\ s.settled \subseteq r.settled
        /\ runtime' = [runtime EXCEPT ![b] = s]
        /\ \/ ~IsCurrent(b) /\ Refused /\ s.life = "Closed"
           \/ /\ IsCurrent(b) /\ Refused /\ r.life \in {"DetachSent", "Closed"}
              /\ s.life = r.life /\ s.sequence = r.sequence
           \/ /\ IsCurrent(b) /\ Refused /\ r.life # "Closed"
              /\ sequence_exhausted \/ r.life # "DetachSent"
              /\ s.life = "ClosingRetry"
              /\ s.sequence = (IF r.life \in {"AttachSent", "ClosingRetry"} THEN r.sequence ELSE 0)
           \/ /\ IsCurrent(b) /\ ~sequence_exhausted /\ r.life \notin {"DetachSent", "Closed"}
              /\ Send(DetachItem(b)) /\ commit_sequence(next_sequence)
              /\ s.life = "DetachSent" /\ s.sequence = next_sequence

\* What request_close makes of the record q that it starts with.
LEMMA CloseRecords ==
    ASSUME next_sequence \in Bindings, NEW q, RuntimeOK(q)
    PROVE  LET retry == Shut(ClosingRetry(q))
               sent == [Shut(q) EXCEPT !.life = "DetachSent", !.sequence = next_sequence]
           IN  /\ Shrinks(q, retry) /\ retry.settled = q.settled /\ retry.life = "ClosingRetry"
               /\ retry.sequence = (IF q.life \in {"AttachSent", "ClosingRetry"}
                                    THEN q.sequence ELSE 0)
               /\ Shrinks(q, sent) /\ sent.settled = q.settled
               /\ sent.life = "DetachSent" /\ sent.sequence = next_sequence
<1>1. LET z == Shut(ClosingRetry(q))
      IN  /\ Shrinks(q, z) /\ z.settled = q.settled /\ z.life = "ClosingRetry"
          /\ z.sequence = (IF q.life \in {"AttachSent", "ClosingRetry"} THEN q.sequence ELSE 0)
    <2> DEFINE c == ClosingRetry(q)
    <2>1. /\ Shrinks(q, c) /\ c.life = "ClosingRetry" /\ c.settled = q.settled
          /\ c.sequence = (IF q.life \in {"AttachSent", "ClosingRetry"} THEN q.sequence ELSE 0)
        BY RetryShrinks
    <2>. HIDE DEF c
    <2>2. /\ Shrinks(c, Shut(c)) /\ Shut(c).settled = c.settled
          /\ Shut(c).life = c.life /\ Shut(c).sequence = c.sequence
        BY <2>1, ShutShrinks DEF Shrinks
    <2>3. Shrinks(q, Shut(c))
        BY <2>1, <2>2 DEF Shrinks
    <2>. QED  BY <2>1, <2>2, <2>3 DEF c
<1>2. LET t == [Shut(q) EXCEPT !.life = "DetachSent", !.sequence = next_sequence]
      IN  /\ Shrinks(q, t) /\ t.settled = q.settled
          /\ t.life = "DetachSent" /\ t.sequence = next_sequence
    <2> DEFINE c == Shut(q)
    <2>1. Shrinks(q, c) /\ c.settled = q.settled
        BY ShutShrinks
    <2>. HIDE DEF c
    <2>2. c \in RuntimeState /\ next_sequence \in 0 .. MaxSequence
        BY <2>1, Bounds DEF Shrinks, RuntimeOK
    <2> DEFINE t == [c EXCEPT !.life = "DetachSent", !.sequence = next_sequence]
    <2>3. /\ t \in RuntimeState /\ t.life = "DetachSent" /\ t.sequence = next_sequence
          /\ t.provider = c.provider /\ t.work = c.work /\ t.tickets = c.tickets
          /\ t.operations = c.operations /\ t.settled = c.settled /\ t.pending = c.pending
        BY <2>2 DEF RuntimeState, LifeStates
    <2>. HIDE DEF t
    <2>4. Shrinks(q, t)
        BY <2>1, <2>3 DEF Shrinks, RuntimeOK
    <2>. QED  BY <2>1, <2>3, <2>4 DEF t, c
<1>. QED  BY <1>1, <1>2

\* q is the runtime r as request_close takes it over: same life, no more to
\* answer for.
TakenOver(r, q) ==
    /\ Shrinks(r, q) /\ q.life = r.life /\ q.sequence = r.sequence
    /\ q.settled \subseteq r.settled

\* What request_close does to a runtime that exists.
LEMMA CloseForms ==
    ASSUME RuntimeTypes, next_sequence \in Bindings, NEW b \in Bindings,
           NEW q, TakenOver(runtime[b], q), request_close(b, q)
    PROVE  \E s : Closes(b, s)
<1> DEFINE r == runtime[b]
           retry == Shut(ClosingRetry(q))
           sent == [Shut(q) EXCEPT !.life = "DetachSent", !.sequence = next_sequence]
<1>1. /\ Shrinks(r, q) /\ q.life = r.life /\ q.sequence = r.sequence
      /\ q.settled \subseteq r.settled /\ RuntimeOK(q) /\ q.provider = r.provider
    BY DEF TakenOver, Shrinks
<1>2. /\ Shrinks(q, retry) /\ retry.settled = q.settled /\ retry.life = "ClosingRetry"
      /\ retry.sequence = (IF q.life \in {"AttachSent", "ClosingRetry"} THEN q.sequence ELSE 0)
      /\ Shrinks(q, sent) /\ sent.settled = q.settled
      /\ sent.life = "DetachSent" /\ sent.sequence = next_sequence
    BY <1>1, CloseRecords
<1>3. Shrinks(q, Retired(q)) /\ Retired(q).settled = {} /\ Retired(q).life = "Closed"
    BY <1>1, RetiredShrinks
<1>. HIDE DEF retry, sent, r
<1>4. Shrinks(r, retry) /\ Shrinks(r, sent) /\ Shrinks(r, Retired(q))
    BY <1>1, <1>2, <1>3 DEF Shrinks
<1>5. /\ retry.sequence = (IF r.life \in {"AttachSent", "ClosingRetry"} THEN r.sequence ELSE 0)
      /\ retry.settled \subseteq r.settled /\ sent.settled \subseteq r.settled
      /\ Retired(q).settled \subseteq r.settled
    BY <1>1, <1>2, <1>3
<1>6. \/ ~IsCurrent(b) /\ Refused /\ runtime' = [runtime EXCEPT ![b] = Retired(q)]
      \/ /\ IsCurrent(b) /\ Refused /\ r.life \in {"DetachSent", "Closed"}
         /\ runtime' = [runtime EXCEPT ![b] = q]
      \/ /\ IsCurrent(b) /\ Refused /\ r.life # "Closed" /\ (sequence_exhausted \/ r.life # "DetachSent")
         /\ runtime' = [runtime EXCEPT ![b] = retry]
      \/ /\ IsCurrent(b) /\ ~sequence_exhausted /\ r.life \notin {"DetachSent", "Closed"}
         /\ Send(DetachItem(b)) /\ commit_sequence(next_sequence)
         /\ runtime' = [runtime EXCEPT ![b] = sent]
    BY <1>1 DEF request_close, retry, sent, r, Refused, DetachItem
<1>7. CASE ~IsCurrent(b) /\ Refused /\ runtime' = [runtime EXCEPT ![b] = Retired(q)]
    <2>1. Closes(b, Retired(q))
        BY <1>3, <1>4, <1>5, <1>7 DEF Closes, r
    <2>. QED  BY <2>1
<1>8. CASE /\ IsCurrent(b) /\ Refused /\ r.life \in {"DetachSent", "Closed"}
           /\ runtime' = [runtime EXCEPT ![b] = q]
    <2>1. Closes(b, q)
        BY <1>1, <1>8 DEF Closes, r
    <2>. QED  BY <2>1
<1>9. CASE /\ IsCurrent(b) /\ Refused /\ r.life # "Closed" /\ (sequence_exhausted \/ r.life # "DetachSent")
           /\ runtime' = [runtime EXCEPT ![b] = retry]
    <2>1. Closes(b, retry)
        BY <1>2, <1>4, <1>5, <1>9 DEF Closes, r
    <2>. QED  BY <2>1
<1>10. CASE /\ IsCurrent(b) /\ ~sequence_exhausted /\ r.life \notin {"DetachSent", "Closed"}
            /\ Send(DetachItem(b)) /\ commit_sequence(next_sequence)
            /\ runtime' = [runtime EXCEPT ![b] = sent]
    <2>1. Closes(b, sent)
        BY <1>2, <1>4, <1>5, <1>10 DEF Closes, r
    <2>. QED  BY <2>1
<1>. QED  BY <1>6, <1>7, <1>8, <1>9, <1>10

\* A close by the handle, or by the kernel, takes its runtime over.
LEMMA CloseActions ==
    ASSUME RuntimeTypes, next_sequence \in Bindings, NEW b \in Bindings, Bound(b),
           \/ request_close(b, [runtime[b] EXCEPT !.closing = FALSE])
           \/ request_close(b, Emptied(runtime[b]))
    PROVE  \E s : Closes(b, s)
<1>1. RuntimeOK(runtime[b])
    BY BoundRecord
<1>2. TakenOver(runtime[b], [runtime[b] EXCEPT !.closing = FALSE])
    BY <1>1, RuntimeFields DEF TakenOver, Shrinks, RuntimeOK, RuntimeState
<1>3. TakenOver(runtime[b], Emptied(runtime[b]))
    BY <1>1, EmptiedShrinks DEF TakenOver
<1>. QED  BY <1>2, <1>3, CloseForms

\* A runtime whose close begins.
LEMMA BeginCloseForm ==
    ASSUME RuntimeTypes, NEW b \in Bindings, BeginClose(b)
    PROVE  \E s : /\ runtime' = [runtime EXCEPT ![b] = s] /\ Shrinks(runtime[b], s)
                  /\ s.life = runtime[b].life /\ s.sequence = runtime[b].sequence
                  /\ s.settled = {} /\ s.closing
<1> DEFINE q == Emptied(runtime[b])
           s == [q EXCEPT !.closing = TRUE]
<1>1. RuntimeOK(runtime[b]) /\ runtime' = [runtime EXCEPT ![b] = s]
    BY BoundRecord DEF BeginClose, Free, RuntimeTypes
<1>2. /\ Shrinks(runtime[b], q) /\ q.life = runtime[b].life /\ q.sequence = runtime[b].sequence
      /\ q.settled = {}
    BY <1>1, EmptiedShrinks
<1>. HIDE DEF q
<1>3. /\ Shrinks(q, s) /\ s.life = q.life /\ s.sequence = q.sequence /\ s.settled = q.settled
      /\ s.closing
    BY <1>2 DEF Shrinks, RuntimeOK, RuntimeState
<1>. HIDE DEF s
<1>4. Shrinks(runtime[b], s)
    BY <1>2, <1>3 DEF Shrinks
<1>. QED  BY <1>1, <1>2, <1>3, <1>4

\* A runtime sends an item with the next sequence.
SendsNext(x) ==
    /\ x \in BindItem \cup ObserveItem /\ x.sequence = next_sequence
    /\ ~sequence_exhausted /\ Send(x) /\ commit_sequence(next_sequence)

\* A close sends its detach under the next sequence, or nothing.
LEMMA ClosesSends ==
    ASSUME RuntimeTypes, next_sequence \in Bindings, NEW b \in Bindings, Bound(b),
           NEW s, Closes(b, s)
    PROVE  Refused \/ SendsNext(DetachItem(b))
<1>1. DetachItem(b) \in BindItem /\ DetachItem(b).sequence = next_sequence
    BY BoundRecord, RuntimeFields DEF DetachItem, BindItem
<1>2. Refused \/ (~sequence_exhausted /\ Send(DetachItem(b)) /\ commit_sequence(next_sequence))
    BY DEF Closes
<1>. QED  BY <1>1, <1>2 DEF SendsNext

-----------------------------------------------------------------------------
(* The clients' part of the invariant, under steps of the edge. *)

\* All that the kernel carries but its phase and what it flushes.
Cargo == <<kernel.batch, kernel.provider, kernel.authority, kernel.effects,
           kernel.completions, kernel.closed>>

\* What is given out stays given out.
LEMMA CommitIssues ==
    ASSUME next_sequence \in Bindings, commit_sequence(next_sequence)
    PROVE  /\ next_sequence' \in Bindings
           /\ sequence_exhausted' \in BOOLEAN
           /\ \A s : Issued(s) /\ s \in 0 .. MaxSequence => Issued(s)'
           /\ next_sequence < next_sequence' \/ sequence_exhausted'
<1>1. CASE next_sequence = MaxSequence
    <2>1. sequence_exhausted' /\ next_sequence' = next_sequence /\ sequence_exhausted' \in BOOLEAN
        BY <1>1 DEF commit_sequence
    <2>. QED  BY <2>1 DEF Issued
<1>2. CASE next_sequence # MaxSequence
    <2>1. /\ next_sequence' = next_sequence + 1 /\ next_sequence' \in Bindings
          /\ sequence_exhausted' = (sequence_exhausted \/ FALSE)
        BY <1>2, Bounds DEF commit_sequence, Bindings
    <2>2. \A s \in 0 .. MaxSequence : s < next_sequence => s < next_sequence'
        BY <2>1 DEF Bindings
    <2>3. next_sequence < next_sequence + 1
        BY DEF Bindings
    <2>4. sequence_exhausted' \in BOOLEAN /\ (sequence_exhausted => sequence_exhausted')
        BY <2>1, Zenon
    <2>. QED  BY <2>1, <2>2, <2>3, <2>4 DEF Issued
<1>. QED  BY <1>1, <1>2

\* The items of the channel, by their kinds.
LEMMA ProviderItem ==
    ASSUME ChannelTypes, NEW z \in Channel, OfProvider(z)
    PROVE  /\ z.sequence \in Bindings /\ z.sequence \in 0 .. MaxSequence
           /\ z.binding \in Bindings /\ z.provider \in Providers
           /\ z.kind = "Observe" => z.effect \in EffectEnvelope
<1>1. z \in Item
    BY ChannelItems
<1>2. z \in BindItem \cup ObserveItem
    BY <1>1 DEF Item, RequestItem, CloseItem, ApproveItem, ControlItem, OfProvider, ProviderKinds
<1>. QED  BY <1>2, Bounds DEF BindItem, ObserveItem

\* Nothing of the clients is touched when a runtime moves.
LEMMA RuntimeBase ==
    ASSUME BaseInv, UNCHANGED <<vars, client_vars, offered, lane, binding, last_sequence,
                                exhausted, via, published, foreign>>,
           kernel' \in KernelState, Cargo' = Cargo, PhaseInv',
           RuntimeTypes', current' \in [Providers -> 0 .. MaxSequence],
           Refused \/ \E x : SendsNext(x)
    PROVE  BaseInv'
<1>1. /\ TypesInv /\ EngineInv /\ PhaseInv /\ ItemsIssued /\ ClientsInv /\ OffersInv
      /\ ChannelTypes /\ RegistryTypes /\ ClientTypes /\ ReducedIsQuiet /\ ChannelInOrder
    BY DEF BaseInv, TypesInv, ClientsInv
<1>2. /\ kernel'.batch = kernel.batch /\ kernel'.authority = kernel.authority
      /\ kernel'.completions = kernel.completions /\ kernel'.closed = kernel.closed
    BY DEF Cargo
<1>3. EngineInv' /\ NoneOpened /\ OffersInv'
    BY <1>1, <1>2, EngineFrame DEF OffersStay, client_vars
<1>4. ClientTypes'
    BY <1>1 DEF ClientTypes, client_vars
<1>5. next_sequence \in Bindings /\ sequence_exhausted \in BOOLEAN
    BY <1>1 DEF RegistryTypes
<1>6. /\ ChannelTypes' /\ ChannelInOrder' /\ ItemsIssued'
      /\ \A z \in Channel' : OfAuthority(z) \/ z.kind = "Request" => z \in Channel
      /\ next_sequence' \in Bindings /\ sequence_exhausted' \in BOOLEAN
    <2>1. CASE Refused
        <3>1. Keeps
            BY <1>2, <2>1, KeepForm DEF Refused
        <3>2. Channel' = Channel /\ ChannelInOrder'
            BY <1>1, <3>1, KeepsChannel
        <3>. QED  BY <1>1, <1>5, <2>1, <3>2
                     DEF Refused, ChannelTypes, ItemsIssued, Issued, OfProvider
    <2>2. ASSUME NEW x, SendsNext(x)
          PROVE  <1>6!:
        <3>1. /\ x \in Item /\ OfProvider(x) /\ ~OfAuthority(x) /\ x.kind # "Request"
              /\ x.sequence = next_sequence /\ ~sequence_exhausted /\ x.kind # "CloseClient"
            BY <2>2 DEF SendsNext, Item, BindItem, ObserveItem, OfProvider, OfAuthority,
                        ProviderKinds, AuthorityKinds
        <3>2. Sends(x) /\ ingress' \in Seq(Item) /\ Len(ingress') <= IngressCapacity
            BY <1>1, <1>2, <2>2, <3>1, SendForm DEF SendsNext
        <3>3. \A z \in Channel : InOrder(z, x)
            BY <1>1, <3>1 DEF InOrder, ItemsIssued, Issued
        <3>4. Channel' = Channel \cup {x} /\ ChannelInOrder'
            BY <1>1, <3>2, <3>3, SendsChannel
        <3>5. /\ next_sequence' \in Bindings /\ sequence_exhausted' \in BOOLEAN
              /\ \A s : Issued(s) /\ s \in 0 .. MaxSequence => Issued(s)'
              /\ next_sequence < next_sequence' \/ sequence_exhausted'
            BY <1>5, <2>2, CommitIssues DEF SendsNext
        <3>6. ASSUME NEW z \in Channel', OfProvider(z) PROVE Issued(z.sequence)'
            <4>1. CASE z = x
                BY <3>1, <3>5, <4>1 DEF Issued
            <4>2. CASE z \in Channel
                <5>1. Issued(z.sequence)
                    BY <1>1, <3>6, <4>2 DEF ItemsIssued
                <5>2. z.sequence \in 0 .. MaxSequence
                    BY <1>1, <3>6, <4>2, ProviderItem
                <5>. QED  BY <3>5, <5>1, <5>2
            <4>. QED  BY <3>4, <4>1, <4>2
        <3>7. ItemsIssued'
            BY <3>6 DEF ItemsIssued, OfProvider
        <3>. QED  BY <3>1, <3>2, <3>4, <3>5, <3>7 DEF ChannelTypes
    <2>. QED  BY <2>1, <2>2
<1>7. RegistryTypes'
    BY <1>1, <1>6 DEF RegistryTypes
<1>8. ClientsInv'
    BY <1>1, <1>2, <1>3, <1>6, ClientsFrame DEF AuthorityOutcomes, client_vars
<1>. QED  BY <1>3, <1>4, <1>6, <1>7, <1>8 DEF BaseInv, TypesInv


\* A runtime that is bound anew.
NewRuntime(p) ==
    [life |-> "AttachSent", sequence |-> next_sequence, provider |-> p, open |-> TRUE,
     work |-> <<>>, operations |-> {}, settled |-> {}, pending |-> {},
     receipts |-> 0, tickets |-> {}, closing |-> FALSE]

\* A runtime that was just bound is a full record.
LEMMA NewRuntimeOK ==
    ASSUME NEW p \in Providers, next_sequence \in Bindings
    PROVE  RuntimeOK(NewRuntime(p))
<1>1. IsFiniteSet({})
    BY FS_EmptySet
<1>2. <<>> \in Seq(EffectEnvelope) /\ Len(<<>>) <= WorkCapacity
    BY Bounds
<1>. QED  BY <1>1, <1>2, Bounds DEF NewRuntime, RuntimeOK, RuntimeState, LifeStates

\* A runtime is told to finish what it has.
LEMMA QuiesceForm ==
    ASSUME RuntimeTypes, NEW b \in Bindings, begin_quiesce(b)
    PROVE  \E s : /\ runtime' = [runtime EXCEPT ![b] = s] /\ Shrinks(runtime[b], s)
                  /\ \/ /\ IsCurrent(b) /\ runtime[b].life = "Active" /\ s.life = "Quiescing"
                        /\ s.operations = runtime[b].operations /\ s.settled = runtime[b].settled
                        /\ s.closing = runtime[b].closing
                     \/ ~IsCurrent(b) /\ s.life = "Closed" /\ s.settled = {}
<1> DEFINE r == runtime[b]
           q == [r EXCEPT !.life = "Quiescing"]
<1>1. RuntimeOK(r)
    BY BoundRecord DEF begin_quiesce, Free
<1>2. CASE IsCurrent(b)
    <2>1. /\ Shrinks(r, q) /\ q.life = "Quiescing" /\ q.operations = r.operations
          /\ q.settled = r.settled /\ q.closing = r.closing
        BY <1>1, RuntimeFields DEF Shrinks, RuntimeOK, RuntimeState, LifeStates
    <2>2. runtime' = [runtime EXCEPT ![b] = q] /\ r.life = "Active"
        BY <1>2 DEF begin_quiesce, RuntimeTypes
    <2>. HIDE DEF q
    <2>. QED  BY <1>2, <2>1, <2>2
<1>3. CASE ~IsCurrent(b)
    <2>1. Shrinks(r, Retired(r)) /\ Retired(r).life = "Closed" /\ Retired(r).settled = {}
        BY <1>1, RetiredShrinks
    <2>2. runtime' = [runtime EXCEPT ![b] = Retired(r)]
        BY <1>3 DEF begin_quiesce, RuntimeTypes
    <2>. QED  BY <1>3, <2>1, <2>2
<1>. QED  BY <1>2, <1>3

\* A runtime takes an effect from its queue.
LEMMA RecvForm ==
    ASSUME RuntimeTypes, NEW b \in Bindings, try_recv(b)
    PROVE  LET r == runtime[b]
           IN  \E s : /\ runtime' = [runtime EXCEPT ![b] = s] /\ RuntimeOK(s)
                      /\ s.life = r.life /\ s.sequence = r.sequence /\ s.provider = r.provider
                      /\ s.pending = r.pending /\ s.operations = r.operations
                      /\ s.settled = r.settled /\ s.closing = r.closing
                      /\ Elements(s.work) \subseteq Elements(r.work)
                      /\ s.tickets \subseteq r.tickets \cup Elements(r.work)
                      /\ \A e \in s.tickets : e \in r.tickets \/ e.kind = "Invoke"
<1> DEFINE r == runtime[b]
           more == {e \in {Head(r.work)} : e.kind = "Invoke"}
           w == Tail(r.work)
           t == r.tickets \cup more
           s == [r EXCEPT !.work = w, !.tickets = t]
<1>1. RuntimeOK(r) /\ r.work # <<>> /\ r.work \in Seq(EffectEnvelope)
    BY BoundRecord, RuntimeFields DEF try_recv, Free
<1>2. /\ Head(r.work) \in EffectEnvelope /\ Head(r.work) \in Elements(r.work)
      /\ w \in Seq(EffectEnvelope) /\ Len(w) = Len(r.work) - 1
      /\ Elements(w) \subseteq Elements(r.work) /\ Len(r.work) \in Nat
    BY <1>1, TailElements
<1>3. more \subseteq EffectEnvelope /\ more \subseteq Elements(r.work)
    BY <1>2
<1>4. t \subseteq EffectEnvelope /\ t \subseteq r.tickets \cup Elements(r.work)
        /\ \A e \in t : e \in r.tickets \/ e.kind = "Invoke"
    BY <1>1, <1>3, RuntimeFields
<1>5. runtime' = [runtime EXCEPT ![b] = s]
    BY DEF try_recv, RuntimeTypes
<1>. HIDE DEF w, t
<1>6. s \in RuntimeState
    BY <1>1, <1>2, <1>4, RuntimeFields DEF RuntimeOK, RuntimeState
<1>7. /\ s.life = r.life /\ s.sequence = r.sequence /\ s.provider = r.provider
      /\ s.pending = r.pending /\ s.operations = r.operations /\ s.settled = r.settled
      /\ s.work = w /\ s.tickets = t /\ s.closing = r.closing
    BY <1>1 DEF RuntimeOK, RuntimeState
<1>. HIDE DEF s
<1>8. RuntimeOK(s)
    BY <1>1, <1>2, <1>6, <1>7, Bounds DEF RuntimeOK
<1>. QED  BY <1>2, <1>4, <1>5, <1>7, <1>8

ObserveItemOf(b, e) == [kind |-> "Observe", sequence |-> next_sequence,
                        provider |-> runtime[b].provider, binding |-> b, effect |-> e]

\* A runtime answers.
LEMMA CompleteForm ==
    ASSUME RuntimeTypes, next_sequence \in Bindings, NEW b \in Bindings, NEW e,
           try_complete(b, e)
    PROVE  LET r == runtime[b]
           IN  \E s : /\ runtime' = [runtime EXCEPT ![b] = s] /\ RuntimeOK(s)
                      /\ e \in r.tickets /\ Send(ObserveItemOf(b, e))
                      /\ s.provider = r.provider /\ s.work = r.work
                      /\ s.tickets \subseteq r.tickets
                      /\ s.pending = r.pending \cup {[sequence |-> next_sequence, effect |-> e]}
                      /\ s.operations \subseteq r.operations
                      /\ \/ /\ next_sequence # MaxSequence
                            /\ s.life = r.life /\ s.sequence = r.sequence
                            /\ s.operations = r.operations /\ s.settled = r.settled
                            /\ s.closing = r.closing
                         \/ /\ next_sequence = MaxSequence
                            /\ s.life = "ClosingRetry" /\ s.sequence = 0 /\ s.settled = {}
<1> DEFINE r == runtime[b]
           m == [sequence |-> next_sequence, effect |-> e]
           pend == r.pending \cup {m}
           tick1 == r.tickets \ {e}
           q == [r EXCEPT !.tickets = tick1, !.pending = pend]
           z == Silenced([q EXCEPT !.life = "ClosingRetry", !.sequence = 0])
<1>1. RuntimeOK(r) /\ e \in r.tickets /\ e \in EffectEnvelope
    BY BoundRecord, RuntimeFields DEF try_complete
<1>2. pend \subseteq [sequence : Bindings, effect : EffectEnvelope] /\ IsFiniteSet(pend)
    <2>1. m \in [sequence : Bindings, effect : EffectEnvelope]
        BY <1>1
    <2>2. IsFiniteSet(r.pending \cup {m})
        BY <1>1, FS_AddElement DEF RuntimeOK
    <2>. QED  BY <1>1, <2>1, <2>2, RuntimeFields
<1>3. tick1 \subseteq EffectEnvelope /\ tick1 \subseteq r.tickets
    BY <1>1, RuntimeFields
<1>4. /\ runtime' = [runtime EXCEPT ![b] = IF next_sequence = MaxSequence THEN z ELSE q]
      /\ Send(ObserveItemOf(b, e))
    BY <1>1 DEF try_complete, ObserveItemOf, RuntimeOK, RuntimeState
<1>. HIDE DEF pend, tick1
<1>5. q \in RuntimeState
    BY <1>1, <1>2, <1>3, RuntimeFields DEF RuntimeOK, RuntimeState
<1>6. /\ q.life = r.life /\ q.sequence = r.sequence /\ q.provider = r.provider
      /\ q.pending = pend /\ q.operations = r.operations /\ q.settled = r.settled
      /\ q.work = r.work /\ q.tickets = tick1 /\ q.closing = r.closing
    BY <1>1 DEF RuntimeOK, RuntimeState
<1>. HIDE DEF q
<1>7. RuntimeOK(q)
    BY <1>1, <1>2, <1>5, <1>6 DEF RuntimeOK
<1>8. /\ Shrinks(q, z) /\ z.life = "ClosingRetry" /\ z.sequence = 0
      /\ z.operations = {} /\ z.settled = {}
    BY <1>7, MisfitShrinks
<1>9. z.pending = q.pending
    BY <1>5 DEF Silenced, Shut, Emptied, RuntimeState
<1>. HIDE DEF z
<1>10. CASE next_sequence = MaxSequence
    <2>1. runtime' = [runtime EXCEPT ![b] = z]
        BY <1>4, <1>10
    <2>. QED  BY <1>1, <1>3, <1>4, <1>6, <1>8, <1>9, <1>10, <2>1 DEF Shrinks, pend
<1>11. CASE next_sequence # MaxSequence
    <2>1. runtime' = [runtime EXCEPT ![b] = q]
        BY <1>4, <1>11
    <2>. QED  BY <1>1, <1>3, <1>4, <1>6, <1>7, <1>11, <2>1 DEF pend
<1>. QED  BY <1>10, <1>11

\* A runtime takes a receipt.
LEMMA OutcomeForm ==
    ASSUME RuntimeTypes, NEW b \in Bindings, try_recv_observation_outcome(b)
    PROVE  \E s : /\ runtime' = [runtime EXCEPT ![b] = s] /\ Shrinks(runtime[b], s)
                  /\ s.life = runtime[b].life /\ s.sequence = runtime[b].sequence
                  /\ s.operations = runtime[b].operations /\ s.settled = runtime[b].settled
                  /\ s.closing = runtime[b].closing
<1> DEFINE r == runtime[b]
           s == [r EXCEPT !.receipts = @ - 1]
<1>1. RuntimeOK(r) /\ r.receipts \in 0 .. WorkCapacity /\ r.receipts > 0
    BY BoundRecord, RuntimeFields DEF try_recv_observation_outcome, Free
<1>2. runtime' = [runtime EXCEPT ![b] = s]
    BY <1>1 DEF try_recv_observation_outcome, RuntimeTypes
<1>3. r.receipts - 1 \in 0 .. WorkCapacity
    BY <1>1, Bounds
<1>4. /\ Shrinks(r, s) /\ s.life = r.life /\ s.sequence = r.sequence
      /\ s.operations = r.operations /\ s.settled = r.settled /\ s.closing = r.closing
    BY <1>1, <1>3 DEF Shrinks, RuntimeOK, RuntimeState
<1>. HIDE DEF s
<1>. QED  BY <1>2, <1>4

\* What the kernel carries in its phase, when the engine does nothing.
LEMMA PhaseFrame ==
    ASSUME PhaseInv, UNCHANGED <<vars, lane>>, Cargo' = Cargo,
           kernel'.pc = kernel.pc \/ (kernel.pc = "idle" /\ kernel'.pc = "flush")
    PROVE  PhaseInv'
<1>1. /\ effects' = effects /\ completions' = completions /\ lane' = lane
    BY DEF vars, request_vars
<1>2. /\ kernel'.batch = kernel.batch /\ kernel'.provider = kernel.provider
      /\ kernel'.authority = kernel.authority /\ kernel'.effects = kernel.effects
      /\ kernel'.completions = kernel.completions /\ kernel'.closed = kernel.closed
    BY DEF Cargo
<1>. QED  BY <1>1, <1>2 DEF PhaseInv

\* A step that leaves the kernel alone leaves its phase alone.
LEMMA KernelStays ==
    ASSUME ChannelTypes, PhaseInv, UNCHANGED <<vars, lane>>, kernel' = kernel
    PROVE  kernel' \in KernelState /\ Cargo' = Cargo /\ PhaseInv'
<1>1. kernel' \in KernelState /\ Cargo' = Cargo
    BY DEF ChannelTypes, Cargo
<1>. QED  BY <1>1, PhaseFrame

\* Every step of a runtime keeps the clients' part.
LEMMA RuntimeActionsBase ==
    ASSUME BaseInv,
           \/ \E p \in Providers : bind_provider(p)
           \/ \E b \in Bindings : \/ BeginClose(b) \/ CloseRuntime(b) \/ begin_quiesce(b)
                                  \/ try_recv(b) \/ try_recv_observation_outcome(b)
           \/ \E b \in Bindings, e \in delivered : try_complete(b, e)
    PROVE  BaseInv'
<1>1. /\ ChannelTypes /\ PhaseInv /\ RuntimeTypes /\ next_sequence \in Bindings
      /\ current \in [Providers -> 0 .. MaxSequence] /\ EngineInv
    BY DEF BaseInv, TypesInv, RegistryTypes
<1>2. ASSUME NEW p \in Providers, bind_provider(p) PROVE BaseInv'
    <2> DEFINE x == [kind |-> "Attach", sequence |-> next_sequence, provider |-> p,
                     binding |-> next_sequence]
    <2>1. /\ UNCHANGED <<vars, client_vars, offered, lane, binding, last_sequence,
                         exhausted, via, published, foreign>>
          /\ kernel' = kernel
          /\ current' = [current EXCEPT ![p] = next_sequence]
          /\ runtime' = [runtime EXCEPT ![next_sequence] = NewRuntime(p)]
          /\ ~sequence_exhausted /\ Send(x) /\ commit_sequence(next_sequence)
        BY <1>2 DEF bind_provider, kernel_vars, NewRuntime
    <2>2. RuntimeOK(NewRuntime(p))
        BY <1>1, NewRuntimeOK
    <2>3. RuntimeTypes' /\ current' \in [Providers -> 0 .. MaxSequence]
        BY <1>1, <2>1, <2>2, OneRuntime, Bounds
    <2>4. x \in BindItem /\ x.sequence = next_sequence
        BY <1>1 DEF BindItem
    <2>. HIDE DEF x
    <2>5. SendsNext(x)
        BY <2>1, <2>4 DEF SendsNext
    <2>. QED  BY <1>1, <2>1, <2>3, <2>5, KernelStays, RuntimeBase
<1>3. ASSUME NEW b \in Bindings, NEW s, RuntimeOK(s), runtime' = [runtime EXCEPT ![b] = s],
             UNCHANGED <<vars, client_vars, offered, lane, binding, last_sequence,
                         exhausted, via, published, foreign, current>>,
             kernel' = kernel, Refused \/ \E x : SendsNext(x)
      PROVE  BaseInv'
    <2>1. RuntimeTypes' /\ current' \in [Providers -> 0 .. MaxSequence]
        BY <1>1, <1>3, OneRuntime
    <2>. QED  BY <1>1, <1>3, <2>1, KernelStays, RuntimeBase
<1>4. ASSUME NEW b \in Bindings, CloseRuntime(b) PROVE BaseInv'
    <2>1. /\ UNCHANGED <<vars, client_vars, offered, lane, binding, last_sequence,
                         exhausted, via, published, foreign, current>>
          /\ kernel' = kernel /\ Bound(b)
          /\ \/ request_close(b, [runtime[b] EXCEPT !.closing = FALSE])
             \/ request_close(b, Emptied(runtime[b]))
        BY <1>4 DEF CloseRuntime, kernel_vars
    <2>2. PICK s : Closes(b, s)
        BY <1>1, <2>1, CloseActions
    <2>3. RuntimeOK(s) /\ runtime' = [runtime EXCEPT ![b] = s]
        BY <2>2 DEF Closes, Shrinks
    <2>4. Refused \/ SendsNext(DetachItem(b))
        BY <1>1, <2>1, <2>2, ClosesSends
    <2>. QED  BY <1>3, <2>1, <2>3, <2>4
<1>5. ASSUME NEW b \in Bindings, \/ BeginClose(b) \/ begin_quiesce(b) \/ try_recv(b)
                                 \/ try_recv_observation_outcome(b)
      PROVE  BaseInv'
    <2>1. /\ UNCHANGED <<vars, client_vars, offered, lane, binding, last_sequence,
                         exhausted, via, published, foreign, current>>
          /\ kernel' = kernel /\ Refused
        BY <1>5 DEF BeginClose, begin_quiesce, try_recv, try_recv_observation_outcome,
                    kernel_vars, registry_vars, Refused
    <2>2. \E s : RuntimeOK(s) /\ runtime' = [runtime EXCEPT ![b] = s]
        <3>1. CASE begin_quiesce(b)
            BY <1>1, <3>1, QuiesceForm DEF Shrinks
        <3>2. CASE try_recv(b)
            BY <1>1, <3>2, RecvForm
        <3>3. CASE try_recv_observation_outcome(b)
            BY <1>1, <3>3, OutcomeForm DEF Shrinks
        <3>4. CASE BeginClose(b)
            BY <1>1, <3>4, BeginCloseForm DEF Shrinks
        <3>. QED  BY <1>5, <3>1, <3>2, <3>3, <3>4
    <2>. QED  BY <1>3, <2>1, <2>2
<1>6. ASSUME NEW b \in Bindings, NEW e \in delivered, try_complete(b, e) PROVE BaseInv'
    <2>1. /\ UNCHANGED <<vars, client_vars, offered, lane, binding, last_sequence,
                         exhausted, via, published, foreign, current>>
          /\ kernel' = kernel /\ ~sequence_exhausted /\ commit_sequence(next_sequence)
          /\ Bound(b)
        BY <1>6 DEF try_complete, kernel_vars
    <2>2. PICK s : /\ runtime' = [runtime EXCEPT ![b] = s] /\ RuntimeOK(s)
                   /\ e \in runtime[b].tickets /\ Send(ObserveItemOf(b, e))
        BY <1>1, <1>6, CompleteForm
    <2>3. ObserveItemOf(b, e) \in ObserveItem /\ ObserveItemOf(b, e).sequence = next_sequence
        BY <1>1, <2>1, <2>2, BoundRecord, RuntimeFields DEF ObserveItemOf, ObserveItem
    <2>4. SendsNext(ObserveItemOf(b, e))
        BY <2>1, <2>2, <2>3 DEF SendsNext
    <2>. QED  BY <1>3, <2>1, <2>2, <2>4
<1>. QED  BY <1>2, <1>4, <1>5, <1>6

\* The kernel starts a step and asks the runtimes that wait to be closed.
LEMMA FlushBase ==
    ASSUME BaseInv, BeginStep \/ \E b \in Bindings : FlushBinding(b)
    PROVE  BaseInv'
<1>1. /\ ChannelTypes /\ PhaseInv /\ RuntimeTypes /\ next_sequence \in Bindings
      /\ current \in [Providers -> 0 .. MaxSequence] /\ kernel \in KernelState
    BY DEF BaseInv, TypesInv, RegistryTypes, ChannelTypes
<1>2. CASE BeginStep
    <2> DEFINE f == {current[p] : p \in Providers} \ {None}
    <2>1. /\ UNCHANGED <<vars, client_vars, offered, lane, binding, last_sequence,
                         exhausted, via, published, foreign, current, runtime>>
          /\ Refused /\ kernel.pc = "idle"
          /\ kernel' = [kernel EXCEPT !.pc = "flush", !.flush = f]
        BY <1>2 DEF BeginStep, Outside, registry_vars, Refused, Phase
    <2>2. f \subseteq Bindings
        BY <1>1, Bounds
    <2>. HIDE DEF f
    <2>3. kernel' \in KernelState /\ kernel'.pc = "flush" /\ Cargo' = Cargo
        BY <1>1, <2>1, <2>2 DEF KernelState, Cargo, Phases
    <2>4. PhaseInv'
        BY <1>1, <2>1, <2>3, PhaseFrame
    <2>5. RuntimeTypes'
        BY <1>1, <2>1 DEF RuntimeTypes, Bound, RuntimeOK
    <2>. QED  BY <1>1, <2>1, <2>3, <2>4, <2>5, RuntimeBase
<1>3. ASSUME NEW b \in Bindings, FlushBinding(b) PROVE BaseInv'
    <2>1. /\ UNCHANGED <<vars, client_vars, offered, lane, binding, last_sequence,
                         exhausted, via, published, foreign, current>>
          /\ kernel' = [kernel EXCEPT !.flush = @ \ {b}]
          /\ IF runtime[b].life = "ClosingRetry" THEN request_close(b, Emptied(runtime[b]))
             ELSE Refused /\ runtime' = runtime
        BY <1>3 DEF FlushBinding, Refused
    <2>2. kernel' \in KernelState /\ kernel'.pc = kernel.pc /\ Cargo' = Cargo
        BY <1>1, <2>1 DEF KernelState, Cargo
    <2>3. PhaseInv'
        BY <1>1, <2>1, <2>2, PhaseFrame
    <2>4. CASE runtime[b].life = "ClosingRetry"
        <3>1. Bound(b) /\ request_close(b, Emptied(runtime[b]))
            BY <2>1, <2>4 DEF Bound
        <3>2. PICK s : Closes(b, s)
            BY <1>1, <3>1, CloseActions
        <3>3. RuntimeOK(s) /\ runtime' = [runtime EXCEPT ![b] = s]
            BY <3>2 DEF Closes, Shrinks
        <3>4. Refused \/ SendsNext(DetachItem(b))
            BY <1>1, <3>1, <3>2, ClosesSends
        <3>5. RuntimeTypes'
            BY <1>1, <2>1, <3>3, OneRuntime
        <3>. QED  BY <1>1, <2>1, <2>2, <2>3, <3>4, <3>5, RuntimeBase
    <2>5. CASE runtime[b].life # "ClosingRetry"
        <3>1. RuntimeTypes'
            BY <1>1, <2>1, <2>5 DEF RuntimeTypes, Bound, RuntimeOK
        <3>. QED  BY <1>1, <2>1, <2>2, <2>3, <2>5, <3>1, RuntimeBase
    <2>. QED  BY <2>4, <2>5
<1>. QED  BY <1>2, <1>3

\* An item of the authority, and the outcome of one.
LEMMA AuthorityItem ==
    ASSUME ChannelTypes, NEW z \in Channel, OfAuthority(z)
    PROVE  z.sequence \in 1 .. MaxAuthority
<1>1. z \in Item
    BY ChannelItems
<1>2. z \in CloseItem \cup ApproveItem
    BY <1>1 DEF Item, RequestItem, BindItem, ObserveItem, ControlItem, OfAuthority, AuthorityKinds
<1>. QED  BY <1>2 DEF CloseItem, ApproveItem

\* What the outcome of an authority command holds.
LEMMA AuthorityRecord ==
    ASSUME ChannelTypes, NEW o \in AuthorityOutcomes
    PROVE  o \in AuthorityOutcomeRecord /\ o.sequence \in 1 .. MaxAuthority
<1>1. kernel.authority \in Seq(AuthorityOutcomeRecord)
    BY DEF ChannelTypes, KernelState
<1>2. o \in AuthorityOutcomeRecord
    BY <1>1 DEF AuthorityOutcomes, Elements
<1>. QED  BY <1>2 DEF AuthorityOutcomeRecord

\* A client whose close is remembered waits for its outcome.
LEMMA ClosingSent ==
    ASSUME ClientsInv
    PROVE  \A y \in closing : lifecycle[y.client].state = "ClosingSent"
<1>1. ASSUME NEW y \in closing PROVE lifecycle[y.client].state = "ClosingSent"
    <2>1. lifecycle[y.client] = [state |-> "ClosingSent", sequence |-> y.sequence]
        BY DEF ClientsInv, ClosesRemembered
    <2>. QED  BY <2>1
<1>. QED  BY <1>1

\* A client or the authority sends x.
LEMMA ClientSends ==
    ASSUME BaseInv, UNCHANGED kernel, NEW x \in Item, Send(x), ~OfProvider(x),
           UNCHANGED <<next_sequence, sequence_exhausted>>,
           \A z \in Channel : InOrder(z, x)
    PROVE  ChannelTypes' /\ Channel' = Channel \cup {x} /\ ChannelInOrder' /\ ItemsIssued'
<1>1. ChannelTypes /\ ChannelInOrder /\ ItemsIssued
    BY DEF BaseInv, TypesInv, ClientsInv
<1>2. Sends(x) /\ ingress' \in Seq(Item) /\ Len(ingress') <= IngressCapacity
    BY <1>1, SendForm
<1>3. Channel' = Channel \cup {x} /\ ChannelInOrder'
    BY <1>1, <1>2, SendsChannel
<1>. QED  BY <1>1, <1>2, <1>3 DEF ChannelTypes, ItemsIssued, Issued, OfProvider

\* Nothing is sent.
LEMMA ClientKeeps ==
    ASSUME BaseInv, UNCHANGED <<kernel, ingress, next_sequence, sequence_exhausted>>
    PROVE  ChannelTypes' /\ Channel' = Channel /\ ChannelInOrder' /\ ItemsIssued'
<1>1. ChannelTypes /\ ChannelInOrder /\ ItemsIssued
    BY DEF BaseInv, TypesInv, ClientsInv
<1>2. Channel' = Channel /\ ChannelInOrder'
    BY <1>1, KeepForm, KeepsChannel
<1>. QED  BY <1>1, <1>2 DEF ChannelTypes, ItemsIssued, Issued, OfProvider

\* A step of a client keeps what it does not touch; nobody is disconnected.
LEMMA ClientBase ==
    ASSUME BaseInv, UNCHANGED <<vars, kernel_vars, registry_vars, runtime, published, offered>>,
           ChannelTypes', ItemsIssued', ClientTypes', ClientsInv',
           \A c \in Clients : lifecycle'[c].state = "Closed" => lifecycle[c].state = "Closed"
    PROVE  BaseInv'
<1>1. /\ ChannelTypes /\ RegistryTypes /\ RuntimeTypes /\ EngineInv /\ PhaseInv /\ OffersInv
      /\ ReducedIsQuiet
    BY DEF BaseInv, TypesInv, ClientsInv
<1>2. UNCHANGED vars /\ lane' = lane /\ kernel' = kernel
    BY DEF kernel_vars
<1>3. EngineInv'
    BY <1>1, <1>2, EngineFrame
<1>4. PhaseInv'
    BY <1>1, <1>2, KernelStays
<1>5. RegistryTypes' /\ RuntimeTypes'
    BY <1>1 DEF kernel_vars, registry_vars, RegistryTypes, RuntimeTypes, Bound, RuntimeOK
<1>6. OffersInv'
    <2>1. UNCHANGED <<requests, completions, dropped, offered, kernel>>
        BY <1>2 DEF vars, request_vars
    <2>2. \A x \in completions \cup kernel.completions : x.key.client \in Clients
        BY <1>1, EngineTypes DEF ChannelTypes, KernelState, CompletionEnvelope, Keys
    <2>. QED  BY <1>1, <2>1, <2>2 DEF OffersInv, Stored, Active
<1>. QED  BY <1>3, <1>4, <1>5, <1>6 DEF BaseInv, TypesInv

\* Every step of a client or of the authority keeps the clients' part.
LEMMA DispatchBase ==
    ASSUME BaseInv, NEW k \in Keys, NEW pk \in PolicyKeys, NEW d \in Deadlines,
           Dispatch(k, pk, d)
    PROVE  BaseInv'
<1> DEFINE x == [kind |-> "Request", key |-> k, policy |-> pk, deadline |-> d,
                 binding |-> published[pk.provider]]
           c == k.client
<1>1. /\ UNCHANGED <<vars, kernel_vars, registry_vars, runtime, published, offered>>
      /\ UNCHANGED <<ingress, lifecycle, closing, next_authority_sequence, kernel, next_sequence,
                     sequence_exhausted>>
      /\ lifecycle[c].state = "Active" /\ pk.client = c
      /\ published[pk.provider] # None
      /\ sending' = [sending EXCEPT ![c] = x]
    BY DEF Dispatch, kernel_vars, registry_vars
<1>2. ClientTypes /\ ClientsInv /\ published \in [Providers -> 0 .. MaxSequence]
    BY DEF BaseInv, TypesInv, RegistryTypes
<1>3. pk.provider \in Providers /\ c \in Clients
    BY DEF PolicyKeys, Keys
<1>4. x \in RequestItem
    BY <1>1, <1>2, <1>3, Bounds DEF RequestItem
<1>5. x.key.client = c
    OBVIOUS
<1>. HIDE DEF x
<1>6. ClientTypes'
    BY <1>1, <1>2, <1>3, <1>4 DEF ClientTypes
<1>7. ChannelTypes' /\ Channel' = Channel /\ ChannelInOrder' /\ ItemsIssued'
    BY <1>1, ClientKeeps
<1>8. SendersActive'
    BY <1>1, <1>2, <1>3, <1>5 DEF ClientsInv, SendersActive, ClientTypes
<1>9. requests' = requests /\ AuthorityOutcomes' = AuthorityOutcomes
    BY <1>1 DEF vars, request_vars, AuthorityOutcomes
<1>10. AuthorityInOrder' /\ ClosesRemembered' /\ ReducedIsQuiet'
    BY <1>1, <1>2, <1>7, <1>9 DEF ClientsInv, AuthorityInOrder, ClosesRemembered, ReducedIsQuiet,
       CloseReduced, Active, OfAuthority
<1>11. ClientsInv'
    BY <1>7, <1>8, <1>10 DEF ClientsInv
<1>. QED  BY <1>1, <1>6, <1>7, <1>11, ClientBase

\* A client sends its request, or finds the channel full.
LEMMA DispatchSendBase ==
    ASSUME BaseInv, NEW c \in Clients, DispatchSend(c)
    PROVE  BaseInv'
<1> DEFINE x == sending[c]
<1>1. /\ UNCHANGED <<vars, kernel_vars, registry_vars, runtime, published, offered>>
      /\ UNCHANGED <<lifecycle, closing, next_authority_sequence, kernel, next_sequence,
                     sequence_exhausted>>
      /\ x # NotSending
      /\ sending' = [sending EXCEPT ![c] = NotSending]
      /\ Send(x) \/ UNCHANGED ingress
    BY DEF DispatchSend, kernel_vars, registry_vars
<1>2. ClientTypes /\ ClientsInv
    BY DEF BaseInv, TypesInv
<1>3. x \in RequestItem /\ x.kind = "Request" /\ x.key.client = c /\ lifecycle[c].state = "Active"
    BY <1>1, <1>2 DEF ClientTypes, ClientsInv, SendersActive, RequestItem
<1>4. x \in Item /\ ~OfProvider(x) /\ ~OfAuthority(x)
    BY <1>3 DEF Item, OfProvider, ProviderKinds, OfAuthority, AuthorityKinds
<1>5. \A y \in closing : y.client # c
    BY <1>2, <1>3, ClosingSent
<1>6. ASSUME NEW z \in Channel, z.kind = "CloseClient" PROVE z.client # c
    <2>1. [sequence |-> z.sequence, client |-> z.client] \in closing
        BY <1>2, <1>6 DEF ClientsInv, ClosesRemembered
    <2>. QED  BY <1>5, <2>1
<1>7. \A z \in Channel : InOrder(z, x)
    BY <1>3, <1>4, <1>6 DEF InOrder
<1>8. /\ ChannelTypes' /\ ChannelInOrder' /\ ItemsIssued'
      /\ \A z \in Channel' : z \in Channel \/ z = x
    <2>1. CASE Send(x)
        BY <1>1, <1>4, <1>7, <2>1, ClientSends
    <2>2. CASE UNCHANGED ingress
        BY <1>1, <2>2, ClientKeeps
    <2>. QED  BY <1>1, <2>1, <2>2
<1>9. ClientTypes' /\ SendersActive'
    BY <1>1, <1>2 DEF ClientTypes, ClientsInv, SendersActive
<1>10. requests' = requests /\ AuthorityOutcomes' = AuthorityOutcomes
    BY <1>1 DEF vars, request_vars, AuthorityOutcomes
<1>11. AuthorityInOrder' /\ ClosesRemembered'
    BY <1>1, <1>2, <1>3, <1>4, <1>8, <1>10
       DEF ClientsInv, AuthorityInOrder, ClosesRemembered, OfAuthority
<1>12. \A a \in Clients : CloseReduced(a)' => CloseReduced(a) /\ a # c
    BY <1>1, <1>3, <1>5, <1>10 DEF CloseReduced
<1>13. ReducedIsQuiet'
    BY <1>1, <1>2, <1>3, <1>8, <1>10, <1>12 DEF ClientsInv, ReducedIsQuiet, Active
<1>14. ClientsInv'
    BY <1>8, <1>9, <1>11, <1>13 DEF ClientsInv
<1>. QED  BY <1>1, <1>8, <1>9, <1>14, ClientBase

\* A client closes, or finds the channel full.
LEMMA CloseClientBase ==
    ASSUME BaseInv, NEW c \in Clients, CloseClient(c)
    PROVE  BaseInv'
<1> DEFINE n == next_authority_sequence
           x == [kind |-> "CloseClient", sequence |-> n, client |-> c]
           y == [sequence |-> n, client |-> c]
<1>1. /\ UNCHANGED <<vars, kernel_vars, registry_vars, runtime, published, offered>>
      /\ UNCHANGED <<sending, kernel, next_sequence, sequence_exhausted>>
      /\ lifecycle[c].state \in {"Active", "ClosingRetry"}
      /\ sending[c] = NotSending
      /\ n < MaxAuthority
    BY DEF CloseClient, kernel_vars, registry_vars, Unlocked
<1>2. ClientTypes /\ ClientsInv
    BY DEF BaseInv, TypesInv
<1>3. n \in 1 .. MaxAuthority /\ lifecycle \in [Clients -> Lifecycle]
    BY <1>2 DEF ClientTypes
<1>4. \A a \in closing : a.client # c /\ a.sequence < n
    BY <1>1, <1>2, ClosingSent DEF ClientsInv, ClosesRemembered
<1>5. requests' = requests /\ AuthorityOutcomes' = AuthorityOutcomes
    BY <1>1 DEF vars, request_vars, AuthorityOutcomes
<1>6. c \notin kernel.closed
    BY <1>1, <1>2 DEF ClientsInv, ReducedIsQuiet
<1>7. CASE /\ Send(x) /\ n' = n + 1 /\ closing' = closing \cup {y}
           /\ lifecycle' = [lifecycle EXCEPT ![c] = [state |-> "ClosingSent", sequence |-> n]]
    <2>1. x \in Item /\ ~OfProvider(x) /\ OfAuthority(x) /\ x.kind = "CloseClient"
            /\ x.sequence = n /\ x.client = c
        BY <1>3 DEF Item, CloseItem, OfProvider, ProviderKinds, OfAuthority, AuthorityKinds
    <2>2. y.sequence = n /\ y.client = c /\ y \in [sequence : 1 .. MaxAuthority, client : Clients]
            /\ y = [sequence |-> x.sequence, client |-> x.client]
        BY <1>3
    <2>. HIDE DEF x, y
    <2>3. \A z \in Channel : InOrder(z, x)
        BY <1>2, <2>1 DEF ClientsInv, AuthorityInOrder, InOrder
    <2>4. ChannelTypes' /\ Channel' = Channel \cup {x} /\ ChannelInOrder' /\ ItemsIssued'
        BY <1>1, <1>7, <2>1, <2>3, ClientSends
    <2>5. /\ lifecycle'[c] = [state |-> "ClosingSent", sequence |-> n]
          /\ \A a \in Clients \ {c} : lifecycle'[a] = lifecycle[a]
          /\ n' \in 1 .. MaxAuthority /\ n < n'
        BY <1>1, <1>3, <1>7, BoundsAssumption
    <2>6. ClientTypes'
        BY <1>1, <1>2, <1>3, <1>7, <2>2, <2>5 DEF ClientTypes, Lifecycle
    <2>7. SendersActive'
        BY <1>1, <1>2, <2>5 DEF ClientsInv, SendersActive
    <2>8. AuthorityInOrder'
        <3>1. ASSUME NEW z \in Channel', OfAuthority(z) PROVE z.sequence < n'
            BY <1>2, <1>3, <2>1, <2>4, <2>5, <3>1, AuthorityItem
               DEF BaseInv, TypesInv, ClientsInv, AuthorityInOrder
        <3>2. ASSUME NEW o \in AuthorityOutcomes
              PROVE  o.sequence < n' /\ \A z \in Channel' : OfAuthority(z) => o.sequence < z.sequence
            BY <1>2, <1>3, <2>1, <2>4, <2>5, AuthorityRecord
               DEF BaseInv, TypesInv, ClientsInv, AuthorityInOrder
        <3>. QED  BY <1>5, <3>1, <3>2 DEF AuthorityInOrder, OfAuthority
    <2>9. ClosesRemembered'
        <3>1. ASSUME NEW a \in closing'
              PROVE  /\ lifecycle'[a.client] = [state |-> "ClosingSent", sequence |-> a.sequence]
                     /\ a.sequence < n'
                     /\ \A g \in closing' : g.sequence = a.sequence => g = a
            <4>1. CASE a = y
                BY <1>3, <1>4, <1>7, <2>2, <2>5, <4>1
            <4>2. CASE a \in closing
                <5>1. a.client \in Clients \ {c} /\ a.sequence \in 1 .. MaxAuthority
                    BY <1>2, <1>4, <4>2 DEF ClientTypes
                <5>2. \A g \in closing' : g.sequence = a.sequence => g = a
                    <6>1. \A g \in closing : g.sequence = a.sequence => g = a
                        BY <1>2, <4>2 DEF ClientsInv, ClosesRemembered
                    <6>2. y.sequence # a.sequence
                        BY <1>3, <1>4, <2>2, <4>2, <5>1
                    <6>. QED  BY <1>7, <6>1, <6>2
                <5>. QED  BY <1>2, <1>3, <1>4, <2>5, <4>2, <5>1, <5>2
                             DEF ClientsInv, ClosesRemembered
            <4>. QED  BY <1>7, <4>1, <4>2
        <3>2. ASSUME NEW z \in Channel'
              PROVE  /\ z.kind = "CloseClient" => [sequence |-> z.sequence, client |-> z.client] \in closing'
                     /\ z.kind = "Approve" => \A a \in closing' : a.sequence # z.sequence
            <4>1. CASE z = x
                BY <1>7, <2>1, <2>2, <4>1
            <4>2. CASE z \in Channel
                <5>1. z.kind = "Approve" => z.sequence < n /\ z.sequence \in 1 .. MaxAuthority
                    BY <1>2, <4>2, AuthorityItem
                       DEF BaseInv, TypesInv, ClientsInv, AuthorityInOrder, OfAuthority, AuthorityKinds
                <5>. QED  BY <1>2, <1>3, <1>7, <2>2, <4>2, <5>1 DEF ClientsInv, ClosesRemembered
            <4>. QED  BY <2>4, <4>1, <4>2
        <3>. QED  BY <3>1, <3>2 DEF ClosesRemembered
    <2>10. ASSUME NEW a \in Clients, CloseReduced(a)' PROVE CloseReduced(a) /\ a # c
        <3>1. CASE lifecycle'[a].state \in {"CloseSucceeded", "Closed"}
            BY <1>1, <2>5, <3>1 DEF CloseReduced
        <3>2. CASE \E o \in AuthorityOutcomes, g \in closing' :
                      o.closed /\ g.sequence = o.sequence /\ g.client = a
            <4>1. PICK o \in AuthorityOutcomes, g \in closing' :
                      o.closed /\ g.sequence = o.sequence /\ g.client = a
                BY <3>2
            <4>2. o.sequence < n /\ o.sequence \in 1 .. MaxAuthority
                BY <1>2, AuthorityRecord DEF BaseInv, TypesInv, ClientsInv, AuthorityInOrder
            <4>3. g \in closing
                BY <1>3, <1>7, <2>2, <4>1, <4>2
            <4>. QED  BY <1>4, <4>1, <4>3 DEF CloseReduced
        <3>. QED  BY <1>5, <2>10, <3>1, <3>2 DEF CloseReduced
    <2>11. ReducedIsQuiet'
        <3>1. \A a \in Clients : CloseReduced(a)' =>
                 /\ \A z \in Channel' : z.kind = "Request" => z.key.client # a
                 /\ \A k \in Keys : k.client = a => ~Active(k)
            BY <1>2, <2>1, <2>4, <2>10 DEF ClientsInv, ReducedIsQuiet
        <3>2. \A a \in kernel.closed : a \in Clients /\ a # c
            BY <1>6 DEF BaseInv, TypesInv, ChannelTypes, KernelState
        <3>. QED  BY <1>1, <1>2, <1>5, <2>5, <3>1, <3>2 DEF ClientsInv, ReducedIsQuiet, Active
    <2>12. ClientsInv'
        BY <2>4, <2>7, <2>8, <2>9, <2>11 DEF ClientsInv
    <2>13. \A a \in Clients : lifecycle'[a].state = "Closed" => lifecycle[a].state = "Closed"
        BY <2>5
    <2>. QED  BY <1>1, <2>4, <2>6, <2>12, <2>13, ClientBase
<1>8. CASE /\ UNCHANGED <<ingress, next_authority_sequence, closing>>
           /\ lifecycle' = [lifecycle EXCEPT ![c] = [state |-> "ClosingRetry", sequence |-> 0]]
    <2>1. /\ lifecycle'[c] = [state |-> "ClosingRetry", sequence |-> 0]
          /\ \A a \in Clients \ {c} : lifecycle'[a] = lifecycle[a]
        BY <1>3, <1>8
    <2>2. ClientTypes'
        BY <1>1, <1>2, <1>3, <1>8, <2>1, BoundsAssumption DEF ClientTypes, Lifecycle
    <2>3. ChannelTypes' /\ Channel' = Channel /\ ChannelInOrder' /\ ItemsIssued'
        BY <1>1, <1>8, ClientKeeps
    <2>4. SendersActive' /\ AuthorityInOrder'
        BY <1>1, <1>2, <1>5, <1>8, <2>1, <2>3
           DEF ClientsInv, SendersActive, AuthorityInOrder, OfAuthority
    <2>5. \A a \in closing : a.client \in Clients \ {c}
        BY <1>2, <1>4 DEF ClientTypes
    <2>6. ClosesRemembered'
        BY <1>2, <1>8, <2>1, <2>3, <2>5 DEF ClientsInv, ClosesRemembered
    <2>7. \A a \in Clients : CloseReduced(a)' => CloseReduced(a)
        BY <1>5, <1>8, <2>1 DEF CloseReduced
    <2>8. \A a \in kernel.closed : a \in Clients /\ a # c
        BY <1>6 DEF BaseInv, TypesInv, ChannelTypes, KernelState
    <2>9. ReducedIsQuiet'
        BY <1>1, <1>2, <1>5, <2>1, <2>3, <2>7, <2>8 DEF ClientsInv, ReducedIsQuiet, Active
    <2>10. ClientsInv'
        BY <2>3, <2>4, <2>6, <2>9 DEF ClientsInv
    <2>11. \A a \in Clients : lifecycle'[a].state = "Closed" => lifecycle[a].state = "Closed"
        BY <2>1
    <2>. QED  BY <1>1, <2>2, <2>3, <2>10, <2>11, ClientBase
<1>. QED  BY <1>7, <1>8 DEF CloseClient

AuthoritySends(x) ==
    LET n == next_authority_sequence
    IN  /\ UNCHANGED <<vars, kernel_vars, registry_vars, runtime, published, offered>>
        /\ UNCHANGED <<lifecycle, sending, closing, kernel, next_sequence, sequence_exhausted>>
        /\ Send(x)
        /\ \/ x.kind = "Approve" /\ x.sequence = n /\ n' = n + 1 /\ n < MaxAuthority
           \/ x.kind = "Control" /\ n' = n

\* An approval or a control command enters the channel.
LEMMA DispatchAuthorityBase ==
    ASSUME BaseInv, \/ \E k \in Keys, m \in Sequences : DispatchApproval(k, m)
                    \/ \E i \in Instances : DispatchControl(i)
    PROVE  BaseInv'
<1> DEFINE n == next_authority_sequence
<1>1. PICK x \in Item : AuthoritySends(x)
    <2>1. ASSUME NEW k \in Keys, NEW m \in Sequences, DispatchApproval(k, m) PROVE \E x \in Item : AuthoritySends(x)
        <3> DEFINE z == [kind |-> "Approve", sequence |-> n, key |-> k, nonce |-> m]
        <3>1. z \in Item /\ z.kind = "Approve" /\ z.sequence = n
            BY DEF BaseInv, TypesInv, ClientTypes, Item, ApproveItem
        <3>. HIDE DEF z
        <3>2. Send(z)
            BY <2>1 DEF DispatchApproval, z
        <3>. QED  BY <2>1, <3>1, <3>2
                     DEF DispatchApproval, kernel_vars, registry_vars, AuthoritySends
    <2>2. ASSUME NEW i \in Instances, DispatchControl(i) PROVE \E x \in Item : AuthoritySends(x)
        <3> DEFINE z == [kind |-> "Control", instance |-> i]
        <3>1. z \in Item /\ z.kind = "Control"
            BY DEF Item, ControlItem
        <3>. HIDE DEF z
        <3>2. Send(z)
            BY <2>2 DEF DispatchControl, z
        <3>. QED  BY <2>2, <3>1, <3>2
                     DEF DispatchControl, kernel_vars, registry_vars, client_vars, AuthoritySends
    <2>. QED  BY <2>1, <2>2
<1>2. ClientTypes /\ ClientsInv /\ n \in 1 .. MaxAuthority
    BY DEF BaseInv, TypesInv, ClientTypes
<1>3. ~OfProvider(x) /\ x.kind # "Request" /\ x.kind # "CloseClient"
        /\ (OfAuthority(x) => x.sequence = n /\ n' = n + 1 /\ x.kind = "Approve")
    BY <1>1 DEF AuthoritySends, OfProvider, ProviderKinds, OfAuthority, AuthorityKinds
<1>4. \A z \in Channel : InOrder(z, x)
    BY <1>2, <1>3 DEF ClientsInv, AuthorityInOrder, InOrder
<1>5. ChannelTypes' /\ Channel' = Channel \cup {x} /\ ChannelInOrder' /\ ItemsIssued'
    BY <1>1, <1>3, <1>4, ClientSends DEF AuthoritySends
<1>6. requests' = requests /\ AuthorityOutcomes' = AuthorityOutcomes
    BY <1>1 DEF AuthoritySends, vars, request_vars, AuthorityOutcomes
<1>7. n' \in 1 .. MaxAuthority /\ n <= n' /\ (OfAuthority(x) => n < n')
    BY <1>1, <1>2, <1>3, BoundsAssumption DEF AuthoritySends
<1>8. ClientTypes'
    BY <1>1, <1>2, <1>7 DEF AuthoritySends, ClientTypes
<1>9. AuthorityInOrder'
    <2>1. ASSUME NEW z \in Channel', OfAuthority(z) PROVE z.sequence < n'
        BY <1>2, <1>3, <1>5, <1>7, <2>1, AuthorityItem
           DEF BaseInv, TypesInv, ClientsInv, AuthorityInOrder
    <2>2. ASSUME NEW o \in AuthorityOutcomes
          PROVE  o.sequence < n' /\ \A z \in Channel' : OfAuthority(z) => o.sequence < z.sequence
        BY <1>2, <1>3, <1>5, <1>7, AuthorityRecord
           DEF BaseInv, TypesInv, ClientsInv, AuthorityInOrder
    <2>. QED  BY <1>6, <2>1, <2>2 DEF AuthorityInOrder, OfAuthority
<1>10. ClosesRemembered'
    <2>1. \A a \in closing : a.sequence < n /\ a.sequence \in 1 .. MaxAuthority
        BY <1>2 DEF ClientsInv, ClosesRemembered, ClientTypes
    <2>2. \A a \in closing : a.sequence < n'
        BY <1>2, <1>7, <2>1
    <2>3. x.kind = "Approve" => \A a \in closing : a.sequence # x.sequence
        BY <1>1, <1>2, <2>1 DEF AuthoritySends
    <2>. QED  BY <1>1, <1>2, <1>3, <1>5, <2>2, <2>3 DEF AuthoritySends, ClientsInv, ClosesRemembered
<1>11. SendersActive' /\ ReducedIsQuiet'
    BY <1>1, <1>2, <1>3, <1>5, <1>6
       DEF AuthoritySends, ClientsInv, SendersActive, ReducedIsQuiet, CloseReduced, Active
<1>12. ClientsInv'
    BY <1>5, <1>9, <1>10, <1>11 DEF ClientsInv
<1>. QED  BY <1>1, <1>5, <1>8, <1>12, ClientBase DEF AuthoritySends

-----------------------------------------------------------------------------
(* The clients' part of the invariant, under steps of the kernel. *)

\* No request opens for a client whose close was reduced.
NoneReopened ==
    \A k \in Keys : requests'[k].status \in ActiveStatuses => Active(k) \/ ~CloseReduced(k.client)

\* The kernel takes h; the outcome of a close says that the client is quiet.
LEMMA ClientsTake ==
    ASSUME ClientsInv, ChannelTypes, ClientTypes, UNCHANGED client_vars,
           NEW h, Takes(h), kernel'.closed = kernel.closed, NoneReopened,
           \A o \in AuthorityOutcomes' : o \in AuthorityOutcomes \/
              (/\ OfAuthority(h) /\ o.sequence = h.sequence
               /\ o.closed => h.kind = "CloseClient" /\
                     \A k \in Keys : k.client = h.client => requests'[k].status \notin ActiveStatuses)
    PROVE  ClientsInv'
<1>. USE DEF client_vars
<1>1. /\ h \in Channel /\ Channel = {h} \cup Channel' /\ ChannelInOrder'
      /\ \A z \in Channel' : InOrder(h, z)
    BY TakesChannel DEF ClientsInv
<1>2. AuthorityInOrder'
    BY <1>1 DEF ClientsInv, AuthorityInOrder, OfAuthority, InOrder
<1>3. ClosesRemembered'
    BY <1>1 DEF ClientsInv, ClosesRemembered
<1>4. SendersActive'
    BY DEF ClientsInv, SendersActive
<1>5. ASSUME NEW c \in Clients, CloseReduced(c)'
      PROVE  \/ CloseReduced(c)
             \/ /\ h.kind = "CloseClient" /\ h.client = c
                /\ \A k \in Keys : k.client = c => requests'[k].status \notin ActiveStatuses
    <2>1. CASE lifecycle'[c].state \in {"CloseSucceeded", "Closed"}
        BY <2>1 DEF CloseReduced
    <2>2. CASE lifecycle'[c].state \notin {"CloseSucceeded", "Closed"}
        <3>1. PICK o \in AuthorityOutcomes', x \in closing :
                  o.closed /\ x.sequence = o.sequence /\ x.client = c
            BY <1>5, <2>2 DEF CloseReduced
        <3>2. CASE o \in AuthorityOutcomes
            BY <3>1, <3>2 DEF CloseReduced
        <3>3. CASE o \notin AuthorityOutcomes
            <4>1. /\ h.kind = "CloseClient" /\ x.sequence = h.sequence
                  /\ \A k \in Keys : k.client = h.client => requests'[k].status \notin ActiveStatuses
                BY <3>1, <3>3
            <4>2. [sequence |-> h.sequence, client |-> h.client] \in closing
                BY <1>1, <4>1 DEF ClientsInv, ClosesRemembered
            <4>3. x = [sequence |-> h.sequence, client |-> h.client]
                BY <4>1, <4>2 DEF ClientsInv, ClosesRemembered
            <4>. QED  BY <3>1, <4>1, <4>3
        <3>. QED  BY <3>2, <3>3
    <2>. QED  BY <2>1, <2>2
<1>6. ReducedIsQuiet'
    <2>1. ASSUME NEW c \in Clients, CloseReduced(c)'
          PROVE  /\ \A z \in Channel' : z.kind = "Request" => z.key.client # c
                 /\ \A k \in Keys : k.client = c => requests'[k].status \notin ActiveStatuses
        <3>1. CASE CloseReduced(c)
            BY <1>1, <3>1 DEF ClientsInv, ReducedIsQuiet, NoneReopened
        <3>2. CASE ~CloseReduced(c)
            BY <1>1, <1>5, <2>1, <3>2 DEF InOrder
        <3>. QED  BY <3>1, <3>2
    <2>. QED  BY <2>1 DEF ClientsInv, ReducedIsQuiet, Active
<1>. QED  BY <1>1, <1>2, <1>3, <1>4, <1>6 DEF ClientsInv

\* None or one outcome.
AtMostOne(s, S) == s = <<>> \/ \E o \in S : s = <<o>>

\* One outcome is a sequence of at most one.
LEMMA SingleOutcome ==
    ASSUME NEW S
    PROVE  /\ AtMostOne(<<>>, S) /\ Elements(<<>>) = {}
           /\ \A o \in S : AtMostOne(<<o>>, S) /\ Elements(<<o>>) = {o}
BY DEF AtMostOne, Elements

\* Outcomes with at most one more.
LEMMA AppendedOutcomes ==
    ASSUME NEW S, NEW s \in Seq(S), NEW t, AtMostOne(t, S)
    PROVE  s \o t \in Seq(S) /\ Elements(s \o t) = Elements(s) \cup Elements(t)
<1>1. CASE t = <<>>
    BY <1>1, ConcatEmpty
<1>2. ASSUME NEW o \in S, t = <<o>> PROVE s \o t \in Seq(S) /\ Elements(s \o t) = Elements(s) \cup Elements(t)
    <2>1. Elements(<<o>>) = {o}
        BY DEF Elements
    <2>. QED  BY <1>2, <2>1, ConcatOne
<1>. QED  BY <1>1, <1>2 DEF AtMostOne

\* The kernel after an item of the batch is done.
LEMMA ReducedForm ==
    ASSUME ChannelTypes, kernel.batch # <<>>, ingress' = ingress, NEW P, NEW A, Reduced(P, A),
           AtMostOne(P, ProviderOutcomeRecord), AtMostOne(A, AuthorityOutcomeRecord)
    PROVE  /\ ChannelTypes' /\ Takes(Head(kernel.batch))
           /\ kernel'.pc = kernel.pc /\ kernel'.effects = kernel.effects
           /\ kernel'.completions = kernel.completions /\ kernel'.closed = kernel.closed
           /\ ProviderOutcomes' = ProviderOutcomes \cup Elements(P)
           /\ AuthorityOutcomes' = AuthorityOutcomes \cup Elements(A)
<1>1. /\ kernel \in KernelState /\ kernel.provider \in Seq(ProviderOutcomeRecord)
      /\ kernel.authority \in Seq(AuthorityOutcomeRecord)
      /\ kernel.batch \in Seq(Item)
    BY DEF ChannelTypes, KernelState
<1> DEFINE w == Tail(kernel.batch)
           u == kernel.provider \o P
           v == kernel.authority \o A
<1>2. w \in Seq(Item)
    BY <1>1, TailElements
<1>3. u \in Seq(ProviderOutcomeRecord) /\ Elements(u) = ProviderOutcomes \cup Elements(P)
    BY <1>1, AppendedOutcomes DEF ProviderOutcomes
<1>4. v \in Seq(AuthorityOutcomeRecord) /\ Elements(v) = AuthorityOutcomes \cup Elements(A)
    BY <1>1, AppendedOutcomes DEF AuthorityOutcomes
<1>5. kernel' = [kernel EXCEPT !.batch = w, !.provider = u, !.authority = v]
    BY <1>1 DEF Reduced, KernelState
<1>. HIDE DEF w, u, v
<1>6. kernel' \in KernelState
    BY <1>1, <1>2, <1>3, <1>4, <1>5 DEF KernelState
<1>7. /\ kernel'.batch = w /\ kernel'.provider = u /\ kernel'.authority = v
      /\ kernel'.pc = kernel.pc /\ kernel'.effects = kernel.effects
      /\ kernel'.completions = kernel.completions /\ kernel'.closed = kernel.closed
    BY <1>1, <1>5 DEF KernelState
<1>8. Takes(Head(kernel.batch))
    BY <1>7, TakeForm DEF w
<1>. QED  BY <1>3, <1>4, <1>6, <1>7, <1>8 DEF ChannelTypes, ProviderOutcomes, AuthorityOutcomes

\* One item of the batch is reduced or rejected.
LEMMA ReduceBase ==
    ASSUME BaseInv, kernel.pc \in {"reduce", "reject"}, kernel.batch # <<>>,
           UNCHANGED <<ingress, registry_vars, runtime, published, client_vars, offered>>,
           NEW P, NEW A, Reduced(P, A),
           AtMostOne(P, ProviderOutcomeRecord), AtMostOne(A, AuthorityOutcomeRecord),
           \A o \in Elements(A) :
               /\ OfAuthority(Head(kernel.batch)) /\ o.sequence = Head(kernel.batch).sequence
               /\ o.closed => Head(kernel.batch).kind = "CloseClient" /\
                     \A k \in Keys : k.client = Head(kernel.batch).client =>
                         requests'[k].status \notin ActiveStatuses,
           EngineInv', OffersInv', RegistryTypes', NoneReopened,
           kernel.pc = "reject" => UNCHANGED <<effects, completions, lane>>
    PROVE  BaseInv'
<1> DEFINE h == Head(kernel.batch)
<1>1. /\ ChannelTypes /\ PhaseInv /\ RuntimeTypes /\ ClientTypes /\ ItemsIssued /\ ClientsInv
    BY DEF BaseInv, TypesInv
<1>2. /\ ChannelTypes' /\ Takes(h)
      /\ kernel'.pc = kernel.pc /\ kernel'.effects = kernel.effects
      /\ kernel'.completions = kernel.completions /\ kernel'.closed = kernel.closed
      /\ AuthorityOutcomes' = AuthorityOutcomes \cup Elements(A)
    BY <1>1, ReducedForm
<1>. HIDE DEF h
<1>3. PhaseInv'
    BY <1>1, <1>2 DEF PhaseInv
<1>4. RuntimeTypes' /\ ClientTypes'
    BY <1>1 DEF registry_vars, client_vars, RuntimeTypes, ClientTypes, Bound, RuntimeOK
<1>5. ItemsIssued'
    BY <1>1, <1>2, TakesChannel DEF registry_vars, ItemsIssued, OfProvider, Issued
<1>6. ClientsInv'
    BY <1>1, <1>2, ClientsTake DEF h
<1>. QED  BY <1>2, <1>3, <1>4, <1>5, <1>6 DEF BaseInv, TypesInv

\* Nothing opens when nothing is settled or accepted.
LEMMA NoneOpenedAtAll ==
    ASSUME NoneOpened
    PROVE  NoneReopened
BY DEF NoneOpened, NoneReopened

\* The item that the kernel reduces next.
LEMMA NextItem ==
    ASSUME BaseInv, kernel.batch # <<>>
    PROVE  /\ Head(kernel.batch) \in Item
           /\ Head(kernel.batch) \in Channel
<1> DEFINE s == kernel.batch
<1>1. s \in Seq(Item) /\ ingress \in Seq(Item) /\ s # <<>>
    BY DEF BaseInv, TypesInv, ChannelTypes, KernelState
<1>. HIDE DEF s
<1>2. Head(s) \in Item /\ s \o ingress \in Seq(Item) /\ s \o ingress # <<>> /\ Head(s) = Head(s \o ingress)
    BY <1>1, ConcatTail, TailElements
<1>3. Head(s \o ingress) \in Elements(s \o ingress)
    BY <1>2, TailElements
<1>. QED  BY <1>2, <1>3 DEF Channel, InChannel, s

\* What the engine and the clients do in a reduction that opens nothing.
LEMMA SettlesReduce ==
    ASSUME BaseInv, EngineInv', NEW T, NEW sent, Settles(T, sent),
           kernel'.completions = kernel.completions, UNCHANGED <<client_vars, offered>>
    PROVE  OffersInv' /\ NoneReopened
BY SettlesOffers, NoneOpenedAtAll DEF BaseInv, ClientsInv, OffersStay, client_vars

\* A control command is reduced.
LEMMA ReduceControlBase ==
    ASSUME BaseInv, ReduceControl
    PROVE  BaseInv'
<1> DEFINE h == Head(kernel.batch)
<1>1. /\ kernel.pc = "reduce" /\ kernel.batch # <<>> /\ h.kind = "Control" /\ Reduced(<<>>, <<>>)
      /\ UNCHANGED <<ingress, registry_vars, runtime, published, client_vars, offered>>
      /\ UNCHANGED <<binding, last_sequence, exhausted, via>>
      /\ \/ lane /\ set_instance_inactive(h.instance, generations[h.instance]) /\ UNCHANGED lane
         \/ lane' \in {lane, FALSE} /\ UNCHANGED vars
    BY DEF ReduceControl, Reducing, Phase, Outside, NoEngine
<1>2. ChannelTypes /\ RegistryTypes /\ EngineInv
    BY DEF BaseInv, TypesInv
<1>3. h.instance \in Instances
    BY <1>1, NextItem
       DEF Item, RequestItem, CloseItem, ApproveItem, ControlItem, BindItem, ObserveItem
<1>4. EngineInv' /\ \E T, sent : Settles(T, sent)
    <2>1. CASE set_instance_inactive(h.instance, generations[h.instance])
        BY <1>2, <1>3, <2>1, InactiveForm
    <2>2. CASE UNCHANGED vars
        BY <1>2, <2>2, EngineIdle
    <2>. QED  BY <1>1, <2>1, <2>2
<1>5. RegistryTypes'
    BY <1>1, <1>2 DEF RegistryTypes, registry_vars
<1>6. AtMostOne(<<>>, ProviderOutcomeRecord) /\ AtMostOne(<<>>, AuthorityOutcomeRecord)
        /\ Elements(<<>>) = {}
    BY DEF AtMostOne, Elements
<1>7. kernel'.completions = kernel.completions
    BY <1>1, <1>2, <1>6, ReducedForm
<1>8. OffersInv' /\ NoneReopened
    BY <1>1, <1>4, <1>7, SettlesReduce
<1>. QED  BY <1>1, <1>4, <1>5, <1>6, <1>8, ReduceBase

\* A request is reduced: its client has not closed.
LEMMA ReduceRequestBase ==
    ASSUME BaseInv, ReduceRequest
    PROVE  BaseInv'
<1> DEFINE h == Head(kernel.batch)
<1>1. /\ kernel.pc = "reduce" /\ kernel.batch # <<>> /\ h.kind = "Request" /\ Reduced(<<>>, <<>>)
      /\ UNCHANGED <<ingress, registry_vars, runtime, published, client_vars, offered>>
      /\ UNCHANGED <<lane, binding, last_sequence, exhausted>>
      /\ \/ request(h.key, h.policy, h.deadline) /\ via' = [via EXCEPT ![h.key] = h.binding]
         \/ UNCHANGED <<vars, via>>
    BY DEF ReduceRequest, Reducing, Phase, Outside, NoEngine
<1>2. ChannelTypes /\ RegistryTypes /\ EngineInv /\ OffersInv
    BY DEF BaseInv, TypesInv
<1>3. h \in Channel /\ h \in RequestItem
    BY <1>1, NextItem
       DEF Item, RequestItem, CloseItem, ApproveItem, ControlItem, BindItem, ObserveItem
<1>4. /\ h.key \in Keys /\ h.policy \in PolicyKeys /\ h.deadline \in Ticks
      /\ h.policy.client = h.key.client /\ h.binding \in 0 .. MaxSequence
      /\ h.key.client \in Clients
    BY <1>3, EdgeAssumption, Bounds DEF RequestItem, Ticks, Keys
<1>5. ~CloseReduced(h.key.client)
    BY <1>1, <1>3, <1>4 DEF BaseInv, ClientsInv, ReducedIsQuiet
<1>6. AtMostOne(<<>>, ProviderOutcomeRecord) /\ AtMostOne(<<>>, AuthorityOutcomeRecord)
        /\ Elements(<<>>) = {}
    BY DEF AtMostOne, Elements
<1>7. kernel'.completions = kernel.completions
    BY <1>1, <1>2, <1>6, ReducedForm
<1>8. CASE UNCHANGED <<vars, via>>
    <2>1. EngineInv' /\ Settles({}, {})
        BY <1>2, <1>8, EngineIdle
    <2>2. OffersInv' /\ NoneReopened
        BY <1>1, <1>7, <2>1, SettlesReduce
    <2>3. RegistryTypes'
        BY <1>1, <1>2, <1>8 DEF RegistryTypes, registry_vars
    <2>. QED  BY <1>1, <1>6, <2>1, <2>2, <2>3, ReduceBase
<1>9. CASE request(h.key, h.policy, h.deadline) /\ via' = [via EXCEPT ![h.key] = h.binding]
    <2>1. PICK evicted : EngineInv' /\ Accepts(h.key, evicted)
        BY <1>2, <1>4, <1>9, AcceptForm
    <2>2. lifecycle[h.key.client].state # "Closed"
        BY <1>5 DEF CloseReduced
    <2>3. OffersInv'
        BY <1>1, <1>2, <1>7, <2>1, <2>2, AcceptsOffers DEF OffersStay, client_vars
    <2>4. NoneReopened
        <3>1. ASSUME NEW k \in Keys, k # h.key, requests'[k].status \in ActiveStatuses PROVE Active(k)
            <4>1. requests'[k] \in {requests[k], Vacant}
                BY <2>1, <3>1 DEF Accepts
            <4>2. Vacant.status \notin ActiveStatuses
                BY DEF Vacant, ActiveStatuses
            <4>. QED  BY <3>1, <4>1, <4>2 DEF Active
        <3>. QED  BY <1>5, <3>1 DEF NoneReopened
    <2>5. RegistryTypes'
        BY <1>1, <1>2, <1>4, <1>9 DEF RegistryTypes, registry_vars
    <2>. QED  BY <1>1, <1>6, <2>1, <2>3, <2>4, <2>5, ReduceBase
<1>. QED  BY <1>1, <1>8, <1>9

\* A close is reduced: nothing of its client stays open.
LEMMA ReduceCloseBase ==
    ASSUME BaseInv, ReduceClose
    PROVE  BaseInv'
<1> DEFINE h == Head(kernel.batch)
           o(closed) == [sequence |-> h.sequence, closed |-> closed]
<1>1. /\ kernel.pc = "reduce" /\ kernel.batch # <<>> /\ h.kind = "CloseClient"
      /\ UNCHANGED <<ingress, registry_vars, runtime, published, client_vars, offered>>
      /\ UNCHANGED <<lane, binding, last_sequence, exhausted, via>>
      /\ \/ close_client(h.sequence, h.client) /\ Reduced(<<>>, <<o(TRUE)>>)
         \/ UNCHANGED vars /\ Reduced(<<>>, <<o(FALSE)>>)
    BY DEF ReduceClose, Reducing, Phase, Outside, NoEngine, AuthorityOutcome
<1>2. ChannelTypes /\ RegistryTypes /\ EngineInv
    BY DEF BaseInv, TypesInv
<1>3. h.sequence \in 1 .. MaxAuthority /\ h.client \in Clients /\ OfAuthority(h)
    BY <1>1, NextItem
       DEF Item, RequestItem, CloseItem, ApproveItem, ControlItem, BindItem, ObserveItem,
       OfAuthority, AuthorityKinds
<1>4. RegistryTypes'
    BY <1>1, <1>2 DEF RegistryTypes, registry_vars
<1>5. ASSUME NEW c \in BOOLEAN
      PROVE  /\ AtMostOne(<<>>, ProviderOutcomeRecord) /\ AtMostOne(<<o(c)>>, AuthorityOutcomeRecord)
             /\ Elements(<<o(c)>>) = {o(c)} /\ o(c).sequence = h.sequence /\ o(c).closed = c
    BY <1>3 DEF AtMostOne, Elements, AuthorityOutcomeRecord
<1>. HIDE DEF o
<1>6. CASE close_client(h.sequence, h.client) /\ Reduced(<<>>, <<o(TRUE)>>)
    <2>1. PICK sent : EngineInv' /\ Settles({k \in Keys : Active(k) /\ k.client = h.client}, sent)
        BY <1>2, <1>3, <1>6, CloseForm
    <2>2. kernel'.completions = kernel.completions
        BY <1>1, <1>2, <1>5, <1>6, ReducedForm
    <2>3. OffersInv' /\ NoneReopened
        BY <1>1, <2>1, <2>2, SettlesReduce
    <2>4. ASSUME NEW k \in Keys, k.client = h.client PROVE requests'[k].status \notin ActiveStatuses
        <3>1. CASE Active(k)
            <4>1. requests'[k].status \in TerminalStatuses
                BY <2>1, <2>4, <3>1 DEF Settles
            <4>. QED  BY <4>1 DEF ActiveStatuses, TerminalStatuses, ClosedStatuses
        <3>2. CASE ~Active(k)
            BY <2>1, <2>4, <3>2 DEF Settles, Active
        <3>. QED  BY <3>1, <3>2
    <2>5. \A a \in Elements(<<o(TRUE)>>) : a.sequence = h.sequence
        BY <1>5
    <2>. QED  BY <1>1, <1>3, <1>4, <1>5, <1>6, <2>1, <2>3, <2>4, <2>5, ReduceBase
<1>7. CASE UNCHANGED vars /\ Reduced(<<>>, <<o(FALSE)>>)
    <2>1. EngineInv' /\ Settles({}, {})
        BY <1>2, <1>7, EngineIdle
    <2>2. kernel'.completions = kernel.completions
        BY <1>1, <1>2, <1>5, <1>7, ReducedForm
    <2>3. OffersInv' /\ NoneReopened
        BY <1>1, <2>1, <2>2, SettlesReduce
    <2>4. \A a \in Elements(<<o(FALSE)>>) : a.sequence = h.sequence /\ ~a.closed
        BY <1>5
    <2>. QED  BY <1>1, <1>3, <1>4, <1>5, <1>7, <2>1, <2>3, <2>4, ReduceBase
<1>. QED  BY <1>1, <1>6, <1>7

\* An approval is reduced.
LEMMA ReduceApprovalBase ==
    ASSUME BaseInv, ReduceApproval
    PROVE  BaseInv'
<1> DEFINE h == Head(kernel.batch)
           q == requests[h.key]
           o == [sequence |-> h.sequence, closed |-> FALSE]
<1>1. /\ kernel.pc = "reduce" /\ kernel.batch # <<>> /\ h.kind = "Approve"
      /\ UNCHANGED <<ingress, registry_vars, runtime, published, client_vars, offered>>
      /\ UNCHANGED <<lane, binding, last_sequence, exhausted, via>>
      /\ Reduced(<<>>, <<o>>)
      /\ \/ /\ Resolvable(h.key, h.nonce, q.instance, q.generation)
            /\ resolve_approval(h.sequence, h.key, h.nonce, q.instance, q.generation, "ApproveOnce")
         \/ UNCHANGED vars
    BY DEF ReduceApproval, Reducing, Phase, Outside, NoEngine, AuthorityOutcome, Approvable
<1>2. ChannelTypes /\ RegistryTypes /\ EngineInv /\ OffersInv
    BY DEF BaseInv, TypesInv
<1>3. h.sequence \in 1 .. MaxAuthority /\ h.key \in Keys /\ h.nonce \in Sequences /\ OfAuthority(h)
    BY <1>1, NextItem
       DEF Item, RequestItem, CloseItem, ApproveItem, ControlItem, BindItem, ObserveItem,
       OfAuthority, AuthorityKinds
<1>4. RegistryTypes'
    BY <1>1, <1>2 DEF RegistryTypes, registry_vars
<1>5. /\ AtMostOne(<<>>, ProviderOutcomeRecord) /\ AtMostOne(<<o>>, AuthorityOutcomeRecord)
      /\ Elements(<<o>>) = {o} /\ o.sequence = h.sequence /\ o.closed = FALSE
    <2>1. o \in AuthorityOutcomeRecord
        BY <1>3 DEF AuthorityOutcomeRecord
    <2>. QED  BY <2>1, SingleOutcome
<1>. HIDE DEF o
<1>6. kernel'.completions = kernel.completions
    BY <1>1, <1>2, <1>5, ReducedForm
<1>7. EngineInv' /\ OffersInv' /\ NoneReopened
    <2>1. EngineInv' /\ (Approves(h.key) \/ \E T, sent : Settles(T, sent))
        BY <1>1, <1>2, <1>3, ApprovalForm, EngineIdle
    <2>2. CASE Approves(h.key)
        BY <1>1, <1>2, <1>6, <2>1, <2>2, ApprovesOffers, NoneOpenedAtAll DEF OffersStay, client_vars
    <2>3. CASE \E T, sent : Settles(T, sent)
        BY <1>1, <1>6, <2>1, <2>3, SettlesReduce
    <2>. QED  BY <2>1, <2>2, <2>3
<1>. QED  BY <1>1, <1>3, <1>4, <1>5, <1>7, ReduceBase

\* An observation, an attach or a detach is reduced.
LEMMA ReduceProviderForm ==
    ASSUME BaseInv, ReduceProvider
    PROVE  LET h == Head(kernel.batch)
               p == h.provider
               o(r) == [sequence |-> h.sequence, provider |-> p, binding |-> h.binding, result |-> r]
           IN  /\ kernel.pc = "reduce" /\ ~Retiring /\ kernel.batch # <<>> /\ OfProvider(h) /\ h \in Channel
               /\ h \in BindItem \cup ObserveItem
               /\ UNCHANGED <<ingress, registry_vars, runtime, published, client_vars, offered, lane, via>>
               /\ \/ /\ exhausted \/ h.sequence <= last_sequence
                     /\ UNCHANGED <<vars, binding, last_sequence, exhausted>>
                     /\ \E r \in {"SequenceExhausted", "SequenceRegressed"} : Reduced(<<o(r)>>, <<>>)
                  \/ /\ ~exhausted /\ h.sequence > last_sequence
                     /\ last_sequence' = h.sequence /\ exhausted' = (h.sequence = MaxSequence)
                     /\ \/ /\ UNCHANGED <<vars, binding>>
                           /\ \/ ~lane /\ Reduced(<<o("IntegrationBlocked")>>, <<>>)
                              \/ /\ lane /\ ~(h.kind = "Attach" /\ binding[p] = None)
                                 /\ ~(h.kind # "Attach" /\ binding[p] = h.binding)
                                 /\ Reduced(<<o("NotHeld")>>, <<>>)
                        \/ /\ lane /\ h.kind = "Attach" /\ binding[p] = None
                           /\ Reduced(<<o("Attached")>>, <<>>)
                           /\ binding' = [binding EXCEPT ![p] = h.binding] /\ UNCHANGED vars
                        \/ /\ lane /\ h.kind = "Detach" /\ binding[p] = h.binding
                           /\ Reduced(<<o("Detached")>>, <<>>)
                           /\ binding' = [binding EXCEPT ![p] = None] /\ detach_provider_runtime(p)
                        \/ /\ lane /\ h.kind = "Observe" /\ binding[p] = h.binding
                           /\ UNCHANGED binding
                           /\ \/ /\ apply_observation(p, h.effect, "Succeeded")
                                 /\ Reduced(<<o("Applied")>>, <<>>)
                              \/ /\ ~Answers(p, h.effect) /\ UNCHANGED vars
                                 /\ Reduced(<<o("Ignored")>>, <<>>)
<1> DEFINE h == Head(kernel.batch)
<1>1. /\ kernel.pc = "reduce" /\ ~Retiring /\ kernel.batch # <<>> /\ h.kind \in ProviderKinds
    BY DEF ReduceProvider, Reducing, Phase
<1>2. h \in Channel /\ h \in Item
    BY <1>1, NextItem
<1>3. h \in BindItem \cup ObserveItem /\ OfProvider(h)
    BY <1>1, <1>2
       DEF Item, RequestItem, CloseItem, ApproveItem, ControlItem, OfProvider, ProviderKinds
<1>4. h.kind \in {"Attach", "Detach", "Observe"}
    BY <1>1 DEF ProviderKinds
<1>5. h.sequence \in Bindings /\ last_sequence \in 0 .. MaxSequence
    BY <1>2, <1>3, ProviderItem DEF BaseInv, TypesInv, RegistryTypes
<1>6. CASE exhausted
    BY <1>1, <1>2, <1>3, <1>6 DEF ReduceProvider, Outside, NoEngine, ProviderOutcome
<1>7. CASE ~exhausted /\ h.sequence <= last_sequence
    BY <1>1, <1>2, <1>3, <1>7 DEF ReduceProvider, Outside, NoEngine, ProviderOutcome
<1>8. CASE ~exhausted /\ ~(h.sequence <= last_sequence)
    <2>1. h.sequence > last_sequence
        BY <1>5, <1>8 DEF Bindings
    <2>. QED  BY <1>1, <1>2, <1>3, <1>4, <1>8, <2>1
                 DEF ReduceProvider, Outside, NoEngine, ProviderOutcome
<1>. QED  BY <1>6, <1>7, <1>8

\* A bound that the last sequence has reached.
LEMMA ExhaustedLast ==
    ASSUME NEW s \in Bindings, NEW t, t = (s = MaxSequence)
    PROVE  t \in BOOLEAN /\ (t <=> s = MaxSequence)
OBVIOUS

\* A provider command or observation is reduced.
LEMMA ReduceProviderBase ==
    ASSUME BaseInv, ReduceProvider
    PROVE  BaseInv'
<1> DEFINE h == Head(kernel.batch)
           p == h.provider
           o(r) == [sequence |-> h.sequence, provider |-> p, binding |-> h.binding, result |-> r]
<1>1. ChannelTypes /\ RegistryTypes /\ EngineInv
    BY DEF BaseInv, TypesInv
<1>2. /\ kernel.pc = "reduce" /\ kernel.batch # <<>> /\ OfProvider(h) /\ h \in Channel
      /\ UNCHANGED <<ingress, registry_vars, runtime, published, client_vars, offered, lane, via>>
      /\ \/ UNCHANGED <<last_sequence, exhausted>>
         \/ last_sequence' = h.sequence /\ exhausted' = (h.sequence = MaxSequence)
      /\ \/ UNCHANGED binding
         \/ binding' = [binding EXCEPT ![p] = h.binding]
         \/ binding' = [binding EXCEPT ![p] = None]
      /\ UNCHANGED vars \/ detach_provider_runtime(p) \/ apply_observation(p, h.effect, "Succeeded")
      /\ \E r \in Results : Reduced(<<o(r)>>, <<>>)
    BY ReduceProviderForm DEF Results
<1>3. /\ h.sequence \in Bindings /\ h.sequence \in 0 .. MaxSequence
      /\ h.binding \in Bindings /\ p \in Providers
    BY <1>1, <1>2, ProviderItem
<1>4. PICK r \in Results : Reduced(<<o(r)>>, <<>>)
    BY <1>2
<1>5. o(r) \in ProviderOutcomeRecord
    BY <1>3 DEF ProviderOutcomeRecord
<1>6. AtMostOne(<<o(r)>>, ProviderOutcomeRecord) /\ AtMostOne(<<>>, AuthorityOutcomeRecord)
        /\ Elements(<<>>) = {}
    BY <1>5, SingleOutcome
<1>. HIDE DEF o
<1>7. EngineInv' /\ \E T, sent : Settles(T, sent)
    <2>1. CASE UNCHANGED vars
        BY <1>1, <2>1, EngineIdle
    <2>2. CASE detach_provider_runtime(p)
        BY <1>1, <1>3, <2>2, DetachForm
    <2>3. CASE apply_observation(p, h.effect, "Succeeded")
        BY <1>1, <1>3, <2>3, AnswerForm
    <2>. QED  BY <1>2, <2>1, <2>2, <2>3
<1>8. kernel'.completions = kernel.completions
    BY <1>1, <1>2, <1>4, <1>6, ReducedForm
<1>9. OffersInv' /\ NoneReopened
    BY <1>2, <1>7, <1>8, SettlesReduce
<1>10. RegistryTypes'
    <2>1. /\ last_sequence' \in 0 .. MaxSequence /\ exhausted' \in BOOLEAN
          /\ exhausted' <=> last_sequence' = MaxSequence
        <3>1. CASE UNCHANGED <<last_sequence, exhausted>>
            BY <1>1, <3>1 DEF RegistryTypes
        <3>2. CASE last_sequence' = h.sequence /\ exhausted' = (h.sequence = MaxSequence)
            BY <1>3, <3>2, ExhaustedLast
        <3>. QED  BY <1>2, <3>1, <3>2
    <2>2. binding' \in [Providers -> 0 .. MaxSequence]
        BY <1>1, <1>2, <1>3, Bounds DEF RegistryTypes, None
    <2>. QED  BY <1>1, <1>2, <2>1, <2>2 DEF RegistryTypes, registry_vars
<1>. QED  BY <1>2, <1>4, <1>6, <1>7, <1>9, <1>10, ReduceBase

\* The kernel turns an item away, or is done with the batch.
LEMMA RejectItemBase ==
    ASSUME BaseInv, RejectItem
    PROVE  BaseInv'
<1> DEFINE h == Head(kernel.batch)
           P == IF h.kind \in ProviderKinds THEN <<ProviderOutcome(h, "IntegrationBlocked")>> ELSE <<>>
           A == IF h.kind \in AuthorityKinds THEN AuthorityOutcome(h, FALSE) ELSE <<>>
<1>1. /\ kernel.pc = "reject" /\ UNCHANGED vars
      /\ UNCHANGED <<ingress, registry_vars, runtime, published, client_vars, offered>>
      /\ UNCHANGED <<lane, binding, last_sequence, exhausted, via>>
      /\ \/ kernel.batch # <<>> /\ Reduced(P, A)
         \/ kernel.batch = <<>> /\ kernel' = [kernel EXCEPT !.pc = "outcomes"]
    BY DEF RejectItem, Phase, NoEngine, Outside
<1>2. ChannelTypes /\ RegistryTypes /\ RuntimeTypes /\ ClientTypes /\ EngineInv /\ PhaseInv
    BY DEF BaseInv, TypesInv
<1>3. RegistryTypes' /\ UNCHANGED <<effects, completions, lane>>
    BY <1>1, <1>2 DEF RegistryTypes, registry_vars, vars, request_vars
<1>4. EngineInv' /\ Settles({}, {})
    BY <1>1, <1>2, EngineIdle
<1>5. CASE kernel.batch # <<>> /\ Reduced(P, A)
    <2>1. h \in Item /\ h \in Channel
        BY <1>5, NextItem
    <2>2. AtMostOne(P, ProviderOutcomeRecord)
        <3>1. CASE h.kind \in ProviderKinds
            <4>1. ProviderOutcome(h, "IntegrationBlocked") \in ProviderOutcomeRecord
                BY <1>2, <2>1, <3>1, ProviderItem
                   DEF OfProvider, ProviderOutcome, ProviderOutcomeRecord, Results
            <4>. QED  BY <3>1, <4>1, SingleOutcome
        <3>2. CASE h.kind \notin ProviderKinds
            BY <3>2, SingleOutcome
        <3>. QED  BY <3>1, <3>2
    <2>3. /\ AtMostOne(A, AuthorityOutcomeRecord)
          /\ \A o \in Elements(A) : OfAuthority(h) /\ o.sequence = h.sequence /\ ~o.closed
        <3>1. CASE h.kind \in AuthorityKinds
            <4> DEFINE o == [sequence |-> h.sequence, closed |-> FALSE]
            <4>1. o \in AuthorityOutcomeRecord /\ A = <<o>> /\ OfAuthority(h)
                BY <1>2, <2>1, <3>1, AuthorityItem
                   DEF OfAuthority, AuthorityOutcome, AuthorityOutcomeRecord
            <4>2. AtMostOne(<<o>>, AuthorityOutcomeRecord) /\ Elements(<<o>>) = {o}
                BY <4>1, SingleOutcome
            <4>3. o.sequence = h.sequence /\ ~o.closed
                OBVIOUS
            <4>. HIDE DEF o, A
            <4>. QED  BY <4>1, <4>2, <4>3
        <3>2. CASE h.kind \notin AuthorityKinds
            BY <3>2, SingleOutcome
        <3>. QED  BY <3>1, <3>2
    <2>. HIDE DEF P, A
    <2>4. kernel'.completions = kernel.completions
        BY <1>1, <1>2, <1>5, <2>2, <2>3, ReducedForm
    <2>5. OffersInv' /\ NoneReopened
        BY <1>1, <1>4, <2>4, SettlesReduce
    <2>. QED  BY <1>1, <1>3, <1>4, <1>5, <2>2, <2>3, <2>5, ReduceBase
<1>6. CASE kernel.batch = <<>> /\ kernel' = [kernel EXCEPT !.pc = "outcomes"]
    <2>1. /\ kernel' \in KernelState /\ kernel'.pc = "outcomes" /\ Cargo' = Cargo
        BY <1>2, <1>6 DEF ChannelTypes, KernelState, Phases, Cargo
    <2>2. PhaseInv'
        BY <1>1, <1>2, <1>3, <1>6, <2>1 DEF PhaseInv, Cargo
    <2>3. RuntimeTypes'
        BY <1>1, <1>2 DEF registry_vars, RuntimeTypes, Bound, RuntimeOK
    <2>. QED  BY <1>1, <1>2, <2>1, <2>2, <2>3, RuntimeBase DEF registry_vars, Refused, RegistryTypes
<1>. QED  BY <1>1, <1>5, <1>6

\* A step of the engine under a kernel that keeps its batch.
LEMMA EngineBase ==
    ASSUME BaseInv, Keeps, ingress' \in Seq(Item), Len(ingress') <= IngressCapacity,
           kernel' \in KernelState, PhaseInv', UNCHANGED <<client_vars, registry_vars, runtime, published>>,
           kernel'.authority = kernel.authority, kernel'.closed = kernel.closed,
           EngineInv', OffersInv', RegistryTypes', NoneOpened
    PROVE  BaseInv'
<1>1. ChannelTypes /\ RuntimeTypes /\ ClientTypes /\ ItemsIssued /\ ClientsInv
    BY DEF BaseInv, TypesInv
<1>2. Channel' = Channel /\ ChannelInOrder'
    BY <1>1, KeepsChannel DEF ClientsInv
<1>3. ChannelTypes' /\ RuntimeTypes' /\ ClientTypes' /\ ItemsIssued'
    BY <1>1, <1>2
       DEF ChannelTypes, RuntimeTypes, ClientTypes, ItemsIssued, client_vars, registry_vars,
       Bound, RuntimeOK, Issued, OfProvider
<1>4. ClientsInv'
    BY <1>1, <1>2, ClientsFrame DEF AuthorityOutcomes
<1>. QED  BY <1>3, <1>4 DEF BaseInv, TypesInv

\* The kernel drains the channel: nothing is lost between it and the batch.
LEMMA DrainKeeps ==
    ASSUME ChannelTypes, kernel.batch = <<>>, NEW pc \in {"reduce", "reject"},
           LET n == MinOf(Len(ingress), DrainLimit)
           IN  /\ ingress' = SubSeq(ingress, n + 1, Len(ingress))
               /\ kernel' = [kernel EXCEPT !.pc = pc, !.batch = SubSeq(ingress, 1, n)]
    PROVE  /\ Keeps /\ ingress' \in Seq(Item) /\ Len(ingress') <= IngressCapacity
           /\ kernel' \in KernelState /\ kernel'.pc = pc
           /\ kernel'.provider = kernel.provider /\ kernel'.authority = kernel.authority
           /\ kernel'.effects = kernel.effects /\ kernel'.completions = kernel.completions
           /\ kernel'.closed = kernel.closed
<1> DEFINE n == MinOf(Len(ingress), DrainLimit)
           a == SubSeq(ingress, 1, n)
           z == SubSeq(ingress, n + 1, Len(ingress))
<1>1. ingress \in Seq(Item) /\ Len(ingress) \in Nat /\ Len(ingress) <= IngressCapacity
      /\ kernel \in KernelState
    BY DEF ChannelTypes
<1>2. n \in 0 .. Len(ingress)
    BY <1>1, Bounds DEF MinOf
<1>3. a \in Seq(Item) /\ z \in Seq(Item) /\ a \o z = ingress /\ Len(z) <= Len(ingress)
    BY <1>1, <1>2, ConcatSplit
<1>4. ingress' = z /\ kernel' = [kernel EXCEPT !.pc = pc, !.batch = a]
    OBVIOUS
<1>. HIDE DEF a, z, n
<1>5. /\ kernel' \in KernelState /\ kernel'.pc = pc /\ kernel'.batch = a
      /\ kernel'.provider = kernel.provider /\ kernel'.authority = kernel.authority
      /\ kernel'.effects = kernel.effects /\ kernel'.completions = kernel.completions
      /\ kernel'.closed = kernel.closed
    BY <1>1, <1>3, <1>4 DEF KernelState, Phases
<1>6. InChannel = ingress
    BY <1>1, ConcatEmpty DEF InChannel
<1>7. Keeps
    BY <1>3, <1>4, <1>5, <1>6 DEF Keeps, InChannel
<1>8. Len(z) <= IngressCapacity
    <2>1. Len(z) \in Nat
        BY <1>3
    <2>. QED  BY <1>1, <1>3, <2>1, Bounds
<1>. QED  BY <1>3, <1>4, <1>5, <1>7, <1>8

\* Draining splits the channel into the batch and the rest.
LEMMA DrainIngressForm ==
    ASSUME BaseInv, DrainIngress
    PROVE  /\ kernel.pc = "flush" /\ kernel.batch = <<>>
           /\ kernel'.pc \in {"reduce", "reject"}
           /\ Keeps /\ ingress' \in Seq(Item) /\ Len(ingress') <= IngressCapacity
           /\ kernel' \in KernelState
           /\ kernel'.provider = kernel.provider /\ kernel'.authority = kernel.authority
           /\ kernel'.effects = kernel.effects /\ kernel'.completions = kernel.completions
           /\ kernel'.closed = kernel.closed
           /\ UNCHANGED <<lane, binding, last_sequence, exhausted, via>>
           /\ UNCHANGED <<registry_vars, runtime, published, client_vars, offered>>
           /\ EngineInv' /\ \E T, sent : Settles(T, sent)
           /\ kernel'.pc = "reject" => UNCHANGED vars
<1>1. ChannelTypes /\ PhaseInv /\ EngineInv
    BY DEF BaseInv, TypesInv
<1>2. /\ kernel.pc = "flush"
      /\ UNCHANGED <<lane, binding, last_sequence, exhausted, via>>
      /\ UNCHANGED <<registry_vars, runtime, published, client_vars, offered>>
    BY DEF DrainIngress, Phase, Outside
<1>3. kernel.batch = <<>>
    BY <1>1, <1>2 DEF PhaseInv
<1> DEFINE n == MinOf(Len(ingress), DrainLimit)
           Cut(pc) == /\ ingress' = SubSeq(ingress, n + 1, Len(ingress))
                      /\ kernel' = [kernel EXCEPT !.pc = pc, !.batch = SubSeq(ingress, 1, n)]
<1>4. \/ tick < MaxTick /\ advance_time(tick + 1) /\ Cut("reduce")
      \/ UNCHANGED vars /\ Cut("reject")
    BY DEF DrainIngress, NoEngine
<1>5. CASE tick < MaxTick /\ advance_time(tick + 1) /\ Cut("reduce")
    <2>1. EngineInv' /\ \E T, sent : Settles(T, sent)
        BY <1>1, <1>5, AdvanceForm
    <2>. QED  BY <1>1, <1>2, <1>3, <1>5, <2>1, DrainKeeps
<1>6. CASE UNCHANGED vars /\ Cut("reject")
    <2>1. EngineInv' /\ Settles({}, {})
        BY <1>1, <1>6, EngineIdle
    <2>. QED  BY <1>1, <1>2, <1>3, <1>6, <2>1, DrainKeeps
<1>. QED  BY <1>4, <1>5, <1>6

\* The batch is drained and the clock advances.
LEMMA DrainIngressBase ==
    ASSUME BaseInv, DrainIngress
    PROVE  BaseInv'
<1>1. /\ kernel.pc = "flush" /\ kernel'.pc \in {"reduce", "reject"}
      /\ Keeps /\ ingress' \in Seq(Item) /\ Len(ingress') <= IngressCapacity
      /\ kernel' \in KernelState
      /\ kernel'.provider = kernel.provider /\ kernel'.authority = kernel.authority
      /\ kernel'.effects = kernel.effects /\ kernel'.completions = kernel.completions
      /\ kernel'.closed = kernel.closed
      /\ UNCHANGED <<lane, binding, last_sequence, exhausted, via>>
      /\ UNCHANGED <<registry_vars, runtime, published, client_vars, offered>>
      /\ EngineInv' /\ \E T, sent : Settles(T, sent)
      /\ kernel'.pc = "reject" => UNCHANGED vars
    BY DrainIngressForm
<1>2. PhaseInv /\ RegistryTypes /\ EngineInv /\ OffersInv /\ ReducedIsQuiet
    BY DEF BaseInv, TypesInv, ClientsInv
<1>3. kernel'.pc = "reject" => UNCHANGED <<effects, completions>>
    BY <1>1 DEF vars, request_vars
<1>4. PhaseInv'
    BY <1>1, <1>2, <1>3 DEF PhaseInv
<1>5. OffersInv' /\ NoneOpened
    BY <1>1, <1>2, SettlesOffers DEF OffersStay, client_vars
<1>6. RegistryTypes'
    BY <1>1, <1>2 DEF RegistryTypes, registry_vars
<1>. QED  BY <1>1, <1>4, <1>5, <1>6, EngineBase

\* The kernel lets go of a provider after the last sequence.
LEMMA RetireExhaustedBase ==
    ASSUME BaseInv, NEW p \in Providers, RetireExhausted(p)
    PROVE  BaseInv'
<1>1. /\ kernel.pc = "reduce" /\ kernel' = kernel /\ ingress' = ingress
      /\ UNCHANGED <<lane, last_sequence, exhausted, via>>
      /\ UNCHANGED <<registry_vars, runtime, published, client_vars, offered>>
      /\ detach_provider_runtime(p) /\ binding' = [binding EXCEPT ![p] = None]
    BY DEF RetireExhausted, Phase, Outside
<1>2. ChannelTypes /\ PhaseInv /\ RegistryTypes /\ EngineInv /\ OffersInv /\ ReducedIsQuiet
    BY DEF BaseInv, TypesInv, ClientsInv
<1>3. EngineInv' /\ \E T, sent : Settles(T, sent)
    BY <1>1, <1>2, DetachForm
<1>4. OffersInv' /\ NoneOpened
    BY <1>1, <1>2, <1>3, SettlesOffers DEF OffersStay, client_vars
<1>5. PhaseInv' /\ Keeps
    BY <1>1, <1>2, KeepForm DEF PhaseInv
<1>6. RegistryTypes'
    BY <1>1, <1>2, Bounds DEF RegistryTypes, registry_vars, None
<1>. QED  BY <1>1, <1>2, <1>3, <1>4, <1>5, <1>6, EngineBase DEF ChannelTypes

\* The two drains of the engine.
LEMMA DrainEffectsBase ==
    ASSUME BaseInv, DrainEffects
    PROVE  BaseInv'
<1> DEFINE unbound == \E e \in effects : binding[e.provider] = None
           new == IF lane /\ ~unbound
                  THEN {[effect |-> e, binding |-> binding[e.provider]] : e \in effects} ELSE {}
<1>1. /\ kernel.pc = "reduce" /\ kernel.batch = <<>> /\ ingress' = ingress
      /\ UNCHANGED <<lane, binding, last_sequence, exhausted, via>>
      /\ UNCHANGED <<registry_vars, runtime, published, client_vars, offered>>
      /\ (lane /\ drain_effects) \/ (~(lane /\ effects # {}) /\ UNCHANGED vars)
      /\ kernel' = [kernel EXCEPT !.pc = "drain", !.effects = new]
    BY DEF DrainEffects, Phase, Outside, NoEngine
<1>2. ChannelTypes /\ PhaseInv /\ RegistryTypes /\ EngineInv /\ OffersInv
    BY DEF BaseInv, TypesInv
<1>3. new \subseteq [effect : EffectEnvelope, binding : Bindings]
    <2>1. \A e \in effects : e \in EffectEnvelope /\ e.provider \in Providers
        BY <1>2, EngineTypes DEF EffectEnvelope
    <2>2. \A e \in effects : ~unbound => binding[e.provider] \in Bindings
        BY <1>2, <2>1, Bounds DEF RegistryTypes
    <2>. QED  BY <2>1, <2>2
<1>. HIDE DEF new
<1>4. /\ kernel' \in KernelState /\ kernel'.pc = "drain" /\ kernel'.batch = kernel.batch
      /\ kernel'.provider = kernel.provider /\ kernel'.authority = kernel.authority
      /\ kernel'.completions = kernel.completions
      /\ kernel'.closed = kernel.closed
    BY <1>1, <1>2, <1>3 DEF ChannelTypes, KernelState, Phases
<1>5. EngineInv' /\ UNCHANGED <<requests, completions, dropped>> /\ (lane => effects' = {})
    <2>1. CASE lane /\ drain_effects
        BY <1>2, <2>1, DrainForm DEF drain_effects
    <2>2. CASE ~(lane /\ effects # {}) /\ UNCHANGED vars
        BY <1>2, <2>2, EngineIdle DEF vars, request_vars
    <2>. QED  BY <1>1, <2>1, <2>2
<1>6. PhaseInv' /\ Keeps
    BY <1>1, <1>2, <1>4, <1>5, KeepForm DEF PhaseInv
<1>7. OffersInv' /\ NoneOpened
    BY <1>1, <1>2, <1>4, <1>5 DEF OffersInv, NoneOpened, Stored, Active, client_vars
<1>8. RegistryTypes'
    BY <1>1, <1>2 DEF RegistryTypes, registry_vars
<1>. QED  BY <1>1, <1>2, <1>4, <1>5, <1>6, <1>7, <1>8, EngineBase DEF ChannelTypes

\* The completions leave the engine.
LEMMA DrainCompletionsBase ==
    ASSUME BaseInv, DrainCompletions
    PROVE  BaseInv'
<1>1. /\ kernel.pc = "drain" /\ ingress' = ingress
      /\ UNCHANGED <<lane, binding, last_sequence, exhausted, via>>
      /\ UNCHANGED <<registry_vars, runtime, published, client_vars, offered>>
      /\ drain_completions \/ (completions = {} /\ UNCHANGED vars)
      /\ kernel' = [kernel EXCEPT !.pc = "outcomes", !.completions = completions]
    BY DEF DrainCompletions, Phase, Outside, NoEngine
<1>2. ChannelTypes /\ PhaseInv /\ RegistryTypes /\ EngineInv /\ OffersInv
    BY DEF BaseInv, TypesInv
<1>3. completions \subseteq CompletionEnvelope
    BY <1>2, EngineTypes
<1>4. /\ kernel' \in KernelState /\ kernel'.pc = "outcomes" /\ kernel'.batch = kernel.batch
      /\ kernel'.provider = kernel.provider /\ kernel'.authority = kernel.authority
      /\ kernel'.completions = completions /\ kernel'.effects = kernel.effects
      /\ kernel'.closed = kernel.closed
    BY <1>1, <1>2, <1>3 DEF ChannelTypes, KernelState, Phases
<1>5. EngineInv' /\ UNCHANGED <<requests, effects, dropped>> /\ completions' = {}
    <2>1. CASE drain_completions
        BY <1>2, <2>1, DrainForm DEF drain_completions
    <2>2. CASE completions = {} /\ UNCHANGED vars
        BY <1>2, <2>2, EngineIdle DEF vars, request_vars
    <2>. QED  BY <1>1, <2>1, <2>2
<1>6. PhaseInv' /\ Keeps /\ kernel.completions = {}
    BY <1>1, <1>2, <1>4, <1>5, KeepForm DEF PhaseInv
<1>7. OffersInv' /\ NoneOpened
    BY <1>1, <1>2, <1>4, <1>5, <1>6 DEF OffersInv, NoneOpened, Stored, Active, client_vars
<1>8. RegistryTypes'
    BY <1>1, <1>2 DEF RegistryTypes, registry_vars
<1>. QED  BY <1>1, <1>2, <1>4, <1>5, <1>6, <1>7, <1>8, EngineBase DEF ChannelTypes

\* A publication that does not concern the clients.
LEMMA PublishBase ==
    ASSUME BaseInv, UNCHANGED <<vars, ingress, lane, binding, last_sequence, exhausted, via>>,
           UNCHANGED <<client_vars, offered>>, kernel' \in KernelState,
           kernel'.batch = kernel.batch, kernel'.authority = kernel.authority,
           kernel'.completions = kernel.completions, kernel'.closed = kernel.closed,
           PhaseInv', RuntimeTypes', RegistryTypes',
           \A s : Issued(s) /\ s \in 0 .. MaxSequence => Issued(s)'
    PROVE  BaseInv'
<1>1. /\ ChannelTypes /\ ClientTypes /\ EngineInv /\ ItemsIssued /\ ClientsInv /\ OffersInv
      /\ ReducedIsQuiet
    BY DEF BaseInv, TypesInv, ClientsInv
<1>2. EngineInv' /\ NoneOpened /\ OffersInv'
    BY <1>1, EngineFrame DEF OffersStay, client_vars
<1>3. Channel' = Channel /\ ChannelInOrder'
    BY <1>1, KeepForm, KeepsChannel DEF ClientsInv
<1>4. ChannelTypes' /\ ClientTypes'
    BY <1>1 DEF ChannelTypes, ClientTypes, client_vars
<1>5. ItemsIssued'
    <2>1. ASSUME NEW z \in Channel, OfProvider(z) PROVE Issued(z.sequence)'
        BY <1>1, <2>1, ProviderItem DEF ItemsIssued
    <2>. QED  BY <1>3, <2>1 DEF ItemsIssued, OfProvider
<1>6. ClientsInv'
    BY <1>1, <1>2, <1>3, ClientsFrame DEF AuthorityOutcomes
<1>. QED  BY <1>2, <1>4, <1>5, <1>6 DEF BaseInv, TypesInv

\* The first outcome is published, or there is none.
LEMMA PublishOutcomeForm ==
    ASSUME BaseInv, PublishOutcome
    PROVE  /\ kernel.pc = "outcomes" /\ kernel' \in KernelState
           /\ UNCHANGED <<vars, ingress, lane, binding, last_sequence, exhausted, via>>
           /\ UNCHANGED <<client_vars, offered, foreign, next_sequence, sequence_exhausted, published>>
           /\ kernel'.batch = kernel.batch /\ kernel'.authority = kernel.authority
           /\ kernel'.effects = kernel.effects
           /\ kernel'.completions = kernel.completions /\ kernel'.closed = kernel.closed
           /\ \/ /\ kernel'.pc = "effects" /\ kernel.provider = <<>> /\ kernel'.provider = <<>>
                 /\ UNCHANGED <<current, runtime>>
              \/ /\ kernel'.pc = "outcomes"
                 /\ \E o \in ProviderOutcomeRecord :
                       /\ o \in ProviderOutcomes /\ ProviderOutcomes = {o} \cup ProviderOutcomes'
                       /\ \/ current[o.provider] # o.binding /\ UNCHANGED <<current, runtime>>
                          \/ \E s :
                               /\ current[o.provider] = o.binding
                               /\ s = Concluded(Receipted(runtime[o.binding], o), o.binding, o)
                               /\ runtime' = [runtime EXCEPT ![o.binding] = s]
                               /\ current' = [current EXCEPT ![o.provider] =
                                                 IF s.life = "Closed" THEN None ELSE @]
<1>1. /\ kernel.pc = "outcomes"
      /\ UNCHANGED <<vars, ingress, lane, binding, last_sequence, exhausted, via>>
      /\ UNCHANGED <<client_vars, offered, foreign, next_sequence, sequence_exhausted, published>>
    BY DEF PublishOutcome, PublishOnly, Phase
<1>2. kernel \in KernelState /\ kernel.provider \in Seq(ProviderOutcomeRecord)
    BY DEF BaseInv, TypesInv, ChannelTypes, KernelState
<1>3. CASE kernel.provider = <<>>
    <2>1. kernel' = [kernel EXCEPT !.pc = "effects"] /\ UNCHANGED <<current, runtime>>
        BY <1>3 DEF PublishOutcome
    <2>. QED  BY <1>1, <1>2, <1>3, <2>1 DEF KernelState, Phases
<1>4. CASE kernel.provider # <<>>
    <2> DEFINE w == kernel.provider
               o == Head(w)
               t == Tail(w)
    <2>1. o \in ProviderOutcomeRecord /\ o \in Elements(w) /\ t \in Seq(ProviderOutcomeRecord)
            /\ Elements(w) = {o} \cup Elements(t)
        BY <1>2, <1>4, TailElements
    <2>2. kernel' = [kernel EXCEPT !.provider = t]
        BY <1>2, <1>4 DEF PublishOutcome, KernelState
    <2>3. \/ current[o.provider] # o.binding /\ UNCHANGED <<current, runtime>>
          \/ \E s :
               /\ current[o.provider] = o.binding
               /\ s = Concluded(Receipted(runtime[o.binding], o), o.binding, o)
               /\ runtime' = [runtime EXCEPT ![o.binding] = s]
               /\ current' = [current EXCEPT ![o.provider] = IF s.life = "Closed" THEN None ELSE @]
        BY <1>4 DEF PublishOutcome
    <2>. HIDE DEF o, t
    <2>4. /\ kernel' \in KernelState /\ kernel'.pc = kernel.pc /\ kernel'.provider = t
          /\ kernel'.batch = kernel.batch /\ kernel'.authority = kernel.authority
          /\ kernel'.effects = kernel.effects
          /\ kernel'.completions = kernel.completions /\ kernel'.closed = kernel.closed
        BY <1>2, <2>1, <2>2 DEF KernelState
    <2>5. o \in ProviderOutcomes /\ ProviderOutcomes = {o} \cup ProviderOutcomes'
        BY <2>1, <2>4 DEF ProviderOutcomes
    <2>. QED  BY <1>1, <2>1, <2>3, <2>4, <2>5
<1>. QED  BY <1>3, <1>4

\* The runtime after an outcome.
LEMMA OutcomeRuntime ==
    ASSUME NEW r, NEW b, NEW o, RuntimeOK(r)
    PROVE  Shrinks(r, Concluded(Receipted(r, o), b, o))
<1> DEFINE q == Receipted(r, o)
<1>1. Shrinks(r, q)
    BY ReceiptedShrinks
<1>. HIDE DEF q
<1>2. Shrinks(q, Concluded(q, b, o))
    BY <1>1, ConcludedShrinks DEF Shrinks
<1>3. Shrinks(r, Concluded(q, b, o))
    BY <1>1, <1>2 DEF Shrinks
<1>. QED  BY <1>3 DEF q

\* The outcome of a provider item is published.
LEMMA PublishOutcomeBase ==
    ASSUME BaseInv, PublishOutcome
    PROVE  BaseInv'
<1>1. /\ kernel.pc = "outcomes" /\ kernel' \in KernelState
      /\ UNCHANGED <<vars, ingress, lane, binding, last_sequence, exhausted, via>>
      /\ UNCHANGED <<client_vars, offered, foreign, next_sequence, sequence_exhausted, published>>
      /\ kernel'.batch = kernel.batch /\ kernel'.authority = kernel.authority
      /\ kernel'.effects = kernel.effects
      /\ kernel'.completions = kernel.completions /\ kernel'.closed = kernel.closed
      /\ \/ kernel'.pc = "effects" /\ kernel'.provider = <<>>
         \/ kernel'.pc = "outcomes"
    BY PublishOutcomeForm
<1>2. PhaseInv /\ RuntimeTypes /\ RegistryTypes
    BY DEF BaseInv, TypesInv
<1>3. effects' = effects /\ completions' = completions
    BY <1>1 DEF vars, request_vars
<1>4. PhaseInv'
    BY <1>1, <1>2, <1>3 DEF PhaseInv
<1>5. RuntimeTypes' /\ current' \in [Providers -> 0 .. MaxSequence]
    <2>1. CASE UNCHANGED <<current, runtime>>
        BY <1>2, <2>1 DEF RuntimeTypes, RegistryTypes, Bound, RuntimeOK
    <2>2. ASSUME NEW o \in ProviderOutcomeRecord, NEW s,
                 current[o.provider] = o.binding,
                 s = Concluded(Receipted(runtime[o.binding], o), o.binding, o),
                 runtime' = [runtime EXCEPT ![o.binding] = s],
                 current' = [current EXCEPT ![o.provider] = IF s.life = "Closed" THEN None ELSE @]
          PROVE  RuntimeTypes' /\ current' \in [Providers -> 0 .. MaxSequence]
        <3>1. o.provider \in Providers /\ o.binding \in Bindings
            BY DEF ProviderOutcomeRecord
        <3>2. Bound(o.binding)
            BY <1>2, <2>2, <3>1, Bounds DEF RuntimeTypes
        <3>3. RuntimeOK(s)
            BY <1>2, <2>2, <3>1, <3>2, BoundRecord, OutcomeRuntime DEF Shrinks
        <3>4. /\ \A p \in Providers : current'[p] \in {None, current[p], o.binding}
              /\ current' \in [Providers -> 0 .. MaxSequence]
            BY <1>2, <2>2, <3>1, Bounds DEF RegistryTypes, None
        <3>. QED  BY <1>2, <2>2, <3>1, <3>3, <3>4, OneRuntime
    <2>. QED  BY <2>1, <2>2, PublishOutcomeForm
<1>6. RegistryTypes'
    BY <1>1, <1>2, <1>5 DEF RegistryTypes
<1>7. \A s : Issued(s) /\ s \in 0 .. MaxSequence => Issued(s)'
    BY <1>1 DEF Issued
<1>. QED  BY <1>1, <1>4, <1>5, <1>6, <1>7, PublishBase

\* An effect is published, or there is none.
LEMMA PublishEffectForm ==
    ASSUME BaseInv, PublishEffect
    PROVE  /\ kernel.pc = "effects" /\ kernel' \in KernelState
           /\ UNCHANGED <<vars, ingress, lane, binding, last_sequence, exhausted, via>>
           /\ UNCHANGED <<client_vars, offered, registry_vars, published>>
           /\ kernel'.batch = kernel.batch /\ kernel'.authority = kernel.authority
           /\ kernel'.provider = kernel.provider
           /\ kernel'.completions = kernel.completions /\ kernel'.closed = kernel.closed
           /\ \/ /\ kernel'.pc = "reconcile" /\ kernel.effects = {} /\ kernel'.effects = {}
                 /\ UNCHANGED runtime
              \/ /\ kernel'.pc = "effects"
                 /\ \E x \in kernel.effects :
                       /\ kernel'.effects = kernel.effects \ {x}
                       /\ x.effect \in EffectEnvelope /\ x.binding \in Bindings
                       /\ \/ ~Reaches(x.binding, x.effect.provider) /\ UNCHANGED runtime
                          \/ /\ Reaches(x.binding, x.effect.provider) /\ Bound(x.binding)
                             /\ runtime' = [runtime EXCEPT ![x.binding] =
                                                Delivered(runtime[x.binding], x.effect)]
<1>1. /\ kernel.pc = "effects"
      /\ UNCHANGED <<vars, ingress, lane, binding, last_sequence, exhausted, via>>
      /\ UNCHANGED <<client_vars, offered, registry_vars, published>>
    BY DEF PublishEffect, PublishOnly, Phase
<1>2. kernel \in KernelState /\ DOMAIN runtime = Bindings
    BY DEF BaseInv, TypesInv, ChannelTypes, RuntimeTypes
<1>3. CASE kernel.effects = {} /\ kernel' = [kernel EXCEPT !.pc = "reconcile"] /\ UNCHANGED runtime
    BY <1>1, <1>2, <1>3 DEF KernelState, Phases
<1>4. ASSUME NEW x \in kernel.effects, kernel' = [kernel EXCEPT !.effects = @ \ {x}],
             runtime' = IF current[x.effect.provider] = x.binding /\ Serves(runtime[x.binding])
                        THEN [runtime EXCEPT ![x.binding] = Delivered(@, x.effect)]
                        ELSE runtime
      PROVE  /\ kernel' \in KernelState /\ kernel'.pc = "effects"
             /\ kernel'.batch = kernel.batch /\ kernel'.authority = kernel.authority
             /\ kernel'.provider = kernel.provider
             /\ kernel'.completions = kernel.completions /\ kernel'.closed = kernel.closed
             /\ kernel'.effects = kernel.effects \ {x}
             /\ x.effect \in EffectEnvelope /\ x.binding \in Bindings
             /\ \/ ~Reaches(x.binding, x.effect.provider) /\ UNCHANGED runtime
                \/ /\ Reaches(x.binding, x.effect.provider) /\ Bound(x.binding)
                   /\ runtime' = [runtime EXCEPT ![x.binding] =
                                      Delivered(runtime[x.binding], x.effect)]
    <2>1. /\ kernel' \in KernelState /\ kernel'.pc = "effects"
          /\ kernel'.batch = kernel.batch /\ kernel'.authority = kernel.authority
          /\ kernel'.provider = kernel.provider
          /\ kernel'.completions = kernel.completions /\ kernel'.closed = kernel.closed
          /\ kernel'.effects = kernel.effects \ {x}
          /\ x.effect \in EffectEnvelope /\ x.binding \in Bindings
        BY <1>1, <1>2, <1>4 DEF KernelState
    <2>2. Reaches(x.binding, x.effect.provider) => Bound(x.binding)
        BY DEF Reaches, Serves, Bound
    <2>3. CASE Reaches(x.binding, x.effect.provider)
        BY <1>2, <1>4, <2>1, <2>2, <2>3 DEF Reaches
    <2>4. CASE ~Reaches(x.binding, x.effect.provider)
        BY <1>4, <2>1, <2>4 DEF Reaches
    <2>. QED  BY <2>3, <2>4
<1>5. \/ kernel.effects = {} /\ kernel' = [kernel EXCEPT !.pc = "reconcile"] /\ UNCHANGED runtime
      \/ \E x \in kernel.effects :
            /\ kernel' = [kernel EXCEPT !.effects = @ \ {x}]
            /\ runtime' = IF current[x.effect.provider] = x.binding /\ Serves(runtime[x.binding])
                          THEN [runtime EXCEPT ![x.binding] = Delivered(@, x.effect)]
                          ELSE runtime
    BY DEF PublishEffect
<1>6. CASE \E x \in kernel.effects :
             /\ kernel' = [kernel EXCEPT !.effects = @ \ {x}]
             /\ runtime' = IF current[x.effect.provider] = x.binding /\ Serves(runtime[x.binding])
                           THEN [runtime EXCEPT ![x.binding] = Delivered(@, x.effect)]
                           ELSE runtime
    BY <1>1, <1>4, <1>6
<1>. QED  BY <1>3, <1>5, <1>6

\* An effect is published.
LEMMA PublishEffectBase ==
    ASSUME BaseInv, PublishEffect
    PROVE  BaseInv'
<1>1. /\ kernel.pc = "effects" /\ kernel' \in KernelState
      /\ UNCHANGED <<vars, ingress, lane, binding, last_sequence, exhausted, via>>
      /\ UNCHANGED <<client_vars, offered, registry_vars, published>>
      /\ kernel'.batch = kernel.batch /\ kernel'.authority = kernel.authority
      /\ kernel'.provider = kernel.provider
      /\ kernel'.completions = kernel.completions /\ kernel'.closed = kernel.closed
      /\ \/ kernel'.pc = "reconcile" /\ kernel'.effects = {}
         \/ kernel'.pc = "effects"
    BY PublishEffectForm
<1>2. PhaseInv /\ RuntimeTypes /\ RegistryTypes
    BY DEF BaseInv, TypesInv
<1>3. effects' = effects /\ completions' = completions
    BY <1>1 DEF vars, request_vars
<1>4. PhaseInv'
    BY <1>1, <1>2, <1>3 DEF PhaseInv
<1>5. RuntimeTypes'
    <2>1. CASE UNCHANGED runtime
        BY <1>1, <1>2, <2>1 DEF registry_vars, RuntimeTypes, Bound, RuntimeOK
    <2>2. ASSUME NEW x, x.effect \in EffectEnvelope, x.binding \in Bindings, Bound(x.binding),
                 runtime' = [runtime EXCEPT ![x.binding] = Delivered(runtime[x.binding], x.effect)]
          PROVE  RuntimeTypes'
        <3>1. RuntimeOK(Delivered(runtime[x.binding], x.effect))
            BY <1>2, <2>2, BoundRecord, DeliveredForm DEF Shrinks
        <3>. QED  BY <1>1, <1>2, <2>2, <3>1, OneRuntime DEF registry_vars
    <2>. QED  BY <2>1, <2>2, PublishEffectForm
<1>6. RegistryTypes'
    BY <1>1, <1>2 DEF RegistryTypes, registry_vars
<1>7. \A s : Issued(s) /\ s \in 0 .. MaxSequence => Issued(s)'
    BY <1>1 DEF Issued, registry_vars
<1>. QED  BY <1>1, <1>4, <1>5, <1>6, <1>7, PublishBase

\* The registry follows the kernel.
Gone == {p \in Providers :
           /\ current[p] # None
           /\ exhausted \/ (binding[p] # current[p] /\ WasReduced(runtime[current[p]]))}

Settled(r) == [r EXCEPT !.operations = @ \ r.settled, !.settled = {}]

\* A runtime forgets its settled operations.
LEMMA SettledShrinks ==
    ASSUME NEW r, RuntimeOK(r)
    PROVE  /\ Shrinks(r, Settled(r)) /\ Settled(r).settled = {}
           /\ Settled(r).life = r.life /\ Settled(r).sequence = r.sequence
           /\ Settled(r).operations = r.operations \ r.settled
           /\ Settled(r).closing = r.closing
BY RuntimeFields DEF Settled, Shrinks, RuntimeOK, RuntimeState

\* What the reconciliation does to each runtime.
LEMMA ReconcileForm ==
    ASSUME BaseInv, Reconcile
    PROVE  /\ kernel.pc = "reconcile" /\ kernel' \in KernelState /\ kernel'.pc = "edge" /\ Cargo' = Cargo
           /\ UNCHANGED <<vars, ingress, lane, binding, last_sequence, exhausted, via>>
           /\ UNCHANGED <<client_vars, offered, published>>
           /\ current' = [p \in Providers |-> IF p \in Gone THEN None ELSE current[p]]
           /\ DOMAIN runtime' = Bindings /\ runtime' = [b \in Bindings |-> runtime'[b]]
           /\ \A b \in Bindings :
                 \/ runtime'[b] = runtime[b] /\ \A p \in Providers : current[p] # b
                 \/ \E p \in Gone : current[p] = b /\ runtime'[b] = Retired(runtime[b])
                 \/ \E p \in Providers \ Gone : current[p] = b /\ runtime'[b] = Settled(runtime[b])
           /\ sequence_exhausted' = (sequence_exhausted \/ exhausted)
           /\ next_sequence' = IF ~sequence_exhausted' /\ last_sequence >= next_sequence
                               THEN last_sequence + 1 ELSE next_sequence
           /\ foreign' \in [Providers -> 0 .. MaxSequence]
<1> DEFINE kept == {current[p] : p \in Providers \ Gone} \ {None}
           retired == {current[p] : p \in Gone}
<1>1. /\ kernel.pc = "reconcile"
      /\ UNCHANGED <<vars, ingress, lane, binding, last_sequence, exhausted, via>>
      /\ UNCHANGED <<client_vars, offered, published>>
      /\ kernel' = [kernel EXCEPT !.pc = "edge"]
      /\ current' = [p \in Providers |-> IF p \in Gone THEN None ELSE current[p]]
      /\ sequence_exhausted' = (sequence_exhausted \/ exhausted)
      /\ next_sequence' = IF ~sequence_exhausted' /\ last_sequence >= next_sequence
                          THEN last_sequence + 1 ELSE next_sequence
      /\ foreign' = [p \in Providers |-> IF binding[p] # current'[p] THEN binding[p] ELSE None]
    BY DEF Reconcile, PublishOnly, Phase, Gone
<1>2. runtime' = [b \in Bindings |->
                    CASE b \in kept -> Settled(runtime[b])
                      [] b \in retired -> Retired(runtime[b])
                      [] OTHER -> runtime[b]]
    BY DEF Reconcile, Gone, Settled
<1>3. kernel \in KernelState /\ RegistryTypes
    BY DEF BaseInv, TypesInv, ChannelTypes
<1>4. kernel' \in KernelState /\ kernel'.pc = "edge" /\ Cargo' = Cargo
    BY <1>1, <1>3 DEF KernelState, Phases, Cargo
<1>5. ASSUME NEW b \in Bindings
      PROVE  \/ runtime'[b] = runtime[b] /\ \A p \in Providers : current[p] # b
             \/ \E p \in Gone : current[p] = b /\ runtime'[b] = Retired(runtime[b])
             \/ \E p \in Providers \ Gone : current[p] = b /\ runtime'[b] = Settled(runtime[b])
    <2>1. CASE b \in kept /\ runtime'[b] = Settled(runtime[b])
        BY <2>1
    <2>2. CASE b \in retired /\ runtime'[b] = Retired(runtime[b])
        BY <2>2
    <2>3. CASE b \notin kept /\ b \notin retired /\ runtime'[b] = runtime[b]
        <3>1. ASSUME NEW p \in Providers PROVE current[p] # b
            <4>1. b # None
                BY Bounds
            <4>. QED  BY <2>3, <4>1
        <3>. QED  BY <2>3, <3>1
    <2>4. \/ b \in kept /\ runtime'[b] = Settled(runtime[b])
          \/ b \in retired /\ runtime'[b] = Retired(runtime[b])
          \/ b \notin kept /\ b \notin retired /\ runtime'[b] = runtime[b]
        <3>. HIDE DEF kept, retired
        <3>. QED  BY <1>2
    <2>. QED  BY <2>1, <2>2, <2>3, <2>4
<1>6. DOMAIN runtime' = Bindings /\ runtime' = [b \in Bindings |-> runtime'[b]]
    <2>. HIDE DEF kept, retired
    <2>. QED  BY <1>2
<1>7. foreign' \in [Providers -> 0 .. MaxSequence]
    BY <1>1, <1>3, Bounds DEF RegistryTypes, None
<1>. QED  BY <1>1, <1>4, <1>5, <1>6, <1>7

\* The registry is reconciled with the kernel.
LEMMA ReconcileBase ==
    ASSUME BaseInv, Reconcile
    PROVE  BaseInv'
<1>1. /\ kernel.pc = "reconcile" /\ kernel' \in KernelState /\ kernel'.pc = "edge" /\ Cargo' = Cargo
      /\ UNCHANGED <<vars, ingress, lane, binding, last_sequence, exhausted, via>>
      /\ UNCHANGED <<client_vars, offered, published>>
      /\ current' = [p \in Providers |-> IF p \in Gone THEN None ELSE current[p]]
      /\ DOMAIN runtime' = Bindings /\ runtime' = [b \in Bindings |-> runtime'[b]]
      /\ sequence_exhausted' = (sequence_exhausted \/ exhausted)
      /\ next_sequence' = IF ~sequence_exhausted' /\ last_sequence >= next_sequence
                          THEN last_sequence + 1 ELSE next_sequence
      /\ foreign' \in [Providers -> 0 .. MaxSequence]
    BY ReconcileForm
<1>2. PhaseInv /\ RuntimeTypes /\ RegistryTypes
    BY DEF BaseInv, TypesInv
<1>3. /\ kernel'.batch = kernel.batch /\ kernel'.authority = kernel.authority
      /\ kernel'.provider = kernel.provider /\ kernel'.effects = kernel.effects
      /\ kernel'.completions = kernel.completions /\ kernel'.closed = kernel.closed
      /\ effects' = effects /\ completions' = completions
    BY <1>1 DEF Cargo, vars, request_vars
<1>4. PhaseInv'
    BY <1>1, <1>2, <1>3 DEF PhaseInv
<1>5. ASSUME NEW b \in Bindings
      PROVE  /\ runtime'[b] = Unbound \/ RuntimeOK(runtime'[b])
             /\ Bound(b) => runtime'[b].life # "None"
    <2>1. CASE runtime'[b] = runtime[b]
        BY <1>2, <2>1 DEF RuntimeTypes, Bound
    <2>2. ASSUME NEW p \in Providers, current[p] = b,
                 runtime'[b] = Retired(runtime[b]) \/ runtime'[b] = Settled(runtime[b])
          PROVE  RuntimeOK(runtime'[b])
        <3>1. RuntimeOK(runtime[b])
            BY <1>2, <2>2, BoundRecord, Bounds DEF RuntimeTypes
        <3>. QED  BY <2>2, <3>1, RetiredShrinks, SettledShrinks DEF Shrinks
    <2>3. RuntimeOK(runtime'[b]) => runtime'[b].life # "None"
        BY DEF RuntimeOK, RuntimeState, LifeStates
    <2>. QED  BY <2>1, <2>2, <2>3, ReconcileForm DEF Gone
<1>6. \A p \in Providers : current'[p] # None => current'[p] = current[p] /\ current[p] \in Bindings
    BY <1>1, <1>2, Bounds DEF RegistryTypes
<1>7. RuntimeTypes'
    BY <1>1, <1>2, <1>5, <1>6 DEF RuntimeTypes, Bound, RuntimeOK
<1>8. sequence_exhausted' \in BOOLEAN /\ (sequence_exhausted => sequence_exhausted')
        /\ (exhausted => sequence_exhausted')
    BY <1>1, <1>2, Zenon DEF RegistryTypes
<1>9. next_sequence' \in Bindings /\ next_sequence <= next_sequence'
    <2>1. last_sequence \in 0 .. MaxSequence /\ next_sequence \in Bindings
        BY <1>2 DEF RegistryTypes
    <2>2. CASE ~sequence_exhausted' /\ last_sequence >= next_sequence
        <3>1. last_sequence # MaxSequence /\ next_sequence' = last_sequence + 1
            BY <1>1, <1>2, <1>8, <2>2 DEF RegistryTypes
        <3>. QED  BY <2>1, <2>2, <3>1, Bounds DEF Bindings
    <2>3. CASE ~(~sequence_exhausted' /\ last_sequence >= next_sequence)
        BY <1>1, <2>1, <2>3 DEF Bindings
    <2>. QED  BY <2>2, <2>3
<1>10. RegistryTypes'
    BY <1>1, <1>2, <1>8, <1>9, Bounds DEF RegistryTypes, None
<1>11. \A s : Issued(s) /\ s \in 0 .. MaxSequence => Issued(s)'
    <2>1. \A s \in 0 .. MaxSequence : s < next_sequence => s < next_sequence'
        BY <1>2, <1>9 DEF RegistryTypes, Bindings
    <2>. QED  BY <1>8, <2>1 DEF Issued
<1>. QED  BY <1>1, <1>3, <1>4, <1>7, <1>10, <1>11, PublishBase

\* The snapshot is published.
LEMMA PublishEdgeBase ==
    ASSUME BaseInv, PublishEdge
    PROVE  BaseInv'
<1>1. /\ kernel.pc = "edge" /\ kernel' = [kernel EXCEPT !.pc = "authority"]
      /\ UNCHANGED <<vars, ingress, lane, binding, last_sequence, exhausted, via>>
      /\ UNCHANGED <<client_vars, offered, registry_vars, runtime>>
      /\ published' = [p \in Providers |->
            IF current[p] # None /\ runtime[current[p]].life = "Active" THEN current[p] ELSE None]
    BY DEF PublishEdge, PublishOnly, Phase
<1>2. PhaseInv /\ RuntimeTypes /\ RegistryTypes /\ kernel \in KernelState
    BY DEF BaseInv, TypesInv, ChannelTypes
<1>3. kernel' \in KernelState /\ kernel'.pc = "authority" /\ Cargo' = Cargo
    BY <1>1, <1>2 DEF KernelState, Phases, Cargo
<1>4. /\ kernel'.batch = kernel.batch /\ kernel'.authority = kernel.authority
      /\ kernel'.provider = kernel.provider /\ kernel'.effects = kernel.effects
      /\ kernel'.completions = kernel.completions /\ kernel'.closed = kernel.closed
      /\ effects' = effects /\ completions' = completions
    BY <1>1, <1>3 DEF Cargo, vars, request_vars
<1>5. PhaseInv'
    BY <1>1, <1>2, <1>3, <1>4 DEF PhaseInv
<1>6. RuntimeTypes'
    BY <1>1, <1>2 DEF registry_vars, RuntimeTypes, Bound, RuntimeOK
<1>7. RegistryTypes'
    BY <1>1, <1>2, Bounds DEF RegistryTypes, registry_vars, None
<1>8. \A s : Issued(s) /\ s \in 0 .. MaxSequence => Issued(s)'
    BY <1>1 DEF Issued, registry_vars
<1>. QED  BY <1>1, <1>3, <1>4, <1>5, <1>6, <1>7, <1>8, PublishBase

\* A publication to the clients.
LEMMA ClientPublishBase ==
    ASSUME BaseInv, UNCHANGED <<vars, ingress, lane, binding, last_sequence, exhausted, via>>,
           UNCHANGED <<registry_vars, runtime, published>>, kernel' \in KernelState,
           PhaseInv', ClientTypes', ClientsInv', OffersInv', Keeps
    PROVE  BaseInv'
<1>1. /\ ChannelTypes /\ RuntimeTypes /\ RegistryTypes /\ EngineInv /\ ItemsIssued
    BY DEF BaseInv, TypesInv
<1>2. EngineInv'
    BY <1>1, EngineIdle
<1>3. Channel' = Channel
    BY KeepsChannel
<1>4. ChannelTypes' /\ RuntimeTypes' /\ RegistryTypes'
    BY <1>1 DEF registry_vars, ChannelTypes, RuntimeTypes, RegistryTypes, Bound, RuntimeOK
<1>5. ItemsIssued'
    BY <1>1, <1>3 DEF ItemsIssued, OfProvider, Issued, registry_vars
<1>. QED  BY <1>2, <1>4, <1>5 DEF BaseInv, TypesInv

\* The outcome of a close reaches its client.
LEMMA PublishAuthorityBase ==
    ASSUME BaseInv, PublishAuthority
    PROVE  BaseInv'
<1>1. /\ kernel.pc = "authority"
      /\ UNCHANGED <<vars, ingress, lane, binding, last_sequence, exhausted, via>>
      /\ UNCHANGED <<registry_vars, runtime, published, sending, next_authority_sequence, offered>>
    BY DEF PublishAuthority, PublishOnly, Phase
<1>2. /\ ChannelTypes /\ ClientTypes /\ EngineInv /\ PhaseInv /\ ClientsInv /\ OffersInv
      /\ kernel \in KernelState /\ kernel.authority \in Seq(AuthorityOutcomeRecord)
    BY DEF BaseInv, TypesInv, ChannelTypes, KernelState
<1>3. requests' = requests /\ effects' = effects /\ completions' = completions /\ dropped' = dropped
    BY <1>1 DEF vars, request_vars
<1>4. CASE kernel.authority = <<>>
    <2>1. kernel' = [kernel EXCEPT !.pc = "completions"] /\ UNCHANGED <<closing, lifecycle>>
        BY <1>4 DEF PublishAuthority
    <2>2. kernel' \in KernelState /\ kernel'.pc = "completions" /\ Cargo' = Cargo
        BY <1>2, <2>1 DEF KernelState, Phases, Cargo
    <2>3. /\ kernel'.batch = kernel.batch /\ kernel'.authority = kernel.authority
          /\ kernel'.provider = kernel.provider /\ kernel'.effects = kernel.effects
          /\ kernel'.completions = kernel.completions /\ kernel'.closed = kernel.closed
        BY <2>2 DEF Cargo
    <2>4. PhaseInv' /\ Keeps
        BY <1>1, <1>2, <1>3, <1>4, <2>2, <2>3, KeepForm DEF PhaseInv
    <2>5. NoneOpened /\ OffersInv'
        BY <1>1, <1>2, <2>1, <2>3, EngineFrame DEF OffersStay, ClientsInv
    <2>6. ChannelInOrder' /\ Channel' = Channel
        BY <1>2, <2>4, KeepsChannel DEF ClientsInv
    <2>7. ClientsInv' /\ ClientTypes'
        BY <1>1, <1>2, <2>1, <2>3, <2>5, <2>6, ClientsFrame
           DEF AuthorityOutcomes, client_vars, ClientTypes
    <2>. QED  BY <1>1, <2>2, <2>4, <2>5, <2>7, ClientPublishBase
<1>5. CASE kernel.authority # <<>>
    <2> DEFINE w == kernel.authority
               t == Tail(w)
               o == Head(w)
               mine == {x \in closing : x.sequence = o.sequence}
               cs == {x.client : x \in mine}
               more == IF o.closed THEN kernel.closed \cup cs ELSE kernel.closed
    <2>1. /\ \A c \in cs : sending[c] = NotSending
          /\ kernel' = [kernel EXCEPT !.authority = t, !.closed = more]
          /\ closing' = closing \ mine
          /\ lifecycle' = [c \in Clients |-> IF c \in cs
                              THEN [state |-> StateAfter(o.closed), sequence |-> 0]
                              ELSE lifecycle[c]]
        BY <1>2, <1>5 DEF PublishAuthority, Unlocked, KernelState
    <2>2. /\ o \in AuthorityOutcomeRecord /\ o \in Elements(w) /\ t \in Seq(AuthorityOutcomeRecord)
          /\ Elements(w) = {o} \cup Elements(t)
        BY <1>2, <1>5, TailElements
    <2>3. /\ \A c \in cs : c \in Clients /\ lifecycle[c].state = "ClosingSent"
          /\ \A c \in cs : \E x \in closing : x.sequence = o.sequence /\ x.client = c
          /\ \A x \in closing : x.sequence = o.sequence => x.client \in cs
        BY <1>2, ClosingSent DEF ClientTypes
    <2>4. more \subseteq Clients
        BY <1>2, <2>3 DEF KernelState
    <2>5. o.sequence \in 1 .. MaxAuthority /\ o.closed \in BOOLEAN
        BY <2>2 DEF AuthorityOutcomeRecord
    <2>6. more = kernel.closed \cup (IF o.closed THEN cs ELSE {})
        BY DEF more
    <2>7. closing' \subseteq closing /\ \A x \in closing' : x.sequence # o.sequence
        BY <2>1
    <2>8. \A x \in closing : x.sequence # o.sequence => x \in closing'
        BY <2>1
    <2>. HIDE DEF o, t, more, cs, mine
    <2>9. /\ kernel' \in KernelState /\ kernel'.pc = "authority"
          /\ kernel'.authority = t /\ kernel'.closed = more /\ kernel'.batch = kernel.batch
          /\ kernel'.provider = kernel.provider /\ kernel'.effects = kernel.effects
          /\ kernel'.completions = kernel.completions
        BY <1>1, <1>2, <2>1, <2>2, <2>4 DEF KernelState
    <2>10. PhaseInv' /\ Keeps
        BY <1>1, <1>2, <1>3, <2>9, KeepForm DEF PhaseInv
    <2>11. ChannelInOrder' /\ Channel' = Channel
        BY <1>2, <2>10, KeepsChannel DEF ClientsInv
    <2>12. AuthorityOutcomes = {o} \cup AuthorityOutcomes'
        BY <2>2, <2>9 DEF AuthorityOutcomes
    <2>13. /\ \A c \in cs : lifecycle'[c] = [state |-> StateAfter(o.closed), sequence |-> 0]
           /\ \A c \in Clients \ cs : lifecycle'[c] = lifecycle[c]
           /\ StateAfter(o.closed) \in {"CloseSucceeded", "ClosingRetry"}
           /\ StateAfter(o.closed) = "CloseSucceeded" <=> o.closed
           /\ DOMAIN lifecycle' = Clients /\ lifecycle' = [c \in Clients |-> lifecycle'[c]]
        BY <2>1, <2>3, <2>5 DEF StateAfter
    <2>14. ClientTypes'
        <3>1. \A c \in Clients : lifecycle'[c] \in Lifecycle
            BY <1>2, <2>13, BoundsAssumption DEF ClientTypes, Lifecycle
        <3>2. lifecycle' \in [Clients -> Lifecycle]
            BY <2>13, <3>1
        <3>. QED  BY <1>1, <1>2, <2>7, <3>2 DEF ClientTypes
    <2>15. AuthorityInOrder'
        BY <1>1, <1>2, <2>11, <2>12 DEF ClientsInv, AuthorityInOrder, OfAuthority
    <2>16. ClosesRemembered'
        <3>1. ASSUME NEW x \in closing' PROVE x.client \in Clients \ cs
            <4>1. x \in closing /\ x.sequence # o.sequence /\ x.client \in Clients
                BY <1>2, <2>7 DEF ClientTypes
            <4>2. ASSUME x.client \in cs PROVE FALSE
                <5>1. PICK y \in closing : y.sequence = o.sequence /\ y.client = x.client
                    BY <2>3, <4>2
                <5>2. /\ lifecycle[x.client] = [state |-> "ClosingSent", sequence |-> x.sequence]
                      /\ lifecycle[x.client] = [state |-> "ClosingSent", sequence |-> y.sequence]
                    BY <1>2, <4>1, <5>1 DEF ClientsInv, ClosesRemembered
                <5>3. x.sequence = y.sequence
                    BY <5>2
                <5>. QED  BY <4>1, <5>1, <5>3
            <4>. QED  BY <4>1, <4>2
        <3>2. ASSUME NEW z \in Channel, z.kind = "CloseClient"
              PROVE  [sequence |-> z.sequence, client |-> z.client] \in closing'
            <4>1. z.sequence \in 1 .. MaxAuthority /\ OfAuthority(z)
                BY <1>2, <3>2, AuthorityItem DEF OfAuthority, AuthorityKinds
            <4>2. o.sequence < z.sequence
                BY <1>2, <2>12, <4>1 DEF ClientsInv, AuthorityInOrder
            <4>3. [sequence |-> z.sequence, client |-> z.client] \in closing
                BY <1>2, <3>2 DEF ClientsInv, ClosesRemembered
            <4>. QED  BY <2>5, <2>8, <4>1, <4>2, <4>3
        <3>. QED  BY <1>1, <1>2, <2>7, <2>11, <2>13, <3>1, <3>2 DEF ClientsInv, ClosesRemembered
    <2>17. SendersActive'
        BY <1>1, <1>2, <2>1, <2>13 DEF ClientsInv, SendersActive
    <2>18. ASSUME NEW c \in Clients, CloseReduced(c)' PROVE CloseReduced(c)
        <3>1. CASE c \in cs /\ lifecycle'[c].state \in {"CloseSucceeded", "Closed"}
            <4>1. o.closed
                BY <2>13, <3>1
            <4>. QED  BY <2>3, <2>12, <3>1, <4>1 DEF CloseReduced
        <3>2. CASE c \notin cs /\ lifecycle'[c].state \in {"CloseSucceeded", "Closed"}
            BY <2>13, <3>2 DEF CloseReduced
        <3>3. CASE lifecycle'[c].state \notin {"CloseSucceeded", "Closed"}
            BY <2>7, <2>12, <2>18, <3>3 DEF CloseReduced
        <3>. QED  BY <3>1, <3>2, <3>3
    <2>19. ReducedIsQuiet'
        <3>1. ASSUME NEW c \in more PROVE lifecycle'[c].state \in {"CloseSucceeded", "Closed"}
            <4>1. CASE c \in cs /\ o.closed
                <5>1. StateAfter(o.closed) = "CloseSucceeded"
                    BY <2>13, <4>1
                <5>2. lifecycle'[c] = [state |-> StateAfter(o.closed), sequence |-> 0]
                    BY <2>13, <4>1
                <5>. QED  BY <5>1, <5>2
            <4>2. CASE c \in kernel.closed
                <5>1. lifecycle[c].state \in {"CloseSucceeded", "Closed"} /\ c \in Clients
                    BY <1>2, <4>2 DEF ClientsInv, ReducedIsQuiet, KernelState
                <5>2. c \notin cs
                    BY <2>3, <5>1
                <5>. QED  BY <2>13, <5>1, <5>2
            <4>. QED  BY <2>6, <3>1, <4>1, <4>2
        <3>. QED  BY <1>2, <1>3, <2>9, <2>11, <2>18, <3>1 DEF ClientsInv, ReducedIsQuiet, Active
    <2>20. ClientsInv'
        BY <2>11, <2>15, <2>16, <2>17, <2>19 DEF ClientsInv
    <2>21. OffersInv'
        <3>1. \A x \in completions \cup kernel.completions : x.key.client \in Clients
            BY <1>2, EngineTypes DEF KernelState, CompletionEnvelope, Keys
        <3>2. \A c \in Clients : lifecycle'[c].state = "Closed" => lifecycle[c].state = "Closed"
            BY <2>13
        <3>. QED  BY <1>1, <1>2, <1>3, <2>9, <3>1, <3>2 DEF OffersInv, Stored, Active
    <2>. QED  BY <1>1, <2>9, <2>10, <2>14, <2>20, <2>21, ClientPublishBase
<1>. QED  BY <1>4, <1>5

\* The completions are offered.
LEMMA PublishCompletionsBase ==
    ASSUME BaseInv, PublishCompletions
    PROVE  BaseInv'
<1>1. /\ kernel.pc = "completions" /\ kernel' = [kernel EXCEPT !.pc = "finalize", !.completions = {}]
      /\ UNCHANGED <<vars, ingress, lane, binding, last_sequence, exhausted, via>>
      /\ UNCHANGED <<registry_vars, runtime, published, client_vars>>
      /\ offered' = offered \cup {x.accepted : x \in {y \in kernel.completions :
                                    lifecycle[y.key.client].state # "Closed"}}
    BY DEF PublishCompletions, PublishOnly, Phase
<1>2. /\ ChannelTypes /\ ClientTypes /\ EngineInv /\ PhaseInv /\ ClientsInv /\ OffersInv
      /\ kernel \in KernelState
    BY DEF BaseInv, TypesInv, ChannelTypes
<1>3. requests' = requests /\ effects' = effects /\ completions' = completions /\ dropped' = dropped
    BY <1>1 DEF vars, request_vars
<1>4. /\ kernel' \in KernelState /\ kernel'.pc = "finalize" /\ kernel'.completions = {}
      /\ kernel'.batch = kernel.batch /\ kernel'.authority = kernel.authority
      /\ kernel'.provider = kernel.provider /\ kernel'.effects = kernel.effects
      /\ kernel'.closed = kernel.closed
    BY <1>1, <1>2 DEF KernelState, Phases
<1>5. PhaseInv' /\ Keeps /\ completions = {}
    BY <1>1, <1>2, <1>3, <1>4, KeepForm DEF PhaseInv
<1>6. OffersInv'
    <2>1. \A x \in kernel.completions : x.accepted \in offered'
        BY <1>1, <1>2 DEF OffersInv
    <2>2. offered \subseteq offered'
        BY <1>1
    <2>. QED  BY <1>2, <1>3, <1>4, <1>5, <2>1, <2>2 DEF OffersInv, Stored, Active
<1>7. NoneOpened
    BY <1>3 DEF NoneOpened, Active
<1>8. ChannelInOrder' /\ Channel' = Channel
    BY <1>2, <1>5, KeepsChannel DEF ClientsInv
<1>9. ClientsInv' /\ ClientTypes'
    BY <1>1, <1>2, <1>4, <1>7, <1>8, ClientsFrame DEF AuthorityOutcomes, client_vars, ClientTypes
<1>. QED  BY <1>1, <1>4, <1>5, <1>6, <1>9, ClientPublishBase

\* The clients whose close is done are disconnected.
LEMMA FinalizeClosesBase ==
    ASSUME BaseInv, FinalizeCloses
    PROVE  BaseInv'
<1>1. /\ kernel.pc = "finalize" /\ kernel' = Resting
      /\ UNCHANGED <<vars, ingress, lane, binding, last_sequence, exhausted, via>>
      /\ UNCHANGED <<registry_vars, runtime, published, sending, closing, next_authority_sequence, offered>>
      /\ lifecycle' = [c \in Clients |->
            IF c \in kernel.closed THEN [state |-> "Closed", sequence |-> 0] ELSE lifecycle[c]]
    BY DEF FinalizeCloses, PublishOnly, Phase
<1>2. /\ ChannelTypes /\ ClientTypes /\ EngineInv /\ PhaseInv /\ ClientsInv /\ OffersInv
      /\ kernel \in KernelState
    BY DEF BaseInv, TypesInv, ChannelTypes
<1>3. requests' = requests /\ effects' = effects /\ completions' = completions /\ dropped' = dropped
    BY <1>1 DEF vars, request_vars
<1>4. /\ kernel' \in KernelState /\ kernel'.pc = "idle" /\ kernel'.completions = {}
      /\ kernel'.batch = <<>> /\ kernel'.authority = <<>>
      /\ kernel'.provider = <<>> /\ kernel'.effects = {} /\ kernel'.closed = {}
    <2>1. /\ <<>> \in Seq(Item) /\ <<>> \in Seq(ProviderOutcomeRecord)
          /\ <<>> \in Seq(AuthorityOutcomeRecord)
        OBVIOUS
    <2>. QED  BY <1>1, <2>1 DEF Resting, KernelState, Phases
<1>5. PhaseInv' /\ Keeps /\ completions = {} /\ kernel.completions = {}
    BY <1>1, <1>2, <1>3, <1>4, KeepForm DEF PhaseInv
<1>6. ChannelInOrder' /\ Channel' = Channel
    BY <1>2, <1>5, KeepsChannel DEF ClientsInv
<1>7. AuthorityOutcomes' = {}
    BY <1>4 DEF AuthorityOutcomes, Elements
<1>8. /\ \A c \in kernel.closed : /\ c \in Clients
                                  /\ lifecycle[c].state \in {"CloseSucceeded", "Closed"}
                                  /\ lifecycle'[c] = [state |-> "Closed", sequence |-> 0]
                                  /\ lifecycle'[c].state = "Closed"
      /\ \A c \in Clients \ kernel.closed : lifecycle'[c] = lifecycle[c]
    BY <1>1, <1>2 DEF ClientsInv, ReducedIsQuiet, KernelState
<1>9. ClientTypes'
    BY <1>1, <1>2, BoundsAssumption DEF ClientTypes, Lifecycle
<1>10. \A x \in closing : x.client \in Clients \ kernel.closed
    <2>1. ASSUME NEW x \in closing, x.client \in kernel.closed PROVE FALSE
        <3>1. lifecycle[x.client].state = "ClosingSent"
            BY <1>2, ClosingSent
        <3>. QED  BY <1>8, <2>1, <3>1
    <2>. QED  BY <1>2, <2>1 DEF ClientTypes
<1>11. ClosesRemembered'
    BY <1>1, <1>2, <1>6, <1>8, <1>10 DEF ClientsInv, ClosesRemembered
<1>12. AuthorityInOrder'
    BY <1>1, <1>2, <1>6, <1>7 DEF ClientsInv, AuthorityInOrder, OfAuthority
<1>13. SendersActive'
    BY <1>1, <1>2, <1>8 DEF ClientsInv, SendersActive
<1>14. \A c \in Clients : CloseReduced(c)' => CloseReduced(c)
    BY <1>7, <1>8 DEF CloseReduced
<1>15. ReducedIsQuiet'
    BY <1>2, <1>3, <1>4, <1>6, <1>14 DEF ClientsInv, ReducedIsQuiet, Active
<1>16. ClientsInv'
    BY <1>6, <1>11, <1>12, <1>13, <1>15 DEF ClientsInv
<1>17. OffersInv'
    BY <1>1, <1>2, <1>3, <1>4, <1>5 DEF OffersInv, Stored, Active
<1>. QED  BY <1>1, <1>4, <1>5, <1>9, <1>16, <1>17, ClientPublishBase

-----------------------------------------------------------------------------
(* The invariant of the engine, the channel and the clients. *)

\* The engine starts with providers and grants and without requests.
LEMMA PlaneInitEngine == PlaneInit => EngineInv
<1>. SUFFICES ASSUME PlaneInit PROVE EngineInv
    OBVIOUS
<1>1. /\ tick = 1 /\ generations \in [Instances -> Generations]
      /\ instance_states = [i \in Instances |-> "Active"]
      /\ providers = Providers
      /\ requests = [k \in Keys |-> Vacant]
      /\ effects = {} /\ completions = {} /\ dropped = {}
      /\ last_authority_sequence = 1
      /\ next_request_sequence = 1 /\ next_operation_id = 1
      /\ next_effect_sequence = 1 /\ next_completion_sequence = 1
      /\ delivered = {} /\ received = {} /\ approved = {}
      /\ grant_sequence = [pk \in PolicyKeys |-> 1]
      /\ policy_sequence = [pk \in PolicyKeys |-> 1]
    BY DEF PlaneInit
<1>2. PICK mode \in GrantModes :
        grants = [pk \in PolicyKeys |->
                    IF /\ generations[pk.instance] = pk.generation
                       /\ pk.resource \in Offers[pk.provider]
                       /\ OwnerAdmits(pk.provider, pk.client)
                    THEN mode ELSE "None"]
    BY DEF PlaneInit
<1>3. \A k \in Keys : requests[k].status = "Vacant"
    BY <1>1 DEF Vacant
<1>4. TypeOK
    <2>1. grants \in [PolicyKeys -> GrantModes \cup {"None"}]
        BY <1>2
    <2>2. 1 \in 0 .. MaxTick /\ 1 \in 0 .. MaxAuthority
        BY BoundsAssumption, EdgeAssumption
    <2>3. 1 \in 1 .. MaxU64 /\ 1 \in 1 .. (MaxU64 + 1)
        BY BoundsAssumption
    <2>. QED  BY <1>1, <2>1, <2>2, <2>3 DEF TypeOK
<1>5. ActiveAuthorized /\ DeadlineAhead
    BY <1>3 DEF ActiveAuthorized, DeadlineAhead, Active, ActiveStatuses
<1>6. PayloadRetained /\ InvokeMatches /\ OperationsBelow /\ AcceptedBelow
    BY <1>1, <1>3 DEF PayloadRetained, InvokeMatches, OperationsBelow, AcceptedBelow, Stored
<1>7. NotYetDelivered
    BY <1>1 DEF NotYetDelivered
<1>8. GrantsCurrent
    <2>1. ASSUME NEW pk \in PolicyKeys, grants[pk] # "None"
          PROVE  /\ pk.provider \in providers
                 /\ generations[pk.instance] = pk.generation
                 /\ instance_states[pk.instance] = "Active"
        <3>1. generations[pk.instance] = pk.generation
            BY <1>2, <2>1
        <3>2. pk.provider \in Providers /\ pk.instance \in Instances
            BY DEF PolicyKeys
        <3>. QED  BY <1>1, <3>1, <3>2
    <2>. QED  BY <2>1 DEF GrantsCurrent
<1>9. Stored = {} /\ InFlight = {} /\ QueuedCancels = {}
    BY <1>1, <1>3 DEF Stored, InFlight, QueuedCancels
<1>10. RoomForCancels
    BY <1>9, FS_EmptySet, BoundsAssumption DEF RoomForCancels
<1>11. SettledOnce
    <2>1. {requests[k].accepted : k \in {x \in Keys : Active(x)}} = {}
        BY <1>3 DEF Active, ActiveStatuses
    <2>2. 1..(next_request_sequence - 1) = {}
        BY <1>1
    <2>. QED  BY <1>1, <1>3, <2>1, <2>2 DEF SettledOnce
<1>12. HistoryInv
    BY <1>1, <1>3, <1>9, <1>10, <1>11
       DEF HistoryInv, OperationsDistinct, DispatchedInvoked, OpenIsFresh, AcceptedDistinct,
           InvokedOnce, CancelFollowsInvoke, ApprovalBinds, CancelNeverLostToFullQueue,
           Active, ActiveStatuses, is_terminal, TerminalStatuses, ClosedStatuses
<1>. QED  BY <1>1, <1>4, <1>5, <1>6, <1>7, <1>8, <1>12 DEF EngineInv, IndInv

\* Nothing is bound, sent or closing at the start.
LEMMA PlaneInitBase == PlaneInit => BaseInv
<1>. SUFFICES ASSUME PlaneInit PROVE BaseInv
    OBVIOUS
<1>1. EngineInv
    BY PlaneInitEngine
<1>2. /\ ingress = <<>> /\ kernel = Resting
      /\ requests = [k \in Keys |-> Vacant] /\ effects = {} /\ completions = {}
    BY DEF PlaneInit
<1>3. /\ kernel.pc = "idle" /\ kernel.batch = <<>> /\ kernel.provider = <<>>
      /\ kernel.authority = <<>> /\ kernel.effects = {} /\ kernel.completions = {}
      /\ kernel.closed = {} /\ kernel.flush = {}
    BY <1>2 DEF Resting
<1>4. ChannelTypes
    <2>1. kernel \in KernelState
        BY <1>2 DEF Resting, KernelState, Phases
    <2>2. ingress \in Seq(Item) /\ Len(ingress) = 0
        BY <1>2
    <2>. QED  BY <2>1, <2>2, Bounds DEF ChannelTypes
<1>5. RegistryTypes
    <2>1. /\ lane = TRUE /\ exhausted = FALSE /\ sequence_exhausted = FALSE
          /\ binding = [p \in Providers |-> 0] /\ current = [p \in Providers |-> 0]
          /\ foreign = [p \in Providers |-> 0] /\ published = [p \in Providers |-> 0]
          /\ last_sequence = 0 /\ next_sequence = 1 /\ via = [k \in Keys |-> 0]
        BY DEF PlaneInit, None
    <2>2. last_sequence # MaxSequence
        BY <2>1, Bounds
    <2>. QED  BY <2>1, <2>2, Bounds DEF RegistryTypes
<1>6. RuntimeTypes
    BY DEF PlaneInit, RuntimeTypes, Unbound
<1>7. ClientTypes
    <2>1. /\ lifecycle = [c \in Clients |-> [state |-> "Active", sequence |-> 0]]
          /\ sending = [c \in Clients |-> NotSending]
          /\ closing = {} /\ next_authority_sequence = 2
        BY DEF PlaneInit
    <2>2. 2 \in 1 .. MaxAuthority /\ 0 \in 0 .. MaxAuthority
        BY BoundsAssumption, EdgeAssumption
    <2>. QED  BY <2>1, <2>2 DEF ClientTypes, Lifecycle
<1>8. PhaseInv
    BY <1>2, <1>3 DEF PhaseInv
<1>9. InChannel = <<>> /\ Channel = {} /\ AuthorityOutcomes = {}
    BY <1>2, <1>3 DEF InChannel, Channel, AuthorityOutcomes, Elements
<1>10. ItemsIssued
    BY <1>9 DEF ItemsIssued
<1>11. ClientsInv
    <2>1. /\ lifecycle = [c \in Clients |-> [state |-> "Active", sequence |-> 0]]
          /\ sending = [c \in Clients |-> NotSending] /\ closing = {}
        BY DEF PlaneInit
    <2>2. ChannelInOrder
        BY <1>9 DEF ChannelInOrder
    <2>3. AuthorityInOrder /\ ClosesRemembered /\ SendersActive
        BY <1>9, <2>1 DEF AuthorityInOrder, ClosesRemembered, SendersActive
    <2>4. ReducedIsQuiet
        BY <1>3, <1>9, <2>1 DEF ReducedIsQuiet, CloseReduced
    <2>. QED  BY <2>2, <2>3, <2>4 DEF ClientsInv
<1>12. OffersInv
    BY <1>2, <1>3 DEF OffersInv, Stored, Vacant
<1>. QED
    BY <1>1, <1>4, <1>5, <1>6, <1>7, <1>8, <1>10, <1>11, <1>12 DEF BaseInv, TypesInv

\* A step that changes nothing.
LEMMA StutterBase == BaseInv /\ UNCHANGED plane_vars => BaseInv'
<1>. SUFFICES ASSUME BaseInv, UNCHANGED plane_vars PROVE BaseInv'
    OBVIOUS
<1>1. /\ UNCHANGED <<vars, ingress, lane, binding, last_sequence, exhausted, via>>
      /\ UNCHANGED <<registry_vars, runtime, published>>
      /\ UNCHANGED <<client_vars, kernel, offered>>
    BY DEF plane_vars, kernel_vars
<1>2. Keeps /\ BaseInv
    BY <1>1, KeepForm
<1>3. kernel' \in KernelState
    BY <1>1 DEF BaseInv, TypesInv, ChannelTypes
<1>4. UNCHANGED <<requests, effects, completions, dropped>>
    BY <1>1 DEF vars, request_vars
<1>5. PhaseInv'
    BY <1>1, <1>4 DEF BaseInv, PhaseInv
<1>6. ClientTypes'
    BY <1>1 DEF BaseInv, TypesInv, ClientTypes, client_vars
<1>7. ClientsInv'
    <2>1. Channel' = Channel /\ ChannelInOrder'
        BY <1>2, KeepsChannel DEF BaseInv, ClientsInv
    <2>2. NoneOpened
        BY <1>4 DEF NoneOpened, Active
    <2>. QED  BY <1>1, <2>1, <2>2, ClientsFrame DEF BaseInv, AuthorityOutcomes
<1>8. OffersInv'
    BY <1>1, <1>4 DEF BaseInv, OffersInv, Stored, Active, client_vars
<1>. QED  BY <1>1, <1>2, <1>3, <1>5, <1>6, <1>7, <1>8, ClientPublishBase

\* Every step of the threads keeps the invariant.
LEMMA PlaneNextBase == BaseInv /\ [PlaneNext]_plane_vars => BaseInv'
<1>. SUFFICES ASSUME BaseInv, PlaneNext PROVE BaseInv'
    BY StutterBase
<1>1. CASE EdgeNext
    <2>1. ASSUME NEW k \in Keys, NEW pk \in PolicyKeys, NEW d \in Deadlines, Dispatch(k, pk, d)
          PROVE  BaseInv'
        BY <2>1, DispatchBase
    <2>2. ASSUME NEW c \in Clients, DispatchSend(c) \/ CloseClient(c) PROVE BaseInv'
        BY <2>2, DispatchSendBase, CloseClientBase
    <2>3. ASSUME NEW k \in Keys, NEW n \in Sequences, DispatchApproval(k, n) PROVE BaseInv'
        BY <2>3, DispatchAuthorityBase
    <2>4. ASSUME NEW i \in Instances, DispatchControl(i) PROVE BaseInv'
        BY <2>4, DispatchAuthorityBase
    <2>5. CASE \/ \E p \in Providers : bind_provider(p)
               \/ \E b \in Bindings : \/ BeginClose(b) \/ CloseRuntime(b) \/ begin_quiesce(b)
                                      \/ try_recv(b) \/ try_recv_observation_outcome(b)
               \/ \E b \in Bindings, e \in delivered : try_complete(b, e)
        BY <2>5, RuntimeActionsBase
    <2>. QED  BY <1>1, <2>1, <2>2, <2>3, <2>4, <2>5 DEF EdgeNext
<1>2. CASE BeginStep \/ (\E b \in Bindings : FlushBinding(b)) \/ DrainIngress
    BY <1>2, FlushBase, DrainIngressBase
<1>3. CASE ReduceControl \/ ReduceRequest \/ ReduceClose \/ ReduceApproval
    BY <1>3, ReduceControlBase, ReduceRequestBase, ReduceCloseBase, ReduceApprovalBase
<1>4. CASE ReduceProvider \/ RejectItem
    BY <1>4, ReduceProviderBase, RejectItemBase
<1>5. ASSUME NEW p \in Providers, RetireExhausted(p) PROVE BaseInv'
    BY <1>5, RetireExhaustedBase
<1>6. CASE DrainEffects \/ DrainCompletions
    BY <1>6, DrainEffectsBase, DrainCompletionsBase
<1>7. CASE PublishOutcome \/ PublishEffect \/ Reconcile \/ PublishEdge
    BY <1>7, PublishOutcomeBase, PublishEffectBase, ReconcileBase, PublishEdgeBase
<1>8. CASE PublishAuthority \/ PublishCompletions \/ FinalizeCloses
    BY <1>8, PublishAuthorityBase, PublishCompletionsBase, FinalizeClosesBase
<1>. QED
    BY <1>1, <1>2, <1>3, <1>4, <1>5, <1>6, <1>7, <1>8 DEF PlaneNext, KernelNext

-----------------------------------------------------------------------------
(* What the control plane promises. *)

\* The part of the invariant that is about the engine, the channel, the phases
\* of the kernel and the clients holds in every reachable state; in particular
\* the engine keeps all the invariants proved of it alone, although it starts
\* with grants and its inputs come through the channel.
THEOREM PlaneInvariance == PlaneSpec => []BaseInv
<1>1. PlaneInit => BaseInv
    BY PlaneInitBase
<1>2. BaseInv /\ [PlaneNext]_plane_vars => BaseInv'
    BY PlaneNextBase
<1>. QED  BY <1>1, <1>2, PTL DEF PlaneSpec

\* Everything keeps its type and its capacity: the channel, the work queue and
\* the receipts of a runtime (try_send, publish_effect).
THEOREM PlaneTypeCorrect == PlaneSpec => []PlaneTypeOK
<1>1. BaseInv => PlaneTypeOK
    <2>. SUFFICES ASSUME BaseInv PROVE PlaneTypeOK
        OBVIOUS
    <2>1. TypeOK
        BY EngineTypes DEF BaseInv
    <2>2. \A b \in Bindings : \/ runtime[b] = Unbound
                              \/ runtime[b] \in RuntimeState /\ Len(runtime[b].work) <= WorkCapacity
        BY DEF BaseInv, TypesInv, RuntimeTypes, RuntimeOK
    <2>3. /\ Len(ingress) <= IngressCapacity
          /\ lane \in BOOLEAN /\ exhausted \in BOOLEAN /\ sequence_exhausted \in BOOLEAN
          /\ last_sequence \in 0 .. MaxSequence /\ next_sequence \in Bindings
        BY DEF BaseInv, TypesInv, ChannelTypes, RegistryTypes
    <2>4. {binding, current, foreign, published} \subseteq [Providers -> 0 .. MaxSequence]
        BY DEF BaseInv, TypesInv, RegistryTypes
    <2>5. /\ lifecycle \in [Clients -> [state : {"Active", "ClosingSent", "ClosingRetry",
                                                 "CloseSucceeded", "Closed"},
                                        sequence : 0 .. MaxAuthority]]
          /\ next_authority_sequence \in 1 .. MaxAuthority
        BY DEF BaseInv, TypesInv, ClientTypes, Lifecycle
    <2>. QED  BY <2>1, <2>2, <2>3, <2>4, <2>5 DEF PlaneTypeOK
<1>. QED  BY <1>1, PlaneInvariance, PTL

\* A client that closes says nothing more: neither a request nor a second close
\* of it follows in the channel, and once its close is reduced none of its
\* requests is open (close_client and dispatch under the client's lock).
THEOREM ClosedClientsAreQuiet == PlaneSpec => []NothingFollowsClose
<1>1. BaseInv => NothingFollowsClose
    <2>. SUFFICES ASSUME BaseInv PROVE NothingFollowsClose
        OBVIOUS
    <2>1. ClientsInv /\ ChannelTypes
        BY DEF BaseInv, TypesInv
    <2>2. ASSUME NEW j \in 1 .. Len(InChannel), NEW m \in 1 .. Len(InChannel), j < m,
                 InChannel[j].kind = "CloseClient"
          PROVE  /\ InChannel[m].kind = "CloseClient" => InChannel[m].client # InChannel[j].client
                 /\ InChannel[m].kind = "Request" => InChannel[m].key.client # InChannel[j].client
        <3>. DEFINE a == InChannel[j]
                    z == InChannel[m]
        <3>1. a \in Channel /\ z \in Channel
            BY DEF Channel, Elements
        <3>2. InOrder(a, z) /\ a.kind = "CloseClient"
            BY <2>1, <2>2 DEF ClientsInv, ChannelInOrder
        <3>. HIDE DEF a, z
        <3>3. ASSUME z.kind = "CloseClient", z.client = a.client PROVE FALSE
            <4>1. /\ [sequence |-> a.sequence, client |-> a.client] \in closing
                  /\ [sequence |-> z.sequence, client |-> z.client] \in closing
                BY <2>1, <3>1, <3>2, <3>3 DEF ClientsInv, ClosesRemembered
            <4>2. /\ lifecycle[a.client] = [state |-> "ClosingSent", sequence |-> a.sequence]
                  /\ lifecycle[z.client] = [state |-> "ClosingSent", sequence |-> z.sequence]
                BY <2>1, <4>1 DEF ClientsInv, ClosesRemembered
            <4>3. a.sequence = z.sequence
                BY <3>3, <4>2
            <4>4. a.sequence < z.sequence /\ a.sequence \in Nat
                BY <2>1, <3>1, <3>2, <3>3, AuthorityItem, BoundsAssumption
                   DEF InOrder, OfAuthority, AuthorityKinds
            <4>. QED  BY <4>3, <4>4
        <3>4. z.kind = "Request" => z.key.client # a.client
            BY <3>2 DEF InOrder
        <3>. QED  BY <3>3, <3>4 DEF a, z
    <2>3. ASSUME NEW c \in Clients, lifecycle[c].state \in {"CloseSucceeded", "Closed"}
          PROVE  (\A k \in Keys : k.client = c => ~Active(k)) /\ sending[c] = NotSending
        BY <2>1, <2>3 DEF ClientsInv, ReducedIsQuiet, CloseReduced, SendersActive
    <2>. QED  BY <2>2, <2>3 DEF NothingFollowsClose
<1>. QED  BY <1>1, PlaneInvariance, PTL

\* A client is disconnected only after the completion of each of its stored
\* requests was offered to it or counted as dropped (publish_step,
\* finalize_client_close).
THEOREM CompletionsBeforeDisconnect == PlaneSpec => []OfferedBeforeClosed
<1>1. BaseInv => OfferedBeforeClosed
    <2>. SUFFICES ASSUME BaseInv, NEW k \in Keys, lifecycle[k.client].state = "Closed",
                         requests[k].status # "Vacant"
                  PROVE  requests[k].accepted \in offered \cup dropped
        BY DEF OfferedBeforeClosed
    <2>1. k.client \in Clients
        BY DEF Keys
    <2>2. ~Active(k) /\ k \in Stored
        BY <2>1 DEF BaseInv, ClientsInv, ReducedIsQuiet, CloseReduced, Stored
    <2>3. ~ \E x \in completions \cup kernel.completions : x.key = k
        BY DEF BaseInv, OffersInv
    <2>. QED  BY <2>2, <2>3 DEF BaseInv, OffersInv
<1>. QED  BY <1>1, PlaneInvariance, PTL
=============================================================================
