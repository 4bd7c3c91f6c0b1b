--------------------- MODULE ControlPlaneRegistryProofs ---------------------
(***************************************************************************)
(* Proofs about ControlPlane, continued: the registry, the runtimes and    *)
(* the bindings of the kernel agree (RegistryInv), and the effects of the  *)
(* engine reach the runtimes that their requests were sent to, which know  *)
(* what to do with them (EffectsInv).                                      *)
(***************************************************************************)
EXTENDS ControlPlaneProofs

-----------------------------------------------------------------------------
(* The inductive invariant: provider sequences, runtimes and bindings. *)

\* Provider sequences are reduced in the order in which they were given out.
SequencesInOrder ==
    /\ Issued(last_sequence)
    /\ \A z \in Channel : OfProvider(z) => z.sequence > last_sequence
    /\ \A o \in ProviderOutcomes :
          /\ Issued(o.sequence)
          /\ \A z \in Channel : OfProvider(z) => o.sequence < z.sequence

\* What a runtime waits for, by the sequence it waits for.
RuntimeIssued(b) ==
    LET r == runtime[b]
    IN  /\ Issued(b)
        /\ r.life = "AttachSent" => r.sequence = b
        /\ r.life = "DetachSent" => r.sequence > b /\ Issued(r.sequence)
        /\ r.life = "ClosingRetry" => r.sequence \in {0, b}
        /\ \A m \in r.pending : Issued(m.sequence)

RuntimesIssued == \A b \in Bindings : Bound(b) => RuntimeIssued(b)

Belongs(b, p) == b \in Bindings /\ Bound(b) /\ runtime[b].provider = p

\* What is registered exists and is not closed.
CurrentKnown ==
    \A p \in Providers : current[p] # None =>
        Belongs(current[p], p) /\ runtime[current[p]].life # "Closed"

\* What the kernel has bound is registered; with the last sequence that ends.
BoundKnown ==
    \A p \in Providers : binding[p] # None =>
        /\ Belongs(binding[p], p)
        /\ binding[p] <= last_sequence
        /\ current[p] = binding[p] \/ sequence_exhausted

\* An item in the channel is known to its runtime: an attach comes first and
\* nobody has forgotten it, a detach is the one that its runtime waits for.
ItemKnown(z) ==
    LET r == runtime[z.binding]
    IN  /\ Belongs(z.binding, z.provider)
        /\ Bound(z.sequence) => z.kind = "Attach"
        /\ \A b \in Bindings : Bound(b) /\ runtime[b].life = "DetachSent"
              /\ runtime[b].sequence = z.sequence => z.kind = "Detach" /\ z.binding = b
        /\ z.kind = "Attach" =>
              /\ z.sequence = z.binding
              /\ ~Serves(r)
              /\ \/ sequence_exhausted
                 \/ /\ current[z.provider] = z.binding
                    /\ r.life = "ClosingRetry" => r.sequence # 0
        /\ z.kind # "Attach" => z.binding < z.sequence
        /\ z.kind = "Detach" => r.life # "AttachSent" /\ ~Serves(r)

ItemsKnown == \A z \in Channel : OfProvider(z) => ItemKnown(z)

\* An outcome that is not yet published tells the truth about the binding.
OutcomeKnown(o) ==
    LET b == o.binding
        r == runtime[b]
    IN  /\ Belongs(b, o.provider)
        /\ Bound(o.sequence) =>
              o.sequence = b /\ o.result \notin {"Detached", "Applied", "Ignored"}
        /\ o.result = "Attached" /\ r.life = "AttachSent" => binding[o.provider] = b \/ exhausted
        /\ o.result # "Attached" /\ o.sequence = b => binding[o.provider] # b
        /\ /\ r.life = "DetachSent" /\ r.sequence = o.sequence
           /\ o.result \notin {"IntegrationBlocked", "SequenceRegressed"}
           => binding[o.provider] # b

OutcomesKnown == \A o \in ProviderOutcomes : OutcomeKnown(o)

\* A registered runtime that serves is bound until the kernel retires all.
ServingIsBound ==
    \A p \in Providers : current[p] # None /\ Serves(runtime[current[p]]) =>
        binding[p] = current[p] \/ exhausted

\* After the last sequence nothing stays bound, nor registered.
ExhaustedIsEmpty ==
    exhausted =>
        /\ kernel.pc # "reduce" => \A p \in Providers : binding[p] = None
        /\ kernel.pc \in {"idle", "flush", "edge", "authority", "completions", "finalize"} =>
              \A p \in Providers : current[p] = None

RegistryInv ==
    /\ SequencesInOrder /\ RuntimesIssued /\ CurrentKnown /\ BoundKnown
    /\ ItemsKnown /\ OutcomesKnown /\ ServingIsBound /\ ExhaustedIsEmpty

-----------------------------------------------------------------------------
(* How runtimes evolve. *)

\* The life of a runtime without news from the kernel.
Moves(r, s) ==
    \/ s.life = r.life /\ s.sequence = r.sequence
    \/ r.life = "Active" /\ s.life = "Quiescing"
    \/ /\ s.life = "ClosingRetry"
       /\ s.sequence = (IF r.life \in {"AttachSent", "ClosingRetry"} THEN r.sequence ELSE 0)
    \/ s.life = "Closed"

\* The attach of b is not on its way.
NoAttach(b) == \A z \in Channel : z.kind = "Attach" => z.binding # b

\* The next sequence is given out in this step.
GivesOut ==
    /\ ~sequence_exhausted
    /\ next_sequence < next_sequence' \/ sequence_exhausted'

\* What a step may do to the runtime b.
Evolves(b) ==
    LET r == runtime[b]
        s == runtime'[b]
    IN  \/ runtime'[b] = runtime[b]
        \/ /\ Bound(b) /\ s.life # "None" /\ s.provider = r.provider
           /\ \A m \in s.pending : m \in r.pending \/ (m.sequence = next_sequence /\ GivesOut)
           /\ \/ /\ Moves(r, s)
                 /\ r.life = "DetachSent" /\ s.life = "ClosingRetry" =>
                       NoAttach(b) \/ sequence_exhausted'
              \/ /\ r.life = "AttachSent" /\ s.life = "Active"
                 /\ NoAttach(b) /\ (binding[r.provider] = b \/ exhausted)
              \/ /\ GivesOut /\ s.life = "DetachSent" /\ s.sequence = next_sequence
        \/ /\ ~Bound(b) /\ GivesOut /\ b = next_sequence
           /\ s.life = "AttachSent" /\ s.sequence = b /\ s.pending = {}

\* What a step may do to the registration of p.
Registers(p) ==
    \/ /\ current'[p] = current[p]
       /\ current[p] # None => runtime'[current[p]].life # "Closed"
    \/ /\ current'[p] = None
       /\ \/ sequence_exhausted'
          \/ binding[p] # current[p] /\ NoAttach(current[p])
    \/ /\ current[p] = None /\ GivesOut /\ ~Bound(next_sequence)
       /\ current'[p] = next_sequence /\ runtime'[next_sequence].life = "AttachSent"
       /\ runtime'[next_sequence].provider = p

\* An item that is sent in this step.
NewItem(z) == GivesOut /\ z \in BindItem \cup ObserveItem /\ z.sequence = next_sequence /\ ItemKnown(z)'

\* The sequences of the registry only go on.
SequencesStay ==
    /\ next_sequence' \in Bindings /\ next_sequence <= next_sequence'
    /\ sequence_exhausted => sequence_exhausted'

EvolvesAll ==
    /\ UNCHANGED <<binding, last_sequence, exhausted>> /\ SequencesStay
    /\ \A b \in Bindings : Evolves(b)
    /\ \A p \in Providers : Registers(p)
    /\ \A z \in Channel' : OfProvider(z) => z \in Channel \/ NewItem(z)
    /\ ProviderOutcomes' \subseteq ProviderOutcomes

\* The sequence s is given out after the step.
IssuedNext(s) == s < next_sequence' \/ sequence_exhausted'

\* A sequence that was given out stays given out, and is not the next one.
LEMMA IssuedStays ==
    ASSUME SequencesStay, next_sequence \in Bindings, NEW s \in 0 .. MaxSequence, Issued(s)
    PROVE  /\ IssuedNext(s)
           /\ ~sequence_exhausted => s < next_sequence
BY Bounds DEF SequencesStay, Issued, IssuedNext, Bindings

\* Sequences stay in order.
LEMMA EvolvesSequences ==
    ASSUME BaseInv, RegistryInv, EvolvesAll
    PROVE  SequencesInOrder'
<1>1. /\ SequencesInOrder /\ SequencesStay /\ next_sequence \in Bindings
      /\ last_sequence \in 0 .. MaxSequence /\ last_sequence' = last_sequence /\ ChannelTypes
    BY DEF BaseInv, TypesInv, RegistryTypes, RegistryInv, EvolvesAll
<1>2. ASSUME NEW o \in ProviderOutcomes PROVE o.sequence \in 0 .. MaxSequence
    <2>1. kernel.provider \in Seq(ProviderOutcomeRecord)
        BY <1>1 DEF ChannelTypes, KernelState
    <2>2. o \in ProviderOutcomeRecord
        BY <1>2, <2>1 DEF ProviderOutcomes, Elements
    <2>. QED  BY <2>2, Bounds DEF ProviderOutcomeRecord
<1>3. Issued(last_sequence)'
    BY <1>1, IssuedStays DEF SequencesInOrder, Issued, IssuedNext
<1>4. ASSUME NEW z \in Channel', OfProvider(z)
      PROVE  z.sequence > last_sequence /\ \A o \in ProviderOutcomes' : o.sequence < z.sequence
    <2>1. CASE z \in Channel
        BY <1>1, <1>4, <2>1 DEF SequencesInOrder, EvolvesAll, OfProvider
    <2>2. CASE NewItem(z)
        <3>1. z.sequence = next_sequence /\ ~sequence_exhausted
            BY <2>2 DEF NewItem, GivesOut
        <3>2. last_sequence < next_sequence
            BY <1>1, <3>1, IssuedStays DEF SequencesInOrder
        <3>3. ASSUME NEW o \in ProviderOutcomes' PROVE o.sequence < next_sequence
            <4>1. o \in ProviderOutcomes /\ Issued(o.sequence)
                BY <1>1 DEF EvolvesAll, SequencesInOrder
            <4>. QED  BY <1>1, <1>2, <3>1, <4>1, IssuedStays
        <3>. QED  BY <1>1, <3>1, <3>2, <3>3 DEF Bindings
    <2>. QED  BY <1>4, <2>1, <2>2 DEF EvolvesAll
<1>5. ASSUME NEW o \in ProviderOutcomes' PROVE Issued(o.sequence)'
    <2>1. o \in ProviderOutcomes /\ Issued(o.sequence)
        BY <1>1 DEF EvolvesAll, SequencesInOrder
    <2>. QED  BY <1>1, <1>2, <2>1, IssuedStays DEF Issued, IssuedNext
<1>. QED  BY <1>1, <1>3, <1>4, <1>5 DEF SequencesInOrder, OfProvider

\* A runtime that exists stays, with its provider.
LEMMA EvolvesBelongs ==
    ASSUME EvolvesAll, NEW b \in Bindings, Bound(b)
    PROVE  /\ Bound(b)' /\ runtime'[b].provider = runtime[b].provider
           /\ \A p : Belongs(b, p) => Belongs(b, p)'
BY DEF EvolvesAll, Evolves, Bound, Belongs

\* What is known of every runtime before the step.
LEMMA RuntimeKnown ==
    ASSUME BaseInv, RegistryInv, NEW b \in Bindings, Bound(b)
    PROVE  /\ RuntimeOK(runtime[b]) /\ RuntimeIssued(b)
           /\ b \in 0 .. MaxSequence /\ next_sequence \in Bindings
           /\ runtime[b].sequence \in 0 .. MaxSequence /\ runtime[b].life \in LifeStates
           /\ \A m \in runtime[b].pending : m.sequence \in 0 .. MaxSequence
           /\ ~sequence_exhausted => b < next_sequence
<1>1. RuntimeTypes /\ next_sequence \in Bindings
    BY DEF BaseInv, TypesInv, RegistryTypes
<1>2. RuntimeOK(runtime[b])
    BY <1>1, BoundRecord
<1>3. RuntimeIssued(b)
    BY DEF RegistryInv, RuntimesIssued
<1>4. ASSUME NEW m \in runtime[b].pending PROVE m.sequence \in 0 .. MaxSequence
    <2>1. runtime[b].pending \subseteq [sequence : Bindings, effect : EffectEnvelope]
        BY <1>2, RuntimeFields
    <2>. QED  BY <2>1, Bounds
<1>. QED  BY <1>1, <1>2, <1>3, <1>4, RuntimeFields, Bounds DEF RuntimeIssued, Issued

\* Runtimes wait for sequences that were given out.
LEMMA EvolvesRuntimes ==
    ASSUME BaseInv, RegistryInv, EvolvesAll
    PROVE  RuntimesIssued'
<1>1. SequencesStay /\ next_sequence \in Bindings
    BY DEF BaseInv, TypesInv, RegistryTypes, EvolvesAll
<1>. SUFFICES ASSUME NEW b \in Bindings, Bound(b)' PROVE RuntimeIssued(b)'
    BY DEF RuntimesIssued
<1>2. Evolves(b)
    BY DEF EvolvesAll
<1>3. GivesOut => IssuedNext(next_sequence)
    BY DEF GivesOut, IssuedNext
<1>4. SUFFICES LET s == runtime'[b]
               IN  /\ IssuedNext(b)
                   /\ s.life = "AttachSent" => s.sequence = b
                   /\ s.life = "DetachSent" => s.sequence > b /\ IssuedNext(s.sequence)
                   /\ s.life = "ClosingRetry" => s.sequence \in {0, b}
                   /\ \A m \in s.pending : IssuedNext(m.sequence)
    BY DEF RuntimeIssued, Issued, IssuedNext
<1>5. CASE ~Bound(b)
    <2>1. /\ GivesOut /\ b = next_sequence /\ runtime'[b].life = "AttachSent"
          /\ runtime'[b].sequence = b /\ runtime'[b].pending = {}
        BY <1>2, <1>5 DEF Evolves, Bound
    <2>. QED  BY <1>3, <2>1
<1>6. CASE Bound(b)
    <2>. DEFINE r == runtime[b]
                s == runtime'[b]
    <2>1. /\ RuntimeIssued(b) /\ b \in 0 .. MaxSequence /\ r.sequence \in 0 .. MaxSequence
          /\ r.life \in LifeStates
          /\ \A m \in r.pending : m.sequence \in 0 .. MaxSequence
          /\ ~sequence_exhausted => b < next_sequence
        BY <1>6, RuntimeKnown
    <2>2. /\ IssuedNext(b)
          /\ r.life = "DetachSent" => r.sequence > b /\ IssuedNext(r.sequence)
          /\ r.life = "AttachSent" => r.sequence = b
          /\ r.life = "ClosingRetry" => r.sequence \in {0, b}
          /\ \A m \in r.pending : IssuedNext(m.sequence)
        BY <1>1, <2>1, IssuedStays DEF RuntimeIssued
    <2>3. CASE s = r
        BY <2>2, <2>3
    <2>4. CASE s # r
        <3>1. /\ \A m \in s.pending : m \in r.pending \/ (m.sequence = next_sequence /\ GivesOut)
              /\ \/ Moves(r, s)
                 \/ s.life = "Active"
                 \/ GivesOut /\ s.life = "DetachSent" /\ s.sequence = next_sequence
            BY <1>2, <1>6, <2>4 DEF Evolves
        <3>2. \A m \in s.pending : IssuedNext(m.sequence)
            BY <1>3, <2>2, <3>1
        <3>3. CASE Moves(r, s)
            BY <2>2, <3>2, <3>3 DEF Moves
        <3>4. CASE s.life = "Active"
            BY <2>2, <3>2, <3>4
        <3>5. CASE GivesOut /\ s.life = "DetachSent" /\ s.sequence = next_sequence
            BY <1>1, <1>3, <2>1, <2>2, <3>2, <3>5 DEF GivesOut, Bindings
        <3>. QED  BY <3>1, <3>3, <3>4, <3>5
    <2>. QED  BY <2>3, <2>4
<1>. QED  BY <1>5, <1>6

\* What is registered exists and is not closed.
LEMMA EvolvesCurrent ==
    ASSUME BaseInv, RegistryInv, EvolvesAll
    PROVE  CurrentKnown'
<1>. SUFFICES ASSUME NEW p \in Providers, current'[p] # None
              PROVE  /\ current'[p] \in Bindings /\ runtime'[current'[p]].life # "None"
                     /\ runtime'[current'[p]].provider = p /\ runtime'[current'[p]].life # "Closed"
    BY DEF CurrentKnown, Belongs, Bound
<1>1. Registers(p) /\ next_sequence \in Bindings
    BY DEF EvolvesAll, BaseInv, TypesInv, RegistryTypes
<1>2. CASE current'[p] = current[p] /\ runtime'[current[p]].life # "Closed"
    <2>1. Belongs(current[p], p)
        BY <1>2 DEF RegistryInv, CurrentKnown
    <2>2. runtime'[current[p]].life # "None" /\ runtime'[current[p]].provider = p
        BY <2>1, EvolvesBelongs DEF Belongs, Bound
    <2>. QED  BY <1>2, <2>1, <2>2 DEF Belongs
<1>3. CASE /\ current'[p] = next_sequence /\ runtime'[next_sequence].life = "AttachSent"
           /\ runtime'[next_sequence].provider = p
    BY <1>1, <1>3
<1>. QED  BY <1>1, <1>2, <1>3 DEF Registers

\* What is bound stays registered.
LEMMA EvolvesBound ==
    ASSUME BaseInv, RegistryInv, EvolvesAll
    PROVE  BoundKnown'
<1>1. UNCHANGED <<binding, last_sequence>> /\ SequencesStay
    BY DEF EvolvesAll
<1>. SUFFICES ASSUME NEW p \in Providers, binding[p] # None
              PROVE  /\ (Belongs(binding[p], p))'
                     /\ binding[p] <= last_sequence
                     /\ current'[p] = binding[p] \/ sequence_exhausted'
    BY <1>1 DEF BoundKnown
<1>2. /\ Belongs(binding[p], p) /\ binding[p] <= last_sequence
      /\ current[p] = binding[p] \/ sequence_exhausted
    BY DEF RegistryInv, BoundKnown
<1>3. (Belongs(binding[p], p))'
    BY <1>1, <1>2, EvolvesBelongs DEF Belongs
<1>4. current'[p] = binding[p] \/ sequence_exhausted'
    <2>1. Registers(p)
        BY DEF EvolvesAll
    <2>. QED  BY <1>1, <1>2, <2>1 DEF Registers, SequencesStay, GivesOut
<1>. QED  BY <1>2, <1>3, <1>4

\* What serves stays bound.
LEMMA EvolvesServing ==
    ASSUME BaseInv, RegistryInv, EvolvesAll
    PROVE  ServingIsBound'
<1>. SUFFICES ASSUME NEW p \in Providers, current'[p] # None, Serves(runtime'[current'[p]])
              PROVE  binding[p] = current'[p] \/ exhausted
    BY DEF EvolvesAll, ServingIsBound, Serves
<1>1. current'[p] = current[p]
    <2>1. Registers(p)
        BY DEF EvolvesAll
    <2>. QED  BY <2>1 DEF Registers, Serves
<1>. DEFINE b == current[p]
<1>2. Belongs(b, p) /\ b \in Bindings /\ Evolves(b)
    BY <1>1 DEF RegistryInv, CurrentKnown, Belongs, EvolvesAll
<1>3. CASE Serves(runtime[b])
    BY <1>1, <1>3 DEF RegistryInv, ServingIsBound
<1>4. CASE ~Serves(runtime[b])
    BY <1>1, <1>2, <1>4 DEF Evolves, Moves, Serves, Belongs
<1>. QED  BY <1>3, <1>4

\* Items that were in the channel stay known.
LEMMA EvolvesOldItem ==
    ASSUME BaseInv, RegistryInv, EvolvesAll, NEW z \in Channel, OfProvider(z)
    PROVE  ItemKnown(z)'
<1>1. /\ SequencesStay /\ next_sequence \in Bindings /\ ChannelTypes /\ ItemsIssued /\ ItemKnown(z)
      /\ exhausted' = exhausted
    BY DEF BaseInv, TypesInv, RegistryTypes, EvolvesAll, RegistryInv, ItemsKnown
<1>2. /\ z.sequence \in 0 .. MaxSequence /\ z.sequence \in Bindings /\ z.binding \in Bindings
      /\ z.provider \in Providers
    BY <1>1, ProviderItem
<1>3. Issued(z.sequence) /\ (~sequence_exhausted => z.sequence < next_sequence)
    BY <1>1, <1>2, IssuedStays DEF ItemsIssued
<1>4. z.sequence # next_sequence \/ ~GivesOut
    BY <1>1, <1>2, <1>3 DEF GivesOut, Bindings
<1>. DEFINE b == z.binding
            r == runtime[b]
            s == runtime'[b]
<1>5. Bound(b) /\ Belongs(b, z.provider) /\ Evolves(b)
    BY <1>1, <1>2 DEF ItemKnown, Belongs, EvolvesAll
<1>6. Belongs(b, z.provider)'
    BY <1>2, <1>5, EvolvesBelongs
<1>7. ASSUME (Bound(z.sequence))' PROVE z.kind = "Attach"
    <2>1. Evolves(z.sequence)
        BY <1>2 DEF EvolvesAll
    <2>2. Bound(z.sequence)
        BY <1>4, <1>7, <2>1 DEF Evolves, Bound
    <2>. QED  BY <1>1, <2>2 DEF ItemKnown
<1>8. ASSUME NEW a \in Bindings, runtime'[a].life = "DetachSent",
             runtime'[a].sequence = z.sequence
      PROVE  z.kind = "Detach" /\ z.binding = a
    <2>1. Evolves(a)
        BY DEF EvolvesAll
    <2>2. Bound(a) /\ runtime[a].life = "DetachSent" /\ runtime[a].sequence = z.sequence
        BY <1>4, <1>8, <2>1 DEF Evolves, Moves, Bound
    <2>. QED  BY <1>1, <2>2 DEF ItemKnown
<1>9. (s.life = r.life /\ s.sequence = r.sequence) \/ (s # r /\ Bound(b))
    BY <1>5
<1>10. ASSUME z.kind = "Attach"
       PROVE  /\ z.sequence = b /\ ~Serves(s)
              /\ \/ sequence_exhausted'
                 \/ current'[z.provider] = b /\ (s.life = "ClosingRetry" => s.sequence # 0)
    <2>1. /\ z.sequence = b /\ ~Serves(r)
          /\ \/ sequence_exhausted
             \/ current[z.provider] = b /\ (r.life = "ClosingRetry" => r.sequence # 0)
        BY <1>1, <1>10 DEF ItemKnown
    <2>2. ~NoAttach(b)
        BY <1>10 DEF NoAttach
    <2>3. RuntimeIssued(b)
        BY <1>2, <1>5, RuntimeKnown
    <2>4. ~Serves(s)
        BY <1>5, <2>1, <2>2 DEF Evolves, Moves, Serves
    <2>5. sequence_exhausted' \/ current'[z.provider] = b
        <3>1. Registers(z.provider)
            BY <1>2 DEF EvolvesAll
        <3>. QED  BY <1>1, <1>2, <2>1, <2>2, <3>1, Bounds DEF Registers, SequencesStay, GivesOut
    <2>6. ASSUME ~sequence_exhausted', s.life = "ClosingRetry" PROVE s.sequence # 0
        <3>1. r.life = "ClosingRetry" => r.sequence # 0
            BY <1>1, <2>1, <2>6 DEF SequencesStay
        <3>2. r.life = "AttachSent" => r.sequence # 0
            BY <1>2, <2>3, Bounds DEF RuntimeIssued, None
        <3>3. r.life = "DetachSent" => s = r
            BY <1>5, <2>2, <2>6 DEF Evolves
        <3>4. r.life \in {"AttachSent", "ClosingRetry", "DetachSent", "Closed"}
            BY <1>2, <1>5, <2>1, RuntimeKnown DEF Serves, LifeStates
        <3>5. r.life # "Closed"
            <4>1. current[z.provider] = b
                BY <1>1, <2>1, <2>6 DEF SequencesStay
            <4>. QED  BY <1>2, <4>1, Bounds DEF RegistryInv, CurrentKnown
        <3>6. s = r \/ Moves(r, s)
            BY <1>5, <2>6 DEF Evolves
        <3>. QED  BY <2>6, <3>1, <3>2, <3>3, <3>4, <3>5, <3>6 DEF Moves
    <2>. QED  BY <2>1, <2>4, <2>5, <2>6
<1>11. z.kind # "Attach" => b < z.sequence
    BY <1>1 DEF ItemKnown
<1>12. ASSUME z.kind = "Detach" PROVE s.life # "AttachSent" /\ ~Serves(s)
    <2>1. r.life # "AttachSent" /\ ~Serves(r)
        BY <1>1, <1>12 DEF ItemKnown
    <2>. QED  BY <1>5, <2>1 DEF Evolves, Moves, Serves
<1>. HIDE DEF b, s
<1>13. /\ Belongs(z.binding, z.provider)'
       /\ (Bound(z.sequence))' => z.kind = "Attach"
       /\ \A a \in Bindings : (Bound(a))' /\ runtime'[a].life = "DetachSent"
              /\ runtime'[a].sequence = z.sequence => z.kind = "Detach" /\ z.binding = a
       /\ z.kind = "Attach" =>
              /\ z.sequence = z.binding
              /\ ~Serves(runtime'[z.binding])
              /\ \/ sequence_exhausted'
                 \/ /\ current'[z.provider] = z.binding
                    /\ runtime'[z.binding].life = "ClosingRetry" => runtime'[z.binding].sequence # 0
       /\ z.kind # "Attach" => z.binding < z.sequence
       /\ z.kind = "Detach" => runtime'[z.binding].life # "AttachSent" /\ ~Serves(runtime'[z.binding])
    BY <1>6, <1>7, <1>8, <1>10, <1>11, <1>12 DEF b, s
<1>. QED  BY <1>13 DEF ItemKnown, Serves

LEMMA EvolvesItems ==
    ASSUME BaseInv, RegistryInv, EvolvesAll
    PROVE  ItemsKnown'
<1>. SUFFICES ASSUME NEW z \in Channel', OfProvider(z) PROVE ItemKnown(z)'
    BY DEF ItemsKnown, OfProvider
<1>. QED  BY EvolvesOldItem DEF EvolvesAll, NewItem

\* Outcomes stay true.
LEMMA EvolvesOutcomes ==
    ASSUME BaseInv, RegistryInv, EvolvesAll
    PROVE  OutcomesKnown'
<1>. SUFFICES ASSUME NEW o \in ProviderOutcomes' PROVE OutcomeKnown(o)'
    BY DEF OutcomesKnown
<1>1. /\ next_sequence \in Bindings /\ ChannelTypes /\ OutcomeKnown(o) /\ o \in ProviderOutcomes
      /\ SequencesStay /\ Issued(o.sequence) /\ UNCHANGED <<binding, exhausted>>
    BY DEF BaseInv, TypesInv, RegistryTypes, EvolvesAll, RegistryInv, OutcomesKnown, SequencesInOrder
<1>2. o.sequence \in Bindings /\ o.sequence \in 0 .. MaxSequence /\ o.binding \in Bindings
    <2>1. kernel.provider \in Seq(ProviderOutcomeRecord)
        BY <1>1 DEF ChannelTypes, KernelState
    <2>2. o \in ProviderOutcomeRecord
        BY <1>1, <2>1 DEF ProviderOutcomes, Elements
    <2>. QED  BY <2>2, Bounds DEF ProviderOutcomeRecord
<1>3. o.sequence # next_sequence \/ ~GivesOut
    BY <1>1, <1>2, IssuedStays DEF GivesOut, Bindings
<1>. DEFINE b == o.binding
            r == runtime[b]
            s == runtime'[b]
<1>4. Bound(b) /\ Belongs(b, o.provider) /\ Evolves(b)
    BY <1>1, <1>2 DEF OutcomeKnown, Belongs, EvolvesAll
<1>5. Belongs(b, o.provider)'
    BY <1>2, <1>4, EvolvesBelongs
<1>6. (Bound(o.sequence))' => Bound(o.sequence)
    <2>1. Evolves(o.sequence)
        BY <1>2 DEF EvolvesAll
    <2>. QED  BY <1>3, <2>1 DEF Evolves, Bound
<1>7. s.life = "AttachSent" => r.life = "AttachSent"
    BY <1>4 DEF Evolves, Moves
<1>8. s.life = "DetachSent" /\ s.sequence = o.sequence =>
          r.life = "DetachSent" /\ r.sequence = o.sequence
    BY <1>3, <1>4 DEF Evolves, Moves
<1>. HIDE DEF b, r, s
<1>9. /\ Bound(o.sequence) =>
             o.sequence = b /\ o.result \notin {"Detached", "Applied", "Ignored"}
      /\ o.result = "Attached" /\ r.life = "AttachSent" => binding[o.provider] = b \/ exhausted
      /\ o.result # "Attached" /\ o.sequence = b => binding[o.provider] # b
      /\ /\ r.life = "DetachSent" /\ r.sequence = o.sequence
         /\ o.result \notin {"IntegrationBlocked", "SequenceRegressed"}
         => binding[o.provider] # b
    BY <1>1 DEF OutcomeKnown, b, r
<1>. QED  BY <1>1, <1>5, <1>6, <1>7, <1>8, <1>9 DEF OutcomeKnown, b, s

\* A step in which the runtimes evolve.
LEMMA EvolvesRegistry ==
    ASSUME BaseInv, RegistryInv, EvolvesAll, ExhaustedIsEmpty'
    PROVE  RegistryInv'
BY EvolvesSequences, EvolvesRuntimes, EvolvesCurrent, EvolvesBound, EvolvesItems, EvolvesOutcomes,
   EvolvesServing DEF RegistryInv

-----------------------------------------------------------------------------
(* Steps that leave the runtimes alone. *)

Frame == UNCHANGED <<runtime, current, binding, last_sequence, exhausted, next_sequence,
                     sequence_exhausted>>

\* The registry does not change, and nothing new is known of its items.
LEMMA RegistryFrame ==
    ASSUME BaseInv, RegistryInv, Frame,
           \A z \in Channel' : OfProvider(z) => z \in Channel,
           ProviderOutcomes' \subseteq ProviderOutcomes,
           ExhaustedIsEmpty'
    PROVE  RegistryInv'
<1>1. /\ UNCHANGED <<runtime, current, binding, last_sequence, exhausted, next_sequence,
                     sequence_exhausted>>
      /\ next_sequence \in Bindings
    BY DEF Frame, BaseInv, TypesInv, RegistryTypes
<1>2. SequencesStay
    BY <1>1, Bounds DEF SequencesStay, Bindings
<1>3. \A b \in Bindings : Evolves(b)
    BY <1>1 DEF Evolves
<1>4. \A p \in Providers : Registers(p)
    BY <1>1 DEF Registers, RegistryInv, CurrentKnown
<1>5. EvolvesAll
    BY <1>1, <1>2, <1>3, <1>4 DEF EvolvesAll
<1>. QED  BY <1>5, EvolvesRegistry

\* The threads of clients and of the authority.
LEMMA ClientRegistry ==
    ASSUME BaseInv, RegistryInv, UNCHANGED <<kernel_vars, registry_vars, runtime>>,
           ingress' = ingress \/ \E x \in Item : Send(x) /\ ~OfProvider(x)
    PROVE  RegistryInv'
<1>1. Frame /\ kernel' = kernel /\ ChannelTypes /\ UNCHANGED <<binding, current, exhausted>>
    BY DEF Frame, kernel_vars, registry_vars, BaseInv, TypesInv
<1>2. \A z \in Channel' : OfProvider(z) => z \in Channel
    <2>1. CASE ingress' = ingress
        BY <1>1, <2>1, KeepForm, KeepsChannel
    <2>2. ASSUME NEW x \in Item, Send(x), ~OfProvider(x)
          PROVE  \A z \in Channel' : OfProvider(z) => z \in Channel
        <3>1. Sends(x)
            BY <1>1, <2>2, SendForm
        <3>. QED  BY <1>1, <2>2, <3>1, SendsChannel
    <2>. QED  BY <2>1, <2>2
<1>3. ExhaustedIsEmpty'
    BY <1>1 DEF RegistryInv, ExhaustedIsEmpty
<1>. QED  BY <1>1, <1>2, <1>3, RegistryFrame DEF ProviderOutcomes

\* What they do.
LEMMA ClientActionsRegistry ==
    ASSUME BaseInv, RegistryInv,
           \/ \E k \in Keys, pk \in PolicyKeys, d \in Deadlines : Dispatch(k, pk, d)
           \/ \E c \in Clients : DispatchSend(c) \/ CloseClient(c)
           \/ \E k \in Keys, n \in Sequences : DispatchApproval(k, n)
           \/ \E i \in Instances : DispatchControl(i)
    PROVE  RegistryInv'
<1>1. ClientTypes /\ next_authority_sequence \in 1 .. MaxAuthority
    BY DEF BaseInv, TypesInv, ClientTypes
<1>2. ASSUME NEW k \in Keys, NEW pk \in PolicyKeys, NEW d \in Deadlines, Dispatch(k, pk, d)
      PROVE  RegistryInv'
    BY <1>2, ClientRegistry DEF Dispatch
<1>3. ASSUME NEW c \in Clients, DispatchSend(c) PROVE RegistryInv'
    <2>1. sending[c] \in RequestItem
        BY <1>1, <1>3 DEF DispatchSend, ClientTypes
    <2>2. sending[c] \in Item /\ ~OfProvider(sending[c])
        BY <2>1 DEF RequestItem, Item, OfProvider, ProviderKinds
    <2>3. /\ UNCHANGED <<kernel_vars, registry_vars, runtime>>
          /\ ingress' = ingress \/ Send(sending[c])
        BY <1>3 DEF DispatchSend
    <2>. QED  BY <2>2, <2>3, ClientRegistry
<1>4. ASSUME NEW c \in Clients, CloseClient(c) PROVE RegistryInv'
    <2>. DEFINE x == [kind |-> "CloseClient", sequence |-> next_authority_sequence, client |-> c]
    <2>1. x \in Item /\ ~OfProvider(x)
        BY <1>1 DEF CloseItem, Item, OfProvider, ProviderKinds
    <2>2. /\ UNCHANGED <<kernel_vars, registry_vars, runtime>>
          /\ ingress' = ingress \/ Send(x)
        BY <1>4 DEF CloseClient
    <2>. HIDE DEF x
    <2>. QED  BY <2>1, <2>2, ClientRegistry
<1>5. ASSUME NEW k \in Keys, NEW n \in Sequences, DispatchApproval(k, n) PROVE RegistryInv'
    <2>. DEFINE x == [kind |-> "Approve", sequence |-> next_authority_sequence, key |-> k,
                      nonce |-> n]
    <2>1. x \in Item /\ ~OfProvider(x)
        BY <1>1 DEF ApproveItem, Item, OfProvider, ProviderKinds
    <2>2. UNCHANGED <<kernel_vars, registry_vars, runtime>> /\ Send(x)
        BY <1>5 DEF DispatchApproval
    <2>. HIDE DEF x
    <2>. QED  BY <2>1, <2>2, ClientRegistry
<1>6. ASSUME NEW i \in Instances, DispatchControl(i) PROVE RegistryInv'
    <2>. DEFINE x == [kind |-> "Control", instance |-> i]
    <2>1. x \in Item /\ ~OfProvider(x)
        BY DEF ControlItem, Item, OfProvider, ProviderKinds
    <2>2. UNCHANGED <<kernel_vars, registry_vars, runtime>> /\ Send(x)
        BY <1>6 DEF DispatchControl
    <2>. HIDE DEF x
    <2>. QED  BY <2>1, <2>2, ClientRegistry
<1>. QED  BY <1>2, <1>3, <1>4, <1>5, <1>6

\* The kernel goes on to another phase.
LEMMA PhaseRegistry ==
    ASSUME BaseInv, RegistryInv, Frame, Keeps, kernel'.provider = kernel.provider,
           exhausted => \/ kernel'.pc \in {"reduce", kernel.pc}
                        \/ /\ \A p \in Providers : binding[p] = None
                           /\ kernel'.pc \notin {"idle", "flush", "edge", "authority", "completions", "finalize"}
                        \/ kernel.pc \in {"idle", "flush", "edge", "authority", "completions", "finalize"}
    PROVE  RegistryInv'
<1>1. UNCHANGED <<binding, current, exhausted>>
    BY DEF Frame
<1>2. ExhaustedIsEmpty'
    BY <1>1 DEF RegistryInv, ExhaustedIsEmpty
<1>3. Channel' = Channel
    BY KeepsChannel
<1>. QED  BY <1>2, <1>3, RegistryFrame DEF ProviderOutcomes

\* The phases that only move on, or drain a queue.
LEMMA QuietPhasesRegistry ==
    ASSUME BaseInv, RegistryInv,
           \/ BeginStep \/ DrainIngress \/ DrainEffects \/ DrainCompletions
           \/ PublishEdge \/ PublishAuthority \/ PublishCompletions \/ FinalizeCloses
    PROVE  RegistryInv'
<1>1. kernel \in KernelState /\ PhaseInv
    BY DEF BaseInv, TypesInv, ChannelTypes
<1>2. CASE BeginStep
    <2>1. Frame /\ ingress' = ingress /\ kernel.pc = "idle"
        BY <1>2 DEF BeginStep, Frame, Outside, registry_vars, Phase
    <2>2. kernel'.batch = kernel.batch /\ kernel'.provider = kernel.provider
        BY <1>1, <1>2 DEF BeginStep, KernelState
    <2>. QED  BY <2>1, <2>2, KeepForm, PhaseRegistry
<1>3. CASE DrainIngress
    <2>1. /\ Keeps /\ kernel.pc = "flush" /\ kernel'.provider = kernel.provider
          /\ UNCHANGED <<registry_vars, runtime, binding, last_sequence, exhausted>>
        BY <1>3, DrainIngressForm
    <2>. QED  BY <2>1, PhaseRegistry DEF Frame, registry_vars
<1>4. CASE DrainEffects
    <2>1. /\ Frame /\ ingress' = ingress /\ kernel.pc = "reduce" /\ ~Retiring
          /\ kernel'.pc = "drain"
        BY <1>1, <1>4 DEF DrainEffects, Frame, Outside, registry_vars, Phase, KernelState
    <2>2. kernel'.batch = kernel.batch /\ kernel'.provider = kernel.provider
        BY <1>1, <1>4 DEF DrainEffects, KernelState
    <2>. QED  BY <2>1, <2>2, KeepForm, PhaseRegistry DEF Retiring
<1>5. CASE DrainCompletions
    <2>1. /\ Frame /\ ingress' = ingress /\ kernel.pc = "drain" /\ kernel'.pc = "outcomes"
        BY <1>1, <1>5 DEF DrainCompletions, Frame, Outside, registry_vars, Phase, KernelState
    <2>2. kernel'.batch = kernel.batch /\ kernel'.provider = kernel.provider
        BY <1>1, <1>5 DEF DrainCompletions, KernelState
    <2>3. exhausted => \A p \in Providers : binding[p] = None
        BY <2>1 DEF RegistryInv, ExhaustedIsEmpty
    <2>. QED  BY <2>1, <2>2, <2>3, KeepForm, PhaseRegistry
<1>6. CASE PublishEdge
    <2>1. Frame /\ ingress' = ingress /\ kernel.pc = "edge"
        BY <1>6 DEF PublishEdge, Frame, PublishOnly, registry_vars, Phase
    <2>2. kernel'.batch = kernel.batch /\ kernel'.provider = kernel.provider
        BY <1>1, <1>6 DEF PublishEdge, KernelState
    <2>. QED  BY <2>1, <2>2, KeepForm, PhaseRegistry
<1>7. CASE PublishAuthority
    <2>1. Frame /\ ingress' = ingress /\ kernel.pc = "authority"
        BY <1>7 DEF PublishAuthority, Frame, PublishOnly, registry_vars, Phase
    <2>2. kernel'.batch = kernel.batch /\ kernel'.provider = kernel.provider
        BY <1>1, <1>7 DEF PublishAuthority, KernelState
    <2>. QED  BY <2>1, <2>2, KeepForm, PhaseRegistry
<1>8. CASE PublishCompletions
    <2>1. Frame /\ ingress' = ingress /\ kernel.pc = "completions"
        BY <1>8 DEF PublishCompletions, Frame, PublishOnly, registry_vars, Phase
    <2>2. kernel'.batch = kernel.batch /\ kernel'.provider = kernel.provider
        BY <1>1, <1>8 DEF PublishCompletions, KernelState
    <2>. QED  BY <2>1, <2>2, KeepForm, PhaseRegistry
<1>9. CASE FinalizeCloses
    <2>1. Frame /\ ingress' = ingress /\ kernel.pc = "finalize"
        BY <1>9 DEF FinalizeCloses, Frame, PublishOnly, registry_vars, Phase
    <2>2. kernel'.batch = kernel.batch /\ kernel'.provider = kernel.provider
        BY <1>1, <1>9, <2>1 DEF FinalizeCloses, Resting, PhaseInv
    <2>. QED  BY <2>1, <2>2, KeepForm, PhaseRegistry
<1>. QED  BY <1>2, <1>3, <1>4, <1>5, <1>6, <1>7, <1>8, <1>9


-----------------------------------------------------------------------------
(* The kernel reduces its batch. *)

\* An item that is not of a provider is done.
LEMMA OtherItemRegistry ==
    ASSUME BaseInv, RegistryInv, Frame, ingress' = ingress, kernel.batch # <<>>,
           kernel.pc \in {"reduce", "reject"},
           NEW A, Reduced(<<>>, A), AtMostOne(A, AuthorityOutcomeRecord)
    PROVE  RegistryInv'
<1>1. ChannelTypes /\ UNCHANGED <<binding, current, exhausted>>
    BY DEF BaseInv, TypesInv, Frame
<1>2. AtMostOne(<<>>, ProviderOutcomeRecord) /\ Elements(<<>>) = {}
    BY SingleOutcome
<1>3. /\ Takes(Head(kernel.batch)) /\ kernel'.pc = kernel.pc
      /\ ProviderOutcomes' = ProviderOutcomes
    BY <1>1, <1>2, ReducedForm
<1>4. Channel' \subseteq Channel
    BY <1>1, <1>3, TakesChannel
<1>5. ExhaustedIsEmpty'
    BY <1>1, <1>3 DEF RegistryInv, ExhaustedIsEmpty
<1>. QED  BY <1>3, <1>4, <1>5, RegistryFrame

\* Commands of clients and of the authority are reduced.
LEMMA ReduceOthersRegistry ==
    ASSUME BaseInv, RegistryInv, ReduceControl \/ ReduceRequest \/ ReduceClose \/ ReduceApproval
    PROVE  RegistryInv'
<1> DEFINE h == Head(kernel.batch)
           o(closed) == [sequence |-> h.sequence, closed |-> closed]
<1>1. /\ kernel.pc = "reduce" /\ kernel.batch # <<>> /\ ingress' = ingress
      /\ UNCHANGED <<registry_vars, runtime, binding, last_sequence, exhausted>>
    BY DEF ReduceControl, ReduceRequest, ReduceClose, ReduceApproval, Reducing, Phase, Outside
<1>2. Frame /\ ChannelTypes
    BY <1>1 DEF Frame, registry_vars, BaseInv, TypesInv
<1>3. CASE ReduceControl \/ ReduceRequest
    <2>1. Reduced(<<>>, <<>>)
        BY <1>3 DEF ReduceControl, ReduceRequest
    <2>2. AtMostOne(<<>>, AuthorityOutcomeRecord)
        BY SingleOutcome
    <2>. QED  BY <1>1, <1>2, <2>1, <2>2, OtherItemRegistry
<1>4. CASE ReduceClose \/ ReduceApproval
    <2>1. OfAuthority(h) /\ \E closed \in BOOLEAN : Reduced(<<>>, <<o(closed)>>)
        BY <1>4 DEF ReduceClose, ReduceApproval, Reducing, OfAuthority, AuthorityKinds, AuthorityOutcome
    <2>2. PICK closed \in BOOLEAN : Reduced(<<>>, <<o(closed)>>)
        BY <2>1
    <2>3. h.sequence \in 1 .. MaxAuthority
        BY <1>1, <1>2, <2>1, NextItem, AuthorityItem
    <2>4. o(closed) \in AuthorityOutcomeRecord
        BY <2>3 DEF AuthorityOutcomeRecord
    <2>5. AtMostOne(<<o(closed)>>, AuthorityOutcomeRecord)
        BY <2>4, SingleOutcome
    <2>. HIDE DEF o
    <2>. QED  BY <1>1, <1>2, <2>2, <2>5, OtherItemRegistry
<1>. QED  BY <1>3, <1>4

\* An item of a provider becomes an outcome: what does not depend on it.
LEMMA TakesRegistry ==
    ASSUME BaseInv, RegistryInv, UNCHANGED <<runtime, current, next_sequence, sequence_exhausted>>,
           NEW h, Takes(h), OfProvider(h), NEW o, o.sequence = h.sequence,
           ProviderOutcomes' = ProviderOutcomes \cup {o},
           last_sequence' \in {last_sequence, h.sequence}
    PROVE  SequencesInOrder' /\ RuntimesIssued' /\ CurrentKnown' /\ ItemsKnown'
<1>1. /\ ChannelTypes /\ ChannelInOrder /\ ItemsIssued /\ SequencesInOrder /\ RuntimesIssued
      /\ CurrentKnown /\ ItemsKnown
    BY DEF BaseInv, TypesInv, ClientsInv, RegistryInv
<1>2. h \in Channel /\ Channel' \subseteq Channel /\ \A z \in Channel' : InOrder(h, z)
    BY <1>1, TakesChannel
<1>3. Issued(h.sequence) /\ \A z \in Channel' : OfProvider(z) => h.sequence < z.sequence
    BY <1>1, <1>2 DEF ItemsIssued, InOrder
<1>4. /\ Issued(last_sequence')
      /\ \A z \in Channel' : OfProvider(z) => z.sequence > last_sequence'
    <2>1. CASE last_sequence' = last_sequence
        BY <1>1, <1>2, <2>1 DEF SequencesInOrder
    <2>2. CASE last_sequence' = h.sequence
        <3>1. ASSUME NEW z \in Channel', OfProvider(z) PROVE z.sequence > h.sequence
            <4>1. z.sequence \in Bindings /\ h.sequence \in Bindings
                BY <1>1, <1>2, <3>1, ProviderItem
            <4>. QED  BY <1>3, <3>1, <4>1 DEF Bindings
        <3>. QED  BY <1>3, <2>2, <3>1
    <2>. QED  BY <2>1, <2>2
<1>5. ASSUME NEW q \in ProviderOutcomes'
      PROVE  Issued(q.sequence) /\ \A z \in Channel' : OfProvider(z) => q.sequence < z.sequence
    <2>1. CASE q \in ProviderOutcomes
        BY <1>1, <1>2, <2>1 DEF SequencesInOrder
    <2>2. CASE q = o
        BY <1>3, <2>2
    <2>. QED  BY <2>1, <2>2
<1>6. SequencesInOrder'
    BY <1>4, <1>5 DEF SequencesInOrder, Issued, OfProvider
<1>7. RuntimesIssued' /\ CurrentKnown'
    BY <1>1 DEF RuntimesIssued, RuntimeIssued, CurrentKnown, Belongs, Bound, Issued
<1>8. ItemsKnown'
    <2>. SUFFICES ASSUME NEW z \in Channel', OfProvider(z) PROVE ItemKnown(z)'
        BY DEF ItemsKnown, OfProvider
    <2>1. ItemKnown(z)
        BY <1>1, <1>2 DEF ItemsKnown
    <2>. QED  BY <2>1 DEF ItemKnown, Belongs, Bound, Serves
<1>. QED  BY <1>6, <1>7, <1>8

\* An outcome of the item h that binds and frees nothing.
LEMMA TurnedAway ==
    ASSUME BaseInv, RegistryInv, NEW h \in Channel, OfProvider(h), NEW o,
           o.sequence = h.sequence, o.binding = h.binding, o.provider = h.provider,
           \/ o.result = "IntegrationBlocked"
           \/ o.result = "NotHeld" /\ ~(h.kind # "Attach" /\ binding[h.provider] = h.binding)
    PROVE  OutcomeKnown(o)
<1>1. ItemKnown(h) /\ ChannelTypes
    BY DEF RegistryInv, ItemsKnown, BaseInv, TypesInv
<1>2. h.sequence \in Bindings /\ h.binding \in Bindings /\ h.provider \in Providers
    BY <1>1, ProviderItem
<1>3. binding[h.provider] # h.sequence
    <2>1. h.sequence > last_sequence
        BY DEF RegistryInv, SequencesInOrder
    <2>2. binding[h.provider] # None => binding[h.provider] <= last_sequence
        BY <1>2 DEF RegistryInv, BoundKnown
    <2>3. last_sequence \in 0 .. MaxSequence
        BY DEF BaseInv, TypesInv, RegistryTypes
    <2>4. h.sequence # None
        BY <1>2, Bounds
    <2>. QED  BY <1>2, <2>1, <2>2, <2>3, <2>4 DEF Bindings
<1>4. /\ Belongs(h.binding, h.provider)
      /\ Bound(h.sequence) => h.sequence = h.binding
    BY <1>1 DEF ItemKnown
<1>5. ASSUME runtime[h.binding].life = "DetachSent", runtime[h.binding].sequence = h.sequence
      PROVE  h.kind = "Detach"
    BY <1>1, <1>2, <1>4, <1>5 DEF ItemKnown, Belongs
<1>. QED  BY <1>3, <1>4, <1>5 DEF OutcomeKnown

\* The kernel turns an item away, or is done with the batch.
LEMMA RejectItemRegistry ==
    ASSUME BaseInv, RegistryInv, RejectItem
    PROVE  RegistryInv'
<1> DEFINE h == Head(kernel.batch)
           o == ProviderOutcome(h, "IntegrationBlocked")
           P == IF h.kind \in ProviderKinds THEN <<o>> ELSE <<>>
           A == IF h.kind \in AuthorityKinds THEN AuthorityOutcome(h, FALSE) ELSE <<>>
<1>1. /\ kernel.pc = "reject" /\ ingress' = ingress /\ Frame
      /\ \/ kernel.batch # <<>> /\ Reduced(P, A)
         \/ kernel.batch = <<>> /\ kernel' = [kernel EXCEPT !.pc = "outcomes"]
    BY DEF RejectItem, Phase, Outside, Frame, registry_vars
<1>2. ChannelTypes /\ kernel \in KernelState
    BY DEF BaseInv, TypesInv, ChannelTypes
<1>3. CASE kernel.batch = <<>> /\ kernel' = [kernel EXCEPT !.pc = "outcomes"]
    <2>1. /\ kernel'.pc = "outcomes" /\ kernel'.batch = kernel.batch
          /\ kernel'.provider = kernel.provider
        BY <1>2, <1>3 DEF KernelState
    <2>2. exhausted => \A p \in Providers : binding[p] = None
        BY <1>1 DEF RegistryInv, ExhaustedIsEmpty
    <2>. QED  BY <1>1, <2>1, <2>2, KeepForm, PhaseRegistry
<1>4. CASE kernel.batch # <<>> /\ Reduced(P, A)
    <2>1. h \in Item /\ h \in Channel
        BY <1>4, NextItem
    <2>2. AtMostOne(A, AuthorityOutcomeRecord)
        <3>1. CASE h.kind \in AuthorityKinds
            <4> DEFINE x == [sequence |-> h.sequence, closed |-> FALSE]
            <4>1. x \in AuthorityOutcomeRecord /\ A = <<x>>
                BY <1>2, <2>1, <3>1, AuthorityItem
                   DEF OfAuthority, AuthorityOutcome, AuthorityOutcomeRecord
            <4>. HIDE DEF x, A
            <4>. QED  BY <4>1, SingleOutcome
        <3>2. CASE h.kind \notin AuthorityKinds
            BY <3>2, SingleOutcome
        <3>. QED  BY <3>1, <3>2
    <2>3. CASE h.kind \notin ProviderKinds
        <3>1. P = <<>>
            BY <2>3
        <3>. HIDE DEF P, A
        <3>. QED  BY <1>1, <1>4, <2>2, <3>1, OtherItemRegistry
    <2>4. CASE h.kind \in ProviderKinds
        <3>1. /\ o.sequence = h.sequence /\ o.binding = h.binding /\ o.provider = h.provider
              /\ o.result = "IntegrationBlocked" /\ OfProvider(h)
            BY <2>4 DEF ProviderOutcome, OfProvider
        <3>2. o \in ProviderOutcomeRecord
            BY <1>2, <2>1, <3>1, ProviderItem DEF ProviderOutcome, ProviderOutcomeRecord, Results
        <3>3. P = <<o>> /\ AtMostOne(<<o>>, ProviderOutcomeRecord) /\ Elements(<<o>>) = {o}
            BY <2>4, <3>2, SingleOutcome
        <3>. HIDE DEF P, A, o
        <3>4. /\ Takes(h) /\ kernel'.pc = kernel.pc
              /\ ProviderOutcomes' = ProviderOutcomes \cup {o}
            BY <1>1, <1>2, <1>4, <2>2, <3>3, ReducedForm
        <3>. HIDE DEF h
        <3>5. /\ UNCHANGED <<runtime, current, binding, last_sequence, exhausted, next_sequence,
                             sequence_exhausted>>
            BY <1>1 DEF Frame
        <3>6. SequencesInOrder' /\ RuntimesIssued' /\ CurrentKnown' /\ ItemsKnown'
            BY <3>1, <3>4, <3>5, TakesRegistry
        <3>7. OutcomeKnown(o)
            BY <2>1, <3>1, TurnedAway
        <3>8. OutcomesKnown'
            <4>. SUFFICES ASSUME NEW q \in ProviderOutcomes' PROVE OutcomeKnown(q)'
                BY DEF OutcomesKnown
            <4>1. OutcomeKnown(q)
                BY <3>4, <3>7 DEF RegistryInv, OutcomesKnown
            <4>. QED  BY <3>5, <4>1 DEF OutcomeKnown, Belongs, Bound
        <3>9. BoundKnown' /\ ServingIsBound' /\ ExhaustedIsEmpty'
            BY <3>4, <3>5 DEF RegistryInv, BoundKnown, ServingIsBound, ExhaustedIsEmpty,
                              Belongs, Bound, Serves
        <3>. QED  BY <3>6, <3>8, <3>9 DEF RegistryInv
    <2>. QED  BY <2>3, <2>4
<1>. QED  BY <1>1, <1>3, <1>4

\* An attach, a detach or an observation that the kernel looks at: h has the
\* next sequence, and o is its outcome.
Consumes(h, o) ==
    LET p == h.provider
    IN  /\ h \in Channel /\ OfProvider(h) /\ ~exhausted
        /\ last_sequence' = h.sequence
        /\ o.sequence = h.sequence /\ o.binding = h.binding /\ o.provider = p
        /\ \/ /\ binding' = binding
              /\ \/ o.result = "IntegrationBlocked"
                 \/ /\ o.result = "NotHeld"
                    /\ ~(h.kind # "Attach" /\ binding[p] = h.binding)
                 \/ h.kind = "Observe" /\ o.result \in {"Applied", "Ignored"}
           \/ /\ h.kind = "Attach" /\ binding[p] = None /\ o.result = "Attached"
              /\ binding' = [binding EXCEPT ![p] = h.binding]
           \/ /\ h.kind = "Detach" /\ binding[p] = h.binding /\ o.result = "Detached"
              /\ binding' = [binding EXCEPT ![p] = None]

\* What a consumed item does to the bindings.
LEMMA ConsumesBinding ==
    ASSUME BaseInv, RegistryInv, NEW h, NEW o, Consumes(h, o), NEW q \in Providers
    PROVE  \/ binding'[q] = binding[q]
           \/ /\ q = h.provider /\ h.kind = "Attach" /\ binding[q] = None
              /\ binding'[q] = h.binding /\ h.binding = h.sequence
           \/ q = h.provider /\ h.kind = "Detach" /\ binding[q] = h.binding /\ binding'[q] = None
<1>1. binding \in [Providers -> 0 .. MaxSequence]
    BY DEF BaseInv, TypesInv, RegistryTypes
<1>2. h.kind = "Attach" => h.binding = h.sequence
    BY DEF Consumes, RegistryInv, ItemsKnown, ItemKnown
<1>. QED  BY <1>1, <1>2 DEF Consumes

\* What is known of the item that is consumed.
LEMMA ConsumesItem ==
    ASSUME BaseInv, RegistryInv, NEW h, NEW o, Consumes(h, o)
    PROVE  /\ h \in Channel /\ OfProvider(h) /\ ItemKnown(h)
           /\ h.sequence \in Bindings /\ h.binding \in Bindings /\ h.provider \in Providers
           /\ h.sequence > last_sequence /\ last_sequence \in 0 .. MaxSequence
           /\ binding \in [Providers -> 0 .. MaxSequence]
           /\ h.binding # None
<1>1. ChannelTypes /\ h \in Channel /\ OfProvider(h)
    BY DEF BaseInv, TypesInv, Consumes
<1>. QED  BY <1>1, ProviderItem, Bounds
          DEF BaseInv, TypesInv, RegistryTypes, RegistryInv, ItemsKnown, SequencesInOrder

\* Bindings stay registered.
LEMMA ConsumesBound ==
    ASSUME BaseInv, RegistryInv, UNCHANGED <<runtime, current, sequence_exhausted>>,
           NEW h, NEW o, Consumes(h, o)
    PROVE  BoundKnown' /\ ServingIsBound'
<1>1. /\ ItemKnown(h) /\ h.sequence \in Bindings /\ h.sequence > last_sequence
      /\ last_sequence \in 0 .. MaxSequence /\ last_sequence' = h.sequence
      /\ binding \in [Providers -> 0 .. MaxSequence] /\ h.provider \in Providers
      /\ h.binding # None
    BY ConsumesItem DEF Consumes
<1>2. ASSUME NEW q \in Providers, binding'[q] # None
      PROVE  /\ Belongs(binding'[q], q) /\ binding'[q] <= h.sequence
             /\ current[q] = binding'[q] \/ sequence_exhausted
    <2>1. CASE binding'[q] = binding[q]
        <3>1. /\ Belongs(binding[q], q) /\ binding[q] <= last_sequence
              /\ current[q] = binding[q] \/ sequence_exhausted
            BY <1>2, <2>1 DEF RegistryInv, BoundKnown
        <3>2. binding[q] <= h.sequence
            BY <1>1, <3>1 DEF Bindings
        <3>. QED  BY <2>1, <3>1, <3>2
    <2>2. CASE q = h.provider /\ h.kind = "Attach" /\ binding'[q] = h.binding /\ h.binding = h.sequence
        BY <1>1, <2>2 DEF ItemKnown, Bindings
    <2>. QED  BY <1>2, <2>1, <2>2, ConsumesBinding
<1>3. BoundKnown'
    BY <1>1, <1>2 DEF BoundKnown, Belongs, Bound
<1>4. ASSUME NEW q \in Providers, current[q] # None, Serves(runtime[current[q]])
      PROVE  binding'[q] = current[q]
    <2>1. binding[q] = current[q]
        BY <1>4 DEF RegistryInv, ServingIsBound, Consumes
    <2>2. CASE q = h.provider /\ h.kind = "Detach" /\ binding[q] = h.binding
        BY <1>1, <1>4, <2>1, <2>2 DEF ItemKnown
    <2>. QED  BY <1>4, <2>1, <2>2, ConsumesBinding
<1>5. ServingIsBound'
    BY <1>4 DEF ServingIsBound, Serves
<1>. QED  BY <1>3, <1>5

\* Earlier outcomes stay true.
LEMMA ConsumesOldOutcome ==
    ASSUME BaseInv, RegistryInv, UNCHANGED <<runtime, current, sequence_exhausted>>,
           NEW h, NEW o, Consumes(h, o), NEW q \in ProviderOutcomes
    PROVE  OutcomeKnown(q)'
<1> DEFINE b == q.binding
           p == q.provider
           r == runtime[b]
<1>1. /\ ItemKnown(h) /\ h.sequence \in Bindings /\ h.binding \in Bindings
      /\ binding \in [Providers -> 0 .. MaxSequence] /\ ~exhausted
    BY ConsumesItem DEF Consumes
<1>2. OutcomeKnown(q) /\ q.sequence < h.sequence
    BY DEF RegistryInv, OutcomesKnown, SequencesInOrder, Consumes
<1>3. q \in ProviderOutcomeRecord
    <2>1. kernel.provider \in Seq(ProviderOutcomeRecord)
        BY DEF BaseInv, TypesInv, ChannelTypes, KernelState
    <2>. QED  BY <2>1 DEF ProviderOutcomes, Elements
<1>4. q.sequence \in Bindings /\ b \in Bindings /\ p \in Providers /\ b # None
    BY <1>3, Bounds DEF ProviderOutcomeRecord
<1>5. /\ Belongs(b, p)
      /\ Bound(q.sequence) => q.sequence = b /\ q.result \notin {"Detached", "Applied", "Ignored"}
      /\ q.result = "Attached" /\ r.life = "AttachSent" => binding[p] = b
      /\ q.result # "Attached" /\ q.sequence = b => binding[p] # b
      /\ /\ r.life = "DetachSent" /\ r.sequence = q.sequence
         /\ q.result \notin {"IntegrationBlocked", "SequenceRegressed"}
         => binding[p] # b
    BY <1>1, <1>2 DEF OutcomeKnown
<1>6. \/ binding'[p] = binding[p]
      \/ /\ h.kind = "Attach" /\ binding[p] = None
         /\ binding'[p] = h.binding /\ h.binding = h.sequence
      \/ h.kind = "Detach" /\ binding[p] = h.binding /\ binding'[p] = None
    BY <1>4, ConsumesBinding
<1>7. q.result = "Attached" /\ r.life = "AttachSent" => binding'[p] = b
    BY <1>1, <1>4, <1>5, <1>6 DEF ItemKnown
<1>8. q.result # "Attached" /\ q.sequence = b => binding'[p] # b
    BY <1>1, <1>2, <1>4, <1>5, <1>6 DEF Bindings
<1>9. ASSUME r.life = "DetachSent", r.sequence = q.sequence,
             q.result \notin {"IntegrationBlocked", "SequenceRegressed"}
      PROVE  binding'[p] # b
    <2>1. b < q.sequence
        <3>1. RuntimeIssued(b) /\ r.sequence \in 0 .. MaxSequence
            BY <1>4, <1>5, RuntimeKnown DEF Belongs
        <3>. QED  BY <1>4, <1>9, <3>1, Bounds DEF RuntimeIssued, Bindings
    <2>2. b # h.sequence
        BY <1>1, <1>2, <1>4, <2>1 DEF Bindings
    <2>. QED  BY <1>4, <1>5, <1>6, <1>9, <2>2
<1>. HIDE DEF b, p, r
<1>. QED  BY <1>5, <1>7, <1>8, <1>9 DEF OutcomeKnown, Belongs, Bound, b, p, r

\* The outcome of the item is true.
LEMMA ConsumesNewOutcome ==
    ASSUME BaseInv, RegistryInv, UNCHANGED <<runtime, current, sequence_exhausted>>,
           NEW h, NEW o, Consumes(h, o)
    PROVE  OutcomeKnown(o)'
<1>1. /\ h \in Channel /\ OfProvider(h) /\ ItemKnown(h) /\ h.sequence \in Bindings
      /\ h.binding \in Bindings /\ h.provider \in Providers
      /\ binding \in [Providers -> 0 .. MaxSequence] /\ h.binding # None
      /\ o.sequence = h.sequence /\ o.binding = h.binding /\ o.provider = h.provider
    BY ConsumesItem DEF Consumes
<1>2. /\ Belongs(h.binding, h.provider)
      /\ Bound(h.sequence) => h.kind = "Attach"
      /\ h.kind = "Attach" => h.sequence = h.binding
      /\ h.kind # "Attach" => h.binding < h.sequence
      /\ runtime[h.binding].life = "DetachSent" /\ runtime[h.binding].sequence = h.sequence =>
            h.kind = "Detach"
    BY <1>1 DEF ItemKnown, Belongs
<1>3. CASE binding' = binding /\ (o.result = "IntegrationBlocked" \/
              (o.result = "NotHeld" /\ ~(h.kind # "Attach" /\ binding[h.provider] = h.binding)))
    <2>1. OutcomeKnown(o)
        BY <1>1, <1>3, TurnedAway
    <2>2. o.result # "Attached"
        BY <1>3
    <2>. QED  BY <1>3, <2>1, <2>2 DEF OutcomeKnown, Belongs, Bound
<1>4. CASE h.kind = "Observe" /\ o.result \in {"Applied", "Ignored"}
    <2>1. h.binding # h.sequence
        BY <1>1, <1>2, <1>4 DEF Bindings
    <2>. QED  BY <1>1, <1>2, <1>4, <2>1 DEF OutcomeKnown, Belongs, Bound
<1>5. CASE h.kind = "Attach" /\ o.result = "Attached" /\ binding' = [binding EXCEPT ![h.provider] = h.binding]
    <2>1. binding'[h.provider] = h.binding
        BY <1>1, <1>5
    <2>. QED  BY <1>1, <1>2, <1>5, <2>1 DEF OutcomeKnown, Belongs, Bound
<1>6. CASE h.kind = "Detach" /\ o.result = "Detached" /\ binding' = [binding EXCEPT ![h.provider] = None]
    <2>1. binding'[h.provider] # h.binding
        BY <1>1, <1>6
    <2>. QED  BY <1>1, <1>2, <1>6, <2>1 DEF OutcomeKnown, Belongs, Bound
<1>. QED  BY <1>3, <1>4, <1>5, <1>6 DEF Consumes

\* A command or an observation of a provider is reduced.
LEMMA ReduceProviderRegistry ==
    ASSUME BaseInv, RegistryInv, ReduceProvider
    PROVE  RegistryInv'
<1> DEFINE h == Head(kernel.batch)
           p == h.provider
           o(r) == [sequence |-> h.sequence, provider |-> p, binding |-> h.binding, result |-> r]
<1>1. ChannelTypes /\ RegistryTypes
    BY DEF BaseInv, TypesInv
<1>2. /\ kernel.pc = "reduce" /\ kernel.batch # <<>> /\ OfProvider(h) /\ h \in Channel
      /\ UNCHANGED <<ingress, registry_vars, runtime>>
      /\ h \in BindItem \cup ObserveItem
    BY ReduceProviderForm
<1>3. /\ h.sequence \in Bindings /\ h.binding \in Bindings /\ p \in Providers
    BY <1>1, <1>2, ProviderItem
<1>4. h.sequence > last_sequence
    BY <1>2 DEF RegistryInv, SequencesInOrder
<1>5. ~exhausted /\ ~(h.sequence <= last_sequence)
    BY <1>1, <1>3, <1>4 DEF RegistryTypes, Bindings
<1>6. /\ last_sequence' = h.sequence
      /\ \E r \in Results :
            /\ Reduced(<<o(r)>>, <<>>)
            /\ \/ /\ binding' = binding
                  /\ \/ r = "IntegrationBlocked"
                     \/ r = "NotHeld" /\ ~(h.kind # "Attach" /\ binding[p] = h.binding)
                     \/ h.kind = "Observe" /\ r \in {"Applied", "Ignored"}
               \/ /\ h.kind = "Attach" /\ binding[p] = None /\ r = "Attached"
                  /\ binding' = [binding EXCEPT ![p] = h.binding]
               \/ /\ h.kind = "Detach" /\ binding[p] = h.binding /\ r = "Detached"
                  /\ binding' = [binding EXCEPT ![p] = None]
    BY <1>5, ReduceProviderForm DEF Results
<1>7. PICK r \in Results :
            /\ Reduced(<<o(r)>>, <<>>)
            /\ \/ /\ binding' = binding
                  /\ \/ r = "IntegrationBlocked"
                     \/ r = "NotHeld" /\ ~(h.kind # "Attach" /\ binding[p] = h.binding)
                     \/ h.kind = "Observe" /\ r \in {"Applied", "Ignored"}
               \/ /\ h.kind = "Attach" /\ binding[p] = None /\ r = "Attached"
                  /\ binding' = [binding EXCEPT ![p] = h.binding]
               \/ /\ h.kind = "Detach" /\ binding[p] = h.binding /\ r = "Detached"
                  /\ binding' = [binding EXCEPT ![p] = None]
    BY <1>6
<1>8. /\ o(r) \in ProviderOutcomeRecord
      /\ o(r).sequence = h.sequence /\ o(r).binding = h.binding /\ o(r).provider = p
      /\ o(r).result = r
    BY <1>3 DEF ProviderOutcomeRecord
<1>9. AtMostOne(<<o(r)>>, ProviderOutcomeRecord) /\ Elements(<<o(r)>>) = {o(r)}
        /\ AtMostOne(<<>>, AuthorityOutcomeRecord)
    BY <1>8, SingleOutcome
<1>. HIDE DEF o
<1>10. /\ Takes(h) /\ kernel'.pc = kernel.pc
       /\ ProviderOutcomes' = ProviderOutcomes \cup {o(r)}
    BY <1>1, <1>2, <1>7, <1>9, ReducedForm
<1>. HIDE DEF h
<1>11. Consumes(h, o(r))
    BY <1>2, <1>5, <1>6, <1>7, <1>8 DEF Consumes
<1>12. UNCHANGED <<runtime, current, next_sequence, sequence_exhausted>>
    BY <1>2 DEF registry_vars
<1>13. SequencesInOrder' /\ RuntimesIssued' /\ CurrentKnown' /\ ItemsKnown'
    BY <1>2, <1>6, <1>8, <1>10, <1>12, TakesRegistry
<1>14. BoundKnown' /\ ServingIsBound'
    BY <1>11, <1>12, ConsumesBound
<1>15. OutcomesKnown'
    <2>. SUFFICES ASSUME NEW q \in ProviderOutcomes' PROVE OutcomeKnown(q)'
        BY DEF OutcomesKnown
    <2>1. CASE q \in ProviderOutcomes
        BY <1>11, <1>12, <2>1, ConsumesOldOutcome
    <2>2. CASE q = o(r)
        <3>1. Consumes(h, q)
            BY <1>11, <2>2
        <3>. QED  BY <1>12, <3>1, ConsumesNewOutcome
    <2>. QED  BY <1>10, <2>1, <2>2
<1>16. ExhaustedIsEmpty'
    BY <1>2, <1>10 DEF ExhaustedIsEmpty
<1>. QED  BY <1>13, <1>14, <1>15, <1>16 DEF RegistryInv

\* The kernel lets go of a provider after the last sequence.
LEMMA RetireExhaustedRegistry ==
    ASSUME BaseInv, RegistryInv, NEW p \in Providers, RetireExhausted(p)
    PROVE  RegistryInv'
<1>1. /\ kernel.pc = "reduce" /\ kernel' = kernel /\ ingress' = ingress /\ exhausted
      /\ UNCHANGED <<last_sequence, exhausted, runtime, current, next_sequence, sequence_exhausted>>
      /\ binding' = [binding EXCEPT ![p] = None]
    BY DEF RetireExhausted, Phase, Outside, registry_vars
<1>2. ChannelTypes /\ binding \in [Providers -> 0 .. MaxSequence]
    BY DEF BaseInv, TypesInv, RegistryTypes
<1>3. \A q \in Providers : binding'[q] \in {binding[q], None}
    BY <1>1, <1>2
<1>4. Channel' = Channel /\ ProviderOutcomes' = ProviderOutcomes
    BY <1>1, KeepForm, KeepsChannel DEF ProviderOutcomes
<1>5. SequencesInOrder' /\ RuntimesIssued' /\ CurrentKnown'
    BY <1>1, <1>4 DEF RegistryInv, SequencesInOrder, RuntimesIssued, RuntimeIssued, CurrentKnown, Belongs,
                      Bound, Issued, OfProvider
<1>6. ItemsKnown'
    <2>. SUFFICES ASSUME NEW z \in Channel', OfProvider(z) PROVE ItemKnown(z)'
        BY DEF ItemsKnown, OfProvider
    <2>1. ItemKnown(z)
        BY <1>4 DEF RegistryInv, ItemsKnown
    <2>. QED  BY <1>1, <2>1 DEF ItemKnown, Belongs, Bound, Serves
<1>7. BoundKnown'
    <2>. SUFFICES ASSUME NEW q \in Providers, binding'[q] # None
                  PROVE  /\ Belongs(binding'[q], q) /\ binding'[q] <= last_sequence
                         /\ current[q] = binding'[q] \/ sequence_exhausted
        BY <1>1 DEF BoundKnown, Belongs, Bound
    <2>. QED  BY <1>3 DEF RegistryInv, BoundKnown
<1>8. OutcomesKnown'
    <2>. SUFFICES ASSUME NEW o \in ProviderOutcomes' PROVE OutcomeKnown(o)'
        BY DEF OutcomesKnown
    <2>1. OutcomeKnown(o) /\ o \in ProviderOutcomes
        BY <1>4 DEF RegistryInv, OutcomesKnown
    <2>2. o \in ProviderOutcomeRecord
        <3>1. kernel.provider \in Seq(ProviderOutcomeRecord)
            BY <1>2 DEF ChannelTypes, KernelState
        <3>. QED  BY <2>1, <3>1 DEF ProviderOutcomes, Elements
    <2>3. o.binding # None /\ o.provider \in Providers
        BY <2>2, Bounds DEF ProviderOutcomeRecord
    <2>4. binding'[o.provider] \in {binding[o.provider], None}
        BY <1>3, <2>3
    <2>. QED  BY <1>1, <2>1, <2>3, <2>4 DEF OutcomeKnown, Belongs, Bound
<1>9. ServingIsBound' /\ ExhaustedIsEmpty'
    BY <1>1 DEF ServingIsBound, ExhaustedIsEmpty
<1>. QED  BY <1>5, <1>6, <1>7, <1>8, <1>9 DEF RegistryInv

-----------------------------------------------------------------------------
(* Steps of the runtimes. *)

\* Nobody knows the next sequence yet.
LEMMA Fresh ==
    ASSUME BaseInv, RegistryInv, ~sequence_exhausted
    PROVE  /\ ~Bound(next_sequence)
           /\ \A a \in Bindings : Bound(a) =>
                 a < next_sequence /\ (runtime[a].life = "DetachSent" => runtime[a].sequence # next_sequence)
<1>1. next_sequence \in Bindings
    BY DEF BaseInv, TypesInv, RegistryTypes
<1>2. ASSUME NEW a \in Bindings, Bound(a)
      PROVE  a < next_sequence /\ (runtime[a].life = "DetachSent" => runtime[a].sequence # next_sequence)
    <2>1. RuntimeIssued(a) /\ runtime[a].sequence \in 0 .. MaxSequence
        BY <1>2, RuntimeKnown
    <2>. QED  BY <1>1, <2>1 DEF RuntimeIssued, Issued, Bindings
<1>3. ~Bound(next_sequence)
    BY <1>1, <1>2 DEF Bindings
<1>. QED  BY <1>2, <1>3

\* A runtime that is registered knows it, and is not closed.
LEMMA RegisteredIsCurrent ==
    ASSUME BaseInv, RegistryInv, NEW b \in Bindings, Bound(b)
    PROVE  /\ ~IsCurrent(b) => \A p \in Providers : current[p] # b
           /\ IsCurrent(b) => runtime[b].life # "Closed"
<1>1. runtime[b].provider \in Providers /\ b # None
    BY RuntimeKnown, RuntimeFields, Bounds
<1>. QED  BY <1>1 DEF RegistryInv, CurrentKnown, Belongs, IsCurrent

\* The next sequence is given out.
LEMMA SendsGivesOut ==
    ASSUME BaseInv, NEW x, SendsNext(x)
    PROVE  GivesOut /\ SequencesStay
<1>1. next_sequence \in Bindings /\ ~sequence_exhausted /\ commit_sequence(next_sequence)
    BY DEF BaseInv, TypesInv, RegistryTypes, SendsNext
<1>2. next_sequence' \in Bindings /\ (next_sequence < next_sequence' \/ sequence_exhausted')
    BY <1>1, CommitIssues
<1>3. next_sequence <= next_sequence'
    BY <1>1 DEF commit_sequence, Bindings
<1>. QED  BY <1>1, <1>2, <1>3 DEF GivesOut, SequencesStay

\* One runtime evolves, and may send an item.
LEMMA OneEvolves ==
    ASSUME BaseInv, RegistryInv, UNCHANGED <<binding, last_sequence, exhausted, current>>,
           kernel'.pc = kernel.pc, kernel'.provider = kernel.provider, kernel'.batch = kernel.batch,
           NEW b \in Bindings, NEW s, runtime' = [runtime EXCEPT ![b] = s], Evolves(b),
           s.life = "Closed" => \A p \in Providers : current[p] # b,
           Refused \/ \E x : SendsNext(x) /\ ItemKnown(x)'
    PROVE  RegistryInv'
<1>1. /\ ChannelTypes /\ next_sequence \in Bindings /\ DOMAIN runtime = Bindings
    BY DEF BaseInv, TypesInv, RegistryTypes, RuntimeTypes
<1>2. runtime'[b] = s /\ \A a \in Bindings \ {b} : runtime'[a] = runtime[a]
    BY <1>1
<1>3. \A a \in Bindings : Evolves(a)
    BY <1>2 DEF Evolves
<1>4. ASSUME NEW p \in Providers PROVE Registers(p)
    <2>1. ASSUME current[p] # None PROVE runtime'[current[p]].life # "Closed"
        <3>1. current[p] \in Bindings /\ runtime[current[p]].life # "Closed"
            BY <2>1 DEF RegistryInv, CurrentKnown, Belongs
        <3>. QED  BY <1>2, <3>1
    <2>. QED  BY <2>1 DEF Registers
<1>5. ProviderOutcomes' = ProviderOutcomes
    BY DEF ProviderOutcomes
<1>6. ExhaustedIsEmpty'
    BY DEF RegistryInv, ExhaustedIsEmpty
<1>7. SequencesStay /\ \A z \in Channel' : OfProvider(z) => z \in Channel \/ NewItem(z)
    <2>1. CASE Refused
        <3>1. Channel' = Channel
            BY <2>1, KeepForm, KeepsChannel DEF Refused
        <3>2. SequencesStay
            BY <1>1, <2>1 DEF Refused, SequencesStay, Bindings
        <3>. QED  BY <3>1, <3>2
    <2>2. ASSUME NEW x, SendsNext(x), ItemKnown(x)'
          PROVE  SequencesStay /\ \A z \in Channel' : OfProvider(z) => z \in Channel \/ NewItem(z)
        <3>1. GivesOut /\ SequencesStay
            BY <2>2, SendsGivesOut
        <3>2. x \in BindItem \cup ObserveItem /\ x.sequence = next_sequence /\ Send(x)
            BY <2>2 DEF SendsNext
        <3>3. NewItem(x)
            BY <2>2, <3>1, <3>2 DEF NewItem
        <3>4. x \in Item
            BY <3>2 DEF Item
        <3>5. Sends(x)
            BY <1>1, <3>2, <3>4, SendForm
        <3>. QED  BY <1>1, <3>1, <3>3, <3>5, SendsChannel
    <2>. QED  BY <2>1, <2>2
<1>8. EvolvesAll
    BY <1>3, <1>4, <1>5, <1>7 DEF EvolvesAll
<1>. QED  BY <1>6, <1>8, EvolvesRegistry

\* An item that is not an attach is known after the step.
LEMMA OtherItemKnown ==
    ASSUME NEW x, x.kind # "Attach", Belongs(x.binding, x.provider)', x.binding < x.sequence,
           runtime'[x.sequence].life = "None",
           \A a \in Bindings : runtime'[a].life = "DetachSent" /\ runtime'[a].sequence = x.sequence =>
               x.kind = "Detach" /\ x.binding = a,
           x.kind = "Detach" => runtime'[x.binding].life = "DetachSent"
    PROVE  ItemKnown(x)'
<1>1. /\ (Bound(x.sequence))' => x.kind = "Attach"
      /\ \A b \in Bindings : (Bound(b))' /\ runtime'[b].life = "DetachSent"
            /\ runtime'[b].sequence = x.sequence => x.kind = "Detach" /\ x.binding = b
      /\ x.kind = "Detach" =>
            runtime'[x.binding].life # "AttachSent" /\ ~Serves(runtime'[x.binding])
    BY DEF Bound, Serves
<1>. QED  BY <1>1 DEF ItemKnown, Serves

\* A runtime is asked to close.
LEMMA ClosesRegistry ==
    ASSUME BaseInv, RegistryInv, UNCHANGED <<binding, last_sequence, exhausted, current>>,
           kernel'.pc = kernel.pc, kernel'.provider = kernel.provider, kernel'.batch = kernel.batch,
           NEW b \in Bindings, Bound(b), NEW s, Closes(b, s)
    PROVE  RegistryInv'
<1>1. RuntimeTypes /\ next_sequence \in Bindings /\ DOMAIN runtime = Bindings
    BY DEF BaseInv, TypesInv, RegistryTypes, RuntimeTypes
<1> DEFINE r == runtime[b]
<1>2. /\ RuntimeOK(s) /\ s.provider = r.provider /\ s.pending \subseteq r.pending
      /\ runtime' = [runtime EXCEPT ![b] = s]
    BY DEF Closes, Shrinks
<1>3. runtime'[b] = s /\ s.life # "None" /\ \A a \in Bindings \ {b} : runtime'[a] = runtime[a]
    <2>1. s.life \in LifeStates
        BY <1>2, RuntimeFields
    <2>. QED  BY <1>1, <1>2, <2>1 DEF LifeStates
<1>4. s.life = "Closed" => \A p \in Providers : current[p] # b
    BY RegisteredIsCurrent DEF Closes
<1>5. CASE Refused
    <2>1. Evolves(b)
        <3>1. /\ \/ Moves(r, s)
                 \/ s.life = "DetachSent" /\ s.sequence = next_sequence /\ ~sequence_exhausted
                       /\ commit_sequence(next_sequence)
              /\ r.life = "DetachSent" /\ s.life = "ClosingRetry" => sequence_exhausted
            BY DEF Closes, Moves
        <3>2. sequence_exhausted' = sequence_exhausted /\ next_sequence' = next_sequence
            BY <1>5 DEF Refused
        <3>3. ~(~sequence_exhausted /\ commit_sequence(next_sequence))
            <4>. SUFFICES ASSUME ~sequence_exhausted, commit_sequence(next_sequence) PROVE FALSE
                OBVIOUS
            <4>1. next_sequence < next_sequence' \/ sequence_exhausted'
                BY <1>1, CommitIssues
            <4>. QED  BY <1>1, <3>2, <4>1 DEF Bindings
        <3>. QED  BY <1>2, <1>3, <3>1, <3>2, <3>3 DEF Evolves
    <2>. QED  BY <1>2, <1>4, <1>5, <2>1, OneEvolves
<1>6. CASE ~Refused
    <2>1. SendsNext(DetachItem(b))
        BY <1>1, <1>6, ClosesSends
    <2>2. /\ IsCurrent(b) /\ ~sequence_exhausted /\ s.life = "DetachSent" /\ s.sequence = next_sequence
        BY <1>6 DEF Closes
    <2>3. GivesOut
        BY <2>1, SendsGivesOut
    <2>4. Evolves(b)
        BY <1>2, <1>3, <2>2, <2>3 DEF Evolves
    <2>5. PICK x : x = DetachItem(b)
        OBVIOUS
    <2>6. /\ x.kind = "Detach" /\ x.sequence = next_sequence /\ x.provider = r.provider
          /\ x.binding = b
        BY <2>5 DEF DetachItem
    <2>7. b < next_sequence /\ ~Bound(next_sequence)
        BY <2>2, Fresh
    <2>8. next_sequence # b /\ runtime'[next_sequence].life = "None"
        BY <1>1, <1>3, <2>7 DEF Bound, Bindings
    <2>9. ASSUME NEW a \in Bindings, runtime'[a].life = "DetachSent",
                 runtime'[a].sequence = next_sequence
          PROVE  a = b
        BY <1>3, <2>2, <2>9, Fresh DEF Bound
    <2>10. Belongs(x.binding, x.provider)'
        BY <1>2, <1>3, <2>6 DEF Belongs, Bound
    <2>11. ItemKnown(x)'
        BY <1>3, <2>2, <2>6, <2>7, <2>8, <2>9, <2>10, OtherItemKnown
    <2>. QED  BY <1>2, <1>4, <2>1, <2>4, <2>5, <2>11, OneEvolves
<1>. QED  BY <1>5, <1>6

\* A runtime that loses or keeps what it answers for, and sends nothing.
LEMMA QuietRuntimeRegistry ==
    ASSUME BaseInv, RegistryInv, UNCHANGED <<binding, last_sequence, exhausted, current>>,
           kernel' = kernel, Refused, NEW b \in Bindings, Bound(b),
           NEW s, RuntimeOK(s), runtime' = [runtime EXCEPT ![b] = s],
           s.provider = runtime[b].provider, s.pending \subseteq runtime[b].pending,
           \/ s.life = runtime[b].life /\ s.sequence = runtime[b].sequence
           \/ runtime[b].life = "Active" /\ s.life = "Quiescing"
           \/ s.life = "Closed" /\ ~IsCurrent(b)
    PROVE  RegistryInv'
<1>1. DOMAIN runtime = Bindings /\ s.life \in LifeStates
    BY RuntimeFields DEF BaseInv, TypesInv, RuntimeTypes
<1>2. runtime'[b] = s /\ s.life # "None"
    BY <1>1 DEF LifeStates
<1>3. Moves(runtime[b], s) /\ ~(runtime[b].life = "DetachSent" /\ s.life = "ClosingRetry")
    BY DEF Moves
<1>4. Evolves(b)
    BY <1>2, <1>3 DEF Evolves
<1>5. s.life = "Closed" => \A p \in Providers : current[p] # b
    BY RegisteredIsCurrent
<1>. QED  BY <1>4, <1>5, OneEvolves

\* A runtime is closed, told to finish, or takes from its queues.
LEMMA RuntimeActionsRegistry ==
    ASSUME BaseInv, RegistryInv, NEW b \in Bindings,
           \/ BeginClose(b) \/ CloseRuntime(b) \/ begin_quiesce(b) \/ try_recv(b)
           \/ try_recv_observation_outcome(b)
    PROVE  RegistryInv'
<1>1. RuntimeTypes /\ next_sequence \in Bindings
    BY DEF BaseInv, TypesInv, RegistryTypes
<1>2. /\ UNCHANGED <<binding, last_sequence, exhausted, current>> /\ kernel' = kernel /\ Bound(b)
    BY DEF BeginClose, CloseRuntime, begin_quiesce, try_recv, try_recv_observation_outcome,
           Free, kernel_vars, registry_vars
<1>3. CASE CloseRuntime(b)
    <2>1. PICK s : Closes(b, s)
        BY <1>1, <1>2, <1>3, CloseActions DEF CloseRuntime
    <2>. QED  BY <1>2, <2>1, ClosesRegistry
<1>4. CASE BeginClose(b) \/ begin_quiesce(b) \/ try_recv(b) \/ try_recv_observation_outcome(b)
    <2>1. Refused
        BY <1>4 DEF BeginClose, begin_quiesce, try_recv, try_recv_observation_outcome,
                     registry_vars, Refused
    <2>2. CASE begin_quiesce(b)
        <3>1. PICK s : /\ runtime' = [runtime EXCEPT ![b] = s] /\ Shrinks(runtime[b], s)
                       /\ \/ runtime[b].life = "Active" /\ s.life = "Quiescing"
                          \/ ~IsCurrent(b) /\ s.life = "Closed"
            BY <1>1, <2>2, QuiesceForm
        <3>. QED  BY <1>2, <2>1, <3>1, QuietRuntimeRegistry DEF Shrinks
    <2>3. CASE try_recv(b)
        <3>1. PICK s : /\ runtime' = [runtime EXCEPT ![b] = s] /\ RuntimeOK(s)
                       /\ s.life = runtime[b].life /\ s.sequence = runtime[b].sequence
                       /\ s.provider = runtime[b].provider /\ s.pending = runtime[b].pending
            BY <1>1, <2>3, RecvForm
        <3>. QED  BY <1>2, <2>1, <3>1, QuietRuntimeRegistry
    <2>4. CASE try_recv_observation_outcome(b)
        <3>1. PICK s : /\ runtime' = [runtime EXCEPT ![b] = s] /\ Shrinks(runtime[b], s)
                       /\ s.life = runtime[b].life /\ s.sequence = runtime[b].sequence
            BY <1>1, <2>4, OutcomeForm
        <3>. QED  BY <1>2, <2>1, <3>1, QuietRuntimeRegistry DEF Shrinks
    <2>5. CASE BeginClose(b)
        <3>1. PICK s : /\ runtime' = [runtime EXCEPT ![b] = s] /\ Shrinks(runtime[b], s)
                       /\ s.life = runtime[b].life /\ s.sequence = runtime[b].sequence
            BY <1>1, <2>5, BeginCloseForm
        <3>. QED  BY <1>2, <2>1, <3>1, QuietRuntimeRegistry DEF Shrinks
    <2>. QED  BY <1>4, <2>2, <2>3, <2>4, <2>5
<1>. QED  BY <1>3, <1>4

\* The kernel asks a runtime that waits to be closed.
LEMMA FlushRegistry ==
    ASSUME BaseInv, RegistryInv, NEW b \in Bindings, FlushBinding(b)
    PROVE  RegistryInv'
<1>1. RuntimeTypes /\ next_sequence \in Bindings /\ kernel \in KernelState
    BY DEF BaseInv, TypesInv, RegistryTypes, ChannelTypes
<1>2. /\ UNCHANGED <<binding, last_sequence, exhausted, current>>
      /\ kernel' = [kernel EXCEPT !.flush = @ \ {b}]
      /\ IF runtime[b].life = "ClosingRetry" THEN request_close(b, Emptied(runtime[b]))
         ELSE Refused /\ runtime' = runtime
    BY DEF FlushBinding, Refused
<1>3. /\ kernel'.pc = kernel.pc /\ kernel'.provider = kernel.provider /\ kernel'.batch = kernel.batch
    BY <1>1, <1>2 DEF KernelState
<1>4. CASE runtime[b].life = "ClosingRetry"
    <2>1. Bound(b) /\ request_close(b, Emptied(runtime[b]))
        BY <1>2, <1>4 DEF Bound
    <2>2. PICK s : Closes(b, s)
        BY <1>1, <2>1, CloseActions
    <2>. QED  BY <1>2, <1>3, <2>1, <2>2, ClosesRegistry
<1>5. CASE runtime[b].life # "ClosingRetry"
    <2>1. Frame /\ ingress' = ingress
        BY <1>2, <1>5 DEF Frame, Refused
    <2>. QED  BY <1>3, <2>1, KeepForm, PhaseRegistry
<1>. QED  BY <1>4, <1>5

\* A runtime answers.
LEMMA CompleteRegistry ==
    ASSUME BaseInv, RegistryInv, NEW b \in Bindings, NEW e, try_complete(b, e)
    PROVE  RegistryInv'
<1>1. RuntimeTypes /\ next_sequence \in Bindings /\ DOMAIN runtime = Bindings
    BY DEF BaseInv, TypesInv, RegistryTypes, RuntimeTypes
<1> DEFINE r == runtime[b]
<1>2. /\ UNCHANGED <<binding, last_sequence, exhausted, current>> /\ kernel' = kernel /\ Bound(b)
      /\ ~sequence_exhausted /\ commit_sequence(next_sequence) /\ Serves(r)
    BY DEF try_complete, kernel_vars
<1>3. PICK s : /\ runtime' = [runtime EXCEPT ![b] = s] /\ RuntimeOK(s)
               /\ e \in r.tickets /\ Send(ObserveItemOf(b, e)) /\ s.provider = r.provider
               /\ s.pending = r.pending \cup {[sequence |-> next_sequence, effect |-> e]}
               /\ \/ s.life = r.life /\ s.sequence = r.sequence
                  \/ s.life = "ClosingRetry" /\ s.sequence = 0
    BY <1>1, CompleteForm
<1>4. runtime'[b] = s /\ s.life # "None" /\ \A a \in Bindings \ {b} : runtime'[a] = runtime[a]
    <2>1. s.life \in LifeStates
        BY <1>3, RuntimeFields
    <2>. QED  BY <1>1, <1>3, <2>1 DEF LifeStates
<1>5. SendsNext(ObserveItemOf(b, e))
    <2>1. ObserveItemOf(b, e) \in ObserveItem /\ ObserveItemOf(b, e).sequence = next_sequence
        BY <1>1, <1>2, <1>3, BoundRecord, RuntimeFields DEF ObserveItemOf, ObserveItem
    <2>. QED  BY <1>2, <1>3, <2>1 DEF SendsNext
<1>6. GivesOut
    BY <1>5, SendsGivesOut
<1>7. Moves(r, s) /\ r.life # "DetachSent" /\ s.life \notin {"Closed", "DetachSent"}
    BY <1>2, <1>3 DEF Moves, Serves
<1>8. \A m \in s.pending : m \in r.pending \/ (m.sequence = next_sequence /\ GivesOut)
    BY <1>3, <1>6
<1>9. Evolves(b)
    BY <1>2, <1>3, <1>4, <1>7, <1>8 DEF Evolves
<1>10. PICK x : x = ObserveItemOf(b, e)
    OBVIOUS
<1>11. /\ x.kind = "Observe" /\ x.sequence = next_sequence /\ x.provider = r.provider
       /\ x.binding = b
    BY <1>10 DEF ObserveItemOf
<1>12. b < next_sequence /\ ~Bound(next_sequence)
    BY <1>2, Fresh
<1>13. runtime'[next_sequence].life = "None"
    BY <1>1, <1>4, <1>12 DEF Bound, Bindings
<1>14. ASSUME NEW a \in Bindings, runtime'[a].life = "DetachSent",
              runtime'[a].sequence = next_sequence
       PROVE  FALSE
    BY <1>2, <1>4, <1>7, <1>14, Fresh DEF Bound
<1>15. Belongs(x.binding, x.provider)'
    BY <1>3, <1>4, <1>11 DEF Belongs, Bound
<1>16. ItemKnown(x)'
    BY <1>11, <1>12, <1>13, <1>14, <1>15, OtherItemKnown
<1>. QED  BY <1>2, <1>3, <1>5, <1>7, <1>9, <1>10, <1>16, OneEvolves

\* A provider is bound.
LEMMA BindRegistry ==
    ASSUME BaseInv, RegistryInv, NEW p \in Providers, bind_provider(p)
    PROVE  RegistryInv'
<1> DEFINE n == next_sequence
           y == [kind |-> "Attach", sequence |-> n, provider |-> p, binding |-> n]
<1>1. /\ ChannelTypes /\ n \in Bindings /\ DOMAIN runtime = Bindings
      /\ current \in [Providers -> 0 .. MaxSequence]
    BY DEF BaseInv, TypesInv, RegistryTypes, RuntimeTypes
<1>2. /\ UNCHANGED <<binding, last_sequence, exhausted>> /\ kernel' = kernel
      /\ current[p] = None /\ current' = [current EXCEPT ![p] = n]
      /\ runtime' = [runtime EXCEPT ![n] = NewRuntime(p)]
      /\ ~sequence_exhausted /\ Send(y) /\ commit_sequence(n)
    BY DEF bind_provider, kernel_vars, NewRuntime
<1>3. y \in BindItem /\ y.sequence = n
    BY <1>1 DEF BindItem
<1>4. PICK x : x = y
    OBVIOUS
<1>5. x.kind = "Attach" /\ x.sequence = n /\ x.provider = p /\ x.binding = n
    BY <1>4
<1>6. SendsNext(x)
    BY <1>2, <1>3, <1>4 DEF SendsNext
<1>. HIDE DEF y
<1>7. GivesOut /\ SequencesStay
    BY <1>6, SendsGivesOut
<1>8. /\ runtime'[n].life = "AttachSent" /\ runtime'[n].sequence = n /\ runtime'[n].pending = {}
      /\ runtime'[n].provider = p
    <2>1. runtime'[n] = NewRuntime(p)
        BY <1>1, <1>2
    <2>. QED  BY <2>1 DEF NewRuntime
<1>9. \A a \in Bindings \ {n} : runtime'[a] = runtime[a]
    BY <1>2
<1>10. ~Bound(n)
    BY <1>2, Fresh
<1>11. \A a \in Bindings : Evolves(a)
    BY <1>7, <1>8, <1>9, <1>10 DEF Evolves
<1>12. ASSUME NEW q \in Providers PROVE Registers(q)
    <2>1. CASE q = p
        BY <1>1, <1>2, <1>7, <1>8, <1>10, <2>1 DEF Registers
    <2>2. CASE q # p
        <3>1. current'[q] = current[q]
            BY <1>1, <1>2, <2>2
        <3>2. ASSUME current[q] # None PROVE runtime'[current[q]].life # "Closed"
            <4>1. /\ current[q] \in Bindings /\ Bound(current[q])
                  /\ runtime[current[q]].life # "Closed"
                BY <3>2 DEF RegistryInv, CurrentKnown, Belongs
            <4>2. current[q] # n
                BY <1>10, <4>1
            <4>. QED  BY <1>9, <4>1, <4>2
        <3>. QED  BY <3>1, <3>2 DEF Registers
    <2>. QED  BY <2>1, <2>2
<1>13. ItemKnown(x)'
    <2>1. ASSUME NEW a \in Bindings, runtime'[a].life = "DetachSent", runtime'[a].sequence = n
          PROVE  FALSE
        BY <1>2, <1>8, <1>9, <2>1, Fresh DEF Bound
    <2>2. Belongs(x.binding, x.provider)'
        BY <1>1, <1>5, <1>8 DEF Belongs, Bound
    <2>3. current'[x.provider] = x.binding
        BY <1>1, <1>2, <1>5
    <2>4. runtime'[x.binding].life = "AttachSent" /\ ~Serves(runtime'[x.binding])
        BY <1>5, <1>8 DEF Serves
    <2>. HIDE DEF n
    <2>. QED  BY <1>5, <2>1, <2>2, <2>3, <2>4 DEF ItemKnown, Serves
<1>14. \A z \in Channel' : OfProvider(z) => z \in Channel \/ NewItem(z)
    <2>1. NewItem(x)
        BY <1>6, <1>7, <1>13 DEF NewItem, SendsNext
    <2>2. x \in Item /\ Send(x) /\ kernel'.batch = kernel.batch
        BY <1>2, <1>6 DEF SendsNext, Item
    <2>3. Sends(x)
        BY <1>1, <2>2, SendForm
    <2>. QED  BY <1>1, <2>1, <2>3, SendsChannel
<1>15. EvolvesAll
    BY <1>2, <1>7, <1>11, <1>12, <1>14 DEF EvolvesAll, ProviderOutcomes
<1>16. ExhaustedIsEmpty'
    <2>1. ~exhausted
        <3>1. Issued(last_sequence) /\ RegistryTypes
            BY DEF RegistryInv, SequencesInOrder, BaseInv, TypesInv
        <3>2. last_sequence < next_sequence
            BY <1>2, <3>1 DEF Issued
        <3>. QED  BY <1>1, <3>1, <3>2 DEF RegistryTypes, Bindings
    <2>. QED  BY <1>2, <2>1 DEF ExhaustedIsEmpty
<1>. QED  BY <1>15, <1>16, EvolvesRegistry

-----------------------------------------------------------------------------
(* The step is published. *)

\* An attach does not come after an outcome of its runtime.
LEMMA AttachIsFirst ==
    ASSUME BaseInv, RegistryInv, NEW o \in ProviderOutcomes, NEW b \in Bindings,
           o.sequence >= b, o.sequence \in Bindings
    PROVE  NoAttach(b)
<1>. SUFFICES ASSUME NEW z \in Channel, z.kind = "Attach", z.binding = b PROVE FALSE
    BY DEF NoAttach
<1>1. OfProvider(z) /\ ChannelTypes
    BY DEF OfProvider, ProviderKinds, BaseInv, TypesInv
<1>2. z.sequence = b /\ o.sequence < z.sequence
    BY <1>1 DEF RegistryInv, ItemsKnown, ItemKnown, SequencesInOrder
<1>. QED  BY <1>2 DEF Bindings

\* A runtime has one provider.
LEMMA OneProvider ==
    ASSUME RegistryInv, NEW p \in Providers, NEW q \in Providers, current[p] = current[q], current[p] # None
    PROVE  p = q
BY DEF RegistryInv, CurrentKnown, Belongs

\* What the runtime b becomes when it hears of the outcome o.
LEMMA HearsOutcome ==
    ASSUME BaseInv, RegistryInv, UNCHANGED <<sequence_exhausted>>,
           NEW o \in ProviderOutcomes, o \in ProviderOutcomeRecord,
           current[o.provider] = o.binding, NEW s,
           s = Concluded(Receipted(runtime[o.binding], o), o.binding, o),
           runtime'[o.binding] = s
    PROVE  /\ Evolves(o.binding)
           /\ s.life = "Closed" => binding[o.provider] # o.binding /\ NoAttach(o.binding)
<1> DEFINE b == o.binding
           p == o.provider
           r == runtime[b]
           q == Receipted(r, o)
<1>1. b \in Bindings /\ p \in Providers /\ o.sequence \in Bindings /\ b # None
    BY Bounds DEF ProviderOutcomeRecord
<1>2. OutcomeKnown(o) /\ Belongs(b, p) /\ Bound(b) /\ r.life # "Closed"
    BY <1>1 DEF RegistryInv, OutcomesKnown, OutcomeKnown, Belongs, CurrentKnown
<1>3. RuntimeOK(r) /\ RuntimeIssued(b) /\ r.life \in LifeStates /\ r.sequence \in 0 .. MaxSequence
    BY <1>1, <1>2, RuntimeKnown
<1>4. Shrinks(r, q) /\ (Receipts(r, q, o) \/ FaultLife(r, q))
    BY <1>3, ReceiptedShrinks
<1>5. \/ q.life = r.life /\ q.sequence = r.sequence
      \/ /\ r.life \in {"AttachSent", "Active", "Quiescing", "ClosingRetry"}
         /\ q.life = "ClosingRetry"
         /\ q.sequence = (IF r.life \in {"AttachSent", "ClosingRetry"} THEN r.sequence ELSE 0)
    BY <1>4 DEF Receipts, FaultLife
<1>6. Shrinks(r, s) /\ s.life # "None"
    <2>1. Shrinks(r, s)
        BY <1>3, OutcomeRuntime
    <2>2. s.life \in LifeStates
        BY <2>1, RuntimeFields DEF Shrinks
    <2>. QED  BY <2>1, <2>2 DEF LifeStates
<1>7. /\ r.life = "AttachSent" => r.sequence = b
      /\ r.life = "DetachSent" => r.sequence > b
    BY <1>3 DEF RuntimeIssued
<1>8. /\ o.sequence = b => o.result \notin {"Detached", "Applied", "Ignored"}
      /\ o.result = "Attached" /\ r.life = "AttachSent" => binding[p] = b \/ exhausted
      /\ o.result # "Attached" /\ o.sequence = b => binding[p] # b
      /\ /\ r.life = "DetachSent" /\ r.sequence = o.sequence
         /\ o.result \notin {"IntegrationBlocked", "SequenceRegressed"}
         => binding[p] # b
    BY <1>2 DEF OutcomeKnown
<1>9. /\ o.sequence = b => NoAttach(b)
      /\ r.life = "DetachSent" /\ r.sequence = o.sequence => NoAttach(b)
    <2>1. o.sequence = b => o.sequence >= b
        BY <1>1 DEF Bindings
    <2>2. r.life = "DetachSent" /\ r.sequence = o.sequence => o.sequence >= b
        BY <1>1, <1>3, <1>7 DEF Bindings
    <2>. QED  BY <1>1, <2>1, <2>2, AttachIsFirst
<1>10. q.life = r.life \/ q.life = "ClosingRetry"
    BY <1>5
<1>. HIDE DEF b, p, r, q
<1>11. \/ /\ s.life = "Closed"
          /\ \/ /\ q.life = "AttachSent" /\ q.sequence = o.sequence
                /\ o.result \notin {"Attached", "Detached", "Applied", "Ignored"}
             \/ /\ o.sequence = b
                /\ o.result \notin {"Attached", "Detached", "Applied", "Ignored"}
             \/ /\ q.life = "DetachSent" /\ q.sequence = o.sequence
                /\ o.result \notin {"IntegrationBlocked", "SequenceRegressed"}
       \/ /\ q.life = "AttachSent" /\ q.sequence = o.sequence /\ s.life = "Active"
          /\ o.result \in {"Attached", "Detached", "Applied", "Ignored"}
       \/ /\ q.life = "DetachSent" /\ q.sequence = o.sequence
          /\ s.life = "ClosingRetry" /\ s.sequence = 0
       \/ s = q
    <2>1. RuntimeOK(q) /\ s = Concluded(q, b, o)
        BY <1>4 DEF Shrinks, b, r, q
    <2>. QED  BY <2>1, ConcludedShrinks
<1>12. CASE s.life = "Closed" /\ s # q
    <2>1. binding[p] # b /\ NoAttach(b)
        BY <1>5, <1>7, <1>8, <1>9, <1>11, <1>12
    <2>2. Moves(r, s)
        BY <1>12 DEF Moves
    <2>. QED  BY <1>2, <1>6, <1>12, <2>1, <2>2 DEF Evolves, Shrinks, b, p, r
<1>13. CASE s # q /\ s.life = "Active"
    <2>1. /\ r.life = "AttachSent" /\ o.sequence = b /\ o.result = "Attached"
        BY <1>5, <1>7, <1>8, <1>11, <1>13
    <2>2. NoAttach(b) /\ (binding[p] = b \/ exhausted)
        BY <1>8, <1>9, <2>1
    <2>3. r.provider = p
        BY <1>2 DEF Belongs, r
    <2>. QED  BY <1>2, <1>6, <1>13, <2>1, <2>2, <2>3 DEF Evolves, Shrinks, b, r
<1>14. CASE s # q /\ s.life = "ClosingRetry"
    <2>1. r.life = "DetachSent" /\ r.sequence = o.sequence /\ s.sequence = 0
        BY <1>5, <1>11, <1>14
    <2>2. NoAttach(b) /\ Moves(r, s)
        BY <1>9, <1>14, <2>1 DEF Moves
    <2>. QED  BY <1>2, <1>6, <1>14, <2>1, <2>2 DEF Evolves, Shrinks, b, r
<1>15. CASE s = q
    <2>1. /\ Moves(r, s) /\ ~(r.life = "DetachSent" /\ s.life = "ClosingRetry") /\ s.life # "Closed"
        BY <1>2, <1>5, <1>15 DEF Moves
    <2>. QED  BY <1>2, <1>6, <2>1 DEF Evolves, Shrinks, b, r
<1>16. s = q \/ s.life \in {"Closed", "Active", "ClosingRetry"}
    BY <1>11
<1>. QED  BY <1>12, <1>13, <1>14, <1>15, <1>16

\* The outcome of a provider item is published.
LEMMA PublishOutcomeRegistry ==
    ASSUME BaseInv, RegistryInv, PublishOutcome
    PROVE  RegistryInv'
<1>1. /\ kernel.pc = "outcomes" /\ ingress' = ingress /\ kernel'.batch = kernel.batch
      /\ UNCHANGED <<binding, last_sequence, exhausted, next_sequence, sequence_exhausted>>
    BY PublishOutcomeForm
<1>2. exhausted => \A p \in Providers : binding[p] = None
    BY <1>1 DEF RegistryInv, ExhaustedIsEmpty
<1>3. Keeps /\ Channel' = Channel
    BY <1>1, KeepForm, KeepsChannel
<1>4. CASE kernel'.pc = "effects" /\ kernel.provider = <<>> /\ kernel'.provider = <<>>
           /\ UNCHANGED <<current, runtime>>
    <2>1. Frame
        BY <1>1, <1>4 DEF Frame
    <2>. QED  BY <1>1, <1>2, <1>3, <1>4, <2>1, PhaseRegistry
<1>5. CASE kernel'.pc = "outcomes"
    <2>1. ExhaustedIsEmpty'
        BY <1>1, <1>2, <1>5 DEF ExhaustedIsEmpty
    <2>2. PICK o \in ProviderOutcomeRecord :
             /\ o \in ProviderOutcomes /\ ProviderOutcomes = {o} \cup ProviderOutcomes'
             /\ \/ current[o.provider] # o.binding /\ UNCHANGED <<current, runtime>>
                \/ \E s :
                     /\ current[o.provider] = o.binding
                     /\ s = Concluded(Receipted(runtime[o.binding], o), o.binding, o)
                     /\ runtime' = [runtime EXCEPT ![o.binding] = s]
                     /\ current' = [current EXCEPT ![o.provider] =
                                       IF s.life = "Closed" THEN None ELSE @]
        BY <1>5, PublishOutcomeForm
    <2>3. ProviderOutcomes' \subseteq ProviderOutcomes
        BY <2>2
    <2>4. CASE UNCHANGED <<current, runtime>>
        <3>1. Frame
            BY <1>1, <2>4 DEF Frame
        <3>. QED  BY <1>3, <2>1, <2>3, <3>1, RegistryFrame
    <2>5. ASSUME NEW s, current[o.provider] = o.binding,
                 s = Concluded(Receipted(runtime[o.binding], o), o.binding, o),
                 runtime' = [runtime EXCEPT ![o.binding] = s],
                 current' = [current EXCEPT ![o.provider] = IF s.life = "Closed" THEN None ELSE @]
          PROVE  RegistryInv'
        <3>1. /\ o.binding \in Bindings /\ o.provider \in Providers /\ o.binding # None
              /\ DOMAIN runtime = Bindings /\ current \in [Providers -> 0 .. MaxSequence]
              /\ next_sequence \in Bindings
            BY Bounds DEF ProviderOutcomeRecord, BaseInv, TypesInv, RuntimeTypes, RegistryTypes
        <3>2. runtime'[o.binding] = s /\ \A a \in Bindings \ {o.binding} : runtime'[a] = runtime[a]
            BY <2>5, <3>1
        <3>3. /\ Evolves(o.binding)
              /\ s.life = "Closed" => binding[o.provider] # o.binding /\ NoAttach(o.binding)
            BY <1>1, <2>2, <2>5, <3>2, HearsOutcome
        <3>4. \A a \in Bindings : Evolves(a)
            BY <3>2, <3>3 DEF Evolves
        <3>5. ASSUME NEW q \in Providers PROVE Registers(q)
            <4>1. CASE q = o.provider
                <5>1. current'[q] = IF s.life = "Closed" THEN None ELSE current[q]
                    BY <2>5, <3>1, <4>1
                <5>. QED  BY <2>5, <3>2, <3>3, <4>1, <5>1 DEF Registers
            <4>2. CASE q # o.provider
                <5>1. current'[q] = current[q]
                    BY <2>5, <3>1, <4>2
                <5>2. ASSUME current[q] # None PROVE runtime'[current[q]].life # "Closed"
                    <6>1. current[q] \in Bindings /\ runtime[current[q]].life # "Closed"
                        BY <5>2 DEF RegistryInv, CurrentKnown, Belongs
                    <6>2. current[q] # o.binding
                        BY <2>5, <3>1, <4>2, <5>2, OneProvider
                    <6>. QED  BY <3>2, <6>1, <6>2
                <5>. QED  BY <5>1, <5>2 DEF Registers
            <4>. QED  BY <4>1, <4>2
        <3>6. SequencesStay
            BY <1>1, <3>1 DEF SequencesStay, Bindings
        <3>7. EvolvesAll
            BY <1>1, <1>3, <2>3, <3>4, <3>5, <3>6 DEF EvolvesAll
        <3>. QED  BY <2>1, <3>7, EvolvesRegistry
    <2>. QED  BY <2>2, <2>4, <2>5
<1>. QED  BY <1>4, <1>5, PublishOutcomeForm

\* An effect is published.
LEMMA PublishEffectRegistry ==
    ASSUME BaseInv, RegistryInv, PublishEffect
    PROVE  RegistryInv'
<1>1. /\ kernel.pc = "effects" /\ ingress' = ingress /\ kernel'.batch = kernel.batch
      /\ UNCHANGED <<binding, last_sequence, exhausted, current, next_sequence, sequence_exhausted>>
      /\ kernel'.provider = kernel.provider
    BY PublishEffectForm DEF registry_vars
<1>2. exhausted => \A p \in Providers : binding[p] = None
    BY <1>1 DEF RegistryInv, ExhaustedIsEmpty
<1>3. CASE UNCHANGED runtime /\ kernel'.pc \in {"effects", "reconcile"}
    <2>1. Frame
        BY <1>1, <1>3 DEF Frame
    <2>. QED  BY <1>1, <1>2, <1>3, <2>1, KeepForm, PhaseRegistry
<1>4. ASSUME NEW x, x.effect \in EffectEnvelope, x.binding \in Bindings, kernel'.pc = "effects",
             Reaches(x.binding, x.effect.provider), Bound(x.binding),
             runtime' = [runtime EXCEPT ![x.binding] = Delivered(runtime[x.binding], x.effect)]
      PROVE  RegistryInv'
    <2> DEFINE b == x.binding
               r == runtime[b]
               s == Delivered(r, x.effect)
    <2>1. RuntimeOK(r) /\ DOMAIN runtime = Bindings
        BY <1>4, RuntimeKnown DEF BaseInv, TypesInv, RuntimeTypes
    <2>2. /\ RuntimeOK(s) /\ s.provider = r.provider /\ s.pending \subseteq r.pending
          /\ \/ s.life = r.life /\ s.sequence = r.sequence
             \/ s.life = "ClosingRetry" /\ s.sequence = 0
        BY <1>4, <2>1, DeliveredForm DEF Shrinks
    <2>. HIDE DEF s
    <2>3. runtime'[b] = s /\ runtime' = [runtime EXCEPT ![b] = s]
        BY <1>4, <2>1 DEF s
    <2>4. r.life \in {"Active", "Quiescing"} /\ s.life # "None"
        <3>1. s.life \in LifeStates
            BY <2>2, RuntimeFields
        <3>. QED  BY <1>4, <3>1 DEF Reaches, Serves, LifeStates
    <2>5. Moves(r, s) /\ s.life # "Closed"
        BY <2>2, <2>4 DEF Moves
    <2>6. Evolves(b)
        BY <1>4, <2>2, <2>3, <2>4, <2>5 DEF Evolves
    <2>7. Refused
        BY <1>1 DEF Refused
    <2>8. b \in Bindings
        BY <1>4
    <2>. HIDE DEF b
    <2>. QED  BY <1>1, <1>4, <2>3, <2>5, <2>6, <2>7, <2>8, OneEvolves
<1>. QED  BY <1>3, <1>4, PublishEffectForm

\* A registered runtime whose command was reduced has no attach on its way.
LEMMA ReducedHasNoAttach ==
    ASSUME BaseInv, RegistryInv, NEW p \in Providers, current[p] # None,
           WasReduced(runtime[current[p]]), ~sequence_exhausted
    PROVE  NoAttach(current[p])
<1> DEFINE b == current[p]
           r == runtime[b]
<1>. SUFFICES ASSUME NEW z \in Channel, z.kind = "Attach", z.binding = b PROVE FALSE
    BY DEF NoAttach
<1>1. OfProvider(z) /\ last_sequence \in 0 .. MaxSequence /\ b \in Bindings /\ Bound(b)
      /\ r.life # "Closed"
    BY DEF OfProvider, ProviderKinds, BaseInv, TypesInv, RegistryTypes, RegistryInv, CurrentKnown, Belongs
<1>2. /\ z.sequence = b /\ z.sequence > last_sequence /\ ~Serves(r)
      /\ r.life = "ClosingRetry" => r.sequence # 0
    BY <1>1 DEF RegistryInv, ItemsKnown, ItemKnown, SequencesInOrder
<1>3. /\ RuntimeIssued(b) /\ r.sequence \in 0 .. MaxSequence /\ r.life \in LifeStates
    BY <1>1, RuntimeKnown
<1>4. r.life \in {"AttachSent", "DetachSent", "ClosingRetry"}
    BY <1>1, <1>2, <1>3 DEF LifeStates, Serves
<1>5. r.sequence >= b
    BY <1>1, <1>2, <1>3, <1>4 DEF RuntimeIssued, Bindings
<1>6. last_sequence >= r.sequence
    BY <1>4 DEF WasReduced
<1>. QED  BY <1>1, <1>2, <1>3, <1>5, <1>6 DEF Bindings

\* The registry is reconciled with the kernel.
LEMMA ReconcileRegistry ==
    ASSUME BaseInv, RegistryInv, Reconcile
    PROVE  RegistryInv'
<1>1. /\ kernel.pc = "reconcile" /\ kernel'.pc = "edge" /\ Cargo' = Cargo
      /\ UNCHANGED <<ingress, binding, last_sequence, exhausted>>
      /\ current' = [p \in Providers |-> IF p \in Gone THEN None ELSE current[p]]
      /\ sequence_exhausted' = (sequence_exhausted \/ exhausted)
      /\ next_sequence' = IF ~sequence_exhausted' /\ last_sequence >= next_sequence
                          THEN last_sequence + 1 ELSE next_sequence
    BY ReconcileForm
<1>2. RegistryTypes /\ RuntimeTypes
    BY DEF BaseInv, TypesInv
<1>3. kernel'.batch = kernel.batch /\ kernel'.provider = kernel.provider
    BY <1>1 DEF Cargo
<1>4. Channel' = Channel /\ ProviderOutcomes' = ProviderOutcomes
    BY <1>1, <1>3, KeepForm, KeepsChannel DEF ProviderOutcomes
<1>5. (sequence_exhausted => sequence_exhausted') /\ (exhausted => sequence_exhausted')
    BY <1>1, <1>2, Zenon DEF RegistryTypes
<1>6. next_sequence' = next_sequence
    <2>1. Issued(last_sequence)
        BY DEF RegistryInv, SequencesInOrder
    <2>2. ~sequence_exhausted' => ~(last_sequence >= next_sequence)
        BY <1>2, <1>5, <2>1 DEF Issued, RegistryTypes, Bindings
    <2>. QED  BY <1>1, <2>2
<1>7. SequencesStay
    BY <1>2, <1>5, <1>6 DEF SequencesStay, RegistryTypes, Bindings
<1>8. ASSUME NEW b \in Bindings PROVE Evolves(b)
    <2>1. CASE runtime'[b] = runtime[b]
        BY <2>1 DEF Evolves
    <2>2. ASSUME NEW p \in Providers, current[p] = b,
                 runtime'[b] = Retired(runtime[b]) \/ runtime'[b] = Settled(runtime[b])
          PROVE  Evolves(b)
        <3>1. Bound(b) /\ RuntimeOK(runtime[b])
            BY <1>2, <2>2, BoundRecord, Bounds DEF RuntimeTypes
        <3>2. /\ Shrinks(runtime[b], runtime'[b])
              /\ \/ runtime'[b].life = "Closed"
                 \/ /\ runtime'[b].life = runtime[b].life
                    /\ runtime'[b].sequence = runtime[b].sequence
            BY <2>2, <3>1, RetiredShrinks, SettledShrinks
        <3>3. runtime'[b].life # "None"
            <4>1. runtime'[b].life \in LifeStates
                BY <3>2, RuntimeFields DEF Shrinks
            <4>. QED  BY <4>1 DEF LifeStates
        <3>4. Moves(runtime[b], runtime'[b]) /\
                ~(runtime[b].life = "DetachSent" /\ runtime'[b].life = "ClosingRetry")
            BY <3>2 DEF Moves
        <3>. QED  BY <3>1, <3>2, <3>3, <3>4 DEF Evolves, Shrinks
    <2>. QED  BY <2>1, <2>2, ReconcileForm DEF Gone
<1>9. ASSUME NEW p \in Providers PROVE Registers(p)
    <2>1. CASE p \in Gone
        <3>1. current'[p] = None /\ current[p] # None
            BY <1>1, <2>1 DEF Gone
        <3>2. sequence_exhausted' \/ (binding[p] # current[p] /\ NoAttach(current[p]))
            BY <1>5, <2>1, <3>1, ReducedHasNoAttach DEF Gone
        <3>. QED  BY <3>1, <3>2 DEF Registers
    <2>2. CASE p \notin Gone
        <3>1. current'[p] = current[p]
            BY <1>1, <2>2
        <3>2. ASSUME current[p] # None PROVE runtime'[current[p]].life # "Closed"
            <4>1. /\ current[p] \in Bindings /\ Bound(current[p])
                  /\ runtime[current[p]].life # "Closed"
                BY <3>2 DEF RegistryInv, CurrentKnown, Belongs
            <4>2. ~ \E q \in Gone : current[q] = current[p]
                <5>1. Gone \subseteq Providers
                    BY DEF Gone
                <5>. QED  BY <2>2, <3>2, <5>1, OneProvider
            <4>3. runtime'[current[p]] \in {runtime[current[p]], Settled(runtime[current[p]])}
                BY <4>1, <4>2, ReconcileForm
            <4>4. Settled(runtime[current[p]]).life = runtime[current[p]].life
                BY <1>2, <4>1, BoundRecord, SettledShrinks
            <4>. QED  BY <4>1, <4>3, <4>4
        <3>. QED  BY <3>1, <3>2 DEF Registers
    <2>. QED  BY <2>1, <2>2
<1>10. ExhaustedIsEmpty'
    <2>1. ASSUME exhausted, NEW p \in Providers PROVE binding[p] = None /\ current'[p] = None
        <3>1. binding[p] = None
            BY <1>1, <2>1 DEF RegistryInv, ExhaustedIsEmpty
        <3>. QED  BY <1>1, <2>1, <3>1 DEF Gone
    <2>. QED  BY <1>1, <2>1 DEF ExhaustedIsEmpty
<1>11. EvolvesAll
    BY <1>1, <1>4, <1>7, <1>8, <1>9 DEF EvolvesAll
<1>. QED  BY <1>10, <1>11, EvolvesRegistry

-----------------------------------------------------------------------------
(* The registry agrees with the kernel. *)

\* Nothing is bound, sent or registered at the start.
LEMMA PlaneInitRegistry == PlaneInit => RegistryInv
<1>. SUFFICES ASSUME PlaneInit PROVE RegistryInv
    OBVIOUS
<1>1. /\ ingress = <<>> /\ kernel = Resting /\ last_sequence = 0 /\ next_sequence = 1
      /\ ~exhausted /\ ~sequence_exhausted
      /\ binding = [p \in Providers |-> None] /\ current = [p \in Providers |-> None]
      /\ runtime = [b \in Bindings |-> Unbound]
    BY DEF PlaneInit
<1>2. kernel.batch = <<>> /\ kernel.provider = <<>>
    BY <1>1 DEF Resting
<1>3. Channel = {} /\ ProviderOutcomes = {}
    <2>1. <<>> \o <<>> = <<>>
        BY ConcatEmpty
    <2>2. Elements(<<>>) = {}
        BY SingleOutcome
    <2>. QED  BY <1>1, <1>2, <2>1, <2>2 DEF Channel, InChannel, ProviderOutcomes
<1>4. \A b \in Bindings : ~Bound(b)
    BY <1>1 DEF Bound, Unbound
<1>5. SequencesInOrder /\ ItemsKnown /\ OutcomesKnown
    BY <1>1, <1>3 DEF SequencesInOrder, Issued, ItemsKnown, OutcomesKnown
<1>6. RuntimesIssued
    BY <1>4 DEF RuntimesIssued
<1>7. CurrentKnown /\ BoundKnown /\ ServingIsBound /\ ExhaustedIsEmpty
    BY <1>1 DEF CurrentKnown, BoundKnown, ServingIsBound, ExhaustedIsEmpty
<1>. QED  BY <1>5, <1>6, <1>7 DEF RegistryInv

\* Every step of the threads keeps the invariant.
LEMMA PlaneNextRegistry == BaseInv /\ RegistryInv /\ [PlaneNext]_plane_vars => RegistryInv'
<1>. SUFFICES ASSUME BaseInv, RegistryInv, [PlaneNext]_plane_vars PROVE RegistryInv'
    OBVIOUS
<1>1. CASE UNCHANGED plane_vars
    <2>1. Frame /\ ingress' = ingress /\ kernel' = kernel
        BY <1>1 DEF plane_vars, kernel_vars, registry_vars, Frame
    <2>. QED  BY <2>1, KeepForm, PhaseRegistry
<1>2. CASE EdgeNext
    <2>1. CASE \/ \E k \in Keys, pk \in PolicyKeys, d \in Deadlines : Dispatch(k, pk, d)
               \/ \E c \in Clients : DispatchSend(c) \/ CloseClient(c)
               \/ \E k \in Keys, n \in Sequences : DispatchApproval(k, n)
               \/ \E i \in Instances : DispatchControl(i)
        BY <2>1, ClientActionsRegistry
    <2>2. ASSUME NEW p \in Providers, bind_provider(p) PROVE RegistryInv'
        BY <2>2, BindRegistry
    <2>3. ASSUME NEW b \in Bindings, \/ BeginClose(b) \/ CloseRuntime(b) \/ begin_quiesce(b)
                                     \/ try_recv(b) \/ try_recv_observation_outcome(b)
          PROVE  RegistryInv'
        BY <2>3, RuntimeActionsRegistry
    <2>4. ASSUME NEW b \in Bindings, NEW e \in delivered, try_complete(b, e) PROVE RegistryInv'
        BY <2>4, CompleteRegistry
    <2>. QED  BY <1>2, <2>1, <2>2, <2>3, <2>4 DEF EdgeNext
<1>3. CASE KernelNext
    <2>1. CASE \/ BeginStep \/ DrainIngress \/ DrainEffects \/ DrainCompletions
               \/ PublishEdge \/ PublishAuthority \/ PublishCompletions \/ FinalizeCloses
        BY <2>1, QuietPhasesRegistry
    <2>2. ASSUME NEW b \in Bindings, FlushBinding(b) PROVE RegistryInv'
        BY <2>2, FlushRegistry
    <2>3. CASE ReduceControl \/ ReduceRequest \/ ReduceClose \/ ReduceApproval
        BY <2>3, ReduceOthersRegistry
    <2>4. CASE ReduceProvider \/ RejectItem
        BY <2>4, ReduceProviderRegistry, RejectItemRegistry
    <2>5. ASSUME NEW p \in Providers, RetireExhausted(p) PROVE RegistryInv'
        BY <2>5, RetireExhaustedRegistry
    <2>6. CASE PublishOutcome \/ PublishEffect \/ Reconcile
        BY <2>6, PublishOutcomeRegistry, PublishEffectRegistry, ReconcileRegistry
    <2>. QED  BY <1>3, <2>1, <2>2, <2>3, <2>4, <2>5, <2>6 DEF KernelNext
<1>. QED  BY <1>1, <1>2, <1>3 DEF PlaneNext

\* Provider sequences are reduced in the order in which they were given out,
\* so that none is turned away as regressed, and what a runtime waits for, what
\* is in the channel and what the kernel has bound agree in every reachable
\* state (commit_sequence, reduce_provider_runtime, publish_outcome).
THEOREM RegistryInvariance == PlaneSpec => [](BaseInv /\ RegistryInv)
<1>1. PlaneInit => BaseInv /\ RegistryInv
    BY PlaneInitBase, PlaneInitRegistry
<1>2. BaseInv /\ RegistryInv /\ [PlaneNext]_plane_vars => BaseInv' /\ RegistryInv'
    BY PlaneNextBase, PlaneNextRegistry
<1>. QED  BY <1>1, <1>2, PTL DEF PlaneSpec

\* Between two steps of the kernel a runtime that serves is the one the kernel
\* has bound, and what it has bound is registered until the last sequence
\* (closing_retry, publish_outcome, reconcile_snapshot).
THEOREM RegistriesAgree == PlaneSpec => []RegistryAgrees
<1>1. BaseInv /\ RegistryInv => RegistryAgrees
    <2>. SUFFICES ASSUME BaseInv, RegistryInv, Phase("idle"), NEW p \in Providers
                  PROVE  /\ current[p] # None /\ Serves(runtime[current[p]]) => binding[p] = current[p]
                         /\ binding[p] # None => current[p] = binding[p] \/ sequence_exhausted
        BY DEF RegistryAgrees
    <2>1. kernel.pc = "idle"
        BY DEF Phase
    <2>2. exhausted => current[p] = None
        BY <2>1 DEF RegistryInv, ExhaustedIsEmpty
    <2>3. current[p] # None /\ Serves(runtime[current[p]]) => binding[p] = current[p]
        BY <2>2 DEF RegistryInv, ServingIsBound
    <2>4. binding[p] # None => current[p] = binding[p] \/ sequence_exhausted
        BY DEF RegistryInv, BoundKnown
    <2>. QED  BY <2>3, <2>4
<1>. QED  BY <1>1, RegistryInvariance, PTL

-----------------------------------------------------------------------------
(* The inductive invariant: effects and the runtimes they go to. *)

\* b is a runtime of p whose attach was heard of.
Ready(b, p) == Belongs(b, p) /\ runtime[b].life # "AttachSent"

\* Clients see, and send to, runtimes that are ready.
SentToReady ==
    /\ \A p \in Providers : published[p] # None => Ready(published[p], p)
    /\ \A c \in Clients : sending[c] # NotSending =>
          Ready(sending[c].binding, sending[c].policy.provider)
    /\ \A z \in Channel : z.kind = "Request" => Ready(z.binding, z.policy.provider)

\* An open request and a queued effect have the runtime of the moment.
OpenIsBound ==
    /\ \A k \in Keys : Active(k) =>
          /\ via[k] = binding[requests[k].provider]
          /\ Ready(via[k], requests[k].provider)
    /\ \A e \in effects : Ready(binding[e.provider], e.provider)

\* e was handed out, and the request it invokes was sent to b.
SentVia(e, b) ==
    /\ e \in delivered
    /\ e.kind = "Invoke" /\ requests[e.key].status # "Vacant"
         /\ requests[e.key].operation = e.operation => via[e.key] = b

WorkOf(b) == Elements(runtime[b].work)

\* What was handed out is with the runtime its request was sent to.
HandedToReady ==
    /\ \A x \in kernel.effects :
          /\ x.binding = binding[x.effect.provider] /\ Ready(x.binding, x.effect.provider)
          /\ SentVia(x.effect, x.binding)
    /\ \A b \in Bindings : Bound(b) =>
          /\ \A e \in WorkOf(b) \cup runtime[b].tickets :
                SentVia(e, b) /\ e.provider = runtime[b].provider
          /\ \A e \in runtime[b].tickets : e.kind = "Invoke"

Invoked(o) == \E f \in delivered : f.kind = "Invoke" /\ f.operation = o
Publishing(kind, o) == \E x \in kernel.effects : x.effect.kind = kind /\ x.effect.operation = o
DispatchedUnder(k, o) == requests[k].status = "Dispatched" /\ requests[k].operation = o

\* b serves p, and its handle is not inside request_close.
InService(b, p) == Reaches(b, p) /\ ~runtime[b].closing

\* A runtime in service knows what it was told to run, until it is told to
\* cancel it or has answered; request_close forgets it before it takes a lock.
OperationsKnown ==
    /\ \A b \in Bindings : Bound(b) => \A o \in runtime[b].operations \cup runtime[b].settled :
          Invoked(o) /\ ~Publishing("Invoke", o)
    /\ \A k \in Keys : LET q == requests[k] IN
          /\ q.status = "Dispatched" /\ Invoked(q.operation) /\ ~Publishing("Invoke", q.operation)
          /\ InService(via[k], q.provider)
          => q.operation \in runtime[via[k]].operations \ runtime[via[k]].settled
    /\ lane => \A e \in effects : e.kind = "Cancel" /\ InService(binding[e.provider], e.provider) =>
          e.operation \in runtime[binding[e.provider]].operations
    /\ \A x \in kernel.effects : x.effect.kind = "Cancel" /\ InService(x.binding, x.effect.provider) =>
          x.effect.operation \in runtime[x.binding].operations

\* What was answered is no longer dispatched when its outcome is published.
Answered(o) ==
    o.result \in {"Applied", "Ignored"} =>
        \A m \in runtime[o.binding].pending : m.sequence = o.sequence =>
            \A k \in Keys : ~DispatchedUnder(k, m.effect.operation)

AnsweredIsSettled == \A o \in ProviderOutcomes : Answered(o)

\* An answer in the channel is the one its runtime waits for.
AnswerKnown(z) ==
    /\ z.effect \in delivered /\ z.effect.kind = "Invoke" /\ z.effect.provider = z.provider
    /\ \A m \in runtime[z.binding].pending : m.sequence = z.sequence => m.effect = z.effect

AnswersKnown ==
    /\ \A b \in Bindings : Bound(b) => \A m \in runtime[b].pending : m.effect \in delivered
    /\ \A z \in Channel : z.kind = "Observe" => AnswerKnown(z)

EffectsInv ==
    /\ SentToReady /\ OpenIsBound /\ HandedToReady /\ OperationsKnown
    /\ AnsweredIsSettled /\ AnswersKnown

\* Both properties follow.
LEMMA EffectsInvSuffices ==
    ASSUME BaseInv, EffectsInv
    PROVE  EffectsDeliverable /\ RunsWhereSent
<1>1. ASSUME NEW e \in effects PROVE binding[e.provider] # None
    BY Bounds DEF EffectsInv, OpenIsBound, Ready, Belongs
<1>2. ASSUME NEW x \in kernel.effects, Reaches(x.binding, x.effect.provider)
      PROVE  /\ x.effect.operation \in runtime[x.binding].operations => x.effect.kind = "Cancel"
             /\ x.effect.kind = "Cancel" =>
                   x.effect.operation \in runtime[x.binding].operations \/ runtime[x.binding].closing
    <2>1. x.effect.kind \in {"Invoke", "Cancel"}
        BY DEF BaseInv, TypesInv, ChannelTypes, KernelState, EffectEnvelope
    <2>2. x.effect.kind = "Cancel" =>
              x.effect.operation \in runtime[x.binding].operations \/ runtime[x.binding].closing
        BY <1>2 DEF EffectsInv, OperationsKnown, InService
    <2>3. ASSUME x.effect.kind = "Invoke"
          PROVE  x.effect.operation \notin runtime[x.binding].operations
        <3>1. Publishing("Invoke", x.effect.operation)
            BY <2>3 DEF Publishing
        <3>2. x.binding \in Bindings /\ Bound(x.binding)
            BY DEF EffectsInv, HandedToReady, Ready, Belongs
        <3>. QED  BY <3>1, <3>2 DEF EffectsInv, OperationsKnown
    <2>. QED  BY <2>1, <2>2, <2>3
<1>3. EffectsDeliverable
    BY <1>1, <1>2 DEF EffectsDeliverable, Reaches
<1>4. RunsWhereSent
    BY DEF RunsWhereSent, EffectsInv, HandedToReady, SentVia, WorkOf, Elements
<1>. QED  BY <1>3, <1>4

-----------------------------------------------------------------------------
(* The engine moves on, between two drains. *)

\* Who is still invoked under an operation that was given out already was so
\* before, and nobody is dispatched under it again.
OldOperations ==
    \A k \in Keys, o \in 1 .. MaxU64 :
        o < next_operation_id /\ requests'[k].status # "Vacant" /\ requests'[k].operation = o =>
            /\ requests[k].status # "Vacant" /\ requests[k].operation = o
            /\ via'[k] = via[k]
            /\ requests'[k].status = "Dispatched" => requests[k].status = "Dispatched"

\* A settling of requests keeps the plane's knowledge of effects.
LEMMA SettlesEffectsInv ==
    ASSUME EngineInv, EngineInv', OpenIsBound, HandedToReady, OperationsKnown,
           NEW T, NEW sent, Settles(T, sent),
           kernel.effects = {}, kernel'.effects = {}, lane' => lane,
           UNCHANGED <<runtime, current, via>>,
           \A k \in Keys : requests'[k].status \in ActiveStatuses =>
               binding'[requests[k].provider] = binding[requests[k].provider],
           \A e \in effects' : binding'[e.provider] = binding[e.provider]
    PROVE  OldOperations /\ OpenIsBound' /\ HandedToReady' /\ OperationsKnown'
<1>1. /\ T \subseteq Keys /\ sent \subseteq T /\ sent \subseteq InFlight
      /\ \A k \in T : Active(k)
      /\ \A k \in Keys \ T : requests'[k] = requests[k]
      /\ \A k \in T : /\ requests'[k].status \in TerminalStatuses
                      /\ requests'[k].provider = requests[k].provider
                      /\ requests'[k].operation = requests[k].operation
      /\ effects' \subseteq effects \cup
             {EffectOf("Cancel", k, requests'[k], "Erased") : k \in sent}
      /\ delivered' = delivered
    BY DEF Settles, SameRequest
<1>2. ASSUME NEW k \in Keys, requests'[k].status \in ActiveStatuses
      PROVE  k \notin T /\ Active(k) /\ requests'[k] = requests[k]
    BY <1>1, <1>2 DEF Active, ActiveStatuses, TerminalStatuses, ClosedStatuses
<1>3. OldOperations
    <2>. SUFFICES ASSUME NEW k \in Keys, NEW o \in 1 .. MaxU64,
                         requests'[k].status # "Vacant", requests'[k].operation = o
                  PROVE  /\ requests[k].status # "Vacant" /\ requests[k].operation = o
                         /\ requests'[k].status = "Dispatched" => requests[k].status = "Dispatched"
        BY DEF OldOperations
    <2>. QED  BY <1>1, <1>2 DEF Active, ActiveStatuses
<1>4. ASSUME NEW e \in effects', e \notin effects
      PROVE  \E k \in sent : /\ e.kind = "Cancel" /\ e.provider = requests[k].provider
                             /\ e.operation = requests[k].operation
                             /\ Active(k) /\ k \in Keys /\ k \in InFlight
    <2>1. PICK k \in sent : e = EffectOf("Cancel", k, requests'[k], "Erased")
        BY <1>1, <1>4
    <2>. QED  BY <1>1, <2>1 DEF EffectOf
<1>5. \A b, p : Ready(b, p)' <=> Ready(b, p)
    BY DEF Ready, Belongs, Bound
<1>6. OpenIsBound'
    <2>1. ASSUME NEW k \in Keys, requests'[k].status \in ActiveStatuses
          PROVE  /\ via'[k] = binding'[requests'[k].provider]
                 /\ Ready(via[k], requests[k].provider)'
        BY <1>2, <2>1 DEF OpenIsBound, Ready, Belongs, Bound
    <2>2. ASSUME NEW e \in effects' PROVE Ready(binding[e.provider], e.provider)
        <3>1. CASE e \in effects
            BY <3>1 DEF OpenIsBound
        <3>2. CASE e \notin effects
            BY <1>4, <2>2, <3>2 DEF OpenIsBound
        <3>. QED  BY <3>1, <3>2
    <2>4. \A e \in effects' : Ready(binding[e.provider], e.provider)'
        BY <2>2 DEF Ready, Belongs, Bound
    <2>. QED  BY <2>1, <2>4 DEF OpenIsBound, Active
<1>7. HandedToReady'
    <2>1. ASSUME NEW e, NEW b, SentVia(e, b) PROVE SentVia(e, b)'
        <3>1. e \in delivered /\ e \in EffectEnvelope
            BY <2>1, EngineTypes DEF SentVia
        <3>2. e.operation < next_operation_id /\ e.operation \in 1 .. MaxU64 /\ e.key \in Keys
            BY <3>1 DEF EngineInv, IndInv, OperationsBelow, EffectEnvelope
        <3>. QED  BY <1>1, <1>3, <2>1, <3>2 DEF SentVia, OldOperations
    <2>. QED  BY <2>1, <1>5 DEF HandedToReady, WorkOf, Bound
<1>8. OperationsKnown'
    <2>1. \A o, kind : Invoked(o)' = Invoked(o) /\ ~Publishing(kind, o) /\ ~Publishing(kind, o)'
        BY <1>1 DEF Invoked, Publishing
    <2>3. ASSUME NEW k \in Keys, requests'[k].status = "Dispatched"
          PROVE  requests'[k] = requests[k]
        BY <1>2, <2>3 DEF ActiveStatuses
    <2>4. ASSUME lane', NEW e \in effects', e.kind = "Cancel",
                 InService(binding[e.provider], e.provider)
          PROVE  e.operation \in runtime[binding[e.provider]].operations
        <3>1. CASE e \in effects
            BY <2>4, <3>1 DEF OperationsKnown
        <3>2. CASE e \notin effects
            <4>1. PICK k \in sent : /\ e.provider = requests[k].provider
                                    /\ e.operation = requests[k].operation
                                    /\ Active(k) /\ k \in Keys /\ k \in InFlight
                BY <1>4, <3>2
            <4>2. requests[k].status = "Dispatched" /\ ~Queued(k)
                BY <4>1 DEF InFlight
            <4>3. EffectOf("Invoke", k, requests[k], "Present") \in delivered
                BY <4>1, <4>2 DEF EngineInv, HistoryInv, DispatchedInvoked, Queued, EffectOf
            <4>4. Invoked(requests[k].operation)
                BY <4>3 DEF Invoked, EffectOf
            <4>5. via[k] = binding[e.provider]
                BY <4>1 DEF OpenIsBound
            <4>. QED  BY <2>1, <2>4, <4>1, <4>2, <4>4, <4>5 DEF OperationsKnown
        <3>. QED  BY <3>1, <3>2
    <2>5. ASSUME NEW k \in Keys, requests'[k].status = "Dispatched",
                 Invoked(requests[k].operation)',
                 InService(via[k], requests[k].provider)'
          PROVE  requests'[k].operation \in runtime'[via'[k]].operations \ runtime'[via'[k]].settled
        <3>1. requests[k].status = "Dispatched" /\ Invoked(requests[k].operation)
            BY <1>1, <2>3, <2>5 DEF Invoked
        <3>2. InService(via[k], requests[k].provider)
            BY <2>3, <2>5 DEF InService, Reaches, Serves
        <3>. QED  BY <2>1, <2>3, <2>5, <3>1, <3>2 DEF OperationsKnown
    <2>6. \A b \in Bindings : Bound(b)' => \A o \in runtime'[b].operations \cup runtime'[b].settled :
              Invoked(o)' /\ ~Publishing("Invoke", o)'
        BY <2>1 DEF OperationsKnown, Bound
    <2>7. lane' => \A e \in effects' : e.kind = "Cancel" /\ InService(binding[e.provider], e.provider)'
              => e.operation \in runtime'[binding'[e.provider]].operations
        BY <2>4 DEF InService, Reaches, Serves
    <2>. QED  BY <2>5, <2>6, <2>7 DEF OperationsKnown
<1>. QED  BY <1>3, <1>6, <1>7, <1>8

\* Effects that were handed out stay with the binding they were sent to.
LEMMA SentViaStays ==
    ASSUME EngineInv, OldOperations, delivered \subseteq delivered', NEW e, NEW b, SentVia(e, b)
    PROVE  SentVia(e, b)'
<1>1. e \in delivered /\ e \in EffectEnvelope
    BY EngineTypes DEF SentVia
<1>2. e.operation < next_operation_id /\ e.operation \in 1 .. MaxU64 /\ e.key \in Keys
    BY <1>1 DEF EngineInv, IndInv, OperationsBelow, EffectEnvelope
<1>. QED  BY <1>1, <1>2 DEF SentVia, OldOperations

\* The request under k0 is dispatched, or waits, for a runtime that is ready;
\* everybody else is as before or evicted, and the Invoke of k0 is the only
\* new effect.
Opens(k0) ==
    /\ k0 \in Keys
    /\ \A k \in Keys \ {k0} : /\ requests'[k] \in {requests[k], Vacant}
                              /\ via'[k] = via[k]
    /\ requests'[k0].status = "Dispatched" => requests'[k0].operation = next_operation_id
    /\ requests'[k0].operation \in {NoOperation, next_operation_id}
    /\ effects' \subseteq effects \cup {EffectOf("Invoke", k0, requests'[k0], "Present")}
    /\ delivered' = delivered
    /\ via'[k0] = binding[requests'[k0].provider]
    /\ Ready(via'[k0], requests'[k0].provider)

\* Opening a request keeps the plane's knowledge of effects.
LEMMA OpensEffectsInv ==
    ASSUME EngineInv, EngineInv', OpenIsBound, HandedToReady, OperationsKnown,
           NEW k0, Opens(k0), kernel.effects = {}, kernel'.effects = {}, lane' => lane,
           UNCHANGED <<runtime, current, binding>>
    PROVE  OldOperations /\ OpenIsBound' /\ HandedToReady' /\ OperationsKnown'
<1>1. OldOperations
    <2>. SUFFICES ASSUME NEW k \in Keys, NEW o \in 1 .. MaxU64, o < next_operation_id,
                         requests'[k].status # "Vacant", requests'[k].operation = o
                  PROVE  /\ requests[k].status # "Vacant" /\ requests[k].operation = o
                         /\ via'[k] = via[k]
                         /\ requests'[k].status = "Dispatched" => requests[k].status = "Dispatched"
        BY DEF OldOperations
    <2>1. k # k0
        <3>1. o # 0 /\ o # next_operation_id
            BY EngineTypes
        <3>. QED  BY <3>1 DEF Opens, NoOperation
    <2>. QED  BY <2>1 DEF Opens, Vacant
<1>2. OpenIsBound'
    <2>1. ASSUME NEW k \in Keys, requests'[k].status \in ActiveStatuses
          PROVE  /\ via'[k] = binding'[requests'[k].provider]
                 /\ Ready(via[k], requests[k].provider)'
        <3>1. CASE k = k0
            BY <3>1 DEF Opens, Ready, Belongs, Bound
        <3>2. CASE k # k0
            <4>1. requests'[k] = requests[k] /\ Active(k) /\ via'[k] = via[k]
                BY <2>1, <3>2 DEF Opens, Vacant, Active, ActiveStatuses
            <4>. QED  BY <4>1 DEF OpenIsBound, Ready, Belongs, Bound
        <3>. QED  BY <3>1, <3>2
    <2>2. ASSUME NEW e \in effects' PROVE Ready(binding[e.provider], e.provider)'
        <3>1. CASE e \in effects
            BY <3>1 DEF OpenIsBound, Ready, Belongs, Bound
        <3>2. CASE e \notin effects
            <4>1. e.provider = requests'[k0].provider
                BY <3>2 DEF Opens, EffectOf
            <4>. QED  BY <4>1 DEF Opens, Ready, Belongs, Bound
        <3>. QED  BY <3>1, <3>2
    <2>. QED  BY <2>1, <2>2 DEF OpenIsBound, Active
<1>3. HandedToReady'
    <2>1. ASSUME NEW e, NEW b, SentVia(e, b) PROVE SentVia(e, b)'
        BY <1>1, <2>1, SentViaStays DEF Opens
    <2>. QED  BY <2>1 DEF HandedToReady, WorkOf, Bound
<1>4. OperationsKnown'
    <2>1. \A o, kind : Invoked(o)' = Invoked(o) /\ ~Publishing(kind, o) /\ ~Publishing(kind, o)'
        BY DEF Invoked, Publishing, Opens
    <2>2. ASSUME NEW k \in Keys, requests'[k].status = "Dispatched",
                 Invoked(requests[k].operation)',
                 InService(via[k], requests[k].provider)'
          PROVE  requests'[k].operation \in runtime'[via'[k]].operations \ runtime'[via'[k]].settled
        <3>1. k # k0
            <4>1. ~Invoked(next_operation_id)
                <5>1. \A f \in delivered : f.operation < next_operation_id
                    BY DEF EngineInv, IndInv, OperationsBelow
                <5>2. next_operation_id \in Nat
                    BY EngineTypes
                <5>. QED  BY <5>1, <5>2 DEF Invoked
            <4>2. k = k0 => requests'[k].operation = next_operation_id
                BY <2>2 DEF Opens
            <4>. QED  BY <2>2, <4>1, <4>2 DEF Invoked, Opens
        <3>2. requests'[k] = requests[k] /\ via'[k] = via[k]
            BY <2>2, <3>1 DEF Opens, Vacant
        <3>3. requests[k].status = "Dispatched" /\ Invoked(requests[k].operation)
            BY <2>2, <3>2 DEF Invoked, Opens
        <3>4. InService(via[k], requests[k].provider)
            BY <2>2, <3>2 DEF InService, Reaches, Serves
        <3>. QED  BY <2>1, <3>2, <3>3, <3>4 DEF OperationsKnown
    <2>3. \A b \in Bindings : Bound(b)' => \A o \in runtime'[b].operations \cup runtime'[b].settled :
              Invoked(o)' /\ ~Publishing("Invoke", o)'
        BY <2>1 DEF OperationsKnown, Bound
    <2>4. ASSUME lane', NEW e \in effects', e.kind = "Cancel",
                 InService(binding[e.provider], e.provider)'
          PROVE  e.operation \in runtime'[binding'[e.provider]].operations
        <3>1. e \in effects
            BY <2>4 DEF Opens, EffectOf
        <3>. QED  BY <2>4, <3>1 DEF OperationsKnown, InService, Reaches, Serves
    <2>. QED  BY <2>2, <2>3, <2>4 DEF OperationsKnown
<1>. QED  BY <1>1, <1>2, <1>3, <1>4

\* An approved request is opened.
LEMMA ApprovesOpens ==
    ASSUME EngineInv, OpenIsBound, NEW k, Approves(k), via' = via
    PROVE  Opens(k)
<1>1. k \in Keys /\ Active(k) /\ requests'[k].provider = requests[k].provider
    BY DEF Approves, Active, ActiveStatuses, SameRequest
<1>2. via[k] = binding[requests[k].provider] /\ Ready(via[k], requests[k].provider)
    BY <1>1 DEF OpenIsBound
<1>. QED  BY <1>1, <1>2 DEF Opens, Approves, Invokes

\* An accepted request is opened, or denied.
LEMMA AcceptsOpens ==
    ASSUME EngineInv, NEW k, NEW evicted, Accepts(k, evicted),
           NEW b, via' = [via EXCEPT ![k] = b], via \in [Keys -> 0 .. MaxSequence],
           b = binding[requests'[k].provider], Ready(b, requests'[k].provider)
    PROVE  Opens(k)
<1>1. k \in Keys /\ via'[k] = b /\ \A x \in Keys \ {k} : via'[x] = via[x]
    BY DEF Accepts
<1>2. \A x \in Keys \ {k} : requests'[x] \in {requests[x], Vacant}
    BY DEF Accepts
<1>3. delivered' = delivered
    BY DEF Accepts
<1>4. \/ /\ requests'[k].status \in {"Denied", "AwaitingApproval"}
         /\ requests'[k].operation = NoOperation
         /\ effects' = effects
      \/ Invokes(k)
    BY DEF Accepts
<1>. QED  BY <1>1, <1>2, <1>3, <1>4 DEF Opens, Invokes
\* The rest of the invariant, when the engine moves on and the runtimes rest.
LEMMA EngineMovesEffects ==
    ASSUME BaseInv, RegistryInv, EffectsInv, UNCHANGED <<runtime, published, sending>>,
           Channel' \subseteq Channel, delivered' = delivered,
           OldOperations, OpenIsBound', HandedToReady', OperationsKnown',
           \A o \in ProviderOutcomes' : o \in ProviderOutcomes \/ Answered(o)'
    PROVE  EffectsInv'
<1>1. SentToReady'
    BY DEF EffectsInv, SentToReady, Ready, Belongs, Bound
<1>2. AnswersKnown'
    BY DEF EffectsInv, AnswersKnown, AnswerKnown, Bound
<1>3. AnsweredIsSettled'
    <2>. SUFFICES ASSUME NEW o \in ProviderOutcomes, o.result \in {"Applied", "Ignored"},
                         NEW m \in runtime[o.binding].pending, m.sequence = o.sequence,
                         NEW k \in Keys, requests'[k].status = "Dispatched",
                         requests'[k].operation = m.effect.operation
                  PROVE  FALSE
        BY DEF AnsweredIsSettled, Answered, DispatchedUnder
    <2>1. o.binding \in Bindings /\ Bound(o.binding)
        BY DEF RegistryInv, OutcomesKnown, OutcomeKnown, Belongs
    <2>2. m.effect \in delivered
        BY <2>1 DEF EffectsInv, AnswersKnown
    <2>3. m.effect \in EffectEnvelope
        BY <2>2, EngineTypes DEF BaseInv
    <2>4. m.effect.operation < next_operation_id /\ m.effect.operation \in 1 .. MaxU64
        BY <2>2, <2>3 DEF BaseInv, EngineInv, IndInv, OperationsBelow, EffectEnvelope
    <2>5. DispatchedUnder(k, m.effect.operation)
        BY <2>4 DEF OldOperations, DispatchedUnder
    <2>. QED  BY <2>5 DEF EffectsInv, AnsweredIsSettled, Answered
<1>. QED  BY <1>1, <1>2, <1>3 DEF EffectsInv

\* What the plane around the engine does while the kernel reduces.
Around ==
    /\ kernel.effects = {} /\ kernel'.effects = {}
    /\ UNCHANGED <<runtime, current, published, sending>>
    /\ Channel' \subseteq Channel
    /\ \A o \in ProviderOutcomes' : o \in ProviderOutcomes \/ Answered(o)'

\* The engine settles requests.
LEMMA SettlesKeeps ==
    ASSUME BaseInv, RegistryInv, EffectsInv, EngineInv', Around, UNCHANGED via, lane' => lane,
           NEW T, NEW sent, Settles(T, sent),
           \A k \in Keys : requests'[k].status \in ActiveStatuses =>
               binding'[requests[k].provider] = binding[requests[k].provider],
           \A e \in effects' : binding'[e.provider] = binding[e.provider]
    PROVE  EffectsInv'
<1>1. /\ EngineInv /\ OpenIsBound /\ HandedToReady /\ OperationsKnown
      /\ kernel.effects = {} /\ kernel'.effects = {}
      /\ runtime' = runtime /\ current' = current /\ via' = via
    BY DEF BaseInv, EffectsInv, Around
<1>2. OldOperations /\ OpenIsBound' /\ HandedToReady' /\ OperationsKnown'
    BY <1>1, SettlesEffectsInv
<1>3. delivered' = delivered
    BY DEF Settles
<1>. QED  BY <1>2, <1>3, EngineMovesEffects DEF Around

\* The engine opens a request.
LEMMA OpensKeeps ==
    ASSUME BaseInv, RegistryInv, EffectsInv, EngineInv', Around, UNCHANGED binding, lane' => lane,
           NEW k, Opens(k)
    PROVE  EffectsInv'
<1>1. /\ EngineInv /\ OpenIsBound /\ HandedToReady /\ OperationsKnown
      /\ kernel.effects = {} /\ kernel'.effects = {} /\ UNCHANGED <<runtime, current>>
    BY DEF BaseInv, EffectsInv, Around
<1>2. OldOperations /\ OpenIsBound' /\ HandedToReady' /\ OperationsKnown'
    BY <1>1, OpensEffectsInv
<1>3. delivered' = delivered
    BY DEF Opens
<1>. QED  BY <1>2, <1>3, EngineMovesEffects DEF Around

\* A batch is drained, and the clock advances.
LEMMA DrainIngressEffects ==
    ASSUME BaseInv, RegistryInv, EffectsInv, DrainIngress
    PROVE  EffectsInv'
<1>1. /\ kernel.pc = "flush" /\ Keeps /\ kernel'.provider = kernel.provider
      /\ kernel'.effects = kernel.effects
      /\ UNCHANGED <<lane, binding, via, registry_vars, runtime, published, client_vars>>
      /\ EngineInv' /\ \E T, sent : Settles(T, sent)
    BY DrainIngressForm
<1>2. kernel.effects = {}
    BY <1>1 DEF BaseInv, PhaseInv
<1>3. Around
    BY <1>1, <1>2, KeepsChannel DEF Around, ProviderOutcomes, registry_vars, client_vars
<1>4. /\ EngineInv' /\ via' = via /\ lane' = lane /\ binding' = binding
    BY <1>1
<1>5. PICK T, sent : Settles(T, sent)
    BY <1>1
<1>. QED  BY <1>3, <1>4, <1>5, SettlesKeeps

\* One item of the batch is done: the plane around the engine.
LEMMA ReducedAround ==
    ASSUME BaseInv, kernel.pc = "reduce", kernel.batch # <<>>, ingress' = ingress,
           UNCHANGED <<registry_vars, runtime, published, client_vars>>,
           NEW P, NEW A, Reduced(P, A),
           AtMostOne(P, ProviderOutcomeRecord), AtMostOne(A, AuthorityOutcomeRecord),
           \A o \in Elements(P) : Answered(o)'
    PROVE  Around
<1>1. ChannelTypes /\ kernel.effects = {}
    BY DEF BaseInv, TypesInv, PhaseInv
<1>2. /\ Takes(Head(kernel.batch)) /\ kernel'.effects = kernel.effects
      /\ ProviderOutcomes' = ProviderOutcomes \cup Elements(P)
    BY <1>1, ReducedForm
<1>3. Channel' \subseteq Channel
    BY <1>1, <1>2, TakesChannel
<1>. QED  BY <1>1, <1>2, <1>3 DEF Around, registry_vars, client_vars

\* The same, for an item that is not of a provider.
LEMMA OtherAround ==
    ASSUME BaseInv, kernel.pc = "reduce", kernel.batch # <<>>, ingress' = ingress,
           UNCHANGED <<registry_vars, runtime, published, client_vars>>,
           \/ Reduced(<<>>, <<>>)
           \/ /\ OfAuthority(Head(kernel.batch))
              /\ \E closed \in BOOLEAN :
                    Reduced(<<>>, <<[sequence |-> Head(kernel.batch).sequence, closed |-> closed]>>)
    PROVE  Around
<1> DEFINE h == Head(kernel.batch)
           o(closed) == [sequence |-> h.sequence, closed |-> closed]
<1>1. ChannelTypes /\ AtMostOne(<<>>, ProviderOutcomeRecord) /\ Elements(<<>>) = {}
        /\ AtMostOne(<<>>, AuthorityOutcomeRecord)
    BY SingleOutcome DEF BaseInv, TypesInv
<1>2. CASE Reduced(<<>>, <<>>)
    BY <1>1, <1>2, ReducedAround
<1>3. ASSUME OfAuthority(h), NEW closed \in BOOLEAN, Reduced(<<>>, <<o(closed)>>) PROVE Around
    <2>1. h.sequence \in 1 .. MaxAuthority
        BY <1>1, <1>3, NextItem, AuthorityItem
    <2>2. o(closed) \in AuthorityOutcomeRecord
        BY <2>1 DEF AuthorityOutcomeRecord
    <2>3. AtMostOne(<<o(closed)>>, AuthorityOutcomeRecord)
        BY <2>2, SingleOutcome
    <2>. HIDE DEF o
    <2>. QED  BY <1>1, <1>3, <2>3, ReducedAround
<1>. QED  BY <1>2, <1>3


\* Commands that are not of a provider leave the plane around the engine alone.
LEMMA OthersAround ==
    ASSUME BaseInv, ReduceControl \/ ReduceRequest \/ ReduceClose \/ ReduceApproval
    PROVE  Around /\ binding' = binding /\ (lane' => lane)
<1> DEFINE h == Head(kernel.batch)
<1>1. /\ kernel.pc = "reduce" /\ kernel.batch # <<>> /\ ingress' = ingress
      /\ UNCHANGED <<registry_vars, runtime, published, client_vars>>
      /\ binding' = binding /\ lane' \in {lane, FALSE}
    BY DEF ReduceControl, ReduceRequest, ReduceClose, ReduceApproval, Reducing, Phase, Outside
<1>2. \/ Reduced(<<>>, <<>>)
      \/ /\ OfAuthority(h)
         /\ \E closed \in BOOLEAN : Reduced(<<>>, <<[sequence |-> h.sequence, closed |-> closed]>>)
    BY DEF ReduceControl, ReduceRequest, ReduceClose, ReduceApproval, Reducing, OfAuthority,
           AuthorityKinds, AuthorityOutcome
<1>3. Around
    BY <1>1, <1>2, OtherAround
<1>4. lane' => lane
    BY <1>1, Zenon
<1>. QED  BY <1>1, <1>3, <1>4, Zenon

\* Settled requests of a kernel that keeps its bindings.
LEMMA SettlesBound ==
    ASSUME BaseInv, RegistryInv, EffectsInv, EngineInv', Around, via' = via, lane' => lane,
           binding' = binding, \E T, sent : Settles(T, sent)
    PROVE  EffectsInv'
BY SettlesKeeps

\* A control command is reduced.
LEMMA ReduceControlEffects ==
    ASSUME BaseInv, RegistryInv, EffectsInv, ReduceControl
    PROVE  EffectsInv'
<1> DEFINE h == Head(kernel.batch)
<1>1. /\ kernel.batch # <<>> /\ h.kind = "Control" /\ via' = via
      /\ UNCHANGED vars \/ set_instance_inactive(h.instance, generations[h.instance])
    BY DEF ReduceControl, Reducing, NoEngine
<1>2. EngineInv /\ Around /\ binding' = binding /\ (lane' => lane)
    BY OthersAround DEF BaseInv
<1>3. h.instance \in Instances
    BY <1>1, NextItem
       DEF Item, RequestItem, CloseItem, ApproveItem, ControlItem, BindItem, ObserveItem
<1>4. EngineInv' /\ \E T, sent : Settles(T, sent)
    <2>1. CASE set_instance_inactive(h.instance, generations[h.instance])
        BY <1>2, <1>3, <2>1, InactiveForm
    <2>2. CASE UNCHANGED vars
        BY <1>2, <2>2, EngineIdle
    <2>. QED  BY <1>1, <2>1, <2>2
<1>. QED  BY <1>1, <1>2, <1>4, SettlesBound

\* A close is reduced.
LEMMA ReduceCloseEffects ==
    ASSUME BaseInv, RegistryInv, EffectsInv, ReduceClose
    PROVE  EffectsInv'
<1> DEFINE h == Head(kernel.batch)
<1>1. /\ kernel.batch # <<>> /\ h.kind = "CloseClient" /\ via' = via
      /\ UNCHANGED vars \/ close_client(h.sequence, h.client)
    BY DEF ReduceClose, Reducing, NoEngine
<1>2. EngineInv /\ Around /\ binding' = binding /\ (lane' => lane)
    BY OthersAround DEF BaseInv
<1>3. h.sequence \in 1 .. MaxAuthority /\ h.client \in Clients
    BY <1>1, NextItem
       DEF Item, RequestItem, CloseItem, ApproveItem, ControlItem, BindItem, ObserveItem
<1>4. EngineInv' /\ \E T, sent : Settles(T, sent)
    <2>1. CASE close_client(h.sequence, h.client)
        BY <1>2, <1>3, <2>1, CloseForm
    <2>2. CASE UNCHANGED vars
        BY <1>2, <2>2, EngineIdle
    <2>. QED  BY <1>1, <2>1, <2>2
<1>. QED  BY <1>1, <1>2, <1>4, SettlesBound

\* An approval is reduced: the request goes to the runtime it was sent to.
LEMMA ReduceApprovalEffects ==
    ASSUME BaseInv, RegistryInv, EffectsInv, ReduceApproval
    PROVE  EffectsInv'
<1> DEFINE h == Head(kernel.batch)
           q == requests[h.key]
<1>1. /\ kernel.batch # <<>> /\ h.kind = "Approve" /\ via' = via
      /\ \/ /\ Resolvable(h.key, h.nonce, q.instance, q.generation)
            /\ resolve_approval(h.sequence, h.key, h.nonce, q.instance, q.generation, "ApproveOnce")
         \/ UNCHANGED vars
    BY DEF ReduceApproval, Reducing, NoEngine, Approvable
<1>2. EngineInv /\ Around /\ binding' = binding /\ (lane' => lane) /\ OpenIsBound
    BY OthersAround DEF BaseInv, EffectsInv
<1>3. h.sequence \in 1 .. MaxAuthority /\ h.key \in Keys /\ h.nonce \in Sequences
    BY <1>1, NextItem
       DEF Item, RequestItem, CloseItem, ApproveItem, ControlItem, BindItem, ObserveItem
<1>4. EngineInv' /\ (Approves(h.key) \/ \E T, sent : Settles(T, sent))
    BY <1>1, <1>2, <1>3, ApprovalForm, EngineIdle
<1>5. CASE Approves(h.key)
    <2>1. Opens(h.key)
        BY <1>1, <1>2, <1>5, ApprovesOpens
    <2>. QED  BY <1>2, <1>4, <2>1, OpensKeeps
<1>6. CASE \E T, sent : Settles(T, sent)
    BY <1>1, <1>2, <1>4, <1>6, SettlesBound
<1>. QED  BY <1>4, <1>5, <1>6

\* A request is reduced: the binding it was sent to is the one of the moment.
LEMMA ReduceRequestEffects ==
    ASSUME BaseInv, RegistryInv, EffectsInv, ReduceRequest
    PROVE  EffectsInv'
<1> DEFINE h == Head(kernel.batch)
<1>1. /\ kernel.batch # <<>> /\ h.kind = "Request"
      /\ \/ /\ request(h.key, h.policy, h.deadline) /\ via' = [via EXCEPT ![h.key] = h.binding]
            /\ binding[h.policy.provider] = h.binding
         \/ UNCHANGED <<vars, via>>
    BY DEF ReduceRequest, Reducing, NoEngine, Admitted
<1>2. EngineInv /\ Around /\ binding' = binding /\ (lane' => lane)
        /\ via \in [Keys -> 0 .. MaxSequence]
    BY OthersAround DEF BaseInv, TypesInv, RegistryTypes
<1>3. h \in Channel /\ h \in RequestItem
    BY <1>1, NextItem
       DEF Item, RequestItem, CloseItem, ApproveItem, ControlItem, BindItem, ObserveItem
<1>4. /\ h.key \in Keys /\ h.policy \in PolicyKeys /\ h.deadline \in Ticks
      /\ h.policy.client = h.key.client
    BY <1>3, EdgeAssumption DEF RequestItem, Ticks
<1>5. CASE UNCHANGED <<vars, via>>
    <2>1. EngineInv' /\ Settles({}, {})
        BY <1>2, <1>5, EngineIdle
    <2>. QED  BY <1>2, <1>5, <2>1, SettlesBound
<1>6. CASE /\ request(h.key, h.policy, h.deadline) /\ via' = [via EXCEPT ![h.key] = h.binding]
           /\ binding[h.policy.provider] = h.binding
    <2>1. PICK evicted : /\ EngineInv' /\ Accepts(h.key, evicted)
                         /\ requests'[h.key].provider = h.policy.provider
        BY <1>2, <1>4, <1>6, AcceptForm
    <2>2. Ready(h.binding, h.policy.provider)
        BY <1>1, <1>3 DEF EffectsInv, SentToReady
    <2>3. Opens(h.key)
        BY <1>2, <1>6, <2>1, <2>2, AcceptsOpens
    <2>. QED  BY <1>2, <2>1, <2>3, OpensKeeps
<1>. QED  BY <1>1, <1>5, <1>6

\* Nobody is dispatched any more under an operation that was answered.
LEMMA AnsweredNotDispatched ==
    ASSUME EngineInv, NEW e \in delivered, e.kind = "Invoke", NEW k \in Keys,
           \/ \E T, sent : e.key \in T /\ Settles(T, sent)
           \/ ~Answers(e.provider, e) /\ requests' = requests
    PROVE  ~(requests'[k].status = "Dispatched" /\ requests'[k].operation = e.operation)
<1>1. ASSUME DispatchedUnder(k, e.operation) PROVE e.key = k
    <2>1. k \in Stored
        BY <1>1 DEF DispatchedUnder, Stored
    <2>. QED  BY <1>1, <2>1 DEF EngineInv, HistoryInv, OperationsDistinct, DispatchedUnder
<1>2. CASE \E T, sent : e.key \in T /\ Settles(T, sent)
    <2>1. PICK T, sent : e.key \in T /\ Settles(T, sent)
        BY <1>2
    <2>2. CASE k \in T
        BY <2>1, <2>2 DEF Settles, TerminalStatuses, ClosedStatuses
    <2>3. CASE k \notin T
        <3>1. requests'[k] = requests[k] /\ e.key # k
            BY <2>1, <2>3 DEF Settles
        <3>. QED  BY <1>1, <3>1 DEF DispatchedUnder
    <2>. QED  BY <2>2, <2>3
<1>3. CASE ~Answers(e.provider, e) /\ requests' = requests
    <2>. SUFFICES ASSUME DispatchedUnder(k, e.operation) PROVE FALSE
        BY <1>3 DEF DispatchedUnder
    <2> DEFINE f == EffectOf("Invoke", k, requests[k], "Present")
    <2>1. e.key = k /\ requests[k].status = "Dispatched" /\ requests[k].operation = e.operation
        BY <1>1 DEF DispatchedUnder
    <2>2. f \in effects \cup delivered
        BY <2>1 DEF EngineInv, HistoryInv, DispatchedInvoked
    <2>3. f.kind = "Invoke" /\ f.operation = e.operation
        BY <2>1 DEF EffectOf
    <2>. HIDE DEF f
    <2>4. f = e
        BY <2>2, <2>3 DEF EngineInv, HistoryInv, InvokedOnce
    <2>5. /\ e.generation = requests[k].generation /\ e.instance = requests[k].instance
          /\ e.provider = requests[k].provider
        BY <2>4 DEF f, EffectOf
    <2>6. generations[requests[k].instance] = requests[k].generation
        BY <2>1 DEF EngineInv, IndInv, ActiveAuthorized, Active, ActiveStatuses
    <2>. QED  BY <1>3, <2>1, <2>5, <2>6 DEF Answers
<1>. QED  BY <1>2, <1>3

\* The kernel lets go of the runtime of p, after the engine did.
LEMMA DetachEffects ==
    ASSUME BaseInv, RegistryInv, EffectsInv, Around, via' = via, lane' = lane,
           NEW p \in Providers, detach_provider_runtime(p),
           binding' = [binding EXCEPT ![p] = None]
    PROVE  EffectsInv'
<1>1. PICK T : Settles(T, {})
    BY DetachForm DEF BaseInv
<1>2. /\ EngineInv /\ EngineInv'
      /\ \A k \in Keys : Active(k) /\ requests[k].provider = p =>
            requests'[k].status \notin ActiveStatuses
      /\ \A e \in effects' : e.provider # p
    BY DetachForm DEF BaseInv
<1>3. binding \in [Providers -> 0 .. MaxSequence]
    BY DEF BaseInv, TypesInv, RegistryTypes
<1>4. ASSUME NEW k \in Keys, requests'[k].status \in ActiveStatuses
      PROVE  binding'[requests[k].provider] = binding[requests[k].provider]
    <2>1. Active(k)
        BY <1>1, <1>4 DEF Settles, Active, ActiveStatuses, TerminalStatuses, ClosedStatuses
    <2>2. requests[k].provider \in Providers /\ requests[k].provider # p
        BY <1>2, <1>4, <2>1, EngineTypes DEF Active
    <2>. QED  BY <1>3, <2>2
<1>5. ASSUME NEW e \in effects' PROVE binding'[e.provider] = binding[e.provider]
    <2>1. e \in effects
        BY <1>1, <1>5 DEF Settles
    <2>2. e.provider \in Providers /\ e.provider # p
        BY <1>2, <2>1, EngineTypes DEF EffectEnvelope
    <2>. QED  BY <1>3, <2>2
<1>. QED  BY <1>1, <1>2, <1>4, <1>5, SettlesKeeps

\* The kernel retires what it bound, after the last sequence.
LEMMA RetireExhaustedEffects ==
    ASSUME BaseInv, RegistryInv, EffectsInv, NEW p \in Providers, RetireExhausted(p)
    PROVE  EffectsInv'
<1>1. /\ kernel.pc = "reduce" /\ kernel' = kernel /\ ingress' = ingress
      /\ UNCHANGED <<registry_vars, runtime, published, client_vars>>
      /\ via' = via /\ lane' = lane /\ detach_provider_runtime(p)
      /\ binding' = [binding EXCEPT ![p] = None]
    BY DEF RetireExhausted, Phase, Outside
<1>2. kernel.effects = {}
    BY <1>1 DEF BaseInv, PhaseInv
<1>3. Around
    BY <1>1, <1>2, KeepForm, KeepsChannel DEF Around, ProviderOutcomes, registry_vars, client_vars
<1>. QED  BY <1>1, <1>3, DetachEffects

\* A runtime is attached: nothing of its provider is open yet.
LEMMA AttachEffects ==
    ASSUME BaseInv, RegistryInv, EffectsInv, Around, via' = via, lane' = lane, UNCHANGED vars,
           NEW p \in Providers, binding[p] = None, NEW b, binding' = [binding EXCEPT ![p] = b]
    PROVE  EffectsInv'
<1>1. EngineInv /\ EngineInv' /\ Settles({}, {})
    BY EngineIdle DEF BaseInv
<1>2. binding \in [Providers -> 0 .. MaxSequence] /\ requests' = requests /\ effects' = effects
    BY DEF BaseInv, TypesInv, RegistryTypes, vars, request_vars
<1>3. ~Ready(None, p)
    BY Bounds DEF Ready, Belongs
<1>4. ASSUME NEW k \in Keys, requests'[k].status \in ActiveStatuses
      PROVE  binding'[requests[k].provider] = binding[requests[k].provider]
    <2>1. Active(k) /\ requests[k].provider \in Providers
        BY <1>1, <1>2, <1>4, EngineTypes DEF Active
    <2>2. Ready(binding[requests[k].provider], requests[k].provider)
        BY <2>1 DEF EffectsInv, OpenIsBound
    <2>. QED  BY <1>2, <1>3, <2>1, <2>2
<1>5. ASSUME NEW e \in effects' PROVE binding'[e.provider] = binding[e.provider]
    <2>1. e.provider \in Providers
        BY <1>1, <1>2, EngineTypes DEF EffectEnvelope
    <2>2. Ready(binding[e.provider], e.provider)
        BY <1>2 DEF EffectsInv, OpenIsBound
    <2>. QED  BY <1>2, <1>3, <2>1, <2>2
<1>. QED  BY <1>1, <1>4, <1>5, SettlesKeeps

\* An attach, a detach or an answer is reduced.
LEMMA ReduceProviderEffects ==
    ASSUME BaseInv, RegistryInv, EffectsInv, ReduceProvider
    PROVE  EffectsInv'
<1>0. PICK h : h = Head(kernel.batch)
    OBVIOUS
<1> DEFINE p == h.provider
           o(r) == [sequence |-> h.sequence, provider |-> p, binding |-> h.binding, result |-> r]
<1>1. ChannelTypes /\ EngineInv
    BY DEF BaseInv, TypesInv
<1>2. /\ kernel.pc = "reduce" /\ kernel.batch # <<>> /\ OfProvider(h) /\ h \in Channel
      /\ ingress' = ingress /\ UNCHANGED <<registry_vars, runtime, published, client_vars>>
      /\ lane' = lane /\ via' = via
    BY <1>0, ReduceProviderForm
<1>3. /\ h.sequence \in Bindings /\ h.binding \in Bindings /\ p \in Providers
    BY <1>1, <1>2, ProviderItem
<1>4. \E r \in Results :
        /\ Reduced(<<o(r)>>, <<>>)
        /\ \/ r \notin {"Applied", "Ignored"} /\ UNCHANGED vars /\ binding' = binding
           \/ /\ r = "Attached" /\ binding[p] = None /\ UNCHANGED vars
              /\ binding' = [binding EXCEPT ![p] = h.binding]
           \/ /\ r = "Detached" /\ detach_provider_runtime(p)
              /\ binding' = [binding EXCEPT ![p] = None]
           \/ /\ r = "Applied" /\ h.kind = "Observe" /\ binding' = binding
              /\ apply_observation(p, h.effect, "Succeeded")
           \/ /\ r = "Ignored" /\ h.kind = "Observe" /\ binding' = binding
              /\ ~Answers(p, h.effect) /\ UNCHANGED vars
    BY <1>0, ReduceProviderForm DEF Results
<1>5. PICK r \in Results :
        /\ Reduced(<<o(r)>>, <<>>)
        /\ \/ r \notin {"Applied", "Ignored"} /\ UNCHANGED vars /\ binding' = binding
           \/ /\ r = "Attached" /\ binding[p] = None /\ UNCHANGED vars
              /\ binding' = [binding EXCEPT ![p] = h.binding]
           \/ /\ r = "Detached" /\ detach_provider_runtime(p)
              /\ binding' = [binding EXCEPT ![p] = None]
           \/ /\ r = "Applied" /\ h.kind = "Observe" /\ binding' = binding
              /\ apply_observation(p, h.effect, "Succeeded")
           \/ /\ r = "Ignored" /\ h.kind = "Observe" /\ binding' = binding
              /\ ~Answers(p, h.effect) /\ UNCHANGED vars
    BY <1>4
<1>6. /\ o(r) \in ProviderOutcomeRecord
      /\ o(r).sequence = h.sequence /\ o(r).binding = h.binding /\ o(r).result = r
    BY <1>3 DEF ProviderOutcomeRecord
<1>7. AtMostOne(<<o(r)>>, ProviderOutcomeRecord) /\ Elements(<<o(r)>>) = {o(r)}
        /\ AtMostOne(<<>>, AuthorityOutcomeRecord)
    BY <1>6, SingleOutcome
<1>. HIDE DEF o
<1>8. ASSUME Answered(o(r))' PROVE Around
    BY <1>2, <1>5, <1>7, <1>8, ReducedAround
<1>9. r \notin {"Applied", "Ignored"} => Answered(o(r))'
    BY <1>6 DEF Answered
<1>10. CASE r \notin {"Applied", "Ignored"} /\ UNCHANGED vars /\ binding' = binding
    <2>1. EngineInv' /\ Settles({}, {})
        BY <1>1, <1>10, EngineIdle
    <2>. QED  BY <1>2, <1>8, <1>9, <1>10, <2>1, SettlesBound
<1>11. CASE /\ r = "Attached" /\ binding[p] = None /\ UNCHANGED vars
            /\ binding' = [binding EXCEPT ![p] = h.binding]
    <2>1. Around
        BY <1>8, <1>9, <1>11
    <2>. QED  BY <1>2, <1>3, <1>11, <2>1, AttachEffects
<1>12. CASE /\ r = "Detached" /\ detach_provider_runtime(p)
            /\ binding' = [binding EXCEPT ![p] = None]
    <2>1. Around
        BY <1>8, <1>9, <1>12
    <2>. QED  BY <1>2, <1>3, <1>12, <2>1, DetachEffects
<1>13. CASE /\ h.kind = "Observe" /\ binding' = binding
            /\ \/ apply_observation(p, h.effect, "Succeeded")
               \/ ~Answers(p, h.effect) /\ UNCHANGED vars
    <2>1. AnswerKnown(h)
        BY <1>2, <1>13 DEF EffectsInv, AnswersKnown
    <2>2. /\ h.effect \in delivered /\ h.effect.kind = "Invoke" /\ h.effect.provider = p
          /\ \A m \in runtime[h.binding].pending : m.sequence = h.sequence => m.effect = h.effect
        BY <2>1 DEF AnswerKnown
    <2>3. /\ EngineInv' /\ \E T, sent : Settles(T, sent)
          /\ \/ \E T, sent : h.effect.key \in T /\ Settles(T, sent)
             \/ ~Answers(h.effect.provider, h.effect) /\ requests' = requests
        <3>1. CASE apply_observation(p, h.effect, "Succeeded")
            BY <1>1, <1>3, <3>1, AnswerForm
        <3>2. CASE ~Answers(p, h.effect) /\ UNCHANGED vars
            <4>1. requests' = requests
                BY <3>2 DEF vars, request_vars
            <4>. QED  BY <1>1, <2>2, <3>2, <4>1, EngineIdle
        <3>. QED  BY <1>13, <3>1, <3>2
    <2>4. \A k \in Keys : ~DispatchedUnder(k, h.effect.operation)'
        <3>. SUFFICES ASSUME NEW k \in Keys
                      PROVE  ~(/\ requests'[k].status = "Dispatched"
                               /\ requests'[k].operation = h.effect.operation)
            BY DEF DispatchedUnder
        <3>. QED  BY <1>1, <2>2, <2>3, AnsweredNotDispatched
    <2>5. Answered(o(r))'
        BY <1>2, <1>6, <2>2, <2>4 DEF Answered, DispatchedUnder
    <2>. QED  BY <1>2, <1>8, <1>13, <2>3, <2>5, SettlesBound
<1>. QED  BY <1>5, <1>10, <1>11, <1>12, <1>13

-----------------------------------------------------------------------------
(* The runtimes move on, while the engine rests. *)

\* What a step may do to the runtime b: it has less to run and to answer for; an
\* operation that it forgets while it is in service was settled, and one that
\* it settles is not dispatched any more.
Advances(b) ==
    LET r == runtime[b]
        s == runtime'[b]
    IN  \/ s = r
        \/ /\ Bound(b) /\ s.life # "None" /\ s.provider = r.provider
           /\ s.life = "AttachSent" => r.life = "AttachSent"
           /\ Elements(s.work) \cup s.tickets \subseteq Elements(r.work) \cup r.tickets
           /\ \A e \in s.tickets : e \in r.tickets \/ e.kind = "Invoke"
           /\ s.operations \subseteq r.operations
           /\ \A o \in s.settled : \/ o \in r.settled
                                   \/ o \in r.operations /\ \A k \in Keys : ~DispatchedUnder(k, o)
           /\ \/ ~Serves(s) \/ s.closing
              \/ r.life = "AttachSent"
              \/ /\ Serves(r) /\ ~r.closing
                 /\ \A o \in r.operations \ s.operations : o \in r.settled /\ kernel.effects = {}
           /\ \A m \in s.pending :
                 \/ m \in r.pending
                 \/ GivesOut /\ m.sequence = next_sequence /\ m.effect \in r.tickets
        \/ /\ ~Bound(b) /\ s.life = "AttachSent" /\ Elements(s.work) = {}
           /\ s.operations = {} /\ s.settled = {} /\ s.pending = {} /\ s.tickets = {}

AdvancesAll ==
    /\ UNCHANGED <<requests, effects, delivered, via, binding, lane>>
    /\ kernel'.effects = kernel.effects
    /\ \A b \in Bindings : Advances(b)
    /\ \A p \in Providers : current'[p] \in {current[p], None} \/ ~Bound(current'[p])
    /\ \A o \in ProviderOutcomes' : o \in ProviderOutcomes \/ o.result \notin {"Applied", "Ignored"}
    /\ \A p \in Providers : published'[p] \in {published[p], None} \/ Ready(published'[p], p)
    /\ \A c \in Clients : \/ sending'[c] \in {sending[c], NotSending}
                          \/ Ready(sending'[c].binding, sending'[c].policy.provider)
    /\ \A z \in Channel' :
          /\ z.kind = "Request" => z \in Channel \/ Ready(z.binding, z.policy.provider)
          /\ z.kind = "Observe" => z \in Channel \/ AnswerKnown(z)'

\* A runtime that is ready stays so.
LEMMA AdvancesReady ==
    ASSUME AdvancesAll, NEW b, NEW p, Ready(b, p)
    PROVE  Ready(b, p)'
BY DEF AdvancesAll, Advances, Ready, Belongs, Bound

\* A runtime that is ready and is reached was reached before; what it knew and
\* had not settled, it knows.
LEMMA AdvancesReaches ==
    ASSUME AdvancesAll, NEW b, NEW p \in Providers, Ready(b, p), InService(b, p)'
    PROVE  /\ InService(b, p)
           /\ \A o \in runtime[b].operations : o \in runtime'[b].operations
                \/ (o \in runtime[b].settled /\ kernel.effects = {})
<1>1. b \in Bindings /\ Bound(b) /\ runtime[b].life # "AttachSent" /\ b # None
    BY Bounds DEF Ready, Belongs
<1>2. current'[p] = b /\ Serves(runtime'[b]) /\ ~runtime'[b].closing
    BY DEF InService, Reaches, Serves
<1>3. current[p] = b
    BY <1>1, <1>2 DEF AdvancesAll
<1>4. \/ runtime'[b] = runtime[b]
      \/ /\ Serves(runtime[b]) /\ ~runtime[b].closing
         /\ \A o \in runtime[b].operations \ runtime'[b].operations :
               o \in runtime[b].settled /\ kernel.effects = {}
    BY <1>1, <1>2 DEF AdvancesAll, Advances
<1>. QED  BY <1>2, <1>3, <1>4 DEF InService, Reaches

\* What is handed out stays with its runtime.
LEMMA AdvancesHanded ==
    ASSUME EffectsInv, AdvancesAll
    PROVE  HandedToReady'
<1>1. \A e, b : SentVia(e, b)' <=> SentVia(e, b)
    BY DEF AdvancesAll, SentVia
<1>2. ASSUME NEW x \in kernel'.effects
      PROVE  /\ x.binding = binding'[x.effect.provider] /\ Ready(x.binding, x.effect.provider)'
             /\ SentVia(x.effect, x.binding)'
    <2>1. x \in kernel.effects
        BY <1>2 DEF AdvancesAll
    <2>2. /\ x.binding = binding[x.effect.provider] /\ Ready(x.binding, x.effect.provider)
          /\ SentVia(x.effect, x.binding)
        BY <2>1 DEF EffectsInv, HandedToReady
    <2>. QED  BY <1>1, <2>2, AdvancesReady DEF AdvancesAll
<1>3. ASSUME NEW b \in Bindings, Bound(b)'
      PROVE  /\ \A e \in WorkOf(b)' \cup runtime'[b].tickets :
                   SentVia(e, b)' /\ e.provider = runtime'[b].provider
             /\ \A e \in runtime'[b].tickets : e.kind = "Invoke"
    <2>1. Advances(b)
        BY DEF AdvancesAll
    <2>2. CASE ~Bound(b)
        BY <1>3, <2>1, <2>2 DEF Advances, Bound, WorkOf
    <2>3. CASE Bound(b)
        <3>1. /\ \A e \in WorkOf(b) \cup runtime[b].tickets :
                   SentVia(e, b) /\ e.provider = runtime[b].provider
              /\ \A e \in runtime[b].tickets : e.kind = "Invoke"
            BY <2>3 DEF EffectsInv, HandedToReady
        <3>. QED  BY <1>1, <2>1, <2>3, <3>1 DEF Advances, WorkOf
    <2>. QED  BY <2>2, <2>3
<1>. QED  BY <1>2, <1>3 DEF HandedToReady

\* Operations stay known.
LEMMA AdvancesOperations ==
    ASSUME BaseInv, EffectsInv, AdvancesAll, kernel.pc # "reduce"
    PROVE  OperationsKnown'
<1>1. /\ \A o : Invoked(o)' <=> Invoked(o)
      /\ \A kind, o : Publishing(kind, o)' <=> Publishing(kind, o)
    BY DEF AdvancesAll, Invoked, Publishing
<1>2. ASSUME NEW b \in Bindings, Bound(b)',
             NEW o \in runtime'[b].operations \cup runtime'[b].settled
      PROVE  Invoked(o)' /\ ~Publishing("Invoke", o)'
    <2>1. Bound(b) /\ o \in runtime[b].operations \cup runtime[b].settled
        BY <1>2 DEF AdvancesAll, Advances, Bound
    <2>. QED  BY <1>1, <2>1 DEF EffectsInv, OperationsKnown
<1>3. ASSUME NEW k \in Keys, requests'[k].status = "Dispatched",
             Invoked(requests[k].operation)', ~Publishing("Invoke", requests[k].operation)',
             InService(via[k], requests[k].provider)'
      PROVE  requests'[k].operation \in runtime'[via'[k]].operations \ runtime'[via'[k]].settled
    <2>1. requests' = requests /\ via' = via /\ requests[k].status = "Dispatched"
        BY <1>3 DEF AdvancesAll
    <2>2. PICK q : q = requests[k]
        OBVIOUS
    <2>3. PICK b : b = via[k]
        OBVIOUS
    <2>4. Ready(b, q.provider) /\ q.provider \in Providers
        BY <2>1, <2>2, <2>3, EngineTypes DEF EffectsInv, OpenIsBound, Active, ActiveStatuses, BaseInv
    <2>5. InService(b, q.provider)'
        BY <1>3, <2>1, <2>2, <2>3
    <2>6. /\ InService(b, q.provider)
          /\ \A o \in runtime[b].operations : o \in runtime'[b].operations \/ o \in runtime[b].settled
        BY <2>4, <2>5, AdvancesReaches
    <2>7. q.operation \in runtime[b].operations \ runtime[b].settled
        <3>1. Invoked(q.operation) /\ ~Publishing("Invoke", q.operation)
            BY <1>1, <1>3, <2>1, <2>2 DEF Invoked, Publishing
        <3>. QED  BY <2>1, <2>2, <2>3, <2>6, <3>1 DEF EffectsInv, OperationsKnown
    <2>8. q.operation \notin runtime'[b].settled
        <3>1. Advances(b) /\ Bound(b)
            BY <2>4 DEF AdvancesAll, Ready, Belongs
        <3>2. DispatchedUnder(k, q.operation)
            BY <2>1, <2>2 DEF DispatchedUnder
        <3>. QED  BY <2>7, <3>1, <3>2 DEF Advances
    <2>. QED  BY <2>1, <2>2, <2>3, <2>6, <2>7, <2>8
<1>4. lane' => effects' = {}
    BY DEF AdvancesAll, BaseInv, PhaseInv
<1>5. ASSUME NEW x \in kernel'.effects, x.effect.kind = "Cancel", InService(x.binding, x.effect.provider)'
      PROVE  x.effect.operation \in runtime'[x.binding].operations
    <2>1. x \in kernel.effects /\ kernel.effects # {}
        BY <1>5 DEF AdvancesAll
    <2>2. Ready(x.binding, x.effect.provider)
        BY <2>1 DEF EffectsInv, HandedToReady
    <2>3. x.effect.provider \in Providers
        BY <2>1 DEF BaseInv, TypesInv, ChannelTypes, KernelState, EffectEnvelope
    <2>4. /\ InService(x.binding, x.effect.provider)
          /\ \A o \in runtime[x.binding].operations : o \in runtime'[x.binding].operations
        BY <1>5, <2>1, <2>2, <2>3, AdvancesReaches
    <2>. QED  BY <1>5, <2>1, <2>4 DEF EffectsInv, OperationsKnown
<1>. QED  BY <1>2, <1>3, <1>4, <1>5 DEF OperationsKnown

\* Answers stay known: a new one has a sequence that nobody had.
LEMMA AdvancesAnswers ==
    ASSUME BaseInv, RegistryInv, EffectsInv, AdvancesAll
    PROVE  AnsweredIsSettled' /\ AnswersKnown'
<1>1. next_sequence \in Bindings /\ delivered' = delivered /\ requests' = requests
    BY DEF BaseInv, TypesInv, RegistryTypes, AdvancesAll
<1>2. ASSUME NEW b \in Bindings, Bound(b), NEW s \in Bindings, Issued(s),
             NEW m \in runtime'[b].pending, m.sequence = s
      PROVE  m \in runtime[b].pending
    <2>1. ~(GivesOut /\ s = next_sequence)
        BY <1>1, <1>2 DEF GivesOut, Issued, Bindings
    <2>. QED  BY <1>2, <2>1 DEF AdvancesAll, Advances
<1>3. AnsweredIsSettled'
    <2>. SUFFICES ASSUME NEW o \in ProviderOutcomes', o.result \in {"Applied", "Ignored"},
                         NEW m \in runtime'[o.binding].pending, m.sequence = o.sequence,
                         NEW k \in Keys, requests'[k].status = "Dispatched",
                         requests'[k].operation = m.effect.operation
                  PROVE  FALSE
        BY DEF AnsweredIsSettled, Answered, DispatchedUnder
    <2>1. o \in ProviderOutcomes
        BY DEF AdvancesAll
    <2>2. o.binding \in Bindings /\ Bound(o.binding) /\ Issued(o.sequence)
        BY <2>1 DEF RegistryInv, OutcomesKnown, OutcomeKnown, Belongs, SequencesInOrder
    <2>3. o.sequence \in Bindings
        <3>1. kernel.provider \in Seq(ProviderOutcomeRecord)
            BY DEF BaseInv, TypesInv, ChannelTypes, KernelState
        <3>2. o \in ProviderOutcomeRecord
            BY <2>1, <3>1 DEF ProviderOutcomes, Elements
        <3>. QED  BY <3>2 DEF ProviderOutcomeRecord
    <2>4. m \in runtime[o.binding].pending
        BY <1>2, <2>2, <2>3
    <2>5. DispatchedUnder(k, m.effect.operation)
        BY <1>1 DEF DispatchedUnder
    <2>. QED  BY <2>1, <2>4, <2>5 DEF EffectsInv, AnsweredIsSettled, Answered
<1>4. ASSUME NEW b \in Bindings, Bound(b)', NEW m \in runtime'[b].pending
      PROVE  m.effect \in delivered
    <2>1. Bound(b) /\ (m \in runtime[b].pending \/ m.effect \in runtime[b].tickets)
        BY <1>4 DEF AdvancesAll, Advances, Bound
    <2>2. m.effect \in runtime[b].tickets => SentVia(m.effect, b)
        BY <2>1 DEF EffectsInv, HandedToReady
    <2>. QED  BY <2>1, <2>2 DEF EffectsInv, AnswersKnown, SentVia
<1>5. ASSUME NEW z \in Channel', z.kind = "Observe" PROVE AnswerKnown(z)'
    <2>1. CASE z \in Channel
        <3>1. AnswerKnown(z) /\ OfProvider(z)
            BY <1>5, <2>1 DEF EffectsInv, AnswersKnown, OfProvider, ProviderKinds
        <3>2. z.binding \in Bindings /\ Bound(z.binding)
            BY <2>1, <3>1 DEF RegistryInv, ItemsKnown, ItemKnown, Belongs
        <3>3. z.sequence \in Bindings /\ Issued(z.sequence)
            BY <2>1, <3>1, ProviderItem DEF BaseInv, TypesInv, ItemsIssued
        <3>. QED  BY <1>1, <1>2, <3>1, <3>2, <3>3 DEF AnswerKnown
    <2>2. CASE z \notin Channel
        BY <1>5, <2>2 DEF AdvancesAll
    <2>. QED  BY <2>1, <2>2
<1>. QED  BY <1>1, <1>3, <1>4, <1>5 DEF AnswersKnown

\* A step in which the runtimes move on.
LEMMA AdvancesEffects ==
    ASSUME BaseInv, RegistryInv, EffectsInv, AdvancesAll, kernel.pc # "reduce"
    PROVE  EffectsInv'
<1>1. SentToReady'
    <2>1. ASSUME NEW p \in Providers, published'[p] # None PROVE Ready(published'[p], p)
        BY <2>1 DEF AdvancesAll, EffectsInv, SentToReady
    <2>2. ASSUME NEW c \in Clients, sending'[c] # NotSending
          PROVE  Ready(sending'[c].binding, sending'[c].policy.provider)
        BY <2>2 DEF AdvancesAll, EffectsInv, SentToReady
    <2>3. ASSUME NEW z \in Channel', z.kind = "Request" PROVE Ready(z.binding, z.policy.provider)
        BY <2>3 DEF AdvancesAll, EffectsInv, SentToReady
    <2>4. \A b, p : Ready(b, p) => Ready(b, p)'
        BY AdvancesReady
    <2>5. ASSUME NEW b, NEW p, Ready(b, p)
          PROVE  b \in Bindings /\ runtime'[b].life \notin {"None", "AttachSent"} /\ runtime'[b].provider = p
        BY <2>4, <2>5 DEF Ready, Belongs, Bound
    <2>. QED  BY <2>1, <2>2, <2>3, <2>5 DEF SentToReady, Ready, Belongs, Bound
<1>2. OpenIsBound'
    <2>1. ASSUME NEW k \in Keys, Active(k)
          PROVE  via[k] = binding[requests[k].provider] /\ Ready(via[k], requests[k].provider)
        BY <2>1 DEF EffectsInv, OpenIsBound
    <2>2. ASSUME NEW e \in effects PROVE Ready(binding[e.provider], e.provider)
        BY DEF EffectsInv, OpenIsBound
    <2>5. ASSUME NEW b, NEW p, Ready(b, p)
          PROVE  b \in Bindings /\ runtime'[b].life \notin {"None", "AttachSent"} /\ runtime'[b].provider = p
        BY <2>5, AdvancesReady DEF Ready, Belongs, Bound
    <2>. QED  BY <2>1, <2>2, <2>5 DEF AdvancesAll, OpenIsBound, Active, Ready, Belongs, Bound
<1>. QED  BY <1>1, <1>2, AdvancesHanded, AdvancesOperations, AdvancesAnswers DEF EffectsInv

EngineRests == UNCHANGED <<requests, effects, delivered, via, binding, lane>>

\* The engine does nothing.
LEMMA EngineAtRest ==
    ASSUME UNCHANGED vars
    PROVE  UNCHANGED <<requests, effects, delivered, completions>>
BY DEF vars, request_vars, history

\* A step that leaves the runtimes alone.
LEMMA StillEffects ==
    ASSUME BaseInv, RegistryInv, EffectsInv, kernel.pc # "reduce", EngineRests,
           kernel'.effects = kernel.effects, UNCHANGED <<runtime, current, published>>,
           \A o \in ProviderOutcomes' : o \in ProviderOutcomes \/ o.result \notin {"Applied", "Ignored"},
           \A c \in Clients : \/ sending'[c] \in {sending[c], NotSending}
                              \/ Ready(sending'[c].binding, sending'[c].policy.provider),
           \A z \in Channel' : z.kind \in {"Request", "Observe"} =>
               \/ z \in Channel
               \/ z.kind = "Request" /\ Ready(z.binding, z.policy.provider)
    PROVE  EffectsInv'
<1>1. AdvancesAll
    BY DEF AdvancesAll, Advances, EngineRests
<1>. QED  BY <1>1, AdvancesEffects

\* The threads of clients and of the authority.
LEMMA ClientEffects ==
    ASSUME BaseInv, RegistryInv, EffectsInv, kernel.pc # "reduce",
           UNCHANGED <<vars, kernel_vars, registry_vars, runtime, published>>,
           \A c \in Clients : \/ sending'[c] \in {sending[c], NotSending}
                              \/ Ready(sending'[c].binding, sending'[c].policy.provider),
           \/ ingress' = ingress
           \/ \E x \in Item : /\ Send(x) /\ x.kind # "Observe"
                              /\ x.kind = "Request" => Ready(x.binding, x.policy.provider)
    PROVE  EffectsInv'
<1>1. EngineRests /\ kernel' = kernel /\ ChannelTypes /\ current' = current
    BY EngineAtRest DEF EngineRests, kernel_vars, registry_vars, BaseInv, TypesInv
<1>2. ASSUME NEW z \in Channel', z.kind \in {"Request", "Observe"}
      PROVE  z \in Channel \/ (z.kind = "Request" /\ Ready(z.binding, z.policy.provider))
    <2>1. CASE ingress' = ingress
        BY <1>1, <1>2, <2>1, KeepForm, KeepsChannel
    <2>2. ASSUME NEW x \in Item, Send(x), x.kind # "Observe",
                 x.kind = "Request" => Ready(x.binding, x.policy.provider)
          PROVE  z \in Channel \/ (z.kind = "Request" /\ Ready(z.binding, z.policy.provider))
        <3>1. Sends(x)
            BY <1>1, <2>2, SendForm
        <3>. QED  BY <1>1, <1>2, <2>2, <3>1, SendsChannel
    <2>. QED  BY <2>1, <2>2
<1>. QED  BY <1>1, <1>2, StillEffects DEF ProviderOutcomes

\* What they do.
LEMMA ClientActionsEffects ==
    ASSUME BaseInv, RegistryInv, EffectsInv, kernel.pc # "reduce",
           \/ \E k \in Keys, pk \in PolicyKeys, d \in Deadlines : Dispatch(k, pk, d)
           \/ \E c \in Clients : DispatchSend(c) \/ CloseClient(c)
           \/ \E k \in Keys, n \in Sequences : DispatchApproval(k, n)
           \/ \E i \in Instances : DispatchControl(i)
    PROVE  EffectsInv'
<1>1. ClientTypes /\ next_authority_sequence \in 1 .. MaxAuthority
      /\ sending \in [Clients -> {NotSending} \cup RequestItem]
    BY DEF BaseInv, TypesInv, ClientTypes
<1>2. ASSUME NEW k \in Keys, NEW pk \in PolicyKeys, NEW d \in Deadlines, Dispatch(k, pk, d)
      PROVE  EffectsInv'
    <2>1. /\ UNCHANGED <<vars, kernel_vars, registry_vars, runtime, published>> /\ ingress' = ingress
          /\ published[pk.provider] # None
          /\ sending' = [sending EXCEPT ![k.client] =
                [kind |-> "Request", key |-> k, policy |-> pk, deadline |-> d,
                 binding |-> published[pk.provider]]]
        BY <1>2 DEF Dispatch
    <2>2. pk.provider \in Providers
        BY DEF PolicyKeys
    <2>3. Ready(published[pk.provider], pk.provider)
        BY <2>1, <2>2 DEF EffectsInv, SentToReady
    <2>4. ASSUME NEW c \in Clients
          PROVE  \/ sending'[c] = sending[c]
                 \/ Ready(sending'[c].binding, sending'[c].policy.provider)
        BY <1>1, <2>1, <2>3
    <2>. QED  BY <2>1, <2>4, ClientEffects
<1>3. ASSUME NEW c \in Clients, DispatchSend(c) PROVE EffectsInv'
    <2>1. /\ UNCHANGED <<vars, kernel_vars, registry_vars, runtime, published>>
          /\ ingress' = ingress \/ Send(sending[c])
          /\ sending[c] # NotSending /\ sending' = [sending EXCEPT ![c] = NotSending]
        BY <1>3 DEF DispatchSend
    <2>2. sending[c] \in RequestItem
        BY <1>1, <2>1
    <2>3. sending[c] \in Item /\ sending[c].kind # "Observe"
        BY <2>2 DEF RequestItem, Item
    <2>4. Ready(sending[c].binding, sending[c].policy.provider)
        BY <2>1 DEF EffectsInv, SentToReady
    <2>5. \A x \in Clients : sending'[x] \in {sending[x], NotSending}
        BY <1>1, <2>1
    <2>. QED  BY <2>1, <2>3, <2>4, <2>5, ClientEffects
<1>4. ASSUME NEW c \in Clients, CloseClient(c) PROVE EffectsInv'
    <2>. DEFINE x == [kind |-> "CloseClient", sequence |-> next_authority_sequence, client |-> c]
    <2>1. x \in Item /\ x.kind \notin {"Request", "Observe"}
        BY <1>1 DEF CloseItem, Item
    <2>2. /\ UNCHANGED <<vars, kernel_vars, registry_vars, runtime, published, sending>>
          /\ ingress' = ingress \/ Send(x)
        BY <1>4 DEF CloseClient
    <2>. HIDE DEF x
    <2>. QED  BY <2>1, <2>2, ClientEffects
<1>5. ASSUME NEW k \in Keys, NEW n \in Sequences, DispatchApproval(k, n) PROVE EffectsInv'
    <2>. DEFINE x == [kind |-> "Approve", sequence |-> next_authority_sequence, key |-> k,
                      nonce |-> n]
    <2>1. x \in Item /\ x.kind \notin {"Request", "Observe"}
        BY <1>1 DEF ApproveItem, Item
    <2>2. /\ UNCHANGED <<vars, kernel_vars, registry_vars, runtime, published, sending>> /\ Send(x)
        BY <1>5 DEF DispatchApproval
    <2>. HIDE DEF x
    <2>. QED  BY <2>1, <2>2, ClientEffects
<1>6. ASSUME NEW i \in Instances, DispatchControl(i) PROVE EffectsInv'
    <2>. DEFINE x == [kind |-> "Control", instance |-> i]
    <2>1. x \in Item /\ x.kind \notin {"Request", "Observe"}
        BY DEF ControlItem, Item
    <2>2. UNCHANGED <<vars, kernel_vars, registry_vars, runtime, published, client_vars>> /\ Send(x)
        BY <1>6 DEF DispatchControl
    <2>. HIDE DEF x
    <2>. QED  BY <2>1, <2>2, ClientEffects DEF client_vars
<1>. QED  BY <1>2, <1>3, <1>4, <1>5, <1>6

\* The kernel goes on to another phase.
LEMMA PhaseEffects ==
    ASSUME BaseInv, RegistryInv, EffectsInv, kernel.pc # "reduce", EngineRests,
           ingress' = ingress, kernel'.batch = kernel.batch, kernel'.provider = kernel.provider,
           kernel'.effects = kernel.effects, UNCHANGED <<runtime, current, published, sending>>
    PROVE  EffectsInv'
<1>1. Channel' = Channel
    BY KeepForm, KeepsChannel
<1>. QED  BY <1>1, StillEffects DEF ProviderOutcomes

\* The phases that only move on, or offer something to the clients.
LEMMA QuietPhasesEffects ==
    ASSUME BaseInv, RegistryInv, EffectsInv,
           \/ BeginStep \/ DrainCompletions \/ PublishAuthority \/ PublishCompletions \/ FinalizeCloses
    PROVE  EffectsInv'
<1>1. kernel \in KernelState /\ PhaseInv
    BY DEF BaseInv, TypesInv, ChannelTypes
<1>2. CASE BeginStep
    <2>1. /\ EngineRests /\ ingress' = ingress /\ kernel.pc = "idle"
          /\ UNCHANGED <<runtime, current, published, sending>>
        BY <1>2, EngineAtRest DEF BeginStep, EngineRests, Outside, registry_vars, client_vars, Phase
    <2>2. kernel'.batch = kernel.batch /\ kernel'.provider = kernel.provider
            /\ kernel'.effects = kernel.effects
        BY <1>1, <1>2 DEF BeginStep, KernelState
    <2>. QED  BY <2>1, <2>2, PhaseEffects
<1>3. CASE DrainCompletions
    <2>1. /\ ingress' = ingress /\ kernel.pc = "drain" /\ UNCHANGED <<via, binding, lane>>
          /\ UNCHANGED <<runtime, current, published, sending>>
          /\ drain_completions \/ UNCHANGED vars
        BY <1>3 DEF DrainCompletions, Outside, registry_vars, client_vars, Phase, NoEngine
    <2>2. EngineRests
        BY <2>1, EngineAtRest DEF EngineRests, drain_completions
    <2>3. kernel'.batch = kernel.batch /\ kernel'.provider = kernel.provider
            /\ kernel'.effects = kernel.effects
        BY <1>1, <1>3 DEF DrainCompletions, KernelState
    <2>. QED  BY <2>1, <2>2, <2>3, PhaseEffects
<1>4. CASE PublishAuthority
    <2>1. /\ EngineRests /\ ingress' = ingress /\ kernel.pc = "authority"
          /\ UNCHANGED <<runtime, current, published, sending>>
        BY <1>4, EngineAtRest DEF PublishAuthority, EngineRests, PublishOnly, registry_vars, Phase
    <2>2. kernel'.batch = kernel.batch /\ kernel'.provider = kernel.provider
            /\ kernel'.effects = kernel.effects
        BY <1>1, <1>4 DEF PublishAuthority, KernelState
    <2>. QED  BY <2>1, <2>2, PhaseEffects
<1>5. CASE PublishCompletions
    <2>1. /\ EngineRests /\ ingress' = ingress /\ kernel.pc = "completions"
          /\ UNCHANGED <<runtime, current, published, sending>>
        BY <1>5, EngineAtRest DEF PublishCompletions, EngineRests, PublishOnly, registry_vars, client_vars, Phase
    <2>2. kernel'.batch = kernel.batch /\ kernel'.provider = kernel.provider
            /\ kernel'.effects = kernel.effects
        BY <1>1, <1>5 DEF PublishCompletions, KernelState
    <2>. QED  BY <2>1, <2>2, PhaseEffects
<1>6. CASE FinalizeCloses
    <2>1. /\ EngineRests /\ ingress' = ingress /\ kernel.pc = "finalize"
          /\ UNCHANGED <<runtime, current, published, sending>>
        BY <1>6, EngineAtRest DEF FinalizeCloses, EngineRests, PublishOnly, registry_vars, Phase
    <2>2. kernel'.batch = kernel.batch /\ kernel'.provider = kernel.provider
            /\ kernel'.effects = kernel.effects
        BY <1>1, <1>6, <2>1 DEF FinalizeCloses, Resting, PhaseInv
    <2>. QED  BY <2>1, <2>2, PhaseEffects
<1>. QED  BY <1>2, <1>3, <1>4, <1>5, <1>6

\* The bindings that are active are published: their attach was heard of.
LEMMA PublishEdgeEffects ==
    ASSUME BaseInv, RegistryInv, EffectsInv, PublishEdge
    PROVE  EffectsInv'
<1>1. /\ EngineRests /\ ingress' = ingress /\ kernel.pc = "edge"
      /\ UNCHANGED <<runtime, current, sending>>
      /\ \A p \in Providers :
            \/ published'[p] = None
            \/ /\ published'[p] = current[p] /\ current[p] # None
               /\ runtime[current[p]].life = "Active"
    BY EngineAtRest DEF PublishEdge, EngineRests, PublishOnly, registry_vars, client_vars, Phase
<1>2. kernel'.batch = kernel.batch /\ kernel'.provider = kernel.provider
        /\ kernel'.effects = kernel.effects
    BY DEF PublishEdge, BaseInv, TypesInv, ChannelTypes, KernelState
<1>3. \A p \in Providers : published'[p] = None \/ Ready(published'[p], p)
    BY <1>1 DEF RegistryInv, CurrentKnown, Ready
<1>4. Channel' = Channel
    BY <1>1, <1>2, KeepForm, KeepsChannel
<1>5. AdvancesAll
    BY <1>1, <1>2, <1>3, <1>4 DEF AdvancesAll, Advances, EngineRests, ProviderOutcomes
<1>. QED  BY <1>1, <1>5, AdvancesEffects

\* The kernel turns an item away, or is done with the batch.
LEMMA RejectItemEffects ==
    ASSUME BaseInv, RegistryInv, EffectsInv, RejectItem
    PROVE  EffectsInv'
<1> DEFINE h == Head(kernel.batch)
           o == ProviderOutcome(h, "IntegrationBlocked")
           P == IF h.kind \in ProviderKinds THEN <<o>> ELSE <<>>
           A == IF h.kind \in AuthorityKinds THEN AuthorityOutcome(h, FALSE) ELSE <<>>
<1>1. /\ kernel.pc = "reject" /\ ingress' = ingress /\ EngineRests
      /\ UNCHANGED <<runtime, current, published, sending>>
      /\ \/ kernel.batch # <<>> /\ Reduced(P, A)
         \/ kernel.batch = <<>> /\ kernel' = [kernel EXCEPT !.pc = "outcomes"]
    BY EngineAtRest DEF RejectItem, Phase, Outside, registry_vars, client_vars, NoEngine, EngineRests
<1>2. ChannelTypes /\ kernel \in KernelState
    BY DEF BaseInv, TypesInv, ChannelTypes
<1>3. CASE kernel.batch = <<>> /\ kernel' = [kernel EXCEPT !.pc = "outcomes"]
    <2>1. /\ kernel'.batch = kernel.batch /\ kernel'.provider = kernel.provider
          /\ kernel'.effects = kernel.effects
        BY <1>2, <1>3 DEF KernelState
    <2>. QED  BY <1>1, <2>1, PhaseEffects
<1>4. CASE kernel.batch # <<>> /\ Reduced(P, A)
    <2>1. h \in Item /\ h \in Channel
        BY <1>4, NextItem
    <2>2. AtMostOne(A, AuthorityOutcomeRecord)
        <3>1. CASE h.kind \in AuthorityKinds
            <4> DEFINE x == [sequence |-> h.sequence, closed |-> FALSE]
            <4>1. x \in AuthorityOutcomeRecord /\ A = <<x>>
                BY <1>2, <2>1, <3>1, AuthorityItem
                   DEF OfAuthority, AuthorityOutcome, AuthorityOutcomeRecord
            <4>. HIDE DEF x, A
            <4>. QED  BY <4>1, SingleOutcome
        <3>2. CASE h.kind \notin AuthorityKinds
            BY <3>2, SingleOutcome
        <3>. QED  BY <3>1, <3>2
    <2>3. AtMostOne(P, ProviderOutcomeRecord) /\ \A x \in Elements(P) : x.result = "IntegrationBlocked"
        <3>1. CASE h.kind \notin ProviderKinds
            BY <3>1, SingleOutcome
        <3>2. CASE h.kind \in ProviderKinds
            <4>1. o.result = "IntegrationBlocked" /\ OfProvider(h)
                BY <3>2 DEF ProviderOutcome, OfProvider
            <4>2. o \in ProviderOutcomeRecord
                BY <1>2, <2>1, <4>1, ProviderItem DEF ProviderOutcome, ProviderOutcomeRecord, Results
            <4>3. P = <<o>> /\ AtMostOne(<<o>>, ProviderOutcomeRecord) /\ Elements(<<o>>) = {o}
                BY <3>2, <4>2, SingleOutcome
            <4>. HIDE DEF P, o
            <4>. QED  BY <4>1, <4>3
        <3>. QED  BY <3>1, <3>2
    <2>. HIDE DEF P, A
    <2>4. /\ Takes(h) /\ kernel'.effects = kernel.effects
          /\ ProviderOutcomes' = ProviderOutcomes \cup Elements(P)
        BY <1>1, <1>2, <1>4, <2>2, <2>3, ReducedForm
    <2>5. Channel' \subseteq Channel
        BY <1>2, <2>4, TakesChannel
    <2>. QED  BY <1>1, <2>3, <2>4, <2>5, StillEffects
<1>. QED  BY <1>1, <1>3, <1>4

-----------------------------------------------------------------------------
(* One runtime moves on. *)

\* One runtime moves on, and may send an item.
LEMMA OneAdvances ==
    ASSUME BaseInv, RegistryInv, EffectsInv, kernel.pc # "reduce", EngineRests,
           UNCHANGED <<current, published, sending>>,
           kernel'.effects = kernel.effects, kernel'.provider = kernel.provider,
           kernel'.batch = kernel.batch,
           NEW b \in Bindings, NEW s, runtime' = [runtime EXCEPT ![b] = s], Advances(b),
           Refused \/ \E x : SendsNext(x) /\ (x.kind = "Observe" => AnswerKnown(x)')
    PROVE  EffectsInv'
<1>1. ChannelTypes /\ DOMAIN runtime = Bindings
    BY DEF BaseInv, TypesInv, RuntimeTypes
<1>2. \A a \in Bindings \ {b} : runtime'[a] = runtime[a]
    BY <1>1
<1>3. \A a \in Bindings : Advances(a)
    BY <1>2 DEF Advances
<1>4. ASSUME NEW z \in Channel', z.kind \in {"Request", "Observe"}
      PROVE  z \in Channel \/ (z.kind = "Observe" /\ AnswerKnown(z)')
    <2>1. CASE Refused
        <3>1. Channel' = Channel
            BY <2>1, KeepForm, KeepsChannel DEF Refused
        <3>. QED  BY <1>4, <3>1
    <2>2. ASSUME NEW x, SendsNext(x), x.kind = "Observe" => AnswerKnown(x)'
          PROVE  z \in Channel \/ (z.kind = "Observe" /\ AnswerKnown(z)')
        <3>1. x \in Item /\ Send(x) /\ x.kind # "Request"
            BY <2>2 DEF SendsNext, Item, BindItem, ObserveItem
        <3>2. Sends(x)
            BY <1>1, <3>1, SendForm
        <3>3. Channel' = Channel \cup {x}
            BY <1>1, <3>2, SendsChannel
        <3>4. z \in Channel \/ z = x
            BY <1>4, <3>3
        <3>. QED  BY <1>4, <2>2, <3>1, <3>4
    <2>. QED  BY <2>1, <2>2
<1>5. AdvancesAll
    BY <1>3, <1>4 DEF AdvancesAll, EngineRests, ProviderOutcomes
<1>. QED  BY <1>5, AdvancesEffects

\* A runtime that keeps what it has to run, and forgets its operations only
\* when it stops to serve or its handle closes it.
LEMMA ShrinksAdvances ==
    ASSUME NEW b \in Bindings, Bound(b), NEW s, runtime'[b] = s, Shrinks(runtime[b], s),
           s.life = "AttachSent" => runtime[b].life = "AttachSent",
           \/ s.operations = runtime[b].operations /\ s.settled = runtime[b].settled
                /\ s.closing = runtime[b].closing
                /\ (Serves(s) => Serves(runtime[b]) \/ runtime[b].life = "AttachSent")
           \/ (~Serves(s) \/ s.closing) /\ s.settled \subseteq runtime[b].settled
    PROVE  Advances(b)
<1>1. s.life # "None"
    BY RuntimeFields DEF Shrinks, LifeStates
<1>. QED  BY <1>1 DEF Advances, Shrinks

\* A runtime is closed.
LEMMA ClosesEffects ==
    ASSUME BaseInv, RegistryInv, EffectsInv, kernel.pc # "reduce", EngineRests,
           UNCHANGED <<current, published, sending>>,
           kernel'.effects = kernel.effects, kernel'.provider = kernel.provider,
           kernel'.batch = kernel.batch,
           NEW b \in Bindings, Bound(b), NEW s, Closes(b, s)
    PROVE  EffectsInv'
<1>1. RuntimeTypes /\ next_sequence \in Bindings /\ DOMAIN runtime = Bindings
    BY DEF BaseInv, TypesInv, RegistryTypes, RuntimeTypes
<1>2. /\ Shrinks(runtime[b], s) /\ s.settled \subseteq runtime[b].settled
      /\ runtime' = [runtime EXCEPT ![b] = s]
      /\ s.life \in {"Closed", "DetachSent", "ClosingRetry"}
    BY DEF Closes
<1>3. runtime'[b] = s /\ ~Serves(s) /\ s.life # "AttachSent"
    BY <1>1, <1>2 DEF Serves
<1>4. Advances(b)
    BY <1>2, <1>3, ShrinksAdvances
<1>5. Refused \/ SendsNext(DetachItem(b))
    BY <1>1, ClosesSends
<1>6. DetachItem(b).kind # "Observe"
    BY DEF DetachItem
<1>7. Refused \/ \E x : SendsNext(x) /\ x.kind # "Observe"
    BY <1>5, <1>6
<1>. QED  BY <1>2, <1>4, <1>7, OneAdvances

\* A runtime is closed, told to finish, or takes from its queues.
LEMMA RuntimeActionsEffects ==
    ASSUME BaseInv, RegistryInv, EffectsInv, kernel.pc # "reduce", NEW b \in Bindings,
           \/ BeginClose(b) \/ CloseRuntime(b) \/ begin_quiesce(b) \/ try_recv(b)
           \/ try_recv_observation_outcome(b)
    PROVE  EffectsInv'
<1>1. RuntimeTypes /\ next_sequence \in Bindings /\ DOMAIN runtime = Bindings
    BY DEF BaseInv, TypesInv, RegistryTypes, RuntimeTypes
<1>2. UNCHANGED <<vars, kernel_vars, current, published, client_vars>> /\ Bound(b)
    BY DEF BeginClose, CloseRuntime, begin_quiesce, try_recv, try_recv_observation_outcome,
           Free, registry_vars
<1>3. EngineRests /\ UNCHANGED <<current, published, sending>> /\ kernel' = kernel
    BY <1>2, EngineAtRest DEF EngineRests, kernel_vars, client_vars
<1>4. CASE CloseRuntime(b)
    <2>1. PICK s : Closes(b, s)
        BY <1>1, <1>2, <1>4, CloseActions DEF CloseRuntime
    <2>. QED  BY <1>2, <1>3, <2>1, ClosesEffects
<1>5. CASE BeginClose(b) \/ begin_quiesce(b) \/ try_recv(b) \/ try_recv_observation_outcome(b)
    <2>1. Refused
        BY <1>5 DEF BeginClose, begin_quiesce, try_recv, try_recv_observation_outcome,
                     registry_vars, Refused
    <2>2. CASE begin_quiesce(b)
        <3>1. PICK s : /\ runtime' = [runtime EXCEPT ![b] = s] /\ Shrinks(runtime[b], s)
                       /\ \/ /\ runtime[b].life = "Active" /\ s.life = "Quiescing"
                             /\ s.operations = runtime[b].operations
                             /\ s.settled = runtime[b].settled
                             /\ s.closing = runtime[b].closing
                          \/ s.life = "Closed" /\ s.settled = {}
            BY <1>1, <2>2, QuiesceForm
        <3>2. runtime'[b] = s
            BY <1>1, <3>1
        <3>3. Advances(b)
            BY <1>2, <3>1, <3>2, ShrinksAdvances DEF Serves
        <3>. QED  BY <1>3, <2>1, <3>1, <3>3, OneAdvances
    <2>3. CASE try_recv(b)
        <3>1. PICK s : /\ runtime' = [runtime EXCEPT ![b] = s] /\ RuntimeOK(s)
                       /\ s.life = runtime[b].life /\ s.provider = runtime[b].provider
                       /\ s.pending = runtime[b].pending /\ s.operations = runtime[b].operations
                       /\ s.settled = runtime[b].settled /\ s.closing = runtime[b].closing
                       /\ Elements(s.work) \subseteq Elements(runtime[b].work)
                       /\ s.tickets \subseteq runtime[b].tickets \cup Elements(runtime[b].work)
                       /\ \A e \in s.tickets : e \in runtime[b].tickets \/ e.kind = "Invoke"
            BY <1>1, <2>3, RecvForm
        <3>2. runtime'[b] = s
            BY <1>1, <3>1
        <3>3. Serves(s) => Serves(runtime[b])
            BY <3>1 DEF Serves
        <3>4. Advances(b)
            BY <1>2, <3>1, <3>2, <3>3 DEF Advances, Bound
        <3>. QED  BY <1>3, <2>1, <3>1, <3>4, OneAdvances
    <2>4. CASE try_recv_observation_outcome(b)
        <3>1. PICK s : /\ runtime' = [runtime EXCEPT ![b] = s] /\ Shrinks(runtime[b], s)
                       /\ s.life = runtime[b].life /\ s.operations = runtime[b].operations
                       /\ s.settled = runtime[b].settled /\ s.closing = runtime[b].closing
            BY <1>1, <2>4, OutcomeForm
        <3>2. runtime'[b] = s
            BY <1>1, <3>1
        <3>3. Advances(b)
            BY <1>2, <3>1, <3>2, ShrinksAdvances DEF Serves
        <3>. QED  BY <1>3, <2>1, <3>1, <3>3, OneAdvances
    <2>5. CASE BeginClose(b)
        <3>1. PICK s : /\ runtime' = [runtime EXCEPT ![b] = s] /\ Shrinks(runtime[b], s)
                       /\ s.life = runtime[b].life /\ s.settled = {} /\ s.closing
            BY <1>1, <2>5, BeginCloseForm
        <3>2. runtime'[b] = s
            BY <1>1, <3>1
        <3>3. Advances(b)
            BY <1>2, <3>1, <3>2, ShrinksAdvances
        <3>. QED  BY <1>3, <2>1, <3>1, <3>3, OneAdvances
    <2>. QED  BY <1>5, <2>2, <2>3, <2>4, <2>5
<1>. QED  BY <1>4, <1>5

\* The kernel asks a runtime that waits to be closed.
LEMMA FlushEffects ==
    ASSUME BaseInv, RegistryInv, EffectsInv, NEW b \in Bindings, FlushBinding(b)
    PROVE  EffectsInv'
<1>1. RuntimeTypes /\ next_sequence \in Bindings /\ kernel \in KernelState
    BY DEF BaseInv, TypesInv, RegistryTypes, ChannelTypes
<1>2. /\ UNCHANGED <<vars, lane, binding, via, current, published, client_vars>>
      /\ kernel' = [kernel EXCEPT !.flush = @ \ {b}] /\ kernel.pc = "flush"
      /\ IF runtime[b].life = "ClosingRetry" THEN request_close(b, Emptied(runtime[b]))
         ELSE Refused /\ runtime' = runtime
    BY DEF FlushBinding, Refused, Phase
<1>3. /\ kernel'.effects = kernel.effects /\ kernel'.provider = kernel.provider
      /\ kernel'.batch = kernel.batch
    BY <1>1, <1>2 DEF KernelState
<1>4. EngineRests /\ UNCHANGED <<current, published, sending>>
    BY <1>2, EngineAtRest DEF EngineRests, client_vars
<1>5. CASE runtime[b].life = "ClosingRetry"
    <2>1. Bound(b) /\ request_close(b, Emptied(runtime[b]))
        BY <1>2, <1>5 DEF Bound
    <2>2. PICK s : Closes(b, s)
        BY <1>1, <2>1, CloseActions
    <2>. QED  BY <1>2, <1>3, <1>4, <2>1, <2>2, ClosesEffects
<1>6. CASE runtime[b].life # "ClosingRetry"
    BY <1>2, <1>3, <1>4, <1>6, PhaseEffects DEF Refused
<1>. QED  BY <1>5, <1>6

\* A runtime answers: the answer is the one that it waits for.
LEMMA CompleteEffects ==
    ASSUME BaseInv, RegistryInv, EffectsInv, kernel.pc # "reduce", NEW b \in Bindings, NEW e,
           try_complete(b, e)
    PROVE  EffectsInv'
<1>1. RuntimeTypes /\ next_sequence \in Bindings /\ DOMAIN runtime = Bindings
    BY DEF BaseInv, TypesInv, RegistryTypes, RuntimeTypes
<1> DEFINE r == runtime[b]
<1>2. /\ UNCHANGED <<vars, kernel_vars, current, published, client_vars>> /\ Bound(b)
      /\ ~sequence_exhausted /\ commit_sequence(next_sequence) /\ Serves(r)
    BY DEF try_complete
<1>3. EngineRests /\ UNCHANGED <<current, published, sending>> /\ kernel' = kernel
    BY <1>2, EngineAtRest DEF EngineRests, kernel_vars, client_vars
<1>4. PICK s : /\ runtime' = [runtime EXCEPT ![b] = s] /\ RuntimeOK(s)
               /\ e \in r.tickets /\ Send(ObserveItemOf(b, e)) /\ s.provider = r.provider
               /\ s.work = r.work /\ s.tickets \subseteq r.tickets
               /\ s.pending = r.pending \cup {[sequence |-> next_sequence, effect |-> e]}
               /\ s.operations \subseteq r.operations
               /\ \/ /\ s.life = r.life /\ s.operations = r.operations /\ s.settled = r.settled
                     /\ s.closing = r.closing
                  \/ s.life = "ClosingRetry" /\ s.settled = {}
    BY <1>1, CompleteForm
<1>5. runtime'[b] = s /\ s.life # "None"
    <2>1. s.life \in LifeStates
        BY <1>4, RuntimeFields
    <2>. QED  BY <1>1, <1>4, <2>1 DEF LifeStates
<1>6. SendsNext(ObserveItemOf(b, e))
    <2>1. ObserveItemOf(b, e) \in ObserveItem /\ ObserveItemOf(b, e).sequence = next_sequence
        BY <1>1, <1>2, <1>4, BoundRecord, RuntimeFields DEF ObserveItemOf, ObserveItem
    <2>. QED  BY <1>2, <1>4, <2>1 DEF SendsNext
<1>7. GivesOut
    BY <1>6, SendsGivesOut
<1>8. \A m \in s.pending : \/ m \in r.pending
                           \/ GivesOut /\ m.sequence = next_sequence /\ m.effect \in r.tickets
    BY <1>4, <1>7
<1>9. /\ s.life = "AttachSent" => r.life = "AttachSent"
      /\ ~Serves(s) \/ (Serves(r) /\ s.operations = r.operations /\ s.closing = r.closing)
      /\ s.settled \subseteq r.settled
    BY <1>2, <1>4 DEF Serves
<1>10. Advances(b)
    BY <1>2, <1>4, <1>5, <1>8, <1>9 DEF Advances
<1>11. PICK x : x = ObserveItemOf(b, e)
    OBVIOUS
<1>12. /\ x.kind = "Observe" /\ x.sequence = next_sequence /\ x.provider = r.provider
       /\ x.binding = b /\ x.effect = e
    BY <1>11 DEF ObserveItemOf
<1>13. SentVia(e, b) /\ e.provider = r.provider /\ e.kind = "Invoke"
    BY <1>2, <1>4 DEF EffectsInv, HandedToReady
<1>14. ASSUME NEW m \in runtime'[b].pending, m.sequence = next_sequence PROVE m.effect = e
    <2>1. m \notin r.pending
        <3>1. RuntimeIssued(b) /\ \A y \in r.pending : y.sequence \in 0 .. MaxSequence
            BY <1>2, RuntimeKnown
        <3>2. \A y \in r.pending : y.sequence < next_sequence
            BY <1>2, <3>1 DEF RuntimeIssued, Issued
        <3>. QED  BY <1>1, <1>14, <3>1, <3>2 DEF Bindings
    <2>. QED  BY <1>4, <1>5, <1>14, <2>1
<1>15. AnswerKnown(x)'
    <2>1. e \in delivered' /\ delivered' = delivered
        BY <1>3, <1>13 DEF SentVia, EngineRests
    <2>. HIDE DEF r
    <2>. QED  BY <1>12, <1>13, <1>14, <2>1 DEF AnswerKnown
<1>. QED  BY <1>3, <1>4, <1>6, <1>10, <1>11, <1>15, OneAdvances

\* A provider is bound: the new runtime knows nothing yet.
LEMMA BindEffects ==
    ASSUME BaseInv, RegistryInv, EffectsInv, kernel.pc # "reduce", NEW p \in Providers,
           bind_provider(p)
    PROVE  EffectsInv'
<1> DEFINE n == next_sequence
           y == [kind |-> "Attach", sequence |-> n, provider |-> p, binding |-> n]
<1>1. /\ ChannelTypes /\ n \in Bindings /\ DOMAIN runtime = Bindings
      /\ current \in [Providers -> 0 .. MaxSequence]
    BY DEF BaseInv, TypesInv, RegistryTypes, RuntimeTypes
<1>2. /\ UNCHANGED <<vars, kernel_vars, published, client_vars>>
      /\ current' = [current EXCEPT ![p] = n]
      /\ runtime' = [runtime EXCEPT ![n] = NewRuntime(p)]
      /\ ~sequence_exhausted /\ Send(y)
    BY DEF bind_provider, NewRuntime
<1>3. EngineRests /\ UNCHANGED <<published, sending>> /\ kernel' = kernel
    BY <1>2, EngineAtRest DEF EngineRests, kernel_vars, client_vars
<1>4. y \in Item /\ y.kind = "Attach"
    BY <1>1 DEF BindItem, Item
<1>5. PICK x : x = y
    OBVIOUS
<1>. HIDE DEF y
<1>6. Channel' = Channel \cup {x} /\ x.kind = "Attach"
    <2>1. Sends(x)
        BY <1>1, <1>2, <1>3, <1>4, <1>5, SendForm
    <2>. QED  BY <1>1, <1>4, <1>5, <2>1, SendsChannel
<1>7. ~Bound(n)
    BY <1>2, Fresh
<1>8. Advances(n)
    <2>1. runtime'[n] = NewRuntime(p)
        BY <1>1, <1>2
    <2>2. Elements(<<>>) = {}
        BY SingleOutcome
    <2>3. /\ NewRuntime(p).life = "AttachSent" /\ NewRuntime(p).work = <<>>
          /\ NewRuntime(p).operations = {} /\ NewRuntime(p).settled = {}
          /\ NewRuntime(p).pending = {} /\ NewRuntime(p).tickets = {}
        BY DEF NewRuntime
    <2>. QED  BY <1>7, <2>1, <2>2, <2>3 DEF Advances
<1>9. \A a \in Bindings : Advances(a)
    <2>1. \A a \in Bindings \ {n} : runtime'[a] = runtime[a]
        BY <1>2
    <2>. QED  BY <1>8, <2>1 DEF Advances
<1>10. \A q \in Providers : current'[q] = current[q] \/ ~Bound(current'[q])
    <2>1. \A q \in Providers : current'[q] = current[q] \/ current'[q] = n
        BY <1>1, <1>2
    <2>2. ASSUME NEW q \in Providers, current'[q] = n PROVE ~Bound(current'[q])
        BY <1>7, <2>2
    <2>. QED  BY <2>1, <2>2
<1>11. AdvancesAll
    BY <1>3, <1>6, <1>9, <1>10 DEF AdvancesAll, EngineRests, ProviderOutcomes
<1>. QED  BY <1>11, AdvancesEffects

-----------------------------------------------------------------------------
(* The step is published, and the runtimes move on. *)

\* What the runtime b becomes when it hears of the outcome o: it settles only
\* what nobody waits for.
LEMMA HearsEffects ==
    ASSUME BaseInv, RegistryInv, EffectsInv, NEW o \in ProviderOutcomes, o.binding \in Bindings,
           Bound(o.binding), NEW s,
           s = Concluded(Receipted(runtime[o.binding], o), o.binding, o),
           runtime'[o.binding] = s
    PROVE  Advances(o.binding)
<1> DEFINE b == o.binding
           r == runtime[b]
           q == Receipted(r, o)
<1>1. RuntimeOK(r)
    BY RuntimeKnown
<1>2. Shrinks(r, q) /\ (Receipts(r, q, o) \/ FaultLife(r, q))
    BY <1>1, ReceiptedShrinks
<1>3. Shrinks(r, s)
    BY <1>1, OutcomeRuntime
<1>4. ASSUME NEW a \in q.settled
      PROVE  a \in r.settled \/ (a \in r.operations /\ \A k \in Keys : ~DispatchedUnder(k, a))
    <2>1. CASE FaultLife(r, q)
        BY <1>4, <2>1 DEF FaultLife
    <2>2. CASE Receipts(r, q, o) /\ a \notin r.settled
        <3>1. /\ o.result \in {"Applied", "Ignored"} /\ a \in r.operations
              /\ \E m \in r.pending : m.sequence = o.sequence /\ m.effect.operation = a
            BY <1>4, <2>2 DEF Receipts
        <3>2. PICK m \in r.pending : m.sequence = o.sequence /\ m.effect.operation = a
            BY <3>1
        <3>3. Answered(o)
            BY DEF EffectsInv, AnsweredIsSettled
        <3>. QED  BY <3>1, <3>2, <3>3 DEF Answered
    <2>. QED  BY <1>2, <2>1, <2>2
<1>5. /\ q.life = r.life \/ q.life = "ClosingRetry"
      /\ Serves(q) => Serves(r) /\ q.operations = r.operations /\ q.closing = r.closing
    BY <1>2 DEF Receipts, FaultLife, Serves
<1>. HIDE DEF b, r, q
<1>6. \/ s.life \in {"Closed", "ClosingRetry"} /\ (s.settled = {} \/ s.settled = q.settled)
      \/ q.life = "AttachSent" /\ s.life = "Active" /\ s.settled = q.settled
      \/ s = q
    <2>1. RuntimeOK(q) /\ s = Concluded(q, b, o)
        BY <1>2 DEF Shrinks, b, r, q
    <2>. QED  BY <2>1, ConcludedShrinks
<1>7. s.life # "None"
    <2>1. s.life \in LifeStates
        BY <1>3, RuntimeFields DEF Shrinks
    <2>. QED  BY <2>1 DEF LifeStates
<1>8. \A a \in s.settled : a \in r.settled \/ (a \in r.operations /\ \A k \in Keys : ~DispatchedUnder(k, a))
    BY <1>4, <1>6
<1>9. s.life = "AttachSent" => r.life = "AttachSent"
    BY <1>5, <1>6
<1>10. \/ ~Serves(s) \/ r.life = "AttachSent"
       \/ Serves(r) /\ s.operations = r.operations /\ s.closing = r.closing
    BY <1>5, <1>6 DEF Serves
<1>. QED  BY <1>3, <1>7, <1>8, <1>9, <1>10 DEF Advances, Shrinks, b, r

\* The outcome of a provider item is published.
LEMMA PublishOutcomeEffects ==
    ASSUME BaseInv, RegistryInv, EffectsInv, PublishOutcome
    PROVE  EffectsInv'
<1>1. /\ kernel.pc = "outcomes" /\ ingress' = ingress /\ kernel'.batch = kernel.batch
      /\ UNCHANGED <<vars, lane, binding, via, published, client_vars>>
      /\ kernel'.effects = kernel.effects
    BY PublishOutcomeForm
<1>2. EngineRests /\ UNCHANGED <<published, sending>>
    BY <1>1, EngineAtRest DEF EngineRests, client_vars
<1>3. Channel' = Channel
    BY <1>1, KeepForm, KeepsChannel
<1>4. CASE kernel.provider = <<>> /\ kernel'.provider = <<>> /\ UNCHANGED <<current, runtime>>
    BY <1>1, <1>2, <1>4, PhaseEffects
<1>5. CASE kernel'.pc = "outcomes"
    <2>1. PICK o \in ProviderOutcomeRecord :
             /\ o \in ProviderOutcomes /\ ProviderOutcomes = {o} \cup ProviderOutcomes'
             /\ \/ current[o.provider] # o.binding /\ UNCHANGED <<current, runtime>>
                \/ \E s :
                     /\ current[o.provider] = o.binding
                     /\ s = Concluded(Receipted(runtime[o.binding], o), o.binding, o)
                     /\ runtime' = [runtime EXCEPT ![o.binding] = s]
                     /\ current' = [current EXCEPT ![o.provider] =
                                       IF s.life = "Closed" THEN None ELSE @]
        BY <1>5, PublishOutcomeForm
    <2>2. ProviderOutcomes' \subseteq ProviderOutcomes
        BY <2>1
    <2>3. CASE UNCHANGED <<current, runtime>>
        BY <1>1, <1>2, <1>3, <2>2, <2>3, StillEffects
    <2>4. ASSUME NEW s, s = Concluded(Receipted(runtime[o.binding], o), o.binding, o),
                 runtime' = [runtime EXCEPT ![o.binding] = s],
                 current' = [current EXCEPT ![o.provider] = IF s.life = "Closed" THEN None ELSE @]
          PROVE  EffectsInv'
        <3>1. /\ o.binding \in Bindings /\ Bound(o.binding) /\ o.provider \in Providers
              /\ DOMAIN runtime = Bindings /\ current \in [Providers -> 0 .. MaxSequence]
            BY <2>1 DEF ProviderOutcomeRecord, BaseInv, TypesInv, RuntimeTypes, RegistryTypes,
                        RegistryInv, OutcomesKnown, OutcomeKnown, Belongs
        <3>2. runtime'[o.binding] = s /\ \A a \in Bindings \ {o.binding} : runtime'[a] = runtime[a]
            BY <2>4, <3>1
        <3>3. Advances(o.binding)
            BY <2>1, <2>4, <3>1, <3>2, HearsEffects
        <3>4. \A a \in Bindings : Advances(a)
            BY <3>2, <3>3 DEF Advances
        <3>5. \A p \in Providers : current'[p] \in {current[p], None}
            BY <2>4, <3>1
        <3>6. AdvancesAll
            BY <1>1, <1>2, <1>3, <2>2, <3>4, <3>5 DEF AdvancesAll, EngineRests
        <3>. QED  BY <1>1, <3>6, AdvancesEffects
    <2>. QED  BY <2>1, <2>3, <2>4
<1>. QED  BY <1>4, <1>5, PublishOutcomeForm

\* The registry is reconciled with the kernel: what was settled is forgotten.
LEMMA ReconcileEffects ==
    ASSUME BaseInv, RegistryInv, EffectsInv, Reconcile
    PROVE  EffectsInv'
<1>1. /\ kernel.pc = "reconcile" /\ Cargo' = Cargo /\ ingress' = ingress
      /\ UNCHANGED <<vars, lane, binding, via, published, client_vars>>
      /\ current' = [p \in Providers |-> IF p \in Gone THEN None ELSE current[p]]
    BY ReconcileForm
<1>2. RuntimeTypes /\ kernel.effects = {}
    BY <1>1 DEF BaseInv, TypesInv, PhaseInv
<1>3. /\ kernel'.batch = kernel.batch /\ kernel'.provider = kernel.provider
      /\ kernel'.effects = kernel.effects
    BY <1>1 DEF Cargo
<1>4. EngineRests /\ UNCHANGED <<published, sending>>
    BY <1>1, EngineAtRest DEF EngineRests, client_vars
<1>5. Channel' = Channel /\ ProviderOutcomes' = ProviderOutcomes
    BY <1>1, <1>3, KeepForm, KeepsChannel DEF ProviderOutcomes
<1>6. ASSUME NEW b \in Bindings PROVE Advances(b)
    <2>1. CASE runtime'[b] = runtime[b]
        BY <2>1 DEF Advances
    <2>2. ASSUME NEW p \in Providers, current[p] = b,
                 runtime'[b] = Retired(runtime[b]) \/ runtime'[b] = Settled(runtime[b])
          PROVE  Advances(b)
        <3>1. Bound(b) /\ RuntimeOK(runtime[b])
            BY <1>2, <2>2, BoundRecord, Bounds DEF RuntimeTypes
        <3>2. PICK s : s = runtime'[b]
            OBVIOUS
        <3>3. CASE s = Retired(runtime[b])
            <4>1. Shrinks(runtime[b], s) /\ s.life = "Closed" /\ s.settled = {}
                BY <3>1, <3>3, RetiredShrinks
            <4>. QED  BY <3>1, <3>2, <4>1, ShrinksAdvances DEF Serves
        <3>4. CASE s = Settled(runtime[b])
            <4>1. /\ Shrinks(runtime[b], s) /\ s.life = runtime[b].life /\ s.settled = {}
                  /\ s.closing = runtime[b].closing
                  /\ s.operations = runtime[b].operations \ runtime[b].settled
                BY <3>1, <3>4, SettledShrinks
            <4>2. s.life # "None" /\ (Serves(s) => Serves(runtime[b]))
                BY <3>1, <4>1 DEF Bound, Serves
            <4>. QED  BY <1>2, <3>1, <3>2, <4>1, <4>2 DEF Advances, Shrinks
        <3>. QED  BY <2>2, <3>2, <3>3, <3>4
    <2>. QED  BY <2>1, <2>2, ReconcileForm DEF Gone
<1>7. \A p \in Providers : current'[p] \in {current[p], None}
    BY <1>1
<1>8. AdvancesAll
    BY <1>3, <1>4, <1>5, <1>6, <1>7 DEF AdvancesAll, EngineRests
<1>. QED  BY <1>1, <1>8, AdvancesEffects

-----------------------------------------------------------------------------
(* The effects leave the engine. *)

\* Nothing that the invariant speaks of changes.
LEMMA SameEffects ==
    ASSUME EffectsInv, EngineRests, kernel'.effects = kernel.effects,
           UNCHANGED <<runtime, current, published, sending>>,
           Channel' = Channel, ProviderOutcomes' = ProviderOutcomes
    PROVE  EffectsInv'
<1>1. UNCHANGED <<requests, effects, delivered, via, binding, lane>>
    BY DEF EngineRests
<1>2. SentToReady' /\ OpenIsBound'
    BY <1>1 DEF EffectsInv, SentToReady, OpenIsBound, Ready, Belongs, Bound, Active
<1>3. HandedToReady'
    BY <1>1 DEF EffectsInv, HandedToReady, SentVia, WorkOf, Ready, Belongs, Bound
<1>4. OperationsKnown'
    BY <1>1 DEF EffectsInv, OperationsKnown, Invoked, Publishing, InService, Reaches, Serves, Bound
<1>5. AnsweredIsSettled' /\ AnswersKnown'
    BY <1>1 DEF EffectsInv, AnsweredIsSettled, Answered, DispatchedUnder, AnswersKnown, AnswerKnown, Bound
<1>. QED  BY <1>2, <1>3, <1>4, <1>5 DEF EffectsInv

\* The engine hands its effects out: each has the runtime of its request, none
\* was handed out before, and no runtime knows the operation of a new Invoke.
LEMMA HandsOut ==
    ASSUME BaseInv, EffectsInv, lane, kernel.effects = {},
           delivered' = delivered \cup effects, effects' = {},
           UNCHANGED <<requests, via, binding, lane, runtime, current, published, sending>>,
           Channel' = Channel, ProviderOutcomes' = ProviderOutcomes,
           kernel'.effects = {[effect |-> e, binding |-> binding[e.provider]] : e \in effects}
    PROVE  EffectsInv'
<1>1. ASSUME NEW x \in kernel'.effects
      PROVE  x.effect \in effects /\ x.binding = binding[x.effect.provider]
    BY <1>1
<1>2. \A b, p : Ready(b, p)' <=> Ready(b, p)
    BY DEF Ready, Belongs, Bound
<1>3. SentToReady' /\ OpenIsBound'
    BY DEF EffectsInv, SentToReady, OpenIsBound, Ready, Belongs, Bound, Active
<1>4. HandedToReady'
    <2>1. ASSUME NEW e, NEW b, SentVia(e, b) PROVE SentVia(e, b)'
        BY <2>1 DEF SentVia
    <2>2. ASSUME NEW x \in kernel'.effects
          PROVE  /\ x.binding = binding'[x.effect.provider] /\ Ready(x.binding, x.effect.provider)'
                 /\ SentVia(x.effect, x.binding)'
        <3>1. PICK e : e = x.effect
            OBVIOUS
        <3>2. e \in effects /\ x.binding = binding[e.provider]
            BY <1>1, <2>2, <3>1
        <3>3. Ready(x.binding, e.provider)
            BY <3>2 DEF EffectsInv, OpenIsBound
        <3>4. ASSUME e.kind = "Invoke" PROVE via[e.key] = x.binding
            <4>1. /\ requests[e.key].status = "Dispatched" /\ e.key \in Keys
                  /\ e = EffectOf("Invoke", e.key, requests[e.key], "Present")
                BY <3>2, <3>4, EngineTypes DEF BaseInv, EngineInv, IndInv, InvokeMatches, EffectEnvelope
            <4>2. e.provider = requests[e.key].provider
                BY <4>1 DEF EffectOf
            <4>3. via[e.key] = binding[requests[e.key].provider]
                BY <4>1 DEF EffectsInv, OpenIsBound, Active, ActiveStatuses
            <4>. QED  BY <3>2, <4>2, <4>3
        <3>5. SentVia(e, x.binding)'
            BY <3>2, <3>4 DEF SentVia
        <3>. QED  BY <1>2, <3>1, <3>2, <3>3, <3>5
    <2>. QED  BY <2>1, <2>2 DEF EffectsInv, HandedToReady, WorkOf, Bound
<1>5. OperationsKnown'
    <2>1. ASSUME NEW b \in Bindings, Bound(b), NEW o \in runtime[b].operations \cup runtime[b].settled
          PROVE  Invoked(o)' /\ ~Publishing("Invoke", o)'
        <3>1. Invoked(o)
            BY <2>1 DEF EffectsInv, OperationsKnown
        <3>2. PICK f \in delivered : f.kind = "Invoke" /\ f.operation = o
            BY <3>1 DEF Invoked
        <3>3. ASSUME NEW x \in kernel'.effects, x.effect.kind = "Invoke", x.effect.operation = o
              PROVE  FALSE
            BY <1>1, <3>2, <3>3 DEF BaseInv, EngineInv, IndInv, NotYetDelivered
        <3>. QED  BY <3>2, <3>3 DEF Invoked, Publishing
    <2>2. ASSUME NEW k \in Keys, requests[k].status = "Dispatched",
                 Invoked(requests[k].operation)', ~Publishing("Invoke", requests[k].operation)',
                 InService(via[k], requests[k].provider)'
          PROVE  requests[k].operation \in runtime[via[k]].operations \ runtime[via[k]].settled
        <3>1. PICK o : o = requests[k].operation
            OBVIOUS
        <3>2. PICK f \in delivered' : f.kind = "Invoke" /\ f.operation = o
            BY <2>2, <3>1 DEF Invoked
        <3>3. f \notin effects
            <4>1. SUFFICES ASSUME f \in effects PROVE FALSE
                OBVIOUS
            <4> DEFINE x == [effect |-> f, binding |-> binding[f.provider]]
            <4>2. x \in kernel'.effects /\ x.effect = f
                BY <4>1
            <4>. HIDE DEF x
            <4>. QED  BY <2>2, <3>1, <3>2, <4>2 DEF Publishing
        <3>4. Invoked(o) /\ ~Publishing("Invoke", o)
            BY <3>2, <3>3 DEF Invoked, Publishing
        <3>5. InService(via[k], requests[k].provider)
            BY <2>2 DEF InService, Reaches, Serves
        <3>. QED  BY <2>2, <3>1, <3>4, <3>5 DEF EffectsInv, OperationsKnown
    <2>3. ASSUME NEW x \in kernel'.effects, x.effect.kind = "Cancel", InService(x.binding, x.effect.provider)
          PROVE  x.effect.operation \in runtime[x.binding].operations
        BY <1>1, <2>3 DEF EffectsInv, OperationsKnown
    <2>. QED  BY <2>1, <2>2, <2>3 DEF OperationsKnown, Bound, InService, Reaches, Serves
<1>6. AnsweredIsSettled' /\ AnswersKnown'
    BY DEF EffectsInv, AnsweredIsSettled, Answered, DispatchedUnder, AnswersKnown, AnswerKnown, Bound
<1>. QED  BY <1>3, <1>4, <1>5, <1>6 DEF EffectsInv

\* The effects are drained.
LEMMA DrainEffectsEffects ==
    ASSUME BaseInv, EffectsInv, DrainEffects
    PROVE  EffectsInv'
<1>1. kernel \in KernelState /\ kernel.pc = "reduce"
    BY DEF BaseInv, TypesInv, ChannelTypes, DrainEffects, Phase
<1>2. kernel.effects = {}
    BY <1>1 DEF BaseInv, PhaseInv
<1>3. /\ UNCHANGED <<ingress, lane, binding, via, runtime, current, published, sending>>
      /\ (lane /\ drain_effects) \/ (~(lane /\ effects # {}) /\ UNCHANGED vars)
    BY DEF DrainEffects, Outside, registry_vars, client_vars, NoEngine
<1>4. ~ \E e \in effects : binding[e.provider] = None
    BY Bounds DEF EffectsInv, OpenIsBound, Ready, Belongs
<1>5. /\ kernel'.batch = kernel.batch /\ kernel'.provider = kernel.provider
      /\ kernel'.effects = IF lane THEN {[effect |-> e, binding |-> binding[e.provider]] : e \in effects}
                           ELSE {}
    BY <1>1, <1>4 DEF DrainEffects, KernelState
<1>6. Channel' = Channel /\ ProviderOutcomes' = ProviderOutcomes
    BY <1>3, <1>5, KeepForm, KeepsChannel DEF ProviderOutcomes
<1>7. CASE lane /\ drain_effects
    <2>1. /\ delivered' = delivered \cup effects /\ effects' = {} /\ requests' = requests
        BY <1>7 DEF drain_effects
    <2>. QED  BY <1>2, <1>3, <1>5, <1>6, <1>7, <2>1, HandsOut
<1>8. CASE ~(lane /\ effects # {}) /\ UNCHANGED vars
    <2>1. EngineRests
        BY <1>3, <1>8, EngineAtRest DEF EngineRests
    <2>2. kernel'.effects = kernel.effects
        BY <1>2, <1>5, <1>8
    <2>. QED  BY <1>3, <1>6, <2>1, <2>2, SameEffects
<1>. QED  BY <1>3, <1>7, <1>8

-----------------------------------------------------------------------------
(* The effects reach their runtimes. *)

\* The effect of x leaves the kernel; its runtime runs it if it can.
Hands(x) ==
    LET e == x.effect
        r == runtime[x.binding]
        s == runtime'[x.binding]
    IN  /\ x \in kernel.effects /\ kernel'.effects = kernel.effects \ {x}
        /\ \A a \in Bindings \ {x.binding} : runtime'[a] = runtime[a]
        /\ s.life # "None" /\ s.provider = r.provider
        /\ s.life = "AttachSent" => r.life = "AttachSent"
        /\ s.tickets = r.tickets /\ s.pending \subseteq r.pending /\ s.settled \subseteq r.settled
        /\ Elements(s.work) \subseteq Elements(r.work) \cup {e}
        /\ \A o \in s.operations : o \in r.operations \/ (e.kind = "Invoke" /\ o = e.operation)
        /\ current[e.provider] = x.binding /\ Serves(s) =>
              /\ Serves(r) /\ s.closing = r.closing
              /\ e.kind = "Invoke" => s.operations = r.operations \cup {e.operation}
              /\ e.kind # "Invoke" => s.operations = r.operations \ {e.operation}

\* Two effects on their way with the same kind and operation are the same.
LEMMA HandedOnce ==
    ASSUME BaseInv, EffectsInv, NEW x \in kernel.effects, NEW y \in kernel.effects,
           x.effect.kind = y.effect.kind, x.effect.operation = y.effect.operation
    PROVE  x = y
<1>1. x.effect \in delivered /\ y.effect \in delivered
    BY DEF EffectsInv, HandedToReady, SentVia
<1>2. x.effect = y.effect
    BY <1>1 DEF BaseInv, EngineInv, HistoryInv, InvokedOnce
<1>3. x.binding = y.binding
    BY <1>2 DEF EffectsInv, HandedToReady
<1>4. /\ x = [effect |-> x.effect, binding |-> x.binding]
      /\ y = [effect |-> y.effect, binding |-> y.binding]
    <2>1. kernel \in KernelState
        BY DEF BaseInv, TypesInv, ChannelTypes
    <2>2. kernel.effects \subseteq [effect : EffectEnvelope, binding : Bindings]
        BY <2>1 DEF KernelState
    <2>. QED  BY <2>2
<1>. QED  BY <1>2, <1>3, <1>4

\* The request that is dispatched under the operation of an effect on its way
\* was sent to the runtime that the effect goes to.
LEMMA HandedToItsRequest ==
    ASSUME BaseInv, EffectsInv, NEW x \in kernel.effects, NEW k \in Keys,
           DispatchedUnder(k, x.effect.operation)
    PROVE  /\ x.effect.kind = "Invoke"
           /\ via[k] = x.binding /\ requests[k].provider = x.effect.provider
<1> DEFINE e == x.effect
<1>1. /\ e \in delivered /\ e.kind \in {"Invoke", "Cancel"} /\ SentVia(e, x.binding)
      /\ Ready(x.binding, e.provider)
    <2>1. SentVia(e, x.binding) /\ Ready(x.binding, e.provider)
        BY DEF EffectsInv, HandedToReady
    <2>2. e \in EffectEnvelope
        BY <2>1, EngineTypes DEF SentVia, BaseInv
    <2>. QED  BY <2>1, <2>2 DEF SentVia, EffectEnvelope
<1>2. requests[k].status = "Dispatched" /\ requests[k].operation = e.operation
    BY DEF DispatchedUnder
<1>3. k \in Stored
    BY <1>2 DEF Stored
<1>4. e.key = k
    BY <1>1, <1>2, <1>3 DEF BaseInv, EngineInv, HistoryInv, OperationsDistinct
<1>5. e.kind = "Invoke"
    BY <1>1, <1>2, <1>4 DEF BaseInv, EngineInv, HistoryInv, CancelFollowsInvoke
<1>6. via[k] = x.binding
    BY <1>1, <1>2, <1>4, <1>5 DEF SentVia
<1>7. Ready(via[k], requests[k].provider)
    BY <1>2 DEF EffectsInv, OpenIsBound, Active, ActiveStatuses
<1>. QED  BY <1>1, <1>5, <1>6, <1>7 DEF Ready, Belongs

\* The operations stay known when an effect is handed to its runtime.
LEMMA HandsOperations ==
    ASSUME BaseInv, EffectsInv, EngineRests, current' = current, effects = {} \/ ~lane,
           NEW x, Hands(x)
    PROVE  OperationsKnown'
<1> DEFINE e == x.effect
           b == x.binding
<1>1. /\ x \in kernel.effects /\ kernel'.effects = kernel.effects \ {x}
      /\ \A a \in Bindings \ {b} : runtime'[a] = runtime[a]
    BY DEF Hands
<1>2. Ready(b, e.provider) /\ SentVia(e, b) /\ b \in Bindings /\ Bound(b)
    BY <1>1 DEF EffectsInv, HandedToReady, Ready, Belongs
<1>3. /\ \A o : Invoked(o)' <=> Invoked(o)
      /\ \A kind, o : Publishing(kind, o)' => Publishing(kind, o)
    BY <1>1 DEF EngineRests, Invoked, Publishing
<1>4. UNCHANGED <<requests, via, lane, effects>>
    BY DEF EngineRests
<1>5. ASSUME NEW a \in Bindings, Bound(a)',
             NEW o \in runtime'[a].operations \cup runtime'[a].settled
      PROVE  Invoked(o)' /\ ~Publishing("Invoke", o)'
    <2>1. CASE Bound(a) /\ o \in runtime[a].operations \cup runtime[a].settled
        <3>1. Invoked(o) /\ ~Publishing("Invoke", o)
            BY <2>1 DEF EffectsInv, OperationsKnown
        <3>. QED  BY <1>3, <3>1
    <2>2. CASE a = b /\ e.kind = "Invoke" /\ o = e.operation
        <3>1. Invoked(o)
            BY <1>2, <2>2 DEF SentVia, Invoked
        <3>2. ASSUME NEW y \in kernel'.effects, y.effect.kind = "Invoke", y.effect.operation = o
              PROVE  FALSE
            BY <1>1, <2>2, <3>2, HandedOnce
        <3>3. ~Publishing("Invoke", o)'
            BY <3>2 DEF Publishing
        <3>. QED  BY <1>3, <3>1, <3>3
    <2>3. \/ Bound(a) /\ o \in runtime[a].operations \cup runtime[a].settled
          \/ a = b /\ e.kind = "Invoke" /\ o = e.operation
        <3>1. CASE a # b
            BY <1>1, <1>5, <3>1 DEF Bound
        <3>2. CASE a = b
            BY <1>2, <1>5, <3>2 DEF Hands
        <3>. QED  BY <3>1, <3>2
    <2>. QED  BY <2>1, <2>2, <2>3
<1>6. ASSUME NEW k \in Keys, NEW q, q = requests[k], NEW a, a = via[k], q.status = "Dispatched",
             Invoked(q.operation)', ~Publishing("Invoke", q.operation)', InService(a, q.provider)'
      PROVE  q.operation \in runtime'[a].operations \ runtime'[a].settled
    <2>1. Ready(a, q.provider) /\ a \in Bindings
        BY <1>6 DEF EffectsInv, OpenIsBound, Active, ActiveStatuses, Ready, Belongs
    <2>2. current[q.provider] = a /\ Serves(runtime'[a]) /\ ~runtime'[a].closing
        BY <1>6 DEF InService, Reaches, Serves
    <2>3. a = b => q.provider = e.provider
        BY <1>2, <2>1 DEF Ready, Belongs
    <2>4. a = b => /\ Serves(runtime[b]) /\ ~runtime[b].closing
                   /\ runtime'[b].settled \subseteq runtime[b].settled
                   /\ e.kind = "Invoke" => runtime'[b].operations = runtime[b].operations \cup {e.operation}
                   /\ e.kind # "Invoke" => runtime'[b].operations = runtime[b].operations \ {e.operation}
        BY <2>2, <2>3 DEF Hands
    <2>5. InService(a, q.provider)
        BY <1>1, <2>1, <2>2, <2>4 DEF InService, Reaches
    <2>6. CASE q.operation = e.operation
        <3>1. DispatchedUnder(k, e.operation)
            BY <1>6, <2>6 DEF DispatchedUnder
        <3>2. e.kind = "Invoke" /\ a = b
            BY <1>1, <1>6, <3>1, HandedToItsRequest
        <3>3. Publishing("Invoke", q.operation)
            BY <1>1, <2>6, <3>2 DEF Publishing
        <3>4. q.operation \notin runtime[b].settled
            BY <1>2, <3>3 DEF EffectsInv, OperationsKnown
        <3>. QED  BY <2>4, <2>6, <3>2, <3>4
    <2>7. CASE q.operation # e.operation
        <3>1. Invoked(q.operation)
            BY <1>3, <1>6
        <3>2. ~Publishing("Invoke", q.operation)
            <4>1. ASSUME NEW y \in kernel.effects, y.effect.kind = "Invoke",
                         y.effect.operation = q.operation
                  PROVE  y \in kernel'.effects
                BY <1>1, <2>7, <4>1
            <4>. QED  BY <1>6, <4>1 DEF Publishing
        <3>3. q.operation \in runtime[a].operations \ runtime[a].settled
            BY <1>6, <2>5, <3>1, <3>2 DEF EffectsInv, OperationsKnown
        <3>. QED  BY <1>1, <2>1, <2>4, <2>7, <3>3
    <2>. QED  BY <2>6, <2>7
<1>7. ASSUME NEW y \in kernel'.effects, y.effect.kind = "Cancel",
             InService(y.binding, y.effect.provider)'
      PROVE  y.effect.operation \in runtime'[y.binding].operations
    <2>1. y \in kernel.effects /\ y # x
        BY <1>1, <1>7
    <2>2. Ready(y.binding, y.effect.provider) /\ y.binding \in Bindings
        BY <2>1 DEF EffectsInv, HandedToReady, Ready, Belongs
    <2>3. /\ current[y.effect.provider] = y.binding /\ Serves(runtime'[y.binding])
          /\ ~runtime'[y.binding].closing
        BY <1>7 DEF InService, Reaches, Serves
    <2>4. CASE y.binding # b
        <3>1. InService(y.binding, y.effect.provider)
            BY <1>1, <2>2, <2>3, <2>4 DEF InService, Reaches
        <3>. QED  BY <1>1, <1>7, <2>1, <2>2, <2>4, <3>1 DEF EffectsInv, OperationsKnown
    <2>5. CASE y.binding = b
        <3>1. y.effect.provider = e.provider
            BY <1>2, <2>2, <2>5 DEF Ready, Belongs
        <3>2. /\ Serves(runtime[b]) /\ ~runtime[b].closing
              /\ e.kind = "Invoke" => runtime'[b].operations = runtime[b].operations \cup {e.operation}
              /\ e.kind # "Invoke" => runtime'[b].operations = runtime[b].operations \ {e.operation}
            BY <2>3, <2>5, <3>1 DEF Hands
        <3>3. y.effect.operation \in runtime[b].operations
            BY <1>7, <2>1, <2>3, <2>5, <3>2 DEF InService, Reaches, EffectsInv, OperationsKnown
        <3>4. e.kind # "Invoke" => e.kind = "Cancel"
            BY <1>2, EngineTypes DEF SentVia, BaseInv, EffectEnvelope
        <3>5. e.kind # "Invoke" => y.effect.operation # e.operation
            BY <1>1, <1>7, <2>1, <3>4, HandedOnce
        <3>. QED  BY <2>5, <3>2, <3>3, <3>5
    <2>. QED  BY <2>4, <2>5
<1>. QED  BY <1>4, <1>5, <1>6, <1>7 DEF OperationsKnown

\* An effect is handed to its runtime.
LEMMA HandsEffects ==
    ASSUME BaseInv, RegistryInv, EffectsInv, EngineRests, effects = {} \/ ~lane,
           UNCHANGED <<current, published, sending>>,
           Channel' = Channel, ProviderOutcomes' = ProviderOutcomes, NEW x, Hands(x)
    PROVE  EffectsInv'
<1> DEFINE e == x.effect
           b == x.binding
<1>1. /\ x \in kernel.effects /\ kernel'.effects = kernel.effects \ {x}
      /\ \A a \in Bindings \ {b} : runtime'[a] = runtime[a]
    BY DEF Hands
<1>2. Ready(b, e.provider) /\ SentVia(e, b) /\ b \in Bindings /\ Bound(b)
    BY <1>1 DEF EffectsInv, HandedToReady, Ready, Belongs
<1>3. UNCHANGED <<requests, effects, delivered, via, binding>>
    BY DEF EngineRests
<1>4. ASSUME NEW a, NEW p, Ready(a, p)
      PROVE  /\ a \in Bindings /\ Bound(a) /\ runtime'[a].life \notin {"None", "AttachSent"}
             /\ runtime'[a].provider = p
    BY <1>1, <1>4 DEF Hands, Ready, Belongs, Bound
<1>5. SentToReady' /\ OpenIsBound'
    BY <1>3, <1>4 DEF EffectsInv, SentToReady, OpenIsBound, Ready, Belongs, Bound, Active
<1>6. \A f, a : SentVia(f, a)' <=> SentVia(f, a)
    BY <1>3 DEF SentVia
<1>7. HandedToReady'
    <2>1. ASSUME NEW y \in kernel'.effects
          PROVE  /\ y.binding = binding'[y.effect.provider] /\ Ready(y.binding, y.effect.provider)'
                 /\ SentVia(y.effect, y.binding)'
        <3>1. /\ y.binding = binding[y.effect.provider] /\ Ready(y.binding, y.effect.provider)
              /\ SentVia(y.effect, y.binding)
            BY <1>1, <2>1 DEF EffectsInv, HandedToReady
        <3>. QED  BY <1>3, <1>4, <1>6, <3>1 DEF Ready, Belongs, Bound
    <2>2. ASSUME NEW a \in Bindings, Bound(a)'
          PROVE  /\ \A f \in WorkOf(a)' \cup runtime'[a].tickets :
                       SentVia(f, a) /\ f.provider = runtime'[a].provider
                 /\ \A f \in runtime'[a].tickets : f.kind = "Invoke"
        <3>1. CASE a # b
            BY <1>1, <2>2, <3>1 DEF EffectsInv, HandedToReady, WorkOf, Bound
        <3>2. CASE a = b
            <4>1. /\ runtime'[b].tickets = runtime[b].tickets
                  /\ runtime'[b].provider = runtime[b].provider
                  /\ WorkOf(b)' \subseteq WorkOf(b) \cup {e}
                BY DEF Hands, WorkOf
            <4>2. /\ \A f \in WorkOf(b) \cup runtime[b].tickets :
                        SentVia(f, b) /\ f.provider = runtime[b].provider
                  /\ \A f \in runtime[b].tickets : f.kind = "Invoke"
                BY <1>2 DEF EffectsInv, HandedToReady
            <4>3. e.provider = runtime[b].provider
                BY <1>2 DEF Ready, Belongs
            <4>. QED  BY <1>2, <3>2, <4>1, <4>2, <4>3
        <3>. QED  BY <3>1, <3>2
    <2>. QED  BY <1>6, <2>1, <2>2 DEF HandedToReady
<1>8. OperationsKnown'
    BY HandsOperations
<1>9. \A a \in Bindings : runtime'[a].pending \subseteq runtime[a].pending
    BY <1>1 DEF Hands
<1>10. AnsweredIsSettled'
    <2>. SUFFICES ASSUME NEW o \in ProviderOutcomes', o.result \in {"Applied", "Ignored"},
                         NEW m \in runtime'[o.binding].pending, m.sequence = o.sequence,
                         NEW k \in Keys, DispatchedUnder(k, m.effect.operation)'
                  PROVE  FALSE
        BY DEF AnsweredIsSettled, Answered
    <2>1. Answered(o) /\ o.binding \in Bindings
        BY DEF EffectsInv, AnsweredIsSettled, RegistryInv, OutcomesKnown, OutcomeKnown, Belongs
    <2>2. DispatchedUnder(k, m.effect.operation)
        BY <1>3 DEF DispatchedUnder
    <2>. QED  BY <1>9, <2>1, <2>2 DEF Answered
<1>11. AnswersKnown'
    <2>1. ASSUME NEW a \in Bindings, Bound(a)', NEW m \in runtime'[a].pending
          PROVE  m.effect \in delivered
        <3>1. Bound(a) /\ m \in runtime[a].pending
            BY <1>1, <1>2, <1>9, <2>1 DEF Bound
        <3>. QED  BY <3>1 DEF EffectsInv, AnswersKnown
    <2>2. ASSUME NEW z \in Channel', z.kind = "Observe" PROVE AnswerKnown(z)'
        <3>1. AnswerKnown(z) /\ OfProvider(z) /\ z \in Channel
            BY <2>2 DEF EffectsInv, AnswersKnown, OfProvider, ProviderKinds
        <3>2. z.binding \in Bindings
            BY <3>1 DEF RegistryInv, ItemsKnown, ItemKnown, Belongs
        <3>. QED  BY <1>3, <1>9, <3>1, <3>2 DEF AnswerKnown
    <2>. QED  BY <1>3, <2>1, <2>2 DEF AnswersKnown
<1>. QED  BY <1>5, <1>7, <1>8, <1>10, <1>11 DEF EffectsInv

\* An effect is published.
LEMMA PublishEffectEffects ==
    ASSUME BaseInv, RegistryInv, EffectsInv, PublishEffect
    PROVE  EffectsInv'
<1>1. /\ kernel.pc = "effects" /\ ingress' = ingress /\ kernel'.batch = kernel.batch
      /\ UNCHANGED <<vars, lane, binding, via, registry_vars, published, client_vars>>
      /\ kernel'.provider = kernel.provider
    BY PublishEffectForm
<1>2. EngineRests /\ UNCHANGED <<current, published, sending>>
    BY <1>1, EngineAtRest DEF EngineRests, client_vars, registry_vars
<1>3. Channel' = Channel /\ ProviderOutcomes' = ProviderOutcomes
    BY <1>1, KeepForm, KeepsChannel DEF ProviderOutcomes
<1>4. effects = {} \/ ~lane
    BY <1>1 DEF BaseInv, PhaseInv
<1>5. CASE kernel.effects = {} /\ kernel'.effects = {} /\ UNCHANGED runtime
    BY <1>1, <1>2, <1>5, PhaseEffects
<1>6. ASSUME NEW x \in kernel.effects, kernel'.effects = kernel.effects \ {x},
             ~Reaches(x.binding, x.effect.provider), UNCHANGED runtime
      PROVE  EffectsInv'
    <2>1. Bound(x.binding)
        BY DEF EffectsInv, HandedToReady, Ready, Belongs
    <2>2. Hands(x)
        BY <1>6, <2>1 DEF Hands, Bound, Reaches
    <2>. QED  BY <1>2, <1>3, <1>4, <2>2, HandsEffects
<1>7. ASSUME NEW x \in kernel.effects, kernel'.effects = kernel.effects \ {x},
             x.effect \in EffectEnvelope, x.binding \in Bindings,
             Reaches(x.binding, x.effect.provider), Bound(x.binding),
             runtime' = [runtime EXCEPT ![x.binding] = Delivered(runtime[x.binding], x.effect)]
      PROVE  EffectsInv'
    <2>1. RuntimeOK(runtime[x.binding]) /\ DOMAIN runtime = Bindings /\ Serves(runtime[x.binding])
        BY <1>7, RuntimeKnown DEF BaseInv, TypesInv, RuntimeTypes, Reaches
    <2>2. PICK r : r = runtime[x.binding]
        OBVIOUS
    <2>3. PICK s : s = Delivered(r, x.effect)
        OBVIOUS
    <2>4. runtime'[x.binding] = s /\ \A a \in Bindings \ {x.binding} : runtime'[a] = runtime[a]
        BY <1>7, <2>1, <2>2, <2>3
    <2>5. \/ /\ s.life = r.life /\ s.provider = r.provider /\ s.closing = r.closing
             /\ s.tickets = r.tickets /\ s.pending = r.pending /\ s.settled = r.settled
             /\ Elements(s.work) = Elements(r.work) \cup {x.effect}
             /\ IF x.effect.kind = "Invoke"
                THEN s.operations = r.operations \cup {x.effect.operation}
                ELSE s.operations = r.operations \ {x.effect.operation}
          \/ /\ Shrinks(r, s) /\ s.life = "ClosingRetry" /\ s.operations = {} /\ s.settled = {}
        BY <1>7, <2>1, <2>2, <2>3, DeliveredForm
    <2>6. r.life \in {"Active", "Quiescing"}
        BY <2>1, <2>2 DEF Serves
    <2>7. Hands(x)
        <3>1. CASE Shrinks(r, s) /\ s.life = "ClosingRetry" /\ s.operations = {} /\ s.settled = {}
            BY <1>7, <2>2, <2>4, <2>6, <3>1 DEF Hands, Shrinks, Serves
        <3>2. CASE s.life = r.life
            BY <1>7, <2>2, <2>4, <2>5, <2>6, <3>2 DEF Hands, Shrinks, Serves
        <3>. QED  BY <2>5, <3>1, <3>2
    <2>. QED  BY <1>2, <1>3, <1>4, <2>7, HandsEffects
<1>. QED  BY <1>5, <1>6, <1>7, PublishEffectForm

-----------------------------------------------------------------------------
(* Effects reach the runtimes that their requests were sent to. *)

\* Nothing is open, handed out or bound at the start.
LEMMA PlaneInitEffects == PlaneInit => EffectsInv
<1>. SUFFICES ASSUME PlaneInit PROVE EffectsInv
    OBVIOUS
<1>1. /\ ingress = <<>> /\ kernel = Resting /\ effects = {}
      /\ requests = [k \in Keys |-> Vacant]
      /\ runtime = [b \in Bindings |-> Unbound]
      /\ published = [p \in Providers |-> None]
      /\ sending = [c \in Clients |-> NotSending]
    BY DEF PlaneInit
<1>2. kernel.batch = <<>> /\ kernel.provider = <<>> /\ kernel.effects = {}
    BY <1>1 DEF Resting
<1>3. Channel = {} /\ ProviderOutcomes = {}
    <2>1. <<>> \o <<>> = <<>>
        BY ConcatEmpty
    <2>2. Elements(<<>>) = {}
        BY SingleOutcome
    <2>. QED  BY <1>1, <1>2, <2>1, <2>2 DEF Channel, InChannel, ProviderOutcomes
<1>4. \A b \in Bindings : ~Bound(b)
    BY <1>1 DEF Bound, Unbound
<1>5. \A k \in Keys : requests[k].status = "Vacant" /\ ~Active(k)
    BY <1>1 DEF Vacant, Active, ActiveStatuses
<1>6. SentToReady /\ OpenIsBound /\ AnsweredIsSettled /\ AnswersKnown
    BY <1>1, <1>3, <1>4, <1>5 DEF SentToReady, OpenIsBound, AnsweredIsSettled, AnswersKnown
<1>7. HandedToReady /\ OperationsKnown
    BY <1>1, <1>2, <1>4, <1>5 DEF HandedToReady, OperationsKnown
<1>. QED  BY <1>6, <1>7 DEF EffectsInv

\* Every step of the threads keeps the invariant.
LEMMA PlaneNextEffects ==
    BaseInv /\ RegistryInv /\ EffectsInv /\ [PlaneNext]_plane_vars => EffectsInv'
<1>. SUFFICES ASSUME BaseInv, RegistryInv, EffectsInv, [PlaneNext]_plane_vars PROVE EffectsInv'
    OBVIOUS
<1>1. CASE UNCHANGED plane_vars
    <2>1. /\ UNCHANGED <<vars, lane, binding, via>> /\ ingress' = ingress /\ kernel' = kernel
          /\ UNCHANGED <<runtime, current, published, sending>>
        BY <1>1 DEF plane_vars, kernel_vars, registry_vars, client_vars
    <2>2. EngineRests
        BY <2>1, EngineAtRest DEF EngineRests
    <2>3. Channel' = Channel /\ ProviderOutcomes' = ProviderOutcomes
        BY <2>1, KeepForm, KeepsChannel DEF ProviderOutcomes
    <2>. QED  BY <2>1, <2>2, <2>3, SameEffects
<1>2. CASE EdgeNext
    <2>. kernel.pc # "reduce"
        BY <1>2 DEF EdgeNext, Between
    <2>1. CASE \/ \E k \in Keys, pk \in PolicyKeys, d \in Deadlines : Dispatch(k, pk, d)
               \/ \E c \in Clients : DispatchSend(c) \/ CloseClient(c)
               \/ \E k \in Keys, n \in Sequences : DispatchApproval(k, n)
               \/ \E i \in Instances : DispatchControl(i)
        BY <2>1, ClientActionsEffects
    <2>2. ASSUME NEW p \in Providers, bind_provider(p) PROVE EffectsInv'
        BY <2>2, BindEffects
    <2>3. ASSUME NEW b \in Bindings, \/ BeginClose(b) \/ CloseRuntime(b) \/ begin_quiesce(b)
                                     \/ try_recv(b) \/ try_recv_observation_outcome(b)
          PROVE  EffectsInv'
        BY <2>3, RuntimeActionsEffects
    <2>4. ASSUME NEW b \in Bindings, NEW e \in delivered, try_complete(b, e) PROVE EffectsInv'
        BY <2>4, CompleteEffects
    <2>. QED  BY <1>2, <2>1, <2>2, <2>3, <2>4 DEF EdgeNext
<1>3. CASE KernelNext
    <2>1. CASE \/ BeginStep \/ DrainCompletions \/ PublishAuthority \/ PublishCompletions
               \/ FinalizeCloses
        BY <2>1, QuietPhasesEffects
    <2>2. CASE DrainIngress \/ DrainEffects \/ PublishEdge
        BY <2>2, DrainIngressEffects, DrainEffectsEffects, PublishEdgeEffects
    <2>3. ASSUME NEW b \in Bindings, FlushBinding(b) PROVE EffectsInv'
        BY <2>3, FlushEffects
    <2>4. CASE ReduceControl \/ ReduceRequest \/ ReduceClose \/ ReduceApproval
        BY <2>4, ReduceControlEffects, ReduceRequestEffects, ReduceCloseEffects,
           ReduceApprovalEffects
    <2>5. CASE ReduceProvider \/ RejectItem
        BY <2>5, ReduceProviderEffects, RejectItemEffects
    <2>6. ASSUME NEW p \in Providers, RetireExhausted(p) PROVE EffectsInv'
        BY <2>6, RetireExhaustedEffects
    <2>7. CASE PublishOutcome \/ PublishEffect \/ Reconcile
        BY <2>7, PublishOutcomeEffects, PublishEffectEffects, ReconcileEffects
    <2>. QED  BY <1>3, <2>1, <2>2, <2>3, <2>4, <2>5, <2>6, <2>7 DEF KernelNext
<1>. QED  BY <1>1, <1>2, <1>3 DEF PlaneNext

\* An open request has the runtime of the moment, what was handed out is with
\* the runtime that its request was sent to, and a runtime that serves and whose
\* handle is not inside request_close knows what it runs until it has answered
\* or is told to cancel, in every reachable state (drain_bound_tool_effects,
\* publish_effect, publish_observation_outcome, cancel_all_operations).
THEOREM EffectsInvariance == PlaneSpec => [](BaseInv /\ RegistryInv /\ EffectsInv)
<1>1. PlaneInit => BaseInv /\ RegistryInv /\ EffectsInv
    BY PlaneInitBase, PlaneInitRegistry, PlaneInitEffects
<1>2. BaseInv /\ RegistryInv /\ EffectsInv /\ [PlaneNext]_plane_vars
        => BaseInv' /\ RegistryInv' /\ EffectsInv'
    BY PlaneNextBase, PlaneNextRegistry, PlaneNextEffects
<1>. QED  BY <1>1, <1>2, PTL DEF PlaneSpec

\* Every effect that leaves the engine has a bound runtime, and one that serves
\* never meets an Invoke that it knows, nor a Cancel that it does not unless its
\* handle is inside request_close: no effect is lost with its batch, and none
\* faults, as a misfit, a runtime that is not about to close
\* (drain_bound_tool_effects, publish_effect, request_close).
THEOREM EffectsAreDeliverable == PlaneSpec => []EffectsDeliverable
<1>1. BaseInv /\ RegistryInv /\ EffectsInv => EffectsDeliverable
    BY EffectsInvSuffices
<1>. QED  BY <1>1, EffectsInvariance, PTL

\* What a provider runtime runs, or waits to run, was sent to that very
\* runtime by the client: a request never moves to a later binding of its
\* provider (dispatch, reduce_tool_request, publish_effect).
THEOREM RequestsRunWhereSent == PlaneSpec => []RunsWhereSent
<1>1. BaseInv /\ RegistryInv /\ EffectsInv => RunsWhereSent
    BY EffectsInvSuffices
<1>. QED  BY <1>1, EffectsInvariance, PTL
=============================================================================
