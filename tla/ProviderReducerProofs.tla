------------------------ MODULE ProviderReducerProofs ------------------------
(***************************************************************************)
(* What the provider reducer does to a snapshot, for every value of its    *)
(* constants and every event: it keeps the snapshot well-formed, never     *)
(* starts a resolution by itself, and never touches an interaction that is *)
(* resolved.  SessionEngineProofs rests on these lemmas.                   *)
(***************************************************************************)
EXTENDS ProviderReducer, FiniteSetTheorems, WellFoundedInduction, TLAPS

-----------------------------------------------------------------------------
(* The oldest and the newest interaction. *)

\* A nonempty set of natural numbers has a least member.
LEMMA LeastNatural ==
    ASSUME NEW N \in SUBSET Nat, N # {}
    PROVE  \E m \in N : \A n \in N : m <= n
<1>1. \E m \in N : \A n \in N : ~(<<n, m>> \in OpToRel(<, Nat))
    BY NatLessThanWellFounded, WFMin
<1>2. PICK m \in N : \A n \in N : ~(<<n, m>> \in OpToRel(<, Nat))
    BY <1>1
<1>3. ASSUME NEW n \in N PROVE m <= n
    <2>1. <<n, m>> \in Nat \X Nat
        OBVIOUS
    <2>2. n < m => <<n, m>> \in OpToRel(<, Nat)
        BY <2>1 DEF OpToRel
    <2>3. ~(n < m)
        BY <1>2, <2>2
    <2>. QED  BY <2>3
<1>. QED  BY <1>3

\* Oldest and Newest choose members of the set.
LEMMA OldestMember ==
    ASSUME NEW I \in SUBSET ProviderInteraction, I # {}
    PROVE  Oldest(I) \in I
<1> DEFINE N == {x.id : x \in I}
<1>1. N \in SUBSET Nat /\ N # {}
    BY ReducerAssumption DEF ProviderInteraction
<1>2. PICK m \in N : \A n \in N : m <= n
    BY <1>1, LeastNatural
<1>3. \E x \in I : \A y \in I : x.id <= y.id
    BY <1>2
<1>. QED  BY <1>3 DEF Oldest

\* The newest, too.
LEMMA NewestMember ==
    ASSUME NEW I \in SUBSET ProviderInteraction, I # {}
    PROVE  Newest(I) \in I
<1> DEFINE N == {MaxSequence - x.id : x \in I}
<1>0. \A x \in I : x.id \in 1..MaxSequence
    BY DEF ProviderInteraction
<1>1. N \in SUBSET Nat /\ N # {}
    BY <1>0, ReducerAssumption
<1>2. PICK m \in N : \A n \in N : m <= n
    BY <1>1, LeastNatural
<1>3. PICK x \in I : m = MaxSequence - x.id
    BY <1>2
<1>4. \A y \in I : y.id <= x.id
    <2>. TAKE y \in I
    <2>1. MaxSequence - x.id <= MaxSequence - y.id
        BY <1>2, <1>3
    <2>. QED  BY <1>0, <2>1, ReducerAssumption
<1>. QED  BY <1>4 DEF Newest

-----------------------------------------------------------------------------
(* Well-formed snapshots and what an event makes of them. *)

\* The types, distinct ids, the two limits, and the answer of what is being
\* resolved.
WellFormed(p) ==
    /\ p \in ProviderSnapshot
    /\ \A x, y \in p.interactions : x.id = y.id => x = y
    /\ \A x \in p.interactions : x.status = "Resolving" => x.answer \in ResponseKind
    /\ IsFiniteSet(p.interactions) /\ Cardinality(p.interactions) <= MaxInteractions
    /\ IsFiniteSet(p.subagents) /\ Cardinality(p.subagents) <= MaxSubagents

\* Where the interactions of q come from: they are those of p, or settled from
\* an unresolved one of p, or new under the next canonical sequence.
Progress(p, q) ==
    /\ q.sequence = p.sequence /\ q.cursors = p.cursors
    /\ \A y \in q.interactions :
          \/ y \in p.interactions
          \/ /\ y.status = "Resolved"
             /\ \E x \in p.interactions : x.id = y.id /\ interaction_is_unresolved(x)
          \/ y.status = "Pending" /\ y.id = p.sequence + 1

Reduces(p, q) == WellFormed(q) /\ Progress(p, q)

\* Nothing at all is progress.
LEMMA ReducesSelf ==
    ASSUME NEW p, WellFormed(p)
    PROVE  Reduces(p, p)
BY DEF Reduces, Progress

\* The other fields of the snapshot may change freely within their types.
LEMMA ReducesFrame ==
    ASSUME NEW p, NEW q, Reduces(p, q)
    PROVE  /\ \A a \in ProviderActivity : Reduces(p, [q EXCEPT !.lead = a])
           /\ \A d \in Identities \cup {None} : Reduces(p, [q EXCEPT !.session = d])
           /\ \A S \in SUBSET ProviderSubagent :
                 IsFiniteSet(S) /\ Cardinality(S) <= MaxSubagents =>
                     Reduces(p, [q EXCEPT !.subagents = S])
<1>1. q \in ProviderSnapshot
    BY DEF Reduces, WellFormed
<1>2. ASSUME NEW a \in ProviderActivity PROVE Reduces(p, [q EXCEPT !.lead = a])
    <2> DEFINE r == [q EXCEPT !.lead = a]
    <2>1. /\ r \in ProviderSnapshot /\ r.interactions = q.interactions
          /\ r.subagents = q.subagents /\ r.sequence = q.sequence /\ r.cursors = q.cursors
        BY <1>1 DEF ProviderSnapshot
    <2>. HIDE DEF r
    <2>2. Reduces(p, r)
        BY <2>1 DEF Reduces, WellFormed, Progress
    <2>. QED  BY <2>2 DEF r
<1>3. ASSUME NEW d \in Identities \cup {None} PROVE Reduces(p, [q EXCEPT !.session = d])
    <2> DEFINE r == [q EXCEPT !.session = d]
    <2>1. /\ r \in ProviderSnapshot /\ r.interactions = q.interactions
          /\ r.subagents = q.subagents /\ r.sequence = q.sequence /\ r.cursors = q.cursors
        BY <1>1 DEF ProviderSnapshot
    <2>. HIDE DEF r
    <2>2. Reduces(p, r)
        BY <2>1 DEF Reduces, WellFormed, Progress
    <2>. QED  BY <2>2 DEF r
<1>4. ASSUME NEW S \in SUBSET ProviderSubagent, IsFiniteSet(S),
             Cardinality(S) <= MaxSubagents
      PROVE  Reduces(p, [q EXCEPT !.subagents = S])
    <2> DEFINE r == [q EXCEPT !.subagents = S]
    <2>1. /\ r \in ProviderSnapshot /\ r.interactions = q.interactions
          /\ r.subagents = S /\ r.sequence = q.sequence /\ r.cursors = q.cursors
        BY <1>1 DEF ProviderSnapshot
    <2>. HIDE DEF r
    <2>2. Reduces(p, r)
        BY <1>4, <2>1 DEF Reduces, WellFormed, Progress
    <2>. QED  BY <2>2 DEF r
<1>. QED  BY <1>2, <1>3, <1>4

\* A settled interaction.
LEMMA SettledInteraction ==
    ASSUME NEW x \in ProviderInteraction, NEW o \in ProviderInteractionOutcome
    PROVE  /\ Settled(x, o) \in ProviderInteraction
           /\ Settled(x, o).id = x.id /\ Settled(x, o).status = "Resolved"
BY DEF Settled, ProviderInteraction, NoOperation

\* Settling some of the unresolved interactions, each with some outcome.
LEMMA SettlingReduces ==
    ASSUME NEW p, WellFormed(p), NEW f, f = [x \in p.interactions |-> f[x]],
           \A x \in p.interactions :
              \/ f[x] = x
              \/ /\ interaction_is_unresolved(x)
                 /\ \E o \in ProviderInteractionOutcome : f[x] = Settled(x, o)
    PROVE  Reduces(p, [p EXCEPT !.interactions = {f[x] : x \in p.interactions}])
<1> DEFINE I == p.interactions
           J == {f[x] : x \in I}
           q == [p EXCEPT !.interactions = J]
<1>1. p \in ProviderSnapshot /\ I \in SUBSET ProviderInteraction /\ IsFiniteSet(I)
    BY DEF WellFormed, ProviderSnapshot
<1>2. \A x \in I : /\ f[x] \in ProviderInteraction /\ f[x].id = x.id
                   /\ f[x] = x \/ (f[x].status = "Resolved" /\ interaction_is_unresolved(x))
    BY <1>1, SettledInteraction
<1>3. IsFiniteSet(J) /\ Cardinality(J) <= Cardinality(I)
    <2>1. f \in Surjection(I, J)
        BY Zenon DEF Surjection
    <2>. QED  BY <1>1, <2>1, FS_Surjection
<1>4. J \in SUBSET ProviderInteraction
    BY <1>2
<1>5. Cardinality(J) <= MaxInteractions
    <2>1. Cardinality(I) \in Nat /\ Cardinality(J) \in Nat
        BY <1>1, <1>3, FS_CardinalityType
    <2>. QED  BY <1>3, <2>1, ReducerAssumption DEF WellFormed
<1>6. /\ q \in ProviderSnapshot /\ q.interactions = J
      /\ q.subagents = p.subagents /\ q.sequence = p.sequence /\ q.cursors = p.cursors
    <2>. HIDE DEF J
    <2>. QED  BY <1>1, <1>4 DEF ProviderSnapshot
<1>7. \A y, z \in J : y.id = z.id => y = z
    BY <1>2 DEF WellFormed
<1>8. \A y \in J : y.status = "Resolving" => y.answer \in ResponseKind
    BY <1>2 DEF WellFormed
<1>9. \A y \in J : \/ y \in I
                   \/ y.status = "Resolved" /\ \E x \in I : x.id = y.id /\ interaction_is_unresolved(x)
    BY <1>2
<1>. HIDE DEF q, J
<1>10. Reduces(p, q)
    BY <1>3, <1>5, <1>6, <1>7, <1>8, <1>9 DEF Reduces, WellFormed, Progress
<1>. QED  BY <1>10 DEF q, J

\* The two ways in which the reducer settles.
LEMMA ResolveReduces ==
    ASSUME NEW p, WellFormed(p), NEW I, I \subseteq Unresolved(p)
    PROVE  /\ \A o \in ProviderInteractionOutcome : Reduces(p, resolve_with(p, I, o))
           /\ Reduces(p, resolve_by_progress(p, I))
<1>1. ASSUME NEW o \in ProviderInteractionOutcome PROVE Reduces(p, resolve_with(p, I, o))
    <2> DEFINE f == [x \in p.interactions |-> IF x \in I THEN Settled(x, o) ELSE x]
    <2>1. resolve_with(p, I, o) = [p EXCEPT !.interactions = {f[x] : x \in p.interactions}]
        <3>1. {f[x] : x \in p.interactions}
                = {IF x \in I THEN Settled(x, o) ELSE x : x \in p.interactions}
            OBVIOUS
        <3>. QED  BY <3>1 DEF resolve_with
    <2>2. f = [x \in p.interactions |-> f[x]]
        OBVIOUS
    <2>3. \A x \in p.interactions :
              \/ f[x] = x
              \/ /\ interaction_is_unresolved(x)
                 /\ \E oo \in ProviderInteractionOutcome : f[x] = Settled(x, oo)
        BY DEF Unresolved
    <2>. HIDE DEF f
    <2>. QED  BY <2>1, <2>2, <2>3, SettlingReduces
<1>2. Reduces(p, resolve_by_progress(p, I))
    <2> DEFINE f == [x \in p.interactions |->
                        IF x \in I THEN Settled(x, provider_progress_outcome(x)) ELSE x]
    <2>1. resolve_by_progress(p, I) = [p EXCEPT !.interactions = {f[x] : x \in p.interactions}]
        <3>1. {f[x] : x \in p.interactions}
                = {IF x \in I THEN Settled(x, provider_progress_outcome(x)) ELSE x :
                       x \in p.interactions}
            OBVIOUS
        <3>. QED  BY <3>1 DEF resolve_by_progress
    <2>2. f = [x \in p.interactions |-> f[x]]
        OBVIOUS
    <2>3. \A x \in p.interactions :
              provider_progress_outcome(x) \in ProviderInteractionOutcome
        BY DEF provider_progress_outcome, interaction_response_outcome,
               ProviderInteractionOutcome, ResponseKind, WellFormed
    <2>4. \A x \in p.interactions :
              \/ f[x] = x
              \/ /\ interaction_is_unresolved(x)
                 /\ \E oo \in ProviderInteractionOutcome : f[x] = Settled(x, oo)
        BY <2>3 DEF Unresolved
    <2>. HIDE DEF f
    <2>. QED  BY <2>1, <2>2, <2>4, SettlingReduces
<1>. QED  BY <1>1, <1>2

-----------------------------------------------------------------------------
(* A new interaction. *)

\* The id of every interaction is a canonical sequence that was used.
IdsUsed(p) == \A x \in p.interactions : x.id <= p.sequence

\* Pushing a pending interaction under the next canonical sequence, after some
\* settling, keeps the snapshot well-formed: at the limit one member is evicted.
LEMMA PushReduces ==
    ASSUME NEW p, NEW q, Reduces(p, q), IdsUsed(q), p.sequence < MaxSequence,
           NEW x \in ProviderInteraction, x.id = p.sequence + 1, x.status = "Pending"
    PROVE  Reduces(p, push_provider_interaction(q, x))
<1> DEFINE I == q.interactions
           done == {y \in I : y.status = "Resolved"}
           evicted == IF Cardinality(I) < MaxInteractions THEN {}
                      ELSE IF done # {} THEN {Oldest(done)} ELSE {Oldest(I)}
           K == I \ evicted
           J == K \cup {x}
           r == [q EXCEPT !.interactions = J]
<1>1. /\ q \in ProviderSnapshot /\ I \in SUBSET ProviderInteraction /\ IsFiniteSet(I)
      /\ Cardinality(I) <= MaxInteractions /\ q.sequence = p.sequence
    BY DEF Reduces, Progress, WellFormed, ProviderSnapshot
<1>2. push_provider_interaction(q, x) = r
    BY DEF push_provider_interaction
<1>3. IsFiniteSet(K) /\ Cardinality(K) < MaxInteractions
    <2>1. CASE Cardinality(I) < MaxInteractions
        <3>1. K = I
            BY <2>1
        <3>. QED  BY <1>1, <2>1, <3>1
    <2>2. CASE ~(Cardinality(I) < MaxInteractions)
        <3>1. Cardinality(I) = MaxInteractions /\ Cardinality(I) \in Nat
            BY <1>1, <2>2, FS_CardinalityType, ReducerAssumption
        <3>2. I # {}
            BY <3>1, FS_EmptySet, ReducerAssumption
        <3>3. PICK z \in I : evicted = {z}
            <4>1. CASE done # {}
                <5>1. Oldest(done) \in done
                    BY <1>1, <4>1, OldestMember
                <5>. QED  BY <2>2, <4>1, <5>1
            <4>2. CASE done = {}
                <5>1. Oldest(I) \in I
                    BY <1>1, <3>2, OldestMember
                <5>. QED  BY <2>2, <4>2, <5>1
            <4>. QED  BY <4>1, <4>2
        <3>4. IsFiniteSet(I \ {z}) /\ Cardinality(I \ {z}) = Cardinality(I) - 1
            <4>. HIDE DEF I
            <4>. QED  BY <1>1, <3>3, FS_RemoveElement
        <3>5. K = I \ {z}
            BY <3>3
        <3>6. Cardinality(K) = Cardinality(I) - 1 /\ IsFiniteSet(K)
            BY <3>4, <3>5, Zenon
        <3>. QED
            <4>. HIDE DEF I, K
            <4>. QED  BY <3>1, <3>6, ReducerAssumption
    <2>. QED  BY <2>1, <2>2
<1>4. IsFiniteSet(J) /\ Cardinality(J) <= MaxInteractions
    <2>. HIDE DEF K
    <2>1. x \notin K
        BY <1>1 DEF K, IdsUsed, ProviderSnapshot
    <2>2. Cardinality(K) \in Nat
        BY <1>3, FS_CardinalityType
    <2>3. IsFiniteSet(J) /\ Cardinality(J) = Cardinality(K) + 1
        BY <1>3, <2>1, FS_AddElement
    <2>. HIDE DEF J
    <2>. QED  BY <1>3, <2>2, <2>3, ReducerAssumption
<1>5. K \subseteq I
    OBVIOUS
<1>. HIDE DEF K
<1>6. J \in SUBSET ProviderInteraction
    BY <1>1, <1>5
<1>7. /\ r \in ProviderSnapshot /\ r.interactions = J
      /\ r.subagents = q.subagents /\ r.sequence = q.sequence /\ r.cursors = q.cursors
    <2>. HIDE DEF J
    <2>. QED  BY <1>1, <1>6 DEF ProviderSnapshot
<1>8. \A y, z \in J : y.id = z.id => y = z
    <2>1. \A y \in K : y.id # x.id
        BY <1>1, <1>5 DEF IdsUsed, ProviderSnapshot, ProviderInteraction
    <2>. QED  BY <1>5, <2>1 DEF Reduces, WellFormed
<1>9. \A y \in J : y.status = "Resolving" => y.answer \in ResponseKind
    BY <1>5 DEF Reduces, WellFormed
<1>10. \A y \in J :
          \/ y \in p.interactions
          \/ /\ y.status = "Resolved"
             /\ \E z \in p.interactions : z.id = y.id /\ interaction_is_unresolved(z)
          \/ y.status = "Pending" /\ y.id = p.sequence + 1
    BY <1>5 DEF Reduces, Progress
<1>. HIDE DEF r, J, I
<1>11. Reduces(p, r)
    BY <1>4, <1>7, <1>8, <1>9, <1>10 DEF Reduces, WellFormed, Progress
<1>. QED  BY <1>2, <1>11

\* The activity that an interaction resumes is an activity.
LEMMA ResumeActivities ==
    ASSUME NEW p, WellFormed(p), NEW src, NEW request, NEW agent
    PROVE  /\ matching_interaction_resume_activity(p, src, request, agent)
                 \in ProviderActivity \cup {"None"}
           /\ subagent_interaction_resume_activity(p, src, agent)
                 \in ProviderActivity \cup {"None"}
<1> DEFINE I == {x \in Matching(p, src, request, agent) : x.resume # "None"}
           J == {x \in OfSubagent(p, src, agent) : x.resume # "None"}
<1>1. p.interactions \in SUBSET ProviderInteraction
    BY DEF WellFormed, ProviderSnapshot
<1>2. I \in SUBSET ProviderInteraction /\ J \in SUBSET ProviderInteraction
    BY <1>1 DEF Matching, OfSubagent, Unresolved
<1>3. I # {} => Newest(I).resume \in ProviderActivity \cup {"None"}
    <2>. HIDE DEF I
    <2>. QED  BY <1>2, NewestMember DEF ProviderInteraction
<1>4. J # {} => Oldest(J).resume \in ProviderActivity \cup {"None"}
    <2>. HIDE DEF J
    <2>. QED  BY <1>2, OldestMember DEF ProviderInteraction
<1>. QED  BY <1>3, <1>4 DEF matching_interaction_resume_activity,
                          subagent_interaction_resume_activity

-----------------------------------------------------------------------------
(* One event. *)

\* The lead may be given any activity, directly or after a look at what is
\* unresolved.
LEMMA LeadReduces ==
    ASSUME NEW p, NEW q, Reduces(p, q), NEW a \in ProviderActivity
    PROVE  Reduces(p, Lead(q, a)) /\ Reduces(p, WaitingOr(q, a))
<1>1. Reduces(p, Lead(q, a))
    BY ReducesFrame DEF Lead
<1>2. "WaitingForInput" \in ProviderActivity
    BY DEF ProviderActivity
<1>3. Reduces(p, WaitingOr(q, a))
    <2>1. CASE Unresolved(q) # {}
        <3>1. WaitingOr(q, a) = [q EXCEPT !.lead = "WaitingForInput"]
            BY <2>1 DEF WaitingOr
        <3>. QED  BY <1>2, <3>1, ReducesFrame
    <2>2. CASE Unresolved(q) = {}
        <3>1. WaitingOr(q, a) = [q EXCEPT !.lead = a]
            BY <2>2 DEF WaitingOr
        <3>. QED  BY <3>1, ReducesFrame
    <2>. QED  BY <2>1, <2>2
<1>. QED  BY <1>1, <1>3

\* A turn boundary settles what its source asked.
LEMMA TurnReduces ==
    ASSUME NEW p, WellFormed(p), NEW src, NEW a \in ProviderActivity,
           NEW o \in ProviderInteractionOutcome
    PROVE  Reduces(p, Turn(p, src, a, o))
<1>1. {x \in Unresolved(p) : x.source = src} \subseteq Unresolved(p)
    OBVIOUS
<1>2. Reduces(p, resolve_source_pending_interactions(p, src, o))
    BY <1>1, ResolveReduces DEF resolve_source_pending_interactions
<1>. QED  BY <1>2, LeadReduces DEF Turn

\* A tool call settles what was asked about it.
LEMMA ToolReduces ==
    ASSUME NEW p, WellFormed(p), NEW src, NEW ev, NEW a \in ProviderActivity
    PROVE  Reduces(p, Tool(p, src, ev, a))
<1> DEFINE I == Matching(p, src, ev.request, ev.agent)
           resume == matching_interaction_resume_activity(p, src, ev.request, ev.agent)
           activity == IF I = {} THEN a ELSE IF resume = "None" THEN "Working" ELSE resume
<1>1. I \subseteq Unresolved(p)
    BY DEF Matching
<1>2. Reduces(p, resolve_by_progress(p, I))
    <2>. HIDE DEF I
    <2>. QED  BY <1>1, ResolveReduces
<1>3. activity \in ProviderActivity
    <2>1. resume \in ProviderActivity \cup {"None"}
        BY ResumeActivities
    <2>. HIDE DEF I, resume
    <2>. QED  BY <2>1 DEF ProviderActivity
<1>4. Tool(p, src, ev, a) = Lead(resolve_by_progress(p, I), activity)
    BY DEF Tool
<1>. HIDE DEF I, resume, activity
<1>. QED  BY <1>2, <1>3, <1>4, LeadReduces

\* The source's subagents are forgotten.
LEMMA SubagentsReduce ==
    ASSUME NEW p, NEW q, Reduces(p, q), NEW S, S \subseteq q.subagents
    PROVE  Reduces(p, [q EXCEPT !.subagents = S])
<1>1. /\ q.subagents \in SUBSET ProviderSubagent /\ IsFiniteSet(q.subagents)
      /\ Cardinality(q.subagents) <= MaxSubagents
    BY DEF Reduces, WellFormed, ProviderSnapshot
<1>2. IsFiniteSet(S) /\ Cardinality(S) <= Cardinality(q.subagents)
    BY <1>1, FS_Subset
<1>3. Cardinality(S) \in Nat /\ Cardinality(q.subagents) \in Nat
    BY <1>1, <1>2, FS_CardinalityType
<1>4. Cardinality(S) <= MaxSubagents
    BY <1>1, <1>2, <1>3, ReducerAssumption
<1>. QED  BY <1>1, <1>2, <1>4, ReducesFrame

\* A question.
LEMMA RequestReduces ==
    ASSUME NEW p, WellFormed(p), IdsUsed(p), p.sequence < MaxSequence,
           NEW src \in Sources, NEW ev \in ProviderEvent
    PROVE  Reduces(p, interaction_requested(p, src, ev))
<1> DEFINE I == Matching(p, src, ev.request, ev.agent)
           known == ev.request # None
           inherited == IF known
                        THEN matching_interaction_resume_activity(p, src, ev.request, ev.agent)
                        ELSE "None"
           q == IF known THEN resolve_with(p, I, "Superseded") ELSE p
           resume == IF ev.agent = None THEN "None"
                     ELSE IF inherited # "None" THEN inherited ELSE p.lead
           x == [id |-> p.sequence + 1, source |-> src, request |-> ev.request,
                 ask |-> ev.ask, agent |-> ev.agent, resume |-> resume,
                 status |-> "Pending", operation |-> NoOperation, answer |-> "None"]
<1>1. interaction_requested(p, src, ev) = Lead(push_provider_interaction(q, x), "WaitingForInput")
    BY DEF interaction_requested
<1>2. p \in ProviderSnapshot /\ p.lead \in ProviderActivity /\ p.sequence \in 0..MaxSequence
    BY DEF WellFormed, ProviderSnapshot
<1>3. resume \in ProviderActivity \cup {"None"}
    <2>1. inherited \in ProviderActivity \cup {"None"}
        BY ResumeActivities
    <2>. HIDE DEF inherited
    <2>. QED  BY <1>2, <2>1
<1>4. x \in ProviderInteraction /\ x.id = p.sequence + 1 /\ x.status = "Pending"
    <2>1. p.sequence + 1 \in 1..MaxSequence
        BY <1>2, ReducerAssumption
    <2>2. /\ ev.request \in Requests \cup {None} /\ ev.agent \in Agents \cup {None}
          /\ ev.ask \in ProviderInteractionKind
        BY DEF ProviderEvent
    <2>. HIDE DEF resume
    <2>. QED  BY <1>3, <2>1, <2>2 DEF ProviderInteraction, NoOperation
<1>5. Reduces(p, q) /\ IdsUsed(q)
    <2>1. CASE known
        <3>1. I \subseteq Unresolved(p) /\ "Superseded" \in ProviderInteractionOutcome
            BY DEF Matching, ProviderInteractionOutcome
        <3>2. Reduces(p, resolve_with(p, I, "Superseded"))
            <4>. HIDE DEF I
            <4>. QED  BY <3>1, ResolveReduces
        <3>3. IdsUsed(resolve_with(p, I, "Superseded"))
            <4>. HIDE DEF I
            <4>1. p.interactions \in SUBSET ProviderInteraction
                BY <1>2 DEF ProviderSnapshot
            <4>2. \A y \in p.interactions : Settled(y, "Superseded").id = y.id
                BY <3>1, <4>1, SettledInteraction
            <4>3. /\ resolve_with(p, I, "Superseded").sequence = p.sequence
                  /\ resolve_with(p, I, "Superseded").interactions
                       = {IF y \in I THEN Settled(y, "Superseded") ELSE y : y \in p.interactions}
                BY <1>2 DEF resolve_with, ProviderSnapshot
            <4>. QED  BY <4>2, <4>3 DEF IdsUsed
        <3>. QED  BY <2>1, <3>2, <3>3
    <2>2. CASE ~known
        BY <2>2, ReducesSelf
    <2>. QED  BY <2>1, <2>2
<1>. HIDE DEF q, x
<1>6. Reduces(p, push_provider_interaction(q, x))
    BY <1>4, <1>5, PushReduces
<1>7. "WaitingForInput" \in ProviderActivity
    BY DEF ProviderActivity
<1>. QED  BY <1>1, <1>6, <1>7, LeadReduces

\* Every event keeps the snapshot well-formed, starts no resolution and leaves
\* what is resolved alone.
LEMMA EventReduces ==
    ASSUME NEW p, WellFormed(p), IdsUsed(p), p.sequence < MaxSequence,
           NEW src \in Sources, NEW ev \in ProviderEvent
    PROVE  Reduces(p, reduce_event_kind(p, src, ev))
<1> DEFINE r == reduce_event_kind(p, src, ev)
<1>1. /\ p \in ProviderSnapshot /\ p.lead \in ProviderActivity
      /\ p.subagents \in SUBSET ProviderSubagent /\ IsFiniteSet(p.subagents)
    BY DEF WellFormed, ProviderSnapshot
<1>2. /\ ev.kind \in EventKinds /\ ev.identity \in Identities \cup {None}
      /\ ev.outcome \in ProviderInteractionOutcome
    BY DEF ProviderEvent
<1>3. /\ {"Idle", "Working", "Blocked", "WaitingForInput"} \subseteq ProviderActivity
      /\ {"TurnEnded", "Superseded", "Interrupted"} \subseteq ProviderInteractionOutcome
    BY DEF ProviderActivity, ProviderInteractionOutcome
<1>4. Reduces(p, p)
    BY ReducesSelf
<1>5. Reduces(p, remove_source_subagents(Turn(p, src, "Idle", "TurnEnded"), src))
    <2> DEFINE q == Turn(p, src, "Idle", "TurnEnded")
    <2>1. Reduces(p, q)
        BY <1>3, TurnReduces
    <2>. HIDE DEF q
    <2> DEFINE S == {a \in q.subagents : a.source # src}
    <2>2. remove_source_subagents(q, src) = [q EXCEPT !.subagents = S]
        BY DEF remove_source_subagents
    <2>3. S \subseteq q.subagents
        OBVIOUS
    <2>. HIDE DEF S
    <2>4. Reduces(p, remove_source_subagents(q, src))
        BY <2>1, <2>2, <2>3, SubagentsReduce
    <2>. QED  BY <2>4 DEF q
<1>6. ASSUME ev.kind = "SessionStarted" PROVE Reduces(p, r)
    <2>1. r = [remove_source_subagents(Turn(p, src, "Idle", "TurnEnded"), src)
                  EXCEPT !.session = ev.identity]
        BY <1>6 DEF reduce_event_kind
    <2>. HIDE DEF r
    <2>. QED  BY <1>2, <1>5, <2>1, ReducesFrame
<1>7. ASSUME ev.kind = "SessionIdentityObserved" PROVE Reduces(p, r)
    <2>1. r = [p EXCEPT !.session = ev.identity]
        BY <1>7 DEF reduce_event_kind
    <2>. HIDE DEF r
    <2>. QED  BY <1>2, <1>4, <2>1, ReducesFrame
<1>8. ASSUME ev.kind \in {"TurnStarted", "TurnCompleted", "TurnInterrupted"}
      PROVE  Reduces(p, r)
    BY <1>3, <1>8, TurnReduces DEF reduce_event_kind
<1>9. ASSUME ev.kind = "WorkingObserved" PROVE Reduces(p, r)
    <2> DEFINE I == {x \in Unresolved(p) : x.source = src}
    <2>1. I \subseteq Unresolved(p)
        OBVIOUS
    <2>2. r = Lead(resolve_by_progress(p, I), "Working")
        BY <1>9 DEF reduce_event_kind
    <2>. HIDE DEF I, r
    <2>3. Reduces(p, resolve_by_progress(p, I))
        BY <2>1, ResolveReduces
    <2>. QED  BY <1>3, <2>2, <2>3, LeadReduces
<1>10. ASSUME ev.kind = "ToolStarted" PROVE Reduces(p, r)
    <2> DEFINE a == IF ev.agent = None THEN "Working" ELSE p.lead
    <2>1. r = Tool(p, src, ev, a) /\ a \in ProviderActivity
        BY <1>1, <1>3, <1>10 DEF reduce_event_kind
    <2>. HIDE DEF a, r
    <2>. QED  BY <2>1, ToolReduces
<1>11. ASSUME ev.kind = "ToolCompleted" PROVE Reduces(p, r)
    BY <1>1, <1>11, ToolReduces DEF reduce_event_kind
<1>12. ASSUME ev.kind = "InteractionRequested" PROVE Reduces(p, r)
    BY <1>12, RequestReduces DEF reduce_event_kind
<1>13. ASSUME ev.kind = "InteractionResolved" PROVE Reduces(p, r)
    <2> DEFINE I == {x \in Unresolved(p) : x.source = src /\ x.request = ev.request}
    <2>1. I \subseteq Unresolved(p)
        OBVIOUS
    <2>2. r = IF I = {} THEN p ELSE WaitingOr(resolve_with(p, I, ev.outcome), "Working")
        BY <1>13 DEF reduce_event_kind, interaction_resolved
    <2>. HIDE DEF I, r
    <2>3. Reduces(p, resolve_with(p, I, ev.outcome))
        BY <1>2, <2>1, ResolveReduces
    <2>. QED  BY <1>3, <1>4, <2>2, <2>3, LeadReduces
<1>14. ASSUME ev.kind = "Error" PROVE Reduces(p, r)
    BY <1>3, <1>4, <1>14, LeadReduces DEF reduce_event_kind
<1>15. ASSUME ev.kind = "Ready" PROVE Reduces(p, r)
    BY <1>3, <1>4, <1>15, LeadReduces DEF reduce_event_kind
<1>16. ASSUME ev.kind = "SessionEnded" PROVE Reduces(p, r)
    BY <1>5, <1>16 DEF reduce_event_kind
<1>17. ASSUME ev.kind = "SubagentStarted" PROVE Reduces(p, r)
    <2> DEFINE b == [source |-> src, agent |-> ev.agent]
               S == p.subagents \cup {b}
    <2>1. r = [p EXCEPT !.subagents = IF Cardinality(@) < MaxSubagents THEN S ELSE @]
        BY <1>17 DEF reduce_event_kind, subagent_started
    <2>2. b \in ProviderSubagent
        <3>1. ev.agent \in Agents
            BY <1>17 DEF ProviderEvent
        <3>. QED  BY <3>1 DEF ProviderSubagent
    <2>. HIDE DEF b
    <2>3. CASE Cardinality(p.subagents) < MaxSubagents
        <3>1. r = [p EXCEPT !.subagents = S]
            BY <2>1, <2>3
        <3>2. Cardinality(p.subagents) \in Nat
            BY <1>1, FS_CardinalityType
        <3>3. IsFiniteSet(S) /\ Cardinality(S) <= Cardinality(p.subagents) + 1
            <4>1. /\ IsFiniteSet(S)
                  /\ \/ Cardinality(S) = Cardinality(p.subagents)
                     \/ Cardinality(S) = Cardinality(p.subagents) + 1
                BY <1>1, FS_AddElement
            <4>. HIDE DEF S
            <4>. QED  BY <3>2, <4>1
        <3>4. S \in SUBSET ProviderSubagent
            BY <1>1, <2>2
        <3>. HIDE DEF S, r
        <3>5. Cardinality(S) <= MaxSubagents
            <4>1. Cardinality(S) \in Nat
                BY <3>3, FS_CardinalityType
            <4>. QED  BY <2>3, <3>2, <3>3, <4>1, ReducerAssumption
        <3>. QED  BY <1>4, <3>1, <3>3, <3>4, <3>5, ReducesFrame
    <2>4. CASE ~(Cardinality(p.subagents) < MaxSubagents)
        <3>1. r = [p EXCEPT !.subagents = p.subagents]
            BY <2>1, <2>4
        <3>. HIDE DEF r
        <3>. QED  BY <1>4, <3>1, SubagentsReduce
    <2>. QED  BY <2>3, <2>4
<1>18. ASSUME ev.kind = "SubagentStopped" PROVE Reduces(p, r)
    <2> DEFINE resume == subagent_interaction_resume_activity(p, src, ev.agent)
               I == OfSubagent(p, src, ev.agent)
               a == IF resume = "None" THEN p.lead ELSE resume
               q == Lead(resolve_with(p, I, "TurnEnded"), a)
               S == q.subagents \ {[source |-> src, agent |-> ev.agent]}
    <2>1. r = [q EXCEPT !.subagents = S]
        BY <1>18 DEF reduce_event_kind, subagent_stopped
    <2>2. I \subseteq Unresolved(p)
        BY DEF OfSubagent
    <2>3. a \in ProviderActivity
        <3>1. resume \in ProviderActivity \cup {"None"}
            BY ResumeActivities
        <3>. HIDE DEF resume
        <3>. QED  BY <1>1, <3>1
    <2>4. S \subseteq q.subagents
        OBVIOUS
    <2>. HIDE DEF I, a
    <2>5. Reduces(p, q)
        <3>1. Reduces(p, resolve_with(p, I, "TurnEnded"))
            BY <1>3, <2>2, ResolveReduces
        <3>. QED  BY <2>3, <3>1, LeadReduces
    <2>. HIDE DEF S, q, r
    <2>. QED  BY <2>1, <2>4, <2>5, SubagentsReduce
<1>19. ASSUME ev.kind = "Text" PROVE Reduces(p, r)
    BY <1>4, <1>19 DEF reduce_event_kind
<1>. QED
    <2>. HIDE DEF r
    <2>1. Reduces(p, r)
        BY <1>2, <1>6, <1>7, <1>8, <1>9, <1>10, <1>11, <1>12, <1>13, <1>14, <1>15,
           <1>16, <1>17, <1>18, <1>19 DEF EventKinds
    <2>. QED  BY <2>1 DEF r

\* q keeps the session identity of p.
SameSession(p, q) == "session" \in DOMAIN q /\ q.session = p.session

\* The parts of the reducer leave the session identity alone.
LEMMA SessionKept ==
    ASSUME NEW p, NEW q, SameSession(p, q)
    PROVE  /\ \A a : SameSession(p, Lead(q, a)) /\ SameSession(p, WaitingOr(q, a))
           /\ \A I, o : SameSession(p, resolve_with(q, I, o))
           /\ \A I : SameSession(p, resolve_by_progress(q, I))
           /\ \A x : SameSession(p, push_provider_interaction(q, x))
           /\ \A S : SameSession(p, [q EXCEPT !.subagents = S])
<1>1. \A a : SameSession(p, [q EXCEPT !.lead = a])
    BY DEF SameSession
<1>2. \A J : SameSession(p, [q EXCEPT !.interactions = J])
    BY DEF SameSession
<1>3. \A S : SameSession(p, [q EXCEPT !.subagents = S])
    BY DEF SameSession
<1>4. \A I, o : SameSession(p, resolve_with(q, I, o))
    BY <1>2 DEF resolve_with
<1>5. \A I : SameSession(p, resolve_by_progress(q, I))
    BY <1>2 DEF resolve_by_progress
<1>6. \A x : SameSession(p, push_provider_interaction(q, x))
    BY <1>2 DEF push_provider_interaction
<1>7. \A a : SameSession(p, Lead(q, a)) /\ SameSession(p, WaitingOr(q, a))
    BY <1>1 DEF Lead, WaitingOr
<1>. QED  BY <1>3, <1>4, <1>5, <1>6, <1>7

\* Only an event that carries an identity changes the session's, and the event
\* that only observes one changes nothing else.
LEMMA EventFrame ==
    ASSUME NEW p \in ProviderSnapshot, NEW src, NEW ev \in ProviderEvent
    PROVE  /\ ~provider_event_carries_session_identity(ev) =>
                 SameSession(p, reduce_event_kind(p, src, ev))
           /\ ev.kind = "SessionIdentityObserved" =>
                 /\ reduce_event_kind(p, src, ev).interactions = p.interactions
                 /\ reduce_event_kind(p, src, ev).subagents = p.subagents
                 /\ reduce_event_kind(p, src, ev).lead = p.lead
<1> DEFINE q == reduce_event_kind(p, src, ev)
<1>1. ev.kind \in EventKinds
    BY DEF ProviderEvent
<1>2. ASSUME ev.kind = "SessionIdentityObserved"
      PROVE  /\ q.interactions = p.interactions /\ q.subagents = p.subagents
             /\ q.lead = p.lead
    <2>1. q = [p EXCEPT !.session = ev.identity]
        BY <1>2 DEF reduce_event_kind
    <2>. QED  BY <2>1 DEF ProviderSnapshot
<1>3. SameSession(p, p)
    BY DEF SameSession, ProviderSnapshot
<1>4. \A a, o : SameSession(p, Turn(p, src, a, o))
    BY <1>3, SessionKept DEF Turn, resolve_source_pending_interactions
<1>5. SameSession(p, remove_source_subagents(Turn(p, src, "Idle", "TurnEnded"), src))
    BY <1>4, SessionKept DEF remove_source_subagents
<1>6. \A a : SameSession(p, Tool(p, src, ev, a))
    BY <1>3, SessionKept DEF Tool
<1>7. SameSession(p, interaction_requested(p, src, ev))
    BY <1>3, SessionKept DEF interaction_requested
<1>8. SameSession(p, interaction_resolved(p, src, ev))
    BY <1>3, SessionKept DEF interaction_resolved
<1>9. SameSession(p, subagent_started(p, src, ev)) /\ SameSession(p, subagent_stopped(p, src, ev))
    BY <1>3, SessionKept DEF subagent_started, subagent_stopped
<1>10. \A I : SameSession(p, Lead(resolve_by_progress(p, I), "Working"))
    BY <1>3, SessionKept
<1>11. SameSession(p, Lead(p, "Blocked")) /\ SameSession(p, WaitingOr(p, "Idle"))
    BY <1>3, SessionKept
<1>12. ASSUME ~provider_event_carries_session_identity(ev) PROVE SameSession(p, q)
    <2>1. ev.kind \in EventKinds \ {"SessionStarted", "SessionIdentityObserved"}
        BY <1>1, <1>12 DEF provider_event_carries_session_identity
    <2>. QED  BY <2>1, <1>3, <1>4, <1>5, <1>6, <1>7, <1>8, <1>9, <1>10, <1>11
              DEF reduce_event_kind, EventKinds
<1>. QED  BY <1>2, <1>12

-----------------------------------------------------------------------------
(* Any number of events. *)

\* What events and gaps make of a snapshot: no sequence goes back, no
\* resolution is started, what is resolved stays, and a settled or new
\* interaction accounts for everything else.
Evolves(p, q) ==
    /\ WellFormed(q) /\ IdsUsed(q)
    /\ q.sequence >= p.sequence
    /\ \A src \in Sources : q.cursors[src] >= p.cursors[src]
    /\ \A y \in q.interactions :
          \/ y \in p.interactions
          \/ /\ y.status = "Resolved"
             /\ \E x \in p.interactions : x.id = y.id /\ interaction_is_unresolved(x)
          \/ y.status \in {"Pending", "Resolved"} /\ y.id > p.sequence

\* Evolution is reflexive and transitive.
LEMMA EvolvesOrder ==
    /\ \A p : WellFormed(p) /\ IdsUsed(p) => Evolves(p, p)
    /\ \A p, q, r : WellFormed(p) /\ Evolves(p, q) /\ Evolves(q, r) => Evolves(p, r)
<1>1. ASSUME NEW p, WellFormed(p), IdsUsed(p) PROVE Evolves(p, p)
    BY <1>1, ReducerAssumption DEF Evolves, WellFormed, ProviderSnapshot
<1>2. ASSUME NEW p, NEW q, NEW r, WellFormed(p), Evolves(p, q), Evolves(q, r)
      PROVE  Evolves(p, r)
    <2>1. p \in ProviderSnapshot /\ q \in ProviderSnapshot /\ r \in ProviderSnapshot
        BY <1>2 DEF Evolves, WellFormed
    <2>2. \A s \in ProviderSnapshot :
             /\ s.sequence \in Int /\ (\A src \in Sources : s.cursors[src] \in Int)
             /\ \A x \in s.interactions : x.id \in Int
        BY ReducerAssumption DEF ProviderSnapshot, ProviderInteraction
    <2>3. r.sequence >= p.sequence
        BY <1>2, <2>1, <2>2 DEF Evolves
    <2>4. \A src \in Sources : r.cursors[src] >= p.cursors[src]
        BY <1>2, <2>1, <2>2 DEF Evolves
    <2>5. ASSUME NEW y \in r.interactions
          PROVE  \/ y \in p.interactions
                 \/ /\ y.status = "Resolved"
                    /\ \E x \in p.interactions : x.id = y.id /\ interaction_is_unresolved(x)
                 \/ y.status \in {"Pending", "Resolved"} /\ y.id > p.sequence
        <3>1. CASE y \in q.interactions
            BY <1>2, <3>1 DEF Evolves
        <3>2. ASSUME y.status = "Resolved", NEW x \in q.interactions, x.id = y.id,
                     interaction_is_unresolved(x)
              PROVE  \/ y \in p.interactions
                     \/ /\ y.status = "Resolved"
                        /\ \E z \in p.interactions : z.id = y.id /\ interaction_is_unresolved(z)
                     \/ y.status \in {"Pending", "Resolved"} /\ y.id > p.sequence
            BY <1>2, <3>2 DEF Evolves, interaction_is_unresolved
        <3>3. CASE y.status \in {"Pending", "Resolved"} /\ y.id > q.sequence
            <4>1. y.id > p.sequence
                BY <1>2, <2>1, <2>2, <3>3 DEF Evolves
            <4>. QED  BY <3>3, <4>1
        <3>. QED  BY <1>2, <3>1, <3>2, <3>3 DEF Evolves
    <2>. QED  BY <1>2, <2>3, <2>4, <2>5 DEF Evolves
<1>. QED  BY <1>1, <1>2

\* Advancing the cursor of a source with the canonical sequence.
LEMMA AdvancedEvolves ==
    ASSUME NEW p, WellFormed(p), IdsUsed(p), p.sequence < MaxSequence,
           NEW q, Reduces(p, q), NEW src \in Sources, NEW n \in 0..MaxSequence,
           n >= p.cursors[src]
    PROVE  LET r == Advanced(q, src, n) IN
           /\ Evolves(p, r) /\ r.sequence = p.sequence + 1 /\ r.cursors[src] = n
           /\ r.session = q.session /\ r.lead = q.lead /\ r.subagents = q.subagents
           /\ r.interactions = q.interactions
<1> DEFINE r == Advanced(q, src, n)
<1>1. q \in ProviderSnapshot /\ p \in ProviderSnapshot
      /\ q.sequence = p.sequence /\ q.cursors = p.cursors
    BY DEF Reduces, Progress, WellFormed
<1>2. /\ r.sequence = p.sequence + 1 /\ r.cursors = [p.cursors EXCEPT ![src] = n]
      /\ r.session = q.session /\ r.lead = q.lead /\ r.subagents = q.subagents
      /\ r.interactions = q.interactions
    BY <1>1 DEF Advanced, ProviderSnapshot
<1>3. p.sequence \in 0..MaxSequence /\ p.cursors \in [Sources -> 0..MaxSequence]
    BY <1>1 DEF ProviderSnapshot
<1>4. r \in ProviderSnapshot
    <2>1. p.sequence + 1 \in 0..MaxSequence
        BY <1>3, ReducerAssumption
    <2>2. [p.cursors EXCEPT ![src] = n] \in [Sources -> 0..MaxSequence]
        BY <1>3
    <2>. QED  BY <1>1, <2>1, <2>2 DEF Advanced, ProviderSnapshot
<1>. HIDE DEF r
<1>5. WellFormed(r)
    BY <1>2, <1>4 DEF Reduces, WellFormed
<1>6. \A x \in p.interactions : x.id \in Int /\ x.id <= p.sequence
    BY <1>1, ReducerAssumption DEF IdsUsed, ProviderSnapshot, ProviderInteraction
<1>7. \A y \in r.interactions :
          /\ y.id <= r.sequence
          /\ \/ y \in p.interactions
             \/ /\ y.status = "Resolved"
                /\ \E x \in p.interactions : x.id = y.id /\ interaction_is_unresolved(x)
             \/ y.status \in {"Pending", "Resolved"} /\ y.id > p.sequence
    <2>. TAKE y \in r.interactions
    <2>1. \/ y \in p.interactions
          \/ /\ y.status = "Resolved"
             /\ \E x \in p.interactions : x.id = y.id /\ interaction_is_unresolved(x)
          \/ y.status = "Pending" /\ y.id = p.sequence + 1
        BY <1>2 DEF Reduces, Progress
    <2>. QED  BY <1>2, <1>3, <1>6, <2>1
<1>8. r.sequence >= p.sequence /\ \A k \in Sources : r.cursors[k] >= p.cursors[k]
    BY <1>2, <1>3
<1>9. r.cursors[src] = n
    BY <1>2, <1>3
<1>10. Evolves(p, r)
    BY <1>5, <1>7, <1>8 DEF Evolves, IdsUsed
<1>. QED  BY <1>2, <1>9, <1>10 DEF r

\* An event and a gap are evolutions that use one canonical sequence.
LEMMA EventEvolves ==
    ASSUME NEW p, WellFormed(p), IdsUsed(p), p.sequence < MaxSequence,
           NEW src \in Sources, NEW n \in 0..MaxSequence, n >= p.cursors[src],
           NEW ev \in ProviderEvent
    PROVE  LET r == reduce_provider_event(p, src, n, ev) IN
           /\ Evolves(p, r) /\ r.sequence = p.sequence + 1 /\ r.cursors[src] = n
           /\ ~provider_event_carries_session_identity(ev) => r.session = p.session
           /\ ev.kind = "SessionIdentityObserved" =>
                 /\ r.interactions = p.interactions /\ r.subagents = p.subagents
                 /\ r.lead = p.lead
<1> DEFINE q == reduce_event_kind(p, src, ev)
<1>1. Reduces(p, q)
    BY EventReduces
<1>2. p \in ProviderSnapshot
    BY DEF WellFormed
<1>3. /\ ~provider_event_carries_session_identity(ev) => q.session = p.session
      /\ ev.kind = "SessionIdentityObserved" =>
            /\ q.interactions = p.interactions /\ q.subagents = p.subagents
            /\ q.lead = p.lead
    BY <1>2, EventFrame DEF SameSession
<1>. HIDE DEF q
<1>4. LET r == Advanced(q, src, n) IN
      /\ Evolves(p, r) /\ r.sequence = p.sequence + 1 /\ r.cursors[src] = n
      /\ r.session = q.session /\ r.lead = q.lead /\ r.subagents = q.subagents
      /\ r.interactions = q.interactions
    BY <1>1, AdvancedEvolves
<1>. QED  BY <1>3, <1>4 DEF reduce_provider_event, q

\* The same for a gap, which changes nothing else.
LEMMA GapEvolves ==
    ASSUME NEW p, WellFormed(p), IdsUsed(p), p.sequence < MaxSequence,
           NEW src \in Sources, NEW n \in 0..MaxSequence, n >= p.cursors[src]
    PROVE  LET r == reduce_provider_gap(p, src, n) IN
           /\ Evolves(p, r) /\ r.sequence = p.sequence + 1 /\ r.cursors[src] = n
           /\ r.session = p.session /\ r.lead = p.lead /\ r.subagents = p.subagents
           /\ r.interactions = p.interactions
BY ReducesSelf, AdvancedEvolves DEF reduce_provider_gap

\* What is resolved stays as it is, or is evicted.
Final(p, q) ==
    \A x \in p.interactions : \A y \in q.interactions :
        x.status = "Resolved" /\ y.id = x.id => y = x

\* Evolution starts no resolution and is final.
LEMMA EvolvesFinal ==
    ASSUME NEW p, WellFormed(p), IdsUsed(p), NEW q, Evolves(p, q)
    PROVE  /\ Final(p, q)
           /\ \A y \in q.interactions : y.status = "Resolving" => y \in p.interactions
<1>1. \A x \in p.interactions : x.id \in Int /\ x.id <= p.sequence
    BY ReducerAssumption DEF WellFormed, IdsUsed, ProviderSnapshot, ProviderInteraction
<1>2. p.sequence \in Int
    BY ReducerAssumption DEF WellFormed, ProviderSnapshot
<1>3. Final(p, q)
    <2>. SUFFICES ASSUME NEW x \in p.interactions, NEW y \in q.interactions,
                         x.status = "Resolved", y.id = x.id
                  PROVE  y = x
        BY DEF Final
    <2>1. CASE y \in p.interactions
        BY <2>1 DEF WellFormed
    <2>2. ASSUME NEW z \in p.interactions, z.id = y.id, interaction_is_unresolved(z) PROVE FALSE
        BY <2>2 DEF WellFormed, interaction_is_unresolved
    <2>3. ~(y.id > p.sequence)
        BY <1>1, <1>2
    <2>. QED  BY <2>1, <2>2, <2>3 DEF Evolves
<1>. QED  BY <1>3 DEF Evolves

\* Settling outside of an event is an evolution too: it changes only the
\* interactions, and when everything is settled nothing is unresolved.
LEMMA ResolveEvolves ==
    ASSUME NEW p, WellFormed(p), IdsUsed(p), NEW I, I \subseteq Unresolved(p),
           NEW o \in ProviderInteractionOutcome
    PROVE  LET q == resolve_with(p, I, o) IN
           /\ Evolves(p, q) /\ q.session = p.session /\ q.lead = p.lead
           /\ q.subagents = p.subagents
           /\ p.interactions = {} => q.interactions = {}
           /\ \A y \in q.interactions : interaction_is_unresolved(y) =>
                 y \in p.interactions /\ y \notin I
<1> DEFINE q == resolve_with(p, I, o)
<1>1. p \in ProviderSnapshot /\ p.interactions \in SUBSET ProviderInteraction
    BY DEF WellFormed, ProviderSnapshot
<1>2. \A y \in p.interactions : Settled(y, o).id = y.id /\ Settled(y, o).status = "Resolved"
    BY <1>1, SettledInteraction
<1>3. /\ q.sequence = p.sequence /\ q.cursors = p.cursors /\ q.session = p.session
      /\ q.lead = p.lead /\ q.subagents = p.subagents
      /\ q.interactions = {IF y \in I THEN Settled(y, o) ELSE y : y \in p.interactions}
    BY <1>1 DEF resolve_with, ProviderSnapshot
<1>4. Reduces(p, q)
    BY ResolveReduces
<1>. HIDE DEF q
<1>5. IdsUsed(q)
    BY <1>2, <1>3 DEF IdsUsed
<1>6. \A y \in q.interactions : interaction_is_unresolved(y) =>
          y \in p.interactions /\ y \notin I
    BY <1>2, <1>3 DEF interaction_is_unresolved
<1>7. p.interactions = {} => q.interactions = {}
    BY <1>3
<1>8. p.sequence \in Int /\ \A src \in Sources : p.cursors[src] \in Int
    BY <1>1, ReducerAssumption DEF ProviderSnapshot
<1>9. Evolves(p, q)
    BY <1>3, <1>4, <1>5, <1>8 DEF Evolves, Reduces, Progress
<1>. QED  BY <1>3, <1>6, <1>7, <1>9 DEF q

\* The lead of a snapshot may change.
LEMMA LeadEvolves ==
    ASSUME NEW p, NEW q, Evolves(p, q), NEW a \in ProviderActivity
    PROVE  /\ Evolves(p, Lead(q, a)) /\ Lead(q, a).interactions = q.interactions
           /\ Lead(q, a).subagents = q.subagents /\ Lead(q, a).lead = a
           /\ Lead(q, a).session = q.session
<1> DEFINE r == Lead(q, a)
<1>1. q \in ProviderSnapshot
    BY DEF Evolves, WellFormed
<1>2. /\ r.sequence = q.sequence /\ r.cursors = q.cursors /\ r.interactions = q.interactions
      /\ r.subagents = q.subagents /\ r.lead = a /\ r.session = q.session
      /\ r \in ProviderSnapshot
    BY <1>1 DEF Lead, ProviderSnapshot
<1>. HIDE DEF r
<1>3. Evolves(p, r)
    BY <1>2 DEF Evolves, WellFormed, IdsUsed
<1>. QED  BY <1>2, <1>3 DEF r

\* One interaction that is not resolved is put in the place of another.
LEMMA ReplaceOK ==
    ASSUME NEW p, WellFormed(p), IdsUsed(p), NEW x \in p.interactions, x.status # "Resolved",
           NEW y \in ProviderInteraction, y.id = x.id, y.status = "Resolving" =>
               y.answer \in ResponseKind,
           NEW q \in ProviderSnapshot, q.interactions = (p.interactions \ {x}) \cup {y},
           q.sequence = p.sequence, q.subagents = p.subagents
    PROVE  WellFormed(q) /\ IdsUsed(q) /\ Final(p, q)
<1> DEFINE I == p.interactions
           J == I \ {x}
           K == J \cup {y}
<1>1. /\ IsFiniteSet(I) /\ Cardinality(I) <= MaxInteractions
      /\ \A a, b \in I : a.id = b.id => a = b
      /\ q.interactions = K
    BY DEF WellFormed
<1>2. IsFiniteSet(J) /\ Cardinality(J) = Cardinality(I) - 1
    BY <1>1, FS_RemoveElement
<1>3. J \subseteq I /\ x \notin J
    OBVIOUS
<1>. HIDE DEF I, J
<1>4. IsFiniteSet(K) /\ Cardinality(K) <= Cardinality(J) + 1
    <2>1. Cardinality(J) \in Nat
        BY <1>2, FS_CardinalityType
    <2>2. /\ IsFiniteSet(J \cup {y})
          /\ Cardinality(J \cup {y}) = IF y \in J THEN Cardinality(J) ELSE Cardinality(J) + 1
        BY <1>2, FS_AddElement
    <2>. QED  BY <2>1, <2>2
<1>5. Cardinality(K) <= MaxInteractions
    BY <1>1, <1>2, <1>4, FS_CardinalityType, ReducerAssumption
<1>6. \A a, b \in K : a.id = b.id => a = b
    BY <1>1, <1>3 DEF I
<1>7. \A a \in K : a.status = "Resolving" => a.answer \in ResponseKind
    BY <1>3 DEF WellFormed, I
<1>8. WellFormed(q)
    BY <1>1, <1>4, <1>5, <1>6, <1>7 DEF WellFormed
<1>9. IdsUsed(q)
    BY <1>1, <1>3 DEF IdsUsed, I
<1>10. Final(p, q)
    BY <1>1, <1>3 DEF Final, I
<1>. QED  BY <1>8, <1>9, <1>10
=============================================================================
