--------------------------- MODULE ProviderReducer ---------------------------
(***************************************************************************)
(* How the control engine folds the normalised events of a provider into   *)
(* the provider part of a session snapshot: the reducer functions of       *)
(* crates/gate4agent-engine/src/lib.rs as operators on a snapshot.         *)
(*                                                                         *)
(* Kept: the canonical sequence, the cursor of each source, the session    *)
(* identity, the lead's activity, the roster of subagents and the          *)
(* interactions (what the provider asks its operator).  Left out: prompts, *)
(* models, tools, token usage, gap counts and the marks of staleness,      *)
(* which the engine records and never reads.  The interaction vector is a  *)
(* set: a new member gets the canonical sequence as its id and is pushed   *)
(* at the end, so the order of the vector is the order of the ids.         *)
(***************************************************************************)
EXTENDS Integers, FiniteSets, Sequences

CONSTANTS
    None,            \* the absent value of every Option
    Identities,      \* ProviderSessionIdentity
    Sources,         \* ProviderSource
    Requests,        \* provider_request_id and tool call id
    Agents,          \* provider ids of subagents
    MaxInteractions, \* PROVIDER_INTERACTIONS_MAX
    MaxSubagents,    \* PROVIDER_SUBAGENTS_MAX
    MaxSequence      \* u64::MAX of the canonical and of the source sequences

ASSUME ReducerAssumption ==
    /\ IsFiniteSet(Sources) /\ IsFiniteSet(Agents)
    /\ MaxInteractions \in Nat \ {0} /\ MaxSubagents \in Nat /\ MaxSequence \in Nat
    /\ None \notin Identities \cup Requests \cup Agents

-----------------------------------------------------------------------------
(* Data. *)

NoOperation == 0

ProviderActivity == {"Idle", "Working", "WaitingForInput", "Blocked"}
ProviderInteractionKind == {"Approval", "Question"}
ProviderInteractionOutcome ==
    {"Approved", "Denied", "Answered", "Superseded", "TurnEnded", "Interrupted"}
ResponseKind == {"ApproveOnce", "Deny", "Answer"}

EventKinds ==
    {"SessionStarted", "SessionIdentityObserved", "TurnStarted",
     "WorkingObserved", "ToolStarted", "ToolCompleted", "TurnCompleted",
     "TurnInterrupted", "InteractionRequested", "InteractionResolved",
     "Error", "Ready", "SessionEnded", "SubagentStarted", "SubagentStopped",
     "Text"}

\* A ProviderEvent.  "Error" stands for RateLimited too and "Text" for every
\* event that the reducer only records.  A subagent's own events name it, and
\* tool calls and resolutions name the request they are about.
ProviderEvent ==
    {ev \in [kind : EventKinds, identity : Identities \cup {None},
             request : Requests \cup {None}, agent : Agents \cup {None},
             ask : ProviderInteractionKind, outcome : ProviderInteractionOutcome] :
        /\ ev.kind \in {"SubagentStarted", "SubagentStopped"} => ev.agent # None
        /\ ev.kind \in {"ToolStarted", "ToolCompleted", "InteractionResolved"} =>
               ev.request # None}

\* `answer` is the response kind of a Resolving interaction and the outcome of
\* a Resolved one.
ProviderInteraction ==
    [id : 1..MaxSequence, source : Sources, request : Requests \cup {None},
     ask : ProviderInteractionKind, agent : Agents \cup {None},
     resume : ProviderActivity \cup {"None"},
     status : {"Pending", "Resolving", "Resolved"}, operation : Nat,
     answer : {"None"} \cup ResponseKind \cup ProviderInteractionOutcome]

ProviderSubagent == [source : Sources, agent : Agents]

ProviderSnapshot ==
    [session : Identities \cup {None}, sequence : 0..MaxSequence,
     cursors : [Sources -> 0..MaxSequence], lead : ProviderActivity,
     subagents : SUBSET ProviderSubagent,
     interactions : SUBSET ProviderInteraction]

DefaultProvider ==
    [session |-> None, sequence |-> 0, cursors |-> [x \in Sources |-> 0],
     lead |-> "Idle", subagents |-> {}, interactions |-> {}]

\* refresh_provider_activity follows every change of the two fields it reads,
\* so the published activity is a function of the snapshot.
refresh_provider_activity(p) ==
    IF p.lead = "Idle" /\ p.subagents # {} THEN "Working" ELSE p.lead

-----------------------------------------------------------------------------
(* Interactions. *)

interaction_is_unresolved(x) == x.status \in {"Pending", "Resolving"}

Unresolved(p) == {x \in p.interactions : interaction_is_unresolved(x)}

Oldest(I) == CHOOSE x \in I : \A y \in I : x.id <= y.id
Newest(I) == CHOOSE x \in I : \A y \in I : y.id <= x.id

interaction_response_outcome(response) ==
    CASE response = "ApproveOnce" -> "Approved"
      [] response = "Deny" -> "Denied"
      [] response = "Answer" -> "Answered"

\* What the provider's own progress says about an unresolved interaction: the
\* response that is on its way arrived, or the operator answered in the
\* terminal.
provider_progress_outcome(x) ==
    IF x.status = "Resolving" THEN interaction_response_outcome(x.answer)
    ELSE IF x.ask = "Approval" THEN "Approved" ELSE "Answered"

Settled(x, outcome) ==
    [x EXCEPT !.status = "Resolved", !.operation = NoOperation, !.answer = outcome]

\* Mutant: a resolved interaction is settled again.
resolve_with_Again(p, I, outcome) ==
    [p EXCEPT !.interactions =
        {IF x \in I \/ x.status = "Resolved" THEN Settled(x, outcome) ELSE x : x \in @}]

\* The interactions I become Resolved with `outcome`.
resolve_with(p, I, outcome) ==
    [p EXCEPT !.interactions =
        {IF x \in I THEN Settled(x, outcome) ELSE x : x \in @}]

\* The interactions I become Resolved as the provider's progress implies.
resolve_by_progress(p, I) ==
    [p EXCEPT !.interactions =
        {IF x \in I THEN Settled(x, provider_progress_outcome(x)) ELSE x : x \in @}]

resolve_all_pending_interactions(p, outcome) ==
    resolve_with(p, Unresolved(p), outcome)

resolve_source_pending_interactions(p, src, outcome) ==
    resolve_with(p, {x \in Unresolved(p) : x.source = src}, outcome)

\* The unresolved interactions of a provider request, of the lead
\* (agent = None) or of a subagent.
Matching(p, src, request, agent) ==
    {x \in Unresolved(p) : x.source = src /\ x.request = request /\ x.agent = agent}

OfSubagent(p, src, agent) ==
    {x \in Unresolved(p) : x.source = src /\ x.agent = agent}

\* The activity a subagent's interaction suspended, "None" for the lead's own.
matching_interaction_resume_activity(p, src, request, agent) ==
    LET I == {x \in Matching(p, src, request, agent) : x.resume # "None"}
    IN  IF I = {} THEN "None" ELSE Newest(I).resume

subagent_interaction_resume_activity(p, src, agent) ==
    LET I == {x \in OfSubagent(p, src, agent) : x.resume # "None"}
    IN  IF I = {} THEN "None" ELSE Oldest(I).resume

\* Mutant: the roster is found full one interaction too late.
push_provider_interaction_Late(p, x) ==
    [p EXCEPT !.interactions =
        IF Cardinality(@) > MaxInteractions
        THEN (@ \ {Oldest(@)}) \cup {x} ELSE @ \cup {x}]

\* A full roster gives up its oldest resolved member, else its oldest.
push_provider_interaction(p, x) ==
    LET I == p.interactions
        done == {y \in I : y.status = "Resolved"}
        evicted == IF Cardinality(I) < MaxInteractions THEN {}
                   ELSE IF done # {} THEN {Oldest(done)} ELSE {Oldest(I)}
    IN  [p EXCEPT !.interactions = (I \ evicted) \cup {x}]

\* The lead waits while anything is unresolved.
WaitingOr(p, activity) ==
    [p EXCEPT !.lead = IF Unresolved(p) # {} THEN "WaitingForInput" ELSE activity]

-----------------------------------------------------------------------------
(* The reducer, by kind of event. *)

remove_source_subagents(p, src) ==
    [p EXCEPT !.subagents = {a \in @ : a.source # src}]

Lead(p, activity) == [p EXCEPT !.lead = activity]

Turn(p, src, activity, outcome) ==
    Lead(resolve_source_pending_interactions(p, src, outcome), activity)

\* A tool call settles what was asked about it; a subagent's own call leaves
\* the lead alone unless it settles something.
Tool(p, src, ev, otherwise) ==
    LET I == Matching(p, src, ev.request, ev.agent)
        resume == matching_interaction_resume_activity(p, src, ev.request, ev.agent)
        activity == IF I = {} THEN otherwise
                    ELSE IF resume = "None" THEN "Working" ELSE resume
    IN  Lead(resolve_by_progress(p, I), activity)

interaction_requested(p, src, ev) ==
    LET known == ev.request # None
        inherited == IF known
                     THEN matching_interaction_resume_activity(p, src, ev.request, ev.agent)
                     ELSE "None"
        q == IF known
             THEN resolve_with(p, Matching(p, src, ev.request, ev.agent), "Superseded")
             ELSE p
        x == [id |-> p.sequence + 1, source |-> src, request |-> ev.request,
              ask |-> ev.ask, agent |-> ev.agent,
              resume |-> IF ev.agent = None THEN "None"
                         ELSE IF inherited # "None" THEN inherited ELSE p.lead,
              status |-> "Pending", operation |-> NoOperation, answer |-> "None"]
    IN  Lead(push_provider_interaction(q, x), "WaitingForInput")

interaction_resolved(p, src, ev) ==
    LET I == {x \in Unresolved(p) : x.source = src /\ x.request = ev.request}
    IN  IF I = {} THEN p ELSE WaitingOr(resolve_with(p, I, ev.outcome), "Working")

subagent_started(p, src, ev) ==
    [p EXCEPT !.subagents =
        IF Cardinality(@) < MaxSubagents
        THEN @ \cup {[source |-> src, agent |-> ev.agent]} ELSE @]

subagent_stopped(p, src, ev) ==
    LET resume == subagent_interaction_resume_activity(p, src, ev.agent)
        q == resolve_with(p, OfSubagent(p, src, ev.agent), "TurnEnded")
    IN  [Lead(q, IF resume = "None" THEN p.lead ELSE resume) EXCEPT
            !.subagents = @ \ {[source |-> src, agent |-> ev.agent]}]

\* The match on the event, before the cursor and the sequence are advanced.
reduce_event_kind(p, src, ev) ==
    CASE ev.kind = "SessionStarted" ->
           [remove_source_subagents(Turn(p, src, "Idle", "TurnEnded"), src)
               EXCEPT !.session = ev.identity]
      [] ev.kind = "SessionIdentityObserved" -> [p EXCEPT !.session = ev.identity]
      [] ev.kind = "TurnStarted" -> Turn(p, src, "Working", "Superseded")
      [] ev.kind = "WorkingObserved" ->
           Lead(resolve_by_progress(p, {x \in Unresolved(p) : x.source = src}), "Working")
      [] ev.kind = "ToolStarted" ->
           Tool(p, src, ev, IF ev.agent = None THEN "Working" ELSE p.lead)
      [] ev.kind = "ToolCompleted" -> Tool(p, src, ev, p.lead)
      [] ev.kind = "TurnCompleted" -> Turn(p, src, "Idle", "TurnEnded")
      [] ev.kind = "TurnInterrupted" -> Turn(p, src, "Idle", "Interrupted")
      [] ev.kind = "InteractionRequested" -> interaction_requested(p, src, ev)
      [] ev.kind = "InteractionResolved" -> interaction_resolved(p, src, ev)
      [] ev.kind = "Error" -> Lead(p, "Blocked")
      [] ev.kind = "Ready" -> WaitingOr(p, "Idle")
      [] ev.kind = "SessionEnded" ->
           remove_source_subagents(Turn(p, src, "Idle", "TurnEnded"), src)
      [] ev.kind = "SubagentStarted" -> subagent_started(p, src, ev)
      [] ev.kind = "SubagentStopped" -> subagent_stopped(p, src, ev)
      [] OTHER -> p

Advanced(p, src, n) ==
    [p EXCEPT !.cursors[src] = n, !.sequence = @ + 1]

reduce_provider_event(p, src, n, ev) ==
    Advanced(reduce_event_kind(p, src, ev), src, n)

reduce_provider_gap(p, src, n) == Advanced(p, src, n)

-----------------------------------------------------------------------------
(* Admission. *)

provider_event_carries_session_identity(ev) ==
    ev.kind \in {"SessionStarted", "SessionIdentityObserved"}

\* The policy (a set of capabilities) admits one observed event.
AdmitsEvent(policy, ev) ==
    /\ ev.kind # "SessionIdentityObserved" => "SemanticReadiness" \in policy
    /\ provider_event_carries_session_identity(ev)
          => "ProviderSessionIdentity" \in policy

\* Mutant: the first event speaks for the batch.
AdmitsBatch_First(policy, missed, batch) == AdmitsEvent(policy, batch[1])

\* The policy admits a whole batch of ingress that skips `missed` sequences.
AdmitsBatch(policy, missed, batch) ==
    /\ \/ missed > 0
       \/ \E k \in DOMAIN batch : batch[k].kind # "SessionIdentityObserved"
       => "SemanticReadiness" \in policy
    /\ (\E k \in DOMAIN batch : provider_event_carries_session_identity(batch[k]))
          => "ProviderSessionIdentity" \in policy
=============================================================================
