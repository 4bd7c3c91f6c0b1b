---------------------------- MODULE SessionEngine ----------------------------
(***************************************************************************)
(* The control engine of gate4agent: the deterministic single-writer       *)
(* lifecycle reducer of crates/gate4agent-engine/src/lib.rs, together with *)
(* as much of the host (the native shell and its workers) as the engine's  *)
(* correctness depends on.                                                 *)
(*                                                                         *)
(* The engine takes commands (register, start, stop, input, resume, ...)   *)
(* and queues effects; the host drains the queue, works on the effects in  *)
(* three independent lanes and answers each of them with one observation,  *)
(* possibly late, possibly for a session that has moved on; processes exit *)
(* when they like.  A command that is rejected and an observation that is  *)
(* ignored change nothing.  Left out: revisions, the event log, exit codes,*)
(* messages, terminal sizes and contents and the screen classification.    *)
(***************************************************************************)
EXTENDS ProviderReducer

CONSTANTS
    Instances,      \* AgentInstanceId
    Transports,     \* of the sessions to register: Pty, Pipe, Acp
    Policies,       \* the ProviderRuntimePolicy values in use
    Events,         \* the provider events in use
    MaxGeneration,  \* u64::MAX of SessionGeneration
    MaxOperation,   \* u64::MAX of OperationId
    MaxFrame,       \* highest terminal frame sequence in use
    MaxSessions,    \* CONTROL_SESSIONS_MAX
    MaxIdentities   \* CONTROL_INSTANCE_IDENTITIES_MAX

Capabilities == {"RawPtyLifecycle", "SemanticReadiness", "StructuredPrompt",
                 "ProviderSessionIdentity", "SemanticResume"}

ASSUME EngineAssumption ==
    /\ IsFiniteSet(Instances)
    /\ Transports \subseteq {"Pty", "Pipe", "Acp"}
    /\ Events \subseteq ProviderEvent
    /\ MaxGeneration \in Nat /\ MaxOperation \in Nat /\ MaxFrame \in Nat
    /\ MaxSessions \in Nat /\ MaxIdentities \in Nat

\* ProviderRuntimePolicy::validate.
ASSUME PolicyAssumption ==
    /\ Policies \subseteq SUBSET Capabilities
    /\ \A p \in Policies :
         /\ "SemanticResume" \in p =>
                {"RawPtyLifecycle", "ProviderSessionIdentity"} \subseteq p
         /\ "StructuredPrompt" \in p => "SemanticReadiness" \in p

VARIABLES
    sessions,              \* per instance, Absent when not registered
    generation_watermarks, \* per instance, NoGeneration when never registered
    next_operation_id,     \* MaxOperation + 1 when exhausted
    effects,               \* queued effects
    inflight,              \* the host's: effects drained and not yet answered
    processes,             \* the host's: running provider processes
    exits,                 \* the host's: exits found and not yet reported
    abandoned,             \* history: processes whose stop has failed
    ignored                \* history: operations whose answer was refused

vars == <<sessions, generation_watermarks, next_operation_id, effects, inflight,
          processes, exits, abandoned, ignored>>
host == <<inflight, processes, exits, abandoned, ignored>>

-----------------------------------------------------------------------------
(* Data. *)

NoGeneration == -1
Generations == 0..MaxGeneration
Operations == 1..MaxOperation

SessionStatus ==
    {"Registered", "Starting", "Running", "Stopping", "Exited", "Failed"}
Startable == {"Registered", "Exited", "Failed"}
Live == {"Starting", "Running", "Stopping"}

Absent == [status |-> "Absent"]

DefaultHistory ==
    [operation |-> NoOperation, kind |-> "None", candidate |-> None,
     candidates |-> {}, loaded |-> None]
DefaultResume == [phase |-> "None", operation |-> NoOperation,
                  target |-> "None", identity |-> None]

\* A candidate of the history is named by the session it holds.
HistorySnapshot ==
    [operation : 0..MaxOperation, kind : {"None", "Discover", "Load"},
     candidate : Identities \cup {None}, candidates : SUBSET Identities,
     loaded : Identities \cup {None}]
ResumeTargets == {"CurrentProvider", "ProviderSession", "HistoryCandidate"}
ResumeSnapshot ==
    [phase : {"None", "Authorizing", "Spawning"}, operation : 0..MaxOperation,
     target : ResumeTargets \cup {"None"}, identity : Identities \cup {None}]

\* SessionState and its snapshot.  `input` joins pending_input and
\* pending_interrupt; `frame` is the sequence of the terminal frame.
SessionState ==
    [transport : Transports, status : SessionStatus, generation : Generations,
     operation : 0..MaxOperation, input : {"None", "Text", "Interrupt"},
     frame : 0..MaxFrame, foreground : {"Unknown", "Confirmed", "Stale"},
     probe : 0..MaxOperation, probe_generation : Generations \cup {NoGeneration},
     probe_settled : {"No", "Yes"},
     history : HistorySnapshot, resume : ResumeSnapshot,
     resume_identity : Identities \cup {None},
     policy : SUBSET Capabilities, provider : ProviderSnapshot]

SpawnKinds == {"Spawn", "SpawnResume"}
InputKinds == {"WriteInput", "SubmitPrompt", "Interrupt"}
SettingKinds == {"SetSessionMode", "SetSessionConfigOption", "SetSessionModel"}
HistoryKinds == {"DiscoverHistory", "LoadHistory"}
\* Executed by the instance's own worker; the others have workers of their own.
WorkerKinds == SpawnKinds \cup InputKinds \cup SettingKinds \cup
    {"Stop", "Resize", "ObserveForeground", "ResolveInteraction"}

ControlEffect ==
    [kind : WorkerKinds \cup HistoryKinds \cup {"ProbeCapabilities", "AuthorizeResume"},
     operation : Operations, instance : Instances, generation : Generations,
     identity : Identities \cup {None}, interaction : 0..MaxSequence]

Effect(kind, o, i, g) ==
    [kind |-> kind, operation |-> o, instance |-> i, generation |-> g,
     identity |-> None, interaction |-> 0]

Processes == [instance : Instances, generation : Generations]
Process(i, g) == [instance |-> i, generation |-> g]
ProcessOf(e) == Process(e.instance, e.generation)

Registry == {i \in Instances : sessions[i] # Absent}

-----------------------------------------------------------------------------
Init ==
    /\ sessions = [i \in Instances |-> Absent]
    /\ generation_watermarks = [i \in Instances |-> NoGeneration]
    /\ next_operation_id = 1
    /\ effects = {} /\ inflight = {}
    /\ processes = {} /\ exits = {}
    /\ abandoned = {} /\ ignored = {}

-----------------------------------------------------------------------------
(* Helpers of the commands. *)

\* The operation id is taken; the command fails whole when there is none left.
allocate_operation ==
    /\ next_operation_id <= MaxOperation
    /\ next_operation_id' = next_operation_id + 1

\* Mutant: a new registration starts over at the default generation.
checked_next_generation_Reset(i) == {0}

\* The generation after the watermark, as a set that is empty when exhausted.
checked_next_generation(i) ==
    {g \in Generations : g = generation_watermarks[i] + 1}

\* Mutant: nothing is told apart when the foreground changes.
invalidate_foreground_Kept(s) == s

\* Mutant: the input whose answer is awaited is forgotten too.
invalidate_foreground_DropsInput(s) ==
    [s EXCEPT !.foreground = "Stale", !.input = "None"]

invalidate_foreground(s) == [s EXCEPT !.foreground = "Stale"]

Reset(transport, g) ==
    [transport |-> transport, status |-> "Registered", generation |-> g,
     operation |-> NoOperation, input |-> "None", frame |-> 0,
     foreground |-> "Unknown", probe |-> NoOperation,
     probe_generation |-> NoGeneration, probe_settled |-> "No",
     history |-> DefaultHistory, resume |-> DefaultResume,
     resume_identity |-> None, policy |-> {"RawPtyLifecycle"},
     provider |-> DefaultProvider]

\* A session enters a new generation: of the old one only the capability probe
\* survives.
NewGeneration(s, g, o, policy) ==
    [Reset(s.transport, g) EXCEPT
        !.status = "Starting", !.operation = o, !.policy = policy,
        !.probe = s.probe, !.probe_generation = s.probe_generation,
        !.probe_settled = s.probe_settled]

\* Mutant: a second operation may be started over a pending one.
Idle_Unchecked(i) == i \in Registry /\ sessions[i].status = "Running"

\* The instance runs and no operation of its worker is pending.
Idle(i) ==
    /\ i \in Registry
    /\ sessions[i].status = "Running"
    /\ sessions[i].operation = NoOperation

require_structured_prompt_policy(policy) ==
    {"SemanticReadiness", "StructuredPrompt"} \subseteq policy

\* The effect of the pending interaction resolution, if that is what the
\* pending operation is.
pending_interaction_resolution(i) ==
    {e \in effects :
        /\ e.instance = i
        /\ e.generation = sessions[i].generation
        /\ e.operation = sessions[i].operation
        /\ \E x \in sessions[i].provider.interactions :
              x.status = "Resolving" /\ x.operation = e.operation}

-----------------------------------------------------------------------------
(* Commands. *)

Remembered == {j \in Instances : generation_watermarks[j] # NoGeneration}

\* A new identity is admitted while there is room to remember it for good.
identity_admitted(i) == i \in Remembered \/ Cardinality(Remembered) < MaxIdentities

register(i, t) ==
    /\ i \notin Registry
    /\ Cardinality(Registry) < MaxSessions
    /\ identity_admitted(i)
    /\ \E g \in checked_next_generation(i) :
          /\ sessions' = [sessions EXCEPT ![i] = Reset(t, g)]
          /\ generation_watermarks' = [generation_watermarks EXCEPT ![i] = g]
    /\ UNCHANGED <<next_operation_id, effects, host>>

purge_generation_bound_history(i) ==
    {e \in effects : e.instance # i \/ e.kind \notin HistoryKinds}

start(i, policy, prompt) ==
    LET s == sessions[i] IN
    /\ i \in Registry
    /\ s.transport = "Pty" => "RawPtyLifecycle" \in policy
    /\ s.operation = NoOperation
    /\ s.status \in Startable
    /\ s.transport = "Pipe" => prompt
    /\ prompt => require_structured_prompt_policy(policy)
    /\ allocate_operation
    /\ \E g \in checked_next_generation(i) :
          /\ sessions' = [sessions EXCEPT
                 ![i] = NewGeneration(s, g, next_operation_id, policy)]
          /\ generation_watermarks' = [generation_watermarks EXCEPT ![i] = g]
          /\ effects' = purge_generation_bound_history(i) \cup
                 {Effect("Spawn", next_operation_id, i, g)}
    /\ UNCHANGED host

\* Stop takes over from whatever operation is pending.
stop(i) ==
    LET s == sessions[i] IN
    /\ i \in Registry
    /\ s.status \in {"Starting", "Running"}
    /\ allocate_operation
    /\ sessions' = [sessions EXCEPT ![i] = invalidate_foreground(
           [s EXCEPT !.status = "Stopping", !.operation = next_operation_id,
                     !.input = "None"])]
    /\ effects' = (effects \ pending_interaction_resolution(i)) \cup
           {Effect("Stop", next_operation_id, i, s.generation)}
    /\ UNCHANGED <<generation_watermarks, host>>

\* The common part of the operations of a running session.
Request(i, s, e) ==
    /\ allocate_operation
    /\ sessions' = [sessions EXCEPT ![i] = [s EXCEPT !.operation = next_operation_id]]
    /\ effects' = effects \cup {e}
    /\ UNCHANGED <<generation_watermarks, host>>

InputKind(t, action) ==
    CASE t = "Pty" -> "WriteInput"
      [] t = "Acp" /\ action = "SubmitPrompt" -> "SubmitPrompt"
      [] t = "Acp" /\ action = "Interrupt" -> "Interrupt"
      [] OTHER -> "Unsupported"

\* InsertDraft, SubmitPrompt and AgentCommand are "SubmitPrompt"; the rest of
\* what can be typed is "Text", except for the Interrupt control.
send_input(i, action) ==
    LET s == sessions[i]
        kind == InputKind(s.transport, action)
    IN  /\ Idle(i)
        /\ action = "SubmitPrompt" => require_structured_prompt_policy(s.policy)
        /\ kind # "Unsupported"
        /\ Request(i,
             invalidate_foreground([s EXCEPT
                 !.input = IF action = "Interrupt" THEN "Interrupt" ELSE "Text"]),
             Effect(kind, next_operation_id, i, s.generation))

resize(i) ==
    /\ Idle(i)
    /\ sessions[i].transport = "Pty"
    /\ Request(i, sessions[i],
               Effect("Resize", next_operation_id, i, sessions[i].generation))

refresh_foreground(i) ==
    /\ Idle(i)
    /\ sessions[i].transport = "Pty"
    /\ Request(i, invalidate_foreground(sessions[i]),
               Effect("ObserveForeground", next_operation_id, i, sessions[i].generation))

\* set_session_mode, set_session_config_option and set_session_model.
set_session(i, kind) ==
    /\ Idle(i)
    /\ sessions[i].transport = "Acp"
    /\ Request(i, sessions[i],
               Effect(kind, next_operation_id, i, sessions[i].generation))

\* ProviderInteractionResponse::validate_for.
validate_for(ask) ==
    IF ask = "Approval" THEN {"ApproveOnce", "Deny"} ELSE {"Answer", "Deny"}

resolve_interaction(i, g, x, response) ==
    LET s == sessions[i] IN
    /\ Idle(i)
    /\ s.generation = g
    /\ x \in s.provider.interactions
    /\ x.status = "Pending"
    /\ response \in validate_for(x.ask)
    /\ Request(i,
         [s EXCEPT !.provider.interactions = (@ \ {x}) \cup
             {[x EXCEPT !.status = "Resolving", !.operation = next_operation_id,
                        !.answer = response]}],
         [Effect("ResolveInteraction", next_operation_id, i, g) EXCEPT
             !.interaction = x.id])

probe_capabilities(i) ==
    LET s == sessions[i] IN
    /\ i \in Registry
    /\ s.probe = NoOperation
    /\ s.probe_settled = "No"
    /\ allocate_operation
    /\ sessions' = [sessions EXCEPT ![i].probe = next_operation_id,
                                    ![i].probe_generation = s.generation]
    /\ effects' = effects \cup
           {Effect("ProbeCapabilities", next_operation_id, i, s.generation)}
    /\ UNCHANGED <<generation_watermarks, host>>

discover_history(i) ==
    LET s == sessions[i] IN
    /\ i \in Registry
    /\ s.history.operation = NoOperation
    /\ allocate_operation
    /\ sessions' = [sessions EXCEPT ![i].history =
           [DefaultHistory EXCEPT !.operation = next_operation_id, !.kind = "Discover"]]
    /\ effects' = effects \cup
           {Effect("DiscoverHistory", next_operation_id, i, s.generation)}
    /\ UNCHANGED <<generation_watermarks, host>>

load_history(i, c) ==
    LET s == sessions[i] IN
    /\ i \in Registry
    /\ s.history.operation = NoOperation
    /\ c \in s.history.candidates
    /\ allocate_operation
    /\ sessions' = [sessions EXCEPT ![i].history =
           [DefaultHistory EXCEPT !.operation = next_operation_id, !.kind = "Load",
                                  !.candidate = c,
                                  !.candidates = s.history.candidates]]
    /\ effects' = effects \cup
           {[Effect("LoadHistory", next_operation_id, i, s.generation) EXCEPT
                !.identity = c]}
    /\ UNCHANGED <<generation_watermarks, host>>

\* What a resume may be asked for: the identity that the authority is sent.
ResumeIdentities(s, target) ==
    CASE target = "CurrentProvider" -> {s.provider.session} \ {None}
      [] target = "ProviderSession" -> Identities
      [] target = "HistoryCandidate" -> {s.history.loaded} \cap s.history.candidates

resume(i, target, policy, prompt) ==
    LET s == sessions[i] IN
    /\ i \in Registry
    /\ "RawPtyLifecycle" \in policy
    /\ prompt => /\ require_structured_prompt_policy(policy)
                 /\ {"ProviderSessionIdentity", "SemanticResume"} \subseteq policy
    /\ s.transport \in {"Pty", "Pipe"}
    /\ s.transport = "Pipe" => prompt
    /\ s.status \in Startable
    /\ s.operation = NoOperation
    /\ \E identity \in ResumeIdentities(s, target) :
          Request(i,
            [s EXCEPT !.resume = [phase |-> "Authorizing",
                                  operation |-> next_operation_id,
                                  target |-> target, identity |-> identity],
                      !.resume_identity = None, !.policy = policy],
            [Effect("AuthorizeResume", next_operation_id, i, s.generation) EXCEPT
                !.identity = identity])

remove(i) ==
    LET s == sessions[i] IN
    /\ i \in Registry
    /\ s.status \in Startable
    /\ s.operation = NoOperation
    /\ s.probe = NoOperation
    /\ s.history.operation = NoOperation
    /\ sessions' = [sessions EXCEPT ![i] = Absent]
    /\ effects' = {e \in effects : e.instance # i}
    /\ UNCHANGED <<generation_watermarks, next_operation_id, host>>

-----------------------------------------------------------------------------
(* Provider events: the batched ingress of a hook and the observations of   *)
(* the shell.                                                               *)

\* One event reduced into a session: an operation that resolves an interaction
\* ends when the event settles that interaction.
Absorbed(s, src, n, ev) ==
    LET p == reduce_provider_event(s.provider, src, n, ev)
        resolving == {x \in s.provider.interactions :
                         x.status = "Resolving" /\ x.operation = s.operation}
    IN  [s EXCEPT !.provider = p,
                  !.operation = IF /\ s.operation # NoOperation
                                   /\ resolving # {}
                                   /\ resolving \cap p.interactions = {}
                                THEN NoOperation ELSE @]

\* Mutant: the effect of a superseded resolution stays queued.
Absorb_KeepsEffect(i, s) ==
    /\ sessions' = [sessions EXCEPT ![i] = s]
    /\ UNCHANGED effects

\* The session becomes s; the effect of an operation that ended is unqueued.
Absorb(i, s) ==
    /\ sessions' = [sessions EXCEPT ![i] = s]
    /\ effects' = IF s.operation = sessions[i].operation THEN effects
                  ELSE effects \ pending_interaction_resolution(i)

\* A batch of one or two events, all with the batch's sequence.
Batches == {<<a>> : a \in Events} \cup {<<a, b>> : a, b \in Events}

AbsorbedBatch(s, src, n, batch) ==
    LET one == Absorbed(s, src, n, batch[1])
    IN  IF Len(batch) = 1 THEN one ELSE Absorbed(one, src, n, batch[2])

\* The policy refuses the events: the cursor passes them all the same, so that
\* later ones are not stale.  (A batch is refused with an error; once a counter
\* is exhausted apply_command works on a copy that an error discards.)
Refused(i, src, n) ==
    sessions' = [sessions EXCEPT ![i].provider = reduce_provider_gap(@, src, n)]

ingest_provider(i, g, src, n, batch) ==
    LET s == sessions[i]
        missed == n - s.provider.cursors[src] - 1
        gap == IF missed > 0
               THEN [s EXCEPT !.provider = reduce_provider_gap(@, src, n - 1)] ELSE s
    IN  /\ i \in Registry
        /\ s.generation = g
        /\ s.status \in Live
        /\ n > s.provider.cursors[src]
        /\ IF AdmitsBatch(s.policy, missed, batch)
           THEN /\ gap.provider.sequence + Len(batch) <= MaxSequence
                /\ Absorb(i, AbsorbedBatch(gap, src, n, batch))
           ELSE /\ s.provider.sequence < MaxSequence
                /\ next_operation_id <= MaxOperation
                /\ Refused(i, src, n)
                /\ UNCHANGED effects
        /\ UNCHANGED <<generation_watermarks, next_operation_id, host>>

provider_event(i, g, src, n, ev) ==
    LET s == sessions[i] IN
    /\ i \in Registry
    /\ s.generation = g
    /\ s.status \in Live
    /\ s.provider.sequence < MaxSequence
    /\ n > s.provider.cursors[src]
    /\ IF AdmitsEvent(s.policy, ev)
       THEN Absorb(i, Absorbed(s, src, n, ev))
       ELSE Refused(i, src, n) /\ UNCHANGED effects
    /\ UNCHANGED <<generation_watermarks, next_operation_id, host>>

provider_gap(i, g, src, missed) ==
    LET s == sessions[i]
        n == s.provider.cursors[src] + missed
    IN  /\ i \in Registry
        /\ s.generation = g
        /\ s.status \in Live
        /\ "SemanticReadiness" \in s.policy
        /\ s.provider.sequence < MaxSequence
        /\ missed > 0 /\ n <= MaxSequence
        /\ sessions' = [sessions EXCEPT ![i].provider = reduce_provider_gap(@, src, n)]
        /\ UNCHANGED <<generation_watermarks, next_operation_id, effects, host>>

-----------------------------------------------------------------------------
(* The host's answers.  Each takes an effect out of flight; what it says is *)
(* reduced when it is correlated and ignored otherwise.                     *)

Correlated(e) ==
    LET s == sessions[e.instance] IN
    /\ e.instance \in Registry
    /\ \/ s.generation = e.generation
       \/ e.kind = "ProbeCapabilities" /\ s.probe_generation = e.generation
    /\ CASE e.kind = "ProbeCapabilities" -> s.probe = e.operation
         [] e.kind \in HistoryKinds -> s.history.operation = e.operation
         [] OTHER -> s.operation = e.operation
    /\ CASE e.kind \in SpawnKinds -> s.status = "Starting"
         [] e.kind = "Stop" -> s.status = "Stopping"
         [] e.kind = "AuthorizeResume" -> s.resume.phase = "Authorizing"
         [] e.kind \in {"ProbeCapabilities"} \cup HistoryKinds -> TRUE
         [] OTHER -> s.status = "Running"

Answer(e) == e \in inflight /\ inflight' = inflight \ {e}

Becomes(e, s) ==
    sessions' = IF Correlated(e) THEN [sessions EXCEPT ![e.instance] = s] ELSE sessions

\* The operation is over and nothing else is to be said about it.
Done(s) == [s EXCEPT !.operation = NoOperation, !.input = "None"]

\* Mutant: the operation of a finished session stays pending.
Ended_KeepsOperation(s, status) ==
    [s EXCEPT !.status = status, !.input = "None", !.foreground = "Unknown",
              !.resume_identity = None, !.resume = DefaultResume,
              !.provider = resolve_all_pending_interactions(@, "TurnEnded")]

\* The session is over.
Ended(s, status) ==
    [Done(s) EXCEPT !.status = status, !.foreground = "Unknown",
                    !.resume_identity = None, !.resume = DefaultResume,
                    !.provider = resolve_all_pending_interactions(@, "TurnEnded")]

\* A final frame replaces an older one.
FinalFrame(s, f) == [s EXCEPT !.frame = IF f > @ THEN f ELSE @]

spawned(e) ==
    LET s == sessions[e.instance]
        running == [Done(s) EXCEPT !.status = "Running", !.resume_identity = None]
    IN  /\ Answer(e)
        /\ e.kind \in SpawnKinds
        /\ processes' = processes \cup {ProcessOf(e)}
        /\ Becomes(e, IF s.resume.phase = "Spawning"
                      THEN [running EXCEPT !.provider.session = s.resume_identity,
                                           !.resume = DefaultResume]
                      ELSE running)
        /\ UNCHANGED <<generation_watermarks, next_operation_id, effects, exits, abandoned,
                       ignored>>

spawn_failed(e) ==
    LET s == sessions[e.instance] IN
    /\ Answer(e)
    /\ e.kind \in SpawnKinds
    /\ Becomes(e, [Ended(s, "Failed") EXCEPT
                      !.provider.session = IF s.resume.phase = "Spawning"
                                           THEN s.resume_identity ELSE @])
    /\ UNCHANGED <<generation_watermarks, next_operation_id, effects, processes, exits,
                   abandoned, ignored>>

stop_completed(e, f) ==
    /\ Answer(e)
    /\ e.kind = "Stop"
    /\ ProcessOf(e) \in processes
    /\ processes' = processes \ {ProcessOf(e)}
    /\ Becomes(e, FinalFrame(Ended(sessions[e.instance], "Exited"), f))
    /\ UNCHANGED <<generation_watermarks, next_operation_id, effects, exits, abandoned, ignored>>

\* The shell knows no such process, could not end it, or never got the effect
\* because the worker's queue was full.
stop_failed(e) ==
    /\ Answer(e)
    /\ e.kind = "Stop"
    /\ abandoned' = abandoned \cup {ProcessOf(e)}
    /\ Becomes(e, Ended(sessions[e.instance], "Failed"))
    /\ UNCHANGED <<generation_watermarks, next_operation_id, effects, processes, exits,
                   ignored>>

\* An interrupt that was written settles every interaction.
input_completed(e) ==
    LET s == sessions[e.instance] IN
    /\ Answer(e)
    /\ e.kind \in InputKinds
    /\ ProcessOf(e) \in processes
    /\ Becomes(e, IF s.input = "Interrupt"
                  THEN [Done(s) EXCEPT !.provider =
                           Lead(resolve_all_pending_interactions(@, "Interrupted"), "Idle")]
                  ELSE Done(s))
    /\ UNCHANGED <<generation_watermarks, next_operation_id, effects, processes, exits,
                   abandoned, ignored>>

\* ResizeCompleted, SessionModeSet, SessionConfigOptionSet and SessionModelSet,
\* InputFailed and the failures of the former.
operation_settled(e) ==
    /\ Answer(e)
    /\ e.kind \in InputKinds \cup SettingKinds \cup {"Resize"}
    /\ Becomes(e, Done(sessions[e.instance]))
    /\ UNCHANGED <<generation_watermarks, next_operation_id, effects, processes, exits,
                   abandoned, ignored>>

foreground_observed(e) ==
    /\ Answer(e)
    /\ e.kind = "ObserveForeground"
    /\ ProcessOf(e) \in processes
    /\ Becomes(e, [Done(sessions[e.instance]) EXCEPT !.foreground = "Confirmed"])
    /\ UNCHANGED <<generation_watermarks, next_operation_id, effects, processes, exits,
                   abandoned, ignored>>

foreground_failed(e) ==
    /\ Answer(e)
    /\ e.kind = "ObserveForeground"
    /\ Becomes(e, invalidate_foreground(Done(sessions[e.instance])))
    /\ UNCHANGED <<generation_watermarks, next_operation_id, effects, processes, exits,
                   abandoned, ignored>>

\* The interaction a resolution is about, when it is still being resolved.
Resolving(e) ==
    {x \in sessions[e.instance].provider.interactions :
        /\ x.id = e.interaction
        /\ x.status = "Resolving"
        /\ x.operation = e.operation}

interaction_resolution_completed(e) ==
    LET s == sessions[e.instance] IN
    /\ Answer(e)
    /\ e.kind = "ResolveInteraction"
    /\ ProcessOf(e) \in processes
    /\ IF Correlated(e) /\ Resolving(e) # {}
       THEN \E x \in Resolving(e) :
              Becomes(e, [Done(s) EXCEPT !.provider =
                WaitingOr(resolve_with(@, {x}, interaction_response_outcome(x.answer)),
                          IF x.resume = "None" THEN "Working" ELSE x.resume)])
       ELSE UNCHANGED sessions
    /\ UNCHANGED <<generation_watermarks, next_operation_id, effects, processes, exits,
                   abandoned, ignored>>

\* The interaction can be answered again.
Reopened(e) ==
    LET s == sessions[e.instance]
        reopened == [x \in Resolving(e) |->
            [x EXCEPT !.status = "Pending", !.operation = NoOperation, !.answer = "None"]]
    IN  [Done(s) EXCEPT !.provider.interactions =
            (@ \ Resolving(e)) \cup {reopened[x] : x \in Resolving(e)},
                        !.provider.lead = "WaitingForInput"]

interaction_resolution_failed(e) ==
    /\ Answer(e)
    /\ e.kind = "ResolveInteraction"
    /\ IF Correlated(e) /\ Resolving(e) # {} THEN Becomes(e, Reopened(e))
                                             ELSE UNCHANGED sessions
    /\ UNCHANGED <<generation_watermarks, next_operation_id, effects, processes, exits,
                   abandoned, ignored>>

\* CapabilitiesProbed and CapabilityProbeFailed.
capabilities_probed(e) ==
    /\ Answer(e)
    /\ e.kind = "ProbeCapabilities"
    /\ Becomes(e, [sessions[e.instance] EXCEPT
                      !.probe = NoOperation, !.probe_generation = NoGeneration,
                      !.probe_settled = "Yes"])
    /\ UNCHANGED <<generation_watermarks, next_operation_id, effects, processes, exits,
                   abandoned, ignored>>

history_discovered(e, found) ==
    /\ Answer(e)
    /\ e.kind = "DiscoverHistory"
    /\ Becomes(e, [sessions[e.instance] EXCEPT
                      !.history = [DefaultHistory EXCEPT !.candidates = found]])
    /\ UNCHANGED <<generation_watermarks, next_operation_id, effects, processes, exits,
                   abandoned, ignored>>

history_loaded(e) ==
    /\ Answer(e)
    /\ e.kind = "LoadHistory"
    /\ LET h == sessions[e.instance].history IN
       Becomes(e, [sessions[e.instance] EXCEPT
                      !.history = [h EXCEPT !.operation = NoOperation, !.kind = "None",
                                            !.loaded = h.candidate, !.candidate = None]])
    /\ UNCHANGED <<generation_watermarks, next_operation_id, effects, processes, exits,
                   abandoned, ignored>>

history_failed(e) ==
    /\ Answer(e)
    /\ e.kind \in HistoryKinds
    /\ Becomes(e, [sessions[e.instance] EXCEPT
                      !.history = [@ EXCEPT !.operation = NoOperation, !.kind = "None",
                                            !.candidate = None]])
    /\ UNCHANGED <<generation_watermarks, next_operation_id, effects, processes, exits,
                   abandoned, ignored>>

resume_identity_matches_target(s, identity) ==
    CASE s.resume.target = "CurrentProvider" -> s.provider.session = identity
      [] s.resume.target = "ProviderSession" -> s.resume.identity = identity
      [] s.resume.target = "HistoryCandidate" -> s.history.loaded = identity
      [] OTHER -> FALSE

Authorized(s, g, identity) ==
    [NewGeneration(s, g, s.resume.operation, s.policy) EXCEPT
        !.resume_identity = identity,
        !.resume = [s.resume EXCEPT !.phase = "Spawning"]]

\* The authority returns the identity it was asked about.  An authorisation
\* that no longer matches, or finds no generation left, is ignored and the
\* resume stays pending.
resume_authorized(e) ==
    LET s == sessions[e.instance]
        i == e.instance
        next == checked_next_generation(i)
    IN  /\ Answer(e)
        /\ e.kind = "AuthorizeResume"
        /\ IF /\ Correlated(e)
              /\ resume_identity_matches_target(s, e.identity)
              /\ next # {}
           THEN \E g \in next :
                  /\ sessions' = [sessions EXCEPT ![i] = Authorized(s, g, e.identity)]
                  /\ generation_watermarks' = [generation_watermarks EXCEPT ![i] = g]
                  /\ effects' = effects \cup
                       {[Effect("SpawnResume", s.resume.operation, i, g) EXCEPT
                            !.identity = e.identity]}
                  /\ UNCHANGED ignored
           ELSE /\ ignored' = IF Correlated(e) THEN ignored \cup {e.operation} ELSE ignored
                /\ UNCHANGED <<sessions, generation_watermarks, effects>>
        /\ UNCHANGED <<next_operation_id, processes, exits, abandoned>>

\* ResumeDenied and ResumeFailed.
resume_refused(e) ==
    /\ Answer(e)
    /\ e.kind = "AuthorizeResume"
    /\ Becomes(e, [sessions[e.instance] EXCEPT
                      !.operation = NoOperation, !.resume = DefaultResume,
                      !.resume_identity = None])
    /\ UNCHANGED <<generation_watermarks, next_operation_id, effects, processes, exits,
                   abandoned, ignored>>

\* The answers that are validated beyond their correlation: a foreground must
\* fit the agent and its root process, the models, candidates, identities and
\* messages their formats and limits.
Validated == {"ObserveForeground", "ResolveInteraction", "ProbeCapabilities",
              "AuthorizeResume"} \cup HistoryKinds

\* A correlated answer that is not valid is ignored: the operation stays
\* pending although the host has no other answer to give.
answer_ignored(e) ==
    /\ Answer(e)
    /\ e.kind \in Validated
    /\ Correlated(e)
    /\ ignored' = ignored \cup {e.operation}
    /\ UNCHANGED <<sessions, generation_watermarks, next_operation_id, effects, processes,
                   exits, abandoned>>

-----------------------------------------------------------------------------
(* What the host reports by itself. *)

\* A process ends; the shell finds out and will report it.
host_exit(q) ==
    /\ q \in processes
    /\ processes' = processes \ {q}
    /\ exits' = exits \cup {q}
    /\ UNCHANGED <<sessions, generation_watermarks, next_operation_id, effects, inflight,
                   abandoned, ignored>>

\* Mutant: the report of an earlier generation's exit is taken for this one's.
Current_Any(q) == q.instance \in Registry /\ sessions[q.instance].status \in Live

Current(q) ==
    /\ q.instance \in Registry
    /\ sessions[q.instance].generation = q.generation
    /\ sessions[q.instance].status \in Live

\* Mutant: what was asked of the ended process stays queued.
Unqueued_None(q) == effects

\* Every queued effect of the ended generation is dropped.
Unqueued(q) ==
    {e \in effects : e.instance # q.instance \/ e.generation # q.generation}

process_exited(q, f) ==
    LET i == q.instance IN
    /\ q \in exits
    /\ exits' = exits \ {q}
    /\ IF Current(q)
       THEN /\ sessions' = [sessions EXCEPT
                   ![i] = FinalFrame(Ended(sessions[i], "Exited"), f)]
            /\ effects' = Unqueued(q)
       ELSE UNCHANGED <<sessions, effects>>
    /\ UNCHANGED <<generation_watermarks, next_operation_id, inflight, processes, abandoned,
                   ignored>>

Shown(i, g) ==
    /\ i \in Registry
    /\ sessions[i].generation = g
    /\ sessions[i].status \in {"Running", "Stopping"}

Newer(s, f) == f > s.frame

terminal_frame(i, g, f) ==
    /\ Shown(i, g)
    /\ Newer(sessions[i], f)
    /\ sessions' = [sessions EXCEPT ![i].frame = f]
    /\ UNCHANGED <<generation_watermarks, next_operation_id, effects, host>>

terminal_stale(i, g) ==
    /\ Shown(i, g)
    /\ sessions' = [sessions EXCEPT ![i] = invalidate_foreground(@)]
    /\ UNCHANGED <<generation_watermarks, next_operation_id, effects, host>>

drain_effects ==
    /\ effects # {}
    /\ inflight' = inflight \cup effects
    /\ effects' = {}
    /\ UNCHANGED <<sessions, generation_watermarks, next_operation_id, processes, exits,
                   abandoned, ignored>>

-----------------------------------------------------------------------------
Command(i) ==
    \/ \E t \in Transports : register(i, t)
    \/ \E p \in Policies, prompt \in BOOLEAN : start(i, p, prompt)
    \/ stop(i)
    \/ \E a \in {"Text", "SubmitPrompt", "Interrupt"} : send_input(i, a)
    \/ resize(i)
    \/ refresh_foreground(i)
    \/ \E k \in SettingKinds : set_session(i, k)
    \/ i \in Registry /\ \E x \in sessions[i].provider.interactions, r \in ResponseKind :
          resolve_interaction(i, sessions[i].generation, x, r)
    \/ probe_capabilities(i)
    \/ discover_history(i)
    \/ \E c \in Identities : load_history(i, c)
    \/ \E t \in ResumeTargets, p \in Policies, prompt \in BOOLEAN : resume(i, t, p, prompt)
    \/ remove(i)
    \/ \E g \in Generations, src \in Sources, n \in 1..MaxSequence, b \in Batches :
          ingest_provider(i, g, src, n, b)

Completion(e) ==
    \/ spawned(e) \/ spawn_failed(e)
    \/ \E f \in 0..MaxFrame : stop_completed(e, f)
    \/ stop_failed(e)
    \/ input_completed(e) \/ operation_settled(e)
    \/ foreground_observed(e) \/ foreground_failed(e)
    \/ interaction_resolution_completed(e) \/ interaction_resolution_failed(e)
    \/ capabilities_probed(e)
    \/ \E found \in SUBSET Identities : history_discovered(e, found)
    \/ history_loaded(e) \/ history_failed(e)
    \/ resume_authorized(e) \/ resume_refused(e)
    \/ answer_ignored(e)

Report(i) ==
    \E g \in Generations :
        \/ \E src \in Sources, n \in 1..MaxSequence, ev \in Events :
              provider_event(i, g, src, n, ev)
        \/ \E src \in Sources, missed \in 1..MaxSequence : provider_gap(i, g, src, missed)
        \/ \E f \in 1..MaxFrame : terminal_frame(i, g, f)
        \/ terminal_stale(i, g)

Next ==
    \/ \E i \in Instances : Command(i) \/ Report(i)
    \/ \E e \in inflight : Completion(e)
    \/ \E q \in processes : host_exit(q)
    \/ \E q \in exits, f \in 0..MaxFrame : process_exited(q, f)
    \/ drain_effects

Spec == Init /\ [][Next]_vars

\* The node drains the effects on every step of its loop and the shell answers
\* each of them; nothing is assumed of operators, providers or processes.
FairSpec ==
    /\ Spec
    /\ WF_vars(drain_effects)
    /\ WF_vars(\E e \in inflight : Completion(e))

-----------------------------------------------------------------------------
(* Safety. *)

\* Every piece of state has its type; the interactions of a session have
\* distinct ids (pushed with the canonical sequence) and never exceed
\* PROVIDER_INTERACTIONS_MAX, the subagents PROVIDER_SUBAGENTS_MAX.
TypeOK ==
    /\ sessions \in [Instances -> SessionState \cup {Absent}]
    /\ generation_watermarks \in [Instances -> Generations \cup {NoGeneration}]
    /\ next_operation_id \in 1..(MaxOperation + 1)
    /\ effects \subseteq ControlEffect /\ inflight \subseteq ControlEffect
    /\ processes \subseteq Processes /\ exits \subseteq Processes
    /\ abandoned \subseteq Processes /\ ignored \subseteq Operations
    /\ \A i \in Registry :
         LET p == sessions[i].provider IN
         /\ \A x, y \in p.interactions : x.id = y.id => x = y
         /\ Cardinality(p.interactions) <= MaxInteractions
         /\ Cardinality(p.subagents) <= MaxSubagents

Outstanding == effects \cup inflight

\* The engine ignored the answer to the pending operation.  A start and a stop
\* have no answer that can be ignored.
AnswerIgnored(i) ==
    /\ sessions[i].operation \in ignored
    /\ sessions[i].status \notin {"Starting", "Stopping"}

\* A session is never left with a pending operation that nobody will answer,
\* whatever was purged or superseded since: the effect of pending_operation is
\* queued or with the host.  The one exception is an operation whose answer
\* has come and was ignored as invalid, and a session that starts or stops is
\* never in that position.
OperationOwed ==
    \A i \in Registry :
        \/ sessions[i].operation = NoOperation
        \/ AnswerIgnored(i)
        \/ \E e \in Outstanding :
              /\ e.instance = i
              /\ e.operation = sessions[i].operation
              /\ e.generation = sessions[i].generation

\* The host is never handed work for a session that is over: every queued
\* effect of an instance's worker belongs to the current generation of a
\* session that is starting, running or stopping.
WorkerEffectsLive ==
    \A e \in effects :
        e.kind \in WorkerKinds =>
            /\ e.instance \in Registry
            /\ sessions[e.instance].generation = e.generation
            /\ sessions[e.instance].status \in Live

\* No orphans: unless its stop was reported as failed, a running process
\* belongs to the current generation of a session that is Running or Stopping.
ProcessOwned ==
    \A q \in processes \ abandoned : Shown(q.instance, q.generation)

\* The `expect`s of apply_observation_in_place hold: the answer to an input
\* finds the kind of the input, the answer to a resumed spawn finds the
\* identity that was authorised.
ExpectsHold ==
    \A e \in Outstanding : Correlated(e) =>
        /\ e.kind \in InputKinds => sessions[e.instance].input # "None"
        /\ e.kind = "SpawnResume" => sessions[e.instance].resume_identity # None

\* A confirmed foreground is of the running process and nothing was typed
\* since: no input for that generation is queued or with the host.
ForegroundTrust ==
    \A i \in Registry : sessions[i].foreground = "Confirmed" =>
        /\ sessions[i].status = "Running"
        /\ ~\E e \in Outstanding :
              /\ e.kind \in InputKinds
              /\ ProcessOf(e) = Process(i, sessions[i].generation)

\* While a session runs, an interaction is Resolving only for the operation
\* that is pending, so that its answer or its supersession releases both; and
\* a session that is over leaves no question open to its operator.
ResolvingIsPending ==
    \A i \in Registry :
        LET s == sessions[i] IN
        /\ s.status = "Running" =>
              \A x \in s.provider.interactions :
                  x.status = "Resolving" => x.operation = s.operation
        /\ s.status \in {"Exited", "Failed"} => Unresolved(s.provider) = {}

\* The provider is never sent an answer to a question that was settled: the
\* interaction of a queued ResolveInteraction is still being resolved by it.
ResolutionEffectsWanted ==
    \A e \in effects : e.kind = "ResolveInteraction" => Resolving(e) # {}

\* Nothing of what a policy withholds reaches the snapshot, whichever of the
\* two ingress paths it takes and whatever it is batched with.  (The identity of
\* a PTY or Pipe session is left out: a resume installs the authorised one
\* whatever the policy says.)
PolicyWithholds ==
    \A i \in Registry :
        LET s == sessions[i] IN
        s.status \in Live =>
            /\ "SemanticReadiness" \notin s.policy =>
                   /\ s.provider.interactions = {} /\ s.provider.subagents = {}
                   /\ s.provider.lead = "Idle"
            /\ "ProviderSessionIdentity" \notin s.policy /\ s.transport = "Acp" =>
                   s.provider.session = None

-----------------------------------------------------------------------------
(* What no step does. *)

Same(i) == i \in Registry /\ sessions'[i] # Absent

\* A generation number is used once per instance, across restarts, resumes and
\* a removal followed by another registration: a session changes generation
\* only to one above all that the instance ever had.  And within a generation
\* nothing that was shown is taken back: the terminal frame, the canonical
\* sequence and the cursors of the sources only advance.
NoRewind ==
    [][\A i \in Instances : sessions'[i] # Absent =>
         LET old == sessions[i]
             new == sessions'[i]
         IN  IF i \in Registry /\ new.generation = old.generation
             THEN /\ new.frame >= old.frame
                  /\ new.provider.sequence >= old.provider.sequence
                  /\ \A src \in Sources :
                        new.provider.cursors[src] >= old.provider.cursors[src]
             ELSE new.generation > generation_watermarks[i]]_vars

\* The outcome of an interaction is told once: a Resolved interaction stays as
\* it is until it is evicted or its generation ends, however late the answers
\* and events that still name it.
InteractionFinal ==
    [][\A i \in Instances :
         Same(i) /\ sessions'[i].generation = sessions[i].generation =>
             \A x \in sessions[i].provider.interactions :
                 \A y \in sessions'[i].provider.interactions :
                     x.status = "Resolved" /\ y.id = x.id => y = x]_vars

-----------------------------------------------------------------------------
(* Liveness. *)

\* Every accepted operation is eventually over unless the engine ignored its
\* answer; a start and a stop are always over in the end.
OperationSettles ==
    \A i \in Instances, o \in Operations :
        (i \in Registry /\ sessions[i].operation = o) ~>
        (i \notin Registry \/ sessions[i].operation # o \/ AnswerIgnored(i))

-----------------------------------------------------------------------------
(* What the source says and the code does not do. *)

\* "Starting a new generation invalidates history work, while host-scoped
\* capability discovery intentionally remains valid across that boundary"
\* (purge_generation_bound_history): the effect of a pending probe is queued
\* or with the host, unless its answer was ignored as invalid.
ProbeOwed ==
    \A i \in Registry : sessions[i].probe # NoOperation =>
        \/ sessions[i].probe \in ignored
        \/ \E e \in Outstanding :
            e.kind = "ProbeCapabilities" /\ e.operation = sessions[i].probe

\* "child_owned_interaction_restores_lead_state": the lead of a running session
\* waits for input only while an interaction is unresolved.
WaitingMeansUnresolved ==
    \A i \in Registry :
        sessions[i].status = "Running" /\ sessions[i].provider.lead = "WaitingForInput"
            => Unresolved(sessions[i].provider) # {}
=============================================================================
