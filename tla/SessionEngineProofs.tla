------------------------- MODULE SessionEngineProofs -------------------------
(***************************************************************************)
(* The safety of the control engine, for every set of instances, every     *)
(* event and every bound: theorems about SessionEngine with their proofs.  *)
(*                                                                         *)
(* The inductive invariant Inv is a conjunction of named parts: what holds *)
(* of each session by itself (SessionOK) and what relates the effects that *)
(* are queued or with the host to the sessions (the other conjuncts).      *)
(***************************************************************************)
EXTENDS SessionEngine, ProviderReducerProofs

-----------------------------------------------------------------------------
(* The inductive invariant. *)

\* A resume is authorised while the session is over and spawned while it starts.
PhaseFits(s) ==
    /\ s.resume.phase = "Authorizing" =>
          /\ s.status \in Startable /\ s.resume.operation = s.operation
          /\ s.resume.target \in ResumeTargets
          /\ s.resume.target = "CurrentProvider" => s.provider.session = s.resume.identity
    /\ s.resume.phase = "Spawning" => s.status \in {"Starting", "Stopping"}
    /\ s.resume.phase # "None" => s.transport # "Acp"
    /\ s.status \in Startable /\ s.operation # NoOperation => s.resume.phase = "Authorizing"

\* What a policy withholds, for one live session.
Withholds(s) ==
    s.status \in Live =>
        /\ "SemanticReadiness" \notin s.policy =>
               /\ s.provider.interactions = {} /\ s.provider.subagents = {}
               /\ s.provider.lead = "Idle"
        /\ "ProviderSessionIdentity" \notin s.policy /\ s.transport = "Acp" =>
               s.provider.session = None

\* One session by itself.
SessionOK(s) ==
    /\ s \in SessionState
    /\ WellFormed(s.provider) /\ IdsUsed(s.provider)
    /\ PhaseFits(s)
    /\ s.status \in Startable => Unresolved(s.provider) = {}
    /\ s.status = "Starting" =>
          \A x \in s.provider.interactions : x.status # "Resolving"
    /\ s.foreground = "Confirmed" => s.status = "Running"
    /\ Withholds(s)

Types ==
    /\ sessions \in [Instances -> SessionState \cup {Absent}]
    /\ generation_watermarks \in [Instances -> Generations \cup {NoGeneration}]
    /\ next_operation_id \in 1..(MaxOperation + 1)
    /\ effects \subseteq ControlEffect /\ inflight \subseteq ControlEffect
    /\ processes \subseteq Processes /\ exits \subseteq Processes
    /\ abandoned \subseteq Processes /\ ignored \subseteq Operations
    /\ \A i \in Registry : SessionOK(sessions[i])

\* The effect is of the current generation of its session; and of its
\* pending operation.
OfGeneration(e) ==
    e.instance \in Registry /\ e.generation = sessions[e.instance].generation
OfOperation(e) == OfGeneration(e) /\ e.operation = sessions[e.instance].operation

\* Nothing is newer than the watermark of its instance.
GenerationsUsed ==
    /\ \A i \in Registry : sessions[i].generation = generation_watermarks[i]
    /\ \A e \in Outstanding : e.generation <= generation_watermarks[e.instance]
    /\ \A q \in processes \cup exits : q.generation <= generation_watermarks[q.instance]

\* Operation ids are used once: no two outstanding effects share one.
OperationsUsed ==
    /\ \A e \in Outstanding : e.operation < next_operation_id
    /\ \A i \in Registry :
          /\ sessions[i].operation < next_operation_id
          /\ \A x \in sessions[i].provider.interactions :
                x.status = "Resolving" => x.operation < next_operation_id
    /\ effects \cap inflight = {}
    /\ \A e, f \in Outstanding : e.operation = f.operation => e = f

\* A starting session has only its spawn outstanding, and once the stop of a
\* stopping one is with the host nothing is queued behind it.
WorkersServe ==
    /\ WorkerEffectsLive
    /\ \A e \in Outstanding :
          e.kind \in WorkerKinds /\ OfGeneration(e)
              /\ sessions[e.instance].status = "Starting" =>
                  e.kind \in SpawnKinds /\ e.operation = sessions[e.instance].operation
    /\ \A e \in inflight, f \in effects :
          OfOperation(e) /\ sessions[e.instance].status = "Stopping"
              /\ f.instance = e.instance => f.kind \notin WorkerKinds

\* Someone waits for the process of an outstanding spawn, or its stop failed.
Awaited(e) ==
    \/ ProcessOf(e) \in abandoned
    \/ /\ OfGeneration(e)
       /\ \/ sessions[e.instance].status = "Stopping"
          \/ /\ sessions[e.instance].status = "Starting"
             /\ e.operation = sessions[e.instance].operation

\* A process is spawned once and exits once.
ProcessesTracked ==
    /\ \A e \in Outstanding : e.kind \in SpawnKinds =>
          ProcessOf(e) \notin processes \cup exits /\ Awaited(e)
    /\ \A e, f \in Outstanding :
          e.kind \in SpawnKinds /\ f.kind \in SpawnKinds /\ ProcessOf(e) = ProcessOf(f) => e = f
    /\ processes \cap exits = {}
    /\ ProcessOwned

\* What an answer expects to find.
Expected ==
    \A e \in Outstanding :
        /\ e.kind = "AuthorizeResume" => e.identity # None
        /\ OfOperation(e) /\ sessions[e.instance].status = "Running" /\ e.kind \in InputKinds =>
              sessions[e.instance].input # "None"
        /\ OfOperation(e) /\ sessions[e.instance].status = "Starting" /\ e.kind = "SpawnResume" =>
              sessions[e.instance].resume_identity # None

\* An outstanding input of a running session is its pending operation.
InputsPending ==
    \A e \in Outstanding : e.kind \in InputKinds /\ OfGeneration(e) =>
        /\ sessions[e.instance].status = "Running" =>
              e.operation = sessions[e.instance].operation
        /\ sessions[e.instance].foreground # "Confirmed"

\* A resolution in progress and its effect name each other.
ResolutionsMatch ==
    /\ \A i \in Registry : \A x \in sessions[i].provider.interactions :
          x.status = "Resolving" =>
              /\ x.operation # NoOperation
              /\ sessions[i].status = "Running" => x.operation = sessions[i].operation
              /\ \A e \in Outstanding : e.operation = x.operation =>
                    e.kind = "ResolveInteraction" /\ e.interaction = x.id
    /\ \A e \in effects : e.kind = "ResolveInteraction" =>
          /\ OfOperation(e) /\ sessions[e.instance].status = "Running"
          /\ Resolving(e) # {}

\* The answer to e ends the pending operation of its session.
Ends(e) ==
    LET s == sessions[e.instance] IN
    /\ s.status = "Starting" => e.kind \in SpawnKinds
    /\ s.status = "Stopping" => e.kind = "Stop"
    /\ s.status = "Running" =>
          /\ e.kind \in WorkerKinds \ (SpawnKinds \cup {"Stop"})
          /\ e.kind = "ResolveInteraction" => Resolving(e) # {}
    /\ s.status \in Startable => e.kind = "AuthorizeResume" /\ e.identity = s.resume.identity

\* The answer to the pending operation was ignored and no other is to come.
Forgone(i) ==
    AnswerIgnored(i) /\ \A e \in Outstanding : e.operation # sessions[i].operation

\* OperationOwed with an effect that fits the status.
Owed ==
    \A i \in Registry :
        \/ sessions[i].operation = NoOperation
        \/ Forgone(i)
        \/ \E e \in Outstanding : e.instance = i /\ OfOperation(e) /\ Ends(e)

Inv ==
    /\ Types
    /\ GenerationsUsed
    /\ OperationsUsed
    /\ WorkersServe
    /\ ProcessesTracked
    /\ Expected
    /\ InputsPending
    /\ ResolutionsMatch
    /\ Owed

-----------------------------------------------------------------------------
(* Data. *)

SideKinds == HistoryKinds \cup {"ProbeCapabilities"}

\* What the provers need of the types of a session and of an effect.
LEMMA DataFacts ==
    /\ \A s \in SessionState :
          /\ s # Absent /\ s.status \in SessionStatus /\ s.generation \in Nat
          /\ s.operation \in Nat /\ s.provider \in ProviderSnapshot
          /\ s.provider.interactions \subseteq ProviderInteraction
    /\ \A x \in ProviderInteraction : x.operation \in Nat /\ x.id \in Nat
    /\ \A e \in ControlEffect :
          /\ e.instance \in Instances /\ e.generation \in Nat /\ e.operation \in Nat
          /\ e.operation # NoOperation /\ e.generation # NoGeneration
          /\ ProcessOf(e) \in Processes
          /\ ProcessOf(e).instance = e.instance /\ ProcessOf(e).generation = e.generation
    /\ \A q \in Processes : q.instance \in Instances /\ q.generation \in Nat
<1>1. \A s \in SessionState :
          /\ s # Absent /\ s.status \in SessionStatus /\ s.generation \in Nat
          /\ s.operation \in Nat /\ s.provider \in ProviderSnapshot
    BY EngineAssumption DEF SessionState, Absent, SessionStatus, Generations
<1>2. \A p \in ProviderSnapshot : p.interactions \subseteq ProviderInteraction
    BY DEF ProviderSnapshot
<1>3. \A x \in ProviderInteraction : x.operation \in Nat /\ x.id \in Nat
    BY ReducerAssumption DEF ProviderInteraction
<1>4. \A e \in ControlEffect :
          /\ e.instance \in Instances /\ e.generation \in Nat /\ e.operation \in Nat
          /\ e.operation # NoOperation /\ e.generation # NoGeneration
    BY EngineAssumption DEF ControlEffect, Operations, Generations, NoOperation, NoGeneration
<1>5. \A e \in ControlEffect :
          /\ ProcessOf(e) \in Processes
          /\ ProcessOf(e).instance = e.instance /\ ProcessOf(e).generation = e.generation
    BY DEF ControlEffect, ProcessOf, Process, Processes
<1>6. \A q \in Processes : q.instance \in Instances /\ q.generation \in Nat
    BY EngineAssumption DEF Processes, Generations
<1>. QED  BY <1>1, <1>2, <1>3, <1>4, <1>5, <1>6

\* The kinds of effects exclude each other.
LEMMA KindFacts ==
    /\ SpawnKinds \subseteq WorkerKinds /\ InputKinds \subseteq WorkerKinds
    /\ SpawnKinds \cap InputKinds = {} /\ SpawnKinds \cap SideKinds = {}
    /\ WorkerKinds \cap SideKinds = {} /\ InputKinds \cap SideKinds = {}
    /\ "AuthorizeResume" \notin WorkerKinds \cup SideKinds
    /\ "Stop" \in WorkerKinds \ (SpawnKinds \cup InputKinds)
    /\ "ResolveInteraction" \in WorkerKinds \ (SpawnKinds \cup InputKinds)
    /\ "SpawnResume" \in SpawnKinds
    /\ Startable \cap Live = {}
BY DEF SpawnKinds, WorkerKinds, InputKinds, SideKinds, HistoryKinds, SettingKinds,
       Startable, Live

-----------------------------------------------------------------------------
(* Steps that leave the pending operation alone. *)

\* Only the session of i may change, and it stays a session.
Only(i) ==
    /\ i \in Registry
    /\ sessions' \in [Instances -> SessionState \cup {Absent}]
    /\ SessionOK(sessions'[i])
    /\ \A j \in Instances \ {i} : sessions'[j] = sessions[j]

\* Nothing that the workers depend on changes, and what is being resolved for
\* the pending operation still is.
Keeps(s, t) ==
    /\ t.status = s.status /\ t.generation = s.generation /\ t.operation = s.operation
    /\ t.input = s.input /\ t.resume = s.resume /\ t.resume_identity = s.resume_identity
    /\ t.foreground = "Confirmed" => s.foreground = "Confirmed"
    /\ \A x \in t.provider.interactions :
          x.status = "Resolving" => x \in s.provider.interactions
    /\ \A x \in s.provider.interactions :
          x.status = "Resolving" /\ x.operation = s.operation =>
              \E y \in t.provider.interactions :
                  y.status = "Resolving" /\ y.operation = s.operation

\* An effect of the lanes beside the worker is queued, or answered.
SideEffects(i) ==
    \/ UNCHANGED <<next_operation_id, effects, inflight>>
    \/ \E e \in ControlEffect :
          /\ e.kind \in SideKinds /\ e.operation = next_operation_id
          /\ e.instance = i /\ e.generation = sessions[i].generation
          /\ next_operation_id <= MaxOperation
          /\ next_operation_id' = next_operation_id + 1
          /\ effects' = effects \cup {e} /\ inflight' = inflight
    \/ \E e \in inflight :
          /\ e.kind \in SideKinds
          /\ inflight' = inflight \ {e}
          /\ UNCHANGED <<effects, next_operation_id>>

Quiet(i) ==
    /\ Only(i) /\ Keeps(sessions[i], sessions'[i])
    /\ SideEffects(i)
    /\ UNCHANGED <<generation_watermarks, processes, exits, abandoned, ignored>>

\* The view of a step that changes one session.
LEMMA OnlyView ==
    ASSUME Types, NEW i, Only(i)
    PROVE  /\ i \in Instances /\ Registry' = Registry
           /\ \A j \in Registry : sessions[j] \in SessionState /\ SessionOK(sessions[j])
           /\ \A j \in Registry : sessions'[j] \in SessionState /\ SessionOK(sessions'[j])
           /\ \A j \in Registry : j # i => sessions'[j] = sessions[j]
           /\ \A e : e.instance \in Registry /\ e.instance # i => Resolving(e)' = Resolving(e)
<1>1. i \in Instances /\ i \in Registry /\ sessions'[i] # Absent
    BY DataFacts DEF Only, Registry, SessionOK
<1>2. Registry' = Registry
    BY <1>1 DEF Only, Registry
<1>3. \A j \in Registry : j # i => sessions'[j] = sessions[j]
    BY DEF Only, Registry
<1>4. \A j \in Registry : sessions[j] \in SessionState /\ SessionOK(sessions[j])
    BY DEF Types, SessionOK
<1>5. \A j \in Registry : sessions'[j] \in SessionState /\ SessionOK(sessions'[j])
    BY <1>3, <1>4 DEF Only, SessionOK
<1>6. \A e : e.instance \in Registry /\ e.instance # i => Resolving(e)' = Resolving(e)
    BY <1>3 DEF Resolving
<1>. QED  BY <1>1, <1>2, <1>3, <1>4, <1>5, <1>6

\* What a side effect does to the outstanding effects.
LEMMA SideView ==
    ASSUME Types, OperationsUsed, NEW i \in Registry, SideEffects(i)
    PROVE  /\ next_operation_id' \in 1..(MaxOperation + 1)
           /\ next_operation_id' >= next_operation_id
           /\ effects' \subseteq ControlEffect /\ inflight' \subseteq ControlEffect
           /\ effects' \cap inflight' = {}
           /\ \A e \in effects' : e.kind \notin SideKinds => e \in effects
           /\ \A e \in inflight' : e \in inflight
           /\ \A e \in Outstanding : e.kind \notin SideKinds => e \in Outstanding'
           /\ \A e \in Outstanding' : e.kind \notin SideKinds => e \in Outstanding
           /\ \A e \in Outstanding' :
                 \/ e \in Outstanding
                 \/ /\ e.operation = next_operation_id /\ next_operation_id' > next_operation_id
                    /\ e.instance = i /\ e.generation = sessions[i].generation
           /\ \A e, f \in Outstanding' : e.operation = f.operation => e = f
<1>0. next_operation_id \in 1..(MaxOperation + 1) /\ MaxOperation \in Nat
    BY EngineAssumption DEF Types
<1>1. CASE UNCHANGED <<next_operation_id, effects, inflight>>
    BY <1>0, <1>1 DEF Types, Outstanding, OperationsUsed
<1>2. ASSUME NEW e \in ControlEffect, e.kind \in SideKinds, e.operation = next_operation_id,
             e.instance = i, e.generation = sessions[i].generation,
             next_operation_id <= MaxOperation,
             next_operation_id' = next_operation_id + 1,
             effects' = effects \cup {e}, inflight' = inflight
      PROVE  /\ next_operation_id' \in 1..(MaxOperation + 1)
             /\ next_operation_id' >= next_operation_id
             /\ effects' \subseteq ControlEffect /\ inflight' \subseteq ControlEffect
             /\ effects' \cap inflight' = {}
             /\ \A f \in effects' : f.kind \notin SideKinds => f \in effects
             /\ \A f \in inflight' : f \in inflight
             /\ \A f \in Outstanding : f.kind \notin SideKinds => f \in Outstanding'
             /\ \A f \in Outstanding' : f.kind \notin SideKinds => f \in Outstanding
             /\ \A f \in Outstanding' :
                   \/ f \in Outstanding
                   \/ /\ f.operation = next_operation_id /\ next_operation_id' > next_operation_id
                      /\ f.instance = i /\ f.generation = sessions[i].generation
             /\ \A f, g \in Outstanding' : f.operation = g.operation => f = g
    <2>1. Outstanding' = Outstanding \cup {e}
        BY <1>2 DEF Outstanding
    <2>2. \A f \in Outstanding : f.operation # e.operation
        BY <1>0, <1>2, DataFacts DEF OperationsUsed, Types, Outstanding
    <2>3. e \notin inflight
        BY <2>2 DEF Outstanding
    <2>. QED  BY <1>0, <1>2, <2>1, <2>2, <2>3 DEF Types, OperationsUsed
<1>3. ASSUME NEW e \in inflight, e.kind \in SideKinds, inflight' = inflight \ {e},
             UNCHANGED <<effects, next_operation_id>>
      PROVE  /\ next_operation_id' \in 1..(MaxOperation + 1)
             /\ next_operation_id' >= next_operation_id
             /\ effects' \subseteq ControlEffect /\ inflight' \subseteq ControlEffect
             /\ effects' \cap inflight' = {}
             /\ \A f \in effects' : f.kind \notin SideKinds => f \in effects
             /\ \A f \in inflight' : f \in inflight
             /\ \A f \in Outstanding : f.kind \notin SideKinds => f \in Outstanding'
             /\ \A f \in Outstanding' : f.kind \notin SideKinds => f \in Outstanding
             /\ \A f \in Outstanding' :
                   \/ f \in Outstanding
                   \/ /\ f.operation = next_operation_id /\ next_operation_id' > next_operation_id
                      /\ f.instance = i /\ f.generation = sessions[i].generation
             /\ \A f, g \in Outstanding' : f.operation = g.operation => f = g
    BY <1>0, <1>3 DEF Types, Outstanding, OperationsUsed
<1>. QED  BY <1>1, <1>2, <1>3 DEF SideEffects

\* An answer that was ignored stays so while the operation does.
LEMMA ForgoneKept ==
    ASSUME NEW j, Forgone(j), ignored \subseteq ignored',
           sessions'[j].operation = sessions[j].operation,
           sessions'[j].status = sessions[j].status,
           \A f \in Outstanding' : f \in Outstanding \/ f.operation # sessions[j].operation
    PROVE  Forgone(j)'
    BY DEF Forgone, AnswerIgnored

\* Steps that leave the pending operation alone preserve the invariant.
LEMMA QuietStep ==
    ASSUME Inv, NEW i, Quiet(i)
    PROVE  Inv'
<1> DEFINE s == sessions[i]
           t == sessions'[i]
<1>1. /\ Types /\ OperationsUsed /\ Only(i) /\ Keeps(s, t) /\ SideEffects(i) /\ i \in Registry
    BY DEF Inv, Quiet, Only
<1>2. /\ i \in Instances /\ Registry' = Registry
      /\ \A j \in Registry : sessions[j] \in SessionState /\ SessionOK(sessions[j])
      /\ \A j \in Registry : sessions'[j] \in SessionState /\ SessionOK(sessions'[j])
      /\ \A j \in Registry : j # i => sessions'[j] = sessions[j]
      /\ \A e : e.instance \in Registry /\ e.instance # i => Resolving(e)' = Resolving(e)
    BY <1>1, OnlyView
<1>3. /\ next_operation_id' \in 1..(MaxOperation + 1)
      /\ next_operation_id' >= next_operation_id
      /\ effects' \subseteq ControlEffect /\ inflight' \subseteq ControlEffect
      /\ effects' \cap inflight' = {}
    BY <1>1, SideView
<1>4. /\ \A e \in effects' : e.kind \notin SideKinds => e \in effects
      /\ \A e \in inflight' : e \in inflight
      /\ \A e \in Outstanding : e.kind \notin SideKinds => e \in Outstanding'
      /\ \A e \in Outstanding' : e.kind \notin SideKinds => e \in Outstanding
    BY <1>1, SideView
<1>5. /\ \A e \in Outstanding' :
            \/ e \in Outstanding
            \/ /\ e.operation = next_operation_id /\ next_operation_id' > next_operation_id
               /\ e.instance = i /\ e.generation = sessions[i].generation
      /\ \A e, f \in Outstanding' : e.operation = f.operation => e = f
    BY <1>1, SideView
<1>6. UNCHANGED <<generation_watermarks, processes, exits, abandoned, ignored>>
    BY DEF Quiet
<1>7. /\ Outstanding \subseteq ControlEffect /\ Outstanding' \subseteq ControlEffect
      /\ effects \subseteq Outstanding /\ inflight \subseteq Outstanding
      /\ effects' \subseteq Outstanding' /\ inflight' \subseteq Outstanding'
    BY <1>1, <1>3 DEF Types, Outstanding
<1>8. Types'
    BY <1>1, <1>2, <1>3, <1>6 DEF Types, Only
<1>9. \A j \in Registry :
          /\ sessions'[j].status = sessions[j].status
          /\ sessions'[j].generation = sessions[j].generation
          /\ sessions'[j].operation = sessions[j].operation
          /\ sessions'[j].input = sessions[j].input
          /\ sessions'[j].resume = sessions[j].resume
          /\ sessions'[j].resume_identity = sessions[j].resume_identity
          /\ sessions'[j].foreground = "Confirmed" => sessions[j].foreground = "Confirmed"
    BY <1>1, <1>2 DEF Keeps
<1>10. \A e : /\ OfGeneration(e)' <=> OfGeneration(e)
              /\ OfOperation(e)' <=> OfOperation(e)
    BY <1>2, <1>9 DEF OfGeneration, OfOperation
<1>11. \A j \in Registry : \A x \in sessions'[j].provider.interactions :
           x.status = "Resolving" => x \in sessions[j].provider.interactions
    BY <1>1, <1>2 DEF Keeps
<1>12. GenerationsUsed'
    BY <1>1, <1>2, <1>5, <1>6, <1>7, <1>9, DataFacts DEF Inv, GenerationsUsed
<1>13. OperationsUsed'
    <2>1. \A e \in Outstanding' : e.operation < next_operation_id'
        BY <1>1, <1>3, <1>5, <1>7, DataFacts, EngineAssumption DEF OperationsUsed, Types
    <2>2. \A j \in Registry' : sessions'[j].operation < next_operation_id'
        BY <1>1, <1>2, <1>3, <1>9, DataFacts, EngineAssumption DEF OperationsUsed, Types
    <2>3. \A j \in Registry' : \A x \in sessions'[j].provider.interactions :
             x.status = "Resolving" => x.operation < next_operation_id'
        BY <1>1, <1>2, <1>3, <1>11, DataFacts, EngineAssumption DEF OperationsUsed, Types
    <2>. QED  BY <1>3, <1>5, <2>1, <2>2, <2>3 DEF OperationsUsed
<1>14. WorkersServe'
    <2>1. WorkersServe
        BY DEF Inv
    <2>. QED  BY <1>2, <1>4, <1>7, <1>9, <1>10, <2>1, KindFacts
              DEF WorkersServe, WorkerEffectsLive, OfGeneration, OfOperation
<1>15. ProcessesTracked'
    <2>1. ProcessesTracked
        BY DEF Inv
    <2>2. \A e : Awaited(e) => Awaited(e)'
        BY <1>6, <1>9, <1>10 DEF Awaited, OfGeneration
    <2>3. ProcessOwned'
        BY <1>2, <1>6, <1>9, <2>1 DEF ProcessesTracked, ProcessOwned, Shown
    <2>. QED  BY <1>4, <1>6, <2>1, <2>2, <2>3, KindFacts DEF ProcessesTracked
<1>16. Expected'
    <2>1. Expected
        BY DEF Inv
    <2>. QED  BY <1>4, <1>9, <1>10, <2>1, KindFacts DEF Expected, OfOperation, OfGeneration
<1>17. InputsPending'
    <2>1. InputsPending
        BY DEF Inv
    <2>. QED  BY <1>4, <1>9, <1>10, <2>1, KindFacts DEF InputsPending, OfGeneration
<1>18. \A e \in Outstanding :
           OfOperation(e) /\ sessions[e.instance].status = "Running"
               /\ e.kind = "ResolveInteraction" /\ Resolving(e) # {} => Resolving(e)' # {}
    <2>. SUFFICES ASSUME NEW e \in Outstanding, OfOperation(e),
                         sessions[e.instance].status = "Running",
                         Resolving(e) # {}
                  PROVE  Resolving(e)' # {}
        OBVIOUS
    <2>1. CASE e.instance # i
        BY <1>2, <2>1 DEF OfOperation, OfGeneration
    <2>2. CASE e.instance = i
        <3>1. PICK x \in s.provider.interactions : x.status = "Resolving" /\ x.operation = s.operation
            BY <2>2 DEF Resolving, OfOperation
        <3>2. PICK y \in t.provider.interactions : y.status = "Resolving" /\ y.operation = s.operation
            BY <1>1, <3>1 DEF Keeps
        <3>3. y \in s.provider.interactions
            BY <1>1, <3>2 DEF Keeps
        <3>4. y.id = e.interaction
            BY <1>1, <2>2, <3>2, <3>3 DEF Inv, ResolutionsMatch, OfOperation
        <3>. QED  BY <2>2, <3>2, <3>4 DEF Resolving, OfOperation
    <2>. QED  BY <2>1, <2>2
<1>19. ResolutionsMatch'
    <2>1. ResolutionsMatch /\ OperationsUsed
        BY DEF Inv
    <2>2. \A j \in Registry' : \A x \in sessions'[j].provider.interactions :
            x.status = "Resolving" =>
              /\ x.operation # NoOperation
              /\ sessions'[j].status = "Running" => x.operation = sessions'[j].operation
        BY <1>2, <1>9, <1>11, <2>1 DEF ResolutionsMatch
    <2>3. \A j \in Registry' : \A x \in sessions'[j].provider.interactions :
            x.status = "Resolving" =>
              \A e \in Outstanding' : e.operation = x.operation =>
                    e.kind = "ResolveInteraction" /\ e.interaction = x.id
        <3>. SUFFICES ASSUME NEW j \in Registry, NEW x \in sessions'[j].provider.interactions,
                             x.status = "Resolving", NEW e \in Outstanding',
                             e.operation = x.operation
                      PROVE  e.kind = "ResolveInteraction" /\ e.interaction = x.id
            BY <1>2
        <3>1. x \in sessions[j].provider.interactions
            BY <1>11
        <3>2. x.operation < next_operation_id
            BY <2>1, <3>1 DEF OperationsUsed
        <3>3. e \in Outstanding
            BY <1>3, <1>5, <1>7, <3>2, DataFacts
        <3>. QED  BY <2>1, <3>1, <3>3 DEF ResolutionsMatch
    <2>4. \A e \in effects' : e.kind = "ResolveInteraction" =>
            /\ OfOperation(e)' /\ sessions'[e.instance].status = "Running"
            /\ Resolving(e)' # {}
        BY <1>4, <1>7, <1>9, <1>10, <1>18, <2>1, KindFacts
           DEF ResolutionsMatch, OfOperation, OfGeneration
    <2>. QED  BY <2>2, <2>3, <2>4 DEF ResolutionsMatch
<1>20. Owed'
    <2>. SUFFICES ASSUME NEW j \in Registry, sessions[j].operation # NoOperation
                  PROVE  \/ Forgone(j)'
                         \/ \E e \in Outstanding' : e.instance = j /\ OfOperation(e)' /\ Ends(e)'
        BY <1>2, <1>9 DEF Owed
    <2>1. Forgone(j) => Forgone(j)'
        <3>1. sessions[j].operation < next_operation_id /\ sessions[j].operation \in Nat
            BY <1>1, <1>2, DataFacts DEF OperationsUsed
        <3>2. \A f \in Outstanding' : f \in Outstanding \/ f.operation # sessions[j].operation
            BY <1>5, <3>1
        <3>. QED  BY <1>6, <1>9, <3>2, ForgoneKept
    <2>2. ASSUME NEW e \in Outstanding, e.instance = j, OfOperation(e), Ends(e)
          PROVE  \E f \in Outstanding' : f.instance = j /\ OfOperation(f)' /\ Ends(f)'
        <3>1. sessions[j].status \in SessionStatus
            BY <1>2, DataFacts
        <3>2. e \in Outstanding'
            BY <1>4, <2>2, <3>1, KindFacts DEF Ends, SessionStatus, Startable
        <3>3. Ends(e)'
            BY <1>9, <1>18, <2>2 DEF Ends
        <3>. QED  BY <1>10, <2>2, <3>2, <3>3
    <2>. QED  BY <2>1, <2>2 DEF Inv, Owed
<1>. QED  BY <1>8, <1>12, <1>13, <1>14, <1>15, <1>16, <1>17, <1>19, <1>20 DEF Inv

-----------------------------------------------------------------------------
(* Steps that end the pending operation of a running session. *)

\* The outstanding effects only shrink, and only those of i.
Shrinks(i) ==
    /\ effects' \subseteq effects /\ inflight' \subseteq inflight
    /\ \A e \in Outstanding : e.instance # i => e \in Outstanding'
    /\ UNCHANGED next_operation_id

\* The operation of i is over; what may still be outstanding under its id is
\* the resolution of an interaction that settled meanwhile.
Frees(i) ==
    /\ Only(i) /\ Shrinks(i)
    /\ sessions[i].status = "Running" /\ sessions'[i].status = "Running"
    /\ sessions'[i].generation = sessions[i].generation
    /\ sessions'[i].operation = NoOperation
    /\ \A x \in sessions'[i].provider.interactions : x.status # "Resolving"
    /\ \A e \in Outstanding' : e.operation = sessions[i].operation =>
          e.kind = "ResolveInteraction" /\ e \notin effects'
    /\ UNCHANGED <<generation_watermarks, processes, exits, abandoned, ignored>>

\* They preserve the invariant.
LEMMA FreesStep ==
    ASSUME Inv, NEW i, Frees(i)
    PROVE  Inv'
<1> DEFINE s == sessions[i]
           t == sessions'[i]
<1>1. Types /\ OperationsUsed /\ Only(i) /\ Shrinks(i) /\ i \in Registry
    BY DEF Inv, Frees, Only
<1>2. /\ i \in Instances /\ Registry' = Registry
      /\ \A j \in Registry : sessions[j] \in SessionState /\ SessionOK(sessions[j])
      /\ \A j \in Registry : sessions'[j] \in SessionState /\ SessionOK(sessions'[j])
      /\ \A j \in Registry : j # i => sessions'[j] = sessions[j]
      /\ \A e : e.instance \in Registry /\ e.instance # i => Resolving(e)' = Resolving(e)
    BY <1>1, OnlyView
<1>3. /\ effects' \subseteq effects /\ inflight' \subseteq inflight
      /\ \A e \in Outstanding : e.instance # i => e \in Outstanding'
      /\ next_operation_id' = next_operation_id
    BY <1>1 DEF Shrinks
<1>4. /\ s.status = "Running" /\ t.status = "Running" /\ t.generation = s.generation
      /\ t.operation = NoOperation
      /\ \A x \in t.provider.interactions : x.status # "Resolving"
    BY DEF Frees
<1>5. \A e \in Outstanding' : e.operation = s.operation =>
          e.kind = "ResolveInteraction" /\ e \notin effects'
    BY DEF Frees
<1>6. UNCHANGED <<generation_watermarks, processes, exits, abandoned, ignored>>
    BY DEF Frees
<1>7. /\ Outstanding \subseteq ControlEffect /\ Outstanding' \subseteq Outstanding
      /\ effects \subseteq Outstanding /\ inflight \subseteq Outstanding
      /\ effects' \subseteq Outstanding' /\ inflight' \subseteq Outstanding'
    BY <1>1, <1>3 DEF Types, Outstanding
<1>8. Types'
    BY <1>1, <1>2, <1>3, <1>6 DEF Types, Only
<1>. HIDE DEF s, t
<1>9. \A j \in Registry : sessions'[j].generation = sessions[j].generation
                       /\ sessions'[j].status = sessions[j].status
    BY <1>2, <1>4 DEF s, t
<1>10. /\ \A e : OfGeneration(e)' <=> OfGeneration(e)
       /\ \A e : e.instance # i => (OfOperation(e)' <=> OfOperation(e))
       /\ \A e \in ControlEffect : e.instance = i => ~OfOperation(e)'
    BY <1>2, <1>4, <1>9, DataFacts DEF OfGeneration, OfOperation, t
<1>11. \A j \in Registry : \A x \in sessions'[j].provider.interactions :
           x.status = "Resolving" => j # i /\ x \in sessions[j].provider.interactions
    BY <1>2, <1>4 DEF t
<1>12. GenerationsUsed'
    BY <1>2, <1>6, <1>7, <1>9 DEF Inv, GenerationsUsed
<1>13. OperationsUsed'
    <2>1. \A j \in Registry' : sessions'[j].operation < next_operation_id'
        <3>1. next_operation_id \in Nat /\ next_operation_id > 0
            BY <1>1, EngineAssumption DEF Types
        <3>. QED  BY <1>1, <1>2, <1>3, <1>4, <3>1 DEF OperationsUsed, t, NoOperation
    <2>. QED  BY <1>1, <1>2, <1>3, <1>7, <1>11, <2>1 DEF OperationsUsed
<1>14. WorkersServe'
    <2>1. WorkersServe
        BY DEF Inv
    <2>2. WorkerEffectsLive'
        BY <1>2, <1>3, <1>9, <2>1 DEF WorkersServe, WorkerEffectsLive
    <2>3. \A e \in Outstanding' :
             e.kind \in WorkerKinds /\ OfGeneration(e)'
              /\ sessions'[e.instance].status = "Starting" =>
                  e.kind \in SpawnKinds /\ e.operation = sessions'[e.instance].operation
        BY <1>2, <1>4, <1>7, <1>9, <1>10, <2>1 DEF WorkersServe, OfGeneration, t
    <2>4. \A e \in inflight', f \in effects' :
            OfOperation(e)' /\ sessions'[e.instance].status = "Stopping"
              /\ f.instance = e.instance => f.kind \notin WorkerKinds
        BY <1>2, <1>3, <1>4, <1>9, <1>10, <2>1
           DEF WorkersServe, OfOperation, OfGeneration, s, t
    <2>. QED  BY <2>2, <2>3, <2>4 DEF WorkersServe
<1>15. ProcessesTracked'
    <2>1. ProcessesTracked
        BY DEF Inv
    <2>2. \A e : Awaited(e) => Awaited(e)'
        BY <1>2, <1>4, <1>6, <1>9, <1>10 DEF Awaited, OfGeneration, s
    <2>3. ProcessOwned'
        BY <1>2, <1>6, <1>9, <2>1 DEF ProcessesTracked, ProcessOwned, Shown
    <2>. QED  BY <1>6, <1>7, <2>1, <2>2, <2>3 DEF ProcessesTracked
<1>16. Expected'
    <2>1. Expected
        BY DEF Inv
    <2>. QED  BY <1>2, <1>7, <1>10, <2>1 DEF Expected, OfOperation, OfGeneration
<1>17. InputsPending'
    <2>1. InputsPending
        BY DEF Inv
    <2>2. ASSUME NEW e \in Outstanding', e.kind \in InputKinds, OfGeneration(e)'
          PROVE  e.instance # i
        <3>1. SUFFICES ASSUME e.instance = i PROVE FALSE
            OBVIOUS
        <3>2. e.operation = s.operation
            BY <1>4, <1>7, <1>10, <2>1, <2>2, <3>1 DEF InputsPending, s
        <3>. QED  BY <1>5, <2>2, <3>2, KindFacts
    <2>. QED  BY <1>2, <1>7, <1>10, <2>1, <2>2 DEF InputsPending, OfGeneration
<1>18. ResolutionsMatch'
    <2>1. ResolutionsMatch
        BY DEF Inv
    <2>2. \A e \in effects' : e.kind = "ResolveInteraction" =>
            /\ OfOperation(e)' /\ sessions'[e.instance].status = "Running"
            /\ Resolving(e)' # {}
        <3>. SUFFICES ASSUME NEW e \in effects', e.kind = "ResolveInteraction"
                      PROVE  /\ OfOperation(e)' /\ sessions'[e.instance].status = "Running"
                             /\ Resolving(e)' # {}
            OBVIOUS
        <3>1. OfOperation(e) /\ sessions[e.instance].status = "Running" /\ Resolving(e) # {}
            BY <1>3, <2>1 DEF ResolutionsMatch
        <3>2. e.instance # i
            BY <1>5, <1>7, <3>1 DEF OfOperation, s
        <3>. QED  BY <1>2, <1>10, <3>1, <3>2 DEF OfOperation, OfGeneration
    <2>. QED  BY <1>2, <1>7, <1>11, <2>1, <2>2 DEF ResolutionsMatch
<1>19. Owed'
    <2>. SUFFICES ASSUME NEW j \in Registry, sessions'[j].operation # NoOperation
                  PROVE  \/ Forgone(j)'
                         \/ \E e \in Outstanding' : e.instance = j /\ OfOperation(e)' /\ Ends(e)'
        BY <1>2 DEF Owed
    <2>0. j # i /\ sessions'[j] = sessions[j]
        BY <1>2, <1>4 DEF t
    <2>1. Forgone(j) => Forgone(j)'
        BY <1>6, <1>7, <2>0, ForgoneKept
    <2>2. ASSUME NEW e \in Outstanding, e.instance = j, OfOperation(e), Ends(e)
          PROVE  \E f \in Outstanding' : f.instance = j /\ OfOperation(f)' /\ Ends(f)'
        <3>1. Ends(e)' /\ e \in Outstanding'
            BY <1>2, <1>3, <2>0, <2>2 DEF Ends
        <3>. QED  BY <1>10, <2>0, <2>2, <3>1
    <2>. QED  BY <2>0, <2>1, <2>2 DEF Inv, Owed
<1>. QED  BY <1>8, <1>12, <1>13, <1>14, <1>15, <1>16, <1>17, <1>18, <1>19 DEF Inv

-----------------------------------------------------------------------------
(* Steps that give a session a new pending operation. *)

\* The effect of a new operation is queued.
Queues(i, e) ==
    /\ e \in ControlEffect
    /\ e.instance = i /\ e.operation = next_operation_id
    /\ next_operation_id <= MaxOperation
    /\ next_operation_id' = next_operation_id + 1
    /\ e \in effects' /\ effects' \subseteq effects \cup {e}
    /\ inflight' = inflight
    /\ \A f \in effects : f.instance # i => f \in effects'

\* What queuing does to the outstanding effects.
LEMMA QueuesView ==
    ASSUME Types, OperationsUsed, NEW i, NEW e, Queues(i, e)
    PROVE  /\ next_operation_id' \in 1..(MaxOperation + 1)
           /\ next_operation_id \in Nat /\ next_operation_id' = next_operation_id + 1
           /\ effects' \subseteq ControlEffect /\ inflight' \subseteq ControlEffect
           /\ effects' \cap inflight' = {}
           /\ Outstanding \subseteq ControlEffect
           /\ Outstanding' \subseteq ControlEffect
           /\ e \in Outstanding' /\ e \notin Outstanding
           /\ e.instance = i /\ e.operation = next_operation_id /\ inflight' = inflight
           /\ \A f \in Outstanding' : f = e \/ f \in Outstanding
           /\ \A f \in effects' : f = e \/ f \in effects
           /\ \A f \in Outstanding : f.instance # i => f \in Outstanding'
           /\ \A f \in Outstanding : f.operation # e.operation
           /\ \A f \in Outstanding' : f.operation < next_operation_id'
           /\ \A f, h \in Outstanding' : f.operation = h.operation => f = h
<1>1. next_operation_id \in 1..(MaxOperation + 1) /\ MaxOperation \in Nat
    BY EngineAssumption DEF Types
<1>2. /\ Outstanding' \subseteq Outstanding \cup {e} /\ e \in Outstanding'
      /\ \A f \in Outstanding : f.instance # i => f \in Outstanding'
      /\ \A f \in effects' : f = e \/ f \in effects
    BY DEF Queues, Outstanding
<1>3. Outstanding \subseteq ControlEffect
    BY DEF Types, Outstanding
<1>4. \A f \in Outstanding : f.operation < next_operation_id /\ f.operation \in Nat
    BY <1>3, DataFacts DEF OperationsUsed
<1>5. e.operation = next_operation_id /\ next_operation_id' = next_operation_id + 1
    BY DEF Queues
<1>6. \A f \in Outstanding : f.operation # e.operation
    BY <1>1, <1>4, <1>5
<1>7. e \notin Outstanding
    BY <1>6
<1>8. effects' \cap inflight' = {}
    BY <1>7 DEF Queues, Outstanding, OperationsUsed
<1>9. \A f \in Outstanding' : f.operation < next_operation_id'
    BY <1>1, <1>2, <1>4, <1>5
<1>10. \A f, h \in Outstanding' : f.operation = h.operation => f = h
    BY <1>2, <1>6 DEF OperationsUsed
<1>11. /\ effects' \subseteq ControlEffect /\ inflight' \subseteq ControlEffect
       /\ Outstanding' \subseteq ControlEffect
    BY <1>2, <1>3 DEF Queues, Types
<1>12. next_operation_id' \in 1..(MaxOperation + 1) /\ next_operation_id \in Nat
    BY <1>1, <1>5 DEF Queues
<1>. QED  BY <1>2, <1>3, <1>5, <1>6, <1>7, <1>8, <1>9, <1>10, <1>11, <1>12 DEF Queues

\* A running session without a pending operation takes one up.
Begins(i, e) ==
    /\ Only(i) /\ Queues(i, e)
    /\ e.kind \in WorkerKinds \ (SpawnKinds \cup {"Stop"})
    /\ e.generation = sessions[i].generation
    /\ effects' = effects \cup {e}
    /\ sessions[i].status = "Running" /\ sessions[i].operation = NoOperation
    /\ sessions'[i].status = "Running" /\ sessions'[i].operation = next_operation_id
    /\ sessions'[i].generation = sessions[i].generation
    /\ sessions'[i].foreground = "Confirmed" => sessions[i].foreground = "Confirmed"
    /\ e.kind \in InputKinds =>
          sessions'[i].input # "None" /\ sessions'[i].foreground # "Confirmed"
    /\ e.kind = "ResolveInteraction" =>
          \E x \in sessions'[i].provider.interactions :
              x.status = "Resolving" /\ x.operation = e.operation /\ x.id = e.interaction
    /\ \A x \in sessions'[i].provider.interactions : x.status = "Resolving" =>
          \/ x \in sessions[i].provider.interactions
          \/ /\ e.kind = "ResolveInteraction"
             /\ x.operation = e.operation /\ x.id = e.interaction
    /\ UNCHANGED <<generation_watermarks, processes, exits, abandoned, ignored>>

\* Such steps preserve the invariant.
LEMMA BeginsStep ==
    ASSUME Inv, NEW i, NEW e, Begins(i, e)
    PROVE  Inv'
<1> DEFINE s == sessions[i]
           t == sessions'[i]
<1>1. Types /\ OperationsUsed /\ Only(i) /\ Queues(i, e) /\ i \in Registry
    BY DEF Inv, Begins, Only
<1>2. /\ i \in Instances /\ Registry' = Registry
      /\ \A j \in Registry : sessions[j] \in SessionState /\ SessionOK(sessions[j])
      /\ \A j \in Registry : sessions'[j] \in SessionState /\ SessionOK(sessions'[j])
      /\ \A j \in Registry : j # i => sessions'[j] = sessions[j]
      /\ \A f : f.instance \in Registry /\ f.instance # i => Resolving(f)' = Resolving(f)
    BY <1>1, OnlyView
<1>3. /\ next_operation_id' \in 1..(MaxOperation + 1)
      /\ next_operation_id \in Nat /\ next_operation_id' = next_operation_id + 1
      /\ effects' \subseteq ControlEffect /\ inflight' \subseteq ControlEffect
      /\ effects' \cap inflight' = {}
      /\ \A f \in Outstanding' : f.operation < next_operation_id'
      /\ \A f, h \in Outstanding' : f.operation = h.operation => f = h
    BY <1>1, QueuesView
<1>4. /\ Outstanding \subseteq ControlEffect /\ Outstanding' \subseteq ControlEffect
      /\ e \in Outstanding' /\ e \notin Outstanding
      /\ e.instance = i /\ e.operation = next_operation_id /\ inflight' = inflight
      /\ \A f \in Outstanding' : f = e \/ f \in Outstanding
      /\ \A f \in effects' : f = e \/ f \in effects
      /\ \A f \in Outstanding : f.operation # e.operation
    BY <1>1, QueuesView
<1>5. /\ e.kind \in WorkerKinds \ (SpawnKinds \cup {"Stop"}) /\ e.generation = s.generation
      /\ s.status = "Running" /\ s.operation = NoOperation
      /\ t.status = "Running" /\ t.operation = next_operation_id /\ t.generation = s.generation
      /\ t.foreground = "Confirmed" => s.foreground = "Confirmed"
      /\ e.kind \in InputKinds => t.input # "None" /\ t.foreground # "Confirmed"
    BY DEF Begins
<1>6. /\ UNCHANGED <<generation_watermarks, processes, exits, abandoned, ignored>>
      /\ Outstanding \subseteq Outstanding'
      /\ effects \subseteq Outstanding /\ inflight \subseteq Outstanding
    BY DEF Begins, Queues, Outstanding
<1>7. /\ e.kind = "ResolveInteraction" =>
            \E x \in t.provider.interactions :
                x.status = "Resolving" /\ x.operation = e.operation /\ x.id = e.interaction
      /\ \A x \in t.provider.interactions : x.status = "Resolving" =>
            \/ x \in s.provider.interactions
            \/ e.kind = "ResolveInteraction" /\ x.operation = e.operation /\ x.id = e.interaction
    BY DEF Begins
<1>8. Types'
    BY <1>1, <1>2, <1>3, <1>6 DEF Types, Only
<1>. HIDE DEF s, t
<1>9. \A j \in Registry : sessions'[j].generation = sessions[j].generation
                       /\ sessions'[j].status = sessions[j].status
    BY <1>2, <1>5 DEF s, t
<1>10. /\ \A f : OfGeneration(f)' <=> OfGeneration(f)
       /\ \A f : f.instance # i => (OfOperation(f)' <=> OfOperation(f))
       /\ OfOperation(e)'
       /\ \A f \in Outstanding : f.instance = i => ~OfOperation(f)' /\ ~OfOperation(f)
    BY <1>1, <1>2, <1>4, <1>5, <1>9, DataFacts DEF OfGeneration, OfOperation, s, t
<1>11. \A x \in s.provider.interactions : x.status # "Resolving"
    BY <1>1, <1>5 DEF Inv, ResolutionsMatch, s
<1>12. GenerationsUsed'
    BY <1>1, <1>2, <1>4, <1>5, <1>6, <1>9, DataFacts DEF Inv, GenerationsUsed, s
<1>13. OperationsUsed'
    <2>1. \A j \in Registry' : sessions'[j].operation < next_operation_id'
        BY <1>1, <1>2, <1>3, <1>5, DataFacts DEF OperationsUsed, t
    <2>2. \A j \in Registry' : \A x \in sessions'[j].provider.interactions :
             x.status = "Resolving" => x.operation < next_operation_id'
        <3>. SUFFICES ASSUME NEW j \in Registry, NEW x \in sessions'[j].provider.interactions,
                             x.status = "Resolving"
                      PROVE  x.operation < next_operation_id'
            BY <1>2
        <3>1. CASE j = i
            BY <1>3, <1>4, <1>7, <1>11, <3>1 DEF t
        <3>2. CASE j # i
            BY <1>1, <1>2, <1>3, <3>2, DataFacts DEF OperationsUsed
        <3>. QED  BY <3>1, <3>2
    <2>. QED  BY <1>3, <2>1, <2>2 DEF OperationsUsed
<1>14. WorkersServe'
    <2>1. WorkersServe
        BY DEF Inv
    <2>2. WorkerEffectsLive'
        BY <1>1, <1>2, <1>4, <1>5, <1>9, <2>1 DEF WorkersServe, WorkerEffectsLive, Live, s
    <2>3. \A f \in Outstanding' :
             f.kind \in WorkerKinds /\ OfGeneration(f)'
              /\ sessions'[f.instance].status = "Starting" =>
                  f.kind \in SpawnKinds /\ f.operation = sessions'[f.instance].operation
        BY <1>2, <1>4, <1>5, <1>9, <1>10, <2>1 DEF WorkersServe, OfGeneration, t
    <2>4. \A f \in inflight', h \in effects' :
            OfOperation(f)' /\ sessions'[f.instance].status = "Stopping"
              /\ h.instance = f.instance => h.kind \notin WorkerKinds
        BY <1>2, <1>4, <1>5, <1>9, <1>10, <2>1
           DEF WorkersServe, OfOperation, OfGeneration, s, t
    <2>. QED  BY <2>2, <2>3, <2>4 DEF WorkersServe
<1>15. ProcessesTracked'
    <2>1. ProcessesTracked
        BY DEF Inv
    <2>2. \A f : Awaited(f) => Awaited(f)'
        BY <1>2, <1>5, <1>6, <1>9, <1>10 DEF Awaited, OfGeneration, s
    <2>3. ProcessOwned'
        BY <1>2, <1>6, <1>9, <2>1 DEF ProcessesTracked, ProcessOwned, Shown
    <2>. QED  BY <1>4, <1>5, <1>6, <2>1, <2>2, <2>3 DEF ProcessesTracked
<1>16. Expected'
    <2>1. Expected
        BY DEF Inv
    <2>. QED  BY <1>2, <1>4, <1>5, <1>10, <2>1, KindFacts
              DEF Expected, OfOperation, OfGeneration, t
<1>17. InputsPending'
    <2>1. InputsPending
        BY DEF Inv
    <2>2. ASSUME NEW f \in Outstanding, f.kind \in InputKinds, OfGeneration(f)
          PROVE  f.instance # i
        BY <1>4, <1>5, <2>1, <2>2, DataFacts DEF InputsPending, s
    <2>. QED  BY <1>2, <1>4, <1>5, <1>10, <2>1, <2>2 DEF InputsPending, OfGeneration, t
<1>18. ResolutionsMatch'
    <2>1. ResolutionsMatch
        BY DEF Inv
    <2>2. ASSUME NEW j \in Registry, NEW x \in sessions'[j].provider.interactions,
                 x.status = "Resolving"
          PROVE  /\ x.operation # NoOperation
                 /\ sessions'[j].status = "Running" => x.operation = sessions'[j].operation
                 /\ \A f \in Outstanding' : f.operation = x.operation =>
                       f.kind = "ResolveInteraction" /\ f.interaction = x.id
        <3>1. CASE j = i
            <4>1. e.kind = "ResolveInteraction" /\ x.operation = e.operation /\ x.id = e.interaction
                BY <1>7, <1>11, <2>2, <3>1 DEF t
            <4>. QED  BY <1>4, <1>5, <3>1, <4>1, DataFacts DEF t
        <3>2. CASE j # i
            <4>1. x.operation < next_operation_id /\ x \in sessions[j].provider.interactions
                BY <1>1, <1>2, <2>2, <3>2 DEF OperationsUsed
            <4>2. x.operation # e.operation
                BY <1>3, <1>4, <4>1
            <4>. QED  BY <1>2, <1>4, <2>1, <2>2, <3>2, <4>1, <4>2 DEF ResolutionsMatch
        <3>. QED  BY <3>1, <3>2
    <2>3. ASSUME NEW f \in effects', f.kind = "ResolveInteraction"
          PROVE  /\ OfOperation(f)' /\ sessions'[f.instance].status = "Running"
                 /\ Resolving(f)' # {}
        <3>1. CASE f = e
            BY <1>4, <1>5, <1>7, <1>10, <2>3, <3>1 DEF Resolving, t
        <3>2. CASE f # e
            <4>1. f \in effects /\ f \in Outstanding
                BY <1>4, <1>6, <2>3, <3>2
            <4>2. OfOperation(f) /\ sessions[f.instance].status = "Running" /\ Resolving(f) # {}
                BY <2>1, <2>3, <4>1 DEF ResolutionsMatch
            <4>. QED  BY <1>2, <1>10, <4>1, <4>2 DEF OfOperation, OfGeneration
        <3>. QED  BY <3>1, <3>2
    <2>. QED  BY <1>2, <2>2, <2>3 DEF ResolutionsMatch
<1>19. Owed'
    <2>. SUFFICES ASSUME NEW j \in Registry, sessions'[j].operation # NoOperation
                  PROVE  \/ Forgone(j)'
                         \/ \E f \in Outstanding' : f.instance = j /\ OfOperation(f)' /\ Ends(f)'
        BY <1>2 DEF Owed
    <2>1. CASE j = i
        <3>1. Ends(e)'
            BY <1>4, <1>5, <1>7 DEF Ends, Resolving, t, Startable
        <3>. QED  BY <1>4, <1>10, <2>1, <3>1
    <2>2. CASE j # i
        <3>1. Forgone(j) => Forgone(j)'
            <4>1. sessions[j].operation < next_operation_id /\ sessions[j].operation \in Nat
                BY <1>1, <1>2, DataFacts DEF OperationsUsed
            <4>2. \A f \in Outstanding' : f \in Outstanding \/ f.operation # sessions[j].operation
                BY <1>4, <4>1
            <4>. QED  BY <1>2, <1>6, <2>2, <4>2, ForgoneKept
        <3>2. ASSUME NEW f \in Outstanding, f.instance = j, OfOperation(f), Ends(f)
              PROVE  \E h \in Outstanding' : h.instance = j /\ OfOperation(h)' /\ Ends(h)'
            <4>1. Ends(f)'
                BY <1>2, <2>2, <3>2 DEF Ends
            <4>. QED  BY <1>6, <1>10, <2>2, <3>2, <4>1
        <3>. QED  BY <1>2, <2>2, <3>1, <3>2 DEF Inv, Owed
    <2>. QED  BY <2>1, <2>2
<1>. QED  BY <1>8, <1>12, <1>13, <1>14, <1>15, <1>16, <1>17, <1>18, <1>19 DEF Inv

\* A starting or running session is asked to stop.
Stops(i, e) ==
    /\ Only(i) /\ Queues(i, e)
    /\ e.kind = "Stop" /\ e.generation = sessions[i].generation
    /\ \A f \in effects' : f.instance = i => f.kind # "ResolveInteraction"
    /\ sessions[i].status \in {"Starting", "Running"}
    /\ sessions'[i].status = "Stopping" /\ sessions'[i].operation = next_operation_id
    /\ sessions'[i].generation = sessions[i].generation
    /\ \A x \in sessions'[i].provider.interactions : x.status = "Resolving" =>
          x \in sessions[i].provider.interactions
    /\ UNCHANGED <<generation_watermarks, processes, exits, abandoned, ignored>>

\* Such a step preserves the invariant.
LEMMA StopsStep ==
    ASSUME Inv, NEW i, NEW e, Stops(i, e)
    PROVE  Inv'
<1> DEFINE s == sessions[i]
           t == sessions'[i]
<1>1. Types /\ OperationsUsed /\ Only(i) /\ Queues(i, e) /\ i \in Registry
    BY DEF Inv, Stops, Only
<1>2. /\ i \in Instances /\ Registry' = Registry
      /\ \A j \in Registry : sessions[j] \in SessionState /\ SessionOK(sessions[j])
      /\ \A j \in Registry : sessions'[j] \in SessionState /\ SessionOK(sessions'[j])
      /\ \A j \in Registry : j # i => sessions'[j] = sessions[j]
      /\ \A f : f.instance \in Registry /\ f.instance # i => Resolving(f)' = Resolving(f)
    BY <1>1, OnlyView
<1>3. /\ next_operation_id' \in 1..(MaxOperation + 1)
      /\ next_operation_id \in Nat /\ next_operation_id' = next_operation_id + 1
      /\ effects' \subseteq ControlEffect /\ inflight' \subseteq ControlEffect
      /\ effects' \cap inflight' = {}
      /\ \A f \in Outstanding' : f.operation < next_operation_id'
      /\ \A f, h \in Outstanding' : f.operation = h.operation => f = h
    BY <1>1, QueuesView
<1>4. /\ Outstanding \subseteq ControlEffect /\ Outstanding' \subseteq ControlEffect
      /\ e \in Outstanding' /\ e \notin Outstanding
      /\ e.instance = i /\ e.operation = next_operation_id /\ inflight' = inflight
      /\ \A f \in Outstanding' : f = e \/ f \in Outstanding
      /\ \A f \in effects' : f = e \/ f \in effects
      /\ \A f \in Outstanding : f.operation # e.operation
      /\ \A f \in Outstanding : f.instance # i => f \in Outstanding'
    BY <1>1, QueuesView
<1>5. /\ e.kind = "Stop" /\ e.generation = s.generation
      /\ s.status \in {"Starting", "Running"}
      /\ t.status = "Stopping" /\ t.operation = next_operation_id /\ t.generation = s.generation
      /\ \A f \in effects' : f.instance = i => f.kind # "ResolveInteraction"
      /\ \A x \in t.provider.interactions : x.status = "Resolving" =>
            x \in s.provider.interactions
    BY DEF Stops
<1>6. /\ UNCHANGED <<generation_watermarks, processes, exits, abandoned, ignored>>
      /\ effects \subseteq Outstanding /\ inflight \subseteq Outstanding
    BY DEF Stops, Outstanding
<1>8. Types'
    BY <1>1, <1>2, <1>3, <1>6 DEF Types, Only
<1>. HIDE DEF s, t
<1>9. \A j \in Registry : sessions'[j].generation = sessions[j].generation
    BY <1>2, <1>5 DEF s, t
<1>10. /\ \A f : OfGeneration(f)' <=> OfGeneration(f)
       /\ \A f : f.instance # i => (OfOperation(f)' <=> OfOperation(f))
       /\ OfOperation(e)'
       /\ \A f \in Outstanding : f.instance = i => ~OfOperation(f)'
    BY <1>1, <1>2, <1>4, <1>5, <1>9, DataFacts DEF OfGeneration, OfOperation, s, t
<1>11. \A j \in Registry : \A x \in sessions'[j].provider.interactions :
           x.status = "Resolving" => x \in sessions[j].provider.interactions
    BY <1>2, <1>5 DEF s, t
<1>12. GenerationsUsed'
    BY <1>1, <1>2, <1>4, <1>5, <1>6, <1>9, DataFacts DEF Inv, GenerationsUsed, s
<1>13. OperationsUsed'
    <2>1. \A j \in Registry' : sessions'[j].operation < next_operation_id'
        BY <1>1, <1>2, <1>3, <1>5, DataFacts DEF OperationsUsed, t
    <2>2. \A j \in Registry' : \A x \in sessions'[j].provider.interactions :
             x.status = "Resolving" => x.operation < next_operation_id'
        BY <1>1, <1>2, <1>3, <1>11, DataFacts DEF OperationsUsed
    <2>. QED  BY <1>3, <2>1, <2>2 DEF OperationsUsed
<1>14. WorkersServe'
    <2>1. WorkersServe
        BY DEF Inv
    <2>2. WorkerEffectsLive'
        BY <1>1, <1>2, <1>4, <1>5, <1>9, <2>1 DEF WorkersServe, WorkerEffectsLive, Live, s, t
    <2>3. \A f \in Outstanding' :
             f.kind \in WorkerKinds /\ OfGeneration(f)'
              /\ sessions'[f.instance].status = "Starting" =>
                  f.kind \in SpawnKinds /\ f.operation = sessions'[f.instance].operation
        BY <1>2, <1>4, <1>5, <1>9, <1>10, <2>1 DEF WorkersServe, OfGeneration, t
    <2>4. \A f \in inflight', h \in effects' :
            OfOperation(f)' /\ sessions'[f.instance].status = "Stopping"
              /\ h.instance = f.instance => h.kind \notin WorkerKinds
        <3>. SUFFICES ASSUME NEW f \in inflight', NEW h \in effects', OfOperation(f)',
                             sessions'[f.instance].status = "Stopping", h.instance = f.instance
                      PROVE  h.kind \notin WorkerKinds
            OBVIOUS
        <3>1. f.instance # i /\ OfOperation(f)
            BY <1>4, <1>6, <1>10
        <3>2. h \in effects
            BY <1>4, <3>1
        <3>. QED  BY <1>2, <1>4, <2>1, <3>1, <3>2 DEF WorkersServe, OfOperation, OfGeneration
    <2>. QED  BY <2>2, <2>3, <2>4 DEF WorkersServe
<1>15. ProcessesTracked'
    <2>1. ProcessesTracked
        BY DEF Inv
    <2>2. \A f : Awaited(f) => Awaited(f)'
        BY <1>2, <1>5, <1>6, <1>9, <1>10 DEF Awaited, OfGeneration, s, t
    <2>3. ProcessOwned'
        BY <1>2, <1>5, <1>6, <1>9, <2>1 DEF ProcessesTracked, ProcessOwned, Shown, t
    <2>. QED  BY <1>4, <1>5, <1>6, <2>1, <2>2, <2>3, KindFacts DEF ProcessesTracked
<1>16. Expected'
    <2>1. Expected
        BY DEF Inv
    <2>. QED  BY <1>2, <1>4, <1>5, <1>10, <2>1, KindFacts
              DEF Expected, OfOperation, OfGeneration, t
<1>17. InputsPending'
    <2>1. InputsPending
        BY DEF Inv
    <2>2. t.foreground # "Confirmed"
        BY <1>1, <1>2, <1>5 DEF SessionOK, t
    <2>. QED  BY <1>2, <1>4, <1>5, <1>10, <2>1, <2>2, KindFacts
              DEF InputsPending, OfGeneration, t
<1>18. ResolutionsMatch'
    <2>1. ResolutionsMatch
        BY DEF Inv
    <2>2. ASSUME NEW j \in Registry, NEW x \in sessions'[j].provider.interactions,
                 x.status = "Resolving"
          PROVE  /\ x.operation # NoOperation
                 /\ sessions'[j].status = "Running" => x.operation = sessions'[j].operation
                 /\ \A f \in Outstanding' : f.operation = x.operation =>
                       f.kind = "ResolveInteraction" /\ f.interaction = x.id
        <3>1. x.operation < next_operation_id /\ x \in sessions[j].provider.interactions
            BY <1>1, <1>11, <2>2 DEF OperationsUsed
        <3>2. x.operation # e.operation
            BY <1>3, <1>4, <3>1
        <3>. QED  BY <1>2, <1>4, <1>5, <2>1, <2>2, <3>1, <3>2 DEF ResolutionsMatch, t
    <2>3. ASSUME NEW f \in effects', f.kind = "ResolveInteraction"
          PROVE  /\ OfOperation(f)' /\ sessions'[f.instance].status = "Running"
                 /\ Resolving(f)' # {}
        <3>1. f.instance # i /\ f \in effects
            BY <1>4, <1>5, <2>3
        <3>2. OfOperation(f) /\ sessions[f.instance].status = "Running" /\ Resolving(f) # {}
            BY <2>1, <2>3, <3>1 DEF ResolutionsMatch
        <3>. QED  BY <1>2, <1>10, <3>1, <3>2 DEF OfOperation, OfGeneration
    <2>. QED  BY <1>2, <2>2, <2>3 DEF ResolutionsMatch
<1>19. Owed'
    <2>. SUFFICES ASSUME NEW j \in Registry, sessions'[j].operation # NoOperation
                  PROVE  \/ Forgone(j)'
                         \/ \E f \in Outstanding' : f.instance = j /\ OfOperation(f)' /\ Ends(f)'
        BY <1>2 DEF Owed
    <2>1. CASE j = i
        <3>1. Ends(e)'
            BY <1>4, <1>5 DEF Ends, t, Startable
        <3>. QED  BY <1>4, <1>10, <2>1, <3>1
    <2>2. CASE j # i
        <3>1. Forgone(j) => Forgone(j)'
            <4>1. sessions[j].operation < next_operation_id /\ sessions[j].operation \in Nat
                BY <1>1, <1>2, DataFacts DEF OperationsUsed
            <4>2. \A f \in Outstanding' : f \in Outstanding \/ f.operation # sessions[j].operation
                BY <1>4, <4>1
            <4>. QED  BY <1>2, <1>6, <2>2, <4>2, ForgoneKept
        <3>2. ASSUME NEW f \in Outstanding, f.instance = j, OfOperation(f), Ends(f)
              PROVE  \E h \in Outstanding' : h.instance = j /\ OfOperation(h)' /\ Ends(h)'
            <4>1. Ends(f)'
                BY <1>2, <2>2, <3>2 DEF Ends
            <4>. QED  BY <1>4, <1>10, <2>2, <3>2, <4>1
        <3>. QED  BY <1>2, <2>2, <3>1, <3>2 DEF Inv, Owed
    <2>. QED  BY <2>1, <2>2
<1>. QED  BY <1>8, <1>12, <1>13, <1>14, <1>15, <1>16, <1>17, <1>18, <1>19 DEF Inv

\* A session that is over asks for the authorisation of a resume.
Resumes(i, e) ==
    /\ Only(i) /\ Queues(i, e)
    /\ e.kind = "AuthorizeResume" /\ e.generation = sessions[i].generation
    /\ e.identity # None
    /\ effects' = effects \cup {e}
    /\ sessions[i].status \in Startable /\ sessions[i].operation = NoOperation
    /\ sessions'[i].status = sessions[i].status
    /\ sessions'[i].operation = next_operation_id
    /\ sessions'[i].generation = sessions[i].generation
    /\ sessions'[i].resume.identity = e.identity
    /\ UNCHANGED <<generation_watermarks, processes, exits, abandoned, ignored>>

\* A session that is over resolves nothing.
LEMMA OverResolvesNothing ==
    ASSUME NEW s, SessionOK(s), s.status \in Startable
    PROVE  \A x \in s.provider.interactions : x.status # "Resolving"
BY DEF SessionOK, Unresolved, interaction_is_unresolved

\* Such a step preserves the invariant.
LEMMA ResumesStep ==
    ASSUME Inv, NEW i, NEW e, Resumes(i, e)
    PROVE  Inv'
<1> DEFINE s == sessions[i]
           t == sessions'[i]
<1>1. Types /\ OperationsUsed /\ Only(i) /\ Queues(i, e) /\ i \in Registry
    BY DEF Inv, Resumes, Only
<1>2. /\ i \in Instances /\ Registry' = Registry
      /\ \A j \in Registry : sessions[j] \in SessionState /\ SessionOK(sessions[j])
      /\ \A j \in Registry : sessions'[j] \in SessionState /\ SessionOK(sessions'[j])
      /\ \A j \in Registry : j # i => sessions'[j] = sessions[j]
      /\ \A f : f.instance \in Registry /\ f.instance # i => Resolving(f)' = Resolving(f)
    BY <1>1, OnlyView
<1>3. /\ next_operation_id' \in 1..(MaxOperation + 1)
      /\ next_operation_id \in Nat /\ next_operation_id' = next_operation_id + 1
      /\ effects' \subseteq ControlEffect /\ inflight' \subseteq ControlEffect
      /\ effects' \cap inflight' = {}
      /\ \A f \in Outstanding' : f.operation < next_operation_id'
      /\ \A f, h \in Outstanding' : f.operation = h.operation => f = h
    BY <1>1, QueuesView
<1>4. /\ Outstanding \subseteq ControlEffect /\ Outstanding' \subseteq ControlEffect
      /\ e \in Outstanding' /\ e \notin Outstanding
      /\ e.instance = i /\ e.operation = next_operation_id /\ inflight' = inflight
      /\ \A f \in Outstanding' : f = e \/ f \in Outstanding
      /\ \A f \in effects' : f = e \/ f \in effects
      /\ \A f \in Outstanding : f.operation # e.operation
    BY <1>1, QueuesView
<1>5. /\ e.kind = "AuthorizeResume" /\ e.generation = s.generation /\ e.identity # None
      /\ s.status \in Startable /\ s.operation = NoOperation
      /\ t.status = s.status /\ t.operation = next_operation_id /\ t.generation = s.generation
      /\ t.resume.identity = e.identity
    BY DEF Resumes
<1>6. /\ UNCHANGED <<generation_watermarks, processes, exits, abandoned, ignored>>
      /\ effects \subseteq Outstanding /\ inflight \subseteq Outstanding
      /\ Outstanding \subseteq Outstanding'
    BY DEF Resumes, Queues, Outstanding
<1>7. \A x \in t.provider.interactions : x.status # "Resolving"
    BY <1>1, <1>2, <1>5, OverResolvesNothing
<1>8. Types'
    BY <1>1, <1>2, <1>3, <1>6 DEF Types, Only
<1>. HIDE DEF s, t
<1>9. \A j \in Registry : sessions'[j].generation = sessions[j].generation
                       /\ sessions'[j].status = sessions[j].status
    BY <1>2, <1>5 DEF s, t
<1>10. /\ \A f : OfGeneration(f)' <=> OfGeneration(f)
       /\ \A f : f.instance # i => (OfOperation(f)' <=> OfOperation(f))
       /\ OfOperation(e)'
       /\ \A f \in Outstanding : f.instance = i => ~OfOperation(f)'
    BY <1>1, <1>2, <1>4, <1>5, <1>9, DataFacts DEF OfGeneration, OfOperation, s, t
<1>11. \A j \in Registry : \A x \in sessions'[j].provider.interactions :
           x.status = "Resolving" => j # i /\ x \in sessions[j].provider.interactions
    BY <1>2, <1>7 DEF t
<1>12. GenerationsUsed'
    BY <1>1, <1>2, <1>4, <1>5, <1>6, <1>9, DataFacts DEF Inv, GenerationsUsed, s
<1>13. OperationsUsed'
    <2>1. \A j \in Registry' : sessions'[j].operation < next_operation_id'
        BY <1>1, <1>2, <1>3, <1>5, DataFacts DEF OperationsUsed, t
    <2>2. \A j \in Registry' : \A x \in sessions'[j].provider.interactions :
             x.status = "Resolving" => x.operation < next_operation_id'
        BY <1>1, <1>2, <1>3, <1>11, DataFacts DEF OperationsUsed
    <2>. QED  BY <1>3, <2>1, <2>2 DEF OperationsUsed
<1>14. WorkersServe'
    <2>1. WorkersServe
        BY DEF Inv
    <2>2. WorkerEffectsLive'
        BY <1>2, <1>4, <1>5, <1>9, <2>1, KindFacts DEF WorkersServe, WorkerEffectsLive
    <2>3. \A f \in Outstanding' :
             f.kind \in WorkerKinds /\ OfGeneration(f)'
              /\ sessions'[f.instance].status = "Starting" =>
                  f.kind \in SpawnKinds /\ f.operation = sessions'[f.instance].operation
        BY <1>2, <1>4, <1>5, <1>9, <1>10, <2>1 DEF WorkersServe, OfGeneration, s, Startable
    <2>4. \A f \in inflight', h \in effects' :
            OfOperation(f)' /\ sessions'[f.instance].status = "Stopping"
              /\ h.instance = f.instance => h.kind \notin WorkerKinds
        BY <1>2, <1>4, <1>5, <1>9, <1>10, <2>1, KindFacts
           DEF WorkersServe, OfOperation, OfGeneration, s, Startable
    <2>. QED  BY <2>2, <2>3, <2>4 DEF WorkersServe
<1>15. ProcessesTracked'
    <2>1. ProcessesTracked
        BY DEF Inv
    <2>2. \A f : Awaited(f) => Awaited(f)'
        BY <1>2, <1>5, <1>6, <1>9, <1>10 DEF Awaited, OfGeneration, s, Startable
    <2>3. ProcessOwned'
        BY <1>2, <1>6, <1>9, <2>1 DEF ProcessesTracked, ProcessOwned, Shown
    <2>. QED  BY <1>4, <1>5, <1>6, <2>1, <2>2, <2>3, KindFacts DEF ProcessesTracked
<1>16. Expected'
    <2>1. Expected
        BY DEF Inv
    <2>. QED  BY <1>2, <1>4, <1>5, <1>10, <2>1, KindFacts
              DEF Expected, OfOperation, OfGeneration
<1>17. InputsPending'
    <2>1. InputsPending
        BY DEF Inv
    <2>2. t.foreground # "Confirmed"
        BY <1>1, <1>2, <1>5 DEF SessionOK, t, Startable
    <2>. QED  BY <1>2, <1>4, <1>5, <1>10, <2>1, <2>2, KindFacts
              DEF InputsPending, OfGeneration, t, Startable
<1>18. ResolutionsMatch'
    <2>1. ResolutionsMatch
        BY DEF Inv
    <2>2. ASSUME NEW j \in Registry, NEW x \in sessions'[j].provider.interactions,
                 x.status = "Resolving"
          PROVE  /\ x.operation # NoOperation
                 /\ sessions'[j].status = "Running" => x.operation = sessions'[j].operation
                 /\ \A f \in Outstanding' : f.operation = x.operation =>
                       f.kind = "ResolveInteraction" /\ f.interaction = x.id
        <3>1. x.operation < next_operation_id /\ x \in sessions[j].provider.interactions /\ j # i
            BY <1>1, <1>11, <2>2 DEF OperationsUsed
        <3>2. x.operation # e.operation
            BY <1>3, <1>4, <3>1
        <3>. QED  BY <1>2, <1>4, <2>1, <2>2, <3>1, <3>2 DEF ResolutionsMatch
    <2>3. ASSUME NEW f \in effects', f.kind = "ResolveInteraction"
          PROVE  /\ OfOperation(f)' /\ sessions'[f.instance].status = "Running"
                 /\ Resolving(f)' # {}
        <3>1. f \in effects
            BY <1>4, <1>5, <2>3
        <3>2. OfOperation(f) /\ sessions[f.instance].status = "Running" /\ Resolving(f) # {}
            BY <2>1, <2>3, <3>1 DEF ResolutionsMatch
        <3>3. f.instance # i
            BY <1>5, <3>2 DEF s, Startable
        <3>. QED  BY <1>2, <1>10, <3>2, <3>3 DEF OfOperation, OfGeneration
    <2>. QED  BY <1>2, <2>2, <2>3 DEF ResolutionsMatch
<1>19. Owed'
    <2>. SUFFICES ASSUME NEW j \in Registry, sessions'[j].operation # NoOperation
                  PROVE  \/ Forgone(j)'
                         \/ \E f \in Outstanding' : f.instance = j /\ OfOperation(f)' /\ Ends(f)'
        BY <1>2 DEF Owed
    <2>1. CASE j = i
        <3>1. Ends(e)'
            BY <1>4, <1>5 DEF Ends, t, Startable
        <3>. QED  BY <1>4, <1>10, <2>1, <3>1
    <2>2. CASE j # i
        <3>1. Forgone(j) => Forgone(j)'
            <4>1. sessions[j].operation < next_operation_id /\ sessions[j].operation \in Nat
                BY <1>1, <1>2, DataFacts DEF OperationsUsed
            <4>2. \A f \in Outstanding' : f \in Outstanding \/ f.operation # sessions[j].operation
                BY <1>4, <4>1
            <4>. QED  BY <1>2, <1>6, <2>2, <4>2, ForgoneKept
        <3>2. ASSUME NEW f \in Outstanding, f.instance = j, OfOperation(f), Ends(f)
              PROVE  \E h \in Outstanding' : h.instance = j /\ OfOperation(h)' /\ Ends(h)'
            <4>1. Ends(f)'
                BY <1>2, <2>2, <3>2 DEF Ends
            <4>. QED  BY <1>6, <1>10, <2>2, <3>2, <4>1
        <3>. QED  BY <1>2, <2>2, <3>1, <3>2 DEF Inv, Owed
    <2>. QED  BY <2>1, <2>2
<1>. QED  BY <1>8, <1>12, <1>13, <1>14, <1>15, <1>16, <1>17, <1>18, <1>19 DEF Inv

-----------------------------------------------------------------------------
(* A session enters a new generation. *)

\* The spawn e of a new generation is queued, under a new operation or under
\* that of the authorisation that was just answered.
Starts(i, e) ==
    /\ Only(i)
    /\ sessions[i].status \in Startable
    /\ sessions'[i].status = "Starting"
    /\ sessions'[i].generation = generation_watermarks[i] + 1
    /\ generation_watermarks' = [generation_watermarks EXCEPT ![i] = sessions'[i].generation]
    /\ sessions'[i].provider.interactions = {}
    /\ e \in ControlEffect /\ e.kind \in SpawnKinds /\ e.instance = i
    /\ e.generation = sessions'[i].generation /\ e.operation = sessions'[i].operation
    /\ e.kind = "SpawnResume" => sessions'[i].resume_identity # None
    /\ e \in effects' /\ effects' \subseteq effects \cup {e} /\ inflight' \subseteq inflight
    /\ \A f \in Outstanding : f.instance # i => f \in Outstanding'
    /\ \A f \in Outstanding' : f = e \/ f.operation # e.operation
    /\ e \notin inflight'
    /\ next_operation_id' \in 1..(MaxOperation + 1)
    /\ next_operation_id' >= next_operation_id /\ e.operation < next_operation_id'
    /\ \A j \in Registry \ {i} : \A x \in sessions[j].provider.interactions :
          x.status = "Resolving" => x.operation # e.operation
    /\ \A j \in Registry \ {i} : sessions[j].operation # e.operation
    /\ UNCHANGED <<processes, exits, abandoned, ignored>>

\* Such a step preserves the invariant.
LEMMA StartsStep ==
    ASSUME Inv, NEW i, NEW e, Starts(i, e)
    PROVE  Inv'
<1> DEFINE s == sessions[i]
           t == sessions'[i]
           W == generation_watermarks
<1>1. Types /\ OperationsUsed /\ GenerationsUsed /\ Only(i) /\ i \in Registry
    BY DEF Inv, Starts, Only
<1>2. /\ i \in Instances /\ Registry' = Registry
      /\ \A j \in Registry : sessions[j] \in SessionState /\ SessionOK(sessions[j])
      /\ \A j \in Registry : sessions'[j] \in SessionState /\ SessionOK(sessions'[j])
      /\ \A j \in Registry : j # i => sessions'[j] = sessions[j]
      /\ \A f : f.instance \in Registry /\ f.instance # i => Resolving(f)' = Resolving(f)
    BY <1>1, OnlyView
<1>3. /\ s.status \in Startable /\ t.status = "Starting"
      /\ t.generation = W[i] + 1 /\ W' = [W EXCEPT ![i] = t.generation]
      /\ t.provider.interactions = {}
    BY DEF Starts
<1>4. /\ e \in ControlEffect /\ e.kind \in SpawnKinds /\ e.instance = i
      /\ e.generation = t.generation /\ e.operation = t.operation
      /\ e.kind = "SpawnResume" => t.resume_identity # None
    BY DEF Starts
<1>5. /\ e \in effects' /\ effects' \subseteq effects \cup {e} /\ inflight' \subseteq inflight
      /\ \A f \in Outstanding : f.instance # i => f \in Outstanding'
      /\ \A f \in Outstanding' : f = e \/ f.operation # e.operation
      /\ e \notin inflight'
    BY DEF Starts
<1>6. /\ next_operation_id' \in 1..(MaxOperation + 1)
      /\ next_operation_id' >= next_operation_id /\ e.operation < next_operation_id'
      /\ next_operation_id \in Nat /\ next_operation_id' \in Nat
    BY <1>1, EngineAssumption DEF Starts, Types
<1>7. UNCHANGED <<processes, exits, abandoned, ignored>>
    BY DEF Starts
<1>8. /\ Outstanding \subseteq ControlEffect /\ Outstanding' \subseteq ControlEffect
      /\ effects \subseteq Outstanding /\ inflight \subseteq Outstanding
      /\ e \in Outstanding' /\ \A f \in Outstanding' : f = e \/ f \in Outstanding
      /\ inflight' \subseteq Outstanding
    BY <1>1, <1>4, <1>5 DEF Types, Outstanding
<1>9. /\ W \in [Instances -> Generations \cup {NoGeneration}]
      /\ \A j \in Instances : W[j] \in Int
    <2>1. W \in [Instances -> Generations \cup {NoGeneration}]
        BY <1>1 DEF Types
    <2>2. Generations \cup {NoGeneration} \subseteq Int
        BY EngineAssumption DEF Generations, NoGeneration
    <2>. QED  BY <2>1, <2>2
<1>10. Types'
    <2>1. t.generation \in Generations
        BY <1>1, <1>2 DEF SessionState
    <2>2. W' \in [Instances -> Generations \cup {NoGeneration}]
        BY <1>2, <1>3, <1>9, <2>1
    <2>3. effects' \subseteq ControlEffect /\ inflight' \subseteq ControlEffect
        BY <1>1, <1>4, <1>5 DEF Types
    <2>. QED  BY <1>1, <1>2, <1>6, <1>7, <2>2, <2>3 DEF Types, Only
<1>. HIDE DEF s, t, W
<1>11. /\ \A j \in Instances : j # i => W'[j] = W[j]
       /\ W'[i] = t.generation /\ W[i] < t.generation /\ t.generation \in Int
    BY <1>2, <1>3, <1>9
<1>12. /\ \A f : f.instance # i =>
             (OfGeneration(f)' <=> OfGeneration(f)) /\ (OfOperation(f)' <=> OfOperation(f))
       /\ OfGeneration(e)' /\ OfOperation(e)'
       /\ \A f \in Outstanding : f.instance = i => ~OfGeneration(f)' /\ ~OfOperation(f)'
    <2>1. \A f \in Outstanding : f.instance = i => f.generation < t.generation
        BY <1>1, <1>2, <1>8, <1>9, <1>11, DataFacts DEF GenerationsUsed, W
    <2>. QED  BY <1>1, <1>2, <1>4, <1>8, <1>11, <2>1, DataFacts
              DEF OfGeneration, OfOperation, s, t
<1>13. GenerationsUsed'
    <2>1. \A j \in Registry' : sessions'[j].generation = W'[j]
        BY <1>1, <1>2, <1>11 DEF GenerationsUsed, t, W, Registry
    <2>2. \A f \in Outstanding' : f.generation <= W'[f.instance]
        <3>. SUFFICES ASSUME NEW f \in Outstanding' PROVE f.generation <= W'[f.instance]
            OBVIOUS
        <3>1. CASE f = e
            BY <1>4, <1>11, <3>1
        <3>2. CASE f \in Outstanding
            <4>1. f.generation \in Int /\ f.instance \in Instances /\ f.generation <= W[f.instance]
                BY <1>1, <1>8, <3>2, DataFacts DEF GenerationsUsed, W
            <4>. QED  BY <1>2, <1>9, <1>11, <4>1
        <3>. QED  BY <1>8, <3>1, <3>2
    <2>3. \A q \in processes' \cup exits' : q.generation <= W'[q.instance]
        <3>. SUFFICES ASSUME NEW q \in processes \cup exits
                      PROVE  q.generation <= W'[q.instance]
            BY <1>7
        <3>1. q.generation \in Int /\ q.instance \in Instances /\ q.generation <= W[q.instance]
            BY <1>1, DataFacts DEF GenerationsUsed, W, Types
        <3>. QED  BY <1>2, <1>9, <1>11, <3>1
    <2>. QED  BY <2>1, <2>2, <2>3 DEF GenerationsUsed, W
<1>14. OperationsUsed'
    <2>1. \A f \in Outstanding' : f.operation < next_operation_id'
        BY <1>1, <1>6, <1>8, DataFacts DEF OperationsUsed
    <2>2. \A j \in Registry' :
             /\ sessions'[j].operation < next_operation_id'
             /\ \A x \in sessions'[j].provider.interactions :
                   x.status = "Resolving" => x.operation < next_operation_id'
        BY <1>1, <1>2, <1>3, <1>4, <1>6, DataFacts DEF OperationsUsed, t
    <2>3. effects' \cap inflight' = {}
        BY <1>1, <1>5 DEF OperationsUsed
    <2>4. \A f, h \in Outstanding' : f.operation = h.operation => f = h
        BY <1>1, <1>5, <1>8 DEF OperationsUsed
    <2>. QED  BY <2>1, <2>2, <2>3, <2>4 DEF OperationsUsed
<1>15. WorkersServe'
    <2>1. WorkersServe
        BY DEF Inv
    <2>0. \A f \in effects : f.kind \in WorkerKinds => f.instance # i
        BY <1>3, <2>1, KindFacts DEF WorkersServe, WorkerEffectsLive, s
    <2>2. WorkerEffectsLive'
        BY <1>1, <1>2, <1>3, <1>4, <1>5, <2>0, <2>1
           DEF WorkersServe, WorkerEffectsLive, Live, t
    <2>3. \A f \in Outstanding' :
             f.kind \in WorkerKinds /\ OfGeneration(f)'
              /\ sessions'[f.instance].status = "Starting" =>
                  f.kind \in SpawnKinds /\ f.operation = sessions'[f.instance].operation
        BY <1>2, <1>4, <1>8, <1>12, <2>1 DEF WorkersServe, OfGeneration, t
    <2>4. \A f \in inflight', h \in effects' :
            OfOperation(f)' /\ sessions'[f.instance].status = "Stopping"
              /\ h.instance = f.instance => h.kind \notin WorkerKinds
        <3>. SUFFICES ASSUME NEW f \in inflight', NEW h \in effects', OfOperation(f)',
                             sessions'[f.instance].status = "Stopping", h.instance = f.instance
                      PROVE  h.kind \notin WorkerKinds
            OBVIOUS
        <3>1. f.instance # i /\ OfOperation(f)
            BY <1>3, <1>12 DEF t
        <3>2. h \in effects /\ f \in inflight
            BY <1>4, <1>5, <3>1
        <3>. QED  BY <1>2, <2>1, <3>1, <3>2 DEF WorkersServe, OfOperation, OfGeneration
    <2>. QED  BY <2>2, <2>3, <2>4 DEF WorkersServe
<1>16. ProcessesTracked'
    <2>1. ProcessesTracked
        BY DEF Inv
    <2>2. \A f \in Outstanding : Awaited(f) => Awaited(f)'
        BY <1>2, <1>3, <1>7, <1>12 DEF Awaited, OfGeneration, s, Startable
    <2>3. Awaited(e)'
        BY <1>3, <1>4, <1>12 DEF Awaited, t
    <2>4. ProcessOwned'
        <3>. SUFFICES ASSUME NEW q \in processes \ abandoned PROVE Shown(q.instance, q.generation)'
            BY <1>7 DEF ProcessOwned
        <3>1. Shown(q.instance, q.generation)
            BY <2>1 DEF ProcessesTracked, ProcessOwned
        <3>2. q.instance # i
            BY <1>3, <3>1 DEF Shown, s, Startable
        <3>. QED  BY <1>2, <3>1, <3>2 DEF Shown
    <2>5. ProcessOf(e) \notin processes \cup exits
        <3>1. \A q \in processes \cup exits : q.generation <= W[q.instance] /\ q \in Processes
            BY <1>1 DEF GenerationsUsed, W, Types
        <3>2. ProcessOf(e).generation > W[ProcessOf(e).instance]
            BY <1>4, <1>9, <1>11, DataFacts
        <3>. QED  BY <1>2, <1>4, <1>9, <3>1, <3>2, DataFacts
    <2>6. \A f \in Outstanding : ProcessOf(f) # ProcessOf(e)
        <3>1. ProcessOf(e).generation > W[ProcessOf(e).instance]
            BY <1>4, <1>9, <1>11, DataFacts
        <3>2. \A f \in Outstanding : ProcessOf(f).generation <= W[ProcessOf(f).instance]
            BY <1>1, <1>8, DataFacts DEF GenerationsUsed, W
        <3>. QED  BY <1>2, <1>4, <1>9, <3>1, <3>2, DataFacts
    <2>7. \A f \in Outstanding' : f.kind \in SpawnKinds =>
             ProcessOf(f) \notin processes' \cup exits' /\ Awaited(f)'
        BY <1>7, <1>8, <2>1, <2>2, <2>3, <2>5 DEF ProcessesTracked
    <2>8. \A f, h \in Outstanding' :
             f.kind \in SpawnKinds /\ h.kind \in SpawnKinds /\ ProcessOf(f) = ProcessOf(h) => f = h
        BY <1>8, <2>1, <2>6 DEF ProcessesTracked
    <2>. QED  BY <1>7, <2>1, <2>4, <2>7, <2>8 DEF ProcessesTracked
<1>17. Expected'
    <2>1. Expected
        BY DEF Inv
    <2>. QED  BY <1>2, <1>3, <1>4, <1>8, <1>12, <2>1, KindFacts
              DEF Expected, OfOperation, OfGeneration, t
<1>18. InputsPending'
    <2>1. InputsPending
        BY DEF Inv
    <2>. QED  BY <1>2, <1>4, <1>8, <1>12, <2>1, KindFacts DEF InputsPending, OfGeneration
<1>19. ResolutionsMatch'
    <2>1. ResolutionsMatch
        BY DEF Inv
    <2>2. ASSUME NEW j \in Registry, NEW x \in sessions'[j].provider.interactions,
                 x.status = "Resolving"
          PROVE  /\ x.operation # NoOperation
                 /\ sessions'[j].status = "Running" => x.operation = sessions'[j].operation
                 /\ \A f \in Outstanding' : f.operation = x.operation =>
                       f.kind = "ResolveInteraction" /\ f.interaction = x.id
        <3>1. j # i /\ x \in sessions[j].provider.interactions
            BY <1>2, <1>3, <2>2 DEF t
        <3>2. x.operation # e.operation
            BY <2>2, <3>1 DEF Starts
        <3>. QED  BY <1>2, <1>8, <2>1, <2>2, <3>1, <3>2 DEF ResolutionsMatch
    <2>3. ASSUME NEW f \in effects', f.kind = "ResolveInteraction"
          PROVE  /\ OfOperation(f)' /\ sessions'[f.instance].status = "Running"
                 /\ Resolving(f)' # {}
        <3>1. f \in effects
            BY <1>4, <1>5, <2>3, KindFacts
        <3>2. OfOperation(f) /\ sessions[f.instance].status = "Running" /\ Resolving(f) # {}
            BY <2>1, <2>3, <3>1 DEF ResolutionsMatch
        <3>3. f.instance # i
            BY <1>3, <3>2 DEF s, Startable
        <3>. QED  BY <1>2, <1>12, <3>2, <3>3 DEF OfOperation, OfGeneration
    <2>. QED  BY <1>2, <2>2, <2>3 DEF ResolutionsMatch
<1>20. Owed'
    <2>. SUFFICES ASSUME NEW j \in Registry, sessions'[j].operation # NoOperation
                  PROVE  \/ Forgone(j)'
                         \/ \E f \in Outstanding' : f.instance = j /\ OfOperation(f)' /\ Ends(f)'
        BY <1>2 DEF Owed
    <2>1. CASE j = i
        <3>1. Ends(e)'
            BY <1>3, <1>4 DEF Ends, t, Startable
        <3>. QED  BY <1>4, <1>8, <1>12, <2>1, <3>1
    <2>2. CASE j # i
        <3>1. Forgone(j) => Forgone(j)'
            <4>1. sessions[j].operation # e.operation
                BY <2>2 DEF Starts
            <4>. QED  BY <1>2, <1>7, <1>8, <2>2, <4>1, ForgoneKept
        <3>2. ASSUME NEW f \in Outstanding, f.instance = j, OfOperation(f), Ends(f)
              PROVE  \E h \in Outstanding' : h.instance = j /\ OfOperation(h)' /\ Ends(h)'
            <4>1. Ends(f)'
                BY <1>2, <2>2, <3>2 DEF Ends
            <4>. QED  BY <1>5, <1>12, <2>2, <3>2, <4>1
        <3>. QED  BY <1>2, <2>2, <3>1, <3>2 DEF Inv, Owed
    <2>. QED  BY <2>1, <2>2
<1>. QED  BY <1>10, <1>13, <1>14, <1>15, <1>16, <1>17, <1>18, <1>19, <1>20 DEF Inv

-----------------------------------------------------------------------------
(* A session is over, or the resume of one is refused. *)

\* Nothing is left of the generation: no queued work, no process and no spawn
\* that is not accounted for.
Finishes(i) ==
    /\ Only(i) /\ Shrinks(i)
    /\ sessions'[i].status \in Startable /\ sessions'[i].operation = NoOperation
    /\ sessions'[i].generation = sessions[i].generation
    /\ \A e \in effects' : e.kind \in WorkerKinds => e.instance # i
    /\ processes' \subseteq processes /\ exits' \subseteq exits
    /\ abandoned \subseteq abandoned' /\ abandoned' \subseteq Processes /\ ignored' = ignored
    /\ \A q \in processes' \ abandoned' : q # Process(i, sessions[i].generation)
    /\ \A e \in Outstanding' :
          e.kind \in SpawnKinds /\ ProcessOf(e) = Process(i, sessions[i].generation) =>
              ProcessOf(e) \in abandoned'
    /\ UNCHANGED generation_watermarks

\* Such a step preserves the invariant.
LEMMA FinishesStep ==
    ASSUME Inv, NEW i, Finishes(i)
    PROVE  Inv'
<1> DEFINE s == sessions[i]
           t == sessions'[i]
<1>1. Types /\ OperationsUsed /\ Only(i) /\ Shrinks(i) /\ i \in Registry
    BY DEF Inv, Finishes, Only
<1>2. /\ i \in Instances /\ Registry' = Registry
      /\ \A j \in Registry : sessions[j] \in SessionState /\ SessionOK(sessions[j])
      /\ \A j \in Registry : sessions'[j] \in SessionState /\ SessionOK(sessions'[j])
      /\ \A j \in Registry : j # i => sessions'[j] = sessions[j]
      /\ \A e : e.instance \in Registry /\ e.instance # i => Resolving(e)' = Resolving(e)
    BY <1>1, OnlyView
<1>3. /\ effects' \subseteq effects /\ inflight' \subseteq inflight
      /\ \A e \in Outstanding : e.instance # i => e \in Outstanding'
      /\ next_operation_id' = next_operation_id
    BY <1>1 DEF Shrinks
<1>4. /\ t.status \in Startable /\ t.operation = NoOperation
      /\ t.generation = s.generation
      /\ \A e \in effects' : e.kind \in WorkerKinds => e.instance # i
    BY DEF Finishes
<1>5. /\ processes' \subseteq processes /\ exits' \subseteq exits
      /\ abandoned \subseteq abandoned' /\ abandoned' \subseteq Processes /\ ignored' = ignored
      /\ \A q \in processes' \ abandoned' : q # Process(i, s.generation)
      /\ \A e \in Outstanding' :
            e.kind \in SpawnKinds /\ ProcessOf(e) = Process(i, s.generation) =>
                ProcessOf(e) \in abandoned'
    BY DEF Finishes
<1>6. generation_watermarks' = generation_watermarks
    BY DEF Finishes
<1>7. /\ Outstanding \subseteq ControlEffect /\ Outstanding' \subseteq Outstanding
      /\ effects \subseteq Outstanding /\ inflight \subseteq Outstanding
      /\ effects' \subseteq Outstanding' /\ inflight' \subseteq Outstanding'
    BY <1>1, <1>3 DEF Types, Outstanding
<1>8. Types'
    BY <1>1, <1>2, <1>3, <1>5, <1>6 DEF Types, Only
<1>9. \A x \in t.provider.interactions : x.status # "Resolving"
    BY <1>1, <1>2, <1>4, OverResolvesNothing
<1>. HIDE DEF s, t
<1>10. \A j \in Registry : sessions'[j].generation = sessions[j].generation
    BY <1>2, <1>4 DEF s, t
<1>11. /\ \A e : OfGeneration(e)' <=> OfGeneration(e)
       /\ \A e : e.instance # i => (OfOperation(e)' <=> OfOperation(e))
       /\ \A e \in ControlEffect : e.instance = i => ~OfOperation(e)'
    BY <1>2, <1>4, <1>10, DataFacts DEF OfGeneration, OfOperation, t
<1>12. GenerationsUsed'
    BY <1>2, <1>5, <1>6, <1>7, <1>10 DEF Inv, GenerationsUsed
<1>13. OperationsUsed'
    <2>1. \A j \in Registry' :
             /\ sessions'[j].operation < next_operation_id'
             /\ \A x \in sessions'[j].provider.interactions :
                   x.status = "Resolving" => x.operation < next_operation_id'
        <3>1. next_operation_id \in Nat /\ next_operation_id > 0
            BY <1>1, EngineAssumption DEF Types
        <3>. QED  BY <1>1, <1>2, <1>3, <1>4, <1>9, <3>1 DEF OperationsUsed, t, NoOperation
    <2>. QED  BY <1>1, <1>2, <1>3, <1>7, <2>1 DEF OperationsUsed
<1>14. WorkersServe'
    <2>1. WorkersServe
        BY DEF Inv
    <2>2. WorkerEffectsLive'
        BY <1>2, <1>3, <1>4, <2>1 DEF WorkersServe, WorkerEffectsLive
    <2>3. \A e \in Outstanding' :
             e.kind \in WorkerKinds /\ OfGeneration(e)'
              /\ sessions'[e.instance].status = "Starting" =>
                  e.kind \in SpawnKinds /\ e.operation = sessions'[e.instance].operation
        BY <1>2, <1>4, <1>7, <1>11, <2>1 DEF WorkersServe, OfGeneration, t, Startable
    <2>4. \A e \in inflight', f \in effects' :
            OfOperation(e)' /\ sessions'[e.instance].status = "Stopping"
              /\ f.instance = e.instance => f.kind \notin WorkerKinds
        BY <1>2, <1>3, <1>4, <1>11, <2>1
           DEF WorkersServe, OfOperation, OfGeneration, t, Startable
    <2>. QED  BY <2>2, <2>3, <2>4 DEF WorkersServe
<1>15. ProcessesTracked'
    <2>1. ProcessesTracked
        BY DEF Inv
    <2>2. ASSUME NEW e \in Outstanding', e.kind \in SpawnKinds
          PROVE  ProcessOf(e) \notin processes' \cup exits' /\ Awaited(e)'
        <3>1. ProcessOf(e) \notin processes' \cup exits' /\ Awaited(e)
            BY <1>5, <1>7, <2>1, <2>2 DEF ProcessesTracked
        <3>2. CASE e.instance = i
            BY <1>5, <2>2, <3>1, <3>2 DEF Awaited, OfGeneration, ProcessOf, s
        <3>3. CASE e.instance # i
            BY <1>2, <1>5, <1>11, <3>1, <3>3 DEF Awaited, OfGeneration
        <3>. QED  BY <3>1, <3>2, <3>3
    <2>3. ASSUME NEW q \in processes' \ abandoned' PROVE Shown(q.instance, q.generation)'
        <3>1. Shown(q.instance, q.generation) /\ q \in Processes
            BY <1>1, <1>5, <2>1, <2>3 DEF ProcessesTracked, ProcessOwned, Types
        <3>2. q = Process(q.instance, q.generation)
            BY <3>1 DEF Processes, Process
        <3>3. q.instance # i
            BY <1>5, <2>3, <3>1, <3>2 DEF Shown, s
        <3>. QED  BY <1>2, <3>1, <3>3 DEF Shown
    <2>4. ProcessOwned'
        BY <2>3 DEF ProcessOwned
    <2>. QED  BY <1>5, <1>7, <2>1, <2>2, <2>4 DEF ProcessesTracked
<1>16. Expected'
    <2>1. Expected
        BY DEF Inv
    <2>. QED  BY <1>2, <1>7, <1>11, <2>1 DEF Expected, OfOperation, OfGeneration
<1>17. InputsPending'
    <2>1. InputsPending
        BY DEF Inv
    <2>2. t.foreground # "Confirmed"
        BY <1>1, <1>2, <1>4 DEF SessionOK, t, Startable
    <2>. QED  BY <1>2, <1>4, <1>7, <1>11, <2>1, <2>2 DEF InputsPending, OfGeneration, t, Startable
<1>18. ResolutionsMatch'
    <2>1. ResolutionsMatch
        BY DEF Inv
    <2>2. \A e \in effects' : e.kind = "ResolveInteraction" =>
            /\ OfOperation(e)' /\ sessions'[e.instance].status = "Running"
            /\ Resolving(e)' # {}
        BY <1>2, <1>3, <1>4, <1>11, <2>1, KindFacts
           DEF ResolutionsMatch, OfOperation, OfGeneration
    <2>. QED  BY <1>2, <1>7, <1>9, <2>1, <2>2 DEF ResolutionsMatch, t
<1>19. Owed'
    <2>. SUFFICES ASSUME NEW j \in Registry, sessions'[j].operation # NoOperation
                  PROVE  \/ Forgone(j)'
                         \/ \E e \in Outstanding' : e.instance = j /\ OfOperation(e)' /\ Ends(e)'
        BY <1>2 DEF Owed
    <2>0. j # i /\ sessions'[j] = sessions[j]
        BY <1>2, <1>4 DEF t
    <2>1. Forgone(j) => Forgone(j)'
        BY <1>5, <1>7, <2>0, ForgoneKept
    <2>2. ASSUME NEW e \in Outstanding, e.instance = j, OfOperation(e), Ends(e)
          PROVE  \E f \in Outstanding' : f.instance = j /\ OfOperation(f)' /\ Ends(f)'
        <3>1. Ends(e)' /\ e \in Outstanding'
            BY <1>2, <1>3, <2>0, <2>2 DEF Ends
        <3>. QED  BY <1>11, <2>0, <2>2, <3>1
    <2>. QED  BY <2>0, <2>1, <2>2 DEF Inv, Owed
<1>. QED  BY <1>8, <1>12, <1>13, <1>14, <1>15, <1>16, <1>17, <1>18, <1>19 DEF Inv

-----------------------------------------------------------------------------
(* A session's process is there. *)

Runs(i, e) ==
    /\ Only(i)
    /\ e \in inflight /\ inflight' = inflight \ {e} /\ e.kind \in SpawnKinds
    /\ OfOperation(e) /\ e.instance = i
    /\ processes' = processes \cup {ProcessOf(e)}
    /\ sessions[i].status = "Starting" /\ sessions'[i].status = "Running"
    /\ sessions'[i].operation = NoOperation
    /\ sessions'[i].generation = sessions[i].generation
    /\ \A x \in sessions'[i].provider.interactions : x.status # "Resolving"
    /\ UNCHANGED <<generation_watermarks, next_operation_id, effects, exits, abandoned, ignored>>

\* Such a step preserves the invariant.
LEMMA RunsStep ==
    ASSUME Inv, NEW i, NEW e, Runs(i, e)
    PROVE  Inv'
<1> DEFINE s == sessions[i]
           t == sessions'[i]
<1>1. Types /\ OperationsUsed /\ Only(i) /\ i \in Registry
    BY DEF Inv, Runs, Only
<1>2. /\ i \in Instances /\ Registry' = Registry
      /\ \A j \in Registry : sessions[j] \in SessionState /\ SessionOK(sessions[j])
      /\ \A j \in Registry : sessions'[j] \in SessionState /\ SessionOK(sessions'[j])
      /\ \A j \in Registry : j # i => sessions'[j] = sessions[j]
      /\ \A f : f.instance \in Registry /\ f.instance # i => Resolving(f)' = Resolving(f)
    BY <1>1, OnlyView
<1>3. /\ e \in inflight /\ inflight' = inflight \ {e} /\ e.kind \in SpawnKinds
      /\ OfOperation(e) /\ e.instance = i
      /\ processes' = processes \cup {ProcessOf(e)}
      /\ UNCHANGED <<generation_watermarks, next_operation_id, effects, exits, abandoned, ignored>>
    BY DEF Runs
<1>4. /\ s.status = "Starting" /\ t.status = "Running" /\ t.operation = NoOperation
      /\ t.generation = s.generation
      /\ \A x \in t.provider.interactions : x.status # "Resolving"
    BY DEF Runs
<1>5. /\ Outstanding \subseteq ControlEffect /\ Outstanding' = Outstanding \ {e}
      /\ effects \subseteq Outstanding /\ inflight \subseteq Outstanding /\ e \notin effects
      /\ e \in Outstanding
    BY <1>1, <1>3 DEF Types, Outstanding, OperationsUsed
<1>6. \A f \in Outstanding' : f.operation # e.operation
    BY <1>1, <1>5 DEF OperationsUsed
<1>7. \A f \in Outstanding' : f.kind \in WorkerKinds /\ OfGeneration(f) => f.instance # i
    <2>. SUFFICES ASSUME NEW f \in Outstanding', f.kind \in WorkerKinds, OfGeneration(f),
                         f.instance = i
                  PROVE  FALSE
        OBVIOUS
    <2>1. f.operation = s.operation
        BY <1>4, <1>5 DEF Inv, WorkersServe
    <2>. QED  BY <1>3, <1>6, <2>1 DEF OfOperation
<1>8. Types'
    <2>1. ProcessOf(e) \in Processes
        BY <1>5, DataFacts
    <2>. QED  BY <1>1, <1>2, <1>3, <2>1 DEF Types, Only
<1>. HIDE DEF s, t
<1>9. \A j \in Registry : sessions'[j].generation = sessions[j].generation
    BY <1>2, <1>4 DEF s, t
<1>10. /\ \A f : OfGeneration(f)' <=> OfGeneration(f)
       /\ \A f : f.instance # i => (OfOperation(f)' <=> OfOperation(f))
       /\ \A f \in ControlEffect : f.instance = i => ~OfOperation(f)'
    BY <1>2, <1>4, <1>9, DataFacts DEF OfGeneration, OfOperation, t
<1>12. GenerationsUsed'
    <2>1. ProcessOf(e).generation <= generation_watermarks[ProcessOf(e).instance]
        BY <1>5, DataFacts DEF Inv, GenerationsUsed
    <2>. QED  BY <1>2, <1>3, <1>5, <1>9, <2>1 DEF Inv, GenerationsUsed
<1>13. OperationsUsed'
    <2>1. \A j \in Registry' :
             /\ sessions'[j].operation < next_operation_id'
             /\ \A x \in sessions'[j].provider.interactions :
                   x.status = "Resolving" => x.operation < next_operation_id'
        <3>1. next_operation_id \in Nat /\ next_operation_id > 0
            BY <1>1, EngineAssumption DEF Types
        <3>. QED  BY <1>1, <1>2, <1>3, <1>4, <3>1 DEF OperationsUsed, t, NoOperation
    <2>. QED  BY <1>1, <1>3, <1>5, <2>1 DEF OperationsUsed
<1>14. WorkersServe'
    <2>1. WorkersServe
        BY DEF Inv
    <2>2. WorkerEffectsLive'
        BY <1>2, <1>3, <1>4, <1>9, <2>1 DEF WorkersServe, WorkerEffectsLive, Live, t
    <2>3. \A f \in Outstanding' :
             f.kind \in WorkerKinds /\ OfGeneration(f)'
              /\ sessions'[f.instance].status = "Starting" =>
                  f.kind \in SpawnKinds /\ f.operation = sessions'[f.instance].operation
        BY <1>2, <1>4, <1>5, <1>10, <2>1 DEF WorkersServe, OfGeneration, t
    <2>4. \A f \in inflight', h \in effects' :
            OfOperation(f)' /\ sessions'[f.instance].status = "Stopping"
              /\ h.instance = f.instance => h.kind \notin WorkerKinds
        BY <1>2, <1>3, <1>4, <1>10, <2>1 DEF WorkersServe, OfOperation, OfGeneration, t
    <2>. QED  BY <2>2, <2>3, <2>4 DEF WorkersServe
<1>15. ProcessesTracked'
    <2>1. ProcessesTracked
        BY DEF Inv
    <2>2. ASSUME NEW f \in Outstanding', f.kind \in SpawnKinds
          PROVE  ProcessOf(f) \notin processes' \cup exits' /\ Awaited(f)'
        <3>1. ProcessOf(f) \notin processes \cup exits /\ Awaited(f)
            BY <1>5, <2>1, <2>2 DEF ProcessesTracked
        <3>2. ProcessOf(f) # ProcessOf(e)
            BY <1>3, <1>5, <2>1, <2>2 DEF ProcessesTracked
        <3>3. Awaited(f)'
            BY <1>2, <1>3, <1>7, <1>10, <2>2, <3>1, KindFacts DEF Awaited, OfGeneration
        <3>. QED  BY <1>3, <3>1, <3>2, <3>3
    <2>3. ASSUME NEW q \in processes' \ abandoned' PROVE Shown(q.instance, q.generation)'
        <3>1. CASE q = ProcessOf(e)
            <4>1. q.instance = i /\ q.generation = t.generation
                BY <1>3, <1>4, <1>5, <3>1, DataFacts DEF OfOperation, OfGeneration, s
            <4>. QED  BY <1>1, <1>2, <1>4, <4>1 DEF Shown, t
        <3>2. CASE q # ProcessOf(e)
            <4>1. Shown(q.instance, q.generation)
                BY <1>3, <2>1, <2>3, <3>2 DEF ProcessesTracked, ProcessOwned
            <4>2. q.instance # i
                BY <1>4, <4>1 DEF Shown, s
            <4>. QED  BY <1>2, <4>1, <4>2 DEF Shown
        <3>. QED  BY <3>1, <3>2
    <2>4. ProcessOwned'
        BY <2>3 DEF ProcessOwned
    <2>5. processes' \cap exits' = {}
        BY <1>3, <1>5, <2>1 DEF ProcessesTracked
    <2>. QED  BY <1>5, <2>1, <2>2, <2>4, <2>5 DEF ProcessesTracked
<1>16. Expected'
    <2>1. Expected
        BY DEF Inv
    <2>. QED  BY <1>2, <1>5, <1>10, <2>1 DEF Expected, OfOperation, OfGeneration
<1>17. InputsPending'
    <2>1. InputsPending
        BY DEF Inv
    <2>. QED  BY <1>2, <1>5, <1>7, <1>10, <2>1, KindFacts DEF InputsPending, OfGeneration
<1>18. ResolutionsMatch'
    <2>1. ResolutionsMatch
        BY DEF Inv
    <2>2. \A f \in effects' : f.kind = "ResolveInteraction" =>
            /\ OfOperation(f)' /\ sessions'[f.instance].status = "Running"
            /\ Resolving(f)' # {}
        BY <1>2, <1>3, <1>4, <1>10, <2>1 DEF ResolutionsMatch, OfOperation, OfGeneration, s
    <2>. QED  BY <1>2, <1>4, <1>5, <2>1, <2>2 DEF ResolutionsMatch, t
<1>19. Owed'
    <2>. SUFFICES ASSUME NEW j \in Registry, sessions'[j].operation # NoOperation
                  PROVE  \/ Forgone(j)'
                         \/ \E f \in Outstanding' : f.instance = j /\ OfOperation(f)' /\ Ends(f)'
        BY <1>2 DEF Owed
    <2>0. j # i /\ sessions'[j] = sessions[j]
        BY <1>2, <1>4 DEF t
    <2>1. Forgone(j) => Forgone(j)'
        BY <1>3, <1>5, <2>0, ForgoneKept
    <2>2. ASSUME NEW f \in Outstanding, f.instance = j, OfOperation(f), Ends(f)
          PROVE  \E h \in Outstanding' : h.instance = j /\ OfOperation(h)' /\ Ends(h)'
        <3>1. Ends(f)' /\ f \in Outstanding'
            BY <1>2, <1>3, <1>5, <2>0, <2>2 DEF Ends
        <3>. QED  BY <1>10, <2>0, <2>2, <3>1
    <2>. QED  BY <2>0, <2>1, <2>2 DEF Inv, Owed
<1>. QED  BY <1>8, <1>12, <1>13, <1>14, <1>15, <1>16, <1>17, <1>18, <1>19 DEF Inv

-----------------------------------------------------------------------------
(* Steps that change no session. *)

\* Without a change of the sessions the view of them is the same.
LEMMA SameView ==
    ASSUME UNCHANGED <<sessions, generation_watermarks>>
    PROVE  /\ Registry' = Registry
           /\ \A e : /\ OfGeneration(e)' <=> OfGeneration(e)
                     /\ OfOperation(e)' <=> OfOperation(e)
                     /\ Ends(e)' <=> Ends(e)
                     /\ Resolving(e)' = Resolving(e)
           /\ \A i, g : Shown(i, g)' <=> Shown(i, g)
<1>1. Registry' = Registry
    BY DEF Registry
<1>2. \A e : Resolving(e)' = Resolving(e)
    BY DEF Resolving
<1>3. \A e : /\ OfGeneration(e)' <=> OfGeneration(e)
             /\ OfOperation(e)' <=> OfOperation(e)
    BY <1>1 DEF OfGeneration, OfOperation
<1>4. \A e : Ends(e)' <=> Ends(e)
    BY <1>2 DEF Ends
<1>5. \A i, g : Shown(i, g)' <=> Shown(i, g)
    BY <1>1 DEF Shown
<1>. QED  BY <1>1, <1>2, <1>3, <1>4, <1>5

\* The answer to e is ignored: its session has moved on, or cannot accept it.
Dismisses(e) ==
    /\ e \in inflight /\ inflight' = inflight \ {e}
    /\ OfOperation(e) /\ Ends(e) =>
          e.operation \in ignored' /\ sessions[e.instance].status \notin {"Starting", "Stopping"}
    /\ ignored \subseteq ignored' /\ ignored' \subseteq Operations
    /\ \/ processes' \subseteq processes
       \/ /\ e.kind \in SpawnKinds /\ processes' = processes \cup {ProcessOf(e)}
          /\ ~(OfOperation(e) /\ sessions[e.instance].status = "Starting")
    /\ abandoned \subseteq abandoned' /\ abandoned' \subseteq Processes
    /\ UNCHANGED <<sessions, generation_watermarks, next_operation_id, effects, exits>>

\* Such a step preserves the invariant.
LEMMA DismissesStep ==
    ASSUME Inv, NEW e, Dismisses(e)
    PROVE  Inv'
<1>1. Types /\ OperationsUsed
    BY DEF Inv
<1>2. /\ e \in inflight /\ inflight' = inflight \ {e}
      /\ OfOperation(e) /\ Ends(e) =>
            e.operation \in ignored' /\ sessions[e.instance].status \notin {"Starting", "Stopping"}
      /\ ignored \subseteq ignored' /\ ignored' \subseteq Operations
      /\ \/ processes' \subseteq processes
         \/ /\ e.kind \in SpawnKinds /\ processes' = processes \cup {ProcessOf(e)}
            /\ ~(OfOperation(e) /\ sessions[e.instance].status = "Starting")
      /\ abandoned \subseteq abandoned' /\ abandoned' \subseteq Processes
      /\ UNCHANGED <<sessions, generation_watermarks, next_operation_id, effects, exits>>
    BY DEF Dismisses
<1>3. /\ Registry' = Registry
      /\ \A f : /\ OfGeneration(f)' <=> OfGeneration(f)
                /\ OfOperation(f)' <=> OfOperation(f)
                /\ Ends(f)' <=> Ends(f)
                /\ Resolving(f)' = Resolving(f)
      /\ \A i, g : Shown(i, g)' <=> Shown(i, g)
    BY <1>2, SameView
<1>4. /\ Outstanding \subseteq ControlEffect /\ Outstanding' = Outstanding \ {e}
      /\ effects \subseteq Outstanding /\ inflight \subseteq Outstanding /\ e \in Outstanding
    BY <1>1, <1>2 DEF Types, Outstanding, OperationsUsed
<1>5. ProcessOf(e) \in Processes /\ ProcessOf(e).instance = e.instance
      /\ ProcessOf(e).generation = e.generation
    BY <1>4, DataFacts
<1>6. Types'
    BY <1>1, <1>2, <1>3, <1>5 DEF Types
<1>7. GenerationsUsed'
    <2>1. GenerationsUsed
        BY DEF Inv
    <2>2. \A q \in processes' \cup exits' : q \in processes \cup exits \/ q = ProcessOf(e)
        BY <1>2
    <2>3. ProcessOf(e).generation <= generation_watermarks[ProcessOf(e).instance]
        BY <1>4, <1>5, <2>1 DEF GenerationsUsed
    <2>. QED  BY <1>2, <1>3, <1>4, <2>1, <2>2, <2>3 DEF GenerationsUsed
<1>8. OperationsUsed'
    BY <1>1, <1>2, <1>3, <1>4 DEF OperationsUsed
<1>9. WorkersServe'
    <2>1. WorkersServe
        BY DEF Inv
    <2>. QED  BY <1>2, <1>3, <1>4, <2>1 DEF WorkersServe, WorkerEffectsLive
<1>10. ProcessesTracked'
    <2>1. ProcessesTracked
        BY DEF Inv
    <2>2. \A f : Awaited(f) => Awaited(f)'
        BY <1>2, <1>3 DEF Awaited
    <2>3. ASSUME NEW f \in Outstanding', f.kind \in SpawnKinds
          PROVE  ProcessOf(f) \notin processes' \cup exits' /\ Awaited(f)'
        <3>1. ProcessOf(f) \notin processes \cup exits /\ Awaited(f)
            BY <1>4, <2>1, <2>3 DEF ProcessesTracked
        <3>2. e.kind \in SpawnKinds => ProcessOf(f) # ProcessOf(e)
            BY <1>2, <1>4, <2>1, <2>3 DEF ProcessesTracked
        <3>. QED  BY <1>2, <2>2, <3>1, <3>2
    <2>4. ASSUME NEW q \in processes' \ abandoned' PROVE Shown(q.instance, q.generation)
        <3>1. CASE q \in processes
            BY <1>2, <2>1, <2>4, <3>1 DEF ProcessesTracked, ProcessOwned
        <3>2. CASE q \notin processes
            <4>1. /\ q = ProcessOf(e) /\ e.kind \in SpawnKinds
                  /\ ~(OfOperation(e) /\ sessions[e.instance].status = "Starting")
                BY <1>2, <2>4, <3>2
            <4>2. Awaited(e) /\ q \notin abandoned
                BY <1>2, <1>4, <2>1, <2>4, <4>1 DEF ProcessesTracked
            <4>3. OfGeneration(e) /\ sessions[e.instance].status = "Stopping"
                BY <4>1, <4>2 DEF Awaited, OfOperation
            <4>. QED  BY <1>5, <4>1, <4>3 DEF Shown, OfGeneration
        <3>. QED  BY <3>1, <3>2
    <2>5. ProcessOwned'
        BY <1>3, <2>4 DEF ProcessOwned
    <2>6. processes' \cap exits' = {}
        BY <1>2, <1>4, <2>1 DEF ProcessesTracked
    <2>. QED  BY <1>4, <2>1, <2>3, <2>5, <2>6 DEF ProcessesTracked
<1>11. Expected'
    BY <1>2, <1>3, <1>4 DEF Inv, Expected
<1>12. InputsPending'
    BY <1>2, <1>3, <1>4 DEF Inv, InputsPending
<1>13. ResolutionsMatch'
    BY <1>2, <1>3, <1>4 DEF Inv, ResolutionsMatch
<1>14. Owed'
    <2>. SUFFICES ASSUME NEW j \in Registry, sessions[j].operation # NoOperation
                  PROVE  \/ Forgone(j)'
                         \/ \E f \in Outstanding' : f.instance = j /\ OfOperation(f)' /\ Ends(f)'
        BY <1>2, <1>3 DEF Owed
    <2>1. Forgone(j) => Forgone(j)'
        BY <1>2, <1>4, ForgoneKept
    <2>2. ASSUME e.instance = j, OfOperation(e), Ends(e) PROVE Forgone(j)'
        <3>1. \A f \in Outstanding' : f.operation # e.operation
            BY <1>1, <1>4 DEF OperationsUsed
        <3>. QED  BY <1>2, <2>2, <3>1 DEF Forgone, AnswerIgnored, OfOperation
    <2>3. ASSUME NEW f \in Outstanding, f # e, f.instance = j, OfOperation(f), Ends(f)
          PROVE  \E h \in Outstanding' : h.instance = j /\ OfOperation(h)' /\ Ends(h)'
        BY <1>3, <1>4, <2>3
    <2>. QED  BY <2>1, <2>2, <2>3 DEF Inv, Owed
<1>. QED  BY <1>6, <1>7, <1>8, <1>9, <1>10, <1>11, <1>12, <1>13, <1>14 DEF Inv

\* A process ends, or the report of it is ignored.
Exits ==
    /\ processes' \cup exits' \subseteq processes \cup exits
    /\ processes' \subseteq processes /\ processes' \cap exits' = {}
    /\ UNCHANGED <<sessions, generation_watermarks, next_operation_id, effects, inflight,
                   abandoned, ignored>>

\* Such a step preserves the invariant.
LEMMA ExitsStep ==
    ASSUME Inv, Exits
    PROVE  Inv'
<1>1. /\ Types /\ processes' \cup exits' \subseteq processes \cup exits
      /\ processes' \subseteq processes /\ processes' \cap exits' = {}
      /\ UNCHANGED <<sessions, generation_watermarks, next_operation_id, effects, inflight,
                     abandoned, ignored>>
    BY DEF Inv, Exits
<1>2. /\ Registry' = Registry
      /\ \A f : /\ OfGeneration(f)' <=> OfGeneration(f)
                /\ OfOperation(f)' <=> OfOperation(f)
                /\ Ends(f)' <=> Ends(f)
                /\ Resolving(f)' = Resolving(f)
      /\ \A i, g : Shown(i, g)' <=> Shown(i, g)
    BY <1>1, SameView
<1>3. Outstanding' = Outstanding
    BY <1>1 DEF Outstanding
<1>4. Types'
    BY <1>1, <1>2 DEF Types
<1>5. GenerationsUsed'
    BY <1>1, <1>2, <1>3 DEF Inv, GenerationsUsed
<1>6. OperationsUsed'
    BY <1>1, <1>2, <1>3 DEF Inv, OperationsUsed
<1>7. WorkersServe'
    BY <1>1, <1>2, <1>3 DEF Inv, WorkersServe, WorkerEffectsLive
<1>8. ProcessesTracked'
    <2>1. \A f : Awaited(f) => Awaited(f)'
        BY <1>1, <1>2 DEF Awaited
    <2>2. ProcessOwned'
        BY <1>1, <1>2 DEF Inv, ProcessesTracked, ProcessOwned
    <2>. QED  BY <1>1, <1>3, <2>1, <2>2 DEF Inv, ProcessesTracked
<1>9. Expected'
    BY <1>1, <1>2, <1>3 DEF Inv, Expected
<1>10. InputsPending'
    BY <1>1, <1>2, <1>3 DEF Inv, InputsPending
<1>11. ResolutionsMatch'
    BY <1>1, <1>2, <1>3 DEF Inv, ResolutionsMatch
<1>12. Owed'
    <2>1. \A i : Forgone(i)' <=> Forgone(i)
        BY <1>1, <1>3 DEF Forgone, AnswerIgnored
    <2>. QED  BY <1>1, <1>2, <1>3, <2>1 DEF Inv, Owed
<1>. QED  BY <1>4, <1>5, <1>6, <1>7, <1>8, <1>9, <1>10, <1>11, <1>12 DEF Inv

\* Draining hands every queued effect to the host.
LEMMA DrainStep ==
    ASSUME Inv, drain_effects
    PROVE  Inv'
<1>1. /\ Types /\ inflight' = inflight \cup effects /\ effects' = {}
      /\ UNCHANGED <<sessions, generation_watermarks, next_operation_id, processes, exits,
                     abandoned, ignored>>
    BY DEF Inv, drain_effects
<1>2. /\ Registry' = Registry
      /\ \A f : /\ OfGeneration(f)' <=> OfGeneration(f)
                /\ OfOperation(f)' <=> OfOperation(f)
                /\ Ends(f)' <=> Ends(f)
                /\ Resolving(f)' = Resolving(f)
      /\ \A i, g : Shown(i, g)' <=> Shown(i, g)
    BY <1>1, SameView
<1>3. Outstanding' = Outstanding
    BY <1>1 DEF Outstanding
<1>4. Types'
    BY <1>1, <1>2 DEF Types
<1>5. GenerationsUsed'
    BY <1>1, <1>2, <1>3 DEF Inv, GenerationsUsed
<1>6. OperationsUsed'
    BY <1>1, <1>2, <1>3 DEF Inv, OperationsUsed
<1>7. WorkersServe'
    BY <1>1, <1>2, <1>3 DEF Inv, WorkersServe, WorkerEffectsLive
<1>8. ProcessesTracked'
    <2>1. \A f : Awaited(f) => Awaited(f)'
        BY <1>1, <1>2 DEF Awaited
    <2>2. ProcessOwned'
        BY <1>1, <1>2 DEF Inv, ProcessesTracked, ProcessOwned
    <2>. QED  BY <1>1, <1>3, <2>1, <2>2 DEF Inv, ProcessesTracked
<1>9. Expected'
    BY <1>1, <1>2, <1>3 DEF Inv, Expected
<1>10. InputsPending'
    BY <1>1, <1>2, <1>3 DEF Inv, InputsPending
<1>11. ResolutionsMatch'
    BY <1>1, <1>2, <1>3 DEF Inv, ResolutionsMatch
<1>12. Owed'
    <2>1. \A i : Forgone(i)' <=> Forgone(i)
        BY <1>1, <1>3 DEF Forgone, AnswerIgnored
    <2>. QED  BY <1>1, <1>2, <1>3, <2>1 DEF Inv, Owed
<1>. QED  BY <1>4, <1>5, <1>6, <1>7, <1>8, <1>9, <1>10, <1>11, <1>12 DEF Inv

-----------------------------------------------------------------------------
(* Registration and removal. *)

\* The default snapshot is well-formed.
LEMMA DefaultProviderOK ==
    /\ WellFormed(DefaultProvider) /\ IdsUsed(DefaultProvider)
    /\ Unresolved(DefaultProvider) = {} /\ DefaultProvider.interactions = {}
    /\ DefaultProvider.subagents = {} /\ DefaultProvider.lead = "Idle"
    /\ DefaultProvider.session = None
<1>1. DefaultProvider \in ProviderSnapshot
    <2>1. [x \in Sources |-> 0] \in [Sources -> 0..MaxSequence]
        BY ReducerAssumption
    <2>. QED  BY <2>1, ReducerAssumption DEF DefaultProvider, ProviderSnapshot, ProviderActivity
<1>2. /\ DefaultProvider.interactions = {} /\ DefaultProvider.subagents = {}
      /\ DefaultProvider.lead = "Idle" /\ DefaultProvider.session = None
    BY DEF DefaultProvider
<1>3. IsFiniteSet({}) /\ Cardinality({}) = 0
    BY FS_EmptySet
<1>. QED  BY <1>1, <1>2, <1>3, ReducerAssumption DEF WellFormed, IdsUsed, Unresolved

\* A session as it is registered.
LEMMA ResetOK ==
    ASSUME NEW tr \in Transports, NEW g \in Generations
    PROVE  /\ SessionOK(Reset(tr, g))
           /\ Reset(tr, g).generation = g /\ Reset(tr, g).operation = NoOperation
           /\ Reset(tr, g).status = "Registered" /\ Reset(tr, g).foreground = "Unknown"
           /\ Reset(tr, g).provider.interactions = {}
<1> DEFINE s == Reset(tr, g)
<1>1. DefaultProvider \in ProviderSnapshot
    BY DefaultProviderOK DEF WellFormed
<1>2. DefaultHistory \in HistorySnapshot /\ DefaultResume \in ResumeSnapshot
    BY EngineAssumption DEF DefaultHistory, HistorySnapshot, DefaultResume, ResumeSnapshot,
                            NoOperation
<1>3. s \in SessionState
    <2>1. {"RawPtyLifecycle"} \subseteq Capabilities
        BY DEF Capabilities
    <2>. QED  BY <1>1, <1>2, <2>1, EngineAssumption
              DEF Reset, SessionState, SessionStatus, NoOperation, NoGeneration
<1>4. /\ s.generation = g /\ s.operation = NoOperation /\ s.status = "Registered"
      /\ s.foreground = "Unknown" /\ s.provider = DefaultProvider /\ s.resume = DefaultResume
    BY DEF Reset
<1>. HIDE DEF s
<1>5. PhaseFits(s)
    BY <1>4 DEF PhaseFits, DefaultResume
<1>6. Withholds(s)
    BY <1>4 DEF Withholds, Live
<1>7. SessionOK(s)
    BY <1>3, <1>4, <1>5, <1>6, DefaultProviderOK DEF SessionOK
<1>. QED  BY <1>4, <1>7, DefaultProviderOK DEF s

\* Registration preserves the invariant.
LEMMA RegisterStep ==
    ASSUME Inv, NEW i \in Instances, NEW tr \in Transports, register(i, tr)
    PROVE  Inv'
<1> DEFINE W == generation_watermarks
           t == sessions'[i]
<1>1. Types /\ OperationsUsed /\ GenerationsUsed /\ i \notin Registry
    BY DEF Inv, register
<1>2. UNCHANGED <<next_operation_id, effects, inflight, processes, exits, abandoned, ignored>>
    BY DEF register, host
<1>3. PICK g \in Generations :
          /\ g = W[i] + 1
          /\ sessions' = [sessions EXCEPT ![i] = Reset(tr, g)]
          /\ W' = [W EXCEPT ![i] = g]
    BY DEF register, checked_next_generation
<1>4. /\ SessionOK(Reset(tr, g))
      /\ Reset(tr, g).generation = g /\ Reset(tr, g).operation = NoOperation
      /\ Reset(tr, g).status = "Registered" /\ Reset(tr, g).foreground = "Unknown"
      /\ Reset(tr, g).provider.interactions = {}
    BY ResetOK
<1>5. /\ t = Reset(tr, g) /\ \A j \in Instances : j # i => sessions'[j] = sessions[j]
      /\ sessions' \in [Instances -> SessionState \cup {Absent}]
    BY <1>1, <1>3, <1>4 DEF Types, SessionOK
<1>6. /\ SessionOK(t) /\ t.generation = g /\ t.operation = NoOperation /\ t # Absent
      /\ t.status = "Registered" /\ t.foreground = "Unknown" /\ t.provider.interactions = {}
    BY <1>4, <1>5, DataFacts DEF SessionOK
<1>7. Registry' = Registry \cup {i} /\ Registry \subseteq Instances
    BY <1>5, <1>6 DEF Registry
<1>8. \A j \in Registry : j # i /\ j \in Instances /\ sessions'[j] = sessions[j]
    BY <1>1, <1>5, <1>7
<1>9. /\ W \in [Instances -> Generations \cup {NoGeneration}]
      /\ \A j \in Instances : W[j] \in Int
    <2>1. W \in [Instances -> Generations \cup {NoGeneration}]
        BY <1>1 DEF Types
    <2>2. Generations \cup {NoGeneration} \subseteq Int
        BY EngineAssumption DEF Generations, NoGeneration
    <2>. QED  BY <2>1, <2>2
<1>10. /\ \A j \in Instances : j # i => W'[j] = W[j]
       /\ W'[i] = g /\ W[i] < g /\ g \in Int
    <2>1. g \in Int
        BY EngineAssumption DEF Generations
    <2>. QED  BY <1>3, <1>9, <2>1
<1>11. /\ Outstanding \subseteq ControlEffect /\ Outstanding' = Outstanding
       /\ effects \subseteq Outstanding /\ inflight \subseteq Outstanding
    BY <1>1, <1>2 DEF Types, Outstanding
<1>12. Types'
    <2>1. W' \in [Instances -> Generations \cup {NoGeneration}]
        BY <1>3, <1>9
    <2>2. \A j \in Registry' : SessionOK(sessions'[j])
        BY <1>1, <1>6, <1>7, <1>8 DEF Types
    <2>. QED  BY <1>1, <1>2, <1>5, <2>1, <2>2 DEF Types
<1>. HIDE DEF t, W
<1>13. /\ \A f : f.instance # i =>
             (OfGeneration(f)' <=> OfGeneration(f)) /\ (OfOperation(f)' <=> OfOperation(f))
       /\ \A f : f.instance \in Registry => Resolving(f)' = Resolving(f)
       /\ \A f \in Outstanding : f.instance = i => ~OfGeneration(f)' /\ ~OfOperation(f)'
    <2>1. \A f \in Outstanding : f.instance = i => f.generation < t.generation
        BY <1>1, <1>6, <1>9, <1>10, <1>11, DataFacts DEF GenerationsUsed, W
    <2>2. \A f \in Outstanding : f.instance = i => ~OfGeneration(f)' /\ ~OfOperation(f)'
        BY <1>6, <1>10, <1>11, <2>1, DataFacts DEF OfGeneration, OfOperation, t
    <2>. QED  BY <1>7, <1>8, <2>2 DEF OfGeneration, OfOperation, Resolving
<1>14. GenerationsUsed'
    <2>1. \A j \in Registry' : sessions'[j].generation = W'[j]
        BY <1>1, <1>6, <1>7, <1>8, <1>10 DEF GenerationsUsed, t, W
    <2>2. \A f \in Outstanding' : f.generation <= W'[f.instance]
        <3>. SUFFICES ASSUME NEW f \in Outstanding PROVE f.generation <= W'[f.instance]
            BY <1>11
        <3>1. f.generation \in Int /\ f.instance \in Instances /\ f.generation <= W[f.instance]
            BY <1>1, <1>11, DataFacts DEF GenerationsUsed, W
        <3>. QED  BY <1>9, <1>10, <3>1
    <2>3. \A q \in processes' \cup exits' : q.generation <= W'[q.instance]
        <3>. SUFFICES ASSUME NEW q \in processes \cup exits
                      PROVE  q.generation <= W'[q.instance]
            BY <1>2
        <3>1. q.generation \in Int /\ q.instance \in Instances /\ q.generation <= W[q.instance]
            BY <1>1, DataFacts DEF GenerationsUsed, W, Types
        <3>. QED  BY <1>9, <1>10, <3>1
    <2>. QED  BY <2>1, <2>2, <2>3 DEF GenerationsUsed, W
<1>15. OperationsUsed'
    <2>1. next_operation_id \in Nat /\ next_operation_id > 0
        BY <1>1, EngineAssumption DEF Types
    <2>. QED  BY <1>1, <1>2, <1>6, <1>7, <1>8, <1>11, <2>1 DEF OperationsUsed, t, NoOperation
<1>16. WorkersServe'
    <2>1. WorkersServe
        BY DEF Inv
    <2>2. WorkerEffectsLive'
        BY <1>2, <1>7, <1>8, <2>1 DEF WorkersServe, WorkerEffectsLive
    <2>3. \A f \in Outstanding' :
             f.kind \in WorkerKinds /\ OfGeneration(f)'
              /\ sessions'[f.instance].status = "Starting" =>
                  f.kind \in SpawnKinds /\ f.operation = sessions'[f.instance].operation
        BY <1>8, <1>11, <1>13, <2>1 DEF WorkersServe, OfGeneration
    <2>4. \A f \in inflight', h \in effects' :
            OfOperation(f)' /\ sessions'[f.instance].status = "Stopping"
              /\ h.instance = f.instance => h.kind \notin WorkerKinds
        BY <1>2, <1>8, <1>11, <1>13, <2>1 DEF WorkersServe, OfOperation, OfGeneration
    <2>. QED  BY <2>2, <2>3, <2>4 DEF WorkersServe
<1>17. ProcessesTracked'
    <2>1. ProcessesTracked
        BY DEF Inv
    <2>2. \A f : Awaited(f) => Awaited(f)'
        BY <1>2, <1>8, <1>13 DEF Awaited, OfGeneration
    <2>3. ProcessOwned'
        BY <1>2, <1>7, <1>8, <2>1 DEF ProcessesTracked, ProcessOwned, Shown
    <2>. QED  BY <1>2, <1>11, <2>1, <2>2, <2>3 DEF ProcessesTracked
<1>18. Expected'
    BY <1>8, <1>11, <1>13 DEF Inv, Expected, OfOperation, OfGeneration
<1>19. InputsPending'
    BY <1>8, <1>11, <1>13 DEF Inv, InputsPending, OfGeneration
<1>20. ResolutionsMatch'
    <2>1. ResolutionsMatch
        BY DEF Inv
    <2>2. \A f \in effects' : f.kind = "ResolveInteraction" =>
            /\ OfOperation(f)' /\ sessions'[f.instance].status = "Running"
            /\ Resolving(f)' # {}
        BY <1>2, <1>8, <1>13, <2>1 DEF ResolutionsMatch, OfOperation, OfGeneration
    <2>. QED  BY <1>6, <1>7, <1>8, <1>11, <2>1, <2>2 DEF ResolutionsMatch, t
<1>21. Owed'
    <2>. SUFFICES ASSUME NEW j \in Registry, sessions'[j].operation # NoOperation
                  PROVE  \/ Forgone(j)'
                         \/ \E f \in Outstanding' : f.instance = j /\ OfOperation(f)' /\ Ends(f)'
        BY <1>6, <1>7 DEF Owed, t
    <2>1. Forgone(j) => Forgone(j)'
        BY <1>2, <1>8, <1>11, ForgoneKept
    <2>2. ASSUME NEW f \in Outstanding, f.instance = j, OfOperation(f), Ends(f)
          PROVE  \E h \in Outstanding' : h.instance = j /\ OfOperation(h)' /\ Ends(h)'
        <3>1. Ends(f)'
            BY <1>8, <1>13, <2>2 DEF Ends
        <3>. QED  BY <1>8, <1>11, <1>13, <2>2, <3>1
    <2>. QED  BY <1>8, <2>1, <2>2 DEF Inv, Owed
<1>. QED  BY <1>12, <1>14, <1>15, <1>16, <1>17, <1>18, <1>19, <1>20, <1>21 DEF Inv

\* Removal preserves the invariant.
LEMMA RemoveStep ==
    ASSUME Inv, NEW i \in Instances, remove(i)
    PROVE  Inv'
<1>1. /\ Types /\ OperationsUsed /\ GenerationsUsed /\ i \in Registry
      /\ sessions[i].status \in Startable
    BY DEF Inv, remove
<1>2. /\ UNCHANGED <<generation_watermarks, next_operation_id, inflight, processes, exits,
                     abandoned, ignored>>
      /\ effects' = {e \in effects : e.instance # i}
      /\ sessions' = [sessions EXCEPT ![i] = Absent]
    BY DEF remove, host
<1>3. /\ sessions'[i] = Absent /\ \A j \in Instances : j # i => sessions'[j] = sessions[j]
      /\ sessions' \in [Instances -> SessionState \cup {Absent}]
    BY <1>1, <1>2 DEF Types
<1>4. Registry' = Registry \ {i} /\ \A j \in Registry' : sessions'[j] = sessions[j]
    BY <1>3 DEF Registry
<1>5. /\ Outstanding \subseteq ControlEffect /\ Outstanding' \subseteq Outstanding
      /\ effects' \subseteq effects /\ \A f \in effects' : f.instance # i
      /\ effects \subseteq Outstanding /\ inflight \subseteq Outstanding
      /\ \A f \in Outstanding : f.instance # i => f \in Outstanding'
    BY <1>1, <1>2 DEF Types, Outstanding
<1>6. Types'
    BY <1>1, <1>2, <1>3, <1>4, <1>5 DEF Types
<1>7. /\ \A f : f.instance # i =>
             (OfGeneration(f)' <=> OfGeneration(f)) /\ (OfOperation(f)' <=> OfOperation(f))
      /\ \A f : f.instance \in Registry' => Resolving(f)' = Resolving(f)
      /\ \A f : f.instance = i => ~OfGeneration(f)' /\ ~OfOperation(f)'
    BY <1>4 DEF OfGeneration, OfOperation, Resolving
<1>8. GenerationsUsed'
    BY <1>1, <1>2, <1>4, <1>5 DEF GenerationsUsed
<1>9. OperationsUsed'
    BY <1>1, <1>2, <1>4, <1>5 DEF OperationsUsed
<1>10. WorkersServe'
    <2>1. WorkersServe
        BY DEF Inv
    <2>2. WorkerEffectsLive'
        BY <1>4, <1>5, <2>1 DEF WorkersServe, WorkerEffectsLive
    <2>3. \A f \in Outstanding' :
             f.kind \in WorkerKinds /\ OfGeneration(f)'
              /\ sessions'[f.instance].status = "Starting" =>
                  f.kind \in SpawnKinds /\ f.operation = sessions'[f.instance].operation
        BY <1>4, <1>5, <1>7, <2>1 DEF WorkersServe, OfGeneration
    <2>4. \A f \in inflight', h \in effects' :
            OfOperation(f)' /\ sessions'[f.instance].status = "Stopping"
              /\ h.instance = f.instance => h.kind \notin WorkerKinds
        BY <1>2, <1>4, <1>5, <1>7, <2>1 DEF WorkersServe, OfOperation, OfGeneration
    <2>. QED  BY <2>2, <2>3, <2>4 DEF WorkersServe
<1>11. ProcessesTracked'
    <2>1. ProcessesTracked
        BY DEF Inv
    <2>2. \A f : Awaited(f) => Awaited(f)'
        BY <1>1, <1>2, <1>4, <1>7 DEF Awaited, OfGeneration, Startable
    <2>3. ProcessOwned'
        BY <1>1, <1>2, <1>4, <2>1 DEF ProcessesTracked, ProcessOwned, Shown, Startable
    <2>. QED  BY <1>2, <1>5, <2>1, <2>2, <2>3 DEF ProcessesTracked
<1>12. Expected'
    BY <1>4, <1>5, <1>7 DEF Inv, Expected, OfOperation, OfGeneration
<1>13. InputsPending'
    BY <1>4, <1>5, <1>7 DEF Inv, InputsPending, OfGeneration
<1>14. ResolutionsMatch'
    <2>1. ResolutionsMatch
        BY DEF Inv
    <2>2. \A f \in effects' : f.kind = "ResolveInteraction" =>
            /\ OfOperation(f)' /\ sessions'[f.instance].status = "Running"
            /\ Resolving(f)' # {}
        BY <1>4, <1>5, <1>7, <2>1 DEF ResolutionsMatch, OfOperation, OfGeneration
    <2>. QED  BY <1>4, <1>5, <2>1, <2>2 DEF ResolutionsMatch
<1>15. Owed'
    <2>. SUFFICES ASSUME NEW j \in Registry', sessions'[j].operation # NoOperation
                  PROVE  \/ Forgone(j)'
                         \/ \E f \in Outstanding' : f.instance = j /\ OfOperation(f)' /\ Ends(f)'
        BY DEF Owed
    <2>0. j \in Registry /\ j # i /\ sessions'[j] = sessions[j]
        BY <1>4
    <2>1. Forgone(j) => Forgone(j)'
        BY <1>2, <1>5, <2>0, ForgoneKept
    <2>2. ASSUME NEW f \in Outstanding, f.instance = j, OfOperation(f), Ends(f)
          PROVE  \E h \in Outstanding' : h.instance = j /\ OfOperation(h)' /\ Ends(h)'
        <3>1. Ends(f)'
            BY <1>7, <2>0, <2>2 DEF Ends
        <3>. QED  BY <1>5, <1>7, <2>0, <2>2, <3>1
    <2>. QED  BY <2>0, <2>1, <2>2 DEF Inv, Owed
<1>. QED  BY <1>6, <1>8, <1>9, <1>10, <1>11, <1>12, <1>13, <1>14, <1>15 DEF Inv

-----------------------------------------------------------------------------
(* What no step takes back. *)

\* Within a generation: the frame, the sequences and what is resolved.
Advances(s, t) ==
    /\ t.frame >= s.frame
    /\ t.provider.sequence >= s.provider.sequence
    /\ \A src \in Sources : t.provider.cursors[src] >= s.provider.cursors[src]
    /\ Final(s.provider, t.provider)

\* Of every session, over one step.
Forward ==
    \A i \in Instances : sessions'[i] # Absent =>
        IF i \in Registry /\ sessions'[i].generation = sessions[i].generation
        THEN Advances(sessions[i], sessions'[i])
        ELSE sessions'[i].generation > generation_watermarks[i]

\* The counters of a session are numbers.
LEMMA CountersOK ==
    ASSUME NEW s, SessionOK(s)
    PROVE  /\ s.frame \in Int /\ s.provider.sequence \in Int
           /\ \A src \in Sources : s.provider.cursors[src] \in Int
<1>1. s.frame \in Int /\ s.provider \in ProviderSnapshot
    BY EngineAssumption DEF SessionOK, WellFormed, SessionState
<1>2. s.provider.sequence \in Int
    BY <1>1, ReducerAssumption DEF ProviderSnapshot
<1>3. \A src \in Sources : s.provider.cursors[src] \in Int
    BY <1>1, ReducerAssumption DEF ProviderSnapshot
<1>. QED  BY <1>1, <1>2, <1>3

\* A session that stays the same advances.
LEMMA AdvancesSelf ==
    ASSUME NEW s, SessionOK(s), NEW t, t.frame = s.frame,
           t.provider = s.provider \/ Evolves(s.provider, t.provider)
    PROVE  Advances(s, t)
<1>1. s.frame \in Int /\ s.provider.sequence \in Int
      /\ \A src \in Sources : s.provider.cursors[src] \in Int
    BY CountersOK
<1>2. Evolves(s.provider, t.provider)
    BY EvolvesOrder DEF SessionOK
<1>3. Final(s.provider, t.provider)
    BY <1>2, EvolvesFinal DEF SessionOK
<1>. QED  BY <1>1, <1>2, <1>3 DEF Advances, Evolves

\* When no session changes, none is taken back.
LEMMA UnchangedForward ==
    ASSUME Types, sessions' = sessions
    PROVE  Forward
<1>. SUFFICES ASSUME NEW i \in Registry PROVE Advances(sessions[i], sessions[i])
    BY DEF Forward, Registry
<1>1. SessionOK(sessions[i])
    BY DEF Types
<1>. QED  BY <1>1, AdvancesSelf

\* A step of one session, within its generation or into a new one.
LEMMA OnlyForward ==
    ASSUME Types, NEW i, Only(i),
           \/ Advances(sessions[i], sessions'[i])
              /\ sessions'[i].generation = sessions[i].generation
           \/ sessions'[i].generation > generation_watermarks[i]
              /\ sessions'[i].generation # sessions[i].generation
    PROVE  Forward
<1>1. /\ i \in Instances /\ i \in Registry
      /\ \A j \in Registry : SessionOK(sessions[j])
      /\ \A j \in Registry : j # i => sessions'[j] = sessions[j]
    BY OnlyView DEF Only
<1>. SUFFICES ASSUME NEW j \in Instances, sessions'[j] # Absent
              PROVE  IF j \in Registry /\ sessions'[j].generation = sessions[j].generation
                     THEN Advances(sessions[j], sessions'[j])
                     ELSE sessions'[j].generation > generation_watermarks[j]
    BY DEF Forward
<1>2. CASE j = i
    BY <1>1, <1>2
<1>3. CASE j # i
    <2>1. sessions'[j] = sessions[j] /\ j \in Registry
        BY <1>3 DEF Only, Registry
    <2>2. Advances(sessions[j], sessions[j])
        BY <1>1, <2>1, AdvancesSelf
    <2>. QED  BY <2>1, <2>2
<1>. QED  BY <1>2, <1>3

-----------------------------------------------------------------------------
(* One lemma per action: it preserves the invariant and takes nothing back. *)

\* Replacing one session.
LEMMA PutOnly ==
    ASSUME Types, NEW i \in Registry, NEW t, SessionOK(t),
           sessions' = [sessions EXCEPT ![i] = t]
    PROVE  Only(i) /\ sessions'[i] = t
<1>1. i \in Instances /\ t \in SessionState
    BY DEF Registry, SessionOK
<1>. QED  BY <1>1 DEF Only, Types

\* What SessionOK does not look at may change.
LEMMA SameCoreOK ==
    ASSUME NEW s, SessionOK(s), NEW t \in SessionState,
           t.status = s.status, t.operation = s.operation, t.resume = s.resume,
           t.provider = s.provider, t.transport = s.transport, t.policy = s.policy,
           t.foreground = "Confirmed" => s.foreground = "Confirmed"
    PROVE  SessionOK(t)
<1>1. PhaseFits(t)
    BY DEF SessionOK, PhaseFits
<1>2. Withholds(t)
    BY DEF SessionOK, Withholds
<1>. QED  BY <1>1, <1>2 DEF SessionOK

\* A change of one session outside of its core, with a side effect or none.
LEMMA SideStep ==
    ASSUME Inv, NEW i \in Registry, NEW t \in SessionState,
           sessions' = [sessions EXCEPT ![i] = t],
           t.status = sessions[i].status, t.operation = sessions[i].operation,
           t.resume = sessions[i].resume, t.provider = sessions[i].provider,
           t.transport = sessions[i].transport, t.policy = sessions[i].policy,
           t.generation = sessions[i].generation, t.input = sessions[i].input,
           t.resume_identity = sessions[i].resume_identity,
           t.foreground = "Confirmed" => sessions[i].foreground = "Confirmed",
           t.frame >= sessions[i].frame,
           SideEffects(i), UNCHANGED <<generation_watermarks, processes, exits, abandoned, ignored>>
    PROVE  Inv' /\ Forward
<1>1. Types /\ SessionOK(sessions[i])
    BY DEF Inv, Types
<1>2. SessionOK(t)
    BY <1>1, SameCoreOK
<1>3. Only(i) /\ sessions'[i] = t
    BY <1>1, <1>2, PutOnly
<1>4. Keeps(sessions[i], t)
    BY DEF Keeps
<1>5. Quiet(i)
    BY <1>3, <1>4 DEF Quiet
<1>6. Advances(sessions[i], t)
    <2>1. Advances(sessions[i], sessions[i])
        BY <1>1, AdvancesSelf
    <2>. QED  BY <2>1 DEF Advances
<1>7. Forward
    BY <1>1, <1>3, <1>6, OnlyForward
<1>. QED  BY <1>5, <1>7, QuietStep

\* The operation that a command allocates.
LEMMA AllocatedOK ==
    ASSUME Types, next_operation_id <= MaxOperation
    PROVE  next_operation_id \in Operations /\ next_operation_id \in 0..MaxOperation
BY EngineAssumption DEF Types, Operations

\* The commands and reports that only touch the side of a session.
LEMMA SideActions ==
    ASSUME Inv, NEW i \in Instances
    PROVE  /\ probe_capabilities(i) => Inv' /\ Forward
           /\ discover_history(i) => Inv' /\ Forward
           /\ \A c \in Identities : load_history(i, c) => Inv' /\ Forward
           /\ \A g, f \in Nat : f \in 1..MaxFrame /\ terminal_frame(i, g, f) => Inv' /\ Forward
           /\ \A g : terminal_stale(i, g) => Inv' /\ Forward
<1> DEFINE s == sessions[i]
<1>0. Types
    BY DEF Inv
<1>1. i \in Registry => s \in SessionState /\ s.generation \in Generations /\ s.frame \in Int
    BY <1>0, EngineAssumption DEF Types, SessionOK, SessionState
<1>2. ASSUME probe_capabilities(i) PROVE Inv' /\ Forward
    <2> DEFINE t == [s EXCEPT !.probe = next_operation_id, !.probe_generation = s.generation]
               e == Effect("ProbeCapabilities", next_operation_id, i, s.generation)
    <2>1. i \in Registry /\ next_operation_id <= MaxOperation
        BY <1>2 DEF probe_capabilities, allocate_operation
    <2>2. next_operation_id \in Operations /\ next_operation_id \in 0..MaxOperation
        BY <1>0, <2>1, AllocatedOK
    <2>3. t \in SessionState
        BY <1>1, <2>1, <2>2 DEF SessionState
    <2>4. /\ t.status = s.status /\ t.operation = s.operation /\ t.resume = s.resume
          /\ t.provider = s.provider /\ t.transport = s.transport /\ t.policy = s.policy
          /\ t.generation = s.generation /\ t.input = s.input
          /\ t.resume_identity = s.resume_identity /\ t.foreground = s.foreground
          /\ t.frame >= s.frame
        BY <1>1, <2>1 DEF SessionState
    <2>5. sessions' = [sessions EXCEPT ![i] = t]
        BY <1>2 DEF probe_capabilities
    <2>6. e \in ControlEffect /\ e.kind \in SideKinds /\ e.operation = next_operation_id
          /\ e.instance = i /\ e.generation = s.generation
        BY <1>1, <2>1, <2>2, ReducerAssumption DEF SideKinds, Effect, ControlEffect
    <2>7. /\ effects' = effects \cup {e} /\ next_operation_id' = next_operation_id + 1
          /\ UNCHANGED <<generation_watermarks, inflight, processes, exits, abandoned, ignored>>
        BY <1>2 DEF probe_capabilities, allocate_operation, host
    <2>. HIDE DEF e, t
    <2>8. SideEffects(i)
        BY <2>1, <2>6, <2>7 DEF SideEffects
    <2>. QED  BY <1>1, <2>1, <2>3, <2>4, <2>5, <2>7, <2>8, SideStep
<1>3. ASSUME discover_history(i) PROVE Inv' /\ Forward
    <2> DEFINE h == [DefaultHistory EXCEPT !.operation = next_operation_id, !.kind = "Discover"]
               t == [s EXCEPT !.history = h]
               e == Effect("DiscoverHistory", next_operation_id, i, s.generation)
    <2>1. i \in Registry /\ next_operation_id <= MaxOperation
        BY <1>3 DEF discover_history, allocate_operation
    <2>2. next_operation_id \in Operations /\ next_operation_id \in 0..MaxOperation
        BY <1>0, <2>1, AllocatedOK
    <2>3. t \in SessionState
        <3>1. h \in HistorySnapshot
            BY <2>2 DEF DefaultHistory, HistorySnapshot
        <3>. HIDE DEF h
        <3>. QED  BY <1>1, <2>1, <3>1 DEF SessionState
    <2>4. /\ t.status = s.status /\ t.operation = s.operation /\ t.resume = s.resume
          /\ t.provider = s.provider /\ t.transport = s.transport /\ t.policy = s.policy
          /\ t.generation = s.generation /\ t.input = s.input
          /\ t.resume_identity = s.resume_identity /\ t.foreground = s.foreground
          /\ t.frame >= s.frame
        BY <1>1, <2>1 DEF SessionState
    <2>5. sessions' = [sessions EXCEPT ![i] = t]
        BY <1>3 DEF discover_history
    <2>6. e \in ControlEffect /\ e.kind \in SideKinds /\ e.operation = next_operation_id
          /\ e.instance = i /\ e.generation = s.generation
        BY <1>1, <2>1, <2>2, ReducerAssumption DEF SideKinds, HistoryKinds, Effect, ControlEffect
    <2>7. /\ effects' = effects \cup {e} /\ next_operation_id' = next_operation_id + 1
          /\ UNCHANGED <<generation_watermarks, inflight, processes, exits, abandoned, ignored>>
        BY <1>3 DEF discover_history, allocate_operation, host
    <2>. HIDE DEF e, t
    <2>8. SideEffects(i)
        BY <2>1, <2>6, <2>7 DEF SideEffects
    <2>. QED  BY <1>1, <2>1, <2>3, <2>4, <2>5, <2>7, <2>8, SideStep
<1>4. ASSUME NEW c \in Identities, load_history(i, c) PROVE Inv' /\ Forward
    <2> DEFINE h == [DefaultHistory EXCEPT !.operation = next_operation_id, !.kind = "Load",
                                           !.candidate = c,
                                           !.candidates = s.history.candidates]
               t == [s EXCEPT !.history = h]
               e == [Effect("LoadHistory", next_operation_id, i, s.generation) EXCEPT
                        !.identity = c]
    <2>1. i \in Registry /\ next_operation_id <= MaxOperation
        BY <1>4 DEF load_history, allocate_operation
    <2>2. next_operation_id \in Operations /\ next_operation_id \in 0..MaxOperation
        BY <1>0, <2>1, AllocatedOK
    <2>3. t \in SessionState
        <3>1. s.history.candidates \in SUBSET Identities
            BY <1>1, <2>1 DEF SessionState, HistorySnapshot
        <3>2. h \in HistorySnapshot
            BY <2>2, <3>1 DEF DefaultHistory, HistorySnapshot
        <3>. HIDE DEF h
        <3>. QED  BY <1>1, <2>1, <3>2 DEF SessionState
    <2>4. /\ t.status = s.status /\ t.operation = s.operation /\ t.resume = s.resume
          /\ t.provider = s.provider /\ t.transport = s.transport /\ t.policy = s.policy
          /\ t.generation = s.generation /\ t.input = s.input
          /\ t.resume_identity = s.resume_identity /\ t.foreground = s.foreground
          /\ t.frame >= s.frame
        BY <1>1, <2>1 DEF SessionState
    <2>5. sessions' = [sessions EXCEPT ![i] = t]
        BY <1>4 DEF load_history
    <2>6. e \in ControlEffect /\ e.kind \in SideKinds /\ e.operation = next_operation_id
          /\ e.instance = i /\ e.generation = s.generation
        BY <1>1, <2>1, <2>2, ReducerAssumption DEF SideKinds, HistoryKinds, Effect, ControlEffect
    <2>7. /\ effects' = effects \cup {e} /\ next_operation_id' = next_operation_id + 1
          /\ UNCHANGED <<generation_watermarks, inflight, processes, exits, abandoned, ignored>>
        BY <1>4 DEF load_history, allocate_operation, host
    <2>. HIDE DEF e, t
    <2>8. SideEffects(i)
        BY <2>1, <2>6, <2>7 DEF SideEffects
    <2>. QED  BY <1>1, <2>1, <2>3, <2>4, <2>5, <2>7, <2>8, SideStep
<1>5. ASSUME NEW g, NEW f \in Nat, f \in 1..MaxFrame, terminal_frame(i, g, f)
      PROVE  Inv' /\ Forward
    <2> DEFINE t == [s EXCEPT !.frame = f]
    <2>1. i \in Registry /\ f > s.frame
        BY <1>5 DEF terminal_frame, Shown, Newer
    <2>2. t \in SessionState
        BY <1>1, <1>5, <2>1, EngineAssumption DEF SessionState
    <2>3. /\ t.status = s.status /\ t.operation = s.operation /\ t.resume = s.resume
          /\ t.provider = s.provider /\ t.transport = s.transport /\ t.policy = s.policy
          /\ t.generation = s.generation /\ t.input = s.input
          /\ t.resume_identity = s.resume_identity /\ t.foreground = s.foreground
          /\ t.frame >= s.frame
        BY <1>1, <1>5, <2>1 DEF SessionState
    <2>4. sessions' = [sessions EXCEPT ![i] = t]
        BY <1>5 DEF terminal_frame
    <2>5. /\ SideEffects(i)
          /\ UNCHANGED <<generation_watermarks, inflight, processes, exits, abandoned, ignored>>
        BY <1>5 DEF terminal_frame, host, SideEffects
    <2>. HIDE DEF t
    <2>. QED  BY <1>1, <2>1, <2>2, <2>3, <2>4, <2>5, SideStep
<1>6. ASSUME NEW g, terminal_stale(i, g) PROVE Inv' /\ Forward
    <2> DEFINE t == [s EXCEPT !.foreground = "Stale"]
    <2>1. i \in Registry
        BY <1>6 DEF terminal_stale, Shown
    <2>2. t \in SessionState
        BY <1>1, <2>1 DEF SessionState
    <2>3. /\ t.status = s.status /\ t.operation = s.operation /\ t.resume = s.resume
          /\ t.provider = s.provider /\ t.transport = s.transport /\ t.policy = s.policy
          /\ t.generation = s.generation /\ t.input = s.input
          /\ t.resume_identity = s.resume_identity /\ t.foreground # "Confirmed"
          /\ t.frame >= s.frame
        BY <1>1, <2>1 DEF SessionState
    <2>4. sessions' = [sessions EXCEPT ![i] = t]
        BY <1>6 DEF terminal_stale, invalidate_foreground
    <2>5. /\ SideEffects(i)
          /\ UNCHANGED <<generation_watermarks, inflight, processes, exits, abandoned, ignored>>
        BY <1>6 DEF terminal_stale, host, SideEffects
    <2>. HIDE DEF t
    <2>. QED  BY <1>1, <2>1, <2>2, <2>3, <2>4, <2>5, SideStep
<1>. QED  BY <1>2, <1>3, <1>4, <1>5, <1>6

\* What a correlated answer finds, and which answers are correlated.
LEMMA CorrelatedView ==
    ASSUME Inv, NEW e \in Outstanding
    PROVE  /\ Correlated(e) => e.instance \in Registry
           /\ Correlated(e) /\ e.kind \notin SideKinds =>
                 /\ OfGeneration(e) /\ OfOperation(e)
                 /\ e.kind \in SpawnKinds => sessions[e.instance].status = "Starting"
                 /\ e.kind = "Stop" => sessions[e.instance].status = "Stopping"
                 /\ e.kind = "AuthorizeResume" =>
                       /\ sessions[e.instance].resume.phase = "Authorizing"
                       /\ sessions[e.instance].status \in Startable
                 /\ e.kind \in WorkerKinds \ (SpawnKinds \cup {"Stop"}) =>
                       sessions[e.instance].status = "Running"
           /\ OfOperation(e) /\ Ends(e) => Correlated(e)
           /\ OfOperation(e) /\ e.kind \in SpawnKinds
                 /\ sessions[e.instance].status = "Starting" => Correlated(e)
<1> DEFINE s == sessions[e.instance]
<1>1. /\ e \in ControlEffect
      /\ e.instance \in Registry => SessionOK(s) /\ s.status \in SessionStatus
    BY DataFacts DEF Inv, Types, Outstanding, SessionOK
<1>2. e.kind \in WorkerKinds \cup SideKinds \cup {"AuthorizeResume"} /\ e.operation # NoOperation
    BY <1>1, DataFacts DEF ControlEffect, SideKinds
<1>3. e.kind \in HistoryKinds \cup {"ProbeCapabilities"} <=> e.kind \in SideKinds
    BY DEF SideKinds
<1>4. Correlated(e) => e.instance \in Registry
    BY DEF Correlated
<1>5. ASSUME Correlated(e), e.kind \notin SideKinds
      PROVE  /\ OfGeneration(e) /\ OfOperation(e)
             /\ e.kind \in SpawnKinds => s.status = "Starting"
             /\ e.kind = "Stop" => s.status = "Stopping"
             /\ e.kind = "AuthorizeResume" => s.resume.phase = "Authorizing"
             /\ e.kind \in WorkerKinds \ (SpawnKinds \cup {"Stop"}) => s.status = "Running"
    BY <1>3, <1>5, KindFacts DEF Correlated, OfGeneration, OfOperation
<1>6. ASSUME Correlated(e), e.kind = "AuthorizeResume"
      PROVE  s.status \in Startable
    BY <1>1, <1>4, <1>5, <1>6, KindFacts DEF SessionOK, PhaseFits
<1>7. ASSUME OfOperation(e), Ends(e)
      PROVE  Correlated(e)
    <2>1. e.instance \in Registry /\ s.generation = e.generation /\ s.operation = e.operation
        BY <1>7 DEF OfOperation, OfGeneration
    <2>2. CASE s.status \in {"Starting", "Stopping", "Running"}
        BY <1>3, <1>7, <2>1, <2>2, KindFacts DEF Ends, Correlated
    <2>3. CASE s.status \in Startable
        <3>1. e.kind = "AuthorizeResume" /\ s.resume.phase = "Authorizing"
            BY <1>1, <1>2, <1>7, <2>1, <2>3 DEF Ends, SessionOK, PhaseFits
        <3>. QED  BY <1>3, <2>1, <3>1, KindFacts DEF Correlated
    <2>. QED  BY <1>1, <2>1, <2>2, <2>3 DEF SessionStatus, Startable
<1>8. ASSUME OfOperation(e), e.kind \in SpawnKinds, s.status = "Starting"
      PROVE  Correlated(e)
    BY <1>3, <1>8, KindFacts DEF Correlated, OfGeneration, OfOperation
<1>. QED  BY <1>4, <1>5, <1>6, <1>7, <1>8

\* An answer that is not correlated changes no session.
LEMMA IgnoredStep ==
    ASSUME Inv, NEW e, Answer(e), ~Correlated(e),
           \/ processes' \subseteq processes
           \/ e.kind \in SpawnKinds /\ processes' = processes \cup {ProcessOf(e)},
           abandoned \subseteq abandoned', abandoned' \subseteq Processes, ignored' = ignored,
           UNCHANGED <<sessions, generation_watermarks, next_operation_id, effects, exits>>
    PROVE  Inv' /\ Forward
<1>1. e \in inflight /\ inflight' = inflight \ {e} /\ e \in Outstanding
    BY DEF Answer, Outstanding
<1>2. /\ ~(OfOperation(e) /\ Ends(e))
      /\ e.kind \in SpawnKinds => ~(OfOperation(e) /\ sessions[e.instance].status = "Starting")
    BY <1>1, CorrelatedView
<1>3. Dismisses(e)
    BY <1>1, <1>2 DEF Dismisses, Inv, Types
<1>. QED  BY <1>3, DismissesStep, UnchangedForward DEF Inv

\* Neither does one that is not valid: its operation stays pending.
LEMMA InvalidAction ==
    ASSUME Inv, NEW e \in inflight, answer_ignored(e)
    PROVE  Inv' /\ Forward
<1>1. /\ inflight' = inflight \ {e} /\ ignored' = ignored \cup {e.operation}
      /\ UNCHANGED <<sessions, generation_watermarks, next_operation_id, effects, processes,
                     exits, abandoned>>
    BY DEF answer_ignored, Answer
<1>2. Types /\ abandoned \subseteq Processes
    BY DEF Inv, Types
<1>3. ignored \subseteq ignored' /\ ignored' \subseteq Operations
    BY <1>1, <1>2 DEF Types, ControlEffect
<1>4. Ends(e) => sessions[e.instance].status \notin {"Starting", "Stopping"}
    BY DEF answer_ignored, Validated, HistoryKinds, Ends, SpawnKinds
<1>5. Dismisses(e)
    BY <1>1, <1>2, <1>3, <1>4 DEF Dismisses
<1>. QED  BY <1>1, <1>2, <1>5, DismissesStep, UnchangedForward

\* The answers of the lanes beside the worker.
LEMMA SideAnswers ==
    ASSUME Inv, NEW e \in inflight
    PROVE  /\ capabilities_probed(e) => Inv' /\ Forward
           /\ \A found \in SUBSET Identities : history_discovered(e, found) => Inv' /\ Forward
           /\ history_loaded(e) => Inv' /\ Forward
           /\ history_failed(e) => Inv' /\ Forward
<1> DEFINE i == e.instance
           s == sessions[i]
<1>0. Types /\ abandoned \subseteq Processes
    BY DEF Inv, Types
<1>1. i \in Registry => s \in SessionState /\ s.frame \in Int /\ s.history \in HistorySnapshot
    BY <1>0, EngineAssumption DEF Types, SessionOK, SessionState
<1>2. e.kind \in SideKinds /\ Answer(e) /\ UNCHANGED <<effects, next_operation_id>>
          => SideEffects(i)
    BY DEF SideEffects, Answer
<1>3. ASSUME Answer(e), e.kind \in SideKinds,
             UNCHANGED <<generation_watermarks, next_operation_id, effects, processes, exits,
                         abandoned, ignored>>,
             NEW t, Becomes(e, t), 
             Correlated(e) => 
               /\ t \in SessionState
               /\ t.status = s.status /\ t.operation = s.operation /\ t.resume = s.resume
               /\ t.provider = s.provider /\ t.transport = s.transport /\ t.policy = s.policy
               /\ t.generation = s.generation /\ t.input = s.input
               /\ t.resume_identity = s.resume_identity /\ t.foreground = s.foreground
               /\ t.frame >= s.frame
      PROVE  Inv' /\ Forward
    <2>1. CASE ~Correlated(e)
        <3>1. sessions' = sessions
            BY <1>3, <2>1 DEF Becomes
        <3>. QED  BY <1>0, <1>3, <2>1, <3>1, IgnoredStep
    <2>2. CASE Correlated(e)
        <3>1. i \in Registry /\ sessions' = [sessions EXCEPT ![i] = t]
            BY <1>3, <2>2 DEF Becomes, Correlated
        <3>2. SideEffects(i)
            BY <1>2, <1>3
        <3>. QED  BY <1>3, <2>2, <3>1, <3>2, SideStep
    <2>. QED  BY <2>1, <2>2
<1>9. NoOperation \in 0..MaxOperation
    BY EngineAssumption DEF NoOperation
<1>4. ASSUME capabilities_probed(e) PROVE Inv' /\ Forward
    <2> DEFINE t == [s EXCEPT !.probe = NoOperation, !.probe_generation = NoGeneration,
                              !.probe_settled = "Yes"]
    <2>1. /\ Answer(e) /\ e.kind \in SideKinds /\ Becomes(e, t)
          /\ UNCHANGED <<generation_watermarks, next_operation_id, effects, processes, exits,
                         abandoned, ignored>>
        BY <1>4 DEF capabilities_probed, SideKinds
    <2>2. Correlated(e) =>
               /\ t \in SessionState
               /\ t.status = s.status /\ t.operation = s.operation /\ t.resume = s.resume
               /\ t.provider = s.provider /\ t.transport = s.transport /\ t.policy = s.policy
               /\ t.generation = s.generation /\ t.input = s.input
               /\ t.resume_identity = s.resume_identity /\ t.foreground = s.foreground
               /\ t.frame >= s.frame
        <3>1. i \in Registry =>
               /\ t \in SessionState
               /\ t.status = s.status /\ t.operation = s.operation /\ t.resume = s.resume
               /\ t.provider = s.provider /\ t.transport = s.transport /\ t.policy = s.policy
               /\ t.generation = s.generation /\ t.input = s.input
               /\ t.resume_identity = s.resume_identity /\ t.foreground = s.foreground
               /\ t.frame >= s.frame
            <4>1. i \in Registry => t \in SessionState
                BY <1>1, <1>9 DEF SessionState
            <4>. QED  BY <1>1, <4>1 DEF SessionState
        <3>. QED  BY <3>1 DEF Correlated
    <2>. HIDE DEF t
    <2>. QED  BY <1>3, <2>1, <2>2
<1>5. ASSUME NEW t, NEW h \in HistorySnapshot, t = [s EXCEPT !.history = h], i \in Registry
      PROVE  /\ t \in SessionState
             /\ t.status = s.status /\ t.operation = s.operation /\ t.resume = s.resume
             /\ t.provider = s.provider /\ t.transport = s.transport /\ t.policy = s.policy
             /\ t.generation = s.generation /\ t.input = s.input
             /\ t.resume_identity = s.resume_identity /\ t.foreground = s.foreground
             /\ t.frame >= s.frame
    BY <1>1, <1>5 DEF SessionState
<1>6. ASSUME NEW found \in SUBSET Identities, history_discovered(e, found)
      PROVE  Inv' /\ Forward
    <2> DEFINE h == [DefaultHistory EXCEPT !.candidates = found]
               t == [s EXCEPT !.history = h]
    <2>1. /\ Answer(e) /\ e.kind \in SideKinds /\ Becomes(e, t)
          /\ UNCHANGED <<generation_watermarks, next_operation_id, effects, processes, exits,
                         abandoned, ignored>>
        BY <1>6 DEF history_discovered, SideKinds, HistoryKinds
    <2>2. h \in HistorySnapshot
        BY EngineAssumption DEF DefaultHistory, HistorySnapshot, NoOperation
    <2>3. t = [s EXCEPT !.history = h] /\ (Correlated(e) => i \in Registry)
        BY DEF Correlated
    <2>. HIDE DEF t, h
    <2>. QED  BY <1>3, <1>5, <2>1, <2>2, <2>3
<1>7. ASSUME history_loaded(e) PROVE Inv' /\ Forward
    <2> DEFINE h == [s.history EXCEPT !.operation = NoOperation, !.kind = "None",
                                      !.loaded = s.history.candidate, !.candidate = None]
               t == [s EXCEPT !.history = h]
    <2>1. /\ Answer(e) /\ e.kind \in SideKinds /\ Becomes(e, t)
          /\ UNCHANGED <<generation_watermarks, next_operation_id, effects, processes, exits,
                         abandoned, ignored>>
        BY <1>7 DEF history_loaded, SideKinds, HistoryKinds
    <2>2. i \in Registry => h \in HistorySnapshot
        BY <1>1, <1>9 DEF HistorySnapshot
    <2>3. t = [s EXCEPT !.history = h] /\ (Correlated(e) => i \in Registry)
        BY DEF Correlated
    <2>. HIDE DEF t, h
    <2>. QED  BY <1>3, <1>5, <2>1, <2>2, <2>3
<1>8. ASSUME history_failed(e) PROVE Inv' /\ Forward
    <2> DEFINE h == [s.history EXCEPT !.operation = NoOperation, !.kind = "None",
                                      !.candidate = None]
               t == [s EXCEPT !.history = h]
    <2>1. /\ Answer(e) /\ e.kind \in SideKinds
          /\ UNCHANGED <<generation_watermarks, next_operation_id, effects, processes, exits,
                         abandoned, ignored>>
        BY <1>8 DEF history_failed, SideKinds, HistoryKinds
    <2>2. Becomes(e, [s EXCEPT !.history = [@ EXCEPT !.operation = NoOperation, !.kind = "None",
                                                     !.candidate = None]])
        BY <1>8 DEF history_failed
    <2>3. i \in Registry =>
            /\ h \in HistorySnapshot
            /\ t = [s EXCEPT !.history = [@ EXCEPT !.operation = NoOperation, !.kind = "None",
                                                     !.candidate = None]]
        <3>1. i \in Registry => h \in HistorySnapshot
            BY <1>1, <1>9 DEF HistorySnapshot
        <3>. QED  BY <1>1, <3>1 DEF SessionState
    <2>4. Correlated(e) => i \in Registry
        BY DEF Correlated
    <2>5. Becomes(e, t)
        BY <2>2, <2>3, <2>4 DEF Becomes
    <2>6. t = [s EXCEPT !.history = h]
        OBVIOUS
    <2>. HIDE DEF t, h
    <2>. QED  BY <1>3, <1>5, <2>1, <2>3, <2>4, <2>5, <2>6
<1>. QED  BY <1>4, <1>6, <1>7, <1>8

-----------------------------------------------------------------------------
(* Provider events. *)

\* What the session is resolving for its pending operation.
Busy(s) == {x \in s.provider.interactions :
               x.status = "Resolving" /\ x.operation = s.operation}

\* The fields that provider events leave alone.
SameShell(s, t) ==
    /\ t.transport = s.transport /\ t.status = s.status /\ t.generation = s.generation
    /\ t.input = s.input /\ t.frame = s.frame /\ t.foreground = s.foreground
    /\ t.resume = s.resume /\ t.resume_identity = s.resume_identity
    /\ t.policy = s.policy

\* What any number of gaps and admitted events make of a session: its
\* operation ends exactly when the last of what it resolves has settled.
Absorbs(s, t) ==
    /\ t \in SessionState
    /\ SameShell(s, t)
    /\ Evolves(s.provider, t.provider)
    /\ \/ /\ t.operation = s.operation
          /\ Busy(s) # {} => Busy(s) \cap t.provider.interactions # {}
       \/ /\ t.operation = NoOperation /\ s.operation # NoOperation
          /\ Busy(s) # {} /\ Busy(s) \cap t.provider.interactions = {}
    /\ "SemanticReadiness" \notin s.policy =>
          /\ t.provider.interactions = s.provider.interactions
          /\ t.provider.subagents = s.provider.subagents /\ t.provider.lead = s.provider.lead
    /\ "ProviderSessionIdentity" \notin s.policy => t.provider.session = s.provider.session

\* A gap is absorbed.
LEMMA GapAbsorbs ==
    ASSUME NEW s, SessionOK(s), s.provider.sequence < MaxSequence,
           NEW src \in Sources, NEW n \in 0..MaxSequence, n >= s.provider.cursors[src],
           NEW t, t = [s EXCEPT !.provider = reduce_provider_gap(@, src, n)]
    PROVE  /\ Absorbs(s, t) /\ t.operation = s.operation
           /\ t.provider.sequence = s.provider.sequence + 1
           /\ t.provider.cursors[src] = n
<1> DEFINE p == reduce_provider_gap(s.provider, src, n)
<1>1. WellFormed(s.provider) /\ IdsUsed(s.provider) /\ s \in SessionState
    BY DEF SessionOK
<1>2. /\ Evolves(s.provider, p) /\ p.sequence = s.provider.sequence + 1 /\ p.cursors[src] = n
      /\ p.session = s.provider.session /\ p.lead = s.provider.lead
      /\ p.subagents = s.provider.subagents /\ p.interactions = s.provider.interactions
    BY <1>1, GapEvolves
<1>3. p \in ProviderSnapshot
    BY <1>2 DEF Evolves, WellFormed
<1>4. s.operation \in 0..MaxOperation /\ t = [s EXCEPT !.provider = p, !.operation = s.operation]
    BY <1>1 DEF SessionState
<1>. HIDE DEF p
<1>5. t \in SessionState /\ SameShell(s, t) /\ t.provider = p /\ t.operation = s.operation
    <2>1. t \in SessionState
        BY <1>1, <1>3, <1>4 DEF SessionState
    <2>. QED  BY <1>1, <1>4, <2>1 DEF SameShell, SessionState
<1>6. Busy(s) \subseteq s.provider.interactions
    BY DEF Busy
<1>. QED  BY <1>2, <1>5, <1>6 DEF Absorbs

\* One more event is absorbed.
LEMMA EventAbsorbs ==
    ASSUME NEW s, SessionOK(s),
           \A x \in s.provider.interactions : x.status = "Resolving" => x.operation # NoOperation,
           NEW u, Absorbs(s, u), u.provider.sequence < MaxSequence,
           NEW src \in Sources, NEW n \in 0..MaxSequence, n >= u.provider.cursors[src],
           NEW ev \in ProviderEvent,
           ev.kind # "SessionIdentityObserved" => "SemanticReadiness" \in s.policy,
           provider_event_carries_session_identity(ev) =>
               "ProviderSessionIdentity" \in s.policy
    PROVE  LET t == Absorbed(u, src, n, ev) IN
           /\ Absorbs(s, t)
           /\ t.provider.sequence = u.provider.sequence + 1
           /\ t.provider.cursors[src] = n
<1> DEFINE p == reduce_provider_event(u.provider, src, n, ev)
           R == Busy(u)
           o == IF u.operation # NoOperation /\ R # {} /\ R \cap p.interactions = {}
                THEN NoOperation ELSE u.operation
           t == Absorbed(u, src, n, ev)
<1>1. /\ WellFormed(s.provider) /\ IdsUsed(s.provider)
      /\ WellFormed(u.provider) /\ IdsUsed(u.provider) /\ u \in SessionState
    BY DEF SessionOK, Absorbs, Evolves
<1>2. /\ Evolves(u.provider, p) /\ p.sequence = u.provider.sequence + 1 /\ p.cursors[src] = n
      /\ ~provider_event_carries_session_identity(ev) => p.session = u.provider.session
      /\ ev.kind = "SessionIdentityObserved" =>
            /\ p.interactions = u.provider.interactions /\ p.subagents = u.provider.subagents
            /\ p.lead = u.provider.lead
    BY <1>1, EventEvolves
<1>3. p \in ProviderSnapshot
    BY <1>2 DEF Evolves, WellFormed
<1>4. u.operation \in 0..MaxOperation /\ NoOperation \in 0..MaxOperation
    BY <1>1, EngineAssumption DEF SessionState, NoOperation
<1>5. o \in 0..MaxOperation
    BY <1>4
<1>6. t = [u EXCEPT !.provider = p, !.operation = o]
    BY DEF Absorbed, Busy
<1>7. (u.operation # NoOperation /\ R # {} /\ R \cap p.interactions = {} /\ o = NoOperation)
        \/ (~(u.operation # NoOperation /\ R # {} /\ R \cap p.interactions = {})
            /\ o = u.operation)
    OBVIOUS
<1>. HIDE DEF p, R, o, t
<1>8. t \in SessionState /\ SameShell(u, t) /\ t.provider = p /\ t.operation = o
    <2>1. t \in SessionState
        BY <1>1, <1>3, <1>5, <1>6 DEF SessionState
    <2>. QED  BY <1>1, <1>6, <2>1 DEF SameShell, SessionState
<1>9. SameShell(s, t)
    BY <1>8 DEF SameShell, Absorbs
<1>10. Evolves(s.provider, p)
    BY <1>1, <1>2, EvolvesOrder DEF Absorbs
<1>11. /\ \A y \in p.interactions : y.status = "Resolving" => y \in u.provider.interactions
       /\ \A y \in u.provider.interactions : y.status = "Resolving" =>
             y \in s.provider.interactions
    BY <1>1, <1>2, EvolvesFinal DEF Absorbs
<1>12. \/ /\ o = s.operation
          /\ Busy(s) # {} => Busy(s) \cap p.interactions # {}
       \/ /\ o = NoOperation /\ s.operation # NoOperation
          /\ Busy(s) # {} /\ Busy(s) \cap p.interactions = {}
    <2>1. CASE /\ u.operation = s.operation
               /\ Busy(s) # {} => Busy(s) \cap u.provider.interactions # {}
        <3>1. R \subseteq Busy(s) /\ Busy(s) \cap u.provider.interactions \subseteq R
            BY <1>11, <2>1 DEF R, Busy
        <3>2. Busy(s) \cap p.interactions \subseteq R
            BY <1>11, <2>1 DEF R, Busy
        <3>3. s.operation = NoOperation => Busy(s) = {}
            BY DEF Busy
        <3>. QED  BY <1>7, <2>1, <3>1, <3>2, <3>3
    <2>2. CASE /\ u.operation = NoOperation /\ s.operation # NoOperation
               /\ Busy(s) # {} /\ Busy(s) \cap u.provider.interactions = {}
        <3>1. Busy(s) \cap p.interactions = {}
            BY <1>11, <2>2 DEF Busy
        <3>. QED  BY <1>7, <2>2, <3>1
    <2>. QED  BY <2>1, <2>2 DEF Absorbs
<1>13. "SemanticReadiness" \notin s.policy =>
          /\ p.interactions = s.provider.interactions
          /\ p.subagents = s.provider.subagents /\ p.lead = s.provider.lead
    BY <1>2 DEF Absorbs
<1>14. "ProviderSessionIdentity" \notin s.policy => p.session = s.provider.session
    BY <1>2 DEF Absorbs
<1>15. Absorbs(s, t)
    BY <1>8, <1>9, <1>10, <1>12, <1>13, <1>14 DEF Absorbs
<1>. QED  BY <1>2, <1>8, <1>15 DEF t

\* What is resolving in a live session, when an operation is pending, is
\* resolved by the pending operation, and the session is running.
LEMMA BusyRuns ==
    ASSUME Inv, NEW i \in Registry, sessions[i].status \in Live,
           sessions[i].operation # NoOperation, Busy(sessions[i]) # {}
    PROVE  /\ sessions[i].status = "Running"
           /\ \A x \in sessions[i].provider.interactions : x.status = "Resolving" =>
                 x \in Busy(sessions[i])
           /\ \A e \in Outstanding : e.operation = sessions[i].operation =>
                 /\ e.kind = "ResolveInteraction" /\ e.instance = i
                 /\ e.generation = sessions[i].generation
<1> DEFINE s == sessions[i]
<1>1. SessionOK(s) /\ ResolutionsMatch /\ Owed /\ OperationsUsed
    BY DEF Inv, Types
<1>2. PICK x \in s.provider.interactions : x.status = "Resolving" /\ x.operation = s.operation
    BY DEF Busy
<1>3. CASE Forgone(i)
    BY <1>1, <1>2, <1>3 DEF Forgone, AnswerIgnored, ResolutionsMatch, Busy, Live
<1>4. CASE \E e \in Outstanding : e.instance = i /\ OfOperation(e) /\ Ends(e)
    <2>1. PICK e \in Outstanding : e.instance = i /\ OfOperation(e) /\ Ends(e)
        BY <1>4
    <2>2. e.generation = s.generation /\ e.operation = s.operation
        BY <2>1 DEF OfOperation, OfGeneration
    <2>3. e.kind = "ResolveInteraction"
        BY <1>1, <1>2, <2>2 DEF ResolutionsMatch
    <2>4. s.status = "Running"
        BY <1>1, <1>2, <2>1, <2>3 DEF Ends, SessionOK, Live
    <2>5. \A y \in s.provider.interactions : y.status = "Resolving" => y \in Busy(s)
        BY <1>1, <2>4 DEF ResolutionsMatch, Busy
    <2>6. \A f \in Outstanding : f.operation = s.operation => f = e
        BY <1>1, <2>2 DEF OperationsUsed
    <2>. QED  BY <2>1, <2>2, <2>3, <2>4, <2>5, <2>6
<1>. QED  BY <1>1, <1>3, <1>4 DEF Owed

\* A live session that absorbs events.
LEMMA AbsorbsStep ==
    ASSUME Inv, NEW i \in Registry, NEW t, sessions[i].status \in Live,
           Absorbs(sessions[i], t), Absorb(i, t),
           UNCHANGED <<generation_watermarks, next_operation_id, host>>
    PROVE  Inv' /\ Forward
<1> DEFINE s == sessions[i]
<1>1. Types /\ SessionOK(s) /\ t \in SessionState /\ SameShell(s, t)
      /\ Evolves(s.provider, t.provider)
    BY DEF Inv, Types, Absorbs
<1>2. /\ WellFormed(s.provider) /\ IdsUsed(s.provider)
      /\ WellFormed(t.provider) /\ IdsUsed(t.provider)
    BY <1>1 DEF SessionOK, Evolves
<1>3. \A y \in t.provider.interactions : y.status = "Resolving" => y \in s.provider.interactions
    BY <1>1, <1>2, EvolvesFinal
<1>4. SessionOK(t)
    <2>1. PhaseFits(t)
        BY <1>1, KindFacts DEF SessionOK, PhaseFits, SameShell
    <2>2. Withholds(t)
        BY <1>1 DEF SessionOK, Withholds, SameShell, Absorbs
    <2>3. t.status \notin Startable
        BY <1>1, KindFacts DEF SameShell
    <2>4. t.status = "Starting" => \A x \in t.provider.interactions : x.status # "Resolving"
        BY <1>1, <1>3 DEF SessionOK, SameShell
    <2>5. t.foreground = "Confirmed" => t.status = "Running"
        BY <1>1 DEF SessionOK, SameShell
    <2>. QED  BY <1>1, <1>2, <2>1, <2>2, <2>3, <2>4, <2>5 DEF SessionOK
<1>5. Only(i) /\ sessions'[i] = t
    BY <1>1, <1>4, PutOnly DEF Absorb
<1>6. Advances(s, t) /\ t.generation = s.generation
    BY <1>1, AdvancesSelf DEF SameShell
<1>7. Forward
    BY <1>1, <1>5, <1>6, OnlyForward
<1>8. UNCHANGED <<generation_watermarks, next_operation_id, inflight, processes, exits, abandoned, ignored>>
    BY DEF host
<1>9. CASE t.operation = s.operation
    <2>1. effects' = effects
        BY <1>9 DEF Absorb
    <2>2. Busy(s) # {} => Busy(s) \cap t.provider.interactions # {}
        BY <1>9 DEF Absorbs
    <2>3. \A x \in s.provider.interactions :
            x.status = "Resolving" /\ x.operation = s.operation =>
              \E y \in t.provider.interactions :
                  y.status = "Resolving" /\ y.operation = s.operation
        BY <2>2 DEF Busy
    <2>4. Keeps(s, t)
        BY <1>1, <1>3, <1>9, <2>3 DEF Keeps, SameShell
    <2>5. Quiet(i)
        BY <1>5, <1>8, <2>1, <2>4 DEF Quiet, SideEffects
    <2>. QED  BY <1>7, <2>5, QuietStep
<1>10. CASE t.operation # s.operation
    <2>1. /\ t.operation = NoOperation /\ s.operation # NoOperation
          /\ Busy(s) # {} /\ Busy(s) \cap t.provider.interactions = {}
        BY <1>10 DEF Absorbs
    <2>2. /\ s.status = "Running"
          /\ \A x \in s.provider.interactions : x.status = "Resolving" => x \in Busy(s)
          /\ \A e \in Outstanding : e.operation = s.operation =>
                 e.kind = "ResolveInteraction" /\ e.instance = i /\ e.generation = s.generation
        BY <2>1, BusyRuns
    <2>3. effects' = effects \ pending_interaction_resolution(i)
        BY <1>10 DEF Absorb
    <2>4. \A e \in pending_interaction_resolution(i) : e.instance = i
        BY DEF pending_interaction_resolution
    <2>5. Shrinks(i)
        BY <1>8, <2>3, <2>4 DEF Shrinks, Outstanding
    <2>6. \A x \in t.provider.interactions : x.status # "Resolving"
        BY <1>3, <2>1, <2>2
    <2>7. \A e \in effects : e.operation = s.operation => e \in pending_interaction_resolution(i)
        BY <2>1, <2>2 DEF pending_interaction_resolution, Busy, Outstanding
    <2>8. \A e \in Outstanding' : e.operation = s.operation =>
            e.kind = "ResolveInteraction" /\ e \notin effects'
        BY <1>8, <2>2, <2>3, <2>7 DEF Outstanding
    <2>9. t.status = s.status
        BY <1>1 DEF SameShell
    <2>10. Frees(i)
        BY <1>5, <1>6, <1>8, <2>1, <2>2, <2>5, <2>6, <2>8, <2>9 DEF Frees
    <2>. QED  BY <1>7, <2>10, FreesStep
<1>. QED  BY <1>9, <1>10

\* The events and gaps that the engine is told of, and the ones its policy
\* refuses.
LEMMA ProviderActions ==
    ASSUME Inv, NEW i \in Instances, NEW g, NEW src \in Sources
    PROVE  /\ \A n \in 1..MaxSequence, b \in Batches :
                 ingest_provider(i, g, src, n, b) => Inv' /\ Forward
           /\ \A n \in 1..MaxSequence, ev \in Events :
                 provider_event(i, g, src, n, ev) => Inv' /\ Forward
           /\ \A missed \in 1..MaxSequence :
                 provider_gap(i, g, src, missed) => Inv' /\ Forward
<1> DEFINE s == sessions[i]
<1>1. i \in Registry =>
        /\ SessionOK(s) /\ s.provider.sequence \in Nat /\ s.provider.cursors[src] \in Nat
        /\ \A x \in s.provider.interactions : x.status = "Resolving" => x.operation # NoOperation
    <2>1. i \in Registry => SessionOK(s)
        BY DEF Inv, Types
    <2>2. SessionOK(s) => s.provider.sequence \in Nat /\ s.provider.cursors[src] \in Nat
        BY ReducerAssumption DEF SessionOK, WellFormed, ProviderSnapshot
    <2>3. i \in Registry => \A x \in s.provider.interactions :
                                x.status = "Resolving" => x.operation # NoOperation
        BY DEF Inv, ResolutionsMatch
    <2>. QED  BY <2>1, <2>2, <2>3
<1>0. /\ MaxSequence \in Nat /\ 1..MaxSequence \subseteq 0..MaxSequence
      /\ Events \subseteq ProviderEvent
    BY ReducerAssumption, EngineAssumption
<1>2. ASSUME NEW t, i \in Registry, s.status \in Live, Absorbs(s, t), t.operation = s.operation,
             sessions' = [sessions EXCEPT ![i] = t], effects' = effects,
             UNCHANGED <<generation_watermarks, next_operation_id, host>>
      PROVE  Inv' /\ Forward
    <2>1. Absorb(i, t)
        BY <1>2 DEF Absorb
    <2>. QED  BY <1>2, <2>1, AbsorbsStep
<1>3. ASSUME NEW n \in 0..MaxSequence, i \in Registry, s.status \in Live,
             s.provider.sequence < MaxSequence, n >= s.provider.cursors[src],
             sessions' = [sessions EXCEPT ![i].provider = reduce_provider_gap(@, src, n)],
             effects' = effects,
             UNCHANGED <<generation_watermarks, next_operation_id, host>>
      PROVE  Inv' /\ Forward
    <2> DEFINE t == [s EXCEPT !.provider = reduce_provider_gap(@, src, n)]
    <2>1. sessions' = [sessions EXCEPT ![i] = t]
        BY <1>3
    <2>2. t = [s EXCEPT !.provider = reduce_provider_gap(@, src, n)]
        OBVIOUS
    <2>. HIDE DEF t
    <2>3. Absorbs(s, t) /\ t.operation = s.operation
        BY <1>1, <1>3, <2>2, GapAbsorbs
    <2>. QED  BY <1>2, <1>3, <2>1, <2>3
<1>4. ASSUME NEW missed \in 1..MaxSequence, provider_gap(i, g, src, missed)
      PROVE  Inv' /\ Forward
    <2> DEFINE n == s.provider.cursors[src] + missed
    <2>1. /\ i \in Registry /\ s.status \in Live /\ s.provider.sequence < MaxSequence
          /\ n <= MaxSequence
          /\ sessions' = [sessions EXCEPT ![i].provider = reduce_provider_gap(@, src, n)]
          /\ effects' = effects /\ UNCHANGED <<generation_watermarks, next_operation_id, host>>
        BY <1>4 DEF provider_gap
    <2>2. n \in 0..MaxSequence /\ n >= s.provider.cursors[src]
        BY <1>0, <1>1, <1>4, <2>1
    <2>. HIDE DEF n
    <2>. QED  BY <1>3, <2>1, <2>2
<1>5. ASSUME NEW n \in 1..MaxSequence, NEW ev \in Events, provider_event(i, g, src, n, ev)
      PROVE  Inv' /\ Forward
    <2>1. /\ i \in Registry /\ s.status \in Live /\ s.provider.sequence < MaxSequence
          /\ n > s.provider.cursors[src]
          /\ UNCHANGED <<generation_watermarks, next_operation_id, host>>
        BY <1>5 DEF provider_event
    <2>2. n \in 0..MaxSequence /\ n >= s.provider.cursors[src] /\ ev \in ProviderEvent
        BY <1>0, <1>1, <2>1
    <2>3. CASE AdmitsEvent(s.policy, ev)
        <3> DEFINE t == Absorbed(s, src, n, ev)
        <3>1. Absorbs(s, s)
            <4>1. Evolves(s.provider, s.provider)
                BY <1>1, <2>1, EvolvesOrder DEF SessionOK
            <4>. QED  BY <1>1, <2>1, <4>1 DEF SessionOK, Absorbs, SameShell, Busy
        <3>2. Absorbs(s, t)
            BY <1>1, <2>1, <2>2, <2>3, <3>1, EventAbsorbs DEF AdmitsEvent
        <3>3. Absorb(i, t)
            BY <1>5, <2>3 DEF provider_event
        <3>. HIDE DEF t
        <3>. QED  BY <2>1, <3>2, <3>3, AbsorbsStep
    <2>4. CASE ~AdmitsEvent(s.policy, ev)
        BY <1>3, <1>5, <2>1, <2>2, <2>4 DEF provider_event, Refused
    <2>. QED  BY <2>3, <2>4
<1>6. ASSUME NEW n \in 1..MaxSequence, NEW b \in Batches, ingest_provider(i, g, src, n, b)
      PROVE  Inv' /\ Forward
    <2> DEFINE missed == n - s.provider.cursors[src] - 1
               gap == IF missed > 0
                      THEN [s EXCEPT !.provider = reduce_provider_gap(@, src, n - 1)] ELSE s
    <2>1. /\ i \in Registry /\ s.status \in Live /\ n > s.provider.cursors[src]
          /\ UNCHANGED <<generation_watermarks, next_operation_id, host>>
        BY <1>6 DEF ingest_provider
    <2>2. /\ n \in 0..MaxSequence /\ n - 1 \in 0..MaxSequence /\ n >= s.provider.cursors[src]
          /\ n - 1 >= s.provider.cursors[src] /\ n \in Int
        BY <1>0, <1>1, <2>1
    <2>3. ASSUME AdmitsBatch(s.policy, missed, b)
          PROVE  Inv' /\ Forward
        <3>0. gap.provider.sequence + Len(b) <= MaxSequence /\ Absorb(i, AbsorbedBatch(gap, src, n, b))
            BY <1>6, <2>3 DEF ingest_provider
        <3>1. /\ DOMAIN b = 1..Len(b) /\ Len(b) \in {1, 2}
              /\ b[1] \in ProviderEvent /\ (Len(b) = 2 => b[2] \in ProviderEvent)
            BY <1>0 DEF Batches
        <3>2. \A k \in DOMAIN b :
                /\ b[k].kind # "SessionIdentityObserved" => "SemanticReadiness" \in s.policy
                /\ provider_event_carries_session_identity(b[k]) =>
                      "ProviderSessionIdentity" \in s.policy
            BY <2>3 DEF AdmitsBatch
        <3>3. Absorbs(s, gap) /\ gap.provider.cursors[src] <= n /\ gap.provider.sequence \in Nat
            <4>1. CASE missed > 0
                <5>1. gap = [s EXCEPT !.provider = reduce_provider_gap(@, src, n - 1)]
                    BY <4>1
                <5>2. gap.provider.sequence = s.provider.sequence + 1 /\ s.provider.sequence < MaxSequence
                    <6>1. gap.provider.sequence = s.provider.sequence + 1
                        <7>1. s \in SessionState /\ s.provider \in ProviderSnapshot
                            BY <1>1, <2>1 DEF SessionOK, WellFormed
                        <7>2. gap.provider = Advanced(s.provider, src, n - 1)
                            BY <5>1, <7>1 DEF reduce_provider_gap, SessionState
                        <7>. QED  BY <7>1, <7>2 DEF Advanced, ProviderSnapshot
                    <6>. QED  BY <1>0, <1>1, <2>1, <3>0, <3>1, <6>1
                <5>. HIDE DEF gap
                <5>3. Absorbs(s, gap) /\ gap.provider.cursors[src] = n - 1
                    BY <1>1, <2>1, <2>2, <5>1, <5>2, GapAbsorbs
                <5>. QED  BY <1>1, <2>1, <2>2, <5>2, <5>3
            <4>2. CASE ~(missed > 0)
                <5>1. gap = s
                    BY <4>2
                <5>2. Evolves(s.provider, s.provider)
                    BY <1>1, <2>1, EvolvesOrder DEF SessionOK
                <5>3. Absorbs(s, s)
                    BY <1>1, <2>1, <5>2 DEF SessionOK, Absorbs, SameShell, Busy
                <5>. QED  BY <1>1, <2>1, <2>2, <5>1, <5>3
            <4>. QED  BY <4>1, <4>2
        <3>. HIDE DEF gap
        <3> DEFINE one == Absorbed(gap, src, n, b[1])
                   two == Absorbed(one, src, n, b[2])
        <3>4. /\ Absorbs(s, one) /\ one.provider.sequence = gap.provider.sequence + 1
              /\ one.provider.cursors[src] = n
            <4>1. 1 \in DOMAIN b /\ gap.provider.sequence < MaxSequence
                BY <1>0, <3>0, <3>1, <3>3
            <4>. QED  BY <1>1, <2>1, <2>2, <3>1, <3>2, <3>3, <4>1, EventAbsorbs
        <3>. HIDE DEF one
        <3>5. CASE Len(b) = 1
            BY <2>1, <3>0, <3>4, <3>5, AbsorbsStep DEF AbsorbedBatch, one
        <3>6. CASE Len(b) = 2
            <4>1. 2 \in DOMAIN b /\ one.provider.sequence < MaxSequence /\ n >= one.provider.cursors[src]
                BY <1>0, <2>2, <3>0, <3>1, <3>3, <3>4, <3>6
            <4>2. Absorbs(s, two)
                BY <1>1, <2>1, <2>2, <3>1, <3>2, <3>4, <3>6, <4>1, EventAbsorbs
            <4>3. Absorb(i, two)
                BY <3>0, <3>6 DEF AbsorbedBatch, one
            <4>. HIDE DEF two
            <4>. QED  BY <2>1, <4>2, <4>3, AbsorbsStep
        <3>. QED  BY <3>1, <3>5, <3>6
    <2>4. ASSUME ~AdmitsBatch(s.policy, missed, b)
          PROVE  Inv' /\ Forward
        <3>1. s.provider.sequence < MaxSequence /\ Refused(i, src, n) /\ effects' = effects
            BY <1>6, <2>4 DEF ingest_provider
        <3>. QED  BY <1>3, <2>1, <2>2, <3>1 DEF Refused
    <2>. QED  BY <2>3, <2>4
<1>. QED  BY <1>4, <1>5, <1>6

-----------------------------------------------------------------------------
(* Commands that begin an operation. *)

\* An idle session takes up an operation.
LEMMA IdleStep ==
    ASSUME Inv, NEW i, Idle(i), NEW t \in SessionState, NEW e \in ControlEffect,
           sessions' = [sessions EXCEPT ![i] = t], effects' = effects \cup {e},
           allocate_operation, UNCHANGED <<generation_watermarks, host>>,
           e.kind \in WorkerKinds \ (SpawnKinds \cup {"Stop"}),
           e.instance = i, e.operation = next_operation_id,
           e.generation = sessions[i].generation,
           t.operation = next_operation_id,
           t.status = sessions[i].status, t.generation = sessions[i].generation,
           t.resume = sessions[i].resume, t.transport = sessions[i].transport,
           t.policy = sessions[i].policy, t.frame = sessions[i].frame,
           t.foreground = "Confirmed" => sessions[i].foreground = "Confirmed",
           e.kind \in InputKinds => t.input # "None" /\ t.foreground # "Confirmed",
           WellFormed(t.provider), IdsUsed(t.provider), Final(sessions[i].provider, t.provider),
           t.provider.sequence = sessions[i].provider.sequence,
           t.provider.cursors = sessions[i].provider.cursors,
           t.provider.session = sessions[i].provider.session,
           t.provider.lead = sessions[i].provider.lead,
           t.provider.subagents = sessions[i].provider.subagents,
           sessions[i].provider.interactions = {} => t.provider.interactions = {},
           e.kind = "ResolveInteraction" => \E x \in t.provider.interactions :
               x.status = "Resolving" /\ x.operation = e.operation /\ x.id = e.interaction,
           \A x \in t.provider.interactions : x.status = "Resolving" =>
               \/ x \in sessions[i].provider.interactions
               \/ /\ e.kind = "ResolveInteraction"
                  /\ x.operation = e.operation /\ x.id = e.interaction
    PROVE  Inv' /\ Forward
<1> DEFINE s == sessions[i]
<1>1. Types /\ i \in Registry /\ SessionOK(s) /\ s.status = "Running" /\ s.operation = NoOperation
    BY DEF Inv, Types, Idle
<1>2. SessionOK(t)
    <2>1. PhaseFits(t)
        BY <1>1 DEF SessionOK, PhaseFits, Startable
    <2>2. Withholds(t)
        BY <1>1 DEF SessionOK, Withholds
    <2>. QED  BY <1>1, <2>1, <2>2 DEF SessionOK, Startable
<1>3. Only(i) /\ sessions'[i] = t
    <2>1. sessions' = [sessions EXCEPT ![i] = t]
        OBVIOUS
    <2>. QED  BY <1>1, <1>2, <2>1, PutOnly, ZenonT(30)
<1>4. Queues(i, e)
    BY DEF Queues, allocate_operation, host
<1>5. Begins(i, e)
    BY <1>1, <1>3, <1>4 DEF Begins, host
<1>6. Advances(s, t)
    BY <1>1, CountersOK DEF Advances
<1>7. Forward
    BY <1>1, <1>3, <1>6, OnlyForward
<1>. QED  BY <1>5, <1>7, BeginsStep

\* A command that only changes the input and the foreground besides.
LEMMA RequestStep ==
    ASSUME Inv, NEW i \in Instances, Idle(i), NEW k \in WorkerKinds \ (SpawnKinds \cup {"Stop",
               "ResolveInteraction"}),
           NEW n \in {"None", "Text", "Interrupt"}, NEW f \in {"Unknown", "Confirmed", "Stale"},
           f = "Confirmed" => sessions[i].foreground = "Confirmed",
           k \in InputKinds => n # "None" /\ f # "Confirmed",
           NEW u, u = [sessions[i] EXCEPT !.input = n, !.foreground = f],
           Request(i, u, Effect(k, next_operation_id, i, sessions[i].generation))
    PROVE  Inv' /\ Forward
<1> DEFINE s == sessions[i]
           t == [u EXCEPT !.operation = next_operation_id]
           e == Effect(k, next_operation_id, i, s.generation)
<1>1. /\ sessions' = [sessions EXCEPT ![i] = t] /\ effects' = effects \cup {e}
      /\ allocate_operation /\ UNCHANGED <<generation_watermarks, host>>
    BY DEF Request
<1>2. Types /\ SessionOK(s) /\ s \in SessionState /\ s.generation \in Generations
    BY DEF Inv, Types, Idle, SessionOK, SessionState
<1>3. next_operation_id \in Operations /\ next_operation_id \in 0..MaxOperation
    BY <1>1, <1>2, AllocatedOK DEF allocate_operation
<1>4. u \in SessionState
    BY <1>2 DEF SessionState
<1>5. t \in SessionState
    BY <1>3, <1>4 DEF SessionState
<1>6. /\ t.operation = next_operation_id /\ t.status = s.status /\ t.generation = s.generation
      /\ t.resume = s.resume /\ t.transport = s.transport /\ t.policy = s.policy
      /\ t.frame = s.frame /\ t.foreground = f /\ t.input = n /\ t.provider = s.provider
    BY <1>2, <1>4 DEF SessionState
<1>7. /\ e \in ControlEffect /\ e.kind = k /\ e.instance = i /\ e.operation = next_operation_id
      /\ e.generation = s.generation
    BY <1>2, <1>3, ReducerAssumption DEF Effect, ControlEffect
<1>8. WellFormed(s.provider) /\ IdsUsed(s.provider) /\ Final(s.provider, s.provider)
    BY <1>2, EvolvesOrder, EvolvesFinal DEF SessionOK
<1>. HIDE DEF t, e
<1>. QED  BY <1>1, <1>5, <1>6, <1>7, <1>8, IdleStep

\* The commands of a running session: input, resize, refresh, settings.
LEMMA RequestActions ==
    ASSUME Inv, NEW i \in Instances
    PROVE  /\ \A a \in {"Text", "SubmitPrompt", "Interrupt"} : send_input(i, a) => Inv' /\ Forward
           /\ resize(i) => Inv' /\ Forward
           /\ refresh_foreground(i) => Inv' /\ Forward
           /\ \A k \in SettingKinds : set_session(i, k) => Inv' /\ Forward
<1> DEFINE s == sessions[i]
<1>1. Idle(i) => s \in SessionState /\ s.input \in {"None", "Text", "Interrupt"}
                 /\ s.foreground \in {"Unknown", "Confirmed", "Stale"}
    BY DEF Inv, Types, SessionOK, Idle, SessionState
<1>2. ASSUME NEW a \in {"Text", "SubmitPrompt", "Interrupt"}, send_input(i, a)
      PROVE  Inv' /\ Forward
    <2> DEFINE k == InputKind(s.transport, a)
               n == IF a = "Interrupt" THEN "Interrupt" ELSE "Text"
               u == [s EXCEPT !.input = n, !.foreground = "Stale"]
    <2>1. Idle(i) /\ k # "Unsupported"
        BY <1>2 DEF send_input
    <2>2. k \in InputKinds
        BY <2>1 DEF InputKind, InputKinds
    <2>3. k \in WorkerKinds \ (SpawnKinds \cup {"Stop", "ResolveInteraction"})
        BY <2>2, KindFacts
    <2>4. u = invalidate_foreground([s EXCEPT !.input = n])
        BY <1>1, <2>1 DEF invalidate_foreground, SessionState
    <2>5. Request(i, u, Effect(k, next_operation_id, i, s.generation))
        BY <1>2, <2>4 DEF send_input
    <2>6. n \in {"None", "Text", "Interrupt"} /\ n # "None"
        OBVIOUS
    <2>7. u = [s EXCEPT !.input = n, !.foreground = "Stale"]
        OBVIOUS
    <2>. HIDE DEF u, k, n
    <2>. QED  BY <2>1, <2>2, <2>3, <2>5, <2>6, <2>7, RequestStep
<1>3. ASSUME Idle(i), NEW k \in WorkerKinds \ (SpawnKinds \cup InputKinds \cup {"Stop",
                 "ResolveInteraction"}), Request(i, s, Effect(k, next_operation_id, i, s.generation))
      PROVE  Inv' /\ Forward
    <2>1. s = [s EXCEPT !.input = s.input, !.foreground = s.foreground]
        BY <1>1, <1>3 DEF SessionState
    <2>. QED  BY <1>1, <1>3, <2>1, RequestStep
<1>4. ASSUME resize(i) PROVE Inv' /\ Forward
    <2>1. "Resize" \in WorkerKinds \ (SpawnKinds \cup InputKinds \cup {"Stop", "ResolveInteraction"})
        BY DEF WorkerKinds, SpawnKinds, InputKinds
    <2>. QED  BY <1>3, <1>4, <2>1 DEF resize
<1>5. ASSUME NEW k \in SettingKinds, set_session(i, k) PROVE Inv' /\ Forward
    <2>1. k \in WorkerKinds \ (SpawnKinds \cup InputKinds \cup {"Stop", "ResolveInteraction"})
        BY DEF WorkerKinds, SpawnKinds, InputKinds, SettingKinds
    <2>. QED  BY <1>3, <1>5, <2>1 DEF set_session
<1>6. ASSUME refresh_foreground(i) PROVE Inv' /\ Forward
    <2> DEFINE u == [s EXCEPT !.input = s.input, !.foreground = "Stale"]
    <2>1. /\ Idle(i)
          /\ Request(i, invalidate_foreground(s),
                     Effect("ObserveForeground", next_operation_id, i, s.generation))
        BY <1>6 DEF refresh_foreground
    <2>2. "ObserveForeground" \in WorkerKinds \ (SpawnKinds \cup {"Stop", "ResolveInteraction"})
          /\ "ObserveForeground" \notin InputKinds
        BY DEF WorkerKinds, SpawnKinds, InputKinds
    <2>3. u = invalidate_foreground(s)
        BY <1>1, <2>1 DEF invalidate_foreground, SessionState
    <2>4. u = [s EXCEPT !.input = s.input, !.foreground = "Stale"]
        OBVIOUS
    <2>. HIDE DEF u
    <2>. QED  BY <1>1, <2>1, <2>2, <2>3, <2>4, RequestStep
<1>. QED  BY <1>2, <1>4, <1>5, <1>6

\* An operator answers a pending interaction.
LEMMA ResolveAction ==
    ASSUME Inv, NEW i \in Instances, NEW g, NEW x, NEW r \in ResponseKind,
           resolve_interaction(i, g, x, r)
    PROVE  Inv' /\ Forward
<1> DEFINE s == sessions[i]
           p == s.provider
           o == next_operation_id
           y == [x EXCEPT !.status = "Resolving", !.operation = o, !.answer = r]
           q == [p EXCEPT !.interactions = (p.interactions \ {x}) \cup {y}]
           t == [s EXCEPT !.provider = q, !.operation = o]
           e == [Effect("ResolveInteraction", o, i, g) EXCEPT !.interaction = x.id]
<1>1. /\ Idle(i) /\ s.generation = g /\ x \in p.interactions /\ x.status = "Pending"
      /\ allocate_operation /\ effects' = effects \cup {e}
      /\ UNCHANGED <<generation_watermarks, host>>
    BY DEF resolve_interaction, Request
<1>2. Types /\ SessionOK(s) /\ s \in SessionState /\ g \in Generations /\ p \in ProviderSnapshot
    BY <1>1 DEF Inv, Types, Idle, SessionOK, SessionState
<1>3. o \in Operations /\ o \in 0..MaxOperation /\ o \in Nat
    BY <1>1, <1>2, AllocatedOK, EngineAssumption DEF allocate_operation, Operations
<1>4. x \in ProviderInteraction /\ x.id \in 1..MaxSequence
    BY <1>1, <1>2 DEF ProviderSnapshot, ProviderInteraction
<1>5. y \in ProviderInteraction
    BY <1>3, <1>4 DEF ProviderInteraction
<1>6. y.id = x.id /\ y.status = "Resolving" /\ y.operation = o /\ y.answer = r
    BY <1>4 DEF ProviderInteraction
<1>. HIDE DEF y
<1>7. q \in ProviderSnapshot
    BY <1>2, <1>5 DEF ProviderSnapshot
<1>8. /\ q.interactions = (p.interactions \ {x}) \cup {y} /\ q.sequence = p.sequence
      /\ q.cursors = p.cursors /\ q.subagents = p.subagents /\ q.lead = p.lead
      /\ q.session = p.session
    BY <1>2, <1>7 DEF ProviderSnapshot
<1>9. sessions' = [sessions EXCEPT ![i] = t]
    <2>1. t = [[s EXCEPT !.provider.interactions = (@ \ {x}) \cup {y}] EXCEPT !.operation = o]
        BY <1>2 DEF SessionState
    <2>. QED  BY <2>1 DEF resolve_interaction, Request, y
<1>. HIDE DEF q
<1>10. t \in SessionState
    BY <1>2, <1>3, <1>7 DEF SessionState
<1>11. /\ t.operation = o /\ t.status = s.status /\ t.generation = s.generation
       /\ t.resume = s.resume /\ t.transport = s.transport /\ t.policy = s.policy
       /\ t.frame = s.frame /\ t.foreground = s.foreground /\ t.provider = q
    BY <1>2, <1>10 DEF SessionState
<1>12. WellFormed(p) /\ IdsUsed(p)
    BY <1>2 DEF SessionOK
<1>13. WellFormed(q) /\ IdsUsed(q) /\ Final(p, q)
    BY <1>1, <1>5, <1>6, <1>7, <1>8, <1>12, ReplaceOK
<1>14. /\ e \in ControlEffect /\ e.kind = "ResolveInteraction" /\ e.instance = i
       /\ e.operation = o /\ e.generation = s.generation /\ e.interaction = x.id
    BY <1>1, <1>2, <1>3, <1>4, ReducerAssumption DEF Effect, ControlEffect, WorkerKinds
<1>15. /\ p.interactions # {}
       /\ \E z \in q.interactions : z.status = "Resolving" /\ z.operation = o /\ z.id = x.id
       /\ \A z \in q.interactions : z.status = "Resolving" =>
             z \in p.interactions \/ (z.operation = o /\ z.id = x.id)
    BY <1>1, <1>6, <1>8
<1>. HIDE DEF t, e
<1>16. e.kind \in WorkerKinds \ (SpawnKinds \cup {"Stop"}) /\ e.kind \notin InputKinds
    BY <1>14, KindFacts
<1>17. /\ \E z \in t.provider.interactions :
             z.status = "Resolving" /\ z.operation = e.operation /\ z.id = e.interaction
       /\ \A z \in t.provider.interactions : z.status = "Resolving" =>
             \/ z \in s.provider.interactions
             \/ /\ e.kind = "ResolveInteraction"
                /\ z.operation = e.operation /\ z.id = e.interaction
    BY <1>11, <1>14, <1>15
<1>18. /\ WellFormed(t.provider) /\ IdsUsed(t.provider) /\ Final(p, t.provider)
       /\ t.provider.sequence = p.sequence /\ t.provider.cursors = p.cursors
       /\ t.provider.session = p.session /\ t.provider.lead = p.lead
       /\ t.provider.subagents = p.subagents
    BY <1>8, <1>11, <1>13
<1>. QED  BY <1>1, <1>9, <1>10, <1>11, <1>14, <1>15, <1>16, <1>17, <1>18, IdleStep,
             ZenonT(30)

\* A stop takes over.
LEMMA StopAction ==
    ASSUME Inv, NEW i \in Instances, stop(i)
    PROVE  Inv' /\ Forward
<1> DEFINE s == sessions[i]
           o == next_operation_id
           t == [s EXCEPT !.status = "Stopping", !.operation = o, !.input = "None",
                          !.foreground = "Stale"]
           e == Effect("Stop", o, i, s.generation)
<1>1. /\ i \in Registry /\ s.status \in {"Starting", "Running"} /\ allocate_operation
      /\ effects' = (effects \ pending_interaction_resolution(i)) \cup {e}
      /\ UNCHANGED <<generation_watermarks, host>>
    BY DEF stop
<1>2. Types /\ SessionOK(s) /\ s \in SessionState /\ s.generation \in Generations
      /\ ResolutionsMatch
    BY <1>1 DEF Inv, Types, SessionOK, SessionState
<1>3. o \in Operations /\ o \in 0..MaxOperation
    BY <1>1, <1>2, AllocatedOK DEF allocate_operation
<1>4. sessions' = [sessions EXCEPT ![i] = t]
    <2>1. t = invalidate_foreground([s EXCEPT !.status = "Stopping", !.operation = o,
                                              !.input = "None"])
        BY <1>2 DEF invalidate_foreground, SessionState
    <2>. QED  BY <2>1 DEF stop
<1>5. t \in SessionState
    BY <1>2, <1>3 DEF SessionState, SessionStatus
<1>6. /\ t.operation = o /\ t.status = "Stopping" /\ t.generation = s.generation
      /\ t.resume = s.resume /\ t.transport = s.transport /\ t.policy = s.policy
      /\ t.frame = s.frame /\ t.foreground = "Stale" /\ t.provider = s.provider
    BY <1>2, <1>5 DEF SessionState
<1>7. /\ e \in ControlEffect /\ e.kind = "Stop" /\ e.instance = i /\ e.operation = o
      /\ e.generation = s.generation
    BY <1>2, <1>3, ReducerAssumption DEF Effect, ControlEffect, WorkerKinds
<1>. HIDE DEF t, e
<1>8. SessionOK(t)
    <2>1. PhaseFits(t)
        BY <1>1, <1>2, <1>6 DEF SessionOK, PhaseFits, Startable
    <2>2. Withholds(t)
        BY <1>1, <1>2, <1>6 DEF SessionOK, Withholds, Live
    <2>. QED  BY <1>2, <1>5, <1>6, <2>1, <2>2 DEF SessionOK, Startable
<1>9. Only(i) /\ sessions'[i] = t
    BY <1>1, <1>2, <1>4, <1>8, PutOnly
<1>10. \A f \in pending_interaction_resolution(i) : f.instance = i
    BY DEF pending_interaction_resolution
<1>11. Queues(i, e)
    BY <1>1, <1>7, <1>10 DEF Queues, allocate_operation, host
<1>12. \A f \in effects' : f.instance = i => f.kind # "ResolveInteraction"
    <2>. SUFFICES ASSUME NEW f \in effects, f.instance = i, f.kind = "ResolveInteraction"
                  PROVE  f \in pending_interaction_resolution(i)
        BY <1>1, <1>7
    <2>1. OfOperation(f) /\ Resolving(f) # {}
        BY <1>2 DEF ResolutionsMatch
    <2>. QED  BY <2>1 DEF pending_interaction_resolution, OfOperation, OfGeneration, Resolving
<1>13. Stops(i, e)
    BY <1>1, <1>6, <1>7, <1>9, <1>11, <1>12 DEF Stops, host
<1>14. Advances(s, t)
    BY <1>2, <1>6, AdvancesSelf
<1>15. Forward
    BY <1>2, <1>6, <1>9, <1>14, OnlyForward
<1>. QED  BY <1>13, <1>15, StopsStep

\* A resume asks for authority.
LEMMA ResumeAction ==
    ASSUME Inv, NEW i \in Instances, NEW target \in ResumeTargets, NEW policy \in Policies,
           NEW prompt, resume(i, target, policy, prompt)
    PROVE  Inv' /\ Forward
<1> DEFINE s == sessions[i]
           o == next_operation_id
<1>1. /\ i \in Registry /\ s.transport \in {"Pty", "Pipe"} /\ s.status \in Startable
      /\ s.operation = NoOperation
    BY DEF resume
<1>2. PICK c \in ResumeIdentities(s, target) :
          Request(i,
            [s EXCEPT !.resume = [phase |-> "Authorizing", operation |-> o,
                                  target |-> target, identity |-> c],
                      !.resume_identity = None, !.policy = policy],
            [Effect("AuthorizeResume", o, i, s.generation) EXCEPT !.identity = c])
    BY DEF resume
<1> DEFINE m == [phase |-> "Authorizing", operation |-> o, target |-> target, identity |-> c]
           t == [s EXCEPT !.resume = m, !.resume_identity = None, !.policy = policy,
                          !.operation = o]
           e == [Effect("AuthorizeResume", o, i, s.generation) EXCEPT !.identity = c]
<1>3. /\ allocate_operation /\ effects' = effects \cup {e}
      /\ UNCHANGED <<generation_watermarks, host>>
    BY <1>2 DEF Request
<1>4. Types /\ SessionOK(s) /\ s \in SessionState /\ s.generation \in Generations
    BY <1>1 DEF Inv, Types, SessionOK, SessionState
<1>5. o \in Operations /\ o \in 0..MaxOperation
    BY <1>3, <1>4, AllocatedOK DEF allocate_operation
<1>6. c \in Identities /\ c # None /\ (target = "CurrentProvider" => s.provider.session = c)
    <2>1. s.provider.session \in Identities \cup {None} /\ s.history.candidates \subseteq Identities
        BY <1>4 DEF SessionState, ProviderSnapshot, HistorySnapshot
    <2>. QED  BY <1>2, <2>1, ReducerAssumption DEF ResumeIdentities, ResumeTargets
<1>7. sessions' = [sessions EXCEPT ![i] = t]
    <2>1. t = [[s EXCEPT !.resume = m, !.resume_identity = None, !.policy = policy]
                 EXCEPT !.operation = o]
        BY <1>4 DEF SessionState
    <2>. QED  BY <1>2, <2>1 DEF Request
<1>8. /\ m \in ResumeSnapshot /\ m.phase = "Authorizing" /\ m.operation = o /\ m.target = target
      /\ m.identity = c
    BY <1>5, <1>6 DEF ResumeSnapshot
<1>. HIDE DEF m
<1>9. t \in SessionState
    <2>1. policy \subseteq Capabilities
        BY PolicyAssumption
    <2>. QED  BY <1>4, <1>5, <1>8, <2>1 DEF SessionState
<1>10. /\ t.operation = o /\ t.status = s.status /\ t.generation = s.generation
       /\ t.resume = m /\ t.transport = s.transport
       /\ t.frame = s.frame /\ t.foreground = s.foreground /\ t.provider = s.provider
    BY <1>4, <1>9 DEF SessionState
<1>11. /\ e \in ControlEffect /\ e.kind = "AuthorizeResume" /\ e.instance = i /\ e.operation = o
       /\ e.generation = s.generation /\ e.identity = c
    BY <1>4, <1>5, <1>6, ReducerAssumption DEF Effect, ControlEffect
<1>. HIDE DEF t, e
<1>12. SessionOK(t)
    <2>1. PhaseFits(t)
        BY <1>1, <1>6, <1>8, <1>10 DEF PhaseFits
    <2>2. Withholds(t)
        BY <1>1, <1>10, KindFacts DEF Withholds
    <2>. QED  BY <1>4, <1>9, <1>10, <2>1, <2>2 DEF SessionOK
<1>13. Only(i) /\ sessions'[i] = t
    BY <1>1, <1>4, <1>7, <1>12, PutOnly
<1>14. Queues(i, e)
    BY <1>3, <1>11 DEF Queues, allocate_operation, host
<1>15. Resumes(i, e)
    BY <1>1, <1>3, <1>6, <1>8, <1>10, <1>11, <1>13, <1>14 DEF Resumes, host
<1>16. Advances(s, t)
    BY <1>4, <1>10, AdvancesSelf
<1>17. Forward
    BY <1>4, <1>10, <1>13, <1>16, OnlyForward
<1>. QED  BY <1>15, <1>17, ResumesStep

-----------------------------------------------------------------------------
(* New generations. *)

\* A session that enters a new generation.
LEMMA NewGenerationOK ==
    ASSUME NEW s \in SessionState, NEW g \in Generations, NEW o \in 0..MaxOperation,
           NEW policy \in SUBSET Capabilities
    PROVE  LET t == NewGeneration(s, g, o, policy) IN
           /\ t \in SessionState /\ t.status = "Starting" /\ t.operation = o
           /\ t.generation = g /\ t.provider = DefaultProvider /\ t.resume = DefaultResume
           /\ t.foreground = "Unknown" /\ t.transport = s.transport
<1> DEFINE r == Reset(s.transport, g)
           t == NewGeneration(s, g, o, policy)
<1>1. s.transport \in Transports /\ s.probe \in 0..MaxOperation
      /\ s.probe_generation \in Generations \cup {NoGeneration}
      /\ s.probe_settled \in {"No", "Yes"}
    BY DEF SessionState
<1>2. r \in SessionState /\ r.generation = g /\ r.foreground = "Unknown"
    BY <1>1, ResetOK DEF SessionOK
<1>3. r.transport = s.transport /\ r.provider = DefaultProvider /\ r.resume = DefaultResume
    BY DEF Reset
<1>4. t = [r EXCEPT !.status = "Starting", !.operation = o, !.policy = policy,
                    !.probe = s.probe, !.probe_generation = s.probe_generation,
                    !.probe_settled = s.probe_settled]
    BY DEF NewGeneration
<1>. HIDE DEF r, t
<1>5. t \in SessionState
    BY <1>1, <1>2, <1>4 DEF SessionState, SessionStatus
<1>6. /\ t.status = "Starting" /\ t.operation = o /\ t.generation = g
      /\ t.provider = DefaultProvider /\ t.resume = DefaultResume
      /\ t.foreground = "Unknown" /\ t.transport = s.transport
    BY <1>2, <1>3, <1>4 DEF SessionState
<1>. QED  BY <1>5, <1>6 DEF t

\* It is a session, whatever resume brought it there.
LEMMA StartingOK ==
    ASSUME NEW t \in SessionState, t.status = "Starting", t.provider = DefaultProvider,
           t.foreground = "Unknown",
           t.resume.phase = "None" \/ (t.resume.phase = "Spawning" /\ t.transport # "Acp")
    PROVE  SessionOK(t)
<1>1. PhaseFits(t)
    BY DEF PhaseFits, Startable
<1>2. Withholds(t)
    BY DefaultProviderOK DEF Withholds
<1>. QED  BY <1>1, <1>2, DefaultProviderOK DEF SessionOK, Startable

\* The generation that comes next is above all that the instance ever had.
LEMMA NextGeneration ==
    ASSUME Inv, NEW i \in Registry, NEW g \in checked_next_generation(i)
    PROVE  /\ g \in Generations /\ g = generation_watermarks[i] + 1
           /\ g > generation_watermarks[i] /\ g # sessions[i].generation
<1>1. /\ generation_watermarks[i] = sessions[i].generation /\ sessions[i].generation \in Nat
    BY DataFacts DEF Inv, Types, GenerationsUsed, SessionOK
<1>. QED  BY <1>1 DEF checked_next_generation

\* A start.
LEMMA StartAction ==
    ASSUME Inv, NEW i \in Instances, NEW policy \in Policies, NEW prompt,
           start(i, policy, prompt)
    PROVE  Inv' /\ Forward
<1> DEFINE s == sessions[i]
           o == next_operation_id
<1>1. /\ i \in Registry /\ s.status \in Startable /\ allocate_operation /\ UNCHANGED host
    BY DEF start
<1>2. PICK g \in checked_next_generation(i) :
          /\ sessions' = [sessions EXCEPT ![i] = NewGeneration(s, g, o, policy)]
          /\ generation_watermarks' = [generation_watermarks EXCEPT ![i] = g]
          /\ effects' = purge_generation_bound_history(i) \cup {Effect("Spawn", o, i, g)}
    BY DEF start
<1> DEFINE t == NewGeneration(s, g, o, policy)
           e == Effect("Spawn", o, i, g)
<1>3. Types /\ OperationsUsed /\ SessionOK(s) /\ s \in SessionState
    BY <1>1 DEF Inv, Types, SessionOK
<1>4. o \in Operations /\ o \in 0..MaxOperation /\ o \in 1..(MaxOperation + 1) /\ o \in Nat
    BY <1>1, <1>3, AllocatedOK DEF allocate_operation, Types
<1>5. /\ g \in Generations /\ g = generation_watermarks[i] + 1
      /\ g > generation_watermarks[i] /\ g # s.generation
    BY <1>1, NextGeneration
<1>6. /\ t \in SessionState /\ t.status = "Starting" /\ t.operation = o
      /\ t.generation = g /\ t.provider = DefaultProvider /\ t.resume = DefaultResume
      /\ t.foreground = "Unknown" /\ t.transport = s.transport
    BY <1>3, <1>4, <1>5, PolicyAssumption, NewGenerationOK
<1>7. /\ e \in ControlEffect /\ e.kind = "Spawn" /\ e.instance = i /\ e.operation = o
      /\ e.generation = g
    BY <1>4, <1>5, ReducerAssumption DEF Effect, ControlEffect, WorkerKinds, SpawnKinds
<1>8. sessions' = [sessions EXCEPT ![i] = t] /\ effects' = purge_generation_bound_history(i) \cup {e}
    BY <1>2
<1>. HIDE DEF t, e
<1>9. SessionOK(t)
    BY <1>6, StartingOK DEF DefaultResume
<1>10. Only(i) /\ sessions'[i] = t
    BY <1>1, <1>3, <1>8, <1>9, PutOnly
<1>11. \A f \in Outstanding : f.operation # o
    BY <1>3, <1>4, DataFacts DEF OperationsUsed, Types, Outstanding
<1>12. /\ e \in effects' /\ effects' \subseteq effects \cup {e} /\ inflight' = inflight
       /\ \A f \in Outstanding : f.instance # i => f \in Outstanding'
       /\ Outstanding' \subseteq Outstanding \cup {e}
    BY <1>1, <1>8 DEF purge_generation_bound_history, Outstanding, host
<1>13. \A f \in Outstanding' : f = e \/ f.operation # e.operation
    BY <1>7, <1>11, <1>12
<1>14. e \notin inflight'
    BY <1>7, <1>11, <1>12 DEF Outstanding
<1>15. /\ o + 1 \in 1..(MaxOperation + 1) /\ o + 1 >= o /\ o < o + 1
       /\ next_operation_id' = o + 1
    BY <1>1, <1>4, EngineAssumption DEF allocate_operation
<1>16. \A j \in Registry \ {i} :
          /\ sessions[j].operation # o
          /\ \A x \in sessions[j].provider.interactions : x.status = "Resolving" => x.operation # o
    BY <1>3, <1>4 DEF OperationsUsed
<1>17. Starts(i, e)
    <2>1. /\ generation_watermarks' = [generation_watermarks EXCEPT ![i] = sessions'[i].generation]
          /\ sessions'[i].provider.interactions = {} /\ e.kind \in SpawnKinds
          /\ UNCHANGED <<processes, exits, abandoned, ignored>>
        BY <1>1, <1>2, <1>6, <1>7, <1>10, DefaultProviderOK DEF SpawnKinds, host
    <2>. QED  BY <1>1, <1>5, <1>6, <1>7, <1>10, <1>12, <1>13, <1>14, <1>15, <1>16, <2>1 DEF Starts
<1>18. Forward
    BY <1>3, <1>5, <1>6, <1>10, OnlyForward
<1>. QED  BY <1>17, <1>18, StartsStep

\* The answer of the resume authority, accepted or not.
LEMMA AuthorizedAction ==
    ASSUME Inv, NEW a \in inflight, resume_authorized(a)
    PROVE  Inv' /\ Forward
<1> DEFINE i == a.instance
           s == sessions[i]
           next == checked_next_generation(i)
<1>1. /\ Answer(a) /\ a.kind = "AuthorizeResume" /\ a \in Outstanding
      /\ UNCHANGED <<next_operation_id, processes, exits, abandoned>>
    BY DEF resume_authorized, Outstanding
<1>2. Types /\ OperationsUsed /\ abandoned \subseteq Processes /\ a \in ControlEffect
    BY <1>1 DEF Inv, Types, Outstanding
<1>3. a.kind \notin SideKinds /\ a.kind \notin WorkerKinds
    BY <1>1, KindFacts
<1>4. ASSUME Correlated(a), resume_identity_matches_target(s, a.identity), next # {}
      PROVE  Inv' /\ Forward
    <2>1. PICK g \in next :
            /\ ignored' = ignored
            /\ sessions' = [sessions EXCEPT ![i] = Authorized(s, g, a.identity)]
            /\ generation_watermarks' = [generation_watermarks EXCEPT ![i] = g]
            /\ effects' = effects \cup
                 {[Effect("SpawnResume", s.resume.operation, i, g) EXCEPT
                      !.identity = a.identity]}
        BY <1>4 DEF resume_authorized
    <2> DEFINE o == s.operation
               m == [s.resume EXCEPT !.phase = "Spawning"]
               r == NewGeneration(s, g, s.resume.operation, s.policy)
               t == [r EXCEPT !.resume_identity = a.identity, !.resume = m]
               e == [Effect("SpawnResume", s.resume.operation, i, g) EXCEPT
                      !.identity = a.identity]
    <2>2. /\ OfOperation(a) /\ s.resume.phase = "Authorizing" /\ s.status \in Startable
          /\ i \in Registry
        BY <1>1, <1>3, <1>4, CorrelatedView
    <2>3. SessionOK(s) /\ s \in SessionState /\ s.resume \in ResumeSnapshot
          /\ s.policy \in SUBSET Capabilities
        BY <1>2, <2>2 DEF Types, SessionOK, SessionState
    <2>4. s.resume.operation = o /\ a.operation = o /\ s.transport # "Acp"
          /\ a.generation = s.generation
        BY <2>2, <2>3 DEF SessionOK, PhaseFits, OfOperation, OfGeneration
    <2>5. o \in Operations /\ o \in 0..MaxOperation
        BY <1>2, <2>3, <2>4 DEF ControlEffect, SessionState
    <2>6. /\ g \in Generations /\ g = generation_watermarks[i] + 1
          /\ g > generation_watermarks[i] /\ g # s.generation
        BY <2>2, NextGeneration
    <2>7. a.identity \in Identities \cup {None} /\ a.identity # None
        BY <1>1, <1>2 DEF Inv, Expected, ControlEffect
    <2>8. m \in ResumeSnapshot /\ m.phase = "Spawning"
        BY <2>3 DEF ResumeSnapshot
    <2>9. /\ r \in SessionState /\ r.status = "Starting" /\ r.operation = o
          /\ r.generation = g /\ r.provider = DefaultProvider
          /\ r.foreground = "Unknown" /\ r.transport = s.transport
        BY <2>3, <2>4, <2>5, <2>6, NewGenerationOK
    <2>10. /\ e \in ControlEffect /\ e.kind = "SpawnResume" /\ e.instance = i /\ e.operation = o
           /\ e.generation = g
        <3>1. i \in Instances
            BY <2>2 DEF Registry
        <3>. QED  BY <2>4, <2>5, <2>6, <2>7, <3>1, ReducerAssumption
                  DEF Effect, ControlEffect, WorkerKinds, SpawnKinds
    <2>11. sessions' = [sessions EXCEPT ![i] = t] /\ effects' = effects \cup {e}
        BY <2>1 DEF Authorized
    <2>. HIDE DEF r, m, e
    <2>12. t \in SessionState
        BY <2>7, <2>8, <2>9 DEF SessionState
    <2>13. /\ t.status = "Starting" /\ t.operation = o
           /\ t.generation = g /\ t.provider = DefaultProvider
           /\ t.foreground = "Unknown" /\ t.transport = s.transport
           /\ t.resume = m /\ t.resume_identity = a.identity
        BY <2>9, <2>12 DEF SessionState
    <2>. HIDE DEF t
    <2>14. SessionOK(t)
        BY <2>4, <2>8, <2>12, <2>13, StartingOK
    <2>15. Only(i) /\ sessions'[i] = t
        BY <1>2, <2>2, <2>11, <2>14, PutOnly
    <2>16. \A f \in Outstanding : f.operation = o => f = a
        BY <1>1, <1>2, <2>4 DEF OperationsUsed
    <2>17. /\ inflight' = inflight \ {a} /\ a \notin effects
        BY <1>1, <1>2 DEF Answer, OperationsUsed
    <2>18. /\ e \in effects' /\ effects' \subseteq effects \cup {e} /\ inflight' \subseteq inflight
           /\ \A f \in Outstanding : f.instance # i => f \in Outstanding'
        BY <2>11, <2>17 DEF Outstanding
    <2>19. \A f \in Outstanding' : f = e \/ f.operation # e.operation
        BY <2>10, <2>11, <2>16, <2>17 DEF Outstanding
    <2>20. e \notin inflight'
        BY <2>10, <2>16, <2>17 DEF Outstanding
    <2>21. /\ next_operation_id' \in 1..(MaxOperation + 1)
           /\ next_operation_id' >= next_operation_id /\ e.operation < next_operation_id'
        BY <1>1, <1>2, <2>4, <2>10, EngineAssumption DEF Types, OperationsUsed
    <2>22. \A j \in Registry \ {i} : \A x \in sessions[j].provider.interactions :
              x.status = "Resolving" => x.operation # e.operation
        BY <1>1, <2>4, <2>10 DEF Inv, ResolutionsMatch
    <2>23. \A j \in Registry \ {i} : sessions[j].operation # e.operation
        <3>. SUFFICES ASSUME NEW j \in Registry \ {i}, sessions[j].operation = o PROVE FALSE
            BY <2>10
        <3>1. o # NoOperation
            BY <2>5 DEF Operations, NoOperation
        <3>2. ~Forgone(j)
            BY <1>1, <2>4 DEF Forgone
        <3>3. PICK f \in Outstanding : f.instance = j /\ OfOperation(f)
            BY <3>1, <3>2 DEF Inv, Owed
        <3>. QED  BY <2>16, <3>3 DEF OfOperation
    <2>24. Starts(i, e)
        BY <1>1, <2>1, <2>2, <2>6, <2>7, <2>10, <2>13, <2>15, <2>18, <2>19, <2>20, <2>21, <2>22,
           <2>23, DefaultProviderOK
           DEF Starts, SpawnKinds
    <2>25. Forward
        BY <1>2, <2>6, <2>13, <2>15, OnlyForward
    <2>. QED  BY <2>24, <2>25, StartsStep
<1>5. ASSUME ~(Correlated(a) /\ resume_identity_matches_target(s, a.identity) /\ next # {})
      PROVE  Inv' /\ Forward
    <2>1. UNCHANGED <<sessions, generation_watermarks, effects>>
        BY <1>5 DEF resume_authorized
    <2>2. ignored' = IF Correlated(a) THEN ignored \cup {a.operation} ELSE ignored
        BY <1>5 DEF resume_authorized
    <2>3. Dismisses(a)
        <3>1. ASSUME OfOperation(a), Ends(a)
              PROVE  a.operation \in ignored' /\ s.status \notin {"Starting", "Stopping"}
            <4>1. Correlated(a)
                BY <1>1, <3>1, CorrelatedView
            <4>2. s.status \in Startable
                BY <1>1, <1>3, <4>1, CorrelatedView
            <4>. QED  BY <2>2, <4>1, <4>2 DEF Startable
        <3>2. ignored \subseteq ignored' /\ ignored' \subseteq Operations
            BY <1>2, <2>2 DEF Types, ControlEffect
        <3>. QED  BY <1>1, <1>2, <2>1, <3>1, <3>2 DEF Dismisses, Answer
    <2>. QED  BY <1>2, <2>1, <2>3, DismissesStep, UnchangedForward
<1>. QED  BY <1>4, <1>5

-----------------------------------------------------------------------------
(* Answers that end a session, or its resume. *)

\* The session that is left when a generation is over.
LEMMA OverOK ==
    ASSUME NEW t \in SessionState, t.status \in {"Exited", "Failed"}, t.operation = NoOperation,
           t.resume = DefaultResume, t.foreground = "Unknown",
           WellFormed(t.provider), IdsUsed(t.provider), Unresolved(t.provider) = {}
    PROVE  SessionOK(t)
<1>1. PhaseFits(t)
    BY DEF PhaseFits, DefaultResume
<1>2. Withholds(t)
    BY DEF Withholds, Live
<1>. QED  BY <1>1, <1>2 DEF SessionOK

\* The provider session that a snapshot names may change.
LEMMA SessionPut ==
    ASSUME NEW p, WellFormed(p), IdsUsed(p), NEW c \in Identities \cup {None},
           NEW q, q = [p EXCEPT !.session = c]
    PROVE  /\ WellFormed(q) /\ IdsUsed(q) /\ q \in ProviderSnapshot
           /\ q.interactions = p.interactions /\ q.subagents = p.subagents /\ q.lead = p.lead
           /\ q.sequence = p.sequence /\ q.cursors = p.cursors /\ q.session = c
<1>1. q \in ProviderSnapshot
    BY DEF WellFormed, ProviderSnapshot
<1>2. /\ q.interactions = p.interactions /\ q.subagents = p.subagents /\ q.lead = p.lead
      /\ q.sequence = p.sequence /\ q.cursors = p.cursors /\ q.session = c
    BY <1>1 DEF WellFormed, ProviderSnapshot
<1>. QED  BY <1>1, <1>2 DEF WellFormed, IdsUsed

\* Ended ends a session: nothing is pending, nothing is open.
LEMMA EndedOK ==
    ASSUME NEW s, SessionOK(s), NEW st \in {"Exited", "Failed"}
    PROVE  LET t == Ended(s, st) IN
           /\ t \in SessionState /\ t.status = st /\ t.operation = NoOperation
           /\ t.resume = DefaultResume /\ t.foreground = "Unknown"
           /\ t.generation = s.generation /\ t.frame = s.frame
           /\ Evolves(s.provider, t.provider) /\ Unresolved(t.provider) = {}
<1> DEFINE q == resolve_all_pending_interactions(s.provider, "TurnEnded")
           t == Ended(s, st)
<1>1. WellFormed(s.provider) /\ IdsUsed(s.provider) /\ s \in SessionState
    BY DEF SessionOK
<1>2. Evolves(s.provider, q)
      /\ \A y \in q.interactions : interaction_is_unresolved(y) =>
            y \in s.provider.interactions /\ y \notin Unresolved(s.provider)
    BY <1>1, ResolveEvolves DEF resolve_all_pending_interactions, ProviderInteractionOutcome
<1>3. Unresolved(q) = {} /\ q \in ProviderSnapshot
    BY <1>2 DEF Unresolved, Evolves, WellFormed
<1>4. t = [s EXCEPT !.operation = NoOperation, !.input = "None", !.status = st,
                    !.foreground = "Unknown", !.resume_identity = None,
                    !.resume = DefaultResume, !.provider = q]
    BY <1>1 DEF Ended, Done, SessionState
<1>5. DefaultResume \in ResumeSnapshot /\ NoOperation \in 0..MaxOperation
    BY EngineAssumption DEF DefaultResume, ResumeSnapshot, NoOperation
<1>. HIDE DEF q, t
<1>6. t \in SessionState
    BY <1>1, <1>3, <1>4, <1>5 DEF SessionState, SessionStatus
<1>7. /\ t.status = st /\ t.operation = NoOperation /\ t.resume = DefaultResume
      /\ t.foreground = "Unknown" /\ t.generation = s.generation /\ t.frame = s.frame
      /\ t.provider = q
    BY <1>1, <1>4, <1>6 DEF SessionState
<1>. QED  BY <1>2, <1>3, <1>6, <1>7 DEF t

\* With the final frame.
LEMMA FinalFrameOK ==
    ASSUME NEW s, SessionOK(s), NEW st \in {"Exited", "Failed"}, NEW f \in 0..MaxFrame
    PROVE  LET t == FinalFrame(Ended(s, st), f) IN
           /\ SessionOK(t) /\ t.status = st /\ t.operation = NoOperation
           /\ t.generation = s.generation /\ Advances(s, t)
<1> DEFINE u == Ended(s, st)
           t == FinalFrame(u, f)
           h == IF f > u.frame THEN f ELSE u.frame
<1>1. /\ u \in SessionState /\ u.status = st /\ u.operation = NoOperation
      /\ u.resume = DefaultResume /\ u.foreground = "Unknown"
      /\ u.generation = s.generation /\ u.frame = s.frame
      /\ Evolves(s.provider, u.provider) /\ Unresolved(u.provider) = {}
    BY EndedOK
<1>2. t = [u EXCEPT !.frame = h]
    BY <1>1 DEF FinalFrame, SessionState
<1>. HIDE DEF u, t
<1>3. h \in 0..MaxFrame /\ h >= s.frame
    BY <1>1, EngineAssumption DEF SessionState
<1>. HIDE DEF h
<1>4. t \in SessionState
    BY <1>1, <1>2, <1>3 DEF SessionState
<1>5. /\ t.status = st /\ t.operation = NoOperation /\ t.resume = DefaultResume
      /\ t.foreground = "Unknown" /\ t.generation = s.generation /\ t.frame = h
      /\ t.provider = u.provider
    BY <1>1, <1>2, <1>4 DEF SessionState
<1>6. SessionOK(t)
    BY <1>1, <1>4, <1>5, OverOK DEF Evolves
<1>7. Advances(s, u)
    BY <1>1, AdvancesSelf
<1>8. Advances(s, t)
    BY <1>3, <1>5, <1>7 DEF Advances
<1>. QED  BY <1>5, <1>6, <1>8 DEF t, u

\* An answer that ends the session.
LEMMA FinishStep ==
    ASSUME Inv, NEW e \in inflight, inflight' = inflight \ {e}, NEW t,
           e.instance \in Registry, SessionOK(t), t.status \in Startable,
           t.operation = NoOperation, t.generation = sessions[e.instance].generation,
           Advances(sessions[e.instance], t),
           sessions' = [sessions EXCEPT ![e.instance] = t],
           UNCHANGED <<generation_watermarks, next_operation_id, effects, exits>>,
           processes' \subseteq processes,
           abandoned \subseteq abandoned', abandoned' \subseteq Processes, ignored' = ignored,
           \A f \in effects : f.kind \in WorkerKinds => f.instance # e.instance,
           Process(e.instance, t.generation) \notin processes' \ abandoned',
           \A f \in Outstanding \ {e} :
              f.kind \in SpawnKinds /\ ProcessOf(f) = Process(e.instance, t.generation) =>
                  ProcessOf(f) \in abandoned'
    PROVE  Inv' /\ Forward
<1> DEFINE i == e.instance
<1>1. Types /\ OperationsUsed
    BY DEF Inv
<1>2. Only(i) /\ sessions'[i] = t
    BY <1>1, PutOnly
<1>3. Shrinks(i)
    BY DEF Shrinks, Outstanding
<1>4. Outstanding' \subseteq Outstanding \ {e}
    BY <1>1 DEF Outstanding, OperationsUsed
<1>5. Finishes(i)
    BY <1>2, <1>3, <1>4 DEF Finishes
<1>6. Forward
    BY <1>1, <1>2, OnlyForward
<1>. QED  BY <1>5, <1>6, FinishesStep

\* The resume is refused.
LEMMA RefusedAction ==
    ASSUME Inv, NEW e \in inflight, resume_refused(e)
    PROVE  Inv' /\ Forward
<1> DEFINE i == e.instance
           s == sessions[i]
           t == [s EXCEPT !.operation = NoOperation, !.resume = DefaultResume,
                          !.resume_identity = None]
<1>1. /\ Answer(e) /\ e.kind = "AuthorizeResume" /\ e \in Outstanding /\ Becomes(e, t)
      /\ inflight' = inflight \ {e}
      /\ UNCHANGED <<generation_watermarks, next_operation_id, effects, processes, exits,
                     abandoned, ignored>>
    BY DEF resume_refused, Outstanding, Answer
<1>2. Types /\ abandoned \subseteq Processes /\ e.kind \notin SideKinds
    BY <1>1, KindFacts DEF Inv, Types
<1>3. CASE ~Correlated(e)
    BY <1>1, <1>2, <1>3, IgnoredStep DEF Becomes
<1>4. CASE Correlated(e)
    <2>1. i \in Registry /\ s.status \in Startable
        BY <1>1, <1>2, <1>4, CorrelatedView
    <2>2. sessions' = [sessions EXCEPT ![i] = t]
        BY <1>1, <1>4 DEF Becomes
    <2>3. SessionOK(s) /\ s \in SessionState
        BY <1>2, <2>1 DEF Types, SessionOK
    <2>4. DefaultResume \in ResumeSnapshot /\ NoOperation \in 0..MaxOperation
        BY EngineAssumption DEF DefaultResume, ResumeSnapshot, NoOperation
    <2>5. t \in SessionState
        BY <2>3, <2>4 DEF SessionState
    <2>6. /\ t.status = s.status /\ t.operation = NoOperation /\ t.resume = DefaultResume
          /\ t.generation = s.generation /\ t.frame = s.frame /\ t.provider = s.provider
          /\ t.foreground = s.foreground
        BY <2>3, <2>5 DEF SessionState
    <2>. HIDE DEF t
    <2>7. SessionOK(t)
        <3>1. PhaseFits(t)
            BY <2>6 DEF PhaseFits, DefaultResume
        <3>2. Withholds(t)
            BY <2>1, <2>6, KindFacts DEF Withholds
        <3>. QED  BY <2>3, <2>5, <2>6, <3>1, <3>2 DEF SessionOK
    <2>8. Advances(s, t)
        BY <2>3, <2>6, AdvancesSelf
    <2>9. \A f \in effects : f.kind \in WorkerKinds => f.instance # i
        BY <2>1, KindFacts DEF Inv, WorkersServe, WorkerEffectsLive
    <2>10. Process(i, t.generation) \notin processes \ abandoned
        BY <2>1 DEF Inv, ProcessesTracked, ProcessOwned, Shown, Process, Startable
    <2>11. \A f \in Outstanding \ {e} :
              f.kind \in SpawnKinds /\ ProcessOf(f) = Process(i, t.generation) =>
                  ProcessOf(f) \in abandoned
        <3>. SUFFICES ASSUME NEW f \in Outstanding, f.kind \in SpawnKinds,
                             ProcessOf(f) = Process(i, t.generation)
                      PROVE  ProcessOf(f) \in abandoned
            OBVIOUS
        <3>1. f.instance = i /\ Awaited(f)
            BY DEF ProcessOf, Process, Inv, ProcessesTracked
        <3>. QED  BY <2>1, <3>1 DEF Awaited, Startable
    <2>. QED  BY <1>1, <1>2, <2>1, <2>2, <2>6, <2>7, <2>8, <2>9, <2>10, <2>11, FinishStep
<1>. QED  BY <1>3, <1>4

\* A stop is completed, or fails.
LEMMA StopAnswers ==
    ASSUME Inv, NEW e \in inflight
    PROVE  /\ \A f \in 0..MaxFrame : stop_completed(e, f) => Inv' /\ Forward
           /\ stop_failed(e) => Inv' /\ Forward
<1> DEFINE i == e.instance
           s == sessions[i]
<1>1. Types /\ abandoned \subseteq Processes /\ e \in Outstanding /\ e \in ControlEffect
      /\ "Stop" \notin SideKinds /\ "Stop" \notin SpawnKinds
    BY KindFacts DEF Inv, Types, Outstanding
<1>2. ASSUME Correlated(e), e.kind = "Stop"
      PROVE  /\ i \in Registry /\ SessionOK(s)
             /\ Process(i, s.generation) = ProcessOf(e)
             /\ \A f \in effects : f.kind \in WorkerKinds => f.instance # i
    <2>1. i \in Registry /\ OfOperation(e) /\ s.status = "Stopping"
        BY <1>1, <1>2, CorrelatedView
    <2>2. \A f \in effects : f.kind \in WorkerKinds => f.instance # i
        BY <2>1 DEF Inv, WorkersServe
    <2>3. Process(i, s.generation) = ProcessOf(e)
        BY <2>1 DEF OfOperation, OfGeneration, ProcessOf
    <2>. QED  BY <1>1, <2>1, <2>2, <2>3 DEF Types
<1>3. ASSUME NEW f \in 0..MaxFrame, stop_completed(e, f) PROVE Inv' /\ Forward
    <2> DEFINE t == FinalFrame(Ended(s, "Exited"), f)
    <2>1. /\ Answer(e) /\ inflight' = inflight \ {e} /\ e.kind = "Stop"
          /\ ProcessOf(e) \in processes /\ processes' = processes \ {ProcessOf(e)}
          /\ Becomes(e, t)
          /\ UNCHANGED <<generation_watermarks, next_operation_id, effects, exits, abandoned, ignored>>
        BY <1>3 DEF stop_completed, Answer
    <2>2. CASE ~Correlated(e)
        BY <1>1, <2>1, <2>2, IgnoredStep DEF Becomes
    <2>3. CASE Correlated(e)
        <3>1. /\ i \in Registry /\ SessionOK(s) /\ Process(i, s.generation) = ProcessOf(e)
              /\ \A h \in effects : h.kind \in WorkerKinds => h.instance # i
            BY <1>2, <2>1, <2>3
        <3>2. /\ SessionOK(t) /\ t.status = "Exited" /\ t.operation = NoOperation
              /\ t.generation = s.generation /\ Advances(s, t)
            BY <3>1, FinalFrameOK
        <3>3. sessions' = [sessions EXCEPT ![i] = t]
            BY <2>1, <2>3 DEF Becomes
        <3>4. \A h \in Outstanding \ {e} :
                h.kind \in SpawnKinds => ProcessOf(h) # ProcessOf(e)
            BY <2>1 DEF Inv, ProcessesTracked
        <3>. HIDE DEF t
        <3>5. t.status \in Startable
            BY <3>2 DEF Startable
        <3>6. Process(i, t.generation) \notin processes' \ abandoned'
            BY <2>1, <3>1, <3>2
        <3>7. \A h \in Outstanding \ {e} :
                h.kind \in SpawnKinds /\ ProcessOf(h) = Process(i, t.generation) =>
                    ProcessOf(h) \in abandoned'
            BY <3>1, <3>2, <3>4
        <3>8. abandoned \subseteq abandoned' /\ abandoned' \subseteq Processes
              /\ processes' \subseteq processes
            BY <1>1, <2>1
        <3>. QED  BY <2>1, <3>1, <3>2, <3>3, <3>5, <3>6, <3>7, <3>8, FinishStep
    <2>. QED  BY <2>2, <2>3
<1>4. ASSUME stop_failed(e) PROVE Inv' /\ Forward
    <2> DEFINE t == Ended(s, "Failed")
    <2>1. /\ Answer(e) /\ inflight' = inflight \ {e} /\ e.kind = "Stop"
          /\ abandoned' = abandoned \cup {ProcessOf(e)} /\ ignored' = ignored /\ Becomes(e, t)
          /\ UNCHANGED <<generation_watermarks, next_operation_id, effects, processes, exits>>
        BY <1>4 DEF stop_failed, Answer
    <2>2. abandoned \subseteq abandoned' /\ abandoned' \subseteq Processes
        BY <1>1, <2>1, DataFacts
    <2>3. CASE ~Correlated(e)
        BY <1>1, <2>1, <2>2, <2>3, IgnoredStep DEF Becomes
    <2>4. CASE Correlated(e)
        <3>1. /\ i \in Registry /\ SessionOK(s) /\ Process(i, s.generation) = ProcessOf(e)
              /\ \A h \in effects : h.kind \in WorkerKinds => h.instance # i
            BY <1>2, <2>1, <2>4
        <3>2. /\ t \in SessionState /\ t.status = "Failed" /\ t.operation = NoOperation
              /\ t.resume = DefaultResume /\ t.foreground = "Unknown"
              /\ t.generation = s.generation /\ t.frame = s.frame
              /\ Evolves(s.provider, t.provider) /\ Unresolved(t.provider) = {}
            BY <3>1, EndedOK
        <3>3. sessions' = [sessions EXCEPT ![i] = t]
            BY <2>1, <2>4 DEF Becomes
        <3>. HIDE DEF t
        <3>4. SessionOK(t) /\ Advances(s, t)
            BY <3>1, <3>2, OverOK, AdvancesSelf DEF Evolves
        <3>5. t.status \in Startable
            BY <3>2 DEF Startable
        <3>6. Process(i, t.generation) \notin processes' \ abandoned'
            BY <2>1, <3>1, <3>2
        <3>7. \A h \in Outstanding \ {e} :
                h.kind \in SpawnKinds /\ ProcessOf(h) = Process(i, t.generation) =>
                    ProcessOf(h) \in abandoned'
            BY <2>1, <3>1, <3>2
        <3>8. processes' \subseteq processes
            BY <2>1
        <3>. QED  BY <2>1, <2>2, <3>1, <3>2, <3>3, <3>4, <3>5, <3>6, <3>7, <3>8, FinishStep
    <2>. QED  BY <2>3, <2>4
<1>. QED  BY <1>3, <1>4

\* A process ends, and the engine is told so.
LEMMA ExitActions ==
    ASSUME Inv
    PROVE  /\ \A q \in processes : host_exit(q) => Inv' /\ Forward
           /\ \A q \in exits, f \in 0..MaxFrame : process_exited(q, f) => Inv' /\ Forward
<1>1. Types /\ OperationsUsed /\ processes \cap exits = {}
    BY DEF Inv, ProcessesTracked
<1>2. ASSUME NEW q \in processes, host_exit(q) PROVE Inv' /\ Forward
    <2>1. Exits /\ sessions' = sessions
        BY <1>1, <1>2 DEF Exits, host_exit
    <2>. QED  BY <1>1, <2>1, ExitsStep, UnchangedForward
<1>3. ASSUME NEW q \in exits, NEW f \in 0..MaxFrame, process_exited(q, f) PROVE Inv' /\ Forward
    <2> DEFINE i == q.instance
               s == sessions[i]
               t == FinalFrame(Ended(s, "Exited"), f)
    <2>1. /\ exits' = exits \ {q}
          /\ UNCHANGED <<generation_watermarks, next_operation_id, inflight, processes, abandoned, ignored>>
        BY <1>3 DEF process_exited
    <2>2. CASE ~Current(q)
        <3>1. UNCHANGED <<sessions, effects>>
            BY <1>3, <2>2 DEF process_exited
        <3>2. Exits
            BY <1>1, <2>1, <3>1 DEF Exits
        <3>. QED  BY <1>1, <3>1, <3>2, ExitsStep, UnchangedForward
    <2>3. CASE Current(q)
        <3>1. sessions' = [sessions EXCEPT ![i] = t] /\ effects' = Unqueued(q)
            BY <1>3, <2>3 DEF process_exited
        <3>2. i \in Registry /\ s.generation = q.generation /\ SessionOK(s)
            BY <1>1, <2>3 DEF Current, Types
        <3>3. Process(i, s.generation) = q
            BY <1>1, <3>2 DEF Types, Process, Processes
        <3>4. /\ SessionOK(t) /\ t.status = "Exited" /\ t.operation = NoOperation
              /\ t.generation = s.generation /\ Advances(s, t)
            BY <3>2, FinalFrameOK
        <3>. HIDE DEF t
        <3>5. Only(i) /\ sessions'[i] = t
            BY <1>1, <3>1, <3>2, <3>4, PutOnly
        <3>6. Shrinks(i) /\ Outstanding' \subseteq Outstanding
            BY <2>1, <3>1 DEF Shrinks, Outstanding, Unqueued
        <3>7. \A e \in effects' : e.kind \in WorkerKinds => e.instance # i
            BY <3>1, <3>2 DEF Inv, WorkersServe, WorkerEffectsLive, Unqueued
        <3>8. \A e \in Outstanding' : e.kind \in SpawnKinds => ProcessOf(e) # q
            BY <3>6 DEF Inv, ProcessesTracked
        <3>9. t.status \in Startable /\ abandoned' \subseteq Processes
            BY <1>1, <2>1, <3>4 DEF Startable, Types
        <3>10. Finishes(i)
            BY <1>1, <2>1, <3>3, <3>4, <3>5, <3>6, <3>7, <3>8, <3>9 DEF Finishes
        <3>11. Forward
            BY <1>1, <3>4, <3>5, OnlyForward
        <3>. QED  BY <3>10, <3>11, FinishesStep
    <2>. QED  BY <2>2, <2>3
<1>. QED  BY <1>2, <1>3

\* A spawn is answered.
LEMMA SpawnAnswers ==
    ASSUME Inv, NEW e \in inflight
    PROVE  /\ spawned(e) => Inv' /\ Forward
           /\ spawn_failed(e) => Inv' /\ Forward
<1> DEFINE i == e.instance
           s == sessions[i]
           c == s.resume_identity
           p == s.provider
           pc == [p EXCEPT !.session = c]
<1>1. Types /\ OperationsUsed /\ abandoned \subseteq Processes /\ e \in Outstanding
      /\ e \in ControlEffect /\ SpawnKinds \cap SideKinds = {}
    BY KindFacts DEF Inv, Types, Outstanding
<1>2. ASSUME Correlated(e), e.kind \in SpawnKinds
      PROVE  /\ i \in Registry /\ OfOperation(e) /\ s.status = "Starting" /\ SessionOK(s)
             /\ s \in SessionState /\ Process(i, s.generation) = ProcessOf(e)
             /\ c \in Identities \cup {None}
             /\ s.resume.phase = "Spawning" => s.transport # "Acp"
             /\ s.resume.phase \in {"None", "Spawning"}
             /\ \A x \in p.interactions : x.status # "Resolving"
    <2>1. i \in Registry /\ OfOperation(e) /\ s.status = "Starting"
        BY <1>1, <1>2, CorrelatedView
    <2>2. SessionOK(s) /\ s \in SessionState
        BY <1>1, <2>1 DEF Types, SessionOK
    <2>3. c \in Identities \cup {None} /\ s.resume.phase \in {"None", "Authorizing", "Spawning"}
        BY <2>2 DEF SessionState, ResumeSnapshot
    <2>4. Process(i, s.generation) = ProcessOf(e)
        BY <2>1 DEF OfOperation, OfGeneration, ProcessOf
    <2>. QED  BY <2>1, <2>2, <2>3, <2>4 DEF SessionOK, PhaseFits, Startable
<1>3. ASSUME Correlated(e), e.kind \in SpawnKinds
      PROVE  /\ WellFormed(p) /\ IdsUsed(p) /\ p \in ProviderSnapshot
             /\ WellFormed(pc) /\ IdsUsed(pc) /\ pc \in ProviderSnapshot
             /\ pc.interactions = p.interactions /\ pc.subagents = p.subagents
             /\ pc.lead = p.lead /\ pc.sequence = p.sequence /\ pc.cursors = p.cursors
    <2>1. WellFormed(p) /\ IdsUsed(p) /\ c \in Identities \cup {None} /\ p \in ProviderSnapshot
        BY <1>2, <1>3 DEF SessionOK, WellFormed
    <2>2. pc = [p EXCEPT !.session = c]
        OBVIOUS
    <2>. HIDE DEF pc
    <2>. QED  BY <2>1, <2>2, SessionPut
<1>4. DefaultResume \in ResumeSnapshot /\ NoOperation \in 0..MaxOperation
    BY EngineAssumption DEF DefaultResume, ResumeSnapshot, NoOperation
<1>5. ASSUME spawned(e) PROVE Inv' /\ Forward
    <2> DEFINE running == [Done(s) EXCEPT !.status = "Running", !.resume_identity = None]
               t == IF s.resume.phase = "Spawning"
                    THEN [running EXCEPT !.provider.session = s.resume_identity,
                                         !.resume = DefaultResume]
                    ELSE running
    <2>1. /\ Answer(e) /\ inflight' = inflight \ {e} /\ e.kind \in SpawnKinds
          /\ processes' = processes \cup {ProcessOf(e)} /\ Becomes(e, t)
          /\ UNCHANGED <<generation_watermarks, next_operation_id, effects, exits, abandoned, ignored>>
        BY <1>5 DEF spawned, Answer
    <2>2. CASE ~Correlated(e)
        BY <1>1, <2>1, <2>2, IgnoredStep DEF Becomes
    <2>3. CASE Correlated(e)
        <3>1. /\ i \in Registry /\ OfOperation(e) /\ s.status = "Starting" /\ SessionOK(s)
              /\ s \in SessionState /\ s.resume.phase \in {"None", "Spawning"}
              /\ s.resume.phase = "Spawning" => s.transport # "Acp"
              /\ \A x \in p.interactions : x.status # "Resolving"
            BY <1>2, <2>1, <2>3
        <3>2. /\ WellFormed(p) /\ IdsUsed(p)
              /\ WellFormed(pc) /\ IdsUsed(pc) /\ pc \in ProviderSnapshot
              /\ pc.interactions = p.interactions /\ pc.subagents = p.subagents
              /\ pc.lead = p.lead /\ pc.sequence = p.sequence /\ pc.cursors = p.cursors
            BY <1>3, <2>1, <2>3
        <3>3. running \in SessionState
            BY <1>4, <3>1 DEF Done, SessionState, SessionStatus
        <3>4. /\ running.status = "Running" /\ running.operation = NoOperation
              /\ running.generation = s.generation /\ running.frame = s.frame
              /\ running.provider = p /\ running.transport = s.transport
              /\ running.policy = s.policy /\ running.resume = s.resume
            BY <3>1, <3>3 DEF Done, SessionState
        <3> DEFINE u == [running EXCEPT !.provider = pc, !.resume = DefaultResume]
        <3>5. u = [running EXCEPT !.provider.session = c, !.resume = DefaultResume]
            BY <3>3, <3>4 DEF SessionState
        <3>. HIDE DEF pc, running
        <3>6. u \in SessionState
            BY <1>4, <3>2, <3>3 DEF SessionState
        <3>7. /\ u.status = "Running" /\ u.operation = NoOperation
              /\ u.generation = s.generation /\ u.frame = s.frame
              /\ u.provider = pc /\ u.transport = s.transport
              /\ u.policy = s.policy /\ u.resume = DefaultResume
            BY <3>3, <3>4, <3>6 DEF SessionState
        <3>8. /\ t \in SessionState /\ t.status = "Running" /\ t.operation = NoOperation
              /\ t.generation = s.generation /\ t.frame = s.frame
              /\ t.transport = s.transport /\ t.policy = s.policy
              /\ t.provider = p \/ (t.provider = pc /\ s.transport # "Acp")
              /\ t.resume.phase = "None"
            <4>. HIDE DEF u
            <4>1. CASE s.resume.phase = "Spawning"
                BY <3>1, <3>5, <3>6, <3>7, <4>1 DEF DefaultResume
            <4>2. CASE s.resume.phase # "Spawning"
                BY <3>1, <3>3, <3>4, <4>2
            <4>. QED  BY <4>1, <4>2
        <3>9. sessions' = [sessions EXCEPT ![i] = t]
            BY <2>1, <2>3 DEF Becomes
        <3>. HIDE DEF t, u
        <3>10. /\ WellFormed(t.provider) /\ IdsUsed(t.provider)
               /\ t.provider.interactions = p.interactions
               /\ t.provider.subagents = p.subagents /\ t.provider.lead = p.lead
               /\ t.provider.sequence = p.sequence /\ t.provider.cursors = p.cursors
               /\ s.transport = "Acp" => t.provider.session = p.session
            BY <3>2, <3>8
        <3>11. SessionOK(t)
            <4>1. PhaseFits(t)
                BY <3>8 DEF PhaseFits, Startable
            <4>2. Withholds(t)
                BY <3>1, <3>8, <3>10 DEF Withholds, SessionOK, Live
            <4>. QED  BY <3>8, <3>10, <4>1, <4>2 DEF SessionOK, Startable
        <3>12. Advances(s, t)
            <4>1. Final(p, p)
                BY <3>2, EvolvesOrder, EvolvesFinal
            <4>2. Final(p, t.provider)
                BY <3>10, <4>1 DEF Final
            <4>3. s.frame \in Int /\ p.sequence \in Int /\ \A src \in Sources : p.cursors[src] \in Int
                BY <3>1, CountersOK
            <4>. QED  BY <3>8, <3>10, <4>2, <4>3 DEF Advances
        <3>13. Only(i) /\ sessions'[i] = t
            BY <1>1, <3>1, <3>9, <3>11, PutOnly
        <3>14. Runs(i, e)
            BY <2>1, <3>1, <3>8, <3>10, <3>13 DEF Runs
        <3>15. Forward
            BY <1>1, <3>8, <3>12, <3>13, OnlyForward
        <3>. QED  BY <3>14, <3>15, RunsStep
    <2>. QED  BY <2>2, <2>3
<1>6. ASSUME spawn_failed(e) PROVE Inv' /\ Forward
    <2> DEFINE u == Ended(s, "Failed")
               d == IF s.resume.phase = "Spawning" THEN s.resume_identity ELSE u.provider.session
               t == [u EXCEPT !.provider.session = d]
               q == [u.provider EXCEPT !.session = d]
    <2>1. /\ Answer(e) /\ inflight' = inflight \ {e} /\ e.kind \in SpawnKinds
          /\ UNCHANGED <<generation_watermarks, next_operation_id, effects, processes, exits,
                         abandoned, ignored>>
        BY <1>6 DEF spawn_failed, Answer
    <2>2. CASE ~Correlated(e)
        <3>1. sessions' = sessions
            BY <1>6, <2>2 DEF spawn_failed, Becomes
        <3>. QED  BY <1>1, <2>1, <2>2, <3>1, IgnoredStep
    <2>3. CASE Correlated(e)
        <3>1. /\ i \in Registry /\ OfOperation(e) /\ s.status = "Starting" /\ SessionOK(s)
              /\ s \in SessionState /\ c \in Identities \cup {None}
              /\ Process(i, s.generation) = ProcessOf(e)
            BY <1>2, <2>1, <2>3
        <3>2. /\ u \in SessionState /\ u.status = "Failed" /\ u.operation = NoOperation
              /\ u.resume = DefaultResume /\ u.foreground = "Unknown"
              /\ u.generation = s.generation /\ u.frame = s.frame
              /\ Evolves(s.provider, u.provider) /\ Unresolved(u.provider) = {}
            BY <3>1, EndedOK
        <3>3. sessions' = [sessions EXCEPT ![i] = t]
            BY <1>6, <2>3 DEF spawn_failed, Becomes
        <3>4. t = [u EXCEPT !.provider = q]
            BY <3>2 DEF SessionState
        <3>5. d \in Identities \cup {None}
            BY <3>1, <3>2 DEF Evolves, WellFormed, ProviderSnapshot
        <3>6. q = [u.provider EXCEPT !.session = d]
            OBVIOUS
        <3>. HIDE DEF u, d, q, t
        <3>7. /\ WellFormed(q) /\ IdsUsed(q) /\ q \in ProviderSnapshot
              /\ q.interactions = u.provider.interactions /\ q.subagents = u.provider.subagents
              /\ q.sequence = u.provider.sequence /\ q.cursors = u.provider.cursors
            BY <3>2, <3>5, <3>6, SessionPut DEF Evolves
        <3>8. t \in SessionState
            BY <3>2, <3>4, <3>7 DEF SessionState
        <3>9. /\ t.status = "Failed" /\ t.operation = NoOperation
              /\ t.resume = DefaultResume /\ t.foreground = "Unknown"
              /\ t.generation = s.generation /\ t.frame = s.frame /\ t.provider = q
            BY <3>2, <3>4, <3>8 DEF SessionState
        <3>10. Unresolved(q) = {}
            BY <3>2, <3>7 DEF Unresolved
        <3>11. SessionOK(t)
            BY <3>7, <3>8, <3>9, <3>10, OverOK
        <3>12. Advances(s, t)
            <4>1. Advances(s, u)
                BY <3>1, <3>2, AdvancesSelf
            <4>. QED  BY <3>2, <3>7, <3>9, <4>1 DEF Advances, Final
        <3>13. \A f \in effects : f.kind \in WorkerKinds => f.instance # i
            <4>. SUFFICES ASSUME NEW f \in effects, f.kind \in WorkerKinds, f.instance = i
                          PROVE  FALSE
                OBVIOUS
            <4>1. OfGeneration(f) /\ f \in Outstanding
                BY DEF Inv, WorkersServe, WorkerEffectsLive, OfGeneration, Outstanding
            <4>2. f.operation = s.operation
                BY <3>1, <4>1 DEF Inv, WorkersServe
            <4>3. f = e
                BY <1>1, <3>1, <4>1, <4>2 DEF OperationsUsed, OfOperation
            <4>. QED  BY <1>1, <4>3 DEF OperationsUsed
        <3>14. Process(i, t.generation) \notin processes' \ abandoned'
            BY <1>1, <2>1, <3>1, <3>9 DEF Inv, ProcessesTracked
        <3>15. \A f \in Outstanding \ {e} :
                f.kind \in SpawnKinds /\ ProcessOf(f) = Process(i, t.generation) =>
                    ProcessOf(f) \in abandoned'
            BY <1>1, <2>1, <3>1, <3>9 DEF Inv, ProcessesTracked
        <3>16. t.status \in Startable /\ processes' \subseteq processes
               /\ abandoned \subseteq abandoned' /\ abandoned' \subseteq Processes
            BY <1>1, <2>1, <3>9 DEF Startable
        <3>. QED  BY <2>1, <3>1, <3>3, <3>9, <3>11, <3>12, <3>13, <3>14, <3>15, <3>16, FinishStep
    <2>. QED  BY <2>2, <2>3
<1>. QED  BY <1>5, <1>6

-----------------------------------------------------------------------------
(* Answers that end an operation of a running session. *)

\* The pending operation of a running session is answered.
LEMMA FreeStep ==
    ASSUME Inv, NEW e \in inflight, inflight' = inflight \ {e}, NEW t \in SessionState,
           e.instance \in Registry, OfOperation(e), sessions[e.instance].status = "Running",
           sessions' = [sessions EXCEPT ![e.instance] = t],
           UNCHANGED <<generation_watermarks, next_operation_id, effects, processes, exits,
                       abandoned, ignored>>,
           t.status = "Running", t.operation = NoOperation,
           t.generation = sessions[e.instance].generation,
           t.resume = sessions[e.instance].resume,
           t.transport = sessions[e.instance].transport,
           t.policy = sessions[e.instance].policy, t.frame = sessions[e.instance].frame,
           WellFormed(t.provider), IdsUsed(t.provider),
           t.provider.sequence = sessions[e.instance].provider.sequence,
           t.provider.cursors = sessions[e.instance].provider.cursors,
           Final(sessions[e.instance].provider, t.provider),
           t.provider.session = sessions[e.instance].provider.session,
           t.provider.subagents = sessions[e.instance].provider.subagents,
           sessions[e.instance].provider.interactions = {} =>
               /\ t.provider.interactions = {}
               /\ sessions[e.instance].provider.lead = "Idle" => t.provider.lead = "Idle",
           \A x \in t.provider.interactions : x.status # "Resolving"
    PROVE  Inv' /\ Forward
<1> DEFINE i == e.instance
           s == sessions[i]
<1>1. Types /\ OperationsUsed /\ SessionOK(s) /\ e \in Outstanding
    BY DEF Inv, Types, Outstanding
<1>2. SessionOK(t)
    <2>1. PhaseFits(t)
        BY <1>1 DEF SessionOK, PhaseFits, Startable
    <2>2. Withholds(t)
        BY <1>1 DEF SessionOK, Withholds
    <2>. QED  BY <1>1, <2>1, <2>2 DEF SessionOK, Startable
<1>3. Only(i) /\ sessions'[i] = t
    BY <1>1, <1>2, PutOnly
<1>4. Shrinks(i)
    BY DEF Shrinks, Outstanding
<1>5. \A f \in Outstanding' : f.operation # s.operation
    <2>1. Outstanding' \subseteq Outstanding \ {e}
        BY <1>1 DEF Outstanding, OperationsUsed
    <2>. QED  BY <1>1, <2>1 DEF OperationsUsed, OfOperation
<1>6. Frees(i)
    BY <1>3, <1>4, <1>5 DEF Frees
<1>7. Advances(s, t)
    BY <1>1, CountersOK DEF Advances
<1>8. Forward
    BY <1>1, <1>3, <1>7, OnlyForward
<1>. QED  BY <1>6, <1>8, FreesStep

\* What the answer to an operation of a running session finds: unless it is a
\* resolution, nothing is being resolved, else only what it is about.
LEMMA RunningAnswer ==
    ASSUME Inv, NEW e \in inflight, Correlated(e),
           e.kind \in WorkerKinds \ (SpawnKinds \cup {"Stop"})
    PROVE  /\ e.instance \in Registry /\ OfOperation(e)
           /\ sessions[e.instance].status = "Running"
           /\ SessionOK(sessions[e.instance]) /\ sessions[e.instance] \in SessionState
           /\ \A x \in sessions[e.instance].provider.interactions :
                 x.status = "Resolving" => e.kind = "ResolveInteraction" /\ x \in Resolving(e)
<1> DEFINE s == sessions[e.instance]
<1>1. e \in Outstanding /\ e.kind \notin SideKinds
    BY KindFacts DEF Outstanding
<1>2. e.instance \in Registry /\ OfOperation(e) /\ s.status = "Running"
    BY <1>1, CorrelatedView
<1>3. SessionOK(s) /\ s \in SessionState
    BY <1>2 DEF Inv, Types, SessionOK
<1>4. ASSUME NEW x \in s.provider.interactions, x.status = "Resolving"
      PROVE  e.kind = "ResolveInteraction" /\ x \in Resolving(e)
    <2>1. x.operation = s.operation /\ s.operation = e.operation
        BY <1>2, <1>4 DEF Inv, ResolutionsMatch, OfOperation
    <2>2. e.kind = "ResolveInteraction" /\ e.interaction = x.id
        BY <1>1, <1>2, <1>4, <2>1 DEF Inv, ResolutionsMatch
    <2>. QED  BY <1>4, <2>1, <2>2 DEF Resolving
<1>. QED  BY <1>2, <1>3, <1>4

\* The answers to input, settings, resizes and observations of the foreground.
LEMMA OperationAnswers ==
    ASSUME Inv, NEW e \in inflight
    PROVE  /\ input_completed(e) => Inv' /\ Forward
           /\ operation_settled(e) => Inv' /\ Forward
           /\ foreground_observed(e) => Inv' /\ Forward
           /\ foreground_failed(e) => Inv' /\ Forward
<1> DEFINE i == e.instance
           s == sessions[i]
           p == s.provider
<1>1. Types /\ abandoned \subseteq Processes
    BY DEF Inv, Types
<1>2. \A k \in InputKinds \cup SettingKinds \cup {"Resize", "ObserveForeground"} :
         k \in WorkerKinds \ (SpawnKinds \cup {"Stop"}) /\ k # "ResolveInteraction"
    BY DEF WorkerKinds, InputKinds, SettingKinds, SpawnKinds
<1>3. ASSUME Answer(e),
             e.kind \in InputKinds \cup SettingKinds \cup {"Resize", "ObserveForeground"},
             UNCHANGED <<generation_watermarks, next_operation_id, effects, processes, exits,
                         abandoned, ignored>>,
             NEW t, Becomes(e, t),
             NEW f \in {"Unknown", "Confirmed", "Stale"}, NEW q,
             s \in SessionState => t = [s EXCEPT !.operation = NoOperation, !.input = "None",
                                                 !.foreground = f, !.provider = q],
             q = p \/ q = Lead(resolve_all_pending_interactions(p, "Interrupted"), "Idle")
      PROVE  Inv' /\ Forward
    <2>1. CASE ~Correlated(e)
        <3>1. sessions' = sessions
            BY <1>3, <2>1 DEF Becomes
        <3>. QED  BY <1>1, <1>3, <2>1, <3>1, IgnoredStep
    <2>2. CASE Correlated(e)
        <3>1. /\ i \in Registry /\ OfOperation(e) /\ s.status = "Running"
              /\ SessionOK(s) /\ s \in SessionState
              /\ \A x \in p.interactions : x.status # "Resolving"
            BY <1>2, <1>3, <2>2, RunningAnswer
        <3>2. WellFormed(p) /\ IdsUsed(p) /\ Evolves(p, p)
            BY <3>1, EvolvesOrder DEF SessionOK
        <3> DEFINE r == resolve_all_pending_interactions(p, "Interrupted")
        <3>3. /\ Evolves(p, r) /\ r.session = p.session /\ r.subagents = p.subagents
              /\ p.interactions = {} => r.interactions = {}
            BY <3>2, ResolveEvolves DEF resolve_all_pending_interactions, ProviderInteractionOutcome
        <3>4. r.sequence = p.sequence /\ r.cursors = p.cursors
            BY <3>2 DEF resolve_all_pending_interactions, resolve_with, WellFormed, ProviderSnapshot
        <3>. HIDE DEF r
        <3>5. /\ Evolves(p, Lead(r, "Idle")) /\ Lead(r, "Idle").interactions = r.interactions
              /\ Lead(r, "Idle").subagents = r.subagents /\ Lead(r, "Idle").lead = "Idle"
              /\ Lead(r, "Idle").session = r.session
            BY <3>3, LeadEvolves DEF ProviderActivity
        <3>6. Lead(r, "Idle").sequence = r.sequence /\ Lead(r, "Idle").cursors = r.cursors
            BY <3>3 DEF Lead, Evolves, WellFormed, ProviderSnapshot
        <3>7. /\ Evolves(p, q) /\ q.session = p.session /\ q.subagents = p.subagents
              /\ q.sequence = p.sequence /\ q.cursors = p.cursors
              /\ p.interactions = {} =>
                    q.interactions = {} /\ (p.lead = "Idle" => q.lead = "Idle")
            <4>1. q = p \/ q = Lead(r, "Idle")
                BY <1>3 DEF r
            <4>. QED  BY <3>2, <3>3, <3>4, <3>5, <3>6, <4>1
        <3>8. /\ WellFormed(q) /\ IdsUsed(q) /\ q \in ProviderSnapshot /\ Final(p, q)
              /\ \A x \in q.interactions : x.status # "Resolving"
            BY <3>1, <3>2, <3>7, EvolvesFinal DEF Evolves, WellFormed
        <3>9. t = [s EXCEPT !.operation = NoOperation, !.input = "None", !.foreground = f,
                            !.provider = q]
            BY <1>3, <3>1
        <3>10. /\ t \in SessionState /\ t.status = s.status /\ t.operation = NoOperation
               /\ t.generation = s.generation /\ t.resume = s.resume /\ t.transport = s.transport
               /\ t.policy = s.policy /\ t.frame = s.frame /\ t.provider = q
            <4>1. NoOperation \in 0..MaxOperation
                BY EngineAssumption DEF NoOperation
            <4>2. t \in SessionState
                BY <1>3, <3>1, <3>8, <3>9, <4>1 DEF SessionState
            <4>. QED  BY <1>3, <3>1, <3>8, <3>9, <4>2 DEF SessionState
        <3>11. sessions' = [sessions EXCEPT ![i] = t] /\ inflight' = inflight \ {e}
            BY <1>3, <2>2 DEF Becomes, Answer
        <3>. QED  BY <1>3, <3>1, <3>7, <3>8, <3>10, <3>11, FreeStep
    <2>. QED  BY <2>1, <2>2
<1>4. s \in SessionState =>
        /\ s.foreground \in {"Unknown", "Confirmed", "Stale"}
        /\ Done(s) = [s EXCEPT !.operation = NoOperation, !.input = "None",
                               !.foreground = s.foreground, !.provider = p]
    BY DEF Done, SessionState
<1>5. ASSUME input_completed(e) PROVE Inv' /\ Forward
    <2> DEFINE q == IF s.input = "Interrupt"
                    THEN Lead(resolve_all_pending_interactions(p, "Interrupted"), "Idle") ELSE p
               f == IF s \in SessionState THEN s.foreground ELSE "Unknown"
               t == IF s.input = "Interrupt"
                    THEN [Done(s) EXCEPT !.provider =
                           Lead(resolve_all_pending_interactions(@, "Interrupted"), "Idle")]
                    ELSE Done(s)
    <2>1. /\ Answer(e) /\ e.kind \in InputKinds /\ Becomes(e, t)
          /\ UNCHANGED <<generation_watermarks, next_operation_id, effects, processes, exits,
                         abandoned, ignored>>
        BY <1>5 DEF input_completed
    <2>2. s \in SessionState => t = [s EXCEPT !.operation = NoOperation, !.input = "None",
                                              !.foreground = f, !.provider = q]
        <3>. SUFFICES ASSUME s \in SessionState
                      PROVE  t = [s EXCEPT !.operation = NoOperation, !.input = "None",
                                           !.foreground = f, !.provider = q]
            OBVIOUS
        <3>1. /\ f = s.foreground
              /\ Done(s) = [s EXCEPT !.operation = NoOperation, !.input = "None",
                                     !.foreground = s.foreground, !.provider = p]
            BY <1>4
        <3>2. CASE s.input = "Interrupt"
            <4> DEFINE w == Lead(resolve_all_pending_interactions(p, "Interrupted"), "Idle")
            <4>1. Done(s).provider = p
                BY DEF Done, SessionState
            <4>2. t = [Done(s) EXCEPT !.provider = w] /\ q = w
                BY <3>2, <4>1
            <4>. HIDE DEF w, t, q
            <4>. QED  BY <3>1, <4>2 DEF SessionState
        <3>3. CASE s.input # "Interrupt"
            BY <3>1, <3>3
        <3>. QED  BY <3>2, <3>3
    <2>3. f \in {"Unknown", "Confirmed", "Stale"}
        BY <1>4
    <2>4. q = p \/ q = Lead(resolve_all_pending_interactions(p, "Interrupted"), "Idle")
        OBVIOUS
    <2>. HIDE DEF q, f, t
    <2>. QED  BY <1>3, <2>1, <2>2, <2>3, <2>4
<1>6. ASSUME operation_settled(e) PROVE Inv' /\ Forward
    <2> DEFINE f == IF s \in SessionState THEN s.foreground ELSE "Unknown"
               t == Done(s)
    <2>1. /\ Answer(e) /\ e.kind \in InputKinds \cup SettingKinds \cup {"Resize"} /\ Becomes(e, t)
          /\ UNCHANGED <<generation_watermarks, next_operation_id, effects, processes, exits,
                         abandoned, ignored>>
        BY <1>6 DEF operation_settled
    <2>2. s \in SessionState => t = [s EXCEPT !.operation = NoOperation, !.input = "None",
                                              !.foreground = f, !.provider = p]
        BY <1>4
    <2>3. f \in {"Unknown", "Confirmed", "Stale"}
        BY <1>4
    <2>. HIDE DEF f, t
    <2>. QED  BY <1>3, <2>1, <2>2, <2>3
<1>7. ASSUME foreground_observed(e) PROVE Inv' /\ Forward
    <2> DEFINE t == [Done(s) EXCEPT !.foreground = "Confirmed"]
    <2>1. /\ Answer(e) /\ e.kind = "ObserveForeground" /\ Becomes(e, t)
          /\ UNCHANGED <<generation_watermarks, next_operation_id, effects, processes, exits,
                         abandoned, ignored>>
        BY <1>7 DEF foreground_observed
    <2>2. s \in SessionState => t = [s EXCEPT !.operation = NoOperation, !.input = "None",
                                              !.foreground = "Confirmed", !.provider = p]
        BY DEF Done, SessionState
    <2>. HIDE DEF t
    <2>. QED  BY <1>3, <2>1, <2>2
<1>8. ASSUME foreground_failed(e) PROVE Inv' /\ Forward
    <2> DEFINE t == invalidate_foreground(Done(s))
    <2>1. /\ Answer(e) /\ e.kind = "ObserveForeground" /\ Becomes(e, t)
          /\ UNCHANGED <<generation_watermarks, next_operation_id, effects, processes, exits,
                         abandoned, ignored>>
        BY <1>8 DEF foreground_failed
    <2>2. s \in SessionState => t = [s EXCEPT !.operation = NoOperation, !.input = "None",
                                              !.foreground = "Stale", !.provider = p]
        BY DEF Done, SessionState, invalidate_foreground
    <2>. HIDE DEF t
    <2>. QED  BY <1>3, <2>1, <2>2
<1>. QED  BY <1>5, <1>6, <1>7, <1>8

\* The answers to a resolution.
LEMMA ResolutionAnswers ==
    ASSUME Inv, NEW e \in inflight
    PROVE  /\ interaction_resolution_completed(e) => Inv' /\ Forward
           /\ interaction_resolution_failed(e) => Inv' /\ Forward
<1> DEFINE i == e.instance
           s == sessions[i]
           p == s.provider
<1>1. Types /\ abandoned \subseteq Processes /\ e \in Outstanding
      /\ "ResolveInteraction" \in WorkerKinds \ (SpawnKinds \cup {"Stop"})
    BY KindFacts DEF Inv, Types, Outstanding
<1>2. ASSUME Answer(e), e.kind = "ResolveInteraction",
             ~(Correlated(e) /\ Resolving(e) # {}), UNCHANGED sessions,
             UNCHANGED <<generation_watermarks, next_operation_id, effects, processes, exits,
                         abandoned, ignored>>
      PROVE  Inv' /\ Forward
    <2>1. ~(OfOperation(e) /\ Ends(e))
        <3>. SUFFICES ASSUME OfOperation(e), Ends(e) PROVE FALSE
            OBVIOUS
        <3>1. Correlated(e) /\ Resolving(e) = {}
            BY <1>1, <1>2, CorrelatedView
        <3>2. s.status = "Running"
            BY <1>1, <1>2, <3>1, RunningAnswer
        <3>. QED  BY <1>2, <3>1, <3>2 DEF Ends
    <2>2. Dismisses(e)
        BY <1>1, <1>2, <2>1 DEF Dismisses, Answer, Types
    <2>. QED  BY <1>1, <1>2, <2>2, DismissesStep, UnchangedForward
<1>3. ASSUME Correlated(e), e.kind = "ResolveInteraction", NEW x \in Resolving(e)
      PROVE  /\ i \in Registry /\ OfOperation(e) /\ s.status = "Running"
             /\ SessionOK(s) /\ s \in SessionState
             /\ WellFormed(p) /\ IdsUsed(p) /\ p \in ProviderSnapshot
             /\ x \in p.interactions /\ x \in ProviderInteraction
             /\ x.status = "Resolving" /\ x.answer \in ResponseKind
             /\ Resolving(e) = {x}
             /\ \A y \in p.interactions : y.status = "Resolving" => y = x
    <2>1. /\ i \in Registry /\ OfOperation(e) /\ s.status = "Running"
          /\ SessionOK(s) /\ s \in SessionState
          /\ \A y \in p.interactions : y.status = "Resolving" => y \in Resolving(e)
        BY <1>1, <1>3, RunningAnswer
    <2>2. WellFormed(p) /\ IdsUsed(p) /\ p \in ProviderSnapshot
        BY <2>1 DEF SessionOK, WellFormed
    <2>3. x \in p.interactions /\ x.status = "Resolving" /\ x.id = e.interaction
          /\ \A y \in Resolving(e) : y \in p.interactions /\ y.id = e.interaction
        BY <1>3 DEF Resolving
    <2>4. Resolving(e) = {x}
        BY <1>3, <2>2, <2>3 DEF WellFormed
    <2>5. x.answer \in ResponseKind /\ x \in ProviderInteraction
        BY <2>2, <2>3 DEF WellFormed, ProviderSnapshot
    <2>. QED  BY <2>1, <2>2, <2>3, <2>4, <2>5
<1>4. ASSUME interaction_resolution_completed(e) PROVE Inv' /\ Forward
    <2>1. /\ Answer(e) /\ e.kind = "ResolveInteraction" /\ inflight' = inflight \ {e}
          /\ UNCHANGED <<generation_watermarks, next_operation_id, effects, processes, exits,
                         abandoned, ignored>>
        BY <1>4 DEF interaction_resolution_completed, Answer
    <2>2. CASE ~(Correlated(e) /\ Resolving(e) # {})
        <3>1. UNCHANGED sessions
            BY <1>4, <2>2 DEF interaction_resolution_completed
        <3>. QED  BY <1>2, <2>1, <2>2, <3>1
    <2>3. CASE Correlated(e) /\ Resolving(e) # {}
        <3>1. PICK x \in Resolving(e) :
                Becomes(e, [Done(s) EXCEPT !.provider =
                  WaitingOr(resolve_with(@, {x}, interaction_response_outcome(x.answer)),
                            IF x.resume = "None" THEN "Working" ELSE x.resume)])
            BY <1>4, <2>3 DEF interaction_resolution_completed
        <3> DEFINE o == interaction_response_outcome(x.answer)
                   I == {x}
                   r == resolve_with(p, I, o)
                   a == IF x.resume = "None" THEN "Working" ELSE x.resume
                   l == IF Unresolved(r) # {} THEN "WaitingForInput" ELSE a
                   q == Lead(r, l)
                   t == [s EXCEPT !.operation = NoOperation, !.input = "None",
                                  !.foreground = s.foreground, !.provider = q]
        <3>2. /\ i \in Registry /\ OfOperation(e) /\ s.status = "Running"
              /\ SessionOK(s) /\ s \in SessionState
              /\ WellFormed(p) /\ IdsUsed(p) /\ p \in ProviderSnapshot
              /\ x \in p.interactions /\ x \in ProviderInteraction
              /\ x.status = "Resolving" /\ x.answer \in ResponseKind
              /\ \A y \in p.interactions : y.status = "Resolving" => y = x
            BY <1>3, <2>1, <2>3
        <3>3. o \in ProviderInteractionOutcome
            BY <3>2 DEF interaction_response_outcome, ResponseKind, ProviderInteractionOutcome
        <3>4. a \in ProviderActivity
            BY <3>2 DEF ProviderInteraction, ProviderActivity
        <3>5. l \in ProviderActivity
            BY <3>4 DEF ProviderActivity
        <3>6. I \subseteq Unresolved(p) /\ x \in I
            BY <3>2 DEF Unresolved, interaction_is_unresolved
        <3>7. sessions' = [sessions EXCEPT ![i] = t]
            <4>1. t = [Done(s) EXCEPT !.provider =
                        WaitingOr(resolve_with(@, {x}, interaction_response_outcome(x.answer)),
                                  IF x.resume = "None" THEN "Working" ELSE x.resume)]
                BY <3>2 DEF Done, SessionState, WaitingOr, Lead
            <4>. HIDE DEF t
            <4>. QED  BY <2>3, <3>1, <4>1 DEF Becomes
        <3>8. r.sequence = p.sequence /\ r.cursors = p.cursors
            BY <3>2 DEF resolve_with, ProviderSnapshot
        <3>. HIDE DEF o, l, I
        <3>9. /\ Evolves(p, r) /\ r.session = p.session /\ r.subagents = p.subagents
              /\ \A y \in r.interactions : interaction_is_unresolved(y) =>
                    y \in p.interactions /\ y \notin I
            BY <3>2, <3>3, <3>6, ResolveEvolves
        <3>. HIDE DEF r
        <3>10. /\ Evolves(p, q) /\ q.interactions = r.interactions
               /\ q.subagents = r.subagents /\ q.session = r.session
            BY <3>5, <3>9, LeadEvolves
        <3>11. q.sequence = r.sequence /\ q.cursors = r.cursors
            BY <3>9 DEF Lead, Evolves, WellFormed, ProviderSnapshot
        <3>. HIDE DEF q
        <3>12. /\ WellFormed(q) /\ IdsUsed(q) /\ q \in ProviderSnapshot /\ Final(p, q)
            BY <3>2, <3>10, EvolvesFinal DEF Evolves, WellFormed
        <3>13. \A y \in q.interactions : y.status # "Resolving"
            BY <3>2, <3>6, <3>9, <3>10 DEF interaction_is_unresolved
        <3>14. s.foreground \in {"Unknown", "Confirmed", "Stale"}
            BY <3>2 DEF SessionState
        <3>15. t = [s EXCEPT !.operation = NoOperation, !.input = "None",
                             !.foreground = s.foreground, !.provider = q]
            OBVIOUS
        <3>. HIDE DEF t
        <3>16. /\ t \in SessionState /\ t.status = s.status /\ t.operation = NoOperation
               /\ t.generation = s.generation /\ t.resume = s.resume /\ t.transport = s.transport
               /\ t.policy = s.policy /\ t.frame = s.frame /\ t.provider = q
            <4>1. NoOperation \in 0..MaxOperation
                BY EngineAssumption DEF NoOperation
            <4>2. t \in SessionState
                BY <3>2, <3>12, <3>14, <3>15, <4>1 DEF SessionState
            <4>. QED  BY <3>2, <3>12, <3>14, <3>15, <4>2 DEF SessionState
        <3>17. p.interactions # {}
            BY <3>2
        <3>. QED  BY <2>1, <3>2, <3>7, <3>8, <3>9, <3>10, <3>11, <3>12, <3>13, <3>16, <3>17, FreeStep
    <2>. QED  BY <2>2, <2>3
<1>5. ASSUME interaction_resolution_failed(e) PROVE Inv' /\ Forward
    <2>1. /\ Answer(e) /\ e.kind = "ResolveInteraction" /\ inflight' = inflight \ {e}
          /\ UNCHANGED <<generation_watermarks, next_operation_id, effects, processes, exits,
                         abandoned, ignored>>
        BY <1>5 DEF interaction_resolution_failed, Answer
    <2>2. CASE ~(Correlated(e) /\ Resolving(e) # {})
        <3>1. UNCHANGED sessions
            BY <1>5, <2>2 DEF interaction_resolution_failed
        <3>. QED  BY <1>2, <2>1, <2>2, <3>1
    <2>3. CASE Correlated(e) /\ Resolving(e) # {}
        <3>1. PICK x \in Resolving(e) : TRUE
            BY <2>3
        <3> DEFINE y == [x EXCEPT !.status = "Pending", !.operation = NoOperation,
                                  !.answer = "None"]
                   q == [p EXCEPT !.interactions = (p.interactions \ {x}) \cup {y},
                                  !.lead = "WaitingForInput"]
                   t == [s EXCEPT !.operation = NoOperation, !.input = "None",
                                  !.foreground = s.foreground, !.provider = q]
        <3>2. /\ i \in Registry /\ OfOperation(e) /\ s.status = "Running"
              /\ SessionOK(s) /\ s \in SessionState
              /\ WellFormed(p) /\ IdsUsed(p) /\ p \in ProviderSnapshot
              /\ x \in p.interactions /\ x \in ProviderInteraction
              /\ x.status = "Resolving" /\ Resolving(e) = {x}
              /\ \A z \in p.interactions : z.status = "Resolving" => z = x
            BY <1>3, <2>1, <2>3
        <3>3. y \in ProviderInteraction
            BY <3>2 DEF ProviderInteraction, NoOperation
        <3>4. y.id = x.id /\ y.status = "Pending"
            BY <3>2 DEF ProviderInteraction
        <3>5. sessions' = [sessions EXCEPT ![i] = t]
            <4>1. t = Reopened(e)
                <5>1. {[z \in Resolving(e) |->
                         [z EXCEPT !.status = "Pending", !.operation = NoOperation,
                                   !.answer = "None"]][v] : v \in Resolving(e)} = {y}
                    BY <3>2
                <5>. HIDE DEF y
                <5>. QED  BY <3>2, <5>1 DEF Reopened, Done, SessionState, ProviderSnapshot
            <4>. QED  BY <1>5, <2>3, <4>1 DEF interaction_resolution_failed, Becomes
        <3>. HIDE DEF y
        <3>6. q \in ProviderSnapshot
            BY <3>2, <3>3 DEF ProviderSnapshot, ProviderActivity
        <3>7. /\ q.interactions = (p.interactions \ {x}) \cup {y} /\ q.sequence = p.sequence
              /\ q.cursors = p.cursors /\ q.subagents = p.subagents /\ q.session = p.session
            BY <3>2, <3>6 DEF ProviderSnapshot
        <3>. HIDE DEF q
        <3>8. WellFormed(q) /\ IdsUsed(q) /\ Final(p, q)
            BY <3>2, <3>3, <3>4, <3>6, <3>7, ReplaceOK
        <3>9. \A z \in q.interactions : z.status # "Resolving"
            BY <3>2, <3>4, <3>7
        <3>10. s.foreground \in {"Unknown", "Confirmed", "Stale"} /\ p.interactions # {}
            BY <3>2 DEF SessionState
        <3>11. t = [s EXCEPT !.operation = NoOperation, !.input = "None",
                             !.foreground = s.foreground, !.provider = q]
            OBVIOUS
        <3>. HIDE DEF t
        <3>12. /\ t \in SessionState /\ t.status = s.status /\ t.operation = NoOperation
               /\ t.generation = s.generation /\ t.resume = s.resume /\ t.transport = s.transport
               /\ t.policy = s.policy /\ t.frame = s.frame /\ t.provider = q
            <4>1. NoOperation \in 0..MaxOperation
                BY EngineAssumption DEF NoOperation
            <4>2. t \in SessionState
                BY <3>2, <3>6, <3>10, <3>11, <4>1 DEF SessionState
            <4>. QED  BY <3>2, <3>6, <3>10, <3>11, <4>2 DEF SessionState
        <3>. QED  BY <2>1, <3>2, <3>5, <3>7, <3>8, <3>9, <3>10, <3>12, FreeStep
    <2>. QED  BY <2>2, <2>3
<1>. QED  BY <1>4, <1>5

-----------------------------------------------------------------------------
(* The theorems. *)

\* Registration and removal take nothing back.
LEMMA RosterActions ==
    ASSUME Inv, NEW i \in Instances
    PROVE  /\ \A tr \in Transports : register(i, tr) => Inv' /\ Forward
           /\ remove(i) => Inv' /\ Forward
<1>1. Types
    BY DEF Inv
<1>2. \A j \in Registry : Advances(sessions[j], sessions[j])
    BY <1>1, AdvancesSelf DEF Types
<1>3. ASSUME NEW tr \in Transports, register(i, tr) PROVE Inv' /\ Forward
    <2>1. PICK g \in checked_next_generation(i) : sessions' = [sessions EXCEPT ![i] = Reset(tr, g)]
        BY <1>3 DEF register
    <2>2. i \notin Registry
        BY <1>3 DEF register
    <2>3. g \in Generations /\ g > generation_watermarks[i]
        <3>1. generation_watermarks[i] \in Int
            BY <1>1, EngineAssumption DEF Types, Generations, NoGeneration
        <3>. QED  BY <3>1 DEF checked_next_generation
    <2>4. sessions'[i] = Reset(tr, g) /\ sessions'[i].generation = g
        BY <1>1, <2>1, <2>3, ResetOK DEF Types
    <2>5. \A j \in Instances \ {i} : sessions'[j] = sessions[j]
        BY <1>1, <2>1 DEF Types
    <2>6. Forward
        BY <1>2, <2>2, <2>3, <2>4, <2>5 DEF Forward, Registry
    <2>. QED  BY <1>3, <2>6, RegisterStep
<1>4. ASSUME remove(i) PROVE Inv' /\ Forward
    <2>1. sessions'[i] = Absent /\ \A j \in Instances \ {i} : sessions'[j] = sessions[j]
        BY <1>1, <1>4 DEF remove, Types
    <2>2. Forward
        BY <1>2, <2>1 DEF Forward, Registry
    <2>. QED  BY <1>4, <2>2, RemoveStep
<1>. QED  BY <1>3, <1>4

\* The empty engine satisfies the invariant.
LEMMA InitInv == Init => Inv
<1>. SUFFICES ASSUME Init PROVE Inv
    OBVIOUS
<1>1. Registry = {} /\ Outstanding = {}
    BY DEF Init, Registry, Outstanding
<1>2. Types
    BY <1>1, EngineAssumption DEF Init, Types
<1>. QED  BY <1>1, <1>2
          DEF Init, Inv, GenerationsUsed, OperationsUsed, WorkersServe, WorkerEffectsLive,
              ProcessesTracked, ProcessOwned, Expected, InputsPending, ResolutionsMatch, Owed,
              Outstanding

\* Every step preserves the invariant and takes nothing back.
LEMMA NextStep ==
    ASSUME Inv, Next
    PROVE  Inv' /\ Forward
<1>1. ASSUME NEW i \in Instances, Command(i) PROVE Inv' /\ Forward
    <2>1. \A tr \in Transports : register(i, tr) => Inv' /\ Forward
        BY RosterActions
    <2>2. \A p \in Policies, prompt \in BOOLEAN : start(i, p, prompt) => Inv' /\ Forward
        BY StartAction
    <2>3. stop(i) => Inv' /\ Forward
        BY StopAction
    <2>4. /\ \A a \in {"Text", "SubmitPrompt", "Interrupt"} : send_input(i, a) => Inv' /\ Forward
          /\ resize(i) => Inv' /\ Forward
          /\ refresh_foreground(i) => Inv' /\ Forward
          /\ \A k \in SettingKinds : set_session(i, k) => Inv' /\ Forward
        BY RequestActions
    <2>6. \A x \in sessions[i].provider.interactions, r \in ResponseKind :
             resolve_interaction(i, sessions[i].generation, x, r) => Inv' /\ Forward
        BY ResolveAction
    <2>7. /\ probe_capabilities(i) => Inv' /\ Forward
          /\ discover_history(i) => Inv' /\ Forward
          /\ \A c \in Identities : load_history(i, c) => Inv' /\ Forward
        BY SideActions
    <2>8. \A t \in ResumeTargets, p \in Policies, prompt \in BOOLEAN :
             resume(i, t, p, prompt) => Inv' /\ Forward
        BY ResumeAction
    <2>9. remove(i) => Inv' /\ Forward
        BY RosterActions
    <2>10. \A g \in Generations, src \in Sources, n \in 1..MaxSequence, b \in Batches :
             ingest_provider(i, g, src, n, b) => Inv' /\ Forward
        BY ProviderActions
    <2>. QED  BY <1>1, <2>1, <2>2, <2>3, <2>4, <2>6, <2>7, <2>8, <2>9, <2>10 DEF Command
<1>2. ASSUME NEW i \in Instances, Report(i) PROVE Inv' /\ Forward
    <2>1. PICK g \in Generations :
        \/ \E src \in Sources, n \in 1..MaxSequence, ev \in Events :
              provider_event(i, g, src, n, ev)
        \/ \E src \in Sources, missed \in 1..MaxSequence : provider_gap(i, g, src, missed)
        \/ \E f \in 1..MaxFrame : terminal_frame(i, g, f)
        \/ terminal_stale(i, g)
        BY <1>2 DEF Report
    <2>2. \A src \in Sources, n \in 1..MaxSequence, ev \in Events :
              provider_event(i, g, src, n, ev) => Inv' /\ Forward
        BY ProviderActions
    <2>3. \A src \in Sources, missed \in 1..MaxSequence :
              provider_gap(i, g, src, missed) => Inv' /\ Forward
        BY ProviderActions
    <2>4. \A f \in 1..MaxFrame : terminal_frame(i, g, f) => Inv' /\ Forward
        <3>1. g \in Nat /\ \A f \in 1..MaxFrame : f \in Nat
            BY EngineAssumption DEF Generations
        <3>. QED  BY <3>1, SideActions
    <2>5. terminal_stale(i, g) => Inv' /\ Forward
        BY SideActions
    <2>. QED  BY <2>1, <2>2, <2>3, <2>4, <2>5
<1>3. ASSUME NEW e \in inflight, Completion(e) PROVE Inv' /\ Forward
    BY <1>3, SpawnAnswers, StopAnswers, OperationAnswers, ResolutionAnswers, SideAnswers,
       AuthorizedAction, RefusedAction, InvalidAction DEF Completion
<1>4. ASSUME NEW q \in processes, host_exit(q) PROVE Inv' /\ Forward
    BY <1>4, ExitActions
<1>5. ASSUME NEW q \in exits, NEW f \in 0..MaxFrame, process_exited(q, f) PROVE Inv' /\ Forward
    BY <1>5, ExitActions
<1>6. ASSUME drain_effects PROVE Inv' /\ Forward
    <2>1. sessions' = sessions /\ Types
        BY <1>6 DEF drain_effects, Inv
    <2>. QED  BY <1>6, <2>1, DrainStep, UnchangedForward
<1>. QED  BY <1>1, <1>2, <1>3, <1>4, <1>5, <1>6 DEF Next

\* A step that changes nothing.
LEMMA StutterStep ==
    ASSUME Inv, UNCHANGED vars
    PROVE  Inv' /\ Forward
<1>1. UNCHANGED <<sessions, generation_watermarks, next_operation_id, effects, inflight,
                  processes, exits, abandoned, ignored>>
    BY DEF vars
<1>2. Types /\ processes \cap exits = {}
    BY DEF Inv, ProcessesTracked
<1>3. Exits
    BY <1>1, <1>2 DEF Exits
<1>. QED  BY <1>1, <1>2, <1>3, ExitsStep, UnchangedForward

\* The invariant holds in every reachable state of the engine and its host.
THEOREM Invariance == Spec => []Inv
<1>1. Init => Inv
    BY InitInv
<1>2. Inv /\ [Next]_vars => Inv'
    BY NextStep, StutterStep
<1>. QED  BY <1>1, <1>2, PTL DEF Spec

\* Every piece of the engine's state has its type, and the interactions and
\* subagents of a session stay within their limits.
THEOREM EngineTypes == Spec => []TypeOK
<1>1. Inv => TypeOK
    BY DEF Inv, Types, TypeOK, SessionOK, WellFormed
<1>. QED  BY <1>1, Invariance, PTL

\* Every pending operation has its answer coming, unless its answer has come
\* and was ignored as invalid: OperationOwed.
THEOREM EveryOperationIsOwed == Spec => []OperationOwed
<1>1. Inv => OperationOwed
    BY DEF Inv, Owed, OperationOwed, Forgone, OfOperation, OfGeneration
<1>. QED  BY <1>1, Invariance, PTL

\* The host is never handed work for a session that is over.
THEOREM WorkForTheLiving == Spec => []WorkerEffectsLive
<1>1. Inv => WorkerEffectsLive
    BY DEF Inv, WorkersServe
<1>. QED  BY <1>1, Invariance, PTL

\* No process is orphaned unless its stop was reported as failed.
THEOREM NoOrphans == Spec => []ProcessOwned
<1>1. Inv => ProcessOwned
    BY DEF Inv, ProcessesTracked
<1>. QED  BY <1>1, Invariance, PTL

\* The `expect`s of apply_observation_in_place never panic.
THEOREM ExpectsNeverPanic == Spec => []ExpectsHold
<1>1. ASSUME Inv PROVE ExpectsHold
    <2>. SUFFICES ASSUME NEW e \in Outstanding, Correlated(e)
                  PROVE  /\ e.kind \in InputKinds => sessions[e.instance].input # "None"
                         /\ e.kind = "SpawnResume" => sessions[e.instance].resume_identity # None
        BY DEF ExpectsHold
    <2>1. /\ e.kind \in InputKinds => e.kind \notin SideKinds
                /\ e.kind \in WorkerKinds \ (SpawnKinds \cup {"Stop"})
          /\ e.kind = "SpawnResume" => e.kind \notin SideKinds /\ e.kind \in SpawnKinds
        BY KindFacts
    <2>2. e.kind \in InputKinds => OfOperation(e) /\ sessions[e.instance].status = "Running"
        BY <1>1, <2>1, CorrelatedView
    <2>3. e.kind = "SpawnResume" => OfOperation(e) /\ sessions[e.instance].status = "Starting"
        BY <1>1, <2>1, CorrelatedView
    <2>. QED  BY <1>1, <2>2, <2>3 DEF Inv, Expected
<1>. QED  BY <1>1, Invariance, PTL

\* A confirmed foreground can be trusted.
THEOREM ForegroundIsCurrent == Spec => []ForegroundTrust
<1>1. ASSUME Inv PROVE ForegroundTrust
    <2>. SUFFICES ASSUME NEW i \in Registry, sessions[i].foreground = "Confirmed"
                  PROVE  /\ sessions[i].status = "Running"
                         /\ \A e \in Outstanding : e.kind \in InputKinds =>
                               ProcessOf(e) # Process(i, sessions[i].generation)
        BY DEF ForegroundTrust
    <2>1. sessions[i].status = "Running"
        BY <1>1 DEF Inv, Types, SessionOK
    <2>2. ASSUME NEW e \in Outstanding, e.kind \in InputKinds,
                 ProcessOf(e) = Process(i, sessions[i].generation)
          PROVE  FALSE
        <3>1. e.instance = i /\ OfGeneration(e)
            BY <2>2 DEF ProcessOf, Process, OfGeneration
        <3>. QED  BY <1>1, <2>2, <3>1 DEF Inv, InputsPending
    <2>. QED  BY <2>1, <2>2
<1>. QED  BY <1>1, Invariance, PTL

\* An interaction is resolving only for the pending operation, and a session
\* that is over leaves none open.
THEOREM ResolutionsArePending == Spec => []ResolvingIsPending
<1>1. Inv => ResolvingIsPending
    BY DEF Inv, ResolutionsMatch, Types, SessionOK, ResolvingIsPending, Startable
<1>. QED  BY <1>1, Invariance, PTL

\* The provider is never sent an answer to a question that was settled.
THEOREM ResolutionsAreWanted == Spec => []ResolutionEffectsWanted
<1>1. Inv => ResolutionEffectsWanted
    BY DEF Inv, ResolutionsMatch, ResolutionEffectsWanted
<1>. QED  BY <1>1, Invariance, PTL

\* Nothing of what a policy withholds reaches the snapshot.
THEOREM PoliciesWithhold == Spec => []PolicyWithholds
<1>1. Inv => PolicyWithholds
    BY DEF Inv, Types, SessionOK, Withholds, PolicyWithholds
<1>. QED  BY <1>1, Invariance, PTL

\* Generations are used once per instance, and within one nothing that was
\* shown is taken back.
THEOREM NothingRewinds == Spec => NoRewind
<1> DEFINE Step == \A i \in Instances : sessions'[i] # Absent =>
         LET old == sessions[i]
             new == sessions'[i]
         IN  IF i \in Registry /\ new.generation = old.generation
             THEN /\ new.frame >= old.frame
                  /\ new.provider.sequence >= old.provider.sequence
                  /\ \A src \in Sources :
                        new.provider.cursors[src] >= old.provider.cursors[src]
             ELSE new.generation > generation_watermarks[i]
<1>1. Inv /\ [Next]_vars => [Step]_vars
    <2>1. ASSUME Inv, Next PROVE Step
        BY <2>1, NextStep DEF Forward, Advances
    <2>. QED  BY <2>1
<1>. QED  BY <1>1, Invariance, PTL DEF Spec, NoRewind

\* The outcome of an interaction is told once.
THEOREM OutcomesAreFinal == Spec => InteractionFinal
<1> DEFINE Step == \A i \in Instances :
         Same(i) /\ sessions'[i].generation = sessions[i].generation =>
             \A x \in sessions[i].provider.interactions :
                 \A y \in sessions'[i].provider.interactions :
                     x.status = "Resolved" /\ y.id = x.id => y = x
<1>1. Inv /\ [Next]_vars => [Step]_vars
    <2>1. ASSUME Inv, Next PROVE Step
        BY <2>1, NextStep DEF Forward, Advances, Final, Same
    <2>. QED  BY <2>1
<1>. QED  BY <1>1, Invariance, PTL DEF Spec, InteractionFinal
=============================================================================
