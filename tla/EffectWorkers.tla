--------------------------- MODULE EffectWorkers ---------------------------
(***************************************************************************)
(* The native runtime's effects (gate4agent-runtime-native): a dispatcher, *)
(* called from the runtime's tick, hands each effect to a worker task, one *)
(* per instance and one each for capability probes and for history and     *)
(* resume authority.  A worker executes one effect at a time in its shell  *)
(* (gate4agent-shell-native) and sends observations into one bounded       *)
(* channel that the tick drains.  An instance's worker also polls its      *)
(* shell, and ends when it owns no session and has been idle for a while.  *)
(*                                                                         *)
(* An effect is its operation, its kind and its session; an observation is *)
(* the operation it answers, 0 when it answers none.  Time is the choice   *)
(* between the arms of a worker's select, and of the moment its idle       *)
(* timeout has passed.  A dispatch is one step: between the look at a      *)
(* worker and the send to it the worker may end, in which case the second  *)
(* attempt of the code does what this step does for a worker that is gone. *)
(* Left out: the end of the whole runtime, and the counters of sessions    *)
(* and timings.                                                            *)
(***************************************************************************)
EXTENDS Naturals, Sequences, SequencesExt, FiniteSets

CONSTANTS
  Instances,            \* agent instances, one effect worker each
  Generations,          \* session generations
  HistoryConfigured,    \* the runtime has a history authority
  EffectCapacity,       \* effect_capacity_per_session
  ObservationCapacity,  \* observation_capacity
  MaxObservations,      \* max_observations_per_tick
  MaxEffects,           \* bound: effects dispatched
  MaxReports            \* bound: observations of a shell that answer nothing

VARIABLES
  workers,           \* each lane's worker task, receiver included
  pending_failures,  \* failures found by the dispatcher, to be drained
  control,           \* the channel from the workers to the tick
  terminal_frames,   \* the sessions with a frame that was not drained
  dispatched,        \* the effects dispatched so far
  answered,          \* the operations whose observations were drained
  reports            \* observations that answer nothing, made so far

vars == <<workers, pending_failures, control, terminal_frames, dispatched,
          answered, reports>>

Lanes == Instances \cup {"capability", "authority"}
Kinds == {"Spawn", "Stop", "Use", "Probe", "History", "AuthorizeResume"}
Effects == [op : 1 .. MaxEffects, kind : Kinds, instance : Instances, generation : Generations]

\* The worker an effect goes to.
Lane(e) ==
  CASE e.kind = "Probe" -> "capability"
    [] e.kind \in {"History", "AuthorizeResume"} -> "authority"
    [] OTHER -> e.instance

\* A lane without a worker.  A worker has the requests it was sent, the one
\* at hand, the observations it is about to send, the sessions of its shell;
\* it may be in a round that its poll interval began, and idle for so long
\* that it may end.
Gone == [pc |-> "gone", queue |-> <<>>, at |-> <<>>, out |-> <<>>, sessions |-> {},
         polled |-> FALSE, idle |-> FALSE]

\* A worker at its select, with the requests it was sent.
Fresh(queue) == [Gone EXCEPT !.pc = "select", !.queue = queue]

-----------------------------------------------------------------------------
(* The dispatcher                                                          *)

\* What the dispatcher itself refuses: history without a history authority,
\* and a spawn whose policy or launch profile does not allow it.
MayRefuse(e) == e.kind = "Spawn" \/ (e.kind = "History" /\ ~HistoryConfigured)
MustRefuse(e) == e.kind = "History" /\ ~HistoryConfigured

\* effect_failure: an answer without a worker.
Failed(e) == pending_failures' = Append(pending_failures, e.op) /\ UNCHANGED workers

\* dispatch, dispatch_capability, dispatch_authority: to the lane's worker,
\* to a new one when there is none, or refused, for good or for want of room.
Dispatch(e) ==
  LET l == Lane(e)
      w == workers[l]
  IN  /\ e.op = Cardinality(dispatched) + 1
      /\ dispatched' = dispatched \cup {e}
      /\ \/ MayRefuse(e) /\ Failed(e)
         \/ /\ ~MustRefuse(e)
            /\ Len(w.queue) >= EffectCapacity
            /\ Failed(e)
         \/ /\ ~MustRefuse(e)
            /\ Len(w.queue) < EffectCapacity
            /\ workers' = [workers EXCEPT ![l] =
                 IF w.pc = "gone" THEN Fresh(<<e>>)
                 ELSE [w EXCEPT !.queue = Append(w.queue, e)]]
            /\ UNCHANGED pending_failures
      /\ UNCHANGED <<control, terminal_frames, answered, reports>>

\* drain_observations: the dispatcher's failures first, then the channel,
\* then frames with what is left of the limit.
DrainObservations ==
  LET found == pending_failures \o control
      taken == SubSeq(found, 1, IF Len(found) < MaxObservations THEN Len(found)
                                ELSE MaxObservations)
      rest  == MaxObservations - Len(taken)
      failures == Len(pending_failures)
  IN  /\ pending_failures' = SubSeq(pending_failures, Len(taken) + 1, failures)
      /\ control' = IF Len(taken) <= failures THEN control
                    ELSE SubSeq(control, Len(taken) - failures + 1, Len(control))
      /\ answered' = answered \cup (ToSet(taken) \ {0})
      /\ \E keys \in SUBSET terminal_frames :
           /\ IF Cardinality(terminal_frames) <= rest THEN keys = terminal_frames
              ELSE Cardinality(keys) = rest
           /\ terminal_frames' = terminal_frames \ keys
      /\ UNCHANGED <<workers, dispatched, reports>>

-----------------------------------------------------------------------------
(* A worker and its shell                                                  *)

Set(l, w) == workers' = [workers EXCEPT ![l] = w]

\* The worker has sent what it had to send and is at pc.
Ready(l, pc) == workers[l].pc = pc /\ workers[l].out = <<>>

\* The arm of select that receives a request.
Receive(l) ==
  /\ Ready(l, "select")
  /\ workers[l].queue # <<>>
  /\ Set(l, [workers[l] EXCEPT !.pc = "execute", !.at = <<Head(workers[l].queue)>>,
                               !.queue = Tail(@), !.polled = FALSE, !.idle = FALSE])
  /\ UNCHANGED <<pending_failures, control, terminal_frames, dispatched, answered, reports>>

\* The other arm: the poll interval.
Poll(l) ==
  /\ Ready(l, "select")
  /\ l \in Instances
  /\ Set(l, [workers[l] EXCEPT !.pc = "events", !.polled = TRUE])
  /\ UNCHANGED <<pending_failures, control, terminal_frames, dispatched, answered, reports>>

\* The idle timeout passes while the worker waits and nothing was sent to it.
IdleTimeout(l) ==
  /\ Ready(l, "select")
  /\ l \in Instances
  /\ workers[l].queue = <<>>
  /\ Set(l, [workers[l] EXCEPT !.idle = TRUE])
  /\ UNCHANGED <<pending_failures, control, terminal_frames, dispatched, answered, reports>>

\* The sessions after an effect: a spawn that succeeds adds its own unless
\* the session exists, a stop removes it whether or not it then succeeds.
Sessions(w, e) ==
  CASE e.kind = "Spawn" -> {w.sessions, w.sessions \cup {e.generation}}
    [] e.kind = "Stop"  -> {w.sessions \ {e.generation}}
    [] OTHER            -> {w.sessions}

\* execute_with_launch_context, and the other two workers' executions: one
\* observation answers the effect, whatever came of it.  The last frame of a
\* stopped session goes with it.  Then an instance's worker polls its shell.
Execute(l) ==
  LET w == workers[l]
      e == w.at[1]
  IN  /\ Ready(l, "execute")
      /\ \E sessions \in Sessions(w, e) :
           Set(l, [w EXCEPT !.at = <<>>, !.out = <<e.op>>, !.sessions = sessions,
                            !.pc = IF l \in Instances THEN "events" ELSE "select"])
      /\ terminal_frames' = IF e.kind = "Stop"
                            THEN terminal_frames \ {<<e.instance, e.generation>>}
                            ELSE terminal_frames
      /\ UNCHANGED <<pending_failures, control, dispatched, answered, reports>>

\* control_tx.send: waits for room.
Send(l) ==
  /\ workers[l].out # <<>>
  /\ Len(control) < ObservationCapacity
  /\ control' = Append(control, Head(workers[l].out))
  /\ Set(l, [workers[l] EXCEPT !.out = Tail(workers[l].out)])
  /\ UNCHANGED <<pending_failures, terminal_frames, dispatched, answered, reports>>

\* The worker's shell has something to report, or not, and moves on.
Report(l, to, sessions) ==
  \/ Set(l, [workers[l] EXCEPT !.pc = to]) /\ UNCHANGED reports
  \/ /\ sessions # {}
     /\ reports < MaxReports
     /\ reports' = reports + 1
     /\ Set(l, [workers[l] EXCEPT !.pc = to, !.out = <<0>>])

CollectProviderEvents(l) ==
  /\ Ready(l, "events")
  /\ Report(l, "frames", workers[l].sessions)
  /\ UNCHANGED <<pending_failures, control, terminal_frames, dispatched, answered>>

\* A changed screen replaces the session's frame; a changed state of the
\* screen is also sent.
CollectTerminalFrames(l) ==
  /\ Ready(l, "frames")
  /\ \E changed \in SUBSET workers[l].sessions :
       /\ terminal_frames' = terminal_frames \cup {<<l, g>> : g \in changed}
       /\ Report(l, "foreground", changed)
  /\ UNCHANGED <<pending_failures, control, dispatched, answered>>

ReclassifyForeground(l) ==
  /\ Ready(l, "foreground")
  /\ Report(l, "exits", workers[l].sessions)
  /\ UNCHANGED <<pending_failures, control, terminal_frames, dispatched, answered>>

\* Sessions whose process has ended leave the shell with their last frames.
CollectExits(l) ==
  /\ Ready(l, "exits")
  /\ \E ended \in SUBSET workers[l].sessions :
       /\ Set(l, [workers[l] EXCEPT !.pc = "round", !.sessions = @ \ ended,
                    !.out = [i \in 1 .. Cardinality(ended) |-> 0]])
       /\ terminal_frames' = terminal_frames \ {<<l, g>> : g \in ended}
  /\ UNCHANGED <<pending_failures, control, dispatched, answered, reports>>

\* The round is over.  A worker that polled, owns no session and has been
\* idle ends, and its queue with it.
NextRound(l) ==
  /\ Ready(l, "round")
  /\ \/ Set(l, [workers[l] EXCEPT !.pc = "select"])
     \/ /\ workers[l].polled /\ workers[l].idle /\ workers[l].sessions = {}
        /\ Set(l, Gone)
  /\ UNCHANGED <<pending_failures, control, terminal_frames, dispatched, answered, reports>>

Init ==
  /\ workers = [l \in Lanes |-> Gone]
  /\ pending_failures = <<>>
  /\ control = <<>>
  /\ terminal_frames = {}
  /\ dispatched = {}
  /\ answered = {}
  /\ reports = 0

Next ==
  \/ \E e \in Effects : Dispatch(e)
  \/ DrainObservations
  \/ \E l \in Lanes :
       \/ Receive(l) \/ Poll(l) \/ IdleTimeout(l) \/ Execute(l) \/ Send(l)
       \/ CollectProviderEvents(l) \/ CollectTerminalFrames(l)
       \/ ReclassifyForeground(l) \/ CollectExits(l) \/ NextRound(l)

Spec == Init /\ [][Next]_vars

-----------------------------------------------------------------------------

\* Every dispatched effect is queued at a worker that lives, in its hands, on
\* its way back, or answered: its one observation enters a later tick
\* (NativeRuntime::tick, NativeEffectShell).
NoEffectLost ==
  \A e \in dispatched :
    \/ \E l \in Lanes : \/ e \in ToSet(workers[l].queue \o workers[l].at)
                        \/ e.op \in ToSet(workers[l].out)
    \/ e.op \in ToSet(pending_failures \o control)
    \/ e.op \in answered
=============================================================================
