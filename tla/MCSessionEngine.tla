--------------------------- MODULE MCSessionEngine ---------------------------
(* Instances of SessionEngine for TLC: the provider events of each run. *)
EXTENDS SessionEngine, TLC

CONSTANTS i1, i2, i3, hook, r1, r2, child, a

Ev(kind, request, agent, identity) ==
    [kind |-> kind, identity |-> identity, request |-> request, agent |-> agent,
     ask |-> "Approval", outcome |-> "Denied"]
Plain(kind) == Ev(kind, None, None, None)

InstanceSymmetry == Permutations({i1, i2, i3})

NoEvents == {}

\* A question of the lead that names no request, so that several of them stay
\* open at once, and one of a subagent that is superseded when it is repeated;
\* settled by the provider's answer, by tool events and by ends.
InteractionEvents ==
    {Ev("InteractionRequested", None, None, None),
     Ev("InteractionRequested", r1, child, None),
     Ev("InteractionResolved", r1, None, None), Ev("ToolStarted", r1, child, None),
     Plain("SessionEnded"), Ev("SubagentStopped", None, child, None)}

ChildQuestions ==
    {Ev("InteractionRequested", r1, child, None), Ev("InteractionRequested", r2, child, None),
     Ev("ToolStarted", r1, child, None), Ev("ToolStarted", r2, child, None)}

\* What the policies tell apart: an identity, a subagent, and the session that
\* starts, which is both.
IdentityEvents ==
    {Ev("SessionIdentityObserved", None, None, a), Ev("SessionStarted", None, None, a),
     Ev("SubagentStarted", None, child, None)}

RawPty == {{"RawPtyLifecycle"}}
IdentityPolicies ==
    {{"RawPtyLifecycle", "SemanticReadiness"},
     {"RawPtyLifecycle", "ProviderSessionIdentity", "SemanticResume"}}
Full == {Capabilities}
Semantic == {{"RawPtyLifecycle", "SemanticReadiness"}}
=============================================================================
