---------------------------- MODULE MCLabRuntime ----------------------------
EXTENDS LabRuntime, TLC

CallerSymmetry == Permutations(Callers)

A(kind, requiresApproval, failurePolicy) ==
  [kind |-> kind, requiresApproval |-> requiresApproval, failurePolicy |-> failurePolicy]

\* An empty graph, and graphs with steps of every kind and policy.
MCPlans ==
  {<<>>,
   <<A("device", FALSE, "STOP"), A("device", TRUE, "BLOCK")>>,
   <<A("human", TRUE, "BLOCK"), A("script", FALSE, "STOP")>>}

\* The runs whose change is in memory only.
Behind == {r \in DOMAIN runs : r \notin DOMAIN store.runs \/ store.runs[r] # runs[r]}

\* A bound: while the experiment has one run the save of any change may fail;
\* when it has more, that of a start whose run alone is behind.
FewFailures ==
  \A c \in Callers :
    calls[c].pc = "persist" /\ calls'[c] = Idle /\ UNCHANGED <<experiment, store>> =>
      \/ Behind = {}
      \/ Len(runs) < 2
      \/ calls[c].receipt = "start" /\ Behind = {calls[c].run}
=============================================================================
