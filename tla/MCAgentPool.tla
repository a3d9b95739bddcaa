---------------------------- MODULE MCAgentPool ----------------------------
(* An instance of AgentPool for TLC: a local agent, which also does fixes, and *)
(* one of an external model.                                                   *)
EXTENDS AgentPool, TLC

CONSTANTS t1, t2

MCAgents == {"l", "g"}
MCPosition == [l |-> 1, g |-> 2]
MCProvider == [l |-> "local", g |-> "antigravity"]
MCCapabilities == [l |-> {"code", "fix"}, g |-> {"code"}]
MCLimit == [a \in MCAgents |-> 1]
MCProviders == {"local", "antigravity"}
MCReports == {[status |-> "offline", active |-> 0, queued |-> 0]}

Common == [cap |-> "code", prio |-> "normal", order |-> <<"antigravity", "local">>,
           groups |-> <<"local", "antigravity">>, easy |-> TRUE, repo |-> FALSE,
           model |-> "antigravity"]
MCPlans == {<<[Common EXCEPT !.prio = "low"]>>,
            <<[Common EXCEPT !.prio = "high", !.easy = FALSE, !.repo = TRUE]>>}
MCFixOrder == <<"antigravity", "local">>

Symmetry == Permutations(Threads)

=============================================================================
