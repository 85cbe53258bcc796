---------------------------- MODULE MCAgentDriver ----------------------------
\* Messages are interchangeable and submitted once each: it is enough to look
\* at behaviours that submit them in one order. Unlike a symmetry set this
\* reduction is sound for liveness too.
EXTENDS AgentDriver

InOrder == \A m \in unsent', k \in Messages \ unsent' : k < m
=============================================================================
