-------------------------- MODULE MCAgentLifecycle --------------------------
\* Two factories, as in a reload that overlaps the draining of the old one.
\* The new one is configured for the identity that a plugin's agent has under
\* the old one, so the two are rivals for it; that agent resumes another one.
EXTENDS AgentLifecycle, TLC

CONSTANTS configured, first, child, plugin, old, new, x, y

MCStarts     == {configured, first, child}
MCConfigured == {configured}
MCResuming   == {child}
MCPlugins    == {plugin}
MCLoops      == {old, new}
MCIdOf       == configured :> x @@ first :> x @@ child :> y
MCLoopOf     == configured :> new @@ first :> old @@ child :> old
MCOwnerOf    == configured :> new @@ first :> plugin @@ child :> first
=============================================================================
