CONSTANTS
  configured = configured
  first = first
  child = child
  plugin = plugin
  old = old
  new = new
  x = x
  y = y
  None = None
  Starts <- MCStarts
  Configured <- MCConfigured
  Resuming <- MCResuming
  Plugins <- MCPlugins
  Loops <- MCLoops
  IdOf <- MCIdOf
  LoopOf <- MCLoopOf
  OwnerOf <- MCOwnerOf
SPECIFICATION FairSpec
CHECK_DEADLOCK FALSE
INVARIANTS TypeOK OneDriver UnloadEndsStarts NoPreparationKept
PROPERTIES TeardownConverges
