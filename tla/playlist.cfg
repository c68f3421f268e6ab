SPECIFICATION Spec
CONSTANTS
  None = None
  Nodes <- AllNodes
  Root = "r"
  Files <- FileCounts
  Lists <- ListEntries
  Contents <- ListContents
  Fresh <- NewFiles
  Trees <- MCTrees
  Default <- Defaults
  IdleMode = TRUE
  Asks = {"step", "up", "src", "append", "load", "stop", "change"}
  MaxAsks = 3
  Vars = {"o", "p"}
  Saved = {"o", "p"}
  Options <- OptionNames
  Variable <- VariableOf
  Aliases = {"nop"}
  Values = {0, 1, 2}
INVARIANTS TypeOK EnvIsPath PlaysAsListed
PROPERTIES OptionsAreScoped Returns
CHECK_DEADLOCK FALSE
