SPECIFICATION Spec
CONSTANTS
  Nodes = {"n1", "n2"}
  PatchesOf <- MCPatchesOf
  SchematicOf <- MCSchematicOf
  Submit = TRUE
  Changing = {"all"}
  MaxVersions = 2
  Modes = {"nodes", "online", "offline"}
INVARIANTS
  MaskedOnReturn
  OutcomePerNode
  AcceptedBeforeUse
  NoStaleError
PROPERTIES
  CacheForward
  EndsOrHangs
CHECK_DEADLOCK FALSE
