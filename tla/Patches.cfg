SPECIFICATION Spec
CONSTANTS
  Trees <- MCTrees
  Toolboxes <- MCToolboxes
  Installer <- MCInstaller
INVARIANTS
  
  SecretsComplete
CHECK_DEADLOCK FALSE
