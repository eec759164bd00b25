\* Every workspace of four projects with a few dependencies.
CONSTANTS
  Names <- Four
  Workspaces <- SparseWorkspaces
SPECIFICATION Spec
INVARIANTS OrderIsTopological GeneratorsFirst 
PROPERTY Ends
CHECK_DEADLOCK FALSE
