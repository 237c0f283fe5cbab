CONSTANTS
  None = None
  Menus <- MCMenus
  Definitions <- MCDefinitions
  Depth <- MCDepth
  Roots = {"root", "a"}
SPECIFICATION Spec
INVARIANTS MenuIsWhole ListsAreOwed
PROPERTIES MenusAnswered
