CONSTANTS
  NULL = NULL
  Fresh = Fresh
  Main = Main
  Names = {"f", "g"}
  Keys = {"relax.VMExecutable"}
  Libs <- MCLibs
SPECIFICATION Spec
INVARIANTS TypeOK ImportTreeBuiltAsCSR CtxIsLibraryModule
