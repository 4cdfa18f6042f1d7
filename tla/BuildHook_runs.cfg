SPECIFICATION Spec
CONSTANTS
  Sources = {"auto", "prebuilt", "compile"}
  Hashed = TRUE
INVARIANTS TypeOK CopiesVerified AssetIsWhole
PROPERTY HookRecovers
