SPECIFICATION Spec
CONSTANTS
  LuaNil = LuaNil
  Separator = Separator
INVARIANTS EngineSound TypesKept LibraryExact InRange ReportsTrue
