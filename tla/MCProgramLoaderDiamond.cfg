SPECIFICATION Spec
CONSTANTS
  main = main
  left = left
  right = right
  base = base
  Point = Point
  tune = tune
  area = area
  volume = volume
  scale = scale
  leftW = leftW
  rightW = rightW
  Files = {main, left, right, base}
  Symbols = {Point, tune, area, volume, scale}
  ImportsOf <- MCImportsOf
  ModuleOf <- MCModuleOf
  StructsOf <- MCStructsOf
  AutotunersOf <- MCAutotunersOf
  InlineOf <- MCInlineOf
  ExternOf <- MCExternOf
  WrappersOf <- MCWrappersOf
  ExportsOf <- MCExportsOf
  Bare = Bare
  None = None
  MaxDepth = 4
  MaxPrograms = 8
INVARIANTS
  TypeOK
  ImportsComeFirst
  ParsedWithHints
  QualifiedReachesNewest
  ExternCallsReachModule
PROPERTIES
  ImportsAreLoadedOnce
