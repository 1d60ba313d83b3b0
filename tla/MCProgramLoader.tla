--------------------------- MODULE MCProgramLoader ---------------------------
(* A diamond of imports: main imports left and right, which import base.   *)
(* left and right use the same names, and the wrapper of left exports a    *)
(* routine that only right declares; the loop is left importing main.      *)
EXTENDS ProgramLoader, TLC

CONSTANTS main, left, right, base, Point, tune, area, volume, scale, leftW, rightW

MCImportsOf ==
  main :> {left, right} @@ left :> {base} @@ right :> {base} @@ base :> {}

MCLoopImportsOf ==
  main :> {left, right} @@ left :> {main} @@ right :> {} @@ base :> {}

MCModuleOf ==
  main :> "main" @@ left :> "left" @@ right :> "right" @@ base :> "base"

MCStructsOf ==
  main :> {} @@ left :> {Point} @@ right :> {} @@ base :> {Point}

MCAutotunersOf == main :> {tune} @@ left :> {} @@ right :> {} @@ base :> {tune}

MCInlineOf == main :> {} @@ left :> {scale} @@ right :> {scale} @@ base :> {}

MCExternOf ==
  main :> {} @@ left :> {area} @@ right :> {area, volume} @@ base :> {}

MCWrappersOf ==
  main :> {} @@ left :> {leftW} @@ right :> {rightW} @@ base :> {}

MCExportsOf == leftW :> {Point, area, volume} @@ rightW :> {area, volume}
=============================================================================
