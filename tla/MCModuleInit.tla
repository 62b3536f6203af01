---------------------------- MODULE MCModuleInit ----------------------------
(***************************************************************************)
(* Instances of ModuleInit for TLC: a core module, one that extends it,    *)
(* one that also requires a missing module, and one with a class whose     *)
(* type cannot be made ready.                                              *)
(***************************************************************************)
EXTENDS ModuleInit, TLC

CONSTANTS core, ext, tool, odd, gone,
          Root, Side, Val, Inner, Leaf, Both, Tool, Ghost, Lost, Odd, Secret,
          Color, Option, ShortInner

MCRequires == (core :> <<>>) @@ (ext :> <<core>>) @@ (tool :> <<core, gone>>)
                  @@ (odd :> <<ext>>) @@ (gone :> <<>>)
MCOrder == (core :> <<Root, Side, Val, Inner>>) @@ (ext :> <<Leaf, Both>>) @@ (tool :> <<Tool, Lost>>)
               @@ (odd :> <<Odd>>) @@ (gone :> <<Ghost>>)
MCBases == [c \in Class |->
    CASE c = Side -> <<Root>>
      [] c = Leaf -> <<Root>>
      [] c = Both -> <<Leaf, Side>>
      [] c = Odd  -> <<Leaf>>
      [] c = Lost -> <<Ghost>>
      [] OTHER -> <<>>]
MCEnclosing == [c \in Class |-> IF c = Inner THEN Root ELSE Nil]
MCHiddenBase == (Secret :> Both)
MCScope == (Color :> core) @@ (Option :> Root)
MCLookupName == [x \in Class \cup Enum |-> IF x = Inner THEN ShortInner ELSE Nil]
MCValues == (Color :> <<0, 1>>) @@ (Option :> <<0, 0>>)
=============================================================================
