\* Five modules, of which one is missing and one cannot be initialised, ten
\* wrapped classes, a hidden one, and two enums.
SPECIFICATION Spec
CONSTANTS
    Nil = Nil
    core = core
    ext = ext
    tool = tool
    odd = odd
    gone = gone
    Root = Root
    Side = Side
    Val = Val
    Inner = Inner
    Leaf = Leaf
    Both = Both
    Tool = Tool
    Ghost = Ghost
    Lost = Lost
    Odd = Odd
    Secret = Secret
    Color = Color
    Option = Option
    ShortInner = ShortInner
    Module = {core, ext, tool, odd, gone}
    Requires <- MCRequires
    Missing = {gone}
    Class = {Root, Side, Val, Inner, Leaf, Both, Tool, Ghost, Lost, Odd}
    Order <- MCOrder
    Bases <- MCBases
    Enclosing <- MCEnclosing
    ValueType = {Val, Inner}
    Polymorphic = {Root, Side, Leaf, Both, Odd}
    HasShell = {Root, Side, Leaf, Both}
    Unready = {Odd}
    Hidden = {Secret}
    HiddenBase <- MCHiddenBase
    Enum = {Color, Option}
    Scope <- MCScope
    LookupName <- MCLookupName
    Values <- MCValues
    Value = {0, 1}
    MaxRefs = 1
INVARIANTS
    TypesFound
    ObjectsTyped
    ItemsLive
CHECK_DEADLOCK FALSE
