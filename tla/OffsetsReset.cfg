\* A constructor of a derived type fails while an instance of the type is alive.
SPECIFICATION Spec
CONSTANTS
    Base1 = Base1
    Base2 = Base2
    MDerived1 = MDerived1
    Point = Point
    ExtMDerived1 = ExtMDerived1
    Complex = Complex
    Obj = {o1, o2}
    Nil = Nil
    Class <- MCClass
    CppBases <- MCCppBases
    Shift <- MCShift
    Extent <- MCExtent
    Shells = {Base1, Base2, MDerived1}
    Polymorphic = {Base1, Base2, MDerived1}
    PyClass = {ExtMDerived1, Complex}
    Bases <- MCBases
    Used = {MDerived1, ExtMDerived1, Complex}
    Starts = {2, 4}
    MaxAddr = 6
    Tags = {"reset"}
    MaxCtors = 1
INVARIANT
    EntriesAlive
CHECK_DEADLOCK FALSE
