---------------------------- MODULE VirtualCall ----------------------------
(***************************************************************************)
(* Calls between Python and C++: the functions of a binding that Python    *)
(* code calls (cppgenerator.cpp writeMethodWrapper and what it calls), the *)
(* virtual methods of a shell that C++ calls (writeVirtualMethodNative),   *)
(* which look for a Python override (BindingManager::getOverride), the GIL *)
(* that both give up and take back (GilState, ThreadStateSaver), Python    *)
(* errors on the way, the numbers passed and returned (Conversions), and   *)
(* wrappers of arguments that live no longer than the call.                *)
(***************************************************************************)
EXTENDS Conversions

CONSTANTS
    Python,         \* threads that start in Python code
    Worker,         \* threads that start in C++ code
    Nil,
    Obj,            \* objects of wrapped classes that have a wrapper
    Shell,          \* those whose C++ instance is of the generated subclass
    Mro,            \* [Obj -> Seq(classes)]: tp_mro without the object class
    PyClass,        \* classes written in Python
    Defines,        \* the methods in tp_dict of each class of an Mro
    Method,         \* virtual methods of the C++ class
    Abstract,       \* those that are pure
    TakesEvent,     \* those with an argument marked invalidate-after-use
    Param,          \* [Method -> types]: the other argument, and the result
    Value,          \* values that Python code passes and returns
    Locking,        \* methods whose C++ code takes a lock of the library
    Event,          \* addresses of C++ objects that live for one call
    Punched,        \* <<object, method>> that Python assigns to the instance
    Owned,          \* objects whose wrapper Python code may give up
    Tags,           \* what the bodies of functions do
    MaxDepth,       \* bound: the calls in progress in each thread
    MaxCalls        \* bound: the calls the C++ function of a method makes

AllTags ==
    {"keep-and-fail",   \* an override keeps its event and then fails
     "share-event"}     \* a thread passes an event that another one was given

Thread == Python \cup Worker

ASSUME VirtualCallAssumption ==
    /\ Python \cap Worker = {} /\ Nil \notin Thread \cup Obj \cup Method \cup Event
    /\ Shell \subseteq Obj /\ Owned \subseteq Shell
    /\ Abstract \cup TakesEvent \cup Locking \subseteq Method
    /\ Mro \in [Obj -> Seq(DOMAIN Defines)]
    /\ Punched \subseteq Obj \X Method /\ Tags \subseteq AllTags
    /\ Param \in [Method -> CppType] /\ Value \subseteq PyValue
    /\ MaxDepth \in [Thread -> Nat \ {0, 1}] /\ MaxCalls \in [Method -> Nat]

VARIABLES
    stack,          \* the calls in progress in each thread, the latest first
    gil,            \* the thread that holds the GIL, Nil if none does
    error,          \* whether a Python error is pending in each thread
    lock,           \* the thread that holds the lock of the C++ library
    wrapper,        \* of each object: "alive", "dying" (count 0) or "gone"
    instance,       \* of each object: "alive", "doomed" (its destructor waits
                    \*   for the calls in progress) or "gone"
    dict,           \* <<object, method>> that Python assigned to the instance
    event           \* at each address: whether there is an event, whether a
                    \*   valid wrapper of it is registered, what Python kept

callVars == <<stack, gil, error, lock, wrapper, instance, dict, event>>
objectVars == <<wrapper, instance, dict>>

-----------------------------------------------------------------------------
(* Calls in progress.  A frame is                                          *)
(*   "python"   Python code: the main program or a function                *)
(*   "binding"  a generated function called from Python                    *)
(*   "cpp"      C++ code: the main function of a worker or a method        *)
(*   "virtual"  the generated override of a virtual method                 *)
(*   "dealloc"  SbkDeallocWrapper                                          *)

FrameType ==
    [in : {"python", "binding", "cpp", "virtual", "dealloc"},
     obj : Obj \cup {Nil}, method : Method \cup {Nil},
     pc : {"start", "locks", "locked", "base", "override", "dtor", "end"},
     items : Seq(Int), meant : Seq(Int), event : Event \cup {Nil}, temp : Event \cup {Nil},
     left : Nat, had : BOOLEAN, reset : BOOLEAN, out : PyValue]

NoValue == [shape |-> "none", items |-> <<>>]
RaisedValue == [shape |-> "raised", items |-> <<>>]

Frame(in, o, m) ==
    [in |-> in, obj |-> o, method |-> m,
     pc |-> "start",
     items |-> <<>>,        \* the C++ value: the argument, then the result
     meant |-> <<>>,        \* what Python code passed or returned for it
     event |-> Nil,         \* the event it was given
     temp |-> Nil,          \* an event that ends with the call
     left |-> IF in = "cpp" /\ m # Nil THEN MaxCalls[m] ELSE 1,
     had |-> FALSE,         \* GilState: the thread had the GIL
     reset |-> FALSE,       \* invalidateArg
     out |-> NoValue]       \* the Python value that the call it made returned

CppFrame(o, m) == [Frame("cpp", o, m) EXCEPT !.pc = IF m \in Locking THEN "locks" ELSE "start"]

Top(t) == Head(stack[t])
Below(t) == Tail(stack[t])
Running(t, in) == stack[t] # <<>> /\ Top(t).in = in
Roomy(t) == Len(stack[t]) + 2 <= MaxDepth[t]
Frames(t) == {stack[t][i] : i \in DOMAIN stack[t]}
Calls(t, fs, f) == [stack EXCEPT ![t] = fs \o <<f>> \o Below(t)]
Replaced(t, f) == [stack EXCEPT ![t] = <<f>> \o Below(t)]

\* A call returns a Python value or items to the call below it.  What Python
\* code does after a call does not depend on what it returned.
ReturnsToPython(t) == [stack EXCEPT ![t] = Below(t)]
ReturnsToVirtual(t, value) ==
    [stack EXCEPT ![t] = <<[Head(Below(t)) EXCEPT !.out = value]>> \o Tail(Below(t))]
ReturnsToCpp(t, items, meant) ==
    [stack EXCEPT ![t] =
        IF Below(t) = <<>> THEN <<>>
        ELSE <<[Head(Below(t)) EXCEPT !.items = items, !.meant = meant]>> \o Tail(Below(t))]

\* The main program of Python may go on for ever, functions make some calls.
Caller(t) == IF t \in Python /\ Below(t) = <<>> THEN Top(t) ELSE [Top(t) EXCEPT !.left = @ - 1]

\* The GIL is free, the thread has it, or it is taken from a thread between two
\* steps of its Python code.
TakesGil(t) == gil \notin {t, Nil} => Running(gil, "python")
Uses(t, o) == \E f \in Frames(t) : f.obj = o /\ f.in # "dealloc"
ValuesOf(value) == [i \in DOMAIN value.items |-> value.items[i].val]

\* The tuples of arguments that hold the wrapper of an event.
Holders(e) ==
    UNION {{<<t, i>> : i \in {j \in DOMAIN stack[t] : stack[t][j].pc = "override" /\ stack[t][j].event = e}} :
              t \in Thread}

-----------------------------------------------------------------------------
(* BindingManager::getOverride.                                            *)

\* PyObject_GetAttr: the first class of the mro with a definition.
Definers(o, m) == {i \in DOMAIN Mro[o] : m \in Defines[Mro[o][i]]}
FirstDefiner(o, m) == CHOOSE i \in Definers(o, m) : \A j \in Definers(o, m) : i <= j

\* A virtual method of a shell is one of a wrapped class that it derives from.
ASSUME MroAssumption ==
    \A o \in Shell, m \in Method : \E i \in Definers(o, m) : Mro[o][i] \notin PyClass

\* A Python method is an override when a class after the first one of the mro
\* defines something else.
OverriddenInClass(o, m) ==
    /\ Definers(o, m) # {} /\ Mro[o][FirstDefiner(o, m)] \in PyClass
    /\ \E i \in Definers(o, m) \ {1} : i # FirstDefiner(o, m)

\* Mutant: a wrapper whose count is 0 has overrides.
OverrideOfDying(o, m) == wrapper[o] # "gone" /\ (<<o, m>> \in dict \/ OverriddenInClass(o, m))

GetOverride(o, m) == wrapper[o] = "alive" /\ (<<o, m>> \in dict \/ OverriddenInClass(o, m))

\* What an override is called with: a function in the instance's dict does not
\* get the object, a method holds a reference to it.
Bound(o, m) == IF <<o, m>> \in dict THEN Nil ELSE o

-----------------------------------------------------------------------------
(* Python code.                                                            *)

\* Python assigns a function to an instance, or deletes it.
Assign(t) ==
    /\ Running(t, "python") /\ TakesGil(t)
    /\ \E p \in Punched :
       /\ wrapper[p[1]] = "alive"
       /\ dict' = IF p \in dict THEN dict \ {p} ELSE dict \cup {p}
    /\ gil' = t
    /\ UNCHANGED <<stack, error, lock, wrapper, instance, event>>

\* Python keeps the wrapper of the event it was given, or gives up the one kept.
Keep(t) ==
    /\ Running(t, "python") /\ TakesGil(t)
    /\ Top(t).event # Nil /\ event[Top(t).event].valid
    /\ event' = [event EXCEPT ![Top(t).event].kept = "current"]
    /\ gil' = t
    /\ UNCHANGED <<stack, error, lock, objectVars>>

\* A wrapper that nothing holds is deallocated.
Collected(ev, e, holders) ==
    IF e # Nil /\ ev[e].kept # "current" /\ holders = {}
    THEN [ev EXCEPT ![e].valid = FALSE] ELSE ev

Forget(t) ==
    /\ Running(t, "python") /\ TakesGil(t)
    /\ \E e \in Event :
       /\ event[e].kept # "no"
       /\ event' = Collected([event EXCEPT ![e].kept = "no"], e, Holders(e))
    /\ gil' = t
    /\ UNCHANGED <<stack, error, lock, objectVars>>

\* An override returns a value, None for one of the wrong type, or raises.
PythonReturn(t) ==
    /\ Running(t, "python") /\ Below(t) # <<>> /\ TakesGil(t)
    /\ LET m == Top(t).method
           e == Top(t).event
           mayFail == (e # Nil /\ event[e].kept = "current") => "keep-and-fail" \in Tags
       IN
       \/ \E value \in Value \cup {NoValue} :
          /\ IsConvertible(Param[m], value) \/ (value = NoValue /\ mayFail)
          /\ stack' = ReturnsToVirtual(t, value)
          /\ UNCHANGED error
       \/ /\ mayFail
          /\ stack' = ReturnsToVirtual(t, RaisedValue)
          /\ error' = [error EXCEPT ![t] = TRUE]
    /\ gil' = t
    /\ UNCHANGED <<lock, objectVars, event>>

-----------------------------------------------------------------------------
(* A function of the binding.                                              *)

\* Mutant: the class is not named in the call.
CalleeUnqualified(o, m) == IF o \in Shell THEN Frame("virtual", o, m) ELSE CppFrame(o, m)

\* The C++ code that a function calls: of the class for the instance of a
\* shell, whatever the vtable says for another (which is no shell either).
Callee(o, m) == CppFrame(o, m)

\* The wrapper of an event that Python code may pass.
Passable(f) == {e \in Event : e = f.event \/ event[e].kept # "no"}

\* Object::isValid of an event's wrapper, which no Python class derives from.
IsValid(e) == event[e].valid

\* The wrapper kept may be of an event that was there before.
PassedValid(f, e) ==
    e = Nil \/ (IsValid(e) /\ (e = f.event \/ event[e].kept = "current"))

\* The event is that of a call in progress in the thread.
Given(t, e) == \E f \in Frames(t) : f.temp = e

\* Python calls a method: the decisor, the checks of arguments that they are
\* valid, their conversion and, when no error is pending, the C++ method,
\* unless it is pure and the instance is a shell's; the GIL is given up.
BindingCall(t) ==
    /\ Running(t, "python") /\ TakesGil(t) /\ Top(t).left > 0 /\ Roomy(t)
    /\ \E o \in Obj, m \in Method, value \in Value :
       \E e \in IF m \in TakesEvent THEN Passable(Top(t)) ELSE {Nil} :
       LET caller == Caller(t)
           binding == Frame("binding", o, m)
           rejected == /\ stack' = Calls(t, <<binding>>, caller)
                       /\ error' = [error EXCEPT ![t] = TRUE]
                       /\ gil' = t
       IN
       /\ wrapper[o] = "alive"
       /\ PassedValid(Top(t), e) => e = Nil \/ Given(t, e) \/ "share-event" \in Tags
       /\ IF \/ ~IsConvertible(Param[m], value) \/ ~PassedValid(Top(t), e)
             \/ m \in Abstract /\ o \in Shell
          THEN rejected
          ELSE \E c \in ToCpp(Param[m], value) :
               IF c.error THEN rejected
               ELSE /\ stack' = Calls(t, <<[Callee(o, m) EXCEPT
                                              !.items = c.items, !.meant = ValuesOf(value),
                                              !.event = e], binding>>, caller)
                    /\ gil' = Nil
                    /\ UNCHANGED error
    /\ UNCHANGED <<lock, objectVars, event>>

\* What the function returns when no error is pending.
Result(f) == ToPython(Param[f.method], f.items)

\* The C++ method is back, or an error kept it from being called: the GIL is
\* taken, the result converted (Result), and an error that is pending raised.
BindingReturn(t) ==
    /\ Running(t, "binding") /\ TakesGil(t)
    /\ stack' = ReturnsToPython(t)
    /\ error' = [error EXCEPT ![t] = FALSE]
    /\ gil' = t
    /\ UNCHANGED <<lock, objectVars, event>>

-----------------------------------------------------------------------------
(* C++ code.                                                               *)

WorkerStart(t) ==
    /\ t \in Worker /\ stack[t] = <<>>
    /\ \E pc \in {"start", "locks"} :
       stack' = [stack EXCEPT ![t] = <<[Frame("cpp", Nil, Nil) EXCEPT !.pc = pc]>>]
    /\ UNCHANGED <<gil, error, lock, objectVars, event>>

CppLock(t) ==
    /\ Running(t, "cpp") /\ Top(t).pc = "locks" /\ lock \in {t, Nil}
    /\ lock' = t
    /\ stack' = Replaced(t, [Top(t) EXCEPT !.pc = "locked"])
    /\ UNCHANGED <<gil, error, objectVars, event>>

\* C++ code calls a virtual method of a shell, with the event it has or with
\* one that lives as long as the call.
CppCall(t) ==
    /\ Running(t, "cpp") /\ Top(t).pc # "locks" /\ Top(t).left > 0 /\ Roomy(t)
    /\ \E o \in Shell, m \in Method :
       \E e \in IF m \in TakesEvent
                THEN {x \in Event : x = Top(t).event \/ ~event[x].live} ELSE {Nil} :
       LET caller == Caller(t)
           new == e # Nil /\ e # Top(t).event
       IN
       /\ instance[o] = "alive"
       /\ stack' = Calls(t, <<[Frame("virtual", o, m) EXCEPT
                                  !.items = caller.items, !.meant = caller.meant, !.event = e,
                                  !.temp = IF new THEN e ELSE Nil]>>, caller)
       /\ event' = IF new THEN [event EXCEPT ![e].live = TRUE] ELSE event
    /\ UNCHANGED <<gil, error, lock, objectVars>>

LocksBelow(t) == \E i \in DOMAIN Below(t) : Below(t)[i].pc = "locked"

\* Mutant: the lock is given back by the call that did not take it.
CppReturnUnlocks(t) ==
    /\ Running(t, "cpp") /\ Top(t).pc # "locks"
    /\ stack' = ReturnsToCpp(t, Top(t).items, Top(t).meant)
    /\ lock' = IF Top(t).pc = "locked" THEN Nil ELSE lock
    /\ UNCHANGED <<gil, error, objectVars, event>>

CppReturn(t) ==
    /\ Running(t, "cpp") /\ Top(t).pc # "locks"
    /\ stack' = ReturnsToCpp(t, Top(t).items, Top(t).meant)
    /\ lock' = IF Top(t).pc = "locked" /\ ~LocksBelow(t) THEN Nil ELSE lock
    /\ UNCHANGED <<gil, error, objectVars, event>>

-----------------------------------------------------------------------------
(* The virtual methods of a shell.                                         *)

\* minimalConstructor of the type.
Default == <<0>>

\* The event that the caller made ends with the call.
Ended(ev, f) == IF f.temp = Nil THEN ev ELSE [ev EXCEPT ![f.temp].live = FALSE]

\* ~GilState: the GIL is given back if the thread had it before; the state of
\* a thread that Python did not start ends with its first GilState, and the
\* error with it.  A virtual method that calls that of the class has released its.
GivesBack(t, had) == gil' = IF had THEN t ELSE Nil
ErrorAfter(t, pending) ==
    [error EXCEPT ![t] = pending /\ (t \in Python \/ \E i \in DOMAIN Below(t) : Below(t)[i].pc = "override")]

\* The GIL is taken.  With an error pending nothing is called.
VirtualSkipped(t) ==
    /\ Running(t, "virtual") /\ Top(t).pc = "start" /\ TakesGil(t) /\ error[t]
    /\ stack' = ReturnsToCpp(t, Default, Default)
    /\ event' = Ended(event, Top(t))
    /\ GivesBack(t, gil = t)
    /\ UNCHANGED <<error, lock, objectVars>>

\* Without an override a pure method is an error.
VirtualPure(t) ==
    /\ Running(t, "virtual") /\ Top(t).pc = "start" /\ TakesGil(t) /\ ~error[t]
    /\ ~GetOverride(Top(t).obj, Top(t).method) /\ Top(t).method \in Abstract
    /\ stack' = ReturnsToCpp(t, Default, Default)
    /\ error' = ErrorAfter(t, TRUE)
    /\ event' = Ended(event, Top(t))
    /\ GivesBack(t, gil = t)
    /\ UNCHANGED <<lock, objectVars>>

\* gil.release(), and the method of the C++ class.
BaseCalled(t) ==
    LET f == Top(t) IN
    Calls(t, <<[CppFrame(f.obj, f.method) EXCEPT
                   !.items = f.items, !.meant = f.meant, !.event = f.event]>>,
          [f EXCEPT !.pc = "base", !.had = gil = t])

VirtualBase(t) ==
    /\ Running(t, "virtual") /\ Top(t).pc = "start" /\ TakesGil(t) /\ ~error[t]
    /\ ~GetOverride(Top(t).obj, Top(t).method) /\ Top(t).method \notin Abstract
    /\ stack' = BaseCalled(t)
    /\ GivesBack(t, gil = t)
    /\ UNCHANGED <<error, lock, objectVars, event>>

\* An argument is invalidated after use when its wrapper was made for the call.
InvalidateArg(e) == e # Nil /\ event[e].kept # "current" /\ Holders(e) = {}

\* An override is called with the arguments converted: an event that has a
\* wrapper gets that one, another a new one.
VirtualOverride(t) ==
    /\ Running(t, "virtual") /\ Top(t).pc = "start" /\ TakesGil(t) /\ ~error[t]
    /\ GetOverride(Top(t).obj, Top(t).method)
    /\ LET f == Top(t) IN
       /\ stack' = Calls(t, <<[Frame("python", Bound(f.obj, f.method), f.method) EXCEPT
                                  !.event = f.event]>>,
                         [f EXCEPT !.pc = "override", !.had = gil = t,
                                   !.reset = InvalidateArg(f.event)])
       /\ event' = IF f.event = Nil THEN event
                   ELSE [event EXCEPT ![f.event].valid = TRUE]
    /\ gil' = t
    /\ UNCHANGED <<error, lock, objectVars>>

\* Object::invalidate of the argument; the one kept no longer is the wrapper
\* of an event.
Invalidated(e) ==
    [event EXCEPT ![e].valid = FALSE,
                  ![e].kept = IF @ = "current" THEN "stale" ELSE @]

\* Mutant: the argument is invalidated when its wrapper is not kept.
ResetUnkept(f) == f.event # Nil /\ event[f.event].kept # "current"
Resets(f) == f.reset

\* The override failed or returned another type: PyErr_Print or a warning, and
\* the default value.  Its arguments are released as they are.
OverrideFailed(t) ==
    /\ Running(t, "virtual") /\ Top(t).pc = "override" /\ TakesGil(t)
    /\ ~IsConvertible(Param[Top(t).method], Top(t).out)
    /\ stack' = ReturnsToCpp(t, Default, Default)
    /\ error' = ErrorAfter(t, FALSE)
    /\ event' = Ended(Collected(event, Top(t).event, Holders(Top(t).event) \ {<<t, 1>>}), Top(t))
    /\ GivesBack(t, Top(t).had)
    /\ UNCHANGED <<lock, objectVars>>

\* The value returned is converted, which may leave an error pending.
OverrideReturned(t) ==
    /\ Running(t, "virtual") /\ Top(t).pc = "override" /\ TakesGil(t)
    /\ IsConvertible(Param[Top(t).method], Top(t).out)
    /\ LET f == Top(t)
           after == IF Resets(f) THEN Invalidated(f.event) ELSE event
       IN
       /\ \E c \in ToCpp(Param[f.method], f.out) :
          /\ stack' = ReturnsToCpp(t, c.items, ValuesOf(f.out))
          /\ error' = ErrorAfter(t, c.error)
       /\ event' = Ended(Collected(after, f.event, Holders(f.event) \ {<<t, 1>>}), f)
    /\ GivesBack(t, Top(t).had)
    /\ UNCHANGED <<lock, objectVars>>

\* The method of the class is back; the GIL was given up before.
VirtualBaseReturn(t) ==
    /\ Running(t, "virtual") /\ Top(t).pc = "base"
    /\ stack' = ReturnsToCpp(t, Top(t).items, Top(t).meant)
    /\ event' = Ended(event, Top(t))
    /\ UNCHANGED <<gil, error, lock, objectVars>>

-----------------------------------------------------------------------------
(* A wrapper dies (SbkDeallocWrapper).                                     *)

\* The main program gives up an object that no call uses; deallocData first
\* releases what it refers to, and the GIL is given up for a destructor of that.
Drop(t) ==
    /\ Running(t, "python") /\ Below(t) = <<>> /\ TakesGil(t)
    /\ \E o \in Owned :
       /\ wrapper[o] = "alive" /\ \A u \in Thread : ~Uses(u, o)
       /\ wrapper' = [wrapper EXCEPT ![o] = "dying"]
       /\ stack' = Calls(t, <<Frame("dealloc", o, Nil)>>, Top(t))
    /\ gil' = Nil
    /\ UNCHANGED <<error, lock, instance, dict, event>>

\* Mutant: the destructor runs with the GIL.
DeallocHoldingGil(t) ==
    /\ Running(t, "dealloc") /\ Top(t).pc = "start" /\ TakesGil(t)
    /\ wrapper' = [wrapper EXCEPT ![Top(t).obj] = "gone"]
    /\ instance' = [instance EXCEPT ![Top(t).obj] = "doomed"]
    /\ stack' = Replaced(t, [Top(t) EXCEPT !.pc = "dtor"])
    /\ gil' = t
    /\ UNCHANGED <<error, lock, dict, event>>

\* The rest of deallocData, and ThreadStateSaver::save.
Dealloc(t) ==
    /\ Running(t, "dealloc") /\ Top(t).pc = "start" /\ TakesGil(t)
    /\ wrapper' = [wrapper EXCEPT ![Top(t).obj] = "gone"]
    /\ instance' = [instance EXCEPT ![Top(t).obj] = "doomed"]
    /\ stack' = Replaced(t, [Top(t) EXCEPT !.pc = "dtor"])
    /\ gil' = Nil
    /\ UNCHANGED <<error, lock, dict, event>>

\* A destructor waits for the calls that other threads have in progress.
CppDtor(t) ==
    /\ Running(t, "dealloc") /\ Top(t).pc = "dtor"
    /\ \A u \in Thread \ {t} : ~Uses(u, Top(t).obj)
    /\ instance' = [instance EXCEPT ![Top(t).obj] = "gone"]
    /\ stack' = Replaced(t, [Top(t) EXCEPT !.pc = "end"])
    /\ UNCHANGED <<gil, error, lock, wrapper, dict, event>>

DeallocEnd(t) ==
    /\ Running(t, "dealloc") /\ Top(t).pc = "end" /\ TakesGil(t)
    /\ stack' = [stack EXCEPT ![t] = Below(t)]
    /\ dict' = {p \in dict : p[1] # Top(t).obj}
    /\ gil' = t
    /\ UNCHANGED <<error, lock, wrapper, instance, event>>

-----------------------------------------------------------------------------

Init ==
    /\ stack = [t \in Thread |-> IF t \in Python THEN <<Frame("python", Nil, Nil)>> ELSE <<>>]
    /\ gil = Nil
    /\ error = [t \in Thread |-> FALSE]
    /\ lock = Nil
    /\ wrapper = [o \in Obj |-> "alive"]
    /\ instance = [o \in Obj |-> "alive"]
    /\ dict = {}
    /\ event = [e \in Event |-> [live |-> FALSE, valid |-> FALSE, kept |-> "no"]]

\* What a thread does before its calls in progress end.
Progress(t) ==
    \/ PythonReturn(t) \/ BindingReturn(t) \/ CppLock(t) \/ CppReturn(t)
    \/ VirtualSkipped(t) \/ VirtualPure(t) \/ VirtualBase(t) \/ VirtualOverride(t)
    \/ OverrideFailed(t) \/ OverrideReturned(t) \/ VirtualBaseReturn(t)
    \/ Dealloc(t) \/ CppDtor(t) \/ DeallocEnd(t)

Next == \E t \in Thread :
    \/ Progress(t)
    \/ Assign(t) \/ Keep(t) \/ Forget(t)
    \/ BindingCall(t) \/ Drop(t)
    \/ WorkerStart(t) \/ CppCall(t)

Spec == Init /\ [][Next]_callVars

\* The operating system runs every thread, the GIL and the lock are given again
\* and again to each of those that wait for them, and functions return.
FairSpec == Spec /\ \A t \in Thread : SF_callVars(Progress(t))

-----------------------------------------------------------------------------
(* Properties.                                                             *)

\* Calls in progress are those of a thread of this program, and the thread that
\* has the lock is the one with a call that took it: C++ code that calls back
\* into itself through Python unlocks when the outer call ends.
TypeOK ==
    /\ stack \in [Thread -> Seq(FrameType)]
    /\ \A t \in Thread :
       /\ Len(stack[t]) <= MaxDepth[t]
       /\ lock = t <=> \E f \in Frames(t) : f.pc = "locked"
    /\ gil \in Thread \cup {Nil} /\ lock \in Thread \cup {Nil}
    /\ error \in [Thread -> BOOLEAN]
    /\ wrapper \in [Obj -> {"alive", "dying", "gone"}]
    /\ instance \in [Obj -> {"alive", "doomed", "gone"}]
    /\ dict \subseteq Punched
    /\ event \in [Event -> [live : BOOLEAN, valid : BOOLEAN, kept : {"no", "current", "stale"}]]

\* Python code never runs with an error of an earlier call pending, which would
\* be raised at an unrelated place or hide one of its own, whatever sequence of
\* calls C++ makes after the first failed; and an override never runs for an
\* object that is dying or freed (PyErr_Occurred at cppgenerator.cpp:669 and
\* 1481, the count in bindingmanager.cpp:236).
PythonRunsSafely ==
    \A t \in Thread :
        /\ Running(t, "python") => ~error[t]
        /\ \A f \in Frames(t) : f.in = "python" /\ f.obj # Nil => wrapper[f.obj] = "alive"

\* A virtual call from C++ lands where the same call in Python does: in the
\* Python class when that is the first to define the method, inherited or mixed
\* in, and in the C++ class otherwise; a call of the binding lands in the C++
\* class, so that an override that calls the method it overrides does not call
\* itself (getOverride, and the qualified call at cppgenerator.cpp:2200).
CallsLandWhereNamed ==
    \A t \in Thread : \A i \in 2..Len(stack[t]) :
        LET f == stack[t][i]
            callee == stack[t][i - 1]
        IN
        /\ f.in = "binding" => callee.in = "cpp" /\ callee.obj = f.obj /\ callee.method = f.method
        /\ f.in = "virtual" /\ f.pc = "base" /\ wrapper[f.obj] = "alive" =>
               Mro[f.obj][FirstDefiner(f.obj, f.method)] \notin PyClass
        /\ f.in = "virtual" /\ f.pc = "override" /\ callee.obj # Nil =>
               Mro[f.obj][FirstDefiner(f.obj, f.method)] \in PyClass

\* A wrapper that Python can use is never of an event that has ended, even when
\* Python kept it and the address is used again, and is not taken from an
\* override that still has it by a nested call with the same event (lines
\* 763-767 and 841-845).
EventsInvalidated ==
    /\ \A e \in Event : event[e].valid => event[e].live
    /\ \A t \in Thread : \A f \in Frames(t) :
           f.in = "python" /\ f.event # Nil => event[f.event].valid

\* What Python code passes or returns arrives as it was meant, through any
\* number of calls between Python and C++, or an error is pending that the
\* next function of the binding raises: no number changes on the way without
\* a Python exception.
ValuesSurvive ==
    \A t \in Python : \A f \in Frames(t) :
        /\ f.in \in {"cpp", "virtual"} /\ ~error[t] => f.items = f.meant
        /\ f.in = "binding" /\ ~error[t] => ValuesOf(Result(f)) = f.meant

\* Calls end: Python threads and threads of the library do not wait for each
\* other, with the GIL, a lock and a destructor that waits for calls.
CallsEnd ==
    \A t \in Thread :
        Len(stack[t]) > (IF t \in Python THEN 1 ELSE 0)
            ~> Len(stack[t]) = (IF t \in Python THEN 1 ELSE 0)
=============================================================================
