--------------------------- MODULE ObjectLifetime ---------------------------
(***************************************************************************)
(* The life of Shiboken's wrapper objects (libshiboken/basewrapper.cpp),   *)
(* of the C++ instances they wrap and of the address -> wrapper map        *)
(* (libshiboken/bindingmanager.cpp).                                       *)
(*                                                                         *)
(* The runtime is a set of C++ functions that call each other through      *)
(* reference counts: Py_DECREF may deallocate, deallocating may run a C++  *)
(* destructor without the GIL, the destructor of a shell class calls back  *)
(* into the runtime.  Each thread therefore has a stack of the calls in    *)
(* progress, top first, and every step of a call is one action: it pops    *)
(* the top frame, changes the heap and pushes the calls that come next.    *)
(* A call of the binding (a method wrapper) starts on an empty stack.      *)
(***************************************************************************)
EXTENDS Integers, FiniteSets, Sequences

CONSTANTS
    Thread,        \* threads that run Python code or delete C++ objects
    Obj,           \* addresses of wrapper objects (SbkObject)
    Ptr,           \* addresses of C++ instances
    Keys,          \* names under which a binding keeps references
    None,          \* the NULL pointer
    Polymorphic,   \* addresses whose objects are of a class with a C++ shell
    ValueType,     \* addresses whose objects are of a value type
    MayParent,     \* <<parent, child>>: parent relations the program makes
    MayRefer,      \* <<holder, referred>>: references the program keeps
    Tags,          \* the type system tags the binding's functions carry
    MaxExt,        \* bound: references Python holds to one wrapper
    MaxCount,      \* bound: reference count above which no call starts
    MaxDepth       \* bound: calls in progress in one thread (the C++ stack)

\* What the functions of the binding do with the objects they handle: parent
\* and define-ownership tags (to C++, to Python, to C++ without a virtual
\* destructor), reference-count set and add, values and pointers returned.
\* "lists": arguments may come inside a sequence, whose items are not checked.
\* "reuse": the C++ allocator hands out addresses that stale wrappers hold.
\* "racy": a thread uses an instance while another one destroys it, or the
\* references that it keeps while another one replaces them.
AllTags == {"parent", "release", "own", "invalidate", "keep", "append",
            "return-copy", "return-pointer", "lists", "cpp-delete", "gc", "reuse",
            "racy"}

ASSUME ConstantsAssumption ==
    /\ None \notin Obj \cup Ptr \cup Thread
    /\ Polymorphic \subseteq Obj /\ ValueType \subseteq Obj
    /\ MayParent \subseteq Obj \X Obj /\ MayRefer \subseteq Obj \X Obj
    /\ Tags \subseteq AllTags
    /\ MaxExt \in Nat /\ MaxCount \in Nat /\ MaxDepth \in Nat

VARIABLES
    heap,    \* the wrapper at each address: SbkObject with its SbkObjectPrivate
    cpp,     \* the C++ instance at each address
    owner,   \* the C++ instance that deletes it with itself, or None
    wmap,    \* BindingManagerPrivate::wrapperMapper
    stack,   \* per thread, the calls in progress, top first
    gil,     \* the thread that holds the GIL, or None
    fault    \* the first undefined behaviour met, or "none"

vars == <<heap, cpp, owner, wmap, stack, gil, fault>>

-----------------------------------------------------------------------------
(* Types.                                                                  *)

\* st: "alive" from tp_new until the count reaches 0, then "dying" until
\* tp_free.  ext counts the references Python code holds (part of rc).
\* pinfo: parentInfo is allocated; parent, kids and wref (hasWrapperRef) are
\* its fields.  refs is referredObjects.  cptr is None once the array is freed.
Wrapper ==
    [st : {"free", "alive", "dying"}, rc : Int, ext : Nat, own : BOOLEAN,
     shell : BOOLEAN, valid : BOOLEAN, pinfo : BOOLEAN,
     parent : Obj \cup {None}, kids : SUBSET Obj, wref : BOOLEAN,
     refs : [Keys -> SUBSET Obj], cptr : Ptr \cup {None}]

NoRefs == [k \in Keys |-> {}]

Blank == [st |-> "free", rc |-> 0, ext |-> 0, own |-> FALSE, shell |-> FALSE,
          valid |-> FALSE, pinfo |-> FALSE, parent |-> None, kids |-> {},
          wref |-> FALSE, refs |-> NoRefs, cptr |-> None]

\* "native": an instance of the wrapped class; "shell": of the generated
\* class derived from it; "dying": its destructor runs.
CppState == {"none", "native", "shell", "dying"}

\* A call in progress.  Each kind of frame uses the fields it needs.
Frame ==
    [fn : {"dealloc", "destroyParentInfo", "destroyChildren", "invalidate",
           "clearReferences", "free", "decref"}, o : Obj]
    \cup [fn : {"removeParent"}, o : Obj, give : BOOLEAN, keep : BOOLEAN]
    \cup [fn : {"invalidateChildren"}, o : Obj, copy : SUBSET Obj]
    \cup [fn : {"afterInvalidateChild"}, o : Obj, child : Obj]
    \cup [fn : {"invalidateReferred"}, o : Obj, keys : SUBSET Keys]
    \cup [fn : {"invalidateList"}, list : SUBSET Obj]
    \cup [fn : {"decRefList"}, list : SUBSET (Keys \X Obj)]
    \cup [fn : {"storeReferences"}, o : Obj, keys : SUBSET Keys, new : SUBSET Obj]
    \cup [fn : {"destroy"}, o : Obj \cup {None}, p : Ptr]
    \cup [fn : {"destroyBranch"}, o : Obj, p : Ptr]
    \cup [fn : {"removeExtraRef"}, o : Obj, hasParent : BOOLEAN]
    \cup [fn : {"forgetPointer"}, o : Obj, p : Ptr]
    \cup [fn : {"cppDtor", "cppDtorBody"}, p : Ptr]

Faults == {"none", "use-after-free", "over-release", "null-dereference",
           "double-delete", "stack-overflow"}

TypeOK ==
    /\ heap \in [Obj -> Wrapper]
    /\ cpp \in [Ptr -> CppState]
    /\ owner \in [Ptr -> Ptr \cup {None}]
    /\ wmap \in [Ptr -> Obj \cup {None}]
    /\ stack \in [Thread -> Seq(Frame)]
    /\ gil \in Thread \cup {None}
    /\ fault \in Faults

-----------------------------------------------------------------------------
(* Frames.                                                                 *)

Call(fn, o) == [fn |-> fn, o |-> o]
RemoveParentCall(o, give, keep) ==
    [fn |-> "removeParent", o |-> o, give |-> give, keep |-> keep]
DtorCall(p) == [fn |-> "cppDtor", p |-> p]

\* Destructors run without the GIL; everything else needs it.
NeedsGil(f) == f.fn \notin {"cppDtor", "cppDtorBody"}

-----------------------------------------------------------------------------
(* The heap.                                                               *)

Alive(o) == heap[o].st # "free"
IncRef(h, o) == [h EXCEPT ![o].rc = @ + 1]

\* Py_DECREF: at 0 the type's tp_dealloc is called at once.
Counted(w, n) == [w EXCEPT !.rc = n, !.st = IF n = 0 THEN "dying" ELSE w.st]
DecRef(h, o) == [h EXCEPT ![o] = Counted(@, @.rc - 1)]
DecRefCalls(h, o) == IF h[o].rc = 1 THEN <<Call("dealloc", o)>> ELSE <<>>

Alone(w) == [w EXCEPT !.pinfo = FALSE, !.parent = None, !.kids = {}, !.wref = FALSE]
DeleteParentInfo(h, o) == [h EXCEPT ![o] = Alone(@)]

HasParent(h, o) == h[o].pinfo /\ h[o].parent # None

-----------------------------------------------------------------------------
(* Object::removeParent.  Four ways out: the child has no parent (its      *)
(* ParentInfo is deleted if it holds the wrapper reference), it is not in  *)
(* the parent's list, its reference is kept for the C++ destructor to      *)
(* drop, or ownership changes and the parent's reference is dropped.       *)

\* Mutant: the child is not taken off its parent's list.
OrphanedStillListed(h, c) == [h EXCEPT ![c].parent = None]

Orphaned(h, c) == [h EXCEPT ![h[c].parent].kids = @ \ {c}, ![c].parent = None]
Listed(h, c) == c \in h[h[c].parent].kids
KeepsReference(h, c, keep) == keep /\ h[c].shell

GivenBack(h, c, give) ==
    LET g == [Orphaned(h, c) EXCEPT ![c].own = give]
    IN  IF g[c].kids = {} THEN DeleteParentInfo(g, c) ELSE g

\* removeParent drops a reference to the child: the heap before that.
BeforeDecRef(h, c, give, keep) ==
    IF KeepsReference(h, c, keep) THEN Orphaned(h, c) ELSE GivenBack(h, c, give)

DropsReference(h, c, keep) ==
    /\ HasParent(h, c) /\ Listed(h, c)
    /\ KeepsReference(h, c, keep) => h[c].wref

Unparent(h, c, give, keep) ==
    IF ~HasParent(h, c)
      THEN IF h[c].pinfo /\ h[c].wref THEN DeleteParentInfo(h, c) ELSE h
      ELSE IF ~Listed(h, c) THEN h
      ELSE IF DropsReference(h, c, keep)
        THEN DecRef(BeforeDecRef(h, c, give, keep), c)
        ELSE [Orphaned(h, c) EXCEPT ![c].wref = TRUE]

UnparentCalls(h, c, keep) ==
    IF DropsReference(h, c, keep) THEN DecRefCalls(h, c) ELSE <<>>

\* The pointers removeParent follows: the child and its parent's ParentInfo.
UnparentFault(h, c) ==
    IF h[c].st = "free" THEN "use-after-free"
    ELSE IF HasParent(h, c) /\ h[h[c].parent].st = "free" THEN "use-after-free"
    ELSE IF HasParent(h, c) /\ ~h[h[c].parent].pinfo THEN "null-dereference"
    ELSE "none"

-----------------------------------------------------------------------------
(* The wrapper map: the wrapper already at an address stays there, and a   *)
(* release clears the address whatever wrapper it leads to.                *)

Assign(w, o, p) == IF w[p] = None THEN [w EXCEPT ![p] = o] ELSE w
Release(w, h, o) == [p \in Ptr |-> IF p = h[o].cptr THEN None ELSE w[p]]

-----------------------------------------------------------------------------
(* Running the calls in progress.                                          *)

Top(t) == Head(stack[t])

\* The undefined behaviour that running a call would be.
DecRefFault(o) ==
    IF ~Alive(o) THEN "use-after-free"
    ELSE IF heap[o].rc <= 0 THEN "over-release" ELSE "none"

FreedFault(o) == IF Alive(o) THEN "none" ELSE "use-after-free"

FaultOf(f) ==
    CASE f.fn = "removeParent" -> UnparentFault(heap, f.o)
      [] f.fn = "dealloc" ->
            IF heap[f.o].own /\ heap[f.o].valid /\ heap[f.o].cptr = None
            THEN "null-dereference" ELSE "none"
      [] f.fn = "destroyChildren" ->
            IF heap[f.o].pinfo THEN "none" ELSE "use-after-free"
      [] f.fn = "invalidate" ->
            IF Alive(f.o) /\ ~heap[f.o].shell /\ heap[f.o].cptr = None
            THEN "null-dereference" ELSE FreedFault(f.o)
      [] f.fn = "decref" -> DecRefFault(f.o)
      [] f.fn = "removeExtraRef" ->
            IF f.hasParent THEN "none"
            ELSE IF Alive(f.o) /\ (~heap[f.o].shell \/ heap[f.o].own)
            THEN "none" ELSE DecRefFault(f.o)
      [] f.fn = "forgetPointer" ->
            IF wmap[f.p] = None THEN "none"
            ELSE IF Alive(f.o) /\ heap[f.o].cptr = None
            THEN "null-dereference" ELSE FreedFault(f.o)
      [] f.fn = "cppDtor" ->
            IF cpp[f.p] \in {"native", "shell"} THEN "none" ELSE "double-delete"
      [] f.fn \in {"destroyParentInfo", "afterInvalidateChild", "invalidateReferred",
                   "clearReferences", "storeReferences", "destroyBranch", "free"} ->
            FreedFault(f.o)
      [] f.fn = "destroy" -> IF f.o = None THEN "none" ELSE FreedFault(f.o)
      [] OTHER -> "none"

Ready(t) ==
    /\ fault = "none"
    /\ stack[t] # <<>>
    /\ NeedsGil(Top(t)) => gil \in {t, None}

Running(t, fn) == Ready(t) /\ Top(t).fn = fn /\ FaultOf(Top(t)) = "none"

\* Mutant: a GilState that does not give the GIL back.
ContinueHoldingGil(t, calls) ==
    LET s == calls \o Tail(stack[t]) IN
    /\ stack' = [stack EXCEPT ![t] = s]
    /\ gil' = IF NeedsGil(Top(t)) THEN t ELSE gil
    /\ fault' = IF Len(s) > MaxDepth THEN "stack-overflow" ELSE fault

\* The top call returns, after the calls it makes.  A thread keeps the GIL
\* until its next call runs without it or it has no call left.
Continue(t, calls) ==
    LET s == calls \o Tail(stack[t]) IN
    /\ stack' = [stack EXCEPT ![t] = s]
    /\ gil' = IF NeedsGil(Top(t))
              THEN IF s # <<>> /\ NeedsGil(Head(s)) THEN t ELSE None
              ELSE gil
    /\ fault' = IF Len(s) > MaxDepth THEN "stack-overflow" ELSE fault

Return(t) == Continue(t, <<>>)

\* The program has undefined behaviour: the model stops here.
Crash(t) ==
    /\ Ready(t) /\ FaultOf(Top(t)) # "none"
    /\ fault' = FaultOf(Top(t))
    /\ UNCHANGED <<heap, cpp, owner, wmap, stack, gil>>

-----------------------------------------------------------------------------
(* tp_dealloc, Object::deallocData and SbkObject_clear.                    *)

CleanupCalls(o) ==
    <<RemoveParentCall(o, TRUE, FALSE), Call("destroyParentInfo", o),
      Call("clearReferences", o)>>

\* Mutant: the C++ instance is forgotten.
DeallocWithoutDtor(t) ==
    /\ Running(t, "dealloc")
    /\ Continue(t, CleanupCalls(Top(t).o) \o <<Call("free", Top(t).o)>>)
    /\ UNCHANGED <<heap, cpp, owner, wmap>>

\* SbkDeallocWrapper: whether to delete the C++ instance is decided first,
\* the destructor runs when the wrapper is gone.
Dealloc(t) ==
    /\ Running(t, "dealloc")
    /\ LET o == Top(t).o
           dtor == IF heap[o].own /\ heap[o].valid
                   THEN <<DtorCall(heap[o].cptr)>> ELSE <<>>
       IN  Continue(t, CleanupCalls(o) \o <<Call("free", o)>> \o dtor)
    /\ UNCHANGED <<heap, cpp, owner, wmap>>

\* Mutant: the address stays registered.
FreeStillRegistered(t) ==
    /\ Running(t, "free")
    /\ heap' = [heap EXCEPT ![Top(t).o] = Blank]
    /\ Return(t)
    /\ UNCHANGED <<cpp, owner, wmap>>

\* The end of deallocData: unregister, delete the private data, tp_free.
Free(t) ==
    /\ Running(t, "free")
    /\ wmap' = Release(wmap, heap, Top(t).o)
    /\ heap' = [heap EXCEPT ![Top(t).o] = Blank]
    /\ Return(t)
    /\ UNCHANGED <<cpp, owner>>

DecRefStep(t) ==
    /\ Running(t, "decref")
    /\ heap' = DecRef(heap, Top(t).o)
    /\ Continue(t, DecRefCalls(heap, Top(t).o))
    /\ UNCHANGED <<cpp, owner, wmap>>

RemoveParent(t) ==
    /\ Running(t, "removeParent")
    /\ LET f == Top(t) IN
       /\ heap' = Unparent(heap, f.o, f.give, f.keep)
       /\ Continue(t, UnparentCalls(heap, f.o, f.keep))
    /\ UNCHANGED <<cpp, owner, wmap>>

-----------------------------------------------------------------------------
(* _destroyParentInfo(obj, true), called when obj->d->parentInfo is set:   *)
(* a loop over the children, on a ParentInfo pointer read before the loop. *)

DestroyParentInfo(t) ==
    /\ Running(t, "destroyParentInfo")
    /\ LET o == Top(t).o IN
       IF heap[o].pinfo THEN Continue(t, <<Call("destroyChildren", o)>>) ELSE Return(t)
    /\ UNCHANGED <<heap, cpp, owner, wmap>>

\* Mutant: the children leave without having been invalidated.
ChildrenStayValid(t) ==
    /\ Running(t, "destroyChildren")
    /\ LET o == Top(t).o IN
       \/ /\ heap[o].kids = {}
          /\ Continue(t, <<RemoveParentCall(o, FALSE, FALSE)>>)
       \/ \E k \in heap[o].kids :
              Continue(t, <<RemoveParentCall(k, FALSE, TRUE), Call("destroyChildren", o)>>)
    /\ UNCHANGED <<heap, cpp, owner, wmap>>

DestroyChildren(t) ==
    /\ Running(t, "destroyChildren")
    /\ LET o == Top(t).o IN
       \/ /\ heap[o].kids = {}
          /\ Continue(t, <<RemoveParentCall(o, FALSE, FALSE)>>)
       \/ \E k \in heap[o].kids :
              Continue(t, <<Call("invalidate", k), RemoveParentCall(k, FALSE, TRUE),
                            Call("destroyChildren", o)>>)
    /\ UNCHANGED <<heap, cpp, owner, wmap>>

-----------------------------------------------------------------------------
(* Object::invalidate: the object itself unless it has a shell, then the   *)
(* children (on a copy of the list), then everything it refers to.         *)

\* Mutant: the object is unregistered but still marked valid.
InvalidateUnregisters(t) ==
    /\ Running(t, "invalidate")
    /\ wmap' = IF heap[Top(t).o].shell THEN wmap ELSE Release(wmap, heap, Top(t).o)
    /\ Return(t)
    /\ UNCHANGED <<heap, cpp, owner>>

Invalidate(t) ==
    /\ Running(t, "invalidate")
    /\ LET o == Top(t).o
           children == IF heap[o].kids = {} THEN <<>> ELSE
               <<[fn |-> "invalidateChildren", o |-> o, copy |-> heap[o].kids]>>
           referred == IF heap[o].refs = NoRefs THEN <<>> ELSE
               <<[fn |-> "invalidateReferred", o |-> o, keys |-> Keys]>>
       IN  /\ Continue(t, children \o referred)
           /\ IF heap[o].shell
                THEN UNCHANGED <<heap, wmap>>
                ELSE /\ wmap' = Release(wmap, heap, o)
                     /\ heap' = [heap EXCEPT ![o].valid = FALSE]
    /\ UNCHANGED <<cpp, owner>>

InvalidateChildren(t) ==
    /\ Running(t, "invalidateChildren")
    /\ LET f == Top(t) IN
       \/ f.copy = {} /\ Return(t)
       \/ \E k \in f.copy :
              Continue(t, <<Call("invalidate", k),
                            [fn |-> "afterInvalidateChild", o |-> f.o, child |-> k],
                            [f EXCEPT !.copy = @ \ {k}]>>)
    /\ UNCHANGED <<heap, cpp, owner, wmap>>

AfterInvalidateChild(t) ==
    /\ Running(t, "afterInvalidateChild")
    /\ LET f == Top(t) IN
       IF heap[f.o].valid THEN Return(t)
       ELSE Continue(t, <<RemoveParentCall(f.child, TRUE, TRUE)>>)
    /\ UNCHANGED <<heap, cpp, owner, wmap>>

InvalidateReferred(t) ==
    /\ Running(t, "invalidateReferred")
    /\ LET f == Top(t) IN
       \/ f.keys = {} /\ Return(t)
       \/ \E k \in f.keys :
              Continue(t, <<[fn |-> "invalidateList", list |-> heap[f.o].refs[k]],
                            [f EXCEPT !.keys = @ \ {k}]>>)
    /\ UNCHANGED <<heap, cpp, owner, wmap>>

InvalidateList(t) ==
    /\ Running(t, "invalidateList")
    /\ LET f == Top(t) IN
       \/ f.list = {} /\ Return(t)
       \/ \E r \in f.list :
              Continue(t, <<Call("invalidate", r), [f EXCEPT !.list = @ \ {r}]>>)
    /\ UNCHANGED <<heap, cpp, owner, wmap>>

-----------------------------------------------------------------------------
(* Object::makeValid calls nothing but itself: it marks the objects that   *)
(* can be reached from o through objects that are not valid.               *)

Linked(h, x) == h[x].kids \cup UNION {h[x].refs[k] : k \in Keys}

ClosedUnderRevival(h, S) ==
    \A x \in S : \A y \in Linked(h, x) : h[y].valid \/ y \in S

Revived(h, o) ==
    IF h[o].valid THEN {}
    ELSE {x \in Obj : \A S \in SUBSET Obj :
                          o \in S /\ ClosedUnderRevival(h, S) => x \in S}

MadeValid(h, o) ==
    [x \in Obj |-> [h[x] EXCEPT !.valid = @ \/ x \in Revived(h, o)]]

-----------------------------------------------------------------------------
(* References kept under a key: decRefPyObjectList and clearReferences.    *)
(* The map still holds the list while its objects are released.            *)

Kept(o, K) == UNION {{k} \X heap[o].refs[k] : k \in K}

ReleaseKeptCalls(o, K, new) ==
    <<[fn |-> "decRefList", list |-> Kept(o, K)],
      [fn |-> "storeReferences", o |-> o, keys |-> K, new |-> new]>>

ClearReferences(t) ==
    /\ Running(t, "clearReferences")
    /\ LET o == Top(t).o IN
       IF heap[o].refs = NoRefs THEN Return(t)
       ELSE Continue(t, ReleaseKeptCalls(o, Keys, {}))
    /\ UNCHANGED <<heap, cpp, owner, wmap>>

DecRefList(t) ==
    /\ Running(t, "decRefList")
    /\ LET f == Top(t) IN
       \/ f.list = {} /\ Return(t)
       \/ \E e \in f.list :
              Continue(t, <<Call("decref", e[2]), [f EXCEPT !.list = @ \ {e}]>>)
    /\ UNCHANGED <<heap, cpp, owner, wmap>>

StoreReferences(t) ==
    /\ Running(t, "storeReferences")
    /\ LET f == Top(t)
           h == [heap EXCEPT ![f.o].refs =
                     [k \in Keys |-> IF k \in f.keys THEN f.new ELSE @[k]]]
       IN  heap' = [x \in Obj |-> IF x \in f.new THEN [h[x] EXCEPT !.rc = @ + 1] ELSE h[x]]
    /\ Return(t)
    /\ UNCHANGED <<cpp, owner, wmap>>

-----------------------------------------------------------------------------
(* C++ destructors, and the destructor of a shell, which finds its wrapper *)
(* without the GIL and calls Object::destroy, which takes the GIL.         *)

CppDtor(t) ==
    /\ Running(t, "cppDtor")
    /\ LET p == Top(t).p
           body == [fn |-> "cppDtorBody", p |-> p]
       IN  /\ cpp' = [cpp EXCEPT ![p] = "dying"]
           /\ Continue(t, IF cpp[p] = "shell"
                          THEN <<[fn |-> "destroy", o |-> wmap[p], p |-> p], body>>
                          ELSE <<body>>)
    /\ UNCHANGED <<heap, owner, wmap>>

\* The destructor of the wrapped class deletes the children it has in C++,
\* then leaves its own parent.
CppDtorBody(t) ==
    /\ Running(t, "cppDtorBody")
    /\ LET p == Top(t).p IN
       \/ \E q \in Ptr : /\ owner[q] = p
                         /\ owner' = [owner EXCEPT ![q] = None]
                         /\ Continue(t, <<DtorCall(q), Top(t)>>)
                         /\ UNCHANGED cpp
       \/ /\ \A q \in Ptr : owner[q] # p
          /\ cpp' = [cpp EXCEPT ![p] = "none"]
          /\ owner' = [owner EXCEPT ![p] = None]
          /\ Return(t)
    /\ UNCHANGED <<heap, wmap>>

Destroy(t) ==
    /\ Running(t, "destroy")
    /\ LET f == Top(t) IN
       IF f.o = None THEN Return(t)
       ELSE Continue(t, <<Call("clearReferences", f.o), [f EXCEPT !.fn = "destroyBranch"]>>)
    /\ UNCHANGED <<heap, cpp, owner, wmap>>

\* Mutant: whether the object has a parent is read when it has none any more.
DestroyBranchReadLate(t) ==
    /\ Running(t, "destroyBranch")
    /\ LET f == Top(t) IN
       Continue(t, <<Call("destroyParentInfo", f.o),
                     [fn |-> "removeExtraRef", o |-> f.o, hasParent |-> FALSE],
                     [f EXCEPT !.fn = "forgetPointer"]>>)
    /\ UNCHANGED <<heap, cpp, owner, wmap>>

\* Whether the object has a parent is read before its family is dissolved.
DestroyBranch(t) ==
    /\ Running(t, "destroyBranch")
    /\ LET f == Top(t) IN
       Continue(t, <<Call("destroyParentInfo", f.o),
                     [fn |-> "removeExtraRef", o |-> f.o,
                      hasParent |-> HasParent(heap, f.o)],
                     [f EXCEPT !.fn = "forgetPointer"]>>)
    /\ UNCHANGED <<heap, cpp, owner, wmap>>

\* Mutant: the extra reference is never dropped.
ExtraRefNotRemoved(t) ==
    /\ Running(t, "removeExtraRef")
    /\ Return(t)
    /\ UNCHANGED <<heap, cpp, owner, wmap>>

RemoveExtraRef(t) ==
    /\ Running(t, "removeExtraRef")
    /\ LET f == Top(t) IN
       IF ~f.hasParent /\ heap[f.o].shell /\ ~heap[f.o].own
         THEN /\ heap' = DecRef(heap, f.o)
              /\ Continue(t, DecRefCalls(heap, f.o))
         ELSE Return(t) /\ UNCHANGED heap
    /\ UNCHANGED <<cpp, owner, wmap>>

Destroyed(w) == [w EXCEPT !.valid = FALSE, !.own = FALSE, !.cptr = None]

\* The wrapper is believed alive when the address is still registered.
ForgetPointer(t) ==
    /\ Running(t, "forgetPointer")
    /\ LET f == Top(t) IN
       IF wmap[f.p] = None THEN UNCHANGED <<heap, wmap>>
       ELSE /\ wmap' = Release(wmap, heap, f.o)
            /\ heap' = [heap EXCEPT ![f.o] = Destroyed(@)]
    /\ Return(t)
    /\ UNCHANGED <<cpp, owner>>

Step(t) ==
    \/ Dealloc(t) \/ Free(t) \/ DecRefStep(t) \/ RemoveParent(t)
    \/ DestroyParentInfo(t) \/ DestroyChildren(t)
    \/ Invalidate(t) \/ InvalidateChildren(t) \/ AfterInvalidateChild(t)
    \/ InvalidateReferred(t) \/ InvalidateList(t)
    \/ ClearReferences(t) \/ DecRefList(t) \/ StoreReferences(t)
    \/ CppDtor(t) \/ CppDtorBody(t)
    \/ Destroy(t) \/ DestroyBranch(t) \/ RemoveExtraRef(t) \/ ForgetPointer(t)
    \/ Crash(t)

-----------------------------------------------------------------------------
(* Calls of the binding by Python code, and deletions by C++ code.         *)

CanCall(t) == fault = "none" /\ stack[t] = <<>> /\ gil = None

\* A binding function leaves the heap h behind and has calls to make.
Enter(t, h, calls, f) ==
    /\ fault' = f
    /\ IF f = "none"
         THEN /\ heap' = h
              /\ stack' = [stack EXCEPT ![t] = calls]
              /\ gil' = IF calls = <<>> THEN None ELSE t
         ELSE UNCHANGED <<heap, stack, gil>>

\* A destructor about to be called by SbkDeallocWrapper.
PythonDeletes(p) ==
    \E t \in Thread : \E i \in DOMAIN stack[t] : stack[t][i] = DtorCall(p)

\* Being destroyed, or going to be by the destructor of an owner.
Doomed(p) ==
    \A S \in SUBSET Ptr :
        (\A q \in Ptr : cpp[q] = "dying" \/ PythonDeletes(q) \/ owner[q] \in S => q \in S)
        => p \in S

\* An argument Python code may pass: writeArgumentConversion refuses wrappers
\* that are not valid, but does not look inside sequences.
Passed(o) ==
    /\ heap[o].ext > 0
    /\ "lists" \in Tags \/ heap[o].valid
    /\ "racy" \in Tags \/ heap[o].cptr = None \/ ~Doomed(heap[o].cptr)

Roomy(o) == heap[o].rc < MaxCount

FreshAddress(p) ==
    cpp[p] = "none" /\ ("reuse" \in Tags \/ \A o \in Obj : heap[o].cptr # p)

NewWrapper(o, p, own, shell) ==
    [st |-> "alive", rc |-> 1, ext |-> 1, own |-> own, shell |-> shell, valid |-> TRUE,
     pinfo |-> FALSE, parent |-> None, kids |-> {}, wref |-> FALSE, refs |-> NoRefs,
     cptr |-> p]

\* A constructor called by Python: tp_new, then the generated tp_init.
Construct(t, o, p) ==
    /\ CanCall(t)
    /\ ~Alive(o) /\ FreshAddress(p)
    /\ cpp' = [cpp EXCEPT ![p] = IF o \in Polymorphic THEN "shell" ELSE "native"]
    /\ wmap' = Assign(wmap, o, p)
    /\ Enter(t, [heap EXCEPT ![o] = NewWrapper(o, p, TRUE, o \in Polymorphic)], <<>>, "none")
    /\ UNCHANGED owner

\* newObject for an instance C++ made: a copy, owned by Python, or the target
\* of a pointer (made now or earlier), left to C++.
NewObject(t, o, p, own) ==
    /\ ~Alive(o)
    /\ cpp' = IF cpp[p] = "none" THEN [cpp EXCEPT ![p] = "native"] ELSE cpp
    /\ wmap' = Assign(wmap, o, p)
    /\ Enter(t, [heap EXCEPT ![o] = NewWrapper(o, p, own, FALSE)], <<>>, "none")
    /\ UNCHANGED owner

ReturnCopy(t, o, p) ==
    /\ CanCall(t) /\ "return-copy" \in Tags
    /\ FreshAddress(p)
    /\ NewObject(t, o, p, TRUE)

\* ObjectTypeConverter::toPython: the wrapper of the address, or a new one.
ReturnPointer(t, p) ==
    /\ CanCall(t) /\ "return-pointer" \in Tags
    /\ FreshAddress(p) \/ (cpp[p] # "none" /\ ~Doomed(p))
    /\ IF wmap[p] = None
         THEN \E o \in Obj : NewObject(t, o, p, FALSE)
         ELSE /\ heap[wmap[p]].ext < MaxExt
              /\ Enter(t, [IncRef(heap, wmap[p]) EXCEPT ![wmap[p]].ext = @ + 1], <<>>, "none")
              /\ UNCHANGED <<cpp, owner, wmap>>

\* The calls in progress that replace references.
Storing ==
    {f \in UNION {{stack[t][i] : i \in DOMAIN stack[t]} : t \in Thread} : f.fn = "storeReferences"}
KeptAlone(o) == "racy" \in Tags \/ \A f \in Storing : f.o # o

\* Mutant: a reference nobody holds is dropped.
DropUnowned(t, o) ==
    /\ CanCall(t)
    /\ Alive(o)
    /\ LET h == [heap EXCEPT ![o].ext = @ - 1] IN
       Enter(t, DecRef(h, o), DecRefCalls(h, o), DecRefFault(o))
    /\ UNCHANGED <<cpp, owner, wmap>>

\* Python code drops a reference, not the one of a call in progress.
Drop(t, o) ==
    /\ CanCall(t)
    /\ heap[o].ext > 0
    /\ (\E f \in Storing : o \in {f.o} \cup f.new) => heap[o].ext > 1
    /\ LET h == [heap EXCEPT ![o].ext = @ - 1] IN
       Enter(t, DecRef(h, o), DecRefCalls(h, o), DecRefFault(o))
    /\ UNCHANGED <<cpp, owner, wmap>>

\* Mutant: the parent takes no reference.
AdoptedUncounted(h, par, c) ==
    [h EXCEPT ![c].pinfo = TRUE, ![c].parent = par, ![c].own = FALSE,
              ![par].kids = @ \cup {c}]
AdoptedStillOwned(h, par, c) ==
    [h EXCEPT ![c].pinfo = TRUE, ![c].parent = par, ![c].rc = @ + 1,
              ![par].kids = @ \cup {c}]
\* A function with a parent tag: the C++ method changes the owner of the
\* instance, then Object::setParent is called; it holds the child meanwhile.
ChildOf(w, par) ==
    [w EXCEPT !.pinfo = TRUE, !.parent = par, !.own = FALSE, !.rc = w.rc + 1]
Adopted(h, par, c) ==
    [[h EXCEPT ![c] = ChildOf(@, par)] EXCEPT ![par].kids = @ \cup {c}]

SetParent(t, par, c) ==
    /\ CanCall(t) /\ "parent" \in Tags
    /\ Passed(c) /\ Roomy(c)
    /\ par # None => Passed(par) /\ <<par, c>> \in MayParent /\ par # c
    /\ LET h0 == IF par = None THEN heap ELSE [heap EXCEPT ![par].pinfo = TRUE]
           h1 == IncRef(h0, c)
           h2 == IF par = None \/ HasParent(h1, c) THEN Unparent(h1, c, TRUE, FALSE) ELSE h1
           h3 == IF par = None THEN h2 ELSE Adopted(h2, par, c)
       IN  IF par # None /\ HasParent(h0, c) /\ h0[c].parent = par
             THEN Enter(t, h0, <<>>, "none")
             ELSE Enter(t, DecRef(h3, c), DecRefCalls(h3, c), UnparentFault(h0, c))
    /\ owner' = [owner EXCEPT ![heap[c].cptr] = IF par = None THEN None ELSE heap[par].cptr]
    /\ UNCHANGED <<cpp, wmap>>

\* Mutant: no extra reference for the destructor of the shell.
ReleaseOwnershipUncounted(t, o) ==
    /\ CanCall(t) /\ "release" \in Tags
    /\ Passed(o) /\ Roomy(o)
    /\ heap[o].own /\ o \notin ValueType
    /\ LET h == [heap EXCEPT ![o].own = FALSE] IN
       Enter(t, h, IF heap[o].shell THEN <<>> ELSE <<Call("invalidate", o)>>, "none")
    /\ UNCHANGED <<cpp, owner, wmap>>

ReleaseOwnership(t, o) ==
    /\ CanCall(t) /\ "release" \in Tags
    /\ Passed(o) /\ Roomy(o)
    /\ heap[o].own /\ o \notin ValueType
    /\ LET h == [heap EXCEPT ![o].own = FALSE] IN
       IF heap[o].shell THEN Enter(t, IncRef(h, o), <<>>, "none")
                        ELSE Enter(t, h, <<Call("invalidate", o)>>, "none")
    /\ UNCHANGED <<cpp, owner, wmap>>

\* Mutant: the check for a parent is missing.
GetOwnershipOfChild(t, o) ==
    /\ CanCall(t) /\ "own" \in Tags
    /\ Passed(o)
    /\ ~heap[o].own
    /\ LET h == [heap EXCEPT ![o].own = TRUE] IN
       IF heap[o].shell
         THEN Enter(t, DecRef(h, o), DecRefCalls(h, o), DecRefFault(o))
         ELSE Enter(t, MadeValid(h, o), <<>>, "none")
    /\ UNCHANGED <<cpp, owner, wmap>>

GetOwnership(t, o) ==
    /\ CanCall(t) /\ "own" \in Tags
    /\ Passed(o)
    /\ ~heap[o].own /\ ~HasParent(heap, o)
    /\ LET h == [heap EXCEPT ![o].own = TRUE] IN
       IF heap[o].shell
         THEN Enter(t, DecRef(h, o), DecRefCalls(h, o), DecRefFault(o))
         ELSE Enter(t, MadeValid(h, o), <<>>,
                    IF \E x \in Revived(h, o) : ~Alive(x) THEN "use-after-free" ELSE "none")
    /\ UNCHANGED <<cpp, owner, wmap>>

InvalidateArgument(t, o) ==
    /\ CanCall(t) /\ "invalidate" \in Tags
    /\ Passed(o)
    /\ Enter(t, heap, <<Call("invalidate", o)>>, "none")
    /\ UNCHANGED <<cpp, owner, wmap>>

\* Mutant: an object added to a list is not referenced.
KeepReferenceUncounted(t, o, k, r) ==
    /\ CanCall(t)
    /\ Passed(o) /\ Passed(r) /\ Roomy(r) /\ <<o, r>> \in MayRefer
    /\ r \notin heap[o].refs[k]
    /\ "append" \in Tags
    /\ Enter(t, [heap EXCEPT ![o].refs[k] = @ \cup {r}], <<>>, "none")
    /\ UNCHANGED <<cpp, owner, wmap>>

\* Object::keepReference: add to the key's list, or replace the list.
KeepReference(t, o, k, r) ==
    /\ CanCall(t)
    /\ Passed(o) /\ Passed(r) /\ Roomy(r) /\ <<o, r>> \in MayRefer
    /\ r \notin heap[o].refs[k] /\ KeptAlone(o)
    /\ \/ /\ "append" \in Tags
          /\ Enter(t, [IncRef(heap, r) EXCEPT ![o].refs[k] = @ \cup {r}], <<>>, "none")
       \/ /\ "keep" \in Tags
          /\ Enter(t, heap, ReleaseKeptCalls(o, {k}, {r}), "none")
    /\ UNCHANGED <<cpp, owner, wmap>>

\* keepReference with None, and removeReference: the key's list goes.
RemoveReference(t, o, k) ==
    /\ CanCall(t) /\ "keep" \in Tags
    /\ Passed(o) /\ heap[o].refs[k] # {} /\ KeptAlone(o)
    /\ Enter(t, heap, ReleaseKeptCalls(o, {k}, {}), "none")
    /\ UNCHANGED <<cpp, owner, wmap>>

\* The cycle collector: every reference to a member of S is one that
\* SbkObject_traverse reports for a member of S.  The collector holds the
\* object while it calls SbkObject_clear.
TraversedInto(S, x) ==
    Cardinality({y \in S : x \in heap[y].kids})
    + Cardinality({e \in S \X Keys : x \in heap[e[1]].refs[e[2]]})

Garbage(S) == \A x \in S : heap[x].st = "alive" /\ heap[x].rc = TraversedInto(S, x)

TpClear(t, o) ==
    /\ CanCall(t) /\ "gc" \in Tags
    /\ \E S \in SUBSET Obj : o \in S /\ Garbage(S)
    /\ Enter(t, IncRef(heap, o), CleanupCalls(o) \o <<Call("decref", o)>>, "none")
    /\ UNCHANGED <<cpp, owner, wmap>>

\* C++ deletes an instance that is its own, at any time.  An instance without
\* a shell cannot tell, so C++ is taken to delete by itself only those that
\* Python does not use any more.
OwnedByCpp(p) ==
    /\ cpp[p] # "none" /\ ~Doomed(p)
    /\ \A o \in Obj : heap[o].cptr = p => ~heap[o].own
    /\ cpp[p] = "native" => \A o \in Obj : heap[o].cptr = p => ~heap[o].valid

CppDelete(t, p) ==
    /\ fault = "none" /\ stack[t] = <<>> /\ "cpp-delete" \in Tags
    /\ OwnedByCpp(p)
    /\ owner' = [owner EXCEPT ![p] = None]
    /\ stack' = [stack EXCEPT ![t] = <<DtorCall(p)>>]
    /\ UNCHANGED <<heap, cpp, wmap, gil, fault>>

Operation(t) ==
    \/ \E o \in Obj, p \in Ptr : Construct(t, o, p) \/ ReturnCopy(t, o, p)
    \/ \E p \in Ptr : ReturnPointer(t, p) \/ CppDelete(t, p)
    \/ \E o \in Obj : \/ Drop(t, o) \/ ReleaseOwnership(t, o) \/ GetOwnership(t, o)
                      \/ InvalidateArgument(t, o) \/ TpClear(t, o)
                      \/ \E par \in Obj \cup {None} : SetParent(t, par, o)
                      \/ \E k \in Keys : \/ RemoveReference(t, o, k)
                                         \/ \E r \in Obj : KeepReference(t, o, k, r)

Init ==
    /\ heap = [o \in Obj |-> Blank]
    /\ cpp = [p \in Ptr |-> "none"]
    /\ owner = [p \in Ptr |-> None]
    /\ wmap = [p \in Ptr |-> None]
    /\ stack = [t \in Thread |-> <<>>]
    /\ gil = None
    /\ fault = "none"

Next == \E t \in Thread : Step(t) \/ Operation(t)

Spec == Init /\ [][Next]_vars

\* Every call in progress goes on, whenever the GIL comes round to it.
FairSpec == Spec /\ \A t \in Thread : SF_vars(Step(t))

-----------------------------------------------------------------------------
(* Properties.  Quiet: no call is in progress.                             *)

Quiet == fault = "none" /\ \A t \in Thread : stack[t] = <<>>

One(b) == IF b THEN 1 ELSE 0

KeptBy(o) == {e \in Obj \X Keys : o \in heap[e[1]].refs[e[2]]}

\* releaseOwnership took a reference for the destructor of the shell to drop.
ReleasedToCpp(o) ==
    /\ heap[o].shell /\ ~heap[o].own /\ ~HasParent(heap, o) /\ ~heap[o].wref
    /\ heap[o].cptr # None

\* The runtime never follows a pointer to a freed wrapper or a null pointer,
\* never drops a reference twice, never runs a C++ destructor twice and never
\* recurses without end, whatever order parents, children, references and C++
\* instances die in.
NoFault == fault = "none"

\* No reference is lost and none is forgotten: between calls, the reference
\* count of a wrapper is the number of those who will drop one, namely Python
\* code, the parent, the wrapper reference removeParent left to the C++
\* destructor, the lists of keepReference, and the reference releaseOwnership
\* took for the destructor of the shell.
CountAccounted ==
    Quiet => \A o \in Obj :
        heap[o].rc = heap[o].ext + One(HasParent(heap, o)) + One(heap[o].wref)
                     + Cardinality(KeptBy(o)) + One(ReleasedToCpp(o))

\* A wrapper that Python code still refers to is not deallocated, by whatever
\* chain of removeParent, clearReferences and destroy calls.
NoPrematureFree == \A o \in Obj : heap[o].ext > 0 => heap[o].st = "alive"

\* A wrapper marked valid leads to a C++ instance that has not been deleted:
\* invalidate, destroy and the parent-child rules mark it before that.
ValidMeansLive ==
    \A o \in Obj : Alive(o) /\ heap[o].valid =>
        heap[o].cptr # None /\ cpp[heap[o].cptr] # "none"

\* Between calls a valid wrapper is the one BindingManager finds at its
\* address: a C++ instance that Python can use has a single wrapper.
ValidIsRegistered ==
    Quiet => \A o \in Obj : heap[o].valid => wmap[heap[o].cptr] = o

\* The wrapper map never leads to freed memory, nor to the wrapper of another
\* address: retrieveWrapper's answer may be used.
RegistrySound ==
    \A p \in Ptr : wmap[p] # None => Alive(wmap[p]) /\ heap[wmap[p]].cptr = p

\* Parent and child agree: an object is in the list of children of a wrapper
\* exactly when that wrapper is its parent, in every step of removeParent,
\* setParent and _destroyParentInfo.
Family ==
    \A o, k \in Obj :
        k \in heap[o].kids <=> HasParent(heap, k) /\ heap[k].parent = o

\* A wrapper whose C++ instance Python will delete has no parent, whose C++
\* instance would delete it too: setParent, removeParent, getOwnership and
\* releaseOwnership never leave both.
OwnedHasNoParent == \A o \in Obj : heap[o].own => ~HasParent(heap, o)

\* What makes the two above inductive: a wrapper owned by Python, and one whose
\* ParentInfo is gone, has no parent pointer left behind.
Single(w) == w.parent = None
Parentless(w) == (w.own => Single(w)) /\ (~w.pinfo => Single(w))
NoOwnedChild(h) == \A o \in Obj : Parentless(h[o])

\* The inductive invariant: types, a sound wrapper map, and no parent pointer
\* in a wrapper that Python owns or that has no ParentInfo.
IInv == TypeOK /\ RegistrySound /\ NoOwnedChild(heap)

\* Between calls, an instance that the wrapper's deallocation would delete is
\* not one that its C++ owner would delete as well.
OneDeleter ==
    Quiet => \A o \in Obj :
        heap[o].own /\ heap[o].valid => owner[heap[o].cptr] = None

\* Between calls, a wrapper that nobody in Python refers to and that no parent
\* or keeper holds is there only for a C++ instance that still exists and that
\* it does not own: what Python owns goes with the last reference.
NoLeak ==
    Quiet => \A o \in Obj : Alive(o) =>
        \/ heap[o].ext > 0 \/ HasParent(heap, o) \/ KeptBy(o) # {}
        \/ ~heap[o].own /\ heap[o].cptr # None /\ cpp[heap[o].cptr] # "none"

\* The extra reference of releaseOwnership lives until the destructor of the
\* shell drops it, as its comment says, and not longer: when the instance is
\* gone and no one else refers to the wrapper, the wrapper goes too.
ExtraReferenceEnds ==
    Quiet => \A o \in Obj :
        Alive(o) /\ heap[o].shell /\ heap[o].cptr = None =>
            heap[o].rc = heap[o].ext + One(HasParent(heap, o)) + Cardinality(KeptBy(o))

\* Every call of the binding, and every deletion by C++ code, comes to an end:
\* no thread waits for ever for the GIL, and dissolving a family or clearing
\* references ends.
CallsEnd == \A t \in Thread : stack[t] # <<>> ~> stack[t] = <<>>

\* When a wrapper that owns a valid C++ instance is deallocated, the instance
\* is deleted in the end, after the wrapper is gone.
DyingIsDeleted ==
    \A o \in Obj, p \in Ptr :
        heap[o].st = "dying" /\ heap[o].own /\ heap[o].valid /\ heap[o].cptr = p
            ~> cpp[p] = "none"
=============================================================================
