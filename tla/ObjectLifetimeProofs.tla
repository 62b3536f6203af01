------------------------ MODULE ObjectLifetimeProofs ------------------------
(***************************************************************************)
(* Type correctness and safety of ObjectLifetime.  First the types: the    *)
(* operators on the heap, the frames of the calls in progress, and one     *)
(* lemma for each action.  Then the inductive invariant IInv: the wrapper  *)
(* map leads to live wrappers of the right address, and no wrapper is both *)
(* owned by Python and the child of a parent.  Most actions keep each      *)
(* wrapper's address and its life; the few that free, forget or register   *)
(* one have a lemma of their own.                                          *)
(***************************************************************************)
EXTENDS ObjectLifetime, TLAPS

\* The values of heap.
Heap == [Obj -> Wrapper]

\* A wrapper that is not allocated is of the type of wrappers.
LEMMA BlankType == Blank \in Wrapper
BY DEF Blank, Wrapper, NoRefs

\* Replacing one wrapper gives a heap.
LEMMA UpdateType ==
    ASSUME NEW h \in Heap, NEW o \in Obj, NEW w \in Wrapper
    PROVE  [h EXCEPT ![o] = w] \in Heap
BY DEF Heap

\* A changed reference count, with the deallocation it may start, keeps the type.
LEMMA CountedType ==
    ASSUME NEW w \in Wrapper, NEW n \in Int
    PROVE  Counted(w, n) \in Wrapper
BY DEF Counted, Wrapper

\* Py_INCREF gives a heap.
LEMMA IncRefType ==
    ASSUME NEW h \in Heap, NEW o \in Obj
    PROVE  IncRef(h, o) \in Heap
BY DEF Heap, IncRef, Wrapper

\* Py_DECREF gives a heap.
LEMMA DecRefType ==
    ASSUME NEW h \in Heap, NEW o \in Obj
    PROVE  DecRef(h, o) \in Heap
<1>1. h[o] \in Wrapper /\ h[o].rc - 1 \in Int
  BY DEF Heap, Wrapper
<1> QED BY <1>1, CountedType, UpdateType DEF DecRef

\* A wrapper whose ParentInfo was deleted is a wrapper.
LEMMA AloneType ==
    ASSUME NEW w \in Wrapper
    PROVE  Alone(w) \in Wrapper
BY DEF Alone, Wrapper

\* Deleting a ParentInfo gives a heap.
LEMMA DeleteParentInfoType ==
    ASSUME NEW h \in Heap, NEW o \in Obj
    PROVE  DeleteParentInfo(h, o) \in Heap
<1>1. h[o] \in Wrapper
  BY DEF Heap
<1> QED BY <1>1, AloneType, UpdateType DEF DeleteParentInfo

\* A wrapper that was given a parent is a wrapper.
LEMMA ChildOfType ==
    ASSUME NEW w \in Wrapper, NEW p \in Obj
    PROVE  ChildOf(w, p) \in Wrapper
<1> DEFINE n == w.rc + 1
<1>1. n \in Int
  BY DEF Wrapper
<1> HIDE DEF n
<1>2. [w EXCEPT !.pinfo = TRUE, !.parent = p, !.own = FALSE, !.rc = n] \in Wrapper
  BY <1>1 DEF Wrapper
<1> QED BY <1>2 DEF ChildOf, n

\* A wrapper whose C++ instance was destroyed is a wrapper.
LEMMA DestroyedType ==
    ASSUME NEW w \in Wrapper
    PROVE  Destroyed(w) \in Wrapper
BY DEF Destroyed, Wrapper

\* Setting hasWrapperRef gives a heap.
LEMMA WrapperRefType ==
    ASSUME NEW h \in Heap, NEW o \in Obj
    PROVE  [h EXCEPT ![o].wref = TRUE] \in Heap
BY DEF Heap, Wrapper

\* setParent's changes to both wrappers give a heap.
LEMMA AdoptedType ==
    ASSUME NEW h \in Heap, NEW par \in Obj, NEW c \in Obj
    PROVE  Adopted(h, par, c) \in Heap
<1> DEFINE g == [h EXCEPT ![c] = ChildOf(@, par)]
<1>1. g \in Heap
  BY ChildOfType, UpdateType DEF Heap
<1>2. [g EXCEPT ![par].kids = @ \cup {c}] \in Heap
  <2> HIDE DEF g
  <2> QED BY <1>1 DEF Heap, Wrapper
<1>3. Adopted(h, par, c) = [g EXCEPT ![par].kids = @ \cup {c}]
  BY DEF Adopted
<1> QED BY <1>2, <1>3

\* Taking a child off its parent's list gives a heap.
LEMMA OrphanedType ==
    ASSUME NEW h \in Heap, NEW c \in Obj, HasParent(h, c)
    PROVE  Orphaned(h, c) \in Heap
BY DEF Heap, Orphaned, HasParent, Wrapper

\* Setting hasOwnership gives a heap.
LEMMA OwnType ==
    ASSUME NEW h \in Heap, NEW o \in Obj, NEW own \in BOOLEAN
    PROVE  [h EXCEPT ![o].own = own] \in Heap
BY DEF Heap, Wrapper

\* All the ways out of removeParent give a heap.
LEMMA UnparentType ==
    ASSUME NEW h \in Heap, NEW c \in Obj, NEW give \in BOOLEAN, NEW keep \in BOOLEAN
    PROVE  Unparent(h, c, give, keep) \in Heap
<1>2. HasParent(h, c) => Orphaned(h, c) \in Heap
  BY OrphanedType
<1>3. HasParent(h, c) => [Orphaned(h, c) EXCEPT ![c].own = give] \in Heap
  BY <1>2, OwnType
<1>4. HasParent(h, c) => GivenBack(h, c, give) \in Heap
  <2> DEFINE g == [Orphaned(h, c) EXCEPT ![c].own = give]
  <2>1. HasParent(h, c) => g \in Heap /\ DeleteParentInfo(g, c) \in Heap
    <3> HIDE DEF g
    <3> QED BY <1>3, DeleteParentInfoType DEF g
  <2>2. GivenBack(h, c, give) = IF g[c].kids = {} THEN DeleteParentInfo(g, c) ELSE g
    BY DEF GivenBack
  <2> HIDE DEF g
  <2> QED BY <2>1, <2>2
<1>5. HasParent(h, c) => BeforeDecRef(h, c, give, keep) \in Heap
  BY <1>2, <1>4 DEF BeforeDecRef
<1>6. HasParent(h, c) => [Orphaned(h, c) EXCEPT ![c].wref = TRUE] \in Heap
  BY <1>2, WrapperRefType
<1> QED BY <1>5, <1>6, DecRefType, DeleteParentInfoType DEF Unparent, DropsReference

-----------------------------------------------------------------------------
(* Frames, and the steps by which calls are made and return. *)

\* The calls that name a wrapper are frames.
LEMMA CallType ==
    ASSUME NEW o \in Obj,
           NEW fn \in {"dealloc", "destroyParentInfo", "destroyChildren", "invalidate",
                       "clearReferences", "free", "decref"}
    PROVE  Call(fn, o) \in Frame
BY DEF Call, Frame

\* A call of removeParent is a frame.
LEMMA RemoveParentCallType ==
    ASSUME NEW o \in Obj, NEW give \in BOOLEAN, NEW keep \in BOOLEAN
    PROVE  RemoveParentCall(o, give, keep) \in Frame
BY DEF RemoveParentCall, Frame

\* A call of a C++ destructor is a frame.
LEMMA DtorCallType ==
    ASSUME NEW p \in Ptr
    PROVE  DtorCall(p) \in Frame
BY DEF DtorCall, Frame

\* The running call is a frame.
LEMMA TopType ==
    ASSUME TypeOK, NEW t \in Thread, Ready(t)
    PROVE  Top(t) \in Frame /\ stack[t] \in Seq(Frame) /\ stack[t] # <<>>
BY DEF TypeOK, Ready, Top

\* What running a call may do wrong is one of the faults.
LEMMA FaultOfType ==
    ASSUME NEW f
    PROVE  FaultOf(f) \in Faults
BY DEF FaultOf, Faults, UnparentFault, DecRefFault, FreedFault

\* The deallocation that Py_DECREF may start is a sequence of frames.
LEMMA DecRefCallsType ==
    ASSUME NEW h, NEW o \in Obj
    PROVE  DecRefCalls(h, o) \in Seq(Frame)
BY CallType DEF DecRefCalls

\* A call that makes calls or returns keeps stack, gil and fault of their types.
LEMMA ContinueType ==
    ASSUME TypeOK, NEW t \in Thread, Ready(t), NEW calls \in Seq(Frame), Continue(t, calls)
    PROVE  /\ stack' \in [Thread -> Seq(Frame)]
           /\ gil' \in Thread \cup {None}
           /\ fault' \in Faults
<1> DEFINE s == calls \o Tail(stack[t])
<1>1. s \in Seq(Frame)
  BY TopType
<1>2. stack' = [stack EXCEPT ![t] = s]
  BY DEF Continue
<1>3. gil' \in Thread \cup {None}
  BY DEF Continue, TypeOK
<1>4. fault' \in Faults
  BY DEF Continue, TypeOK, Faults
<1> HIDE DEF s
<1> QED BY <1>1, <1>2, <1>3, <1>4 DEF TypeOK

\* A call of the binding keeps heap, stack, gil and fault of their types.
LEMMA EnterType ==
    ASSUME TypeOK, NEW t \in Thread, NEW h \in Heap, NEW calls \in Seq(Frame),
           NEW f \in Faults, Enter(t, h, calls, f)
    PROVE  /\ heap' \in Heap
           /\ stack' \in [Thread -> Seq(Frame)]
           /\ gil' \in Thread \cup {None}
           /\ fault' \in Faults
BY DEF Enter, TypeOK, Heap

\* One or two elements of a set make a sequence over it.
LEMMA SeqOfTwo ==
    ASSUME NEW S, NEW x \in S, NEW y \in S
    PROVE  <<x>> \in Seq(S) /\ <<x, y>> \in Seq(S)
OBVIOUS

\* Three elements of a set make a sequence over it.
LEMMA SeqOfThree ==
    ASSUME NEW S, NEW x \in S, NEW y \in S, NEW z \in S
    PROVE  <<x, y, z>> \in Seq(S)
OBVIOUS

\* The fields of the frame of each kind of call.
LEMMA FrameKinds ==
    ASSUME NEW f \in Frame
    PROVE  /\ f.fn \in {"dealloc", "destroyParentInfo", "destroyChildren", "invalidate",
                "clearReferences", "free", "decref", "removeParent", "invalidateChildren",
                "afterInvalidateChild", "invalidateReferred", "storeReferences",
                "destroyBranch", "removeExtraRef", "forgetPointer"} => f.o \in Obj
           /\ f.fn = "removeParent" => f.give \in BOOLEAN /\ f.keep \in BOOLEAN
           /\ f.fn = "invalidateChildren" =>
                f \in [fn : {"invalidateChildren"}, o : Obj, copy : SUBSET Obj]
           /\ f.fn = "afterInvalidateChild" => f.child \in Obj
           /\ f.fn = "invalidateReferred" =>
                f \in [fn : {"invalidateReferred"}, o : Obj, keys : SUBSET Keys]
           /\ f.fn = "invalidateList" => f \in [fn : {"invalidateList"}, list : SUBSET Obj]
           /\ f.fn = "decRefList" =>
                f \in [fn : {"decRefList"}, list : SUBSET (Keys \X Obj)]
           /\ f.fn = "storeReferences" => f.keys \subseteq Keys /\ f.new \subseteq Obj
           /\ f.fn = "destroy" => f \in [fn : {"destroy"}, o : Obj \cup {None}, p : Ptr]
           /\ f.fn = "destroyBranch" => f \in [fn : {"destroyBranch"}, o : Obj, p : Ptr]
           /\ f.fn \in {"forgetPointer", "cppDtor", "cppDtorBody"} => f.p \in Ptr
<1>1. f.fn \in {"dealloc", "destroyParentInfo", "destroyChildren", "invalidate",
          "clearReferences", "free", "decref", "removeParent", "invalidateChildren",
          "afterInvalidateChild", "invalidateReferred", "storeReferences",
          "destroyBranch", "removeExtraRef", "forgetPointer"} => f.o \in Obj
  BY DEF Frame
<1>2. f.fn = "removeParent" => f.give \in BOOLEAN /\ f.keep \in BOOLEAN
  BY DEF Frame
<1>3. f.fn = "invalidateChildren" =>
        f \in [fn : {"invalidateChildren"}, o : Obj, copy : SUBSET Obj]
  BY DEF Frame
<1>4. f.fn = "afterInvalidateChild" => f.child \in Obj
  BY DEF Frame
<1>5. f.fn = "invalidateReferred" =>
        f \in [fn : {"invalidateReferred"}, o : Obj, keys : SUBSET Keys]
  BY DEF Frame
<1>6. f.fn = "invalidateList" => f \in [fn : {"invalidateList"}, list : SUBSET Obj]
  BY DEF Frame
<1>7. f.fn = "decRefList" => f \in [fn : {"decRefList"}, list : SUBSET (Keys \X Obj)]
  BY DEF Frame
<1>8. f.fn = "storeReferences" => f.keys \subseteq Keys /\ f.new \subseteq Obj
  BY DEF Frame
<1>9. f.fn = "destroy" => f \in [fn : {"destroy"}, o : Obj \cup {None}, p : Ptr]
  BY DEF Frame
<1>10. f.fn = "destroyBranch" => f \in [fn : {"destroyBranch"}, o : Obj, p : Ptr]
  BY DEF Frame
<1>11. f.fn \in {"forgetPointer", "cppDtor", "cppDtorBody"} => f.p \in Ptr
  BY DEF Frame
<1> QED BY <1>1, <1>2, <1>3, <1>4, <1>5, <1>6, <1>7, <1>8, <1>9, <1>10, <1>11

\* A step that only makes calls keeps the types.
LEMMA CallsType ==
    ASSUME TypeOK, NEW t \in Thread, Ready(t), NEW calls \in Seq(Frame), Continue(t, calls),
           UNCHANGED <<heap, cpp, owner, wmap>>
    PROVE  TypeOK'
BY ContinueType DEF TypeOK

\* A step that only returns keeps the types.
LEMMA ReturnType ==
    ASSUME TypeOK, NEW t \in Thread, Ready(t), Return(t), UNCHANGED <<heap, cpp, owner, wmap>>
    PROVE  TypeOK'
<1>1. <<>> \in Seq(Frame)
  OBVIOUS
<1> QED BY <1>1, CallsType DEF Return

\* Clearing validCppObject gives a heap.
LEMMA InvalidType ==
    ASSUME NEW h \in Heap, NEW o \in Obj
    PROVE  [h EXCEPT ![o].valid = FALSE] \in Heap
BY DEF Heap, Wrapper

-----------------------------------------------------------------------------
(* The steps of the calls in progress, one lemma for each. *)

\* What deallocData and SbkObject_clear call is a sequence of frames.
LEMMA CleanupCallsType ==
    ASSUME NEW o \in Obj
    PROVE  CleanupCalls(o) \in Seq(Frame)
<1>1. /\ RemoveParentCall(o, TRUE, FALSE) \in Frame
      /\ Call("destroyParentInfo", o) \in Frame
      /\ Call("clearReferences", o) \in Frame
  BY CallType, RemoveParentCallType
<1> QED BY <1>1, SeqOfThree DEF CleanupCalls

\* Dealloc keeps the types.
LEMMA DeallocType ==
    ASSUME TypeOK, NEW t \in Thread, Dealloc(t)
    PROVE  TypeOK'
<1> DEFINE o == Top(t).o
           dtor == IF heap[o].own /\ heap[o].valid THEN <<DtorCall(heap[o].cptr)>> ELSE <<>>
           calls == CleanupCalls(o) \o <<Call("free", o)>> \o dtor
<1>1. o \in Obj
  BY TopType, FrameKinds DEF Dealloc, Running
<1>2. heap[o].cptr \in Ptr \cup {None}
  BY <1>1 DEF TypeOK, Wrapper
<1>3. heap[o].own /\ heap[o].valid => heap[o].cptr # None
  BY DEF Dealloc, Running, FaultOf
<1>4. dtor \in Seq(Frame)
  BY <1>2, <1>3, DtorCallType
<1>5. calls \in Seq(Frame)
  BY <1>1, <1>4, CallType, CleanupCallsType
<1>6. Continue(t, calls) /\ Ready(t)
  BY DEF Dealloc, Running
<1> HIDE DEF calls
<1> QED BY <1>5, <1>6, ContinueType DEF Dealloc, TypeOK
\* Free keeps the types.
LEMMA FreeType ==
    ASSUME TypeOK, NEW t \in Thread, Free(t)
    PROVE  TypeOK'
<1> DEFINE o == Top(t).o
<1>1. o \in Obj
  BY TopType, FrameKinds DEF Free, Running
<1>2. heap' \in Heap
  BY <1>1, BlankType, UpdateType DEF Free, TypeOK, Heap
<1>3. wmap' \in [Ptr -> Obj \cup {None}]
  BY DEF Free, Release, TypeOK
<1>4. <<>> \in Seq(Frame) /\ Continue(t, <<>>) /\ Ready(t)
  BY DEF Free, Return, Running
<1> QED BY <1>2, <1>3, <1>4, ContinueType DEF Free, TypeOK, Heap

\* DecRefStep keeps the types.
LEMMA DecRefStepType ==
    ASSUME TypeOK, NEW t \in Thread, DecRefStep(t)
    PROVE  TypeOK'
<1> DEFINE o == Top(t).o
<1>1. o \in Obj
  BY TopType, FrameKinds DEF DecRefStep, Running
<1>2. heap' \in Heap
  BY <1>1, DecRefType DEF DecRefStep, TypeOK, Heap
<1>3. DecRefCalls(heap, o) \in Seq(Frame) /\ Continue(t, DecRefCalls(heap, o)) /\ Ready(t)
  BY <1>1, DecRefCallsType DEF DecRefStep, Running
<1> QED BY <1>2, <1>3, ContinueType DEF DecRefStep, TypeOK, Heap

\* RemoveParent keeps the types.
LEMMA RemoveParentType ==
    ASSUME TypeOK, NEW t \in Thread, RemoveParent(t)
    PROVE  TypeOK'
<1> DEFINE f == Top(t)
<1>1. f.o \in Obj /\ f.give \in BOOLEAN /\ f.keep \in BOOLEAN
  BY TopType, FrameKinds DEF RemoveParent, Running
<1>2. heap' \in Heap
  BY <1>1, UnparentType DEF RemoveParent, TypeOK, Heap
<1>3. UnparentCalls(heap, f.o, f.keep) \in Seq(Frame)
  BY <1>1, DecRefCallsType DEF UnparentCalls
<1>4. Continue(t, UnparentCalls(heap, f.o, f.keep)) /\ Ready(t)
  BY DEF RemoveParent, Running
<1> QED BY <1>2, <1>3, <1>4, ContinueType DEF RemoveParent, TypeOK, Heap

\* DestroyParentInfo keeps the types.
LEMMA DestroyParentInfoType ==
    ASSUME TypeOK, NEW t \in Thread, DestroyParentInfo(t)
    PROVE  TypeOK'
<1> DEFINE o == Top(t).o
<1>1. o \in Obj
  BY TopType, FrameKinds DEF DestroyParentInfo, Running
<1>2. <<>> \in Seq(Frame) /\ <<Call("destroyChildren", o)>> \in Seq(Frame)
  BY <1>1, CallType, SeqOfTwo
<1>3. PICK calls \in Seq(Frame) : Continue(t, calls)
  BY <1>2 DEF DestroyParentInfo, Return
<1>4. Ready(t)
  BY DEF DestroyParentInfo, Running
<1> QED BY <1>3, <1>4, ContinueType DEF DestroyParentInfo, TypeOK

\* DestroyChildren keeps the types.
LEMMA DestroyChildrenType ==
    ASSUME TypeOK, NEW t \in Thread, DestroyChildren(t)
    PROVE  TypeOK'
<1> DEFINE o == Top(t).o
<1>1. o \in Obj
  BY TopType, FrameKinds DEF DestroyChildren, Running
<1>2. <<RemoveParentCall(o, FALSE, FALSE)>> \in Seq(Frame)
  BY <1>1, RemoveParentCallType, SeqOfTwo
<1>3. ASSUME NEW k \in heap[o].kids
      PROVE  <<Call("invalidate", k), RemoveParentCall(k, FALSE, TRUE),
               Call("destroyChildren", o)>> \in Seq(Frame)
  <2>1. k \in Obj
    BY <1>1 DEF TypeOK, Wrapper
  <2>2. /\ Call("invalidate", k) \in Frame
        /\ RemoveParentCall(k, FALSE, TRUE) \in Frame
        /\ Call("destroyChildren", o) \in Frame
    BY <1>1, <2>1, CallType, RemoveParentCallType
  <2> QED BY <2>2, SeqOfThree
<1>4. PICK calls \in Seq(Frame) : Continue(t, calls)
  BY <1>2, <1>3 DEF DestroyChildren
<1>5. Ready(t)
  BY DEF DestroyChildren, Running
<1> QED BY <1>4, <1>5, ContinueType DEF DestroyChildren, TypeOK
\* Invalidate keeps the types.
LEMMA InvalidateType ==
    ASSUME TypeOK, NEW t \in Thread, Invalidate(t)
    PROVE  TypeOK'
<1> DEFINE o == Top(t).o
           copies == [fn |-> "invalidateChildren", o |-> o, copy |-> heap[o].kids]
           lists == [fn |-> "invalidateReferred", o |-> o, keys |-> Keys]
           children == IF heap[o].kids = {} THEN <<>> ELSE <<copies>>
           referred == IF heap[o].refs = NoRefs THEN <<>> ELSE <<lists>>
<1>1. o \in Obj
  BY TopType, FrameKinds DEF Invalidate, Running
<1>2. copies \in Frame /\ lists \in Frame
  BY <1>1 DEF Frame, TypeOK, Wrapper
<1>3. children \in Seq(Frame) /\ referred \in Seq(Frame)
  <2> HIDE DEF copies, lists
  <2> QED BY <1>2, SeqOfTwo
<1>4. children \o referred \in Seq(Frame)
  <2> HIDE DEF children, referred
  <2> QED BY <1>3
<1>5. Continue(t, children \o referred) /\ Ready(t)
  BY DEF Invalidate, Running
<1>6. heap' \in Heap
  <2>1. heap \in Heap /\ [heap EXCEPT ![o].valid = FALSE] \in Heap
    BY <1>1, InvalidType DEF TypeOK, Heap
  <2>2. heap' = heap \/ heap' = [heap EXCEPT ![o].valid = FALSE]
    BY DEF Invalidate
  <2> QED BY <2>1, <2>2
<1>7. wmap' \in [Ptr -> Obj \cup {None}]
  BY DEF Invalidate, Release, TypeOK
<1> HIDE DEF children, referred
<1> QED BY <1>4, <1>5, <1>6, <1>7, ContinueType DEF Invalidate, TypeOK, Heap

\* InvalidateChildren keeps the types.
LEMMA InvalidateChildrenType ==
    ASSUME TypeOK, NEW t \in Thread, InvalidateChildren(t)
    PROVE  TypeOK'
<1> DEFINE f == Top(t)
<1>1. f \in [fn : {"invalidateChildren"}, o : Obj, copy : SUBSET Obj] /\ Ready(t)
  BY TopType, FrameKinds DEF InvalidateChildren, Running
<1>2. CASE f.copy = {} /\ Return(t)
  BY <1>1, <1>2, ReturnType DEF InvalidateChildren
<1>3. ASSUME NEW k \in f.copy,
             Continue(t, <<Call("invalidate", k),
                           [fn |-> "afterInvalidateChild", o |-> f.o, child |-> k],
                           [f EXCEPT !.copy = @ \ {k}]>>)
      PROVE  TypeOK'
  <2>1. /\ Call("invalidate", k) \in Frame
        /\ [fn |-> "afterInvalidateChild", o |-> f.o, child |-> k] \in Frame
    BY <1>1, CallType DEF Frame
  <2>2. [f EXCEPT !.copy = @ \ {k}] \in Frame
    BY <1>1 DEF Frame
  <2> QED BY <1>1, <1>3, <2>1, <2>2, SeqOfThree, CallsType DEF InvalidateChildren
<1> QED BY <1>2, <1>3 DEF InvalidateChildren

\* AfterInvalidateChild keeps the types.
LEMMA AfterInvalidateChildType ==
    ASSUME TypeOK, NEW t \in Thread, AfterInvalidateChild(t)
    PROVE  TypeOK'
<1> DEFINE f == Top(t)
<1>1. f.child \in Obj /\ Ready(t)
  BY TopType, FrameKinds DEF AfterInvalidateChild, Running
<1>2. <<RemoveParentCall(f.child, TRUE, TRUE)>> \in Seq(Frame)
  BY <1>1, RemoveParentCallType, SeqOfTwo
<1> QED BY <1>1, <1>2, ReturnType, CallsType DEF AfterInvalidateChild

\* InvalidateReferred keeps the types.
LEMMA InvalidateReferredType ==
    ASSUME TypeOK, NEW t \in Thread, InvalidateReferred(t)
    PROVE  TypeOK'
<1> DEFINE f == Top(t)
<1>1. f \in [fn : {"invalidateReferred"}, o : Obj, keys : SUBSET Keys] /\ Ready(t)
  BY TopType, FrameKinds DEF InvalidateReferred, Running
<1>2. CASE f.keys = {} /\ Return(t)
  BY <1>1, <1>2, ReturnType DEF InvalidateReferred
<1>3. ASSUME NEW k \in f.keys,
             Continue(t, <<[fn |-> "invalidateList", list |-> heap[f.o].refs[k]],
                           [f EXCEPT !.keys = @ \ {k}]>>)
      PROVE  TypeOK'
  <2>1. heap[f.o].refs[k] \subseteq Obj
    BY <1>1 DEF TypeOK, Wrapper
  <2>2. [fn |-> "invalidateList", list |-> heap[f.o].refs[k]] \in Frame
    BY <2>1 DEF Frame
  <2>3. [f EXCEPT !.keys = @ \ {k}] \in Frame
    BY <1>1 DEF Frame
  <2> QED BY <1>1, <1>3, <2>2, <2>3, SeqOfTwo, CallsType DEF InvalidateReferred
<1> QED BY <1>2, <1>3 DEF InvalidateReferred

\* InvalidateList keeps the types.
LEMMA InvalidateListType ==
    ASSUME TypeOK, NEW t \in Thread, InvalidateList(t)
    PROVE  TypeOK'
<1> DEFINE f == Top(t)
<1>1. f \in [fn : {"invalidateList"}, list : SUBSET Obj] /\ Ready(t)
  BY TopType, FrameKinds DEF InvalidateList, Running
<1>2. CASE f.list = {} /\ Return(t)
  BY <1>1, <1>2, ReturnType DEF InvalidateList
<1>3. ASSUME NEW r \in f.list,
             Continue(t, <<Call("invalidate", r), [f EXCEPT !.list = @ \ {r}]>>)
      PROVE  TypeOK'
  <2>1. Call("invalidate", r) \in Frame
    BY <1>1, CallType
  <2>2. [f EXCEPT !.list = @ \ {r}] \in Frame
    BY <1>1 DEF Frame
  <2> QED BY <1>1, <1>3, <2>1, <2>2, SeqOfTwo, CallsType DEF InvalidateList
<1> QED BY <1>2, <1>3 DEF InvalidateList

\* The release of kept references is a sequence of frames.
LEMMA ReleaseKeptCallsType ==
    ASSUME TypeOK, NEW o \in Obj, NEW K \in SUBSET Keys, NEW new \in SUBSET Obj
    PROVE  ReleaseKeptCalls(o, K, new) \in Seq(Frame)
<1>1. ASSUME NEW k \in K
      PROVE  {k} \X heap[o].refs[k] \subseteq Keys \X Obj
  BY DEF TypeOK, Wrapper
<1>2. Kept(o, K) \subseteq Keys \X Obj
  BY <1>1 DEF Kept
<1>3. /\ [fn |-> "decRefList", list |-> Kept(o, K)] \in Frame
      /\ [fn |-> "storeReferences", o |-> o, keys |-> K, new |-> new] \in Frame
  BY <1>2 DEF Frame
<1> QED BY <1>3, SeqOfTwo DEF ReleaseKeptCalls

\* ClearReferences keeps the types.
LEMMA ClearReferencesType ==
    ASSUME TypeOK, NEW t \in Thread, ClearReferences(t)
    PROVE  TypeOK'
<1> DEFINE o == Top(t).o
<1>1. o \in Obj /\ Ready(t)
  BY TopType, FrameKinds DEF ClearReferences, Running
<1>2. ReleaseKeptCalls(o, Keys, {}) \in Seq(Frame)
  BY <1>1, ReleaseKeptCallsType
<1> QED BY <1>1, <1>2, ReturnType, CallsType DEF ClearReferences

\* DecRefList keeps the types.
LEMMA DecRefListType ==
    ASSUME TypeOK, NEW t \in Thread, DecRefList(t)
    PROVE  TypeOK'
<1> DEFINE f == Top(t)
<1>1. f \in [fn : {"decRefList"}, list : SUBSET (Keys \X Obj)] /\ Ready(t)
  BY TopType, FrameKinds DEF DecRefList, Running
<1>2. CASE f.list = {} /\ Return(t)
  BY <1>1, <1>2, ReturnType DEF DecRefList
<1>3. ASSUME NEW e \in f.list,
             Continue(t, <<Call("decref", e[2]), [f EXCEPT !.list = @ \ {e}]>>)
      PROVE  TypeOK'
  <2>1. Call("decref", e[2]) \in Frame
    BY <1>1, CallType
  <2>2. [f EXCEPT !.list = @ \ {e}] \in Frame
    BY <1>1 DEF Frame
  <2> QED BY <1>1, <1>3, <2>1, <2>2, SeqOfTwo, CallsType DEF DecRefList
<1> QED BY <1>2, <1>3 DEF DecRefList

\* Replacing the lists of kept references gives a heap.
LEMMA ListsType ==
    ASSUME NEW h \in Heap, NEW o \in Obj, NEW lists \in [Keys -> SUBSET Obj]
    PROVE  [h EXCEPT ![o].refs = lists] \in Heap
BY DEF Heap, Wrapper

\* One more reference keeps the type of a wrapper.
LEMMA MoreType ==
    ASSUME NEW w \in Wrapper
    PROVE  [w EXCEPT !.rc = @ + 1] \in Wrapper
BY DEF Wrapper

\* StoreReferences keeps the types.
LEMMA StoreReferencesType ==
    ASSUME TypeOK, NEW t \in Thread, StoreReferences(t)
    PROVE  TypeOK'
<1> DEFINE f == Top(t)
           lists == [k \in Keys |-> IF k \in f.keys THEN f.new ELSE heap[f.o].refs[k]]
           h == [heap EXCEPT ![f.o].refs = lists]
<1>1. f.o \in Obj /\ f.new \subseteq Obj /\ Ready(t)
  BY TopType, FrameKinds DEF StoreReferences, Running
<1>2. lists \in [Keys -> SUBSET Obj]
  BY <1>1 DEF TypeOK, Wrapper
<1>3. h \in Heap
  <2> HIDE DEF lists
  <2> QED BY <1>1, <1>2, ListsType DEF TypeOK, Heap
<1>4. heap' = [x \in Obj |-> IF x \in f.new THEN [h[x] EXCEPT !.rc = @ + 1] ELSE h[x]]
  BY DEF StoreReferences
<1>5. heap' \in Heap
  <2> HIDE DEF h
  <2>1. ASSUME NEW x \in Obj
        PROVE  heap'[x] \in Wrapper
    <3>1. h[x] \in Wrapper /\ [h[x] EXCEPT !.rc = @ + 1] \in Wrapper
      BY <1>3, MoreType DEF Heap
    <3> QED BY <1>4, <3>1
  <2> QED BY <1>4, <2>1 DEF Heap
<1>6. <<>> \in Seq(Frame) /\ Continue(t, <<>>)
  BY DEF StoreReferences, Return
<1> QED BY <1>1, <1>5, <1>6, ContinueType DEF StoreReferences, TypeOK, Heap

\* CppDtor keeps the types.
LEMMA CppDtorType ==
    ASSUME TypeOK, NEW t \in Thread, CppDtor(t)
    PROVE  TypeOK'
<1> DEFINE p == Top(t).p
           body == [fn |-> "cppDtorBody", p |-> p]
           destroy == [fn |-> "destroy", o |-> wmap[p], p |-> p]
           calls == IF cpp[p] = "shell" THEN <<destroy, body>> ELSE <<body>>
<1>1. p \in Ptr /\ Ready(t)
  BY TopType, FrameKinds DEF CppDtor, Running
<1>2. body \in Frame /\ destroy \in Frame
  BY <1>1 DEF Frame, TypeOK
<1>3. calls \in Seq(Frame)
  <2> HIDE DEF body, destroy
  <2> QED BY <1>2, SeqOfTwo
<1>4. Continue(t, calls)
  BY DEF CppDtor
<1>5. cpp' \in [Ptr -> CppState]
  BY DEF CppDtor, TypeOK, CppState
<1> HIDE DEF calls
<1> QED BY <1>1, <1>3, <1>4, <1>5, ContinueType DEF CppDtor, TypeOK

\* CppDtorBody keeps the types.
LEMMA CppDtorBodyType ==
    ASSUME TypeOK, NEW t \in Thread, CppDtorBody(t)
    PROVE  TypeOK'
<1> DEFINE f == Top(t)
<1>1. f \in Frame /\ f.p \in Ptr /\ Ready(t)
  BY TopType, FrameKinds DEF CppDtorBody, Running
<1>2. ASSUME NEW q \in Ptr,
             owner' = [owner EXCEPT ![q] = None], Continue(t, <<DtorCall(q), f>>),
             UNCHANGED cpp
      PROVE  TypeOK'
  <2>1. <<DtorCall(q), f>> \in Seq(Frame)
    BY <1>1, DtorCallType, SeqOfTwo
  <2> QED BY <1>1, <1>2, <2>1, ContinueType DEF CppDtorBody, TypeOK
<1>3. CASE /\ cpp' = [cpp EXCEPT ![f.p] = "none"]
           /\ owner' = [owner EXCEPT ![f.p] = None]
           /\ Return(t)
  <2>1. <<>> \in Seq(Frame) /\ Continue(t, <<>>)
    BY <1>3 DEF Return
  <2> QED BY <1>1, <1>3, <2>1, ContinueType DEF CppDtorBody, TypeOK, CppState
<1> QED BY <1>2, <1>3 DEF CppDtorBody

\* Destroy keeps the types.
LEMMA DestroyType ==
    ASSUME TypeOK, NEW t \in Thread, Destroy(t)
    PROVE  TypeOK'
<1> DEFINE f == Top(t)
<1>1. f \in [fn : {"destroy"}, o : Obj \cup {None}, p : Ptr] /\ Ready(t)
  BY TopType, FrameKinds DEF Destroy, Running
<1>2. CASE f.o = None
  BY <1>1, <1>2, ReturnType DEF Destroy
<1>3. CASE f.o # None
  <2>1. Call("clearReferences", f.o) \in Frame
    BY <1>1, <1>3, CallType
  <2>2. [f EXCEPT !.fn = "destroyBranch"] \in Frame
    BY <1>1, <1>3 DEF Frame
  <2> QED BY <1>1, <1>3, <2>1, <2>2, SeqOfTwo, CallsType DEF Destroy
<1> QED BY <1>2, <1>3

\* DestroyBranch keeps the types.
LEMMA DestroyBranchType ==
    ASSUME TypeOK, NEW t \in Thread, DestroyBranch(t)
    PROVE  TypeOK'
<1> DEFINE f == Top(t)
           extra == [fn |-> "removeExtraRef", o |-> f.o, hasParent |-> HasParent(heap, f.o)]
<1>1. f \in [fn : {"destroyBranch"}, o : Obj, p : Ptr] /\ Ready(t)
  BY TopType, FrameKinds DEF DestroyBranch, Running
<1>2. Call("destroyParentInfo", f.o) \in Frame
  BY <1>1, CallType
<1>3. HasParent(heap, f.o) \in BOOLEAN
  BY DEF HasParent
<1>4. extra \in Frame
  BY <1>1, <1>3 DEF Frame
<1>5. [f EXCEPT !.fn = "forgetPointer"] \in Frame
  BY <1>1 DEF Frame
<1>6. <<Call("destroyParentInfo", f.o), extra, [f EXCEPT !.fn = "forgetPointer"]>> \in Seq(Frame)
  BY <1>2, <1>4, <1>5, SeqOfThree
<1> QED BY <1>1, <1>6, CallsType DEF DestroyBranch

\* RemoveExtraRef keeps the types.
LEMMA RemoveExtraRefType ==
    ASSUME TypeOK, NEW t \in Thread, RemoveExtraRef(t)
    PROVE  TypeOK'
<1> DEFINE o == Top(t).o
<1>1. o \in Obj /\ Ready(t)
  BY TopType, FrameKinds DEF RemoveExtraRef, Running
<1>2. CASE heap' = DecRef(heap, o) /\ Continue(t, DecRefCalls(heap, o))
  <2>1. heap' \in Heap /\ DecRefCalls(heap, o) \in Seq(Frame)
    BY <1>1, <1>2, DecRefType, DecRefCallsType DEF TypeOK, Heap
  <2> QED BY <1>1, <1>2, <2>1, ContinueType DEF RemoveExtraRef, TypeOK, Heap
<1>3. CASE Return(t) /\ UNCHANGED heap
  BY <1>1, <1>3, ReturnType DEF RemoveExtraRef
<1> QED BY <1>2, <1>3 DEF RemoveExtraRef

\* ForgetPointer keeps the types.
LEMMA ForgetPointerType ==
    ASSUME TypeOK, NEW t \in Thread, ForgetPointer(t)
    PROVE  TypeOK'
<1> DEFINE f == Top(t)
<1>1. f.o \in Obj /\ Ready(t)
  BY TopType, FrameKinds DEF ForgetPointer, Running
<1>2. Destroyed(heap[f.o]) \in Wrapper
  BY <1>1, DestroyedType DEF TypeOK
<1>3. heap' \in Heap
  BY <1>1, <1>2, UpdateType DEF ForgetPointer, TypeOK, Heap
<1>4. wmap' \in [Ptr -> Obj \cup {None}]
  BY DEF ForgetPointer, Release, TypeOK
<1>5. <<>> \in Seq(Frame) /\ Continue(t, <<>>)
  BY DEF ForgetPointer, Return
<1> QED BY <1>1, <1>3, <1>4, <1>5, ContinueType DEF ForgetPointer, TypeOK, Heap

\* Crash keeps the types.
LEMMA CrashType ==
    ASSUME TypeOK, NEW t \in Thread, Crash(t)
    PROVE  TypeOK'
BY FaultOfType DEF Crash, TypeOK

\* Every step of a call in progress keeps the types.
LEMMA StepType ==
    ASSUME TypeOK, NEW t \in Thread, Step(t)
    PROVE  TypeOK'
BY DeallocType, FreeType, DecRefStepType, RemoveParentType, DestroyParentInfoType,
   DestroyChildrenType, InvalidateType, InvalidateChildrenType, AfterInvalidateChildType,
   InvalidateReferredType, InvalidateListType, ClearReferencesType, DecRefListType,
   StoreReferencesType, CppDtorType, CppDtorBodyType, DestroyType, DestroyBranchType,
   RemoveExtraRefType, ForgetPointerType, CrashType DEF Step

-----------------------------------------------------------------------------
(* Calls of the binding, one lemma for each. *)

\* A new wrapper is a wrapper.
LEMMA NewWrapperType ==
    ASSUME NEW o \in Obj, NEW p \in Ptr, NEW own \in BOOLEAN, NEW shell \in BOOLEAN
    PROVE  NewWrapper(o, p, own, shell) \in Wrapper
BY DEF NewWrapper, NoRefs, Wrapper

\* Registering a wrapper keeps the type of the wrapper map.
LEMMA AssignType ==
    ASSUME NEW w \in [Ptr -> Obj \cup {None}], NEW o \in Obj, NEW p \in Ptr
    PROVE  Assign(w, o, p) \in [Ptr -> Obj \cup {None}]
BY DEF Assign

\* No calls are a sequence of frames, and no fault is a fault value.
LEMMA NoCalls == <<>> \in Seq(Frame) /\ "none" \in Faults
BY DEF Faults

\* One more reference of Python code gives a heap.
LEMMA ExtType ==
    ASSUME NEW h \in Heap, NEW o \in Obj
    PROVE  [h EXCEPT ![o].ext = @ + 1] \in Heap
BY DEF Heap, Wrapper

\* One less reference of Python code, when it has one, gives a heap.
LEMMA LessExtType ==
    ASSUME NEW h \in Heap, NEW o \in Obj, h[o].ext > 0
    PROVE  [h EXCEPT ![o].ext = @ - 1] \in Heap
BY DEF Heap, Wrapper

\* Allocating a ParentInfo gives a heap.
LEMMA PinfoType ==
    ASSUME NEW h \in Heap, NEW o \in Obj
    PROVE  [h EXCEPT ![o].pinfo = TRUE] \in Heap
BY DEF Heap, Wrapper

\* What Py_DECREF may do wrong is one of the faults.
LEMMA DecRefFaultType ==
    ASSUME NEW o
    PROVE  DecRefFault(o) \in Faults
BY DEF DecRefFault, Faults

\* Construct keeps the types.
LEMMA ConstructType ==
    ASSUME TypeOK, NEW t \in Thread, NEW o \in Obj, NEW p \in Ptr, Construct(t, o, p)
    PROVE  TypeOK'
<1> DEFINE h == [heap EXCEPT ![o] = NewWrapper(o, p, TRUE, o \in Polymorphic)]
<1>1. NewWrapper(o, p, TRUE, o \in Polymorphic) \in Wrapper
  <2>1. (o \in Polymorphic) \in BOOLEAN
    OBVIOUS
  <2> QED BY <2>1, NewWrapperType
<1>2. h \in Heap
  BY <1>1, UpdateType DEF TypeOK, Heap
<1>3. Enter(t, h, <<>>, "none")
  BY DEF Construct
<1>4. cpp' \in [Ptr -> CppState]
  BY DEF Construct, TypeOK, CppState
<1>5. wmap' \in [Ptr -> Obj \cup {None}]
  BY AssignType DEF Construct, TypeOK
<1> HIDE DEF h
<1> QED BY <1>2, <1>3, <1>4, <1>5, NoCalls, EnterType DEF Construct, TypeOK, Heap

\* NewObject keeps the types.
LEMMA NewObjectType ==
    ASSUME TypeOK, NEW t \in Thread, NEW o \in Obj, NEW p \in Ptr, NEW own \in BOOLEAN, NewObject(t, o, p, own)
    PROVE  TypeOK'
<1> DEFINE h == [heap EXCEPT ![o] = NewWrapper(o, p, own, FALSE)]
<1>1. NewWrapper(o, p, own, FALSE) \in Wrapper
  BY NewWrapperType
<1>2. h \in Heap
  BY <1>1, UpdateType DEF TypeOK, Heap
<1>3. Enter(t, h, <<>>, "none")
  BY DEF NewObject
<1>4. cpp' \in [Ptr -> CppState]
  BY DEF NewObject, TypeOK, CppState
<1>5. wmap' \in [Ptr -> Obj \cup {None}]
  BY AssignType DEF NewObject, TypeOK
<1> HIDE DEF h
<1> QED BY <1>2, <1>3, <1>4, <1>5, NoCalls, EnterType DEF NewObject, TypeOK, Heap

\* ReturnPointer keeps the types.
LEMMA ReturnPointerType ==
    ASSUME TypeOK, NEW t \in Thread, NEW p \in Ptr, ReturnPointer(t, p)
    PROVE  TypeOK'
<1>1. CASE \E o \in Obj : NewObject(t, o, p, FALSE)
  BY <1>1, NewObjectType
<1>2. CASE wmap[p] # None
  <2> DEFINE o == wmap[p]
             h == [IncRef(heap, o) EXCEPT ![o].ext = @ + 1]
  <2>1. o \in Obj
    BY <1>2 DEF TypeOK
  <2>2. h \in Heap
    BY <2>1, IncRefType, ExtType DEF TypeOK, Heap
  <2>3. Enter(t, h, <<>>, "none") /\ UNCHANGED <<cpp, owner, wmap>>
    BY <1>2 DEF ReturnPointer
  <2> HIDE DEF h
  <2> QED BY <2>2, <2>3, NoCalls, EnterType DEF TypeOK, Heap
<1> QED BY <1>1, <1>2 DEF ReturnPointer

\* Drop keeps the types.
LEMMA DropType ==
    ASSUME TypeOK, NEW t \in Thread, NEW o \in Obj, Drop(t, o)
    PROVE  TypeOK'
<1> DEFINE h == [heap EXCEPT ![o].ext = @ - 1]
<1>1. h \in Heap
  BY LessExtType DEF Drop, TypeOK, Heap
<1>2. DecRef(h, o) \in Heap /\ DecRefCalls(h, o) \in Seq(Frame)
  BY <1>1, DecRefType, DecRefCallsType
<1>3. Enter(t, DecRef(h, o), DecRefCalls(h, o), DecRefFault(o))
  BY DEF Drop
<1> HIDE DEF h
<1> QED BY <1>2, <1>3, DecRefFaultType, EnterType DEF Drop, TypeOK, Heap

\* SetParent keeps the types.
LEMMA SetParentType ==
    ASSUME TypeOK, NEW t \in Thread, NEW par \in Obj \cup {None}, NEW c \in Obj, SetParent(t, par, c)
    PROVE  TypeOK'
<1> DEFINE h0 == IF par = None THEN heap ELSE [heap EXCEPT ![par].pinfo = TRUE]
           h1 == IncRef(h0, c)
           h2 == IF par = None \/ HasParent(h1, c) THEN Unparent(h1, c, TRUE, FALSE) ELSE h1
           h3 == IF par = None THEN h2 ELSE Adopted(h2, par, c)
<1>1. h0 \in Heap
  BY PinfoType DEF TypeOK, Heap
<1>2. h1 \in Heap
  <2> HIDE DEF h0
  <2> QED BY <1>1, IncRefType
<1>3. h2 \in Heap
  <2> HIDE DEF h1
  <2> QED BY <1>2, UnparentType
<1>4. h3 \in Heap
  <2> HIDE DEF h2
  <2> QED BY <1>3, AdoptedType
<1>5. \/ Enter(t, h0, <<>>, "none")
      \/ Enter(t, DecRef(h3, c), DecRefCalls(h3, c), UnparentFault(h0, c))
  BY DEF SetParent
<1>6. owner' \in [Ptr -> Ptr \cup {None}]
  BY DEF SetParent, TypeOK, Wrapper
<1>7. UnparentFault(h0, c) \in Faults
  BY DEF UnparentFault, Faults
<1> HIDE DEF h0, h3
<1>8. DecRef(h3, c) \in Heap /\ DecRefCalls(h3, c) \in Seq(Frame)
  BY <1>4, DecRefType, DecRefCallsType
<1>9. /\ heap' \in Heap
      /\ stack' \in [Thread -> Seq(Frame)]
      /\ gil' \in Thread \cup {None}
      /\ fault' \in Faults
  BY <1>1, <1>5, <1>7, <1>8, NoCalls, EnterType
<1> QED BY <1>6, <1>9 DEF SetParent, TypeOK, Heap

\* ReleaseOwnership keeps the types.
LEMMA ReleaseOwnershipType ==
    ASSUME TypeOK, NEW t \in Thread, NEW o \in Obj, ReleaseOwnership(t, o)
    PROVE  TypeOK'
<1> DEFINE h == [heap EXCEPT ![o].own = FALSE]
<1>1. h \in Heap
  BY OwnType DEF TypeOK, Heap
<1>2. \/ Enter(t, IncRef(h, o), <<>>, "none")
      \/ Enter(t, h, <<Call("invalidate", o)>>, "none")
  BY DEF ReleaseOwnership
<1>3. <<Call("invalidate", o)>> \in Seq(Frame)
  BY CallType, SeqOfTwo
<1>4. IncRef(h, o) \in Heap
  <2> HIDE DEF h
  <2> QED BY <1>1, IncRefType
<1> HIDE DEF h
<1> QED BY <1>1, <1>2, <1>3, <1>4, NoCalls, EnterType DEF ReleaseOwnership, TypeOK, Heap

\* makeValid gives a heap.
LEMMA MadeValidType ==
    ASSUME NEW h \in Heap, NEW o \in Obj
    PROVE  MadeValid(h, o) \in Heap
<1>1. ASSUME NEW x \in Obj, NEW b \in BOOLEAN
      PROVE  [h[x] EXCEPT !.valid = b] \in Wrapper
  BY DEF Heap, Wrapper
<1>2. ASSUME NEW x \in Obj
      PROVE  [h[x] EXCEPT !.valid = @ \/ x \in Revived(h, o)] \in Wrapper
  <2>1. (h[x].valid \/ x \in Revived(h, o)) \in BOOLEAN
    OBVIOUS
  <2> QED BY <1>1, <2>1
<1> QED BY <1>2 DEF MadeValid, Heap

\* GetOwnership keeps the types.
LEMMA GetOwnershipType ==
    ASSUME TypeOK, NEW t \in Thread, NEW o \in Obj, GetOwnership(t, o)
    PROVE  TypeOK'
<1> DEFINE h == [heap EXCEPT ![o].own = TRUE]
           f == IF \E x \in Revived(h, o) : ~Alive(x) THEN "use-after-free" ELSE "none"
<1>1. h \in Heap
  BY OwnType DEF TypeOK, Heap
<1>2. \/ Enter(t, DecRef(h, o), DecRefCalls(h, o), DecRefFault(o))
      \/ Enter(t, MadeValid(h, o), <<>>, f)
  BY DEF GetOwnership
<1>3. f \in Faults
  BY DEF Faults
<1> HIDE DEF h, f
<1>4. /\ DecRef(h, o) \in Heap /\ DecRefCalls(h, o) \in Seq(Frame)
      /\ MadeValid(h, o) \in Heap
  BY <1>1, DecRefType, DecRefCallsType, MadeValidType
<1>5. /\ heap' \in Heap
      /\ stack' \in [Thread -> Seq(Frame)]
      /\ gil' \in Thread \cup {None}
      /\ fault' \in Faults
  BY <1>2, <1>3, <1>4, DecRefFaultType, NoCalls, EnterType
<1> QED BY <1>5 DEF GetOwnership, TypeOK, Heap

\* InvalidateArgument keeps the types.
LEMMA InvalidateArgumentType ==
    ASSUME TypeOK, NEW t \in Thread, NEW o \in Obj, InvalidateArgument(t, o)
    PROVE  TypeOK'
<1>1. <<Call("invalidate", o)>> \in Seq(Frame)
  BY CallType, SeqOfTwo
<1>2. heap \in Heap
  BY DEF TypeOK, Heap
<1> QED BY <1>1, <1>2, NoCalls, EnterType DEF InvalidateArgument, TypeOK, Heap

\* One more kept reference gives a heap.
LEMMA ListType ==
    ASSUME NEW h \in Heap, NEW o \in Obj, NEW k \in Keys, NEW r \in Obj
    PROVE  [h EXCEPT ![o].refs[k] = @ \cup {r}] \in Heap
BY DEF Heap, Wrapper

\* KeepReference keeps the types.
LEMMA KeepReferenceType ==
    ASSUME TypeOK, NEW t \in Thread, NEW o \in Obj, NEW k \in Keys, NEW r \in Obj, KeepReference(t, o, k, r)
    PROVE  TypeOK'
<1> DEFINE h == IncRef(heap, r)
           g == [h EXCEPT ![o].refs[k] = @ \cup {r}]
<1>1. h \in Heap /\ heap \in Heap
  BY IncRefType DEF TypeOK, Heap
<1>2. g \in Heap
  <2> HIDE DEF h
  <2> QED BY <1>1, ListType
<1>3. ReleaseKeptCalls(o, {k}, {r}) \in Seq(Frame)
  BY ReleaseKeptCallsType
<1>4. Enter(t, g, <<>>, "none") \/ Enter(t, heap, ReleaseKeptCalls(o, {k}, {r}), "none")
  BY DEF KeepReference
<1> HIDE DEF g
<1> QED BY <1>1, <1>2, <1>3, <1>4, NoCalls, EnterType DEF KeepReference, TypeOK, Heap

\* RemoveReference keeps the types.
LEMMA RemoveReferenceType ==
    ASSUME TypeOK, NEW t \in Thread, NEW o \in Obj, NEW k \in Keys, RemoveReference(t, o, k)
    PROVE  TypeOK'
<1>1. ReleaseKeptCalls(o, {k}, {}) \in Seq(Frame)
  BY ReleaseKeptCallsType
<1>2. heap \in Heap
  BY DEF TypeOK, Heap
<1> QED BY <1>1, <1>2, NoCalls, EnterType DEF RemoveReference, TypeOK, Heap

\* TpClear keeps the types.
LEMMA TpClearType ==
    ASSUME TypeOK, NEW t \in Thread, NEW o \in Obj, TpClear(t, o)
    PROVE  TypeOK'
<1>1. <<Call("decref", o)>> \in Seq(Frame)
  BY CallType, SeqOfTwo
<1>2. CleanupCalls(o) \o <<Call("decref", o)>> \in Seq(Frame)
  BY <1>1, CleanupCallsType
<1>3. IncRef(heap, o) \in Heap
  BY IncRefType DEF TypeOK, Heap
<1> QED BY <1>2, <1>3, NoCalls, EnterType DEF TpClear, TypeOK, Heap

\* CppDelete keeps the types.
LEMMA CppDeleteType ==
    ASSUME TypeOK, NEW t \in Thread, NEW p \in Ptr, CppDelete(t, p)
    PROVE  TypeOK'
<1>1. <<DtorCall(p)>> \in Seq(Frame)
  BY DtorCallType, SeqOfTwo
<1> QED BY <1>1 DEF CppDelete, TypeOK

\* Every call of the binding and every deletion by C++ keeps the types.
LEMMA OperationType ==
    ASSUME TypeOK, NEW t \in Thread, Operation(t)
    PROVE  TypeOK'
<1>1. ASSUME NEW o \in Obj, NEW p \in Ptr, ReturnCopy(t, o, p)
      PROVE  TypeOK'
  BY <1>1, NewObjectType DEF ReturnCopy
<1> QED BY <1>1, ConstructType, ReturnPointerType, CppDeleteType, DropType,
           ReleaseOwnershipType, GetOwnershipType, InvalidateArgumentType, TpClearType,
           SetParentType, RemoveReferenceType, KeepReferenceType DEF Operation

\* The state of a program that has no wrapper yet is of the types.
LEMMA InitType ==
    Init => TypeOK
BY BlankType, NoCalls DEF Init, TypeOK, CppState, Faults

\* For every set of threads, wrappers and addresses, and whatever tags a binding
\* uses, every reachable state is of the types TypeOK gives: the record of each
\* wrapper, the wrapper map, and the calls in progress with their arguments.
THEOREM TypeCorrect ==
    Spec => []TypeOK
<1>1. ASSUME TypeOK, [Next]_vars
      PROVE  TypeOK'
  <2>1. CASE Next
    BY <1>1, <2>1, StepType, OperationType DEF Next
  <2>2. CASE UNCHANGED vars
    BY <1>1, <2>2 DEF vars, TypeOK
  <2> QED BY <1>1, <2>1, <2>2
<1> QED BY InitType, <1>1, PTL DEF Spec

-----------------------------------------------------------------------------
(* The inductive invariant.                                                *)

\* A step may change w only so that it stays allocated and keeps its address.
Stays(v, w) == w.cptr = v.cptr /\ (v.st # "free" => w.st # "free")

KeepsAddresses(g, h) == \A o \in Obj : Stays(g[o], h[o])

\* KeepsAddresses composes.
LEMMA KeepsTransitive ==
    ASSUME NEW f, NEW g, NEW h, KeepsAddresses(f, g), KeepsAddresses(g, h)
    PROVE  KeepsAddresses(f, h)
BY DEF KeepsAddresses, Stays

\* Replacing one wrapper is as sound as the new wrapper.
LEMMA UpdateSound ==
    ASSUME NEW h \in Heap, NEW o \in Obj, NEW w \in Wrapper
    PROVE  /\ Stays(h[o], w) => KeepsAddresses(h, [h EXCEPT ![o] = w])
           /\ Parentless(w) /\ NoOwnedChild(h) => NoOwnedChild([h EXCEPT ![o] = w])
BY DEF KeepsAddresses, NoOwnedChild, Heap, Stays

\* Py_INCREF keeps addresses and owners.
LEMMA IncRefSound ==
    ASSUME NEW h \in Heap, NEW o \in Obj
    PROVE  /\ KeepsAddresses(h, IncRef(h, o))
           /\ NoOwnedChild(h) => NoOwnedChild(IncRef(h, o))
BY DEF IncRef, KeepsAddresses, NoOwnedChild, Stays, Parentless, Single, Heap, Wrapper

\* A changed count keeps a wrapper's address and owner.
LEMMA CountedSound ==
    ASSUME NEW w \in Wrapper, NEW n \in Int
    PROVE  /\ Stays(w, Counted(w, n))
           /\ Parentless(w) => Parentless(Counted(w, n))
BY DEF Counted, Stays, Parentless, Single, Wrapper

\* Py_DECREF keeps addresses and owners: deallocation comes later.
LEMMA DecRefSound ==
    ASSUME NEW h \in Heap, NEW o \in Obj
    PROVE  /\ KeepsAddresses(h, DecRef(h, o))
           /\ NoOwnedChild(h) => NoOwnedChild(DecRef(h, o))
<1>1. h[o] \in Wrapper /\ h[o].rc - 1 \in Int
  BY DEF Heap, Wrapper
<1>2. NoOwnedChild(h) => Parentless(h[o])
  BY DEF NoOwnedChild
<1> QED BY <1>1, <1>2, CountedType, CountedSound, UpdateSound DEF DecRef

\* Without ParentInfo there is no parent.
LEMMA AloneSound ==
    ASSUME NEW w \in Wrapper
    PROVE  Stays(w, Alone(w)) /\ Parentless(Alone(w))
BY DEF Alone, Stays, Parentless, Single, Wrapper

\* Deleting a ParentInfo keeps addresses and owners.
LEMMA DeleteParentInfoSound ==
    ASSUME NEW h \in Heap, NEW o \in Obj
    PROVE  /\ KeepsAddresses(h, DeleteParentInfo(h, o))
           /\ NoOwnedChild(h) => NoOwnedChild(DeleteParentInfo(h, o))
<1>1. h[o] \in Wrapper
  BY DEF Heap
<1> QED BY <1>1, AloneType, AloneSound, UpdateSound DEF DeleteParentInfo

\* A wrapper that is given a parent loses its ownership.
LEMMA ChildOfSound ==
    ASSUME NEW w \in Wrapper, NEW p \in Obj
    PROVE  Stays(w, ChildOf(w, p)) /\ Parentless(ChildOf(w, p))
BY DEF ChildOf, Stays, Parentless, Single, Wrapper

\* A destroyed instance has no address and no owner in Python.
LEMMA DestroyedSound ==
    ASSUME NEW w \in Wrapper
    PROVE  /\ Destroyed(w).st = w.st /\ Destroyed(w).cptr = None
           /\ Parentless(w) => Parentless(Destroyed(w))
BY DEF Destroyed, Parentless, Single, Wrapper

\* setParent's changes keep addresses and owners.
LEMMA AdoptedSound ==
    ASSUME NEW h \in Heap, NEW par \in Obj, NEW c \in Obj
    PROVE  /\ KeepsAddresses(h, Adopted(h, par, c))
           /\ NoOwnedChild(h) => NoOwnedChild(Adopted(h, par, c))
<1> DEFINE g == [h EXCEPT ![c] = ChildOf(@, par)]
           k == [g EXCEPT ![par].kids = @ \cup {c}]
<1>1. h[c] \in Wrapper
  BY DEF Heap
<1>2. KeepsAddresses(h, g) /\ (NoOwnedChild(h) => NoOwnedChild(g)) /\ g \in Heap
  BY <1>1, ChildOfType, ChildOfSound, UpdateSound, UpdateType
<1>3. KeepsAddresses(g, k) /\ (NoOwnedChild(g) => NoOwnedChild(k))
  <2> HIDE DEF g
  <2> QED BY <1>2 DEF KeepsAddresses, NoOwnedChild, Stays, Parentless, Single, Heap, Wrapper
<1>4. Adopted(h, par, c) = k
  BY DEF Adopted
<1> HIDE DEF g, k
<1> QED BY <1>2, <1>3, <1>4, KeepsTransitive

\* Taking a child off its parent's list keeps addresses and owners.
LEMMA OrphanedSound ==
    ASSUME NEW h \in Heap, NEW c \in Obj, HasParent(h, c)
    PROVE  /\ KeepsAddresses(h, Orphaned(h, c))
           /\ NoOwnedChild(h) => NoOwnedChild(Orphaned(h, c))
           /\ Orphaned(h, c)[c].parent = None
BY DEF Orphaned, HasParent, KeepsAddresses, NoOwnedChild, Stays, Parentless, Single, Heap, Wrapper

\* Setting hasWrapperRef keeps addresses and owners.
LEMMA WrapperRefSound ==
    ASSUME NEW h \in Heap, NEW o \in Obj
    PROVE  /\ KeepsAddresses(h, [h EXCEPT ![o].wref = TRUE])
           /\ NoOwnedChild(h) => NoOwnedChild([h EXCEPT ![o].wref = TRUE])
BY DEF KeepsAddresses, NoOwnedChild, Stays, Parentless, Single, Heap, Wrapper

\* Setting hasOwnership is sound for a wrapper without parent.
LEMMA OwnSound ==
    ASSUME NEW h \in Heap, NEW o \in Obj, NEW own \in BOOLEAN
    PROVE  /\ KeepsAddresses(h, [h EXCEPT ![o].own = own])
           /\ NoOwnedChild(h) /\ (own => h[o].parent = None)
                => NoOwnedChild([h EXCEPT ![o].own = own])
BY DEF KeepsAddresses, NoOwnedChild, Stays, Parentless, Single, Heap, Wrapper

\* Allocating a ParentInfo keeps addresses and owners.
LEMMA PinfoSound ==
    ASSUME NEW h \in Heap, NEW o \in Obj
    PROVE  /\ KeepsAddresses(h, [h EXCEPT ![o].pinfo = TRUE])
           /\ NoOwnedChild(h) => NoOwnedChild([h EXCEPT ![o].pinfo = TRUE])
BY DEF KeepsAddresses, NoOwnedChild, Stays, Parentless, Single, Heap, Wrapper

\* References of Python code do not matter to addresses and owners.
LEMMA ExtSound ==
    ASSUME NEW h \in Heap, NEW o \in Obj, NEW n
    PROVE  /\ KeepsAddresses(h, [h EXCEPT ![o].ext = n])
           /\ NoOwnedChild(h) => NoOwnedChild([h EXCEPT ![o].ext = n])
BY DEF KeepsAddresses, NoOwnedChild, Stays, Parentless, Single, Heap, Wrapper

\* Clearing validCppObject keeps addresses and owners.
LEMMA InvalidSound ==
    ASSUME NEW h \in Heap, NEW o \in Obj
    PROVE  /\ KeepsAddresses(h, [h EXCEPT ![o].valid = FALSE])
           /\ NoOwnedChild(h) => NoOwnedChild([h EXCEPT ![o].valid = FALSE])
BY DEF KeepsAddresses, NoOwnedChild, Stays, Parentless, Single, Heap, Wrapper

\* Replacing lists of kept references keeps addresses and owners.
LEMMA ListsSound ==
    ASSUME NEW h \in Heap, NEW o \in Obj, NEW lists
    PROVE  /\ KeepsAddresses(h, [h EXCEPT ![o].refs = lists])
           /\ NoOwnedChild(h) => NoOwnedChild([h EXCEPT ![o].refs = lists])
BY DEF KeepsAddresses, NoOwnedChild, Stays, Parentless, Single, Heap, Wrapper

\* One more kept reference keeps addresses and owners.
LEMMA ListSound ==
    ASSUME NEW h \in Heap, NEW o \in Obj, NEW k \in Keys, NEW r \in Obj
    PROVE  /\ KeepsAddresses(h, [h EXCEPT ![o].refs[k] = @ \cup {r}])
           /\ NoOwnedChild(h) => NoOwnedChild([h EXCEPT ![o].refs[k] = @ \cup {r}])
BY DEF KeepsAddresses, NoOwnedChild, Stays, Parentless, Single, Heap, Wrapper

\* makeValid keeps addresses and owners.
LEMMA MadeValidSound ==
    ASSUME NEW h \in Heap, NEW o \in Obj
    PROVE  /\ KeepsAddresses(h, MadeValid(h, o))
           /\ NoOwnedChild(h) => NoOwnedChild(MadeValid(h, o))
BY DEF MadeValid, KeepsAddresses, NoOwnedChild, Stays, Parentless, Single, Heap, Wrapper

\* All the ways out of removeParent keep addresses and owners.
LEMMA UnparentSound ==
    ASSUME NEW h \in Heap, NEW c \in Obj, NEW give \in BOOLEAN, NEW keep \in BOOLEAN
    PROVE  /\ KeepsAddresses(h, Unparent(h, c, give, keep))
           /\ NoOwnedChild(h) => NoOwnedChild(Unparent(h, c, give, keep))
<1> DEFINE Sound(g) == /\ g \in Heap /\ KeepsAddresses(h, g)
                       /\ NoOwnedChild(h) => NoOwnedChild(g)
           g0 == Orphaned(h, c)
           g1 == [g0 EXCEPT ![c].own = give]
           g2 == [g0 EXCEPT ![c].wref = TRUE]
<1>1. Sound(h)
  BY DEF KeepsAddresses, Stays
<1>2. CASE ~HasParent(h, c)
  BY <1>1, <1>2, DeleteParentInfoSound DEF Unparent
<1>3. CASE HasParent(h, c)
  <2>1. Sound(g0) /\ g0[c].parent = None
    BY <1>3, OrphanedType, OrphanedSound
  <2>2. Sound(g1)
    <3> HIDE DEF g0
    <3>1. g1 \in Heap /\ KeepsAddresses(g0, g1) /\ (NoOwnedChild(g0) => NoOwnedChild(g1))
      BY <2>1, OwnType, OwnSound
    <3> HIDE DEF g1
    <3> QED BY <2>1, <3>1, KeepsTransitive
  <2>3. Sound(g2)
    <3> HIDE DEF g0
    <3>1. g2 \in Heap /\ KeepsAddresses(g0, g2) /\ (NoOwnedChild(g0) => NoOwnedChild(g2))
      BY <2>1, WrapperRefType, WrapperRefSound
    <3> HIDE DEF g2
    <3> QED BY <2>1, <3>1, KeepsTransitive
  <2>4. Sound(GivenBack(h, c, give))
    <3>1. Sound(DeleteParentInfo(g1, c))
      <4> HIDE DEF g1
      <4> QED BY <2>2, DeleteParentInfoType, DeleteParentInfoSound, KeepsTransitive
    <3>2. GivenBack(h, c, give) = g1 \/ GivenBack(h, c, give) = DeleteParentInfo(g1, c)
      BY DEF GivenBack
    <3> HIDE DEF g1
    <3> QED BY <2>2, <3>1, <3>2
  <2>5. Sound(BeforeDecRef(h, c, give, keep))
    BY <2>1, <2>4 DEF BeforeDecRef
  <2>6. Sound(DecRef(BeforeDecRef(h, c, give, keep), c))
    BY <2>5, DecRefType, DecRefSound, KeepsTransitive
  <2>7. \/ Unparent(h, c, give, keep) = h
        \/ Unparent(h, c, give, keep) = DecRef(BeforeDecRef(h, c, give, keep), c)
        \/ Unparent(h, c, give, keep) = g2
    BY <1>3 DEF Unparent
  <2> HIDE DEF g2
  <2> QED BY <1>1, <2>3, <2>6, <2>7
<1> QED BY <1>2, <1>3

\* A heap that an action may leave: of its type, with addresses kept and with
\* no child that Python owns if there was none.
HeapStep(h) ==
    /\ h \in Heap /\ KeepsAddresses(heap, h)
    /\ NoOwnedChild(heap) => NoOwnedChild(h)

\* The action changes the heap soundly and registers nothing.
Preserves == HeapStep(heap') /\ wmap' = wmap

\* A heap that does not change is sound.
LEMMA SameHeap ==
    ASSUME TypeOK
    PROVE  HeapStep(heap)
BY DEF HeapStep, KeepsAddresses, Stays, TypeOK, Heap

\* Sound changes compose.
LEMMA StepAfter ==
    ASSUME NEW g, NEW h, HeapStep(g), h \in Heap, KeepsAddresses(g, h),
           NoOwnedChild(g) => NoOwnedChild(h)
    PROVE  HeapStep(h)
BY KeepsTransitive DEF HeapStep

\* A step that changes the heap soundly and not the wrapper map keeps the invariant.
LEMMA PreservesInv ==
    ASSUME IInv, TypeOK', Preserves
    PROVE  IInv'
<1>1. RegistrySound'
  BY DEF IInv, Preserves, HeapStep, KeepsAddresses, Stays, RegistrySound, Alive, TypeOK
<1> QED BY <1>1 DEF IInv, Preserves, HeapStep

\* A call of the binding is as sound as the heap it leaves.
LEMMA EnterPreserves ==
    ASSUME TypeOK, NEW t, NEW h, NEW calls, NEW f, HeapStep(h), Enter(t, h, calls, f)
    PROVE  HeapStep(heap')
BY SameHeap DEF Enter

-----------------------------------------------------------------------------
(* The actions that change the wrapper map. *)

\* tp_free unregisters the address before the memory goes.
LEMMA FreeInv ==
    ASSUME IInv, NEW t \in Thread, Free(t)
    PROVE  RegistrySound' /\ NoOwnedChild(heap')
<1> DEFINE o == Top(t).o
<1>1. o \in Obj
  BY TopType, FrameKinds DEF Free, Running, IInv
<1>2. heap' = [heap EXCEPT ![o] = Blank] /\ wmap' = Release(wmap, heap, o)
  BY DEF Free
<1>3. Parentless(Blank)
  BY DEF Parentless, Single, Blank
<1>4. NoOwnedChild(heap')
  BY <1>1, <1>2, <1>3, BlankType, UpdateSound DEF IInv, TypeOK, Heap
<1>5. RegistrySound'
  BY <1>1, <1>2 DEF IInv, TypeOK, RegistrySound, Release, Alive
<1> QED BY <1>4, <1>5

\* invalidate unregisters the address of the wrapper and no other.
LEMMA InvalidateInv ==
    ASSUME IInv, NEW t \in Thread, Invalidate(t)
    PROVE  RegistrySound' /\ NoOwnedChild(heap')
<1> DEFINE o == Top(t).o
<1>1. o \in Obj
  BY TopType, FrameKinds DEF Invalidate, Running, IInv
<1>2. CASE UNCHANGED <<heap, wmap>>
  BY <1>2 DEF IInv, RegistrySound, Alive
<1>3. CASE heap' = [heap EXCEPT ![o].valid = FALSE] /\ wmap' = Release(wmap, heap, o)
  <2>1. KeepsAddresses(heap, heap') /\ NoOwnedChild(heap')
    BY <1>1, <1>3, InvalidSound DEF IInv, TypeOK, Heap
  <2>2. RegistrySound'
    BY <1>3, <2>1 DEF IInv, TypeOK, RegistrySound, Release, Alive, KeepsAddresses, Stays
  <2> QED BY <2>1, <2>2
<1> QED BY <1>2, <1>3 DEF Invalidate

\* Object::destroy unregisters the address it clears.
LEMMA ForgetPointerInv ==
    ASSUME IInv, NEW t \in Thread, ForgetPointer(t)
    PROVE  RegistrySound' /\ NoOwnedChild(heap')
<1> DEFINE o == Top(t).o
<1>1. o \in Obj
  BY TopType, FrameKinds DEF ForgetPointer, Running, IInv
<1>2. CASE UNCHANGED <<heap, wmap>>
  BY <1>2 DEF IInv, RegistrySound, Alive
<1>3. CASE heap' = [heap EXCEPT ![o] = Destroyed(@)] /\ wmap' = Release(wmap, heap, o)
  <2>1. heap[o] \in Wrapper /\ Parentless(heap[o])
    BY <1>1 DEF IInv, TypeOK, NoOwnedChild
  <2>2. NoOwnedChild(heap')
    BY <1>1, <1>3, <2>1, DestroyedType, DestroyedSound, UpdateSound DEF IInv, TypeOK, Heap
  <2>3. Destroyed(heap[o]).st = heap[o].st
    BY <2>1, DestroyedSound
  <2>4. RegistrySound'
    BY <1>1, <1>3, <2>3 DEF IInv, TypeOK, RegistrySound, Release, Alive
  <2> QED BY <2>2, <2>4
<1> QED BY <1>2, <1>3 DEF ForgetPointer

\* A new wrapper registers itself, or leaves the wrapper it finds.
LEMMA NewWrapperInv ==
    ASSUME IInv, NEW o \in Obj, NEW p \in Ptr, NEW own \in BOOLEAN, NEW shell \in BOOLEAN,
           ~Alive(o), heap' = [heap EXCEPT ![o] = NewWrapper(o, p, own, shell)],
           wmap' = Assign(wmap, o, p)
    PROVE  RegistrySound' /\ NoOwnedChild(heap')
<1> DEFINE w == NewWrapper(o, p, own, shell)
<1>1. w \in Wrapper /\ Parentless(w) /\ w.st = "alive" /\ w.cptr = p
  BY NewWrapperType DEF NewWrapper, Parentless, Single
<1> HIDE DEF w
<1>2. heap' = [heap EXCEPT ![o] = w]
  BY DEF w
<1>3. heap \in Heap /\ NoOwnedChild(heap)
  BY DEF IInv, TypeOK, Heap
<1>4. NoOwnedChild([heap EXCEPT ![o] = w])
  BY <1>1, <1>3, UpdateSound
<1>5. RegistrySound'
  BY <1>1, <1>2 DEF IInv, TypeOK, RegistrySound, Assign, Alive
<1> QED BY <1>2, <1>4, <1>5

\* One more reference keeps a wrapper's address and owner.
LEMMA MoreSound ==
    ASSUME NEW v, NEW w \in Wrapper, Stays(v, w), Parentless(w)
    PROVE  Stays(v, [w EXCEPT !.rc = @ + 1]) /\ Parentless([w EXCEPT !.rc = @ + 1])
BY DEF Stays, Parentless, Single, Wrapper

\* Every step of a call in progress keeps the invariant.
LEMMA StepInv ==
    ASSUME IInv, NEW t \in Thread, Step(t)
    PROVE  IInv'
<1> USE DEF IInv
<1>1. TypeOK'
  BY StepType
<1>2. CASE UNCHANGED <<heap, wmap>>
  BY <1>1, <1>2, SameHeap, PreservesInv DEF Preserves
<1>3. CASE Free(t)
  BY <1>1, <1>3, FreeInv
<1>4. CASE Invalidate(t)
  BY <1>1, <1>4, InvalidateInv
<1>5. CASE ForgetPointer(t)
  BY <1>1, <1>5, ForgetPointerInv
<1>6. CASE DecRefStep(t) \/ RemoveExtraRef(t)
  <2>1. Top(t).o \in Obj
    BY <1>6, TopType, FrameKinds DEF DecRefStep, RemoveExtraRef, Running
  <2>2. HeapStep(DecRef(heap, Top(t).o))
    BY <2>1, SameHeap, StepAfter, DecRefType, DecRefSound DEF TypeOK, Heap
  <2>3. Preserves
    BY <1>6, <2>2, SameHeap DEF DecRefStep, RemoveExtraRef, Preserves
  <2> QED BY <1>1, <2>3, PreservesInv
<1>7. CASE RemoveParent(t)
  <2> DEFINE f == Top(t)
  <2>1. f.o \in Obj /\ f.give \in BOOLEAN /\ f.keep \in BOOLEAN
    BY <1>7, TopType, FrameKinds DEF RemoveParent, Running
  <2>2. HeapStep(Unparent(heap, f.o, f.give, f.keep))
    BY <2>1, SameHeap, StepAfter, UnparentType, UnparentSound DEF TypeOK, Heap
  <2>3. Preserves
    BY <1>7, <2>2 DEF RemoveParent, Preserves
  <2> QED BY <1>1, <2>3, PreservesInv
<1>8. CASE StoreReferences(t)
  <2> DEFINE f == Top(t)
             lists == [k \in Keys |-> IF k \in f.keys THEN f.new ELSE heap[f.o].refs[k]]
             h == [heap EXCEPT ![f.o].refs = lists]
  <2>1. f.o \in Obj /\ f.new \subseteq Obj
    BY <1>8, TopType, FrameKinds DEF StoreReferences, Running
  <2>2. h \in Heap /\ KeepsAddresses(heap, h) /\ NoOwnedChild(h)
    <3>1. lists \in [Keys -> SUBSET Obj]
      BY <2>1 DEF TypeOK, Wrapper
    <3> HIDE DEF lists
    <3> QED BY <2>1, <3>1, ListsType, ListsSound DEF TypeOK, Heap
  <2>3. /\ heap' = [x \in Obj |-> IF x \in f.new THEN [h[x] EXCEPT !.rc = @ + 1] ELSE h[x]]
        /\ wmap' = wmap
    BY <1>8 DEF StoreReferences
  <2>4. ASSUME NEW x \in Obj
        PROVE  Stays(heap[x], heap'[x]) /\ Parentless(heap'[x])
    <3> HIDE DEF h
    <3>1. Stays(heap[x], h[x]) /\ Parentless(h[x]) /\ h[x] \in Wrapper
      BY <2>2 DEF KeepsAddresses, NoOwnedChild, Heap
    <3>2. heap'[x] = h[x] \/ heap'[x] = [h[x] EXCEPT !.rc = @ + 1]
      BY <2>3
    <3> QED BY <3>1, <3>2, MoreSound
  <2>5. Preserves
    BY <1>1, <2>3, <2>4 DEF Preserves, HeapStep, KeepsAddresses, NoOwnedChild, TypeOK, Heap
  <2> QED BY <1>1, <2>5, PreservesInv
<1>9. \/ UNCHANGED <<heap, wmap>> \/ Free(t) \/ Invalidate(t) \/ ForgetPointer(t)
      \/ DecRefStep(t) \/ RemoveExtraRef(t) \/ RemoveParent(t) \/ StoreReferences(t)
  BY DEF Step, Dealloc, DestroyParentInfo, DestroyChildren, InvalidateChildren,
         AfterInvalidateChild, InvalidateReferred, InvalidateList, ClearReferences, DecRefList,
         CppDtor, CppDtorBody, Destroy, DestroyBranch, Crash
<1> QED BY <1>2, <1>3, <1>4, <1>5, <1>6, <1>7, <1>8, <1>9

-----------------------------------------------------------------------------
(* Calls of the binding. *)

\* setParent changes the heap soundly.
LEMMA SetParentSound ==
    ASSUME IInv, NEW t \in Thread, NEW par \in Obj \cup {None}, NEW c \in Obj,
           SetParent(t, par, c)
    PROVE  HeapStep(heap')
<1> USE DEF IInv
<1> DEFINE h0 == IF par = None THEN heap ELSE [heap EXCEPT ![par].pinfo = TRUE]
           h1 == IncRef(h0, c)
           h2 == IF par = None \/ HasParent(h1, c) THEN Unparent(h1, c, TRUE, FALSE) ELSE h1
           h3 == IF par = None THEN h2 ELSE Adopted(h2, par, c)
<1>1. HeapStep(h0)
  BY SameHeap, StepAfter, PinfoType, PinfoSound DEF TypeOK, Heap
<1>2. HeapStep(h1)
  <2> HIDE DEF h0
  <2>1. h0 \in Heap
    BY <1>1 DEF HeapStep
  <2> QED BY <1>1, <2>1, StepAfter, IncRefType, IncRefSound
<1>3. HeapStep(h2)
  <2> HIDE DEF h1
  <2>1. h1 \in Heap
    BY <1>2 DEF HeapStep
  <2> QED BY <1>2, <2>1, StepAfter, UnparentType, UnparentSound
<1>4. HeapStep(h3)
  <2> HIDE DEF h2
  <2>1. h2 \in Heap
    BY <1>3 DEF HeapStep
  <2> QED BY <1>3, <2>1, StepAfter, AdoptedType, AdoptedSound
<1>5. \/ Enter(t, h0, <<>>, "none")
      \/ Enter(t, DecRef(h3, c), DecRefCalls(h3, c), UnparentFault(h0, c))
  BY DEF SetParent
<1> HIDE DEF h0, h3
<1>6. HeapStep(DecRef(h3, c))
  <2>1. h3 \in Heap
    BY <1>4 DEF HeapStep
  <2> QED BY <1>4, <2>1, StepAfter, DecRefType, DecRefSound
<1> QED BY <1>1, <1>5, <1>6, EnterPreserves

\* Dropping a reference and moving ownership change the heap soundly.
LEMMA OwnershipSound ==
    ASSUME IInv, NEW t \in Thread, NEW o \in Obj,
           Drop(t, o) \/ ReleaseOwnership(t, o) \/ GetOwnership(t, o)
    PROVE  HeapStep(heap')
<1> USE DEF IInv
<1>1. heap \in Heap /\ HeapStep(heap)
  BY SameHeap DEF TypeOK, Heap
<1>2. CASE Drop(t, o)
  <2> DEFINE h == [heap EXCEPT ![o].ext = @ - 1]
  <2>1. h \in Heap /\ HeapStep(h)
    BY <1>1, <1>2, StepAfter, LessExtType, ExtSound DEF Drop
  <2>2. Enter(t, DecRef(h, o), DecRefCalls(h, o), DecRefFault(o))
    BY <1>2 DEF Drop
  <2> HIDE DEF h
  <2>3. HeapStep(DecRef(h, o))
    BY <2>1, StepAfter, DecRefType, DecRefSound
  <2> QED BY <2>2, <2>3, EnterPreserves
<1>3. CASE ReleaseOwnership(t, o)
  <2> DEFINE h == [heap EXCEPT ![o].own = FALSE]
  <2>1. h \in Heap /\ HeapStep(h)
    BY <1>1, StepAfter, OwnType, OwnSound
  <2>2. \/ Enter(t, IncRef(h, o), <<>>, "none")
        \/ Enter(t, h, <<Call("invalidate", o)>>, "none")
    BY <1>3 DEF ReleaseOwnership
  <2> HIDE DEF h
  <2>3. HeapStep(IncRef(h, o))
    BY <2>1, StepAfter, IncRefType, IncRefSound
  <2> QED BY <2>1, <2>2, <2>3, EnterPreserves
<1>4. CASE GetOwnership(t, o)
  <2> DEFINE h == [heap EXCEPT ![o].own = TRUE]
             f == IF \E x \in Revived(h, o) : ~Alive(x) THEN "use-after-free" ELSE "none"
  <2>1. heap[o].parent = None
    BY <1>4 DEF GetOwnership, HasParent, NoOwnedChild, Parentless, Single
  <2>2. h \in Heap /\ HeapStep(h)
    BY <1>1, <2>1, StepAfter, OwnType, OwnSound
  <2>3. \/ Enter(t, DecRef(h, o), DecRefCalls(h, o), DecRefFault(o))
        \/ Enter(t, MadeValid(h, o), <<>>, f)
    BY <1>4 DEF GetOwnership
  <2> HIDE DEF h, f
  <2>4. HeapStep(DecRef(h, o)) /\ HeapStep(MadeValid(h, o))
    BY <2>2, StepAfter, DecRefType, DecRefSound, MadeValidType, MadeValidSound
  <2> QED BY <2>3, <2>4, EnterPreserves
<1> QED BY <1>2, <1>3, <1>4

\* keepReference changes the heap soundly.
LEMMA KeepReferenceSound ==
    ASSUME IInv, NEW t \in Thread, NEW o \in Obj, NEW k \in Keys, NEW r \in Obj,
           KeepReference(t, o, k, r)
    PROVE  HeapStep(heap')
<1> USE DEF IInv
<1> DEFINE h == IncRef(heap, r)
           g == [h EXCEPT ![o].refs[k] = @ \cup {r}]
<1>1. h \in Heap /\ HeapStep(h)
  BY SameHeap, StepAfter, IncRefType, IncRefSound DEF TypeOK, Heap
<1>2. HeapStep(g)
  <2> HIDE DEF h
  <2> QED BY <1>1, StepAfter, ListType, ListSound
<1>3. Enter(t, g, <<>>, "none") \/ Enter(t, heap, ReleaseKeptCalls(o, {k}, {r}), "none")
  BY DEF KeepReference
<1> HIDE DEF g
<1> QED BY <1>2, <1>3, SameHeap, EnterPreserves

\* A pointer returned from C++ keeps the invariant.
LEMMA ReturnPointerInv ==
    ASSUME IInv, NEW t \in Thread, NEW p \in Ptr, ReturnPointer(t, p)
    PROVE  (RegistrySound' /\ NoOwnedChild(heap')) \/ Preserves
<1> USE DEF IInv
<1>1. ASSUME NEW o \in Obj, NewObject(t, o, p, FALSE)
      PROVE  RegistrySound' /\ NoOwnedChild(heap')
  BY <1>1, NewWrapperInv DEF NewObject, Enter
<1>2. CASE wmap[p] # None
  <2> DEFINE o == wmap[p]
             h == IncRef(heap, o)
             g == [h EXCEPT ![o].ext = @ + 1]
  <2>1. o \in Obj
    BY <1>2 DEF TypeOK
  <2>2. h \in Heap /\ HeapStep(h)
    BY <2>1, SameHeap, StepAfter, IncRefType, IncRefSound DEF TypeOK, Heap
  <2>3. HeapStep(g)
    <3> HIDE DEF h
    <3> QED BY <2>1, <2>2, StepAfter, ExtType, ExtSound
  <2>4. Enter(t, g, <<>>, "none") /\ wmap' = wmap
    BY <1>2 DEF ReturnPointer
  <2> HIDE DEF g
  <2> QED BY <2>3, <2>4, EnterPreserves DEF Preserves
<1> QED BY <1>1, <1>2 DEF ReturnPointer

\* Every call of the binding and every deletion by C++ keeps the invariant.
LEMMA OperationInv ==
    ASSUME IInv, NEW t \in Thread, Operation(t)
    PROVE  IInv'
<1> USE DEF IInv
<1>1. TypeOK'
  BY OperationType
<1>2. ASSUME NEW o \in Obj, NEW p \in Ptr, Construct(t, o, p)
      PROVE  IInv'
  <2>1. (o \in Polymorphic) \in BOOLEAN
    OBVIOUS
  <2> QED BY <1>1, <1>2, <2>1, NewWrapperInv DEF Construct, Enter
<1>3. ASSUME NEW o \in Obj, NEW p \in Ptr, ReturnCopy(t, o, p)
      PROVE  IInv'
  BY <1>1, <1>3, NewWrapperInv DEF ReturnCopy, NewObject, Enter
<1>4. ASSUME NEW p \in Ptr, ReturnPointer(t, p)
      PROVE  IInv'
  BY <1>1, <1>4, ReturnPointerInv, PreservesInv
<1>5. ASSUME NEW p \in Ptr, CppDelete(t, p)
      PROVE  IInv'
  BY <1>1, <1>5, SameHeap, PreservesInv DEF CppDelete, Preserves
<1>6. ASSUME NEW o \in Obj, Drop(t, o) \/ ReleaseOwnership(t, o) \/ GetOwnership(t, o)
      PROVE  IInv'
  <2>1. wmap' = wmap
    BY <1>6 DEF Drop, ReleaseOwnership, GetOwnership
  <2> QED BY <1>1, <1>6, <2>1, OwnershipSound, PreservesInv DEF Preserves
<1>7. ASSUME NEW o \in Obj, InvalidateArgument(t, o)
      PROVE  IInv'
  BY <1>1, <1>7, SameHeap, EnterPreserves, PreservesInv DEF InvalidateArgument, Preserves
<1>8. ASSUME NEW o \in Obj, TpClear(t, o)
      PROVE  IInv'
  <2>1. HeapStep(IncRef(heap, o))
    BY SameHeap, StepAfter, IncRefType, IncRefSound DEF TypeOK, Heap
  <2> QED BY <1>1, <1>8, <2>1, EnterPreserves, PreservesInv DEF TpClear, Preserves
<1>9. ASSUME NEW par \in Obj \cup {None}, NEW o \in Obj, SetParent(t, par, o)
      PROVE  IInv'
  <2>1. wmap' = wmap
    BY <1>9 DEF SetParent
  <2> QED BY <1>1, <1>9, <2>1, SetParentSound, PreservesInv DEF Preserves
<1>10. ASSUME NEW o \in Obj, NEW k \in Keys, RemoveReference(t, o, k)
       PROVE  IInv'
  BY <1>1, <1>10, SameHeap, EnterPreserves, PreservesInv DEF RemoveReference, Preserves
<1>11. ASSUME NEW o \in Obj, NEW k \in Keys, NEW r \in Obj, KeepReference(t, o, k, r)
       PROVE  IInv'
  <2>1. wmap' = wmap
    BY <1>11 DEF KeepReference
  <2> QED BY <1>1, <1>11, <2>1, KeepReferenceSound, PreservesInv DEF Preserves
<1> QED BY <1>2, <1>3, <1>4, <1>5, <1>6, <1>7, <1>8, <1>9, <1>10, <1>11 DEF Operation

\* The invariant holds of a program that has no wrapper yet.
LEMMA InitInv ==
    Init => IInv
<1> SUFFICES ASSUME Init
             PROVE  IInv
  OBVIOUS
<1>1. Parentless(Blank)
  BY DEF Parentless, Single, Blank
<1> QED BY <1>1, InitType DEF Init, IInv, RegistrySound, NoOwnedChild

\* IInv holds initially and every step keeps it.
THEOREM Inductive ==
    Spec => []IInv
<1>1. ASSUME IInv, [Next]_vars
      PROVE  IInv'
  <2>1. CASE Next
    BY <1>1, <2>1, StepInv, OperationInv DEF Next
  <2>2. CASE UNCHANGED vars
    BY <1>1, <2>2 DEF vars, IInv, TypeOK, RegistrySound, Alive
  <2> QED BY <1>1, <2>1, <2>2
<1> QED BY InitInv, <1>1, PTL DEF Spec

\* For every instance: BindingManager's map never leads to a freed wrapper or to
\* the wrapper of another address, in any interleaving of calls, destructors
\* and deletions by C++.
THEOREM WrapperMapIsSound ==
    Spec => []RegistrySound
<1>1. IInv => RegistrySound
  BY DEF IInv
<1> QED BY <1>1, Inductive, PTL

\* For every instance: a wrapper whose C++ instance Python would delete has no
\* parent whose C++ instance would delete it as well.
THEOREM OneOwner ==
    Spec => []OwnedHasNoParent
<1>1. IInv => OwnedHasNoParent
  BY DEF IInv, NoOwnedChild, Parentless, Single, OwnedHasNoParent, HasParent
<1> QED BY <1>1, Inductive, PTL
=============================================================================
