--------------------------- MODULE OwnershipProofs ---------------------------
(***************************************************************************)
(* Instances that move between Python and C++, without families and lists  *)
(* of references, in any number of threads: the stack of a thread is one   *)
(* of a few (StackOf), and what it is doing (its activity) says what its   *)
(* next calls rely on.                                                     *)
(***************************************************************************)
EXTENDS ObjectLifetimeProofs, FiniteSetTheorems

\* The tags of a binding that moves the ownership of single objects.
Moving == {"release", "own", "invalidate", "return-copy", "cpp-delete", "gc"}

-----------------------------------------------------------------------------
(* What a thread is doing: a deallocation, after which it deletes the C++  *)
(* instance or goes on with its destructor; a C++ destructor, which        *)
(* destroys the wrapper of a shell on the way; an invalidation; nothing.   *)

Deallocating == {"dealloc", "unparent", "unchild", "unref", "free"}
Serving == {"clear", "branch", "dissolve", "extra"}
Ending == {"destroy", "clear", "branch", "dissolve", "extra", "forget", "body"}
Holding == Deallocating \cup Serving \cup {"invalidate", "forget"}

Activity ==
    {a \in [at : Deallocating \cup Ending \cup {"idle", "invalidate", "dtor"},
            o : Obj \cup {None}, p : Ptr \cup {None}, then : {"none", "dtor", "forget"}] :
        /\ a.at \in Holding => a.o \in Obj
        /\ a.at \in Ending \cup {"dtor"} => a.p \in Ptr /\ a.then = "none"
        /\ a.at \in {"idle", "invalidate"} => a.p = None /\ a.then = "none"
        /\ a.at \in Deallocating =>
              /\ a.then = "none" <=> a.p = None
              /\ a.then = "dtor" => a.at # "dealloc"}

Doing(at, o, p, then) == [at |-> at, o |-> o, p |-> p, then |-> then]
Idle == Doing("idle", None, None, "none")

ExtraRefCall(o) == [fn |-> "removeExtraRef", o |-> o, hasParent |-> FALSE]
ForgetCall(o, p) == [fn |-> "forgetPointer", o |-> o, p |-> p]
BranchCall(o, p) == [fn |-> "destroyBranch", o |-> o, p |-> p]
DestroyCall(o, p) == [fn |-> "destroy", o |-> o, p |-> p]
BodyCall(p) == [fn |-> "cppDtorBody", p |-> p]

\* What follows a deallocation.
After(a) ==
    IF a.then = "dtor" THEN <<DtorCall(a.p)>>
    ELSE IF a.then = "forget" THEN <<ForgetCall(a.o, a.p), BodyCall(a.p)>>
    ELSE <<>>

StackOf(a) ==
    CASE a.at = "dealloc" -> <<Call("dealloc", a.o)>> \o After(a)
      [] a.at = "unparent" ->
            <<RemoveParentCall(a.o, TRUE, FALSE), Call("destroyParentInfo", a.o),
              Call("clearReferences", a.o), Call("free", a.o)>> \o After(a)
      [] a.at = "unchild" ->
            <<Call("destroyParentInfo", a.o), Call("clearReferences", a.o),
              Call("free", a.o)>> \o After(a)
      [] a.at = "unref" -> <<Call("clearReferences", a.o), Call("free", a.o)>> \o After(a)
      [] a.at = "free" -> <<Call("free", a.o)>> \o After(a)
      [] a.at = "invalidate" -> <<Call("invalidate", a.o)>>
      [] a.at = "dtor" -> <<DtorCall(a.p)>>
      [] a.at = "destroy" -> <<DestroyCall(a.o, a.p), BodyCall(a.p)>>
      [] a.at = "clear" -> <<Call("clearReferences", a.o), BranchCall(a.o, a.p), BodyCall(a.p)>>
      [] a.at = "branch" -> <<BranchCall(a.o, a.p), BodyCall(a.p)>>
      [] a.at = "dissolve" ->
            <<Call("destroyParentInfo", a.o), ExtraRefCall(a.o), ForgetCall(a.o, a.p),
              BodyCall(a.p)>>
      [] a.at = "extra" -> <<ExtraRefCall(a.o), ForgetCall(a.o, a.p), BodyCall(a.p)>>
      [] a.at = "forget" -> <<ForgetCall(a.o, a.p), BodyCall(a.p)>>
      [] a.at = "body" -> <<BodyCall(a.p)>>
      [] OTHER -> <<>>

-----------------------------------------------------------------------------
(* The invariant, of activities act, a heap h, instances c and a map w.    *)

\* No families, no references.
Plain(v) == ~v.pinfo /\ v.parent = None /\ v.kids = {} /\ ~v.wref /\ v.refs = NoRefs

\* releaseOwnership took a reference for the destructor of the shell.
Lent(v) == v.shell /\ ~v.own /\ v.cptr # None
\* The destructor has dropped it and not yet forgotten the instance.
Dropped(act, o) == \E t \in Thread : act[t].at = "forget" /\ act[t].o = o

\* A wrapper and what is said of it elsewhere.
WrapperSound(h, c, w, o) ==
    /\ Plain(h[o])
    /\ h[o].st = "free" => h[o] = Blank
    /\ h[o].valid \/ (h[o].shell /\ h[o].cptr # None) => h[o].cptr # None /\ w[h[o].cptr] = o
    /\ h[o].st # "free" /\ ~h[o].shell => h[o].cptr # None
    /\ h[o].cptr # None /\ h[o].shell => c[h[o].cptr] \in {"shell", "dying"}
    /\ h[o].cptr # None /\ ~h[o].shell => c[h[o].cptr] # "shell"
    /\ ~h[o].shell /\ h[o].valid => c[h[o].cptr] = "native"

\* The count of a wrapper: Python's references and the one for the destructor.
CountSound(act, h, o) ==
    /\ h[o].st = "alive" =>
          h[o].rc > 0 /\ h[o].rc = h[o].ext + One(Lent(h[o]) /\ ~Dropped(act, o))
    /\ h[o].st = "dying" =>
          /\ h[o].rc = 0 /\ h[o].ext = 0
          /\ \E t \in Thread : act[t].at \in Deallocating /\ act[t].o = o

\* The wrapper that a destructor destroys.
Served(v, p) == v.st = "alive" /\ v.shell /\ ~v.own /\ v.cptr = p

\* No shell is left at an address.
Unserved(h, p) == \A o \in Obj : h[o].cptr = p => ~h[o].shell

\* What the calls that an activity has still to make rely on.
Relies(a, h, c, w) ==
    /\ a.at = "dtor" \/ a.then = "dtor" => c[a.p] \in {"native", "shell"}
    /\ a.at \in Ending \/ a.then = "forget" => c[a.p] = "dying"
    /\ a.at \in Deallocating =>
          /\ h[a.o].st = "dying"
          /\ Lent(h[a.o]) => a.then = "forget"
          /\ a.then = "dtor" => h[a.o].own /\ h[a.o].cptr = a.p
          /\ a.then = "forget" => Lent(h[a.o]) /\ h[a.o].cptr = a.p
    /\ a.at = "invalidate" => h[a.o].st = "alive"
    /\ a.at = "destroy" => IF a.o = None THEN Unserved(h, a.p) ELSE Served(h[a.o], a.p)
    /\ a.at \in Serving => Served(h[a.o], a.p)
    /\ a.at = "forget" => IF w[a.p] = None THEN h[a.o].st = "free"
                          ELSE w[a.p] = a.o /\ Served(h[a.o], a.p)
    /\ a.at = "body" => Unserved(h, a.p)

\* Python will delete the instance, or takes a native one to be there.
Claimed(v) == (v.own \/ (v.valid /\ ~v.shell)) /\ v.cptr # None

\* One wrapper for an address; one destructor for an instance, which is that of
\* the wrapper if it claims the instance.
OneWrapper(h) == \A x, y \in Obj : h[x].cptr = h[y].cptr /\ h[x].cptr # None => x = y
OneDestructor(act) ==
    \A t, u \in Thread : act[t].p # None /\ act[t].p = act[u].p => t = u
OwnerDeletes(act, h) ==
    \A o \in Obj, t \in Thread :
        Claimed(h[o]) /\ act[t].p = h[o].cptr =>
            act[t].then = "dtor" /\ act[t].o = o
DyingEnds(act, c) == \A p \in Ptr : c[p] = "dying" => \E t \in Thread : act[t].p = p

Objects(act, h, c, w) ==
    /\ \A o \in Obj : WrapperSound(h, c, w, o) /\ CountSound(act, h, o)
    /\ \A t \in Thread : Relies(act[t], h, c, w)
    /\ OneWrapper(h) /\ OneDestructor(act) /\ OwnerDeletes(act, h) /\ DyingEnds(act, c)

Control(act) ==
    /\ act \in [Thread -> Activity]
    /\ \A t \in Thread : stack[t] = StackOf(act[t])
    /\ \A t \in Thread : act[t].at \in Holding => gil = t
    /\ fault = "none"
    /\ owner = [p \in Ptr |-> None]

Moves == \E act \in [Thread -> Activity] : Control(act) /\ Objects(act, heap, cpp, wmap)

MovingInv == IInv /\ Moves

\* What the theorems take of the constants: the binding has no functions but
\* those that move single objects, and a C++ stack holds six calls, which is
\* how deep the deallocation of such an object goes.
OnlyMoving == Tags \subseteq Moving /\ MaxDepth >= 6

-----------------------------------------------------------------------------
(* Activities and stacks.                                                  *)

\* The call on top of the stack of an activity.
TopOf(a) ==
    CASE a.at = "dealloc" -> Call("dealloc", a.o)
      [] a.at = "unparent" -> RemoveParentCall(a.o, TRUE, FALSE)
      [] a.at \in {"unchild", "dissolve"} -> Call("destroyParentInfo", a.o)
      [] a.at \in {"unref", "clear"} -> Call("clearReferences", a.o)
      [] a.at = "free" -> Call("free", a.o)
      [] a.at = "invalidate" -> Call("invalidate", a.o)
      [] a.at = "dtor" -> DtorCall(a.p)
      [] a.at = "destroy" -> DestroyCall(a.o, a.p)
      [] a.at = "branch" -> BranchCall(a.o, a.p)
      [] a.at = "extra" -> ExtraRefCall(a.o)
      [] a.at = "forget" -> ForgetCall(a.o, a.p)
      [] a.at = "body" -> BodyCall(a.p)
      [] OTHER -> Call("none", None)

\* The activity once the wrapper is freed.
Freed(a) ==
    IF a.then = "dtor" THEN Doing("dtor", None, a.p, "none")
    ELSE IF a.then = "forget" THEN Doing("forget", a.o, a.p, "none")
    ELSE Idle

\* The same activity at another call.
Onward(a, at) == [a EXCEPT !.at = at]

\* The kinds of activities and their fields.
LEMMA ActivityFields ==
    ASSUME NEW a \in Activity
    PROVE  /\ a = Doing(a.at, a.o, a.p, a.then)
           /\ a.at \in Deallocating \cup Ending \cup {"idle", "invalidate", "dtor"}
           /\ a.o \in Obj \cup {None} /\ a.p \in Ptr \cup {None}
           /\ a.then \in {"none", "dtor", "forget"}
           /\ a.at \in Holding => a.o \in Obj
           /\ a.at \in Ending \cup {"dtor"} => a.p \in Ptr /\ a.then = "none"
           /\ a.at \in {"idle", "invalidate"} => a.p = None /\ a.then = "none"
           /\ a.at \in Deallocating => (a.then = "none" <=> a.p = None)
           /\ a.then = "dtor" => a.at # "dealloc"
BY DEF Activity, Doing, Ending, Deallocating

\* None is no address.
LEMMA NoneIsNone == None \notin Obj /\ None \notin Ptr /\ None \notin Thread
BY ConstantsAssumption

\* What follows a deallocation are calls.
LEMMA AfterType ==
    ASSUME NEW a \in Activity
    PROVE  After(a) \in Seq(Frame) /\ Len(After(a)) <= 2
<1>1. CASE a.then = "dtor"
  <2>1. a.p \in Ptr
    BY <1>1, ActivityFields, NoneIsNone DEF Ending, Deallocating
  <2>2. DtorCall(a.p) \in Frame
    BY <2>1, DtorCallType
  <2> QED BY <1>1, <2>2 DEF After
<1>2. CASE a.then = "forget"
  <2>1. a.p \in Ptr /\ a.o \in Obj
    BY <1>2, ActivityFields, NoneIsNone DEF Ending, Deallocating, Holding
  <2>2. ForgetCall(a.o, a.p) \in Frame /\ BodyCall(a.p) \in Frame
    BY <2>1 DEF ForgetCall, BodyCall, Frame
  <2> QED BY <1>2, <2>2 DEF After
<1>3. CASE a.then \notin {"dtor", "forget"}
  BY <1>3 DEF After
<1> QED BY <1>1, <1>2, <1>3

\* The first of one or more calls in front of others, and those behind it.
LEMMA FirstCall ==
    ASSUME NEW S, NEW x \in S, NEW q \in Seq(S)
    PROVE  /\ <<x>> \o q # <<>> /\ Head(<<x>> \o q) = x /\ Tail(<<x>> \o q) = q
           /\ Len(<<x>> \o q) = Len(q) + 1
OBVIOUS

\* The same for two, three and four calls.
LEMMA FirstOfTwo ==
    ASSUME NEW S, NEW x \in S, NEW y \in S, NEW q \in Seq(S)
    PROVE  /\ <<x, y>> \o q # <<>> /\ Head(<<x, y>> \o q) = x
           /\ Tail(<<x, y>> \o q) = <<y>> \o q
           /\ Len(<<x, y>> \o q) = Len(q) + 2
OBVIOUS
LEMMA FirstOfThree ==
    ASSUME NEW S, NEW x \in S, NEW y \in S, NEW z \in S, NEW q \in Seq(S)
    PROVE  /\ <<x, y, z>> \o q # <<>> /\ Head(<<x, y, z>> \o q) = x
           /\ Tail(<<x, y, z>> \o q) = <<y, z>> \o q
           /\ Len(<<x, y, z>> \o q) = Len(q) + 3
OBVIOUS
LEMMA FirstOfFour ==
    ASSUME NEW S, NEW x \in S, NEW y \in S, NEW z \in S, NEW u \in S, NEW q \in Seq(S)
    PROVE  /\ <<x, y, z, u>> \o q # <<>> /\ Head(<<x, y, z, u>> \o q) = x
           /\ Tail(<<x, y, z, u>> \o q) = <<y, z, u>> \o q
           /\ Len(<<x, y, z, u>> \o q) = Len(q) + 4
OBVIOUS

\* A stack that is written out.
LEMMA FirstOfFew ==
    ASSUME NEW x, NEW y, NEW z, NEW u
    PROVE  /\ <<x>> # <<>> /\ Head(<<x>>) = x /\ Tail(<<x>>) = <<>> /\ Len(<<x>>) = 1
           /\ <<x, y>> # <<>> /\ Head(<<x, y>>) = x /\ Tail(<<x, y>>) = <<y>>
           /\ Len(<<x, y>>) = 2
           /\ <<x, y, z>> # <<>> /\ Head(<<x, y, z>>) = x /\ Tail(<<x, y, z>>) = <<y, z>>
           /\ Len(<<x, y, z>>) = 3
           /\ <<x, y, z, u>> # <<>> /\ Head(<<x, y, z, u>>) = x
           /\ Tail(<<x, y, z, u>>) = <<y, z, u>> /\ Len(<<x, y, z, u>>) = 4
OBVIOUS

\* The calls of a deallocation.
LEMMA CleanupTypes ==
    ASSUME NEW o \in Obj
    PROVE  /\ Call("dealloc", o) \in Frame /\ RemoveParentCall(o, TRUE, FALSE) \in Frame
           /\ Call("destroyParentInfo", o) \in Frame /\ Call("clearReferences", o) \in Frame
           /\ Call("free", o) \in Frame
BY CallType, RemoveParentCallType

\* The stack of a deallocation: its first call, and what it is when that call
\* has returned.
LEMMA DeallocatingStack ==
    ASSUME NEW a \in Activity, a.at \in Deallocating
    PROVE  /\ StackOf(a) # <<>> /\ Head(StackOf(a)) = TopOf(a) /\ Len(StackOf(a)) \in 0..6
           /\ a.at = "dealloc" => Tail(StackOf(a)) = After(a)
           /\ a.at = "unparent" => Tail(StackOf(a)) = StackOf(Onward(a, "unchild"))
           /\ a.at = "unchild" => Tail(StackOf(a)) = StackOf(Onward(a, "unref"))
           /\ a.at = "unref" => Tail(StackOf(a)) = StackOf(Onward(a, "free"))
           /\ a.at = "free" => Tail(StackOf(a)) = After(a)
<1> DEFINE o == a.o
           q == After(a)
<1>1. o \in Obj
  BY ActivityFields DEF Holding
<1>2. q \in Seq(Frame) /\ Len(q) \in Nat /\ Len(q) <= 2
  BY AfterType
<1>3. ASSUME NEW at
      PROVE  After(Onward(a, at)) = q /\ Onward(a, at).o = o
  BY DEF After, Onward, Activity
<1>4. /\ StackOf(Onward(a, "unchild")) = <<Call("destroyParentInfo", o), Call("clearReferences", o),
                                           Call("free", o)>> \o q
      /\ StackOf(Onward(a, "unref")) = <<Call("clearReferences", o), Call("free", o)>> \o q
      /\ StackOf(Onward(a, "free")) = <<Call("free", o)>> \o q
  <2> HIDE DEF q, o
  <2>1. /\ Onward(a, "unchild").at = "unchild" /\ Onward(a, "unref").at = "unref"
        /\ Onward(a, "free").at = "free"
    BY DEF Onward, Activity
  <2> QED BY <2>1, <1>3 DEF StackOf
<1> HIDE DEF q
<1>5. CASE a.at = "dealloc"
  <2>1. StackOf(a) = <<Call("dealloc", o)>> \o q /\ TopOf(a) = Call("dealloc", o)
    BY <1>5 DEF StackOf, TopOf, q
  <2> QED BY <2>1, <1>1, <1>2, <1>5, FirstCall, CleanupTypes DEF q
<1>6. CASE a.at = "unparent"
  <2>1. /\ StackOf(a) = <<RemoveParentCall(o, TRUE, FALSE), Call("destroyParentInfo", o),
                          Call("clearReferences", o), Call("free", o)>> \o q
        /\ TopOf(a) = RemoveParentCall(o, TRUE, FALSE)
    BY <1>6 DEF StackOf, TopOf, q
  <2>2. PICK r, d, c, e \in Frame :
            /\ r = RemoveParentCall(o, TRUE, FALSE)
            /\ d = Call("destroyParentInfo", o)
            /\ c = Call("clearReferences", o)
            /\ e = Call("free", o)
    BY <1>1, CleanupTypes
  <2>3. /\ <<r, d, c, e>> \o q # <<>> /\ Head(<<r, d, c, e>> \o q) = r
        /\ Tail(<<r, d, c, e>> \o q) = <<d, c, e>> \o q /\ Len(<<r, d, c, e>> \o q) = Len(q) + 4
    BY <1>2, FirstOfFour, SMTT(30)
  <2> QED BY <2>1, <2>2, <2>3, <1>2, <1>4, <1>6
<1>7. CASE a.at = "unchild"
  <2>1. /\ StackOf(a) = <<Call("destroyParentInfo", o), Call("clearReferences", o),
                          Call("free", o)>> \o q
        /\ TopOf(a) = Call("destroyParentInfo", o)
    BY <1>7 DEF StackOf, TopOf, q
  <2>2. PICK d, c, e \in Frame :
            /\ d = Call("destroyParentInfo", o)
            /\ c = Call("clearReferences", o)
            /\ e = Call("free", o)
    BY <1>1, CleanupTypes
  <2>3. /\ <<d, c, e>> \o q # <<>> /\ Head(<<d, c, e>> \o q) = d
        /\ Tail(<<d, c, e>> \o q) = <<c, e>> \o q /\ Len(<<d, c, e>> \o q) = Len(q) + 3
    BY <1>2, FirstOfThree
  <2> QED BY <2>1, <2>2, <2>3, <1>2, <1>4, <1>7
<1>8. CASE a.at = "unref"
  <2>1. /\ StackOf(a) = <<Call("clearReferences", o), Call("free", o)>> \o q
        /\ TopOf(a) = Call("clearReferences", o)
    BY <1>8 DEF StackOf, TopOf, q
  <2>2. PICK c, e \in Frame : c = Call("clearReferences", o) /\ e = Call("free", o)
    BY <1>1, CleanupTypes
  <2>3. /\ <<c, e>> \o q # <<>> /\ Head(<<c, e>> \o q) = c
        /\ Tail(<<c, e>> \o q) = <<e>> \o q /\ Len(<<c, e>> \o q) = Len(q) + 2
    BY <1>2, FirstOfTwo
  <2>4. Len(StackOf(a)) \in 0..6
    BY <2>1, <2>2, <2>3, <1>2
  <2>5. StackOf(a) # <<>> /\ Head(StackOf(a)) = TopOf(a) /\ Tail(StackOf(a)) = StackOf(Onward(a, "free"))
    BY <2>1, <2>2, <2>3, <1>4
  <2> QED BY <2>4, <2>5, <1>8
<1>9. CASE a.at = "free"
  <2>1. StackOf(a) = <<Call("free", o)>> \o q /\ TopOf(a) = Call("free", o)
    BY <1>9 DEF StackOf, TopOf, q
  <2> QED BY <2>1, <1>1, <1>2, <1>9, FirstCall, CleanupTypes DEF q
<1> QED BY <1>5, <1>6, <1>7, <1>8, <1>9 DEF Deallocating

\* The stack of a destructor or an invalidation.
LEMMA DestructorStack ==
    ASSUME NEW a \in Activity, a.at \in Ending \cup {"dtor", "invalidate"}
    PROVE  /\ StackOf(a) # <<>> /\ Head(StackOf(a)) = TopOf(a) /\ Len(StackOf(a)) \in 0..6
           /\ a.at \in {"dtor", "invalidate", "body"} => Tail(StackOf(a)) = <<>>
           /\ a.at = "destroy" => Tail(StackOf(a)) = <<BodyCall(a.p)>>
           /\ a.at = "clear" => Tail(StackOf(a)) = StackOf(Onward(a, "branch"))
           /\ a.at = "branch" => Tail(StackOf(a)) = <<BodyCall(a.p)>>
           /\ a.at = "dissolve" => Tail(StackOf(a)) = StackOf(Onward(a, "extra"))
           /\ a.at = "extra" => Tail(StackOf(a)) = StackOf(Onward(a, "forget"))
           /\ a.at = "forget" => Tail(StackOf(a)) = StackOf(Onward(a, "body"))
<1>1. ASSUME NEW at
      PROVE  Onward(a, at).at = at /\ Onward(a, at).o = a.o /\ Onward(a, at).p = a.p
  BY DEF Onward, Activity
<1>2. /\ StackOf(Onward(a, "branch")) = <<BranchCall(a.o, a.p), BodyCall(a.p)>>
      /\ StackOf(Onward(a, "extra")) = <<ExtraRefCall(a.o), ForgetCall(a.o, a.p), BodyCall(a.p)>>
      /\ StackOf(Onward(a, "forget")) = <<ForgetCall(a.o, a.p), BodyCall(a.p)>>
      /\ StackOf(Onward(a, "body")) = <<BodyCall(a.p)>>
  <2>1. StackOf(Onward(a, "branch")) = <<BranchCall(a.o, a.p), BodyCall(a.p)>>
    BY <1>1 DEF StackOf, Deallocating
  <2>2. StackOf(Onward(a, "extra"))
            = <<ExtraRefCall(a.o), ForgetCall(a.o, a.p), BodyCall(a.p)>>
    BY <1>1 DEF StackOf, Deallocating
  <2>3. StackOf(Onward(a, "forget")) = <<ForgetCall(a.o, a.p), BodyCall(a.p)>>
    BY <1>1 DEF StackOf, Deallocating
  <2>4. StackOf(Onward(a, "body")) = <<BodyCall(a.p)>>
    BY <1>1 DEF StackOf, Deallocating
  <2> QED BY <2>1, <2>2, <2>3, <2>4
<1>3. CASE a.at = "dtor"
  <2>1. /\ StackOf(a) = <<DtorCall(a.p)>>
        /\ TopOf(a) = DtorCall(a.p)
    BY <1>3 DEF StackOf, TopOf
  <2> QED BY <1>2, <1>3, <2>1, FirstOfFew
<1>4. CASE a.at = "invalidate"
  <2>1. /\ StackOf(a) = <<Call("invalidate", a.o)>>
        /\ TopOf(a) = Call("invalidate", a.o)
    BY <1>4 DEF StackOf, TopOf
  <2> QED BY <1>2, <1>4, <2>1, FirstOfFew
<1>5. CASE a.at = "body"
  <2>1. /\ StackOf(a) = <<BodyCall(a.p)>>
        /\ TopOf(a) = BodyCall(a.p)
    BY <1>5 DEF StackOf, TopOf
  <2> QED BY <1>2, <1>5, <2>1, FirstOfFew
<1>6. CASE a.at = "destroy"
  <2>1. /\ StackOf(a) = <<DestroyCall(a.o, a.p), BodyCall(a.p)>>
        /\ TopOf(a) = DestroyCall(a.o, a.p)
    BY <1>6 DEF StackOf, TopOf
  <2> QED BY <1>2, <1>6, <2>1, FirstOfFew
<1>7. CASE a.at = "forget"
  <2>1. /\ StackOf(a) = <<ForgetCall(a.o, a.p), BodyCall(a.p)>>
        /\ TopOf(a) = ForgetCall(a.o, a.p)
    BY <1>7 DEF StackOf, TopOf
  <2> QED BY <1>2, <1>7, <2>1, FirstOfFew
<1>8. CASE a.at = "clear"
  <2>1. /\ StackOf(a) = <<Call("clearReferences", a.o), BranchCall(a.o, a.p), BodyCall(a.p)>>
        /\ TopOf(a) = Call("clearReferences", a.o)
    BY <1>8 DEF StackOf, TopOf
  <2> QED BY <1>2, <1>8, <2>1, FirstOfFew
<1>9. CASE a.at = "branch"
  <2>1. /\ StackOf(a) = <<BranchCall(a.o, a.p), BodyCall(a.p)>>
        /\ TopOf(a) = BranchCall(a.o, a.p)
    BY <1>9 DEF StackOf, TopOf
  <2> QED BY <1>2, <1>9, <2>1, FirstOfFew
<1>10. CASE a.at = "dissolve"
  <2>1. /\ StackOf(a) = <<Call("destroyParentInfo", a.o), ExtraRefCall(a.o), ForgetCall(a.o, a.p),
                      BodyCall(a.p)>>
        /\ TopOf(a) = Call("destroyParentInfo", a.o)
    BY <1>10 DEF StackOf, TopOf
  <2> QED BY <1>2, <1>10, <2>1, FirstOfFew
<1>11. CASE a.at = "extra"
  <2>1. /\ StackOf(a) = <<ExtraRefCall(a.o), ForgetCall(a.o, a.p), BodyCall(a.p)>>
        /\ TopOf(a) = ExtraRefCall(a.o)
    BY <1>11 DEF StackOf, TopOf
  <2> QED BY <1>2, <1>11, <2>1, FirstOfFew
<1> QED BY <1>3, <1>4, <1>5, <1>6, <1>7, <1>8, <1>9, <1>10, <1>11 DEF Ending

-----------------------------------------------------------------------------
(* The calls in progress.                                                  *)

\* A thread that does something has calls to make.
LEMMA BusyStack ==
    ASSUME NEW a \in Activity
    PROVE  /\ a.at # "idle" => StackOf(a) # <<>> /\ Head(StackOf(a)) = TopOf(a)
           /\ a.at = "idle" => StackOf(a) = <<>>
           /\ Len(StackOf(a)) \in 0..6
<1>1. CASE a.at \in Deallocating
  BY <1>1, DeallocatingStack DEF Deallocating
<1>2. CASE a.at \in Ending \cup {"dtor", "invalidate"}
  BY <1>2, DestructorStack DEF Ending
<1>3. CASE a.at = "idle"
  BY <1>3 DEF StackOf
<1> QED BY <1>1, <1>2, <1>3, ActivityFields

\* The call on top tells what the thread is doing, and on what.
LEMMA TopTells ==
    ASSUME NEW a \in Activity, a.at # "idle"
    PROVE  /\ a.at = "dealloc" => TopOf(a) = Call("dealloc", a.o)
           /\ a.at = "unparent" => TopOf(a) = RemoveParentCall(a.o, TRUE, FALSE)
           /\ a.at \in {"unchild", "dissolve"} => TopOf(a) = Call("destroyParentInfo", a.o)
           /\ a.at \in {"unref", "clear"} => TopOf(a) = Call("clearReferences", a.o)
           /\ a.at = "free" => TopOf(a) = Call("free", a.o)
           /\ a.at = "invalidate" => TopOf(a) = Call("invalidate", a.o)
           /\ a.at = "dtor" => TopOf(a) = DtorCall(a.p)
           /\ a.at = "destroy" => TopOf(a) = DestroyCall(a.o, a.p)
           /\ a.at = "branch" => TopOf(a) = BranchCall(a.o, a.p)
           /\ a.at = "extra" => TopOf(a) = ExtraRefCall(a.o)
           /\ a.at = "forget" => TopOf(a) = ForgetCall(a.o, a.p)
           /\ a.at = "body" => TopOf(a) = BodyCall(a.p)
BY DEF TopOf

\* What a thread does, by the function it runs.
LEMMA TopFunction ==
    ASSUME NEW a \in Activity, a.at # "idle"
    PROVE  /\ TopOf(a).fn \in {"dealloc", "removeParent", "destroyParentInfo", "clearReferences",
                               "free", "invalidate", "cppDtor", "destroy", "destroyBranch",
                               "removeExtraRef", "forgetPointer", "cppDtorBody"}
           /\ TopOf(a).fn = "dealloc" => a.at = "dealloc"
           /\ TopOf(a).fn = "removeParent" => a.at = "unparent"
           /\ TopOf(a).fn = "destroyParentInfo" => a.at \in {"unchild", "dissolve"}
           /\ TopOf(a).fn = "clearReferences" => a.at \in {"unref", "clear"}
           /\ TopOf(a).fn = "free" => a.at = "free"
           /\ TopOf(a).fn = "invalidate" => a.at = "invalidate"
           /\ TopOf(a).fn = "cppDtor" => a.at = "dtor"
           /\ TopOf(a).fn = "destroy" => a.at = "destroy"
           /\ TopOf(a).fn = "destroyBranch" => a.at = "branch"
           /\ TopOf(a).fn = "removeExtraRef" => a.at = "extra"
           /\ TopOf(a).fn = "forgetPointer" => a.at = "forget"
           /\ TopOf(a).fn = "cppDtorBody" => a.at = "body"
           /\ NeedsGil(TopOf(a)) <=> a.at \notin {"dtor", "body"}
<1>1. a.at \in Deallocating \cup Ending \cup {"invalidate", "dtor"}
  BY ActivityFields
<1> DEFINE o == a.o
           p == a.p
<1>2. /\ Call("dealloc", o).fn = "dealloc" /\ Call("free", o).fn = "free"
      /\ Call("destroyParentInfo", o).fn = "destroyParentInfo"
      /\ Call("clearReferences", o).fn = "clearReferences"
      /\ Call("invalidate", o).fn = "invalidate"
      /\ RemoveParentCall(o, TRUE, FALSE).fn = "removeParent"
      /\ DtorCall(p).fn = "cppDtor" /\ DestroyCall(o, p).fn = "destroy"
      /\ BranchCall(o, p).fn = "destroyBranch" /\ ExtraRefCall(o).fn = "removeExtraRef"
      /\ ForgetCall(o, p).fn = "forgetPointer" /\ BodyCall(p).fn = "cppDtorBody"
  BY DEF Call, RemoveParentCall, DtorCall, DestroyCall, BranchCall, ExtraRefCall, ForgetCall, BodyCall
<1>3. PICK fn : fn = TopOf(a).fn
  OBVIOUS
<1>4. /\ a.at = "dealloc" => fn = "dealloc"
      /\ a.at = "unparent" => fn = "removeParent"
      /\ a.at \in {"unchild", "dissolve"} => fn = "destroyParentInfo"
      /\ a.at \in {"unref", "clear"} => fn = "clearReferences"
      /\ a.at = "free" => fn = "free"
      /\ a.at = "invalidate" => fn = "invalidate"
      /\ a.at = "dtor" => fn = "cppDtor"
      /\ a.at = "destroy" => fn = "destroy"
      /\ a.at = "branch" => fn = "destroyBranch"
      /\ a.at = "extra" => fn = "removeExtraRef"
      /\ a.at = "forget" => fn = "forgetPointer"
      /\ a.at = "body" => fn = "cppDtorBody"
  BY <1>2, <1>3, TopTells
<1>5. NeedsGil(TopOf(a)) <=> fn \notin {"cppDtor", "cppDtorBody"}
  BY <1>3 DEF NeedsGil
<1> QED BY <1>1, <1>3, <1>4, <1>5 DEF Deallocating, Ending

\* A thread that is ready makes the call on top of its activity's stack.
LEMMA ReadyTop ==
    ASSUME NEW act, Control(act), NEW t \in Thread, Ready(t)
    PROVE  /\ act[t] \in Activity /\ act[t].at # "idle"
           /\ Top(t) = TopOf(act[t]) /\ stack[t] = StackOf(act[t])
BY BusyStack DEF Control, Ready, Top

\* While a thread runs with the GIL, no other is in the middle of something
\* that holds it.
LEMMA OthersWait ==
    ASSUME NEW act, Control(act), NEW t \in Thread,
           (Ready(t) /\ NeedsGil(Top(t))) \/ CanCall(t), NEW u \in Thread, u # t
    PROVE  act[u].at \notin Holding
BY NoneIsNone DEF Control, Ready, CanCall

\* The top call of a thread returns, and its next activity begins.
LEMMA ContinueControl ==
    ASSUME MaxDepth >= 6, TypeOK, NEW act, Control(act), NEW t \in Thread, Ready(t), NEW calls,
           Continue(t, calls), NEW b \in Activity, calls \o Tail(stack[t]) = StackOf(b),
           b.at \in Holding => act[t].at \notin {"dtor", "body"}, owner' = owner
    PROVE  Control([act EXCEPT ![t] = b])'
<1> DEFINE new == [act EXCEPT ![t] = b]
<1>1. /\ act \in [Thread -> Activity] /\ act[t] \in Activity /\ act[t].at # "idle"
      /\ Top(t) = TopOf(act[t])
  BY ReadyTop DEF Control
<1>2. new \in [Thread -> Activity]
  BY <1>1
<1>3. stack' = [stack EXCEPT ![t] = StackOf(b)] /\ stack \in [Thread -> Seq(Frame)]
  BY DEF Continue, TypeOK
<1>4. \A u \in Thread : stack'[u] = StackOf(new[u])
  BY <1>1, <1>3 DEF Control
<1>5. fault' = "none"
  <2>1. Len(StackOf(b)) \in 0..6 /\ MaxDepth \in Nat /\ fault = "none"
    BY BusyStack, ConstantsAssumption DEF Control
  <2>2. PICK n \in 0..6 : n = Len(StackOf(b))
    BY <2>1
  <2>3. ~(n > MaxDepth)
    BY <2>1
  <2> QED BY <2>1, <2>2, <2>3 DEF Continue
<1>6. ASSUME NEW u \in Thread, new[u].at \in Holding
      PROVE  gil' = u
  <2>1. CASE u = t
    <3>1. NeedsGil(Top(t)) /\ b.at \notin {"idle", "dtor", "body"}
      BY <1>1, <1>6, <2>1, TopFunction DEF Holding, Deallocating, Serving
    <3>2. StackOf(b) # <<>> /\ NeedsGil(Head(StackOf(b)))
      BY <3>1, BusyStack, TopFunction
    <3> QED BY <2>1, <3>1, <3>2 DEF Continue
  <2>2. CASE u # t
    <3>1. act[u].at \in Holding /\ gil = u
      BY <1>1, <1>6, <2>2 DEF Control
    <3>2. ~NeedsGil(Top(t))
      BY <3>1, <2>2, OthersWait
    <3> QED BY <3>1, <3>2 DEF Continue
  <2> QED BY <2>1, <2>2
<1>7. owner' = [p \in Ptr |-> None]
  BY DEF Control
<1> QED BY <1>2, <1>4, <1>5, <1>6, <1>7 DEF Control

\* A call of the binding begins, or returns at once.
LEMMA EnterControl ==
    ASSUME TypeOK, NEW act, Control(act), NEW t \in Thread, CanCall(t), NEW h, NEW calls,
           Enter(t, h, calls, "none"), NEW b \in Activity, calls = StackOf(b),
           b.at \in Holding \cup {"idle"}, owner' = owner
    PROVE  Control([act EXCEPT ![t] = b])' /\ heap' = h
<1> DEFINE new == [act EXCEPT ![t] = b]
<1>1. act \in [Thread -> Activity] /\ new \in [Thread -> Activity]
  BY DEF Control
<1>2. stack' = [stack EXCEPT ![t] = StackOf(b)] /\ stack \in [Thread -> Seq(Frame)]
      /\ heap' = h /\ fault' = "none"
  BY DEF Enter, TypeOK
<1>3. \A u \in Thread : stack'[u] = StackOf(new[u])
  BY <1>1, <1>2 DEF Control
<1>4. ASSUME NEW u \in Thread, new[u].at \in Holding
      PROVE  gil' = u
  <2>1. u = t
    BY <1>1, <1>4, OthersWait
  <2>2. b.at # "idle"
    BY <1>1, <1>4, <2>1 DEF Holding, Deallocating, Serving
  <2>3. calls # <<>>
    BY <2>2, BusyStack
  <2> QED BY <2>1, <2>3 DEF Enter
<1> QED BY <1>1, <1>2, <1>3, <1>4 DEF Control

\* A thread that may begin a call does nothing, and no thread is in the middle
\* of something that holds the GIL.
LEMMA CallerIdle ==
    ASSUME NEW act, Control(act), NEW t \in Thread, CanCall(t)
    PROVE  act[t] \in Activity /\ act[t].at = "idle" /\ \A u \in Thread : act[u].at \notin Holding
<1>1. act[t] \in Activity /\ act[t].at = "idle"
  BY BusyStack DEF Control, CanCall
<1> QED BY <1>1, OthersWait DEF Holding, Deallocating, Serving

-----------------------------------------------------------------------------
(* Steps of the invariant: one wrapper changes, or one instance.           *)

\* What others than the thread with the GIL do.
LEMMA NotHolding ==
    ASSUME NEW a \in Activity, a.at \notin Holding
    PROVE  a.at \in {"idle", "dtor", "destroy", "body"} /\ a.then = "none"
BY ActivityFields DEF Holding, Deallocating, Serving, Ending

\* A thread t with the GIL changes the wrapper o, which it works on, to v, takes
\* it out of the map or leaves the map alone, and goes on with b.
Touches(act, h, w, t, b, o, v, w2) ==
    /\ \A u \in Thread : u # t => act[u].at \notin Holding
    /\ b.p = act[t].p
    /\ act[t].at \in Deallocating \cup {"forget"} => act[t].o = o
    /\ b.at = "forget" => b.o = o
    /\ \A q \in Ptr : q # h[o].cptr => w2[q] = w[q]
    /\ v.cptr \in {h[o].cptr, None}
    /\ v.cptr # None => v.shell = h[o].shell
    /\ \A u \in Thread, q \in Ptr :
          u # t /\ act[u].p = q /\ Served(h[o], q) => Served(v, q)
    /\ \A u \in Thread : u # t /\ Claimed(v) => act[u].p # v.cptr
    /\ Claimed(v) /\ b.p = v.cptr => b.then = "dtor" /\ b.o = o

\* Then the rest of the invariant stays.
LEMMA OneChanges ==
    ASSUME NEW act \in [Thread -> Activity], NEW h \in Heap, NEW c, NEW w, Objects(act, h, c, w),
           NEW t \in Thread, NEW b \in Activity, NEW o \in Obj, NEW v \in Wrapper, NEW w2,
           Touches(act, h, w, t, b, o, v, w2),
           WrapperSound([h EXCEPT ![o] = v], c, w2, o),
           CountSound([act EXCEPT ![t] = b], [h EXCEPT ![o] = v], o),
           Relies(b, [h EXCEPT ![o] = v], c, w2)
    PROVE  Objects([act EXCEPT ![t] = b], [h EXCEPT ![o] = v], c, w2)
<1> DEFINE new == [act EXCEPT ![t] = b]
           g == [h EXCEPT ![o] = v]
<1> USE DEF Touches
<1>1. /\ new \in [Thread -> Activity] /\ new[t] = b
      /\ \A u \in Thread : u # t => new[u] = act[u]
  OBVIOUS
<1>2. /\ g \in Heap /\ g[o] = v
      /\ \A x \in Obj : x # o => g[x] = h[x]
  BY DEF Heap
<1>3. \A x \in Obj : h[x] \in Wrapper /\ h[x].cptr \in Ptr \cup {None}
  BY DEF Heap, Wrapper
<1>4. OneWrapper(h) /\ OneDestructor(act) /\ OwnerDeletes(act, h) /\ DyingEnds(act, c)
  BY DEF Objects
<1>5. act[t] \in Activity /\ (act[t].then = "dtor" => act[t].at \in Deallocating)
  BY ActivityFields DEF Ending
<1>6. ASSUME NEW x \in Obj
      PROVE  WrapperSound(g, c, w2, x)
  <2>1. CASE x = o
    BY <2>1
  <2>2. CASE x # o
    <3>1. WrapperSound(h, c, w, x) /\ g[x] = h[x]
      BY <1>2, <2>2 DEF Objects
    <3>2. h[x].cptr # None => w2[h[x].cptr] = w[h[x].cptr]
      BY <1>3, <1>4, <2>2 DEF OneWrapper
    <3> HIDE DEF g
    <3> QED BY <3>1, <3>2 DEF WrapperSound
  <2> QED BY <2>1, <2>2
<1>7. ASSUME NEW x \in Obj
      PROVE  CountSound(new, g, x)
  <2>1. CASE x = o
    BY <2>1
  <2>2. CASE x # o
    <3>1. CountSound(act, h, x) /\ g[x] = h[x]
      BY <1>2, <2>2 DEF Objects
    <3>2. \A u \in Thread : /\ new[u].at = "forget" /\ new[u].o = x <=> act[u].at = "forget" /\ act[u].o = x
      BY <1>1, <2>2
    <3>3. Dropped(new, x) <=> Dropped(act, x)
      BY <3>2 DEF Dropped
    <3>4. ASSUME NEW u \in Thread, act[u].at \in Deallocating /\ act[u].o = x
          PROVE  new[u].at \in Deallocating /\ new[u].o = x
      BY <3>4, <1>1, <2>2
    <3> HIDE DEF g, new
    <3> QED BY <3>1, <3>3, <3>4 DEF CountSound
  <2> QED BY <2>1, <2>2
<1>8. ASSUME NEW u \in Thread
      PROVE  Relies(new[u], g, c, w2)
  <2>1. CASE u = t
    BY <2>1, <1>1
  <2>2. CASE u # t
    <3> DEFINE a == act[u]
    <3>1. a \in Activity /\ a.at \in {"idle", "dtor", "destroy", "body"} /\ a.then = "none"
          /\ new[u] = a /\ Relies(a, h, c, w)
      BY <2>2, <1>1, NotHolding DEF Objects
    <3>2. a.at \in {"destroy", "body"} => a.p \in Ptr
      BY <3>1, ActivityFields DEF Ending
    <3>3. a.p \in Ptr /\ Unserved(h, a.p) => Unserved(g, a.p)
      BY <1>2, NoneIsNone DEF Unserved
    <3>4. a.at = "destroy" /\ a.o # None => Served(g[a.o], a.p)
      <4> SUFFICES ASSUME a.at = "destroy", a.o # None
                   PROVE  Served(g[a.o], a.p)
        OBVIOUS
      <4>1. a.o \in Obj /\ Served(h[a.o], a.p)
        BY <3>1, ActivityFields DEF Relies
      <4> QED BY <4>1, <3>2, <1>2, <2>2
    <3> HIDE DEF a, g
    <3>5. Relies(a, g, c, w2)
      BY <3>1, <3>2, <3>3, <3>4 DEF Relies, Deallocating, Ending, Serving
    <3> QED BY <3>1, <3>5
  <2> QED BY <2>1, <2>2
<1>9. OneWrapper(g)
  BY <1>2, <1>4, <1>3 DEF OneWrapper
<1>10. OneDestructor(new)
  BY <1>1, <1>4 DEF OneDestructor
<1>11. OwnerDeletes(new, g)
  <2> SUFFICES ASSUME NEW x \in Obj, NEW u \in Thread, Claimed(g[x]),
                      new[u].p = g[x].cptr
               PROVE  new[u].then = "dtor" /\ new[u].o = x
    BY DEF OwnerDeletes
  <2>1. CASE x = o
    BY <2>1, <1>1, <1>2
  <2>2. CASE x # o
    <3>1. h[x] = g[x] /\ act[u].p = h[x].cptr
      BY <1>1, <1>2, <2>2
    <3>2. act[u].then = "dtor" /\ act[u].o = x
      BY <3>1, <1>4 DEF OwnerDeletes
    <3>3. u # t
      BY <3>2, <1>5, <2>2
    <3> QED BY <3>2, <3>3, <1>1
  <2> QED BY <2>1, <2>2
<1>12. DyingEnds(new, c)
  BY <1>1, <1>4 DEF DyingEnds
<1> QED BY <1>6, <1>7, <1>8, <1>9, <1>10, <1>11, <1>12 DEF Objects

\* A thread with the GIL goes on and changes no wrapper.
LEMMA SameWrapper ==
    ASSUME NEW act \in [Thread -> Activity], NEW h, NEW c, NEW w, Objects(act, h, c, w),
           NEW t \in Thread, NEW b \in Activity,
           b.p = act[t].p, Relies(b, h, c, w),
           act[t].at \in Deallocating => b.at \in Deallocating /\ b.o = act[t].o,
           act[t].then = "dtor" => b.then = "dtor" /\ b.o = act[t].o,
           act[t].at = "forget" => h[act[t].o].st = "free",
           b.at # "forget"
    PROVE  Objects([act EXCEPT ![t] = b], h, c, w)
<1> DEFINE new == [act EXCEPT ![t] = b]
<1>1. /\ new \in [Thread -> Activity] /\ new[t] = b
      /\ \A u \in Thread : u # t => new[u] = act[u]
  OBVIOUS
<1>2. OneWrapper(h) /\ OneDestructor(act) /\ OwnerDeletes(act, h) /\ DyingEnds(act, c)
  BY DEF Objects
<1>3. ASSUME NEW x \in Obj
      PROVE  WrapperSound(h, c, w, x) /\ CountSound(new, h, x)
  <2>1. WrapperSound(h, c, w, x) /\ CountSound(act, h, x)
    BY DEF Objects
  <2>2. h[x].st = "alive" => (Dropped(new, x) <=> Dropped(act, x))
    BY <1>1 DEF Dropped
  <2>3. ASSUME NEW u \in Thread, act[u].at \in Deallocating /\ act[u].o = x
        PROVE  new[u].at \in Deallocating /\ new[u].o = x
    BY <2>3, <1>1
  <2> HIDE DEF new
  <2> QED BY <2>1, <2>2, <2>3 DEF CountSound
<1>4. \A u \in Thread : Relies(new[u], h, c, w)
  BY <1>1 DEF Objects
<1>5. OneDestructor(new) /\ DyingEnds(new, c)
  BY <1>1, <1>2 DEF OneDestructor, DyingEnds
<1>6. OwnerDeletes(new, h)
  <2> SUFFICES ASSUME NEW x \in Obj, NEW u \in Thread, Claimed(h[x]),
                      new[u].p = h[x].cptr
               PROVE  new[u].then = "dtor" /\ new[u].o = x
    BY DEF OwnerDeletes
  <2>1. act[u].p = h[x].cptr
    BY <1>1
  <2>2. act[u].then = "dtor" /\ act[u].o = x
    BY <2>1, <1>2 DEF OwnerDeletes
  <2> QED BY <2>2, <1>1
<1> QED BY <1>2, <1>3, <1>4, <1>5, <1>6 DEF Objects

\* The other threads with a destructor have that of another instance.
LEMMA ServesAlone ==
    ASSUME NEW act, NEW h, NEW c, NEW w, Objects(act, h, c, w), NEW t \in Thread,
           NEW u \in Thread, u # t, NEW p \in Ptr, act[t].p = p
    PROVE  act[u].p # p
BY NoneIsNone DEF Objects, OneDestructor

\* deallocData: the wrapper and its entry of the map are gone.
LEMMA FreesObject ==
    ASSUME NEW act \in [Thread -> Activity], NEW h \in Heap, NEW c,
           NEW w \in [Ptr -> Obj \cup {None}], Objects(act, h, c, w),
           NEW t \in Thread, act[t].at = "free",
           \A u \in Thread : u # t => act[u].at \notin Holding
    PROVE  /\ Freed(act[t]) \in Activity
           /\ Objects([act EXCEPT ![t] = Freed(act[t])], [h EXCEPT ![act[t].o] = Blank], c,
                      Release(w, h, act[t].o))
<1> DEFINE a == act[t]
           o == a.o
           b == Freed(a)
           g == [h EXCEPT ![o] = Blank]
           w2 == Release(w, h, o)
           new == [act EXCEPT ![t] = b]
<1>1. a \in Activity /\ a.at = "free" /\ o \in Obj /\ Relies(a, h, c, w) /\ a.p \in Ptr \cup {None}
  BY ActivityFields DEF Objects, Holding, Deallocating
<1>2. a.then # "none" => a.p \in Ptr
  BY <1>1, ActivityFields DEF Deallocating
<1>3. /\ b \in Activity /\ b.p = a.p /\ b.then = "none" /\ b.at \in {"dtor", "forget", "idle"}
      /\ b.at = "dtor" <=> a.then = "dtor"
      /\ b.at = "forget" <=> a.then = "forget"
      /\ b.at = "forget" => b.o = o
  <2>1. a.then = "none" => a.p = None
    BY <1>1, ActivityFields DEF Deallocating
  <2>2. a.then \in {"none", "dtor", "forget"}
    BY <1>1, ActivityFields
  <2>3. CASE a.then = "dtor"
    BY <2>3, <1>1, <1>2 DEF Freed, Doing, Activity, Deallocating, Ending, Holding, Serving
  <2>4. CASE a.then = "forget"
    BY <2>4, <1>1, <1>2 DEF Freed, Doing, Activity, Deallocating, Ending, Holding, Serving
  <2>5. CASE a.then = "none"
    BY <2>5, <2>1, <1>1 DEF Freed, Doing, Activity, Deallocating, Ending, Holding, Serving, Idle
  <2> QED BY <2>2, <2>3, <2>4, <2>5
<1>4. /\ \A q \in Ptr : q # h[o].cptr => w2[q] = w[q]
      /\ \A q \in Ptr : q = h[o].cptr => w2[q] = None
  BY DEF Release
<1>5. Blank \in Wrapper /\ Blank.cptr = None /\ Blank.st = "free" /\ ~Blank.own
  BY BlankType DEF Blank
<1>6. h[o].st = "dying"
  BY <1>1 DEF Relies, Deallocating
<1>7. g[o] = Blank
  BY <1>1 DEF Heap
<1>8. WrapperSound(g, c, w2, o)
  <2> HIDE DEF g, w2
  <2> QED BY <1>7, NoneIsNone DEF WrapperSound, Plain, Blank
<1>9. CountSound(new, g, o)
  <2> HIDE DEF g, new
  <2> QED BY <1>7, <1>5 DEF CountSound
<1>10. Relies(b, g, c, w2)
  <2>1. a.then = "dtor" => c[a.p] \in {"native", "shell"}
    BY <1>1 DEF Relies
  <2>2. a.then = "forget" => c[a.p] = "dying" /\ w2[a.p] = None
    BY <1>1, <1>2, <1>4 DEF Relies, Deallocating
  <2> HIDE DEF b, g, w2
  <2> QED BY <1>3, <1>5, <1>7, <2>1, <2>2 DEF Relies, Deallocating, Ending, Serving
<1> HIDE DEF b, w2, o
<1>11. \A q : ~Served(h[o], q)
  BY <1>6 DEF Served
<1>12. Touches(act, h, w, t, b, o, Blank, w2)
  BY <1>1, <1>3, <1>4, <1>5, <1>11 DEF Touches, Claimed, o
<1>13. Objects([act EXCEPT ![t] = b], [h EXCEPT ![o] = Blank], c, w2)
  BY <1>1, <1>3, <1>5, <1>8, <1>9, <1>10, <1>12, OneChanges
<1> QED BY <1>13, <1>3 DEF o, b, w2

\* The fields of a wrapper whose count, or whose other bookkeeping, changes.
LEMMA CountedFields ==
    ASSUME NEW v \in Wrapper, NEW n \in Int
    PROVE  /\ Counted(v, n).rc = n
           /\ Counted(v, n).st = IF n = 0 THEN "dying" ELSE v.st
           /\ Counted(v, n).ext = v.ext /\ Counted(v, n).own = v.own
           /\ Counted(v, n).shell = v.shell /\ Counted(v, n).valid = v.valid
           /\ Counted(v, n).cptr = v.cptr
           /\ Plain(v) => Plain(Counted(v, n))
BY DEF Counted, Wrapper, Plain
LEMMA DestroyedFields ==
    ASSUME NEW v \in Wrapper
    PROVE  /\ Destroyed(v).rc = v.rc /\ Destroyed(v).st = v.st /\ Destroyed(v).ext = v.ext
           /\ ~Destroyed(v).own /\ ~Destroyed(v).valid /\ Destroyed(v).cptr = None
           /\ Destroyed(v).shell = v.shell
           /\ Plain(v) => Plain(Destroyed(v))
BY DEF Destroyed, Wrapper, Plain

\* What a thread does after removeExtraRef.
Unlent(a, v) ==
    IF v.rc = 1 THEN Doing("dealloc", a.o, a.p, "forget") ELSE Onward(a, "forget")

\* removeExtraRef drops the reference of the destructor, which may be the last.
LEMMA ExtraRefObjects ==
    ASSUME NEW act \in [Thread -> Activity], NEW h \in Heap, NEW c,
           NEW w \in [Ptr -> Obj \cup {None}], Objects(act, h, c, w),
           NEW t \in Thread, act[t].at = "extra",
           \A u \in Thread : u # t => act[u].at \notin Holding
    PROVE  /\ Unlent(act[t], h[act[t].o]) \in Activity
           /\ h[act[t].o].rc > 0 /\ h[act[t].o].shell /\ ~h[act[t].o].own
           /\ Objects([act EXCEPT ![t] = Unlent(act[t], h[act[t].o])], DecRef(h, act[t].o), c, w)
<1> DEFINE a == act[t]
           o == a.o
           b == Unlent(a, h[o])
           n == h[o].rc - 1
           v == Counted(h[o], n)
           g == [h EXCEPT ![o] = v]
           new == [act EXCEPT ![t] = b]
<1>1. /\ a \in Activity /\ a.at = "extra" /\ o \in Obj /\ Relies(a, h, c, w) /\ a.p \in Ptr
      /\ a.then = "none"
  BY ActivityFields DEF Objects, Holding, Serving, Ending
<1>2. Served(h[o], a.p) /\ c[a.p] = "dying" /\ WrapperSound(h, c, w, o) /\ CountSound(act, h, o)
  BY <1>1 DEF Relies, Serving, Ending, Objects
<1>3. h[o] \in Wrapper /\ h[o].rc \in Int /\ h[o].ext \in Nat /\ h[o].cptr = a.p /\ a.p # None
  BY <1>1, <1>2, NoneIsNone DEF Heap, Wrapper, Served
<1>4. ~Dropped(act, o)
  BY <1>1 DEF Dropped, Holding
<1>5. h[o].rc = h[o].ext + 1 /\ h[o].st = "alive" /\ h[o].shell /\ ~h[o].own
  BY <1>2, <1>3, <1>4 DEF CountSound, Served, Lent, One
<1>6. n \in Int /\ n = h[o].ext /\ (n = 0 <=> h[o].rc = 1)
  BY <1>3, <1>5
<1>7. /\ b \in Activity /\ b.p = a.p /\ b.o = o
      /\ h[o].rc = 1 => b.at = "dealloc" /\ b.then = "forget"
      /\ h[o].rc # 1 => b.at = "forget" /\ b.then = "none"
  BY <1>1, <1>3 DEF Unlent, Doing, Onward, Activity, Deallocating, Ending, Holding, Serving
<1> HIDE DEF b, n
<1>8. /\ v \in Wrapper /\ v.rc = n /\ v.st = IF n = 0 THEN "dying" ELSE "alive"
      /\ v.ext = h[o].ext /\ ~v.own /\ v.shell /\ v.valid = h[o].valid /\ v.cptr = a.p
      /\ Plain(v)
  <2>1. Plain(h[o])
    BY <1>2 DEF WrapperSound
  <2>2. v \in Wrapper
    BY <1>3, <1>6, CountedType
  <2> HIDE DEF o
  <2> QED BY <2>1, <2>2, <1>3, <1>5, <1>6, CountedFields
<1>9. g[o] = v /\ v.cptr = h[o].cptr /\ v.shell = h[o].shell /\ v.st # "free"
  BY <1>1, <1>3, <1>5, <1>8 DEF Heap
<1> HIDE DEF v, g
<1>10. WrapperSound(g, c, w, o)
  BY <1>2, <1>8, <1>9 DEF WrapperSound
<1>11. CountSound(new, g, o)
  <2>1. new[t] = b
    OBVIOUS
  <2>2. h[o].rc # 1 => Dropped(new, o)
    BY <2>1, <1>7 DEF Dropped
  <2> HIDE DEF new
  <2>3. h[o].rc = 1 => CountSound(new, g, o)
    BY <2>1, <1>6, <1>7, <1>8, <1>9 DEF CountSound, Deallocating
  <2>4. h[o].rc # 1 => CountSound(new, g, o)
    BY <2>2, <1>3, <1>6, <1>8, <1>9 DEF CountSound, One
  <2> QED BY <2>3, <2>4
<1>12. w[a.p] = o
  BY <1>2, <1>3, <1>5 DEF WrapperSound
<1>13. Relies(b, g, c, w)
  <2>1. h[o].rc = 1 => Relies(b, g, c, w)
    BY <1>2, <1>3, <1>6, <1>7, <1>8, <1>9 DEF Relies, Deallocating, Ending, Serving, Lent
  <2>2. h[o].rc # 1 => Relies(b, g, c, w)
    BY <1>1, <1>2, <1>3, <1>6, <1>7, <1>8, <1>9, <1>12, NoneIsNone
    DEF Relies, Deallocating, Ending, Serving, Lent, Served
  <2> QED BY <2>1, <2>2
<1>14. ASSUME NEW u \in Thread, u # t, NEW q \in Ptr, act[u].p = q, Served(h[o], q)
       PROVE  FALSE
  BY <1>14, <1>1, <1>3, ServesAlone DEF Served
<1>15. Touches(act, h, w, t, b, o, v, w)
  BY <1>1, <1>7, <1>8, <1>9, <1>14 DEF Touches, Claimed
<1>17. Objects(new, [h EXCEPT ![o] = v], c, w)
  BY <1>1, <1>7, <1>8, <1>10, <1>11, <1>13, <1>15, OneChanges DEF g
<1>16. DecRef(h, o) = [h EXCEPT ![o] = v]
  BY <1>1 DEF DecRef, v, n
<1> QED BY <1>5, <1>7, <1>16, <1>17, <1>3 DEF b, a, o

\* Object::destroy forgets the instance of a wrapper that is still there.
LEMMA ForgetsObject ==
    ASSUME NEW act \in [Thread -> Activity], NEW h \in Heap, NEW c,
           NEW w \in [Ptr -> Obj \cup {None}], Objects(act, h, c, w),
           NEW t \in Thread, act[t].at = "forget", w[act[t].p] # None,
           \A u \in Thread : u # t => act[u].at \notin Holding
    PROVE  /\ Onward(act[t], "body") \in Activity
           /\ Objects([act EXCEPT ![t] = Onward(act[t], "body")],
                      [h EXCEPT ![act[t].o] = Destroyed(h[act[t].o])], c, Release(w, h, act[t].o))
<1> DEFINE a == act[t]
           o == a.o
           b == Onward(a, "body")
           v == Destroyed(h[o])
           g == [h EXCEPT ![o] = v]
           w2 == Release(w, h, o)
           new == [act EXCEPT ![t] = b]
<1>1. /\ a \in Activity /\ a.at = "forget" /\ o \in Obj /\ Relies(a, h, c, w) /\ a.p \in Ptr
      /\ a.then = "none"
  BY ActivityFields DEF Objects, Holding, Serving, Ending
<1>2. Served(h[o], a.p) /\ c[a.p] = "dying" /\ WrapperSound(h, c, w, o) /\ CountSound(act, h, o)
  BY <1>1 DEF Relies, Serving, Ending, Objects
<1>3. h[o] \in Wrapper /\ h[o].rc \in Int /\ h[o].ext \in Nat /\ h[o].cptr = a.p /\ a.p # None
  BY <1>1, <1>2, NoneIsNone DEF Heap, Wrapper, Served
<1>4. Dropped(act, o)
  BY <1>1 DEF Dropped
<1>5. h[o].rc = h[o].ext /\ h[o].rc > 0 /\ h[o].st = "alive" /\ h[o].shell /\ ~h[o].own
  BY <1>2, <1>3, <1>4 DEF CountSound, Served, One
<1>6. b \in Activity /\ b.p = a.p /\ b.o = o /\ b.at = "body" /\ b.then = "none"
  BY <1>1, <1>3 DEF Onward, Activity, Deallocating, Ending, Holding, Serving
<1> HIDE DEF b
<1>7. /\ v \in Wrapper /\ v.rc = h[o].rc /\ v.st = "alive" /\ v.ext = h[o].ext
      /\ ~v.own /\ v.shell /\ ~v.valid /\ v.cptr = None /\ Plain(v)
  BY <1>2, <1>3, <1>5, DestroyedType, DestroyedFields DEF WrapperSound
<1>8. g[o] = v
  BY <1>1 DEF Heap
<1>9. \A x \in Obj : x # o => g[x] = h[x]
  BY DEF Heap
<1>10. \A q \in Ptr : q # h[o].cptr => w2[q] = w[q]
  BY DEF Release
<1> HIDE DEF v, g, w2
<1>11. WrapperSound(g, c, w2, o)
  BY <1>7, <1>8 DEF WrapperSound
<1>12. CountSound(new, g, o)
  BY <1>3, <1>5, <1>7, <1>8 DEF CountSound, Lent, One
<1>13. Unserved(g, a.p)
  <2> SUFFICES ASSUME NEW x \in Obj, g[x].cptr = a.p
               PROVE  ~g[x].shell
    BY DEF Unserved
  <2>1. CASE x = o
    BY <2>1, <1>3, <1>7, <1>8
  <2>2. CASE x # o
    BY <2>2, <1>1, <1>3, <1>9 DEF Objects, OneWrapper
  <2> QED BY <2>1, <2>2
<1>14. Relies(b, g, c, w2)
  BY <1>2, <1>6, <1>13 DEF Relies, Deallocating, Ending, Serving
<1>15. ASSUME NEW u \in Thread, u # t, NEW q \in Ptr, act[u].p = q, Served(h[o], q)
       PROVE  FALSE
  BY <1>15, <1>1, <1>3, ServesAlone DEF Served
<1>16. Touches(act, h, w, t, b, o, v, w2)
  BY <1>1, <1>6, <1>7, <1>10, <1>15 DEF Touches, Claimed
<1>17. Objects(new, [h EXCEPT ![o] = v], c, w2)
  BY <1>1, <1>6, <1>7, <1>11, <1>12, <1>14, <1>16, OneChanges DEF g
<1> QED BY <1>6, <1>17 DEF b, a, o, v, w2

\* The fields of a wrapper that is given up, used less, or not valid any more.
LEMMA OwnFields ==
    ASSUME NEW v \in Wrapper, NEW own \in BOOLEAN
    PROVE  LET w == [v EXCEPT !.own = own] IN
           /\ w \in Wrapper /\ w.own = own
           /\ w.rc = v.rc /\ w.st = v.st /\ w.ext = v.ext /\ w.shell = v.shell
           /\ w.valid = v.valid /\ w.cptr = v.cptr /\ (Plain(v) => Plain(w))
BY DEF Wrapper, Plain
LEMMA ExtFields ==
    ASSUME NEW v \in Wrapper, v.ext > 0
    PROVE  LET w == [v EXCEPT !.ext = @ - 1] IN
           /\ w \in Wrapper /\ w.ext = v.ext - 1
           /\ w.rc = v.rc /\ w.st = v.st /\ w.own = v.own /\ w.shell = v.shell
           /\ w.valid = v.valid /\ w.cptr = v.cptr /\ (Plain(v) => Plain(w))
BY DEF Wrapper, Plain
LEMMA InvalidFields ==
    ASSUME NEW v \in Wrapper
    PROVE  LET w == [v EXCEPT !.valid = FALSE] IN
           /\ w \in Wrapper /\ ~w.valid
           /\ w.rc = v.rc /\ w.st = v.st /\ w.ext = v.ext /\ w.own = v.own
           /\ w.shell = v.shell /\ w.cptr = v.cptr /\ (Plain(v) => Plain(w))
BY DEF Wrapper, Plain

\* Only a deallocation, which holds the GIL, has the destructor of an instance
\* that its wrapper claims.
LEMMA ClaimedIsFree ==
    ASSUME NEW act \in [Thread -> Activity], NEW h, NEW c, NEW w, Objects(act, h, c, w),
           NEW o \in Obj, Claimed(h[o]), NEW u \in Thread,
           act[u].at \notin Holding \/ act[u].then # "dtor" \/ act[u].o # o
    PROVE  act[u].p # h[o].cptr
<1>1. act[u] \in Activity
  OBVIOUS
<1>2. act[u].then = "dtor" => act[u].at \in Holding
  BY <1>1, ActivityFields DEF Ending, Holding
<1> QED BY <1>2 DEF Objects, OwnerDeletes

\* Object::invalidate of a native instance.
LEMMA InvalidatesObject ==
    ASSUME NEW act \in [Thread -> Activity], NEW h \in Heap, NEW c,
           NEW w \in [Ptr -> Obj \cup {None}], Objects(act, h, c, w),
           NEW t \in Thread, act[t].at = "invalidate", ~h[act[t].o].shell,
           \A u \in Thread : u # t => act[u].at \notin Holding
    PROVE  Objects([act EXCEPT ![t] = Idle],
                   [h EXCEPT ![act[t].o] = [h[act[t].o] EXCEPT !.valid = FALSE]], c,
                   Release(w, h, act[t].o))
<1> DEFINE a == act[t]
           o == a.o
           b == Idle
           v == [h[o] EXCEPT !.valid = FALSE]
           g == [h EXCEPT ![o] = v]
           w2 == Release(w, h, o)
           new == [act EXCEPT ![t] = b]
<1>1. /\ a \in Activity /\ a.at = "invalidate" /\ o \in Obj /\ Relies(a, h, c, w)
      /\ a.p = None /\ a.then = "none"
  BY ActivityFields DEF Objects, Holding
<1>2. h[o].st = "alive" /\ WrapperSound(h, c, w, o) /\ CountSound(act, h, o)
  BY <1>1 DEF Relies, Objects
<1>3. h[o] \in Wrapper /\ h[o].rc \in Int /\ h[o].ext \in Nat /\ ~h[o].shell
  BY <1>1 DEF Heap, Wrapper
<1>4. b \in Activity /\ b.p = None /\ b.at = "idle" /\ b.then = "none"
  BY DEF Idle, Doing, Activity, Deallocating, Ending, Holding, Serving
<1>5. /\ v \in Wrapper /\ v.rc = h[o].rc /\ v.st = h[o].st /\ v.ext = h[o].ext
      /\ v.own = h[o].own /\ v.shell = h[o].shell /\ ~v.valid /\ v.cptr = h[o].cptr
      /\ Plain(v)
  <2>1. Plain(h[o])
    BY <1>2 DEF WrapperSound
  <2> HIDE DEF o
  <2> QED BY <2>1, <1>3, InvalidFields
<1>6. g[o] = v
  BY <1>1 DEF Heap
<1>7. \A q \in Ptr : q # h[o].cptr => w2[q] = w[q]
  BY DEF Release
<1> HIDE DEF v, g, w2, b
<1>8. WrapperSound(g, c, w2, o)
  BY <1>2, <1>5, <1>6 DEF WrapperSound
<1>9. CountSound(new, g, o)
  BY <1>1, <1>2, <1>3, <1>5, <1>6 DEF CountSound, Lent, One
<1>10. Relies(b, g, c, w2)
  BY <1>4 DEF Relies, Deallocating, Ending, Serving
<1>11. Claimed(v) => Claimed(h[o])
  BY <1>5 DEF Claimed
<1>12. ASSUME NEW u \in Thread, u # t, Claimed(v)
       PROVE  act[u].p # v.cptr
  BY <1>1, <1>5, <1>11, <1>12, ClaimedIsFree
<1>13. Touches(act, h, w, t, b, o, v, w2)
  <2>1. \A q : ~Served(h[o], q)
    BY <1>3 DEF Served
  <2>2. Claimed(v) => v.cptr # None
    BY DEF Claimed
  <2> QED BY <2>1, <2>2, <1>1, <1>4, <1>5, <1>7, <1>12 DEF Touches, Deallocating
<1>14. Objects(new, [h EXCEPT ![o] = v], c, w2)
  BY <1>1, <1>4, <1>5, <1>8, <1>9, <1>10, <1>13, OneChanges DEF g
<1> QED BY <1>14 DEF b, a, o, v, w2

\* What a thread does once Python has dropped a reference.
Unused(v, o) == IF v.rc = 1 THEN Doing("dealloc", o, None, "none") ELSE Idle

\* Python drops a reference, which may be the last.
LEMMA DropsObject ==
    ASSUME NEW act \in [Thread -> Activity], NEW h \in Heap, NEW c,
           NEW w \in [Ptr -> Obj \cup {None}], Objects(act, h, c, w),
           NEW t \in Thread, act[t].at = "idle", NEW o \in Obj, h[o].ext > 0,
           \A u \in Thread : act[u].at \notin Holding
    PROVE  /\ Unused(h[o], o) \in Activity
           /\ h[o].rc > 0 /\ h[o].st = "alive"
           /\ Objects([act EXCEPT ![t] = Unused(h[o], o)],
                      DecRef([h EXCEPT ![o].ext = @ - 1], o), c, w)
<1> DEFINE a == act[t]
           b == Unused(h[o], o)
           n == h[o].rc - 1
           e == [h[o] EXCEPT !.ext = @ - 1]
           v == Counted(e, n)
           g == [h EXCEPT ![o] = v]
           new == [act EXCEPT ![t] = b]
<1>1. a \in Activity /\ a.at = "idle" /\ a.p = None /\ a.then = "none"
  BY ActivityFields DEF Objects
<1>2. WrapperSound(h, c, w, o) /\ CountSound(act, h, o)
  BY DEF Objects
<1>3. h[o] \in Wrapper /\ h[o].rc \in Int /\ h[o].ext \in Nat
  BY DEF Heap, Wrapper
<1>4. ~Dropped(act, o)
  BY DEF Dropped, Holding
<1>5. h[o].st = "alive"
  <2>1. h[o].st \in {"free", "alive", "dying"}
    BY <1>3 DEF Wrapper
  <2>2. h[o].st # "free"
    BY <1>2 DEF WrapperSound, Blank
  <2>3. h[o].st # "dying"
    BY <1>2 DEF CountSound
  <2> QED BY <2>1, <2>2, <2>3
<1>6. /\ h[o].rc > 0 /\ (Lent(h[o]) => h[o].rc = h[o].ext + 1)
      /\ ~Lent(h[o]) => h[o].rc = h[o].ext
  BY <1>2, <1>3, <1>4, <1>5 DEF CountSound, One
<1>7. n \in Int /\ (n = 0 <=> h[o].rc = 1) /\ (n = 0 => h[o].ext = 1 /\ ~Lent(h[o])) /\ n >= 0
  BY <1>3, <1>6
<1>8. /\ b \in Activity /\ b.p = None
      /\ n = 0 => b.at = "dealloc" /\ b.o = o /\ b.then = "none"
      /\ n # 0 => b.at = "idle" /\ b.then = "none"
  BY <1>1, <1>7 DEF Unused, Idle, Doing, Activity, Deallocating, Ending, Holding, Serving
<1> HIDE DEF b, n
<1>9. Plain(h[o])
  BY <1>2 DEF WrapperSound
<1>10. /\ e \in Wrapper /\ e.rc = h[o].rc /\ e.st = "alive" /\ e.ext = h[o].ext - 1
       /\ e.own = h[o].own /\ e.shell = h[o].shell /\ e.valid = h[o].valid
       /\ e.cptr = h[o].cptr /\ Plain(e)
  BY <1>3, <1>5, <1>9, ExtFields
<1> HIDE DEF e
<1>11. /\ v \in Wrapper /\ v.rc = n /\ v.st = IF n = 0 THEN "dying" ELSE "alive"
       /\ v.ext = h[o].ext - 1 /\ v.own = h[o].own /\ v.shell = h[o].shell
       /\ v.valid = h[o].valid /\ v.cptr = h[o].cptr /\ Plain(v)
  BY <1>7, <1>10, CountedType, CountedFields
<1>12. g[o] = v /\ v.st # "free"
  BY <1>11 DEF Heap
<1>13. Lent(v) <=> Lent(h[o])
  BY <1>11 DEF Lent
<1> HIDE DEF v, g
<1>14. WrapperSound(g, c, w, o)
  BY <1>2, <1>5, <1>11, <1>12 DEF WrapperSound
<1>15. CountSound(new, g, o)
  <2>1. new[t] = b /\ (new[t].at # "forget") /\ \A u \in Thread : u # t => new[u] = act[u]
    BY <1>8
  <2>2. ~Dropped(new, o)
    BY <2>1, <1>4 DEF Dropped
  <2> HIDE DEF new
  <2>3. n = 0 => CountSound(new, g, o)
    BY <2>1, <1>3, <1>7, <1>8, <1>11, <1>12 DEF CountSound, Deallocating
  <2>4. n # 0 => CountSound(new, g, o)
    BY <2>2, <1>3, <1>6, <1>7, <1>11, <1>12, <1>13 DEF CountSound, One, n
  <2> QED BY <2>3, <2>4
<1>16. Relies(b, g, c, w)
  BY <1>7, <1>8, <1>11, <1>12, <1>13 DEF Relies, Deallocating, Ending, Serving
<1>17. Claimed(v) => Claimed(h[o])
  BY <1>11 DEF Claimed
<1>18. ASSUME NEW u \in Thread, u # t, Claimed(v)
       PROVE  act[u].p # v.cptr
  BY <1>11, <1>17, <1>18, ClaimedIsFree
<1>19. ASSUME NEW q \in Ptr, Served(h[o], q)
       PROVE  Served(v, q)
  <2>1. Lent(h[o])
    BY <1>19, NoneIsNone DEF Served, Lent
  <2> QED BY <2>1, <1>7, <1>11, <1>19 DEF Served
<1>20. Touches(act, h, w, t, b, o, v, w)
  <2>1. Claimed(v) => v.cptr # None
    BY DEF Claimed
  <2> QED BY <2>1, <1>1, <1>8, <1>11, <1>18, <1>19 DEF Touches, Deallocating
<1>21. Objects(new, [h EXCEPT ![o] = v], c, w)
  BY <1>8, <1>11, <1>14, <1>15, <1>16, <1>20, OneChanges DEF g
<1>22. DecRef([h EXCEPT ![o].ext = @ - 1], o) = [h EXCEPT ![o] = v]
  <2> DEFINE k == [h EXCEPT ![o].ext = @ - 1]
  <2>1. k = [h EXCEPT ![o] = e] /\ k[o] = e
    BY DEF e, Heap
  <2>2. DecRef(k, o) = [k EXCEPT ![o] = Counted(k[o], k[o].rc - 1)]
    BY DEF DecRef
  <2>3. Counted(k[o], k[o].rc - 1) = v
    BY <2>1, <1>10 DEF v, n
  <2>4. [k EXCEPT ![o] = v] = [h EXCEPT ![o] = v]
    BY <2>1 DEF Heap
  <2> HIDE DEF k
  <2> QED BY <2>2, <2>3, <2>4 DEF k
<1> QED BY <1>5, <1>6, <1>8, <1>21, <1>22 DEF b

\* The count of a wrapper that Python uses, when no thread holds the GIL.
LEMMA UsedObject ==
    ASSUME NEW act \in [Thread -> Activity], NEW h \in Heap, NEW c, NEW w, Objects(act, h, c, w),
           NEW o \in Obj, h[o].ext > 0, \A u \in Thread : act[u].at \notin Holding
    PROVE  /\ h[o].st = "alive" /\ h[o].rc > 0 /\ ~Dropped(act, o)
           /\ Lent(h[o]) => h[o].rc = h[o].ext + 1
           /\ ~Lent(h[o]) => h[o].rc = h[o].ext
<1>1. WrapperSound(h, c, w, o) /\ CountSound(act, h, o)
  BY DEF Objects
<1>2. h[o] \in Wrapper /\ h[o].rc \in Int /\ h[o].ext \in Nat
      /\ h[o].st \in {"free", "alive", "dying"}
  BY DEF Heap, Wrapper
<1>3. ~Dropped(act, o)
  BY DEF Dropped, Holding
<1>4. h[o].st # "free"
  BY <1>1 DEF WrapperSound, Blank
<1>5. h[o].st # "dying"
  BY <1>1 DEF CountSound
<1> QED BY <1>1, <1>2, <1>3, <1>4, <1>5 DEF CountSound, One

\* The activity of a thread whose call of the binding has returned.
LEMMA IdleActivity ==
    /\ Idle \in Activity /\ Idle.p = None /\ Idle.at = "idle" /\ Idle.then = "none"
    /\ \A o \in Obj : LET b == Doing("invalidate", o, None, "none") IN
           b \in Activity /\ b.p = None /\ b.at = "invalidate" /\ b.then = "none" /\ b.o = o
BY DEF Idle, Doing, Activity, Deallocating, Ending, Holding, Serving

\* releaseOwnership of a shell: a reference for its destructor.
LEMMA LendsObject ==
    ASSUME NEW act \in [Thread -> Activity], NEW h \in Heap, NEW c,
           NEW w \in [Ptr -> Obj \cup {None}], Objects(act, h, c, w),
           NEW t \in Thread, act[t].at = "idle", NEW o \in Obj, h[o].ext > 0,
           h[o].own, h[o].valid, h[o].shell, \A u \in Thread : act[u].at \notin Holding
    PROVE  Objects([act EXCEPT ![t] = Idle], IncRef([h EXCEPT ![o].own = FALSE], o), c, w)
<1> DEFINE b == Idle
           n == h[o].rc + 1
           e == [h[o] EXCEPT !.own = FALSE]
           v == Counted(e, n)
           g == [h EXCEPT ![o] = v]
           new == [act EXCEPT ![t] = b]
<1>1. act[t].p = None /\ act[t].then = "none"
  BY ActivityFields
<1>2. WrapperSound(h, c, w, o) /\ CountSound(act, h, o)
  BY DEF Objects
<1>3. h[o] \in Wrapper /\ h[o].rc \in Int /\ h[o].ext \in Nat
  BY DEF Heap, Wrapper
<1>4. h[o].st = "alive" /\ h[o].rc > 0 /\ ~Dropped(act, o) /\ h[o].rc = h[o].ext
  BY UsedObject DEF Lent
<1>5. Plain(h[o]) /\ h[o].cptr # None
  BY <1>2 DEF WrapperSound
<1>6. n \in Int /\ n = h[o].ext + 1 /\ n # 0
  BY <1>3, <1>4
<1>7. b \in Activity /\ b.p = None /\ b.at = "idle" /\ b.then = "none"
  BY IdleActivity
<1> HIDE DEF b, n
<1>8. /\ e \in Wrapper /\ e.rc = h[o].rc /\ e.st = "alive" /\ e.ext = h[o].ext
      /\ ~e.own /\ e.shell = h[o].shell /\ e.valid = h[o].valid /\ e.cptr = h[o].cptr
      /\ Plain(e)
  BY <1>3, <1>4, <1>5, OwnFields
<1> HIDE DEF e
<1>9. /\ v \in Wrapper /\ v.rc = n /\ v.st = "alive" /\ v.ext = h[o].ext
      /\ ~v.own /\ v.shell = h[o].shell /\ v.valid = h[o].valid /\ v.cptr = h[o].cptr
      /\ Plain(v)
  <2>1. v \in Wrapper /\ v.rc = n /\ v.st = (IF n = 0 THEN "dying" ELSE e.st) /\ n # 0
    <3>1. e \in Wrapper /\ n \in Int /\ n # 0
      BY <1>6, <1>8
    <3> QED BY <3>1, CountedType, CountedFields
  <2>2. /\ v.ext = e.ext /\ v.own = e.own /\ v.shell = e.shell /\ v.valid = e.valid
        /\ v.cptr = e.cptr /\ Plain(v)
    <3>1. e \in Wrapper /\ n \in Int /\ Plain(e)
      BY <1>6, <1>8
    <3> QED BY <3>1, CountedFields
  <2> HIDE DEF v
  <2> QED BY <2>1, <2>2, <1>8
<1>10. g[o] = v
  BY DEF Heap
<1> HIDE DEF v, g
<1>11. WrapperSound(g, c, w, o)
  BY <1>2, <1>4, <1>9, <1>10 DEF WrapperSound
<1>12. CountSound(new, g, o)
  <2>1. new[t] = b /\ (\A u \in Thread : u # t => new[u] = act[u])
    OBVIOUS
  <2>2. ~Dropped(new, o)
    BY <2>1, <1>4, <1>7 DEF Dropped
  <2>3. Lent(v) /\ v.rc > 0 /\ v.rc = v.ext + 1
    BY <1>3, <1>5, <1>6, <1>9 DEF Lent
  <2> QED BY <2>2, <2>3, <1>9, <1>10 DEF CountSound, One
<1>13. Relies(b, g, c, w)
  BY <1>7 DEF Relies, Deallocating, Ending, Serving
<1>14. ~Claimed(v) /\ \A q : ~Served(h[o], q)
  BY <1>9 DEF Claimed, Served
<1>15. Touches(act, h, w, t, b, o, v, w)
  BY <1>1, <1>7, <1>9, <1>14 DEF Touches, Deallocating
<1>16. Objects(new, [h EXCEPT ![o] = v], c, w)
  BY <1>7, <1>9, <1>11, <1>12, <1>13, <1>15, OneChanges DEF g
<1>17. IncRef([h EXCEPT ![o].own = FALSE], o) = [h EXCEPT ![o] = v]
  <2> DEFINE k == [h EXCEPT ![o].own = FALSE]
  <2>1. k = [h EXCEPT ![o] = e] /\ k[o] = e
    BY DEF e, Heap
  <2>2. IncRef(k, o) = [k EXCEPT ![o] = [e EXCEPT !.rc = e.rc + 1]]
    BY <2>1 DEF IncRef
  <2>3. [e EXCEPT !.rc = e.rc + 1] = v
    <3>1. v = [e EXCEPT !.rc = n, !.st = "alive"]
      BY <1>6, <1>8 DEF v, Counted
    <3>2. e.rc + 1 = n
      BY <1>8 DEF n
    <3> QED BY <3>1, <3>2, <1>8 DEF Wrapper
  <2>4. [k EXCEPT ![o] = v] = [h EXCEPT ![o] = v]
    BY <2>1 DEF Heap
  <2> HIDE DEF k
  <2> QED BY <2>2, <2>3, <2>4 DEF k
<1> QED BY <1>16, <1>17 DEF b

\* releaseOwnership of a native instance, which is invalidated next.
LEMMA GivesObject ==
    ASSUME NEW act \in [Thread -> Activity], NEW h \in Heap, NEW c,
           NEW w \in [Ptr -> Obj \cup {None}], Objects(act, h, c, w),
           NEW t \in Thread, act[t].at = "idle", NEW o \in Obj, h[o].ext > 0,
           h[o].own, h[o].valid, ~h[o].shell, \A u \in Thread : act[u].at \notin Holding
    PROVE  Objects([act EXCEPT ![t] = Doing("invalidate", o, None, "none")],
                   [h EXCEPT ![o].own = FALSE], c, w)
<1> DEFINE b == Doing("invalidate", o, None, "none")
           v == [h[o] EXCEPT !.own = FALSE]
           g == [h EXCEPT ![o] = v]
           new == [act EXCEPT ![t] = b]
<1>1. act[t].p = None /\ act[t].then = "none"
  BY ActivityFields
<1>2. WrapperSound(h, c, w, o) /\ CountSound(act, h, o)
  BY DEF Objects
<1>3. h[o] \in Wrapper /\ h[o].rc \in Int /\ h[o].ext \in Nat
  BY DEF Heap, Wrapper
<1>4. h[o].st = "alive" /\ h[o].rc > 0 /\ h[o].rc = h[o].ext
  BY UsedObject DEF Lent
<1>5. Plain(h[o]) /\ h[o].cptr # None /\ Claimed(h[o])
  BY <1>2 DEF WrapperSound, Claimed
<1>7. b \in Activity /\ b.p = None /\ b.at = "invalidate" /\ b.then = "none" /\ b.o = o
  BY IdleActivity
<1> HIDE DEF b
<1>8. /\ v \in Wrapper /\ v.rc = h[o].rc /\ v.st = "alive" /\ v.ext = h[o].ext
      /\ ~v.own /\ v.shell = h[o].shell /\ v.valid = h[o].valid /\ v.cptr = h[o].cptr
      /\ Plain(v)
  BY <1>3, <1>4, <1>5, OwnFields
<1>10. g[o] = v
  BY DEF Heap
<1> HIDE DEF v, g
<1>11. WrapperSound(g, c, w, o)
  BY <1>2, <1>4, <1>8, <1>10 DEF WrapperSound
<1>12. CountSound(new, g, o)
  BY <1>3, <1>4, <1>8, <1>10 DEF CountSound, One, Lent
<1>13. Relies(b, g, c, w)
  BY <1>7, <1>8, <1>10 DEF Relies, Deallocating, Ending, Serving
<1>14. \A q : ~Served(h[o], q)
  BY DEF Served
<1>15. ASSUME NEW u \in Thread
       PROVE  act[u].p # v.cptr
  BY <1>5, <1>8, ClaimedIsFree
<1>16. Touches(act, h, w, t, b, o, v, w)
  BY <1>1, <1>5, <1>7, <1>8, <1>14, <1>15 DEF Touches, Deallocating
<1>17. Objects(new, [h EXCEPT ![o] = v], c, w)
  BY <1>7, <1>8, <1>11, <1>12, <1>13, <1>16, OneChanges DEF g
<1> QED BY <1>17 DEF b, v

\* getOwnership of a shell drops the reference of its destructor.
LEMMA TakesShell ==
    ASSUME NEW act \in [Thread -> Activity], NEW h \in Heap, NEW c,
           NEW w \in [Ptr -> Obj \cup {None}], Objects(act, h, c, w),
           NEW t \in Thread, act[t].at = "idle", NEW o \in Obj, h[o].ext > 0,
           ~h[o].own, h[o].valid, h[o].shell, \A u \in Thread : act[u].at \notin Holding,
           \A u \in Thread : act[u].p # h[o].cptr
    PROVE  /\ h[o].rc > 1 /\ h[o].st = "alive"
           /\ Objects([act EXCEPT ![t] = Idle], DecRef([h EXCEPT ![o].own = TRUE], o), c, w)
<1> DEFINE b == Idle
           n == h[o].rc - 1
           e == [h[o] EXCEPT !.own = TRUE]
           v == Counted(e, n)
           g == [h EXCEPT ![o] = v]
           new == [act EXCEPT ![t] = b]
<1>1. act[t].p = None /\ act[t].then = "none"
  BY ActivityFields
<1>2. WrapperSound(h, c, w, o) /\ CountSound(act, h, o)
  BY DEF Objects
<1>3. h[o] \in Wrapper /\ h[o].rc \in Int /\ h[o].ext \in Nat
  BY DEF Heap, Wrapper
<1>5. Plain(h[o]) /\ h[o].cptr # None
  BY <1>2 DEF WrapperSound
<1>4. h[o].st = "alive" /\ h[o].rc > 0 /\ ~Dropped(act, o) /\ h[o].rc = h[o].ext + 1
  BY <1>5, UsedObject DEF Lent
<1>6. n \in Int /\ n = h[o].ext /\ n > 0
  BY <1>3, <1>4
<1>7. b \in Activity /\ b.p = None /\ b.at = "idle" /\ b.then = "none"
  BY IdleActivity
<1> HIDE DEF b, n
<1>8. /\ e \in Wrapper /\ e.rc = h[o].rc /\ e.st = "alive" /\ e.ext = h[o].ext
      /\ e.own /\ e.shell = h[o].shell /\ e.valid = h[o].valid /\ e.cptr = h[o].cptr
      /\ Plain(e)
  BY <1>3, <1>4, <1>5, OwnFields
<1> HIDE DEF e
<1>9. /\ v \in Wrapper /\ v.rc = n /\ v.st = "alive" /\ v.ext = h[o].ext
      /\ v.own /\ v.shell = h[o].shell /\ v.valid = h[o].valid /\ v.cptr = h[o].cptr
      /\ Plain(v)
  <2>1. v \in Wrapper /\ v.rc = n /\ v.st = (IF n = 0 THEN "dying" ELSE e.st) /\ n # 0
    <3>1. e \in Wrapper /\ n \in Int /\ n # 0
      BY <1>6, <1>8
    <3> QED BY <3>1, CountedType, CountedFields
  <2>2. /\ v.ext = e.ext /\ v.own = e.own /\ v.shell = e.shell /\ v.valid = e.valid
        /\ v.cptr = e.cptr /\ Plain(v)
    <3>1. e \in Wrapper /\ n \in Int /\ Plain(e)
      BY <1>6, <1>8
    <3> QED BY <3>1, CountedFields
  <2> HIDE DEF v
  <2> QED BY <2>1, <2>2, <1>8
<1>10. g[o] = v
  BY DEF Heap
<1> HIDE DEF v, g
<1>11. WrapperSound(g, c, w, o)
  BY <1>2, <1>4, <1>9, <1>10 DEF WrapperSound
<1>12. CountSound(new, g, o)
  BY <1>3, <1>6, <1>9, <1>10 DEF CountSound, One, Lent
<1>13. Relies(b, g, c, w)
  BY <1>7 DEF Relies, Deallocating, Ending, Serving
<1>14. \A u \in Thread, q \in Ptr : act[u].p = q => ~Served(h[o], q)
  BY DEF Served
<1>15. Touches(act, h, w, t, b, o, v, w)
  BY <1>1, <1>5, <1>7, <1>9, <1>14 DEF Touches, Deallocating
<1>16. Objects(new, [h EXCEPT ![o] = v], c, w)
  BY <1>7, <1>9, <1>11, <1>12, <1>13, <1>15, OneChanges DEF g
<1>17. DecRef([h EXCEPT ![o].own = TRUE], o) = [h EXCEPT ![o] = v]
  <2> DEFINE k == [h EXCEPT ![o].own = TRUE]
  <2>1. k = [h EXCEPT ![o] = e] /\ k[o] = e
    BY DEF e, Heap
  <2>2. DecRef(k, o) = [k EXCEPT ![o] = Counted(k[o], k[o].rc - 1)]
    BY DEF DecRef
  <2>3. Counted(k[o], k[o].rc - 1) = v
    BY <2>1, <1>8 DEF v, n
  <2>4. [k EXCEPT ![o] = v] = [h EXCEPT ![o] = v]
    BY <2>1 DEF Heap
  <2> HIDE DEF k
  <2> QED BY <2>2, <2>3, <2>4 DEF k
<1>18. h[o].rc > 1
  BY <1>3, <1>4
<1> QED BY <1>4, <1>16, <1>17, <1>18 DEF b

\* getOwnership of a native instance that is valid: there is nothing to revive.
LEMMA TakesNative ==
    ASSUME NEW act \in [Thread -> Activity], NEW h \in Heap, NEW c,
           NEW w \in [Ptr -> Obj \cup {None}], Objects(act, h, c, w),
           NEW t \in Thread, act[t].at = "idle", NEW o \in Obj, h[o].ext > 0,
           ~h[o].own, h[o].valid, ~h[o].shell, \A u \in Thread : act[u].at \notin Holding
    PROVE  /\ Revived([h EXCEPT ![o].own = TRUE], o) = {}
           /\ Objects([act EXCEPT ![t] = Idle], MadeValid([h EXCEPT ![o].own = TRUE], o), c, w)
<1> DEFINE b == Idle
           v == [h[o] EXCEPT !.own = TRUE]
           g == [h EXCEPT ![o] = v]
           new == [act EXCEPT ![t] = b]
<1>1. act[t].p = None /\ act[t].then = "none"
  BY ActivityFields
<1>2. WrapperSound(h, c, w, o) /\ CountSound(act, h, o)
  BY DEF Objects
<1>3. h[o] \in Wrapper /\ h[o].rc \in Int /\ h[o].ext \in Nat
  BY DEF Heap, Wrapper
<1>4. h[o].st = "alive" /\ h[o].rc > 0 /\ h[o].rc = h[o].ext
  BY UsedObject DEF Lent
<1>5. Plain(h[o]) /\ h[o].cptr # None /\ Claimed(h[o])
  BY <1>2 DEF WrapperSound, Claimed
<1>7. b \in Activity /\ b.p = None /\ b.at = "idle" /\ b.then = "none"
  BY IdleActivity
<1> HIDE DEF b
<1>8. /\ v \in Wrapper /\ v.rc = h[o].rc /\ v.st = "alive" /\ v.ext = h[o].ext
      /\ v.own /\ v.shell = h[o].shell /\ v.valid = h[o].valid /\ v.cptr = h[o].cptr
      /\ Plain(v)
  BY <1>3, <1>4, <1>5, OwnFields
<1>9. g \in Heap
  BY <1>8, UpdateType
<1>10. g[o] = v
  BY DEF Heap
<1> HIDE DEF v, g
<1>11. WrapperSound(g, c, w, o)
  BY <1>2, <1>4, <1>8, <1>10 DEF WrapperSound
<1>12. CountSound(new, g, o)
  BY <1>3, <1>4, <1>8, <1>10 DEF CountSound, One, Lent
<1>13. Relies(b, g, c, w)
  BY <1>7 DEF Relies, Deallocating, Ending, Serving
<1>14. \A q : ~Served(h[o], q)
  BY DEF Served
<1>15. ASSUME NEW u \in Thread
       PROVE  act[u].p # v.cptr
  BY <1>5, <1>8, ClaimedIsFree
<1>16. Touches(act, h, w, t, b, o, v, w)
  BY <1>1, <1>5, <1>7, <1>8, <1>14, <1>15 DEF Touches, Deallocating
<1>17. Objects(new, [h EXCEPT ![o] = v], c, w)
  BY <1>7, <1>8, <1>11, <1>12, <1>13, <1>16, OneChanges DEF g
<1>18. [h EXCEPT ![o].own = TRUE] = g
  BY DEF g, v
<1>19. Revived(g, o) = {}
  BY <1>8, <1>10 DEF Revived
<1>20. MadeValid(g, o) = g
  <2>1. \A x \in Obj : [g[x] EXCEPT !.valid = @ \/ x \in Revived(g, o)] = g[x]
    BY <1>9, <1>19 DEF Heap, Wrapper
  <2> QED BY <2>1, <1>9 DEF MadeValid, Heap
<1> QED BY <1>17, <1>18, <1>19, <1>20 DEF b, g

-----------------------------------------------------------------------------
(* Steps that change instances, most of them without the GIL.              *)

\* The map leads to wrappers of the right address.
MapSound(h, w) == \A p \in Ptr : w[p] # None => h[w[p]].st # "free" /\ h[w[p]].cptr = p

\* A destructor in progress, or to come, is that of an instance.
LEMMA PointerState ==
    ASSUME NEW a \in Activity, NEW h, NEW c, NEW w, Relies(a, h, c, w), a.p # None
    PROVE  c[a.p] \in {"native", "shell", "dying"}
<1>1. a.at \in Ending \/ a.then = "forget" \/ a.at = "dtor" \/ a.then = "dtor"
  BY ActivityFields DEF Deallocating
<1> QED BY <1>1 DEF Relies

\* The destructor of an instance that no wrapper claims goes on, in thread t.
Destructs(act, h, c, t, b, p, c2) ==
    /\ act[t].at \notin Deallocating \cup {"forget"}
    /\ b.at \notin Deallocating \cup {"forget"}
    /\ act[t].p \in {p, None} /\ b.p \in {p, None}
    /\ \A u \in Thread : u # t => act[u].p # p
    /\ \A q \in Ptr : q # p => c2[q] = c[q]
    /\ c2[p] = "dying" => b.p = p
    /\ \A x \in Obj : h[x].cptr = p =>
          /\ ~Claimed(h[x])
          /\ IF h[x].shell THEN c2[p] \in {"shell", "dying"} ELSE c2[p] # "shell"

LEMMA InstanceChanges ==
    ASSUME NEW act \in [Thread -> Activity], NEW h \in Heap, NEW c, NEW w, Objects(act, h, c, w),
           NEW t \in Thread, NEW b \in Activity, NEW p \in Ptr, NEW c2,
           Destructs(act, h, c, t, b, p, c2), Relies(b, h, c2, w)
    PROVE  Objects([act EXCEPT ![t] = b], h, c2, w)
<1> DEFINE new == [act EXCEPT ![t] = b]
<1> USE DEF Destructs
<1>1. /\ new \in [Thread -> Activity] /\ new[t] = b
      /\ \A u \in Thread : u # t => new[u] = act[u]
  OBVIOUS
<1>2. OneWrapper(h) /\ OneDestructor(act) /\ OwnerDeletes(act, h) /\ DyingEnds(act, c)
  BY DEF Objects
<1>3. ASSUME NEW x \in Obj
      PROVE  WrapperSound(h, c2, w, x) /\ CountSound(new, h, x)
  <2>1. WrapperSound(h, c, w, x) /\ CountSound(act, h, x)
    BY DEF Objects
  <2>2. h[x].cptr \in Ptr \cup {None}
    BY DEF Heap, Wrapper
  <2>3. WrapperSound(h, c2, w, x)
    <3>1. CASE h[x].cptr = p
      <4>1. p # None /\ (h[x].valid => h[x].shell)
        BY <3>1, NoneIsNone DEF Claimed
      <4> QED BY <4>1, <3>1, <2>1 DEF WrapperSound
    <3>2. CASE h[x].cptr # p
      <4>1. h[x].cptr # None => c2[h[x].cptr] = c[h[x].cptr]
        BY <3>2, <2>2
      <4> QED BY <4>1, <2>1 DEF WrapperSound
    <3> QED BY <3>1, <3>2
  <2>4. Dropped(new, x) <=> Dropped(act, x)
    BY <1>1 DEF Dropped
  <2>5. ASSUME NEW u \in Thread, act[u].at \in Deallocating /\ act[u].o = x
        PROVE  new[u].at \in Deallocating /\ new[u].o = x
    BY <2>5, <1>1
  <2> HIDE DEF new
  <2>6. CountSound(new, h, x)
    BY <2>1, <2>4, <2>5 DEF CountSound
  <2> QED BY <2>3, <2>6
<1>4. ASSUME NEW u \in Thread
      PROVE  Relies(new[u], h, c2, w)
  <2>1. CASE u = t
    BY <2>1, <1>1
  <2>2. CASE u # t
    <3> DEFINE a == act[u]
    <3>1. a \in Activity /\ new[u] = a /\ Relies(a, h, c, w) /\ a.p # p
      BY <2>2, <1>1 DEF Objects
    <3> HIDE DEF a
    <3>2. a.p \in Ptr => c2[a.p] = c[a.p]
      BY <3>1
    <3>3. a.at \in Ending \cup {"dtor"} => a.p \in Ptr
      BY <3>1, ActivityFields
    <3>4. a.then \in {"dtor", "forget"} => a.p \in Ptr
      BY <3>1, ActivityFields, NoneIsNone DEF Ending
    <3>5. Relies(a, h, c2, w)
      BY <3>1, <3>2, <3>3, <3>4 DEF Relies
    <3> QED BY <3>1, <3>5
  <2> QED BY <2>1, <2>2
<1>5. OneDestructor(new)
  BY <1>1, <1>2 DEF OneDestructor
<1>6. OwnerDeletes(new, h)
  <2> SUFFICES ASSUME NEW x \in Obj, NEW u \in Thread, Claimed(h[x]), new[u].p = h[x].cptr
               PROVE  new[u].then = "dtor" /\ new[u].o = x
    BY DEF OwnerDeletes
  <2>1. u # t
    BY <1>1 DEF Claimed
  <2> QED BY <2>1, <1>1, <1>2 DEF OwnerDeletes
<1>7. DyingEnds(new, c2)
  <2> SUFFICES ASSUME NEW q \in Ptr, c2[q] = "dying"
               PROVE  \E u \in Thread : new[u].p = q
    BY DEF DyingEnds
  <2>1. CASE q = p
    BY <2>1, <1>1
  <2>2. CASE q # p
    <3>1. PICK u \in Thread : act[u].p = q
      BY <2>2, <1>2 DEF DyingEnds
    <3>2. u # t
      BY <3>1, <2>2, NoneIsNone
    <3> QED BY <3>1, <3>2, <1>1
  <2> QED BY <2>1, <2>2
<1> QED BY <1>2, <1>3, <1>4, <1>5, <1>6, <1>7 DEF Objects

\* What a thread does in a destructor: that of a shell looks for the wrapper.
Finding(p, c, w) ==
    IF c[p] = "shell" THEN Doing("destroy", w[p], p, "none") ELSE Doing("body", None, p, "none")

\* A C++ destructor begins, without the GIL.
LEMMA DtorObjects ==
    ASSUME NEW act \in [Thread -> Activity], NEW h \in Heap, NEW c \in [Ptr -> CppState],
           NEW w \in [Ptr -> Obj \cup {None}], Objects(act, h, c, w), MapSound(h, w),
           NEW t \in Thread, act[t].at = "dtor"
    PROVE  /\ Finding(act[t].p, c, w) \in Activity
           /\ Objects([act EXCEPT ![t] = Finding(act[t].p, c, w)], h,
                      [c EXCEPT ![act[t].p] = "dying"], w)
<1> DEFINE a == act[t]
           p == a.p
           b == Finding(p, c, w)
           c2 == [c EXCEPT ![p] = "dying"]
<1>1. /\ a \in Activity /\ a.at = "dtor" /\ p \in Ptr /\ Relies(a, h, c, w) /\ p # None
      /\ a.then = "none"
  BY ActivityFields, NoneIsNone DEF Objects, Ending
<1>2. c[p] \in {"native", "shell"}
  BY <1>1 DEF Relies
<1>3. /\ b \in Activity /\ b.p = p /\ b.then = "none"
      /\ c[p] = "shell" => b.at = "destroy" /\ b.o = w[p]
      /\ c[p] # "shell" => b.at = "body"
  <2>1. w[p] \in Obj \cup {None}
    BY <1>1
  <2> HIDE DEF p
  <2> QED BY <2>1, <1>1 DEF Finding, Doing, Activity, Deallocating, Ending, Holding, Serving
<1>4. c2[p] = "dying" /\ \A q \in Ptr : q # p => c2[q] = c[q]
  BY <1>1
<1>5. ASSUME NEW x \in Obj, h[x].cptr = p
      PROVE  ~Claimed(h[x])
  BY <1>1, <1>5 DEF Objects, OwnerDeletes
<1>6. \A u \in Thread : u # t => act[u].p # p
  BY <1>1, ServesAlone
<1> HIDE DEF b, c2
<1>7. c[p] # "shell" => Unserved(h, p)
  BY <1>1, <1>2 DEF Unserved, Objects, WrapperSound
<1>8. w[p] = None => Unserved(h, p)
  BY <1>1, NoneIsNone DEF Unserved, Objects, WrapperSound
<1>9. c[p] = "shell" /\ w[p] # None => Served(h[w[p]], p)
  <2> SUFFICES ASSUME c[p] = "shell", w[p] # None
               PROVE  Served(h[w[p]], p)
    OBVIOUS
  <2> DEFINE x == w[p]
  <2>1. x \in Obj /\ h[x].st # "free" /\ h[x].cptr = p
    BY <1>1 DEF MapSound
  <2>2. WrapperSound(h, c, w, x) /\ CountSound(act, h, x) /\ h[x] \in Wrapper
    BY <2>1 DEF Objects, Heap
  <2> HIDE DEF x
  <2>3. h[x].shell
    BY <1>1, <2>1, <2>2 DEF WrapperSound
  <2>4. ~h[x].own
    BY <1>5, <1>1, <2>1 DEF Claimed
  <2>5. Lent(h[x])
    BY <2>1, <2>3, <2>4, <1>1 DEF Lent
  <2>6. h[x].st # "dying"
    <3> SUFFICES ASSUME h[x].st = "dying"
                 PROVE  FALSE
      OBVIOUS
    <3>1. PICK u \in Thread : act[u].at \in Deallocating /\ act[u].o = x
      BY <2>2 DEF CountSound
    <3>2. Relies(act[u], h, c, w)
      BY DEF Objects
    <3>3. act[u].then = "forget"
      BY <3>1, <3>2, <2>5 DEF Relies
    <3>4. act[u].p = p
      BY <3>1, <3>2, <3>3, <2>1 DEF Relies
    <3>5. u = t
      BY <3>4, <1>6
    <3> QED BY <3>1, <3>5, <1>1 DEF Deallocating
  <2>7. h[x].st = "alive"
    BY <2>1, <2>2, <2>6 DEF Wrapper
  <2>8. Served(h[x], p)
    BY <2>1, <2>3, <2>4, <2>7 DEF Served
  <2> QED BY <2>8 DEF x
<1>10. Relies(b, h, c2, w)
  BY <1>3, <1>4, <1>7, <1>8, <1>9 DEF Relies, Deallocating, Ending, Serving
<1>11. Destructs(act, h, c, t, b, p, c2)
  <2>1. b.at \notin Deallocating \cup {"forget"} /\ a.at \notin Deallocating \cup {"forget"}
    BY <1>1, <1>3 DEF Deallocating
  <2> QED BY <2>1, <1>1, <1>3, <1>4, <1>5, <1>6 DEF Destructs
<1>12. Objects([act EXCEPT ![t] = b], h, c2, w)
  BY <1>1, <1>3, <1>10, <1>11, InstanceChanges
<1> QED BY <1>3, <1>12 DEF b, c2

\* The instance is gone.
LEMMA BodyObjects ==
    ASSUME NEW act \in [Thread -> Activity], NEW h \in Heap, NEW c \in [Ptr -> CppState],
           NEW w \in [Ptr -> Obj \cup {None}], Objects(act, h, c, w),
           NEW t \in Thread, act[t].at = "body"
    PROVE  Objects([act EXCEPT ![t] = Idle], h, [c EXCEPT ![act[t].p] = "none"], w)
<1> DEFINE a == act[t]
           p == a.p
           b == Idle
           c2 == [c EXCEPT ![p] = "none"]
<1>1. /\ a \in Activity /\ a.at = "body" /\ p \in Ptr /\ Relies(a, h, c, w) /\ p # None
      /\ a.then = "none"
  BY ActivityFields, NoneIsNone DEF Objects, Ending
<1>2. b \in Activity /\ b.p = None /\ b.at = "idle" /\ b.then = "none"
  BY IdleActivity
<1>3. c2[p] = "none" /\ \A q \in Ptr : q # p => c2[q] = c[q]
  BY <1>1
<1>4. ASSUME NEW x \in Obj, h[x].cptr = p
      PROVE  ~Claimed(h[x]) /\ ~h[x].shell
  BY <1>1, <1>4 DEF Objects, OwnerDeletes, Relies, Unserved
<1>5. \A u \in Thread : u # t => act[u].p # p
  BY <1>1, ServesAlone
<1> HIDE DEF b, c2
<1>6. Relies(b, h, c2, w)
  BY <1>2 DEF Relies, Deallocating, Ending, Serving
<1>7. Destructs(act, h, c, t, b, p, c2)
  <2>1. b.at \notin Deallocating \cup {"forget"} /\ a.at \notin Deallocating \cup {"forget"}
    BY <1>1, <1>2 DEF Deallocating
  <2> QED BY <2>1, <1>1, <1>2, <1>3, <1>4, <1>5 DEF Destructs
<1>8. Objects([act EXCEPT ![t] = b], h, c2, w)
  BY <1>1, <1>2, <1>6, <1>7, InstanceChanges
<1> QED BY <1>8 DEF b, c2

\* C++ deletes an instance that no wrapper claims and nothing destroys yet.
LEMMA DeletesObject ==
    ASSUME NEW act \in [Thread -> Activity], NEW h \in Heap, NEW c, NEW w, Objects(act, h, c, w),
           NEW t \in Thread, act[t].at = "idle", NEW p \in Ptr, c[p] \in {"native", "shell"},
           \A u \in Thread : act[u].p # p, \A o \in Obj : h[o].cptr = p => ~Claimed(h[o])
    PROVE  /\ Doing("dtor", None, p, "none") \in Activity
           /\ Objects([act EXCEPT ![t] = Doing("dtor", None, p, "none")], h, c, w)
<1> DEFINE b == Doing("dtor", None, p, "none")
<1>1. b \in Activity /\ b.p = p /\ b.at = "dtor" /\ b.then = "none"
  BY DEF Doing, Activity, Deallocating, Ending, Holding, Serving
<1>2. act[t].p = None /\ p # None
  BY ActivityFields, NoneIsNone
<1> HIDE DEF b
<1>3. Relies(b, h, c, w)
  BY <1>1 DEF Relies, Deallocating, Ending, Serving
<1>4. ASSUME NEW x \in Obj, h[x].cptr = p
      PROVE  IF h[x].shell THEN c[p] \in {"shell", "dying"} ELSE c[p] # "shell"
  BY <1>2, <1>4 DEF Objects, WrapperSound
<1>5. Destructs(act, h, c, t, b, p, c)
  <2>1. b.at \notin Deallocating \cup {"forget"} /\ act[t].at \notin Deallocating \cup {"forget"}
    BY <1>1 DEF Deallocating
  <2> QED BY <2>1, <1>1, <1>2, <1>4 DEF Destructs
<1>6. Objects([act EXCEPT ![t] = b], h, c, w)
  BY <1>1, <1>3, <1>5, InstanceChanges
<1> QED BY <1>1, <1>6 DEF b

\* What a thread does in SbkDeallocWrapper.
Deleting(a, v) ==
    IF v.own /\ v.valid THEN Doing("unparent", a.o, v.cptr, "dtor") ELSE Onward(a, "unparent")

\* A deallocation begins: the instance will be deleted if Python owns it.
LEMMA DeallocObjects ==
    ASSUME NEW act \in [Thread -> Activity], NEW h \in Heap, NEW c,
           NEW w, Objects(act, h, c, w), NEW t \in Thread, act[t].at = "dealloc",
           \A u \in Thread : u # t => act[u].at \notin Holding
    PROVE  /\ Deleting(act[t], h[act[t].o]) \in Activity
           /\ h[act[t].o].own /\ h[act[t].o].valid =>
                 h[act[t].o].cptr # None /\ act[t].then = "none"
           /\ Objects([act EXCEPT ![t] = Deleting(act[t], h[act[t].o])], h, c, w)
<1> DEFINE a == act[t]
           o == a.o
           b == Deleting(a, h[o])
           new == [act EXCEPT ![t] = b]
<1>1. /\ a \in Activity /\ a.at = "dealloc" /\ o \in Obj /\ Relies(a, h, c, w)
      /\ a.then \in {"none", "forget"} /\ a.p \in Ptr \cup {None}
      /\ a.then = "none" => a.p = None
  BY ActivityFields DEF Objects, Holding, Deallocating
<1>2. WrapperSound(h, c, w, o) /\ CountSound(act, h, o) /\ h[o] \in Wrapper
  BY <1>1 DEF Objects, Heap
<1>3. h[o].st = "dying" /\ (a.then = "forget" => ~h[o].own)
  BY <1>1 DEF Relies, Deallocating, Lent
<1>4. OneWrapper(h) /\ OneDestructor(act) /\ OwnerDeletes(act, h) /\ DyingEnds(act, c)
  BY DEF Objects
<1>5. CASE h[o].own /\ h[o].valid
  <2> DEFINE p == h[o].cptr
  <2>1. p # None /\ p \in Ptr /\ Claimed(h[o]) /\ a.then = "none" /\ a.p = None
    BY <1>1, <1>2, <1>3, <1>5 DEF WrapperSound, Wrapper, Claimed
  <2>2. ASSUME NEW u \in Thread
        PROVE  act[u].p # p
    <3>1. act[u].at \notin Holding \/ act[u].then # "dtor" \/ act[u].o # o
      BY <2>1
    <3> QED BY <3>1, <2>1, <1>1, ClaimedIsFree
  <2>3. c[p] \in {"native", "shell"}
    <3>1. c[p] # "dying"
      BY <2>1, <2>2, <1>4 DEF DyingEnds
    <3> QED BY <3>1, <1>2, <1>5, <2>1 DEF WrapperSound
  <2>4. /\ b \in Activity /\ b.at = "unparent" /\ b.o = o /\ b.p = p /\ b.then = "dtor"
    <3>1. b = Doing("unparent", o, p, "dtor")
      BY <1>5 DEF Deleting
    <3> HIDE DEF o, p, b
    <3> QED BY <3>1, <1>1, <2>1
        DEF Doing, Activity, Deallocating, Ending, Holding, Serving
  <2>5. /\ new[t] = b /\ (\A u \in Thread : u # t => new[u] = act[u])
        /\ new \in [Thread -> Activity]
    BY <2>4
  <2> HIDE DEF b, new, p, a
  <2>6. ASSUME NEW x \in Obj
        PROVE  WrapperSound(h, c, w, x) /\ CountSound(new, h, x)
    <3>1. WrapperSound(h, c, w, x) /\ CountSound(act, h, x)
      BY DEF Objects
    <3>2. Dropped(new, x) <=> Dropped(act, x)
      BY <2>4, <2>5, <1>1 DEF Dropped, a
    <3>3. ASSUME NEW u \in Thread, act[u].at \in Deallocating /\ act[u].o = x
          PROVE  new[u].at \in Deallocating /\ new[u].o = x
      BY <3>3, <2>4, <2>5, <1>1 DEF a, Deallocating
    <3> QED BY <3>1, <3>2, <3>3 DEF CountSound
  <2>7. Relies(b, h, c, w)
    <3>1. ~Lent(h[o])
      BY <1>5 DEF Lent
    <3> QED BY <3>1, <2>3, <2>4, <1>3, <1>5 DEF Relies, Deallocating, Ending, Serving, p
  <2>8. \A u \in Thread : Relies(new[u], h, c, w)
    BY <2>5, <2>7 DEF Objects
  <2>9. OneDestructor(new)
    BY <2>2, <2>4, <2>5, <1>4 DEF OneDestructor
  <2>10. OwnerDeletes(new, h)
    <3> SUFFICES ASSUME NEW x \in Obj, NEW u \in Thread, Claimed(h[x]), new[u].p = h[x].cptr
                 PROVE  new[u].then = "dtor" /\ new[u].o = x
      BY DEF OwnerDeletes
    <3>1. CASE u = t
      <4>1. x = o
        BY <3>1, <2>1, <2>4, <2>5, <1>1, <1>4 DEF OneWrapper, p
      <4> QED BY <4>1, <3>1, <2>4, <2>5
    <3>2. CASE u # t
      BY <3>2, <2>5, <1>4 DEF OwnerDeletes
    <3> QED BY <3>1, <3>2
  <2>11. DyingEnds(new, c)
    <3>1. ASSUME NEW q \in Ptr, NEW u \in Thread, act[u].p = q
          PROVE  new[u].p = q
      BY <3>1, <2>1, <2>5, NoneIsNone DEF a
    <3> QED BY <3>1, <1>4 DEF DyingEnds
  <2>12. Objects(new, h, c, w)
    BY <2>6, <2>8, <2>9, <2>10, <2>11, <1>4 DEF Objects
  <2> QED BY <2>1, <2>4, <2>12 DEF new, p, b, a
<1>6. CASE ~(h[o].own /\ h[o].valid)
  <2>1. b = Onward(a, "unparent")
    BY <1>6 DEF Deleting
  <2>2. /\ b \in Activity /\ b.at = "unparent" /\ b.o = o /\ b.p = a.p /\ b.then = a.then
    BY <2>1, <1>1 DEF Onward, Activity, Deallocating, Ending, Holding, Serving
  <2> HIDE DEF b
  <2>3. Relies(b, h, c, w)
    BY <2>2, <1>1 DEF Relies, Deallocating, Ending, Serving
  <2>4. Objects(new, h, c, w)
    BY <2>2, <2>3, <1>1, SameWrapper DEF Deallocating
  <2> QED BY <2>2, <2>4, <1>6 DEF b
<1> QED BY <1>5, <1>6

\* A constructor or newObject: a wrapper for an instance at a fresh address.
LEMMA MakesObject ==
    ASSUME NEW act \in [Thread -> Activity], NEW h \in Heap, NEW c \in [Ptr -> CppState],
           NEW w \in [Ptr -> Obj \cup {None}], Objects(act, h, c, w), MapSound(h, w),
           NEW t \in Thread, act[t].at = "idle", NEW o \in Obj, h[o].st = "free",
           NEW p \in Ptr, c[p] = "none", \A x \in Obj : h[x].cptr # p,
           NEW shell \in BOOLEAN, \A u \in Thread : act[u].at \notin Holding
    PROVE  Objects([act EXCEPT ![t] = Idle], [h EXCEPT ![o] = NewWrapper(o, p, TRUE, shell)],
                   [c EXCEPT ![p] = IF shell THEN "shell" ELSE "native"], Assign(w, o, p))
<1> DEFINE v == NewWrapper(o, p, TRUE, shell)
           g == [h EXCEPT ![o] = v]
           b == Idle
           new == [act EXCEPT ![t] = b]
           w2 == Assign(w, o, p)
           c2 == [c EXCEPT ![p] = IF shell THEN "shell" ELSE "native"]
<1>1. act[t] \in Activity /\ act[t].p = None /\ act[t].then = "none" /\ p # None
  BY ActivityFields, NoneIsNone
<1>2. b \in Activity /\ b.p = None /\ b.at = "idle" /\ b.then = "none"
  BY IdleActivity
<1>3. /\ new[t] = b /\ (\A u \in Thread : u # t => new[u] = act[u])
      /\ new \in [Thread -> Activity]
  BY <1>2
<1>4. /\ v \in Wrapper /\ v.st = "alive" /\ v.rc = 1 /\ v.ext = 1 /\ v.own /\ v.valid
      /\ v.shell = shell /\ v.cptr = p /\ Plain(v)
  BY NewWrapperType DEF NewWrapper, Plain, NoRefs
<1>5. g[o] = v /\ \A x \in Obj : x # o => g[x] = h[x]
  BY DEF Heap
<1>6. w[p] = None
  BY DEF MapSound
<1>7. w2[p] = o /\ \A q \in Ptr : q # p => w2[q] = w[q]
  BY <1>6 DEF Assign
<1>8. c2[p] = (IF shell THEN "shell" ELSE "native") /\ \A q \in Ptr : q # p => c2[q] = c[q]
  OBVIOUS
<1>9. OneWrapper(h) /\ OneDestructor(act) /\ OwnerDeletes(act, h) /\ DyingEnds(act, c)
  BY DEF Objects
<1>10. ASSUME NEW u \in Thread
       PROVE  act[u].p # p
  <2>1. act[u] \in Activity /\ Relies(act[u], h, c, w)
    BY DEF Objects
  <2> QED BY <2>1, <1>1, PointerState
<1>11. \A x \in Obj : h[x].cptr \in Ptr \cup {None} /\ h[x].cptr # p
  BY DEF Heap, Wrapper
<1> HIDE DEF v, g, b, new, w2, c2
<1>12. ASSUME NEW x \in Obj
       PROVE  WrapperSound(g, c2, w2, x) /\ CountSound(new, g, x)
  <2>1. WrapperSound(h, c, w, x) /\ CountSound(act, h, x)
    BY DEF Objects
  <2>2. Dropped(new, x) <=> Dropped(act, x)
    BY <1>2, <1>3 DEF Dropped
  <2>3. CASE x = o
    <3>1. WrapperSound(g, c2, w2, x)
      BY <2>3, <1>1, <1>4, <1>5, <1>7, <1>8 DEF WrapperSound
    <3>2. CountSound(new, g, x)
      BY <2>3, <1>4, <1>5 DEF CountSound, Lent, One
    <3> QED BY <3>1, <3>2
  <2>4. CASE x # o
    <3>1. g[x] = h[x] /\ (h[x].cptr # None => c2[h[x].cptr] = c[h[x].cptr])
          /\ (h[x].cptr # None => w2[h[x].cptr] = w[h[x].cptr])
      BY <2>4, <1>5, <1>7, <1>8, <1>11
    <3>2. WrapperSound(g, c2, w2, x)
      BY <3>1, <2>1 DEF WrapperSound
    <3>3. ASSUME NEW u \in Thread, act[u].at \in Deallocating /\ act[u].o = x
          PROVE  new[u].at \in Deallocating /\ new[u].o = x
      BY <3>3, <1>3 DEF Deallocating
    <3>4. CountSound(new, g, x)
      BY <3>1, <3>3, <2>1, <2>2 DEF CountSound
    <3> QED BY <3>2, <3>4
  <2> QED BY <2>3, <2>4
<1>13. ASSUME NEW u \in Thread
       PROVE  Relies(new[u], g, c2, w2)
  <2>1. CASE u = t
    BY <2>1, <1>2, <1>3 DEF Relies, Deallocating, Ending, Serving
  <2>2. CASE u # t
    <3> DEFINE a == act[u]
    <3>1. a \in Activity /\ new[u] = a /\ Relies(a, h, c, w) /\ a.p # p
          /\ a.at \notin Holding /\ a.p \in Ptr \cup {None}
      BY <2>2, <1>3, <1>10, ActivityFields DEF Objects
    <3> HIDE DEF a
    <3>2. a.at \in {"idle", "dtor", "destroy", "body"} /\ a.then = "none"
      BY <3>1, NotHolding
    <3>3. a.at # "idle" => a.p \in Ptr /\ c2[a.p] = c[a.p]
      BY <3>1, <3>2, <1>8, ActivityFields DEF Ending
    <3>4. Unserved(h, a.p) /\ a.at # "idle" => Unserved(g, a.p)
      BY <3>1, <1>4, <1>5 DEF Unserved
    <3>5. a.at = "destroy" /\ a.o # None => Served(g[a.o], a.p)
      <4> SUFFICES ASSUME a.at = "destroy", a.o # None
                   PROVE  Served(g[a.o], a.p)
        OBVIOUS
      <4>1. a.o \in Obj /\ Served(h[a.o], a.p)
        BY <3>1, ActivityFields DEF Relies
      <4>2. a.o # o
        BY <4>1 DEF Served
      <4> QED BY <4>1, <4>2, <1>5
    <3>6. Relies(a, g, c2, w2)
      BY <3>1, <3>2, <3>3, <3>4, <3>5 DEF Relies, Deallocating, Ending, Serving
    <3> QED BY <3>1, <3>6
  <2> QED BY <2>1, <2>2
<1>14. OneWrapper(g)
  BY <1>4, <1>5, <1>9, <1>11 DEF OneWrapper
<1>15. OneDestructor(new)
  BY <1>2, <1>3, <1>9 DEF OneDestructor
<1>16. OwnerDeletes(new, g)
  <2> SUFFICES ASSUME NEW x \in Obj, NEW u \in Thread, Claimed(g[x]), new[u].p = g[x].cptr
               PROVE  new[u].then = "dtor" /\ new[u].o = x
    BY DEF OwnerDeletes
  <2>1. u # t
    BY <1>2, <1>3 DEF Claimed
  <2>2. x # o
    BY <2>1, <1>3, <1>4, <1>5, <1>10
  <2> QED BY <2>1, <2>2, <1>3, <1>5, <1>9 DEF OwnerDeletes
<1>17. DyingEnds(new, c2)
  <2> SUFFICES ASSUME NEW q \in Ptr, c2[q] = "dying"
               PROVE  \E u \in Thread : new[u].p = q
    BY DEF DyingEnds
  <2>1. q # p /\ c[q] = "dying"
    BY <1>8
  <2>2. PICK u \in Thread : act[u].p = q
    BY <2>1, <1>9 DEF DyingEnds
  <2>3. u # t
    BY <2>2, <1>1, NoneIsNone
  <2> QED BY <2>2, <2>3, <1>3
<1>18. Objects(new, g, c2, w2)
  BY <1>12, <1>13, <1>14, <1>15, <1>16, <1>17 DEF Objects
<1> QED BY <1>18 DEF v, g, b, new, w2, c2

-----------------------------------------------------------------------------
(* The calls in progress go on, one lemma for each.                        *)

\* The top call of a thread returns, and the invariant holds of what comes next.
LEMMA GoesOn ==
    ASSUME OnlyMoving, TypeOK, NEW act, Control(act), NEW t \in Thread, Ready(t), NEW calls,
           Continue(t, calls), NEW b \in Activity, calls \o Tail(stack[t]) = StackOf(b),
           b.at \in Holding => act[t].at \notin {"dtor", "body"}, owner' = owner,
           Objects([act EXCEPT ![t] = b], heap, cpp, wmap)'
    PROVE  Moves'
<1>1. Control([act EXCEPT ![t] = b])'
  BY ContinueControl DEF OnlyMoving
<1>2. [act EXCEPT ![t] = b] \in [Thread -> Activity]
  BY DEF Control
<1> QED BY <1>1, <1>2 DEF Moves

\* The same, when the call makes no other.
LEMMA Returns ==
    ASSUME OnlyMoving, TypeOK, NEW act, Control(act), NEW t \in Thread, Ready(t),
           Return(t), NEW b \in Activity, Tail(stack[t]) = StackOf(b),
           b.at \in Holding => act[t].at \notin {"dtor", "body"}, owner' = owner,
           Objects([act EXCEPT ![t] = b], heap, cpp, wmap)'
    PROVE  Moves'
<1>1. stack[t] \in Seq(Frame) /\ stack[t] # <<>>
  BY DEF TypeOK, Ready
<1>2. <<>> \o Tail(stack[t]) = StackOf(b)
  BY <1>1
<1>3. Continue(t, <<>>)
  BY DEF Return
<1> QED BY <1>2, <1>3, GoesOn

\* What holds when a thread makes its top call.
LEMMA StepStart ==
    ASSUME IInv, NEW act, Control(act), Objects(act, heap, cpp, wmap), NEW t \in Thread, Ready(t)
    PROVE  /\ act \in [Thread -> Activity] /\ act[t] \in Activity /\ act[t].at # "idle"
           /\ Top(t) = TopOf(act[t]) /\ stack[t] = StackOf(act[t])
           /\ Relies(act[t], heap, cpp, wmap)
           /\ act[t].at \notin {"dtor", "body"} =>
                  \A u \in Thread : u # t => act[u].at \notin Holding
           /\ TypeOK /\ heap \in Heap /\ cpp \in [Ptr -> CppState]
           /\ wmap \in [Ptr -> Obj \cup {None}] /\ MapSound(heap, wmap)
           /\ owner = [p \in Ptr |-> None]
<1>1. /\ act[t] \in Activity /\ act[t].at # "idle"
      /\ Top(t) = TopOf(act[t]) /\ stack[t] = StackOf(act[t])
  BY ReadyTop
<1>2. act[t].at \notin {"dtor", "body"} => NeedsGil(Top(t))
  BY <1>1, TopFunction
<1>3. act[t].at \notin {"dtor", "body"} => \A u \in Thread : u # t => act[u].at \notin Holding
  BY <1>2, OthersWait
<1>4. MapSound(heap, wmap)
  BY DEF IInv, RegistrySound, MapSound, Alive
<1> QED BY <1>1, <1>3, <1>4 DEF Control, Objects, IInv, TypeOK, Heap

\* SbkDeallocWrapper.
LEMMA DeallocMoves ==
    ASSUME OnlyMoving, IInv, NEW act, Control(act), Objects(act, heap, cpp, wmap),
           NEW t \in Thread, Dealloc(t)
    PROVE  Moves'
<1> DEFINE a == act[t]
           o == a.o
           v == heap[o]
           b == Deleting(a, v)
           dtor == IF v.own /\ v.valid THEN <<DtorCall(v.cptr)>> ELSE <<>>
           calls == CleanupCalls(o) \o <<Call("free", o)>> \o dtor
<1>1. Ready(t) /\ Top(t).fn = "dealloc"
  BY DEF Dealloc, Running
<1>2. /\ act \in [Thread -> Activity] /\ a \in Activity /\ a.at # "idle"
      /\ Top(t) = TopOf(a) /\ stack[t] = StackOf(a) /\ TypeOK
      /\ heap \in Heap
  BY <1>1, StepStart
<1>3. a.at = "dealloc" /\ \A u \in Thread : u # t => act[u].at \notin Holding
  BY <1>1, <1>2, StepStart, TopFunction
<1>4. Top(t).o = o /\ o \in Obj /\ Tail(stack[t]) = After(a)
  <2>1. a.at \in Deallocating /\ a.at \in Holding
    BY <1>3 DEF Deallocating, Holding
  <2>2. TopOf(a).o = a.o
    BY <1>3 DEF TopOf, Call
  <2> HIDE DEF a
  <2> QED BY <2>1, <2>2, <1>2, <1>3, DeallocatingStack, ActivityFields
<1>5. /\ b \in Activity /\ (v.own /\ v.valid => v.cptr # None /\ a.then = "none")
      /\ Objects([act EXCEPT ![t] = b], heap, cpp, wmap)
  BY <1>2, <1>3, DeallocObjects
<1>6. Continue(t, calls) /\ UNCHANGED <<heap, cpp, owner, wmap>>
  BY <1>4 DEF Dealloc
<1>7. calls \o Tail(stack[t]) = StackOf(b)
  <2>1. PICK q \in Seq(Frame) : q = After(a)
    BY <1>2, AfterType
  <2>2. PICK r, d, e, f \in Frame : /\ r = RemoveParentCall(o, TRUE, FALSE)
                                    /\ d = Call("destroyParentInfo", o)
                                    /\ e = Call("clearReferences", o) /\ f = Call("free", o)
    BY <1>4, CleanupTypes
  <2>3. ASSUME NEW z \in Seq(Frame)
        PROVE  (CleanupCalls(o) \o <<Call("free", o)>>) \o z = <<r, d, e, f>> \o z
    <3>1. CleanupCalls(o) = <<r, d, e>>
      BY <2>2 DEF CleanupCalls
    <3>2. (<<r, d, e>> \o <<f>>) \o z = <<r, d, e, f>> \o z
      OBVIOUS
    <3> QED BY <3>1, <3>2, <2>2
  <2>4. b.at = "unparent" => StackOf(b) = <<r, d, e, f>> \o After(b)
    <3>1. b.at = "unparent" => StackOf(b) =
            <<RemoveParentCall(b.o, TRUE, FALSE), Call("destroyParentInfo", b.o),
              Call("clearReferences", b.o), Call("free", b.o)>> \o After(b)
      BY DEF StackOf
    <3>2. b.o = o
      BY <1>2 DEF Deleting, Doing, Onward, Activity
    <3> HIDE DEF b, o
    <3> QED BY <3>1, <3>2, <2>2
  <2>5. CASE v.own /\ v.valid
    <3>1. b = Doing("unparent", o, v.cptr, "dtor") /\ q = <<>> /\ dtor = <<DtorCall(v.cptr)>>
      BY <2>5, <1>5, <2>1 DEF Deleting, After
    <3>2. b.at = "unparent" /\ After(b) = <<DtorCall(v.cptr)>>
      BY <3>1 DEF Doing, After
    <3>3. v.cptr \in Ptr
      BY <2>5, <1>2, <1>4, <1>5 DEF Heap, Wrapper
    <3>4. PICK x \in Frame : x = DtorCall(v.cptr)
      BY <3>3, DtorCallType
    <3>5. (<<r, d, e, f>> \o <<x>>) \o <<>> = <<r, d, e, f>> \o <<x>>
      OBVIOUS
    <3>6. calls = <<r, d, e, f>> \o <<x>>
      <4>1. dtor = <<x>>
        BY <3>1, <3>4
      <4>2. <<x>> \in Seq(Frame)
        OBVIOUS
      <4> HIDE DEF dtor
      <4> QED BY <4>1, <4>2, <2>3
    <3> HIDE DEF b, v, calls
    <3> QED BY <2>1, <2>4, <3>1, <3>2, <3>4, <3>5, <3>6, <1>4
  <2>6. CASE ~(v.own /\ v.valid)
    <3>1. b = Onward(a, "unparent") /\ dtor = <<>>
      BY <2>6 DEF Deleting
    <3>2. b.at = "unparent" /\ After(b) = q
      BY <3>1, <2>1, <1>2 DEF Onward, Activity, After
    <3>3. (<<r, d, e, f>> \o <<>>) \o q = <<r, d, e, f>> \o q
      OBVIOUS
    <3>4. calls = <<r, d, e, f>> \o <<>>
      <4>1. <<>> \in Seq(Frame)
        OBVIOUS
      <4> HIDE DEF dtor
      <4> QED BY <4>1, <2>3, <3>1
    <3> HIDE DEF b, v, calls
    <3> QED BY <2>1, <2>4, <3>1, <3>2, <3>3, <3>4, <1>4
  <2> QED BY <2>5, <2>6
<1>8. Objects([act EXCEPT ![t] = b], heap', cpp', wmap')
  BY <1>5, <1>6
<1>9. PICK bb \in Activity : bb = b
  BY <1>5
<1>10. PICK cc : cc = calls
  OBVIOUS
<1> HIDE DEF b, calls, a
<1>11. Objects([act EXCEPT ![t] = bb], heap, cpp, wmap)'
  BY <1>8, <1>9
<1> QED BY <1>1, <1>2, <1>3, <1>6, <1>7, <1>9, <1>10, <1>11, GoesOn DEF a

\* The end of deallocData.
LEMMA FreeMoves ==
    ASSUME OnlyMoving, IInv, NEW act, Control(act), Objects(act, heap, cpp, wmap),
           NEW t \in Thread, Free(t)
    PROVE  Moves'
<1> DEFINE a == act[t]
           o == a.o
<1>1. Ready(t) /\ Top(t).fn = "free"
  BY DEF Free, Running
<1>2. /\ act \in [Thread -> Activity] /\ a \in Activity /\ a.at # "idle"
      /\ Top(t) = TopOf(a) /\ stack[t] = StackOf(a) /\ TypeOK
      /\ heap \in Heap /\ wmap \in [Ptr -> Obj \cup {None}]
  BY <1>1, StepStart
<1>3. a.at = "free" /\ \A u \in Thread : u # t => act[u].at \notin Holding
  BY <1>1, <1>2, StepStart, TopFunction
<1>4. Top(t).o = o /\ o \in Obj /\ Tail(stack[t]) = After(a)
  <2>1. a.at \in Deallocating /\ a.at \in Holding
    BY <1>3 DEF Deallocating, Holding
  <2>2. TopOf(a).o = a.o
    BY <1>3 DEF TopOf, Call
  <2> HIDE DEF a
  <2> QED BY <2>1, <2>2, <1>2, <1>3, DeallocatingStack, ActivityFields
<1>5. PICK b \in Activity : b = Freed(a)
  BY <1>2, <1>3, FreesObject
<1>6. Objects([act EXCEPT ![t] = b], [heap EXCEPT ![o] = Blank], cpp, Release(wmap, heap, o))
  BY <1>2, <1>3, <1>5, FreesObject
<1>7. /\ heap' = [heap EXCEPT ![o] = Blank] /\ wmap' = Release(wmap, heap, o)
      /\ cpp' = cpp /\ owner' = owner /\ Return(t)
  BY <1>4 DEF Free
<1>8. After(a) = StackOf(b)
  BY <1>5 DEF After, Freed, StackOf, Doing, Idle, Deallocating
<1>9. Objects([act EXCEPT ![t] = b], heap, cpp, wmap)'
  BY <1>6, <1>7
<1> HIDE DEF a
<1> QED BY <1>1, <1>2, <1>3, <1>4, <1>7, <1>8, <1>9, Returns DEF a

\* A call that changes nothing returns, to the next one of the same activity.
LEMMA PassesOn ==
    ASSUME OnlyMoving, IInv, NEW act, Control(act), Objects(act, heap, cpp, wmap),
           NEW t \in Thread, Ready(t), Return(t), UNCHANGED <<heap, cpp, owner, wmap>>,
           NEW at \in Deallocating \cup Serving \cup {"body"},
           act[t].at \in Deallocating => at \in Deallocating,
           act[t].at \in Deallocating \cup Serving \cup {"forget"},
           act[t].at = "forget" => heap[act[t].o].st = "free",
           Onward(act[t], at) \in Activity, Tail(stack[t]) = StackOf(Onward(act[t], at)),
           Relies(Onward(act[t], at), heap, cpp, wmap)
    PROVE  Moves'
<1>1. /\ act \in [Thread -> Activity] /\ act[t] \in Activity /\ TypeOK
  BY StepStart
<1>2. PICK b \in Activity : b = Onward(act[t], at)
  OBVIOUS
<1>3. b.at = at /\ b.p = act[t].p /\ b.o = act[t].o /\ b.then = act[t].then
  BY <1>1, <1>2 DEF Onward, Activity
<1>4. act[t].then = "dtor" => act[t].at \in Deallocating
  BY <1>1, ActivityFields DEF Ending
<1>5. at # "forget" /\ act[t].at \notin {"dtor", "body"}
  BY DEF Deallocating, Serving
<1>6. Objects([act EXCEPT ![t] = b], heap, cpp, wmap)
  BY <1>1, <1>2, <1>3, <1>4, <1>5, SameWrapper
<1>7. Objects([act EXCEPT ![t] = b], heap, cpp, wmap)'
  BY <1>6
<1> QED BY <1>1, <1>2, <1>5, <1>7, Returns

\* The other calls that an activity may be at.
LEMMA OnwardActivity ==
    ASSUME NEW a \in Activity, NEW at
    PROVE  /\ Onward(a, at).at = at /\ Onward(a, at).o = a.o /\ Onward(a, at).p = a.p
           /\ Onward(a, at).then = a.then
           /\ a.at \in Deallocating /\ at \in Deallocating \ {"dealloc"} =>
                  Onward(a, at) \in Activity
           /\ a.at \in Serving \cup {"forget"} /\ at \in Serving \cup {"body"} =>
                  Onward(a, at) \in Activity
BY DEF Onward, Activity, Deallocating, Serving, Ending, Holding

\* What holds of the wrapper of an activity that holds the GIL.
LEMMA WorkedOn ==
    ASSUME IInv, NEW act, Control(act), Objects(act, heap, cpp, wmap), NEW t \in Thread,
           act[t].at \in Holding
    PROVE  /\ act[t].o \in Obj /\ heap[act[t].o] \in Wrapper /\ Plain(heap[act[t].o])
           /\ WrapperSound(heap, cpp, wmap, act[t].o)
           /\ act[t].at # "forget" => heap[act[t].o].st # "free"
<1>1. act[t] \in Activity /\ act[t].o \in Obj /\ Relies(act[t], heap, cpp, wmap)
  BY ActivityFields DEF Control, Objects
<1>2. act[t].at # "forget" => heap[act[t].o].st # "free"
  BY <1>1 DEF Relies, Holding, Served
<1> QED BY <1>1, <1>2 DEF Objects, WrapperSound, IInv, TypeOK

\* Object::removeParent in a deallocation: there is no parent.
LEMMA RemoveParentMoves ==
    ASSUME OnlyMoving, IInv, NEW act, Control(act), Objects(act, heap, cpp, wmap),
           NEW t \in Thread, RemoveParent(t)
    PROVE  Moves'
<1> DEFINE a == act[t]
           o == a.o
<1>1. Ready(t) /\ Top(t).fn = "removeParent"
  BY DEF RemoveParent, Running
<1>2. /\ act \in [Thread -> Activity] /\ a \in Activity /\ a.at # "idle"
      /\ Top(t) = TopOf(a) /\ stack[t] = StackOf(a) /\ Relies(a, heap, cpp, wmap)
  BY <1>1, StepStart
<1>3. a.at = "unparent" /\ a.at \in Deallocating
  BY <1>1, <1>2, TopFunction DEF Deallocating
<1>4. Top(t) = RemoveParentCall(o, TRUE, FALSE) /\ Plain(heap[o])
  <2>1. a.at \in Holding
    BY <1>3 DEF Holding
  <2> QED BY <2>1, <1>2, <1>3, TopTells, WorkedOn
<1>5. ~HasParent(heap, o) /\ ~heap[o].pinfo
  BY <1>4 DEF HasParent, Plain
<1>6. Unparent(heap, o, TRUE, FALSE) = heap /\ UnparentCalls(heap, o, FALSE) = <<>>
  BY <1>5 DEF Unparent, UnparentCalls, DropsReference
<1>7. Return(t) /\ UNCHANGED <<heap, cpp, owner, wmap>>
  <2>1. Top(t).o = o /\ Top(t).give = TRUE /\ Top(t).keep = FALSE
    BY <1>4 DEF RemoveParentCall
  <2>2. /\ heap' = Unparent(heap, Top(t).o, Top(t).give, Top(t).keep)
        /\ Continue(t, UnparentCalls(heap, Top(t).o, Top(t).keep))
        /\ UNCHANGED <<cpp, owner, wmap>>
    BY DEF RemoveParent
  <2> QED BY <2>1, <2>2, <1>6 DEF Return
<1> DEFINE b == Onward(a, "unchild")
<1>8. /\ b \in Activity /\ b.at = "unchild" /\ b.o = o /\ b.p = a.p /\ b.then = a.then
      /\ "unchild" \in Deallocating
  BY <1>2, <1>3, OnwardActivity DEF Deallocating
<1>9. Tail(stack[t]) = StackOf(b)
  BY <1>2, <1>3, DeallocatingStack
<1> HIDE DEF b
<1>10. Relies(b, heap, cpp, wmap)
  BY <1>2, <1>3, <1>8 DEF Relies, Deallocating, Ending, Serving
<1> QED BY <1>1, <1>3, <1>7, <1>8, <1>9, <1>10, PassesOn DEF b, Deallocating

\* _destroyParentInfo is not needed: there are no children.
LEMMA DestroyParentInfoMoves ==
    ASSUME OnlyMoving, IInv, NEW act, Control(act), Objects(act, heap, cpp, wmap),
           NEW t \in Thread, DestroyParentInfo(t)
    PROVE  Moves'
<1> DEFINE a == act[t]
           o == a.o
<1>1. Ready(t) /\ Top(t).fn = "destroyParentInfo"
  BY DEF DestroyParentInfo, Running
<1>2. /\ act \in [Thread -> Activity] /\ a \in Activity /\ a.at # "idle"
      /\ Top(t) = TopOf(a) /\ stack[t] = StackOf(a) /\ Relies(a, heap, cpp, wmap)
  BY <1>1, StepStart
<1>3. a.at \in {"unchild", "dissolve"}
  BY <1>1, <1>2, TopFunction
<1>4. Top(t) = Call("destroyParentInfo", o) /\ Plain(heap[o])
  <2>1. a.at \in Holding
    BY <1>3 DEF Holding, Deallocating, Serving
  <2> QED BY <2>1, <1>2, <1>3, TopTells, WorkedOn
<1>5. Return(t) /\ UNCHANGED <<heap, cpp, owner, wmap>>
  <2>1. Top(t).o = o /\ ~heap[o].pinfo
    BY <1>4 DEF Call, Plain
  <2> QED BY <2>1 DEF DestroyParentInfo
<1>6. CASE a.at = "unchild"
  <2> DEFINE b == Onward(a, "unref")
  <2>1. /\ b \in Activity /\ b.at = "unref" /\ b.o = o /\ b.p = a.p /\ b.then = a.then
        /\ a.at \in Deallocating
    BY <1>2, <1>6, OnwardActivity DEF Deallocating
  <2>2. Tail(stack[t]) = StackOf(b)
    BY <1>2, <1>6, <2>1, DeallocatingStack
  <2> HIDE DEF b
  <2>3. Relies(b, heap, cpp, wmap)
    BY <1>2, <1>6, <2>1 DEF Relies, Deallocating, Ending, Serving
  <2>4. "unref" \in Deallocating
    BY DEF Deallocating
  <2> QED BY <1>1, <1>5, <1>6, <2>1, <2>2, <2>3, <2>4, PassesOn DEF b
<1>7. CASE a.at = "dissolve"
  <2> DEFINE b == Onward(a, "extra")
  <2>1. /\ b \in Activity /\ b.at = "extra" /\ b.o = o /\ b.p = a.p /\ b.then = a.then
        /\ a.at \in Serving /\ a.at \in Ending /\ a.at \notin Deallocating
    BY <1>2, <1>7, OnwardActivity DEF Deallocating, Serving, Ending
  <2>2. Tail(stack[t]) = StackOf(b)
    BY <1>2, <1>7, <2>1, DestructorStack
  <2> HIDE DEF b
  <2>3. Relies(b, heap, cpp, wmap)
    BY <1>2, <1>7, <2>1 DEF Relies, Deallocating, Ending, Serving
  <2>4. "extra" \in Serving
    BY DEF Serving
  <2> QED BY <1>1, <1>5, <1>7, <2>1, <2>2, <2>3, <2>4, PassesOn DEF b
<1> QED BY <1>3, <1>6, <1>7

\* Object::clearReferences: there are none.
LEMMA ClearReferencesMoves ==
    ASSUME OnlyMoving, IInv, NEW act, Control(act), Objects(act, heap, cpp, wmap),
           NEW t \in Thread, ClearReferences(t)
    PROVE  Moves'
<1> DEFINE a == act[t]
           o == a.o
<1>1. Ready(t) /\ Top(t).fn = "clearReferences"
  BY DEF ClearReferences, Running
<1>2. /\ act \in [Thread -> Activity] /\ a \in Activity /\ a.at # "idle"
      /\ Top(t) = TopOf(a) /\ stack[t] = StackOf(a) /\ Relies(a, heap, cpp, wmap)
  BY <1>1, StepStart
<1>3. a.at \in {"unref", "clear"}
  BY <1>1, <1>2, TopFunction
<1>4. Top(t) = Call("clearReferences", o) /\ Plain(heap[o])
  <2>1. a.at \in Holding
    BY <1>3 DEF Holding, Deallocating, Serving
  <2> QED BY <2>1, <1>2, <1>3, TopTells, WorkedOn
<1>5. Return(t) /\ UNCHANGED <<heap, cpp, owner, wmap>>
  <2>1. Top(t).o = o /\ heap[o].refs = NoRefs
    BY <1>4 DEF Call, Plain
  <2> QED BY <2>1 DEF ClearReferences
<1>6. CASE a.at = "unref"
  <2> DEFINE b == Onward(a, "free")
  <2>1. /\ b \in Activity /\ b.at = "free" /\ b.o = o /\ b.p = a.p /\ b.then = a.then
        /\ a.at \in Deallocating
    BY <1>2, <1>6, OnwardActivity DEF Deallocating
  <2>2. Tail(stack[t]) = StackOf(b)
    BY <1>2, <1>6, <2>1, DeallocatingStack
  <2> HIDE DEF b
  <2>3. Relies(b, heap, cpp, wmap)
    BY <1>2, <1>6, <2>1 DEF Relies, Deallocating, Ending, Serving
  <2>4. "free" \in Deallocating
    BY DEF Deallocating
  <2> QED BY <1>1, <1>5, <1>6, <2>1, <2>2, <2>3, <2>4, PassesOn DEF b
<1>7. CASE a.at = "clear"
  <2> DEFINE b == Onward(a, "branch")
  <2>1. /\ b \in Activity /\ b.at = "branch" /\ b.o = o /\ b.p = a.p /\ b.then = a.then
        /\ a.at \in Serving /\ a.at \in Ending /\ a.at \notin Deallocating
    BY <1>2, <1>7, OnwardActivity DEF Deallocating, Serving, Ending
  <2>2. Tail(stack[t]) = StackOf(b)
    BY <1>2, <1>7, <2>1, DestructorStack
  <2> HIDE DEF b
  <2>3. Relies(b, heap, cpp, wmap)
    BY <1>2, <1>7, <2>1 DEF Relies, Deallocating, Ending, Serving
  <2>4. "branch" \in Serving
    BY DEF Serving
  <2> QED BY <1>1, <1>5, <1>7, <2>1, <2>2, <2>3, <2>4, PassesOn DEF b
<1> QED BY <1>3, <1>6, <1>7

\* Object::invalidate of one object: no children, no references.
LEMMA InvalidateMoves ==
    ASSUME OnlyMoving, IInv, NEW act, Control(act), Objects(act, heap, cpp, wmap),
           NEW t \in Thread, Invalidate(t)
    PROVE  Moves'
<1> DEFINE a == act[t]
           o == a.o
<1>1. Ready(t) /\ Top(t).fn = "invalidate"
  BY DEF Invalidate, Running
<1>2. /\ act \in [Thread -> Activity] /\ a \in Activity /\ a.at # "idle"
      /\ Top(t) = TopOf(a) /\ stack[t] = StackOf(a) /\ Relies(a, heap, cpp, wmap)
      /\ heap \in Heap /\ wmap \in [Ptr -> Obj \cup {None}] /\ TypeOK
  BY <1>1, StepStart
<1>3. a.at = "invalidate" /\ (\A u \in Thread : u # t => act[u].at \notin Holding)
      /\ a.p = None /\ a.then = "none"
  BY <1>1, <1>2, TopFunction, StepStart, ActivityFields
<1>4. Top(t) = Call("invalidate", o) /\ Plain(heap[o])
  <2>1. a.at \in Holding
    BY <1>3 DEF Holding
  <2> QED BY <2>1, <1>2, <1>3, TopTells, WorkedOn
<1>5. /\ Return(t) /\ cpp' = cpp /\ owner' = owner
      /\ IF heap[o].shell THEN heap' = heap /\ wmap' = wmap
         ELSE /\ wmap' = Release(wmap, heap, o)
              /\ heap' = [heap EXCEPT ![o] = [heap[o] EXCEPT !.valid = FALSE]]
  <2>1. Top(t).o = o /\ heap[o].kids = {} /\ heap[o].refs = NoRefs
    BY <1>4 DEF Call, Plain
  <2>2. <<>> \o <<>> = <<>>
    OBVIOUS
  <2> QED BY <2>1, <2>2 DEF Invalidate, Return
<1>6. Tail(stack[t]) = StackOf(Idle) /\ Idle \in Activity /\ Idle.at \notin Holding
  <2>1. Tail(stack[t]) = <<>>
    BY <1>2, <1>3, DestructorStack
  <2> QED BY <2>1, IdleActivity DEF StackOf, Holding, Deallocating, Serving
<1>7. Objects([act EXCEPT ![t] = Idle], heap', cpp, wmap')
  <2>1. CASE heap[o].shell
    <3>1. Relies(Idle, heap, cpp, wmap)
      BY IdleActivity DEF Relies, Deallocating, Ending, Serving
    <3>2. a.at \notin Deallocating \cup {"forget"}
      BY <1>3 DEF Deallocating
    <3>3. Objects([act EXCEPT ![t] = Idle], heap, cpp, wmap)
      BY <3>1, <3>2, <1>2, <1>3, IdleActivity, SameWrapper
    <3> QED BY <3>3, <2>1, <1>5
  <2>2. CASE ~heap[o].shell
    <3>1. Objects([act EXCEPT ![t] = Idle],
                  [heap EXCEPT ![o] = [heap[o] EXCEPT !.valid = FALSE]], cpp,
                  Release(wmap, heap, o))
      BY <2>2, <1>2, <1>3, InvalidatesObject
    <3> QED BY <3>1, <2>2, <1>5
  <2> QED BY <2>1, <2>2
<1>8. Objects([act EXCEPT ![t] = Idle], heap, cpp, wmap)'
  BY <1>5, <1>7
<1> HIDE DEF a
<1> QED BY <1>1, <1>2, <1>3, <1>5, <1>6, <1>8, Returns DEF a

\* A C++ destructor begins.
LEMMA CppDtorMoves ==
    ASSUME OnlyMoving, IInv, NEW act, Control(act), Objects(act, heap, cpp, wmap),
           NEW t \in Thread, CppDtor(t)
    PROVE  Moves'
<1> DEFINE a == act[t]
           p == a.p
<1>1. Ready(t) /\ Top(t).fn = "cppDtor"
  BY DEF CppDtor, Running
<1>2. /\ act \in [Thread -> Activity] /\ a \in Activity /\ a.at # "idle"
      /\ Top(t) = TopOf(a) /\ stack[t] = StackOf(a) /\ Relies(a, heap, cpp, wmap)
      /\ heap \in Heap /\ cpp \in [Ptr -> CppState] /\ wmap \in [Ptr -> Obj \cup {None}]
      /\ MapSound(heap, wmap) /\ TypeOK
  BY <1>1, StepStart
<1>3. a.at = "dtor" /\ Tail(stack[t]) = <<>> /\ Top(t).p = p /\ p \in Ptr
  <2>1. a.at = "dtor"
    BY <1>1, <1>2, TopFunction
  <2>2. a.at \in Ending \cup {"dtor", "invalidate"}
    BY <2>1
  <2>3. Tail(stack[t]) = <<>> /\ p \in Ptr
    BY <2>1, <2>2, <1>2, DestructorStack, ActivityFields
  <2>4. Top(t).p = p
    BY <2>1, <1>2 DEF TopOf, DtorCall
  <2> QED BY <2>1, <2>3, <2>4
<1>4. PICK b \in Activity : b = Finding(p, cpp, wmap)
  BY <1>2, <1>3, DtorObjects
<1>5. Objects([act EXCEPT ![t] = b], heap, [cpp EXCEPT ![p] = "dying"], wmap)
  BY <1>2, <1>3, <1>4, DtorObjects
<1> DEFINE calls == IF cpp[p] = "shell" THEN <<DestroyCall(wmap[p], p), BodyCall(p)>>
                    ELSE <<BodyCall(p)>>
<1>6. /\ Continue(t, calls) /\ cpp' = [cpp EXCEPT ![p] = "dying"]
      /\ heap' = heap /\ wmap' = wmap /\ owner' = owner
  BY <1>3 DEF CppDtor, DestroyCall, BodyCall
<1>7. calls = StackOf(b) /\ calls \in Seq(Frame)
  <2>1. calls = StackOf(b)
    BY <1>4 DEF Finding, StackOf, Doing, Deallocating, Ending
  <2>2. wmap[p] \in Obj \cup {None}
    BY <1>2, <1>3
  <2>3. DestroyCall(wmap[p], p) \in Frame /\ BodyCall(p) \in Frame
    BY <2>2, <1>3 DEF DestroyCall, BodyCall, Frame
  <2>4. calls \in Seq(Frame)
    BY <2>3
  <2> QED BY <2>1, <2>4
<1>8. calls \o Tail(stack[t]) = StackOf(b)
  <2> HIDE DEF calls
  <2>1. \A s \in Seq(Frame) : s \o <<>> = s
    OBVIOUS
  <2>2. calls \o <<>> = calls
    BY <2>1, <1>7
  <2> QED BY <2>2, <1>3, <1>7
<1>9. b.at \notin Holding
  BY <1>4 DEF Finding, Doing, Holding, Deallocating, Serving
<1>10. Objects([act EXCEPT ![t] = b], heap, cpp, wmap)'
  BY <1>5, <1>6
<1>11. PICK cc : cc = calls
  OBVIOUS
<1> HIDE DEF a, calls
<1> QED BY <1>1, <1>2, <1>6, <1>8, <1>9, <1>10, <1>11, GoesOn

\* The instance is destroyed; no other is its child.
LEMMA CppDtorBodyMoves ==
    ASSUME OnlyMoving, IInv, NEW act, Control(act), Objects(act, heap, cpp, wmap),
           NEW t \in Thread, CppDtorBody(t)
    PROVE  Moves'
<1> DEFINE a == act[t]
           p == a.p
<1>1. Ready(t) /\ Top(t).fn = "cppDtorBody"
  BY DEF CppDtorBody, Running
<1>2. /\ act \in [Thread -> Activity] /\ a \in Activity /\ a.at # "idle"
      /\ Top(t) = TopOf(a) /\ stack[t] = StackOf(a)
      /\ heap \in Heap /\ cpp \in [Ptr -> CppState] /\ wmap \in [Ptr -> Obj \cup {None}]
      /\ TypeOK /\ owner = [q \in Ptr |-> None]
  BY <1>1, StepStart
<1>3. a.at = "body" /\ Tail(stack[t]) = <<>> /\ Top(t).p = p /\ p \in Ptr
  <2>1. a.at = "body"
    BY <1>1, <1>2, TopFunction
  <2>2. a.at \in Ending
    BY <2>1 DEF Ending
  <2>3. Tail(stack[t]) = <<>> /\ p \in Ptr
    BY <2>1, <2>2, <1>2, DestructorStack, ActivityFields
  <2>4. Top(t).p = p
    BY <2>1, <1>2 DEF TopOf, BodyCall
  <2> QED BY <2>1, <2>3, <2>4
<1>4. /\ cpp' = [cpp EXCEPT ![p] = "none"] /\ owner' = [owner EXCEPT ![p] = None] /\ Return(t)
      /\ heap' = heap /\ wmap' = wmap
  <2>1. \A q \in Ptr : owner[q] # p
    BY <1>2, <1>3, NoneIsNone
  <2> QED BY <2>1, <1>3 DEF CppDtorBody
<1>5. owner' = owner
  BY <1>2, <1>3, <1>4
<1>6. Objects([act EXCEPT ![t] = Idle], heap, [cpp EXCEPT ![p] = "none"], wmap)
  BY <1>2, <1>3, BodyObjects
<1>7. Idle \in Activity /\ Idle.at \notin Holding /\ StackOf(Idle) = <<>>
  BY IdleActivity DEF StackOf, Holding, Deallocating, Serving
<1>8. Objects([act EXCEPT ![t] = Idle], heap, cpp, wmap)'
  BY <1>4, <1>6
<1>9. Tail(stack[t]) = StackOf(Idle)
  BY <1>3, <1>7
<1> QED BY <1>1, <1>2, <1>4, <1>5, <1>7, <1>8, <1>9, Returns

\* Object::destroy begins; there may be no wrapper.
LEMMA DestroyMoves ==
    ASSUME OnlyMoving, IInv, NEW act, Control(act), Objects(act, heap, cpp, wmap),
           NEW t \in Thread, Destroy(t)
    PROVE  Moves'
<1> DEFINE a == act[t]
           p == a.p
<1>1. Ready(t) /\ Top(t).fn = "destroy"
  BY DEF Destroy, Running
<1>2. /\ act \in [Thread -> Activity] /\ a \in Activity /\ a.at # "idle"
      /\ Top(t) = TopOf(a) /\ stack[t] = StackOf(a) /\ TypeOK
      /\ Relies(a, heap, cpp, wmap)
  BY <1>1, StepStart
<1>3. /\ a.at = "destroy" /\ a.at \in Ending /\ a.o \in Obj \cup {None} /\ p \in Ptr
      /\ a.then = "none"
  <2>1. a.at = "destroy"
    BY <1>1, <1>2, TopFunction
  <2>2. a.at \in Ending
    BY <2>1 DEF Ending
  <2> QED BY <2>1, <2>2, <1>2, ActivityFields
<1>4. Top(t) = DestroyCall(a.o, p) /\ Tail(stack[t]) = <<BodyCall(p)>>
  BY <1>2, <1>3, DestructorStack, TopTells
<1>5. UNCHANGED <<heap, cpp, owner, wmap>>
  BY DEF Destroy
<1> DEFINE at == IF a.o = None THEN "body" ELSE "clear"
           calls == IF a.o = None THEN <<>>
                    ELSE <<Call("clearReferences", a.o), BranchCall(a.o, p)>>
<1>6. Continue(t, calls)
  <2>1. Top(t).o = a.o
    BY <1>4 DEF DestroyCall
  <2>2. [DestroyCall(a.o, p) EXCEPT !.fn = "destroyBranch"] = BranchCall(a.o, p)
    BY DEF DestroyCall, BranchCall
  <2> QED BY <2>1, <2>2, <1>4 DEF Destroy, Return
<1>7. PICK b \in Activity : b = Doing(at, a.o, p, "none")
  <2>1. Doing(at, a.o, p, "none") \in Activity
    BY <1>3 DEF Doing, Activity, Deallocating, Ending, Holding, Serving
  <2> QED BY <2>1
<1>8. b.at = at /\ b.o = a.o /\ b.p = p /\ b.then = "none"
  BY <1>7 DEF Doing
<1>9. calls \o Tail(stack[t]) = StackOf(b)
  <2>1. CASE a.o = None
    <3>1. StackOf(b) = <<BodyCall(p)>> /\ calls = <<>>
      BY <2>1, <1>8 DEF StackOf, Deallocating
    <3>2. BodyCall(p) \in Frame
      BY <1>3 DEF BodyCall, Frame
    <3>3. <<>> \o <<BodyCall(p)>> = <<BodyCall(p)>>
      BY <3>2
    <3> QED BY <3>1, <3>3, <1>4
  <2>2. CASE a.o # None
    <3>1. StackOf(b) = <<Call("clearReferences", a.o), BranchCall(a.o, p), BodyCall(p)>>
      BY <2>2, <1>8 DEF StackOf, Deallocating
    <3>2. PICK x, y, z \in Frame : x = Call("clearReferences", a.o) /\ y = BranchCall(a.o, p)
                                   /\ z = BodyCall(p)
      BY <2>2, <1>3 DEF Call, BranchCall, BodyCall, Frame
    <3>3. <<x, y>> \o <<z>> = <<x, y, z>>
      <4>1. \A q \in Seq(Frame) : (<<x, y>> \o <<z>>) \o q = <<x, y, z>> \o q
        OBVIOUS
      <4>2. <<x, y>> \o <<z>> \in Seq(Frame) /\ <<x, y, z>> \in Seq(Frame) /\ <<>> \in Seq(Frame)
        OBVIOUS
      <4>3. \A s \in Seq(Frame) : s \o <<>> = s
        OBVIOUS
      <4> QED BY <4>1, <4>2, <4>3
    <3> QED BY <2>2, <3>1, <3>2, <3>3, <1>4
  <2> QED BY <2>1, <2>2
<1>10. b.at \in Holding => a.at \notin {"dtor", "body"}
  BY <1>3
<1> HIDE DEF a, p
<1>11. Relies(b, heap, cpp, wmap)
  BY <1>2, <1>3, <1>8 DEF Relies, Deallocating, Ending, Serving, p
<1>12. Objects([act EXCEPT ![t] = b], heap, cpp, wmap)
  <2>1. b.at # "forget" /\ a.at \notin Deallocating \cup {"forget"}
    BY <1>3, <1>8 DEF Deallocating
  <2> QED BY <2>1, <1>2, <1>3, <1>8, <1>11, SameWrapper DEF a, p
<1>13. Objects([act EXCEPT ![t] = b], heap, cpp, wmap)'
  BY <1>5, <1>12
<1>14. PICK cc : cc = calls
  OBVIOUS
<1> HIDE DEF calls
<1> QED BY <1>1, <1>2, <1>5, <1>6, <1>9, <1>10, <1>13, <1>14, GoesOn DEF a

\* BindingManager::destroyBranch reads whether there is a parent: there is none.
LEMMA DestroyBranchMoves ==
    ASSUME OnlyMoving, IInv, NEW act, Control(act), Objects(act, heap, cpp, wmap),
           NEW t \in Thread, DestroyBranch(t)
    PROVE  Moves'
<1> DEFINE a == act[t]
           p == a.p
           o == a.o
<1>1. Ready(t) /\ Top(t).fn = "destroyBranch"
  BY DEF DestroyBranch, Running
<1>2. /\ act \in [Thread -> Activity] /\ a \in Activity /\ a.at # "idle"
      /\ Top(t) = TopOf(a) /\ stack[t] = StackOf(a) /\ TypeOK
      /\ Relies(a, heap, cpp, wmap)
  BY <1>1, StepStart
<1>3. /\ a.at = "branch" /\ a.at \in Ending /\ a.at \in Holding /\ a.at \in Serving
      /\ o \in Obj /\ p \in Ptr /\ a.then = "none"
  <2>1. a.at = "branch"
    BY <1>1, <1>2, TopFunction
  <2>2. a.at \in Ending /\ a.at \in Holding /\ a.at \in Serving
    BY <2>1 DEF Ending, Holding, Serving
  <2> QED BY <2>1, <2>2, <1>2, ActivityFields
<1>4. Top(t) = BranchCall(o, p) /\ Tail(stack[t]) = <<BodyCall(p)>> /\ Plain(heap[o])
  BY <1>2, <1>3, DestructorStack, TopTells, WorkedOn
<1> DEFINE calls == <<Call("destroyParentInfo", o), ExtraRefCall(o), ForgetCall(o, p)>>
<1>5. Continue(t, calls) /\ UNCHANGED <<heap, cpp, owner, wmap>>
  <2>1. Top(t).o = o
    BY <1>4 DEF BranchCall
  <2>2. [BranchCall(o, p) EXCEPT !.fn = "forgetPointer"] = ForgetCall(o, p)
    BY DEF BranchCall, ForgetCall
  <2>3. HasParent(heap, o) = FALSE
    BY <1>4 DEF HasParent, Plain
  <2> QED BY <2>1, <2>2, <2>3, <1>4 DEF DestroyBranch, ExtraRefCall
<1>6. PICK b \in Activity : b = Doing("dissolve", o, p, "none")
  <2>1. Doing("dissolve", o, p, "none") \in Activity
    BY <1>3 DEF Doing, Activity, Deallocating, Ending, Holding, Serving
  <2> QED BY <2>1
<1>7. b.at = "dissolve" /\ b.o = o /\ b.p = p /\ b.then = "none"
  BY <1>6 DEF Doing
<1>8. calls \o Tail(stack[t]) = StackOf(b)
  <2>1. StackOf(b) = <<Call("destroyParentInfo", o), ExtraRefCall(o), ForgetCall(o, p),
                       BodyCall(p)>>
    BY <1>7 DEF StackOf
  <2>2. PICK x, y, z, u \in Frame : /\ x = Call("destroyParentInfo", o) /\ y = ExtraRefCall(o)
                                    /\ z = ForgetCall(o, p) /\ u = BodyCall(p)
    BY <1>3 DEF Call, ExtraRefCall, ForgetCall, BodyCall, Frame
  <2>3. <<x, y, z>> \o <<u>> = <<x, y, z, u>>
    <3>1. \A q \in Seq(Frame) : (<<x, y, z>> \o <<u>>) \o q = <<x, y, z, u>> \o q
      OBVIOUS
    <3>2. /\ <<x, y, z>> \o <<u>> \in Seq(Frame) /\ <<x, y, z, u>> \in Seq(Frame)
          /\ <<>> \in Seq(Frame)
      OBVIOUS
    <3>3. \A s \in Seq(Frame) : s \o <<>> = s
      OBVIOUS
    <3> QED BY <3>1, <3>2, <3>3
  <2> QED BY <2>1, <2>2, <2>3, <1>4
<1>9. a.at \notin {"dtor", "body"}
  BY <1>3
<1> HIDE DEF a, p, o
<1>10. Relies(b, heap, cpp, wmap)
  BY <1>2, <1>3, <1>7 DEF Relies, Deallocating, Ending, Serving, p, o
<1>11. Objects([act EXCEPT ![t] = b], heap, cpp, wmap)
  <2>1. b.at # "forget" /\ a.at \notin Deallocating \cup {"forget"}
    BY <1>3, <1>7 DEF Deallocating
  <2> QED BY <2>1, <1>2, <1>3, <1>7, <1>10, SameWrapper DEF a, p
<1>12. Objects([act EXCEPT ![t] = b], heap, cpp, wmap)'
  BY <1>5, <1>11
<1>13. PICK cc : cc = calls
  OBVIOUS
<1> HIDE DEF calls
<1> QED BY <1>1, <1>2, <1>5, <1>8, <1>9, <1>12, <1>13, GoesOn DEF a

\* BindingManager::destroyBranch drops the reference of the destructor.
LEMMA RemoveExtraRefMoves ==
    ASSUME OnlyMoving, IInv, NEW act, Control(act), Objects(act, heap, cpp, wmap),
           NEW t \in Thread, RemoveExtraRef(t)
    PROVE  Moves'
<1> DEFINE a == act[t]
           p == a.p
           o == a.o
           b == Unlent(a, heap[o])
<1>1. Ready(t) /\ Top(t).fn = "removeExtraRef"
  BY DEF RemoveExtraRef, Running
<1>2. /\ act \in [Thread -> Activity] /\ a \in Activity /\ a.at # "idle"
      /\ Top(t) = TopOf(a) /\ stack[t] = StackOf(a) /\ TypeOK
      /\ heap \in Heap /\ wmap \in [Ptr -> Obj \cup {None}]
  BY <1>1, StepStart
<1>3. a.at = "extra" /\ a.at \in Ending /\ \A u \in Thread : u # t => act[u].at \notin Holding
  BY <1>1, <1>2, TopFunction, StepStart DEF Ending
<1>4. /\ Top(t) = ExtraRefCall(o) /\ Tail(stack[t]) = StackOf(Onward(a, "forget"))
      /\ o \in Obj /\ p \in Ptr
  <2>1. a.at \in Holding
    BY <1>3 DEF Holding, Serving
  <2> QED BY <2>1, <1>2, <1>3, DestructorStack, TopTells, ActivityFields
<1>5. /\ b \in Activity /\ heap[o].rc > 0 /\ heap[o].shell /\ ~heap[o].own
      /\ Objects([act EXCEPT ![t] = b], DecRef(heap, o), cpp, wmap)
  BY <1>2, <1>3, ExtraRefObjects
<1>6. /\ heap' = DecRef(heap, o) /\ Continue(t, DecRefCalls(heap, o))
      /\ UNCHANGED <<cpp, owner, wmap>>
  <2>1. Top(t).o = o /\ Top(t).hasParent = FALSE
    BY <1>4 DEF ExtraRefCall
  <2> QED BY <2>1, <1>5 DEF RemoveExtraRef
<1>7. DecRefCalls(heap, o) \o Tail(stack[t]) = StackOf(b)
  <2>1. PICK x, y, z \in Frame : /\ x = Call("dealloc", o)
                                 /\ y = ForgetCall(o, p) /\ z = BodyCall(p)
    BY <1>4 DEF Call, ForgetCall, BodyCall, Frame
  <2>2. Tail(stack[t]) = <<y, z>>
    <3>1. Onward(a, "forget").at = "forget" /\ Onward(a, "forget").o = o
          /\ Onward(a, "forget").p = p
      BY <1>2, OnwardActivity
    <3> QED BY <3>1, <2>1, <1>4 DEF StackOf
  <2>3. CASE heap[o].rc = 1
    <3>1. StackOf(b) = <<x>> \o <<y, z>>
      <4>1. b = Doing("dealloc", o, p, "forget")
        BY <2>3 DEF Unlent
      <4>2. b.at = "dealloc" /\ b.o = o /\ b.p = p /\ b.then = "forget"
        BY <4>1 DEF Doing
      <4>3. After(b) = <<y, z>>
        BY <4>2, <2>1 DEF After
      <4> QED BY <4>2, <4>3, <2>1 DEF StackOf
    <3>2. DecRefCalls(heap, o) = <<x>>
      BY <2>1, <2>3 DEF DecRefCalls
    <3> QED BY <3>1, <3>2, <2>2
  <2>4. CASE heap[o].rc # 1
    <3>1. StackOf(b) = <<y, z>>
      BY <2>1, <2>2, <2>4, <1>4 DEF Unlent
    <3>2. DecRefCalls(heap, o) = <<>> /\ <<>> \o <<y, z>> = <<y, z>>
      BY <2>4 DEF DecRefCalls
    <3> QED BY <3>1, <3>2, <2>2
  <2> QED BY <2>3, <2>4
<1>11. PICK k \in Activity : k = b
  BY <1>5
<1>8. Objects([act EXCEPT ![t] = k], heap, cpp, wmap)'
  BY <1>5, <1>6, <1>11
<1>9. a.at \notin {"dtor", "body"}
  BY <1>3
<1>10. PICK cc : cc = DecRefCalls(heap, o)
  OBVIOUS
<1> HIDE DEF a, b
<1> QED BY <1>1, <1>2, <1>6, <1>7, <1>8, <1>9, <1>10, <1>11, GoesOn DEF a

\* The end of Object::destroy: the instance is forgotten, if the wrapper is there.
LEMMA ForgetPointerMoves ==
    ASSUME OnlyMoving, IInv, NEW act, Control(act), Objects(act, heap, cpp, wmap),
           NEW t \in Thread, ForgetPointer(t)
    PROVE  Moves'
<1> DEFINE a == act[t]
           p == a.p
           o == a.o
           b == Onward(a, "body")
<1>1. Ready(t) /\ Top(t).fn = "forgetPointer" /\ Return(t) /\ UNCHANGED <<cpp, owner>>
  BY DEF ForgetPointer, Running
<1>2. /\ act \in [Thread -> Activity] /\ a \in Activity /\ a.at # "idle"
      /\ Top(t) = TopOf(a) /\ stack[t] = StackOf(a) /\ TypeOK /\ Relies(a, heap, cpp, wmap)
      /\ heap \in Heap /\ wmap \in [Ptr -> Obj \cup {None}]
  BY <1>1, StepStart
<1>3. a.at = "forget" /\ a.at \in Ending /\ \A u \in Thread : u # t => act[u].at \notin Holding
  BY <1>1, <1>2, TopFunction, StepStart DEF Ending
<1>4. Top(t) = ForgetCall(o, p) /\ Tail(stack[t]) = StackOf(b) /\ o \in Obj /\ p \in Ptr
  <2>1. a.at \in Holding
    BY <1>3 DEF Holding
  <2> QED BY <2>1, <1>2, <1>3, DestructorStack, TopTells, ActivityFields
<1>5. Top(t).o = o /\ Top(t).p = p
  BY <1>4 DEF ForgetCall
<1>6. b \in Activity /\ b.at = "body" /\ b.p = p /\ b.o = o /\ b.then = a.then
  BY <1>2, <1>3, OnwardActivity
<1>7. CASE wmap[p] = None
  <2>1. UNCHANGED <<heap, cpp, owner, wmap>>
    BY <1>1, <1>5, <1>7 DEF ForgetPointer
  <2>2. heap[o].st = "free"
    BY <1>2, <1>3, <1>7 DEF Relies
  <2>3. \A x \in Obj : heap[x].cptr = p => ~heap[x].shell
    <3> SUFFICES ASSUME NEW x \in Obj, heap[x].cptr = p, heap[x].shell
                 PROVE  FALSE
      OBVIOUS
    <3>1. WrapperSound(heap, cpp, wmap, x)
      BY DEF Objects
    <3> QED BY <3>1, <1>4, <1>7, NoneIsNone DEF WrapperSound
  <2>4. Relies(b, heap, cpp, wmap)
    BY <2>3, <1>2, <1>3, <1>6 DEF Relies, Deallocating, Ending, Serving, Unserved
  <2>5. a.at \notin Deallocating /\ "body" \in Deallocating \cup Serving \cup {"body"}
    BY <1>3 DEF Deallocating
  <2> QED BY <2>1, <2>2, <2>4, <2>5, <1>1, <1>3, <1>4, <1>6, PassesOn
<1>8. CASE wmap[p] # None
  <2>1. /\ heap' = [heap EXCEPT ![o] = Destroyed(heap[o])]
        /\ wmap' = Release(wmap, heap, o)
    BY <1>5, <1>8 DEF ForgetPointer
  <2>2. Objects([act EXCEPT ![t] = b], [heap EXCEPT ![o] = Destroyed(heap[o])], cpp,
                Release(wmap, heap, o))
    BY <1>2, <1>3, <1>8, ForgetsObject
  <2>3. Objects([act EXCEPT ![t] = b], heap, cpp, wmap)'
    BY <2>1, <2>2, <1>1
  <2>4. PICK bb \in Activity : bb = b
    BY <1>6
  <2>5. a.at \notin {"dtor", "body"}
    BY <1>3
  <2> HIDE DEF b, a
  <2> QED BY <2>3, <2>4, <2>5, <1>1, <1>2, <1>4, Returns DEF a
<1> QED BY <1>7, <1>8

-----------------------------------------------------------------------------
(* No call that a thread makes is undefined behaviour.                     *)

LEMMA TopIsSound ==
    ASSUME IInv, NEW act, Control(act), Objects(act, heap, cpp, wmap), NEW t \in Thread, Ready(t)
    PROVE  FaultOf(Top(t)) = "none"
<1> DEFINE a == act[t]
           o == a.o
           p == a.p
           v == heap[o]
<1>1. /\ act \in [Thread -> Activity] /\ a \in Activity /\ a.at # "idle"
      /\ Top(t) = TopOf(a) /\ Relies(a, heap, cpp, wmap)
      /\ (a.at \notin {"dtor", "body"} => \A u \in Thread : u # t => act[u].at \notin Holding)
      /\ heap \in Heap /\ wmap \in [Ptr -> Obj \cup {None}]
  BY StepStart
<1>2. PICK f : f = Top(t)
  OBVIOUS
<1>3. a.at \in Deallocating \cup Ending \cup {"invalidate", "dtor"}
  BY <1>1, ActivityFields
<1>4. a.at \in Holding => /\ o \in Obj /\ WrapperSound(heap, cpp, wmap, o)
                          /\ Plain(v) /\ (a.at # "forget" => v.st # "free")
  BY WorkedOn
<1>5. CASE a.at = "dealloc"
  <2>1. f.fn = "dealloc" /\ f.o = o
    BY <1>1, <1>2, <1>5 DEF TopOf, Call
  <2>2. v.own /\ v.valid => v.cptr # None
    BY <1>4, <1>5 DEF WrapperSound, Holding, Deallocating
  <2> HIDE DEF a
  <2> QED BY <1>2, <2>1, <2>2 DEF FaultOf
<1>6. CASE a.at = "unparent"
  <2>1. f.fn = "removeParent" /\ f.o = o
    BY <1>1, <1>2, <1>6 DEF TopOf, RemoveParentCall
  <2>2. v.st # "free" /\ ~HasParent(heap, o)
    BY <1>4, <1>6 DEF Plain, HasParent, Holding, Deallocating
  <2> HIDE DEF a
  <2> QED BY <1>2, <2>1, <2>2 DEF FaultOf, UnparentFault
<1>7. CASE a.at \in {"unchild", "dissolve", "unref", "clear", "free", "branch"}
  <2>1. f.fn \in {"destroyParentInfo", "clearReferences", "free", "destroyBranch"} /\ f.o = o
    <3>1. CASE a.at \in {"unchild", "dissolve"}
      BY <1>1, <1>2, <3>1 DEF TopOf, Call
    <3>2. CASE a.at \in {"unref", "clear"}
      BY <1>1, <1>2, <3>2 DEF TopOf, Call
    <3>3. CASE a.at = "free"
      BY <1>1, <1>2, <3>3 DEF TopOf, Call
    <3>4. CASE a.at = "branch"
      BY <1>1, <1>2, <3>4 DEF TopOf, BranchCall
    <3> QED BY <1>7, <3>1, <3>2, <3>3, <3>4
  <2>2. v.st # "free"
    BY <1>4, <1>7 DEF Holding, Deallocating, Serving
  <2> HIDE DEF a
  <2> QED BY <1>2, <2>1, <2>2 DEF FaultOf, FreedFault, Alive
<1>8. CASE a.at = "invalidate"
  <2>1. f.fn = "invalidate" /\ f.o = o
    BY <1>1, <1>2, <1>8 DEF TopOf, Call
  <2>2. v.st # "free" /\ (~v.shell => v.cptr # None)
    BY <1>4, <1>8 DEF WrapperSound, Holding
  <2> HIDE DEF a
  <2> QED BY <1>2, <2>1, <2>2 DEF FaultOf, FreedFault, Alive
<1>9. CASE a.at = "dtor"
  <2>1. f.fn = "cppDtor" /\ f.p = p
    BY <1>1, <1>2, <1>9 DEF TopOf, DtorCall
  <2>2. cpp[p] \in {"native", "shell"}
    BY <1>1, <1>9 DEF Relies
  <2> HIDE DEF a
  <2> QED BY <1>2, <2>1, <2>2 DEF FaultOf
<1>10. CASE a.at = "destroy"
  <2>1. f.fn = "destroy" /\ f.o = o
    BY <1>1, <1>2, <1>10 DEF TopOf, DestroyCall
  <2>2. o # None => v.st # "free"
    BY <1>1, <1>10 DEF Relies, Served
  <2> HIDE DEF a
  <2> QED BY <1>2, <2>1, <2>2 DEF FaultOf, FreedFault, Alive
<1>11. CASE a.at = "extra"
  <2>1. f.fn = "removeExtraRef" /\ f.o = o
    BY <1>1, <1>2, <1>11 DEF TopOf, ExtraRefCall
  <2>2. v.st # "free" /\ v.rc > 0
    <3>1. v.rc > 0
      BY <1>1, <1>11, ExtraRefObjects
    <3>2. v.st # "free"
      BY <1>4, <1>11 DEF Holding, Serving
    <3> QED BY <3>1, <3>2
  <2>3. DecRefFault(o) = "none"
    <3>1. v.rc \in Int
      BY <1>1, <1>4, <1>11 DEF Holding, Serving, Heap, Wrapper
    <3> QED BY <2>2, <3>1 DEF DecRefFault, Alive
  <2> HIDE DEF a
  <2> QED BY <1>2, <2>1, <2>3 DEF FaultOf
<1>12. CASE a.at = "forget"
  <2>1. f.fn = "forgetPointer" /\ f.o = o /\ f.p = p
    BY <1>1, <1>2, <1>12 DEF TopOf, ForgetCall
  <2>2. wmap[p] # None => v.st # "free" /\ v.cptr = p
    BY <1>1, <1>12 DEF Relies, Served
  <2>3. p # None
    BY <1>1, <1>12, ActivityFields, NoneIsNone DEF Ending
  <2> HIDE DEF a
  <2> QED BY <1>2, <2>1, <2>2, <2>3 DEF FaultOf, FreedFault, Alive
<1>13. CASE a.at = "body"
  <2>1. f.fn = "cppDtorBody"
    BY <1>1, <1>2, <1>13 DEF TopOf, BodyCall
  <2> QED BY <1>2, <2>1 DEF FaultOf
<1> QED BY <1>3, <1>5, <1>6, <1>7, <1>8, <1>9, <1>10, <1>11, <1>12, <1>13
    DEF Deallocating, Ending

\* Every step of a call in progress keeps the invariant.
LEMMA StepMoves ==
    ASSUME OnlyMoving, IInv, NEW act, Control(act), Objects(act, heap, cpp, wmap),
           NEW t \in Thread, Step(t)
    PROVE  Moves'
<1>1. CASE Dealloc(t)
  BY <1>1, DeallocMoves
<1>2. CASE Free(t)
  BY <1>2, FreeMoves
<1>3. CASE RemoveParent(t)
  BY <1>3, RemoveParentMoves
<1>4. CASE DestroyParentInfo(t)
  BY <1>4, DestroyParentInfoMoves
<1>5. CASE Invalidate(t)
  BY <1>5, InvalidateMoves
<1>6. CASE ClearReferences(t)
  BY <1>6, ClearReferencesMoves
<1>7. CASE CppDtor(t)
  BY <1>7, CppDtorMoves
<1>8. CASE CppDtorBody(t)
  BY <1>8, CppDtorBodyMoves
<1>9. CASE Destroy(t)
  BY <1>9, DestroyMoves
<1>10. CASE DestroyBranch(t)
  BY <1>10, DestroyBranchMoves
<1>11. CASE RemoveExtraRef(t)
  BY <1>11, RemoveExtraRefMoves
<1>12. CASE ForgetPointer(t)
  BY <1>12, ForgetPointerMoves
<1>13. CASE Crash(t)
  BY <1>13, TopIsSound DEF Crash
<1>14. ~(DecRefStep(t) \/ DestroyChildren(t) \/ InvalidateChildren(t) \/ AfterInvalidateChild(t)
         \/ InvalidateReferred(t) \/ InvalidateList(t) \/ DecRefList(t) \/ StoreReferences(t))
  <2>1. ASSUME NEW fn, Running(t, fn)
        PROVE  fn \notin {"decref", "destroyChildren", "invalidateChildren",
                          "afterInvalidateChild", "invalidateReferred", "invalidateList",
                          "decRefList", "storeReferences"}
    <3>1. Ready(t) /\ Top(t).fn = fn
      BY <2>1 DEF Running
    <3> QED BY <3>1, StepStart, TopFunction
  <2> QED BY <2>1 DEF DecRefStep, DestroyChildren, InvalidateChildren, AfterInvalidateChild,
             InvalidateReferred, InvalidateList, DecRefList, StoreReferences
<1> QED BY <1>1, <1>2, <1>3, <1>4, <1>5, <1>6, <1>7, <1>8, <1>9, <1>10, <1>11, <1>12, <1>13,
           <1>14 DEF Step

-----------------------------------------------------------------------------
(* Calls of the binding, and deletions by C++ code.                        *)

\* What holds when a thread may begin a call.
LEMMA CallStart ==
    ASSUME IInv, NEW act, Control(act), Objects(act, heap, cpp, wmap), NEW t \in Thread, CanCall(t)
    PROVE  /\ act \in [Thread -> Activity] /\ act[t].at = "idle"
           /\ \A u \in Thread : act[u].at \notin Holding
           /\ TypeOK /\ heap \in Heap /\ cpp \in [Ptr -> CppState]
           /\ wmap \in [Ptr -> Obj \cup {None}] /\ MapSound(heap, wmap)
<1>1. MapSound(heap, wmap)
  BY DEF IInv, RegistrySound, MapSound, Alive
<1> QED BY <1>1, CallerIdle DEF Control, IInv, TypeOK, Heap

\* A call of the binding begins, or returns at once, and the invariant holds.
LEMMA Enters ==
    ASSUME TypeOK, NEW act, Control(act), NEW t \in Thread, CanCall(t), NEW h, NEW calls,
           Enter(t, h, calls, "none"), NEW b \in Activity, calls = StackOf(b),
           b.at \in Holding \cup {"idle"}, owner' = owner,
           Objects([act EXCEPT ![t] = b], h, cpp', wmap')
    PROVE  Moves'
<1>1. Control([act EXCEPT ![t] = b])' /\ heap' = h
  BY EnterControl
<1>2. [act EXCEPT ![t] = b] \in [Thread -> Activity]
  BY DEF Control
<1>3. Objects([act EXCEPT ![t] = b], heap, cpp, wmap)'
  BY <1>1
<1> QED BY <1>1, <1>2, <1>3 DEF Moves

\* The same, when the call has returned.
LEMMA EntersAndReturns ==
    ASSUME TypeOK, NEW act, Control(act), NEW t \in Thread, CanCall(t), NEW h,
           Enter(t, h, <<>>, "none"), owner' = owner,
           Objects([act EXCEPT ![t] = Idle], h, cpp', wmap')
    PROVE  Moves'
<1>1. Idle \in Activity /\ Idle.at = "idle"
  BY IdleActivity
<1>2. <<>> = StackOf(Idle)
  BY <1>1 DEF StackOf, Deallocating
<1> QED BY <1>1, <1>2, Enters

\* An instance that a thread destroys or is about to destroy is doomed.
LEMMA DestructorDooms ==
    ASSUME NEW act, Control(act), Objects(act, heap, cpp, wmap), NEW u \in Thread,
           NEW p \in Ptr, act[u].p = p
    PROVE  Doomed(p)
<1> DEFINE a == act[u]
<1>1. a \in Activity /\ stack[u] = StackOf(a) /\ Relies(a, heap, cpp, wmap) /\ a.p = p /\ p # None
  BY NoneIsNone DEF Control, Objects
<1>2. a.at \in Ending \/ a.then = "forget" \/ a.at = "dtor" \/ a.then = "dtor"
  BY <1>1, ActivityFields DEF Deallocating
<1>3. cpp[p] = "dying" \/ PythonDeletes(p)
  <2>1. CASE a.at \in Ending \/ a.then = "forget"
    BY <2>1, <1>1 DEF Relies
  <2>2. CASE a.at = "dtor"
    <3>1. stack[u] = <<DtorCall(p)>>
      BY <2>2, <1>1 DEF StackOf, Deallocating
    <3>2. 1 \in DOMAIN stack[u] /\ stack[u][1] = DtorCall(p)
      BY <3>1
    <3> QED BY <3>2 DEF PythonDeletes
  <2>3. CASE a.then = "dtor"
    <3>1. a.at \in {"unparent", "unchild", "unref", "free"}
      BY <2>3, <1>1, ActivityFields DEF Deallocating, Ending
    <3>2. After(a) = <<DtorCall(p)>>
      BY <2>3, <1>1 DEF After
    <3>3. PICK x \in Frame : x = DtorCall(p)
      BY DtorCallType
    <3>4. PICK r, d, c, e \in Frame :
            /\ r = RemoveParentCall(a.o, TRUE, FALSE)
            /\ d = Call("destroyParentInfo", a.o)
            /\ c = Call("clearReferences", a.o)
            /\ e = Call("free", a.o)
      <4>1. a.o \in Obj
        BY <3>1, <1>1, ActivityFields DEF Holding, Deallocating
      <4> QED BY <4>1, CleanupTypes
    <3>5. \E i \in DOMAIN stack[u] : stack[u][i] = x
      <4>1. CASE a.at = "unparent"
        <5>1. stack[u] = <<r, d, c, e>> \o <<x>>
          BY <4>1, <1>1, <3>2, <3>3, <3>4 DEF StackOf
        <5>2. 5 \in DOMAIN (<<r, d, c, e>> \o <<x>>) /\ (<<r, d, c, e>> \o <<x>>)[5] = x
          OBVIOUS
        <5> QED BY <5>1, <5>2
      <4>2. CASE a.at = "unchild"
        <5>1. stack[u] = <<d, c, e>> \o <<x>>
          BY <4>2, <1>1, <3>2, <3>3, <3>4 DEF StackOf
        <5>2. 4 \in DOMAIN (<<d, c, e>> \o <<x>>) /\ (<<d, c, e>> \o <<x>>)[4] = x
          OBVIOUS
        <5> QED BY <5>1, <5>2
      <4>3. CASE a.at = "unref"
        <5>1. stack[u] = <<c, e>> \o <<x>>
          BY <4>3, <1>1, <3>2, <3>3, <3>4 DEF StackOf
        <5>2. 3 \in DOMAIN (<<c, e>> \o <<x>>) /\ (<<c, e>> \o <<x>>)[3] = x
          OBVIOUS
        <5> QED BY <5>1, <5>2
      <4>4. CASE a.at = "free"
        <5>1. stack[u] = <<e>> \o <<x>>
          BY <4>4, <1>1, <3>2, <3>3, <3>4 DEF StackOf
        <5>2. 2 \in DOMAIN (<<e>> \o <<x>>) /\ (<<e>> \o <<x>>)[2] = x
          OBVIOUS
        <5> QED BY <5>1, <5>2
      <4> QED BY <3>1, <4>1, <4>2, <4>3, <4>4
    <3> QED BY <3>3, <3>5 DEF PythonDeletes
  <2> QED BY <1>2, <2>1, <2>2, <2>3
<1> QED BY <1>3 DEF Doomed

\* What holds of an argument that Python code passes.
LEMMA ArgumentUsed ==
    ASSUME OnlyMoving, IInv, NEW act, Control(act), Objects(act, heap, cpp, wmap),
           NEW o \in Obj, Passed(o)
    PROVE  /\ heap[o].ext > 0 /\ heap[o].valid /\ heap[o].cptr # None
           /\ \A u \in Thread : act[u].p # heap[o].cptr
<1>1. "lists" \notin Tags /\ "racy" \notin Tags
  BY DEF OnlyMoving, Moving
<1>2. heap[o].ext > 0 /\ heap[o].valid
  BY <1>1 DEF Passed
<1>3. heap[o].cptr # None /\ heap[o].cptr \in Ptr
  BY <1>2 DEF Objects, WrapperSound, IInv, TypeOK, Wrapper
<1>4. ~Doomed(heap[o].cptr)
  BY <1>1, <1>3 DEF Passed
<1> QED BY <1>2, <1>3, <1>4, DestructorDooms

\* A constructor called by Python.
LEMMA ConstructMoves ==
    ASSUME OnlyMoving, IInv, NEW act, Control(act), Objects(act, heap, cpp, wmap),
           NEW t \in Thread, NEW o \in Obj, NEW p \in Ptr, Construct(t, o, p)
    PROVE  Moves'
<1>1. CanCall(t) /\ heap[o].st = "free" /\ FreshAddress(p)
  BY DEF Construct, Alive
<1>2. cpp[p] = "none" /\ \A x \in Obj : heap[x].cptr # p
  BY <1>1 DEF FreshAddress, OnlyMoving, Moving
<1>3. PICK shell \in BOOLEAN : shell <=> o \in Polymorphic
  <2>1. CASE o \in Polymorphic
    BY <2>1, TRUE \in BOOLEAN
  <2>2. CASE o \notin Polymorphic
    BY <2>2, FALSE \in BOOLEAN
  <2> QED BY <2>1, <2>2
<1>4. Objects([act EXCEPT ![t] = Idle], [heap EXCEPT ![o] = NewWrapper(o, p, TRUE, shell)],
              [cpp EXCEPT ![p] = IF shell THEN "shell" ELSE "native"], Assign(wmap, o, p))
  BY <1>1, <1>2, CallStart, MakesObject
<1>5. /\ Enter(t, [heap EXCEPT ![o] = NewWrapper(o, p, TRUE, shell)], <<>>, "none")
      /\ cpp' = [cpp EXCEPT ![p] = IF shell THEN "shell" ELSE "native"]
      /\ wmap' = Assign(wmap, o, p) /\ owner' = owner
  <2>1. CASE o \in Polymorphic
    <3>1. shell = TRUE /\ (o \in Polymorphic) = TRUE
      BY <1>3, <2>1
    <3> QED BY <3>1 DEF Construct
  <2>2. CASE o \notin Polymorphic
    <3>1. shell = FALSE /\ (o \in Polymorphic) = FALSE
      BY <1>3, <2>2
    <3> QED BY <3>1 DEF Construct
  <2> QED BY <2>1, <2>2
<1>6. PICK h : h = [heap EXCEPT ![o] = NewWrapper(o, p, TRUE, shell)]
  OBVIOUS
<1>7. Enter(t, h, <<>>, "none") /\ Objects([act EXCEPT ![t] = Idle], h, cpp', wmap')
  BY <1>4, <1>5, <1>6
<1> QED BY <1>1, <1>5, <1>7, CallStart, EntersAndReturns

\* newObject for a copy.
LEMMA ReturnCopyMoves ==
    ASSUME OnlyMoving, IInv, NEW act, Control(act), Objects(act, heap, cpp, wmap),
           NEW t \in Thread, NEW o \in Obj, NEW p \in Ptr, ReturnCopy(t, o, p)
    PROVE  Moves'
<1>1. CanCall(t) /\ heap[o].st = "free" /\ FreshAddress(p)
  BY DEF ReturnCopy, NewObject, Alive
<1>2. cpp[p] = "none" /\ \A x \in Obj : heap[x].cptr # p
  BY <1>1 DEF FreshAddress, OnlyMoving, Moving
<1>3. Objects([act EXCEPT ![t] = Idle], [heap EXCEPT ![o] = NewWrapper(o, p, TRUE, FALSE)],
              [cpp EXCEPT ![p] = IF FALSE THEN "shell" ELSE "native"], Assign(wmap, o, p))
  BY <1>1, <1>2, CallStart, MakesObject
<1>4. /\ Enter(t, [heap EXCEPT ![o] = NewWrapper(o, p, TRUE, FALSE)], <<>>, "none")
      /\ cpp' = [cpp EXCEPT ![p] = "native"]
      /\ wmap' = Assign(wmap, o, p) /\ owner' = owner
  BY <1>2 DEF ReturnCopy, NewObject
<1>5. PICK h : h = [heap EXCEPT ![o] = NewWrapper(o, p, TRUE, FALSE)]
  OBVIOUS
<1>6. Enter(t, h, <<>>, "none") /\ Objects([act EXCEPT ![t] = Idle], h, cpp', wmap')
  BY <1>3, <1>4, <1>5
<1> QED BY <1>1, <1>4, <1>6, CallStart, EntersAndReturns

\* Python code drops a reference.
LEMMA DropMoves ==
    ASSUME OnlyMoving, IInv, NEW act, Control(act), Objects(act, heap, cpp, wmap),
           NEW t \in Thread, NEW o \in Obj, Drop(t, o)
    PROVE  Moves'
<1>1. CanCall(t) /\ heap[o].ext > 0 /\ owner' = owner /\ cpp' = cpp /\ wmap' = wmap
  BY DEF Drop
<1>2. /\ act \in [Thread -> Activity] /\ act[t].at = "idle" /\ TypeOK /\ heap \in Heap
      /\ \A u \in Thread : act[u].at \notin Holding
      /\ wmap \in [Ptr -> Obj \cup {None}]
  BY <1>1, CallStart
<1>3. /\ Unused(heap[o], o) \in Activity
      /\ heap[o].rc > 0 /\ heap[o].st = "alive"
      /\ Objects([act EXCEPT ![t] = Unused(heap[o], o)],
                 DecRef([heap EXCEPT ![o].ext = @ - 1], o), cpp, wmap)
  BY <1>1, <1>2, DropsObject
<1>4. PICK b \in Activity : b = Unused(heap[o], o)
  BY <1>3
<1>5. PICK h : h = DecRef([heap EXCEPT ![o].ext = @ - 1], o)
  OBVIOUS
<1>6. PICK calls : calls = DecRefCalls([heap EXCEPT ![o].ext = @ - 1], o)
  OBVIOUS
<1>7. DecRefFault(o) = "none"
  <2>1. heap[o].rc \in Int
    BY <1>2 DEF Heap, Wrapper
  <2> QED BY <2>1, <1>3 DEF DecRefFault, Alive
<1>8. Enter(t, h, calls, "none")
  BY <1>5, <1>6, <1>7 DEF Drop
<1>9. [heap EXCEPT ![o].ext = @ - 1][o].rc = heap[o].rc
  <2>1. heap[o] \in Wrapper
    BY <1>2 DEF Heap
  <2> QED BY <2>1, <1>2, ExtFields, <1>1 DEF Heap
<1>10. calls = StackOf(b) /\ b.at \in Holding \cup {"idle"}
  <2>1. CASE heap[o].rc = 1
    <3>1. b = Doing("dealloc", o, None, "none")
      BY <2>1, <1>4 DEF Unused
    <3>2. b.at = "dealloc" /\ b.o = o /\ b.p = None /\ b.then = "none"
      BY <3>1 DEF Doing
    <3>3. After(b) = <<>>
      BY <3>2 DEF After
    <3>4. StackOf(b) = <<Call("dealloc", o)>> \o <<>>
      BY <3>2, <3>3 DEF StackOf
    <3>5. Call("dealloc", o) \in Frame
      BY DEF Call, Frame
    <3>6. StackOf(b) = <<Call("dealloc", o)>>
      BY <3>4, <3>5
    <3> QED BY <3>2, <3>6, <2>1, <1>9, <1>6 DEF DecRefCalls, Holding, Deallocating
  <2>2. CASE heap[o].rc # 1
    <3>1. b = Idle
      BY <2>2, <1>4 DEF Unused
    <3>2. b.at = "idle"
      BY <3>1, IdleActivity
    <3>3. StackOf(b) = <<>>
      BY <3>2, BusyStack
    <3> QED BY <3>2, <3>3, <2>2, <1>9, <1>6 DEF DecRefCalls
  <2> QED BY <2>1, <2>2
<1>11. Objects([act EXCEPT ![t] = b], h, cpp', wmap')
  BY <1>1, <1>3, <1>4, <1>5
<1> QED BY <1>1, <1>2, <1>8, <1>10, <1>11, Enters

\* A call of the binding goes on to invalidate its argument.
LEMMA InvalidationStack ==
    ASSUME NEW o \in Obj, NEW b, b = Doing("invalidate", o, None, "none")
    PROVE  /\ b \in Activity /\ b.at = "invalidate" /\ b.o = o /\ b.p = None /\ b.then = "none"
           /\ StackOf(b) = <<Call("invalidate", o)>>
           /\ b.at \in Holding \cup {"idle"}
<1>1. b \in Activity /\ b.p = None /\ b.at = "invalidate" /\ b.then = "none" /\ b.o = o
  BY IdleActivity
<1> QED BY <1>1 DEF StackOf, Deallocating, Holding

\* Object::releaseOwnership.
LEMMA ReleaseOwnershipMoves ==
    ASSUME OnlyMoving, IInv, NEW act, Control(act), Objects(act, heap, cpp, wmap),
           NEW t \in Thread, NEW o \in Obj, ReleaseOwnership(t, o)
    PROVE  Moves'
<1>1. CanCall(t) /\ Passed(o) /\ heap[o].own /\ owner' = owner /\ cpp' = cpp /\ wmap' = wmap
  BY DEF ReleaseOwnership
<1>2. /\ act \in [Thread -> Activity] /\ act[t].at = "idle" /\ TypeOK /\ heap \in Heap
      /\ \A u \in Thread : act[u].at \notin Holding
      /\ wmap \in [Ptr -> Obj \cup {None}]
  BY <1>1, CallStart
<1>3. heap[o].ext > 0 /\ heap[o].valid
  BY <1>1, ArgumentUsed
<1>4. CASE heap[o].shell
  <2>1. PICK h : h = IncRef([heap EXCEPT ![o].own = FALSE], o)
    OBVIOUS
  <2>2. Enter(t, h, <<>>, "none")
    BY <1>4, <2>1 DEF ReleaseOwnership
  <2>3. Objects([act EXCEPT ![t] = Idle], h, cpp, wmap)
    BY <1>1, <1>2, <1>3, <1>4, <2>1, LendsObject
  <2>4. Objects([act EXCEPT ![t] = Idle], h, cpp', wmap')
    BY <1>1, <2>3
  <2> QED BY <1>1, <1>2, <2>2, <2>4, EntersAndReturns
<1>5. CASE ~heap[o].shell
  <2>1. PICK h : h = [heap EXCEPT ![o].own = FALSE]
    OBVIOUS
  <2>2. PICK b : b = Doing("invalidate", o, None, "none")
    OBVIOUS
  <2>3. Enter(t, h, <<Call("invalidate", o)>>, "none")
    BY <1>5, <2>1 DEF ReleaseOwnership
  <2>4. Objects([act EXCEPT ![t] = b], h, cpp, wmap)
    BY <1>1, <1>2, <1>3, <1>5, <2>1, <2>2, GivesObject
  <2>5. Objects([act EXCEPT ![t] = b], h, cpp', wmap')
    BY <1>1, <2>4
  <2>6. b \in Activity /\ StackOf(b) = <<Call("invalidate", o)>> /\ b.at \in Holding \cup {"idle"}
    BY <2>2, InvalidationStack
  <2> QED BY <1>1, <1>2, <2>3, <2>5, <2>6, Enters
<1> QED BY <1>4, <1>5

\* Object::getOwnership.
LEMMA GetOwnershipMoves ==
    ASSUME OnlyMoving, IInv, NEW act, Control(act), Objects(act, heap, cpp, wmap),
           NEW t \in Thread, NEW o \in Obj, GetOwnership(t, o)
    PROVE  Moves'
<1>1. CanCall(t) /\ Passed(o) /\ ~heap[o].own /\ owner' = owner /\ cpp' = cpp /\ wmap' = wmap
  BY DEF GetOwnership
<1>2. /\ act \in [Thread -> Activity] /\ act[t].at = "idle" /\ TypeOK /\ heap \in Heap
      /\ \A u \in Thread : act[u].at \notin Holding
      /\ wmap \in [Ptr -> Obj \cup {None}]
  BY <1>1, CallStart
<1>3. heap[o].ext > 0 /\ heap[o].valid /\ \A u \in Thread : act[u].p # heap[o].cptr
  BY <1>1, ArgumentUsed
<1>4. CASE heap[o].shell
  <2>1. PICK h : h = DecRef([heap EXCEPT ![o].own = TRUE], o)
    OBVIOUS
  <2>2. heap[o].rc > 1 /\ heap[o].st = "alive" /\ Objects([act EXCEPT ![t] = Idle], h, cpp, wmap)
    <3>1. ~heap[o].own /\ act[t].at = "idle" /\ act \in [Thread -> Activity]
      BY <1>1, <1>2
    <3> QED BY <3>1, <1>2, <1>3, <1>4, <2>1, TakesShell, Zenon
  <2>3. heap[o] \in Wrapper /\ heap[o].rc \in Int
    BY <1>2 DEF Heap, Wrapper
  <2>4. DecRefFault(o) = "none"
    BY <2>2, <2>3 DEF DecRefFault, Alive
  <2>5. [heap EXCEPT ![o].own = TRUE][o].rc = heap[o].rc
    BY <2>3, <1>2, OwnFields DEF Heap
  <2>6. DecRefCalls([heap EXCEPT ![o].own = TRUE], o) = <<>>
    BY <2>2, <2>3, <2>5 DEF DecRefCalls
  <2>7. Enter(t, h, <<>>, "none")
    BY <1>4, <2>1, <2>4, <2>6 DEF GetOwnership
  <2>8. Objects([act EXCEPT ![t] = Idle], h, cpp', wmap')
    BY <1>1, <2>2
  <2> QED BY <1>1, <1>2, <2>7, <2>8, EntersAndReturns
<1>5. CASE ~heap[o].shell
  <2>1. PICK h : h = MadeValid([heap EXCEPT ![o].own = TRUE], o)
    OBVIOUS
  <2>2. /\ Revived([heap EXCEPT ![o].own = TRUE], o) = {}
        /\ Objects([act EXCEPT ![t] = Idle], h, cpp, wmap)
    BY <1>1, <1>2, <1>3, <1>5, <2>1, TakesNative
  <2>3. Enter(t, h, <<>>, "none")
    BY <1>5, <2>1, <2>2 DEF GetOwnership
  <2>4. Objects([act EXCEPT ![t] = Idle], h, cpp', wmap')
    BY <1>1, <2>2
  <2> QED BY <1>1, <1>2, <2>3, <2>4, EntersAndReturns
<1> QED BY <1>4, <1>5

\* A function that invalidates its argument.
LEMMA InvalidateArgumentMoves ==
    ASSUME OnlyMoving, IInv, NEW act, Control(act), Objects(act, heap, cpp, wmap),
           NEW t \in Thread, NEW o \in Obj, InvalidateArgument(t, o)
    PROVE  Moves'
<1>1. /\ CanCall(t) /\ Passed(o) /\ owner' = owner /\ cpp' = cpp /\ wmap' = wmap
      /\ Enter(t, heap, <<Call("invalidate", o)>>, "none")
  BY DEF InvalidateArgument
<1>2. /\ act \in [Thread -> Activity] /\ act[t].at = "idle" /\ TypeOK /\ heap \in Heap
      /\ \A u \in Thread : act[u].at \notin Holding
  BY <1>1, CallStart
<1>3. heap[o].st = "alive"
  BY <1>1, <1>2, ArgumentUsed, UsedObject
<1>4. PICK b : b = Doing("invalidate", o, None, "none")
  OBVIOUS
<1>5. /\ b \in Activity /\ b.at = "invalidate" /\ b.o = o /\ b.p = None /\ b.then = "none"
      /\ StackOf(b) = <<Call("invalidate", o)>> /\ b.at \in Holding \cup {"idle"}
  BY <1>4, InvalidationStack
<1>6. act[t].p = None /\ act[t].then = "none"
  BY <1>2, ActivityFields
<1>7. Relies(b, heap, cpp, wmap)
  BY <1>3, <1>5 DEF Relies, Deallocating, Ending, Serving
<1>8. act[t].at \notin Deallocating /\ act[t].at # "forget" /\ b.at # "forget"
  BY <1>2, <1>5 DEF Deallocating
<1>9. Objects([act EXCEPT ![t] = b], heap, cpp, wmap)
  BY <1>2, <1>5, <1>6, <1>7, <1>8, SameWrapper
<1>10. Objects([act EXCEPT ![t] = b], heap, cpp', wmap')
  BY <1>1, <1>9
<1> QED BY <1>1, <1>2, <1>5, <1>10, Enters

\* Without families and references, no wrapper is only referred to by others.
LEMMA NothingToCollect ==
    ASSUME OnlyMoving, IInv, NEW act, Control(act), Objects(act, heap, cpp, wmap),
           NEW S \in SUBSET Obj, NEW o \in S
    PROVE  ~Garbage(S)
<1> SUFFICES ASSUME Garbage(S) PROVE FALSE
  OBVIOUS
<1>1. heap[o].st = "alive" /\ heap[o].rc = TraversedInto(S, o)
  BY DEF Garbage
<1>2. \A y \in S : heap[y].kids = {} /\ heap[y].refs = NoRefs
  BY DEF Objects, WrapperSound, Plain
<1>3. PICK kids : kids = {y \in S : o \in heap[y].kids}
  OBVIOUS
<1>4. PICK lists : lists = {e \in S \X Keys : o \in heap[e[1]].refs[e[2]]}
  OBVIOUS
<1>5. kids = {} /\ lists = {}
  <2>1. kids = {}
    BY <1>2, <1>3
  <2>2. ASSUME NEW e \in S \X Keys PROVE o \notin heap[e[1]].refs[e[2]]
    <3>1. e[1] \in S /\ e[2] \in Keys
      OBVIOUS
    <3>2. heap[e[1]].refs[e[2]] = {}
      BY <3>1, <1>2 DEF NoRefs
    <3> QED BY <3>2
  <2> QED BY <2>1, <2>2, <1>4
<1>6. TraversedInto(S, o) = Cardinality(kids) + Cardinality(lists)
  BY <1>3, <1>4 DEF TraversedInto
<1>7. TraversedInto(S, o) = 0
  BY <1>5, <1>6, FS_EmptySet
<1>8. heap[o].rc > 0
  BY <1>1 DEF Objects, CountSound
<1> QED BY <1>1, <1>7, <1>8

\* C++ code deletes an instance.
LEMMA CppDeleteMoves ==
    ASSUME OnlyMoving, IInv, NEW act, Control(act), Objects(act, heap, cpp, wmap),
           NEW t \in Thread, NEW p \in Ptr, CppDelete(t, p)
    PROVE  Moves'
<1>1. /\ stack[t] = <<>> /\ OwnedByCpp(p) /\ fault = "none"
      /\ owner' = [owner EXCEPT ![p] = None]
      /\ stack' = [stack EXCEPT ![t] = <<DtorCall(p)>>]
      /\ heap' = heap /\ cpp' = cpp /\ wmap' = wmap /\ gil' = gil /\ fault' = fault
  BY DEF CppDelete
<1>2. /\ act \in [Thread -> Activity] /\ act[t].at = "idle" /\ heap \in Heap
      /\ cpp \in [Ptr -> CppState] /\ stack \in [Thread -> Seq(Frame)]
      /\ owner = [q \in Ptr |-> None]
  BY <1>1, BusyStack DEF Control, IInv, TypeOK, Heap
<1>3. \A u \in Thread : act[u].p # p
  <2> SUFFICES ASSUME NEW u \in Thread, act[u].p = p PROVE FALSE
    OBVIOUS
  <2>1. Doomed(p)
    BY DestructorDooms
  <2> QED BY <2>1, <1>1 DEF OwnedByCpp
<1>4. cpp[p] \in {"native", "shell"}
  <2>1. cpp[p] # "none" /\ cpp[p] \in CppState
    BY <1>1, <1>2 DEF OwnedByCpp
  <2>2. cpp[p] # "dying"
    BY <1>1 DEF OwnedByCpp, Doomed
  <2> QED BY <2>1, <2>2 DEF CppState
<1>5. \A o \in Obj : heap[o].cptr = p => ~Claimed(heap[o])
  <2> SUFFICES ASSUME NEW o \in Obj, heap[o].cptr = p, heap[o].valid, ~heap[o].shell PROVE FALSE
    BY <1>1 DEF OwnedByCpp, Claimed
  <2>1. cpp[p] = "native"
    BY DEF Objects, WrapperSound
  <2> QED BY <2>1, <1>1 DEF OwnedByCpp
<1>6. PICK b : b = Doing("dtor", None, p, "none")
  OBVIOUS
<1>7. b \in Activity /\ Objects([act EXCEPT ![t] = b], heap, cpp, wmap)
  BY <1>2, <1>3, <1>4, <1>5, <1>6, DeletesObject
<1>8. b.at = "dtor" /\ b.p = p
  BY <1>6 DEF Doing
<1>9. StackOf(b) = <<DtorCall(p)>>
  BY <1>8 DEF StackOf, Deallocating
<1> DEFINE new == [act EXCEPT ![t] = b]
<1>10. new \in [Thread -> Activity] /\ new[t] = b /\ \A u \in Thread : u # t => new[u] = act[u]
  BY <1>2, <1>7
<1>11. \A u \in Thread : stack'[u] = StackOf(new[u])
  BY <1>1, <1>2, <1>9, <1>10 DEF Control
<1>12. \A u \in Thread : new[u].at \in Holding => gil' = u
  BY <1>1, <1>8, <1>10 DEF Control, Holding, Deallocating, Serving
<1>13. owner' = [q \in Ptr |-> None]
  BY <1>1, <1>2
<1>14. Objects(new, heap', cpp', wmap')
  BY <1>1, <1>7
<1> HIDE DEF new
<1>15. PICK n : n = new
  OBVIOUS
<1>16. Control(n)'
  BY <1>1, <1>10, <1>11, <1>12, <1>13, <1>15 DEF Control
<1>17. Objects(n, heap, cpp, wmap)'
  BY <1>14, <1>15
<1>18. n \in [Thread -> Activity]
  BY <1>10, <1>15
<1> QED BY <1>16, <1>17, <1>18 DEF Moves

\* Every call that begins keeps the invariant.
LEMMA OperationMoves ==
    ASSUME OnlyMoving, IInv, NEW act, Control(act), Objects(act, heap, cpp, wmap),
           NEW t \in Thread, Operation(t)
    PROVE  Moves'
<1>1. Tags \cap {"parent", "return-pointer", "keep", "append"} = {}
  BY DEF OnlyMoving, Moving
<1>2. CASE \E o \in Obj, p \in Ptr : Construct(t, o, p) \/ ReturnCopy(t, o, p)
  BY <1>2, ConstructMoves, ReturnCopyMoves
<1>3. CASE \E p \in Ptr : ReturnPointer(t, p) \/ CppDelete(t, p)
  BY <1>1, <1>3, CppDeleteMoves DEF ReturnPointer
<1>4. ASSUME NEW o \in Obj,
             Drop(t, o) \/ ReleaseOwnership(t, o) \/ GetOwnership(t, o)
             \/ InvalidateArgument(t, o) \/ TpClear(t, o)
      PROVE  Moves'
  <2>1. ~TpClear(t, o)
    BY NothingToCollect DEF TpClear
  <2> QED BY <1>4, <2>1, DropMoves, ReleaseOwnershipMoves, GetOwnershipMoves,
             InvalidateArgumentMoves
<1>5. ASSUME NEW o \in Obj, NEW par \in Obj \cup {None}, SetParent(t, par, o)
      PROVE  Moves'
  BY <1>1, <1>5 DEF SetParent
<1>6. ASSUME NEW o \in Obj, NEW k \in Keys,
             RemoveReference(t, o, k) \/ \E r \in Obj : KeepReference(t, o, k, r)
      PROVE  Moves'
  BY <1>1, <1>6 DEF RemoveReference, KeepReference
<1> QED BY <1>2, <1>3, <1>4, <1>5, <1>6 DEF Operation

-----------------------------------------------------------------------------
(* The invariant is inductive, and what it says of the program.            *)

LEMMA MovingInit ==
    ASSUME Init
    PROVE  MovingInv
<1>1. PICK act \in [Thread -> Activity] : act = [t \in Thread |-> Idle]
  BY IdleActivity
<1>2. \A t \in Thread : act[t] = Idle /\ act[t].at = "idle" /\ act[t].p = None
                        /\ act[t].then = "none"
  BY <1>1, IdleActivity
<1>3. \A t \in Thread : StackOf(act[t]) = <<>>
  BY <1>2, BusyStack
<1>4. Control(act)
  BY <1>2, <1>3 DEF Control, Init, Holding, Deallocating, Serving
<1>5. \A o \in Obj : WrapperSound(heap, cpp, wmap, o) /\ CountSound(act, heap, o)
  BY DEF Init, WrapperSound, CountSound, Plain, Blank
<1>6. \A t \in Thread : Relies(act[t], heap, cpp, wmap)
  BY <1>2 DEF Relies, Deallocating, Ending, Serving
<1>7. OneWrapper(heap) /\ DyingEnds(act, cpp)
  BY DEF Init, OneWrapper, DyingEnds, Blank
<1>8. OneDestructor(act)
  BY <1>2 DEF OneDestructor
<1>9. OwnerDeletes(act, heap)
  BY DEF Init, OwnerDeletes, Claimed, Blank
<1>10. Objects(act, heap, cpp, wmap)
  BY <1>5, <1>6, <1>7, <1>8, <1>9 DEF Objects
<1> QED BY <1>4, <1>10, InitInv DEF MovingInv, Moves

LEMMA MovingStep ==
    ASSUME OnlyMoving, MovingInv, [Next]_vars
    PROVE  MovingInv'
<1>1. PICK act \in [Thread -> Activity] : Control(act) /\ Objects(act, heap, cpp, wmap)
  BY DEF MovingInv, Moves
<1>2. IInv
  BY DEF MovingInv
<1>3. ASSUME NEW t \in Thread, Step(t)
      PROVE  MovingInv'
  BY <1>1, <1>2, <1>3, StepInv, StepMoves DEF MovingInv
<1>4. ASSUME NEW t \in Thread, Operation(t)
      PROVE  MovingInv'
  BY <1>1, <1>2, <1>4, OperationInv, OperationMoves DEF MovingInv
<1>5. CASE UNCHANGED vars
  <2>1. IInv'
    BY <1>2, <1>5 DEF vars, IInv, TypeOK, RegistrySound, Alive
  <2>2. Control(act)' /\ Objects(act, heap, cpp, wmap)'
    BY <1>1, <1>5 DEF vars, Control
  <2> QED BY <1>1, <2>1, <2>2 DEF MovingInv, Moves
<1> QED BY <1>3, <1>4, <1>5 DEF Next

\* The invariant holds of every binding that only moves single objects.
LEMMA MovingAlways ==
    ASSUME OnlyMoving
    PROVE  Spec => []MovingInv
<1>1. Init => MovingInv
  BY MovingInit
<1>2. MovingInv /\ [Next]_vars => MovingInv'
  BY MovingStep
<1> QED BY <1>1, <1>2, PTL DEF Spec

\* What the invariant says of one wrapper.
LEMMA MovingObject ==
    ASSUME MovingInv, NEW o \in Obj
    PROVE  /\ Plain(heap[o]) /\ heap[o] \in Wrapper
           /\ heap[o].st = "free" => heap[o] = Blank
           /\ heap[o].st = "dying" => heap[o].ext = 0
           /\ heap[o].valid => /\ heap[o].cptr # None /\ wmap[heap[o].cptr] = o
                               /\ cpp[heap[o].cptr] # "none"
BY DEF MovingInv, Moves, Objects, WrapperSound, CountSound, IInv, TypeOK

\* Between calls, who holds references to a wrapper.
LEMMA QuietCount ==
    ASSUME MovingInv, Quiet, NEW o \in Obj
    PROVE  /\ heap[o].st \in {"free", "alive"}
           /\ heap[o].rc = heap[o].ext + One(Lent(heap[o]))
           /\ heap[o].st = "alive" => heap[o].rc > 0
           /\ Lent(heap[o]) => cpp[heap[o].cptr] # "none"
<1>1. PICK act \in [Thread -> Activity] : Control(act) /\ Objects(act, heap, cpp, wmap)
  BY DEF MovingInv, Moves
<1>2. \A t \in Thread : act[t].at = "idle"
  BY <1>1, BusyStack DEF Control, Quiet
<1>3. ~Dropped(act, o) /\ \A t \in Thread : act[t].at \notin Deallocating
  BY <1>2 DEF Dropped, Deallocating
<1>4. /\ heap[o].st \in {"free", "alive", "dying"}
      /\ WrapperSound(heap, cpp, wmap, o) /\ CountSound(act, heap, o)
  BY <1>1, MovingObject DEF Objects, Wrapper
<1>5. Lent(heap[o]) => cpp[heap[o].cptr] # "none"
  BY <1>4 DEF WrapperSound, Lent
<1>6. CASE heap[o].st = "free"
  <2>1. heap[o] = Blank
    BY <1>6, <1>4 DEF WrapperSound
  <2>2. Blank.rc = 0 /\ Blank.ext = 0 /\ ~Lent(Blank)
    BY DEF Blank, Lent
  <2> QED BY <1>5, <1>6, <2>1, <2>2 DEF One
<1>7. CASE heap[o].st = "alive"
  <2>1. One(Lent(heap[o]) /\ ~Dropped(act, o)) = One(Lent(heap[o]))
    BY <1>3 DEF One
  <2>2. heap[o].rc > 0 /\ heap[o].rc = heap[o].ext + One(Lent(heap[o]) /\ ~Dropped(act, o))
    BY <1>4, <1>7 DEF CountSound
  <2> QED BY <1>5, <1>7, <2>1, <2>2
<1>8. heap[o].st # "dying"
  BY <1>3, <1>4 DEF CountSound
<1> QED BY <1>4, <1>6, <1>7, <1>8

\* Nobody else does: there are no parents and no lists of references.
LEMMA NoOtherHolder ==
    ASSUME MovingInv, NEW o \in Obj
    PROVE  /\ KeptBy(o) = {} /\ Cardinality(KeptBy(o)) = 0
           /\ ~HasParent(heap, o) /\ ~heap[o].wref
           /\ ReleasedToCpp(o) <=> Lent(heap[o])
<1>1. \A e \in Obj \X Keys : o \notin heap[e[1]].refs[e[2]]
  <2> SUFFICES ASSUME NEW e \in Obj \X Keys PROVE o \notin heap[e[1]].refs[e[2]]
    OBVIOUS
  <2>1. e[1] \in Obj /\ e[2] \in Keys
    OBVIOUS
  <2>2. heap[e[1]].refs[e[2]] = {}
    BY <2>1, MovingObject DEF Plain, NoRefs
  <2> QED BY <2>2
<1>2. KeptBy(o) = {}
  BY <1>1 DEF KeptBy
<1>3. Cardinality(KeptBy(o)) = 0
  BY <1>2, FS_EmptySet
<1>4. ~HasParent(heap, o) /\ ~heap[o].wref
  BY MovingObject DEF Plain, HasParent
<1> QED BY <1>2, <1>3, <1>4 DEF ReleasedToCpp, Lent

\* For every number of threads, wrappers and instances: however releases,
\* reclaims, invalidations, deallocations and destructors that C++ or Python
\* begins interleave, no call follows a dangling or a null pointer, drops a
\* reference twice or runs the destructor of an instance twice.
THEOREM OwnershipMovesSafely ==
    ASSUME OnlyMoving
    PROVE  Spec => []NoFault
<1>1. MovingInv => NoFault
  BY DEF MovingInv, Moves, Control, NoFault
<1> QED BY <1>1, MovingAlways, PTL

\* For every instance: a wrapper that Python refers to is not deallocated, in
\* the middle of no call of any thread.
THEOREM ReferredStaysAlive ==
    ASSUME OnlyMoving
    PROVE  Spec => []NoPrematureFree
<1>1. MovingInv => NoPrematureFree
  <2> SUFFICES ASSUME MovingInv, NEW o \in Obj, heap[o].ext > 0
               PROVE  heap[o].st = "alive"
    BY DEF NoPrematureFree
  <2>1. heap[o].st \in {"free", "alive", "dying"} /\ Blank.ext = 0
    BY MovingObject DEF Wrapper, Blank
  <2> QED BY <2>1, MovingObject
<1> QED BY <1>1, MovingAlways, PTL

\* For every instance: whatever was released and taken back, the reference count
\* of a wrapper is what Python holds and, while the instance of a shell is
\* released, one more that its destructor drops.
THEOREM ReferencesAccounted ==
    ASSUME OnlyMoving
    PROVE  Spec => []CountAccounted
<1>1. MovingInv => CountAccounted
  <2> SUFFICES ASSUME MovingInv, Quiet, NEW o \in Obj
               PROVE  heap[o].rc = heap[o].ext + One(HasParent(heap, o)) + One(heap[o].wref)
                                   + Cardinality(KeptBy(o)) + One(ReleasedToCpp(o))
    BY DEF CountAccounted
  <2>1. One(HasParent(heap, o)) = 0 /\ One(heap[o].wref) = 0 /\ Cardinality(KeptBy(o)) = 0
    BY NoOtherHolder DEF One
  <2>2. One(ReleasedToCpp(o)) = One(Lent(heap[o])) /\ One(Lent(heap[o])) \in Int
    BY NoOtherHolder DEF One
  <2>3. heap[o].ext \in Int
    BY MovingObject DEF Wrapper
  <2>4. heap[o].rc = heap[o].ext + One(Lent(heap[o]))
    BY QuietCount
  <2> QED BY <2>1, <2>2, <2>3, <2>4
<1> QED BY <1>1, MovingAlways, PTL

\* For every instance: the reference that releaseOwnership takes goes with the
\* C++ instance.
THEOREM ExtraReferenceEndsAlways ==
    ASSUME OnlyMoving
    PROVE  Spec => []ExtraReferenceEnds
<1>1. MovingInv => ExtraReferenceEnds
  <2> SUFFICES ASSUME MovingInv, Quiet, NEW o \in Obj, heap[o].cptr = None
               PROVE  heap[o].rc = heap[o].ext + One(HasParent(heap, o)) + Cardinality(KeptBy(o))
    BY DEF ExtraReferenceEnds
  <2>1. One(HasParent(heap, o)) = 0 /\ Cardinality(KeptBy(o)) = 0
    BY NoOtherHolder DEF One
  <2>2. One(Lent(heap[o])) = 0
    BY DEF One, Lent
  <2>3. heap[o].ext \in Int
    BY MovingObject DEF Wrapper
  <2> QED BY <2>1, <2>2, <2>3, QuietCount
<1> QED BY <1>1, MovingAlways, PTL

\* For every instance: a wrapper that nobody in Python refers to is there only
\* for an instance that C++ owns and has not deleted yet.
THEOREM NothingLeaks ==
    ASSUME OnlyMoving
    PROVE  Spec => []NoLeak
<1>1. MovingInv => NoLeak
  <2> SUFFICES ASSUME MovingInv, Quiet, NEW o \in Obj, Alive(o), ~(heap[o].ext > 0)
               PROVE  ~heap[o].own /\ heap[o].cptr # None /\ cpp[heap[o].cptr] # "none"
    BY DEF NoLeak
  <2>1. heap[o].st = "alive" /\ heap[o].rc > 0 /\ heap[o].rc = heap[o].ext + One(Lent(heap[o]))
        /\ (Lent(heap[o]) => cpp[heap[o].cptr] # "none")
    BY QuietCount DEF Alive
  <2>2. heap[o].ext = 0
    BY MovingObject DEF Wrapper
  <2>3. Lent(heap[o])
    BY <2>1, <2>2 DEF One
  <2> QED BY <2>1, <2>3 DEF Lent
<1> QED BY <1>1, MovingAlways, PTL

\* For every instance, in every state: a wrapper marked valid leads to an
\* instance that has not been deleted.
THEOREM ValidLeadsToInstance ==
    ASSUME OnlyMoving
    PROVE  Spec => []ValidMeansLive
<1>1. MovingInv => ValidMeansLive
  BY MovingObject DEF ValidMeansLive
<1> QED BY <1>1, MovingAlways, PTL

\* For every instance: an instance that Python can use is the one BindingManager
\* finds at its address, so that it has one wrapper.
THEOREM ValidIsFound ==
    ASSUME OnlyMoving
    PROVE  Spec => []ValidIsRegistered
<1>1. MovingInv => ValidIsRegistered
  BY MovingObject DEF ValidIsRegistered
<1> QED BY <1>1, MovingAlways, PTL
=============================================================================
