------------------------- MODULE VirtualCallProofs -------------------------
(***************************************************************************)
(* Calls between Python and C++ keep their order, run Python code without  *)
(* a pending error and on live wrappers only, and land in the class that   *)
(* they name, for any number of threads, objects, classes, methods and     *)
(* calls in progress.                                                      *)
(***************************************************************************)
EXTENDS VirtualCall, ConversionsProofs, SequenceTheorems

-----------------------------------------------------------------------------
(* The inductive invariant.                                                *)

\* What a call in progress of each kind has.
Placed(f) ==
    /\ f.in = "python" => f.pc = "start" /\ f.temp = Nil
    /\ f.in = "binding" =>
           f.pc = "start" /\ f.event = Nil /\ f.temp = Nil /\ f.obj \in Obj /\ f.method \in Method
    /\ f.in = "cpp" => f.pc \in {"start", "locks", "locked"} /\ f.temp = Nil
    /\ f.in = "virtual" =>
           f.pc \in {"start", "base", "override"} /\ f.obj \in Shell /\ f.method \in Method
    /\ f.in = "dealloc" =>
           f.pc \in {"start", "dtor", "end"} /\ f.event = Nil /\ f.temp = Nil /\ f.obj \in Obj

\* The method that a virtual call of Python code finds is one of a Python class.
InPython(f) == Mro[f.obj][FirstDefiner(f.obj, f.method)] \in PyClass

\* The call g is one that the call f makes.
CalledBy(g, f) ==
    /\ f.in = "python" => g.in \in {"binding", "dealloc"}
    /\ f.in = "binding" => g.in = "cpp" /\ g.obj = f.obj /\ g.method = f.method
    /\ f.in = "cpp" => g.in = "virtual"
    /\ f.in = "virtual" =>
       \/ f.pc = "base" /\ g.in = "cpp"
       \/ /\ f.pc = "override" /\ g.in = "python" /\ g.event = f.event /\ g.method = f.method
          /\ g.obj # Nil => g.obj = f.obj /\ InPython(f)
    /\ f.in # "dealloc"

Stacked(s) ==
    \A i \in 1..Len(s) : Placed(s[i]) /\ (i > 1 => CalledBy(s[i - 1], s[i]))

\* The latest call leaves room for one more when it is a virtual one that has
\* not called anything.
Room(s) == s # <<>> /\ s[1].in = "virtual" /\ s[1].pc = "start"

\* The latest call is one that no error was pending for.
Clear(s) == s # <<>> /\ s[1].in \in {"python", "dealloc"}

Locked(s) == \E i \in 1..Len(s) : s[i].pc = "locked"

\* Python code runs for objects that are alive, deallocation for others, and the
\* method of the C++ class while no Python class comes first.
Held(f, w) ==
    /\ f.in = "python" /\ f.obj # Nil => w[f.obj] = "alive"
    /\ f.in = "dealloc" => w[f.obj] # "alive"
    /\ f.in = "virtual" /\ f.pc = "base" /\ w[f.obj] = "alive" => ~InPython(f)
AllHeld(s, w) == \A i \in 1..Len(s) : Held(s[i], w)

EventData == [Event -> [live : BOOLEAN, valid : BOOLEAN, kept : {"no", "current", "stale"}]]

Types ==
    /\ gil \in Thread \cup {Nil} /\ lock \in Thread \cup {Nil}
    /\ error \in [Thread -> BOOLEAN]
    /\ wrapper \in [Obj -> {"alive", "dying", "gone"}]
    /\ instance \in [Obj -> {"alive", "doomed", "gone"}]
    /\ dict \subseteq Punched
    /\ event \in EventData

\* The calls s of the thread t, with an error pending or not.
ThreadOK(t, s, err) ==
    /\ s \in Seq(FrameType) /\ Stacked(s)
    /\ Len(s) <= MaxDepth[t] /\ (Room(s) => Len(s) < MaxDepth[t])
    /\ Clear(s) => ~err

Inv ==
    /\ Types /\ stack \in [Thread -> Seq(FrameType)]
    /\ \A t \in Thread :
       /\ ThreadOK(t, stack[t], error[t])
       /\ lock = t <=> Locked(stack[t])
       /\ AllHeld(stack[t], wrapper)

-----------------------------------------------------------------------------
(* Operators.                                                              *)

\* A call that goes on is the same call for those that it made.
Same(c, f) ==
    c.in = f.in /\ c.obj = f.obj /\ c.method = f.method /\ c.event = f.event /\ c.temp = f.temp

\* A call on top of others.
LEMMA Consed ==
    ASSUME NEW f \in FrameType, NEW r \in Seq(FrameType)
    PROVE  LET n == <<f>> \o r IN
           /\ n \in Seq(FrameType) /\ Len(n) = Len(r) + 1 /\ n # <<>> /\ n[1] = f
           /\ \A i \in 2..Len(n) : n[i] = r[i - 1]
           /\ Tail(n) = r
  OBVIOUS

\* A sequence of calls is its latest one on top of the others.
LEMMA Split ==
    ASSUME NEW s \in Seq(FrameType), s # <<>>
    PROVE  s = <<s[1]>> \o Tail(s) /\ s[1] \in FrameType /\ Tail(s) \in Seq(FrameType)
  OBVIOUS

\* A call f of the call s[1], which goes on as c.
LEMMA Pushed ==
    ASSUME NEW s \in Seq(FrameType), s # <<>>, NEW f \in FrameType, NEW c \in FrameType
    PROVE  LET n == <<f>> \o <<c>> \o Tail(s) IN
           /\ n \in Seq(FrameType) /\ Len(n) = Len(s) + 1 /\ n # <<>>
           /\ n[1] = f /\ n[2] = c /\ \A i \in 3..Len(n) : n[i] = s[i - 1]
  OBVIOUS

\* The call f calls g before it is left alone.
LEMMA PushedTwo ==
    ASSUME NEW s \in Seq(FrameType), s # <<>>,
           NEW f \in FrameType, NEW g \in FrameType, NEW c \in FrameType
    PROVE  LET n == <<f, g>> \o <<c>> \o Tail(s) IN
           /\ n \in Seq(FrameType) /\ Len(n) = Len(s) + 2 /\ n # <<>>
           /\ n[1] = f /\ n[2] = g /\ n[3] = c /\ \A i \in 4..Len(n) : n[i] = s[i - 2]
  OBVIOUS

LEMMA TwoPushed ==
    ASSUME NEW s \in Seq(FrameType), s # <<>>,
           NEW f \in FrameType, NEW g \in FrameType, NEW c \in FrameType
    PROVE  <<f, g>> \o <<c>> \o Tail(s) = <<f>> \o <<g>> \o Tail(<<g>> \o <<c>> \o Tail(s))
<1> DEFINE r == <<g>> \o <<c>> \o Tail(s)
           n == <<f>> \o <<g>> \o Tail(r)
           n2 == <<f, g>> \o <<c>> \o Tail(s)
<1>1. /\ r \in Seq(FrameType) /\ Len(r) = Len(s) + 1 /\ r # <<>>
      /\ r[1] = g /\ r[2] = c /\ \A i \in 3..Len(r) : r[i] = s[i - 1]
  BY Pushed
<1>2. /\ n2 \in Seq(FrameType) /\ Len(n2) = Len(s) + 2
      /\ n2[1] = f /\ n2[2] = g /\ n2[3] = c /\ \A i \in 4..Len(n2) : n2[i] = s[i - 2]
  BY PushedTwo
<1> HIDE DEF r, n2
<1>3. /\ n \in Seq(FrameType) /\ Len(n) = Len(r) + 1
      /\ n[1] = f /\ n[2] = g /\ \A i \in 3..Len(n) : n[i] = r[i - 1]
  BY <1>1, Pushed
<1> HIDE DEF n
<1>4. Len(s) \in Nat
  OBVIOUS
<1>5. Len(n2) = Len(n)
  BY <1>1, <1>2, <1>3, <1>4
<1>6. ASSUME NEW i \in 1..Len(n2)
      PROVE  n2[i] = n[i]
  <2>1. CASE i = 3
    BY <1>1, <1>2, <1>3, <1>4, <2>1
  <2>2. CASE i > 3
    <3>1. n2[i] = s[i - 2] /\ n[i] = r[i - 1] /\ i - 1 \in 3..Len(r)
      BY <1>1, <1>2, <1>3, <1>4, <2>2
    <3>2. r[i - 1] = s[(i - 1) - 1] /\ (i - 1) - 1 = i - 2
      BY <1>1, <3>1
    <3> QED BY <3>1, <3>2
  <2> QED BY <1>2, <1>3, <1>4, <2>1, <2>2
<1>7. n2 = n
  BY <1>2, <1>3, <1>5, <1>6, SeqEqual
<1> QED BY <1>7 DEF r, n, n2

\* The latest call goes on as c.
LEMMA Gone ==
    ASSUME NEW s \in Seq(FrameType), s # <<>>, NEW c \in FrameType
    PROVE  LET n == <<c>> \o Tail(s) IN
           /\ n \in Seq(FrameType) /\ Len(n) = Len(s) /\ n # <<>>
           /\ n[1] = c /\ \A i \in 2..Len(n) : n[i] = s[i]
  OBVIOUS

\* The latest call ends.
LEMMA Popped ==
    ASSUME NEW s \in Seq(FrameType), s # <<>>
    PROVE  LET n == Tail(s) IN
           /\ n \in Seq(FrameType) /\ Len(n) = Len(s) - 1 /\ (n # <<>> <=> Len(s) > 1)
           /\ \A i \in 1..Len(n) : n[i] = s[i + 1]
<1> DEFINE n == Tail(s)
<1>1. n \in Seq(FrameType) /\ Len(n) = Len(s) - 1 /\ Len(s) \in Nat \ {0}
  OBVIOUS
<1>2. \A i \in 1..Len(n) : n[i] = s[i + 1]
  OBVIOUS
<1>3. n # <<>> <=> Len(n) > 0
  <2> HIDE DEF n
  <2> QED BY <1>1
<1> QED BY <1>1, <1>2, <1>3

\* The latest call ends and the one below goes on as c.
LEMMA Returned ==
    ASSUME NEW s \in Seq(FrameType), s # <<>>, Tail(s) # <<>>, NEW c \in FrameType
    PROVE  LET n == <<c>> \o Tail(Tail(s)) IN
           /\ n \in Seq(FrameType) /\ Len(n) = Len(s) - 1 /\ n # <<>> /\ Len(s) > 1
           /\ n[1] = c /\ \A i \in 2..Len(n) : n[i] = s[i + 1]
  OBVIOUS

LEMMA Tops ==
    ASSUME NEW t \in Thread, stack[t] \in Seq(FrameType), stack[t] # <<>>
    PROVE  /\ Top(t) = stack[t][1] /\ Top(t) \in FrameType /\ Len(stack[t]) \in Nat \ {0}
           /\ Below(t) \in Seq(FrameType) /\ Len(Below(t)) = Len(stack[t]) - 1
           /\ Below(t) # <<>> <=> Len(stack[t]) > 1
           /\ Len(stack[t]) > 1 => Head(Below(t)) = stack[t][2] /\ stack[t][2] \in FrameType
<1> DEFINE s == stack[t]
<1>1. Top(t) = s[1] /\ s[1] \in FrameType /\ Len(s) \in Nat \ {0}
  BY DEF Top
<1>2. /\ Below(t) \in Seq(FrameType) /\ Len(Below(t)) = Len(s) - 1 /\ (Below(t) # <<>> <=> Len(s) > 1)
      /\ \A i \in 1..Len(Below(t)) : Below(t)[i] = s[i + 1]
  BY Popped DEF Below
<1>3. Len(s) > 1 => Head(Below(t)) = s[2] /\ s[2] \in FrameType
  <2> SUFFICES ASSUME Len(s) > 1
               PROVE  Head(Below(t)) = s[2] /\ s[2] \in FrameType
    OBVIOUS
  <2>1. Below(t)[1] = s[2]
    BY <1>1, <1>2
  <2>2. s[2] \in FrameType
    OBVIOUS
  <2> QED BY <1>2, <2>1, <2>2
<1> QED BY <1>1, <1>2, <1>3

LEMMA SameCalled ==
    ASSUME NEW c, NEW g, NEW f, Same(c, g), CalledBy(g, f)
    PROVE  CalledBy(c, f)
  BY DEF Same, CalledBy

\* The latest call of s goes on as c and calls f.
LEMMA PushedOK ==
    ASSUME NEW t \in Thread, NEW s \in Seq(FrameType), s # <<>>, Stacked(s),
           NEW f \in FrameType, NEW c \in FrameType,
           Same(c, s[1]), Placed(f), Placed(c), CalledBy(f, c),
           f.pc # "locked", c.pc = "locked" <=> s[1].pc = "locked"
    PROVE  LET n == <<f>> \o <<c>> \o Tail(s) IN
           /\ Stacked(n) /\ (Locked(n) <=> Locked(s))
           /\ \A w : AllHeld(s, w) /\ Held(f, w) /\ Held(c, w) => AllHeld(n, w)
<1> DEFINE n == <<f>> \o <<c>> \o Tail(s)
<1>1. /\ n \in Seq(FrameType) /\ Len(n) = Len(s) + 1
      /\ n[1] = f /\ n[2] = c /\ \A i \in 3..Len(n) : n[i] = s[i - 1]
  BY Pushed
<1>2. Len(s) \in Nat \ {0}
  OBVIOUS
<1> HIDE DEF n
<1>3. Stacked(n)
  <2> SUFFICES ASSUME NEW i \in 1..Len(n)
               PROVE  Placed(n[i]) /\ (i > 1 => CalledBy(n[i - 1], n[i]))
    BY DEF Stacked
  <2>1. CASE i = 1
    BY <1>1, <2>1
  <2>2. CASE i = 2
    BY <1>1, <2>2
  <2>3. CASE i = 3
    <3>1. 2 \in 1..Len(s) /\ n[3] = s[2] /\ n[2] = c
      BY <1>1, <1>2, <2>3
    <3>2. Placed(s[2]) /\ CalledBy(s[1], s[2])
      BY <3>1 DEF Stacked
    <3> QED BY <2>3, <3>1, <3>2, SameCalled
  <2>4. CASE i > 3
    <3>1. i - 1 \in 2..Len(s) /\ n[i] = s[i - 1] /\ n[i - 1] = s[(i - 1) - 1]
      BY <1>1, <1>2, <2>4
    <3>2. Placed(s[i - 1]) /\ CalledBy(s[(i - 1) - 1], s[i - 1])
      BY <3>1, <1>2 DEF Stacked
    <3> QED BY <3>1, <3>2
  <2> QED BY <1>1, <1>2, <2>1, <2>2, <2>3, <2>4
<1>4. Locked(n) <=> Locked(s)
  <2>1. ASSUME NEW i \in 1..Len(n), n[i].pc = "locked"
        PROVE  Locked(s)
    <3>1. CASE i = 2
      <4>1. s[1].pc = "locked" /\ 1 \in 1..Len(s)
        BY <1>1, <1>2, <2>1, <3>1
      <4> QED BY <4>1 DEF Locked
    <3>2. CASE i > 2
      <4>1. s[i - 1].pc = "locked" /\ i - 1 \in 1..Len(s)
        BY <1>1, <1>2, <2>1, <3>2
      <4> QED BY <4>1 DEF Locked
    <3> QED BY <1>1, <1>2, <2>1, <3>1, <3>2
  <2>2. ASSUME NEW i \in 1..Len(s), s[i].pc = "locked"
        PROVE  Locked(n)
    <3>1. i + 1 \in 1..Len(n) /\ n[i + 1].pc = "locked"
      BY <1>1, <1>2, <2>2
    <3> QED BY <3>1 DEF Locked
  <2> QED BY <2>1, <2>2 DEF Locked
<1>5. ASSUME NEW w, AllHeld(s, w), Held(f, w), Held(c, w)
      PROVE  AllHeld(n, w)
  <2> SUFFICES ASSUME NEW i \in 1..Len(n)
               PROVE  Held(n[i], w)
    BY DEF AllHeld
  <2>1. CASE i > 2
    <3>1. i - 1 \in 1..Len(s) /\ n[i] = s[i - 1]
      BY <1>1, <1>2, <2>1
    <3> QED BY <3>1, <1>5 DEF AllHeld
  <2> QED BY <1>1, <1>2, <1>5, <2>1
<1> QED BY <1>3, <1>4, <1>5 DEF n

\* The latest call of s goes on as c.
LEMMA GoneOK ==
    ASSUME NEW t \in Thread, NEW s \in Seq(FrameType), s # <<>>, Stacked(s),
           NEW c \in FrameType, Same(c, s[1]), Placed(c)
    PROVE  LET n == <<c>> \o Tail(s) IN
           /\ Stacked(n) /\ (Locked(n) <=> c.pc = "locked" \/ Locked(Tail(s)))
           /\ (Locked(s) <=> s[1].pc = "locked" \/ Locked(Tail(s)))
           /\ \A w : AllHeld(s, w) /\ Held(c, w) => AllHeld(n, w)
<1> DEFINE n == <<c>> \o Tail(s)
           b == Tail(s)
<1>1. /\ n \in Seq(FrameType) /\ Len(n) = Len(s) /\ n[1] = c
      /\ \A i \in 2..Len(n) : n[i] = s[i]
  BY Gone
<1>2. Len(s) \in Nat \ {0}
  OBVIOUS
<1>3. Len(b) = Len(s) - 1 /\ \A i \in 1..Len(b) : b[i] = s[i + 1]
  BY Popped
<1> HIDE DEF n, b
<1>4. Stacked(n)
  <2> SUFFICES ASSUME NEW i \in 1..Len(n)
               PROVE  Placed(n[i]) /\ (i > 1 => CalledBy(n[i - 1], n[i]))
    BY DEF Stacked
  <2>1. CASE i = 1
    BY <1>1, <2>1
  <2>2. CASE i = 2
    <3>1. 2 \in 1..Len(s) /\ n[2] = s[2] /\ n[1] = c
      BY <1>1, <1>2, <2>2
    <3>2. Placed(s[2]) /\ CalledBy(s[1], s[2])
      BY <3>1 DEF Stacked
    <3> QED BY <2>2, <3>1, <3>2, SameCalled
  <2>3. CASE i > 2
    <3>1. i \in 1..Len(s) /\ n[i] = s[i] /\ n[i - 1] = s[i - 1]
      BY <1>1, <1>2, <2>3
    <3>2. Placed(s[i]) /\ CalledBy(s[i - 1], s[i])
      BY <3>1, <2>3 DEF Stacked
    <3> QED BY <3>1, <3>2
  <2> QED BY <1>1, <1>2, <2>1, <2>2, <2>3
<1>5. ASSUME NEW r, NEW d, Len(r) = Len(s), r[1] = d, \A i \in 2..Len(r) : r[i] = s[i]
      PROVE  Locked(r) <=> d.pc = "locked" \/ Locked(b)
  <2>1. ASSUME NEW i \in 1..Len(r), r[i].pc = "locked", i # 1
        PROVE  Locked(b)
    <3>1. i - 1 \in 1..Len(b) /\ b[i - 1].pc = "locked"
      BY <1>2, <1>3, <1>5, <2>1
    <3> QED BY <3>1 DEF Locked
  <2>2. ASSUME NEW i \in 1..Len(b), b[i].pc = "locked"
        PROVE  Locked(r)
    <3>1. i + 1 \in 1..Len(r) /\ r[i + 1].pc = "locked"
      BY <1>2, <1>3, <1>5, <2>2
    <3> QED BY <3>1 DEF Locked
  <2>3. d.pc = "locked" => Locked(r)
    <3>1. 1 \in 1..Len(r) /\ r[1] = d
      BY <1>2, <1>5
    <3> QED BY <3>1 DEF Locked
  <2> QED BY <1>5, <2>1, <2>2, <2>3 DEF Locked
<1>6. Locked(n) <=> c.pc = "locked" \/ Locked(b)
  BY <1>1, <1>5
<1>7. Locked(s) <=> s[1].pc = "locked" \/ Locked(b)
  BY <1>1, <1>5
<1>8. ASSUME NEW w, AllHeld(s, w), Held(c, w)
      PROVE  AllHeld(n, w)
  BY <1>1, <1>2, <1>8 DEF AllHeld
<1> QED BY <1>4, <1>6, <1>7, <1>8 DEF n, b

\* The latest call of s ends.
LEMMA PoppedOK ==
    ASSUME NEW s \in Seq(FrameType), s # <<>>, Stacked(s)
    PROVE  LET n == Tail(s) IN
           /\ Stacked(n) /\ \A w : AllHeld(s, w) => AllHeld(n, w)
           /\ n # <<>> => CalledBy(s[1], n[1]) /\ Placed(n[1]) /\ n[1] = s[2]
<1> DEFINE n == Tail(s)
<1>1. /\ Len(n) = Len(s) - 1 /\ (n # <<>> <=> Len(s) > 1)
      /\ \A i \in 1..Len(n) : n[i] = s[i + 1]
  BY Popped
<1>2. Len(s) \in Nat \ {0}
  OBVIOUS
<1> HIDE DEF n
<1>3. Stacked(n)
  <2> SUFFICES ASSUME NEW i \in 1..Len(n)
               PROVE  Placed(n[i]) /\ (i > 1 => CalledBy(n[i - 1], n[i]))
    BY DEF Stacked
  <2>1. i + 1 \in 1..Len(s) /\ n[i] = s[i + 1] /\ (i > 1 => n[i - 1] = s[(i + 1) - 1])
    BY <1>1, <1>2
  <2> QED BY <2>1 DEF Stacked
<1>4. ASSUME NEW w, AllHeld(s, w)
      PROVE  AllHeld(n, w)
  BY <1>1, <1>2, <1>4 DEF AllHeld
<1>5. ASSUME n # <<>>
      PROVE  CalledBy(s[1], n[1]) /\ Placed(n[1]) /\ n[1] = s[2]
  <2>1. 2 \in 1..Len(s) /\ n[1] = s[2]
    BY <1>1, <1>2, <1>5
  <2>2. Placed(s[2]) /\ CalledBy(s[2 - 1], s[2])
    BY <2>1 DEF Stacked
  <2> QED BY <2>1, <2>2
<1> QED BY <1>3, <1>4, <1>5 DEF n

LEMMA FrameTyped ==
    ASSUME NEW in \in {"python", "binding", "cpp", "virtual", "dealloc"},
           NEW o \in Obj \cup {Nil}, NEW m \in Method \cup {Nil}
    PROVE  Frame(in, o, m) \in FrameType
<1>1. m # Nil => MaxCalls[m] \in Nat
  BY VirtualCallAssumption
<1>2. NoValue \in PyValue
  BY DEF NoValue, PyValue
<1>3. <<>> \in Seq(Int)
  OBVIOUS
<1> HIDE DEF NoValue
<1> QED BY <1>1, <1>2, <1>3 DEF Frame, FrameType

LEMMA EndedTyped ==
    ASSUME Types, NEW ev, NEW f \in FrameType,
           ev \in EventData
    PROVE  Ended(ev, f) \in EventData
  BY DEF Ended, FrameType, EventData

LEMMA CollectedTyped ==
    ASSUME NEW ev, NEW e \in Event \cup {Nil}, NEW h,
           ev \in EventData
    PROVE  Collected(ev, e, h) \in EventData
  BY DEF Collected, EventData

\* What is not taken from the thread by the other invariants of a step.
LEMMA Moved ==
    ASSUME Inv, NEW t \in Thread, NEW n, NEW p \in BOOLEAN,
           stack' = [stack EXCEPT ![t] = n], error' = [error EXCEPT ![t] = p],
           ThreadOK(t, n, p), lock' = t <=> Locked(n),
           \A u \in Thread \ {t} : (lock' = u <=> lock = u) /\ AllHeld(stack[u], wrapper'),
           AllHeld(n, wrapper'), Types'
    PROVE  Inv'
<1>1. stack' \in [Thread -> Seq(FrameType)] /\ stack'[t] = n /\ error'[t] = p
  BY DEF Inv, Types, ThreadOK
<1>2. \A u \in Thread \ {t} : stack'[u] = stack[u] /\ error'[u] = error[u]
  BY DEF Inv, Types
<1>3. \A u \in Thread :
         /\ ThreadOK(u, stack'[u], error'[u])
         /\ lock' = u <=> Locked(stack'[u])
         /\ AllHeld(stack'[u], wrapper')
  BY <1>1, <1>2 DEF Inv
<1> QED BY <1>1, <1>3 DEF Inv

LEMMA Now ==
    ASSUME Inv, NEW t \in Thread, stack[t] # <<>>
    PROVE  LET s == stack[t] IN
           /\ s \in Seq(FrameType) /\ Stacked(s) /\ Len(s) <= MaxDepth[t]
           /\ (Room(s) => Len(s) < MaxDepth[t]) /\ (Clear(s) => ~error[t])
           /\ Top(t) = s[1] /\ s[1] \in FrameType /\ Len(s) \in Nat \ {0} /\ Below(t) = Tail(s)
           /\ Placed(s[1]) /\ Held(s[1], wrapper) /\ AllHeld(s, wrapper)
           /\ lock = t <=> Locked(s)
           /\ Locked(s) <=> s[1].pc = "locked" \/ Locked(Tail(s))
           /\ Below(t) # <<>> <=> Len(s) > 1
           /\ Len(s) > 1 => /\ CalledBy(s[1], s[2]) /\ Placed(s[2]) /\ Held(s[2], wrapper)
                            /\ Head(Below(t)) = s[2] /\ s[2] \in FrameType
<1> DEFINE s == stack[t]
<1>1. ThreadOK(t, s, error[t]) /\ AllHeld(s, wrapper) /\ (lock = t <=> Locked(s))
  BY DEF Inv
<1>2. s \in Seq(FrameType) /\ Stacked(s)
  BY <1>1 DEF ThreadOK
<1>3. /\ Top(t) = s[1] /\ s[1] \in FrameType /\ Len(s) \in Nat \ {0}
      /\ Below(t) # <<>> <=> Len(s) > 1
      /\ Len(s) > 1 => Head(Below(t)) = s[2] /\ s[2] \in FrameType
  BY <1>2, Tops
<1>4. Placed(s[1]) /\ Held(s[1], wrapper)
  BY <1>1, <1>2, <1>3 DEF Stacked, AllHeld
<1>5. Len(s) > 1 => CalledBy(s[1], s[2]) /\ Placed(s[2]) /\ Held(s[2], wrapper)
  <2> SUFFICES ASSUME Len(s) > 1
               PROVE  CalledBy(s[1], s[2]) /\ Placed(s[2]) /\ Held(s[2], wrapper)
    OBVIOUS
  <2>1. 2 \in 1..Len(s) /\ 2 > 1 /\ 2 - 1 = 1
    BY <1>3
  <2>2. CalledBy(s[2 - 1], s[2]) /\ Placed(s[2]) /\ Held(s[2], wrapper)
    BY <1>1, <1>2, <2>1 DEF Stacked, AllHeld
  <2> QED BY <2>1, <2>2
<1>6. Locked(s) <=> s[1].pc = "locked" \/ Locked(Tail(s))
  <2>1. Same(s[1], s[1]) /\ s # <<>>
    BY DEF Same
  <2> HIDE DEF s
  <2> QED BY <1>2, <1>3, <1>4, <2>1, GoneOK
<1> QED BY <1>1, <1>2, <1>3, <1>4, <1>5, <1>6 DEF ThreadOK, Below

\* A call of C++ code, or of a virtual method, returns to the call below.
LEMMA ReturnedCpp ==
    ASSUME Inv, NEW t \in Thread, Running(t, "cpp") \/ Running(t, "virtual"),
           NEW items \in Seq(Int), NEW meant \in Seq(Int), NEW p \in BOOLEAN
    PROVE  \E n : /\ ReturnsToCpp(t, items, meant) = [stack EXCEPT ![t] = n]
                  /\ ThreadOK(t, n, p) /\ AllHeld(n, wrapper)
                  /\ Locked(n) <=> Locked(Below(t))
<1> DEFINE s == stack[t]
           b == Tail(s)
           c == [s[2] EXCEPT !.items = items, !.meant = meant]
<1>1. s # <<>> /\ Top(t).in \in {"cpp", "virtual"}
  BY DEF Running
<1>2. /\ s \in Seq(FrameType) /\ Stacked(s) /\ Len(s) <= MaxDepth[t] /\ AllHeld(s, wrapper)
      /\ Top(t) = s[1] /\ Len(s) \in Nat \ {0} /\ Below(t) = b
      /\ Below(t) # <<>> <=> Len(s) > 1
      /\ Len(s) > 1 => /\ CalledBy(s[1], s[2]) /\ Placed(s[2]) /\ Held(s[2], wrapper)
                       /\ Head(Below(t)) = s[2] /\ s[2] \in FrameType
  BY <1>1, Now
<1>3. MaxDepth[t] \in Nat
  BY VirtualCallAssumption
<1>4. CASE Below(t) = <<>>
  <2>1. ReturnsToCpp(t, items, meant) = [stack EXCEPT ![t] = <<>>]
    BY <1>4 DEF ReturnsToCpp
  <2>2. ThreadOK(t, <<>>, p) /\ AllHeld(<<>>, wrapper)
    BY <1>3 DEF ThreadOK, Stacked, Room, Clear, AllHeld
  <2> QED BY <1>4, <2>1, <2>2
<1>5. CASE Below(t) # <<>>
  <2>1. ReturnsToCpp(t, items, meant) = [stack EXCEPT ![t] = <<c>> \o Tail(b)]
    BY <1>2, <1>5 DEF ReturnsToCpp
  <2>2. Len(s) > 1 /\ CalledBy(s[1], s[2]) /\ Placed(s[2]) /\ Held(s[2], wrapper) /\ s[2] \in FrameType
    BY <1>2, <1>5
  <2>3. c \in FrameType /\ c.in = s[2].in /\ c.obj = s[2].obj /\ c.method = s[2].method
        /\ c.pc = s[2].pc /\ c.event = s[2].event /\ c.temp = s[2].temp
    BY <2>2 DEF FrameType
  <2> HIDE DEF c
  <2>4. b \in Seq(FrameType) /\ b # <<>> /\ Stacked(b) /\ AllHeld(b, wrapper) /\ b[1] = s[2]
        /\ Len(b) = Len(s) - 1
    BY <1>1, <1>2, <1>5, Popped, PoppedOK
  <2> HIDE DEF b
  <2>5. Same(c, b[1]) /\ Placed(c) /\ Held(c, wrapper)
    BY <2>2, <2>3, <2>4 DEF Same, Placed, Held, InPython
  <2> DEFINE n == <<c>> \o Tail(b)
  <2>6. n \in Seq(FrameType) /\ Len(n) = Len(b) /\ n[1] = c
    BY <2>3, <2>4, Gone
  <2>7. Stacked(n) /\ (Locked(n) <=> Locked(b)) /\ AllHeld(n, wrapper)
    BY <2>3, <2>4, <2>5, GoneOK
  <2>8. ~Room(n) /\ ~Clear(n)
    <3>1. c.in \in {"binding", "cpp"} \/ (c.in = "virtual" /\ c.pc = "base")
      BY <1>1, <1>2, <2>2, <2>3 DEF CalledBy, FrameType
    <3> HIDE DEF n
    <3> QED BY <2>6, <3>1 DEF Room, Clear
  <2> HIDE DEF n
  <2>9. ThreadOK(t, n, p)
    BY <1>2, <1>3, <2>4, <2>6, <2>7, <2>8 DEF ThreadOK
  <2> QED BY <1>2, <2>1, <2>7, <2>9 DEF n
<1> QED BY <1>4, <1>5

LEMMA ToCppTyped ==
    ASSUME NEW m \in Method, NEW value \in PyValue, NEW c \in ToCpp(Param[m], value)
    PROVE  c.items \in Seq(Int) /\ c.error \in BOOLEAN /\ ValuesOf(value) \in Seq(Int)
<1>1. Param[m] \in CppType
  BY VirtualCallAssumption
<1>2. ValuesOf(value) \in Seq(Int)
  <2>1. value.items \in Seq(PyItem)
    BY DEF PyValue
  <2>2. ASSUME NEW i \in DOMAIN value.items
        PROVE  value.items[i].val \in Int
    <3>1. value.items[i] \in PyItem
      BY <2>1
    <3> QED BY <3>1 DEF PyItem
  <2> QED BY <2>1, <2>2 DEF ValuesOf
<1> QED BY <1>1, <1>2, ConversionsExact

LEMMA ErrorTyped ==
    ASSUME Inv, NEW t \in Thread, NEW pending \in BOOLEAN
    PROVE  \E p \in BOOLEAN : /\ ErrorAfter(t, pending) = [error EXCEPT ![t] = p]
                              /\ p => pending
                              /\ t \in Python => p = pending
  BY DEF ErrorAfter

-----------------------------------------------------------------------------
(* Steps that end a call of C++ code.                                      *)

\* What else such a step does is to the lock, the GIL and the events.
LEMMA CppEnds ==
    ASSUME Inv, NEW t \in Thread, Running(t, "cpp") \/ Running(t, "virtual"),
           NEW items \in Seq(Int), NEW meant \in Seq(Int), NEW p \in BOOLEAN,
           stack' = ReturnsToCpp(t, items, meant), error' = [error EXCEPT ![t] = p],
           lock' = IF Top(t).pc = "locked" /\ ~Locked(Below(t)) THEN Nil ELSE lock,
           gil' \in Thread \cup {Nil}, event' \in EventData, UNCHANGED objectVars
    PROVE  Inv'
<1>1. PICK n : /\ stack' = [stack EXCEPT ![t] = n]
               /\ ThreadOK(t, n, p) /\ AllHeld(n, wrapper)
               /\ Locked(n) <=> Locked(Below(t))
  BY ReturnedCpp, SMTT(30)
<1>2. stack[t] # <<>>
  BY DEF Running
<1>3. /\ lock = t <=> Locked(stack[t])
      /\ Locked(stack[t]) <=> Top(t).pc = "locked" \/ Locked(Below(t))
  BY <1>2, Now
<1>4. lock' = t <=> Locked(n)
  BY <1>1, <1>3, VirtualCallAssumption
<1>5. \A u \in Thread \ {t} : (lock' = u <=> lock = u) /\ AllHeld(stack[u], wrapper')
  BY <1>3, VirtualCallAssumption DEF Inv, objectVars
<1>6. Types'
  BY DEF Inv, Types, objectVars
<1>7. AllHeld(n, wrapper')
  BY <1>1 DEF objectVars
<1> QED BY <1>1, <1>4, <1>5, <1>6, <1>7, Moved

\* The error of the thread is left as it is.
LEMMA ErrorKept ==
    ASSUME Inv, NEW t \in Thread, UNCHANGED error
    PROVE  error[t] \in BOOLEAN /\ error' = [error EXCEPT ![t] = error[t]]
  BY DEF Inv, Types

LEMMA LocksBelowIsLocked ==
    ASSUME Inv, NEW t \in Thread, stack[t] # <<>>
    PROVE  LocksBelow(t) <=> Locked(Below(t))
<1>1. Below(t) \in Seq(FrameType)
  BY Popped DEF Below, Inv, ThreadOK
<1> DEFINE b == Below(t)
<1>2. DOMAIN b = 1..Len(b)
  BY <1>1
<1> QED BY <1>2 DEF LocksBelow, Locked

LEMMA CppReturnOK ==
    ASSUME Inv, NEW t \in Thread, CppReturn(t)
    PROVE  Inv'
<1>1. Running(t, "cpp") /\ stack[t] # <<>>
  BY DEF CppReturn, Running
<1>2. Top(t) \in FrameType
  BY <1>1, Now
<1>3. Top(t).items \in Seq(Int) /\ Top(t).meant \in Seq(Int)
  BY <1>2 DEF FrameType
<1>4. lock' = IF Top(t).pc = "locked" /\ ~Locked(Below(t)) THEN Nil ELSE lock
  BY <1>1, LocksBelowIsLocked DEF CppReturn
<1>5. error[t] \in BOOLEAN /\ error' = [error EXCEPT ![t] = error[t]]
  BY ErrorKept DEF CppReturn
<1>6. gil' \in Thread \cup {Nil} /\ event' \in EventData /\ UNCHANGED objectVars
  BY DEF CppReturn, Inv, Types
<1>7. stack' = ReturnsToCpp(t, Top(t).items, Top(t).meant)
  BY DEF CppReturn
<1> QED BY <1>1, <1>3, <1>4, <1>5, <1>6, <1>7, CppEnds

\* The facts that the steps of virtual methods share.
LEMMA VirtualNow ==
    ASSUME Inv, NEW t \in Thread, Running(t, "virtual")
    PROVE  /\ stack[t] # <<>> /\ Top(t) = stack[t][1] /\ Top(t) \in FrameType
           /\ Top(t).pc # "locked" /\ Top(t).obj \in Shell /\ Top(t).method \in Method
           /\ Top(t).event \in Event \cup {Nil} /\ Top(t).temp \in Event \cup {Nil}
           /\ Top(t).items \in Seq(Int) /\ Top(t).meant \in Seq(Int) /\ Top(t).out \in PyValue
           /\ Top(t).had \in BOOLEAN
<1>1. stack[t] # <<>> /\ Top(t).in = "virtual"
  BY DEF Running
<1>2. Top(t) = stack[t][1] /\ Top(t) \in FrameType /\ Placed(Top(t))
  BY <1>1, Now
<1> QED BY <1>1, <1>2 DEF Placed, FrameType

LEMMA VirtualSkippedOK ==
    ASSUME Inv, NEW t \in Thread, VirtualSkipped(t)
    PROVE  Inv'
<1>1. Running(t, "virtual")
  BY DEF VirtualSkipped
<1>2. Top(t) \in FrameType /\ Top(t).pc # "locked"
  BY <1>1, VirtualNow
<1>3. error[t] \in BOOLEAN /\ error' = [error EXCEPT ![t] = error[t]]
  BY ErrorKept DEF VirtualSkipped
<1>4. event' \in EventData
  BY <1>2, EndedTyped DEF VirtualSkipped, Inv, Types
<1>5. gil' \in Thread \cup {Nil} /\ UNCHANGED objectVars /\ stack' = ReturnsToCpp(t, Default, Default)
  BY DEF VirtualSkipped, GivesBack
<1>6. lock' = IF Top(t).pc = "locked" /\ ~Locked(Below(t)) THEN Nil ELSE lock
  BY <1>2 DEF VirtualSkipped
<1>7. Default \in Seq(Int)
  BY DEF Default
<1> QED BY <1>1, <1>3, <1>4, <1>5, <1>6, <1>7, CppEnds

LEMMA VirtualPureOK ==
    ASSUME Inv, NEW t \in Thread, VirtualPure(t)
    PROVE  Inv'
<1>1. Running(t, "virtual")
  BY DEF VirtualPure
<1>2. Top(t) \in FrameType /\ Top(t).pc # "locked"
  BY <1>1, VirtualNow
<1>3. PICK p \in BOOLEAN : error' = [error EXCEPT ![t] = p]
  <2>1. error' = ErrorAfter(t, TRUE)
    BY DEF VirtualPure
  <2> QED BY <2>1, ErrorTyped
<1>4. event' \in EventData
  BY <1>2, EndedTyped DEF VirtualPure, Inv, Types
<1>5. gil' \in Thread \cup {Nil} /\ UNCHANGED objectVars /\ stack' = ReturnsToCpp(t, Default, Default)
  BY DEF VirtualPure, GivesBack
<1>6. lock' = IF Top(t).pc = "locked" /\ ~Locked(Below(t)) THEN Nil ELSE lock
  BY <1>2 DEF VirtualPure
<1>7. Default \in Seq(Int)
  BY DEF Default
<1> QED BY <1>1, <1>3, <1>4, <1>5, <1>6, <1>7, CppEnds

LEMMA VirtualBaseReturnOK ==
    ASSUME Inv, NEW t \in Thread, VirtualBaseReturn(t)
    PROVE  Inv'
<1>1. Running(t, "virtual")
  BY DEF VirtualBaseReturn
<1>2. /\ Top(t) \in FrameType /\ Top(t).pc # "locked"
      /\ Top(t).items \in Seq(Int) /\ Top(t).meant \in Seq(Int)
  BY <1>1, VirtualNow
<1>3. error[t] \in BOOLEAN /\ error' = [error EXCEPT ![t] = error[t]]
  BY ErrorKept DEF VirtualBaseReturn
<1>4. event' \in EventData
  BY <1>2, EndedTyped DEF VirtualBaseReturn, Inv, Types
<1>5. /\ gil' \in Thread \cup {Nil} /\ UNCHANGED objectVars
      /\ stack' = ReturnsToCpp(t, Top(t).items, Top(t).meant)
  BY DEF VirtualBaseReturn, Inv, Types
<1>6. lock' = IF Top(t).pc = "locked" /\ ~Locked(Below(t)) THEN Nil ELSE lock
  BY <1>2 DEF VirtualBaseReturn
<1> QED BY <1>1, <1>2, <1>3, <1>4, <1>5, <1>6, CppEnds

LEMMA OverrideFailedOK ==
    ASSUME Inv, NEW t \in Thread, OverrideFailed(t)
    PROVE  Inv'
<1>1. Running(t, "virtual")
  BY DEF OverrideFailed
<1>2. Top(t) \in FrameType /\ Top(t).pc # "locked" /\ Top(t).event \in Event \cup {Nil}
  BY <1>1, VirtualNow
<1>3. PICK p \in BOOLEAN : error' = [error EXCEPT ![t] = p]
  <2>1. error' = ErrorAfter(t, FALSE)
    BY DEF OverrideFailed
  <2> QED BY <2>1, ErrorTyped
<1>4. event' \in EventData
  <2>1. event \in EventData
    BY DEF Inv, Types
  <2>2. Collected(event, Top(t).event, Holders(Top(t).event) \ {<<t, 1>>}) \in EventData
    BY <1>2, <2>1, CollectedTyped
  <2> QED BY <1>2, <2>2, EndedTyped DEF OverrideFailed, Inv
<1>5. gil' \in Thread \cup {Nil} /\ UNCHANGED objectVars /\ stack' = ReturnsToCpp(t, Default, Default)
  BY DEF OverrideFailed, GivesBack
<1>6. lock' = IF Top(t).pc = "locked" /\ ~Locked(Below(t)) THEN Nil ELSE lock
  BY <1>2 DEF OverrideFailed
<1>7. Default \in Seq(Int)
  BY DEF Default
<1> QED BY <1>1, <1>3, <1>4, <1>5, <1>6, <1>7, CppEnds

LEMMA InvalidatedTyped ==
    ASSUME event \in EventData, NEW e \in Event \cup {Nil}
    PROVE  Invalidated(e) \in EventData
  BY DEF Invalidated, EventData

LEMMA OverrideReturnedOK ==
    ASSUME Inv, NEW t \in Thread, OverrideReturned(t)
    PROVE  Inv'
<1>1. Running(t, "virtual")
  BY DEF OverrideReturned
<1>2. /\ Top(t) \in FrameType /\ Top(t).pc # "locked" /\ Top(t).event \in Event \cup {Nil}
      /\ Top(t).out \in PyValue /\ Top(t).method \in Method
  BY <1>1, VirtualNow
<1> DEFINE after == IF Resets(Top(t)) THEN Invalidated(Top(t).event) ELSE event
<1>3. PICK c \in ToCpp(Param[Top(t).method], Top(t).out) :
          /\ stack' = ReturnsToCpp(t, c.items, ValuesOf(Top(t).out))
          /\ error' = ErrorAfter(t, c.error)
  BY DEF OverrideReturned
<1>4. /\ event' = Ended(Collected(after, Top(t).event, Holders(Top(t).event) \ {<<t, 1>>}), Top(t))
      /\ gil' \in Thread \cup {Nil} /\ UNCHANGED <<lock, objectVars>>
  BY DEF OverrideReturned, GivesBack
<1>5. c.items \in Seq(Int) /\ c.error \in BOOLEAN /\ ValuesOf(Top(t).out) \in Seq(Int)
  BY <1>2, ToCppTyped
<1>6. PICK p \in BOOLEAN : error' = [error EXCEPT ![t] = p]
  BY <1>3, <1>5, ErrorTyped
<1>7. event' \in EventData
  <2>1. after \in EventData
    BY <1>2, InvalidatedTyped DEF Inv, Types
  <2> HIDE DEF after
  <2>2. Collected(after, Top(t).event, Holders(Top(t).event) \ {<<t, 1>>}) \in EventData
    BY <1>2, <2>1, CollectedTyped
  <2> QED BY <1>2, <1>4, <2>2, EndedTyped DEF Inv
<1>8. lock' = IF Top(t).pc = "locked" /\ ~Locked(Below(t)) THEN Nil ELSE lock
  BY <1>2, <1>4
<1> QED BY <1>1, <1>3, <1>4, <1>5, <1>6, <1>7, <1>8, CppEnds

-----------------------------------------------------------------------------
(* Steps that make a call, or go on with the one in progress.              *)

LEMMA Pushes ==
    ASSUME Inv, NEW t \in Thread, stack[t] # <<>>,
           NEW f \in FrameType, NEW c \in FrameType, NEW p \in BOOLEAN,
           stack' = Calls(t, <<f>>, c), error' = [error EXCEPT ![t] = p], UNCHANGED lock,
           Same(c, Top(t)), Placed(f), Placed(c), CalledBy(f, c),
           f.pc # "locked", c.pc = "locked" <=> Top(t).pc = "locked",
           Len(stack[t]) < MaxDepth[t],
           f.in = "virtual" /\ f.pc = "start" => Len(stack[t]) + 1 < MaxDepth[t],
           f.in \in {"python", "dealloc"} => ~p,
           Held(f, wrapper'), Held(c, wrapper'), \A u \in Thread : AllHeld(stack[u], wrapper'), Types'
    PROVE  Inv'
<1> DEFINE s == stack[t]
           n == <<f>> \o <<c>> \o Tail(s)
<1>1. /\ s \in Seq(FrameType) /\ Stacked(s) /\ s # <<>>
      /\ Top(t) = s[1] /\ Len(s) \in Nat \ {0} /\ Below(t) = Tail(s) /\ (lock = t <=> Locked(s))
  BY Now
<1>2. stack' = [stack EXCEPT ![t] = n]
  BY <1>1 DEF Calls
<1>3. MaxDepth[t] \in Nat
  BY VirtualCallAssumption
<1> HIDE DEF s
<1>4. n \in Seq(FrameType) /\ Len(n) = Len(s) + 1 /\ n[1] = f
  BY <1>1, Pushed
<1>5. Stacked(n) /\ (Locked(n) <=> Locked(s)) /\ AllHeld(n, wrapper')
  <2>1. AllHeld(s, wrapper')
    BY DEF s
  <2> QED BY <1>1, <2>1, PushedOK
<1> HIDE DEF n
<1>6. ThreadOK(t, n, p)
  BY <1>1, <1>3, <1>4, <1>5 DEF ThreadOK, Room, Clear, s
<1>7. \A u \in Thread \ {t} : (lock' = u <=> lock = u) /\ AllHeld(stack[u], wrapper')
  OBVIOUS
<1>8. lock' = t <=> Locked(n)
  BY <1>1, <1>5
<1> QED BY <1>2, <1>5, <1>6, <1>7, <1>8, Moved

LEMMA PushesTwo ==
    ASSUME Inv, NEW t \in Thread, stack[t] # <<>>,
           NEW f \in FrameType, NEW g \in FrameType, NEW c \in FrameType, NEW p \in BOOLEAN,
           stack' = Calls(t, <<f, g>>, c), error' = [error EXCEPT ![t] = p], UNCHANGED <<lock, wrapper>>,
           Same(c, Top(t)), Placed(f), Placed(g), Placed(c), CalledBy(f, g), CalledBy(g, c),
           f.pc # "locked", g.pc # "locked", c.pc = "locked" <=> Top(t).pc = "locked",
           Len(stack[t]) + 2 <= MaxDepth[t], f.in \notin {"python", "dealloc", "virtual"},
           Held(f, wrapper), Held(g, wrapper), Held(c, wrapper), Types'
    PROVE  Inv'
<1> DEFINE s == stack[t]
           r == <<g>> \o <<c>> \o Tail(s)
           n == <<f>> \o <<g>> \o Tail(r)
           n2 == <<f, g>> \o <<c>> \o Tail(s)
<1>1. /\ s \in Seq(FrameType) /\ Stacked(s) /\ s # <<>> /\ AllHeld(s, wrapper)
      /\ Top(t) = s[1] /\ Len(s) \in Nat \ {0} /\ Below(t) = Tail(s) /\ (lock = t <=> Locked(s))
  BY Now
<1>2. stack' = [stack EXCEPT ![t] = n2]
  BY <1>1 DEF Calls
<1>3. MaxDepth[t] \in Nat
  BY VirtualCallAssumption
<1>4. n2 = n
  <2> HIDE DEF s
  <2> QED BY <1>1, TwoPushed, ZenonT(60)
<1> HIDE DEF s, n2
<1>5. /\ r \in Seq(FrameType) /\ Len(r) = Len(s) + 1 /\ r[1] = g /\ r # <<>>
  BY <1>1, Pushed
<1>6. Stacked(r) /\ (Locked(r) <=> Locked(s)) /\ AllHeld(r, wrapper)
  BY <1>1, PushedOK
<1> HIDE DEF r
<1>7. n \in Seq(FrameType) /\ Len(n) = Len(s) + 2 /\ n[1] = f
  BY <1>5, <1>1, Pushed
<1>8. Stacked(n) /\ (Locked(n) <=> Locked(r)) /\ AllHeld(n, wrapper)
  <2>1. Same(g, r[1])
    BY <1>5 DEF Same
  <2> QED BY <1>5, <1>6, <2>1, PushedOK
<1> HIDE DEF n
<1>9. ThreadOK(t, n, p)
  BY <1>1, <1>3, <1>7, <1>8 DEF ThreadOK, Room, Clear, s
<1>10. \A u \in Thread \ {t} : (lock' = u <=> lock = u) /\ AllHeld(stack[u], wrapper')
  BY DEF Inv
<1>11. lock' = t <=> Locked(n)
  BY <1>1, <1>6, <1>8
<1>12. AllHeld(n, wrapper')
  BY <1>8
<1> QED BY <1>2, <1>4, <1>9, <1>10, <1>11, <1>12, Moved

\* The call in progress goes on as c.
LEMMA Goes ==
    ASSUME Inv, NEW t \in Thread, stack[t] # <<>>, NEW c \in FrameType,
           stack' = Replaced(t, c), UNCHANGED error,
           lock' = IF c.pc = "locked" THEN t ELSE lock,
           Same(c, Top(t)), Placed(c), Top(t).in # "virtual", Top(t).pc # "locked",
           c.pc = "locked" => lock \in {t, Nil},
           Held(c, wrapper'), \A u \in Thread : AllHeld(stack[u], wrapper'), Types'
    PROVE  Inv'
<1> DEFINE s == stack[t]
           n == <<c>> \o Tail(s)
<1>1. /\ s \in Seq(FrameType) /\ Stacked(s) /\ s # <<>>
      /\ Top(t) = s[1] /\ Len(s) \in Nat \ {0} /\ Below(t) = Tail(s) /\ (lock = t <=> Locked(s))
      /\ Len(s) <= MaxDepth[t] /\ (Clear(s) => ~error[t])
      /\ Locked(s) <=> s[1].pc = "locked" \/ Locked(Tail(s))
  BY Now
<1>2. stack' = [stack EXCEPT ![t] = n]
  BY <1>1 DEF Replaced
<1> HIDE DEF s
<1>3. n \in Seq(FrameType) /\ Len(n) = Len(s) /\ n[1] = c
  BY <1>1, Gone
<1>4. Stacked(n) /\ (Locked(n) <=> c.pc = "locked" \/ Locked(Tail(s))) /\ AllHeld(n, wrapper')
  <2>1. AllHeld(s, wrapper')
    BY DEF s
  <2> QED BY <1>1, <2>1, GoneOK
<1> HIDE DEF n
<1>5. ThreadOK(t, n, error[t])
  BY <1>1, <1>3, <1>4 DEF ThreadOK, Room, Clear, Same
<1>6. lock' = t <=> Locked(n)
  BY <1>1, <1>4
<1>7. \A u \in Thread \ {t} : (lock' = u <=> lock = u) /\ AllHeld(stack[u], wrapper')
  BY VirtualCallAssumption
<1>8. error[t] \in BOOLEAN /\ error' = [error EXCEPT ![t] = error[t]]
  BY ErrorKept
<1> QED BY <1>2, <1>4, <1>5, <1>6, <1>7, <1>8, Moved

\* Steps that leave the calls alone.
LEMMA StackKept ==
    ASSUME Inv, UNCHANGED <<stack, error, lock, wrapper>>, Types'
    PROVE  Inv'
  BY DEF Inv

LEMMA AssignOK ==
    ASSUME Inv, NEW t \in Thread, Assign(t)
    PROVE  Inv'
<1>1. dict' \subseteq Punched
  BY DEF Assign, Inv, Types
<1>2. UNCHANGED <<stack, error, lock, wrapper, instance, event>> /\ gil' \in Thread \cup {Nil}
  BY DEF Assign
<1>3. Types'
  BY <1>1, <1>2 DEF Inv, Types
<1> QED BY <1>2, <1>3, StackKept

LEMMA KeepOK ==
    ASSUME Inv, NEW t \in Thread, Keep(t)
    PROVE  Inv'
<1>1. event' \in EventData
  <2>1. stack[t] # <<>>
    BY DEF Keep, Running
  <2>2. Top(t).event \in Event \cup {Nil}
    BY <2>1, Now DEF FrameType
  <2>3. event' = [event EXCEPT ![Top(t).event].kept = "current"] /\ event \in EventData
    BY DEF Keep, Inv, Types
  <2> QED BY <2>2, <2>3 DEF EventData
<1>2. UNCHANGED <<stack, error, lock, wrapper, instance, dict>> /\ gil' \in Thread \cup {Nil}
  BY DEF Keep, objectVars
<1>3. Types'
  BY <1>1, <1>2 DEF Inv, Types
<1> QED BY <1>2, <1>3, StackKept

LEMMA ForgetOK ==
    ASSUME Inv, NEW t \in Thread, Forget(t)
    PROVE  Inv'
<1>1. event' \in EventData
  <2>1. PICK e \in Event : event' = Collected([event EXCEPT ![e].kept = "no"], e, Holders(e))
    BY DEF Forget
  <2>2. [event EXCEPT ![e].kept = "no"] \in EventData
    BY DEF Inv, Types, EventData
  <2> QED BY <2>1, <2>2, CollectedTyped
<1>2. UNCHANGED <<stack, error, lock, wrapper, instance, dict>> /\ gil' \in Thread \cup {Nil}
  BY DEF Forget, objectVars
<1>3. Types'
  BY <1>1, <1>2 DEF Inv, Types
<1> QED BY <1>2, <1>3, StackKept

\* A function of the binding, or a deallocation, returns to Python code.
LEMMA Pops ==
    ASSUME Inv, NEW t \in Thread, stack[t] # <<>>, Top(t).in \in {"binding", "dealloc"},
           stack' = [stack EXCEPT ![t] = Below(t)], error' = [error EXCEPT ![t] = FALSE],
           UNCHANGED <<lock, wrapper>>, Types'
    PROVE  Inv'
<1> DEFINE s == stack[t]
           n == Tail(s)
<1>1. /\ s \in Seq(FrameType) /\ Stacked(s) /\ s # <<>> /\ AllHeld(s, wrapper)
      /\ Top(t) = s[1] /\ s[1] \in FrameType /\ Len(s) \in Nat \ {0} /\ Below(t) = n
      /\ (lock = t <=> Locked(s)) /\ Len(s) <= MaxDepth[t] /\ Placed(s[1])
      /\ Locked(s) <=> s[1].pc = "locked" \/ Locked(n)
  BY Now
<1>2. MaxDepth[t] \in Nat
  BY VirtualCallAssumption
<1> HIDE DEF s
<1>3. n \in Seq(FrameType) /\ Len(n) = Len(s) - 1
  BY <1>1, Popped
<1>4. /\ Stacked(n) /\ AllHeld(n, wrapper)
      /\ n # <<>> => CalledBy(s[1], n[1])
  BY <1>1, PoppedOK
<1> HIDE DEF n
<1>5. ~Room(n)
  BY <1>1, <1>4 DEF Room, CalledBy
<1>6. ThreadOK(t, n, FALSE)
  BY <1>1, <1>2, <1>3, <1>4, <1>5 DEF ThreadOK
<1>7. lock' = t <=> Locked(n)
  BY <1>1 DEF Placed
<1>8. \A u \in Thread \ {t} : (lock' = u <=> lock = u) /\ AllHeld(stack[u], wrapper')
  BY DEF Inv
<1>9. AllHeld(n, wrapper')
  BY <1>4
<1> QED BY <1>1, <1>6, <1>7, <1>8, <1>9, Moved

LEMMA BindingReturnOK ==
    ASSUME Inv, NEW t \in Thread, BindingReturn(t)
    PROVE  Inv'
<1>1. stack[t] # <<>> /\ Top(t).in = "binding"
  BY DEF BindingReturn, Running
<1>2. /\ stack' = [stack EXCEPT ![t] = Below(t)] /\ error' = [error EXCEPT ![t] = FALSE]
      /\ UNCHANGED <<lock, wrapper>>
  BY DEF BindingReturn, ReturnsToPython, objectVars
<1>3. Types'
  BY DEF BindingReturn, Inv, Types, objectVars
<1> QED BY <1>1, <1>2, <1>3, Pops

LEMMA DeallocEndOK ==
    ASSUME Inv, NEW t \in Thread, DeallocEnd(t)
    PROVE  Inv'
<1>1. stack[t] # <<>> /\ Top(t).in = "dealloc"
  BY DEF DeallocEnd, Running
<1>2. error[t] = FALSE /\ error' = [error EXCEPT ![t] = error[t]]
  <2>1. ~error[t]
    BY <1>1, Now DEF Clear
  <2> QED BY <2>1, ErrorKept DEF DeallocEnd
<1>3. stack' = [stack EXCEPT ![t] = Below(t)] /\ UNCHANGED <<lock, wrapper>>
  BY DEF DeallocEnd
<1>4. Types'
  BY DEF DeallocEnd, Inv, Types
<1> QED BY <1>1, <1>2, <1>3, <1>4, Pops

LEMMA PythonReturnOK ==
    ASSUME Inv, NEW t \in Thread, PythonReturn(t)
    PROVE  Inv'
<1> DEFINE s == stack[t]
           b == Tail(s)
<1>1. s # <<>> /\ Top(t).in = "python" /\ Below(t) # <<>>
  BY DEF PythonReturn, Running
<1>2. /\ s \in Seq(FrameType) /\ Stacked(s) /\ AllHeld(s, wrapper) /\ Len(s) <= MaxDepth[t]
      /\ Top(t) = s[1] /\ Len(s) \in Nat \ {0} /\ Below(t) = b
      /\ (lock = t <=> Locked(s)) /\ Placed(s[1])
      /\ Locked(s) <=> s[1].pc = "locked" \/ Locked(b)
      /\ Len(s) > 1 => /\ CalledBy(s[1], s[2]) /\ Placed(s[2]) /\ Held(s[2], wrapper)
                       /\ Head(Below(t)) = s[2] /\ s[2] \in FrameType
      /\ Len(s) > 1
  BY <1>1, Now
<1>3. PICK value \in PyValue, p \in BOOLEAN :
          stack' = ReturnsToVirtual(t, value) /\ error' = [error EXCEPT ![t] = p]
  <2>1. NoValue \in PyValue /\ RaisedValue \in PyValue /\ Value \subseteq PyValue
    BY VirtualCallAssumption DEF NoValue, RaisedValue, PyValue
  <2>2. CASE \E value \in Value \cup {NoValue} : stack' = ReturnsToVirtual(t, value) /\ UNCHANGED error
    BY <2>1, <2>2, ErrorKept
  <2>3. CASE stack' = ReturnsToVirtual(t, RaisedValue) /\ error' = [error EXCEPT ![t] = TRUE]
    BY <2>1, <2>3
  <2> QED BY <2>2, <2>3 DEF PythonReturn
<1> DEFINE c == [s[2] EXCEPT !.out = value]
           n == <<c>> \o Tail(b)
<1>4. stack' = [stack EXCEPT ![t] = n]
  BY <1>2, <1>3 DEF ReturnsToVirtual
<1>5. /\ c \in FrameType /\ c.in = s[2].in /\ c.obj = s[2].obj /\ c.method = s[2].method
      /\ c.pc = s[2].pc /\ c.event = s[2].event /\ c.temp = s[2].temp
  BY <1>2 DEF FrameType
<1>6. c.in = "virtual" /\ c.pc = "override"
  BY <1>1, <1>2, <1>5 DEF CalledBy, FrameType
<1> HIDE DEF c
<1>7. /\ b \in Seq(FrameType) /\ b # <<>> /\ Stacked(b) /\ AllHeld(b, wrapper) /\ b[1] = s[2]
      /\ Len(b) = Len(s) - 1
  BY <1>1, <1>2, Popped, PoppedOK
<1> HIDE DEF b, s
<1>8. Same(c, b[1]) /\ Placed(c) /\ Held(c, wrapper)
  BY <1>2, <1>5, <1>7 DEF Same, Placed, Held, InPython
<1>9. n \in Seq(FrameType) /\ Len(n) = Len(b) /\ n[1] = c
  BY <1>5, <1>7, Gone
<1>10. Stacked(n) /\ (Locked(n) <=> Locked(b)) /\ AllHeld(n, wrapper)
  <2>1. Locked(b) <=> b[1].pc = "locked" \/ Locked(Tail(b))
    BY <1>5, <1>7, <1>8, GoneOK
  <2>2. Stacked(n) /\ (Locked(n) <=> c.pc = "locked" \/ Locked(Tail(b))) /\ AllHeld(n, wrapper)
    BY <1>5, <1>7, <1>8, GoneOK
  <2> QED BY <1>5, <1>7, <2>1, <2>2
<1> HIDE DEF n
<1>11. ThreadOK(t, n, p)
  <2>1. MaxDepth[t] \in Nat
    BY VirtualCallAssumption
  <2> QED BY <1>2, <1>6, <1>7, <1>9, <1>10, <2>1 DEF ThreadOK, Room, Clear
<1>12. UNCHANGED <<lock, wrapper>> /\ Types'
  BY <1>3 DEF PythonReturn, Inv, Types, objectVars
<1>13. lock' = t <=> Locked(n)
  BY <1>1, <1>2, <1>10, <1>12 DEF Placed
<1>14. \A u \in Thread \ {t} : (lock' = u <=> lock = u) /\ AllHeld(stack[u], wrapper')
  BY <1>12 DEF Inv
<1>15. AllHeld(n, wrapper')
  BY <1>10, <1>12
<1> QED BY <1>3, <1>4, <1>11, <1>12, <1>13, <1>14, <1>15, Moved

\* The caller goes on as the call that it was.
LEMMA CallerTyped ==
    ASSUME Inv, NEW t \in Thread, stack[t] # <<>>, Top(t).left > 0
    PROVE  LET c == Caller(t) IN
           /\ c \in FrameType /\ Same(c, Top(t)) /\ c.pc = Top(t).pc /\ Placed(c)
           /\ \A w : Held(Top(t), w) => Held(c, w)
           /\ c.items = Top(t).items /\ c.meant = Top(t).meant
<1> DEFINE f == Top(t)
           c == Caller(t)
<1>1. f \in FrameType /\ Placed(f)
  BY Now
<1>2. f.left - 1 \in Nat
  BY <1>1 DEF FrameType
<1>3. /\ c \in FrameType /\ c.in = f.in /\ c.obj = f.obj /\ c.method = f.method /\ c.pc = f.pc
      /\ c.event = f.event /\ c.temp = f.temp /\ c.items = f.items /\ c.meant = f.meant
  <2>1. CASE c = f
    BY <1>1, <2>1
  <2>2. CASE c = [f EXCEPT !.left = @ - 1]
    <3> HIDE DEF f, c
    <3> QED BY <1>1, <1>2, <2>2 DEF FrameType
  <2> QED BY <2>1, <2>2 DEF Caller
<1> HIDE DEF c, f
<1> QED BY <1>1, <1>3 DEF Same, Placed, Held, InPython, c, f

LEMMA CppFrameTyped ==
    ASSUME NEW o \in Obj, NEW m \in Method
    PROVE  LET f == CppFrame(o, m) IN
           /\ f \in FrameType /\ f.in = "cpp" /\ f.obj = o /\ f.method = m
           /\ f.pc \in {"start", "locks"} /\ f.temp = Nil
<1>1. Frame("cpp", o, m) \in FrameType
  BY FrameTyped
<1>2. Frame("cpp", o, m).in = "cpp" /\ Frame("cpp", o, m).obj = o /\ Frame("cpp", o, m).method = m
      /\ Frame("cpp", o, m).temp = Nil
  BY DEF Frame
<1> DEFINE f == Frame("cpp", o, m)
<1> HIDE DEF f
<1> QED BY <1>1, <1>2, ZenonT(60) DEF CppFrame, FrameType, f

\* What a call of a function of the binding makes of the stack: the call ends at
\* once or goes on in C++ code.
BindingCalls(t, o, m, value, e) ==
    LET b == Frame("binding", o, m) IN
    \/ /\ stack' = Calls(t, <<b>>, Caller(t)) /\ error' = [error EXCEPT ![t] = TRUE]
       /\ gil' = t
    \/ \E d \in ToCpp(Param[m], value) :
       /\ ~d.error /\ (e = Nil \/ Given(t, e) \/ "share-event" \in Tags)
       /\ stack' = Calls(t, <<[CppFrame(o, m) EXCEPT
                                 !.items = d.items, !.meant = ValuesOf(value), !.event = e], b>>, Caller(t))
       /\ gil' = Nil /\ UNCHANGED error

LEMMA BindingCallSteps ==
    ASSUME NEW t \in Thread, BindingCall(t)
    PROVE  \E o \in Obj, m \in Method, value \in Value, e \in Event \cup {Nil} :
               BindingCalls(t, o, m, value, e)
<1> DEFINE c == Caller(t)
           Rejected(o, m) == /\ stack' = Calls(t, <<Frame("binding", o, m)>>, c)
                             /\ error' = [error EXCEPT ![t] = TRUE]
                             /\ gil' = t
           Called(o, m, value, e, d) ==
               /\ stack' = Calls(t, <<[Callee(o, m) EXCEPT
                                         !.items = d.items, !.meant = ValuesOf(value), !.event = e],
                                      Frame("binding", o, m)>>, c)
               /\ gil' = Nil /\ UNCHANGED error
<1>1. PICK o \in Obj, m \in Method, value \in Value :
          \E e \in IF m \in TakesEvent THEN Passable(Top(t)) ELSE {Nil} :
             /\ PassedValid(Top(t), e) => e = Nil \/ Given(t, e) \/ "share-event" \in Tags
             /\ IF \/ ~IsConvertible(Param[m], value) \/ ~PassedValid(Top(t), e)
                   \/ m \in Abstract /\ o \in Shell
                THEN Rejected(o, m)
                ELSE \E d \in ToCpp(Param[m], value) :
                     IF d.error THEN Rejected(o, m) ELSE Called(o, m, value, e, d)
  BY ZenonT(120) DEF BindingCall
<1>2. PICK e \in Event \cup {Nil} :
          \/ Rejected(o, m)
          \/ /\ e = Nil \/ Given(t, e) \/ "share-event" \in Tags
             /\ \E d \in ToCpp(Param[m], value) : ~d.error /\ Called(o, m, value, e, d)
  <2>1. PICK e \in IF m \in TakesEvent THEN Passable(Top(t)) ELSE {Nil} :
            \/ Rejected(o, m)
            \/ /\ e = Nil \/ Given(t, e) \/ "share-event" \in Tags
               /\ \E d \in ToCpp(Param[m], value) : ~d.error /\ Called(o, m, value, e, d)
    <3> HIDE DEF Rejected, Called
    <3> QED BY <1>1
  <2>2. e \in Event \cup {Nil}
    BY DEF Passable
  <2> QED BY <2>1, <2>2
<1>3. BindingCalls(t, o, m, value, e)
  BY <1>2 DEF BindingCalls, Callee
<1> QED BY <1>3

LEMMA BindingCallOK ==
    ASSUME Inv, NEW t \in Thread, BindingCall(t)
    PROVE  Inv'
<1>1. /\ stack[t] # <<>> /\ Top(t).in = "python" /\ Top(t).left > 0 /\ Len(stack[t]) + 2 <= MaxDepth[t]
      /\ UNCHANGED <<lock, wrapper, instance, dict, event>>
  BY DEF BindingCall, Running, Roomy, objectVars
<1>2. /\ Top(t) \in FrameType /\ Placed(Top(t)) /\ Held(Top(t), wrapper) /\ Len(stack[t]) \in Nat
      /\ ~error[t]
  BY <1>1, Now DEF Clear
<1>3. MaxDepth[t] \in Nat
  BY VirtualCallAssumption
<1> DEFINE c == Caller(t)
<1>4. /\ c \in FrameType /\ Same(c, Top(t)) /\ c.pc = Top(t).pc /\ Placed(c) /\ Held(c, wrapper)
  BY <1>1, <1>2, CallerTyped
<1>5. c.in = "python"
  BY <1>1, <1>4 DEF Same
<1>6. PICK o \in Obj, m \in Method, value \in Value, e \in Event \cup {Nil} : BindingCalls(t, o, m, value, e)
  BY BindingCallSteps
<1> HIDE DEF c
<1> DEFINE b == Frame("binding", o, m)
<1>9. /\ b \in FrameType /\ b.in = "binding" /\ b.pc = "start" /\ b.event = Nil /\ b.temp = Nil
      /\ b.obj = o /\ b.method = m
  BY FrameTyped DEF Frame
<1> HIDE DEF b
<1>10. Placed(b) /\ Held(b, wrapper)
  BY <1>9 DEF Placed, Held
<1>11. CalledBy(b, c)
  BY <1>5, <1>9 DEF CalledBy
<1>12. Types'
  BY <1>1, <1>6, ErrorKept DEF Inv, Types, BindingCalls
<1>13. CASE stack' = Calls(t, <<b>>, c) /\ error' = [error EXCEPT ![t] = TRUE]
  <2>1. \A u \in Thread : AllHeld(stack[u], wrapper')
    BY <1>1 DEF Inv
  <2>2. Held(b, wrapper') /\ Held(c, wrapper')
    BY <1>1, <1>4, <1>10
  <2>3. PICK p \in BOOLEAN : error' = [error EXCEPT ![t] = p]
    BY <1>13
  <2>4. b.pc # "locked" /\ b.in \notin {"python", "dealloc", "virtual"} /\ Len(stack[t]) < MaxDepth[t]
    BY <1>1, <1>2, <1>3, <1>9
  <2> QED BY <1>1, <1>4, <1>9, <1>10, <1>11, <1>12, <1>13, <2>1, <2>2, <2>3, <2>4, Pushes
<1>14. ASSUME NEW d \in ToCpp(Param[m], value), UNCHANGED error,
              stack' = Calls(t, <<[CppFrame(o, m) EXCEPT
                                     !.items = d.items, !.meant = ValuesOf(value), !.event = e], b>>, c)
       PROVE  Inv'
  <2> DEFINE g == CppFrame(o, m)
             f == [g EXCEPT !.items = d.items, !.meant = ValuesOf(value), !.event = e]
  <2>1. g \in FrameType /\ g.in = "cpp" /\ g.obj = o /\ g.method = m /\ g.pc \in {"start", "locks"} /\ g.temp = Nil
    BY CppFrameTyped
  <2>2. d.items \in Seq(Int) /\ ValuesOf(value) \in Seq(Int)
    BY VirtualCallAssumption, ToCppTyped
  <2>3. /\ f \in FrameType /\ f.in = "cpp" /\ f.obj = o /\ f.method = m
        /\ f.pc \in {"start", "locks"} /\ f.temp = Nil
    <3> HIDE DEF g
    <3> QED BY <2>1, <2>2 DEF FrameType
  <2>4. stack' = Calls(t, <<f, b>>, c)
    BY <1>14
  <2> HIDE DEF f, g
  <2>5. Placed(f) /\ Held(f, wrapper) /\ CalledBy(f, b)
    BY <1>9, <2>3 DEF Placed, Held, CalledBy
  <2>6. error[t] \in BOOLEAN /\ error' = [error EXCEPT ![t] = error[t]]
    BY <1>14, ErrorKept
  <2> QED BY <1>1, <1>4, <1>9, <1>10, <1>11, <1>12, <2>3, <2>4, <2>5, <2>6, PushesTwo
<1> QED BY <1>6, <1>13, <1>14 DEF b, c, BindingCalls

LEMMA WorkerStartOK ==
    ASSUME Inv, NEW t \in Thread, WorkerStart(t)
    PROVE  Inv'
<1>1. PICK pc \in {"start", "locks"} :
          stack' = [stack EXCEPT ![t] = <<[Frame("cpp", Nil, Nil) EXCEPT !.pc = pc]>>]
  BY DEF WorkerStart
<1> DEFINE g == Frame("cpp", Nil, Nil)
           f == [g EXCEPT !.pc = pc]
           n == <<f>>
<1>2. g \in FrameType /\ g.in = "cpp" /\ g.temp = Nil
  BY FrameTyped DEF Frame
<1>3. f \in FrameType /\ f.in = "cpp" /\ f.temp = Nil /\ f.pc \in {"start", "locks"}
  <2> HIDE DEF g
  <2> QED BY <1>2 DEF FrameType
<1> HIDE DEF f
<1>4. Placed(f) /\ Held(f, wrapper)
  BY <1>3 DEF Placed, Held
<1>5. n \in Seq(FrameType) /\ Len(n) = 1 /\ n[1] = f
  BY <1>3
<1>6. stack' = [stack EXCEPT ![t] = n]
  BY <1>1 DEF f
<1> HIDE DEF n
<1>7. ThreadOK(t, n, error[t]) /\ ~Locked(n) /\ AllHeld(n, wrapper)
  <2>1. MaxDepth[t] \in Nat \ {0, 1}
    BY VirtualCallAssumption
  <2>2. Stacked(n) /\ ~Locked(n) /\ AllHeld(n, wrapper) /\ ~Room(n) /\ ~Clear(n)
    BY <1>3, <1>4, <1>5 DEF Stacked, Locked, AllHeld, Room, Clear
  <2> QED BY <1>5, <2>1, <2>2 DEF ThreadOK
<1>8. lock # t
  <2>1. lock = t <=> Locked(<<>>)
    BY DEF WorkerStart, Inv
  <2> QED BY <2>1 DEF Locked
<1>9. UNCHANGED <<lock, wrapper>> /\ Types'
  BY DEF WorkerStart, Inv, Types, objectVars
<1>10. error[t] \in BOOLEAN /\ error' = [error EXCEPT ![t] = error[t]]
  BY ErrorKept DEF WorkerStart
<1>11. \A u \in Thread \ {t} : (lock' = u <=> lock = u) /\ AllHeld(stack[u], wrapper')
  BY <1>9 DEF Inv
<1>12. (lock' = t <=> Locked(n)) /\ AllHeld(n, wrapper')
  BY <1>7, <1>8, <1>9
<1> QED BY <1>6, <1>7, <1>9, <1>10, <1>11, <1>12, Moved

LEMMA CppLockOK ==
    ASSUME Inv, NEW t \in Thread, CppLock(t)
    PROVE  Inv'
<1> DEFINE f == Top(t)
           c == [f EXCEPT !.pc = "locked"]
<1>1. stack[t] # <<>> /\ f.in = "cpp" /\ f.pc = "locks" /\ lock \in {t, Nil}
  BY DEF CppLock, Running
<1>2. f \in FrameType /\ Placed(f)
  BY <1>1, Now
<1>3. /\ stack' = Replaced(t, c) /\ lock' = t
      /\ UNCHANGED <<gil, error, wrapper, instance, dict, event>>
  BY DEF CppLock, objectVars
<1> HIDE DEF f
<1>4. /\ c \in FrameType /\ c.in = "cpp" /\ c.pc = "locked" /\ Same(c, f)
  BY <1>1, <1>2 DEF FrameType, Same
<1> HIDE DEF c
<1>5. Placed(c) /\ Held(c, wrapper')
  BY <1>1, <1>2, <1>4 DEF Placed, Held, Same
<1>6. \A u \in Thread : AllHeld(stack[u], wrapper')
  BY <1>3 DEF Inv
<1>7. Types'
  BY <1>3 DEF Inv, Types
<1>8. Same(c, Top(t)) /\ Top(t).in # "virtual" /\ Top(t).pc # "locked"
  BY <1>1, <1>4 DEF f
<1> QED BY <1>1, <1>3, <1>4, <1>5, <1>6, <1>7, <1>8, Goes

LEMMA CppCallOK ==
    ASSUME Inv, NEW t \in Thread, CppCall(t)
    PROVE  Inv'
<1> DEFINE c == Caller(t)
<1>1. /\ stack[t] # <<>> /\ Top(t).in = "cpp" /\ Top(t).left > 0 /\ Len(stack[t]) + 2 <= MaxDepth[t]
      /\ UNCHANGED <<gil, error, lock, wrapper, instance, dict>>
  BY DEF CppCall, Running, Roomy, objectVars
<1>2. /\ Top(t) \in FrameType /\ Held(Top(t), wrapper) /\ Len(stack[t]) \in Nat
  BY <1>1, Now
<1>3. MaxDepth[t] \in Nat
  BY VirtualCallAssumption
<1>4. /\ c \in FrameType /\ Same(c, Top(t)) /\ c.pc = Top(t).pc /\ Placed(c) /\ Held(c, wrapper)
      /\ c.items \in Seq(Int) /\ c.meant \in Seq(Int)
  <2>1. c \in FrameType /\ Same(c, Top(t)) /\ c.pc = Top(t).pc /\ Placed(c) /\ Held(c, wrapper)
    BY <1>1, <1>2, CallerTyped
  <2> HIDE DEF c
  <2> QED BY <2>1 DEF FrameType
<1>5. c.in = "cpp"
  BY <1>1, <1>4 DEF Same
<1>6. PICK o \in Shell, m \in Method :
         \E e \in IF m \in TakesEvent
                  THEN {x \in Event : x = Top(t).event \/ ~event[x].live} ELSE {Nil} :
         LET new == e # Nil /\ e # Top(t).event IN
         /\ stack' = Calls(t, <<[Frame("virtual", o, m) EXCEPT
                                  !.items = c.items, !.meant = c.meant, !.event = e,
                                  !.temp = IF new THEN e ELSE Nil]>>, c)
         /\ event' = IF new THEN [event EXCEPT ![e].live = TRUE] ELSE event
  BY DEF CppCall
<1>7. PICK e \in Event \cup {Nil} :
         LET new == e # Nil /\ e # Top(t).event IN
         /\ stack' = Calls(t, <<[Frame("virtual", o, m) EXCEPT
                                  !.items = c.items, !.meant = c.meant, !.event = e,
                                  !.temp = IF new THEN e ELSE Nil]>>, c)
         /\ event' = IF new THEN [event EXCEPT ![e].live = TRUE] ELSE event
  BY <1>6
<1> DEFINE g == Frame("virtual", o, m)
           p == IF e # Nil /\ e # Top(t).event THEN e ELSE Nil
           f == [g EXCEPT !.items = c.items, !.meant = c.meant, !.event = e, !.temp = p]
<1>8. g \in FrameType /\ g.in = "virtual" /\ g.obj = o /\ g.method = m /\ g.pc = "start"
  BY FrameTyped, VirtualCallAssumption DEF Frame
<1>9. stack' = Calls(t, <<f>>, c) /\ p \in Event \cup {Nil}
  BY <1>7
<1>10. Types'
  <2>1. event' \in EventData
    BY <1>7 DEF Inv, Types, EventData
  <2> QED BY <1>1, <2>1 DEF Inv, Types
<1> HIDE DEF g, c, p
<1>11. /\ f \in FrameType /\ f.in = "virtual" /\ f.obj = o /\ f.method = m /\ f.pc = "start"
  BY <1>4, <1>8, <1>9 DEF FrameType
<1> HIDE DEF f
<1>12. Placed(f) /\ Held(f, wrapper') /\ CalledBy(f, c)
  BY <1>5, <1>11 DEF Placed, Held, CalledBy
<1>13. Held(c, wrapper') /\ \A u \in Thread : AllHeld(stack[u], wrapper')
  BY <1>1, <1>4 DEF Inv
<1>14. error[t] \in BOOLEAN /\ error' = [error EXCEPT ![t] = error[t]]
  BY <1>1, ErrorKept
<1>15. Len(stack[t]) < MaxDepth[t] /\ Len(stack[t]) + 1 < MaxDepth[t]
  BY <1>1, <1>2, <1>3
<1>16. f.in \notin {"python", "dealloc"} /\ f.pc # "locked" /\ lock' = lock
  BY <1>1, <1>11
<1> QED BY <1>1, <1>4, <1>9, <1>10, <1>11, <1>12, <1>13, <1>14, <1>15, <1>16, Pushes

\* Without an override the first class of the mro with the method is a C++ class.
LEMMA NoOverride ==
    ASSUME NEW o \in Shell, NEW m \in Method, ~OverriddenInClass(o, m)
    PROVE  Mro[o][FirstDefiner(o, m)] \notin PyClass
<1> DEFINE D == Definers(o, m)
           first == FirstDefiner(o, m)
<1>1. PICK k \in D : Mro[o][k] \notin PyClass
  BY MroAssumption
<1>2. \A i \in D : i \in Nat /\ 1 <= i
  <2>1. o \in Obj /\ Mro[o] \in Seq(DOMAIN Defines)
    BY VirtualCallAssumption
  <2>2. DOMAIN Mro[o] = 1..Len(Mro[o]) /\ Len(Mro[o]) \in Nat
    BY <2>1
  <2> QED BY <2>2 DEF Definers
<1>3. SUFFICES ASSUME Mro[o][first] \in PyClass
               PROVE  FALSE
  OBVIOUS
<1>4. first # k
  BY <1>1, <1>3
<1>5. k = 1
  BY <1>1, <1>3, <1>4 DEF OverriddenInClass
<1>6. \E i \in D : \A j \in D : i <= j
  BY <1>1, <1>2, <1>5
<1>7. first \in D /\ \A j \in D : first <= j
  BY <1>6 DEF FirstDefiner
<1>8. first = 1
  <2>1. first \in Nat /\ 1 <= first /\ first <= 1
    BY <1>1, <1>2, <1>5, <1>7
  <2> HIDE DEF first
  <2> QED BY <2>1
<1> QED BY <1>4, <1>5, <1>8

LEMMA VirtualBaseOK ==
    ASSUME Inv, NEW t \in Thread, VirtualBase(t)
    PROVE  Inv'
<1> DEFINE f == Top(t)
           g == CppFrame(f.obj, f.method)
           x == [g EXCEPT !.items = f.items, !.meant = f.meant, !.event = f.event]
           c == [f EXCEPT !.pc = "base", !.had = gil = t]
<1>1. /\ Running(t, "virtual") /\ stack[t] # <<>> /\ f.in = "virtual" /\ f.pc = "start"
      /\ UNCHANGED <<error, lock, wrapper, instance, dict, event>> /\ gil' \in Thread \cup {Nil}
      /\ ~GetOverride(f.obj, f.method)
  BY DEF VirtualBase, Running, objectVars, GivesBack
<1>2. /\ f \in FrameType /\ Placed(f) /\ Held(f, wrapper) /\ Len(stack[t]) \in Nat
      /\ Len(stack[t]) < MaxDepth[t]
  <2>1. f = stack[t][1]
    BY <1>1, Now
  <2>2. Room(stack[t])
    BY <1>1, <2>1 DEF Room
  <2> QED BY <1>1, <2>2, Now
<1>3. stack' = Calls(t, <<x>>, c)
  BY DEF VirtualBase, BaseCalled
<1>4. f.obj \in Shell /\ f.obj \in Obj /\ f.method \in Method
  BY <1>1, <1>2, VirtualCallAssumption DEF Placed
<1>5. g \in FrameType /\ g.in = "cpp" /\ g.pc \in {"start", "locks"} /\ g.temp = Nil
  BY <1>4, CppFrameTyped
<1> HIDE DEF f, g
<1>6. x \in FrameType /\ x.in = "cpp" /\ x.pc \in {"start", "locks"} /\ x.temp = Nil
  BY <1>2, <1>5, ZenonT(60) DEF FrameType
<1>7. /\ c \in FrameType /\ c.in = "virtual" /\ c.pc = "base" /\ Same(c, f)
  BY <1>1, <1>2 DEF FrameType, Same
<1> HIDE DEF x, c
<1>8. Placed(x) /\ Placed(c) /\ CalledBy(x, c) /\ Held(x, wrapper')
  BY <1>4, <1>6, <1>7 DEF Placed, CalledBy, Held, Same
<1>9. Held(c, wrapper')
  <2>1. wrapper'[f.obj] = "alive" => ~OverriddenInClass(f.obj, f.method)
    BY <1>1 DEF GetOverride
  <2>2. wrapper'[f.obj] = "alive" => ~InPython(f)
    BY <2>1, <1>4, NoOverride DEF InPython
  <2> QED BY <2>2, <1>7 DEF Held, Same, InPython
<1>10. \A u \in Thread : AllHeld(stack[u], wrapper')
  BY <1>1 DEF Inv
<1>11. Types'
  BY <1>1 DEF Inv, Types
<1>12. error[t] \in BOOLEAN /\ error' = [error EXCEPT ![t] = error[t]]
  BY <1>1, ErrorKept
<1>13. x.in \notin {"python", "dealloc", "virtual"} /\ x.pc # "locked" /\ lock' = lock
       /\ c.pc # "locked" /\ Top(t).pc # "locked" /\ Same(c, Top(t))
  BY <1>1, <1>6, <1>7 DEF f
<1> QED BY <1>1, <1>2, <1>3, <1>6, <1>7, <1>8, <1>9, <1>10, <1>11, <1>12, <1>13, Pushes

LEMMA VirtualOverrideOK ==
    ASSUME Inv, NEW t \in Thread, VirtualOverride(t)
    PROVE  Inv'
<1> DEFINE f == Top(t)
           o == Bound(f.obj, f.method)
           g == Frame("python", o, f.method)
           x == [g EXCEPT !.event = f.event]
           c == [f EXCEPT !.pc = "override", !.had = gil = t, !.reset = InvalidateArg(f.event)]
<1>1. /\ Running(t, "virtual") /\ stack[t] # <<>> /\ f.in = "virtual" /\ f.pc = "start" /\ ~error[t]
      /\ UNCHANGED <<error, lock, wrapper, instance, dict>> /\ gil' \in Thread \cup {Nil}
      /\ GetOverride(f.obj, f.method)
  BY DEF VirtualOverride, Running, objectVars
<1>2. /\ f \in FrameType /\ Placed(f) /\ Held(f, wrapper) /\ Len(stack[t]) \in Nat
      /\ Len(stack[t]) < MaxDepth[t]
  <2>1. f = stack[t][1]
    BY <1>1, Now
  <2>2. Room(stack[t])
    BY <1>1, <2>1 DEF Room
  <2> QED BY <1>1, <2>2, Now
<1>3. /\ stack' = Calls(t, <<x>>, c)
      /\ event' = IF f.event = Nil THEN event ELSE [event EXCEPT ![f.event].valid = TRUE]
  BY DEF VirtualOverride
<1>4. /\ f.obj \in Shell /\ f.obj \in Obj /\ f.method \in Method /\ f.event \in Event \cup {Nil}
      /\ InvalidateArg(f.event) \in BOOLEAN
  BY <1>1, <1>2, VirtualCallAssumption DEF Placed, FrameType, InvalidateArg
<1>5. /\ o \in {f.obj, Nil} /\ o \in Obj \cup {Nil}
      /\ o # Nil => InPython(f) /\ wrapper[f.obj] = "alive"
  BY <1>1, <1>4 DEF Bound, GetOverride, OverriddenInClass, InPython
<1>6. Types'
  <2>1. event' \in EventData
    BY <1>3, <1>4 DEF Inv, Types, EventData
  <2> QED BY <1>1, <2>1 DEF Inv, Types
<1> HIDE DEF f, o
<1>7. g \in FrameType /\ g.in = "python" /\ g.pc = "start" /\ g.temp = Nil /\ g.obj = o /\ g.method = f.method
  BY <1>4, <1>5, FrameTyped DEF Frame
<1> HIDE DEF g
<1>8. /\ x \in FrameType /\ x.in = "python" /\ x.pc = "start" /\ x.temp = Nil
      /\ x.obj = o /\ x.method = f.method /\ x.event = f.event
  BY <1>4, <1>7 DEF FrameType
<1>9. /\ c \in FrameType /\ c.in = "virtual" /\ c.pc = "override" /\ Same(c, f)
  BY <1>1, <1>2, <1>4 DEF FrameType, Same
<1> HIDE DEF x, c
<1>10. Placed(x) /\ Placed(c) /\ CalledBy(x, c) /\ Held(x, wrapper') /\ Held(c, wrapper')
  BY <1>1, <1>4, <1>5, <1>8, <1>9 DEF Placed, CalledBy, Held, Same, InPython
<1>11. \A u \in Thread : AllHeld(stack[u], wrapper')
  BY <1>1 DEF Inv
<1>12. error[t] \in BOOLEAN /\ error' = [error EXCEPT ![t] = error[t]]
  BY <1>1, ErrorKept
<1>13. /\ x.in # "virtual" /\ x.pc # "locked" /\ lock' = lock
       /\ c.pc # "locked" /\ Top(t).pc # "locked" /\ Same(c, Top(t))
  BY <1>1, <1>8, <1>9 DEF f
<1> QED BY <1>1, <1>2, <1>3, <1>6, <1>8, <1>9, <1>10, <1>11, <1>12, <1>13, Pushes

\* Frames stay held while no wrapper comes to life, and none dies that Python code
\* runs for.
LEMMA StillHeld ==
    ASSUME Inv, NEW u \in Thread,
           \A o \in Obj : wrapper'[o] = "alive" => wrapper[o] = "alive",
           \A o \in Obj : wrapper[o] = "alive" /\ Uses(u, o) => wrapper'[o] = "alive"
    PROVE  AllHeld(stack[u], wrapper')
<1> DEFINE s == stack[u]
<1>1. s \in Seq(FrameType) /\ Stacked(s) /\ AllHeld(s, wrapper)
  BY DEF Inv, ThreadOK
<1>2. SUFFICES ASSUME NEW i \in 1..Len(s)
               PROVE  Held(s[i], wrapper')
  BY DEF AllHeld
<1>3. s[i] \in FrameType /\ Placed(s[i]) /\ Held(s[i], wrapper) /\ i \in DOMAIN s
  BY <1>1 DEF Stacked, AllHeld
<1>4. s[i].in = "python" /\ s[i].obj # Nil => Uses(u, s[i].obj) /\ s[i].obj \in Obj
  BY <1>3 DEF Uses, Frames, FrameType
<1>5. s[i].in \in {"virtual", "dealloc"} => s[i].obj \in Obj
  BY <1>3, VirtualCallAssumption DEF Placed
<1> QED BY <1>3, <1>4, <1>5 DEF Held

LEMMA DropOK ==
    ASSUME Inv, NEW t \in Thread, Drop(t)
    PROVE  Inv'
<1>1. /\ stack[t] # <<>> /\ Top(t).in = "python" /\ Below(t) = <<>> /\ gil' = Nil
      /\ UNCHANGED <<error, lock, instance, dict, event>>
  BY DEF Drop, Running
<1>2. PICK o \in Owned :
          /\ wrapper[o] = "alive" /\ \A u \in Thread : ~Uses(u, o)
          /\ wrapper' = [wrapper EXCEPT ![o] = "dying"]
          /\ stack' = Calls(t, <<Frame("dealloc", o, Nil)>>, Top(t))
  BY DEF Drop
<1>3. /\ Top(t) \in FrameType /\ Placed(Top(t)) /\ Len(stack[t]) = 1 /\ ~error[t]
      /\ Top(t) = stack[t][1] /\ AllHeld(stack[t], wrapper)
  <2>1. Len(stack[t]) \in Nat \ {0} /\ ~(Len(stack[t]) > 1)
    BY <1>1, Now
  <2>2. Len(stack[t]) = 1
    <3> DEFINE n == Len(stack[t])
    <3> HIDE DEF n
    <3>1. n \in Nat \ {0} /\ ~(n > 1) => n = 1
      OBVIOUS
    <3> QED BY <2>1, <3>1 DEF n
  <2> QED BY <1>1, <2>2, Now DEF Clear
<1>4. o \in Obj
  BY VirtualCallAssumption
<1> DEFINE f == Frame("dealloc", o, Nil)
<1>5. f \in FrameType /\ f.in = "dealloc" /\ f.obj = o /\ f.pc = "start" /\ f.event = Nil /\ f.temp = Nil
  BY <1>4, FrameTyped DEF Frame
<1> HIDE DEF f
<1>6. wrapper' \in [Obj -> {"alive", "dying", "gone"}] /\ wrapper'[o] = "dying"
  BY <1>2, <1>4 DEF Inv, Types
<1>7. /\ \A x \in Obj : wrapper'[x] = "alive" => wrapper[x] = "alive"
      /\ \A u \in Thread, x \in Obj : wrapper[x] = "alive" /\ Uses(u, x) => wrapper'[x] = "alive"
  BY <1>2, <1>4 DEF Inv, Types
<1>8. \A u \in Thread : AllHeld(stack[u], wrapper')
  BY <1>7, StillHeld
<1>9. Held(Top(t), wrapper')
  BY <1>3, <1>8 DEF AllHeld
<1>10. Placed(f) /\ Held(f, wrapper') /\ CalledBy(f, Top(t))
  BY <1>1, <1>4, <1>5, <1>6 DEF Placed, Held, CalledBy
<1>11. Types'
  BY <1>1, <1>6 DEF Inv, Types
<1>12. error[t] = FALSE /\ error[t] \in BOOLEAN /\ error' = [error EXCEPT ![t] = error[t]]
  BY <1>1, <1>3, ErrorKept
<1>13. Len(stack[t]) < MaxDepth[t] /\ f.in # "virtual" /\ f.pc # "locked" /\ lock' = lock
  BY <1>1, <1>3, <1>5, VirtualCallAssumption
<1>14. Same(Top(t), Top(t)) /\ stack' = Calls(t, <<f>>, Top(t))
  BY <1>2 DEF Same, f
<1> QED BY <1>1, <1>3, <1>5, <1>8, <1>9, <1>10, <1>11, <1>12, <1>13, <1>14, Pushes

LEMMA DeallocOK ==
    ASSUME Inv, NEW t \in Thread, Dealloc(t)
    PROVE  Inv'
<1> DEFINE f == Top(t)
           c == [f EXCEPT !.pc = "dtor"]
<1>1. /\ stack[t] # <<>> /\ f.in = "dealloc" /\ f.pc = "start" /\ gil' = Nil
      /\ wrapper' = [wrapper EXCEPT ![f.obj] = "gone"] /\ instance' = [instance EXCEPT ![f.obj] = "doomed"]
      /\ stack' = Replaced(t, c) /\ UNCHANGED <<error, lock, dict, event>>
  BY DEF Dealloc, Running
<1>2. f \in FrameType /\ Placed(f) /\ Held(f, wrapper)
  BY <1>1, Now
<1>3. f.obj \in Obj /\ wrapper[f.obj] # "alive"
  BY <1>1, <1>2 DEF Placed, Held
<1> HIDE DEF f
<1>4. c \in FrameType /\ c.in = "dealloc" /\ c.pc = "dtor" /\ Same(c, f)
  BY <1>1, <1>2 DEF FrameType, Same
<1> HIDE DEF c
<1>5. /\ wrapper' \in [Obj -> {"alive", "dying", "gone"}] /\ wrapper'[f.obj] = "gone"
      /\ instance' \in [Obj -> {"alive", "doomed", "gone"}]
      /\ \A x \in Obj : wrapper'[x] = "alive" <=> wrapper[x] = "alive"
  BY <1>1, <1>3 DEF Inv, Types
<1>6. \A u \in Thread : AllHeld(stack[u], wrapper')
  BY <1>5, StillHeld
<1>7. Placed(c) /\ Held(c, wrapper')
  BY <1>1, <1>2, <1>4, <1>5 DEF Placed, Held, Same
<1>8. Types'
  BY <1>1, <1>5 DEF Inv, Types
<1>9. Same(c, Top(t)) /\ Top(t).in # "virtual" /\ Top(t).pc # "locked" /\ c.pc # "locked" /\ lock' = lock
  BY <1>1, <1>4 DEF f
<1> QED BY <1>1, <1>4, <1>6, <1>7, <1>8, <1>9, Goes

LEMMA CppDtorOK ==
    ASSUME Inv, NEW t \in Thread, CppDtor(t)
    PROVE  Inv'
<1> DEFINE f == Top(t)
           c == [f EXCEPT !.pc = "end"]
<1>1. /\ stack[t] # <<>> /\ f.in = "dealloc" /\ f.pc = "dtor"
      /\ instance' = [instance EXCEPT ![f.obj] = "gone"]
      /\ stack' = Replaced(t, c) /\ UNCHANGED <<gil, error, lock, wrapper, dict, event>>
  BY DEF CppDtor, Running
<1>2. f \in FrameType /\ Placed(f) /\ Held(f, wrapper)
  BY <1>1, Now
<1> HIDE DEF f
<1>3. c \in FrameType /\ c.in = "dealloc" /\ c.pc = "end" /\ Same(c, f)
  BY <1>1, <1>2 DEF FrameType, Same
<1> HIDE DEF c
<1>4. Placed(c) /\ Held(c, wrapper')
  BY <1>1, <1>2, <1>3 DEF Placed, Held, Same
<1>5. \A u \in Thread : AllHeld(stack[u], wrapper')
  BY <1>1 DEF Inv
<1>6. Types'
  BY <1>1 DEF Inv, Types
<1>7. Same(c, Top(t)) /\ Top(t).in # "virtual" /\ Top(t).pc # "locked" /\ c.pc # "locked" /\ lock' = lock
  BY <1>1, <1>3 DEF f
<1> QED BY <1>1, <1>3, <1>4, <1>5, <1>6, <1>7, Goes

-----------------------------------------------------------------------------
(* The invariant holds, and what it implies.                               *)

LEMMA InitOK == Init => Inv
<1> SUFFICES ASSUME Init
             PROVE  Inv
  OBVIOUS
<1> DEFINE f == Frame("python", Nil, Nil)
<1>1. f \in FrameType /\ f.in = "python" /\ f.obj = Nil /\ f.pc = "start" /\ f.temp = Nil
  BY FrameTyped DEF Frame
<1>2. \A t \in Thread : stack[t] = IF t \in Python THEN <<f>> ELSE <<>>
  BY DEF Init
<1>3. Types
  BY VirtualCallAssumption DEF Init, Types, EventData
<1> HIDE DEF f
<1>4. Placed(f) /\ Held(f, wrapper)
  BY <1>1 DEF Placed, Held
<1>5. stack \in [Thread -> Seq(FrameType)]
  BY <1>1 DEF Init, f
<1>6. ASSUME NEW t \in Thread
      PROVE  ThreadOK(t, stack[t], error[t]) /\ (lock = t <=> Locked(stack[t])) /\ AllHeld(stack[t], wrapper)
  <2> DEFINE s == stack[t]
  <2>1. s \in Seq(FrameType) /\ Len(s) \in {0, 1} /\ (Len(s) = 1 => s[1] = f) /\ (Len(s) = 0 => s = <<>>)
    <3>1. s = <<f>> \/ s = <<>>
      BY <1>2
    <3> HIDE DEF s
    <3>2. CASE s = <<f>>
      BY <1>1, <3>2
    <3>3. CASE s = <<>>
      BY <3>3
    <3> QED BY <3>1, <3>2, <3>3
  <2> HIDE DEF s
  <2>2. Stacked(s) /\ ~Locked(s) /\ AllHeld(s, wrapper) /\ ~Room(s)
    BY <1>1, <1>4, <2>1 DEF Stacked, Locked, AllHeld, Room
  <2>3. ~error[t] /\ lock # t /\ MaxDepth[t] \in Nat \ {0, 1}
    BY VirtualCallAssumption DEF Init
  <2>4. Len(s) <= MaxDepth[t]
    <3> DEFINE n == MaxDepth[t]
    <3> HIDE DEF n
    <3>1. n \in Nat \ {0, 1} => 0 <= n /\ 1 <= n
      OBVIOUS
    <3>2. 0 <= n /\ 1 <= n
      BY <2>3, <3>1 DEF n
    <3> QED BY <2>1, <3>2 DEF n
  <2>5. ThreadOK(t, s, error[t])
    BY <2>1, <2>2, <2>3, <2>4 DEF ThreadOK
  <2> QED BY <2>2, <2>3, <2>5 DEF s
<1> QED BY <1>3, <1>5, <1>6 DEF Inv

LEMMA NextOK ==
    ASSUME Inv, [Next]_callVars
    PROVE  Inv'
<1>1. CASE UNCHANGED callVars
  BY <1>1 DEF callVars, Inv, Types
<1>2. ASSUME NEW t \in Thread,
             \/ Progress(t) \/ Assign(t) \/ Keep(t) \/ Forget(t)
             \/ BindingCall(t) \/ Drop(t) \/ WorkerStart(t) \/ CppCall(t)
      PROVE  Inv'
  <2>1. CASE Progress(t)
    BY <2>1, PythonReturnOK, BindingReturnOK, CppLockOK, CppReturnOK, VirtualSkippedOK, VirtualPureOK,
       VirtualBaseOK, VirtualOverrideOK, OverrideFailedOK, OverrideReturnedOK, VirtualBaseReturnOK,
       DeallocOK, CppDtorOK, DeallocEndOK DEF Progress
  <2> QED BY <1>2, <2>1, AssignOK, KeepOK, ForgetOK, BindingCallOK, DropOK, WorkerStartOK, CppCallOK
<1> QED BY <1>1, <1>2 DEF Next

\* The inductive invariant holds in every state.
THEOREM Inductive == Spec => []Inv
  BY InitOK, NextOK, PTL DEF Spec

\* Calls in progress are calls of this program, each with what its steps use, and
\* the lock is that of the thread with a call that took it, for any number of
\* threads, objects and calls (the frames of writeMethodWrapper,
\* writeVirtualMethodNative and SbkDeallocWrapper).
THEOREM TypeCorrect == Spec => []TypeOK
<1>1. Inv => TypeOK
  <2> SUFFICES ASSUME Inv
               PROVE  TypeOK
    OBVIOUS
  <2>1. ASSUME NEW t \in Thread
        PROVE  Len(stack[t]) <= MaxDepth[t] /\ (lock = t <=> \E f \in Frames(t) : f.pc = "locked")
    <3>1. DOMAIN stack[t] = 1..Len(stack[t])
      BY DEF Inv
    <3> QED BY <3>1 DEF Inv, ThreadOK, Locked, Frames
  <2> QED BY <2>1 DEF Inv, Types, EventData, TypeOK
<1> QED BY <1>1, Inductive, PTL

\* Python code never runs with an error of an earlier call pending, nor an
\* override for a wrapper that is dying or freed, whatever the calls between
\* Python and C++ are (cppgenerator.cpp:669 and 1481, bindingmanager.cpp:236).
THEOREM PythonIsSafe == Spec => []PythonRunsSafely
<1>1. Inv => PythonRunsSafely
  <2> SUFFICES ASSUME Inv, NEW t \in Thread
               PROVE  /\ Running(t, "python") => ~error[t]
                      /\ \A f \in Frames(t) : f.in = "python" /\ f.obj # Nil => wrapper[f.obj] = "alive"
    BY DEF PythonRunsSafely
  <2>1. Running(t, "python") => ~error[t]
    BY Now DEF Running, Clear
  <2>2. DOMAIN stack[t] = 1..Len(stack[t])
    BY DEF Inv
  <2> QED BY <2>1, <2>2 DEF Inv, AllHeld, Held, Frames
<1> QED BY <1>1, Inductive, PTL

\* A call lands in the class that it names, whatever the hierarchy of the objects
\* and the methods that Python classes define: the call of the binding in the
\* C++ class, the virtual call in the first class of the mro with the method
\* (BindingManager::getOverride).
THEOREM CallsLand == Spec => []CallsLandWhereNamed
<1>1. Inv => CallsLandWhereNamed
  <2> SUFFICES ASSUME Inv, NEW t \in Thread, NEW i \in 2..Len(stack[t])
               PROVE  LET f == stack[t][i]
                          callee == stack[t][i - 1]
                      IN
                      /\ f.in = "binding" =>
                             callee.in = "cpp" /\ callee.obj = f.obj /\ callee.method = f.method
                      /\ f.in = "virtual" /\ f.pc = "base" /\ wrapper[f.obj] = "alive" =>
                             Mro[f.obj][FirstDefiner(f.obj, f.method)] \notin PyClass
                      /\ f.in = "virtual" /\ f.pc = "override" /\ callee.obj # Nil =>
                             Mro[f.obj][FirstDefiner(f.obj, f.method)] \in PyClass
    BY DEF CallsLandWhereNamed
  <2>1. i \in 1..Len(stack[t]) /\ i > 1
    BY DEF Inv
  <2>2. CalledBy(stack[t][i - 1], stack[t][i]) /\ Held(stack[t][i], wrapper)
    BY <2>1 DEF Inv, ThreadOK, Stacked, AllHeld
  <2> QED BY <2>2 DEF CalledBy, Held, InPython
<1> QED BY <1>1, Inductive, PTL
=============================================================================
