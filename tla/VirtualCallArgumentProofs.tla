--------------------- MODULE VirtualCallArgumentProofs ---------------------
(***************************************************************************)
(* What calls between Python and C++ hand over, for any number of threads  *)
(* and nested calls.  Events that end with a call are no longer valid in   *)
(* Python code when it has ended, and stay valid as long as an override    *)
(* has them: under the tags that the code does not handle, there are       *)
(* counterexamples.  What Python code passes or returns arrives as it was  *)
(* meant, or an error is pending.                                          *)
(***************************************************************************)
EXTENDS VirtualCallProofs

-----------------------------------------------------------------------------
(* Wrappers of arguments: the inductive invariant.                         *)

\* One of the calls s ends the event e.
EndsIn(s, e) == \E i \in 1..Len(s) : s[i].temp = e

\* The arguments of one of the calls s hold the wrapper of the event e.
HoldsIn(s, e) == \E i \in 1..Len(s) : s[i].pc = "override" /\ s[i].event = e

\* What the events of a call f are to those below it: an event that a call has is
\* its own or that of a call below, and an override invalidates its event
\* when no call below has the wrapper.
EventFits(f, r) ==
    /\ f.temp \in {f.event, Nil}
    /\ f.event # Nil => f.temp = f.event \/ EndsIn(r, f.event)
    /\ f.temp # Nil => ~EndsIn(r, f.temp)
    /\ f.pc = "override" /\ f.event # Nil => (f.reset <=> ~HoldsIn(r, f.event))

From(s, i) == SubSeq(s, i, Len(s))
Nested(s) == \A i \in 1..Len(s) : EventFits(s[i], From(s, i + 1))

\* The latest call is an override that failed or returned another type: what it was
\* given is not kept.
Unkept(s, ev) ==
    s # <<>> /\ s[1].in = "virtual" /\ s[1].pc = "override" /\ s[1].event # Nil
        /\ ~IsConvertible(Param[s[1].method], s[1].out)
    => ev[s[1].event].kept # "current"

\* An event is that of one thread.
Apart ==
    \A t, u \in Thread, e \in Event : EndsIn(stack[t], e) /\ EndsIn(stack[u], e) => t = u

\* An event is there while a call in progress ends it, its wrapper valid while
\* the arguments of an override hold it, and what Python code keeps is such a wrapper.
EventsOK ==
    \A e \in Event :
        /\ event[e].live <=> \E t \in Thread : EndsIn(stack[t], e)
        /\ event[e].valid <=> \E t \in Thread : HoldsIn(stack[t], e)
        /\ event[e].kept = "current" => event[e].valid

EventInv ==
    /\ Inv /\ Apart /\ EventsOK
    /\ \A t \in Thread : Nested(stack[t]) /\ Unkept(stack[t], event)

-----------------------------------------------------------------------------
(* Operators.                                                              *)

\* The events of a call on top of others.
LEMMA ConsedEnds ==
    ASSUME NEW f \in FrameType, NEW r \in Seq(FrameType), NEW e
    PROVE  /\ EndsIn(<<f>> \o r, e) <=> f.temp = e \/ EndsIn(r, e)
           /\ HoldsIn(<<f>> \o r, e) <=> (f.pc = "override" /\ f.event = e) \/ HoldsIn(r, e)
<1> DEFINE n == <<f>> \o r
<1>1. /\ Len(n) = Len(r) + 1 /\ n[1] = f /\ Len(r) \in Nat
      /\ \A i \in 2..Len(n) : n[i] = r[i - 1]
  BY Consed
<1> HIDE DEF n
<1>2. \A i \in 1..Len(r) : i + 1 \in 2..Len(n) /\ i + 1 \in 1..Len(n) /\ n[i + 1] = r[i]
  BY <1>1
<1>3. 1 \in 1..Len(n) /\ \A i \in 1..Len(n) : i = 1 \/ (i - 1 \in 1..Len(r) /\ n[i] = r[i - 1])
  BY <1>1
<1>4. EndsIn(n, e) <=> f.temp = e \/ EndsIn(r, e)
  BY <1>1, <1>2, <1>3 DEF EndsIn
<1>5. HoldsIn(n, e) <=> (f.pc = "override" /\ f.event = e) \/ HoldsIn(r, e)
  BY <1>1, <1>2, <1>3, SMTT(30) DEF HoldsIn
<1> QED BY <1>4, <1>5 DEF n

LEMMA ConsedFrom ==
    ASSUME NEW f \in FrameType, NEW r \in Seq(FrameType), NEW i \in 1..Len(r)
    PROVE  From(<<f>> \o r, (i + 1) + 1) = From(r, i + 1)
<1> DEFINE n == <<f>> \o r
           a == From(n, (i + 1) + 1)
           b == From(r, i + 1)
<1>1. /\ n \in Seq(FrameType) /\ Len(n) = Len(r) + 1 /\ Len(r) \in Nat
      /\ \A j \in 2..Len(n) : n[j] = r[j - 1]
  BY Consed
<1> HIDE DEF n
<1>2. /\ a \in Seq(FrameType) /\ Len(a) = Len(r) - i
      /\ \A j \in 1..Len(a) : a[j] = n[i + 1 + j]
  BY <1>1 DEF From
<1>3. /\ b \in Seq(FrameType) /\ Len(b) = Len(r) - i
      /\ \A j \in 1..Len(b) : b[j] = r[i + j]
  BY <1>1 DEF From
<1> HIDE DEF a, b
<1>4. ASSUME NEW j \in 1..Len(a)
      PROVE  a[j] = b[j]
  <2>1. i + 1 + j \in 2..Len(n) /\ (i + 1 + j) - 1 = i + j
    BY <1>1, <1>2
  <2>2. n[i + 1 + j] = r[i + j]
    BY <1>1, <2>1
  <2> QED BY <1>2, <1>3, <2>2
<1>5. a = b
  BY <1>2, <1>3, <1>4, SeqEqual
<1> QED BY <1>5 DEF a, b, n

LEMMA ConsedFirst ==
    ASSUME NEW f \in FrameType, NEW r \in Seq(FrameType)
    PROVE  From(<<f>> \o r, 2) = r
<1> DEFINE n == <<f>> \o r
           a == From(n, 2)
<1>1. /\ n \in Seq(FrameType) /\ Len(n) = Len(r) + 1 /\ Len(r) \in Nat
      /\ \A j \in 2..Len(n) : n[j] = r[j - 1]
  BY Consed
<1> HIDE DEF n
<1>2. /\ a \in Seq(FrameType) /\ Len(a) = Len(r)
      /\ \A j \in 1..Len(a) : a[j] = n[1 + j]
  BY <1>1 DEF From
<1> HIDE DEF a
<1>3. ASSUME NEW j \in 1..Len(a)
      PROVE  a[j] = r[j]
  <2>1. 1 + j \in 2..Len(n) /\ (1 + j) - 1 = j
    BY <1>1, <1>2
  <2> QED BY <1>1, <1>2, <2>1
<1>4. a = r
  BY <1>2, <1>3, SeqEqual
<1> QED BY <1>4 DEF a, n

LEMMA ConsedNested ==
    ASSUME NEW f \in FrameType, NEW r \in Seq(FrameType)
    PROVE  Nested(<<f>> \o r) <=> EventFits(f, r) /\ Nested(r)
<1> DEFINE n == <<f>> \o r
<1>1. /\ Len(n) = Len(r) + 1 /\ n[1] = f /\ Len(r) \in Nat
      /\ \A i \in 2..Len(n) : n[i] = r[i - 1]
  BY Consed
<1>2. From(n, 2) = r
  BY ConsedFirst
<1>3. \A i \in 1..Len(r) : From(n, (i + 1) + 1) = From(r, i + 1)
  BY ConsedFrom
<1> HIDE DEF n
<1>4. ASSUME Nested(n)
      PROVE  EventFits(f, r) /\ Nested(r)
  <2>1. EventFits(f, r)
    <3>1. 1 \in 1..Len(n) /\ 1 + 1 = 2
      BY <1>1
    <3> QED BY <1>1, <1>2, <1>4, <3>1 DEF Nested
  <2>2. ASSUME NEW i \in 1..Len(r)
        PROVE  EventFits(r[i], From(r, i + 1))
    <3>1. i + 1 \in 1..Len(n) /\ n[i + 1] = r[i]
      BY <1>1
    <3>2. EventFits(n[i + 1], From(n, (i + 1) + 1))
      BY <1>4, <3>1 DEF Nested
    <3> QED BY <1>3, <3>1, <3>2
  <2> QED BY <2>1, <2>2 DEF Nested
<1>5. ASSUME EventFits(f, r), Nested(r), NEW i \in 1..Len(n)
      PROVE  EventFits(n[i], From(n, i + 1))
  <2>1. CASE i = 1
    BY <1>1, <1>2, <1>5, <2>1
  <2>2. CASE i > 1
    <3>1. i - 1 \in 1..Len(r) /\ n[i] = r[i - 1] /\ (i - 1) + 1 = i
      BY <1>1, <2>2
    <3>2. EventFits(r[i - 1], From(r, (i - 1) + 1)) /\ From(n, ((i - 1) + 1) + 1) = From(r, (i - 1) + 1)
      BY <1>3, <1>5, <3>1 DEF Nested
    <3> QED BY <3>1, <3>2
  <2> QED BY <1>1, <2>1, <2>2
<1>6. Nested(n) <=> EventFits(f, r) /\ Nested(r)
  BY <1>4, <1>5 DEF Nested
<1> QED BY <1>6 DEF n

\* What holds of the events of a thread.
LEMMA EventNow ==
    ASSUME EventInv, NEW t \in Thread
    PROVE  /\ stack[t] \in Seq(FrameType) /\ Nested(stack[t])
           /\ stack[t] # <<>> =>
                  LET f == stack[t][1]
                      r == Tail(stack[t])
                  IN
                  /\ f \in FrameType /\ r \in Seq(FrameType) /\ Top(t) = f /\ Below(t) = r
                  /\ stack[t] = <<f>> \o r
                  /\ Placed(f) /\ EventFits(f, r) /\ Nested(r)
                  /\ \A e : EndsIn(stack[t], e) <=> f.temp = e \/ EndsIn(r, e)
                  /\ \A e : HoldsIn(stack[t], e) <=> (f.pc = "override" /\ f.event = e) \/ HoldsIn(r, e)
<1>1. stack[t] \in Seq(FrameType) /\ Nested(stack[t]) /\ Inv
  BY DEF EventInv, Inv
<1>2. ASSUME stack[t] # <<>>
      PROVE  LET f == stack[t][1]
                 r == Tail(stack[t])
             IN
             /\ f \in FrameType /\ r \in Seq(FrameType) /\ Top(t) = f /\ Below(t) = r
             /\ stack[t] = <<f>> \o r
             /\ Placed(f) /\ EventFits(f, r) /\ Nested(r)
             /\ \A e : EndsIn(stack[t], e) <=> f.temp = e \/ EndsIn(r, e)
             /\ \A e : HoldsIn(stack[t], e) <=> (f.pc = "override" /\ f.event = e) \/ HoldsIn(r, e)
  <2> DEFINE s == stack[t]
             f == s[1]
             r == Tail(s)
  <2>1. f \in FrameType /\ r \in Seq(FrameType) /\ Top(t) = f /\ Below(t) = r /\ Placed(f)
    BY <1>1, <1>2, Now, Split
  <2>2. s = <<f>> \o r
    BY <1>1, <1>2, Split
  <2> HIDE DEF s, f, r
  <2>3. EventFits(f, r) /\ Nested(r)
    BY <1>1, <2>1, <2>2, ConsedNested DEF s
  <2>4. \A e : /\ EndsIn(s, e) <=> f.temp = e \/ EndsIn(r, e)
               /\ HoldsIn(s, e) <=> (f.pc = "override" /\ f.event = e) \/ HoldsIn(r, e)
    BY <2>1, <2>2, ConsedEnds
  <2> QED BY <2>1, <2>2, <2>3, <2>4 DEF s, f, r
<1> QED BY <1>1, <1>2

\* The same of the latest call and those below.
LEMMA EventTop ==
    ASSUME EventInv, NEW t \in Thread, stack[t] # <<>>
    PROVE  /\ Top(t) \in FrameType /\ Below(t) \in Seq(FrameType)
           /\ Top(t) = stack[t][1] /\ Below(t) = Tail(stack[t])
           /\ Placed(Top(t)) /\ EventFits(Top(t), Below(t)) /\ Nested(Below(t))
           /\ \A e : EndsIn(stack[t], e) <=> Top(t).temp = e \/ EndsIn(Below(t), e)
           /\ \A e : HoldsIn(stack[t], e) <=>
                      (Top(t).pc = "override" /\ Top(t).event = e) \/ HoldsIn(Below(t), e)
<1> DEFINE f == stack[t][1]
           r == Tail(stack[t])
<1>1. /\ f \in FrameType /\ r \in Seq(FrameType) /\ Top(t) = f /\ Below(t) = r
      /\ Placed(f) /\ EventFits(f, r) /\ Nested(r)
      /\ \A e : EndsIn(stack[t], e) <=> f.temp = e \/ EndsIn(r, e)
      /\ \A e : HoldsIn(stack[t], e) <=> (f.pc = "override" /\ f.event = e) \/ HoldsIn(r, e)
  BY EventNow
<1>2. Top(t) = f /\ Below(t) = r
  BY <1>1
<1> HIDE DEF f, r
<1> QED BY <1>1, <1>2 DEF f, r

\* The wrapper that a call holds is of an event that this thread ends.
LEMMA HoldsEnds ==
    ASSUME NEW s \in Seq(FrameType), Nested(s), NEW e \in Event, HoldsIn(s, e)
    PROVE  EndsIn(s, e)
<1>1. PICK i \in 1..Len(s) : s[i].pc = "override" /\ s[i].event = e
  BY DEF HoldsIn
<1>2. e # Nil
  BY VirtualCallAssumption
<1>3. s[i].temp = e \/ EndsIn(From(s, i + 1), e)
  BY <1>1, <1>2 DEF Nested, EventFits
<1> DEFINE b == From(s, i + 1)
<1>4. b \in Seq(FrameType) /\ Len(b) = Len(s) - i /\ \A j \in 1..Len(b) : b[j] = s[i + j]
  BY DEF From
<1> HIDE DEF b
<1>5. ASSUME NEW j \in 1..Len(b), b[j].temp = e
      PROVE  EndsIn(s, e)
  <2>1. i + j \in 1..Len(s) /\ s[i + j].temp = e
    BY <1>4, <1>5
  <2> QED BY <2>1 DEF EndsIn
<1>6. EndsIn(b, e) => EndsIn(s, e)
  BY <1>5 DEF EndsIn
<1> QED BY <1>3, <1>6 DEF EndsIn, b

\* A step of the thread t makes its calls n.
LEMMA EventMoved ==
    ASSUME EventInv, Inv', NEW t \in Thread, NEW n, stack' = [stack EXCEPT ![t] = n], Nested(n),
           \A e \in Event : EndsIn(n, e) => EndsIn(stack[t], e) \/ ~event[e].live,
           \A e \in Event : event'[e].live <=> EndsIn(n, e) \/ (event[e].live /\ ~EndsIn(stack[t], e)),
           \A e \in Event : event'[e].valid <=> HoldsIn(n, e) \/ (event[e].valid /\ ~HoldsIn(stack[t], e)),
           \A e \in Event : event'[e].kept = "current" =>
               event'[e].valid /\ (event[e].kept = "current" \/ HoldsIn(stack[t], e)),
           Unkept(n, event')
    PROVE  EventInv'
<1>1. stack'[t] = n /\ \A u \in Thread \ {t} : stack'[u] = stack[u]
  BY DEF EventInv, Inv
<1>2. ASSUME NEW u \in Thread \ {t}, NEW e \in Event, EndsIn(stack[u], e)
      PROVE  event[e].live /\ ~EndsIn(stack[t], e)
  BY <1>2 DEF EventInv, EventsOK, Apart
<1>3. ASSUME NEW u \in Thread, NEW e \in Event, HoldsIn(stack[u], e)
      PROVE  event[e].valid /\ EndsIn(stack[u], e)
  <2>1. stack[u] \in Seq(FrameType) /\ Nested(stack[u])
    BY DEF EventInv, Inv
  <2> QED BY <1>3, <2>1, HoldsEnds DEF EventInv, EventsOK
<1>4. ASSUME NEW u \in Thread \ {t}, NEW e \in Event, HoldsIn(stack[u], e)
      PROVE  ~HoldsIn(stack[t], e)
  BY <1>2, <1>3, <1>4
<1>5. Apart'
  <2> SUFFICES ASSUME NEW u \in Thread, NEW v \in Thread, NEW e \in Event,
                      EndsIn(stack'[u], e), EndsIn(stack'[v], e)
               PROVE  u = v
    BY DEF Apart
  <2> QED BY <1>1, <1>2 DEF EventInv, Apart
<1>6. EventsOK'
  <2> SUFFICES ASSUME NEW e \in Event
               PROVE  /\ event'[e].live <=> \E u \in Thread : EndsIn(stack'[u], e)
                      /\ event'[e].valid <=> \E u \in Thread : HoldsIn(stack'[u], e)
                      /\ event'[e].kept = "current" => event'[e].valid
    BY DEF EventsOK
  <2>1. event[e].live <=> \E u \in Thread : EndsIn(stack[u], e)
    BY DEF EventInv, EventsOK
  <2>2. event[e].valid <=> \E u \in Thread : HoldsIn(stack[u], e)
    BY DEF EventInv, EventsOK
  <2>3. event'[e].live <=> \E u \in Thread : EndsIn(stack'[u], e)
    BY <1>1, <1>2, <2>1
  <2>4. event'[e].valid <=> \E u \in Thread : HoldsIn(stack'[u], e)
    BY <1>1, <1>4, <2>2
  <2> QED BY <2>3, <2>4
<1>7. ASSUME NEW u \in Thread
      PROVE  Nested(stack'[u]) /\ Unkept(stack'[u], event')
  <2>1. CASE u = t
    BY <1>1, <2>1
  <2>2. CASE u # t
    <3>1. stack'[u] = stack[u] /\ Nested(stack[u]) /\ Unkept(stack[u], event)
      BY <1>1, <2>2 DEF EventInv
    <3> DEFINE s == stack[u]
    <3>2. SUFFICES ASSUME s # <<>>, s[1].in = "virtual", s[1].pc = "override", s[1].event # Nil,
                          ~IsConvertible(Param[s[1].method], s[1].out)
                   PROVE  event'[s[1].event].kept # "current"
      BY <3>1 DEF Unkept
    <3>3. event[s[1].event].kept # "current"
      BY <3>1, <3>2 DEF Unkept
    <3>4. s \in Seq(FrameType) /\ s[1] \in FrameType /\ 1 \in 1..Len(s)
      BY <3>2 DEF EventInv, Inv
    <3>5. s[1].event \in Event /\ HoldsIn(s, s[1].event)
      BY <3>2, <3>4 DEF FrameType, HoldsIn
    <3>6. ~HoldsIn(stack[t], s[1].event)
      BY <1>4, <2>2, <3>5
    <3> QED BY <3>3, <3>5, <3>6
  <2> QED BY <2>1, <2>2
<1> QED BY <1>5, <1>6, <1>7 DEF EventInv

\* A step that makes or ends calls that have nothing to do with events.
LEMMA QuietMoved ==
    ASSUME EventInv, Inv', NEW t \in Thread, NEW n, stack' = [stack EXCEPT ![t] = n], Nested(n),
           UNCHANGED event, Unkept(n, event),
           \A e \in Event : /\ EndsIn(n, e) <=> EndsIn(stack[t], e)
                            /\ HoldsIn(n, e) <=> HoldsIn(stack[t], e)
    PROVE  EventInv'
<1>1. \A e \in Event : /\ EndsIn(stack[t], e) => event[e].live
                       /\ HoldsIn(stack[t], e) => event[e].valid
                       /\ event[e].kept = "current" => event[e].valid
  BY DEF EventInv, EventsOK
<1> QED BY <1>1, EventMoved

\* The latest call goes on as c and calls f.
LEMMA EventPushed ==
    ASSUME EventInv, NEW t \in Thread, stack[t] # <<>>, NEW f \in FrameType, NEW c \in FrameType,
           EventFits(c, Below(t)), EventFits(f, <<c>> \o Below(t))
    PROVE  \E n : /\ Calls(t, <<f>>, c) = [stack EXCEPT ![t] = n] /\ Nested(n)
                  /\ n # <<>> /\ n[1] = f
                  /\ \A e : EndsIn(n, e) <=> f.temp = e \/ c.temp = e \/ EndsIn(Below(t), e)
                  /\ \A e : HoldsIn(n, e) <=> \/ f.pc = "override" /\ f.event = e
                                              \/ c.pc = "override" /\ c.event = e
                                              \/ HoldsIn(Below(t), e)
<1> DEFINE r == Below(t)
           q == <<c>> \o r
           n == <<f>> \o q
<1>1. r \in Seq(FrameType) /\ Nested(r)
  BY EventNow, ZenonT(60)
<1>2. Calls(t, <<f>>, c) = [stack EXCEPT ![t] = n]
  <2>1. <<f>> \in Seq(FrameType) /\ <<c>> \in Seq(FrameType)
    OBVIOUS
  <2>2. <<f>> \o <<c>> \o r = <<f>> \o (<<c>> \o r)
    BY <1>1, <2>1, ConcatAssociative
  <2> QED BY <2>2 DEF Calls
<1> HIDE DEF r
<1>3. q \in Seq(FrameType) /\ Nested(q)
  BY <1>1, Consed, ConsedNested DEF r
<1>4. \A e : /\ EndsIn(q, e) <=> c.temp = e \/ EndsIn(r, e)
             /\ HoldsIn(q, e) <=> (c.pc = "override" /\ c.event = e) \/ HoldsIn(r, e)
  BY <1>1, ConsedEnds
<1>5. EventFits(f, q)
  BY DEF r
<1> HIDE DEF q
<1>6. n # <<>> /\ n[1] = f /\ Nested(n)
  BY <1>3, <1>5, Consed, ConsedNested
<1>7. \A e : /\ EndsIn(n, e) <=> f.temp = e \/ EndsIn(q, e)
             /\ HoldsIn(n, e) <=> (f.pc = "override" /\ f.event = e) \/ HoldsIn(q, e)
  BY <1>3, ConsedEnds
<1> HIDE DEF n
<1>8. \A e : EndsIn(n, e) <=> f.temp = e \/ c.temp = e \/ EndsIn(r, e)
  BY <1>4, <1>7
<1>9. \A e : HoldsIn(n, e) <=> \/ f.pc = "override" /\ f.event = e
                               \/ c.pc = "override" /\ c.event = e
                               \/ HoldsIn(r, e)
  BY <1>4, <1>7
<1> QED BY <1>2, <1>6, <1>8, <1>9 DEF r

\* Two calls that have nothing to do with each other fit the events below in the same way.
LEMMA FitsAlike ==
    ASSUME NEW c, NEW f, NEW r, EventFits(f, r), c.temp = f.temp, c.event = f.event,
           c.pc = "override" => f.pc = "override" /\ c.reset = f.reset
    PROVE  EventFits(c, r)
  BY DEF EventFits

\* A call with an event of one below, or none, fits.
LEMMA FitsBorrowed ==
    ASSUME NEW f, NEW r, f.temp = Nil, f.event # Nil => EndsIn(r, f.event), f.pc # "override"
    PROVE  EventFits(f, r)
  BY DEF EventFits

\* A call of C++ code, or of a virtual method, returns.
LEMMA EventReturned ==
    ASSUME EventInv, NEW t \in Thread, Running(t, "cpp") \/ Running(t, "virtual"),
           NEW items \in Seq(Int), NEW meant \in Seq(Int)
    PROVE  \E n : /\ ReturnsToCpp(t, items, meant) = [stack EXCEPT ![t] = n] /\ Nested(n)
                  /\ \A ev : Unkept(n, ev)
                  /\ \A e : EndsIn(n, e) <=> EndsIn(Below(t), e)
                  /\ \A e : HoldsIn(n, e) <=> HoldsIn(Below(t), e)
<1> DEFINE r == Below(t)
           g == r[1]
           q == Tail(r)
           c == [g EXCEPT !.items = items, !.meant = meant]
<1>1. stack[t] # <<>> /\ Inv
  BY DEF Running, EventInv
<1>2. r \in Seq(FrameType) /\ Nested(r) /\ r = Tail(stack[t]) /\ Top(t) = stack[t][1] /\ Top(t).in \in {"cpp", "virtual"}
  <2>1. r \in Seq(FrameType) /\ Nested(r) /\ r = Tail(stack[t]) /\ Top(t) = stack[t][1]
    BY <1>1, EventNow, ZenonT(60)
  <2>2. Top(t).in \in {"cpp", "virtual"}
    BY DEF Running
  <2> QED BY <2>1, <2>2
<1>3. CASE r = <<>>
  <2>1. ReturnsToCpp(t, items, meant) = [stack EXCEPT ![t] = r]
    BY <1>3 DEF ReturnsToCpp
  <2>2. \A ev : Unkept(r, ev)
    BY <1>3 DEF Unkept
  <2> QED BY <1>2, <2>1, <2>2
<1>4. CASE r # <<>>
  <2>1. ReturnsToCpp(t, items, meant) = [stack EXCEPT ![t] = <<c>> \o q]
    BY <1>4 DEF ReturnsToCpp
  <2>2. CalledBy(stack[t][1], g) /\ Placed(g) /\ g \in FrameType
    <3>1. Len(stack[t]) > 1 /\ Head(r) = stack[t][2]
      BY <1>1, <1>4, Now
    <3>2. g = stack[t][2]
      BY <3>1
    <3> QED BY <1>1, <3>1, <3>2, Now
  <2>3. r = <<g>> \o q /\ q \in Seq(FrameType)
    BY <1>2, <1>4, Split
  <2>4. /\ c \in FrameType /\ c.temp = g.temp /\ c.event = g.event /\ c.pc = g.pc /\ c.reset = g.reset
        /\ c.in = g.in
    <3> HIDE DEF g
    <3> QED BY <2>2 DEF FrameType
  <2> HIDE DEF r, q, c, g
  <2>5. EventFits(g, q) /\ Nested(q)
    BY <1>2, <2>2, <2>3, ConsedNested
  <2> DEFINE n == <<c>> \o q
  <2>6. Nested(n)
    <3>1. EventFits(c, q)
      BY <2>4, <2>5, FitsAlike
    <3> QED BY <2>3, <2>4, <2>5, <3>1, ConsedNested
  <2>7. \A e : /\ EndsIn(n, e) <=> EndsIn(r, e)
               /\ HoldsIn(n, e) <=> HoldsIn(r, e)
    BY <2>2, <2>3, <2>4, ConsedEnds
  <2>8. n[1] = c
    BY <2>3, <2>4, Consed
  <2>9. ~(c.in = "virtual" /\ c.pc = "override")
    BY <1>2, <2>2, <2>4 DEF CalledBy
  <2> HIDE DEF n
  <2>10. \A ev : Unkept(n, ev)
    BY <2>8, <2>9 DEF Unkept
  <2> QED BY <2>1, <2>6, <2>7, <2>10 DEF n, r
<1> QED BY <1>3, <1>4

-----------------------------------------------------------------------------
(* Steps.                                                                  *)

\* Steps that leave the calls and the events alone, other than what is kept.
LEMMA EventStackKept ==
    ASSUME EventInv, Inv', UNCHANGED stack,
           \A e \in Event : event'[e].live = event[e].live /\ event'[e].valid = event[e].valid,
           \A e \in Event : event'[e].kept = "current" =>
               event[e].valid /\ (event[e].kept = "current" \/
                                  \E t \in Thread : /\ stack[t] # <<>> /\ ~(stack[t][1].in = "virtual")
                                                    /\ EndsIn(stack[t], e))
    PROVE  EventInv'
<1>1. Apart'
  BY DEF EventInv, Apart
<1>2. EventsOK'
  BY DEF EventInv, EventsOK
<1>3. ASSUME NEW u \in Thread
      PROVE  Nested(stack'[u]) /\ Unkept(stack'[u], event')
  <2>1. Nested(stack[u]) /\ Unkept(stack[u], event)
    BY DEF EventInv
  <2> DEFINE s == stack[u]
  <2>2. SUFFICES ASSUME s # <<>>, s[1].in = "virtual", s[1].pc = "override", s[1].event # Nil,
                        ~IsConvertible(Param[s[1].method], s[1].out)
                 PROVE  event'[s[1].event].kept # "current"
    BY <2>1 DEF Unkept
  <2>3. event[s[1].event].kept # "current"
    BY <2>1, <2>2 DEF Unkept
  <2>4. s \in Seq(FrameType) /\ s[1] \in FrameType /\ 1 \in 1..Len(s)
    BY <2>2 DEF EventInv, Inv
  <2>5. s[1].event \in Event /\ HoldsIn(s, s[1].event)
    BY <2>2, <2>4 DEF FrameType, HoldsIn
  <2>6. EndsIn(s, s[1].event)
    BY <2>1, <2>4, <2>5, HoldsEnds
  <2> QED BY <2>2, <2>3, <2>5, <2>6 DEF EventInv, Apart
<1> QED BY <1>1, <1>2, <1>3 DEF EventInv

LEMMA AssignEvents ==
    ASSUME EventInv, NEW t \in Thread, Assign(t)
    PROVE  EventInv'
<1>1. Inv' /\ UNCHANGED <<stack, event>>
  BY AssignOK DEF EventInv, Assign
<1> QED BY <1>1, EventStackKept DEF EventInv, EventsOK

LEMMA KeepEvents ==
    ASSUME EventInv, NEW t \in Thread, Keep(t)
    PROVE  EventInv'
<1> DEFINE e == Top(t).event
<1>1. /\ Inv' /\ UNCHANGED stack /\ stack[t] # <<>> /\ Top(t).in = "python"
      /\ e # Nil /\ event[e].valid /\ event' = [event EXCEPT ![e].kept = "current"]
  BY KeepOK DEF EventInv, Keep, Running
<1>2. /\ Top(t) = stack[t][1] /\ Top(t) \in FrameType /\ Placed(Top(t))
      /\ EventFits(Top(t), Tail(stack[t])) /\ Top(t).event \in Event
      /\ \A x : EndsIn(stack[t], x) <=> Top(t).temp = x \/ EndsIn(Tail(stack[t]), x)
  <2>1. /\ Top(t) = stack[t][1] /\ Top(t) \in FrameType /\ Placed(Top(t))
        /\ EventFits(Top(t), Tail(stack[t]))
        /\ \A x : EndsIn(stack[t], x) <=> Top(t).temp = x \/ EndsIn(Tail(stack[t]), x)
    BY <1>1, EventNow
  <2>2. Top(t).event \in Event
    BY <1>1, <2>1 DEF FrameType
  <2> QED BY <2>1, <2>2
<1>3. EndsIn(stack[t], e)
  BY <1>1, <1>2 DEF EventFits
<1>4. \A x \in Event : /\ event'[x].live = event[x].live /\ event'[x].valid = event[x].valid
                       /\ x # e => event'[x] = event[x]
  BY <1>1, <1>2 DEF EventInv, Inv, Types, EventData
<1> HIDE DEF e
<1>5. \A x \in Event : event'[x].kept = "current" =>
          event[x].valid /\ (event[x].kept = "current" \/ x = e)
  BY <1>1, <1>4 DEF EventInv, EventsOK
<1> QED BY <1>1, <1>2, <1>3, <1>4, <1>5, EventStackKept

\* The arguments that hold the wrapper of an event are those of the calls.
LEMMA HoldersHold ==
    ASSUME Inv, NEW e \in Event
    PROVE  Holders(e) = {} <=> \A t \in Thread : ~HoldsIn(stack[t], e)
<1>1. \A t \in Thread : DOMAIN stack[t] = 1..Len(stack[t])
  BY DEF Inv
<1>2. ASSUME NEW t \in Thread, NEW i \in 1..Len(stack[t]),
             stack[t][i].pc = "override", stack[t][i].event = e
      PROVE  <<t, i>> \in Holders(e)
  BY <1>1, <1>2 DEF Holders
<1>3. ASSUME NEW h \in Holders(e)
      PROVE  \E t \in Thread : HoldsIn(stack[t], e)
  <2>1. PICK t \in Thread : \E i \in DOMAIN stack[t] : stack[t][i].pc = "override" /\ stack[t][i].event = e
    BY DEF Holders
  <2> QED BY <1>1, <2>1 DEF HoldsIn
<1> QED BY <1>2, <1>3 DEF HoldsIn

LEMMA ForgetEvents ==
    ASSUME EventInv, NEW t \in Thread, Forget(t)
    PROVE  EventInv'
<1>1. PICK e \in Event : event' = Collected([event EXCEPT ![e].kept = "no"], e, Holders(e))
  BY DEF Forget
<1>2. Inv' /\ Inv /\ UNCHANGED stack
  BY ForgetOK DEF EventInv, Forget
<1>3. event[e].valid <=> Holders(e) # {}
  BY <1>2, HoldersHold DEF EventInv, EventsOK
<1>4. event \in EventData
  BY <1>2 DEF Inv, Types
<1>5. \A x \in Event : /\ event'[x].live = event[x].live /\ event'[x].valid = event[x].valid
                       /\ event'[x].kept = "current" => event[x].kept = "current"
  BY <1>1, <1>3, <1>4 DEF Collected, EventData
<1> QED BY <1>2, <1>5, EventStackKept DEF EventInv, EventsOK

\* The latest call goes on as c: one that is no virtual method.
LEMMA GoesEvents ==
    ASSUME EventInv, Inv', NEW t \in Thread, stack[t] # <<>>, NEW c \in FrameType,
           stack' = Replaced(t, c), UNCHANGED event,
           c.event = Top(t).event, c.temp = Top(t).temp, c.pc # "override", Top(t).pc # "override",
           c.in # "virtual"
    PROVE  EventInv'
<1> DEFINE r == Below(t)
           n == <<c>> \o r
<1>1. /\ r \in Seq(FrameType) /\ Top(t) \in FrameType /\ EventFits(Top(t), r) /\ Nested(r)
      /\ \A e : EndsIn(stack[t], e) <=> Top(t).temp = e \/ EndsIn(r, e)
      /\ \A e : HoldsIn(stack[t], e) <=> (Top(t).pc = "override" /\ Top(t).event = e) \/ HoldsIn(r, e)
  BY EventNow, ZenonT(60)
<1>2. stack' = [stack EXCEPT ![t] = n]
  BY DEF Replaced
<1> HIDE DEF r
<1>3. EventFits(c, r)
  BY <1>1, FitsAlike
<1>4. Nested(n) /\ n[1] = c
  BY <1>1, <1>3, ConsedNested, Consed
<1>5. \A e : /\ EndsIn(n, e) <=> c.temp = e \/ EndsIn(r, e)
             /\ HoldsIn(n, e) <=> (c.pc = "override" /\ c.event = e) \/ HoldsIn(r, e)
  BY <1>1, ConsedEnds
<1> HIDE DEF n
<1>6. Unkept(n, event)
  BY <1>4 DEF Unkept
<1>7. \A e \in Event : /\ EndsIn(n, e) <=> EndsIn(stack[t], e)
                       /\ HoldsIn(n, e) <=> HoldsIn(stack[t], e)
  BY <1>1, <1>5
<1> QED BY <1>2, <1>4, <1>6, <1>7, QuietMoved

LEMMA CppLockEvents ==
    ASSUME EventInv, NEW t \in Thread, CppLock(t)
    PROVE  EventInv'
<1> DEFINE f == Top(t)
           c == [f EXCEPT !.pc = "locked"]
<1>1. stack[t] # <<>> /\ f.in = "cpp" /\ f.pc = "locks" /\ stack' = Replaced(t, c) /\ UNCHANGED event
  BY DEF CppLock, Running
<1>2. Inv' /\ f \in FrameType
  BY <1>1, CppLockOK, Now DEF EventInv
<1> HIDE DEF f
<1>3. c \in FrameType /\ c.event = f.event /\ c.temp = f.temp /\ c.pc = "locked" /\ c.in = "cpp"
  BY <1>1, <1>2 DEF FrameType
<1> HIDE DEF c
<1> QED BY <1>1, <1>2, <1>3, GoesEvents DEF f

LEMMA DeallocEvents ==
    ASSUME EventInv, NEW t \in Thread, Dealloc(t)
    PROVE  EventInv'
<1> DEFINE f == Top(t)
           c == [f EXCEPT !.pc = "dtor"]
<1>1. stack[t] # <<>> /\ f.in = "dealloc" /\ f.pc = "start" /\ stack' = Replaced(t, c) /\ UNCHANGED event
  BY DEF Dealloc, Running
<1>2. Inv' /\ f \in FrameType
  BY <1>1, DeallocOK, Now DEF EventInv
<1> HIDE DEF f
<1>3. c \in FrameType /\ c.event = f.event /\ c.temp = f.temp /\ c.pc = "dtor" /\ c.in = "dealloc"
  BY <1>1, <1>2 DEF FrameType
<1> HIDE DEF c
<1> QED BY <1>1, <1>2, <1>3, GoesEvents DEF f

LEMMA CppDtorEvents ==
    ASSUME EventInv, NEW t \in Thread, CppDtor(t)
    PROVE  EventInv'
<1> DEFINE f == Top(t)
           c == [f EXCEPT !.pc = "end"]
<1>1. stack[t] # <<>> /\ f.in = "dealloc" /\ f.pc = "dtor" /\ stack' = Replaced(t, c) /\ UNCHANGED event
  BY DEF CppDtor, Running
<1>2. Inv' /\ f \in FrameType
  BY <1>1, CppDtorOK, Now DEF EventInv
<1> HIDE DEF f
<1>3. c \in FrameType /\ c.event = f.event /\ c.temp = f.temp /\ c.pc = "end" /\ c.in = "dealloc"
  BY <1>1, <1>2 DEF FrameType
<1> HIDE DEF c
<1> QED BY <1>1, <1>2, <1>3, GoesEvents DEF f

\* A function of the binding, or a deallocation, returns to Python code.
LEMMA PopsEvents ==
    ASSUME EventInv, Inv', NEW t \in Thread, stack[t] # <<>>, Top(t).in \in {"binding", "dealloc"},
           stack' = [stack EXCEPT ![t] = Below(t)], UNCHANGED event
    PROVE  EventInv'
<1> DEFINE r == Below(t)
<1>1. /\ r \in Seq(FrameType) /\ Top(t) \in FrameType /\ Placed(Top(t)) /\ Nested(r)
      /\ r = Tail(stack[t]) /\ Top(t) = stack[t][1]
      /\ \A e : EndsIn(stack[t], e) <=> Top(t).temp = e \/ EndsIn(r, e)
      /\ \A e : HoldsIn(stack[t], e) <=> (Top(t).pc = "override" /\ Top(t).event = e) \/ HoldsIn(r, e)
  BY EventTop
<1>2. \A e \in Event : /\ EndsIn(r, e) <=> EndsIn(stack[t], e)
                       /\ HoldsIn(r, e) <=> HoldsIn(stack[t], e)
  <2>1. Top(t).temp = Nil /\ Top(t).pc # "override"
    BY <1>1 DEF Placed
  <2> QED BY <1>1, <2>1, VirtualCallAssumption
<1>3. Unkept(r, event)
  <2>1. r # <<>> => CalledBy(stack[t][1], r[1])
    <3>1. stack[t] \in Seq(FrameType) /\ Stacked(stack[t])
      BY DEF EventInv, Inv, ThreadOK
    <3> QED BY <1>1, <3>1, PoppedOK
  <2>2. r # <<>> => r[1].in # "virtual"
    BY <1>1, <2>1 DEF CalledBy
  <2> QED BY <2>2 DEF Unkept
<1> QED BY <1>1, <1>2, <1>3, QuietMoved

LEMMA BindingReturnEvents ==
    ASSUME EventInv, NEW t \in Thread, BindingReturn(t)
    PROVE  EventInv'
<1>1. /\ stack[t] # <<>> /\ Top(t).in = "binding" /\ UNCHANGED event
      /\ stack' = [stack EXCEPT ![t] = Below(t)]
  BY DEF BindingReturn, Running, ReturnsToPython
<1>2. Inv'
  BY BindingReturnOK DEF EventInv
<1> QED BY <1>1, <1>2, PopsEvents

LEMMA DeallocEndEvents ==
    ASSUME EventInv, NEW t \in Thread, DeallocEnd(t)
    PROVE  EventInv'
<1>1. /\ stack[t] # <<>> /\ Top(t).in = "dealloc" /\ UNCHANGED event
      /\ stack' = [stack EXCEPT ![t] = Below(t)]
  BY DEF DeallocEnd, Running
<1>2. Inv'
  BY DeallocEndOK DEF EventInv
<1> QED BY <1>1, <1>2, PopsEvents

LEMMA DropEvents ==
    ASSUME EventInv, NEW t \in Thread, Drop(t)
    PROVE  EventInv'
<1>1. PICK o \in Owned : stack' = Calls(t, <<Frame("dealloc", o, Nil)>>, Top(t))
  BY DEF Drop
<1>2. /\ stack[t] # <<>> /\ Top(t).in = "python" /\ UNCHANGED event /\ Inv'
  BY DropOK DEF EventInv, Drop, Running
<1> DEFINE f == Frame("dealloc", o, Nil)
           c == Top(t)
<1>3. f \in FrameType /\ f.in = "dealloc" /\ f.event = Nil /\ f.temp = Nil /\ f.pc = "start"
  BY FrameTyped, VirtualCallAssumption DEF Frame
<1> HIDE DEF f
<1>4. /\ Below(t) \in Seq(FrameType) /\ c \in FrameType /\ EventFits(c, Below(t)) /\ Placed(c)
      /\ \A e : EndsIn(stack[t], e) <=> c.temp = e \/ EndsIn(Below(t), e)
      /\ \A e : HoldsIn(stack[t], e) <=> (c.pc = "override" /\ c.event = e) \/ HoldsIn(Below(t), e)
  BY <1>2, EventTop
<1>5. EventFits(f, <<c>> \o Below(t))
  BY <1>3, FitsBorrowed
<1>6. stack' = Calls(t, <<f>>, c)
  BY <1>1 DEF f
<1> HIDE DEF c
<1>7. PICK n : /\ Calls(t, <<f>>, c) = [stack EXCEPT ![t] = n] /\ Nested(n)
               /\ n # <<>> /\ n[1] = f
               /\ \A e : EndsIn(n, e) <=> f.temp = e \/ c.temp = e \/ EndsIn(Below(t), e)
               /\ \A e : HoldsIn(n, e) <=> \/ f.pc = "override" /\ f.event = e
                                           \/ c.pc = "override" /\ c.event = e
                                           \/ HoldsIn(Below(t), e)
  BY <1>2, <1>3, <1>4, <1>5, EventPushed
<1>8. \A e \in Event : /\ EndsIn(n, e) <=> EndsIn(stack[t], e)
                       /\ HoldsIn(n, e) <=> HoldsIn(stack[t], e)
  BY <1>3, <1>4, <1>7, VirtualCallAssumption
<1>9. Unkept(n, event)
  BY <1>3, <1>7 DEF Unkept
<1> QED BY <1>2, <1>6, <1>7, <1>8, <1>9, QuietMoved

LEMMA WorkerStartEvents ==
    ASSUME EventInv, NEW t \in Thread, WorkerStart(t)
    PROVE  EventInv'
<1>1. PICK pc \in {"start", "locks"} :
          stack' = [stack EXCEPT ![t] = <<[Frame("cpp", Nil, Nil) EXCEPT !.pc = pc]>>]
  BY DEF WorkerStart
<1>2. Inv' /\ stack[t] = <<>> /\ UNCHANGED event
  BY WorkerStartOK DEF EventInv, WorkerStart
<1> DEFINE g == Frame("cpp", Nil, Nil)
           f == [g EXCEPT !.pc = pc]
           n == <<f>> \o <<>>
<1>3. g \in FrameType /\ g.in = "cpp" /\ g.temp = Nil /\ g.event = Nil
  BY FrameTyped DEF Frame
<1>4. f \in FrameType /\ f.in = "cpp" /\ f.temp = Nil /\ f.event = Nil /\ f.pc \in {"start", "locks"}
  <2> HIDE DEF g
  <2> QED BY <1>3 DEF FrameType
<1> HIDE DEF f
<1>5. stack' = [stack EXCEPT ![t] = n]
  BY <1>1, <1>4 DEF f
<1>6. <<>> \in Seq(FrameType) /\ Nested(<<>>) /\ \A e : ~EndsIn(<<>>, e) /\ ~HoldsIn(<<>>, e)
  BY DEF Nested, EndsIn, HoldsIn
<1>7. EventFits(f, <<>>)
  BY <1>4, FitsBorrowed
<1>8. Nested(n) /\ n[1] = f
  BY <1>4, <1>6, <1>7, ConsedNested, Consed
<1>9. \A e : /\ EndsIn(n, e) <=> f.temp = e \/ EndsIn(<<>>, e)
             /\ HoldsIn(n, e) <=> (f.pc = "override" /\ f.event = e) \/ HoldsIn(<<>>, e)
  BY <1>4, <1>6, ConsedEnds
<1> HIDE DEF n
<1>10. Unkept(n, event)
  BY <1>4, <1>8 DEF Unkept
<1>11. \A e \in Event : /\ EndsIn(n, e) <=> EndsIn(stack[t], e)
                        /\ HoldsIn(n, e) <=> HoldsIn(stack[t], e)
  BY <1>2, <1>4, <1>6, <1>9, VirtualCallAssumption
<1> QED BY <1>2, <1>5, <1>8, <1>10, <1>11, QuietMoved

\* What a call of the same thread looks like to the events when it goes on as c.
LEMMA SameEvents ==
    ASSUME NEW c \in FrameType, NEW f \in FrameType, NEW r, EventFits(f, r), Same(c, f),
           c.pc # "override", f.pc # "override"
    PROVE  /\ c.temp = f.temp /\ EventFits(c, r)
           /\ \A e : ~(c.pc = "override" /\ c.event = e) /\ ~(f.pc = "override" /\ f.event = e)
  BY DEF Same, EventFits

\* The event of a call is one that it or a call below ends.
LEMMA EventEnds ==
    ASSUME NEW c \in FrameType, NEW r \in Seq(FrameType), EventFits(c, r), c.event # Nil
    PROVE  EndsIn(<<c>> \o r, c.event)
  BY ConsedEnds DEF EventFits

LEMMA VirtualBaseEvents ==
    ASSUME EventInv, NEW t \in Thread, VirtualBase(t)
    PROVE  EventInv'
<1> DEFINE f == Top(t)
           g == CppFrame(f.obj, f.method)
           x == [g EXCEPT !.items = f.items, !.meant = f.meant, !.event = f.event]
           c == [f EXCEPT !.pc = "base", !.had = gil = t]
<1>1. /\ stack[t] # <<>> /\ f.in = "virtual" /\ f.pc = "start" /\ UNCHANGED event
      /\ stack' = Calls(t, <<x>>, c)
  BY DEF VirtualBase, BaseCalled, Running
<1>2. Inv' /\ Inv
  BY VirtualBaseOK DEF EventInv
<1>3. /\ f \in FrameType /\ Below(t) \in Seq(FrameType) /\ EventFits(f, Below(t)) /\ Placed(f)
      /\ \A e : EndsIn(stack[t], e) <=> f.temp = e \/ EndsIn(Below(t), e)
      /\ \A e : HoldsIn(stack[t], e) <=> (f.pc = "override" /\ f.event = e) \/ HoldsIn(Below(t), e)
  BY <1>1, EventTop
<1>4. f.obj \in Obj /\ f.method \in Method
  BY <1>1, <1>3, VirtualCallAssumption DEF Placed
<1>5. g \in FrameType /\ g.in = "cpp" /\ g.pc \in {"start", "locks"} /\ g.temp = Nil
  BY <1>4, CppFrameTyped
<1> HIDE DEF f, g
<1>6. /\ x \in FrameType /\ x.in = "cpp" /\ x.pc \in {"start", "locks"} /\ x.temp = Nil
      /\ x.event = f.event
  BY <1>3, <1>5, ZenonT(60) DEF FrameType
<1>7. c \in FrameType /\ c.in = "virtual" /\ c.pc = "base" /\ Same(c, f) /\ c.event = f.event
  BY <1>1, <1>3 DEF FrameType, Same
<1> HIDE DEF x, c
<1>8. /\ c.temp = f.temp /\ EventFits(c, Below(t))
      /\ \A e : ~(c.pc = "override" /\ c.event = e) /\ ~(f.pc = "override" /\ f.event = e)
  BY <1>1, <1>3, <1>7, SameEvents
<1>9. EventFits(x, <<c>> \o Below(t))
  <2>1. c.event # Nil => EndsIn(<<c>> \o Below(t), c.event)
    BY <1>3, <1>7, <1>8, EventEnds
  <2> QED BY <1>6, <1>7, <2>1, FitsBorrowed
<1>10. PICK n : /\ Calls(t, <<x>>, c) = [stack EXCEPT ![t] = n] /\ Nested(n)
                /\ n # <<>> /\ n[1] = x
                /\ \A e : EndsIn(n, e) <=> x.temp = e \/ c.temp = e \/ EndsIn(Below(t), e)
                /\ \A e : HoldsIn(n, e) <=> \/ x.pc = "override" /\ x.event = e
                                            \/ c.pc = "override" /\ c.event = e
                                            \/ HoldsIn(Below(t), e)
  BY <1>1, <1>6, <1>7, <1>8, <1>9, EventPushed
<1>11. \A e \in Event : /\ EndsIn(n, e) <=> EndsIn(stack[t], e)
                        /\ HoldsIn(n, e) <=> HoldsIn(stack[t], e)
  BY <1>3, <1>6, <1>8, <1>10, VirtualCallAssumption
<1>12. Unkept(n, event)
  BY <1>6, <1>10 DEF Unkept
<1> QED BY <1>1, <1>2, <1>10, <1>11, <1>12, QuietMoved

\* The wrappers that the arguments hold of an event that the thread t ends are
\* those of its calls.
LEMMA HoldersMine ==
    ASSUME EventInv, NEW t \in Thread, NEW e \in Event, EndsIn(stack[t], e)
    PROVE  /\ Holders(e) = {} <=> ~HoldsIn(stack[t], e)
           /\ event[e].valid <=> HoldsIn(stack[t], e)
<1>1. ASSUME NEW u \in Thread, HoldsIn(stack[u], e)
      PROVE  u = t
  <2>1. stack[u] \in Seq(FrameType) /\ Nested(stack[u])
    BY EventNow
  <2>2. EndsIn(stack[u], e)
    BY <1>1, <2>1, HoldsEnds
  <2> QED BY <2>2 DEF EventInv, Apart
<1>2. Holders(e) = {} <=> \A u \in Thread : ~HoldsIn(stack[u], e)
  BY HoldersHold DEF EventInv
<1>3. event[e].valid <=> \E u \in Thread : HoldsIn(stack[u], e)
  BY DEF EventInv, EventsOK
<1> QED BY <1>1, <1>2, <1>3

LEMMA VirtualOverrideEvents ==
    ASSUME EventInv, NEW t \in Thread, VirtualOverride(t)
    PROVE  EventInv'
<1> DEFINE f == Top(t)
           g == Frame("python", Bound(f.obj, f.method), f.method)
           x == [g EXCEPT !.event = f.event]
           c == [f EXCEPT !.pc = "override", !.had = gil = t, !.reset = InvalidateArg(f.event)]
<1>1. /\ stack[t] # <<>> /\ f.in = "virtual" /\ f.pc = "start"
      /\ stack' = Calls(t, <<x>>, c)
      /\ event' = IF f.event = Nil THEN event ELSE [event EXCEPT ![f.event].valid = TRUE]
  BY DEF VirtualOverride, Running
<1>2. Inv' /\ Inv /\ event \in EventData
  BY VirtualOverrideOK DEF EventInv, Inv, Types
<1>3. /\ f \in FrameType /\ Below(t) \in Seq(FrameType) /\ EventFits(f, Below(t)) /\ Placed(f)
      /\ \A e : EndsIn(stack[t], e) <=> f.temp = e \/ EndsIn(Below(t), e)
      /\ \A e : HoldsIn(stack[t], e) <=> (f.pc = "override" /\ f.event = e) \/ HoldsIn(Below(t), e)
  BY <1>1, EventTop
<1>4. /\ f.obj \in Obj /\ f.method \in Method /\ f.event \in Event \cup {Nil}
      /\ Bound(f.obj, f.method) \in Obj \cup {Nil} /\ InvalidateArg(f.event) \in BOOLEAN
  <2>1. f.obj \in Obj /\ f.method \in Method /\ f.event \in Event \cup {Nil}
    BY <1>1, <1>3, VirtualCallAssumption DEF Placed, FrameType
  <2> HIDE DEF f
  <2> QED BY <1>2, <2>1 DEF Bound, InvalidateArg, EventData
<1>5. ASSUME f.event # Nil
      PROVE  /\ EndsIn(stack[t], f.event) /\ f.event \in Event
             /\ InvalidateArg(f.event) <=> ~HoldsIn(Below(t), f.event)
  <2>1. EndsIn(stack[t], f.event) /\ f.event \in Event
    BY <1>3, <1>4, <1>5 DEF EventFits
  <2>2. /\ Holders(f.event) = {} <=> ~HoldsIn(stack[t], f.event)
        /\ event[f.event].valid <=> HoldsIn(stack[t], f.event)
    BY <2>1, HoldersMine
  <2>3. event[f.event].kept = "current" => event[f.event].valid
    BY <2>1 DEF EventInv, EventsOK
  <2>4. HoldsIn(stack[t], f.event) <=> HoldsIn(Below(t), f.event)
    BY <1>1, <1>3
  <2> HIDE DEF f
  <2> QED BY <1>5, <2>1, <2>2, <2>3, <2>4 DEF InvalidateArg
<1> HIDE DEF f
<1>6. g \in FrameType /\ g.in = "python" /\ g.pc = "start" /\ g.temp = Nil
  BY <1>4, FrameTyped DEF Frame
<1> HIDE DEF g
<1>7. x \in FrameType /\ x.in = "python" /\ x.pc = "start" /\ x.temp = Nil /\ x.event = f.event
  BY <1>4, <1>6 DEF FrameType
<1>8. /\ c \in FrameType /\ c.pc = "override" /\ c.event = f.event /\ c.temp = f.temp
      /\ c.reset = InvalidateArg(f.event)
  BY <1>3, <1>4 DEF FrameType
<1> HIDE DEF x, c
<1>9. EventFits(c, Below(t))
  BY <1>3, <1>5, <1>8 DEF EventFits
<1>10. EventFits(x, <<c>> \o Below(t))
  <2>1. c.event # Nil => EndsIn(<<c>> \o Below(t), c.event)
    BY <1>3, <1>8, <1>9, EventEnds
  <2> QED BY <1>7, <1>8, <2>1, FitsBorrowed
<1>11. PICK n : /\ Calls(t, <<x>>, c) = [stack EXCEPT ![t] = n] /\ Nested(n)
                /\ n # <<>> /\ n[1] = x
                /\ \A e : EndsIn(n, e) <=> x.temp = e \/ c.temp = e \/ EndsIn(Below(t), e)
                /\ \A e : HoldsIn(n, e) <=> \/ x.pc = "override" /\ x.event = e
                                            \/ c.pc = "override" /\ c.event = e
                                            \/ HoldsIn(Below(t), e)
  BY <1>1, <1>7, <1>8, <1>9, <1>10, EventPushed, ZenonT(60)
<1>12. \A e \in Event : EndsIn(n, e) <=> EndsIn(stack[t], e)
  BY <1>3, <1>7, <1>8, <1>11, VirtualCallAssumption
<1>13. \A e \in Event : HoldsIn(n, e) <=> e = f.event \/ HoldsIn(stack[t], e)
  BY <1>1, <1>3, <1>7, <1>8, <1>11
<1>14. \A e \in Event : /\ event'[e].live = event[e].live /\ event'[e].kept = event[e].kept
                        /\ event'[e].valid <=> e = f.event \/ event[e].valid
  BY <1>1, <1>2, VirtualCallAssumption DEF EventData
<1>15. Unkept(n, event')
  BY <1>7, <1>11 DEF Unkept
<1>16. \A e \in Event : /\ event[e].live <=> \E u \in Thread : EndsIn(stack[u], e)
                        /\ event[e].valid <=> \E u \in Thread : HoldsIn(stack[u], e)
                        /\ event[e].kept = "current" => event[e].valid
  BY DEF EventInv, EventsOK
<1>17. stack' = [stack EXCEPT ![t] = n]
  BY <1>1, <1>11
<1>18. \A e \in Event :
           /\ EndsIn(n, e) => EndsIn(stack[t], e) \/ ~event[e].live
           /\ event'[e].live <=> EndsIn(n, e) \/ (event[e].live /\ ~EndsIn(stack[t], e))
           /\ event'[e].valid <=> HoldsIn(n, e) \/ (event[e].valid /\ ~HoldsIn(stack[t], e))
           /\ event'[e].kept = "current" =>
                 event'[e].valid /\ (event[e].kept = "current" \/ HoldsIn(stack[t], e))
  BY <1>12, <1>13, <1>14, <1>16
<1> QED BY <1>2, <1>11, <1>15, <1>17, <1>18, EventMoved

LEMMA CppCallEvents ==
    ASSUME EventInv, NEW t \in Thread, CppCall(t)
    PROVE  EventInv'
<1> DEFINE c == Caller(t)
<1>1. stack[t] # <<>> /\ Top(t).in = "cpp" /\ Top(t).left > 0
  BY DEF CppCall, Running
<1>2. Inv' /\ Inv /\ event \in EventData
  BY CppCallOK DEF EventInv, Inv, Types
<1>3. /\ Top(t) \in FrameType /\ Below(t) \in Seq(FrameType) /\ EventFits(Top(t), Below(t))
      /\ Placed(Top(t))
      /\ \A e : EndsIn(stack[t], e) <=> Top(t).temp = e \/ EndsIn(Below(t), e)
      /\ \A e : HoldsIn(stack[t], e) <=> (Top(t).pc = "override" /\ Top(t).event = e) \/ HoldsIn(Below(t), e)
  BY <1>1, EventTop
<1>4. c \in FrameType /\ Same(c, Top(t)) /\ c.pc = Top(t).pc /\ Placed(c)
  BY <1>1, <1>2, CallerTyped
<1>5. PICK o \in Shell, m \in Method :
         \E e \in IF m \in TakesEvent
                  THEN {x \in Event : x = Top(t).event \/ ~event[x].live} ELSE {Nil} :
         LET new == e # Nil /\ e # Top(t).event IN
         /\ stack' = Calls(t, <<[Frame("virtual", o, m) EXCEPT
                                  !.items = c.items, !.meant = c.meant, !.event = e,
                                  !.temp = IF new THEN e ELSE Nil]>>, c)
         /\ event' = IF new THEN [event EXCEPT ![e].live = TRUE] ELSE event
  BY DEF CppCall
<1>6. PICK e \in Event \cup {Nil} :
         LET new == e # Nil /\ e # Top(t).event IN
         /\ stack' = Calls(t, <<[Frame("virtual", o, m) EXCEPT
                                  !.items = c.items, !.meant = c.meant, !.event = e,
                                  !.temp = IF new THEN e ELSE Nil]>>, c)
         /\ event' = IF new THEN [event EXCEPT ![e].live = TRUE] ELSE event
         /\ new => ~event[e].live
  BY <1>5
<1> DEFINE g == Frame("virtual", o, m)
           p == IF e # Nil /\ e # Top(t).event THEN e ELSE Nil
           f == [g EXCEPT !.items = c.items, !.meant = c.meant, !.event = e, !.temp = p]
<1>7. g \in FrameType /\ g.in = "virtual" /\ g.pc = "start"
  BY FrameTyped, VirtualCallAssumption DEF Frame
<1>8. /\ stack' = Calls(t, <<f>>, c) /\ p \in {e, Nil}
      /\ p = Nil => e \in {Nil, Top(t).event} /\ event' = event
      /\ p # Nil => event' = [event EXCEPT ![p].live = TRUE] /\ p = e /\ p \in Event /\ ~event[p].live
  BY <1>6
<1>9. c.items \in Seq(Int) /\ c.meant \in Seq(Int) /\ c.in = "cpp" /\ c.event = Top(t).event
  <2>1. c.in = "cpp" /\ c.event = Top(t).event
    BY <1>1, <1>4 DEF Same
  <2> HIDE DEF c
  <2> QED BY <1>4, <2>1 DEF FrameType
<1> HIDE DEF g, c, p
<1>10. /\ f \in FrameType /\ f.in = "virtual" /\ f.pc = "start" /\ f.event = e /\ f.temp = p
  BY <1>7, <1>8, <1>9 DEF FrameType
<1> HIDE DEF f
<1>11. /\ c.temp = Top(t).temp /\ EventFits(c, Below(t))
       /\ \A x : ~(c.pc = "override" /\ c.event = x) /\ ~(Top(t).pc = "override" /\ Top(t).event = x)
  <2>1. c.pc # "override" /\ Top(t).pc # "override"
    BY <1>1, <1>3, <1>4 DEF Placed
  <2> QED BY <1>3, <1>4, <2>1, SameEvents
<1>12. \A x \in Event : (c.temp = x \/ EndsIn(Below(t), x)) <=> EndsIn(stack[t], x)
  BY <1>3, <1>11
<1>13. \A x : EndsIn(<<c>> \o Below(t), x) <=> c.temp = x \/ EndsIn(Below(t), x)
  BY <1>3, <1>4, ConsedEnds
<1>14. \A x \in Event : /\ event[x].live <=> \E u \in Thread : EndsIn(stack[u], x)
                        /\ event[x].valid <=> \E u \in Thread : HoldsIn(stack[u], x)
                        /\ event[x].kept = "current" => event[x].valid
  BY DEF EventInv, EventsOK
<1>15. EventFits(f, <<c>> \o Below(t))
  <2>1. CASE p = Nil
    <3>1. f.event # Nil => EndsIn(<<c>> \o Below(t), f.event)
      <4>1. c.event # Nil => EndsIn(<<c>> \o Below(t), c.event)
        BY <1>3, <1>4, <1>11, EventEnds
      <4> QED BY <1>8, <1>9, <1>10, <2>1, <4>1
    <3> QED BY <1>10, <2>1, <3>1, FitsBorrowed
  <2>2. CASE p # Nil
    <3>1. ~EndsIn(<<c>> \o Below(t), p)
      BY <1>8, <1>12, <1>13, <1>14, <2>2
    <3> QED BY <1>8, <1>10, <2>2, <3>1 DEF EventFits
  <2> QED BY <2>1, <2>2
<1>16. PICK n : /\ Calls(t, <<f>>, c) = [stack EXCEPT ![t] = n] /\ Nested(n)
                /\ n # <<>> /\ n[1] = f
                /\ \A x : EndsIn(n, x) <=> f.temp = x \/ c.temp = x \/ EndsIn(Below(t), x)
                /\ \A x : HoldsIn(n, x) <=> \/ f.pc = "override" /\ f.event = x
                                            \/ c.pc = "override" /\ c.event = x
                                            \/ HoldsIn(Below(t), x)
  BY <1>1, <1>4, <1>10, <1>11, <1>15, EventPushed
<1>17. \A x \in Event : /\ EndsIn(n, x) <=> p = x \/ EndsIn(stack[t], x)
                        /\ HoldsIn(n, x) <=> HoldsIn(stack[t], x)
  BY <1>3, <1>10, <1>11, <1>12, <1>16
<1>18. \A x \in Event : /\ event'[x].valid = event[x].valid /\ event'[x].kept = event[x].kept
                        /\ event'[x].live <=> p = x \/ event[x].live
                        /\ p = x => ~event[x].live
  <2>1. CASE p = Nil
    BY <1>8, <2>1, VirtualCallAssumption
  <2>2. CASE p # Nil
    BY <1>2, <1>8, <2>2 DEF EventData
  <2> QED BY <2>1, <2>2
<1>19. Unkept(n, event')
  BY <1>10, <1>16 DEF Unkept
<1>20. stack' = [stack EXCEPT ![t] = n]
  BY <1>8, <1>16
<1>21. \A x \in Event :
           /\ EndsIn(n, x) => EndsIn(stack[t], x) \/ ~event[x].live
           /\ event'[x].live <=> EndsIn(n, x) \/ (event[x].live /\ ~EndsIn(stack[t], x))
           /\ event'[x].valid <=> HoldsIn(n, x) \/ (event[x].valid /\ ~HoldsIn(stack[t], x))
           /\ event'[x].kept = "current" =>
                 event'[x].valid /\ (event[x].kept = "current" \/ HoldsIn(stack[t], x))
  BY <1>14, <1>17, <1>18
<1> QED BY <1>2, <1>16, <1>19, <1>20, <1>21, EventMoved

\* An event that Python code passes is one that its thread was given.
LEMMA BindingCallEvents ==
    ASSUME EventInv, NEW t \in Thread, BindingCall(t), "share-event" \notin Tags
    PROVE  EventInv'
<1> DEFINE c == Caller(t)
<1>1. stack[t] # <<>> /\ Top(t).in = "python" /\ Top(t).left > 0 /\ UNCHANGED event
  BY DEF BindingCall, Running
<1>2. Inv' /\ Inv
  BY BindingCallOK DEF EventInv
<1>3. /\ Top(t) \in FrameType /\ Below(t) \in Seq(FrameType) /\ EventFits(Top(t), Below(t))
      /\ Placed(Top(t)) /\ Nested(Below(t))
      /\ \A e : EndsIn(stack[t], e) <=> Top(t).temp = e \/ EndsIn(Below(t), e)
      /\ \A e : HoldsIn(stack[t], e) <=> (Top(t).pc = "override" /\ Top(t).event = e) \/ HoldsIn(Below(t), e)
  BY <1>1, EventTop
<1>4. c \in FrameType /\ Same(c, Top(t)) /\ c.pc = Top(t).pc /\ Placed(c)
  BY <1>1, <1>2, CallerTyped
<1>5. PICK o \in Obj, m \in Method, value \in Value, e \in Event \cup {Nil} : BindingCalls(t, o, m, value, e)
  BY BindingCallSteps
<1> HIDE DEF c
<1> DEFINE b == Frame("binding", o, m)
<1>6. b \in FrameType /\ b.in = "binding" /\ b.pc = "start" /\ b.event = Nil /\ b.temp = Nil
  BY FrameTyped DEF Frame
<1> HIDE DEF b
<1>7. /\ c.temp = Top(t).temp /\ EventFits(c, Below(t))
      /\ \A x : ~(c.pc = "override" /\ c.event = x) /\ ~(Top(t).pc = "override" /\ Top(t).event = x)
  <2>1. c.pc # "override" /\ Top(t).pc # "override"
    BY <1>1, <1>3, <1>4 DEF Placed
  <2> QED BY <1>3, <1>4, <2>1, SameEvents
<1>8. EventFits(b, <<c>> \o Below(t))
  BY <1>6, FitsBorrowed
<1>9. CASE stack' = Calls(t, <<b>>, c)
  <2>1. PICK n : /\ Calls(t, <<b>>, c) = [stack EXCEPT ![t] = n] /\ Nested(n)
                 /\ n # <<>> /\ n[1] = b
                 /\ \A x : EndsIn(n, x) <=> b.temp = x \/ c.temp = x \/ EndsIn(Below(t), x)
                 /\ \A x : HoldsIn(n, x) <=> \/ b.pc = "override" /\ b.event = x
                                             \/ c.pc = "override" /\ c.event = x
                                             \/ HoldsIn(Below(t), x)
    BY <1>1, <1>4, <1>6, <1>7, <1>8, EventPushed
  <2>2. \A x \in Event : /\ EndsIn(n, x) <=> EndsIn(stack[t], x)
                         /\ HoldsIn(n, x) <=> HoldsIn(stack[t], x)
    BY <1>3, <1>6, <1>7, <2>1, VirtualCallAssumption
  <2>3. Unkept(n, event)
    BY <1>6, <2>1 DEF Unkept
  <2> QED BY <1>1, <1>2, <1>9, <2>1, <2>2, <2>3, QuietMoved
<1>10. ASSUME NEW d \in ToCpp(Param[m], value), e = Nil \/ Given(t, e),
              stack' = Calls(t, <<[CppFrame(o, m) EXCEPT
                                     !.items = d.items, !.meant = ValuesOf(value), !.event = e], b>>, c)
       PROVE  EventInv'
  <2> DEFINE g == CppFrame(o, m)
             f == [g EXCEPT !.items = d.items, !.meant = ValuesOf(value), !.event = e]
             r == <<c>> \o Below(t)
             q == <<b>> \o r
             n == <<f>> \o q
  <2>1. g \in FrameType /\ g.in = "cpp" /\ g.pc \in {"start", "locks"} /\ g.temp = Nil
    BY CppFrameTyped
  <2>2. d.items \in Seq(Int) /\ ValuesOf(value) \in Seq(Int)
    BY VirtualCallAssumption, ToCppTyped
  <2>3. /\ f \in FrameType /\ f.in = "cpp" /\ f.pc \in {"start", "locks"} /\ f.temp = Nil /\ f.event = e
    <3> HIDE DEF g
    <3> QED BY <2>1, <2>2 DEF FrameType
  <2>4. stack' = Calls(t, <<f, b>>, c)
    BY <1>10
  <2> HIDE DEF f, g
  <2>5. stack' = [stack EXCEPT ![t] = n]
    <3>1. <<f>> \in Seq(FrameType) /\ <<b>> \in Seq(FrameType) /\ <<c>> \in Seq(FrameType)
          /\ <<f, b>> = <<f>> \o <<b>>
      BY <1>4, <1>6, <2>3
    <3>2. <<b>> \o <<c>> \in Seq(FrameType) /\ r \in Seq(FrameType)
      BY <1>3, <3>1
    <3>3. <<f, b>> \o <<c>> \o Below(t) = <<f, b>> \o r
      BY <1>3, <3>1, ConcatAssociative
    <3>4. (<<f>> \o <<b>>) \o r = <<f>> \o (<<b>> \o r)
      BY <3>1, <3>2, ConcatAssociative
    <3> QED BY <2>4, <3>1, <3>3, <3>4 DEF Calls
  <2>6. r \in Seq(FrameType) /\ Nested(r)
    BY <1>3, <1>4, <1>7, Consed, ConsedNested
  <2>7. \A x : /\ EndsIn(r, x) <=> c.temp = x \/ EndsIn(Below(t), x)
               /\ HoldsIn(r, x) <=> (c.pc = "override" /\ c.event = x) \/ HoldsIn(Below(t), x)
    BY <1>3, <1>4, ConsedEnds
  <2>8. EventFits(b, r)
    BY <1>8
  <2> HIDE DEF r
  <2>9. q \in Seq(FrameType) /\ Nested(q)
    BY <1>6, <2>6, <2>8, Consed, ConsedNested
  <2>10. \A x : /\ EndsIn(q, x) <=> b.temp = x \/ EndsIn(r, x)
                /\ HoldsIn(q, x) <=> (b.pc = "override" /\ b.event = x) \/ HoldsIn(r, x)
    BY <1>6, <2>6, ConsedEnds
  <2> HIDE DEF q
  <2>11. e # Nil => EndsIn(q, e)
    <3> SUFFICES ASSUME e # Nil
                 PROVE  EndsIn(q, e)
      OBVIOUS
    <3>1. PICK h \in Frames(t) : h.temp = e
      BY <1>10 DEF Given
    <3>2. DOMAIN stack[t] = 1..Len(stack[t])
      BY <1>2 DEF Inv
    <3>3. EndsIn(stack[t], e)
      BY <3>1, <3>2 DEF Frames, EndsIn
    <3>4. Top(t).temp = e \/ EndsIn(Below(t), e)
      BY <1>3, <3>3
    <3>5. EndsIn(r, e)
      BY <1>7, <2>7, <3>4
    <3> QED BY <2>10, <3>5
  <2>12. EventFits(f, q)
    BY <2>3, <2>11, FitsBorrowed
  <2>13. Nested(n) /\ n[1] = f
    BY <2>3, <2>9, <2>12, Consed, ConsedNested
  <2>14. \A x : /\ EndsIn(n, x) <=> f.temp = x \/ EndsIn(q, x)
                /\ HoldsIn(n, x) <=> (f.pc = "override" /\ f.event = x) \/ HoldsIn(q, x)
    BY <2>3, <2>9, ConsedEnds
  <2> HIDE DEF n
  <2>15. \A x \in Event : /\ EndsIn(n, x) <=> EndsIn(stack[t], x)
                          /\ HoldsIn(n, x) <=> HoldsIn(stack[t], x)
    <3> SUFFICES ASSUME NEW x \in Event
                 PROVE  /\ EndsIn(n, x) <=> EndsIn(stack[t], x)
                        /\ HoldsIn(n, x) <=> HoldsIn(stack[t], x)
      OBVIOUS
    <3>1. x # Nil
      BY VirtualCallAssumption
    <3>2. EndsIn(n, x) <=> EndsIn(q, x)
      BY <2>3, <2>14, <3>1
    <3>3. EndsIn(q, x) <=> EndsIn(r, x)
      BY <1>6, <2>10, <3>1
    <3>4. EndsIn(r, x) <=> EndsIn(stack[t], x)
      <4>1. EndsIn(r, x) <=> Top(t).temp = x \/ EndsIn(Below(t), x)
        BY <1>7, <2>7
      <4> QED BY <1>3, <4>1
    <3>5. HoldsIn(n, x) <=> HoldsIn(q, x)
      BY <2>3, <2>14
    <3>6. HoldsIn(q, x) <=> HoldsIn(r, x)
      BY <1>6, <2>10
    <3>7. HoldsIn(r, x) <=> HoldsIn(stack[t], x)
      <4>1. HoldsIn(r, x) <=> HoldsIn(Below(t), x)
        BY <1>7, <2>7
      <4> QED BY <1>3, <1>7, <4>1
    <3> QED BY <3>2, <3>3, <3>4, <3>5, <3>6, <3>7
  <2>16. Unkept(n, event)
    BY <2>3, <2>13 DEF Unkept
  <2> QED BY <1>1, <1>2, <2>5, <2>13, <2>15, <2>16, QuietMoved
<1> QED BY <1>5, <1>9, <1>10 DEF b, c, BindingCalls

\* An override that returns nothing its method returns has not kept its event.
LEMMA PythonReturnEvents ==
    ASSUME EventInv, NEW t \in Thread, PythonReturn(t), "keep-and-fail" \notin Tags
    PROVE  EventInv'
<1> DEFINE r == Below(t)
           q == Tail(r)
           f == Top(t)
<1>1. stack[t] # <<>> /\ f.in = "python" /\ r # <<>> /\ UNCHANGED event
  BY DEF PythonReturn, Running
<1>2. Inv' /\ Inv
  BY PythonReturnOK DEF EventInv
<1>3. /\ f \in FrameType /\ r \in Seq(FrameType) /\ EventFits(f, r) /\ Placed(f) /\ Nested(r)
      /\ f = stack[t][1] /\ r = Tail(stack[t])
      /\ \A e : EndsIn(stack[t], e) <=> f.temp = e \/ EndsIn(r, e)
      /\ \A e : HoldsIn(stack[t], e) <=> (f.pc = "override" /\ f.event = e) \/ HoldsIn(r, e)
  BY <1>1, EventTop
<1>4. PICK value \in PyValue :
          /\ stack' = ReturnsToVirtual(t, value)
          /\ \/ IsConvertible(Param[f.method], value)
             \/ ~(f.event # Nil /\ event[f.event].kept = "current")
  <2>1. NoValue \in PyValue /\ RaisedValue \in PyValue /\ Value \subseteq PyValue
    BY VirtualCallAssumption DEF NoValue, RaisedValue, PyValue
  <2> QED BY <2>1 DEF PythonReturn
<1> DEFINE g == stack[t][2]
           c == [g EXCEPT !.out = value]
           n == <<c>> \o q
<1>5. CalledBy(f, g) /\ Placed(g) /\ g \in FrameType /\ r[1] = g /\ Head(r) = g
  <2>1. Len(stack[t]) > 1 /\ CalledBy(stack[t][1], g) /\ Placed(g) /\ g \in FrameType /\ Head(r) = g
    BY <1>1, <1>2, Now
  <2> QED BY <1>1, <1>3, <2>1
<1>6. stack' = [stack EXCEPT ![t] = n]
  BY <1>4, <1>5 DEF ReturnsToVirtual
<1>7. q \in Seq(FrameType) /\ r = <<g>> \o q
  BY <1>1, <1>3, <1>5, Split
<1> HIDE DEF r, q, f, g
<1>8. /\ c \in FrameType /\ c.in = g.in /\ c.pc = g.pc /\ c.event = g.event /\ c.temp = g.temp
      /\ c.method = g.method /\ c.reset = g.reset /\ c.out = value
  BY <1>4, <1>5 DEF FrameType
<1>9. g.in = "virtual" /\ g.pc = "override" /\ g.event = f.event /\ g.method = f.method
  BY <1>1, <1>5 DEF CalledBy, FrameType
<1> HIDE DEF c
<1>10. EventFits(g, q) /\ Nested(q)
  BY <1>3, <1>5, <1>7, ConsedNested, ZenonT(60)
<1>11. Nested(n) /\ n[1] = c
  <2>1. EventFits(c, q)
    BY <1>8, <1>10, FitsAlike
  <2> QED BY <1>7, <1>8, <1>10, <2>1, ConsedNested, Consed
<1>12. \A e : /\ EndsIn(n, e) <=> c.temp = e \/ EndsIn(q, e)
              /\ HoldsIn(n, e) <=> (c.pc = "override" /\ c.event = e) \/ HoldsIn(q, e)
  BY <1>7, <1>8, ConsedEnds
<1>13. \A e : /\ EndsIn(r, e) <=> g.temp = e \/ EndsIn(q, e)
              /\ HoldsIn(r, e) <=> (g.pc = "override" /\ g.event = e) \/ HoldsIn(q, e)
  BY <1>5, <1>7, ConsedEnds
<1> HIDE DEF n
<1>14. \A e \in Event : /\ EndsIn(n, e) <=> EndsIn(stack[t], e)
                        /\ HoldsIn(n, e) <=> HoldsIn(stack[t], e)
  <2>1. f.temp = Nil /\ f.pc # "override"
    BY <1>1, <1>3 DEF Placed
  <2> SUFFICES ASSUME NEW e \in Event
               PROVE  /\ EndsIn(n, e) <=> EndsIn(stack[t], e)
                      /\ HoldsIn(n, e) <=> HoldsIn(stack[t], e)
    OBVIOUS
  <2>2. EndsIn(n, e) <=> EndsIn(r, e)
    BY <1>8, <1>12, <1>13
  <2>3. HoldsIn(n, e) <=> HoldsIn(r, e)
    BY <1>8, <1>12, <1>13
  <2>4. EndsIn(r, e) <=> EndsIn(stack[t], e)
    BY <1>3, <2>1, VirtualCallAssumption
  <2>5. HoldsIn(r, e) <=> HoldsIn(stack[t], e)
    BY <1>3, <2>1
  <2> QED BY <2>2, <2>3, <2>4, <2>5
<1>15. Unkept(n, event)
  BY <1>4, <1>8, <1>9, <1>11 DEF Unkept
<1> QED BY <1>1, <1>2, <1>6, <1>11, <1>14, <1>15, QuietMoved

\* A call that has no wrapper in its arguments ends, and its event with it.
LEMMA EndedEvents ==
    ASSUME EventInv, Inv', NEW t \in Thread, Running(t, "cpp") \/ Running(t, "virtual"),
           Top(t).pc # "override",
           NEW items \in Seq(Int), NEW meant \in Seq(Int), stack' = ReturnsToCpp(t, items, meant),
           event' = Ended(event, Top(t))
    PROVE  EventInv'
<1> DEFINE f == Top(t)
           r == Below(t)
<1>1. stack[t] # <<>> /\ event \in EventData
  BY DEF Running, EventInv, Inv, Types
<1>2. /\ f \in FrameType /\ EventFits(f, r)
      /\ \A e : EndsIn(stack[t], e) <=> f.temp = e \/ EndsIn(r, e)
      /\ \A e : HoldsIn(stack[t], e) <=> (f.pc = "override" /\ f.event = e) \/ HoldsIn(r, e)
  BY <1>1, EventTop
<1>3. PICK n : /\ ReturnsToCpp(t, items, meant) = [stack EXCEPT ![t] = n] /\ Nested(n)
               /\ \A ev : Unkept(n, ev)
               /\ \A e : EndsIn(n, e) <=> EndsIn(r, e)
               /\ \A e : HoldsIn(n, e) <=> HoldsIn(r, e)
  BY EventReturned
<1> HIDE DEF f, r
<1>4. f.pc # "override" /\ event' = Ended(event, f) /\ stack' = [stack EXCEPT ![t] = n]
  BY <1>3 DEF f
<1>5. \A e \in Event : HoldsIn(n, e) <=> HoldsIn(stack[t], e)
  BY <1>2, <1>3, <1>4
<1>6. \A e \in Event : /\ EndsIn(stack[t], e) <=> f.temp = e \/ EndsIn(n, e)
                       /\ EndsIn(n, e) => f.temp # e
  BY <1>2, <1>3, VirtualCallAssumption DEF EventFits
<1>7. \A e \in Event : /\ event'[e].valid = event[e].valid /\ event'[e].kept = event[e].kept
                       /\ event'[e].live <=> event[e].live /\ e # f.temp
  <2>1. CASE f.temp = Nil
    BY <1>4, <2>1, VirtualCallAssumption DEF Ended
  <2>2. CASE f.temp # Nil
    BY <1>1, <1>2, <1>4, <2>2 DEF Ended, EventData, FrameType
  <2> QED BY <2>1, <2>2
<1>8. \A e \in Event : /\ EndsIn(stack[t], e) => event[e].live
                       /\ HoldsIn(stack[t], e) => event[e].valid
                       /\ event[e].kept = "current" => event[e].valid
  BY DEF EventInv, EventsOK
<1>9. Unkept(n, event')
  BY <1>3
<1>10. \A e \in Event :
           /\ EndsIn(n, e) => EndsIn(stack[t], e) \/ ~event[e].live
           /\ event'[e].live <=> EndsIn(n, e) \/ (event[e].live /\ ~EndsIn(stack[t], e))
           /\ event'[e].valid <=> HoldsIn(n, e) \/ (event[e].valid /\ ~HoldsIn(stack[t], e))
           /\ event'[e].kept = "current" =>
                 event'[e].valid /\ (event[e].kept = "current" \/ HoldsIn(stack[t], e))
  BY <1>5, <1>6, <1>7, <1>8
<1> QED BY <1>3, <1>4, <1>9, <1>10, EventMoved

LEMMA CppReturnEvents ==
    ASSUME EventInv, NEW t \in Thread, CppReturn(t)
    PROVE  EventInv'
<1>1. Running(t, "cpp") /\ stack[t] # <<>> /\ Inv /\ Inv'
  BY CppReturnOK DEF CppReturn, Running, EventInv
<1>2. Top(t) \in FrameType /\ Placed(Top(t)) /\ Top(t).in = "cpp"
  BY <1>1, Now DEF Running
<1>3. Top(t).temp = Nil /\ Top(t).pc # "override" /\ Top(t).items \in Seq(Int) /\ Top(t).meant \in Seq(Int)
  BY <1>2 DEF Placed, FrameType
<1>4. stack' = ReturnsToCpp(t, Top(t).items, Top(t).meant) /\ event' = Ended(event, Top(t))
  BY <1>3 DEF CppReturn, Ended
<1> QED BY <1>1, <1>3, <1>4, EndedEvents

LEMMA VirtualSkippedEvents ==
    ASSUME EventInv, NEW t \in Thread, VirtualSkipped(t)
    PROVE  EventInv'
<1>1. /\ Running(t, "virtual") /\ Top(t).pc = "start" /\ Inv' /\ Default \in Seq(Int)
      /\ stack' = ReturnsToCpp(t, Default, Default) /\ event' = Ended(event, Top(t))
  BY VirtualSkippedOK DEF VirtualSkipped, EventInv, Default
<1> QED BY <1>1, EndedEvents

LEMMA VirtualPureEvents ==
    ASSUME EventInv, NEW t \in Thread, VirtualPure(t)
    PROVE  EventInv'
<1>1. /\ Running(t, "virtual") /\ Top(t).pc = "start" /\ Default \in Seq(Int)
      /\ stack' = ReturnsToCpp(t, Default, Default) /\ event' = Ended(event, Top(t))
  BY DEF VirtualPure, Default
<1>2. Inv'
  BY VirtualPureOK DEF EventInv
<1> QED BY <1>1, <1>2, EndedEvents

LEMMA VirtualBaseReturnEvents ==
    ASSUME EventInv, NEW t \in Thread, VirtualBaseReturn(t)
    PROVE  EventInv'
<1>1. /\ Running(t, "virtual") /\ Top(t).pc = "base" /\ Inv'
      /\ stack' = ReturnsToCpp(t, Top(t).items, Top(t).meant) /\ event' = Ended(event, Top(t))
  BY VirtualBaseReturnOK DEF VirtualBaseReturn, EventInv
<1>2. Top(t).items \in Seq(Int) /\ Top(t).meant \in Seq(Int)
  BY <1>1, VirtualNow DEF EventInv
<1> QED BY <1>1, <1>2, EndedEvents

\* An override ends that leaves the wrapper of its event as in after: valid when a
\* call below has it as well, and not kept otherwise.
LEMMA OverrideEnds ==
    ASSUME EventInv, Inv', NEW t \in Thread, Running(t, "virtual"), Top(t).pc = "override",
           NEW items \in Seq(Int), NEW meant \in Seq(Int), stack' = ReturnsToCpp(t, items, meant),
           NEW after \in EventData,
           event' = Ended(Collected(after, Top(t).event, Holders(Top(t).event) \ {<<t, 1>>}), Top(t)),
           \A x \in Event : x # Top(t).event => after[x] = event[x],
           Top(t).event # Nil =>
               /\ after[Top(t).event].live = event[Top(t).event].live
               /\ after[Top(t).event].kept = "current" =>
                      event[Top(t).event].kept = "current" /\ HoldsIn(Below(t), Top(t).event)
               /\ HoldsIn(Below(t), Top(t).event) => after[Top(t).event].valid
    PROVE  EventInv'
<1> DEFINE f == Top(t)
           r == Below(t)
           e == f.event
           h == Holders(e) \ {<<t, 1>>}
           ev == Collected(after, e, h)
<1>1. stack[t] # <<>> /\ event \in EventData /\ Inv
  BY DEF Running, EventInv, Inv, Types
<1>2. /\ f \in FrameType /\ EventFits(f, r) /\ f = stack[t][1] /\ r = Tail(stack[t])
      /\ \A x : EndsIn(stack[t], x) <=> f.temp = x \/ EndsIn(r, x)
      /\ \A x : HoldsIn(stack[t], x) <=> (f.pc = "override" /\ f.event = x) \/ HoldsIn(r, x)
  BY <1>1, EventTop
<1>3. PICK n : /\ ReturnsToCpp(t, items, meant) = [stack EXCEPT ![t] = n] /\ Nested(n)
               /\ \A kept : Unkept(n, kept)
               /\ \A x : EndsIn(n, x) <=> EndsIn(r, x)
               /\ \A x : HoldsIn(n, x) <=> HoldsIn(r, x)
  BY EventReturned
<1>4. ASSUME e # Nil
      PROVE  /\ e \in Event /\ EndsIn(stack[t], e) /\ event[e].valid
             /\ h = {} <=> ~HoldsIn(r, e)
  <2>1. e \in Event /\ EndsIn(stack[t], e) /\ HoldsIn(stack[t], e)
    BY <1>2, <1>4 DEF FrameType, EventFits
  <2>2. event[e].valid
    BY <2>1, HoldersMine
  <2>3. ASSUME NEW u \in Thread, NEW i \in DOMAIN stack[u],
               stack[u][i].pc = "override", stack[u][i].event = e
        PROVE  u = t
    <3>1. stack[u] \in Seq(FrameType) /\ Nested(stack[u])
      BY EventNow
    <3>2. HoldsIn(stack[u], e)
      <4>1. i \in 1..Len(stack[u])
        BY <2>3, <3>1
      <4> HIDE DEF e
      <4> QED BY <2>3, <4>1 DEF HoldsIn
    <3>3. EndsIn(stack[u], e)
      BY <2>1, <3>1, <3>2, HoldsEnds
    <3> QED BY <2>1, <3>3 DEF EventInv, Apart
  <2> DEFINE s == stack[t]
  <2>4. /\ s \in Seq(FrameType) /\ Len(r) = Len(s) - 1 /\ Len(s) \in Nat
        /\ \A i \in 1..Len(r) : r[i] = s[i + 1]
    <3>1. s \in Seq(FrameType) /\ s # <<>>
      BY <1>1 DEF Inv
    <3> QED BY <1>2, <3>1, Popped
  <2> HIDE DEF s, r, e, f
  <2>5. ASSUME NEW i \in 1..Len(r), r[i].pc = "override", r[i].event = e
        PROVE  <<t, i + 1>> \in h
    <3>1. i + 1 \in DOMAIN s /\ i + 1 # 1 /\ s[i + 1] = r[i]
      BY <2>4
    <3> QED BY <2>5, <3>1 DEF Holders, s
  <2>6. ASSUME NEW x \in h
        PROVE  HoldsIn(r, e)
    <3>1. PICK u \in Thread : \E i \in DOMAIN stack[u] :
              stack[u][i].pc = "override" /\ stack[u][i].event = e /\ x = <<u, i>>
      BY DEF Holders
    <3>2. PICK i \in DOMAIN s : s[i].pc = "override" /\ s[i].event = e /\ x = <<t, i>>
      BY <2>3, <3>1 DEF s
    <3>3. i # 1 /\ i \in 1..Len(s)
      BY <2>4, <3>2
    <3>4. i - 1 \in 1..Len(r) /\ r[i - 1] = s[i]
      BY <2>4, <3>3
    <3> QED BY <3>2, <3>4 DEF HoldsIn
  <2>7. h = {} <=> ~HoldsIn(r, e)
    <3>1. HoldsIn(r, e) => h # {}
      BY <2>5 DEF HoldsIn
    <3>2. h # {} => HoldsIn(r, e)
      BY <2>6
    <3> QED BY <3>1, <3>2
  <2> QED BY <2>1, <2>2, <2>7
<1>5. /\ f.pc = "override" /\ event' = Ended(ev, f) /\ stack' = [stack EXCEPT ![t] = n]
      /\ \A x \in Event : x # e => after[x] = event[x]
      /\ e # Nil => /\ after[e].live = event[e].live
                    /\ after[e].kept = "current" => event[e].kept = "current" /\ HoldsIn(r, e)
                    /\ HoldsIn(r, e) => after[e].valid
  BY <1>3
<1>6. e = f.event
  OBVIOUS
<1> HIDE DEF f, r, e, h
<1>7. ev \in EventData /\ \A x \in Event : x # e => ev[x] = event[x]
  BY <1>5, ZenonT(60) DEF Collected, EventData
<1>8. e # Nil => /\ ev[e].live = event[e].live
                 /\ ev[e].kept = "current" => event[e].kept = "current" /\ HoldsIn(r, e)
                 /\ ev[e].valid <=> HoldsIn(r, e)
  <2> SUFFICES ASSUME e # Nil
               PROVE  /\ ev[e].live = event[e].live
                      /\ ev[e].kept = "current" => event[e].kept = "current" /\ HoldsIn(r, e)
                      /\ ev[e].valid <=> HoldsIn(r, e)
    OBVIOUS
  <2>1. e \in Event /\ (h = {} <=> ~HoldsIn(r, e))
    BY <1>4
  <2>2. CASE HoldsIn(r, e)
    BY <1>5, <2>1, <2>2 DEF Collected
  <2>3. CASE ~HoldsIn(r, e)
    <3>1. ev = [after EXCEPT ![e].valid = FALSE]
      BY <1>5, <2>1, <2>3 DEF Collected
    <3> HIDE DEF ev
    <3> QED BY <1>5, <2>1, <2>3, <3>1 DEF EventData
  <2> QED BY <2>2, <2>3
<1> HIDE DEF ev
<1>9. \A x \in Event : /\ event'[x].valid <=> ev[x].valid
                       /\ event'[x].kept = ev[x].kept
                       /\ event'[x].live <=> ev[x].live /\ x # f.temp
  <2>1. CASE f.temp = Nil
    BY <1>5, <2>1, VirtualCallAssumption DEF Ended
  <2>2. CASE f.temp # Nil
    <3>1. f.temp \in Event
      BY <1>2, <2>2 DEF FrameType
    <3>2. event' = [ev EXCEPT ![f.temp].live = FALSE]
      BY <1>5, <2>2 DEF Ended
    <3>3. ev[f.temp] \in [live : BOOLEAN, valid : BOOLEAN, kept : {"no", "current", "stale"}]
      BY <1>7, <3>1 DEF EventData
    <3>4. /\ event'[f.temp] = [ev[f.temp] EXCEPT !.live = FALSE]
          /\ \A x \in Event : x # f.temp => event'[x] = ev[x]
      BY <1>7, <3>1, <3>2 DEF EventData
    <3>5. /\ event'[f.temp].valid <=> ev[f.temp].valid
          /\ event'[f.temp].kept = ev[f.temp].kept /\ ~event'[f.temp].live
      BY <3>3, <3>4
    <3> QED BY <3>4, <3>5
  <2> QED BY <2>1, <2>2
<1>10. \A x \in Event : /\ EndsIn(stack[t], x) <=> f.temp = x \/ EndsIn(n, x)
                        /\ EndsIn(n, x) => f.temp # x
  BY <1>2, <1>3, VirtualCallAssumption DEF EventFits
<1>11. \A x \in Event : HoldsIn(stack[t], x) <=> x = e \/ HoldsIn(n, x)
  BY <1>2, <1>3, <1>5, <1>6
<1>12. \A x \in Event : /\ EndsIn(stack[t], x) => event[x].live
                        /\ HoldsIn(stack[t], x) => event[x].valid
                        /\ event[x].kept = "current" => event[x].valid
  BY DEF EventInv, EventsOK
<1>13. Unkept(n, event')
  BY <1>3
<1>14. ASSUME NEW x \in Event
       PROVE  /\ event'[x].live <=> EndsIn(n, x) \/ (event[x].live /\ ~EndsIn(stack[t], x))
              /\ event'[x].valid <=> HoldsIn(n, x) \/ (event[x].valid /\ ~HoldsIn(stack[t], x))
              /\ event'[x].kept = "current" =>
                    event'[x].valid /\ (event[x].kept = "current" \/ HoldsIn(stack[t], x))
  <2>1. HoldsIn(n, x) <=> HoldsIn(r, x)
    BY <1>3
  <2>2. CASE x = e
    BY <1>8, <1>9, <1>10, <1>11, <1>12, <2>1, <2>2, VirtualCallAssumption
  <2>3. CASE x # e
    <3>1. ev[x] = event[x]
      BY <1>7, <2>3
    <3>2. event'[x].live <=> EndsIn(n, x) \/ (event[x].live /\ ~EndsIn(stack[t], x))
      BY <1>9, <1>10, <1>12, <3>1
    <3>3. HoldsIn(stack[t], x) <=> HoldsIn(n, x)
      BY <1>11, <2>3
    <3>4. (event'[x].valid <=> event[x].valid) /\ event'[x].kept = event[x].kept
      BY <1>9, <3>1
    <3>5. /\ HoldsIn(stack[t], x) => event[x].valid
          /\ event[x].kept = "current" => event[x].valid
      BY <1>12
    <3>6. event'[x].valid <=> HoldsIn(n, x) \/ (event[x].valid /\ ~HoldsIn(stack[t], x))
      BY <3>3, <3>4, <3>5
    <3> QED BY <3>2, <3>4, <3>5, <3>6
  <2> QED BY <2>2, <2>3
<1>15. \A x \in Event : EndsIn(n, x) => EndsIn(stack[t], x) \/ ~event[x].live
  BY <1>10
<1> QED BY <1>3, <1>5, <1>13, <1>14, <1>15, EventMoved

LEMMA OverrideFailedEvents ==
    ASSUME EventInv, NEW t \in Thread, OverrideFailed(t)
    PROVE  EventInv'
<1> DEFINE f == Top(t)
<1>1. /\ Running(t, "virtual") /\ stack[t] # <<>> /\ f.in = "virtual" /\ f.pc = "override"
      /\ ~IsConvertible(Param[f.method], f.out)
      /\ stack' = ReturnsToCpp(t, Default, Default)
      /\ event' = Ended(Collected(event, f.event, Holders(f.event) \ {<<t, 1>>}), f)
  BY DEF OverrideFailed, Running
<1>2. Inv' /\ event \in EventData /\ Default \in Seq(Int)
  BY OverrideFailedOK DEF EventInv, Inv, Types, Default
<1>3. /\ f \in FrameType /\ f = stack[t][1]
      /\ \A x : HoldsIn(stack[t], x) <=> (f.pc = "override" /\ f.event = x) \/ HoldsIn(Below(t), x)
  BY <1>1, EventTop
<1>4. ASSUME f.event # Nil
      PROVE  f.event \in Event /\ event[f.event].kept # "current" /\ event[f.event].valid
  <2>1. f.event \in Event /\ HoldsIn(stack[t], f.event)
    BY <1>1, <1>3, <1>4 DEF FrameType
  <2>2. event[f.event].valid
    BY <2>1 DEF EventInv, EventsOK
  <2>3. event[f.event].kept # "current"
    BY <1>1, <1>3, <1>4 DEF EventInv, Unkept
  <2> QED BY <2>1, <2>2, <2>3
<1> QED BY <1>1, <1>2, <1>4, OverrideEnds

LEMMA OverrideReturnedEvents ==
    ASSUME EventInv, NEW t \in Thread, OverrideReturned(t)
    PROVE  EventInv'
<1> DEFINE f == Top(t)
           after == IF Resets(f) THEN Invalidated(f.event) ELSE event
<1>1. /\ Running(t, "virtual") /\ stack[t] # <<>> /\ f.pc = "override"
      /\ event' = Ended(Collected(after, f.event, Holders(f.event) \ {<<t, 1>>}), f)
  BY DEF OverrideReturned, Running
<1>2. Inv' /\ Inv /\ event \in EventData
  BY OverrideReturnedOK DEF EventInv, Inv, Types
<1>3. PICK c \in ToCpp(Param[f.method], f.out) : stack' = ReturnsToCpp(t, c.items, ValuesOf(f.out))
  BY DEF OverrideReturned
<1>4. c.items \in Seq(Int) /\ ValuesOf(f.out) \in Seq(Int)
  <2>1. f.method \in Method /\ f.out \in PyValue
    BY <1>1, <1>2, VirtualNow
  <2> QED BY <2>1, ToCppTyped
<1>5. /\ f \in FrameType /\ EventFits(f, Below(t))
      /\ \A x : HoldsIn(stack[t], x) <=> (f.pc = "override" /\ f.event = x) \/ HoldsIn(Below(t), x)
  BY <1>1, EventTop
<1>6. f.event \in Event \cup {Nil} /\ f.reset \in BOOLEAN
  BY <1>5 DEF FrameType
<1>7. f.event # Nil => (f.reset <=> ~HoldsIn(Below(t), f.event)) /\ event[f.event].valid
  <2>1. f.event # Nil => (f.reset <=> ~HoldsIn(Below(t), f.event))
    BY <1>1, <1>5 DEF EventFits
  <2>2. f.event # Nil => event[f.event].valid
    BY <1>1, <1>5, <1>6 DEF EventInv, EventsOK
  <2> QED BY <2>1, <2>2
<1> HIDE DEF f
<1>8. after \in EventData
  BY <1>2, <1>6, InvalidatedTyped
<1>9. \A x \in Event : x # f.event => after[x] = event[x]
  BY <1>2, <1>6 DEF Invalidated, EventData
<1>10. f.event # Nil =>
           /\ after[f.event].live = event[f.event].live
           /\ after[f.event].kept = "current" =>
                  event[f.event].kept = "current" /\ HoldsIn(Below(t), f.event)
           /\ HoldsIn(Below(t), f.event) => after[f.event].valid
  <2>1. CASE f.reset
    <3> SUFFICES ASSUME f.event # Nil
                 PROVE  /\ after[f.event].live = event[f.event].live
                        /\ after[f.event].kept # "current" /\ ~HoldsIn(Below(t), f.event)
      OBVIOUS
    <3>1. after = Invalidated(f.event) /\ f.event \in Event
      BY <1>6, <2>1 DEF Resets
    <3> HIDE DEF after
    <3>2. after[f.event].live = event[f.event].live /\ after[f.event].kept # "current"
      BY <1>2, <3>1 DEF Invalidated, EventData
    <3> QED BY <1>7, <2>1, <3>2
  <2>2. CASE ~f.reset
    BY <1>7, <2>2 DEF Resets
  <2> QED BY <2>1, <2>2
<1> HIDE DEF after
<1> QED BY <1>1, <1>2, <1>3, <1>4, <1>8, <1>9, <1>10, OverrideEnds DEF f

-----------------------------------------------------------------------------
(* The invariant holds, and what it implies.                               *)

LEMMA InitEvents == Init => EventInv
<1> SUFFICES ASSUME Init
             PROVE  EventInv
  OBVIOUS
<1> DEFINE f == Frame("python", Nil, Nil)
<1>1. f \in FrameType /\ f.in = "python" /\ f.pc = "start" /\ f.temp = Nil /\ f.event = Nil
  BY FrameTyped DEF Frame
<1>2. \A t \in Thread : stack[t] = IF t \in Python THEN <<f>> ELSE <<>>
  BY DEF Init
<1> HIDE DEF f
<1>3. ASSUME NEW t \in Thread
      PROVE  /\ Nested(stack[t]) /\ Unkept(stack[t], event)
             /\ \A e \in Event : ~EndsIn(stack[t], e) /\ ~HoldsIn(stack[t], e)
  <2> DEFINE s == stack[t]
  <2>1. s \in Seq(FrameType) /\ Len(s) \in {0, 1} /\ (Len(s) = 1 => s[1] = f) /\ (s # <<>> => Len(s) = 1)
    <3>1. s = <<f>> \/ s = <<>>
      BY <1>2
    <3> HIDE DEF s
    <3>2. CASE s = <<f>>
      BY <1>1, <3>2
    <3>3. CASE s = <<>>
      BY <3>3
    <3> QED BY <3>1, <3>2, <3>3
  <2> HIDE DEF s
  <2>2. \A i \in 1..Len(s) : s[i] = f
    BY <2>1
  <2>3. Nested(s) /\ Unkept(s, event)
    BY <1>1, <2>1, <2>2, FitsBorrowed DEF Nested, Unkept
  <2>4. \A e \in Event : ~EndsIn(s, e) /\ ~HoldsIn(s, e)
    BY <1>1, <2>2, VirtualCallAssumption DEF EndsIn, HoldsIn
  <2> QED BY <2>3, <2>4 DEF s
<1>4. EventsOK /\ Apart
  BY <1>3 DEF Init, EventsOK, Apart
<1> QED BY <1>3, <1>4, InitOK DEF EventInv

LEMMA NextEvents ==
    ASSUME EventInv, [Next]_callVars, Tags \cap {"keep-and-fail", "share-event"} = {}
    PROVE  EventInv'
<1>1. CASE UNCHANGED callVars
  <2>1. UNCHANGED <<stack, event>> /\ Inv'
    BY <1>1, NextOK DEF callVars, EventInv
  <2> QED BY <2>1, EventStackKept DEF EventInv, EventsOK
<1>2. ASSUME NEW t \in Thread,
             \/ Progress(t) \/ Assign(t) \/ Keep(t) \/ Forget(t)
             \/ BindingCall(t) \/ Drop(t) \/ WorkerStart(t) \/ CppCall(t)
      PROVE  EventInv'
  <2>1. "keep-and-fail" \notin Tags /\ "share-event" \notin Tags
    OBVIOUS
  <2>2. CASE Progress(t)
    BY <2>1, <2>2, PythonReturnEvents, BindingReturnEvents, CppLockEvents, CppReturnEvents,
       VirtualSkippedEvents, VirtualPureEvents, VirtualBaseEvents, VirtualOverrideEvents,
       OverrideFailedEvents, OverrideReturnedEvents, VirtualBaseReturnEvents,
       DeallocEvents, CppDtorEvents, DeallocEndEvents DEF Progress
  <2> QED BY <1>2, <2>1, <2>2, AssignEvents, KeepEvents, ForgetEvents, BindingCallEvents, DropEvents,
             WorkerStartEvents, CppCallEvents
<1> QED BY <1>1, <1>2 DEF Next

\* The inductive invariant holds in every state, unless an override keeps its event
\* and fails, or a thread passes an event that another one was given.
THEOREM EventsInductive ==
    ASSUME Tags \cap {"keep-and-fail", "share-event"} = {}
    PROVE  Spec => []EventInv
  BY InitEvents, NextEvents, PTL DEF Spec

\* A wrapper that Python code can use is never of an event that has ended, and is not
\* taken from an override that still has it, for any number of threads, nested
\* calls and addresses used again (invalidateArg, cppgenerator.cpp:763-767 and
\* 841-845), under the two conditions that the code leaves to Python code.
THEOREM WrappersOfEvents ==
    ASSUME Tags \cap {"keep-and-fail", "share-event"} = {}
    PROVE  Spec => []EventsInvalidated
<1>1. EventInv => EventsInvalidated
  <2> SUFFICES ASSUME EventInv
               PROVE  EventsInvalidated
    OBVIOUS
  <2>1. ASSUME NEW t \in Thread, NEW e \in Event, HoldsIn(stack[t], e)
        PROVE  event[e].valid /\ event[e].live
    <3>1. stack[t] \in Seq(FrameType) /\ Nested(stack[t])
      BY EventNow
    <3>2. EndsIn(stack[t], e)
      BY <2>1, <3>1, HoldsEnds
    <3> QED BY <2>1, <3>2 DEF EventInv, EventsOK
  <2>2. \A e \in Event : event[e].valid => event[e].live
    BY <2>1 DEF EventInv, EventsOK
  <2>3. ASSUME NEW t \in Thread, NEW f \in Frames(t), f.in = "python", f.event # Nil
        PROVE  event[f.event].valid
    <3> DEFINE s == stack[t]
    <3>1. s \in Seq(FrameType) /\ Stacked(s) /\ Nested(s) /\ DOMAIN s = 1..Len(s)
      BY EventNow DEF EventInv, Inv, ThreadOK
    <3>2. PICK i \in 1..Len(s) : s[i] = f
      BY <3>1 DEF Frames
    <3>3. f \in FrameType /\ f.event \in Event
      <4>1. f \in FrameType
        BY <3>1, <3>2
      <4> QED BY <2>3, <4>1 DEF FrameType
    <3>4. i < Len(s)
      <4>1. f.temp = Nil
        BY <2>3, <3>1, <3>2 DEF Stacked, Placed
      <4>2. EndsIn(From(s, i + 1), f.event)
        BY <2>3, <3>1, <3>2, <4>1 DEF Nested, EventFits
      <4>3. Len(From(s, i + 1)) > 0
        BY <3>1, <3>2, <4>2 DEF EndsIn, From
      <4> QED BY <3>1, <3>2, <4>3 DEF From
    <3>5. i + 1 \in 1..Len(s) /\ CalledBy(f, s[i + 1]) /\ s[i + 1] \in FrameType
      <4>1. i + 1 \in 1..Len(s) /\ i + 1 > 1 /\ (i + 1) - 1 = i
        BY <3>1, <3>2, <3>4
      <4>2. CalledBy(s[(i + 1) - 1], s[i + 1])
        BY <3>1, <4>1 DEF Stacked
      <4> QED BY <3>1, <3>2, <4>1, <4>2
    <3>6. s[i + 1].pc = "override" /\ s[i + 1].event = f.event
      BY <2>3, <3>5 DEF CalledBy, FrameType
    <3>7. HoldsIn(s, f.event)
      BY <3>5, <3>6 DEF HoldsIn
    <3> QED BY <2>1, <3>3, <3>7
  <2> QED BY <2>2, <2>3 DEF EventsInvalidated
<1> QED BY <1>1, EventsInductive, PTL

-----------------------------------------------------------------------------
(* Values: the inductive invariant.                                        *)

\* The C++ value of a call is what Python code meant it to be.
Exact(f) == f.in \in {"cpp", "virtual", "binding"} => f.items = f.meant /\ f.items \in Seq(LongLong)

\* Calls that are not between a virtual method and its override: an error that is
\* pending stays pending when they end.
Through(f) == f.in # "python" /\ f.pc # "override"

Out == Value \cup {NoValue, RaisedValue}

\* The values of the calls s are exact, but for the latest ones, of C++ code, when
\* an error is pending.
Sound(s, err) ==
    \A i \in 1..Len(s) :
        /\ s[i].out \in Out
        /\ Exact(s[i]) \/ (err /\ \A j \in 1..i : Through(s[j]))

ValueInv == Inv /\ \A t \in Python : Sound(stack[t], error[t])

\* Values that the converters have an exact C++ value or an error for.
Convertible ==
    \A m \in Method, value \in Value : \A i \in DOMAIN value.items :
        ExactItem(ItemType(Param[m], i), value.items[i])

-----------------------------------------------------------------------------
(* Operators.                                                              *)

LEMMA ConsedSound ==
    ASSUME NEW f \in FrameType, NEW r \in Seq(FrameType), NEW err \in BOOLEAN
    PROVE  Sound(<<f>> \o r, err) <=>
               /\ f.out \in Out
               /\ IF err /\ Through(f) THEN Sound(r, TRUE) ELSE Exact(f) /\ Sound(r, FALSE)
<1> DEFINE n == <<f>> \o r
<1>1. /\ n \in Seq(FrameType) /\ Len(n) = Len(r) + 1 /\ n[1] = f /\ Len(r) \in Nat
      /\ \A i \in 2..Len(n) : n[i] = r[i - 1]
  BY Consed
<1> HIDE DEF n
<1>2. \A i \in 1..Len(r) : i + 1 \in 2..Len(n) /\ n[i + 1] = r[i]
  BY <1>1
<1>3. ASSUME Sound(n, err)
      PROVE  /\ f.out \in Out
             /\ IF err /\ Through(f) THEN Sound(r, TRUE) ELSE Exact(f) /\ Sound(r, FALSE)
  <2>1. f.out \in Out /\ (Exact(f) \/ (err /\ Through(f)))
    <3>1. 1 \in 1..Len(n)
      BY <1>1
    <3> QED BY <1>1, <1>3, <3>1 DEF Sound
  <2>2. ASSUME NEW i \in 1..Len(r)
        PROVE  /\ r[i].out \in Out
               /\ Exact(r[i]) \/ (err /\ Through(f) /\ \A j \in 1..i : Through(r[j]))
    <3>1. i + 1 \in 1..Len(n) /\ n[i + 1] = r[i]
      BY <1>1, <1>2
    <3>2. n[i + 1].out \in Out /\ (Exact(n[i + 1]) \/ (err /\ \A j \in 1..(i + 1) : Through(n[j])))
      BY <1>3, <3>1 DEF Sound
    <3>3. 1 \in 1..(i + 1) /\ \A j \in 1..i : j + 1 \in 1..(i + 1) /\ n[j + 1] = r[j]
      BY <1>1, <1>2
    <3> QED BY <1>1, <3>1, <3>2, <3>3
  <2> QED BY <2>1, <2>2 DEF Sound
<1>4. ASSUME f.out \in Out,
             IF err /\ Through(f) THEN Sound(r, TRUE) ELSE Exact(f) /\ Sound(r, FALSE)
      PROVE  Sound(n, err)
  <2> SUFFICES ASSUME NEW i \in 1..Len(n)
               PROVE  /\ n[i].out \in Out
                      /\ Exact(n[i]) \/ (err /\ \A j \in 1..i : Through(n[j]))
    BY DEF Sound
  <2>1. CASE i = 1
    <3>1. \A j \in 1..1 : j = 1
      OBVIOUS
    <3> QED BY <1>1, <1>4, <2>1, <3>1
  <2>2. CASE i > 1
    <3>1. i - 1 \in 1..Len(r) /\ n[i] = r[i - 1]
      BY <1>1, <2>2
    <3>2. CASE err /\ Through(f)
      <4>1. /\ r[i - 1].out \in Out
            /\ Exact(r[i - 1]) \/ \A j \in 1..(i - 1) : Through(r[j])
        BY <1>4, <3>1, <3>2 DEF Sound
      <4>2. \A j \in 1..i : j = 1 \/ (j - 1 \in 1..(i - 1) /\ n[j] = r[j - 1])
        BY <1>1
      <4> QED BY <1>1, <3>1, <3>2, <4>1, <4>2
    <3>3. CASE ~(err /\ Through(f))
      BY <1>4, <3>1, <3>3 DEF Sound
    <3> QED BY <3>2, <3>3
  <2> QED BY <1>1, <2>1, <2>2
<1> QED BY <1>3, <1>4 DEF n

LEMMA Weaker ==
    ASSUME NEW s, NEW err \in BOOLEAN, Sound(s, FALSE)
    PROVE  Sound(s, err)
  BY DEF Sound

\* The values of a thread's calls.
LEMMA ValueNow ==
    ASSUME ValueInv, NEW t \in Python, stack[t] # <<>>
    PROVE  /\ t \in Thread /\ Inv /\ stack[t] \in Seq(FrameType) /\ error[t] \in BOOLEAN
           /\ Top(t) \in FrameType /\ Below(t) \in Seq(FrameType)
           /\ Top(t) = stack[t][1] /\ Below(t) = Tail(stack[t]) /\ stack[t] = <<Top(t)>> \o Below(t)
           /\ Placed(Top(t)) /\ Top(t).out \in Out
           /\ Sound(stack[t], error[t])
           /\ error[t] /\ Through(Top(t)) => Sound(Below(t), TRUE)
           /\ ~(error[t] /\ Through(Top(t))) =>
                  Exact(Top(t)) /\ Sound(Below(t), FALSE) /\ Sound(stack[t], FALSE)
<1> DEFINE s == stack[t]
           f == Top(t)
           r == Below(t)
           e == error[t]
<1>1. t \in Thread /\ Inv
  BY DEF ValueInv, Thread
<1>2. s \in Seq(FrameType) /\ f = s[1] /\ r = Tail(s) /\ Placed(f) /\ e \in BOOLEAN
  BY <1>1, Now DEF Inv, Types
<1>3. s = <<f>> \o r /\ f \in FrameType /\ r \in Seq(FrameType)
  BY <1>2, Split
<1>4. Sound(s, e)
  BY DEF ValueInv
<1> HIDE DEF s, f, r, e
<1>5. /\ f.out \in Out
      /\ IF e /\ Through(f) THEN Sound(r, TRUE) ELSE Exact(f) /\ Sound(r, FALSE)
  <2>1. Sound(<<f>> \o r, e)
    BY <1>3, <1>4
  <2>2. CASE e = TRUE
    BY <1>3, <2>1, <2>2, ConsedSound
  <2>3. CASE e = FALSE
    BY <1>3, <2>1, <2>3, ConsedSound
  <2> QED BY <1>2, <2>2, <2>3
<1>6. Exact(f) /\ Sound(r, FALSE) => Sound(s, FALSE)
  BY <1>3, <1>5, ConsedSound
<1> QED BY <1>1, <1>2, <1>3, <1>4, <1>5, <1>6 DEF s, f, r, e

\* A step of the thread t makes its calls n and its error p.
LEMMA ValueMoved ==
    ASSUME ValueInv, Inv', NEW t \in Thread, NEW n, NEW p \in BOOLEAN,
           stack' = [stack EXCEPT ![t] = n], error' = [error EXCEPT ![t] = p],
           t \in Python => Sound(n, p)
    PROVE  ValueInv'
<1>1. stack'[t] = n /\ error'[t] = p /\ \A u \in Thread \ {t} : stack'[u] = stack[u] /\ error'[u] = error[u]
  BY DEF ValueInv, Inv, Types
<1> QED BY <1>1 DEF ValueInv, Thread

\* A value that Python code passes or returns is converted.
LEMMA ValueExact ==
    ASSUME Convertible, NEW m \in Method, NEW value \in Value, NEW c \in ToCpp(Param[m], value), ~c.error
    PROVE  c.items = ValuesOf(value) /\ c.items \in Seq(LongLong)
<1> DEFINE s == value.items
           v == ValuesOf(value)
           d == c.items
           type == Param[m]
<1>1. value \in PyValue /\ s \in Seq(PyItem) /\ Param[m] \in CppType
  BY VirtualCallAssumption DEF PyValue
<1>2. d \in Seq(Int) /\ v \in Seq(Int)
  BY <1>1, ToCppTyped
<1>3. /\ DOMAIN d = DOMAIN s
      /\ \A i \in DOMAIN s : ExactItem(ItemType(type, i), s[i]) =>
                                 d[i] = s[i].val /\ d[i] \in LongLong
  BY <1>1, ConversionsExact
<1>4. \A i \in DOMAIN s : ExactItem(ItemType(type, i), s[i])
  BY DEF Convertible
<1>5. DOMAIN v = DOMAIN s /\ \A i \in DOMAIN s : v[i] = s[i].val
  BY DEF ValuesOf
<1> HIDE DEF s, v, d, type
<1>6. DOMAIN d = 1..Len(d) /\ DOMAIN v = 1..Len(v) /\ Len(d) \in Nat /\ Len(v) \in Nat
  BY <1>2
<1>7. \A i \in 1..Len(d) : d[i] = v[i] /\ d[i] \in LongLong
  BY <1>3, <1>4, <1>5, <1>6
<1>8. Len(d) = Len(v)
  BY <1>3, <1>5, <1>6
<1>9. d = v
  BY <1>2, <1>7, <1>8, SeqEqual
<1>10. d \in Seq(LongLong)
  BY <1>2, <1>7
<1> QED BY <1>9, <1>10 DEF v, d

LEMMA DefaultExact == Default \in Seq(Int) /\ Default \in Seq(LongLong)
  BY LongLongRange DEF Default

-----------------------------------------------------------------------------
(* Steps.                                                                  *)

\* A call of C++ code, or of a virtual method, returns.
LEMMA ValueReturned ==
    ASSUME ValueInv, Inv', NEW t \in Thread, Running(t, "cpp") \/ Running(t, "virtual"),
           NEW items \in Seq(Int), NEW meant \in Seq(Int), NEW p \in BOOLEAN,
           stack' = ReturnsToCpp(t, items, meant), error' = [error EXCEPT ![t] = p],
           t \in Python => /\ p \/ (items = meant /\ items \in Seq(LongLong))
                           /\ Sound(Below(t), p)
    PROVE  ValueInv'
<1> DEFINE r == Below(t)
           g == Head(r)
           q == Tail(r)
           c == [g EXCEPT !.items = items, !.meant = meant]
           n == <<c>> \o q
<1>1. stack[t] # <<>> /\ Top(t).in \in {"cpp", "virtual"} /\ Inv
  BY DEF Running, ValueInv
<1>2. /\ stack[t] \in Seq(FrameType) /\ Top(t) = stack[t][1] /\ r = Tail(stack[t])
      /\ r # <<>> <=> Len(stack[t]) > 1
      /\ Len(stack[t]) > 1 => /\ CalledBy(stack[t][1], stack[t][2]) /\ Placed(stack[t][2])
                              /\ g = stack[t][2] /\ g \in FrameType
  BY <1>1, Now
<1>3. CASE r = <<>>
  <2>1. stack' = [stack EXCEPT ![t] = <<>>] /\ Sound(<<>>, p)
    BY <1>3 DEF ReturnsToCpp, Sound
  <2> QED BY <2>1, ValueMoved
<1>4. CASE r # <<>>
  <2>1. stack' = [stack EXCEPT ![t] = n]
    BY <1>4 DEF ReturnsToCpp
  <2>2. CalledBy(Top(t), g) /\ Placed(g) /\ g \in FrameType
    BY <1>2, <1>4
  <2>3. r = <<g>> \o q /\ q \in Seq(FrameType)
    <3>1. r \in Seq(FrameType) /\ g = r[1]
      BY <1>1, <1>2, <1>4
    <3> QED BY <1>4, <3>1, Split
  <2> HIDE DEF g, q, r
  <2>4. /\ c \in FrameType /\ c.in = g.in /\ c.pc = g.pc /\ c.out = g.out
        /\ c.items = items /\ c.meant = meant
    BY <2>2 DEF FrameType
  <2>5. Through(g) /\ Through(c)
    <3>1. g.in \in {"binding", "cpp", "virtual"}
      BY <1>1, <2>2 DEF CalledBy, FrameType
    <3>2. Through(g)
      BY <1>1, <2>2, <3>1 DEF CalledBy, Placed, Through
    <3> QED BY <2>4, <3>2 DEF Through
  <2> HIDE DEF c
  <2>6. ASSUME t \in Python
        PROVE  Sound(n, p)
    <3>1. (p \/ Exact(c)) /\ Sound(r, p)
      BY <2>4, <2>6 DEF Exact, r
    <3>2. CASE p = TRUE
      <4>1. Sound(<<g>> \o q, TRUE)
        BY <2>3, <3>1, <3>2
      <4>2. g.out \in Out /\ Sound(q, TRUE)
        BY <2>2, <2>3, <2>5, <4>1, ConsedSound
      <4>3. Sound(<<c>> \o q, TRUE)
        BY <2>3, <2>4, <2>5, <4>2, ConsedSound
      <4> QED BY <3>2, <4>3
    <3>3. CASE p = FALSE
      <4>1. Sound(<<g>> \o q, FALSE) /\ Exact(c)
        BY <2>3, <3>1, <3>3
      <4>2. g.out \in Out /\ Sound(q, FALSE)
        BY <2>2, <2>3, <4>1, ConsedSound
      <4>3. Sound(<<c>> \o q, FALSE)
        BY <2>3, <2>4, <4>1, <4>2, ConsedSound
      <4> QED BY <3>3, <4>3
    <3> QED BY <3>2, <3>3
  <2> HIDE DEF n
  <2> QED BY <2>1, <2>6, ValueMoved
<1> QED BY <1>3, <1>4

\* The latest call goes on as c and calls f, with no error pending or with one.
LEMMA ValuePushed ==
    ASSUME ValueInv, Inv', NEW t \in Thread, stack[t] # <<>>, NEW f \in FrameType, NEW c \in FrameType,
           NEW p \in BOOLEAN, stack' = Calls(t, <<f>>, c), error' = [error EXCEPT ![t] = p],
           f.out = NoValue, c.out = Top(t).out, c.in = Top(t).in,
           c.items = Top(t).items, c.meant = Top(t).meant,
           t \in Python =>
               \/ ~error[t] /\ (Exact(f) \/ (p /\ Through(f)))
               \/ error[t] /\ p /\ Through(f) /\ Through(c) /\ Through(Top(t))
    PROVE  ValueInv'
<1> DEFINE r == Below(t)
           q == <<c>> \o r
           n == <<f>> \o q
<1>1. Inv /\ r \in Seq(FrameType)
  <2>1. Inv
    BY DEF ValueInv
  <2> QED BY <2>1, Now, Split
<1>2. stack' = [stack EXCEPT ![t] = n]
  <2>1. <<f>> \in Seq(FrameType) /\ <<c>> \in Seq(FrameType)
    OBVIOUS
  <2>2. <<f>> \o <<c>> \o r = <<f>> \o (<<c>> \o r)
    BY <1>1, <2>1, ConcatAssociative
  <2> QED BY <2>2 DEF Calls
<1>3. q \in Seq(FrameType)
  BY <1>1, Consed
<1>4. ASSUME t \in Python
      PROVE  Sound(n, p)
  <2>1. /\ Top(t).out \in Out /\ NoValue \in Out
        /\ error[t] /\ Through(Top(t)) => Sound(r, TRUE)
        /\ ~(error[t] /\ Through(Top(t))) => Exact(Top(t)) /\ Sound(r, FALSE)
    BY <1>4, ValueNow DEF Out
  <2>2. Exact(Top(t)) <=> Exact(c)
    BY DEF Exact
  <2> HIDE DEF r
  <2>3. CASE ~error[t] /\ (Exact(f) \/ (p /\ Through(f)))
    <3>1. Sound(q, FALSE)
      BY <1>1, <2>1, <2>2, <2>3, ConsedSound DEF r
    <3>2. Sound(q, TRUE)
      BY <3>1, Weaker
    <3> HIDE DEF q
    <3>3. CASE p = TRUE
      BY <1>3, <2>1, <2>3, <3>1, <3>2, <3>3, ConsedSound
    <3>4. CASE p = FALSE
      BY <1>3, <2>1, <2>3, <3>1, <3>4, ConsedSound
    <3> QED BY <3>3, <3>4
  <2>4. CASE error[t] /\ p /\ Through(f) /\ Through(c) /\ Through(Top(t))
    <3>1. Sound(q, TRUE)
      BY <1>1, <2>1, <2>4, ConsedSound DEF r
    <3> HIDE DEF q
    <3>2. Sound(n, TRUE) /\ p = TRUE
      BY <1>3, <2>1, <2>4, <3>1, ConsedSound
    <3> QED BY <3>2
  <2> QED BY <1>4, <2>3, <2>4
<1> HIDE DEF n
<1> QED BY <1>2, <1>4, ValueMoved

\* The latest call goes on as c.
LEMMA ValueGoes ==
    ASSUME ValueInv, Inv', NEW t \in Thread, stack[t] # <<>>, NEW c \in FrameType,
           stack' = Replaced(t, c), UNCHANGED error,
           c.out = Top(t).out, c.in = Top(t).in, c.items = Top(t).items, c.meant = Top(t).meant,
           Through(c), Through(Top(t))
    PROVE  ValueInv'
<1> DEFINE r == Below(t)
           n == <<c>> \o r
           e == error[t]
<1>1. Inv /\ r \in Seq(FrameType) /\ e \in BOOLEAN
  <2>1. Inv
    BY DEF ValueInv
  <2> QED BY <2>1, Now, Split DEF Inv, Types
<1>2. stack' = [stack EXCEPT ![t] = n] /\ error' = [error EXCEPT ![t] = e]
  BY <1>1, ErrorKept DEF Replaced
<1>3. ASSUME t \in Python
      PROVE  Sound(n, e)
  <2>1. /\ Top(t).out \in Out
        /\ e => Sound(r, TRUE)
        /\ ~e => Exact(Top(t)) /\ Sound(r, FALSE)
    BY <1>3, ValueNow
  <2>2. Exact(Top(t)) <=> Exact(c)
    BY DEF Exact
  <2> HIDE DEF r, e
  <2>3. CASE e = TRUE
    BY <1>1, <2>1, <2>3, ConsedSound
  <2>4. CASE e = FALSE
    BY <1>1, <2>1, <2>2, <2>4, ConsedSound
  <2> QED BY <1>1, <2>3, <2>4
<1> HIDE DEF n, e
<1> QED BY <1>1, <1>2, <1>3, ValueMoved

\* Steps that leave the calls and the errors alone.
LEMMA ValueKept ==
    ASSUME ValueInv, Inv', UNCHANGED <<stack, error>>
    PROVE  ValueInv'
  BY DEF ValueInv

LEMMA AssignValues ==
    ASSUME ValueInv, NEW t \in Thread, Assign(t) \/ Keep(t) \/ Forget(t)
    PROVE  ValueInv'
<1>1. Inv' /\ UNCHANGED <<stack, error>>
  <2>1. Inv'
    BY AssignOK, KeepOK, ForgetOK DEF ValueInv
  <2> QED BY <2>1 DEF Assign, Keep, Forget
<1> QED BY <1>1, ValueKept

LEMMA WorkerStartValues ==
    ASSUME ValueInv, NEW t \in Thread, WorkerStart(t)
    PROVE  ValueInv'
<1>1. PICK n : stack' = [stack EXCEPT ![t] = n]
  BY DEF WorkerStart
<1>2. Inv' /\ Inv /\ t \notin Python /\ UNCHANGED error
  BY WorkerStartOK, VirtualCallAssumption DEF ValueInv, WorkerStart
<1>3. error[t] \in BOOLEAN /\ error' = [error EXCEPT ![t] = error[t]]
  BY <1>2, ErrorKept
<1> QED BY <1>1, <1>2, <1>3, ValueMoved

LEMMA CppLockValues ==
    ASSUME ValueInv, NEW t \in Thread, CppLock(t)
    PROVE  ValueInv'
<1> DEFINE f == Top(t)
           c == [f EXCEPT !.pc = "locked"]
<1>1. stack[t] # <<>> /\ f.in = "cpp" /\ f.pc = "locks" /\ stack' = Replaced(t, c) /\ UNCHANGED error
  BY DEF CppLock, Running
<1>2. Inv' /\ f \in FrameType
  BY <1>1, CppLockOK, Now DEF ValueInv
<1> HIDE DEF f
<1>3. /\ c \in FrameType /\ c.out = f.out /\ c.in = f.in /\ c.items = f.items /\ c.meant = f.meant
      /\ c.pc = "locked"
  BY <1>1, <1>2 DEF FrameType
<1> HIDE DEF c
<1>4. Through(c) /\ Through(f)
  BY <1>1, <1>3 DEF Through
<1> QED BY <1>1, <1>2, <1>3, <1>4, ValueGoes DEF f

LEMMA DeallocValues ==
    ASSUME ValueInv, NEW t \in Thread, Dealloc(t) \/ CppDtor(t)
    PROVE  ValueInv'
<1> DEFINE f == Top(t)
<1>1. PICK pc \in {"dtor", "end"} : stack' = Replaced(t, [f EXCEPT !.pc = pc])
  BY DEF Dealloc, CppDtor
<1> DEFINE c == [f EXCEPT !.pc = pc]
<1>2. stack[t] # <<>> /\ f.in = "dealloc" /\ UNCHANGED error
  BY DEF Dealloc, CppDtor, Running
<1>3. Inv' /\ f \in FrameType /\ Placed(f)
  BY <1>2, DeallocOK, CppDtorOK, Now DEF ValueInv
<1> HIDE DEF f
<1>4. /\ c \in FrameType /\ c.out = f.out /\ c.in = f.in /\ c.items = f.items /\ c.meant = f.meant
      /\ c.pc = pc
  BY <1>3 DEF FrameType
<1>5. stack' = Replaced(t, c)
  BY <1>1
<1> HIDE DEF c
<1>6. Through(c) /\ Through(f)
  BY <1>2, <1>3, <1>4 DEF Through, Placed
<1> QED BY <1>2, <1>3, <1>4, <1>5, <1>6, ValueGoes DEF f

LEMMA CppReturnValues ==
    ASSUME ValueInv, NEW t \in Thread, CppReturn(t) \/ VirtualBaseReturn(t)
    PROVE  ValueInv'
<1> DEFINE f == Top(t)
           e == error[t]
<1>1. /\ Running(t, "cpp") \/ Running(t, "virtual")
      /\ stack[t] # <<>> /\ f.in \in {"cpp", "virtual"} /\ (f.in = "virtual" => f.pc = "base")
      /\ stack' = ReturnsToCpp(t, f.items, f.meant) /\ UNCHANGED error
  BY DEF CppReturn, VirtualBaseReturn, Running
<1>2. Inv /\ Inv'
  BY CppReturnOK, VirtualBaseReturnOK DEF ValueInv
<1>3. /\ f.items \in Seq(Int) /\ f.meant \in Seq(Int) /\ e \in BOOLEAN
      /\ error' = [error EXCEPT ![t] = e] /\ Through(f)
  <2>1. f \in FrameType /\ Placed(f)
    BY <1>1, <1>2, Now
  <2>2. Through(f)
    BY <1>1, <2>1 DEF Placed, Through
  <2> HIDE DEF f
  <2> QED BY <1>1, <1>2, <2>1, <2>2, ErrorKept DEF FrameType
<1>4. ASSUME t \in Python
      PROVE  /\ e \/ (f.items = f.meant /\ f.items \in Seq(LongLong))
             /\ Sound(Below(t), e)
  <2>1. /\ e => Sound(Below(t), TRUE)
        /\ ~e => Exact(f) /\ Sound(Below(t), FALSE)
    BY <1>1, <1>3, <1>4, ValueNow
  <2> HIDE DEF e
  <2>2. CASE e = TRUE
    BY <2>1, <2>2
  <2>3. CASE e = FALSE
    BY <1>1, <2>1, <2>3 DEF Exact
  <2> QED BY <1>3, <2>2, <2>3
<1> HIDE DEF e
<1> QED BY <1>1, <1>2, <1>3, <1>4, ValueReturned

LEMMA VirtualSkippedValues ==
    ASSUME ValueInv, NEW t \in Thread, VirtualSkipped(t)
    PROVE  ValueInv'
<1>1. /\ Running(t, "virtual") /\ stack[t] # <<>> /\ Top(t).in = "virtual" /\ Top(t).pc = "start"
      /\ error[t] /\ stack' = ReturnsToCpp(t, Default, Default) /\ UNCHANGED error
  BY DEF VirtualSkipped, Running
<1>2. Inv /\ Inv'
  BY VirtualSkippedOK DEF ValueInv
<1>3. error' = [error EXCEPT ![t] = TRUE]
  <2>1. error[t] \in BOOLEAN /\ error' = [error EXCEPT ![t] = error[t]]
    BY <1>1, <1>2, ErrorKept
  <2>2. error[t] = TRUE
    BY <1>1, <2>1
  <2> QED BY <2>1, <2>2
<1>4. t \in Python => Sound(Below(t), TRUE)
  BY <1>1, ValueNow DEF Through
<1> QED BY <1>1, <1>2, <1>3, <1>4, DefaultExact, ValueReturned

LEMMA VirtualPureValues ==
    ASSUME ValueInv, NEW t \in Thread, VirtualPure(t)
    PROVE  ValueInv'
<1>1. /\ Running(t, "virtual") /\ stack[t] # <<>> /\ ~error[t]
      /\ stack' = ReturnsToCpp(t, Default, Default) /\ error' = ErrorAfter(t, TRUE)
  BY DEF VirtualPure, Running
<1>2. Inv /\ Inv'
  BY VirtualPureOK DEF ValueInv
<1>3. PICK p \in BOOLEAN : error' = [error EXCEPT ![t] = p]
  BY <1>1, <1>2, ErrorTyped
<1>4. t \in Python => Sound(Below(t), p)
  BY <1>1, ValueNow, Weaker
<1> QED BY <1>1, <1>2, <1>3, <1>4, DefaultExact, ValueReturned

LEMMA OverrideFailedValues ==
    ASSUME ValueInv, NEW t \in Thread, OverrideFailed(t)
    PROVE  ValueInv'
<1>1. /\ Running(t, "virtual") /\ stack[t] # <<>> /\ Top(t).pc = "override"
      /\ stack' = ReturnsToCpp(t, Default, Default) /\ error' = ErrorAfter(t, FALSE)
  BY DEF OverrideFailed, Running
<1>2. Inv /\ Inv'
  BY OverrideFailedOK DEF ValueInv
<1>3. PICK p \in BOOLEAN : error' = [error EXCEPT ![t] = p]
  BY <1>1, <1>2, ErrorTyped
<1>4. t \in Python => Sound(Below(t), p)
  BY <1>1, ValueNow, Weaker DEF Through
<1> QED BY <1>1, <1>2, <1>3, <1>4, DefaultExact, ValueReturned

\* The value that an override returned is converted, or leaves an error.
LEMMA OverrideReturnedValues ==
    ASSUME ValueInv, Convertible, NEW t \in Thread, OverrideReturned(t)
    PROVE  ValueInv'
<1> DEFINE f == Top(t)
<1>1. /\ Running(t, "virtual") /\ stack[t] # <<>> /\ f.pc = "override"
      /\ IsConvertible(Param[f.method], f.out)
  BY DEF OverrideReturned, Running
<1>2. Inv /\ Inv'
  BY OverrideReturnedOK DEF ValueInv
<1>3. PICK c \in ToCpp(Param[f.method], f.out) :
          stack' = ReturnsToCpp(t, c.items, ValuesOf(f.out)) /\ error' = ErrorAfter(t, c.error)
  BY DEF OverrideReturned
<1>4. f.method \in Method /\ f.out \in PyValue
  BY <1>1, <1>2, VirtualNow
<1>5. c.items \in Seq(Int) /\ c.error \in BOOLEAN /\ ValuesOf(f.out) \in Seq(Int)
  BY <1>4, ToCppTyped
<1>6. PICK p \in BOOLEAN : error' = [error EXCEPT ![t] = p] /\ (t \in Python => p = c.error)
  BY <1>2, <1>3, <1>5, ErrorTyped
<1>7. ASSUME t \in Python
      PROVE  /\ p \/ (c.items = ValuesOf(f.out) /\ c.items \in Seq(LongLong))
             /\ Sound(Below(t), p)
  <2>1. f.out \in Out /\ Sound(Below(t), FALSE)
    BY <1>1, <1>7, ValueNow DEF Through
  <2>2. f.out \in Value
    <3>1. Param[f.method] \in CppType
      BY <1>4, VirtualCallAssumption
    <3>2. NoValue.shape = "none" /\ RaisedValue.shape = "raised"
      BY DEF NoValue, RaisedValue
    <3>3. ~IsConvertible(Param[f.method], NoValue) /\ ~IsConvertible(Param[f.method], RaisedValue)
      BY <3>1, <3>2 DEF IsConvertible, CppType, Shape
    <3> QED BY <1>1, <2>1, <3>3 DEF Out
  <2>3. ~c.error => c.items = ValuesOf(f.out) /\ c.items \in Seq(LongLong)
    BY <1>4, <2>2, ValueExact
  <2>4. Sound(Below(t), p)
    BY <2>1, Weaker
  <2> QED BY <1>6, <1>7, <2>3, <2>4
<1> QED BY <1>1, <1>2, <1>3, <1>5, <1>6, <1>7, ValueReturned

\* A call ends and Python code goes on.
LEMMA ValuePops ==
    ASSUME ValueInv, Inv', NEW t \in Thread, stack[t] # <<>>, Top(t).in \in {"binding", "dealloc"},
           stack' = [stack EXCEPT ![t] = Below(t)], NEW p \in BOOLEAN, error' = [error EXCEPT ![t] = p]
    PROVE  ValueInv'
<1> DEFINE r == Below(t)
           g == Head(r)
           q == Tail(r)
<1>1. Inv
  BY DEF ValueInv
<1>2. /\ r = Tail(stack[t]) /\ r \in Seq(FrameType) /\ Top(t) = stack[t][1]
      /\ r # <<>> <=> Len(stack[t]) > 1
      /\ Len(stack[t]) > 1 => CalledBy(stack[t][1], stack[t][2]) /\ g = stack[t][2] /\ g \in FrameType
  BY <1>1, Now, Split
<1>3. ASSUME t \in Python
      PROVE  Sound(r, p)
  <2>1. Sound(r, TRUE)
    <3>1. Sound(r, TRUE) \/ Sound(r, FALSE)
      BY <1>3, ValueNow
    <3> QED BY <3>1, Weaker
  <2>2. CASE r = <<>>
    <3> HIDE DEF r
    <3> QED BY <2>2 DEF Sound
  <2>3. CASE r # <<>>
    <3>1. CalledBy(Top(t), g) /\ g \in FrameType
      BY <1>2, <2>3
    <3>2. ~Through(g)
      BY <3>1 DEF CalledBy, Through, FrameType
    <3>3. r = <<g>> \o q /\ q \in Seq(FrameType)
      BY <1>2, <2>3, Split, SMTT(30)
    <3> HIDE DEF r, g, q
    <3>4. Sound(<<g>> \o q, TRUE)
      BY <2>1, <3>3
    <3>5. g.out \in Out /\ Exact(g) /\ Sound(q, FALSE)
      BY <3>1, <3>2, <3>3, <3>4, ConsedSound
    <3>6. Sound(r, FALSE)
      BY <3>1, <3>3, <3>5, ConsedSound
    <3> QED BY <3>6, Weaker
  <2> QED BY <2>2, <2>3
<1> QED BY <1>3, ValueMoved

LEMMA BindingReturnValues ==
    ASSUME ValueInv, NEW t \in Thread, BindingReturn(t)
    PROVE  ValueInv'
<1>1. /\ stack[t] # <<>> /\ Top(t).in = "binding" /\ error' = [error EXCEPT ![t] = FALSE]
      /\ stack' = [stack EXCEPT ![t] = Below(t)]
  BY DEF BindingReturn, Running, ReturnsToPython
<1>2. Inv'
  BY BindingReturnOK DEF ValueInv
<1> QED BY <1>1, <1>2, ValuePops

LEMMA DeallocEndValues ==
    ASSUME ValueInv, NEW t \in Thread, DeallocEnd(t)
    PROVE  ValueInv'
<1>1. /\ stack[t] # <<>> /\ Top(t).in = "dealloc" /\ UNCHANGED error
      /\ stack' = [stack EXCEPT ![t] = Below(t)]
  BY DEF DeallocEnd, Running
<1>2. Inv' /\ Inv
  BY DeallocEndOK DEF ValueInv
<1>3. error[t] \in BOOLEAN /\ error' = [error EXCEPT ![t] = error[t]]
  BY <1>1, <1>2, ErrorKept
<1> QED BY <1>1, <1>2, <1>3, ValuePops

\* An override returns: nothing of C++ code is out of order then.
LEMMA PythonReturnValues ==
    ASSUME ValueInv, NEW t \in Thread, PythonReturn(t)
    PROVE  ValueInv'
<1> DEFINE r == Below(t)
           g == Head(r)
           q == Tail(r)
<1>1. stack[t] # <<>> /\ Top(t).in = "python" /\ r # <<>>
  BY DEF PythonReturn, Running
<1>2. Inv' /\ Inv
  BY PythonReturnOK DEF ValueInv
<1>3. PICK value \in Out, p \in BOOLEAN :
          stack' = ReturnsToVirtual(t, value) /\ error' = [error EXCEPT ![t] = p]
  <2>1. CASE \E value \in Value \cup {NoValue} : stack' = ReturnsToVirtual(t, value) /\ UNCHANGED error
    BY <1>2, <2>1, ErrorKept DEF Out
  <2>2. CASE stack' = ReturnsToVirtual(t, RaisedValue) /\ error' = [error EXCEPT ![t] = TRUE]
    BY <2>2 DEF Out
  <2> QED BY <2>1, <2>2 DEF PythonReturn
<1> DEFINE c == [g EXCEPT !.out = value]
           n == <<c>> \o q
<1>4. stack' = [stack EXCEPT ![t] = n]
  BY <1>3 DEF ReturnsToVirtual
<1>5. /\ r = Tail(stack[t]) /\ r \in Seq(FrameType) /\ g \in FrameType /\ r = <<g>> \o q
      /\ q \in Seq(FrameType)
  <2>1. r = Tail(stack[t]) /\ r \in Seq(FrameType) /\ Len(stack[t]) > 1 /\ g = stack[t][2]
        /\ stack[t][2] \in FrameType
    BY <1>1, <1>2, Now, Split
  <2>2. g = r[1]
    BY <1>1, <2>1
  <2> QED BY <1>1, <2>1, <2>2, Split
<1>6. value \in PyValue
  <2>1. NoValue \in PyValue /\ RaisedValue \in PyValue /\ Value \subseteq PyValue
    BY VirtualCallAssumption DEF NoValue, RaisedValue, PyValue
  <2> QED BY <2>1 DEF Out
<1> HIDE DEF r, g, q
<1>7. /\ c \in FrameType /\ c.out = value /\ c.in = g.in /\ c.items = g.items /\ c.meant = g.meant
  BY <1>5, <1>6 DEF FrameType
<1> HIDE DEF c
<1>8. ASSUME t \in Python
      PROVE  Sound(n, p)
  <2>1. Sound(<<g>> \o q, FALSE)
    <3>1. Sound(Below(t), FALSE)
      BY <1>1, <1>8, ValueNow DEF Through
    <3> QED BY <1>5, <3>1 DEF r
  <2>2. Exact(g) /\ Sound(q, FALSE)
    BY <1>5, <2>1, ConsedSound
  <2>3. Exact(c)
    BY <1>7, <2>2 DEF Exact
  <2>4. Sound(n, FALSE)
    BY <1>5, <1>7, <2>2, <2>3, ConsedSound
  <2> HIDE DEF n
  <2> QED BY <2>4, Weaker
<1> HIDE DEF n
<1> QED BY <1>2, <1>3, <1>4, <1>8, ValueMoved

\* The caller goes on with the value that it has.
LEMMA CallerValue ==
    ASSUME Inv, NEW t \in Thread, stack[t] # <<>>, Top(t).left > 0
    PROVE  LET c == Caller(t) IN
           /\ c \in FrameType /\ c.in = Top(t).in /\ c.pc = Top(t).pc /\ c.out = Top(t).out
           /\ c.items = Top(t).items /\ c.meant = Top(t).meant
<1> DEFINE f == Top(t)
           c == Caller(t)
<1>1. /\ f \in FrameType /\ c \in FrameType /\ c.in = f.in /\ c.pc = f.pc
      /\ c.items = f.items /\ c.meant = f.meant
  BY CallerTyped, Now DEF Same
<1>2. c.out = f.out
  <2>1. CASE c = f
    BY <2>1
  <2>2. CASE c = [f EXCEPT !.left = @ - 1]
    <3> HIDE DEF f, c
    <3> QED BY <1>1, <2>2 DEF FrameType
  <2> QED BY <2>1, <2>2 DEF Caller
<1> QED BY <1>1, <1>2

\* A virtual method gets the value that its caller has.
LEMMA CppCallValues ==
    ASSUME ValueInv, NEW t \in Thread, CppCall(t)
    PROVE  ValueInv'
<1> DEFINE c == Caller(t)
<1>1. stack[t] # <<>> /\ Top(t).in = "cpp" /\ Top(t).left > 0 /\ UNCHANGED error
  BY DEF CppCall, Running
<1>2. Inv' /\ Inv
  BY CppCallOK DEF ValueInv
<1>3. /\ c \in FrameType /\ c.in = Top(t).in /\ c.pc = Top(t).pc /\ c.out = Top(t).out
      /\ c.items = Top(t).items /\ c.meant = Top(t).meant
  BY <1>1, <1>2, CallerValue
<1>4. PICK o \in Shell, m \in Method, e \in Event \cup {Nil}, x \in Event \cup {Nil} :
         stack' = Calls(t, <<[Frame("virtual", o, m) EXCEPT
                                !.items = c.items, !.meant = c.meant, !.event = e, !.temp = x]>>, c)
  <2>1. PICK o \in Shell, m \in Method :
           \E e \in IF m \in TakesEvent
                    THEN {x \in Event : x = Top(t).event \/ ~event[x].live} ELSE {Nil} :
           LET new == e # Nil /\ e # Top(t).event IN
           stack' = Calls(t, <<[Frame("virtual", o, m) EXCEPT
                                  !.items = c.items, !.meant = c.meant, !.event = e,
                                  !.temp = IF new THEN e ELSE Nil]>>, c)
    BY DEF CppCall
  <2> HIDE DEF c
  <2> QED BY <2>1
<1> DEFINE g == Frame("virtual", o, m)
           f == [g EXCEPT !.items = c.items, !.meant = c.meant, !.event = e, !.temp = x]
           p == error[t]
<1>5. g \in FrameType /\ g.in = "virtual" /\ g.pc = "start" /\ g.out = NoValue
  BY FrameTyped, VirtualCallAssumption DEF Frame
<1>6. Top(t) \in FrameType /\ Placed(Top(t))
  BY <1>1, <1>2, Now
<1>7. stack' = Calls(t, <<f>>, c)
  BY <1>4
<1> HIDE DEF g, c
<1>8. c.items \in Seq(Int) /\ c.meant \in Seq(Int)
  BY <1>3 DEF FrameType
<1>9. /\ f \in FrameType /\ f.in = "virtual" /\ f.pc = "start" /\ f.out = NoValue
      /\ f.items = c.items /\ f.meant = c.meant
  BY <1>5, <1>8 DEF FrameType
<1> HIDE DEF f
<1>10. Through(f) /\ Through(c) /\ Through(Top(t))
  BY <1>1, <1>3, <1>6, <1>9 DEF Through, Placed
<1>11. p \in BOOLEAN /\ error' = [error EXCEPT ![t] = p]
  BY <1>1, <1>2, ErrorKept
<1>12. t \in Python => \/ ~error[t] /\ (Exact(f) \/ (p /\ Through(f)))
                       \/ error[t] /\ p /\ Through(f) /\ Through(c) /\ Through(Top(t))
  <2>1. CASE ~error[t]
    <3>1. t \in Python => Exact(Top(t))
      BY <1>1, <2>1, ValueNow
    <3>2. Exact(Top(t)) => Exact(f)
      BY <1>1, <1>3, <1>9 DEF Exact
    <3> QED BY <2>1, <3>1, <3>2
  <2>2. CASE error[t]
    BY <1>10, <2>2
  <2> QED BY <2>1, <2>2
<1> HIDE DEF p
<1> QED BY <1>1, <1>2, <1>3, <1>7, <1>9, <1>11, <1>12, ValuePushed

\* The method of the C++ class gets the value that the virtual method was given.
LEMMA VirtualBaseValues ==
    ASSUME ValueInv, NEW t \in Thread, VirtualBase(t)
    PROVE  ValueInv'
<1> DEFINE f == Top(t)
           g == CppFrame(f.obj, f.method)
           x == [g EXCEPT !.items = f.items, !.meant = f.meant, !.event = f.event]
           c == [f EXCEPT !.pc = "base", !.had = gil = t]
           p == error[t]
<1>1. /\ Running(t, "virtual") /\ stack[t] # <<>> /\ f.in = "virtual" /\ ~error[t] /\ UNCHANGED error
      /\ stack' = Calls(t, <<x>>, c)
  BY DEF VirtualBase, BaseCalled, Running
<1>2. Inv' /\ Inv
  BY VirtualBaseOK DEF ValueInv
<1>3. f \in FrameType /\ f.obj \in Obj /\ f.method \in Method /\ f.event \in Event \cup {Nil}
      /\ f.items \in Seq(Int) /\ f.meant \in Seq(Int)
  BY <1>1, <1>2, VirtualNow, VirtualCallAssumption
<1>4. g \in FrameType /\ g.in = "cpp"
  BY <1>3, CppFrameTyped
<1>5. g.out = NoValue
  <2> DEFINE h == Frame("cpp", f.obj, f.method)
  <2>1. h \in FrameType /\ h.out = NoValue
    BY <1>3, FrameTyped DEF Frame
  <2>2. \E pc \in {"start", "locks"} : g = [h EXCEPT !.pc = pc]
    BY DEF CppFrame
  <2> HIDE DEF h, g
  <2> QED BY <2>1, <2>2 DEF FrameType
<1>6. p \in BOOLEAN /\ error' = [error EXCEPT ![t] = p]
  BY <1>1, <1>2, ErrorKept
<1>7. t \in Python => Exact(f)
  BY <1>1, ValueNow
<1> HIDE DEF f, g, p
<1>8. /\ x \in FrameType /\ x.in = "cpp" /\ x.out = NoValue /\ x.items = f.items /\ x.meant = f.meant
  BY <1>3, <1>4, <1>5 DEF FrameType
<1>9. c \in FrameType /\ c.in = f.in /\ c.out = f.out /\ c.items = f.items /\ c.meant = f.meant
  BY <1>3 DEF FrameType
<1> HIDE DEF x, c
<1>10. t \in Python => Exact(x)
  BY <1>1, <1>7, <1>8 DEF Exact
<1> QED BY <1>1, <1>2, <1>6, <1>8, <1>9, <1>10, ValuePushed DEF f

LEMMA VirtualOverrideValues ==
    ASSUME ValueInv, NEW t \in Thread, VirtualOverride(t)
    PROVE  ValueInv'
<1> DEFINE f == Top(t)
           g == Frame("python", Bound(f.obj, f.method), f.method)
           x == [g EXCEPT !.event = f.event]
           c == [f EXCEPT !.pc = "override", !.had = gil = t, !.reset = InvalidateArg(f.event)]
           p == error[t]
<1>1. /\ Running(t, "virtual") /\ stack[t] # <<>> /\ ~error[t] /\ UNCHANGED error
      /\ stack' = Calls(t, <<x>>, c)
  BY DEF VirtualOverride, Running
<1>2. Inv' /\ Inv /\ event \in EventData
  BY VirtualOverrideOK DEF ValueInv, Inv, Types
<1>3. f \in FrameType /\ f.obj \in Obj /\ f.method \in Method /\ f.event \in Event \cup {Nil}
  BY <1>1, <1>2, VirtualNow, VirtualCallAssumption
<1>4. p \in BOOLEAN /\ error' = [error EXCEPT ![t] = p]
  BY <1>1, <1>2, ErrorKept
<1> HIDE DEF f, p
<1>5. Bound(f.obj, f.method) \in Obj \cup {Nil} /\ InvalidateArg(f.event) \in BOOLEAN
  BY <1>2, <1>3 DEF Bound, InvalidateArg, EventData
<1>6. g \in FrameType /\ g.in = "python" /\ g.out = NoValue
  BY <1>3, <1>5, FrameTyped DEF Frame
<1> HIDE DEF g
<1>7. x \in FrameType /\ x.in = "python" /\ x.out = NoValue
  BY <1>3, <1>6 DEF FrameType
<1>8. c \in FrameType /\ c.in = f.in /\ c.out = f.out /\ c.items = f.items /\ c.meant = f.meant
  BY <1>3, <1>5 DEF FrameType
<1> HIDE DEF x, c
<1>9. Exact(x)
  BY <1>7 DEF Exact
<1> QED BY <1>1, <1>2, <1>4, <1>7, <1>8, <1>9, ValuePushed DEF f

LEMMA DropValues ==
    ASSUME ValueInv, NEW t \in Thread, Drop(t)
    PROVE  ValueInv'
<1>1. PICK o \in Owned : stack' = Calls(t, <<Frame("dealloc", o, Nil)>>, Top(t))
  BY DEF Drop
<1> DEFINE f == Frame("dealloc", o, Nil)
           c == Top(t)
           p == error[t]
<1>2. stack[t] # <<>> /\ c.in = "python" /\ UNCHANGED error
  BY DEF Drop, Running
<1>3. Inv' /\ Inv
  BY DropOK DEF ValueInv
<1>4. f \in FrameType /\ f.in = "dealloc" /\ f.out = NoValue
  BY FrameTyped, VirtualCallAssumption DEF Frame
<1>5. stack' = Calls(t, <<f>>, c)
  BY <1>1
<1> HIDE DEF f
<1>6. c \in FrameType /\ ~error[t]
  BY <1>2, <1>3, Now DEF Clear
<1>7. p \in BOOLEAN /\ error' = [error EXCEPT ![t] = p]
  BY <1>2, <1>3, ErrorKept
<1>8. Exact(f)
  BY <1>4 DEF Exact
<1> HIDE DEF p, c
<1> QED BY <1>2, <1>3, <1>4, <1>5, <1>6, <1>7, <1>8, ValuePushed DEF c

\* A call of the binding gets what Python code means, or an error is pending.
LEMMA BindingCallValues ==
    ASSUME ValueInv, Convertible, NEW t \in Thread, BindingCall(t)
    PROVE  ValueInv'
<1> DEFINE c == Caller(t)
           r == Below(t)
<1>1. stack[t] # <<>> /\ Top(t).in = "python" /\ Top(t).left > 0
  BY DEF BindingCall, Running
<1>2. Inv' /\ Inv
  BY BindingCallOK DEF ValueInv
<1>3. /\ c \in FrameType /\ c.in = Top(t).in /\ c.pc = Top(t).pc /\ c.out = Top(t).out
      /\ c.items = Top(t).items /\ c.meant = Top(t).meant
  BY <1>1, <1>2, CallerValue
<1>4. ~error[t] /\ r \in Seq(FrameType)
  BY <1>1, <1>2, Now, Split DEF Clear
<1>5. PICK o \in Obj, m \in Method, value \in Value, e \in Event \cup {Nil} : BindingCalls(t, o, m, value, e)
  BY BindingCallSteps
<1> HIDE DEF c, r
<1> DEFINE b == Frame("binding", o, m)
<1>6. b \in FrameType /\ b.in = "binding" /\ b.out = NoValue /\ Exact(b)
  <2>1. /\ b \in FrameType /\ b.in = "binding" /\ b.out = NoValue /\ b.items = <<>>
        /\ b.meant = <<>>
    BY FrameTyped DEF Frame
  <2>2. <<>> \in Seq(LongLong)
    OBVIOUS
  <2> HIDE DEF b
  <2> QED BY <2>1, <2>2 DEF Exact
<1> HIDE DEF b
<1>7. CASE stack' = Calls(t, <<b>>, c) /\ error' = [error EXCEPT ![t] = TRUE]
  BY <1>1, <1>2, <1>3, <1>4, <1>6, <1>7, ValuePushed
<1>8. ASSUME NEW d \in ToCpp(Param[m], value), ~d.error, UNCHANGED error,
             stack' = Calls(t, <<[CppFrame(o, m) EXCEPT
                                    !.items = d.items, !.meant = ValuesOf(value), !.event = e], b>>, c)
      PROVE  ValueInv'
  <2> DEFINE g == CppFrame(o, m)
             f == [g EXCEPT !.items = d.items, !.meant = ValuesOf(value), !.event = e]
             s == <<c>> \o r
             q == <<b>> \o s
             n == <<f>> \o q
             p == error[t]
  <2>1. g \in FrameType /\ g.in = "cpp" /\ g.out = NoValue
    <3> DEFINE h == Frame("cpp", o, m)
    <3>1. h \in FrameType /\ h.out = NoValue
      BY FrameTyped DEF Frame
    <3>2. \E pc \in {"start", "locks"} : g = [h EXCEPT !.pc = pc]
      BY DEF CppFrame
    <3>3. g \in FrameType /\ g.in = "cpp"
      BY CppFrameTyped
    <3> HIDE DEF h, g
    <3> QED BY <3>1, <3>2, <3>3 DEF FrameType
  <2>2. d.items \in Seq(Int) /\ ValuesOf(value) \in Seq(Int)
    BY VirtualCallAssumption, ToCppTyped
  <2>3. d.items = ValuesOf(value) /\ d.items \in Seq(LongLong)
    BY <1>8, ValueExact
  <2>4. /\ f \in FrameType /\ f.in = "cpp" /\ f.out = NoValue
        /\ f.items = d.items /\ f.meant = ValuesOf(value)
    <3> HIDE DEF g
    <3> QED BY <2>1, <2>2 DEF FrameType
  <2>5. stack' = Calls(t, <<f, b>>, c)
    BY <1>8
  <2> HIDE DEF f, g
  <2>6. Exact(f)
    BY <2>3, <2>4 DEF Exact
  <2>7. stack' = [stack EXCEPT ![t] = n]
    <3>1. <<f>> \in Seq(FrameType) /\ <<b>> \in Seq(FrameType) /\ <<c>> \in Seq(FrameType)
          /\ <<f, b>> = <<f>> \o <<b>>
      BY <1>3, <1>6, <2>4
    <3>2. s \in Seq(FrameType)
      BY <1>4, <3>1
    <3>3. <<f, b>> \o <<c>> \o r = <<f, b>> \o s
      BY <1>4, <3>1, ConcatAssociative
    <3>4. (<<f>> \o <<b>>) \o s = <<f>> \o (<<b>> \o s)
      BY <3>1, <3>2, ConcatAssociative
    <3> QED BY <2>5, <3>1, <3>3, <3>4 DEF Calls, r
  <2>8. s \in Seq(FrameType)
    BY <1>3, <1>4, Consed
  <2>9. q \in Seq(FrameType)
    BY <1>6, <2>8, Consed
  <2>10. p \in BOOLEAN /\ error' = [error EXCEPT ![t] = p]
    BY <1>2, <1>8, ErrorKept
  <2>11. t \in Python => Sound(n, p)
    <3> HIDE DEF p
    <3> SUFFICES ASSUME t \in Python
                 PROVE  Sound(n, FALSE)
      BY <2>10, Weaker
    <3>1. Top(t).out \in Out /\ Exact(Top(t)) /\ Sound(r, FALSE) /\ NoValue \in Out
      BY <1>1, <1>4, ValueNow DEF Out, r
    <3>2. c.out \in Out /\ Exact(c)
      BY <1>3, <3>1 DEF Exact
    <3>3. Sound(s, FALSE)
      BY <1>3, <1>4, <3>1, <3>2, ConsedSound
    <3> HIDE DEF s
    <3>4. Sound(q, FALSE)
      BY <1>6, <2>8, <3>1, <3>3, ConsedSound
    <3> HIDE DEF q
    <3> QED BY <2>4, <2>6, <2>9, <3>1, <3>4, ConsedSound
  <2> HIDE DEF n, p
  <2> QED BY <1>2, <2>7, <2>10, <2>11, ValueMoved
<1> QED BY <1>5, <1>7, <1>8 DEF b, c, BindingCalls

LEMMA InitValues == Init => ValueInv
<1> SUFFICES ASSUME Init
             PROVE  ValueInv
  OBVIOUS
<1> DEFINE f == Frame("python", Nil, Nil)
<1>1. f \in FrameType /\ f.in = "python" /\ f.out = NoValue
  BY FrameTyped DEF Frame
<1>2. \A t \in Python : stack[t] = <<f>>
  BY DEF Init, Thread
<1> HIDE DEF f
<1>3. ASSUME NEW t \in Python
      PROVE  Sound(stack[t], error[t])
  <2>1. stack[t] = <<f>> /\ Len(<<f>>) = 1 /\ <<f>>[1] = f
    BY <1>2
  <2>2. \A i \in 1..1 : i = 1
    OBVIOUS
  <2>3. f.out \in Out /\ Exact(f)
    BY <1>1 DEF Out, Exact
  <2> QED BY <2>1, <2>2, <2>3 DEF Sound
<1> QED BY <1>3, InitOK DEF ValueInv

LEMMA NextValues ==
    ASSUME ValueInv, [Next]_callVars, Convertible
    PROVE  ValueInv'
<1>1. CASE UNCHANGED callVars
  <2>1. UNCHANGED <<stack, error>> /\ Inv'
    BY <1>1, NextOK DEF callVars, ValueInv
  <2> QED BY <2>1, ValueKept
<1>2. ASSUME NEW t \in Thread,
             \/ Progress(t) \/ Assign(t) \/ Keep(t) \/ Forget(t)
             \/ BindingCall(t) \/ Drop(t) \/ WorkerStart(t) \/ CppCall(t)
      PROVE  ValueInv'
  <2>1. CASE Progress(t)
    BY <2>1, PythonReturnValues, BindingReturnValues, CppLockValues, CppReturnValues,
       VirtualSkippedValues, VirtualPureValues, VirtualBaseValues, VirtualOverrideValues,
       OverrideFailedValues, OverrideReturnedValues, DeallocValues, DeallocEndValues DEF Progress
  <2> QED BY <1>2, <2>1, AssignValues, BindingCallValues, DropValues, WorkerStartValues, CppCallValues
<1> QED BY <1>1, <1>2 DEF Next

-----------------------------------------------------------------------------
(* Theorems.                                                               *)

\* The inductive invariant holds in every state when values have exact C++ values.
THEOREM ValuesInductive ==
    ASSUME Convertible
    PROVE  Spec => []ValueInv
  BY InitValues, NextValues, PTL DEF Spec

\* What Python code passes or returns arrives as it was meant, or an error is
\* pending, through any number of calls between Python and C++ and whatever they
\* do after one of them failed (PyErr_Occurred at cppgenerator.cpp:669 and 1481,
\* the overflow checks of conversions.h).
THEOREM ValuesArrive ==
    ASSUME Convertible
    PROVE  Spec => []ValuesSurvive
<1>1. ValueInv => ValuesSurvive
  <2> SUFFICES ASSUME ValueInv, NEW t \in Python, NEW f \in Frames(t), ~error[t]
               PROVE  /\ f.in \in {"cpp", "virtual"} => f.items = f.meant
                      /\ f.in = "binding" => ValuesOf(Result(f)) = f.meant
    BY DEF ValuesSurvive
  <2>1. /\ t \in Thread /\ Inv /\ stack[t] \in Seq(FrameType) /\ Stacked(stack[t])
    BY DEF ValueInv, Inv, ThreadOK, Thread
  <2>2. PICK i \in 1..Len(stack[t]) : f = stack[t][i]
    BY <2>1 DEF Frames
  <2>3. Exact(f) /\ Placed(f) /\ f \in FrameType
    BY <2>1, <2>2 DEF ValueInv, Sound, Stacked
  <2>4. CASE f.in \in {"cpp", "virtual"}
    BY <2>3, <2>4 DEF Exact
  <2>5. CASE f.in = "binding"
    <3> DEFINE type == Param[f.method]
               v == Result(f)
               w == ValuesOf(v)
               s == f.items
    <3>1. s = f.meant /\ s \in Seq(LongLong) /\ type \in CppType /\ LongLong \subseteq Int
      BY <2>3, <2>5, VirtualCallAssumption, LongLongRange DEF Exact, Placed
    <3>2. v = ToPython(type, s)
      BY DEF Result
    <3> HIDE DEF type, s, v
    <3>3. /\ DOMAIN v.items = DOMAIN s
          /\ \A j \in DOMAIN s : v.items[j].val = s[j]
      BY <3>1, <3>2, ResultsExact
    <3>4. w = [j \in DOMAIN s |-> s[j]]
      BY <3>3 DEF ValuesOf
    <3>5. s = [j \in DOMAIN s |-> s[j]]
      BY <3>1
    <3> QED BY <2>5, <3>1, <3>4, <3>5 DEF v
  <2> QED BY <2>4, <2>5
<1> QED BY <1>1, ValuesInductive, PTL
=============================================================================
