-------------------------- MODULE ModuleInitProofs --------------------------
(***************************************************************************)
(* Python code only has modules whose classes are ready and found by their *)
(* names, items of enums live as long as it has them, and an object gets   *)
(* the wrapper of its class, for every set of modules that require each    *)
(* other, every class hierarchy and every failure of an import or a class. *)
(***************************************************************************)
EXTENDS ModuleInit, FiniteSetTheorems, WellFoundedInduction, TLAPS

-----------------------------------------------------------------------------
(* The inductive invariant.                                                *)

Rank ==
    CHOOSE rank \in [Module -> 1..Cardinality(Module)] :
        \A m \in Module : \A r \in RangeOf(Requires[m]) : rank[r] < rank[m]

\* The initialisations in progress are of modules that each are required by the
\* next, so that none is there twice.
Frame == [mod : Module, pc : Nat \ {0}]
Stacked ==
    /\ imports \in Seq(Frame) /\ classHierarchy \in Seq(Class \X Class)
    /\ \A i, j \in DOMAIN imports : i < j => Rank[imports[i].mod] < Rank[imports[j].mod]
    /\ \A m \in Module : module[m] = "created" => \E i \in DOMAIN imports : imports[i].mod = m

\* What a step of an initialisation function has done, unless there is an error.
Achieved(m, k) ==
    LET of == Program(m)[k].of IN
    CASE Program(m)[k].op = "require"  -> pending \/ <<m, of>> \in api
      [] Program(m)[k].op = "class"    -> pending \/ of \in ready
      [] Program(m)[k].op = "register" -> m \in moduleTypes
      [] OTHER -> TRUE

Passed(m, k) == \E i \in DOMAIN imports : imports[i].mod = m /\ k < imports[i].pc

Progress ==
    \A m \in Module : \A k \in DOMAIN Program(m) : Passed(m, k) => Achieved(m, k)

Loaded ==
    \A m \in Module : module[m] = "loaded" =>
        /\ m \in moduleTypes /\ \A r \in RangeOf(Requires[m]) : <<m, r>> \in api
        /\ RangeOf(Order[m]) \subseteq ready

\* A step has been run.
Done(m, k) == module[m] = "loaded" \/ Passed(m, k)

\* Classes and enums are made by their steps only.
MadeBySteps ==
    /\ \A m \in Module : \A k \in DOMAIN Program(m) :
           /\ Program(m)[k].op = "class" /\ Program(m)[k].of \in ready => Done(m, k)
           /\ Program(m)[k].op = "enum" /\ Program(m)[k].of \in enums => Done(m, k)
    /\ \A e \in enums : Scope[e] \in Class => Scope[e] \in ready

\* The names known are of classes that are ready and of enums that exist.
NamesKnown ==
    /\ \A n \in DOMAIN resolvers :
           \/ resolvers[n] \in ready /\ n \in RangeOf(RegisterType(resolvers[n]))
           \/ \E e \in enums : n \in RangeOf(BothNames(e, FALSE))
    /\ \A c \in ready :
           /\ RangeOf(Bases[c]) \subseteq ready
           /\ \A n \in RangeOf(RegisterType(c)) : n \in DOMAIN resolvers /\ resolvers[n] = c
           /\ behaviour[c] = BEHAVIOUR_VALUETYPE <=> c \in ValueType
    /\ \A c \in Class : behaviour[c] # 0 => c \in ready

RefsCounted ==
    /\ \A x \in Item : refs[x] > 0 => x[1] \in enums
    /\ ItemsLive

Inv == TypeOK /\ Stacked /\ Progress /\ Loaded /\ MadeBySteps /\ NamesKnown /\ RefsCounted

-----------------------------------------------------------------------------
(* The steps of an initialisation function.                                *)

OpName == {"require", "create", "class", "enum", "register"}
Made == Class \cup Enum \cup Module
Operation == [op : OpName, of : Made]

\* u is s and then t.
Joined(s, t, u) ==
    /\ Len(u) = Len(s) + Len(t)
    /\ \A k \in 1..Len(s) : u[k] = s[k]
    /\ \A k \in 1..Len(t) : u[Len(s) + k] = t[k]

\* What is at a place in two sequences one after the other.
LEMMA Concatenation ==
    ASSUME NEW S, NEW s \in Seq(S), NEW t \in Seq(S)
    PROVE  s \o t \in Seq(S) /\ Joined(s, t, s \o t)
BY DEF Joined

\* W is five sequences one after the other.
Parts(A, B, C, E, R, W) ==
    LET a == Len(A)
        b == a + Len(B)
        c == b + Len(C)
        e == c + Len(E)
    IN  /\ DOMAIN W = 1..e + Len(R)
        /\ \A k \in 1..Len(A) : W[k] = A[k]
        /\ \A k \in 1..Len(B) : W[a + k] = B[k]
        /\ \A k \in 1..Len(C) : W[b + k] = C[k]
        /\ \A k \in 1..Len(E) : W[c + k] = E[k]
        /\ \A k \in 1..Len(R) : W[e + k] = R[k]

LEMMA FiveParts ==
    ASSUME NEW S, NEW A \in Seq(S), NEW B \in Seq(S), NEW C \in Seq(S), NEW E \in Seq(S),
           NEW R \in Seq(S)
    PROVE  Parts(A, B, C, E, R, A \o B \o C \o E \o R)
<1>1. PICK X : X = A \o B
  OBVIOUS
<1>2. X \in Seq(S) /\ Joined(A, B, X)
  BY <1>1, Concatenation
<1>3. PICK Y : Y = X \o C
  OBVIOUS
<1>4. Y \in Seq(S) /\ Joined(X, C, Y)
  BY <1>2, <1>3, Concatenation
<1>5. PICK Z : Z = Y \o E
  OBVIOUS
<1>6. Z \in Seq(S) /\ Joined(Y, E, Z)
  BY <1>4, <1>5, Concatenation
<1>7. PICK W : W = Z \o R
  OBVIOUS
<1>8. W \in Seq(S) /\ Joined(Z, R, W)
  BY <1>6, <1>7, Concatenation
<1>9. W = A \o B \o C \o E \o R
  BY <1>1, <1>3, <1>5, <1>7
<1>10. /\ Len(A) \in Nat /\ Len(B) \in Nat /\ Len(C) \in Nat /\ Len(E) \in Nat /\ Len(R) \in Nat
       /\ Len(X) = Len(A) + Len(B) /\ Len(Y) = Len(A) + Len(B) + Len(C)
       /\ Len(Z) = Len(A) + Len(B) + Len(C) + Len(E) /\ Len(W) = Len(Z) + Len(R)
       /\ DOMAIN W = 1..Len(W)
  BY <1>2, <1>4, <1>6, <1>8 DEF Joined
<1>11. /\ \A k \in 1..Len(Z) : W[k] = Z[k]
       /\ \A k \in 1..Len(R) : W[Len(Z) + k] = R[k]
  BY <1>8 DEF Joined
<1>12. /\ \A k \in 1..Len(Y) : W[k] = Y[k]
       /\ \A k \in 1..Len(E) : W[Len(Y) + k] = E[k]
  BY <1>6, <1>10, <1>11, SMTT(30) DEF Joined
<1>13. /\ \A k \in 1..Len(X) : W[k] = X[k]
       /\ \A k \in 1..Len(C) : W[Len(X) + k] = C[k]
  BY <1>4, <1>10, <1>12, SMTT(30) DEF Joined
<1>14. /\ \A k \in 1..Len(A) : W[k] = A[k]
       /\ \A k \in 1..Len(B) : W[Len(A) + k] = B[k]
  BY <1>2, <1>10, <1>13, SMTT(30) DEF Joined
<1> QED BY <1>9, <1>10, <1>11, <1>12, <1>13, <1>14, SMTT(30) DEF Parts

\* A function on 1..n is a sequence of length n.
LEMMA SequenceOf ==
    ASSUME NEW S, NEW n \in Nat, NEW f \in [1..n -> S]
    PROVE  f \in Seq(S) /\ Len(f) = n
OBVIOUS

\* u has one operation for each item of a list.
ForEach(op, s, u) ==
    /\ Len(u) = Len(s)
    /\ \A k \in 1..Len(s) : u[k] = [op |-> op, of |-> s[k]]

LEMMA OpsOfList ==
    ASSUME NEW s \in Seq(Made), NEW op \in OpName
    PROVE  Ops(op, s) \in Seq(Operation) /\ ForEach(op, s, Ops(op, s))
<1>1. Len(s) \in Nat /\ DOMAIN s = 1..Len(s) /\ \A k \in 1..Len(s) : s[k] \in Made
  OBVIOUS
<1>2. Ops(op, s) = [k \in 1..Len(s) |-> [op |-> op, of |-> s[k]]]
  BY <1>1 DEF Ops
<1>3. Ops(op, s) \in [1..Len(s) -> Operation]
  BY <1>1, <1>2 DEF Operation
<1>4. Ops(op, s) \in Seq(Operation) /\ Len(Ops(op, s)) = Len(s)
  BY <1>1, <1>3, SequenceOf
<1> QED BY <1>2, <1>4 DEF ForEach

\* The enums of a module are made in some order, each of them once.
LEMMA GlobalEnumsOnce ==
    ASSUME NEW m \in Module
    PROVE  /\ GlobalEnums(m) \in Seq({e \in Enum : Scope[e] = m})
           /\ \A i, j \in 1..Len(GlobalEnums(m)) : GlobalEnums(m)[i] = GlobalEnums(m)[j] => i = j
<1> DEFINE E == {e \in Enum : Scope[e] = m}
           N == Cardinality(E)
<1>1. IsFiniteSet(E) BY FS_Subset, ModuleInitAssumption
<1>2. N \in Nat /\ ExistsBijection(1..N, E) BY <1>1, FS_CardinalityType
<1>3. \E f \in [1..N -> E] : IsInjective(f)
  <2>1. PICK f \in Bijection(1..N, E) : TRUE BY <1>2 DEF ExistsBijection
  <2>2. f \in [1..N -> E] /\ IsInjective(f)
    BY <2>1 DEF Bijection, Injection, IsInjective
  <2> QED BY <2>2
<1>4. SetToSeq(E) \in [1..N -> E] /\ IsInjective(SetToSeq(E)) BY <1>3 DEF SetToSeq
<1>5. GlobalEnums(m) = SetToSeq(E) BY DEF GlobalEnums
<1>6. GlobalEnums(m) \in Seq(E) /\ Len(GlobalEnums(m)) = N BY <1>2, <1>4, <1>5
<1> QED BY <1>2, <1>4, <1>5, <1>6 DEF IsInjective

\* The places of the steps that create the module and register its types, and
\* of the last class.
CreatePlace(m) == Len(Requires[m]) + 1
ClassesEnd(m) == CreatePlace(m) + Len(Order[m])
RegisterPlace(m) == ClassesEnd(m) + Len(GlobalEnums(m)) + 1

\* The whole function, step by step.
LEMMA ProgramSteps ==
    ASSUME NEW m \in Module
    PROVE  /\ DOMAIN Program(m) = 1..RegisterPlace(m)
           /\ \A k \in 1..Len(Requires[m]) :
                  Program(m)[k] = [op |-> "require", of |-> Requires[m][k]]
           /\ Program(m)[CreatePlace(m)] = [op |-> "create", of |-> m]
           /\ \A k \in 1..Len(Order[m]) :
                  Program(m)[CreatePlace(m) + k] = [op |-> "class", of |-> Order[m][k]]
           /\ \A k \in 1..Len(GlobalEnums(m)) :
                  Program(m)[ClassesEnd(m) + k] = [op |-> "enum", of |-> GlobalEnums(m)[k]]
           /\ Program(m)[RegisterPlace(m)] = [op |-> "register", of |-> m]
<1>1. /\ Requires[m] \in Seq(Made) /\ Order[m] \in Seq(Made) /\ GlobalEnums(m) \in Seq(Made)
      /\ <<m>> \in Seq(Made) /\ Len(<<m>>) = 1 /\ <<m>>[1] = m
  <2>1. Requires[m] \in Seq(Module) /\ Order[m] \in Seq(Class)
        /\ GlobalEnums(m) \in Seq({e \in Enum : Scope[e] = m})
    BY GlobalEnumsOnce, ModuleInitAssumption
  <2> QED BY <2>1 DEF Made
<1>2. /\ "require" \in OpName /\ "create" \in OpName /\ "class" \in OpName
      /\ "enum" \in OpName /\ "register" \in OpName
  BY DEF OpName
<1>3. PICK A : A = Ops("require", Requires[m])
  OBVIOUS
<1>4. PICK B : B = Ops("create", <<m>>)
  OBVIOUS
<1>5. PICK C : C = Ops("class", Order[m])
  OBVIOUS
<1>6. PICK E : E = Ops("enum", GlobalEnums(m))
  OBVIOUS
<1>7. PICK R : R = Ops("register", <<m>>)
  OBVIOUS
<1>8. A \in Seq(Operation) /\ ForEach("require", Requires[m], A)
  BY <1>1, <1>2, <1>3, OpsOfList
<1>9. B \in Seq(Operation) /\ ForEach("create", <<m>>, B)
  BY <1>1, <1>2, <1>4, OpsOfList
<1>10. C \in Seq(Operation) /\ ForEach("class", Order[m], C)
  BY <1>1, <1>2, <1>5, OpsOfList
<1>11. E \in Seq(Operation) /\ ForEach("enum", GlobalEnums(m), E)
  BY <1>1, <1>2, <1>6, OpsOfList
<1>12. R \in Seq(Operation) /\ ForEach("register", <<m>>, R)
  BY <1>1, <1>2, <1>7, OpsOfList
<1>13. /\ Len(A) = Len(Requires[m]) /\ Len(B) = 1 /\ Len(C) = Len(Order[m])
       /\ Len(E) = Len(GlobalEnums(m)) /\ Len(R) = 1
  BY <1>1, <1>8, <1>9, <1>10, <1>11, <1>12 DEF ForEach
<1>14. PICK P : P = Program(m)
  OBVIOUS
<1>15. P = A \o B \o C \o E \o R
  BY <1>3, <1>4, <1>5, <1>6, <1>7, <1>14 DEF Program
<1>16. Parts(A, B, C, E, R, P)
  BY <1>8, <1>9, <1>10, <1>11, <1>12, <1>15, FiveParts
<1>17. /\ \A k \in 1..Len(Requires[m]) : A[k] = [op |-> "require", of |-> Requires[m][k]]
       /\ B[1] = [op |-> "create", of |-> m]
       /\ \A k \in 1..Len(Order[m]) : C[k] = [op |-> "class", of |-> Order[m][k]]
       /\ \A k \in 1..Len(GlobalEnums(m)) : E[k] = [op |-> "enum", of |-> GlobalEnums(m)[k]]
       /\ R[1] = [op |-> "register", of |-> m]
  BY <1>1, <1>8, <1>9, <1>10, <1>11, <1>12 DEF ForEach
<1>18. 1 \in 1..Len(B) /\ 1 \in 1..Len(R)
  BY <1>13
<1>19. Parts(A, B, C, E, R, P) /\ P = Program(m)
  BY <1>14, <1>16
<1> HIDE <1>15
<1>20. PICK q \in Nat, d \in Nat, g \in Nat :
           q = Len(Requires[m]) /\ d = Len(Order[m]) /\ g = Len(GlobalEnums(m))
  BY <1>1
<1>21. /\ Len(A) = q /\ Len(B) = 1 /\ Len(C) = d /\ Len(E) = g /\ Len(R) = 1
       /\ CreatePlace(m) = q + 1 /\ ClassesEnd(m) = q + 1 + d /\ RegisterPlace(m) = q + 1 + d + g + 1
  BY <1>13, <1>20 DEF CreatePlace, ClassesEnd, RegisterPlace
<1>22. /\ DOMAIN P = 1..(q + 1 + d + g + 1)
       /\ \A k \in 1..q : P[k] = A[k]
       /\ P[q + 1] = B[1]
       /\ \A k \in 1..d : P[q + 1 + k] = C[k]
       /\ \A k \in 1..g : P[q + 1 + d + k] = E[k]
       /\ P[q + 1 + d + g + 1] = R[1]
  BY <1>18, <1>19, <1>21 DEF Parts
<1> QED BY <1>17, <1>19, <1>20, <1>21, <1>22

\* The places are in this order.
LEMMA Places ==
    ASSUME NEW m \in Module
    PROVE  /\ Len(Requires[m]) \in Nat /\ DOMAIN Requires[m] = 1..Len(Requires[m])
           /\ Len(Order[m]) \in Nat /\ DOMAIN Order[m] = 1..Len(Order[m])
           /\ Len(GlobalEnums(m)) \in Nat
           /\ \A k \in 1..Len(GlobalEnums(m)) :
                  GlobalEnums(m)[k] \in Enum /\ Scope[GlobalEnums(m)[k]] = m
           /\ CreatePlace(m) = Len(Requires[m]) + 1
           /\ ClassesEnd(m) = CreatePlace(m) + Len(Order[m])
           /\ RegisterPlace(m) = ClassesEnd(m) + Len(GlobalEnums(m)) + 1
<1>1. Requires[m] \in Seq(Module) /\ Order[m] \in Seq(Class)
  BY ModuleInitAssumption
<1>2. PICK S : S = {e \in Enum : Scope[e] = m}
  OBVIOUS
<1>3. PICK es : es = GlobalEnums(m)
  OBVIOUS
<1>4. es \in Seq(S)
  BY <1>2, <1>3, GlobalEnumsOnce
<1>5. Len(es) \in Nat /\ \A k \in 1..Len(es) : es[k] \in S
  BY <1>4
<1>6. Len(es) \in Nat /\ \A k \in 1..Len(es) : es[k] \in Enum /\ Scope[es[k]] = m
  BY <1>2, <1>5
<1> QED BY <1>1, <1>3, <1>6 DEF CreatePlace, ClassesEnd, RegisterPlace

\* A step of the function is one of these.
LEMMA StepCases ==
    ASSUME NEW m \in Module, NEW k \in DOMAIN Program(m)
    PROVE  \/ \E i \in 1..Len(Requires[m]) :
                  k = i /\ Program(m)[k] = [op |-> "require", of |-> Requires[m][i]]
           \/ k = CreatePlace(m) /\ Program(m)[k] = [op |-> "create", of |-> m]
           \/ \E i \in 1..Len(Order[m]) :
                  k = CreatePlace(m) + i /\ Program(m)[k] = [op |-> "class", of |-> Order[m][i]]
           \/ \E i \in 1..Len(GlobalEnums(m)) :
                  k = ClassesEnd(m) + i /\ Program(m)[k] = [op |-> "enum", of |-> GlobalEnums(m)[i]]
           \/ k = RegisterPlace(m) /\ Program(m)[k] = [op |-> "register", of |-> m]
<1>1. k \in 1..RegisterPlace(m)
  BY ProgramSteps
<1>2. \/ k \in 1..Len(Requires[m])
      \/ k = CreatePlace(m)
      \/ \E i \in 1..Len(Order[m]) : k = CreatePlace(m) + i
      \/ \E i \in 1..Len(GlobalEnums(m)) : k = ClassesEnd(m) + i
      \/ k = RegisterPlace(m)
  <2>1. PICK a \in Nat, c \in Nat, e \in Nat :
            a = Len(Requires[m]) /\ c = Len(Order[m]) /\ e = Len(GlobalEnums(m))
    BY Places
  <2>2. CreatePlace(m) = a + 1 /\ ClassesEnd(m) = a + 1 + c /\ RegisterPlace(m) = a + 1 + c + e + 1
    BY <2>1, Places
  <2>3. CASE k <= a
    <3>1. k \in 1..a
      BY <1>1, <2>2, <2>3
    <3> QED BY <2>1, <3>1
  <2>4. CASE k > a + 1 /\ k <= a + 1 + c
    <3>1. k - (a + 1) \in 1..c /\ k = a + 1 + (k - (a + 1))
      BY <1>1, <2>2, <2>4
    <3> QED BY <2>1, <2>2, <3>1
  <2>5. CASE k > a + 1 + c /\ k <= a + 1 + c + e
    <3>1. k - (a + 1 + c) \in 1..e /\ k = a + 1 + c + (k - (a + 1 + c))
      BY <1>1, <2>2, <2>5
    <3> QED BY <2>1, <2>2, <3>1
  <2>6. CASE k > a + 1 + c + e
    BY <1>1, <2>2, <2>6
  <2>7. k \in Int /\ (k <= a \/ k = a + 1 \/ k > a + 1)
    BY <1>1, <2>2
  <2> QED BY <2>2, <2>3, <2>4, <2>5, <2>6, <2>7
<1>3. CASE k \in 1..Len(Requires[m])
  BY <1>3, ProgramSteps
<1>4. CASE \E i \in 1..Len(Order[m]) : k = CreatePlace(m) + i
  BY <1>4, ProgramSteps
<1>5. CASE \E i \in 1..Len(GlobalEnums(m)) : k = ClassesEnd(m) + i
  BY <1>5, ProgramSteps
<1>6. CASE k = CreatePlace(m) \/ k = RegisterPlace(m)
  BY <1>6, ProgramSteps
<1> QED BY <1>2, <1>3, <1>4, <1>5, <1>6

LEMMA PlacesAreNumbers ==
    ASSUME NEW m \in Module, NEW k \in DOMAIN Program(m)
    PROVE  k \in Nat /\ k >= 1
<1>1. k \in 1..RegisterPlace(m)
  BY ProgramSteps
<1> QED BY <1>1

\* What a step of the function may be.
LEMMA StepKinds ==
    ASSUME NEW m \in Module, NEW k \in DOMAIN Program(m)
    PROVE  \/ Program(m)[k].op = "require" /\ Program(m)[k].of \in RangeOf(Requires[m])
           \/ Program(m)[k].op = "create" /\ Program(m)[k].of = m
           \/ Program(m)[k].op = "class" /\ Program(m)[k].of \in RangeOf(Order[m])
           \/ Program(m)[k].op = "enum" /\ Program(m)[k].of \in Enum /\ Scope[Program(m)[k].of] = m
           \/ Program(m)[k].op = "register" /\ Program(m)[k].of = m
<1>1. CASE \E i \in 1..Len(Requires[m]) : Program(m)[k] = [op |-> "require", of |-> Requires[m][i]]
  BY <1>1, Places DEF RangeOf
<1>2. CASE \E i \in 1..Len(Order[m]) : Program(m)[k] = [op |-> "class", of |-> Order[m][i]]
  BY <1>2, Places DEF RangeOf
<1>3. CASE \E i \in 1..Len(GlobalEnums(m)) : Program(m)[k] = [op |-> "enum", of |-> GlobalEnums(m)[i]]
  BY <1>3, Places
<1> QED BY <1>1, <1>2, <1>3, StepCases

\* The function requires all that the module does, makes all its classes and
\* registers them.
LEMMA StepsThere ==
    ASSUME NEW m \in Module
    PROVE  /\ \A r \in RangeOf(Requires[m]) : \E k \in DOMAIN Program(m) :
                  Program(m)[k].op = "require" /\ Program(m)[k].of = r
           /\ \A c \in RangeOf(Order[m]) : \E k \in DOMAIN Program(m) :
                  Program(m)[k].op = "class" /\ Program(m)[k].of = c
           /\ \E k \in DOMAIN Program(m) : Program(m)[k].op = "register"
<1>0. PICK a \in Nat, c \in Nat, e \in Nat :
          a = Len(Requires[m]) /\ c = Len(Order[m]) /\ e = Len(GlobalEnums(m))
  BY Places
<1>1. CreatePlace(m) = a + 1 /\ RegisterPlace(m) = a + 1 + c + e + 1
  BY <1>0, Places
<1>2. DOMAIN Program(m) = 1..a + 1 + c + e + 1
  BY <1>1, ProgramSteps
<1>3. ASSUME NEW r \in RangeOf(Requires[m])
      PROVE  \E k \in DOMAIN Program(m) : Program(m)[k].op = "require" /\ Program(m)[k].of = r
  <2>1. PICK k \in 1..a : Requires[m][k] = r
    BY <1>0, Places DEF RangeOf
  <2>2. k \in DOMAIN Program(m)
    BY <1>2
  <2>3. Program(m)[k] = [op |-> "require", of |-> r]
    BY <1>0, <2>1, ProgramSteps
  <2> QED BY <2>2, <2>3
<1>4. ASSUME NEW x \in RangeOf(Order[m])
      PROVE  \E k \in DOMAIN Program(m) : Program(m)[k].op = "class" /\ Program(m)[k].of = x
  <2>1. PICK k \in 1..c : Order[m][k] = x
    BY <1>0, Places DEF RangeOf
  <2>2. a + 1 + k \in DOMAIN Program(m)
    BY <1>2
  <2>3. Program(m)[CreatePlace(m) + k] = [op |-> "class", of |-> x]
    BY <1>0, <2>1, ProgramSteps
  <2> QED BY <1>1, <2>2, <2>3
<1>5. \E k \in DOMAIN Program(m) : Program(m)[k].op = "register"
  <2>1. RegisterPlace(m) \in DOMAIN Program(m)
    <3>1. a + 1 + c + e + 1 \in 1..a + 1 + c + e + 1
      OBVIOUS
    <3> QED BY <1>1, <1>2, <3>1
  <2>2. Program(m)[RegisterPlace(m)] = [op |-> "register", of |-> m]
    BY ProgramSteps
  <2> QED BY <2>1, <2>2
<1> QED BY <1>3, <1>4, <1>5

\* A class or a global enum is made by one step of one function.
LEMMA StepsOnce ==
    ASSUME NEW m \in Module, NEW n \in Module,
           NEW k \in DOMAIN Program(m), NEW j \in DOMAIN Program(n),
           Program(m)[k].op \in {"class", "enum"}, Program(m)[k].op = Program(n)[j].op,
           Program(m)[k].of = Program(n)[j].of
    PROVE  m = n /\ k = j
<1>1. m = n
  <2>1. CASE Program(m)[k].op = "class"
    <3>1. Program(m)[k].of \in RangeOf(Order[m])
      BY <2>1, StepKinds
    <3>2. Program(m)[k].of \in RangeOf(Order[n])
      BY <2>1, StepKinds
    <3> QED BY <3>1, <3>2, ModuleInitAssumption
  <2>2. CASE Program(m)[k].op = "enum"
    <3>1. Scope[Program(m)[k].of] = m
      BY <2>2, StepKinds
    <3>2. Scope[Program(n)[j].of] = n
      BY <2>2, StepKinds
    <3> QED BY <3>1, <3>2
  <2> QED BY <2>1, <2>2
<1>2. \A i, h \in 1..Len(Order[m]) : Order[m][i] = Order[m][h] => i = h
  <2>1. SUFFICES ASSUME NEW i \in 1..Len(Order[m]), NEW h \in 1..Len(Order[m]),
                        Order[m][i] = Order[m][h], h < i
                 PROVE  FALSE
    BY Places
  <2>2. h \in 1..(i - 1) /\ i \in DOMAIN Order[m]
    BY <2>1, Places
  <2>3. Order[m][i] \notin {Order[m][x] : x \in 1..(i - 1)}
    BY <2>2, ModuleInitAssumption
  <2> QED BY <2>1, <2>2, <2>3
<1>3. CASE Program(m)[k].op = "class"
  <2>1. PICK i \in 1..Len(Order[m]) :
            k = CreatePlace(m) + i /\ Program(m)[k].of = Order[m][i]
    BY <1>3, StepCases
  <2>2. PICK h \in 1..Len(Order[m]) :
            j = CreatePlace(m) + h /\ Program(m)[j].of = Order[m][h]
    BY <1>1, <1>3, StepCases
  <2> QED BY <1>1, <1>2, <2>1, <2>2
<1>4. CASE Program(m)[k].op = "enum"
  <2>1. PICK i \in 1..Len(GlobalEnums(m)) :
            k = ClassesEnd(m) + i /\ Program(m)[k].of = GlobalEnums(m)[i]
    BY <1>4, StepCases
  <2>2. PICK h \in 1..Len(GlobalEnums(m)) :
            j = ClassesEnd(m) + h /\ Program(m)[j].of = GlobalEnums(m)[h]
    BY <1>1, <1>4, StepCases
  <2>3. i = h
    BY <1>1, <2>1, <2>2, GlobalEnumsOnce
  <2> QED BY <1>1, <2>1, <2>2, <2>3
<1> QED BY <1>3, <1>4

-----------------------------------------------------------------------------
(* Names.                                                                  *)

IsName(n, x) == \E y \in NamesOf(x), star \in BOOLEAN : n = Named(y, star)
IsTypeId(n, c) == n = TypeId("class", c) \/ n = TypeId("shell", c)

LEMMA PairIs ==
    ASSUME NEW a, NEW b
    PROVE  <<a>> \o <<b>> = <<a, b>>
<1>1. PICK S : a \in S /\ b \in S
  <2>1. a \in {a, b} /\ b \in {a, b}
    OBVIOUS
  <2> QED BY <2>1
<1>2. <<a>> \in Seq(S) /\ <<b>> \in Seq(S)
  BY <1>1
<1>3. PICK s, t : s = <<a>> /\ t = <<b>>
  OBVIOUS
<1>4. PICK u : u = s \o t
  OBVIOUS
<1>5. u \in Seq(S) /\ Joined(s, t, u)
  BY <1>2, <1>3, <1>4, Concatenation
<1>6. Len(s) = 1 /\ s[1] = a /\ Len(t) = 1 /\ t[1] = b
  BY <1>3
<1>7. Len(u) = 2 /\ u[1] = a /\ u[2] = b
  BY <1>5, <1>6 DEF Joined
<1>8. u = <<a, b>>
  BY <1>5, <1>7
<1> QED BY <1>3, <1>4, <1>8

LEMMA ItemsOf ==
    ASSUME NEW S, NEW s \in Seq(S)
    PROVE  Len(s) \in Nat /\ DOMAIN s = 1..Len(s) /\ \A i \in DOMAIN s : s[i] \in S
OBVIOUS

LEMMA BothNamesAre ==
    ASSUME NEW x \in Class \cup Enum, NEW star \in BOOLEAN
    PROVE  /\ BothNames(x, star) \in Seq({Named(y, star) : y \in NamesOf(x)})
           /\ 1 \in DOMAIN BothNames(x, star) /\ BothNames(x, star)[1] = Named(x, star)
<1>1. x \in NamesOf(x)
  BY ModuleInitAssumption DEF NamesOf
<1>2. CASE LookupName[x] = Nil
  <2>1. BothNames(x, star) = <<Named(x, star)>>
    BY <1>2 DEF BothNames
  <2> QED BY <1>1, <2>1
<1>3. CASE LookupName[x] # Nil
  <2>1. BothNames(x, star) = <<Named(x, star), Named(LookupName[x], star)>>
    BY <1>3, PairIs DEF BothNames
  <2>2. LookupName[x] \in NamesOf(x)
    BY <1>3 DEF NamesOf
  <2> QED BY <1>1, <2>1, <2>2
<1> QED BY <1>2, <1>3

\* The names that a class is registered under, the first of which tells whether
\* it is a value type.
LEMMA RegisterTypeIs ==
    ASSUME NEW c \in Class
    PROVE  /\ \A n \in RangeOf(RegisterType(c)) : IsName(n, c) \/ IsTypeId(n, c)
           /\ DOMAIN RegisterType(c) \subseteq Nat \ {0} /\ 1 \in DOMAIN RegisterType(c)
           /\ RegisterType(c)[1] = Named(c, c \notin ValueType)
<1> DEFINE S == {Named(y, star) : y \in NamesOf(c), star \in BOOLEAN}
                    \cup {TypeId("class", c), TypeId("shell", c)}
<1>2. \A n \in S : IsName(n, c) \/ IsTypeId(n, c)
  BY DEF IsName, IsTypeId
<1>3. /\ \A star \in BOOLEAN, y \in NamesOf(c) : Named(y, star) \in S
      /\ TypeId("class", c) \in S /\ TypeId("shell", c) \in S
  OBVIOUS
<1> HIDE DEF S
<1>4. \A star \in BOOLEAN : BothNames(c, star) \in Seq(S)
  <2> SUFFICES ASSUME NEW star \in BOOLEAN
               PROVE  BothNames(c, star) \in Seq(S)
    OBVIOUS
  <2>1. {Named(y, star) : y \in NamesOf(c)} \subseteq S
    BY <1>3
  <2>2. BothNames(c, star) \in Seq({Named(y, star) : y \in NamesOf(c)})
    BY BothNamesAre
  <2> QED BY <2>1, <2>2
<1>5. PICK A : A = IF c \in ValueType THEN BothNames(c, FALSE) ELSE <<>>
  OBVIOUS
<1>6. PICK B : B = BothNames(c, TRUE)
  OBVIOUS
<1>7. PICK E : E = TypeIds(c)
  OBVIOUS
<1>8. A \in Seq(S) /\ B \in Seq(S)
  <2>1. BothNames(c, FALSE) \in Seq(S) /\ BothNames(c, TRUE) \in Seq(S)
    BY <1>4
  <2>2. CASE c \in ValueType
    BY <1>5, <1>6, <2>1, <2>2
  <2>3. CASE c \notin ValueType
    <3>1. A = <<>>
      BY <1>5, <2>3
    <3>2. <<>> \in Seq(S)
      OBVIOUS
    <3> QED BY <1>6, <2>1, <3>1, <3>2
  <2> QED BY <2>2, <2>3
<1>9. E \in Seq(S)
  <2>1. CASE c \in HasShell
    <3>1. E = <<TypeId("class", c), TypeId("shell", c)>>
      BY <1>7, <2>1, PairIs DEF TypeIds
    <3> QED BY <1>3, <3>1
  <2>2. CASE c \notin HasShell
    <3>1. E = <<TypeId("class", c)>>
      BY <1>7, <2>2 DEF TypeIds
    <3> QED BY <1>3, <3>1
  <2> QED BY <2>1, <2>2
<1>10. PICK X : X = A \o B
  OBVIOUS
<1>11. X \in Seq(S) /\ Joined(A, B, X)
  BY <1>8, <1>10, Concatenation
<1>12. X \o E \in Seq(S) /\ Joined(X, E, X \o E)
  BY <1>9, <1>11, Concatenation
<1>13. RegisterType(c) = X \o E
  BY <1>5, <1>6, <1>7, <1>10 DEF RegisterType
<1>14. PICK N : N = RegisterType(c)
  OBVIOUS
<1>15. N \in Seq(S) /\ Joined(X, E, N)
  BY <1>12, <1>13, <1>14
<1>16. 1 \in DOMAIN X /\ X[1] = Named(c, c \notin ValueType)
  <2>1. CASE c \in ValueType
    <3>1. 1 \in DOMAIN A /\ A[1] = Named(c, FALSE)
      BY <1>5, <2>1, BothNamesAre
    <3>2. 1 \in 1..Len(A)
      BY <1>8, <3>1
    <3>3. X[1] = A[1] /\ Len(X) = Len(A) + Len(B)
      BY <1>11, <3>2 DEF Joined
    <3>4. Len(A) \in Nat /\ Len(B) \in Nat /\ DOMAIN X = 1..Len(X)
      BY <1>8, <1>11, ItemsOf
    <3>5. 1 \in DOMAIN X
      BY <3>2, <3>3, <3>4
    <3> QED BY <2>1, <3>1, <3>3, <3>5
  <2>2. CASE c \notin ValueType
    <3>1. 1 \in DOMAIN B /\ B[1] = Named(c, TRUE)
      BY <1>6, BothNamesAre
    <3>2. 1 \in 1..Len(B) /\ Len(A) = 0
      BY <1>5, <1>8, <2>2, <3>1
    <3>3. X[0 + 1] = B[1] /\ Len(X) = 0 + Len(B)
      BY <1>11, <3>2 DEF Joined
    <3>4. Len(B) \in Nat /\ DOMAIN X = 1..Len(X)
      BY <1>8, <1>11, ItemsOf
    <3>5. 1 \in DOMAIN X /\ X[1] = B[1]
      BY <3>2, <3>3, <3>4
    <3> QED BY <2>2, <3>1, <3>5
  <2> QED BY <2>1, <2>2
<1>17. 1 \in DOMAIN N /\ N[1] = X[1]
  <2>1. 1 \in 1..Len(X)
    BY <1>11, <1>16
  <2>2. N[1] = X[1] /\ Len(N) = Len(X) + Len(E)
    BY <1>15, <2>1 DEF Joined
  <2> QED BY <1>9, <1>11, <1>15, <2>1, <2>2
<1>18. DOMAIN N \subseteq Nat \ {0} /\ \A i \in DOMAIN N : N[i] \in S
  BY <1>15
<1> QED BY <1>2, <1>14, <1>16, <1>17, <1>18 DEF RangeOf

\* The names of an enum.
LEMMA EnumNamesAre ==
    ASSUME NEW e \in Enum
    PROVE  \A n \in RangeOf(BothNames(e, FALSE)) : IsName(n, e)
<1>1. PICK s : s = BothNames(e, FALSE)
  OBVIOUS
<1>2. s \in Seq({Named(y, FALSE) : y \in NamesOf(e)})
  BY <1>1, BothNamesAre
<1>3. \A i \in DOMAIN s : s[i] \in {Named(y, FALSE) : y \in NamesOf(e)}
  BY <1>2, ItemsOf
<1> QED BY <1>1, <1>3 DEF RangeOf, IsName

\* A name is of one type.
LEMMA NamesApart ==
    ASSUME NEW c \in Class, NEW x \in Class \cup Enum, x # c, NEW n \in RangeOf(RegisterType(c))
    PROVE  /\ x \in Class => n \notin RangeOf(RegisterType(x))
           /\ x \in Enum => n \notin RangeOf(BothNames(x, FALSE))
<1>1. IsName(n, c) \/ IsTypeId(n, c)
  BY RegisterTypeIs
<1>2. ~(IsName(n, c) /\ IsName(n, x))
  BY NamesAssumption DEF IsName, Named
<1>3. ~(IsName(n, c) /\ IsTypeId(n, x)) /\ ~(IsTypeId(n, c) /\ IsName(n, x))
  BY DEF IsName, IsTypeId, Named, TypeId
<1>4. ~(IsTypeId(n, c) /\ IsTypeId(n, x))
  BY DEF IsTypeId, TypeId
<1>5. ASSUME x \in Class, n \in RangeOf(RegisterType(x))
      PROVE  FALSE
  <2>1. IsName(n, x) \/ IsTypeId(n, x)
    BY <1>5, RegisterTypeIs
  <2> QED BY <1>1, <1>2, <1>3, <1>4, <2>1
<1>6. ASSUME x \in Enum, n \in RangeOf(BothNames(x, FALSE))
      PROVE  FALSE
  <2>1. IsName(n, x)
    BY <1>6, EnumNamesAre
  <2> QED BY <1>1, <1>2, <1>3, <2>1
<1> QED BY <1>5, <1>6

-----------------------------------------------------------------------------
(* The initialisations in progress.                                        *)

LEMMA RankIs ==
    /\ Rank \in [Module -> Int]
    /\ \A m \in Module : \A r \in RangeOf(Requires[m]) : Rank[r] < Rank[m]
<1>1. /\ Rank \in [Module -> 1..Cardinality(Module)]
      /\ \A m \in Module : \A r \in RangeOf(Requires[m]) : Rank[r] < Rank[m]
  BY RequiresAssumption DEF Rank
<1> QED BY <1>1

\* The next step of the latest initialisation.
LEMMA ContinuedIs ==
    ASSUME imports \in Seq(Frame), imports # <<>>
    PROVE  /\ Continued \in Seq(Frame) /\ Head(imports) = imports[1]
           /\ Head(imports).mod \in Module /\ Head(imports).pc \in Nat \ {0}
           /\ DOMAIN imports = 1..Len(imports) /\ 1 \in DOMAIN imports
           /\ DOMAIN Continued = DOMAIN imports
           /\ Continued[1].mod = imports[1].mod /\ Continued[1].pc = imports[1].pc + 1
           /\ \A i \in DOMAIN imports : i # 1 => Continued[i] = imports[i]
<1>1. /\ Len(imports) \in Nat \ {0} /\ DOMAIN imports = 1..Len(imports) /\ Head(imports) = imports[1]
      /\ imports[1] \in Frame
      /\ Tail(imports) \in Seq(Frame) /\ Len(Tail(imports)) = Len(imports) - 1
      /\ \A i \in 1..Len(imports) - 1 : Tail(imports)[i] = imports[i + 1]
  OBVIOUS
<1>2. PICK f : f = [imports[1] EXCEPT !.pc = @ + 1]
  OBVIOUS
<1>3. f \in Frame /\ f.mod = imports[1].mod /\ f.pc = imports[1].pc + 1
  BY <1>1, <1>2 DEF Frame
<1>4. PICK s : s = <<f>>
  OBVIOUS
<1>5. s \in Seq(Frame) /\ Len(s) = 1 /\ s[1] = f
  BY <1>3, <1>4
<1>6. PICK t : t = Tail(imports)
  OBVIOUS
<1>7. PICK u : u = s \o t
  OBVIOUS
<1>8. u \in Seq(Frame) /\ Joined(s, t, u)
  BY <1>1, <1>5, <1>6, <1>7, Concatenation
<1>9. u = Continued
  BY <1>1, <1>2, <1>4, <1>6, <1>7 DEF Continued
<1>10. Len(u) = Len(imports) /\ DOMAIN u = 1..Len(u)
  BY <1>1, <1>5, <1>6, <1>8 DEF Joined
<1>11. u[1] = f
  BY <1>5, <1>8 DEF Joined
<1>12. ASSUME NEW i \in 1..Len(imports), i # 1
       PROVE  u[i] = imports[i]
  <2>1. i - 1 \in 1..Len(imports) - 1 /\ i = 1 + (i - 1)
    BY <1>1, <1>12
  <2>2. u[1 + (i - 1)] = t[i - 1]
    BY <1>1, <1>5, <1>6, <1>8, <2>1 DEF Joined
  <2>3. t[i - 1] = imports[(i - 1) + 1]
    BY <1>1, <1>6, <2>1
  <2> QED BY <2>1, <2>2, <2>3
<1>13. imports[1].mod \in Module /\ imports[1].pc \in Nat \ {0}
  BY <1>1 DEF Frame
<1> QED BY <1>1, <1>3, <1>8, <1>9, <1>10, <1>11, <1>12, <1>13

\* Another initialisation begins.
LEMMA PushedIs ==
    ASSUME imports \in Seq(Frame), NEW f \in Frame
    PROVE  /\ <<f>> \o imports \in Seq(Frame) /\ (<<f>> \o imports)[1] = f
           /\ DOMAIN (<<f>> \o imports) = 1..1 + Len(imports)
           /\ \A i \in 1..Len(imports) : (<<f>> \o imports)[1 + i] = imports[i]
<1>1. PICK s : s = <<f>>
  OBVIOUS
<1>2. s \in Seq(Frame) /\ Len(s) = 1 /\ s[1] = f
  BY <1>1
<1>3. PICK u : u = s \o imports
  OBVIOUS
<1>4. u \in Seq(Frame) /\ Joined(s, imports, u)
  BY <1>2, <1>3, Concatenation
<1>5. u[1] = f /\ Len(u) = 1 + Len(imports) /\ DOMAIN u = 1..Len(u)
      /\ \A i \in 1..Len(imports) : u[1 + i] = imports[i]
  BY <1>2, <1>4 DEF Joined
<1> QED BY <1>1, <1>3, <1>4, <1>5

\* The latest initialisation ends.
LEMMA PoppedIs ==
    ASSUME imports \in Seq(Frame), imports # <<>>
    PROVE  /\ Tail(imports) \in Seq(Frame)
           /\ DOMAIN Tail(imports) = 1..Len(imports) - 1
           /\ \A i \in 1..Len(imports) - 1 :
                  Tail(imports)[i] = imports[i + 1] /\ i + 1 \in DOMAIN imports
           /\ \A i \in DOMAIN imports : i # 1 => i - 1 \in DOMAIN Tail(imports)
OBVIOUS

\* The step that is run has not been run before.
LEMMA NotDone ==
    ASSUME Inv, imports # <<>>
    PROVE  ~Done(Head(imports).mod, Head(imports).pc)
<1>1. imports \in Seq(Frame)
  BY DEF Inv, Stacked
<1>2. /\ Head(imports) = imports[1] /\ 1 \in DOMAIN imports /\ imports[1].pc \in Nat
      /\ DOMAIN imports = 1..Len(imports) /\ Len(imports) \in Nat
      /\ \A i \in DOMAIN imports : imports[i].mod \in Module
  <2>1. \A i \in DOMAIN imports : imports[i] \in Frame
    BY <1>1, ItemsOf
  <2>2. DOMAIN imports = 1..Len(imports) /\ Len(imports) \in Nat
    BY <1>1, ItemsOf
  <2> QED BY <1>1, <2>1, <2>2, ContinuedIs DEF Frame
<1>3. module[imports[1].mod] # "loaded"
  BY <1>2 DEF Inv, TypeOK
<1>4. ASSUME NEW i \in DOMAIN imports, imports[i].mod = imports[1].mod
      PROVE  i = 1
  <2>1. i < 1 \/ i = 1 \/ 1 < i
    BY <1>2
  <2>2. Rank[imports[1].mod] \in Int
    BY <1>2, RankIs
  <2> QED BY <1>2, <1>4, <2>1, <2>2 DEF Inv, Stacked
<1> QED BY <1>2, <1>3, <1>4 DEF Done, Passed

-----------------------------------------------------------------------------
(* The kinds of steps.                                                     *)

ImportsTyped ==
    \A i \in DOMAIN imports :
        imports[i].mod \in Module /\ imports[i].pc \in Nat /\ module[imports[i].mod] # "loaded"

\* What is done stays done.
DoneStays == \A n \in Module, j \in Nat : Done(n, j) => Done(n, j)'

\* Where classes, names and enums stay as they are.
LEMMA OnlyImports ==
    ASSUME Inv, UNCHANGED <<typeVars, enumVars, pythonVars>>, DoneStays
    PROVE  MadeBySteps' /\ NamesKnown' /\ RefsCounted'
<1>1. UNCHANGED <<ready, resolvers, behaviour, enums, count, refs, made>>
  BY DEF typeVars, enumVars, pythonVars
<1>2. MadeBySteps'
  <2>1. \A m \in Module : DOMAIN Program(m) \subseteq Nat
    BY ProgramSteps
  <2> QED BY <1>1, <2>1 DEF Inv, MadeBySteps, DoneStays
<1>3. NamesKnown'
  BY <1>1 DEF Inv, NamesKnown
<1>4. RefsCounted'
  BY <1>1 DEF Inv, RefsCounted, ItemsLive
<1> QED BY <1>2, <1>3, <1>4

\* Where a step of an initialisation is run, with what it is for.
LEMMA Continues ==
    ASSUME Inv, imports # <<>>, imports' = Continued, NEW m, m = Head(imports).mod,
           NEW k, k = Head(imports).pc, k \in DOMAIN Program(m),
           module' = module \/ module' = [module EXCEPT ![m] = "created"],
           classHierarchy' \in Seq(Class \X Class),
           pending => pending', api \subseteq api', ready \subseteq ready',
           moduleTypes \subseteq moduleTypes', Achieved(m, k)'
    PROVE  /\ Stacked' /\ Progress' /\ Loaded' /\ ImportsTyped' /\ DoneStays /\ Done(m, k)'
           /\ module' \in [Module -> {"absent", "created", "loaded"}]
<1>1. imports \in Seq(Frame)
  BY DEF Inv, Stacked
<1>2. /\ Continued \in Seq(Frame) /\ m = imports[1].mod /\ k = imports[1].pc /\ m \in Module
      /\ k \in Nat /\ 1 \in DOMAIN imports /\ DOMAIN imports' = DOMAIN imports
      /\ imports'[1].mod = m /\ imports'[1].pc = k + 1
      /\ \A i \in DOMAIN imports : i # 1 => imports'[i] = imports[i]
  BY <1>1, ContinuedIs
<1>3. \A i \in DOMAIN imports : imports'[i].mod = imports[i].mod
  BY <1>2
<1>4. /\ \A n \in Module : module'[n] = "loaded" <=> module[n] = "loaded"
      /\ \A n \in Module : module'[n] = "created" => module[n] = "created" \/ n = m
      /\ module' \in [Module -> {"absent", "created", "loaded"}]
  <2>1. module[m] # "loaded"
    BY <1>2 DEF Inv, TypeOK
  <2> QED BY <1>2, <2>1 DEF Inv, TypeOK
<1>5. Stacked'
  <2>1. ASSUME NEW i \in DOMAIN imports', NEW j \in DOMAIN imports', i < j
        PROVE  Rank[imports'[i].mod] < Rank[imports'[j].mod]
    <3>1. Rank[imports[i].mod] < Rank[imports[j].mod]
      BY <1>2, <2>1 DEF Inv, Stacked
    <3> QED BY <1>2, <1>3, <3>1
  <2>2. ASSUME NEW n \in Module, module'[n] = "created"
        PROVE  \E i \in DOMAIN imports' : imports'[i].mod = n
    <3>1. \E i \in DOMAIN imports : imports[i].mod = n
      BY <1>2, <1>4, <2>2 DEF Inv, Stacked
    <3> QED BY <1>2, <1>3, <3>1
  <2> QED BY <1>2, <2>1, <2>2 DEF Stacked
<1>6. ASSUME NEW n \in Module, NEW j \in DOMAIN Program(n), Achieved(n, j)
      PROVE  Achieved(n, j)'
  BY <1>6 DEF Achieved
<1>7. Progress'
  <2> SUFFICES ASSUME NEW n \in Module, NEW j \in DOMAIN Program(n), Passed(n, j)'
               PROVE  Achieved(n, j)'
    BY DEF Progress
  <2>1. PICK i \in DOMAIN imports : imports'[i].mod = n /\ j < imports'[i].pc
    BY <1>2 DEF Passed
  <2>2. CASE i # 1
    <3>1. Passed(n, j)
      BY <1>2, <2>1, <2>2 DEF Passed
    <3> QED BY <1>6, <3>1 DEF Inv, Progress
  <2>3. CASE i = 1
    <3>1. n = m /\ (j = k \/ j < k)
      BY <1>2, <2>1, <2>3, PlacesAreNumbers
    <3>2. j < k => Passed(n, j)
      BY <1>2, <3>1 DEF Passed
    <3> QED BY <1>6, <3>1, <3>2 DEF Inv, Progress
  <2> QED BY <2>2, <2>3
<1>8. Loaded'
  BY <1>4 DEF Inv, Loaded
<1>9. ImportsTyped'
  BY <1>2, <1>3, <1>4 DEF Inv, TypeOK, ImportsTyped
<1>10. DoneStays
  <2>1. ASSUME NEW n \in Module, NEW j \in Nat, NEW i \in DOMAIN imports,
               imports[i].mod = n, j < imports[i].pc
        PROVE  imports'[i].mod = n /\ j < imports'[i].pc
    BY <1>2, <2>1
  <2> QED BY <1>2, <1>4, <2>1 DEF DoneStays, Done, Passed
<1>11. Done(m, k)'
  BY <1>2 DEF Done, Passed
<1> QED BY <1>4, <1>5, <1>7, <1>8, <1>9, <1>10, <1>11

\* Where an initialisation begins.
LEMMA Begins ==
    ASSUME Inv, NEW m \in Module, module[m] = "absent",
           \A i \in DOMAIN imports : Rank[m] < Rank[imports[i].mod],
           imports' = <<[mod |-> m, pc |-> 1]>> \o imports,
           UNCHANGED <<process, module, pending, moduleTypes, api, types, typeVars, enumVars, pythonVars>>
    PROVE  Inv'
<1>1. imports \in Seq(Frame) /\ DOMAIN imports = 1..Len(imports) /\ Len(imports) \in Nat
  BY ItemsOf DEF Inv, Stacked
<1>2. PICK f : f = [mod |-> m, pc |-> 1]
  OBVIOUS
<1>3. f \in Frame /\ f.mod = m /\ f.pc = 1
  BY <1>2 DEF Frame
<1>4. /\ imports' \in Seq(Frame) /\ imports'[1] = f /\ DOMAIN imports' = 1..1 + Len(imports)
      /\ \A i \in 1..Len(imports) : imports'[1 + i] = imports[i]
  BY <1>1, <1>2, <1>3, PushedIs
<1>5. ASSUME NEW i \in DOMAIN imports'
      PROVE  \/ i = 1 /\ imports'[i] = f
             \/ \E j \in DOMAIN imports : i = 1 + j /\ imports'[i] = imports[j]
  <2>1. CASE i = 1
    BY <1>4, <2>1
  <2>2. CASE i # 1
    <3>1. i - 1 \in 1..Len(imports) /\ i = 1 + (i - 1)
      BY <1>1, <1>4, <2>2
    <3> QED BY <1>1, <1>4, <3>1
  <2> QED BY <2>1, <2>2
<1>6. \A j \in DOMAIN imports : 1 + j \in DOMAIN imports' /\ imports'[1 + j] = imports[j]
  BY <1>1, <1>4
<1>7. UNCHANGED <<process, module, pending, moduleTypes, api, types, ready, classHierarchy,
                  discovery, resolvers, behaviour, enums, count, refs, made>>
  BY DEF typeVars, enumVars, pythonVars
<1>8. ImportsTyped'
  BY <1>3, <1>5, <1>7 DEF Inv, TypeOK, ImportsTyped
<1>9. TypeOK'
  BY <1>7, <1>8 DEF Inv, TypeOK, ImportsTyped
<1>10. Stacked'
  <2>1. ASSUME NEW i \in DOMAIN imports', NEW j \in DOMAIN imports', i < j
        PROVE  Rank[imports'[i].mod] < Rank[imports'[j].mod]
    <3>1. PICK y \in DOMAIN imports : j = 1 + y /\ imports'[j] = imports[y]
      BY <1>1, <1>4, <1>5, <2>1
    <3>2. CASE i = 1
      BY <1>3, <1>4, <3>1, <3>2
    <3>3. CASE i # 1
      <4>1. PICK x \in DOMAIN imports : i = 1 + x /\ imports'[i] = imports[x]
        BY <1>5, <3>3
      <4>2. x < y
        BY <1>1, <2>1, <3>1, <4>1
      <4> QED BY <3>1, <4>1, <4>2 DEF Inv, Stacked
    <3> QED BY <3>2, <3>3
  <2>2. ASSUME NEW n \in Module, module'[n] = "created"
        PROVE  \E i \in DOMAIN imports' : imports'[i].mod = n
    <3>1. PICK j \in DOMAIN imports : imports[j].mod = n
      BY <1>7, <2>2 DEF Inv, Stacked
    <3> QED BY <1>6, <3>1
  <2> QED BY <1>4, <1>7, <2>1, <2>2 DEF Inv, Stacked
<1>11. Progress'
  <2> SUFFICES ASSUME NEW n \in Module, NEW k \in DOMAIN Program(n), Passed(n, k)'
               PROVE  Achieved(n, k)'
    BY DEF Progress
  <2>1. PICK i \in DOMAIN imports' : imports'[i].mod = n /\ k < imports'[i].pc
    BY DEF Passed
  <2>2. imports'[i] # f
    BY <1>3, <2>1, PlacesAreNumbers
  <2>3. Passed(n, k)
    BY <1>5, <2>1, <2>2 DEF Passed
  <2>4. Achieved(n, k)
    BY <2>3 DEF Inv, Progress
  <2> QED BY <1>7, <2>4 DEF Achieved
<1>12. Loaded'
  BY <1>7 DEF Inv, Loaded
<1>13. DoneStays
  BY <1>6, <1>7 DEF DoneStays, Done, Passed
<1> QED BY <1>9, <1>10, <1>11, <1>12, <1>13, OnlyImports DEF Inv

-----------------------------------------------------------------------------
(* Modules.                                                                *)

LEMMA OneFrame ==
    ASSUME NEW f
    PROVE  <<f>> \o <<>> = <<f>>
<1>1. PICK S : f \in S
  <2>1. f \in {f}
    OBVIOUS
  <2> QED BY <2>1
<1>2. <<f>> \in Seq(S) /\ <<>> \in Seq(S)
  BY <1>1
<1>3. PICK s, t, u : s = <<f>> /\ t = <<>> /\ u = s \o t
  OBVIOUS
<1>4. u \in Seq(S) /\ Joined(s, t, u)
  BY <1>2, <1>3, Concatenation
<1>5. Len(s) = 1 /\ s[1] = f /\ Len(t) = 0
  BY <1>3
<1>6. Len(u) = 1 /\ u[1] = f
  BY <1>4, <1>5 DEF Joined
<1>7. u = <<f>>
  BY <1>4, <1>6
<1> QED BY <1>3, <1>7

\* The step that is to be run.
LEMMA AtIs ==
    ASSUME Inv, NEW op, At(op)
    PROVE  \E m \in Module : \E k \in DOMAIN Program(m) :
               /\ imports # <<>> /\ imports \in Seq(Frame)
               /\ m = Head(imports).mod /\ k = Head(imports).pc
               /\ m = imports[1].mod /\ 1 \in DOMAIN imports
               /\ Current = Program(m)[k] /\ Current.op = op
<1>1. imports \in Seq(Frame) /\ imports # <<>>
  BY DEF Inv, Stacked, At
<1>2. Head(imports).mod \in Module /\ Head(imports) = imports[1] /\ 1 \in DOMAIN imports
  BY <1>1, ContinuedIs
<1> QED BY <1>1, <1>2 DEF At, Current

\* Where a step is only about modules.
LEMMA ContinuesOnly ==
    ASSUME Inv, imports # <<>>, imports' = Continued, NEW m, m = Head(imports).mod,
           NEW k, k = Head(imports).pc, k \in DOMAIN Program(m),
           module' = module \/ module' = [module EXCEPT ![m] = "created"],
           pending' \in BOOLEAN, pending => pending',
           api' \subseteq Module \X Module, api \subseteq api',
           moduleTypes' \subseteq Module, moduleTypes \subseteq moduleTypes', Achieved(m, k)',
           UNCHANGED <<process, types, typeVars, enumVars, pythonVars>>
    PROVE  Inv'
<1>1. UNCHANGED <<process, types, ready, classHierarchy, discovery, resolvers, behaviour,
                  enums, count, refs, made>>
  BY DEF typeVars, enumVars, pythonVars
<1>2. classHierarchy' \in Seq(Class \X Class)
  BY <1>1 DEF Inv, Stacked
<1>3. /\ Stacked' /\ Progress' /\ Loaded' /\ ImportsTyped' /\ DoneStays
      /\ module' \in [Module -> {"absent", "created", "loaded"}]
  BY <1>1, <1>2, Continues
<1>4. TypeOK'
  BY <1>1, <1>3 DEF Inv, TypeOK, ImportsTyped
<1>5. MadeBySteps' /\ NamesKnown' /\ RefsCounted'
  BY <1>3, OnlyImports
<1> QED BY <1>3, <1>4, <1>5 DEF Inv

LEMMA ImportStep == Inv /\ Import => Inv'
<1> SUFFICES ASSUME Inv, Import PROVE Inv'
  OBVIOUS
<1>1. PICK m \in Module \ Missing :
          module[m] = "absent" /\ imports' = <<[mod |-> m, pc |-> 1]>>
  BY DEF Import
<1>2. imports = <<>>
  BY DEF Import
<1>3. imports' = <<[mod |-> m, pc |-> 1]>> \o imports
  BY <1>1, <1>2, OneFrame
<1>4. \A i \in DOMAIN imports : Rank[m] < Rank[imports[i].mod]
  BY <1>2
<1>5. UNCHANGED <<process, module, pending, moduleTypes, api, types, typeVars, enumVars, pythonVars>>
  BY DEF Import
<1> QED BY <1>1, <1>3, <1>4, <1>5, Begins

\* A module that is required comes before those in progress.
LEMMA RequiredBelow ==
    ASSUME Inv, At("require")
    PROVE  /\ Current.of \in Module
           /\ Current.of \in RangeOf(Requires[Head(imports).mod])
           /\ \A i \in DOMAIN imports : Rank[Current.of] < Rank[imports[i].mod]
<1>1. PICK m \in Module : \E k \in DOMAIN Program(m) :
          /\ imports \in Seq(Frame) /\ m = Head(imports).mod /\ 1 \in DOMAIN imports
          /\ m = imports[1].mod /\ Current = Program(m)[k] /\ Current.op = "require"
  BY AtIs
<1>2. Current.of \in RangeOf(Requires[m])
  BY <1>1, StepKinds
<1>3. Current.of \in Module
  <2>1. \A i \in DOMAIN Requires[m] : Requires[m][i] \in Module
    BY ModuleInitAssumption, ItemsOf
  <2> QED BY <1>2, <2>1 DEF RangeOf
<1>4. Rank[Current.of] < Rank[m]
  BY <1>2, RankIs
<1>5. ASSUME NEW i \in DOMAIN imports
      PROVE  Rank[Current.of] < Rank[imports[i].mod]
  <2>1. i = 1 \/ 1 < i
    BY <1>1, ItemsOf
  <2>2. i = 1 \/ Rank[m] < Rank[imports[i].mod]
    BY <1>1, <2>1 DEF Inv, Stacked
  <2>3. Rank[Current.of] \in Int /\ Rank[m] \in Int /\ Rank[imports[i].mod] \in Int
    <3>1. imports[i].mod \in Module
      BY DEF Inv, TypeOK
    <3> QED BY <1>3, <3>1, RankIs
  <2> QED BY <1>1, <1>4, <2>2, <2>3
<1> QED BY <1>1, <1>2, <1>3, <1>5

LEMMA RequireLoadsStep == Inv /\ RequireLoads => Inv'
<1> SUFFICES ASSUME Inv, RequireLoads PROVE Inv'
  OBVIOUS
<1>1. PICK r : r = Current.of
  OBVIOUS
<1>2. r \in Module /\ \A i \in DOMAIN imports : Rank[r] < Rank[imports[i].mod]
  BY <1>1, RequiredBelow DEF RequireLoads
<1>3. /\ module[r] = "absent" /\ imports' = <<[mod |-> r, pc |-> 1]>> \o imports
      /\ UNCHANGED <<process, module, pending, moduleTypes, api, types, typeVars, enumVars, pythonVars>>
  BY <1>1 DEF RequireLoads
<1> QED BY <1>2, <1>3, Begins

\* A module that is found is loaded: the ones in progress require it.
LEMMA RequireFoundStep == Inv /\ RequireFound => Inv'
<1> SUFFICES ASSUME Inv, RequireFound PROVE Inv'
  OBVIOUS
<1>1. At("require")
  BY DEF RequireFound
<1>2. PICK m \in Module, k \in Nat :
          /\ k \in DOMAIN Program(m) /\ imports # <<>> /\ m = Head(imports).mod /\ k = Head(imports).pc
          /\ Current = Program(m)[k] /\ Current.op = "require"
  BY <1>1, AtIs, PlacesAreNumbers
<1>3. PICK r : r = Current.of
  OBVIOUS
<1>4. r \in Module /\ \A i \in DOMAIN imports : Rank[r] < Rank[imports[i].mod]
  BY <1>1, <1>3, RequiredBelow
<1>5. module[r] # "created"
  <2>1. SUFFICES ASSUME module[r] = "created" PROVE FALSE
    OBVIOUS
  <2>2. PICK i \in DOMAIN imports : imports[i].mod = r
    BY <1>4, <2>1 DEF Inv, Stacked
  <2>3. Rank[r] < Rank[r] /\ Rank[r] \in Int
    BY <1>4, <2>2, RankIs
  <2> QED BY <2>3
<1>6. module[r] = "loaded"
  BY <1>3, <1>4, <1>5 DEF Inv, TypeOK, RequireFound
<1>7. r \in moduleTypes
  BY <1>4, <1>6 DEF Inv, Loaded
<1>8. api' = api \cup {<<m, r>>} /\ imports' = Continued
  BY <1>2, <1>3, <1>7 DEF RequireFound
<1>9. UNCHANGED <<process, module, pending, moduleTypes, types, typeVars, enumVars, pythonVars>>
  BY DEF RequireFound
<1>10. Achieved(m, k)'
  BY <1>2, <1>3, <1>8 DEF Achieved
<1>11. api' \subseteq Module \X Module /\ pending' \in BOOLEAN /\ moduleTypes' \subseteq Module
  BY <1>4, <1>8, <1>9 DEF Inv, TypeOK
<1> QED BY <1>2, <1>8, <1>9, <1>10, <1>11, ContinuesOnly

LEMMA RequireFailsStep == Inv /\ RequireFails => Inv'
<1> SUFFICES ASSUME Inv, RequireFails PROVE Inv'
  OBVIOUS
<1>1. PICK m \in Module, k \in Nat :
          /\ k \in DOMAIN Program(m) /\ imports # <<>> /\ m = Head(imports).mod /\ k = Head(imports).pc
          /\ Current = Program(m)[k] /\ Current.op = "require"
  BY AtIs, PlacesAreNumbers DEF RequireFails
<1>2. /\ pending' = TRUE /\ imports' = Continued
      /\ UNCHANGED <<process, module, moduleTypes, api, types, typeVars, enumVars, pythonVars>>
  BY DEF RequireFails
<1>3. Achieved(m, k)'
  BY <1>1, <1>2 DEF Achieved
<1>4. api' \subseteq Module \X Module /\ moduleTypes' \subseteq Module
  BY <1>2 DEF Inv, TypeOK
<1> QED BY <1>1, <1>2, <1>3, <1>4, ContinuesOnly

LEMMA CreateStep == Inv /\ Create => Inv'
<1> SUFFICES ASSUME Inv, Create PROVE Inv'
  OBVIOUS
<1>1. PICK m \in Module, k \in Nat :
          /\ k \in DOMAIN Program(m) /\ imports # <<>> /\ m = Head(imports).mod /\ k = Head(imports).pc
          /\ Current = Program(m)[k] /\ Current.op = "create"
  BY AtIs, PlacesAreNumbers DEF Create
<1>2. Current.of = m
  BY <1>1, StepKinds
<1>3. /\ module' = [module EXCEPT ![m] = "created"] /\ api' = api \cup {<<m, m>>}
      /\ imports' = Continued
      /\ UNCHANGED <<process, pending, moduleTypes, types, typeVars, enumVars, pythonVars>>
  BY <1>2 DEF Create
<1>4. Achieved(m, k)'
  BY <1>1 DEF Achieved
<1>5. api' \subseteq Module \X Module /\ moduleTypes' \subseteq Module /\ pending' \in BOOLEAN
  BY <1>3 DEF Inv, TypeOK
<1> QED BY <1>1, <1>3, <1>4, <1>5, ContinuesOnly

LEMMA RegisterStep == Inv /\ Register => Inv'
<1> SUFFICES ASSUME Inv, Register PROVE Inv'
  OBVIOUS
<1>1. PICK m \in Module, k \in Nat :
          /\ k \in DOMAIN Program(m) /\ imports # <<>> /\ m = Head(imports).mod /\ k = Head(imports).pc
          /\ Current = Program(m)[k] /\ Current.op = "register"
  BY AtIs, PlacesAreNumbers DEF Register
<1>2. Current.of = m
  BY <1>1, StepKinds
<1>3. /\ moduleTypes' = moduleTypes \cup {m} /\ imports' = Continued
      /\ UNCHANGED <<process, module, pending, api, types, typeVars, enumVars, pythonVars>>
  BY <1>2 DEF Register
<1>4. Achieved(m, k)'
  BY <1>1, <1>3 DEF Achieved
<1>5. api' \subseteq Module \X Module /\ moduleTypes' \subseteq Module /\ pending' \in BOOLEAN
  BY <1>3 DEF Inv, TypeOK
<1> QED BY <1>1, <1>3, <1>4, <1>5, ContinuesOnly

\* At the end of an initialisation without an error, all its steps have
\* achieved what they are for.
LEMMA FinishStep == Inv /\ Finish => Inv'
<1> SUFFICES ASSUME Inv, Finish PROVE Inv'
  OBVIOUS
<1>1. imports # <<>> /\ imports \in Seq(Frame)
  BY DEF Inv, Stacked, Finish
<1>2. UNCHANGED <<pending, moduleTypes, api, types, typeVars, enumVars, pythonVars>>
  BY DEF Finish
<1>3. UNCHANGED <<ready, classHierarchy, discovery, resolvers, behaviour, enums, count, refs, made>>
  BY <1>2 DEF typeVars, enumVars, pythonVars
<1>4. CASE pending
  <2>1. process' = "aborted" /\ UNCHANGED <<module, imports>>
    BY <1>4 DEF Finish
  <2>2. TypeOK'
    BY <1>2, <1>3, <2>1 DEF Inv, TypeOK
  <2>3. Stacked'
    BY <1>3, <2>1 DEF Inv, Stacked
  <2>4. Progress'
    BY <1>2, <1>3, <2>1 DEF Inv, Progress, Passed, Achieved
  <2>5. Loaded'
    BY <1>2, <1>3, <2>1 DEF Inv, Loaded
  <2>6. DoneStays
    BY <2>1 DEF DoneStays, Done, Passed
  <2> QED BY <1>2, <2>2, <2>3, <2>4, <2>5, <2>6, OnlyImports DEF Inv
<1>5. CASE ~pending
  <2>1. PICK m \in Module : m = Head(imports).mod /\ m = imports[1].mod /\ 1 \in DOMAIN imports
    BY <1>1, ContinuedIs
  <2>2. /\ module' = [module EXCEPT ![m] = "loaded"] /\ imports' = Tail(imports)
        /\ UNCHANGED process
    BY <1>5, <2>1 DEF Finish
  <2>3. /\ imports' \in Seq(Frame) /\ DOMAIN imports' = 1..Len(imports) - 1
        /\ Len(imports) \in Nat /\ DOMAIN imports = 1..Len(imports)
        /\ \A i \in DOMAIN imports' : imports'[i] = imports[i + 1] /\ i + 1 \in DOMAIN imports
        /\ \A i \in DOMAIN imports : i # 1 => i - 1 \in DOMAIN imports' /\ imports'[i - 1] = imports[i]
    <3>1. imports' \in Seq(Frame) /\ DOMAIN imports' = 1..Len(imports) - 1
          /\ \A i \in DOMAIN imports' : imports'[i] = imports[i + 1] /\ i + 1 \in DOMAIN imports
      BY <1>1, <2>2, PoppedIs
    <3>2. Len(imports) \in Nat /\ DOMAIN imports = 1..Len(imports)
      BY <1>1, ItemsOf
    <3> QED BY <3>1, <3>2
  <2>4. \A i \in DOMAIN imports : i # 1 => imports[i].mod # m
    <3>1. \A i \in DOMAIN imports : i # 1 => 1 < i
      BY <2>3
    <3>2. Rank[m] \in Int
      BY RankIs
    <3> QED BY <2>1, <3>1, <3>2 DEF Inv, Stacked
  <2>5. \A i \in DOMAIN imports' : i + 1 # 1 /\ imports'[i].mod # m
    BY <2>3, <2>4
  <2>6. module \in [Module -> {"absent", "created", "loaded"}]
    BY DEF Inv, TypeOK
  <2>7. ImportsTyped'
    BY <2>2, <2>3, <2>5, <2>6 DEF Inv, TypeOK, ImportsTyped
  <2>8. TypeOK'
    BY <1>2, <1>3, <2>2, <2>7 DEF Inv, TypeOK, ImportsTyped
  <2>9. Stacked'
    <3>1. ASSUME NEW i \in DOMAIN imports', NEW j \in DOMAIN imports', i < j
          PROVE  Rank[imports'[i].mod] < Rank[imports'[j].mod]
      <4>1. i + 1 < j + 1
        BY <2>3, <3>1
      <4> QED BY <2>3, <4>1 DEF Inv, Stacked
    <3>2. ASSUME NEW n \in Module, module'[n] = "created"
          PROVE  \E i \in DOMAIN imports' : imports'[i].mod = n
      <4>1. n # m /\ module[n] = "created"
        BY <2>2, <2>6, <3>2
      <4>2. PICK i \in DOMAIN imports : imports[i].mod = n
        BY <4>1 DEF Inv, Stacked
      <4> QED BY <2>1, <2>3, <4>1, <4>2
    <3> QED BY <1>3, <2>3, <3>1, <3>2 DEF Inv, Stacked
  <2>10. \A n \in Module, k \in Nat : Passed(n, k)' => Passed(n, k)
    BY <2>3 DEF Passed
  <2>11. Progress'
    BY <1>2, <1>3, <2>10, PlacesAreNumbers DEF Inv, Progress, Achieved
  <2>12. Loaded'
    <3>1. \A k \in DOMAIN Program(m) : Passed(m, k)
      <4>1. imports[1].pc \in Nat \ {0} /\ imports[1].pc \notin DOMAIN Program(m)
        BY <1>1, <2>1, ContinuedIs DEF Finish
      <4>2. PICK a \in Nat, c \in Nat, e \in Nat :
                a = Len(Requires[m]) /\ c = Len(Order[m]) /\ e = Len(GlobalEnums(m))
        BY Places
      <4>3. RegisterPlace(m) = a + 1 + c + e + 1
        BY <4>2, Places
      <4>4. DOMAIN Program(m) = 1..a + 1 + c + e + 1
        BY <4>3, ProgramSteps
      <4>5. \A k \in DOMAIN Program(m) : k < imports[1].pc
        BY <4>1, <4>4
      <4> QED BY <2>1, <4>5 DEF Passed
    <3>2. \A k \in DOMAIN Program(m) : Achieved(m, k)
      BY <3>1 DEF Inv, Progress
    <3>3. m \in moduleTypes
      <4>1. PICK k \in DOMAIN Program(m) : Program(m)[k].op = "register"
        BY StepsThere
      <4>2. Achieved(m, k)
        BY <3>2
      <4> QED BY <4>1, <4>2 DEF Achieved
    <3>4. ASSUME NEW r \in RangeOf(Requires[m])
          PROVE  <<m, r>> \in api
      <4>1. PICK k \in DOMAIN Program(m) : Program(m)[k].op = "require" /\ Program(m)[k].of = r
        BY StepsThere
      <4>2. Achieved(m, k)
        BY <3>2
      <4> QED BY <1>5, <4>1, <4>2 DEF Achieved
    <3>5. ASSUME NEW c \in RangeOf(Order[m])
          PROVE  c \in ready
      <4>1. PICK k \in DOMAIN Program(m) : Program(m)[k].op = "class" /\ Program(m)[k].of = c
        BY StepsThere
      <4>2. Achieved(m, k)
        BY <3>2
      <4> QED BY <1>5, <4>1, <4>2 DEF Achieved
    <3> QED BY <1>2, <1>3, <2>2, <2>6, <3>3, <3>4, <3>5 DEF Inv, Loaded
  <2>13. DoneStays
    <3>1. ASSUME NEW n \in Module, NEW j \in Nat, Passed(n, j), n # m
          PROVE  Passed(n, j)'
      BY <2>1, <2>3, <3>1 DEF Passed
    <3> QED BY <2>2, <2>6, <3>1 DEF DoneStays, Done
  <2> QED BY <1>2, <2>8, <2>9, <2>11, <2>12, <2>13, OnlyImports DEF Inv
<1> QED BY <1>4, <1>5

-----------------------------------------------------------------------------
(* Classes.                                                                *)

\* The class hierarchy stays a list of pairs of classes.
LEMMA LinkedIs ==
    ASSUME Inv, NEW c \in Class
    PROVE  Linked(c) \in Seq(Class \X Class)
<1>1. Bases[c] \in Seq(Class)
  BY ModuleInitAssumption
<1>2. /\ Len(Bases[c]) \in Nat /\ DOMAIN Bases[c] = 1..Len(Bases[c])
      /\ \A i \in DOMAIN Bases[c] : Bases[c][i] \in Class
  BY <1>1, ItemsOf
<1>3. PICK s : s = [i \in DOMAIN Bases[c] |-> <<Bases[c][i], c>>]
  OBVIOUS
<1>4. s \in [1..Len(Bases[c]) -> Class \X Class]
  BY <1>2, <1>3
<1>5. s \in Seq(Class \X Class)
  BY <1>2, <1>4, SequenceOf
<1>6. classHierarchy \in Seq(Class \X Class)
  BY DEF Inv, Stacked
<1>7. classHierarchy \o s \in Seq(Class \X Class)
  BY <1>5, <1>6, Concatenation
<1> QED BY <1>3, <1>7 DEF Linked

LEMMA ClassCrashesStep == Inv /\ ClassCrashes => Inv'
<1> SUFFICES ASSUME Inv, ClassCrashes PROVE Inv'
  OBVIOUS
<1>1. /\ process' = "crashed"
      /\ UNCHANGED <<module, imports, pending, moduleTypes, api, types, typeVars, enumVars, pythonVars>>
  BY DEF ClassCrashes
<1>2. UNCHANGED <<ready, classHierarchy, discovery, resolvers, behaviour, enums, count, refs, made>>
  BY <1>1 DEF typeVars, enumVars, pythonVars
<1>3. TypeOK'
  BY <1>1, <1>2 DEF Inv, TypeOK
<1>4. Stacked'
  BY <1>1, <1>2 DEF Inv, Stacked
<1>5. Progress'
  BY <1>1, <1>2 DEF Inv, Progress, Passed, Achieved
<1>6. Loaded'
  BY <1>1, <1>2 DEF Inv, Loaded
<1>7. DoneStays
  BY <1>1 DEF DoneStays, Done, Passed
<1> QED BY <1>1, <1>3, <1>4, <1>5, <1>6, <1>7, OnlyImports DEF Inv

\* The class that is to be made.
LEMMA ClassAt ==
    ASSUME Inv, At("class")
    PROVE  \E m \in Module, k \in Nat :
               /\ k \in DOMAIN Program(m) /\ imports # <<>>
               /\ m = Head(imports).mod /\ k = Head(imports).pc
               /\ Current = Program(m)[k] /\ Current.op = "class"
               /\ Current.of \in Class
<1>1. PICK m \in Module, k \in Nat :
          /\ k \in DOMAIN Program(m) /\ imports # <<>> /\ m = Head(imports).mod /\ k = Head(imports).pc
          /\ Current = Program(m)[k] /\ Current.op = "class"
  BY AtIs, PlacesAreNumbers
<1>2. Current.of \in RangeOf(Order[m])
  BY <1>1, StepKinds
<1>3. \A i \in DOMAIN Order[m] : Order[m][i] \in Class
  BY ModuleInitAssumption, ItemsOf
<1> QED BY <1>1, <1>2, <1>3 DEF RangeOf

LEMMA ClassUnreadyStep == Inv /\ ClassUnready => Inv'
<1> SUFFICES ASSUME Inv, ClassUnready PROVE Inv'
  OBVIOUS
<1>1. PICK m \in Module, k \in Nat :
          /\ k \in DOMAIN Program(m) /\ imports # <<>> /\ m = Head(imports).mod /\ k = Head(imports).pc
          /\ Current = Program(m)[k] /\ Current.op = "class" /\ Current.of \in Class
  BY ClassAt DEF ClassUnready
<1>2. PICK c \in Class : c = Current.of
  BY <1>1
<1>3. /\ types' = types \cup {c} /\ classHierarchy' = Linked(c) /\ pending' = TRUE
      /\ imports' = Continued
      /\ UNCHANGED <<process, module, moduleTypes, api, ready, discovery, resolvers, behaviour>>
      /\ UNCHANGED <<enumVars, pythonVars>>
  BY <1>2 DEF ClassUnready
<1>4. UNCHANGED <<enums, count, refs, made>>
  BY <1>3 DEF enumVars, pythonVars
<1>5. classHierarchy' \in Seq(Class \X Class)
  BY <1>3, LinkedIs
<1>6. Achieved(m, k)'
  BY <1>1, <1>3 DEF Achieved
<1>7. /\ Stacked' /\ Progress' /\ Loaded' /\ ImportsTyped' /\ DoneStays
      /\ module' \in [Module -> {"absent", "created", "loaded"}]
  BY <1>1, <1>3, <1>5, <1>6, Continues
<1>8. RangeOf(classHierarchy') \subseteq Class \X Class
  BY <1>5, ItemsOf DEF RangeOf
<1>9. TypeOK'
  BY <1>3, <1>4, <1>7, <1>8 DEF Inv, TypeOK, ImportsTyped
<1>10. MadeBySteps'
  BY <1>3, <1>4, <1>7, PlacesAreNumbers DEF Inv, MadeBySteps, DoneStays
<1>11. NamesKnown'
  BY <1>3, <1>4 DEF Inv, NamesKnown
<1>12. RefsCounted'
  BY <1>4 DEF Inv, RefsCounted, ItemsLive
<1> QED BY <1>7, <1>9, <1>10, <1>11, <1>12 DEF Inv

-----------------------------------------------------------------------------
(* Items of enums.                                                         *)

LEMMA ItemsAreItems ==
    ASSUME NEW e \in Enum, NEW x \in Items(e)
    PROVE  x \in Item /\ x[1] = e
BY DEF Items, Item

\* New enums begin with the references that their dictionaries have.
LEMMA CreatedIs ==
    ASSUME Inv, NEW es \in SUBSET Enum, es \cap enums = {}, Created(es), UNCHANGED pythonVars
    PROVE  /\ enums' = enums \cup es /\ enums' \subseteq Enum
           /\ count' \in [Item -> Int] /\ RefsCounted'
<1>1. /\ enums \subseteq Enum /\ count \in [Item -> Int] /\ refs \in [Item -> 0..MaxRefs]
      /\ UNCHANGED <<refs, made>> /\ enums' = enums \cup es
  BY DEF Inv, TypeOK, Created, pythonVars
<1>2. \A e \in Enum : ItemCount(e) \in Nat /\ ItemCount(e) > 0
  BY DEF ItemCount, CreateEnumItem
<1>3. \A x \in Item : x[1] \in Enum
  BY DEF Item
<1>4. count' \in [Item -> Int]
  BY <1>1, <1>2, <1>3 DEF Created
<1>5. ASSUME NEW e \in enums', NEW x \in Items(e)
      PROVE  count'[x] > refs'[x]
  <2>1. x \in Item /\ x[1] = e
    BY <1>1, ItemsAreItems
  <2>2. CASE e \in es
    <3>1. count'[x] = ItemCount(e)
      BY <1>5, <2>1, <2>2 DEF Created
    <3>2. ~(refs[x] > 0)
      BY <2>1, <2>2 DEF Inv, RefsCounted
    <3> QED BY <1>1, <1>2, <2>1, <2>2, <3>1, <3>2
  <2>3. CASE e \in enums
    <3>1. count'[x] = count[x]
      BY <2>1, <2>3 DEF Created
    <3> QED BY <1>1, <2>3, <3>1 DEF Inv, RefsCounted, ItemsLive
  <2> QED BY <1>1, <2>2, <2>3
<1>6. RefsCounted'
  BY <1>1, <1>5 DEF Inv, RefsCounted, ItemsLive
<1> QED BY <1>1, <1>4, <1>6

\* Where only what Python code has changes.
LEMMA OnlyPython ==
    ASSUME Inv, UNCHANGED <<importVars, typeVars, enums>>, count' \in [Item -> Int],
           refs' \in [Item -> 0..MaxRefs], RefsCounted'
    PROVE  Inv'
<1>1. UNCHANGED <<process, module, imports, pending, moduleTypes, api, types, ready,
                  classHierarchy, discovery, resolvers, behaviour, enums>>
  BY DEF importVars, typeVars
<1>2. TypeOK'
  BY <1>1 DEF Inv, TypeOK
<1>3. Stacked' /\ Loaded'
  BY <1>1 DEF Inv, Stacked, Loaded
<1>4. Progress'
  BY <1>1 DEF Inv, Progress, Passed, Achieved
<1>5. MadeBySteps'
  BY <1>1 DEF Inv, MadeBySteps, Done, Passed
<1>6. NamesKnown'
  BY <1>1 DEF Inv, NamesKnown
<1> QED BY <1>2, <1>3, <1>4, <1>5, <1>6 DEF Inv

\* A reference that Python code gets is counted.
LEMMA ToPythonStep == Inv /\ ToPython => Inv'
<1> SUFFICES ASSUME Inv, ToPython PROVE Inv'
  OBVIOUS
<1>1. UNCHANGED <<importVars, typeVars, enums>>
  BY DEF ToPython
<1>2. /\ enums \subseteq Enum /\ count \in [Item -> Int] /\ refs \in [Item -> 0..MaxRefs]
      /\ MaxRefs \in Nat
  BY ModuleInitAssumption DEF Inv, TypeOK
<1>3. PICK e \in enums, v \in Value :
       \/ \E x \in WithValue(e, v) :
          /\ refs[x] < MaxRefs /\ count' = GetEnumItemFromValue(x)
          /\ refs' = [refs EXCEPT ![x] = @ + 1]
          /\ UNCHANGED made
       \/ /\ WithValue(e, v) = {}
          /\ made' = made \cup {[enum |-> e, value |-> v, name |-> Nil]}
          /\ UNCHANGED <<count, refs>>
  BY DEF ToPython
<1>4. ASSUME NEW x \in WithValue(e, v), refs[x] < MaxRefs, count' = GetEnumItemFromValue(x),
             refs' = [refs EXCEPT ![x] = @ + 1], UNCHANGED made
      PROVE  Inv'
  <2>1. x \in Items(e) /\ x \in Item /\ x[1] = e
    BY <1>2, ItemsAreItems DEF WithValue
  <2>2. count' = [count EXCEPT ![x] = @ + 1]
    BY <1>4 DEF GetEnumItemFromValue
  <2>3. count' \in [Item -> Int]
    BY <1>2, <2>1, <2>2
  <2>4. refs[x] + 1 \in 0..MaxRefs
    BY <1>2, <1>4, <2>1
  <2>5. refs' \in [Item -> 0..MaxRefs]
    BY <1>2, <1>4, <2>4
  <2>6. ASSUME NEW d \in enums, NEW y \in Items(d)
        PROVE  count'[y] > refs'[y]
    <3>1. y \in Item
      BY <1>2, ItemsAreItems
    <3>2. count[y] > refs[y] /\ count[y] \in Int /\ refs[y] \in Int
      BY <1>2, <3>1 DEF Inv, RefsCounted, ItemsLive
    <3> QED BY <1>2, <1>4, <2>2, <3>1, <3>2
  <2>7. RefsCounted'
    BY <1>1, <1>2, <1>4, <2>1, <2>6 DEF Inv, RefsCounted, ItemsLive
  <2> QED BY <1>1, <2>3, <2>5, <2>7, OnlyPython
<1>5. ASSUME WithValue(e, v) = {}, made' = made \cup {[enum |-> e, value |-> v, name |-> Nil]},
             UNCHANGED <<count, refs>>
      PROVE  Inv'
  <2>1. RefsCounted'
    BY <1>1, <1>5 DEF Inv, RefsCounted, ItemsLive
  <2> QED BY <1>1, <1>2, <1>5, <2>1, OnlyPython
<1> QED BY <1>3, <1>4, <1>5

\* The item whose name a new object gets is given back.
LEMMA TpNewStep == Inv /\ TpNew => Inv'
<1> SUFFICES ASSUME Inv, TpNew PROVE Inv'
  OBVIOUS
<1>1. UNCHANGED <<importVars, typeVars, enums, refs>>
  BY DEF TpNew
<1>2. enums \subseteq Enum /\ count \in [Item -> Int] /\ refs \in [Item -> 0..MaxRefs]
  BY DEF Inv, TypeOK
<1>3. PICK e \in enums, v \in Value :
       \/ \E x \in WithValue(e, v) :
          /\ count' = [GetEnumItemFromValue(x) EXCEPT ![x] = @ - 1]
          /\ made' = made \cup {[enum |-> e, value |-> v, name |-> x]}
       \/ /\ WithValue(e, v) = {}
          /\ made' = made \cup {[enum |-> e, value |-> v, name |-> Nil]}
          /\ UNCHANGED count
  BY DEF TpNew
<1>4. ASSUME NEW x \in WithValue(e, v), count' = [GetEnumItemFromValue(x) EXCEPT ![x] = @ - 1]
      PROVE  count' = count
  <2>1. x \in Item
    BY <1>2, ItemsAreItems DEF WithValue
  <2> QED BY <1>2, <1>4, <2>1 DEF GetEnumItemFromValue
<1>5. UNCHANGED count
  BY <1>3, <1>4
<1>6. ASSUME NEW o \in made'
      PROVE  IF WithValue(o.enum, o.value) = {} THEN o.name = Nil
             ELSE o.name \in WithValue(o.enum, o.value)
  BY <1>3 DEF Inv, RefsCounted, ItemsLive
<1>7. RefsCounted'
  BY <1>1, <1>5, <1>6 DEF Inv, RefsCounted, ItemsLive
<1> QED BY <1>1, <1>2, <1>5, <1>7, OnlyPython

LEMMA ReleaseStep == Inv /\ Release => Inv'
<1> SUFFICES ASSUME Inv, Release PROVE Inv'
  OBVIOUS
<1>1. UNCHANGED <<importVars, typeVars, enums>>
  BY DEF Release
<1>2. enums \subseteq Enum /\ count \in [Item -> Int] /\ refs \in [Item -> 0..MaxRefs]
  BY DEF Inv, TypeOK
<1>3. ASSUME NEW x \in Item, refs[x] > 0, refs' = [refs EXCEPT ![x] = @ - 1],
             count' = [count EXCEPT ![x] = @ - 1], UNCHANGED made
      PROVE  Inv'
  <2>1. count' \in [Item -> Int] /\ refs' \in [Item -> 0..MaxRefs]
    BY <1>2, <1>3, ModuleInitAssumption
  <2>2. ASSUME NEW d \in enums, NEW y \in Items(d)
        PROVE  count'[y] > refs'[y]
    <3>1. y \in Item
      BY <1>2, ItemsAreItems
    <3>2. count[y] > refs[y] /\ count[y] \in Int /\ refs[y] \in Int
      BY <1>2, <3>1 DEF Inv, RefsCounted, ItemsLive
    <3> QED BY <1>2, <1>3, <3>1, <3>2
  <2>3. \A y \in Item : refs'[y] > 0 => refs[y] > 0
    BY <1>2, <1>3
  <2>4. RefsCounted'
    BY <1>1, <1>3, <2>2, <2>3 DEF Inv, RefsCounted, ItemsLive
  <2> QED BY <1>1, <2>1, <2>4, OnlyPython
<1>4. ASSUME NEW o \in made, made' = made \ {o}, UNCHANGED <<count, refs>>
      PROVE  Inv'
  <2>1. RefsCounted'
    BY <1>1, <1>4 DEF Inv, RefsCounted, ItemsLive
  <2> QED BY <1>1, <1>2, <1>4, <2>1, OnlyPython
<1> QED BY <1>3, <1>4 DEF Release

-----------------------------------------------------------------------------
(* The TypeResolver.                                                       *)

\* The names of known and these, which are of the type unless they were known.
Extended(known, names, type, r) ==
    /\ DOMAIN r = DOMAIN known \cup names
    /\ \A n \in DOMAIN known : r[n] = known[n]
    /\ \A n \in names \ DOMAIN known : r[n] = type

LEMMA NamesAdded ==
    ASSUME NEW known, NEW names, NEW type
    PROVE  Extended(known, names, type, CreateTypeResolvers(known, names, type))
BY DEF CreateTypeResolvers, Extended

\* The names of known and those of enums, which lead to int.
EnumsKnown(known, es, r) ==
    /\ DOMAIN known \subseteq DOMAIN r
    /\ \A n \in DOMAIN known : r[n] = known[n]
    /\ \A n \in DOMAIN r \ DOMAIN known :
           r[n] = "int" /\ \E e \in es : n \in RangeOf(BothNames(e, FALSE))

LEMMA EnumsAdded ==
    ASSUME NEW known, NEW es
    PROVE  EnumsKnown(known, es, RegisterEnums(known, es))
<1>1. PICK names : names = UNION {RangeOf(BothNames(e, FALSE)) : e \in es}
  OBVIOUS
<1>2. Extended(known, names, "int", RegisterEnums(known, es))
  BY <1>1, NamesAdded DEF RegisterEnums
<1>3. \A n \in names : \E e \in es : n \in RangeOf(BothNames(e, FALSE))
  BY <1>1
<1> QED BY <1>2, <1>3 DEF Extended, EnumsKnown

\* A class that is not ready has none of the names that are known.
LEMMA NamesNew ==
    ASSUME Inv, NEW c \in Class, c \notin ready, NEW es \in SUBSET Enum, NEW r,
           r = RegisterEnums(resolvers, es), NEW n \in RangeOf(RegisterType(c))
    PROVE  n \notin DOMAIN r
<1>1. enums \subseteq Enum /\ ready \subseteq Class /\ c \notin Enum
  BY ModuleInitAssumption DEF Inv, TypeOK
<1>2. \A e \in Enum : n \notin RangeOf(BothNames(e, FALSE))
  BY <1>1, NamesApart
<1>3. \A d \in ready : n \notin RangeOf(RegisterType(d))
  BY <1>1, NamesApart
<1>4. n \notin DOMAIN resolvers
  BY <1>1, <1>2, <1>3 DEF Inv, NamesKnown
<1>5. EnumsKnown(resolvers, es, r)
  BY EnumsAdded
<1> QED BY <1>2, <1>4, <1>5 DEF EnumsKnown

\* The first of the names of a new class tells its behaviour.
LEMMA BehaviourIs ==
    ASSUME Inv, NEW c \in Class, c \notin ready, NEW known,
           \A n \in RangeOf(RegisterType(c)) : n \notin DOMAIN known
    PROVE  TypeBehaviour(known, c)
               = [behaviour EXCEPT ![c] = IF c \in ValueType THEN BEHAVIOUR_VALUETYPE ELSE -2]
<1>1. behaviour[c] = 0
  BY DEF Inv, NamesKnown
<1>2. PICK names : names = RegisterType(c)
  OBVIOUS
<1>3. PICK new : new = {i \in DOMAIN names : names[i] \notin DOMAIN known}
  OBVIOUS
<1>4. new = DOMAIN names
  BY <1>2, <1>3 DEF RangeOf
<1>5. new \subseteq Nat \ {0} /\ 1 \in new /\ names[1] = Named(c, c \notin ValueType)
  BY <1>2, <1>4, RegisterTypeIs
<1>6. Min(new) = 1
  <2>1. \A x \in new : 1 <= x
    BY <1>5
  <2>2. \A x \in new : (\A y \in new : x <= y) => x = 1
    BY <1>5
  <2> QED BY <1>5, <2>1, <2>2 DEF Min
<1>7. names[1].star = (c \notin ValueType)
  BY <1>5 DEF Named
<1>8. TwoBits(BEHAVIOUR_VALUETYPE) = BEHAVIOUR_VALUETYPE /\ TwoBits(BEHAVIOUR_OBJECTTYPE) = -2
  BY DEF TwoBits, BEHAVIOUR_VALUETYPE, BEHAVIOUR_OBJECTTYPE
<1>9. TypeBehaviour(known, c)
          = [behaviour EXCEPT ![c] = TwoBits(IF names[1].star THEN BEHAVIOUR_OBJECTTYPE
                                             ELSE BEHAVIOUR_VALUETYPE)]
  BY <1>1, <1>2, <1>3, <1>5, <1>6 DEF TypeBehaviour
<1> QED BY <1>7, <1>8, <1>9

LEMMA GlobalEnumStep == Inv /\ GlobalEnum => Inv'
<1> SUFFICES ASSUME Inv, GlobalEnum PROVE Inv'
  OBVIOUS
<1>1. PICK m \in Module, k \in Nat :
          /\ k \in DOMAIN Program(m) /\ imports # <<>> /\ m = Head(imports).mod /\ k = Head(imports).pc
          /\ Current = Program(m)[k] /\ Current.op = "enum"
  BY AtIs, PlacesAreNumbers DEF GlobalEnum
<1>2. PICK e \in Enum : e = Current.of /\ Scope[e] = m
  BY <1>1, StepKinds
<1>3. /\ Created({e}) /\ resolvers' = RegisterEnums(resolvers, {e}) /\ imports' = Continued
      /\ UNCHANGED <<process, module, pending, moduleTypes, api, types>>
      /\ UNCHANGED <<ready, classHierarchy, discovery, behaviour, pythonVars>>
  BY <1>2 DEF GlobalEnum
<1>4. e \notin enums
  BY <1>1, <1>2, NotDone DEF Inv, MadeBySteps
<1>5. /\ enums' = enums \cup {e} /\ enums' \subseteq Enum
      /\ count' \in [Item -> Int] /\ RefsCounted'
  BY <1>3, <1>4, CreatedIs
<1>6. Achieved(m, k)'
  BY <1>1 DEF Achieved
<1>7. classHierarchy' \in Seq(Class \X Class)
  BY <1>3 DEF Inv, Stacked
<1>8. /\ Stacked' /\ Progress' /\ Loaded' /\ ImportsTyped' /\ DoneStays /\ Done(m, k)'
      /\ module' \in [Module -> {"absent", "created", "loaded"}]
  BY <1>1, <1>3, <1>6, <1>7, Continues
<1>9. /\ DOMAIN resolvers \subseteq DOMAIN resolvers'
      /\ \A n \in DOMAIN resolvers : resolvers'[n] = resolvers[n]
      /\ \A n \in DOMAIN resolvers' \ DOMAIN resolvers :
             resolvers'[n] = "int" /\ n \in RangeOf(BothNames(e, FALSE))
  <2>1. EnumsKnown(resolvers, {e}, resolvers')
    BY <1>3, EnumsAdded
  <2> QED BY <2>1 DEF EnumsKnown
<1>10. TypeOK'
  <2>1. RangeOf(resolvers') \subseteq Class \cup {"int"}
    <3>1. \A n \in DOMAIN resolvers : resolvers[n] \in Class \cup {"int"}
      BY DEF Inv, TypeOK, RangeOf
    <3>2. \A n \in DOMAIN resolvers' : resolvers'[n] \in Class \cup {"int"}
      BY <1>9, <3>1
    <3> QED BY <3>2 DEF RangeOf
  <2>2. refs' \in [Item -> 0..MaxRefs]
    BY <1>3 DEF Inv, TypeOK, pythonVars
  <2> QED BY <1>3, <1>5, <1>8, <2>1, <2>2 DEF Inv, TypeOK, ImportsTyped
<1>11. MadeBySteps'
  <2>1. ASSUME NEW n \in Module, NEW j \in DOMAIN Program(n), Program(n)[j].op = "class",
               Program(n)[j].of \in ready'
        PROVE  Done(n, j)'
    BY <1>3, <1>8, <2>1, PlacesAreNumbers DEF Inv, MadeBySteps, DoneStays
  <2>2. ASSUME NEW n \in Module, NEW j \in DOMAIN Program(n), Program(n)[j].op = "enum",
               Program(n)[j].of \in enums'
        PROVE  Done(n, j)'
    <3>1. CASE Program(n)[j].of \in enums
      BY <1>8, <2>2, <3>1, PlacesAreNumbers DEF Inv, MadeBySteps, DoneStays
    <3>2. CASE Program(n)[j].of = e
      <4>1. n = m /\ j = k
        BY <1>1, <1>2, <2>2, <3>2, StepsOnce
      <4> QED BY <1>8, <4>1
    <3> QED BY <1>5, <2>2, <3>1, <3>2
  <2>3. ASSUME NEW d \in enums', Scope[d] \in Class
        PROVE  Scope[d] \in ready'
    BY <1>2, <1>3, <1>5, <2>3, ModuleInitAssumption DEF Inv, MadeBySteps
  <2> QED BY <2>1, <2>2, <2>3 DEF MadeBySteps
<1>12. NamesKnown'
  <2>1. ASSUME NEW n \in DOMAIN resolvers'
        PROVE  \/ resolvers'[n] \in ready' /\ n \in RangeOf(RegisterType(resolvers'[n]))
               \/ \E d \in enums' : n \in RangeOf(BothNames(d, FALSE))
    <3>1. CASE n \in DOMAIN resolvers
      BY <1>3, <1>5, <1>9, <3>1 DEF Inv, NamesKnown
    <3> QED BY <1>5, <1>9, <3>1
  <2>2. ASSUME NEW c \in ready'
        PROVE  /\ RangeOf(Bases[c]) \subseteq ready'
               /\ \A n \in RangeOf(RegisterType(c)) : n \in DOMAIN resolvers' /\ resolvers'[n] = c
               /\ behaviour'[c] = BEHAVIOUR_VALUETYPE <=> c \in ValueType
    BY <1>3, <1>9 DEF Inv, NamesKnown
  <2>3. \A c \in Class : behaviour'[c] # 0 => c \in ready'
    BY <1>3 DEF Inv, NamesKnown
  <2> QED BY <2>1, <2>2, <2>3 DEF NamesKnown
<1> QED BY <1>5, <1>8, <1>10, <1>11, <1>12 DEF Inv

\* A class is made once, after its bases, under names that are all new.
LEMMA ClassReadyStep == Inv /\ ClassReady => Inv'
<1> SUFFICES ASSUME Inv, ClassReady PROVE Inv'
  OBVIOUS
<1>1. PICK m \in Module, k \in Nat :
          /\ k \in DOMAIN Program(m) /\ imports # <<>> /\ m = Head(imports).mod /\ k = Head(imports).pc
          /\ Current = Program(m)[k] /\ Current.op = "class" /\ Current.of \in Class
  BY ClassAt DEF ClassReady
<1>2. PICK c \in Class : c = Current.of
  BY <1>1
<1>3. PICK es : es = {e \in Enum : Scope[e] = c}
  OBVIOUS
<1>4. PICK known : known = RegisterEnums(resolvers, es)
  OBVIOUS
<1>5. /\ Readied(c) /\ types' = types \cup {c} /\ classHierarchy' = Linked(c)
      /\ ready' = ready \cup {c}
      /\ discovery' \subseteq discovery \cup {c}
      /\ Created(es)
      /\ resolvers' = CreateTypeResolvers(known, RangeOf(RegisterType(c)), c)
      /\ behaviour' = TypeBehaviour(known, c)
      /\ imports' = Continued
      /\ UNCHANGED <<process, module, pending, moduleTypes, api, pythonVars>>
  BY <1>2, <1>3, <1>4 DEF ClassReady
<1>6. c \notin ready
  BY <1>1, <1>2, NotDone DEF Inv, MadeBySteps
<1>7. es \in SUBSET Enum /\ es \cap enums = {}
  BY <1>3, <1>6 DEF Inv, MadeBySteps
<1>8. /\ enums' = enums \cup es /\ enums' \subseteq Enum
      /\ count' \in [Item -> Int] /\ RefsCounted'
  BY <1>5, <1>7, CreatedIs
<1>9. Achieved(m, k)'
  BY <1>1, <1>2, <1>5 DEF Achieved
<1>10. classHierarchy' \in Seq(Class \X Class)
  BY <1>5, LinkedIs
<1>11. /\ Stacked' /\ Progress' /\ Loaded' /\ ImportsTyped' /\ DoneStays /\ Done(m, k)'
       /\ module' \in [Module -> {"absent", "created", "loaded"}]
  BY <1>1, <1>5, <1>9, <1>10, Continues
<1>12. \A n \in RangeOf(RegisterType(c)) : n \notin DOMAIN known
  BY <1>4, <1>6, <1>7, NamesNew
<1>13. /\ DOMAIN resolvers' = DOMAIN known \cup RangeOf(RegisterType(c))
       /\ \A n \in DOMAIN known : resolvers'[n] = known[n]
       /\ \A n \in RangeOf(RegisterType(c)) : resolvers'[n] = c
  <2>1. Extended(known, RangeOf(RegisterType(c)), c, resolvers')
    BY <1>5, NamesAdded
  <2> QED BY <1>12, <2>1 DEF Extended
<1>14. /\ DOMAIN resolvers \subseteq DOMAIN resolvers'
       /\ \A n \in DOMAIN resolvers : resolvers'[n] = resolvers[n]
       /\ \A n \in DOMAIN known \ DOMAIN resolvers :
              resolvers'[n] = "int" /\ \E e \in es : n \in RangeOf(BothNames(e, FALSE))
  <2>1. EnumsKnown(resolvers, es, known)
    BY <1>4, EnumsAdded
  <2> QED BY <1>13, <2>1 DEF EnumsKnown
<1>15. behaviour' = [behaviour EXCEPT ![c] = IF c \in ValueType THEN BEHAVIOUR_VALUETYPE ELSE -2]
  BY <1>5, <1>6, <1>12, BehaviourIs
<1>16. TypeOK'
  <2>1. RangeOf(resolvers') \subseteq Class \cup {"int"}
    <3>1. \A n \in DOMAIN resolvers : resolvers[n] \in Class \cup {"int"}
      BY DEF Inv, TypeOK, RangeOf
    <3>2. \A n \in DOMAIN resolvers' : resolvers'[n] \in Class \cup {"int"}
      BY <1>13, <1>14, <3>1
    <3> QED BY <3>2 DEF RangeOf
  <2>2. refs' \in [Item -> 0..MaxRefs]
    BY <1>5 DEF Inv, TypeOK, pythonVars
  <2>3. behaviour' \in [Class -> -2..1]
    BY <1>15 DEF Inv, TypeOK, BEHAVIOUR_VALUETYPE
  <2>4. RangeOf(classHierarchy') \subseteq Class \X Class
    BY <1>10, ItemsOf DEF RangeOf
  <2>5. ready' \subseteq types' /\ types' \subseteq Class /\ discovery' \subseteq ready'
    BY <1>5 DEF Inv, TypeOK
  <2> QED BY <1>5, <1>8, <1>11, <2>1, <2>2, <2>3, <2>4, <2>5 DEF Inv, TypeOK, ImportsTyped
<1>17. MadeBySteps'
  <2>1. ASSUME NEW n \in Module, NEW j \in DOMAIN Program(n), Program(n)[j].op = "class",
               Program(n)[j].of \in ready'
        PROVE  Done(n, j)'
    <3>1. CASE Program(n)[j].of \in ready
      BY <1>11, <2>1, <3>1, PlacesAreNumbers DEF Inv, MadeBySteps, DoneStays
    <3>2. CASE Program(n)[j].of = c
      <4>1. n = m /\ j = k
        BY <1>1, <1>2, <2>1, <3>2, StepsOnce
      <4> QED BY <1>11, <4>1
    <3> QED BY <1>5, <2>1, <3>1, <3>2
  <2>2. ASSUME NEW n \in Module, NEW j \in DOMAIN Program(n), Program(n)[j].op = "enum",
               Program(n)[j].of \in enums'
        PROVE  Done(n, j)'
    <3>1. Program(n)[j].of \notin es
      <4>1. Scope[Program(n)[j].of] = n
        BY <2>2, StepKinds
      <4> QED BY <1>3, <4>1, ModuleInitAssumption
    <3> QED BY <1>8, <1>11, <2>2, <3>1, PlacesAreNumbers DEF Inv, MadeBySteps, DoneStays
  <2>3. ASSUME NEW d \in enums', Scope[d] \in Class
        PROVE  Scope[d] \in ready'
    BY <1>3, <1>5, <1>8, <2>3 DEF Inv, MadeBySteps
  <2> QED BY <2>1, <2>2, <2>3 DEF MadeBySteps
<1>18. NamesKnown'
  <2>1. ASSUME NEW n \in DOMAIN resolvers'
        PROVE  \/ resolvers'[n] \in ready' /\ n \in RangeOf(RegisterType(resolvers'[n]))
               \/ \E d \in enums' : n \in RangeOf(BothNames(d, FALSE))
    <3>1. CASE n \in DOMAIN resolvers
      BY <1>5, <1>8, <1>14, <3>1 DEF Inv, NamesKnown
    <3>2. CASE n \in DOMAIN known \ DOMAIN resolvers
      BY <1>8, <1>14, <3>2
    <3>3. CASE n \in RangeOf(RegisterType(c))
      BY <1>5, <1>13, <3>3
    <3> QED BY <1>13, <3>1, <3>2, <3>3
  <2>2. ASSUME NEW d \in ready'
        PROVE  /\ RangeOf(Bases[d]) \subseteq ready'
               /\ \A n \in RangeOf(RegisterType(d)) : n \in DOMAIN resolvers' /\ resolvers'[n] = d
               /\ behaviour'[d] = BEHAVIOUR_VALUETYPE <=> d \in ValueType
    <3>1. behaviour \in [Class -> -2..1] /\ ready \subseteq Class
      BY DEF Inv, TypeOK
    <3>2. CASE d = c
      BY <1>5, <1>13, <1>15, <3>1, <3>2 DEF Readied, BEHAVIOUR_VALUETYPE
    <3>3. CASE d \in ready
      <4>1. behaviour'[d] = behaviour[d]
        BY <1>6, <1>15, <3>1, <3>3
      <4> QED BY <1>5, <1>14, <3>3, <4>1 DEF Inv, NamesKnown
    <3> QED BY <1>5, <3>2, <3>3
  <2>3. ASSUME NEW d \in Class, behaviour'[d] # 0
        PROVE  d \in ready'
    <3>1. behaviour \in [Class -> -2..1]
      BY DEF Inv, TypeOK
    <3> QED BY <1>5, <1>15, <2>3, <3>1 DEF Inv, NamesKnown
  <2> QED BY <2>1, <2>2, <2>3 DEF NamesKnown
<1> QED BY <1>8, <1>11, <1>16, <1>17, <1>18 DEF Inv

-----------------------------------------------------------------------------
(* Recursion and induction along a rank.                                   *)

\* A set of numbers has a least one.
LEMMA Least ==
    ASSUME NEW T \in SUBSET Nat, T # {}
    PROVE  \E n \in T : \A m \in T : n <= m
<1> DEFINE R == OpToRel(<, Nat)
<1>1. IsWellFoundedOn(R, Nat)
  BY NatLessThanWellFounded
<1>2. \A x, y \in Nat : <<y, x>> \in R <=> y < x
  BY DEF OpToRel
<1> HIDE DEF R
<1>3. PICK n \in T : \A m \in T : <<m, n>> \notin R
  BY <1>1, WFMin
<1>4. \A m \in T : m \in Nat /\ n \in Nat /\ ~(m < n)
  BY <1>2, <1>3
<1>5. \A m \in T : n <= m
  BY <1>4
<1> QED BY <1>5

\* A set with 0 and the successor of each of its numbers is Nat.
LEMMA Induct ==
    ASSUME NEW T \in SUBSET Nat, 0 \in T, \A n \in T : n + 1 \in T
    PROVE  T = Nat
<1> SUFFICES ASSUME T # Nat PROVE FALSE
  OBVIOUS
<1> DEFINE U == Nat \ T
<1>1. PICK n \in U : \A m \in U : n <= m
  BY Least
<1>2. n # 0 /\ n \in Nat
  BY <1>1
<1>3. n - 1 \in Nat /\ ~(n <= n - 1)
  BY <1>2
<1>4. n - 1 \in T
  BY <1>1, <1>3
<1>5. n - 1 + 1 = n
  BY <1>2
<1> QED BY <1>1, <1>4, <1>5

\* What holds of an element if it holds of those of lower rank holds of all.
LEMMA RankInduction ==
    ASSUME NEW S, NEW rank \in [S -> Nat], NEW P,
           \A c \in S : (\A d \in S : rank[d] < rank[c] => d \in P) => c \in P
    PROVE  S \subseteq P
<1> SUFFICES ASSUME S \ P # {} PROVE FALSE
  OBVIOUS
<1> DEFINE U == {rank[c] : c \in S \ P}
<1>1. U \in SUBSET Nat /\ U # {}
  OBVIOUS
<1>2. PICK n \in U : \A m \in U : n <= m
  BY <1>1, Least
<1>3. PICK c \in S \ P : rank[c] = n
  BY <1>2
<1>4. ASSUME NEW d \in S, rank[d] < rank[c]
      PROVE  d \in P
  <2>1. d \notin P => n <= rank[d]
    BY <1>2
  <2>2. n \in Nat /\ rank[d] \in Nat
    BY <1>1, <1>2
  <2> QED BY <1>3, <1>4, <2>1, <2>2
<1> QED BY <1>3, <1>4

\* G tells the value of a function at c from its values at lower ranks.
Local(S, T, rank, G) ==
    \A c \in S : \A f, g \in [S -> T] :
        (\A d \in S : rank[d] < rank[c] => f[d] = g[d]) => G[<<c, f>>] = G[<<c, g>>]

\* A function from S to T that is as the recursion G says.
Solves(f, S, T, G) == f \in [S -> T] /\ \A c \in S : f[c] = G[<<c, f>>]

LEMMA RankRecursion ==
    ASSUME NEW S, NEW T, NEW t \in T, NEW N \in Nat, NEW rank \in [S -> 0..N],
           NEW G \in [S \X [S -> T] -> T], Local(S, T, rank, G)
    PROVE  \E f : Solves(f, S, T, G)
<1> DEFINE Right(f, n) == \A c \in S : rank[c] < n => f[c] = G[<<c, f>>]
           U == {n \in Nat : \E f \in [S -> T] : Right(f, n)}
<1>1. \A c \in S : rank[c] \in Nat /\ rank[c] <= N /\ ~(rank[c] < 0)
  <2> TAKE c \in S
  <2>1. rank[c] \in 0..N
    OBVIOUS
  <2> QED BY <2>1
<1>2. 0 \in U
  <2>1. [c \in S |-> t] \in [S -> T]
    OBVIOUS
  <2>2. Right([c \in S |-> t], 0)
    BY <1>1
  <2> HIDE DEF Right
  <2> QED BY <2>1, <2>2
<1>3. ASSUME NEW n \in U
      PROVE  n + 1 \in U
  <2>1. PICK f \in [S -> T] : Right(f, n)
    BY <1>3
  <2>2. n \in Nat
    OBVIOUS
  <2> DEFINE g == [c \in S |-> G[<<c, f>>]]
  <2>3. g \in [S -> T]
    OBVIOUS
  <2>4. \A c \in S : g[c] = G[<<c, f>>]
    OBVIOUS
  <2> HIDE DEF g
  <2>5. \A c \in S : rank[c] < n => g[c] = f[c]
    BY <2>1, <2>4
  <2>6. ASSUME NEW c \in S, rank[c] < n + 1
        PROVE  g[c] = G[<<c, g>>]
    <3>1. \A d \in S : rank[d] < rank[c] => rank[d] < n
      BY <1>1, <2>2, <2>6
    <3>2. \A d \in S : rank[d] < rank[c] => f[d] = g[d]
      BY <2>5, <3>1
    <3>3. G[<<c, f>>] = G[<<c, g>>]
      BY <2>3, <3>2 DEF Local
    <3> QED BY <2>4, <3>3
  <2>7. Right(g, n + 1)
    BY <2>6
  <2> HIDE DEF Right
  <2> QED BY <2>2, <2>3, <2>7
<1> HIDE DEF U
<1>4. U = Nat
  <2>1. U \in SUBSET Nat
    BY DEF U
  <2> QED BY <1>2, <1>3, <2>1, Induct
<1>5. N + 1 \in U
  BY <1>4
<1>6. PICK f \in [S -> T] : Right(f, N + 1)
  BY <1>5 DEF U
<1>7. \A c \in S : rank[c] < N + 1
  BY <1>1
<1> QED BY <1>6, <1>7 DEF Solves

-----------------------------------------------------------------------------
(* The classes by their depth in the hierarchy.                            *)

Known == Class \cup Hidden
Parents(c) == IF c \in Hidden THEN {HiddenBase[c]} ELSE RangeOf(Bases[c])

\* Every module has at most so many classes.
LEMMA LongestOrder == \E K \in Nat : \A m \in Module : Len(Order[m]) <= K
<1>1. PICK n \in Nat : ExistsBijection(1..n, Module)
  BY HierarchyAssumption, FS_NatBijection
<1>2. PICK f \in Bijection(1..n, Module) : TRUE
  BY <1>1 DEF ExistsBijection
<1>3. f \in [1..n -> Module] /\ \A m \in Module : \E j \in 1..n : f[j] = m
  BY <1>2 DEF Bijection, Surjection
<1>4. \A m \in Module : Len(Order[m]) \in Nat
  BY ModuleInitAssumption
<1> DEFINE Bounds(K, i) == \A j \in 1..n : j <= i => Len(Order[f[j]]) <= K
           U == {i \in Nat : \E K \in Nat : Bounds(K, i)}
<1>5. 0 \in U
  <2>1. Bounds(0, 0)
    OBVIOUS
  <2> HIDE DEF Bounds
  <2> QED BY <2>1
<1>6. ASSUME NEW i \in U
      PROVE  i + 1 \in U
  <2>1. PICK K \in Nat : Bounds(K, i)
    BY <1>6
  <2>2. i \in Nat
    OBVIOUS
  <2>3. CASE i + 1 \in 1..n
    <3>1. PICK L \in Nat : L = Len(Order[f[i + 1]])
      BY <1>3, <1>4, <2>3
    <3>2. ASSUME NEW j \in 1..n, j <= i + 1
          PROVE  Len(Order[f[j]]) <= K + L
      <4>1. PICK l \in Nat : l = Len(Order[f[j]])
        BY <1>3, <1>4
      <4>2. j = i + 1 \/ j <= i
        BY <2>2, <3>2
      <4>3. CASE j = i + 1
        BY <3>1, <4>1, <4>3
      <4>4. CASE j <= i
        <5>1. l <= K
          BY <2>1, <4>1, <4>4
        <5> QED BY <3>1, <4>1, <5>1
      <4> QED BY <4>2, <4>3, <4>4
    <3>3. Bounds(K + L, i + 1) /\ K + L \in Nat
      BY <3>2, <3>1
    <3> HIDE DEF Bounds
    <3> QED BY <2>2, <3>3
  <2>4. CASE i + 1 \notin 1..n
    <3>1. \A j \in 1..n : j <= i + 1 => j <= i
      BY <2>2, <2>4
    <3>2. Bounds(K, i + 1)
      BY <2>1, <3>1
    <3> HIDE DEF Bounds
    <3> QED BY <2>2, <3>2
  <2> QED BY <2>3, <2>4
<1> HIDE DEF U
<1>7. U = Nat
  <2>1. U \in SUBSET Nat
    BY DEF U
  <2> QED BY <1>5, <1>6, <2>1, Induct
<1>8. PICK K \in Nat : Bounds(K, n)
  BY <1>7 DEF U
<1>9. \A m \in Module : Len(Order[m]) <= K
  BY <1>3, <1>8
<1> QED BY <1>9

\* Numbers of two digits.
LEMMA TwoDigits ==
    ASSUME NEW a \in Nat, NEW b \in Nat, NEW K \in Nat, NEW p \in 0..K, NEW q \in Nat, a < b
    PROVE  a * (K + 1) + p < b * (K + 1) + q
<1>1. PICK d \in Nat : b = a + 1 + d
  <2>1. b - (a + 1) \in Nat /\ b = a + 1 + (b - (a + 1))
    OBVIOUS
  <2> QED BY <2>1
<1>2. PICK e \in Nat : e = K + 1
  OBVIOUS
<1>3. (a + 1 + d) * e = a * e + e + d * e /\ d * e \in Nat /\ a * e \in Nat
  BY SMT
<1>4. b * e = a * e + e + d * e
  BY <1>1, <1>3
<1>5. PICK x \in Nat, y \in Nat : x = a * e /\ y = d * e
  BY <1>3
<1>6. x + p < x + e + y + q
  BY <1>2
<1> QED BY <1>2, <1>4, <1>5, <1>6

\* The place of a class in the initialisation of its module.
Place(c) == CHOOSE i \in DOMAIN Order[Package(c)] : Order[Package(c)][i] = c

\* A class is initialised once.
LEMMA PlaceIs ==
    ASSUME NEW m \in Module, NEW i \in DOMAIN Order[m]
    PROVE  Order[m][i] \in Class /\ Package(Order[m][i]) = m /\ Place(Order[m][i]) = i
<1>1. PICK c : c = Order[m][i]
  OBVIOUS
<1>2. Order[m] \in Seq(Class) /\ Len(Order[m]) \in Nat /\ DOMAIN Order[m] = 1..Len(Order[m])
  BY ModuleInitAssumption
<1>3. c \in RangeOf(Order[m])
  BY <1>1 DEF RangeOf
<1>4. \A n \in Module : c \in RangeOf(Order[n]) => n = m
  BY <1>3, ModuleInitAssumption
<1>5. Package(c) = m
  BY <1>3, <1>4 DEF Package
<1>6. ASSUME NEW j \in DOMAIN Order[m], NEW k \in DOMAIN Order[m], j < k
      PROVE  Order[m][j] # Order[m][k]
  <2>1. Order[m][k] \notin {Order[m][l] : l \in 1..(k - 1)}
    BY ModuleInitAssumption
  <2>2. j \in 1..(k - 1)
    BY <1>2, <1>6
  <2> QED BY <2>1, <2>2
<1>7. ASSUME NEW j \in DOMAIN Order[m], Order[m][j] = c
      PROVE  j = i
  <2>1. j \in Int /\ i \in Int
    BY <1>2
  <2>2. ~(j < i) /\ ~(i < j)
    BY <1>1, <1>6, <1>7
  <2> QED BY <2>1, <2>2
<1>8. Place(c) = i
  BY <1>1, <1>5, <1>7 DEF Place
<1>9. c \in Class
  BY <1>1, <1>2
<1> QED BY <1>1, <1>5, <1>8, <1>9

\* The bases of a class are initialised before it, in its module or in one that
\* its module requires.
LEMMA BasesBefore ==
    ASSUME NEW c \in Class, NEW b \in RangeOf(Bases[c])
    PROVE  /\ b \in Class /\ Package(c) \in Module /\ Package(b) \in Module
           /\ Place(c) \in 1..Len(Order[Package(c)]) /\ Place(b) \in 1..Len(Order[Package(b)])
           /\ \/ Package(b) = Package(c) /\ Place(b) < Place(c)
              \/ Package(b) \in RangeOf(Requires[Package(c)])
<1>1. b \in Class
  <2>1. Bases[c] \in Seq(Class)
    BY ModuleInitAssumption
  <2> QED BY <2>1, ItemsOf DEF RangeOf
<1>2. ASSUME NEW d \in Class
      PROVE  Package(d) \in Module /\ Place(d) \in 1..Len(Order[Package(d)])
             /\ Order[Package(d)][Place(d)] = d
  <2>1. PICK m \in Module : d \in RangeOf(Order[m])
    BY ModuleInitAssumption
  <2>2. PICK i \in DOMAIN Order[m] : Order[m][i] = d
    BY <2>1 DEF RangeOf
  <2>3. DOMAIN Order[m] = 1..Len(Order[m])
    BY ModuleInitAssumption
  <2> QED BY <2>2, <2>3, PlaceIs
<1>3. PICK m \in Module : m = Package(c)
  BY <1>2
<1>4. PICK i \in 1..Len(Order[m]) : i = Place(c) /\ Order[m][i] = c
  BY <1>2, <1>3
<1>5. Len(Order[m]) \in Nat /\ DOMAIN Order[m] = 1..Len(Order[m])
  BY ModuleInitAssumption
<1>6. \/ b \in {Order[m][j] : j \in 1..(i - 1)}
      \/ Package(b) \in RangeOf(Requires[m])
  BY <1>3, <1>4, <1>5, ModuleInitAssumption
<1>7. CASE b \in {Order[m][j] : j \in 1..(i - 1)}
  <2>1. PICK j \in 1..(i - 1) : b = Order[m][j]
    BY <1>7
  <2>2. j \in DOMAIN Order[m] /\ j < i
    BY <1>5
  <2>3. Package(b) = m /\ Place(b) = j
    BY <2>1, <2>2, PlaceIs
  <2> QED BY <1>1, <1>2, <1>3, <1>4, <2>2, <2>3
<1> QED BY <1>1, <1>2, <1>3, <1>4, <1>6, <1>7

\* A depth: a class is deeper than its bases.
IsDepth(rank, N) ==
    /\ N \in Nat /\ rank \in [Known -> 0..N]
    /\ \A c \in Known : \A b \in Parents(c) : b \in Class /\ rank[b] < rank[c]

\* The order of initialisation gives one.
LEMMA DepthExists == \E N, rank : IsDepth(rank, N)
<1>1. PICK K \in Nat : \A m \in Module : Len(Order[m]) <= K
  BY LongestOrder
<1>2. PICK C \in Nat : Rank \in [Module -> 1..C]
                       /\ \A m \in Module : \A r \in RangeOf(Requires[m]) : Rank[r] < Rank[m]
  <2>1. Cardinality(Module) \in Nat
    BY HierarchyAssumption, FS_CardinalityType
  <2> QED BY <2>1, RequiresAssumption DEF Rank
<1> DEFINE R(c) == Rank[Package(c)]
           D(c) == R(c) * (K + 1) + Place(c)
           M == (C + 1) * (K + 1)
           rank == [c \in Known |-> IF c \in Class THEN D(c) ELSE M + 1]
<1>3. ASSUME NEW c \in Class
      PROVE  Package(c) \in Module /\ R(c) \in Nat /\ R(c) < C + 1 /\ Place(c) \in 0..K
  <2>1. PICK m \in Module : c \in RangeOf(Order[m])
    BY ModuleInitAssumption
  <2>2. PICK i \in DOMAIN Order[m] : Order[m][i] = c
    BY <2>1 DEF RangeOf
  <2>3. DOMAIN Order[m] = 1..Len(Order[m]) /\ Len(Order[m]) \in Nat
    BY ModuleInitAssumption
  <2>4. Package(c) = m /\ Place(c) = i
    BY <2>2, PlaceIs
  <2>5. Len(Order[m]) <= K
    BY <1>1
  <2>6. Rank[m] \in 1..C
    BY <1>2
  <2>7. i \in 0..K
    BY <2>3, <2>5
  <2> QED BY <2>4, <2>6, <2>7
<1>4. M \in Nat
  <2>1. K + 1 \in Nat /\ C + 1 \in Nat
    OBVIOUS
  <2> QED BY <2>1
<1>5. ASSUME NEW c \in Class
      PROVE  D(c) \in 0..M
  <2>1. PICK r \in Nat, p \in 0..K : r = R(c) /\ p = Place(c) /\ r < C + 1
    BY <1>3
  <2>2. r * (K + 1) + p < (C + 1) * (K + 1) + 0
    BY <2>1, TwoDigits
  <2>3. r * (K + 1) \in Nat
    <3>1. K + 1 \in Nat
      OBVIOUS
    <3> QED BY <3>1
  <2> QED BY <1>4, <2>1, <2>2, <2>3
<1>6. ASSUME NEW c \in Class, NEW b \in RangeOf(Bases[c])
      PROVE  b \in Class /\ D(b) < D(c)
  <2>1. b \in Class
    BY BasesBefore
  <2>2. PICK r \in Nat, p \in 0..K : r = R(c) /\ p = Place(c)
    BY <1>3
  <2>3. PICK s \in Nat, q \in 0..K : s = R(b) /\ q = Place(b)
    BY <1>3, <2>1
  <2>4. CASE Package(b) = Package(c) /\ Place(b) < Place(c)
    <3>1. r = s /\ q < p
      BY <2>2, <2>3, <2>4
    <3>2. PICK x \in Nat : x = r * (K + 1)
      <4>1. K + 1 \in Nat
        OBVIOUS
      <4>2. r * (K + 1) \in Nat
        BY <4>1
      <4> QED BY <4>2
    <3>3. x + q < x + p
      BY <3>1
    <3> QED BY <2>1, <2>2, <2>3, <3>1, <3>2, <3>3
  <2>5. CASE Package(b) \in RangeOf(Requires[Package(c)])
    <3>1. s < r
      BY <1>2, <1>3, <2>2, <2>3, <2>5
    <3>2. s * (K + 1) + q < r * (K + 1) + p
      BY <3>1, TwoDigits
    <3> QED BY <2>1, <2>2, <2>3, <3>2
  <2> QED BY <2>4, <2>5, BasesBefore
<1> HIDE DEF R, D, M
<1>7. rank \in [Known -> 0..(M + 1)]
  <2>1. \A c \in Known : rank[c] \in 0..(M + 1)
    BY <1>4, <1>5
  <2> QED BY <2>1
<1>8. ASSUME NEW c \in Known, NEW b \in Parents(c)
      PROVE  b \in Class /\ rank[b] < rank[c]
  <2>1. CASE c \in Class
    <3>1. c \notin Hidden
      BY <2>1, HierarchyAssumption
    <3>2. b \in Class /\ D(b) < D(c)
      BY <1>6, <2>1, <3>1 DEF Parents
    <3> QED BY <2>1, <3>2 DEF Known
  <2>2. CASE c \in Hidden
    <3>1. b \in Class /\ c \notin Class
      BY <2>2, HierarchyAssumption DEF Parents
    <3>2. D(b) \in 0..M
      BY <1>5, <3>1
    <3> QED BY <1>4, <3>1, <3>2 DEF Known
  <2> QED BY <2>1, <2>2 DEF Known
<1>9. IsDepth(rank, M + 1)
  BY <1>4, <1>7, <1>8 DEF IsDepth
<1> QED BY <1>9

-----------------------------------------------------------------------------
(* The classes that a class inherits from.                                 *)

\* How deep hierarchies are, and the depth of each class.
MaxHeight == CHOOSE N : \E rank : IsDepth(rank, N)
Depth == CHOOSE rank : IsDepth(rank, MaxHeight)

\* A class without a wrapper is deeper than its base as well.
LEMMA DepthIs ==
    /\ MaxHeight \in Nat /\ Depth \in [Known -> 0..MaxHeight] /\ Depth \in [Known -> Nat]
    /\ \A c \in Known : \A b \in Parents(c) : b \in Known /\ b \in Class /\ Depth[b] < Depth[c]
<1>1. IsDepth(Depth, MaxHeight)
  BY DepthExists DEF MaxHeight, Depth
<1> QED BY <1>1 DEF IsDepth, Known

\* What holds of a class if it holds of the less deep ones holds of all.
LEMMA DepthInduction ==
    ASSUME NEW P, \A c \in Known : (\A d \in Known : Depth[d] < Depth[c] => d \in P) => c \in P
    PROVE  Known \subseteq P
BY DepthIs, RankInduction

\* Ancestors is what its recursion says.
LEMMA AncestorsAre ==
    ASSUME NEW c \in Known
    PROVE  /\ Ancestors[c] = {c} \cup UNION {Ancestors[b] : b \in Parents(c)}
           /\ Ancestors[c] \subseteq Known
<1> DEFINE T == SUBSET Known
           G == [z \in Known \X [Known -> T] |->
                    {z[1]} \cup UNION {z[2][b] : b \in Parents(z[1])}]
<1>1. \A d \in Known : \A f \in [Known -> T] :
          G[<<d, f>>] = {d} \cup UNION {f[b] : b \in Parents(d)}
  OBVIOUS
<1>2. \A d \in Known : \A f \in [Known -> T] :
          {d} \cup UNION {f[b] : b \in Parents(d)} \in T
  BY DepthIs
<1>3. G \in [Known \X [Known -> T] -> T]
  <2>1. \A z \in Known \X [Known -> T] :
            {z[1]} \cup UNION {z[2][b] : b \in Parents(z[1])} \in T
    BY <1>2
  <2> QED BY <2>1
<1> HIDE DEF G
<1>4. Local(Known, T, Depth, G)
  <2>1. SUFFICES ASSUME NEW d \in Known, NEW f \in [Known -> T], NEW g \in [Known -> T],
                        \A e \in Known : Depth[e] < Depth[d] => f[e] = g[e]
                 PROVE  G[<<d, f>>] = G[<<d, g>>]
    BY DEF Local
  <2>2. \A b \in Parents(d) : f[b] = g[b]
    BY <2>1, DepthIs
  <2>3. {f[b] : b \in Parents(d)} = {g[b] : b \in Parents(d)}
    BY <2>2
  <2> QED BY <1>1, <2>3
<1>5. PICK f : Solves(f, Known, T, G)
  <2>1. {} \in T
    OBVIOUS
  <2> HIDE DEF T
  <2> QED BY <1>3, <1>4, <2>1, DepthIs, RankRecursion
<1> DEFINE R(h) == [d \in Known |-> {d} \cup UNION {h[b] : b \in Parents(d)}]
<1>6. f = R(f)
  <2>1. f \in [Known -> T] /\ \A d \in Known : f[d] = G[<<d, f>>]
    BY <1>5 DEF Solves
  <2> QED BY <1>1, <2>1
<1>7. Ancestors = CHOOSE h : h = R(h)
  BY DEF Ancestors, Known, Parents
<1> HIDE DEF R
<1>8. Ancestors = R(Ancestors)
  BY <1>6, <1>7, Zenon
<1>9. \A d \in Known : Ancestors[d] = {d} \cup UNION {Ancestors[b] : b \in Parents(d)}
  BY <1>8 DEF R
<1> DEFINE P == {d \in Known : Ancestors[d] \subseteq Known}
<1>10. ASSUME NEW d \in Known, \A e \in Known : Depth[e] < Depth[d] => e \in P
       PROVE  d \in P
  <2>1. \A b \in Parents(d) : Ancestors[b] \subseteq Known
    BY <1>10, DepthIs
  <2> QED BY <1>9, <2>1
<1> HIDE DEF P
<1>11. Known \subseteq P
  BY <1>10, DepthInduction
<1> QED BY <1>9, <1>11 DEF P

\* A class inherits from itself and from those that its bases inherit from.
LEMMA AncestorCases ==
    ASSUME NEW c \in Known
    PROVE  /\ c \in Ancestors[c]
           /\ \A b \in Parents(c) : Ancestors[b] \subseteq Ancestors[c] /\ b \in Ancestors[c]
           /\ \A a \in Ancestors[c] : a \in Known /\ (a = c \/ \E b \in Parents(c) : a \in Ancestors[b])
<1>1. \A b \in Parents(c) : b \in Known
  BY DepthIs
<1>2. \A b \in Parents(c) : b \in Ancestors[b]
  BY <1>1, AncestorsAre
<1> QED BY <1>2, AncestorsAre

\* Inheritance is an order, and a class inherits from another by a chain of bases.
LEMMA AncestorsOrder ==
    /\ \A c \in Known : \A b \in Ancestors[c] : Ancestors[b] \subseteq Ancestors[c]
    /\ \A c \in Known : \A a \in Ancestors[c] : a = c \/ (a \in Class /\ Depth[a] < Depth[c])
    /\ \A c \in Known : \A a \in Ancestors[c] :
           a = c \/ \E k \in Ancestors[c] : a \in Parents(k)
<1> DEFINE P == {c \in Known :
                    /\ \A b \in Ancestors[c] : Ancestors[b] \subseteq Ancestors[c]
                    /\ \A a \in Ancestors[c] : a = c \/ (a \in Class /\ Depth[a] < Depth[c])
                    /\ \A a \in Ancestors[c] : a = c \/ \E k \in Ancestors[c] : a \in Parents(k)}
<1>1. ASSUME NEW c \in Known, \A e \in Known : Depth[e] < Depth[c] => e \in P
      PROVE  c \in P
  <2>1. \A k \in Parents(c) : k \in P /\ k \in Known /\ k \in Class /\ Depth[k] < Depth[c]
    BY <1>1, DepthIs
  <2>2. ASSUME NEW b \in Ancestors[c]
        PROVE  Ancestors[b] \subseteq Ancestors[c]
    <3>1. CASE b = c
      BY <3>1
    <3>2. ASSUME NEW k \in Parents(c), b \in Ancestors[k]
          PROVE  Ancestors[b] \subseteq Ancestors[c]
      <4>1. Ancestors[b] \subseteq Ancestors[k]
        BY <2>1, <3>2
      <4> QED BY <4>1, AncestorCases
    <3> QED BY <3>1, <3>2, AncestorCases
  <2>3. ASSUME NEW a \in Ancestors[c], a # c
        PROVE  /\ a \in Class /\ Depth[a] < Depth[c]
               /\ \E k \in Ancestors[c] : a \in Parents(k)
    <3>1. PICK k \in Parents(c) : a \in Ancestors[k]
      BY <2>3, AncestorCases
    <3>2. CASE a = k
      BY <2>1, <3>2, AncestorCases
    <3>3. CASE a # k
      <4>1. a \in Class /\ Depth[a] < Depth[k] /\ \E j \in Ancestors[k] : a \in Parents(j)
        BY <2>1, <3>1, <3>3
      <4>2. Ancestors[k] \subseteq Ancestors[c]
        BY AncestorCases
      <4>3. Depth[a] \in Nat /\ Depth[k] \in Nat /\ Depth[c] \in Nat
        BY <2>1, <4>1, DepthIs DEF Known
      <4>4. Depth[a] < Depth[c]
        BY <2>1, <4>1, <4>3
      <4> QED BY <4>1, <4>2, <4>4
    <3> QED BY <3>2, <3>3
  <2> QED BY <2>2, <2>3
<1> HIDE DEF P
<1>2. Known \subseteq P
  BY <1>1, DepthInduction
<1> QED BY <1>2 DEF P

-----------------------------------------------------------------------------
(* Graph::identifyType.                                                    *)

\* The hierarchy that libshiboken knows has edges from bases only, and all
\* those to classes that are ready; of these, the polymorphic ones that have
\* bases can be discovered.
HierarchyKept ==
    /\ \A p \in RangeOf(classHierarchy) : p[1] \in RangeOf(Bases[p[2]])
    /\ \A c \in ready : \A b \in RangeOf(Bases[c]) : <<b, c>> \in RangeOf(classHierarchy)
    /\ \A c \in ready \cap Polymorphic : Bases[c] # <<>> => c \in discovery

Answer == Class \cup {Nil}
Below(c, d) == d \in Class /\ <<c, d>> \in RangeOf(classHierarchy)

\* How far the classes derived from a class may go.
Height == [c \in Class |-> MaxHeight - Depth[c]]

\* It decreases along the edges of the hierarchy.
LEMMA HeightIs ==
    /\ Height \in [Class -> 0..MaxHeight] /\ Height \in [Class -> Nat]
    /\ \A c \in Class, d \in Class : c \in RangeOf(Bases[d]) => Height[d] < Height[c]
    /\ HierarchyKept => \A c \in Class : \A d : Below(c, d) => d \in Class /\ Height[d] < Height[c]
<1>1. MaxHeight \in Nat /\ \A c \in Class : Depth[c] \in 0..MaxHeight
  BY DepthIs DEF Known
<1>2. Height \in [Class -> 0..MaxHeight] /\ Height \in [Class -> Nat]
  <2>1. \A c \in Class : MaxHeight - Depth[c] \in 0..MaxHeight /\ MaxHeight - Depth[c] \in Nat
    BY <1>1
  <2> QED BY <2>1 DEF Height
<1>3. ASSUME NEW c \in Class, NEW d \in Class, c \in RangeOf(Bases[d])
      PROVE  Height[d] < Height[c]
  <2>1. d \notin Hidden
    BY HierarchyAssumption
  <2>2. Depth[c] < Depth[d]
    BY <1>3, <2>1, DepthIs DEF Parents, Known
  <2>3. Depth[c] \in Int /\ Depth[d] \in Int
    BY <1>1
  <2> QED BY <1>1, <2>2, <2>3 DEF Height
<1>4. \A c \in Class : \A d : HierarchyKept /\ Below(c, d) => d \in Class /\ c \in RangeOf(Bases[d])
  BY DEF Below, HierarchyKept
<1> QED BY <1>2, <1>3, <1>4

\* What holds of a class if it holds of those that are deeper holds of all.
LEMMA HeightInduction ==
    ASSUME NEW P, \A c \in Class : (\A d \in Class : Height[d] < Height[c] => d \in P) => c \in P
    PROVE  Class \subseteq P
BY HeightIs, RankInduction

\* The answer of the classes derived from c is that of one of them, and none
\* only if none of them has one.
LEMMA FirstDerivedIs ==
    ASSUME classHierarchy \in Seq(Class \X Class), NEW c, NEW f \in [Class -> Answer]
    PROVE  /\ FirstDerived(c, f) \in Answer
           /\ FirstDerived(c, f) # Nil => \E d : Below(c, d) /\ f[d] = FirstDerived(c, f)
           /\ FirstDerived(c, f) = Nil => \A d : Below(c, d) => f[d] = Nil
<1> DEFINE found == {i \in DOMAIN classHierarchy :
                        classHierarchy[i][1] = c /\ f[classHierarchy[i][2]] # Nil}
<1>1. /\ DOMAIN classHierarchy \subseteq Nat
      /\ \A i \in DOMAIN classHierarchy : classHierarchy[i] \in Class \X Class
  OBVIOUS
<1>2. \A i \in DOMAIN classHierarchy :
          classHierarchy[i] = <<classHierarchy[i][1], classHierarchy[i][2]>>
          /\ classHierarchy[i][2] \in Class
  BY <1>1
<1>3. FirstDerived(c, f) = IF found = {} THEN Nil ELSE f[classHierarchy[Min(found)][2]]
  BY DEF FirstDerived
<1>4. CASE found = {}
  <2>1. ASSUME NEW d, Below(c, d)
        PROVE  f[d] = Nil
    <3>1. PICK i \in DOMAIN classHierarchy : classHierarchy[i] = <<c, d>>
      BY <2>1 DEF Below, RangeOf
    <3> QED BY <1>4, <3>1
  <2> QED BY <1>3, <1>4, <2>1 DEF Answer
<1>5. CASE found # {}
  <2>1. found \in SUBSET Nat
    BY <1>1
  <2>2. PICK n \in found : n = Min(found)
    <3> HIDE DEF found
    <3>1. \E n \in found : \A m \in found : n <= m
      BY <1>5, <2>1, Least
    <3> QED BY <3>1 DEF Min
  <2>3. PICK d : d = classHierarchy[n][2]
    OBVIOUS
  <2>4. n \in DOMAIN classHierarchy /\ classHierarchy[n] = <<c, d>> /\ f[d] # Nil /\ d \in Class
    BY <1>2, <2>2, <2>3
  <2>5. Below(c, d)
    BY <2>4 DEF Below, RangeOf
  <2>6. FirstDerived(c, f) = f[d]
    BY <1>3, <1>5, <2>2, <2>3
  <2> QED BY <2>4, <2>5, <2>6
<1> QED BY <1>4, <1>5

\* It depends on nothing but their answers.
LEMMA FirstDerivedSame ==
    ASSUME classHierarchy \in Seq(Class \X Class), NEW c,
           NEW f, NEW g, \A d : Below(c, d) => f[d] = g[d]
    PROVE  FirstDerived(c, f) = FirstDerived(c, g)
<1> DEFINE found(h) == {i \in DOMAIN classHierarchy :
                           classHierarchy[i][1] = c /\ h[classHierarchy[i][2]] # Nil}
<1>1. \A i \in DOMAIN classHierarchy :
          /\ classHierarchy[i] = <<classHierarchy[i][1], classHierarchy[i][2]>>
          /\ classHierarchy[i][2] \in Class
  <2>1. \A i \in DOMAIN classHierarchy : classHierarchy[i] \in Class \X Class
    OBVIOUS
  <2> QED BY <2>1
<1>2. ASSUME NEW i \in DOMAIN classHierarchy, classHierarchy[i][1] = c
      PROVE  f[classHierarchy[i][2]] = g[classHierarchy[i][2]]
  BY <1>1, <1>2 DEF Below, RangeOf
<1>3. found(f) = found(g)
  BY <1>2
<1>4. CASE found(f) = {}
  BY <1>3, <1>4 DEF FirstDerived
<1>5. CASE found(f) # {}
  <2>1. found(f) \in SUBSET Nat
    <3>1. DOMAIN classHierarchy \subseteq Nat
      OBVIOUS
    <3> QED BY <3>1
  <2>2. PICK U : U = found(f)
    OBVIOUS
  <2>3. Min(U) \in U
    <3> HIDE DEF found
    <3>1. \E n \in U : \A m \in U : n <= m
      BY <1>5, <2>1, <2>2, Least
    <3> QED BY <3>1 DEF Min
  <2>4. Min(U) \in DOMAIN classHierarchy /\ classHierarchy[Min(U)][1] = c
    BY <2>2, <2>3
  <2>5. FirstDerived(c, f) = f[classHierarchy[Min(U)][2]]
    BY <1>5, <2>2 DEF FirstDerived
  <2>6. FirstDerived(c, g) = g[classHierarchy[Min(U)][2]]
    BY <1>3, <1>5, <2>2 DEF FirstDerived
  <2> QED BY <1>2, <2>4, <2>5, <2>6
<1> QED BY <1>4, <1>5

\* The answer of a class by those of the classes derived from it.
Identified(c, x, base, f) ==
    IF FirstDerived(c, f) # Nil THEN FirstDerived(c, f)
    ELSE IF Discovers(c, x, base) THEN c ELSE Nil

\* identifyType asks along the hierarchy, which ends.
LEMMA IdentifiedIs ==
    ASSUME classHierarchy \in Seq(Class \X Class), HierarchyKept, NEW x, NEW base \in Class
    PROVE  \E f \in [Class -> Answer] :
               /\ IdentifyType(x, base) = f[base]
               /\ \A c \in Class : f[c] = Identified(c, x, base, f)
<1> DEFINE G == [z \in Class \X [Class -> Answer] |-> Identified(z[1], x, base, z[2])]
<1>1. \A c \in Class : \A f \in [Class -> Answer] : G[<<c, f>>] = Identified(c, x, base, f)
  OBVIOUS
<1>2. \A c \in Class : \A f \in [Class -> Answer] : Identified(c, x, base, f) \in Answer
  BY FirstDerivedIs DEF Identified, Answer
<1>3. G \in [Class \X [Class -> Answer] -> Answer]
  <2>1. \A z \in Class \X [Class -> Answer] : Identified(z[1], x, base, z[2]) \in Answer
    BY <1>2
  <2> QED BY <2>1
<1> HIDE DEF G
<1>4. Local(Class, Answer, Height, G)
  <2>1. SUFFICES ASSUME NEW c \in Class, NEW f \in [Class -> Answer], NEW g \in [Class -> Answer],
                        \A d \in Class : Height[d] < Height[c] => f[d] = g[d]
                 PROVE  G[<<c, f>>] = G[<<c, g>>]
    BY DEF Local
  <2>2. \A d : Below(c, d) => f[d] = g[d]
    BY <2>1, HeightIs
  <2>3. FirstDerived(c, f) = FirstDerived(c, g)
    BY <2>2, FirstDerivedSame
  <2> QED BY <1>1, <2>3 DEF Identified
<1>5. PICK f : Solves(f, Class, Answer, G)
  <2>1. Nil \in Answer
    BY DEF Answer
  <2> QED BY <1>3, <1>4, <2>1, DepthIs, HeightIs, RankRecursion
<1> DEFINE R(h) == [c \in Class |-> IF FirstDerived(c, h) # Nil THEN FirstDerived(c, h)
                                    ELSE IF Discovers(c, x, base) THEN c ELSE Nil]
<1>6. f \in [Class -> Answer] /\ \A c \in Class : f[c] = Identified(c, x, base, f)
  BY <1>1, <1>5 DEF Solves
<1>7. f = R(f)
  BY <1>6 DEF Identified
<1> DEFINE answer == CHOOSE h : h = R(h)
<1>8. IdentifyType(x, base) = answer[base]
  BY DEF IdentifyType
<1> HIDE DEF R
<1>9. answer = R(answer)
  BY <1>7, Zenon
<1> HIDE DEF answer
<1> DEFINE P == {c \in Class : f[c] = answer[c]}
<1>10. ASSUME NEW c \in Class, \A d \in Class : Height[d] < Height[c] => d \in P
       PROVE  c \in P
  <2>1. \A d : Below(c, d) => f[d] = answer[d]
    BY <1>10, HeightIs
  <2>2. FirstDerived(c, f) = FirstDerived(c, answer)
    BY <2>1, FirstDerivedSame
  <2>3. R(f)[c] = R(answer)[c]
    BY <2>2 DEF R
  <2> QED BY <1>7, <1>9, <2>3
<1> HIDE DEF P
<1>11. Class \subseteq P
  BY <1>10, HeightInduction
<1>12. f[base] = answer[base]
  BY <1>11 DEF P
<1> QED BY <1>6, <1>8, <1>12

-----------------------------------------------------------------------------
(* The answers, for an object of class x that C++ code has as a base.      *)

Answers(f, x, base) ==
    f \in [Class -> Answer] /\ \A c \in Class : f[c] = Identified(c, x, base, f)

\* The classes that a ready class inherits from are ready.
LEMMA ReadyAncestors ==
    ASSUME Inv, NEW c \in ready, NEW a \in Ancestors[c]
    PROVE  a \in ready
<1> DEFINE P == {d \in Known : d \in ready => Ancestors[d] \subseteq ready}
<1>1. ready \subseteq Class /\ \A d \in ready : RangeOf(Bases[d]) \subseteq ready
  BY DEF Inv, TypeOK, NamesKnown
<1>2. ASSUME NEW d \in Known, \A e \in Known : Depth[e] < Depth[d] => e \in P
      PROVE  d \in P
  <2>1. SUFFICES ASSUME d \in ready PROVE Ancestors[d] \subseteq ready
    OBVIOUS
  <2>2. Parents(d) \subseteq ready
    BY <1>1, <2>1, HierarchyAssumption DEF Parents
  <2>3. \A b \in Parents(d) : Ancestors[b] \subseteq ready
    BY <1>2, <2>2, DepthIs
  <2> QED BY <2>1, <2>3, AncestorCases
<1> HIDE DEF P
<1>3. Known \subseteq P
  BY <1>2, DepthInduction
<1> QED BY <1>1, <1>3 DEF P, Known

\* A class that inherits from a polymorphic one is polymorphic.
LEMMA PolymorphicBelow ==
    ASSUME NEW c \in Class, NEW a \in Ancestors[c], a \in Polymorphic
    PROVE  c \in Polymorphic
<1> DEFINE P == {d \in Known : d \in Class /\ Ancestors[d] \cap Polymorphic # {} => d \in Polymorphic}
<1>1. ASSUME NEW d \in Known, \A e \in Known : Depth[e] < Depth[d] => e \in P
      PROVE  d \in P
  <2>1. SUFFICES ASSUME d \in Class, NEW e \in Ancestors[d], e \in Polymorphic
                 PROVE  d \in Polymorphic
    OBVIOUS
  <2>2. CASE e = d
    BY <2>1, <2>2
  <2>3. ASSUME NEW b \in Parents(d), e \in Ancestors[b]
        PROVE  d \in Polymorphic
    <3>1. b \in Polymorphic
      BY <1>1, <2>1, <2>3, DepthIs
    <3>2. b \in RangeOf(Bases[d])
      BY <2>1, HierarchyAssumption DEF Parents
    <3> QED BY <2>1, <3>1, <3>2, HierarchyAssumption
  <2> QED BY <2>1, <2>2, <2>3, AncestorCases
<1> HIDE DEF P
<1>2. Known \subseteq P
  BY <1>1, DepthInduction
<1> QED BY <1>2 DEF P, Known

\* An answer is a class that can be discovered, and below it there is none.
LEMMA AnswersAreLast ==
    ASSUME classHierarchy \in Seq(Class \X Class), HierarchyKept,
           NEW x, NEW base, NEW f, Answers(f, x, base), NEW c \in Class, f[c] # Nil
    PROVE  /\ f[c] \in Class /\ Discovers(f[c], x, base)
           /\ \A d : Below(f[c], d) => f[d] = Nil
<1> DEFINE Final(e) == Discovers(e, x, base) /\ \A d : Below(e, d) => f[d] = Nil
           P == {d \in Class : f[d] # Nil => Final(f[d])}
<1>1. f \in [Class -> Answer] /\ \A d \in Class : f[d] = Identified(d, x, base, f)
  BY DEF Answers
<1> HIDE DEF Final
<1>2. ASSUME NEW d \in Class, \A e \in Class : Height[e] < Height[d] => e \in P
      PROVE  d \in P
  <2>1. SUFFICES ASSUME f[d] # Nil PROVE Final(f[d])
    OBVIOUS
  <2>2. CASE FirstDerived(d, f) # Nil
    <3>1. PICK e : Below(d, e) /\ f[e] = FirstDerived(d, f)
      BY <1>1, <2>2, FirstDerivedIs
    <3>2. e \in P
      BY <1>2, <3>1, HeightIs
    <3> QED BY <1>1, <2>2, <3>1, <3>2 DEF Identified
  <2>3. CASE FirstDerived(d, f) = Nil
    <3>1. f[d] = d /\ Discovers(d, x, base)
      BY <1>1, <2>1, <2>3 DEF Identified
    <3>2. \A e : Below(d, e) => f[e] = Nil
      BY <1>1, <2>3, FirstDerivedIs
    <3> QED BY <3>1, <3>2 DEF Final
  <2> QED BY <2>2, <2>3
<1> HIDE DEF P
<1>3. Class \subseteq P
  BY <1>2, HeightInduction
<1>4. f[c] \in Class
  BY <1>1 DEF Answer
<1> QED BY <1>3, <1>4 DEF P, Final

\* A class that can be discovered is: those it inherits from have an answer.
LEMMA DiscoveredIsFound ==
    ASSUME Inv, HierarchyKept, NEW x, NEW base, NEW f, Answers(f, x, base),
           NEW c \in ready, Discovers(c, x, base), NEW a \in Ancestors[c]
    PROVE  f[a] # Nil
<1> DEFINE P == {d \in Class : d \in Ancestors[c] => f[d] # Nil}
<1>1. f \in [Class -> Answer] /\ \A d \in Class : f[d] = Identified(d, x, base, f)
  BY DEF Answers
<1>2. ready \subseteq Class /\ classHierarchy \in Seq(Class \X Class) /\ Nil \notin Class
  BY ModuleInitAssumption DEF Inv, TypeOK, Stacked
<1>3. ASSUME NEW d \in Class, \A e \in Class : Height[e] < Height[d] => e \in P
      PROVE  d \in P
  <2>1. SUFFICES ASSUME d \in Ancestors[c] PROVE f[d] # Nil
    OBVIOUS
  <2>2. CASE d = c
    BY <1>1, <1>2, <2>2 DEF Identified
  <2>3. CASE d # c
    <3>1. PICK k \in Ancestors[c] : d \in Parents(k)
      BY <1>2, <2>1, <2>3, AncestorsOrder DEF Known
    <3>2. k \in ready /\ k \in Class
      BY <1>2, <3>1, ReadyAncestors
    <3>3. d \in RangeOf(Bases[k])
      BY <3>1, <3>2, HierarchyAssumption DEF Parents
    <3>4. Below(d, k)
      BY <3>2, <3>3 DEF HierarchyKept, Below
    <3>5. f[k] # Nil
      BY <1>3, <3>1, <3>2, <3>3, HeightIs
    <3>6. FirstDerived(d, f) # Nil
      BY <1>1, <1>2, <3>4, <3>5, FirstDerivedIs
    <3> QED BY <1>1, <3>6 DEF Identified
  <2> QED BY <2>2, <2>3
<1> HIDE DEF P
<1>4. Class \subseteq P
  BY <1>3, HeightInduction
<1>5. a \in Class
  BY <1>2, ReadyAncestors
<1> QED BY <1>4, <1>5 DEF P

\* From a polymorphic root all the ready classes below it can be discovered.
LEMMA ReadyIsDiscovered ==
    ASSUME Inv, HierarchyKept, NEW x, NEW base \in Polymorphic, Bases[base] = <<>>,
           NEW c \in ready, c \in Ancestors[x], base \in Ancestors[c], c # base
    PROVE  Discovers(c, x, base)
<1>1. c \in Class
  BY DEF Inv, TypeOK
<1>2. c \in Polymorphic
  BY <1>1, PolymorphicBelow
<1>3. PICK b \in Parents(c) : base \in Ancestors[b]
  BY <1>1, AncestorCases DEF Known
<1>4. b \in RangeOf(Bases[c])
  BY <1>1, <1>3, HierarchyAssumption DEF Parents
<1>5. Bases[c] # <<>>
  BY <1>4 DEF RangeOf
<1>6. c \in discovery
  BY <1>2, <1>5 DEF HierarchyKept
<1>7. base \in Roots(c)
  BY DEF Roots
<1> QED BY <1>6, <1>7 DEF Discovers

\* The name that typeid gives of a class leads to it.
LEMMA TypeIdKnown ==
    ASSUME Inv, NEW x \in Class, TypeId("class", x) \in DOMAIN resolvers
    PROVE  resolvers[TypeId("class", x)] = x /\ x \in ready
<1>1. PICK n : n = TypeId("class", x)
  OBVIOUS
<1>2. n \in DOMAIN resolvers
  BY <1>1
<1>3. \A d : IsName(n, d) => FALSE
  BY <1>1 DEF IsName, Named, TypeId
<1>4. \A d : IsTypeId(n, d) => d = x
  BY <1>1 DEF IsTypeId, TypeId
<1>5. enums \subseteq Enum /\ ready \subseteq Class
  BY DEF Inv, TypeOK
<1>6. resolvers[n] \in ready /\ n \in RangeOf(RegisterType(resolvers[n]))
  <2>1. ~ \E e \in enums : n \in RangeOf(BothNames(e, FALSE))
    BY <1>3, <1>5, EnumNamesAre
  <2> QED BY <1>2, <2>1 DEF Inv, NamesKnown
<1>7. resolvers[n] = x
  BY <1>3, <1>4, <1>5, <1>6, RegisterTypeIs
<1> QED BY <1>1, <1>6, <1>7

\* The answers of identifyType for an object that the resolver does not know.
LEMMA ResolvedIsRight ==
    ASSUME Inv, HierarchyKept, NEW base \in ready, NEW x \in Known, base \in Ancestors[x],
           NEW type, type = ResolveType(x, base)
    PROVE  /\ type \in ready \cap Ancestors[x] /\ base \in Ancestors[type]
           /\ base \in Polymorphic /\ Bases[base] = <<>> =>
                  ~ \E c \in ready \cap Ancestors[x] : c # type /\ type \in Ancestors[c]
<1>1. /\ ready \subseteq Class /\ discovery \subseteq ready
      /\ classHierarchy \in Seq(Class \X Class) /\ Nil \notin Class
  BY ModuleInitAssumption DEF Inv, TypeOK, Stacked
<1>2. PICK f : Answers(f, x, base) /\ IdentifyType(x, base) = f[base]
  BY <1>1, IdentifiedIs DEF Answers
<1>3. type = IF f[base] # Nil THEN f[base] ELSE base
  BY <1>2 DEF ResolveType
<1>4. ASSUME base \in Polymorphic, Bases[base] = <<>>,
             NEW c \in ready, c \in Ancestors[x], base \in Ancestors[c], c # base
      PROVE  \A a \in Ancestors[c] : f[a] # Nil
  BY <1>2, <1>4, ReadyIsDiscovered, DiscoveredIsFound
<1>5. CASE f[base] = Nil
  <2>1. type = base
    BY <1>3, <1>5
  <2>2. base \in Ancestors[base]
    BY <1>1, AncestorCases DEF Known
  <2> QED BY <1>4, <1>5, <2>1, <2>2
<1>6. CASE f[base] # Nil
  <2>1. type = f[base] /\ type \in Class /\ Discovers(type, x, base)
    BY <1>1, <1>2, <1>3, <1>6, AnswersAreLast
  <2>2. \A d : Below(type, d) => f[d] = Nil
    BY <1>1, <1>2, <1>6, <2>1, AnswersAreLast
  <2>3. type \in ready /\ type \in Ancestors[x] /\ base \in Ancestors[type]
    BY <1>1, <2>1 DEF Discovers, Roots
  <2>4. ASSUME base \in Polymorphic, Bases[base] = <<>>,
               NEW c \in ready, c \in Ancestors[x], c # type, type \in Ancestors[c]
        PROVE  FALSE
    <3>1. c \in Known /\ base \in Ancestors[c]
      BY <1>1, <2>3, <2>4, AncestorsOrder DEF Known
    <3>2. PICK k \in Ancestors[c] : type \in Parents(k)
      BY <2>4, <3>1, AncestorsOrder
    <3>3. k \in ready /\ k \in Class
      BY <1>1, <3>2, ReadyAncestors
    <3>4. Below(type, k)
      <4>1. type \in RangeOf(Bases[k])
        BY <3>2, <3>3, HierarchyAssumption DEF Parents
      <4> QED BY <3>3, <4>1 DEF HierarchyKept, Below
    <3>5. c # base
      <4>1. type \in Known /\ Depth[type] \in Nat /\ Depth[c] \in Nat /\ Depth[base] \in Nat
        BY <1>1, <2>1, <3>1, DepthIs DEF Known
      <4>2. Depth[type] < Depth[c]
        BY <2>4, <3>1, AncestorsOrder
      <4>3. base = type \/ Depth[base] < Depth[type]
        BY <2>3, <4>1, AncestorsOrder
      <4> QED BY <2>4, <4>1, <4>2, <4>3
    <3>6. f[k] # Nil
      BY <1>4, <2>4, <3>1, <3>2, <3>5
    <3> QED BY <2>2, <3>4, <3>6
  <2> QED BY <2>3, <2>4
<1> QED BY <1>5, <1>6

\* The two ways to a type.
LEMMA InvTypesObjects == Inv /\ HierarchyKept => ObjectsTyped
<1> SUFFICES ASSUME Inv, HierarchyKept, NEW base \in ready, NEW x \in Known, base \in Ancestors[x],
                    NEW type, type = NewObjectType(x, base)
             PROVE  /\ type \in ready \cap Ancestors[x] /\ base \in Ancestors[type]
                    /\ base \in Polymorphic /\ Bases[base] = <<>> =>
                           ~ \E c \in ready \cap Ancestors[x] : c # type /\ type \in Ancestors[c]
  BY DEF ObjectsTyped, Known
<1>1. CASE x \in Class /\ TypeId("class", x) \in DOMAIN resolvers
  <2>1. type = x /\ x \in ready
    BY <1>1, TypeIdKnown DEF NewObjectType
  <2>2. ASSUME NEW c \in ready \cap Ancestors[x], c # x, x \in Ancestors[c]
        PROVE  FALSE
    <3>1. c \in Known
      BY AncestorCases
    <3>2. Depth[c] \in Nat /\ Depth[x] \in Nat
      BY <3>1, DepthIs
    <3>3. Depth[c] < Depth[x] /\ Depth[x] < Depth[c]
      BY <2>2, <3>1, AncestorsOrder
    <3> QED BY <3>2, <3>3
  <2> QED BY <2>1, <2>2, AncestorCases
<1>2. CASE ~(x \in Class /\ TypeId("class", x) \in DOMAIN resolvers)
  <2>1. type = ResolveType(x, base)
    BY <1>2 DEF NewObjectType
  <2> QED BY <2>1, ResolvedIsRight
<1> QED BY <1>1, <1>2

\* addClassInheritance adds an edge from each base.
LEMMA LinkedEdges ==
    ASSUME Inv, NEW c \in Class
    PROVE  RangeOf(Linked(c)) = RangeOf(classHierarchy) \cup {<<b, c>> : b \in RangeOf(Bases[c])}
<1>1. Bases[c] \in Seq(Class)
  BY ModuleInitAssumption
<1>2. PICK n \in Nat : n = Len(Bases[c]) /\ DOMAIN Bases[c] = 1..n
  BY <1>1, ItemsOf
<1>3. PICK s : s = [i \in DOMAIN Bases[c] |-> <<Bases[c][i], c>>]
  OBVIOUS
<1>4. s \in [1..n -> Class \X Class]
  BY <1>1, <1>2, <1>3, ItemsOf
<1>5. s \in Seq(Class \X Class) /\ Len(s) = n
  BY <1>2, <1>4, SequenceOf
<1>6. PICK h : h = classHierarchy
  OBVIOUS
<1>7. h \in Seq(Class \X Class)
  BY <1>6 DEF Inv, Stacked
<1>8. PICK m \in Nat : m = Len(h) /\ DOMAIN h = 1..m
  BY <1>7, ItemsOf
<1>9. PICK u : u = h \o s
  OBVIOUS
<1>10. u \in Seq(Class \X Class) /\ Joined(h, s, u)
  BY <1>5, <1>7, <1>9, Concatenation
<1>11. DOMAIN u = 1..(m + n)
  BY <1>5, <1>8, <1>10, ItemsOf DEF Joined
<1>12. /\ \A k \in 1..m : u[k] = h[k] /\ k \in DOMAIN u
       /\ \A k \in 1..n : u[m + k] = <<Bases[c][k], c>> /\ m + k \in DOMAIN u
  <2>1. /\ \A k \in 1..m : u[k] = h[k]
        /\ \A k \in 1..n : u[m + k] = s[k]
    BY <1>5, <1>8, <1>10 DEF Joined
  <2>2. \A k \in 1..n : s[k] = <<Bases[c][k], c>>
    BY <1>2, <1>3
  <2>3. /\ \A k \in 1..m : k \in 1..(m + n)
        /\ \A k \in 1..n : m + k \in 1..(m + n)
    OBVIOUS
  <2> QED BY <1>11, <2>1, <2>2, <2>3
<1>13. \A k \in DOMAIN u : k \in 1..m \/ \E j \in 1..n : k = m + j
  <2> SUFFICES ASSUME NEW k \in 1..(m + n), k \notin 1..m
               PROVE  \E j \in 1..n : k = m + j
    BY <1>11
  <2>1. k - m \in 1..n /\ k = m + (k - m)
    OBVIOUS
  <2> QED BY <2>1
<1>14. RangeOf(u) = RangeOf(h) \cup {<<b, c>> : b \in RangeOf(Bases[c])}
  <2>1. ASSUME NEW k \in DOMAIN u
        PROVE  u[k] \in RangeOf(h) \/ u[k] \in {<<b, c>> : b \in RangeOf(Bases[c])}
    <3>1. CASE k \in 1..m
      BY <1>8, <1>12, <3>1 DEF RangeOf
    <3>2. ASSUME NEW j \in 1..n, k = m + j
          PROVE  u[k] \in {<<b, c>> : b \in RangeOf(Bases[c])}
      <4>1. u[k] = <<Bases[c][j], c>> /\ Bases[c][j] \in RangeOf(Bases[c])
        BY <1>2, <1>12, <3>2 DEF RangeOf
      <4> QED BY <4>1
    <3> QED BY <1>13, <3>1, <3>2
  <2>2. RangeOf(h) \subseteq RangeOf(u)
    BY <1>8, <1>12 DEF RangeOf
  <2>3. \A b \in RangeOf(Bases[c]) : <<b, c>> \in RangeOf(u)
    BY <1>2, <1>12 DEF RangeOf
  <2>4. \A p \in RangeOf(u) : \E k \in DOMAIN u : p = u[k]
    BY DEF RangeOf
  <2> QED BY <2>1, <2>2, <2>3, <2>4
<1>15. Linked(c) = u
  BY <1>3, <1>6, <1>9 DEF Linked
<1> QED BY <1>6, <1>14, <1>15

\* The hierarchy grows with each class, before it is ready.
LEMMA HierarchyStep == Inv /\ HierarchyKept /\ [Next]_vars => HierarchyKept'
<1> SUFFICES ASSUME Inv, HierarchyKept, [Next]_vars PROVE HierarchyKept'
  OBVIOUS
<1>1. CASE UNCHANGED <<ready, classHierarchy, discovery>>
  BY <1>1 DEF HierarchyKept
<1>2. CASE ClassUnready
  <2>1. PICK c \in Class : c = Current.of
    BY <1>2, ClassAt DEF ClassUnready
  <2>2. classHierarchy' = Linked(c) /\ UNCHANGED <<ready, discovery>>
    BY <1>2, <2>1 DEF ClassUnready
  <2>3. RangeOf(classHierarchy') = RangeOf(classHierarchy) \cup {<<b, c>> : b \in RangeOf(Bases[c])}
    BY <2>2, LinkedEdges
  <2> QED BY <2>2, <2>3 DEF HierarchyKept
<1>3. CASE ClassReady
  <2>1. PICK c \in Class : c = Current.of
    BY <1>3, ClassAt DEF ClassReady
  <2>2. /\ classHierarchy' = Linked(c) /\ ready' = ready \cup {c}
        /\ discovery' = IF c \in Polymorphic /\ Bases[c] # <<>> THEN discovery \cup {c} ELSE discovery
    BY <1>3, <2>1 DEF ClassReady
  <2>3. RangeOf(classHierarchy') = RangeOf(classHierarchy) \cup {<<b, c>> : b \in RangeOf(Bases[c])}
    BY <2>2, LinkedEdges
  <2>4. \A d \in ready' \cap Polymorphic : Bases[d] # <<>> => d \in discovery'
    BY <2>2 DEF HierarchyKept
  <2>5. \A p \in RangeOf(classHierarchy') : p[1] \in RangeOf(Bases[p[2]])
    BY <2>3 DEF HierarchyKept
  <2>6. \A d \in ready' : \A b \in RangeOf(Bases[d]) : <<b, d>> \in RangeOf(classHierarchy')
    BY <2>2, <2>3 DEF HierarchyKept
  <2> QED BY <2>4, <2>5, <2>6 DEF HierarchyKept
<1>4. CASE Next /\ ~ClassUnready /\ ~ClassReady
  <2>1. UNCHANGED typeVars \/ GlobalEnum
    BY <1>4 DEF Next, Import, RequireLoads, RequireFound, RequireFails, Create, Register, Finish,
                ClassCrashes, ToPython, TpNew, Release
  <2> QED BY <1>1, <2>1 DEF typeVars, GlobalEnum
<1>5. CASE UNCHANGED vars
  BY <1>1, <1>5 DEF vars, typeVars
<1> QED BY <1>2, <1>3, <1>4, <1>5

-----------------------------------------------------------------------------
(* The theorems.                                                           *)

\* Before any import there is nothing to keep.
LEMMA InitInv == Init => Inv
<1> SUFFICES ASSUME Init PROVE Inv
  OBVIOUS
<1>1. MaxRefs \in Nat
  BY ModuleInitAssumption
<1>2. TypeOK
  <2>1. RangeOf(classHierarchy) = {} /\ RangeOf(resolvers) = {}
    BY DEF Init, RangeOf
  <2>2. count \in [Item -> Int] /\ refs \in [Item -> 0..MaxRefs] /\ behaviour \in [Class -> -2..1]
    BY <1>1 DEF Init
  <2>3. module \in [Module -> {"absent", "created", "loaded"}]
    BY DEF Init
  <2>4. DOMAIN imports = {}
    BY DEF Init
  <2>5. /\ process = "running" /\ pending = FALSE /\ moduleTypes = {} /\ api = {} /\ types = {}
        /\ ready = {} /\ discovery = {} /\ enums = {}
    BY DEF Init
  <2> QED BY <2>1, <2>2, <2>3, <2>4, <2>5 DEF TypeOK
<1>3. Stacked
  BY DEF Init, Stacked
<1>4. Progress
  BY DEF Init, Progress, Passed
<1>5. Loaded
  BY DEF Init, Loaded
<1>6. MadeBySteps
  BY DEF Init, MadeBySteps
<1>7. NamesKnown
  BY DEF Init, NamesKnown
<1>8. RefsCounted
  BY DEF Init, RefsCounted, ItemsLive
<1> QED BY <1>2, <1>3, <1>4, <1>5, <1>6, <1>7, <1>8 DEF Inv

\* Steps that change nothing.
LEMMA StutterInv == Inv /\ UNCHANGED vars => Inv'
<1> SUFFICES ASSUME Inv, UNCHANGED vars PROVE Inv'
  OBVIOUS
<1>1. UNCHANGED <<importVars, typeVars, enums>> /\ UNCHANGED <<count, refs, made, enums>>
  BY DEF vars, enumVars, pythonVars
<1>2. count' \in [Item -> Int] /\ refs' \in [Item -> 0..MaxRefs]
  BY <1>1 DEF Inv, TypeOK
<1>3. RefsCounted'
  BY <1>1 DEF Inv, RefsCounted, ItemsLive
<1> QED BY <1>1, <1>2, <1>3, OnlyPython

\* Whatever modules are imported in whatever order, and whatever fails: an
\* initialisation that goes on without an error has achieved what each of its
\* steps was for, modules wait for those that they require only, classes and
\* enums are made once, and their names lead to them (the initialisation
\* functions that cppgenerator.cpp writes, with Module::import, createTypeResolver
\* and the enum functions of libshiboken).
THEOREM Inductive == Spec => []Inv
<1>1. Init => Inv
  BY InitInv
<1>2. Inv /\ [Next]_vars => Inv'
  <2> SUFFICES ASSUME Inv, [Next]_vars PROVE Inv'
    OBVIOUS
  <2>1. CASE Import \/ RequireLoads \/ RequireFound \/ RequireFails
    BY <2>1, ImportStep, RequireLoadsStep, RequireFoundStep, RequireFailsStep
  <2>2. CASE Create \/ Register \/ Finish
    BY <2>2, CreateStep, RegisterStep, FinishStep
  <2>3. CASE ClassCrashes \/ ClassUnready \/ ClassReady \/ GlobalEnum
    BY <2>3, ClassCrashesStep, ClassUnreadyStep, ClassReadyStep, GlobalEnumStep
  <2>4. CASE ToPython \/ TpNew \/ Release
    BY <2>4, ToPythonStep, TpNewStep, ReleaseStep
  <2>5. CASE UNCHANGED vars
    BY <2>5, StutterInv
  <2> QED BY <2>1, <2>2, <2>3, <2>4, <2>5 DEF Next
<1> QED BY <1>1, <1>2, PTL DEF Spec

\* Python code only gets modules that it can use: when an import returns, the
\* classes of the module and their bases are ready, the modules that it requires
\* are found, and every name of a ready class leads to it, with the behaviour of
\* its kind (the ends of the functions that finishGeneration writes, where an
\* error is fatal, and createTypeResolver).
THEOREM ImportedIsUsable == Spec => []TypesFound
<1>1. Inv => TypesFound
  BY DEF Inv, Loaded, NamesKnown, TypesFound
<1> QED BY <1>1, Inductive, PTL

\* No item of an enum dies while Python code has references to it: the
\* dictionaries keep one, and each way to Python counts its own (createEnumItem,
\* getEnumItemFromValue, SbkEnum_tp_new).
THEOREM ItemsStay == Spec => []ItemsLive
<1>1. Inv => ItemsLive
  BY DEF Inv, RefsCounted
<1> QED BY <1>1, Inductive, PTL

\* An object gets the wrapper of the most derived of its classes that is ready,
\* while modules that define others are not imported or half initialised, and
\* never that of a class it is not of, for every hierarchy of classes (newObject,
\* resolveType, Graph::identifyType and the type discovery functions that
\* writeTypeDiscoveryFunction writes).
THEOREM ObjectsHaveTheirType == Spec => []ObjectsTyped
<1>1. Init => HierarchyKept
  BY DEF Init, HierarchyKept, RangeOf
<1>2. Inv /\ Inv' /\ HierarchyKept /\ [Next]_vars => HierarchyKept'
  BY HierarchyStep
<1>3. Inv /\ HierarchyKept => ObjectsTyped
  BY InvTypesObjects
<1>4. Spec => []HierarchyKept
  BY <1>1, <1>2, Inductive, PTL DEF Spec
<1> QED BY <1>3, <1>4, Inductive, PTL
=============================================================================
