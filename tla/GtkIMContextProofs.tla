-------------------------- MODULE GtkIMContextProofs --------------------------
(***************************************************************************)
(* The contexts of the GTK IM module under nested handlers, for every      *)
(* number of contexts, every set of factories and every depth of nesting.  *)
(*                                                                         *)
(* The lemmas say what an operation makes of the data (Good) and what it   *)
(* leaves on the stack (Stack, Num); the invariant joins the two.  The     *)
(* second half is about what the panel shows (Settles): what it will have  *)
(* made of all that was said (View), and what the handler under way has    *)
(* still to say (Settling).                                                *)
(***************************************************************************)
EXTENDS GtkIMContext, FiniteSetTheorems, FunctionTheorems, SequenceTheorems,
        WellFoundedInduction, TLAPS

Fields   == {"ics", "next", "inst", "def", "deff", "focus", "shared", "opened", "pc"}
PcFields == {"up", "ref", "cur", "trans", "wire"}
ICs      == [si : Insts \cup {NoInst}, on : BOOLEAN, shared : BOOLEAN]
InstRecs == [uuid : Uuids \cup {NoArg}, data : Ics \cup {NoIcid}]

\* The module's data, in the middle of any handler.
Gt(s) ==
  /\ DOMAIN s = Fields
  /\ s.ics \in [Ics -> ICs] /\ s.inst \in [Insts -> InstRecs]
  /\ s.next \in Nat /\ \A i \in Ics : i >= s.next => s.ics[i].si = NoInst
  /\ s.def \in Insts \cup {NoInst} /\ s.deff \in Uuids
  /\ s.focus \in Ics \cup {NoIcid} /\ s.shared \in BOOLEAN
  /\ DOMAIN s.pc = PcFields /\ s.pc.ref \in Nat /\ (s.pc.up \/ s.pc.ref = 0)

\* Unless the contexts share one, each has an instance of its own, which points
\* to it or to nothing.
Own(s) ==
  ~s.shared =>
    /\ s.def = NoInst
    /\ \A i, j \in Live(s) : s.ics[i].si = s.ics[j].si => i = j
    /\ \A i \in Live(s) : s.inst[s.ics[i].si].data \in {i, NoIcid}

Good(s) == Gt(s) /\ Own(s) /\ s.focus \in Live(s) \cup {NoIcid}

\* The contexts that exist are the same; nothing but a message was begun.
Keeps(s, t) == Good(t) /\ t.shared = s.shared /\ Live(t) = Live(s)
Quiet(s, t) ==
  /\ DOMAIN t = Fields
  /\ t.ics = s.ics /\ t.next = s.next /\ t.inst = s.inst /\ t.def = s.def
  /\ t.deff = s.deff /\ t.focus = s.focus /\ t.shared = s.shared
  /\ DOMAIN t.pc = PcFields /\ t.pc.up = s.pc.up /\ t.pc.ref = s.pc.ref

-----------------------------------------------------------------------------
(* Commands, references and the data around them.                          *)

LEMMA Constants ==
  /\ Ics \subseteq Nat \ {0} /\ NoIcid \notin Ics /\ NoInst \notin Insts
  /\ Insts \subseteq Nat \ {0} /\ MaxIc \in Nat
BY GtkAssumption DEF Ics, NoIcid, NoInst, Insts

LEMMA SameLive ==
  ASSUME NEW s, NEW t, t.ics = s.ics
  PROVE  Live(t) = Live(s)
BY DEF Live

LEMMA QuietGood ==
  ASSUME NEW s, NEW t, Good(s), Quiet(s, t)
  PROVE  Keeps(s, t)
<1>1. Live(t) = Live(s)  BY SameLive DEF Quiet
<1>2. Gt(t)  BY DEF Good, Gt, Quiet
<1>3. Own(t)  BY <1>1 DEF Good, Own, Quiet
<1>4. QED  BY <1>1, <1>2, <1>3 DEF Good, Keeps, Quiet

LEMMA QuietTrans ==
  ASSUME NEW s, NEW t, NEW r, Quiet(s, t), Quiet(t, r)
  PROVE  Quiet(s, r)
BY DEF Quiet

LEMMA QuietSelf ==
  ASSUME NEW s, Good(s)
  PROVE  Quiet(s, s)
BY DEF Quiet, Good, Gt

LEMMA KeepsTrans ==
  ASSUME NEW s, NEW t, NEW r, Keeps(s, t), Keeps(t, r)
  PROVE  Keeps(s, r)
BY DEF Keeps

LEMMA PutQuiet ==
  ASSUME NEW s, Good(s), NEW ic, NEW cmd, NEW arg
  PROVE  Quiet(s, Put(s, ic, cmd, arg)) /\ Good(Put(s, ic, cmd, arg))
<1> DEFINE p == put(s.pc, ic, cmd, arg)  t == Put(s, ic, cmd, arg)
<1>1. t = [s EXCEPT !.pc = p]  BY DEF Put
<1>2. DOMAIN p = DOMAIN s.pc /\ p.up = s.pc.up /\ p.ref = s.pc.ref
  BY DEF Good, Gt, put, PcFields
<1> HIDE DEF p, t
<1>3. /\ DOMAIN t = Fields /\ t.pc = p /\ t.ics = s.ics /\ t.next = s.next /\ t.inst = s.inst
      /\ t.def = s.def /\ t.deff = s.deff /\ t.focus = s.focus /\ t.shared = s.shared
  BY <1>1 DEF Good, Gt, Fields
<1>4. Quiet(s, t)  BY <1>2, <1>3 DEF Quiet, Good, Gt
<1>5. QED  BY <1>4, QuietGood DEF Keeps, t

\* A transaction is opened once more, or closed once more.
LEMMA PrepareGood ==
  ASSUME NEW s, Good(s), NEW ic
  PROVE  LET t == [s EXCEPT !.pc = prepare(@, ic)]
         IN  Keeps(s, t) /\ t.pc.ref <= s.pc.ref + 1 /\ t.focus = s.focus /\ t.ics = s.ics
             /\ t.next = s.next /\ t.inst = s.inst /\ t.def = s.def /\ t.deff = s.deff
<1> DEFINE p == prepare(s.pc, ic)  t == [s EXCEPT !.pc = prepare(@, ic)]
<1>1. t = [s EXCEPT !.pc = p]  OBVIOUS
<1>2. DOMAIN p = DOMAIN s.pc /\ p.up = s.pc.up /\ p.ref \in Nat /\ p.ref <= s.pc.ref + 1
      /\ (p.up \/ p.ref = 0)
  BY DEF Good, Gt, prepare, PcFields
<1> HIDE DEF p, t
<1>3. /\ DOMAIN t = Fields /\ t.pc = p /\ t.ics = s.ics /\ t.next = s.next /\ t.inst = s.inst
      /\ t.def = s.def /\ t.deff = s.deff /\ t.focus = s.focus /\ t.shared = s.shared
  BY <1>1 DEF Good, Gt, Fields
<1>4. Live(t) = Live(s)  BY <1>3, SameLive
<1>5. Gt(t)  BY <1>2, <1>3 DEF Good, Gt
<1>6. Own(t)  BY <1>3, <1>4 DEF Good, Own
<1>7. QED  BY <1>2, <1>3, <1>4, <1>5, <1>6 DEF Good, Keeps, t

LEMMA SendGood ==
  ASSUME NEW s, Good(s)
  PROVE  LET t == [s EXCEPT !.pc = send(@)]
         IN  Keeps(s, t) /\ (\A n \in Nat : s.pc.ref <= n + 1 => t.pc.ref <= n)
<1> DEFINE p == send(s.pc)  t == [s EXCEPT !.pc = send(@)]
<1>1. t = [s EXCEPT !.pc = p]  OBVIOUS
<1>2. DOMAIN p = DOMAIN s.pc /\ p.up = s.pc.up /\ p.ref \in Nat
      /\ (p.up \/ p.ref = 0) /\ \A n \in Nat : s.pc.ref <= n + 1 => p.ref <= n
  BY DEF Good, Gt, send, PcFields
<1> HIDE DEF p, t
<1>3. /\ DOMAIN t = Fields /\ t.pc = p /\ t.ics = s.ics /\ t.next = s.next /\ t.inst = s.inst
      /\ t.def = s.def /\ t.deff = s.deff /\ t.focus = s.focus /\ t.shared = s.shared
  BY <1>1 DEF Good, Gt, Fields
<1>4. Live(t) = Live(s)  BY <1>3, SameLive
<1>5. Gt(t)  BY <1>2, <1>3 DEF Good, Gt
<1>6. Own(t)  BY <1>3, <1>4 DEF Good, Own
<1>7. QED  BY <1>2, <1>3, <1>4, <1>5, <1>6 DEF Good, Keeps, t

-----------------------------------------------------------------------------
(* Instances.                                                              *)

\* A context without an instance leaves the name of one free.
LEMMA FreeIn ==
  ASSUME NEW s, s.ics \in [Ics -> ICs], NEW i \in Ics, s.ics[i].si = NoInst
  PROVE  Free(s) \in Insts /\ Free(s) \notin Held(s)
<1> DEFINE J == Ics \ {i}  f == [j \in J |-> s.ics[j].si]  T == {s.ics[j].si : j \in J}
           N == T \cup {s.def}
<1>1. IsFiniteSet(Ics) /\ Cardinality(Ics) = MaxIc
  BY Constants, FS_Interval DEF Ics
<1>2. IsFiniteSet(J) /\ Cardinality(J) = MaxIc - 1  BY <1>1, FS_RemoveElement
<1>3. IsFiniteSet(T) /\ Cardinality(T) <= MaxIc - 1
  <2>1. f \in [J -> T] /\ (\A y \in T : \E j \in J : f[j] = y)  OBVIOUS
  <2> HIDE DEF f, T, J
  <2>2. f \in Surjection(J, T)  BY <2>1, Fun_IsSurj
  <2>3. QED  BY <1>2, <2>2, FS_Surjection
<1>4. Cardinality(T) \in Nat  BY <1>3, FS_CardinalityType
<1>5. IsFiniteSet(N) /\ Cardinality(N) <= MaxIc
  <2> HIDE DEF T
  <2>1. IsFiniteSet(N)
        /\ Cardinality(N) = IF s.def \in T THEN Cardinality(T) ELSE Cardinality(T) + 1
    BY <1>3, FS_AddElement
  <2> HIDE DEF N
  <2>2. QED  BY <1>3, <1>4, <2>1, Constants
<1>6. IsFiniteSet(Insts) /\ Cardinality(Insts) = MaxIc + 1
  BY Constants, FS_Interval DEF Insts
<1>7. ~(Insts \subseteq N)
  <2> HIDE DEF N
  <2>1. SUFFICES ASSUME Insts \in SUBSET N PROVE FALSE  OBVIOUS
  <2>2. Cardinality(Insts) <= Cardinality(N)  BY <1>5, <2>1, FS_Subset
  <2>3. Cardinality(N) \in Nat  BY <1>5, FS_CardinalityType
  <2>4. QED  BY <1>5, <1>6, <2>2, <2>3, Constants
<1>8. PICK n \in Insts : n \notin N  BY <1>7
<1>9. n \notin Held(s)  BY <1>8, Constants DEF Held
<1>10. QED  BY <1>9 DEF Free

\* Only instances that nothing holds are collected.
LEMMA CollectGood ==
  ASSUME NEW s, Good(s)
  PROVE  Keeps(s, Collect(s)) /\ Collect(s).pc = s.pc /\ Collect(s).focus = s.focus
<1> DEFINE I == [n \in Insts |-> IF n \in Held(s) THEN s.inst[n] ELSE NoInstance]
           t == Collect(s)
<1>1. t = [s EXCEPT !.inst = I]  BY DEF Collect
<1>2. NoInstance \in InstRecs  BY DEF NoInstance, InstRecs
<1>3. I \in [Insts -> InstRecs]  BY <1>2 DEF Good, Gt
<1>4. \A i \in Live(s) : s.ics[i].si \in Insts \cap Held(s)
  BY DEF Good, Gt, ICs, Live, Held
<1>5. \A i \in Live(s) : I[s.ics[i].si] = s.inst[s.ics[i].si]  BY <1>4
<1> HIDE DEF I, t
<1>6. /\ DOMAIN t = Fields /\ t.pc = s.pc /\ t.ics = s.ics /\ t.next = s.next /\ t.inst = I
      /\ t.def = s.def /\ t.deff = s.deff /\ t.focus = s.focus /\ t.shared = s.shared
  BY <1>1 DEF Good, Gt, Fields
<1>7. Live(t) = Live(s)  BY <1>6, SameLive
<1>8. Gt(t)  BY <1>3, <1>6 DEF Good, Gt
<1>9. Own(t)  BY <1>5, <1>6, <1>7 DEF Good, Own
<1>10. QED  BY <1>6, <1>7, <1>8, <1>9 DEF Good, Keeps, t

\* An instance is pointed to the context that uses it.
LEMMA PointGood ==
  ASSUME NEW s, Good(s), NEW ic \in Live(s)
  PROVE  LET t == set_frontend_data(s, ic)
         IN  Keeps(s, t) /\ t.pc = s.pc /\ t.focus = s.focus /\ t.ics = s.ics
<1> DEFINE n == s.ics[ic].si  I == [s.inst EXCEPT ![n].data = ic]
           t == set_frontend_data(s, ic)
<1>1. t = [s EXCEPT !.inst = I]  BY DEF set_frontend_data
<1>2. ic \in Ics /\ n \in Insts  BY DEF Good, Gt, ICs, Live
<1>3. /\ I \in [Insts -> InstRecs] /\ I[n].data = ic
      /\ \A m \in Insts : m # n => I[m] = s.inst[m]
  <2>1. s.inst \in [Insts -> InstRecs]  BY DEF Good, Gt
  <2>2. [s.inst[n] EXCEPT !.data = ic] \in InstRecs
    BY <1>2, <2>1 DEF InstRecs
  <2>3. QED  BY <1>2, <2>1, <2>2 DEF InstRecs
<1>4. \A i \in Live(s) : s.ics[i].si \in Insts  BY DEF Good, Gt, ICs, Live
<1> HIDE DEF I, t
<1>5. /\ DOMAIN t = Fields /\ t.pc = s.pc /\ t.ics = s.ics /\ t.next = s.next /\ t.inst = I
      /\ t.def = s.def /\ t.deff = s.deff /\ t.focus = s.focus /\ t.shared = s.shared
  BY <1>1 DEF Good, Gt, Fields
<1>6. Live(t) = Live(s)  BY <1>5, SameLive
<1>7. Gt(t)  BY <1>3, <1>5 DEF Good, Gt
<1>8. Own(t)
  <2> SUFFICES ASSUME ~t.shared PROVE Own(t)  BY DEF Own
  <2>1. ~s.shared  BY <1>5
  <2>2. \A i, j \in Live(s) : s.ics[i].si = s.ics[j].si => i = j  BY <2>1 DEF Good, Own
  <2>3. \A i \in Live(s) : s.inst[s.ics[i].si].data \in {i, NoIcid} BY <2>1 DEF Good, Own
  <2>4. ASSUME NEW i \in Live(s) PROVE I[s.ics[i].si].data \in {i, NoIcid}
    <3>1. CASE i = ic  BY <1>3, <3>1
    <3>2. CASE i # ic
      <4>1. s.ics[i].si # n  BY <2>2, <3>2
      <4>2. QED  BY <1>3, <1>4, <2>3, <4>1
    <3>3. QED  BY <3>1, <3>2
  <2>5. s.def = NoInst  BY <2>1 DEF Good, Own
  <2>6. QED  BY <1>5, <1>6, <2>2, <2>4, <2>5 DEF Own
<1>9. QED  BY <1>5, <1>6, <1>7, <1>8 DEF Good, Keeps, t

\* A context is turned on or off.
LEMMA SwitchGood ==
  ASSUME NEW s, Good(s), NEW ic \in Live(s), NEW b \in BOOLEAN
  PROVE  LET t == [s EXCEPT !.ics[ic].on = b]
         IN  Keeps(s, t) /\ t.pc = s.pc /\ t.focus = s.focus
<1> DEFINE C == [s.ics EXCEPT ![ic].on = b]  t == [s EXCEPT !.ics[ic].on = b]
<1>1. t = [s EXCEPT !.ics = C]  OBVIOUS
<1>2. ic \in Ics /\ s.ics \in [Ics -> ICs]  BY DEF Good, Gt, Live
<1>3. [s.ics[ic] EXCEPT !.on = b] \in ICs /\ [s.ics[ic] EXCEPT !.on = b].si = s.ics[ic].si
  BY <1>2 DEF ICs
<1>4. C \in [Ics -> ICs] /\ \A i \in Ics : C[i].si = s.ics[i].si  BY <1>2, <1>3
<1> HIDE DEF C, t
<1>5. /\ DOMAIN t = Fields /\ t.pc = s.pc /\ t.ics = C /\ t.next = s.next /\ t.inst = s.inst
      /\ t.def = s.def /\ t.deff = s.deff /\ t.focus = s.focus /\ t.shared = s.shared
  BY <1>1 DEF Good, Gt, Fields
<1>6. Live(t) = Live(s)  BY <1>4, <1>5 DEF Live
<1>7. Gt(t)  BY <1>4, <1>5 DEF Good, Gt
<1>8. \A i \in Live(s) : i \in Ics  BY DEF Live
<1>9. Own(t)  BY <1>4, <1>5, <1>6, <1>8 DEF Good, Own
<1>10. QED  BY <1>5, <1>6, <1>7, <1>9 DEF Good, Keeps, t

\* A context takes the shared instance, made anew or not.
LEMMA TakeSharedGood ==
  ASSUME NEW s, Good(s), NEW ic \in Live(s), s.shared
  PROVE  LET t == TakeShared(s, ic)
         IN  Keeps(s, t) /\ t.pc = s.pc /\ t.focus = s.focus
<1> DEFINE s0 == [s EXCEPT !.def = NoInst, !.ics[ic].si = NoInst]
           n  == Free(s0)
           keep == s.def # NoInst /\ s.inst[s.def].uuid = s.deff
           s1 == IF keep THEN s ELSE [create_instance(s, n, s.deff) EXCEPT !.def = n]
           c  == [si |-> s1.def, shared |-> TRUE, on |-> Opened(s, s.ics[ic].on)]
           t  == TakeShared(s, ic)
<1>1. t = [s1 EXCEPT !.ics[ic] = c]  BY DEF TakeShared
<1>2. ic \in Ics /\ s.ics \in [Ics -> ICs] /\ s.ics[ic].si # NoInst  BY DEF Good, Gt, Live
<1>3. n \in Insts
  <2>1. s0.ics = [s.ics EXCEPT ![ic].si = NoInst]  BY DEF Good, Gt, Fields
  <2>2. s0.ics \in [Ics -> ICs] /\ s0.ics[ic].si = NoInst
    <3>1. [s.ics[ic] EXCEPT !.si = NoInst] \in ICs
          /\ [s.ics[ic] EXCEPT !.si = NoInst].si = NoInst  BY <1>2 DEF ICs
    <3>2. QED  BY <1>2, <2>1, <3>1
  <2> HIDE DEF s0
  <2>3. QED  BY <1>2, <2>2, FreeIn
<1> HIDE DEF n
<1>4. /\ DOMAIN s1 = Fields /\ s1.pc = s.pc /\ s1.ics = s.ics /\ s1.next = s.next
      /\ s1.inst \in [Insts -> InstRecs] /\ s1.def \in Insts /\ s1.deff = s.deff
      /\ s1.focus = s.focus /\ s1.shared = s.shared
  <2>1. CASE keep  BY <2>1 DEF Good, Gt
  <2>2. CASE ~keep
    <3> DEFINE e == [uuid |-> s.deff, data |-> NoIcid]  I == [s.inst EXCEPT ![n] = e]
    <3>1. s1 = [s EXCEPT !.inst = I, !.def = n]
      BY <2>2 DEF create_instance
    <3>2. e \in InstRecs  BY DEF InstRecs, Good, Gt
    <3>3. I \in [Insts -> InstRecs]  BY <3>2 DEF Good, Gt
    <3> HIDE DEF I, e, s1, keep
    <3>4. QED  BY <1>3, <3>1, <3>3 DEF Good, Gt, Fields
  <2>3. QED  BY <2>1, <2>2
<1> HIDE DEF s1
<1>5. Opened(s, s.ics[ic].on) \in BOOLEAN  BY <1>2 DEF Opened, ICs
<1>6. c \in ICs /\ c.si \in Insts /\ c.si # NoInst  BY <1>4, <1>5, Constants DEF ICs
<1> DEFINE C == [s.ics EXCEPT ![ic] = c]
<1>7. C \in [Ics -> ICs] /\ C[ic] = c /\ \A i \in Ics : i # ic => C[i] = s.ics[i]
  BY <1>2, <1>6
<1>8. t = [s1 EXCEPT !.ics = C]  BY <1>1, <1>4
<1> HIDE DEF c, C, t
<1>9. /\ DOMAIN t = Fields /\ t.pc = s.pc /\ t.ics = C /\ t.next = s.next /\ t.inst = s1.inst
      /\ t.def = s1.def /\ t.deff = s.deff /\ t.focus = s.focus /\ t.shared = s.shared
  BY <1>4, <1>8 DEF Fields
<1>10. Live(t) = Live(s)  BY <1>2, <1>6, <1>7, <1>9 DEF Live
<1>11. ~(ic >= s.next)  BY <1>2 DEF Good, Gt
<1>12. \A i \in Ics : i >= t.next => t.ics[i].si = NoInst
  BY <1>7, <1>9, <1>11 DEF Good, Gt
<1>13. Gt(t)  BY <1>4, <1>7, <1>9, <1>12 DEF Good, Gt
<1>14. Own(t)  BY <1>9 DEF Own
<1>15. QED  BY <1>9, <1>10, <1>13, <1>14 DEF Good, Keeps, t

\* A context gets a new instance in place of its own.
LEMMA ReplaceGood ==
  ASSUME NEW s, Good(s), NEW ic \in Live(s), NEW u \in Uuids
  PROVE  LET t == ReplaceInstance(s, ic, u)
         IN  Keeps(s, t) /\ t.pc.ref = s.pc.ref
<1> DEFINE s0 == [s EXCEPT !.ics[ic].si = NoInst]
           n  == Free(s0)
           s1 == [create_instance(s, n, u) EXCEPT !.ics[ic].si = n, !.deff = u]
           s2 == set_frontend_data(s1, ic)
<1>1. ReplaceInstance(s, ic, u) = Put(s2, ic, "REGISTER", u)  BY DEF ReplaceInstance
<1>2. ic \in Ics /\ s.ics \in [Ics -> ICs] /\ s.ics[ic].si # NoInst  BY DEF Good, Gt, Live
<1>3. n \in Insts /\ n # s.def /\ \A i \in Ics : i # ic => s.ics[i].si # n
  <2>1. s0.ics = [s.ics EXCEPT ![ic].si = NoInst] /\ s0.def = s.def  BY DEF Good, Gt, Fields
  <2>2. s0.ics \in [Ics -> ICs] /\ s0.ics[ic].si = NoInst
        /\ \A i \in Ics : i # ic => s0.ics[i] = s.ics[i]
    <3>1. [s.ics[ic] EXCEPT !.si = NoInst] \in ICs
          /\ [s.ics[ic] EXCEPT !.si = NoInst].si = NoInst  BY <1>2 DEF ICs
    <3>2. QED  BY <1>2, <2>1, <3>1
  <2> HIDE DEF s0
  <2>3. n \in Insts /\ n \notin Held(s0)  BY <1>2, <2>2, FreeIn
  <2> HIDE DEF n
  <2>4. QED  BY <2>1, <2>2, <2>3 DEF Held
<1> HIDE DEF n
<1> DEFINE e == [uuid |-> u, data |-> NoIcid]  I == [s.inst EXCEPT ![n] = e]
           C == [s.ics EXCEPT ![ic].si = n]
<1>4. s1 = [s EXCEPT !.inst = I, !.ics = C, !.deff = u]
  BY DEF create_instance, Good, Gt, Fields
<1>5. e \in InstRecs /\ e.data = NoIcid  BY DEF InstRecs
<1>6. I \in [Insts -> InstRecs] /\ I[n] = e /\ \A m \in Insts : m # n => I[m] = s.inst[m]
  BY <1>3, <1>5 DEF Good, Gt
<1>7. [s.ics[ic] EXCEPT !.si = n] \in ICs /\ [s.ics[ic] EXCEPT !.si = n].si = n
  BY <1>2, <1>3 DEF ICs
<1>8. C \in [Ics -> ICs] /\ C[ic].si = n /\ \A i \in Ics : i # ic => C[i] = s.ics[i]
  BY <1>2, <1>7
<1> HIDE DEF s1, I, C, e
<1>9. /\ DOMAIN s1 = Fields /\ s1.pc = s.pc /\ s1.ics = C /\ s1.next = s.next
      /\ s1.inst = I /\ s1.def = s.def /\ s1.deff = u
      /\ s1.focus = s.focus /\ s1.shared = s.shared
  BY <1>4 DEF Good, Gt, Fields
<1>10. Live(s1) = Live(s)  BY <1>2, <1>3, <1>8, <1>9, Constants DEF Live
<1>11. Gt(s1)
  <2>1. ~(ic >= s.next)  BY <1>2 DEF Good, Gt
  <2>2. \A i \in Ics : i >= s1.next => s1.ics[i].si = NoInst
    BY <1>8, <1>9, <2>1 DEF Good, Gt
  <2>3. QED  BY <1>6, <1>8, <1>9, <2>2 DEF Good, Gt
<1>12. Own(s1)
  <2> SUFFICES ASSUME ~s1.shared PROVE Own(s1)  BY DEF Own
  <2>1. /\ s.def = NoInst
        /\ \A i, j \in Live(s) : s.ics[i].si = s.ics[j].si => i = j
        /\ \A i \in Live(s) : s.inst[s.ics[i].si].data \in {i, NoIcid}
    BY <1>9 DEF Good, Own
  <2>2. \A i \in Live(s) : i \in Ics /\ s.ics[i].si \in Insts  BY DEF Good, Gt, ICs, Live
  <2>3. \A i \in Live(s) : i # ic => I[C[i].si].data \in {i, NoIcid}
    BY <1>3, <1>6, <1>8, <2>1, <2>2
  <2>4. I[C[ic].si].data = NoIcid  BY <1>5, <1>6, <1>8
  <2>5. \A i, j \in Live(s) : C[i].si = C[j].si => i = j  BY <1>3, <1>8, <2>1, <2>2
  <2>6. QED  BY <1>9, <1>10, <2>1, <2>3, <2>4, <2>5 DEF Own
<1>13. Good(s1) /\ Keeps(s, s1)  BY <1>9, <1>10, <1>11, <1>12 DEF Good, Keeps
<1>14. Keeps(s1, s2) /\ s2.pc = s1.pc  BY <1>10, <1>13, PointGood
<1> HIDE DEF s2
<1>15. Good(s2)  BY <1>14 DEF Keeps
<1>16. Quiet(s2, Put(s2, ic, "REGISTER", u))  BY <1>15, PutQuiet
<1>17. Keeps(s2, Put(s2, ic, "REGISTER", u))  BY <1>15, <1>16, QuietGood
<1>18. Keeps(s, Put(s2, ic, "REGISTER", u))  BY <1>13, <1>14, <1>17, KeepsTrans
<1>19. Put(s2, ic, "REGISTER", u).pc.ref = s.pc.ref  BY <1>9, <1>14, <1>16 DEF Quiet
<1>20. QED  BY <1>1, <1>18, <1>19

-----------------------------------------------------------------------------
(* Operations on the data.                                                 *)

\* The focus moves to a context that exists, or to none.
LEMMA FocusGood ==
  ASSUME NEW s, Good(s), NEW f \in Live(s) \cup {NoIcid}
  PROVE  LET t == [s EXCEPT !.focus = f]
         IN  Keeps(s, t) /\ t.pc = s.pc /\ t.focus = f
<1> DEFINE t == [s EXCEPT !.focus = f]
<1>1. /\ DOMAIN t = Fields /\ t.pc = s.pc /\ t.ics = s.ics /\ t.next = s.next /\ t.inst = s.inst
      /\ t.def = s.def /\ t.deff = s.deff /\ t.focus = f /\ t.shared = s.shared
  BY DEF Good, Gt, Fields
<1>2. f \in Ics \cup {NoIcid}  BY DEF Live
<1> HIDE DEF t
<1>3. Live(t) = Live(s)  BY <1>1, SameLive
<1>4. Gt(t)  BY <1>1, <1>2 DEF Good, Gt
<1>5. Own(t)  BY <1>1, <1>3 DEF Good, Own
<1>6. QED  BY <1>1, <1>3, <1>4, <1>5 DEF Good, Keeps, t

LEMMA TwoPuts ==
  ASSUME NEW s, Good(s), NEW i, NEW c, NEW a, NEW j, NEW d, NEW b
  PROVE  LET t == Put(Put(s, i, c, a), j, d, b)
         IN  Quiet(s, t) /\ Good(t)
BY PutQuiet, QuietTrans

LEMMA InfoQuiet ==
  ASSUME NEW s, Good(s), NEW ic
  PROVE  LET t == panel_req_update_factory_info(s, ic)
         IN  Quiet(s, t) /\ Good(t)
BY PutQuiet, QuietSelf DEF panel_req_update_factory_info

LEMMA ShowQuiet ==
  ASSUME NEW s, Good(s), NEW ic
  PROVE  Quiet(s, Show(s, ic)) /\ Good(Show(s, ic))
<1> DEFINE s0 == Put(panel_req_focus_in(s, ic), ic, "UPDATE", NoArg)
           s1 == panel_req_update_factory_info(s0, ic)
<1>1. Quiet(s, s0) /\ Good(s0)  BY TwoPuts DEF panel_req_focus_in
<1> HIDE DEF s0
<1>2. Quiet(s0, s1) /\ Good(s1)  BY <1>1, InfoQuiet
<1>3. Show(s, ic) = IF s.ics[ic].on
                      THEN Put(Put(s1, ic, "TURN_ON", NoArg), ic, "UPDATE", NoArg)
                      ELSE Put(s1, ic, "TURN_OFF", NoArg)
  BY DEF Show, s0
<1> HIDE DEF s1
<1>4. Quiet(s1, Show(s, ic)) /\ Good(Show(s, ic))  BY <1>2, <1>3, TwoPuts, PutQuiet
<1>5. QED  BY <1>1, <1>2, <1>4, QuietTrans

LEMMA TurnOnGood ==
  ASSUME NEW s, Good(s), NEW ic \in Live(s)
  PROVE  Keeps(s, turn_on(s, ic)) /\ turn_on(s, ic).pc.ref = s.pc.ref
<1> DEFINE s1 == [s EXCEPT !.ics[ic].on = TRUE]
<1>1. Keeps(s, s1) /\ Good(s1) /\ s1.pc = s.pc  BY SwitchGood DEF Keeps
<1>2. turn_on(s, ic) = IF s.ics[ic].on THEN s ELSE IF s.focus = ic THEN Show(s1, ic) ELSE s1
  BY DEF turn_on
<1> HIDE DEF s1
<1>3. Quiet(s1, Show(s1, ic))  BY <1>1, ShowQuiet
<1>4. Keeps(s1, Show(s1, ic)) /\ Show(s1, ic).pc.ref = s.pc.ref
  BY <1>1, <1>3, QuietGood DEF Quiet
<1>5. Keeps(s, Show(s1, ic))  BY <1>1, <1>4, KeepsTrans
<1>6. Keeps(s, s)  BY DEF Keeps
<1>7. QED  BY <1>1, <1>2, <1>4, <1>5, <1>6

LEMMA ShareGood ==
  ASSUME NEW s, Good(s), NEW ic \in Live(s)
  PROVE  Keeps(s, Share(s, ic)) /\ Share(s, ic).pc = s.pc
<1>1. CASE ~s.shared  BY <1>1 DEF Share, Keeps
<1>2. CASE s.shared
  <2> DEFINE n == s.ics[ic].si  C == [s.ics EXCEPT ![ic].shared = TRUE]  t == Share(s, ic)
  <2>1. t = [s EXCEPT !.def = n, !.ics = C]  BY <1>2 DEF Share, Good, Gt, Fields
  <2>2. ic \in Ics /\ s.ics \in [Ics -> ICs] /\ n \in Insts
    BY DEF Good, Gt, Live, ICs
  <2>3. [s.ics[ic] EXCEPT !.shared = TRUE] \in ICs /\ [s.ics[ic] EXCEPT !.shared = TRUE].si = n
    BY <2>2 DEF ICs
  <2>4. C \in [Ics -> ICs] /\ \A i \in Ics : C[i].si = s.ics[i].si  BY <2>2, <2>3
  <2> HIDE DEF n, C, t
  <2>5. /\ DOMAIN t = Fields /\ t.pc = s.pc /\ t.ics = C /\ t.next = s.next /\ t.inst = s.inst
        /\ t.def = n /\ t.deff = s.deff /\ t.focus = s.focus /\ t.shared = s.shared
    BY <2>1 DEF Good, Gt, Fields
  <2>6. Live(t) = Live(s)  BY <2>4, <2>5 DEF Live
  <2>7. Gt(t)  BY <2>2, <2>4, <2>5 DEF Good, Gt
  <2>8. Own(t)  BY <1>2, <2>5 DEF Own
  <2>9. QED  BY <2>5, <2>6, <2>7, <2>8 DEF Good, Keeps, t
<1>3. QED  BY <1>1, <1>2

\* The end of focus_out, with its send ().
LEMMA OutGood ==
  ASSUME NEW s, Good(s), NEW ic
  PROVE  /\ Keeps(s, Out(s, ic))
         /\ \A n \in Nat : s.pc.ref <= n + 1 => Out(s, ic).pc.ref <= n
<1> DEFINE s1 == Put(Put(s, ic, "TURN_OFF", NoArg), ic, "FOCUS_OUT", NoArg)
           s2 == [s1 EXCEPT !.pc = send(@)]
           t  == [s2 EXCEPT !.focus = NoIcid]
<1>1. Quiet(s, s1) /\ Good(s1)  BY TwoPuts
<1>2. Out(s, ic) = [s1 EXCEPT !.pc = send(@), !.focus = NoIcid]  BY DEF Out
<1>3. Keeps(s, s1) /\ s1.pc.ref = s.pc.ref  BY <1>1, QuietGood DEF Quiet
<1> HIDE DEF s1
<1>4. Out(s, ic) = t  BY <1>1, <1>2 DEF Good, Gt, Fields
<1>5. Keeps(s1, s2) /\ Good(s2) /\ (\A n \in Nat : s1.pc.ref <= n + 1 => s2.pc.ref <= n)
  BY <1>1, SendGood DEF Keeps
<1> HIDE DEF s2
<1>6. Keeps(s2, t) /\ t.pc = s2.pc  BY <1>5, FocusGood
<1> HIDE DEF t
<1>7. Keeps(s, t)  BY <1>3, <1>5, <1>6, KeepsTrans
<1>8. QED  BY <1>3, <1>4, <1>5, <1>6, <1>7

\* A context dies: nothing else does, and nothing has the focus that is gone.
LEMMA DyingGood ==
  ASSUME NEW s, Good(s), NEW ic \in Live(s)
  PROVE  LET t == Dying(s, ic)
         IN  /\ Good(t) /\ t.shared = s.shared /\ Live(t) = Live(s) \ {ic}
             /\ \A n \in Nat : s.pc.ref <= n + 1 => t.pc.ref <= n
<1> DEFINE s1 == IF s.ics[ic].si # s.def /\ Data(s, ic) = ic THEN Put(s, ic, "HELPER", NoArg)
                 ELSE s
           s2 == IF s.focus = ic
                   THEN Put(Put(s1, ic, "TURN_OFF", NoArg), ic, "FOCUS_OUT", NoArg)
                 ELSE s1
           s3 == Put(s2, ic, "REMOVE", NoArg)
           s4 == [s3 EXCEPT !.pc = send(@)]
           f  == IF s3.focus = ic THEN NoIcid ELSE s3.focus
           t  == Dying(s, ic)
<1>1. Quiet(s, s1) /\ Good(s1)  BY PutQuiet, QuietSelf
<1>2. t = [s3 EXCEPT !.pc = send(@), !.ics[ic] = NoIC, !.focus = IF @ = ic THEN NoIcid ELSE @]
  BY DEF Dying
<1> HIDE DEF s1, t
<1>3. Quiet(s1, s2) /\ Good(s2)  BY <1>1, TwoPuts, QuietSelf
<1> HIDE DEF s2
<1>4. Quiet(s2, s3) /\ Good(s3)  BY <1>3, PutQuiet
<1>5. Quiet(s, s3)  BY <1>1, <1>3, <1>4, QuietTrans
<1> HIDE DEF s3
<1>6. Keeps(s3, s4) /\ Good(s4) /\ (\A n \in Nat : s3.pc.ref <= n + 1 => s4.pc.ref <= n)
  BY <1>4, SendGood DEF Keeps
<1>7. s3.pc.ref = s.pc.ref /\ s3.ics = s.ics /\ s3.focus = s.focus /\ s3.shared = s.shared
  BY <1>5 DEF Quiet
<1>8. s4.ics = s3.ics /\ s4.focus = s3.focus /\ s4.shared = s3.shared
  BY <1>4 DEF Good, Gt, Fields
<1> DEFINE C == [s4.ics EXCEPT ![ic] = NoIC]
<1>9. t = [s4 EXCEPT !.ics = C, !.focus = f]
  BY <1>2, <1>4, <1>8 DEF Good, Gt, Fields
<1>10. NoIC \in ICs /\ NoIC.si = NoInst  BY DEF NoIC, ICs
<1>11. ic \in Ics /\ s4.ics \in [Ics -> ICs]  BY <1>6 DEF Good, Gt, Live
<1>12. /\ C \in [Ics -> ICs] /\ C[ic].si = NoInst
       /\ \A i \in Ics : i # ic => C[i] = s4.ics[i]
  BY <1>10, <1>11
<1>13. f \in Live(s) \cup {NoIcid} /\ f # ic  BY <1>7, <1>11, Constants DEF Good
<1>14. Live(s4) = Live(s)  BY <1>7, <1>8, SameLive
<1> HIDE DEF s4, C, f
<1>15. /\ DOMAIN t = Fields /\ t.pc = s4.pc /\ t.ics = C /\ t.next = s4.next /\ t.inst = s4.inst
       /\ t.def = s4.def /\ t.deff = s4.deff /\ t.focus = f /\ t.shared = s4.shared
  BY <1>6, <1>9 DEF Good, Gt, Fields
<1>16. Live(t) = Live(s) \ {ic}  BY <1>11, <1>12, <1>14, <1>15 DEF Live
<1>17. Gt(t)
  <2>1. f \in Ics \cup {NoIcid}  BY <1>13 DEF Live
  <2>2. \A i \in Ics : i >= t.next => t.ics[i].si = NoInst
    BY <1>6, <1>12, <1>15 DEF Good, Gt
  <2>3. QED  BY <1>6, <1>12, <1>15, <2>1, <2>2 DEF Good, Gt
<1>18. Own(t)
  <2> SUFFICES ASSUME ~t.shared PROVE Own(t)  BY DEF Own
  <2>1. /\ s4.def = NoInst
        /\ \A i, j \in Live(s) : s4.ics[i].si = s4.ics[j].si => i = j
        /\ \A i \in Live(s) : s4.inst[s4.ics[i].si].data \in {i, NoIcid}
    BY <1>6, <1>14, <1>15 DEF Good, Own
  <2>2. \A i \in Live(t) : i \in Live(s) /\ C[i] = s4.ics[i]  BY <1>12, <1>16 DEF Live
  <2>3. QED  BY <1>15, <2>1, <2>2 DEF Own
<1>19. QED  BY <1>6, <1>7, <1>8, <1>13, <1>15, <1>16, <1>17, <1>18 DEF Good, t

\* The end of focus_in, up to the call of the shared instance.
LEMMA TakeFocusGood ==
  ASSUME NEW s, Good(s), NEW ic \in Live(s)
  PROVE  LET t == take_focus(s, ic)
         IN  Keeps(s, t) /\ t.pc.ref <= s.pc.ref + 1
<1> DEFINE s0 == [s EXCEPT !.focus = ic]
           s1 == [s0 EXCEPT !.pc = prepare(@, ic)]
           s2 == IF s.shared THEN TakeShared(s1, ic) ELSE s1
           s3 == set_frontend_data(s2, ic)
           t  == take_focus(s, ic)
<1>1. t = IF s.shared THEN Put(s3, ic, "REGISTER", UuidOf(s3, ic)) ELSE s3
  <2>1. [s EXCEPT !.focus = ic, !.pc = prepare(@, ic)] = s1  BY DEF Good, Gt, Fields
  <2>2. QED  BY <2>1 DEF take_focus
<1> HIDE DEF t
<1>2. Keeps(s, s0) /\ s0.pc = s.pc /\ Good(s0)  BY FocusGood DEF Keeps
<1> HIDE DEF s0
<1>3. Keeps(s0, s1) /\ s1.pc.ref <= s0.pc.ref + 1 /\ Good(s1)  BY <1>2, PrepareGood DEF Keeps
<1> HIDE DEF s1
<1>4. Keeps(s, s1)  BY <1>2, <1>3, KeepsTrans
<1>5. ic \in Live(s1) /\ s1.shared = s.shared  BY <1>4 DEF Keeps
<1>6. Keeps(s1, s2) /\ s2.pc = s1.pc
  <2>1. CASE s.shared  BY <1>3, <1>5, <2>1, TakeSharedGood
  <2>2. CASE ~s.shared  BY <1>3, <2>2 DEF Keeps
  <2>3. QED  BY <2>1, <2>2
<1>7. Good(s2) /\ ic \in Live(s2)  BY <1>5, <1>6 DEF Keeps
<1> HIDE DEF s2
<1>8. Keeps(s2, s3) /\ s3.pc = s2.pc  BY <1>7, PointGood
<1>9. Good(s3)  BY <1>8 DEF Keeps
<1> HIDE DEF s3
<1>10. Quiet(s3, t)  BY <1>1, <1>9, PutQuiet, QuietSelf
<1>11. Keeps(s3, t) /\ t.pc.ref = s3.pc.ref  BY <1>9, <1>10, QuietGood DEF Quiet
<1>12. Keeps(s, t)  BY <1>4, <1>6, <1>8, <1>11, KeepsTrans
<1>13. QED  BY <1>2, <1>3, <1>6, <1>8, <1>11, <1>12 DEF t

\* What an instance emits goes to the focused context.
LEMMA EmitQuiet ==
  ASSUME NEW s, Good(s), NEW o, o.f = "emit"
  PROVE  Quiet(s, Run(s, o))
<1>1. Run(s, o) = IF s.focus = Data(s, o.ic) /\ s.focus # NoIcid
                    THEN Put(s, s.focus, "UPDATE", NoArg) ELSE s
  BY DEF Run
<1>2. QED  BY <1>1, PutQuiet, QuietSelf

-----------------------------------------------------------------------------
(* Every operation: what it makes of the data and of the references.       *)

Payers == {"send", "out", "dying"}
Names  == Payers \cup
  {"focus_in", "focus_out", "reset", "finalize", "take_focus", "show", "turn_on", "turn_off",
   "turned_off", "record", "key", "change", "replace", "share", "call", "engine", "fallback",
   "emit", "ret"}
Args   == Uuids \cup {NoArg, "on", "off"} \cup HotKeys

\* An operation gets arguments of its kind.
Right(o) ==
  /\ o.f = "replace" => o.u \in Uuids
  /\ o.f = "change"  => o.u \in Uuids \cup {NoArg}
  /\ o.f = "key"     => o.u \in HotKeys \cup Uuids
Ops == {o \in [f : Names, ic : Ics, u : Args] : Right(o)}

Gone(o) == IF o.f = "dying" THEN {o.ic} ELSE {}
Paid(o) == IF o.f \in Payers THEN 1 ELSE 0
Opens(s, o) ==
  IF o.f \in {"finalize", "take_focus"} \/ (o.f \in {"focus_out", "reset"} /\ s.focus = o.ic)
    THEN 1 ELSE 0

\* From s to t operation o was run.
Ran(s, o, t) ==
  /\ Good(t) /\ t.shared = s.shared /\ Live(t) = Live(s) \ Gone(o)
  /\ \A n \in Nat : s.pc.ref <= n + Paid(o) => t.pc.ref <= n + Opens(s, o)

LEMMA KeepsRan ==
  ASSUME NEW s, Good(s), NEW o, NEW t, Keeps(s, t), o.f # "dying", t.pc.ref <= s.pc.ref,
         o.f \notin Payers
  PROVE  Ran(s, o, t)
<1>1. Paid(o) = 0 /\ Opens(s, o) \in {0, 1}  BY DEF Paid, Opens
<1>2. s.pc.ref \in Nat /\ t.pc.ref \in Nat  BY DEF Keeps, Good, Gt
<1>3. Gone(o) = {}  BY DEF Gone
<1>4. \A n \in Nat : s.pc.ref <= n + Paid(o) => t.pc.ref <= n + Opens(s, o)
  BY <1>1, <1>2
<1>5. QED  BY <1>3, <1>4 DEF Ran, Keeps

LEMMA RunRan ==
  ASSUME NEW s, Good(s), NEW o \in Ops, o.f # "ret" => o.ic \in Live(s)
  PROVE  Ran(s, o, Run(s, o))
<1> DEFINE t == Run(s, o)
<1>a. s.pc.ref \in Nat  BY DEF Good, Gt
<1>b. Keeps(s, s)  BY DEF Keeps
<1>c. o.f \in Names /\ Right(o)  BY DEF Ops
<1>1. CASE o.f = "finalize" \/ (o.f \in {"focus_out", "reset"} /\ s.focus = o.ic)
  <2>1. t = [s EXCEPT !.pc = prepare(@, o.ic)]  BY <1>1 DEF Run
  <2>2. Keeps(s, t) /\ t.pc.ref <= s.pc.ref + 1  BY <2>1, PrepareGood
  <2>3. Opens(s, o) = 1 /\ Paid(o) = 0 /\ Gone(o) = {}  BY <1>1 DEF Opens, Paid, Gone, Payers
  <2>4. t.pc.ref \in Nat  BY <2>2 DEF Keeps, Good, Gt
  <2> HIDE DEF t
  <2>5. \A n \in Nat : s.pc.ref <= n + Paid(o) => t.pc.ref <= n + Opens(s, o)
    BY <1>a, <2>2, <2>3, <2>4
  <2>6. QED  BY <2>2, <2>3, <2>5 DEF Ran, Keeps, t
<1>2. CASE o.f = "take_focus"
  <2>1. t = take_focus(s, o.ic)  BY <1>2 DEF Run
  <2>2. Keeps(s, t) /\ t.pc.ref <= s.pc.ref + 1  BY <1>2, <2>1, TakeFocusGood
  <2>3. Opens(s, o) = 1 /\ Paid(o) = 0 /\ Gone(o) = {}  BY <1>2 DEF Opens, Paid, Gone, Payers
  <2>4. t.pc.ref \in Nat  BY <2>2 DEF Keeps, Good, Gt
  <2> HIDE DEF t
  <2>5. \A n \in Nat : s.pc.ref <= n + Paid(o) => t.pc.ref <= n + Opens(s, o)
    BY <1>a, <2>2, <2>3, <2>4
  <2>6. QED  BY <2>2, <2>3, <2>5 DEF Ran, Keeps, t
<1>3. CASE o.f = "send"
  <2>1. t = [s EXCEPT !.pc = send(@)]  BY <1>3 DEF Run
  <2>2. Keeps(s, t) /\ \A n \in Nat : s.pc.ref <= n + 1 => t.pc.ref <= n  BY <2>1, SendGood
  <2>3. Opens(s, o) = 0 /\ Paid(o) = 1 /\ Gone(o) = {}  BY <1>3 DEF Opens, Paid, Gone, Payers
  <2>4. QED  BY <2>2, <2>3 DEF Ran, Keeps
<1>4. CASE o.f = "out"
  <2>1. t = Out(s, o.ic)  BY <1>4 DEF Run
  <2>2. Keeps(s, t) /\ \A n \in Nat : s.pc.ref <= n + 1 => t.pc.ref <= n  BY <2>1, OutGood
  <2>3. Opens(s, o) = 0 /\ Paid(o) = 1 /\ Gone(o) = {}  BY <1>4 DEF Opens, Paid, Gone, Payers
  <2>4. QED  BY <2>2, <2>3 DEF Ran, Keeps
<1>5. CASE o.f = "dying"
  <2>1. t = Dying(s, o.ic)  BY <1>5 DEF Run
  <2>2. /\ Good(t) /\ t.shared = s.shared /\ Live(t) = Live(s) \ {o.ic}
        /\ \A n \in Nat : s.pc.ref <= n + 1 => t.pc.ref <= n
    BY <1>5, <2>1, DyingGood
  <2>3. Opens(s, o) = 0 /\ Paid(o) = 1 /\ Gone(o) = {o.ic}
    BY <1>5 DEF Opens, Paid, Gone, Payers
  <2>4. QED  BY <2>2, <2>3 DEF Ran
<1>6. CASE o.f = "show"
  <2>1. t = Show(s, o.ic)  BY <1>6 DEF Run
  <2>2. Quiet(s, t)  BY <2>1, ShowQuiet
  <2>3. Keeps(s, t) /\ t.pc.ref <= s.pc.ref  BY <1>a, <2>2, QuietGood DEF Quiet
  <2>4. QED  BY <1>6, <2>3, KeepsRan DEF Payers
<1>7. CASE o.f = "turn_on"
  <2>1. t = turn_on(s, o.ic)  BY <1>7 DEF Run
  <2>2. Keeps(s, t) /\ t.pc.ref <= s.pc.ref  BY <1>a, <1>7, <2>1, TurnOnGood
  <2>3. QED  BY <1>7, <2>2, KeepsRan DEF Payers
<1>8. CASE o.f = "turn_off" /\ s.ics[o.ic].on
  <2>1. t = [s EXCEPT !.ics[o.ic].on = FALSE]  BY <1>8 DEF Run
  <2> DEFINE b == FALSE  r == [s EXCEPT !.ics[o.ic].on = b]
  <2>a. b \in BOOLEAN /\ t = r /\ o.ic \in Live(s)  BY <1>8, <2>1
  <2> HIDE DEF b
  <2>b. Keeps(s, r) /\ r.pc = s.pc  BY <2>a, SwitchGood
  <2>2. Keeps(s, t) /\ t.pc.ref <= s.pc.ref  BY <1>a, <2>a, <2>b
  <2>3. QED  BY <1>8, <2>2, KeepsRan DEF Payers
<1>9. CASE o.f = "record"
  <2>1. t = [s EXCEPT !.opened = o.u]  BY <1>9 DEF Run, Record
  <2>2. Quiet(s, t)  BY <2>1 DEF Quiet, Good, Gt, Fields
  <2>3. Keeps(s, t) /\ t.pc.ref <= s.pc.ref  BY <1>a, <2>2, QuietGood DEF Quiet
  <2>4. QED  BY <1>9, <2>3, KeepsRan DEF Payers
<1>10. CASE o.f = "turned_off"
  <2>1. t = Put(panel_req_update_factory_info(s, o.ic), o.ic, "TURN_OFF", NoArg)
    BY <1>10 DEF Run
  <2>2. Quiet(s, t)  BY <2>1, InfoQuiet, PutQuiet, QuietTrans
  <2>3. Keeps(s, t) /\ t.pc.ref <= s.pc.ref  BY <1>a, <2>2, QuietGood DEF Quiet
  <2>4. QED  BY <1>10, <2>3, KeepsRan DEF Payers
<1>11. CASE o.f = "replace"
  <2>1. t = ReplaceInstance(s, o.ic, o.u) /\ o.u \in Uuids  BY <1>c, <1>11 DEF Run, Right
  <2>2. Keeps(s, t) /\ t.pc.ref <= s.pc.ref  BY <1>a, <1>11, <2>1, ReplaceGood
  <2>3. QED  BY <1>11, <2>2, KeepsRan DEF Payers
<1>12. CASE o.f = "share"
  <2>1. t = Share(s, o.ic)  BY <1>12 DEF Run
  <2>2. Keeps(s, t) /\ t.pc.ref <= s.pc.ref  BY <1>a, <1>12, <2>1, ShareGood
  <2>3. QED  BY <1>12, <2>2, KeepsRan DEF Payers
<1>13. CASE o.f = "emit"
  <2>1. Quiet(s, t)  BY <1>13, EmitQuiet
  <2>2. Keeps(s, t) /\ t.pc.ref <= s.pc.ref  BY <1>a, <2>1, QuietGood DEF Quiet
  <2>3. QED  BY <1>13, <2>2, KeepsRan DEF Payers
<1>14. CASE \/ o.f \in {"focus_in", "key", "change", "call", "engine", "fallback", "ret"}
            \/ o.f \in {"focus_out", "reset"} /\ s.focus # o.ic
            \/ o.f = "turn_off" /\ ~s.ics[o.ic].on
  <2>1. t = s  BY <1>14 DEF Run
  <2>2. o.f \notin Payers /\ o.f # "dying"  BY <1>14 DEF Payers
  <2>3. QED  BY <1>a, <1>b, <2>1, <2>2, KeepsRan
<1>15. QED
  BY <1>c, <1>1, <1>2, <1>3, <1>4, <1>5, <1>6, <1>7, <1>8, <1>9, <1>10, <1>11, <1>12, <1>13,
     <1>14 DEF Names, Payers

-----------------------------------------------------------------------------
(* The stack: what is on it, and how often.                                *)

Where(q, F) == {k \in 1..Len(q) : q[k].f \in F}
Num(q, F)   == Cardinality(Where(q, F))

LEMMA WhereFinite ==
  ASSUME NEW V, NEW q \in Seq(V), NEW F
  PROVE  IsFiniteSet(Where(q, F)) /\ Num(q, F) \in Nat
<1>1. Len(q) \in Nat  OBVIOUS
<1>2. IsFiniteSet(1..Len(q))  BY <1>1, FS_Interval
<1>3. Where(q, F) \in SUBSET (1..Len(q))  BY DEF Where
<1>4. IsFiniteSet(Where(q, F))  BY <1>2, <1>3, FS_Subset
<1>5. QED  BY <1>4, FS_CardinalityType DEF Num

LEMMA NumOne ==
  ASSUME NEW o, NEW F
  PROVE  Num(<<o>>, F) = (IF o.f \in F THEN 1 ELSE 0) /\ Num(<<>>, F) = 0
<1>1. Where(<<>>, F) = {}  BY DEF Where
<1>2. Len(<<o>>) = 1 /\ <<o>>[1] = o  OBVIOUS
<1>3. Where(<<o>>, F) = IF o.f \in F THEN {1} ELSE {}  BY <1>2 DEF Where
<1>4. Cardinality({}) = 0 /\ Cardinality({1}) = 1  BY FS_EmptySet, FS_Singleton
<1>5. QED  BY <1>1, <1>3, <1>4 DEF Num

LEMMA NumConcat ==
  ASSUME NEW V, NEW p \in Seq(V), NEW q \in Seq(V), NEW F
  PROVE  Num(p \o q, F) = Num(p, F) + Num(q, F)
<1> DEFINE n == Len(p)  m == Len(q)  T == {k + n : k \in Where(q, F)}
           f == [k \in Where(q, F) |-> k + n]
<1>1. n \in Nat /\ m \in Nat /\ p \o q \in Seq(V) /\ Len(p \o q) = n + m  OBVIOUS
<1>2. \A k \in 1..n : (p \o q)[k] = p[k]  BY <1>1
<1>3. \A k \in 1..m : (p \o q)[k + n] = q[k]
  <2> TAKE k \in 1..m
  <2>1. k + n > n /\ k + n <= n + m /\ (k + n) - n = k  BY <1>1
  <2>2. QED  BY <1>1, <2>1
<1>4. ASSUME NEW k \in Where(p \o q, F) PROVE k \in Where(p, F) \cup T
  <2>1. k \in 1..(n + m) /\ (p \o q)[k].f \in F  BY <1>1 DEF Where
  <2>2. CASE k <= n  BY <1>1, <1>2, <2>1, <2>2 DEF Where
  <2>3. CASE k > n
    <3>1. k - n \in 1..m /\ k = (k - n) + n  BY <1>1, <2>1, <2>3
    <3>2. k - n \in Where(q, F)  BY <1>3, <2>1, <3>1 DEF Where
    <3>3. QED  BY <3>1, <3>2
  <2>4. QED  BY <1>1, <2>1, <2>2, <2>3
<1>5. ASSUME NEW k \in Where(p, F) PROVE k \in Where(p \o q, F)
  <2>1. k \in 1..n /\ p[k].f \in F  BY DEF Where
  <2>2. QED  BY <1>1, <1>2, <2>1 DEF Where
<1>6. ASSUME NEW k \in Where(q, F) PROVE k + n \in Where(p \o q, F)
  <2>1. k \in 1..m /\ q[k].f \in F  BY DEF Where
  <2>2. k + n \in 1..(n + m)  BY <1>1, <2>1
  <2>3. QED  BY <1>1, <1>3, <2>1, <2>2 DEF Where
<1>7. Where(p \o q, F) = Where(p, F) \cup T  BY <1>4, <1>5, <1>6
<1>8. /\ \A k \in Where(p, F) : k \in Nat /\ k <= n
      /\ \A k \in Where(q, F) : k \in Nat /\ k >= 1
  BY <1>1 DEF Where
<1>9. Where(p, F) \cap T = {}  BY <1>1, <1>8
<1>10. IsFiniteSet(Where(p, F)) /\ IsFiniteSet(Where(q, F))
       /\ Num(p, F) \in Nat /\ Num(q, F) \in Nat
  BY WhereFinite
<1>11. IsFiniteSet(T) /\ Cardinality(T) = Cardinality(Where(q, F))
  <2>1. f \in [Where(q, F) -> T] /\ \A y \in T : \E k \in Where(q, F) : f[k] = y  OBVIOUS
  <2>2. \A j, k \in Where(q, F) : f[j] = f[k] => j = k  BY <1>1, <1>8
  <2> HIDE DEF f, T
  <2>3. f \in Bijection(Where(q, F), T)  BY <2>1, <2>2, Fun_IsBij
  <2>4. ExistsBijection(Where(q, F), T)  BY <2>3 DEF ExistsBijection
  <2>5. QED  BY <1>10, <2>4, FS_Bijection
<1> HIDE DEF T
<1>12. Cardinality(Where(p, F) \cup T)
         = Cardinality(Where(p, F)) + Cardinality(T) - Cardinality(Where(p, F) \cap T)
  BY <1>10, <1>11, FS_Union
<1>13. Cardinality(Where(p, F) \cap T) = 0  BY <1>9, FS_EmptySet
<1>14. QED  BY <1>7, <1>10, <1>11, <1>12, <1>13 DEF Num

LEMMA NumPopped ==
  ASSUME NEW V, NEW q \in Seq(V), q # <<>>, NEW F
  PROVE  /\ Num(Tail(q), F) \in Nat
         /\ Num(q, F) = Num(Tail(q), F) + (IF Head(q).f \in F THEN 1 ELSE 0)
<1> DEFINE h == Head(q)  u == Tail(q)
<1>1. h \in V /\ u \in Seq(V) /\ <<h>> \in Seq(V) /\ q = <<h>> \o u  OBVIOUS
<1> HIDE DEF h, u
<1>2. Num(q, F) = Num(<<h>>, F) + Num(u, F)  BY <1>1, NumConcat
<1>3. Num(u, F) \in Nat  BY <1>1, WhereFinite
<1>4. QED  BY <1>2, <1>3, NumOne DEF h, u

\* Operations of contexts in L; none destroys a context or ends a handler.
Part(L, q) ==
  /\ q \in Seq(Ops)
  /\ \A k \in 1..Len(q) : q[k].ic \in L /\ q[k].f \notin {"ret", "dying", "finalize"}

\* Operations of contexts in L; a context that will be destroyed is not needed
\* after that.
Stack(L, q) ==
  /\ q \in Seq(Ops)
  /\ \A k \in 1..Len(q) : q[k].f # "finalize" /\ (q[k].f # "ret" => q[k].ic \in L)
  /\ \A k, j \in 1..Len(q) :
       k < j /\ q[k].f = "dying" /\ q[j].ic = q[k].ic => q[j].f = "ret"

LEMMA PartOne ==
  ASSUME NEW L, NEW o \in Ops, o.ic \in L, o.f \notin {"ret", "dying", "finalize"}
  PROVE  Part(L, <<o>>) /\ Part(L, <<>>)
BY DEF Part

LEMMA PartConcat ==
  ASSUME NEW L, NEW p, NEW q, Part(L, p), Part(L, q)
  PROVE  Part(L, p \o q)
<1>1. p \in Seq(Ops) /\ q \in Seq(Ops)  BY DEF Part
<1>2. p \o q \in Seq(Ops) /\ Len(p \o q) = Len(p) + Len(q)  BY <1>1
<1>3. ASSUME NEW k \in 1..Len(p \o q)
      PROVE  (p \o q)[k].ic \in L /\ (p \o q)[k].f \notin {"ret", "dying", "finalize"}
  <2>1. CASE k <= Len(p)
    <3>1. k \in 1..Len(p) /\ (p \o q)[k] = p[k]  BY <1>1, <1>3, <2>1
    <3>2. QED  BY <3>1 DEF Part
  <2>2. CASE k > Len(p)
    <3>1. k - Len(p) \in 1..Len(q) /\ (p \o q)[k] = q[k - Len(p)]  BY <1>1, <1>2, <1>3, <2>2
    <3>2. QED  BY <3>1 DEF Part
  <2>3. QED  BY <1>1, <2>1, <2>2
<1>4. QED  BY <1>2, <1>3 DEF Part

LEMMA PartNoRet ==
  ASSUME NEW L, NEW q, Part(L, q)
  PROVE  Num(q, {"ret"}) = 0
<1>1. Where(q, {"ret"}) = {}  BY DEF Part, Where
<1>2. QED  BY <1>1, FS_EmptySet DEF Num

\* Operations are pushed.
LEMMA StackPush ==
  ASSUME NEW L, NEW p, NEW q, Part(L, p), Stack(L, q)
  PROVE  Stack(L, p \o q)
<1> DEFINE n == Len(p)  r == p \o q
<1>1. p \in Seq(Ops) /\ q \in Seq(Ops)  BY DEF Part, Stack
<1>2. r \in Seq(Ops) /\ Len(r) = n + Len(q) /\ n \in Nat /\ Len(q) \in Nat  BY <1>1
<1>3. \A k \in 1..n : r[k] = p[k]  BY <1>1
<1>4. \A k \in 1..Len(r) : k > n => k - n \in 1..Len(q) /\ r[k] = q[k - n]  BY <1>1, <1>2
<1> HIDE DEF r
<1>5. ASSUME NEW k \in 1..Len(r)
      PROVE  r[k].f # "finalize" /\ (r[k].f # "ret" => r[k].ic \in L)
  <2>1. CASE k <= n
    <3>1. k \in 1..n /\ r[k] = p[k]  BY <1>2, <1>3, <2>1
    <3>2. QED  BY <3>1 DEF Part
  <2>2. CASE k > n
    <3>1. k - n \in 1..Len(q) /\ r[k] = q[k - n]  BY <1>4, <2>2
    <3>2. QED  BY <1>5, <3>1 DEF Stack
  <2>3. QED  BY <1>2, <2>1, <2>2
<1>6. ASSUME NEW k \in 1..Len(r), NEW j \in 1..Len(r), k < j, r[k].f = "dying",
             r[j].ic = r[k].ic
      PROVE  r[j].f = "ret"
  <2>1. CASE k <= n
    <3>1. k \in 1..n /\ r[k] = p[k]  BY <1>2, <1>3, <2>1
    <3>2. QED  BY <1>6, <3>1 DEF Part
  <2>2. CASE k > n
    <3>1. j > n  BY <1>2, <1>6, <2>2
    <3>2. k - n \in 1..Len(q) /\ j - n \in 1..Len(q) /\ r[k] = q[k - n] /\ r[j] = q[j - n]
          /\ k - n < j - n
      BY <1>2, <1>4, <1>6, <2>2, <3>1
    <3>3. QED  BY <1>6, <3>2 DEF Stack
  <2>3. QED  BY <1>2, <2>1, <2>2
<1>7. QED  BY <1>2, <1>5, <1>6 DEF Stack, r

\* The first operation is done; it may have been the end of its context.
LEMMA StackPop ==
  ASSUME NEW L, NEW q, Stack(L, q), q # <<>>
  PROVE  /\ Head(q) \in Ops /\ Stack(L \ Gone(Head(q)), Tail(q))
         /\ Head(q).f # "finalize" /\ (Head(q).f # "ret" => Head(q).ic \in L)
<1> DEFINE h == Head(q)  u == Tail(q)
<1>1. q \in Seq(Ops)  BY DEF Stack
<1>2. h \in Ops /\ h = q[1] /\ u \in Seq(Ops) /\ Len(q) = Len(u) + 1 /\ Len(u) \in Nat
  BY <1>1
<1>3. \A k \in 1..Len(u) : u[k] = q[k + 1] /\ k + 1 \in 1..Len(q)  BY <1>1, <1>2
<1>4. 1 \in 1..Len(q)  BY <1>2
<1> HIDE DEF h, u
<1>5. ASSUME NEW k \in 1..Len(u)
      PROVE  u[k].f # "finalize" /\ (u[k].f # "ret" => u[k].ic \in L \ Gone(h))
  <2>1. u[k] = q[k + 1] /\ k + 1 \in 1..Len(q) /\ 1 < k + 1  BY <1>2, <1>3
  <2>2. u[k].f # "finalize" /\ (u[k].f # "ret" => u[k].ic \in L)  BY <2>1 DEF Stack
  <2>3. u[k].f # "ret" /\ h.f = "dying" => u[k].ic # h.ic  BY <1>2, <1>4, <2>1 DEF Stack
  <2>4. QED  BY <2>2, <2>3 DEF Gone
<1>6. ASSUME NEW k \in 1..Len(u), NEW j \in 1..Len(u), k < j, u[k].f = "dying",
             u[j].ic = u[k].ic
      PROVE  u[j].f = "ret"
  <2>1. u[k] = q[k + 1] /\ u[j] = q[j + 1] /\ k + 1 \in 1..Len(q) /\ j + 1 \in 1..Len(q)
        /\ k + 1 < j + 1
    BY <1>2, <1>3, <1>6
  <2>2. QED  BY <1>6, <2>1 DEF Stack
<1>7. Stack(L \ Gone(h), u)  BY <1>2, <1>5, <1>6 DEF Stack
<1>8. h.f # "finalize" /\ (h.f # "ret" => h.ic \in L)  BY <1>2, <1>4 DEF Stack
<1>9. QED  BY <1>2, <1>7, <1>8 DEF h, u

-----------------------------------------------------------------------------
(* Every operation: what it leaves on the stack.                           *)

LEMMA OpIn ==
  ASSUME NEW f \in Names, f \notin {"replace", "change", "key"}, NEW ic \in Ics
  PROVE  Op(f, ic) \in Ops /\ Op(f, ic).f = f /\ Op(f, ic).ic = ic
<1>1. Op(f, ic) \in [f : Names, ic : Ics, u : Args]  BY DEF Op, Args
<1>2. QED  BY <1>1 DEF Op, Ops, Right

LEMMA OpUIn ==
  ASSUME NEW f \in Names, NEW ic \in Ics, NEW u \in Args, Right(OpU(f, ic, u))
  PROVE  OpU(f, ic, u) \in Ops /\ OpU(f, ic, u).f = f /\ OpU(f, ic, u).ic = ic
         /\ OpU(f, ic, u).u = u
<1> DEFINE x == OpU(f, ic, u)
<1>1. x.f = f /\ x.ic = ic /\ x.u = u /\ x \in [f : Names, ic : Ics, u : Args]  BY DEF OpU
<1>2. Right(x)  OBVIOUS
<1> HIDE DEF x
<1>3. x \in Ops  BY <1>1, <1>2 DEF Ops
<1>4. QED  BY <1>1, <1>3 DEF x

LEMMA OpsNum ==
  ASSUME NEW p \in Seq(Ops), NEW q \in Seq(Ops), NEW F
  PROVE  Num(p \o q, F) = Num(p, F) + Num(q, F)
BY NumConcat

LEMMA OpsJoin ==
  ASSUME NEW p \in Seq(Ops), NEW q \in Seq(Ops), NEW r \in Seq(Ops)
  PROVE  (p \o q) \o r = p \o (q \o r)
BY SMTT(30), ConcatAssociative

LEMMA Pair ==
  ASSUME NEW a \in Ops, NEW b \in Ops
  PROVE  <<a, b>> = <<a>> \o <<b>>
<1> DEFINE x == <<a>>  y == <<b>>  q == <<a, b>>
<1>1. x \in Seq(Ops) /\ y \in Seq(Ops) /\ Len(x) = 1 /\ Len(y) = 1 /\ x[1] = a /\ y[1] = b
  OBVIOUS
<1>2. q \in Seq(Ops) /\ Len(q) = 2 /\ q[1] = a /\ q[2] = b  OBVIOUS
<1> HIDE DEF x, y, q
<1>3. x \o y \in Seq(Ops) /\ Len(x \o y) = 2 /\ (x \o y)[1] = a /\ (x \o y)[2] = b
  <2> DEFINE z == x \o y
  <2>1. /\ z \in Seq(Ops) /\ Len(z) = Len(x) + Len(y)
        /\ \A k \in 1..(Len(x) + Len(y)) : z[k] = IF k <= Len(x) THEN x[k] ELSE y[k - Len(x)]
    BY <1>1, ConcatProperties
  <2> HIDE DEF z
  <2>2. Len(z) = 2 /\ z[1] = x[1] /\ z[2] = y[1]  BY <1>1, <2>1
  <2>3. QED  BY <1>1, <2>1, <2>2 DEF z
<1>4. \A k \in 1..Len(q) : q[k] = (x \o y)[k]
  <2> TAKE k \in 1..Len(q)
  <2>1. k = 1 \/ k = 2  BY <1>2
  <2>2. QED  BY <1>2, <1>3, <2>1
<1>5. q = x \o y  BY <1>2, <1>3, <1>4, SeqEqual
<1>6. QED  BY <1>5 DEF x, y, q

LEMMA PartTwo ==
  ASSUME NEW L, NEW a \in Ops, NEW b \in Ops, Part(L, <<a>>), Part(L, <<b>>)
  PROVE  Part(L, <<a, b>>) /\ <<a, b>> = <<a>> \o <<b>>
BY Pair, PartConcat

\* One that ends with a send () has at least one.
LEMMA NumLast ==
  ASSUME NEW p \in Seq(Ops), NEW o \in Ops, o.f \in Payers
  PROVE  Num(p \o <<o>>, Payers) >= 1
<1>1. <<o>> \in Seq(Ops)  OBVIOUS
<1>2. Num(p \o <<o>>, Payers) = Num(p, Payers) + Num(<<o>>, Payers)  BY <1>1, NumConcat
<1>3. Num(p, Payers) \in Nat  BY WhereFinite
<1>4. QED  BY <1>2, <1>3, NumOne

LEMMA NumNat ==
  ASSUME NEW L, NEW q, Part(L, q)
  PROVE  q \in Seq(Ops) /\ Num(q, Payers) \in Nat /\ Num(q, Payers) >= 0
BY WhereFinite DEF Part

\* One operation of a context that exists.
LEMMA PartOp ==
  ASSUME NEW s, NEW ic \in Live(s), NEW f \in Names \ {"replace", "change", "key", "ret", "dying", "finalize"}
  PROVE  Op(f, ic) \in Ops /\ Part(Live(s), <<Op(f, ic)>>) /\ Part(Live(s), <<>>)
<1>1. ic \in Ics  BY DEF Live
<1>2. Op(f, ic) \in Ops /\ Op(f, ic).f = f /\ Op(f, ic).ic = ic  BY <1>1, OpIn
<1>3. QED  BY <1>2, PartOne

LEMMA FocusInPart ==
  ASSUME NEW s, Good(s), NEW ic \in Live(s)
  PROVE  Part(Live(s), FocusIn(s, ic))
<1>1. Op("take_focus", ic) \in Ops /\ Part(Live(s), <<Op("take_focus", ic)>>)
      /\ Part(Live(s), <<>>)
  BY PartOp DEF Names
<1>2. CASE s.focus \in {ic, NoIcid}  BY <1>1, <1>2 DEF FocusIn
<1>3. CASE s.focus \notin {ic, NoIcid}
  <2>1. s.focus \in Live(s)  BY <1>3 DEF Good
  <2>2. Op("focus_out", s.focus) \in Ops /\ Part(Live(s), <<Op("focus_out", s.focus)>>)
    BY <2>1, PartOp DEF Names
  <2>3. QED  BY <1>1, <1>3, <2>2, PartTwo DEF FocusIn
<1>4. QED  BY <1>2, <1>3

LEMMA FocusOutPart ==
  ASSUME NEW s, Good(s), NEW ic \in Live(s)
  PROVE  /\ Part(Live(s), FocusOut(s, ic))
         /\ s.focus = ic => Num(FocusOut(s, ic), Payers) >= 1
<1> DEFINE e == <<Op("engine", ic)>>  o == Op("out", ic)
           m == IF s.ics[ic].shared THEN e ELSE <<>>
<1>1. Part(Live(s), e) /\ Part(Live(s), <<>>)  BY PartOp DEF Names
<1>2. o \in Ops /\ Part(Live(s), <<o>>)  BY PartOp DEF Names, Payers
<1>3. Part(Live(s), m)  BY <1>1
<1>4. FocusOut(s, ic) = IF s.focus # ic THEN <<>> ELSE e \o m \o <<o>>  BY DEF FocusOut
<1>5. o.f \in Payers  BY DEF Op, Payers
<1> HIDE DEF e, m, o
<1>6. Part(Live(s), e \o m)  BY <1>1, <1>3, PartConcat
<1>7. Part(Live(s), e \o m \o <<o>>)  BY <1>2, <1>6, PartConcat
<1>8. Num(e \o m \o <<o>>, Payers) >= 1  BY <1>2, <1>5, <1>6, NumLast, NumNat
<1>9. QED  BY <1>1, <1>4, <1>7, <1>8

LEMMA TakeRestPart ==
  ASSUME NEW s, NEW ic \in Live(s),
         NEW e, Part(Live(s), e)
  PROVE  LET q == e \o <<Op("show", ic), Op("send", ic)>>
         IN  Part(Live(s), q) /\ Num(q, Payers) >= 1
<1> DEFINE a == Op("show", ic)  b == Op("send", ic)
<1>1. a \in Ops /\ Part(Live(s), <<a>>)  BY PartOp DEF Names
<1>2. b \in Ops /\ Part(Live(s), <<b>>)  BY PartOp DEF Names, Payers
<1>3. b.f \in Payers  BY DEF Op, Payers
<1> HIDE DEF a, b
<1>4. e \in Seq(Ops) /\ <<a>> \in Seq(Ops) /\ <<b>> \in Seq(Ops)  BY <1>1, <1>2 DEF Part
<1>5. e \o <<a, b>> = (e \o <<a>>) \o <<b>>
  <2>1. <<a, b>> = <<a>> \o <<b>>  BY <1>1, <1>2, PartTwo
  <2>2. QED  BY <1>4, <2>1, OpsJoin
<1>6. Part(Live(s), e \o <<a>>)  BY <1>1, PartConcat
<1>7. e \o <<a>> \in Seq(Ops)  BY <1>4
<1>8. Part(Live(s), (e \o <<a>>) \o <<b>>)  BY <1>2, <1>6, PartConcat
<1>9. Num((e \o <<a>>) \o <<b>>, Payers) >= 1  BY <1>2, <1>3, <1>7, NumLast
<1>10. QED  BY <1>5, <1>8, <1>9 DEF a, b

LEMMA ChangePart ==
  ASSUME NEW s, NEW ic \in Live(s), NEW u \in Uuids \cup {NoArg}
  PROVE  Part(Live(s), Change(s, ic, u))
<1> DEFINE a == Op("turn_off", ic)  b == OpU("replace", ic, u)  c == Op("engine", ic)
           d == Op("turn_on", ic)   e == Op("share", ic)  q == <<a, b, c, d, e>>
           L == Live(s)
<1>1. ic \in Ics  BY DEF Live
<1>2. CASE u = NoArg \/ UuidOf(s, ic) = u
  <2>1. Part(L, <<d>>) /\ Part(L, <<a>>)  BY PartOp DEF Names
  <2>2. QED  BY <1>2, <2>1 DEF Change
<1>3. CASE u # NoArg /\ UuidOf(s, ic) # u
  <2>0. {"turn_off", "engine", "turn_on", "share", "replace"} \subseteq Names  BY DEF Names
  <2>1. a \in Ops /\ a.ic = ic /\ a.f \notin {"ret", "dying", "finalize"}  BY <1>1, <2>0, OpIn
  <2>2. c \in Ops /\ c.ic = ic /\ c.f \notin {"ret", "dying", "finalize"}  BY <1>1, <2>0, OpIn
  <2>3. d \in Ops /\ d.ic = ic /\ d.f \notin {"ret", "dying", "finalize"}  BY <1>1, <2>0, OpIn
  <2>4. e \in Ops /\ e.ic = ic /\ e.f \notin {"ret", "dying", "finalize"}  BY <1>1, <2>0, OpIn
  <2>5. b \in Ops /\ b.ic = ic /\ b.f \notin {"ret", "dying", "finalize"}
    <3>1. u \in Uuids /\ u \in Args  BY <1>3 DEF Args
    <3>2. Right(b)  BY <3>1 DEF Right, OpU
    <3>3. QED  BY <1>1, <2>0, <3>1, <3>2, OpUIn
  <2> HIDE DEF a, b, c, d, e
  <2>6. q \in Seq(Ops) /\ Len(q) = 5 /\ q[1] = a /\ q[2] = b /\ q[3] = c /\ q[4] = d /\ q[5] = e
    BY <2>1, <2>2, <2>3, <2>4, <2>5
  <2> HIDE DEF q
  <2>7. \A k \in 1..5 : k \in {1, 2, 3, 4, 5}  OBVIOUS
  <2>8. \A k \in 1..Len(q) : q[k].ic \in L /\ q[k].f \notin {"ret", "dying", "finalize"}
    BY <2>1, <2>2, <2>3, <2>4, <2>5, <2>6, <2>7
  <2>9. Part(L, q)  BY <2>6, <2>8 DEF Part
  <2>10. Change(s, ic, u) = q  BY <1>3 DEF Change, q, a, b, c, d, e
  <2>11. QED  BY <2>9, <2>10
<1>4. QED  BY <1>2, <1>3

LEMMA KeyPart ==
  ASSUME NEW s, Good(s), NEW ic \in Live(s), NEW u \in HotKeys \cup Uuids
  PROVE  Part(Live(s), KeyEvent(s, ic, u))
<1>1. /\ Part(Live(s), <<Op("turn_off", ic)>>) /\ Part(Live(s), <<Op("turn_on", ic)>>)
      /\ Part(Live(s), <<Op("engine", ic)>>) /\ Part(Live(s), <<>>)
  BY PartOp DEF Names
<1>2. CASE u = "TRIGGER"
  <2>1. KeyEvent(s, ic, u) = <<Op(IF s.ics[ic].on THEN "turn_off" ELSE "turn_on", ic)>>
    BY <1>2, GtkAssumption DEF KeyEvent
  <2>2. QED  BY <1>1, <2>1
<1>3. CASE u = "none"
  <2> DEFINE m == IF s.focus # NoIcid /\ s.ics[s.focus].on THEN <<Op("engine", s.focus)>> ELSE <<>>
             y == <<Op("fallback", ic)>>
  <2>1. KeyEvent(s, ic, u) = m \o y  BY <1>3, GtkAssumption DEF KeyEvent
  <2>2. Part(Live(s), m)
    <3>1. CASE s.focus # NoIcid
      <4>1. s.focus \in Live(s)  BY <3>1 DEF Good
      <4>2. Part(Live(s), <<Op("engine", s.focus)>>)  BY <4>1, PartOp DEF Names
      <4>3. QED  BY <1>1, <4>2
    <3>2. CASE s.focus = NoIcid  BY <1>1, <3>2
    <3>3. QED  BY <3>1, <3>2
  <2>3. Part(Live(s), y)  BY PartOp DEF Names
  <2> HIDE DEF m, y
  <2>4. QED  BY <2>1, <2>2, <2>3, PartConcat
<1>4. CASE u \in Uuids
  <2> DEFINE o == OpU("change", ic, u)
  <2>1. u \notin {"TRIGGER", "none"}  BY <1>4, GtkAssumption
  <2>2. KeyEvent(s, ic, u) = <<o>>  BY <1>4, <2>1 DEF KeyEvent
  <2>3. ic \in Ics /\ u \in Args  BY <1>4 DEF Live, Args
  <2>4. Right(o)  BY <1>4 DEF Right, OpU
  <2>a. "change" \in Names  BY DEF Names
  <2>5. o \in Ops /\ o.f = "change" /\ o.ic = ic  BY <2>3, <2>4, <2>a, OpUIn
  <2> HIDE DEF o
  <2>6. Part(Live(s), <<o>>)  BY <2>5, PartOne
  <2>7. QED  BY <2>2, <2>6
<1>5. QED  BY <1>2, <1>3, <1>4 DEF HotKeys

LEMMA RecordPart ==
  ASSUME NEW s, NEW ic \in Live(s), NEW u \in {"on", "off"}
  PROVE  Part(Live(s), Recorded(s, ic, u))
<1> DEFINE o == OpU("record", ic, u)
<1>1. ic \in Ics /\ u \in Args  BY DEF Live, Args
<1>2. Right(o)  BY DEF Right, OpU
<1>a. "record" \in Names  BY DEF Names
<1>3. o \in Ops /\ o.f = "record" /\ o.ic = ic  BY <1>1, <1>2, <1>a, OpUIn
<1>4. Recorded(s, ic, u) = IF s.shared THEN <<o>> ELSE <<>>  BY DEF Recorded
<1> HIDE DEF o
<1>5. Part(Live(s), <<o>>) /\ Part(Live(s), <<>>)  BY <1>3, PartOne
<1>6. QED  BY <1>4, <1>5

\* What is left of operation o is for contexts that exist, and it has the send ()
\* for the transaction that o opens.
Leaves(s, o, q) == Part(Live(s), q) /\ Num(q, Payers) >= Opens(s, o)

LEMMA RestLeaves ==
  ASSUME NEW s, Good(s), NEW o \in Ops, o.ic \in Live(s), o.f \notin {"finalize", "ret"}
  PROVE  Leaves(s, o, Rest(s, o)) /\ (o.f \in Payers => Rest(s, o) = <<>>)
<1> DEFINE q == Rest(s, o)  L == Live(s)  e == <<Op("engine", o.ic)>>
<1>a. o.f \in Names /\ Right(o)  BY DEF Ops
<1>b. Part(L, e) /\ Part(L, <<>>)  BY PartOp DEF Names
<1>c. ASSUME Part(L, q), Opens(s, o) = 0 PROVE Leaves(s, o, q)
  BY <1>c, NumNat DEF Leaves
<1> HIDE DEF e
<1>1. CASE o.f = "focus_in"
  <2>1. q = FocusIn(s, o.ic)  BY <1>1 DEF Rest
  <2>2. Part(L, q) /\ Opens(s, o) = 0  BY <1>1, <2>1, FocusInPart DEF Opens
  <2>3. QED  BY <1>1, <1>c, <2>2 DEF Payers
<1>2. CASE o.f = "focus_out"
  <2>1. q = FocusOut(s, o.ic)  BY <1>2 DEF Rest
  <2>2. Part(L, q) /\ (s.focus = o.ic => Num(q, Payers) >= 1)  BY <2>1, FocusOutPart
  <2>3. Opens(s, o) = IF s.focus = o.ic THEN 1 ELSE 0  BY <1>2 DEF Opens
  <2>4. QED  BY <1>2, <1>c, <2>2, <2>3 DEF Payers, Leaves
<1>3. CASE o.f = "reset"
  <2> DEFINE a == Op("engine", o.ic)  b == Op("send", o.ic)
  <2>1. q = IF s.focus = o.ic THEN <<a, b>> ELSE <<>>  BY <1>3 DEF Rest
  <2>2. a \in Ops /\ Part(L, <<a>>)  BY PartOp DEF Names
  <2>3. b \in Ops /\ Part(L, <<b>>) /\ b.f \in Payers
    BY PartOp DEF Names, Payers, Op
  <2> HIDE DEF a, b
  <2>a. <<a>> \in Seq(Ops)  BY <2>2
  <2>4. Part(L, <<a, b>>) /\ <<a, b>> = <<a>> \o <<b>> /\ <<a>> \in Seq(Ops)
    BY <2>2, <2>3, <2>a, PartTwo
  <2>5. Num(<<a>> \o <<b>>, Payers) >= 1  BY <2>3, <2>4, NumLast
  <2>6. Opens(s, o) = IF s.focus = o.ic THEN 1 ELSE 0  BY <1>3 DEF Opens
  <2>7. QED  BY <1>3, <1>b, <1>c, <2>1, <2>4, <2>5, <2>6 DEF Payers, Leaves
<1>4. CASE o.f = "take_focus"
  <2> DEFINE m == IF s.shared THEN e ELSE <<>>
             r == m \o <<Op("show", o.ic), Op("send", o.ic)>>
  <2>1. q = r  BY <1>4 DEF Rest, e
  <2>2. Part(L, m)  BY <1>b
  <2> HIDE DEF m
  <2>3. Part(L, r) /\ Num(r, Payers) >= 1  BY <2>2, TakeRestPart
  <2>4. Opens(s, o) = 1  BY <1>4 DEF Opens
  <2>5. QED  BY <1>4, <2>1, <2>3, <2>4 DEF Payers, Leaves
<1>5. CASE o.f = "show"
  <2>1. q = IF s.ics[o.ic].on THEN e ELSE <<>>  BY <1>5 DEF Rest, e
  <2>2. Part(L, q) /\ Opens(s, o) = 0  BY <1>5, <1>b, <2>1 DEF Opens
  <2>3. QED  BY <1>5, <1>c, <2>2 DEF Payers
<1>6. CASE o.f = "turn_on"
  <2> DEFINE m == IF s.focus = o.ic THEN e ELSE <<>>  r == Recorded(s, o.ic, "on")
  <2>1. q = IF ~s.ics[o.ic].on THEN m \o r ELSE <<>>  BY <1>6 DEF Rest, e
  <2>2. Part(L, m) /\ Part(L, r)  BY <1>b, RecordPart
  <2> HIDE DEF m, r
  <2>3. Part(L, m \o r)  BY <2>2, PartConcat
  <2>4. Part(L, q) /\ Opens(s, o) = 0  BY <1>6, <1>b, <2>1, <2>3 DEF Opens
  <2>5. QED  BY <1>6, <1>c, <2>4 DEF Payers
<1>7. CASE o.f = "turn_off"
  <2> DEFINE a == Op("engine", o.ic)  b == Op("turned_off", o.ic)
             m == IF s.focus = o.ic THEN <<a, b>> ELSE <<>>  r == Recorded(s, o.ic, "off")
  <2>1. q = IF s.ics[o.ic].on THEN m \o r ELSE <<>>  BY <1>7 DEF Rest
  <2>2. a \in Ops /\ Part(L, <<a>>)  BY PartOp DEF Names
  <2>3. b \in Ops /\ Part(L, <<b>>)  BY PartOp DEF Names
  <2> HIDE DEF a, b
  <2>a. Part(L, <<a, b>>)  BY <2>2, <2>3, PartTwo
  <2>b. Part(L, r)  BY RecordPart
  <2>4. Part(L, m) /\ Part(L, r)  BY <1>b, <2>a, <2>b
  <2> HIDE DEF m, r
  <2>5. Part(L, m \o r)  BY <2>4, PartConcat
  <2>6. Part(L, q) /\ Opens(s, o) = 0  BY <1>7, <1>b, <2>1, <2>5 DEF Opens
  <2>7. QED  BY <1>7, <1>c, <2>6 DEF Payers
<1>8. CASE o.f = "key"
  <2>1. q = KeyEvent(s, o.ic, o.u) /\ o.u \in HotKeys \cup Uuids  BY <1>a, <1>8 DEF Rest, Right
  <2>2. Part(L, q) /\ Opens(s, o) = 0  BY <1>8, <2>1, KeyPart DEF Opens
  <2>3. QED  BY <1>8, <1>c, <2>2 DEF Payers
<1>9. CASE o.f = "change"
  <2>1. q = Change(s, o.ic, o.u) /\ o.u \in Uuids \cup {NoArg}  BY <1>a, <1>9 DEF Rest, Right
  <2>2. Part(L, q) /\ Opens(s, o) = 0  BY <1>9, <2>1, ChangePart DEF Opens
  <2>3. QED  BY <1>9, <1>c, <2>2 DEF Payers
<1>10. CASE o.f = "call"
  <2>1. q = e  BY <1>10 DEF Rest, e
  <2>2. Part(L, q) /\ Opens(s, o) = 0  BY <1>10, <1>b, <2>1 DEF Opens
  <2>3. QED  BY <1>10, <1>c, <2>2 DEF Payers
<1>11. CASE o.f \in Payers \cup
              {"turned_off", "record", "replace", "share", "engine", "fallback", "emit"}
  <2>1. q = <<>>  BY <1>11 DEF Rest, Payers
  <2>2. Part(L, q) /\ Opens(s, o) = 0  BY <1>11, <1>b, <2>1 DEF Opens, Payers
  <2>3. QED  BY <1>c, <2>1, <2>2
<1>12. QED
  BY <1>a, <1>1, <1>2, <1>3, <1>4, <1>5, <1>6, <1>7, <1>8, <1>9, <1>10, <1>11 DEF Names

-----------------------------------------------------------------------------
(* The invariant, and how one operation keeps it.                          *)

\* Data s fit the operations q that are left to do.
Fit(s, q) ==
  /\ Good(s) /\ Stack(Live(s), q)
  /\ s.pc.ref <= Num(q, Payers)
  /\ Num(q, {"ret"}) <= MaxDepth[s.shared]

LEMMA WireQuiet ==
  ASSUME NEW s, Good(s), NEW w
  PROVE  LET t == [s EXCEPT !.pc.wire = w]
         IN  Quiet(s, t) /\ Keeps(s, t)
<1> DEFINE p == [s.pc EXCEPT !.wire = w]  t == [s EXCEPT !.pc.wire = w]
<1>1. t = [s EXCEPT !.pc = p]  BY DEF Good, Gt, Fields
<1>2. DOMAIN p = PcFields /\ p.up = s.pc.up /\ p.ref = s.pc.ref  BY DEF Good, Gt, PcFields
<1> HIDE DEF p, t
<1>3. /\ DOMAIN t = Fields /\ t.pc = p /\ t.ics = s.ics /\ t.next = s.next /\ t.inst = s.inst
      /\ t.def = s.def /\ t.deff = s.deff /\ t.focus = s.focus /\ t.shared = s.shared
  BY <1>1 DEF Good, Gt, Fields
<1>4. Quiet(s, t)  BY <1>2, <1>3 DEF Quiet
<1>5. QED  BY <1>4, QuietGood DEF t

\* What remains once o was run, instances were collected and the wire was cut or not.
LEMMA RunAndCollect ==
  ASSUME NEW s, Good(s), NEW o \in Ops, o.f # "ret" => o.ic \in Live(s), NEW w
  PROVE  Ran(s, o, [Collect(Run(s, o)) EXCEPT !.pc.wire = w])
<1> DEFINE r == Run(s, o)  c == Collect(r)  t == [c EXCEPT !.pc.wire = w]
<1>1. Ran(s, o, r) /\ Good(r)  BY RunRan DEF Ran
<1> HIDE DEF r
<1>2. Keeps(r, c) /\ c.pc = r.pc /\ Good(c)  BY <1>1, CollectGood DEF Keeps
<1> HIDE DEF c
<1>3. Keeps(c, t) /\ t.pc.ref = c.pc.ref  BY <1>2, WireQuiet DEF Quiet
<1> HIDE DEF t
<1>4. Keeps(r, t) /\ t.pc.ref = r.pc.ref  BY <1>2, <1>3, KeepsTrans
<1>5. Ran(s, o, t)  BY <1>1, <1>4 DEF Ran, Keeps
<1>6. QED  BY <1>5 DEF t, c, r

LEMMA EmptyStack ==
  ASSUME NEW L
  PROVE  Stack(L, <<>>)
BY DEF Stack

LEMMA StackNums ==
  ASSUME NEW L, NEW q, Stack(L, q)
  PROVE  q \in Seq(Ops) /\ Num(q, Payers) \in Nat /\ Num(q, {"ret"}) \in Nat
BY WhereFinite DEF Stack

\* One operation that does not destroy its context at its end.
LEMMA DoFits ==
  ASSUME NEW s, Good(s), NEW o \in Ops, o.f # "ret" => o.ic \in Live(s), o.f # "finalize",
         NEW rest, Stack(Live(s) \ Gone(o), rest),
         s.pc.ref <= Num(rest, Payers) + Paid(o), Num(rest, {"ret"}) <= MaxDepth[s.shared],
         NEW t, Ran(s, o, t)
  PROVE  Fit(t, Rest(s, o) \o rest)
<1> DEFINE q == Rest(s, o)  n == Num(rest, Payers)  m == Num(q, Payers)
<1>1. rest \in Seq(Ops) /\ n \in Nat /\ Num(rest, {"ret"}) \in Nat  BY StackNums
<1>2. Good(t) /\ t.shared = s.shared /\ Live(t) = Live(s) \ Gone(o)
      /\ t.pc.ref <= n + Opens(s, o)
  BY <1>1 DEF Ran
<1>3. Part(Live(t), q) /\ m >= Opens(s, o)
  <2>1. CASE o.f = "ret" \/ o.f \in Payers
    <3>1. q = <<>> /\ Opens(s, o) = 0  BY <2>1 DEF Rest, Opens, Payers
    <3>2. Num(<<>>, Payers) = 0  BY NumOne
    <3>3. Part(Live(t), <<>>)  BY DEF Part
    <3>4. QED  BY <3>1, <3>2, <3>3
  <2>2. CASE o.f # "ret" /\ o.f \notin Payers
    <3>1. Leaves(s, o, q)  BY <2>2, RestLeaves
    <3>2. Gone(o) = {}  BY <2>2 DEF Gone, Payers
    <3>3. Live(t) = Live(s)  BY <1>2, <3>2
    <3>4. QED  BY <3>1, <3>3 DEF Leaves
  <2>3. QED  BY <2>1, <2>2
<1>4. Stack(Live(t), rest)  BY <1>2
<1> HIDE DEF q
<1>5. Stack(Live(t), q \o rest)  BY <1>3, <1>4, StackPush
<1>6. q \in Seq(Ops) /\ m \in Nat  BY <1>3, NumNat
<1>7. Num(q \o rest, Payers) = m + n  BY <1>1, <1>6, NumConcat
<1>8. Num(q \o rest, {"ret"}) = Num(q, {"ret"}) + Num(rest, {"ret"})  BY <1>1, <1>6, NumConcat
<1>9. Num(q, {"ret"}) = 0  BY <1>3, PartNoRet
<1>10. t.pc.ref \in Nat /\ Opens(s, o) \in {0, 1}  BY <1>2 DEF Good, Gt, Opens
<1> HIDE DEF m, n
<1>11. t.pc.ref <= m + n  BY <1>1, <1>2, <1>3, <1>6, <1>10
<1>12. Num(q \o rest, {"ret"}) <= MaxDepth[t.shared]  BY <1>1, <1>2, <1>8, <1>9
<1>13. QED  BY <1>2, <1>5, <1>7, <1>11, <1>12 DEF Fit, q

\* A context begins to be destroyed: no open handler works on it.
LEMMA FinalizeFits ==
  ASSUME NEW s, Good(s), NEW o \in Ops, o.ic \in Live(s), o.f = "finalize",
         NEW rest, Stack(Live(s), rest),
         \A k \in 1..Len(rest) : rest[k].ic = o.ic => rest[k].f = "ret",
         s.pc.ref <= Num(rest, Payers), Num(rest, {"ret"}) <= MaxDepth[s.shared],
         NEW t, Ran(s, o, t)
  PROVE  Fit(t, Rest(s, o) \o rest)
<1> DEFINE e == <<Op("engine", o.ic)>>  m == IF s.focus = o.ic THEN e ELSE <<>>
           d == Op("dying", o.ic)  y == <<d>>  r == y \o rest  L == Live(s)
<1>1. Rest(s, o) = m \o y  BY DEF Rest, Finalize
<1>2. o.ic \in Ics /\ "dying" \in Names  BY DEF Live, Names, Payers
<1>3. d \in Ops /\ d.f = "dying" /\ d.ic = o.ic  BY <1>2, OpIn
<1>4. Part(L, e) /\ Part(L, <<>>)  BY PartOp DEF Names
<1>5. Part(L, m)  BY <1>4
<1>6. rest \in Seq(Ops) /\ Num(rest, Payers) \in Nat /\ Num(rest, {"ret"}) \in Nat
  BY StackNums
<1> HIDE DEF e, m, d
<1>7. y \in Seq(Ops) /\ Len(y) = 1 /\ y[1] = d  BY <1>3
<1> HIDE DEF y
<1>8. /\ r \in Seq(Ops) /\ Len(r) = 1 + Len(rest) /\ r[1] = d
      /\ \A k \in 1..Len(r) : k # 1 => k - 1 \in 1..Len(rest) /\ r[k] = rest[k - 1]
  <2>1. /\ r \in Seq(Ops) /\ Len(r) = Len(y) + Len(rest)
        /\ \A k \in 1..(Len(y) + Len(rest)) : r[k] = IF k <= Len(y) THEN y[k] ELSE rest[k - Len(y)]
    BY <1>6, <1>7, ConcatProperties
  <2>2. Len(rest) \in Nat  BY <1>6
  <2> HIDE DEF r
  <2>3. QED  BY <1>7, <2>1, <2>2
<1> HIDE DEF r
<1>9. Stack(L, r)
  <2>1. ASSUME NEW k \in 1..Len(r)
        PROVE  r[k].f # "finalize" /\ (r[k].f # "ret" => r[k].ic \in L)
    <3>1. CASE k = 1  BY <1>3, <1>8, <3>1
    <3>2. CASE k # 1
      <4>1. k - 1 \in 1..Len(rest) /\ r[k] = rest[k - 1]  BY <1>8, <3>2
      <4>2. QED  BY <2>1, <4>1 DEF Stack
    <3>3. QED  BY <3>1, <3>2
  <2>2. ASSUME NEW k \in 1..Len(r), NEW j \in 1..Len(r), k < j, r[k].f = "dying",
               r[j].ic = r[k].ic
        PROVE  r[j].f = "ret"
    <3>1. j # 1 /\ j - 1 \in 1..Len(rest) /\ r[j] = rest[j - 1]  BY <1>8, <2>2
    <3>2. CASE k = 1  BY <1>3, <1>8, <2>2, <3>1, <3>2
    <3>3. CASE k # 1
      <4>1. k - 1 \in 1..Len(rest) /\ r[k] = rest[k - 1] /\ k - 1 < j - 1
        BY <1>8, <2>2, <3>1, <3>3
      <4>2. QED  BY <2>2, <3>1, <4>1 DEF Stack
    <3>4. QED  BY <3>2, <3>3
  <2>3. QED  BY <1>8, <2>1, <2>2 DEF Stack
<1>10. Stack(L, m \o r)  BY <1>5, <1>9, StackPush
<1>11. m \in Seq(Ops) /\ Num(m, Payers) \in Nat /\ Num(m, {"ret"}) = 0
  BY <1>5, NumNat, PartNoRet
<1>12. (m \o y) \o rest = m \o r
  <2>1. m \in Seq(Ops) /\ y \in Seq(Ops) /\ rest \in Seq(Ops)  BY <1>6, <1>7, <1>11
  <2>2. (m \o y) \o rest = m \o (y \o rest)  BY <2>1, OpsJoin
  <2>3. QED  BY <2>2 DEF r
<1>13. Num(y, Payers) = 1 /\ Num(y, {"ret"}) = 0  BY <1>3, NumOne DEF Payers, y
<1>14. Num(r, Payers) = 1 + Num(rest, Payers) /\ Num(r, {"ret"}) = 0 + Num(rest, {"ret"})
  BY <1>6, <1>7, <1>13, NumConcat DEF r
<1>15. /\ Num(m \o r, Payers) = Num(m, Payers) + Num(r, Payers)
       /\ Num(m \o r, {"ret"}) = Num(m, {"ret"}) + Num(r, {"ret"})
  BY <1>8, <1>11, NumConcat
<1>16. Gone(o) = {} /\ Paid(o) = 0 /\ Opens(s, o) = 1  BY DEF Gone, Paid, Opens, Payers
<1>17. /\ Good(t) /\ t.shared = s.shared /\ Live(t) = L
       /\ t.pc.ref <= Num(rest, Payers) + 1
  BY <1>6, <1>16 DEF Ran
<1>18. t.pc.ref \in Nat  BY <1>17 DEF Good, Gt
<1>19. t.pc.ref <= Num(m \o r, Payers)  BY <1>6, <1>11, <1>14, <1>15, <1>17, <1>18
<1>20. Num(m \o r, {"ret"}) <= MaxDepth[t.shared]  BY <1>6, <1>11, <1>14, <1>15, <1>17
<1>21. QED  BY <1>1, <1>10, <1>12, <1>17, <1>19, <1>20 DEF Fit

\* A context is created.
Created(s) ==
  LET ic == s.next
      n  == IF s.shared /\ s.def # NoInst THEN s.def ELSE Free(s)
      s1 == IF n = s.def THEN s ELSE create_instance(s, n, s.deff)
  IN [s1 EXCEPT !.next = @ + 1, !.def = IF s.shared THEN n ELSE @,
        !.ics[ic] = [si |-> n, shared |-> s.shared, on |-> s.shared /\ Opened(s, FALSE)]]

LEMMA CreateGood ==
  ASSUME NEW s, Good(s), s.next \in Ics
  PROVE  LET t == Created(s)
         IN  Good(t) /\ t.shared = s.shared /\ Live(t) = Live(s) \cup {s.next} /\ t.pc = s.pc
<1> DEFINE ic == s.next
           n  == IF s.shared /\ s.def # NoInst THEN s.def ELSE Free(s)
           s1 == IF n = s.def THEN s ELSE create_instance(s, n, s.deff)
           c  == [si |-> n, shared |-> s.shared, on |-> s.shared /\ Opened(s, FALSE)]
           t  == Created(s)
<1>0. t = [s1 EXCEPT !.next = @ + 1, !.def = IF s.shared THEN n ELSE @, !.ics[ic] = c]
  BY DEF Created
<1>1. s.ics \in [Ics -> ICs] /\ ic \in Ics /\ s.ics[ic].si = NoInst
  BY Constants DEF Good, Gt
<1>2. n \in Insts
  <2>1. CASE s.shared /\ s.def # NoInst  BY <2>1 DEF Good, Gt
  <2>2. CASE ~(s.shared /\ s.def # NoInst)  BY <1>1, <2>2, FreeIn
  <2>3. QED  BY <2>1, <2>2
<1>3. ~s.shared => n \notin Held(s)  BY <1>1, FreeIn
<1> DEFINE e == [uuid |-> s.deff, data |-> NoIcid]
           I == IF n = s.def THEN s.inst ELSE [s.inst EXCEPT ![n] = e]
           C == [s.ics EXCEPT ![ic] = c]
<1>4. e \in InstRecs /\ e.data = NoIcid  BY DEF InstRecs, Good, Gt
<1>5. /\ I \in [Insts -> InstRecs] /\ (n # s.def => I[n] = e)
      /\ \A m \in Insts : m # n => I[m] = s.inst[m]
  BY <1>2, <1>4 DEF Good, Gt
<1>6. c \in ICs /\ c.si = n
  <2>1. Opened(s, FALSE) \in BOOLEAN  BY DEF Opened
  <2>2. (s.shared /\ Opened(s, FALSE)) \in BOOLEAN  BY <2>1 DEF Good, Gt
  <2>3. s.shared \in BOOLEAN  BY DEF Good, Gt
  <2> DEFINE b == s.shared /\ Opened(s, FALSE)
  <2> HIDE DEF b
  <2>4. QED  BY <1>2, <2>2, <2>3 DEF ICs, b
<1>7. C \in [Ics -> ICs] /\ C[ic] = c /\ \A i \in Ics : i # ic => C[i] = s.ics[i]
  BY <1>1, <1>6
<1>8. /\ DOMAIN s1 = Fields /\ s1.pc = s.pc /\ s1.ics = s.ics /\ s1.next = s.next
      /\ s1.inst = I /\ s1.def = s.def /\ s1.deff = s.deff /\ s1.focus = s.focus
      /\ s1.shared = s.shared
  BY DEF create_instance, Good, Gt, Fields
<1> DEFINE d == IF s.shared THEN n ELSE s.def
<1>9. t = [s1 EXCEPT !.next = s.next + 1, !.def = d, !.ics = C]  BY <1>0, <1>8 DEF Fields
<1> HIDE DEF e, I, C, d, n, s1, c, t
<1>10. /\ DOMAIN t = Fields /\ t.pc = s.pc /\ t.ics = C /\ t.next = s.next + 1
       /\ t.inst = I /\ t.def = d /\ t.deff = s.deff /\ t.focus = s.focus
       /\ t.shared = s.shared
  BY <1>8, <1>9 DEF Fields
<1>11. Live(t) = Live(s) \cup {ic}  BY <1>1, <1>2, <1>6, <1>7, <1>10, Constants DEF Live
<1>12. Gt(t)
  <2>1. d \in Insts \cup {NoInst}  BY <1>2 DEF d, Good, Gt
  <2>2. \A i \in Ics : i >= t.next => t.ics[i].si = NoInst
    <3> TAKE i \in Ics
    <3>1. i \in Nat /\ s.next \in Nat  BY Constants
    <3>2. i >= s.next + 1 => i >= s.next /\ i # ic  BY <3>1
    <3>3. QED  BY <1>7, <1>10, <3>2 DEF Good, Gt
  <2>3. t.next \in Nat  BY <1>10 DEF Good, Gt
  <2>4. QED  BY <1>5, <1>7, <1>10, <2>1, <2>2, <2>3 DEF Good, Gt
<1>13. Own(t)
  <2> SUFFICES ASSUME ~t.shared PROVE Own(t)  BY DEF Own
  <2>1. /\ ~s.shared /\ s.def = NoInst
        /\ \A i, j \in Live(s) : s.ics[i].si = s.ics[j].si => i = j
        /\ \A i \in Live(s) : s.inst[s.ics[i].si].data \in {i, NoIcid}
    BY <1>10 DEF Good, Own
  <2>2. d = NoInst  BY <2>1 DEF d
  <2>3. \A i \in Live(s) : i \in Ics /\ s.ics[i].si \in Insts /\ i # ic /\ s.ics[i].si # n
    BY <1>1, <1>3, <2>1 DEF Good, Gt, ICs, Live, Held
  <2>4. n # s.def  BY <1>2, <2>1, Constants
  <2>5. \A i, j \in Live(t) : t.ics[i].si = t.ics[j].si => i = j
    <3>1. \A i \in Live(s) : C[i].si = s.ics[i].si /\ C[i].si # n  BY <1>7, <2>3
    <3>2. C[ic].si = n  BY <1>6, <1>7
    <3>3. \A i, j \in Live(s) \cup {ic} : C[i].si = C[j].si => i = j
      BY <2>1, <3>1, <3>2
    <3>4. t.ics = C  BY <1>10
    <3> DEFINE M == Live(s) \cup {ic}
    <3>5. Live(t) = M /\ \A i, j \in M : t.ics[i].si = t.ics[j].si => i = j
      BY <1>11, <3>3, <3>4
    <3> HIDE DEF M
    <3>6. QED  BY <3>5
  <2>6. \A i \in Live(t) : t.inst[t.ics[i].si].data \in {i, NoIcid}
    <3>1. \A i \in Live(s) : I[C[i].si] = s.inst[s.ics[i].si]  BY <1>5, <1>7, <2>3
    <3>2. I[C[ic].si].data = NoIcid  BY <1>4, <1>5, <1>6, <1>7, <2>4
    <3>3. \A i \in Live(s) \cup {ic} : I[C[i].si].data \in {i, NoIcid}
      BY <2>1, <3>1, <3>2
    <3>4. t.ics = C /\ t.inst = I  BY <1>10
    <3>5. QED  BY <1>11, <3>3, <3>4
  <2>7. QED  BY <1>10, <2>2, <2>5, <2>6 DEF Own
<1>14. Good(t)  BY <1>10, <1>11, <1>12, <1>13 DEF Good
<1>15. QED  BY <1>10, <1>11, <1>14 DEF t

-----------------------------------------------------------------------------
(* The steps of the module.                                                *)

GInv == Fit(g, todo) /\ mess \in BOOLEAN

LEMMA GtkInit == Init => GInv
<1> SUFFICES ASSUME Init PROVE GInv  OBVIOUS
<1>1. g.pc = open_connection(NewClient, TRUE) /\ g.ics = [i \in Ics |-> NoIC]
      /\ g.next = 1 /\ g.inst = [n \in Insts |-> NoInstance] /\ g.def = NoInst
      /\ g.deff \in Uuids /\ g.focus = NoIcid /\ g.shared \in SharedModes
      /\ DOMAIN g = Fields
  BY DEF Init, Fields
<1>2. DOMAIN g.pc = PcFields /\ g.pc.ref = 0 /\ g.pc.up = TRUE
  BY <1>1 DEF open_connection, close_connection, NewClient, PcFields
<1>3. NoIC \in ICs /\ NoIC.si = NoInst /\ NoInstance \in InstRecs
  BY DEF NoIC, ICs, NoInstance, InstRecs
<1>4. Live(g) = {}  BY <1>1, <1>3 DEF Live
<1>5. Gt(g)
  <2>1. g.ics \in [Ics -> ICs] /\ g.inst \in [Insts -> InstRecs]  BY <1>1, <1>3
  <2>2. \A i \in Ics : i >= g.next => g.ics[i].si = NoInst  BY <1>1, <1>3
  <2>3. g.shared \in BOOLEAN  BY <1>1, GtkAssumption
  <2>4. 1 \in Nat /\ 0 \in Nat  OBVIOUS
  <2>5. g.def \in Insts \cup {NoInst} /\ g.focus \in Ics \cup {NoIcid}  BY <1>1
  <2>6. g.next \in Nat /\ g.pc.ref \in Nat  BY <1>1, <1>2, <2>4
  <2>7. QED  BY <1>1, <1>2, <2>1, <2>2, <2>3, <2>5, <2>6 DEF Gt
<1>6. Own(g)  BY <1>1, <1>4 DEF Own
<1>7. todo = <<>> /\ mess = FALSE  BY DEF Init
<1>8. Num(<<>>, Payers) = 0 /\ Num(<<>>, {"ret"}) = 0  BY NumOne
<1>9. MaxDepth[g.shared] \in Nat  BY <1>5, GtkAssumption DEF Gt
<1>10. Good(g)  BY <1>1, <1>5, <1>6 DEF Good
<1>11. Stack(Live(g), todo)  BY <1>7, EmptyStack
<1>12. g.pc.ref <= Num(todo, Payers) /\ Num(todo, {"ret"}) <= MaxDepth[g.shared]
  BY <1>2, <1>7, <1>8, <1>9
<1>13. QED  BY <1>7, <1>10, <1>11, <1>12 DEF GInv, Fit

\* No handler is open: no reference is left, and anything can be begun.
LEMMA IdleFits ==
  ASSUME NEW s, Fit(s, <<>>)
  PROVE  /\ Good(s) /\ s.pc.ref = 0 /\ MaxDepth[s.shared] \in Nat
         /\ Num(<<>>, Payers) = 0 /\ Num(<<>>, {"ret"}) = 0
<1>1. Num(<<>>, Payers) = 0 /\ Num(<<>>, {"ret"}) = 0  BY NumOne
<1>2. Good(s) /\ s.pc.ref <= 0 /\ s.pc.ref \in Nat  BY <1>1 DEF Fit, Good, Gt
<1>3. QED  BY <1>1, <1>2, GtkAssumption DEF Good, Gt

LEMMA StepKeeps ==
  ASSUME GInv, Step
  PROVE  GInv'
<1> DEFINE o == Head(todo)  rest == Tail(todo)
<1>1. Fit(g, todo) /\ todo # <<>>  BY DEF GInv, Step
<1>2. Good(g) /\ Stack(Live(g), todo) /\ todo \in Seq(Ops)  BY <1>1 DEF Fit, Stack
<1>3. o \in Ops /\ Stack(Live(g) \ Gone(o), rest) /\ o.f # "finalize"
      /\ (o.f # "ret" => o.ic \in Live(g))
  BY <1>1, <1>2, StackPop
<1>4. Num(rest, Payers) \in Nat /\ Num(todo, Payers) = Num(rest, Payers) + Paid(o)
  BY <1>1, <1>2, NumPopped DEF Paid
<1>5. Num(rest, {"ret"}) \in Nat /\ Num(rest, {"ret"}) <= Num(todo, {"ret"})
  <2>1. Num(rest, {"ret"}) \in Nat
        /\ Num(todo, {"ret"}) = Num(rest, {"ret"}) + (IF o.f \in {"ret"} THEN 1 ELSE 0)
    BY <1>1, <1>2, NumPopped
  <2>2. QED  BY <2>1
<1>6. g.pc.ref <= Num(rest, Payers) + Paid(o)  BY <1>1, <1>4 DEF Fit
<1>7. Num(rest, {"ret"}) <= MaxDepth[g.shared]
  <2>1. MaxDepth[g.shared] \in Nat  BY <1>2, GtkAssumption DEF Good, Gt
  <2>2. Num(todo, {"ret"}) \in Nat  BY <1>2, StackNums
  <2>3. Num(todo, {"ret"}) <= MaxDepth[g.shared]  BY <1>1 DEF Fit
  <2>4. QED  BY <1>5, <2>1, <2>2, <2>3
<1> DEFINE w == IF alive THEN Collect(Run(g, o)).pc.wire ELSE <<>>
           t == [Collect(Run(g, o)) EXCEPT !.pc.wire = w]
<1>8. Ran(g, o, t)  BY <1>2, <1>3, RunAndCollect
<1>9. g' = t /\ todo' = Rest(g, o) \o rest /\ mess' = mess  BY DEF Step, Do
<1> HIDE DEF o, rest, t
<1>10. Fit(t, Rest(g, o) \o rest)  BY <1>2, <1>3, <1>6, <1>7, <1>8, DoFits
<1>11. QED  BY <1>9, <1>10 DEF GInv

\* The stack below an instance, or the fallback instance, that is called.
LEMMA CalledStack ==
  ASSUME Fit(g, todo), todo # <<>>, Head(todo).f \in {"engine", "fallback"}
  PROVE  /\ Good(g) /\ Head(todo) \in Ops /\ Head(todo).ic \in Live(g)
         /\ Stack(Live(g), Tail(todo)) /\ Tail(todo) \in Seq(Ops)
         /\ g.pc.ref <= Num(Tail(todo), Payers)
         /\ Num(todo, {"ret"}) = Num(Tail(todo), {"ret"})
         /\ Num(Tail(todo), {"ret"}) <= MaxDepth[g.shared]
<1> DEFINE h == Head(todo)  rest == Tail(todo)
<1>1. Good(g) /\ Stack(Live(g), todo) /\ todo \in Seq(Ops)  BY DEF Fit, Stack
<1>2. h \in Ops /\ Stack(Live(g) \ Gone(h), rest) /\ h.ic \in Live(g)
  BY <1>1, StackPop
<1>3. Gone(h) = {}  BY DEF Gone
<1>4. Live(g) \ Gone(h) = Live(g)  BY <1>3
<1>5. h.f \notin Payers /\ h.f \notin {"ret"}  BY DEF Payers
<1>6. Num(rest, Payers) \in Nat /\ Num(todo, Payers) = Num(rest, Payers)
  BY <1>1, <1>5, NumPopped
<1>7. Num(rest, {"ret"}) \in Nat /\ Num(todo, {"ret"}) = Num(rest, {"ret"})
  BY <1>1, <1>5, NumPopped
<1>8. rest \in Seq(Ops)  BY <1>1
<1>9. QED  BY <1>1, <1>2, <1>4, <1>6, <1>7, <1>8 DEF Fit

LEMMA EngineReturnsKeeps ==
  ASSUME GInv, NEW emits \in BOOLEAN, EngineReturns(emits)
  PROVE  GInv'
<1> DEFINE o == Op("emit", Head(todo).ic)
<1>1. Fit(g, todo) /\ todo # <<>> /\ Head(todo).f = "engine"  BY DEF GInv, EngineReturns
<1>2. Good(g)  BY <1>1 DEF Fit
<1>3. o.f = "emit"  BY DEF Op
<1>4. g' = (IF emits THEN Run(g, o) ELSE g) /\ todo' = Tail(todo) /\ mess' = mess
  BY DEF EngineReturns
<1> HIDE DEF o
<1>5. Quiet(g, g')  BY <1>2, <1>3, <1>4, EmitQuiet, QuietSelf
<1>6. Keeps(g, g')  BY <1>2, <1>5, QuietGood
<1>7. g'.pc.ref = g.pc.ref  BY <1>5 DEF Quiet
<1>8. Good(g') /\ Live(g') = Live(g) /\ g'.shared = g.shared  BY <1>6 DEF Keeps
<1>9. Stack(Live(g'), Tail(todo))  BY <1>1, <1>8, CalledStack
<1>10. g'.pc.ref <= Num(Tail(todo), Payers)  BY <1>1, <1>7, CalledStack
<1>11. Num(Tail(todo), {"ret"}) <= MaxDepth[g'.shared]  BY <1>1, <1>8, CalledStack
<1>12. Fit(g', Tail(todo))  BY <1>8, <1>9, <1>10, <1>11 DEF Fit
<1>13. QED  BY <1>4, <1>12 DEF GInv

\* The end of a nested handler is marked.
LEMMA StackRet ==
  ASSUME NEW L, NEW q, Stack(L, q), NEW d \in Ops, d.f = "ret"
  PROVE  Stack(L, <<d>> \o q)
<1> DEFINE y == <<d>>  r == y \o q
<1>1. q \in Seq(Ops) /\ y \in Seq(Ops) /\ Len(y) = 1 /\ y[1] = d  BY DEF Stack
<1> HIDE DEF y
<1>2. /\ r \in Seq(Ops) /\ Len(r) = Len(y) + Len(q)
      /\ \A k \in 1..(Len(y) + Len(q)) : r[k] = IF k <= Len(y) THEN y[k] ELSE q[k - Len(y)]
  BY <1>1, ConcatProperties
<1>3. Len(q) \in Nat  BY <1>1
<1> HIDE DEF r
<1>4. /\ r \in Seq(Ops) /\ Len(r) = 1 + Len(q) /\ r[1] = d
      /\ \A k \in 1..Len(r) : k # 1 => k - 1 \in 1..Len(q) /\ r[k] = q[k - 1]
  BY <1>1, <1>2, <1>3
<1>5. ASSUME NEW k \in 1..Len(r)
      PROVE  r[k].f # "finalize" /\ (r[k].f # "ret" => r[k].ic \in L)
  <2>1. CASE k = 1  BY <1>4, <2>1
  <2>2. CASE k # 1
    <3>1. k - 1 \in 1..Len(q) /\ r[k] = q[k - 1]  BY <1>4, <2>2
    <3>2. QED  BY <3>1 DEF Stack
  <2>3. QED  BY <2>1, <2>2
<1>6. ASSUME NEW k \in 1..Len(r), NEW j \in 1..Len(r), k < j, r[k].f = "dying",
             r[j].ic = r[k].ic
      PROVE  r[j].f = "ret"
  <2>1. k # 1  BY <1>4, <1>6
  <2>2. j # 1  BY <1>6
  <2>3. k - 1 \in 1..Len(q) /\ r[k] = q[k - 1] /\ j - 1 \in 1..Len(q) /\ r[j] = q[j - 1]
        /\ k - 1 < j - 1
    BY <1>4, <1>6, <2>1, <2>2
  <2>4. QED  BY <1>6, <2>3 DEF Stack
<1>7. QED  BY <1>4, <1>5, <1>6 DEF Stack, r, y

LEMMA NestedKeeps ==
  ASSUME GInv, NEW f \in {"focus_in", "focus_out", "reset", "finalize"}, NEW ic \in Ics,
         Nested(f, ic)
  PROVE  GInv'
<1> DEFINE h == Head(todo)  o == Op(f, ic)  d == Op("ret", ic)  b == Op("emit", h.ic)
           u == Tail(todo)  v == <<b>> \o u  rest == <<d, b>> \o u  L == Live(g)
<1>1. Fit(g, todo) /\ todo # <<>> /\ h.f = "engine" /\ ic \in L
  BY DEF GInv, Nested
<1>2. /\ Good(g) /\ h \in Ops /\ h.ic \in L /\ Stack(L, u) /\ u \in Seq(Ops)
      /\ g.pc.ref <= Num(u, Payers) /\ Num(todo, {"ret"}) = Num(u, {"ret"})
  BY <1>1, CalledStack
<1>3. {"focus_in", "focus_out", "reset", "finalize", "ret", "emit"} \subseteq Names
  BY DEF Names
<1>4. o \in Ops /\ o.f = f /\ o.ic = ic  BY <1>3, OpIn
<1>5. d \in Ops /\ d.f = "ret" /\ d.ic = ic  BY <1>3, OpIn
<1>6. b \in Ops /\ b.f = "emit" /\ b.ic = h.ic
  <2>1. h.ic \in Ics  BY <1>2 DEF Live
  <2>2. QED  BY <1>3, <2>1, OpIn
<1>7. Num(todo, {"ret"}) < MaxDepth[g.shared]
  BY DEF Nested, Depth, Num, Where
<1>8. f = "finalize" => \A k \in 1..Len(todo) : todo[k].ic # ic
  BY DEF Nested, Working
<1> DEFINE w == IF alive THEN Collect(Run(g, o)).pc.wire ELSE <<>>
           t == [Collect(Run(g, o)) EXCEPT !.pc.wire = w]
<1>9. Ran(g, o, t)  BY <1>1, <1>2, <1>4, RunAndCollect
<1>10. g' = t /\ todo' = Rest(g, o) \o rest /\ mess' = TRUE  BY DEF Nested, Do
<1>11. <<d>> \in Seq(Ops) /\ <<b>> \in Seq(Ops) /\ <<d, b>> = <<d>> \o <<b>>
  BY <1>5, <1>6, Pair
<1>12. rest = <<d>> \o v  BY <1>2, <1>11, OpsJoin
<1>13. todo \in Seq(Ops)  BY <1>1 DEF Fit, Stack
<1> HIDE DEF o, d, b, t, rest, u
<1>14. Part(L, <<b>>)  BY <1>2, <1>6, PartOne
<1>15. Stack(L, v)  BY <1>2, <1>14, StackPush
<1> HIDE DEF v
<1>16. Stack(L, rest)  BY <1>5, <1>12, <1>15, StackRet
<1> DEFINE x == <<b>>  y == <<d>>  R == {"ret"}
<1>a. v \in Seq(Ops)  BY <1>15 DEF Stack
<1>b. v = x \o u /\ rest = y \o v /\ x \in Seq(Ops) /\ y \in Seq(Ops)
  BY <1>11, <1>12 DEF v
<1> HIDE DEF x, y, R
<1>17. Num(v, Payers) = Num(x, Payers) + Num(u, Payers) /\ Num(v, R) = Num(x, R) + Num(u, R)
  <2>1. u \in Seq(Ops)  BY <1>2
  <2>2. \A F : Num(x \o u, F) = Num(x, F) + Num(u, F)  BY <1>b, <2>1, OpsNum
  <2>3. QED  BY <1>b, <2>2
<1>18. Num(rest, Payers) = Num(y, Payers) + Num(v, Payers) /\ Num(rest, R) = Num(y, R) + Num(v, R)
  <2>1. \A F : Num(y \o v, F) = Num(y, F) + Num(v, F)  BY <1>a, <1>b, OpsNum
  <2>2. QED  BY <1>b, <2>1
<1>19. Num(x, Payers) = 0 /\ Num(y, Payers) = 0 /\ Num(x, R) = 0 /\ Num(y, R) = 1
  <2>1. b.f \notin Payers /\ d.f \notin Payers  BY <1>5, <1>6 DEF Payers
  <2>2. b.f \notin R /\ d.f \in R  BY <1>5, <1>6 DEF R
  <2>3. QED  BY <2>1, <2>2, NumOne DEF x, y
<1>20. Num(u, Payers) \in Nat /\ Num(u, R) \in Nat  BY <1>2, StackNums DEF R
<1>21. g.pc.ref <= Num(rest, Payers)  BY <1>2, <1>17, <1>18, <1>19, <1>20
<1>22. Num(rest, {"ret"}) <= MaxDepth[g.shared]
  <2>1. MaxDepth[g.shared] \in Nat  BY <1>2, GtkAssumption DEF Good, Gt
  <2>2. QED  BY <1>2, <1>7, <1>17, <1>18, <1>19, <1>20, <2>1 DEF R
<1>23. Fit(t, Rest(g, o) \o rest)
  <2>1. CASE f # "finalize"
    <3>1. o.f \notin {"finalize", "ret", "dying"} /\ o.f \notin Payers
      BY <1>4, <2>1 DEF Payers
    <3>2. Gone(o) = {} /\ Paid(o) = 0  BY <3>1 DEF Gone, Paid
    <3>3. L \ Gone(o) = L  BY <3>2
    <3>4. g.pc.ref <= Num(rest, Payers) + Paid(o)
      BY <1>17, <1>18, <1>19, <1>20, <1>21, <3>2
    <3>5. QED  BY <1>1, <1>2, <1>4, <1>9, <1>16, <1>22, <3>1, <3>3, <3>4, DoFits
  <2>2. CASE f = "finalize"
    <3>1. h = todo[1] /\ 1 \in 1..Len(todo)  BY <1>1, <1>13
    <3>2. h.ic # ic  BY <1>8, <2>2, <3>1
    <3>3. \A k \in 1..Len(u) : u[k].ic # ic
      <4>1. \A k \in 1..Len(u) : u[k] = todo[k + 1] /\ k + 1 \in 1..Len(todo)
        BY <1>1, <1>13 DEF u
      <4>2. QED  BY <1>8, <2>2, <4>1
    <3> DEFINE p == <<d, b>>
    <3>4. p \in Seq(Ops) /\ Len(p) = 2 /\ p[1] = d /\ p[2] = b  BY <1>5, <1>6
    <3>5. rest = p \o u  BY DEF rest
    <3> HIDE DEF p
    <3>a. Len(u) \in Nat  BY <1>2
    <3>b. /\ Len(p \o u) = Len(p) + Len(u)
          /\ \A k \in 1..(Len(p) + Len(u)) : (p \o u)[k] = IF k <= Len(p) THEN p[k] ELSE u[k - Len(p)]
      BY <1>2, <3>4, ConcatProperties
    <3>6. Len(rest) = Len(p) + Len(u) /\ Len(u) \in Nat
          /\ \A k \in 1..(Len(p) + Len(u)) : rest[k] = IF k <= Len(p) THEN p[k] ELSE u[k - Len(p)]
      BY <3>a, <3>b, <3>5
    <3>7. ASSUME NEW k \in 1..Len(rest), rest[k].ic = ic PROVE rest[k].f = "ret"
      <4>1. CASE k = 1  BY <1>5, <3>4, <3>6, <4>1
      <4>2. CASE k = 2  BY <1>6, <3>2, <3>4, <3>6, <3>7, <4>2
      <4>3. CASE k > 2
        <5>1. k - 2 \in 1..Len(u) /\ rest[k] = u[k - 2]  BY <3>4, <3>6, <4>3
        <5>2. QED  BY <3>3, <3>7, <5>1
      <4>4. QED  BY <4>1, <4>2, <4>3
    <3>8. \A k \in 1..Len(rest) : rest[k].ic = o.ic => rest[k].f = "ret"  BY <1>4, <3>7
    <3>9. QED  BY <1>1, <1>2, <1>4, <1>9, <1>16, <1>21, <1>22, <2>2, <3>8, FinalizeFits
  <2>3. QED  BY <2>1, <2>2
<1>24. QED  BY <1>10, <1>23 DEF GInv

\* The fallback instance commits, and the application's handler is nested.
LEMMA FallbackKeeps ==
  ASSUME GInv, NEW f \in {"focus_in", "focus_out", "reset", "finalize"}, NEW ic \in Ics,
         FallbackCommits(f, ic)
  PROVE  GInv'
<1> DEFINE o == Op(f, ic)  d == Op("ret", ic)  u == Tail(todo)  y == <<d>>  rest == y \o u
           L == Live(g)  R == {"ret"}
<1>1. Fit(g, todo) /\ todo # <<>> /\ Head(todo).f = "fallback" /\ ic \in L
  BY DEF GInv, FallbackCommits
<1>2. /\ Good(g) /\ Stack(L, u) /\ u \in Seq(Ops)
      /\ g.pc.ref <= Num(u, Payers) /\ Num(todo, R) = Num(u, R)
  BY <1>1, CalledStack
<1>3. {"focus_in", "focus_out", "reset", "finalize", "ret"} \subseteq Names  BY DEF Names
<1>4. o \in Ops /\ o.f = f /\ o.ic = ic  BY <1>3, OpIn
<1>5. d \in Ops /\ d.f = "ret" /\ d.ic = ic  BY <1>3, OpIn
<1>6. Num(todo, R) < MaxDepth[g.shared]  BY DEF FallbackCommits, Depth, Num, Where
<1>7. f = "finalize" => \A k \in 1..Len(todo) : todo[k].ic # ic
  BY DEF FallbackCommits, Working
<1> DEFINE w == IF alive THEN Collect(Run(g, o)).pc.wire ELSE <<>>
           t == [Collect(Run(g, o)) EXCEPT !.pc.wire = w]
<1>8. Ran(g, o, t)  BY <1>1, <1>2, <1>4, RunAndCollect
<1>9. g' = t /\ todo' = Rest(g, o) \o rest /\ mess' = TRUE  BY DEF FallbackCommits, Do
<1>10. todo \in Seq(Ops)  BY <1>1 DEF Fit, Stack
<1>11. y \in Seq(Ops) /\ Len(y) = 1 /\ y[1] = d  BY <1>5
<1>a. \A k \in 1..Len(u) : u[k] = todo[k + 1] /\ k + 1 \in 1..Len(todo)  BY <1>1, <1>10
<1> HIDE DEF o, d, t, u
<1>12. Stack(L, rest)  BY <1>2, <1>5, StackRet
<1>13. Num(y, Payers) = 0 /\ Num(y, R) = 1
  <2>1. d.f \notin Payers /\ d.f \in R  BY <1>5 DEF Payers
  <2>2. QED  BY <2>1, NumOne
<1> HIDE DEF y, R
<1>14. Num(rest, Payers) = Num(y, Payers) + Num(u, Payers)
       /\ Num(rest, R) = Num(y, R) + Num(u, R)
  BY <1>2, <1>11, OpsNum
<1>15. Num(u, Payers) \in Nat /\ Num(u, R) \in Nat  BY <1>2, StackNums DEF R
<1>16. g.pc.ref <= Num(rest, Payers) /\ Num(rest, Payers) \in Nat
  BY <1>2, <1>13, <1>14, <1>15
<1>17. Num(rest, R) <= MaxDepth[g.shared]
  <2>1. MaxDepth[g.shared] \in Nat  BY <1>2, GtkAssumption DEF Good, Gt
  <2>2. QED  BY <1>2, <1>6, <1>13, <1>14, <1>15, <2>1
<1>18. Len(u) \in Nat  BY <1>2
<1>19. \A k \in 1..Len(rest) : k # 1 => k - 1 \in 1..Len(u) /\ rest[k] = u[k - 1]
  <2>1. /\ Len(rest) = Len(y) + Len(u)
        /\ \A k \in 1..(Len(y) + Len(u)) : rest[k] = IF k <= Len(y) THEN y[k] ELSE u[k - Len(y)]
    BY <1>2, <1>11, ConcatProperties
  <2>2. QED  BY <1>11, <1>18, <2>1
<1>20. Len(rest) >= 1 /\ rest[1] = d
  <2>1. /\ Len(rest) = Len(y) + Len(u)
        /\ \A k \in 1..(Len(y) + Len(u)) : rest[k] = IF k <= Len(y) THEN y[k] ELSE u[k - Len(y)]
    BY <1>2, <1>11, ConcatProperties
  <2>2. QED  BY <1>11, <1>18, <2>1
<1> HIDE DEF rest
<1>21. Fit(t, Rest(g, o) \o rest)
  <2>1. CASE f # "finalize"
    <3>1. o.f \notin {"finalize", "ret", "dying"} /\ o.f \notin Payers
      BY <1>4, <2>1 DEF Payers
    <3>2. Gone(o) = {} /\ Paid(o) = 0  BY <3>1 DEF Gone, Paid
    <3>3. L \ Gone(o) = L  BY <3>2
    <3>4. g.pc.ref <= Num(rest, Payers) + Paid(o)  BY <1>16, <3>2
    <3>5. QED
      BY <1>1, <1>2, <1>4, <1>8, <1>12, <1>17, <3>1, <3>3, <3>4, DoFits DEF R
  <2>2. CASE f = "finalize"
    <3>1. ASSUME NEW k \in 1..Len(rest), rest[k].ic = ic PROVE rest[k].f = "ret"
      <4>1. CASE k = 1  BY <1>5, <1>20, <4>1
      <4>2. CASE k # 1
        <5>1. k - 1 \in 1..Len(u) /\ rest[k] = u[k - 1]  BY <1>19, <4>2
        <5>2. rest[k] = todo[(k - 1) + 1] /\ (k - 1) + 1 \in 1..Len(todo)  BY <1>a, <5>1
        <5>3. QED  BY <1>7, <2>2, <3>1, <5>2
      <4>3. QED  BY <4>1, <4>2
    <3>2. \A k \in 1..Len(rest) : rest[k].ic = o.ic => rest[k].f = "ret"  BY <1>4, <3>1
    <3>3. QED  BY <1>1, <1>2, <1>4, <1>8, <1>12, <1>16, <1>17, <2>2, <3>2, FinalizeFits DEF R
  <2>3. QED  BY <2>1, <2>2
<1>22. QED  BY <1>9, <1>21 DEF GInv

\* A handler begins: operation o, on data s, and rest once that is done.
LEMMA BeginFits ==
  ASSUME NEW s, Good(s), NEW o \in Ops, o.f \notin {"ret", "dying"}, o.f \notin Payers,
         o.ic \in Live(s), NEW rest, Stack(Live(s), rest),
         \A k \in 1..Len(rest) : rest[k].ic = o.ic => o.f # "finalize",
         s.pc.ref <= Num(rest, Payers), Num(rest, {"ret"}) <= MaxDepth[s.shared], NEW w
  PROVE  Fit([Collect(Run(s, o)) EXCEPT !.pc.wire = w], Rest(s, o) \o rest)
<1> DEFINE t == [Collect(Run(s, o)) EXCEPT !.pc.wire = w]
<1>1. Ran(s, o, t)  BY RunAndCollect
<1>2. Gone(o) = {} /\ Paid(o) = 0  BY DEF Gone, Paid
<1>3. Live(s) \ Gone(o) = Live(s)  BY <1>2
<1>4. Num(rest, Payers) \in Nat  BY StackNums
<1> HIDE DEF t
<1>5. CASE o.f = "finalize"
  <2>1. \A k \in 1..Len(rest) : rest[k].ic = o.ic => rest[k].f = "ret"  BY <1>5
  <2>2. QED  BY <1>1, <1>5, <2>1, FinalizeFits DEF t
<1>6. CASE o.f # "finalize"
  <2>1. s.pc.ref <= Num(rest, Payers) + Paid(o)  BY <1>2, <1>4
  <2>2. QED  BY <1>1, <1>3, <1>6, <2>1, DoFits DEF t
<1>7. QED  BY <1>5, <1>6

LEMMA DispatchKeeps ==
  ASSUME GInv, NEW f \in {"focus_in", "focus_out", "reset", "finalize"}, NEW ic \in Ics,
         Dispatch(f, ic)
  PROVE  GInv'
<1> DEFINE o == Op(f, ic)  q == <<>>
           w == IF alive THEN Collect(Run(g, o)).pc.wire ELSE <<>>
           t == [Collect(Run(g, o)) EXCEPT !.pc.wire = w]
<1>1. Fit(g, q) /\ ic \in Live(g)  BY DEF GInv, Dispatch, Idle
<1>2. /\ Good(g) /\ g.pc.ref = 0 /\ MaxDepth[g.shared] \in Nat
      /\ Num(q, Payers) = 0 /\ Num(q, {"ret"}) = 0
  BY <1>1, IdleFits
<1>3. f \in Names /\ f \notin {"replace", "change", "key", "ret", "dying"} /\ f \notin Payers
  BY DEF Names, Payers
<1>4. o \in Ops /\ o.f = f /\ o.ic = ic  BY <1>3, OpIn
<1>5. Stack(Live(g), q)  BY EmptyStack
<1>6. g' = t /\ todo' = Rest(g, o) \o q /\ mess' \in BOOLEAN
  BY DEF Dispatch, Do, GInv
<1>7. Len(q) = 0  OBVIOUS
<1>8. \A k \in 1..Len(q) : q[k].ic = o.ic => o.f # "finalize"  BY <1>7
<1> HIDE DEF o, q, w
<1>a. o.f \notin {"ret", "dying"} /\ o.f \notin Payers /\ o.ic \in Live(g)  BY <1>1, <1>3, <1>4
<1>b. g.pc.ref <= Num(q, Payers) /\ Num(q, {"ret"}) <= MaxDepth[g.shared]  BY <1>2
<1>9. Fit(t, Rest(g, o) \o q)  BY <1>2, <1>4, <1>5, <1>8, <1>a, <1>b, BeginFits
<1>10. QED  BY <1>6, <1>9 DEF GInv

LEMMA WithinKeeps ==
  ASSUME GInv, NEW ic \in Ics, NEW o \in Ops, o.f \in {"key", "change", "call"}, o.ic = ic,
         Within(ic, o)
  PROVE  GInv'
<1> DEFINE s == [g EXCEPT !.pc = prepare(@, ic)]  d == Op("send", ic)  q == <<d>>
           w == IF alive THEN Collect(Run(s, o)).pc.wire ELSE <<>>
           t == [Collect(Run(s, o)) EXCEPT !.pc.wire = w]
<1>1. Fit(g, <<>>) /\ ic \in Live(g)  BY DEF GInv, Within, Idle
<1>2. Good(g) /\ g.pc.ref = 0 /\ MaxDepth[g.shared] \in Nat  BY <1>1, IdleFits
<1>3. Keeps(g, s) /\ s.pc.ref <= g.pc.ref + 1  BY <1>2, PrepareGood
<1>4. g' = t /\ todo' = Rest(s, o) \o q /\ mess' = mess  BY DEF Within, Do
<1> HIDE DEF s
<1>5. Good(s) /\ Live(s) = Live(g) /\ s.shared = g.shared  BY <1>3 DEF Keeps
<1>6. s.pc.ref \in Nat  BY <1>5 DEF Good, Gt
<1>7. s.pc.ref <= 1  BY <1>2, <1>3, <1>6
<1>8. "send" \in Names /\ "send" \in Payers  BY DEF Names, Payers
<1>9. d \in Ops /\ d.f = "send" /\ d.ic = ic  BY <1>8, OpIn
<1> HIDE DEF d
<1>10. q \in Seq(Ops) /\ Len(q) = 1 /\ q[1] = d  BY <1>9
<1>11. Num(q, Payers) = 1 /\ Num(q, {"ret"}) = 0
  <2>1. d.f \in Payers /\ d.f \notin {"ret"}  BY <1>8, <1>9
  <2>2. QED  BY <2>1, NumOne
<1> HIDE DEF q
<1>12. Stack(Live(s), q)  BY <1>1, <1>5, <1>9, <1>10 DEF Stack
<1>13. o.f \notin {"ret", "dying"} /\ o.f \notin Payers /\ o.f # "finalize"  BY DEF Payers
<1> HIDE DEF w
<1>14. Num(q, {"ret"}) <= MaxDepth[s.shared]  BY <1>2, <1>5, <1>11
<1>15. s.pc.ref <= Num(q, Payers)  BY <1>7, <1>11
<1>16. o.ic \in Live(s)  BY <1>1, <1>5
<1>17. Fit(t, Rest(s, o) \o q)
  BY <1>5, <1>12, <1>13, <1>14, <1>15, <1>16, BeginFits
<1>18. QED  BY <1>4, <1>17 DEF GInv

LEMMA KeyKeeps ==
  ASSUME GInv, NEW key \in HotKeys \cup Uuids, gtk_scim_key_snooper(key)
  PROVE  GInv'
<1> DEFINE o == OpU("key", g.focus, key)
<1>1. Within(g.focus, o) /\ g.focus \in Ics
  BY DEF gtk_scim_key_snooper, GInv, Fit, Good, Gt
<1>2. "key" \in Names /\ key \in Args  BY DEF Names, Args
<1>3. Right(o)  BY DEF Right, OpU
<1>4. o \in Ops /\ o.f = "key" /\ o.ic = g.focus  BY <1>1, <1>2, <1>3, OpUIn
<1> HIDE DEF o
<1>5. QED  BY <1>1, <1>4, WithinKeeps

LEMMA PanelKeyKeeps ==
  ASSUME GInv, NEW ic \in Ics, NEW key \in HotKeys \cup Uuids,
         panel_slot_process_key_event(ic, key)
  PROVE  GInv'
<1> DEFINE o == OpU("key", ic, key)
<1>1. Within(ic, o)  BY DEF panel_slot_process_key_event
<1>2. "key" \in Names /\ key \in Args  BY DEF Names, Args
<1>3. Right(o)  BY DEF Right, OpU
<1>4. o \in Ops /\ o.f = "key" /\ o.ic = ic  BY <1>2, <1>3, OpUIn
<1> HIDE DEF o
<1>5. QED  BY <1>1, <1>4, WithinKeeps

LEMMA ChangeKeeps ==
  ASSUME GInv, NEW ic \in Ics, NEW u \in Uuids \cup {NoArg}, panel_slot_change_factory(ic, u)
  PROVE  GInv'
<1> DEFINE o == OpU("change", ic, u)
<1>1. Within(ic, o)  BY DEF panel_slot_change_factory
<1>2. "change" \in Names /\ u \in Args  BY DEF Names, Args
<1>3. Right(o)  BY DEF Right, OpU
<1>4. o \in Ops /\ o.f = "change" /\ o.ic = ic  BY <1>2, <1>3, OpUIn
<1> HIDE DEF o
<1>5. QED  BY <1>1, <1>4, WithinKeeps

LEMMA CallKeeps ==
  ASSUME GInv, NEW ic \in Ics, panel_slot_call(ic)
  PROVE  GInv'
<1> DEFINE o == Op("call", ic)
<1>1. Within(ic, o)  BY DEF panel_slot_call
<1>2. "call" \in Names  BY DEF Names
<1>3. o \in Ops /\ o.f = "call" /\ o.ic = ic  BY <1>2, OpIn
<1> HIDE DEF o
<1>4. QED  BY <1>1, <1>3, WithinKeeps

\* What else may happen to the connection keeps the data.
LEMMA QuietFits ==
  ASSUME NEW s, NEW q, Fit(s, q), NEW t, Quiet(s, t)
  PROVE  Fit(t, q)
<1>1. Keeps(s, t)  BY QuietGood DEF Fit
<1>2. QED  BY <1>1 DEF Fit, Keeps, Quiet

LEMMA ConnectionKeeps ==
  ASSUME GInv, PanelReads \/ PanelCrashes \/ \E ok \in BOOLEAN : panel_iochannel_handler(ok)
  PROVE  GInv'
<1>1. Fit(g, todo) /\ Good(g)  BY DEF GInv, Fit
<1>2. CASE PanelReads \/ PanelCrashes
  <2> DEFINE w == <<>>  t == [g EXCEPT !.pc.wire = w]
  <2>1. g' = t /\ todo' = todo /\ mess' = mess  BY <1>2 DEF PanelReads, PanelCrashes
  <2> HIDE DEF w
  <2>2. Quiet(g, t)  BY <1>1, WireQuiet
  <2>3. Fit(t, todo)  BY <1>1, <2>2, QuietFits
  <2>4. QED  BY <2>1, <2>3 DEF GInv
<1>3. ASSUME NEW ok \in BOOLEAN, panel_iochannel_handler(ok) PROVE GInv'
  <2> DEFINE p == open_connection(g.pc, ok)  t == [g EXCEPT !.pc = p]
  <2>1. g' = t /\ todo' = todo /\ mess' = mess /\ todo = <<>>
    BY <1>3 DEF panel_iochannel_handler
  <2>2. g.pc.ref = 0  BY <1>1, <2>1, IdleFits
  <2>3. DOMAIN p = PcFields /\ p.ref = 0
    BY <1>1, <2>2 DEF Good, Gt, open_connection, close_connection, PcFields
  <2> HIDE DEF p, t
  <2>4. /\ DOMAIN t = Fields /\ t.pc = p /\ t.ics = g.ics /\ t.next = g.next /\ t.inst = g.inst
        /\ t.def = g.def /\ t.deff = g.deff /\ t.focus = g.focus /\ t.shared = g.shared
    BY <1>1 DEF t, Good, Gt, Fields
  <2>5. Live(t) = Live(g)  BY <2>4, SameLive
  <2>6. Gt(t)  BY <1>1, <2>3, <2>4 DEF Good, Gt
  <2>7. Own(t)  BY <1>1, <2>4, <2>5 DEF Good, Own
  <2>8. Good(t) /\ t.pc.ref = g.pc.ref  BY <1>1, <2>2, <2>3, <2>4, <2>5, <2>6, <2>7 DEF Good
  <2>9. Fit(t, todo)  BY <1>1, <2>4, <2>5, <2>8 DEF Fit
  <2>10. QED  BY <2>1, <2>9 DEF GInv
<1>4. QED  BY <1>2, <1>3

LEMMA CreateKeeps ==
  ASSUME GInv, gtk_im_context_scim_init
  PROVE  GInv'
<1> DEFINE ic == g.next  s2 == Created(g)
           s3 == [s2 EXCEPT !.pc = prepare(@, ic)]
           u  == UuidOf(s2, ic)
           t  == Put(s3, ic, "REGISTER", u)
           a  == Op("engine", ic)  b == Op("send", ic)  q == <<a, b>>
<1>1. Fit(g, <<>>) /\ ic \in Ics  BY DEF GInv, gtk_im_context_scim_init, Idle
<1>2. Good(g) /\ g.pc.ref = 0 /\ MaxDepth[g.shared] \in Nat  BY <1>1, IdleFits
<1>3. g' = t /\ todo' = q /\ mess' = mess  BY DEF gtk_im_context_scim_init, Created
<1>4. Good(s2) /\ s2.shared = g.shared /\ Live(s2) = Live(g) \cup {ic} /\ s2.pc = g.pc  BY <1>1, <1>2, CreateGood
<1> HIDE DEF s2, ic, u
<1>5. Keeps(s2, s3) /\ s3.pc.ref <= s2.pc.ref + 1 /\ Good(s3)  BY <1>4, PrepareGood DEF Keeps
<1> HIDE DEF s3
<1>6. Quiet(s3, t) /\ Good(t)  BY <1>5, PutQuiet
<1>7. Keeps(s3, t)  BY <1>5, <1>6, QuietGood
<1> HIDE DEF t
<1>8. t.pc.ref = s3.pc.ref  BY <1>6 DEF Quiet
<1>9. t.shared = g.shared /\ Live(t) = Live(g) \cup {ic}  BY <1>4, <1>5, <1>7 DEF Keeps
<1>10. t.pc.ref \in Nat /\ t.pc.ref <= 1
  BY <1>2, <1>4, <1>5, <1>6, <1>8 DEF Good, Gt
<1>11. ic \in Live(t)  BY <1>9
<1>12. a \in Ops /\ Part(Live(t), <<a>>)  BY <1>11, PartOp DEF Names
<1>13. b \in Ops /\ Part(Live(t), <<b>>) /\ b.f \in Payers
  BY <1>11, PartOp DEF Names, Payers, Op
<1> HIDE DEF a, b
<1>14. Part(Live(t), q) /\ q = <<a>> \o <<b>>  BY <1>12, <1>13, PartTwo
<1>15. <<a>> \in Seq(Ops)  BY <1>12
<1>16. Num(q, Payers) >= 1  BY <1>13, <1>14, <1>15, NumLast
<1>17. Num(q, {"ret"}) = 0  BY <1>14, PartNoRet
<1>18. q \in Seq(Ops) /\ Num(q, Payers) \in Nat  BY <1>14, NumNat
<1> HIDE DEF q
<1>19. Stack(Live(t), q)  BY <1>14 DEF Part, Stack
<1>20. t.pc.ref <= Num(q, Payers)  BY <1>10, <1>16, <1>18
<1>21. Num(q, {"ret"}) <= MaxDepth[t.shared]  BY <1>2, <1>9, <1>17
<1>22. Fit(t, q)  BY <1>6, <1>19, <1>20, <1>21 DEF Fit
<1>23. QED  BY <1>3, <1>22 DEF GInv

LEMMA GtkNext == GInv /\ [Next]_vars => GInv'
<1> SUFFICES ASSUME GInv, [Next]_vars PROVE GInv'  OBVIOUS
<1>1. CASE Step  BY <1>1, StepKeeps
<1>2. ASSUME NEW emits \in BOOLEAN, EngineReturns(emits) PROVE GInv'
  BY <1>2, EngineReturnsKeeps
<1>3. ASSUME NEW ic \in Ics, NEW f \in {"focus_in", "focus_out", "reset", "finalize"},
             Nested(f, ic) \/ FallbackCommits(f, ic) \/ Dispatch(f, ic)
      PROVE  GInv'
  BY <1>3, NestedKeeps, FallbackKeeps, DispatchKeeps
<1>4. CASE gtk_im_context_scim_init  BY <1>4, CreateKeeps
<1>5. ASSUME NEW key \in HotKeys \cup Uuids, gtk_scim_key_snooper(key) PROVE GInv'
  BY <1>5, KeyKeeps
<1>6. ASSUME NEW ic \in Ics, NEW u \in Uuids \cup {NoArg}, panel_slot_change_factory(ic, u)
      PROVE  GInv'
  BY <1>6, ChangeKeeps
<1>7. ASSUME NEW ic \in Ics, panel_slot_call(ic) PROVE GInv'  BY <1>7, CallKeeps
<1>8. CASE PanelReads \/ PanelCrashes \/ \E ok \in BOOLEAN : panel_iochannel_handler(ok)
  BY <1>8, ConnectionKeeps
<1>9. CASE UNCHANGED vars
  <2>1. g' = g /\ todo' = todo /\ mess' = mess  BY <1>9 DEF vars
  <2>2. QED  BY <2>1 DEF GInv
<1>10. ASSUME NEW ic \in Ics, NEW key \in HotKeys \cup Uuids,
              panel_slot_process_key_event(ic, key)
       PROVE  GInv'
  BY <1>10, PanelKeyKeeps
<1>11. QED  BY <1>1, <1>2, <1>3, <1>4, <1>5, <1>6, <1>7, <1>8, <1>9, <1>10 DEF Next

-----------------------------------------------------------------------------
(* Results that hold in every nesting.                                     *)

LEMMA GtkAlways == Spec => []GInv
BY GtkInit, GtkNext, PTL DEF Spec

\* The contexts, instances and operations keep their types, and callbacks nest
\* no deeper than the bound.
THEOREM GtkTypes == Spec => []TypeOK
<1>1. GInv => TypeOK
  <2> SUFFICES ASSUME GInv PROVE TypeOK  OBVIOUS
  <2>1. Gt(g) /\ mess \in BOOLEAN  BY DEF GInv, Fit, Good
  <2>2. Depth <= MaxDepth[g.shared]
    <3>1. Depth = Num(todo, {"ret"})  BY DEF Depth, Num, Where
    <3>2. QED  BY <3>1 DEF GInv, Fit
  <2>3. QED  BY <2>1, <2>2 DEF TypeOK, Gt, ICs, InstRecs
<1>2. QED  BY <1>1, GtkAlways, PTL

\* _focused_ic and the context of every operation still to be done exist: however
\* deep the application's callbacks nest, and whatever contexts they focus, reset
\* or destroy, no handler follows a dangling pointer.
THEOREM FocusedAlwaysLive == Spec => []FocusedLive
<1>1. GInv => FocusedLive
  <2> SUFFICES ASSUME GInv PROVE FocusedLive  OBVIOUS
  <2>1. g.focus \in Live(g) \cup {NoIcid} /\ Stack(Live(g), todo)  BY DEF GInv, Fit, Good
  <2>2. QED  BY <2>1 DEF Stack, FocusedLive
<1>2. QED  BY <1>1, GtkAlways, PTL

\* Every prepare () is answered by a send () that is still on the stack: in every
\* nesting of handlers, and when the connection is made anew, no transaction is
\* left open after the last handler.
THEOREM RefsAlwaysPaid == Spec => []RefsPaid
<1>1. GInv => RefsPaid
  <2> SUFFICES ASSUME GInv PROVE RefsPaid  OBVIOUS
  <2>1. Num(todo, Payers) = Cardinality({k \in 1..Len(todo) : todo[k].f \in {"send", "out", "dying"}})
    BY DEF Num, Where, Payers
  <2>2. QED  BY <2>1 DEF GInv, Fit, RefsPaid
<1>2. QED  BY <1>1, GtkAlways, PTL

-----------------------------------------------------------------------------
(* What the panel makes of a sequence of commands.  FoldLeft is a function *)
(* chosen to satisfy a recursive equation on the subsets of the indices;   *)
(* it is shown to do so by induction on the number of commands read (Least *)
(* and SetInduction, from the well-foundedness of Nat).                    *)

LEMMA Least ==
  ASSUME NEW T \in SUBSET Nat, T # {}
  PROVE  \E n \in T : \A m \in T : n <= m
<1> DEFINE R == {ss \in Nat \X Nat : ss[1] < ss[2]}
<1>1. IsWellFoundedOn(R, Nat)
  BY NatLessThanWellFounded DEF OpToRel
<1>2. \A m, n \in Nat : m < n => <<m, n>> \in R
  OBVIOUS
<1> HIDE DEF R
<1>3. PICK n \in T : \A m \in T : <<m, n>> \notin R
  BY <1>1, WFMin
<1>4. \A m \in T : ~(m < n)
  BY <1>2, <1>3
<1> QED  BY <1>4

LEMMA SetInduction ==
  ASSUME NEW T \in SUBSET Nat, 0 \in T, \A n \in T : n + 1 \in T
  PROVE  \A n \in Nat : n \in T
<1> DEFINE U == Nat \ T
<1> SUFFICES ASSUME U # {} PROVE FALSE
  OBVIOUS
<1>1. U \in SUBSET Nat
  OBVIOUS
<1> HIDE DEF U
<1>2. PICK n \in U : \A m \in U : n <= m
  BY <1>1, Least
<1>3. n # 0 /\ n - 1 \in Nat
  BY DEF U
<1> QED  BY <1>2, <1>3 DEF U

\* The function FoldLeft builds, on the subsets of the indices D of s, and its
\* choice.
Unfold(p, s, D, f) ==
  [S \in SUBSET D |-> IF S = {} THEN p ELSE Apply(f[S \ {Max(S)}], s[Max(S)])]

Fold(p, s, D) == CHOOSE f : f = Unfold(p, s, D, f)

LEMMA FoldDef ==
  ASSUME NEW p, NEW s
  PROVE  FoldLeft(Apply, p, s) = Fold(p, s, DOMAIN s)[DOMAIN s]
BY DEF FoldLeft, MapThenFoldSet, Unfold, Fold

LEMMA MaxOfLast ==
  ASSUME NEW k \in Nat, NEW S \in SUBSET (1..k+1), k + 1 \in S
  PROVE  Max(S) = k + 1 /\ S \ {k + 1} \in SUBSET (1..k)
<1>1. \A y \in S : y \in Int /\ y <= k + 1
  OBVIOUS
<1>2. \A x \in S : (\A y \in S : x >= y) <=> x = k + 1
  BY <1>1
<1>3. Max(S) = CHOOSE x \in S : \A y \in S : x >= y
  BY DEF Max
<1>4. Max(S) \in S /\ \A y \in S : Max(S) >= y
  BY <1>2, <1>3
<1>5. Max(S) = k + 1
  BY <1>2, <1>4
<1> QED  BY <1>5

LEMMA FoldExists ==
  ASSUME NEW p, NEW s, NEW n \in Nat
  PROVE  \E f : f = Unfold(p, s, 1..n, f)
<1> DEFINE T == {k \in Nat : \E f : f = Unfold(p, s, 1..k, f)}
<1>1. 0 \in T
  <2> DEFINE f == [S \in SUBSET (1..0) |-> p]
  <2>1. SUBSET (1..0) = {{}}
    OBVIOUS
  <2>2. f = Unfold(p, s, 1..0, f)
    BY <2>1 DEF Unfold
  <2> QED
    BY <2>2
<1>2. \A k \in T : k + 1 \in T
  <2> SUFFICES ASSUME NEW k \in T PROVE k + 1 \in T
    OBVIOUS
  <2>1. PICK f : f = Unfold(p, s, 1..k, f)
    OBVIOUS
  <2> DEFINE e == [S \in SUBSET (1..k+1) |->
                     IF k + 1 \in S THEN Apply(f[S \ {k + 1}], s[k + 1]) ELSE f[S]]
             h == Unfold(p, s, 1..k+1, e)
  <2>2. \A S \in SUBSET (1..k+1) : e[S] = h[S]
    <3> SUFFICES ASSUME NEW S \in SUBSET (1..k+1) PROVE e[S] = h[S]
      OBVIOUS
    <3>1. CASE k + 1 \in S
      <4>1. Max(S) = k + 1 /\ S \ {k + 1} \in SUBSET (1..k)
        BY <3>1, MaxOfLast
      <4>2. e[S \ {k + 1}] = f[S \ {k + 1}]
        BY <4>1
      <4> QED
        BY <3>1, <4>1, <4>2 DEF Unfold
    <3>2. CASE k + 1 \notin S
      <4>1. S \in SUBSET (1..k)
        BY <3>2
      <4>2. CASE S = {}
        BY <2>1, <3>2, <4>1, <4>2 DEF Unfold
      <4>3. CASE S # {}
        <5> DEFINE R == S \ {Max(S)}
        <5>1. R \in SUBSET (1..k) /\ k + 1 \notin R
          BY <3>2, <4>1
        <5> HIDE DEF R
        <5>2. e[R] = f[R]
          BY <5>1
        <5>3. f[S] = Apply(f[R], s[Max(S)])
          BY <2>1, <4>1, <4>3 DEF Unfold, R
        <5>4. h[S] = Apply(e[R], s[Max(S)])
          BY <4>3 DEF Unfold, R
        <5> QED
          BY <3>2, <5>2, <5>3, <5>4
      <4> QED
        BY <4>2, <4>3
    <3> QED
      BY <3>1, <3>2
  <2>3. e = h
    BY <2>2 DEF Unfold
  <2> QED
    BY <2>3
<1> HIDE DEF T
<1>3. T \in SUBSET Nat
  BY DEF T
<1>4. n \in T
  BY <1>1, <1>2, <1>3, SetInduction
<1> QED  BY <1>4 DEF T

LEMMA FoldIs ==
  ASSUME NEW p, NEW s, NEW n \in Nat
  PROVE  /\ Fold(p, s, 1..n) = Unfold(p, s, 1..n, Fold(p, s, 1..n))
         /\ Fold(p, s, 1..n)[{}] = p
         /\ \A k \in 0..n-1 : Fold(p, s, 1..n)[1..k+1] = Apply(Fold(p, s, 1..n)[1..k], s[k + 1])
<1>1. Fold(p, s, 1..n) = Unfold(p, s, 1..n, Fold(p, s, 1..n))
  BY FoldExists DEF Fold
<1> DEFINE f == Fold(p, s, 1..n)
<1> HIDE DEF f
<1>2. f[{}] = p
  BY <1>1 DEF Unfold, f
<1>3. \A k \in 0..n-1 : f[1..k+1] = Apply(f[1..k], s[k + 1])
  <2> SUFFICES ASSUME NEW k \in 0..n-1 PROVE f[1..k+1] = Apply(f[1..k], s[k + 1])
    OBVIOUS
  <2> DEFINE S == 1..k+1
  <2>1. S \in SUBSET (1..k+1) /\ k + 1 \in S /\ k \in Nat /\ S # {} /\ S \in SUBSET (1..n)
    BY SMTT(30)
  <2>2. S \ {k + 1} = 1..k
    OBVIOUS
  <2> HIDE DEF S
  <2>3. Max(S) = k + 1
    BY <2>1, MaxOfLast
  <2>4. f[S] = Apply(f[S \ {Max(S)}], s[Max(S)])
    BY <1>1, <2>1 DEF Unfold, f
  <2> QED
    BY <2>2, <2>3, <2>4 DEF S
<1> QED  BY <1>1, <1>2, <1>3 DEF f

LEMMA FoldSame ==
  ASSUME NEW p, NEW s, NEW t, NEW m \in Nat, NEW n \in Nat, \A k \in 1..m : s[k] = t[k], m <= n
  PROVE  Fold(p, s, 1..m)[1..m] = Fold(p, t, 1..n)[1..m]
<1> DEFINE f == Fold(p, s, 1..m)
           h == Fold(p, t, 1..n)
           T == {k \in Nat : k <= m => f[1..k] = h[1..k]}
<1>1. f[{}] = p /\ h[{}] = p
  BY FoldIs
<1>2. /\ \A k \in 0..m-1 : f[1..k+1] = Apply(f[1..k], s[k + 1])
      /\ \A k \in 0..n-1 : h[1..k+1] = Apply(h[1..k], t[k + 1])
  BY FoldIs
<1> HIDE DEF f, h
<1>3. 0 \in T
  BY <1>1
<1>4. \A k \in T : k + 1 \in T
  <2> SUFFICES ASSUME NEW k \in T, k + 1 <= m PROVE f[1..k+1] = h[1..k+1]
    OBVIOUS
  <2>1. k \in 0..m-1 /\ k \in 0..n-1 /\ k + 1 \in 1..m /\ f[1..k] = h[1..k]
    OBVIOUS
  <2>2. s[k + 1] = t[k + 1]
    BY <2>1
  <2> QED
    BY <1>2, <2>1, <2>2
<1>5. T \in SUBSET Nat
  OBVIOUS
<1> HIDE DEF T
<1>6. m \in T
  BY <1>3, <1>4, <1>5, SetInduction
<1> QED  BY <1>6 DEF T, f, h

\* Reading nothing, and reading one command more.
LEMMA ReadNothing ==
  ASSUME NEW p
  PROVE  FoldLeft(Apply, p, <<>>) = p
<1>1. DOMAIN <<>> = 1..0 /\ 1..0 = {}
  OBVIOUS
<1>2. Fold(p, <<>>, 1..0)[{}] = p
  BY FoldIs
<1> QED  BY <1>1, <1>2, FoldDef

LEMMA ReadOneMore ==
  ASSUME NEW p, NEW C, NEW s \in Seq(C), NEW m \in C
  PROVE  FoldLeft(Apply, p, Append(s, m)) = Apply(FoldLeft(Apply, p, s), m)
<1> DEFINE t == Append(s, m)
           n == Len(s)
<1>1. /\ t \in Seq(C) /\ n \in Nat /\ Len(t) = n + 1 /\ DOMAIN s = 1..n /\ DOMAIN t = 1..n+1
      /\ t[n + 1] = m /\ \A k \in 1..n : s[k] = t[k]
  OBVIOUS
<1> HIDE DEF t, n
<1>2. FoldLeft(Apply, p, s) = Fold(p, s, 1..n)[1..n]
  BY <1>1, FoldDef
<1>3. FoldLeft(Apply, p, t) = Fold(p, t, 1..n+1)[1..n+1]
  BY <1>1, FoldDef
<1>4. Fold(p, s, 1..n)[1..n] = Fold(p, t, 1..n+1)[1..n]
  <2>1. n + 1 \in Nat /\ n <= n + 1
    BY <1>1
  <2> QED
    BY <1>1, <2>1, FoldSame
<1>5. Fold(p, t, 1..n+1)[1..n+1] = Apply(Fold(p, t, 1..n+1)[1..n], t[n + 1])
  BY <1>1, FoldIs
<1> QED  BY <1>1, <1>2, <1>3, <1>4, <1>5 DEF t

\* A sequence, of whatever commands.
IsSeq(x) == \E C : x \in Seq(C)

LEMMA Appended ==
  ASSUME NEW x, IsSeq(x), NEW m
  PROVE  IsSeq(Append(x, m))
<1>1. PICK C : x \in Seq(C)
  BY DEF IsSeq
<1> DEFINE D == C \cup {m}
<1>2. x \in Seq(D) /\ m \in D
  BY <1>1
<1> HIDE DEF D
<1>3. Append(x, m) \in Seq(D)
  BY <1>2
<1> QED  BY <1>3 DEF IsSeq

LEMMA Joined ==
  ASSUME NEW x, IsSeq(x), NEW y, IsSeq(y)
  PROVE  /\ IsSeq(x \o y) /\ Len(x \o y) = Len(x) + Len(y) /\ Len(x) \in Nat /\ Len(y) \in Nat
         /\ \A k \in 1..Len(x) + Len(y) : (x \o y)[k] = IF k <= Len(x) THEN x[k] ELSE y[k - Len(x)]
<1>1. PICK C : x \in Seq(C)
  BY DEF IsSeq
<1>2. PICK D : y \in Seq(D)
  BY DEF IsSeq
<1> DEFINE E == C \cup D
<1>3. x \in Seq(E) /\ y \in Seq(E)
  BY <1>1, <1>2
<1> HIDE DEF E
<1>4. x \o y \in Seq(E)
  BY <1>3
<1>5. Len(x \o y) = Len(x) + Len(y) /\ Len(x) \in Nat /\ Len(y) \in Nat
  BY <1>3
<1>6. \A k \in 1..Len(x) + Len(y) : (x \o y)[k] = IF k <= Len(x) THEN x[k] ELSE y[k - Len(x)]
  BY <1>3
<1> QED  BY <1>4, <1>5, <1>6 DEF IsSeq

LEMMA ThenOne ==
  ASSUME NEW x, IsSeq(x), NEW y, IsSeq(y), NEW m
  PROVE  x \o Append(y, m) = Append(x \o y, m)
<1>1. PICK C : x \in Seq(C)
  BY DEF IsSeq
<1>2. PICK D : y \in Seq(D)
  BY DEF IsSeq
<1> DEFINE E == C \cup D \cup {m}
<1>3. x \in Seq(E) /\ y \in Seq(E) /\ m \in E
  BY <1>1, <1>2
<1> HIDE DEF E
<1> QED  BY <1>3

\* Reading what was written, whatever the commands are.
LEMMA ReadAppended ==
  ASSUME NEW p, NEW x, IsSeq(x), NEW m
  PROVE  FoldLeft(Apply, p, Append(x, m)) = Apply(FoldLeft(Apply, p, x), m)
<1>1. PICK C : x \in Seq(C)  BY DEF IsSeq
<1> DEFINE D == C \cup {m}
<1>2. x \in Seq(D) /\ m \in D  BY <1>1
<1> HIDE DEF D
<1>3. QED  BY <1>2, ReadOneMore

LEMMA NothingJoined ==
  ASSUME NEW x, IsSeq(x)
  PROVE  x \o <<>> = x /\ <<>> \o x = x /\ IsSeq(<<>>)
<1>1. PICK C : x \in Seq(C)  BY DEF IsSeq
<1>2. <<>> \in Seq(C)  OBVIOUS
<1>3. QED  BY <1>1, <1>2 DEF IsSeq

-----------------------------------------------------------------------------
(* One command, as the panel takes it.                                     *)

PanelFields == {"cur", "last", "uuid", "on", "info", "fresh", "refused"}

\* The panel's session: while it is fresh it knows of no focus.
PanelOK(v) ==
  /\ DOMAIN v = PanelFields /\ v.fresh \in BOOLEAN
  /\ v.fresh => v.cur = NoIcid /\ v.last = NoIcid

\* From v to w neither the focus nor what is shown changes.
Deaf(v, w) ==
  /\ PanelOK(w) /\ w.cur = v.cur /\ w.fresh = v.fresh /\ w.on = v.on /\ w.info = v.info

LEMMA DeafSelf ==
  ASSUME NEW v, PanelOK(v)
  PROVE  Deaf(v, v)
BY DEF Deaf

LEMMA DeafTrans ==
  ASSUME NEW v, NEW w, NEW x, Deaf(v, w), Deaf(w, x)
  PROVE  Deaf(v, x)
BY DEF Deaf

LEMMA ApplyRefused ==
  ASSUME NEW v, PanelOK(v), NEW m, Refuses(v, m)
  PROVE  Deaf(v, Apply(v, m)) /\ (v.fresh => Apply(v, m) = v)
<1> DEFINE r == v.refused \cup {m.ic}  x == [v EXCEPT !.refused = r]
<1>1. Apply(v, m) = IF v.fresh THEN v ELSE x  BY DEF Apply
<1>2. /\ DOMAIN x = PanelFields /\ x.cur = v.cur /\ x.last = v.last
      /\ x.fresh = v.fresh /\ x.on = v.on /\ x.info = v.info
  BY DEF PanelOK, PanelFields
<1> HIDE DEF x
<1>3. Deaf(v, x)  BY <1>2 DEF PanelOK, Deaf
<1>4. QED  BY <1>1, <1>3, DeafSelf

\* Commands that are not about the focus.
LEMMA ApplyDeaf ==
  ASSUME NEW v, PanelOK(v), NEW ic, NEW cmd \in {"UPDATE", "HELPER", "REGISTER", "REMOVE"}, NEW arg
  PROVE  Deaf(v, Apply(v, Cmd(ic, cmd, arg)))
<1> DEFINE m == Cmd(ic, cmd, arg)  w == Apply(v, m)
<1>1. m.cmd = cmd /\ m.ic = ic /\ m.arg = arg  BY DEF Cmd
<1>2. CASE Refuses(v, m)  BY <1>2, ApplyRefused
<1>3. CASE ~Refuses(v, m)
  <2>1. w = Effect(v, m)  BY <1>3 DEF Apply
  <2> HIDE DEF w, m
  <2>2. CASE cmd \in {"UPDATE", "HELPER"}
    <3>1. Effect(v, m) = v  BY <1>1, <2>2 DEF Effect
    <3>2. QED  BY <2>1, <3>1, DeafSelf DEF w, m
  <2>3. CASE cmd \in {"REGISTER", "REMOVE"}
    <3> DEFINE u == IF cmd = "REGISTER" THEN arg ELSE NoArg
               U == [v.uuid EXCEPT ![ic] = u]  x == [v EXCEPT !.uuid = U]
    <3>1. Effect(v, m) = x
      <4>1. CASE cmd = "REGISTER"
        <5>1. Effect(v, m) = [v EXCEPT !.uuid[ic] = arg]  BY <1>1, <4>1 DEF Effect
        <5>2. QED  BY <4>1, <5>1 DEF PanelOK, PanelFields
      <4>2. CASE cmd = "REMOVE"
        <5>1. Effect(v, m) = [v EXCEPT !.uuid[ic] = NoArg]  BY <1>1, <4>2 DEF Effect
        <5>2. QED  BY <4>2, <5>1 DEF PanelOK, PanelFields
      <4>3. QED  BY <2>3, <4>1, <4>2
    <3> HIDE DEF U
    <3>2. /\ DOMAIN x = PanelFields /\ x.cur = v.cur /\ x.last = v.last
          /\ x.fresh = v.fresh /\ x.on = v.on /\ x.info = v.info
      BY DEF PanelOK, PanelFields
    <3> HIDE DEF x
    <3>3. Deaf(v, x)  BY <3>2 DEF Deaf, PanelOK
    <3>4. QED  BY <2>1, <3>1, <3>3 DEF w, m
  <2>4. QED  BY <2>2, <2>3
<1>4. QED  BY <1>2, <1>3

\* A context takes the focus.
LEMMA ApplyFocusIn ==
  ASSUME NEW v, PanelOK(v), NEW ic
  PROVE  LET w == Apply(v, Cmd(ic, "FOCUS_IN", NoArg))
         IN  PanelOK(w) /\ w.cur = ic
<1> DEFINE m == Cmd(ic, "FOCUS_IN", NoArg)  l == Remember(v)
           x == [v EXCEPT !.last = l, !.fresh = FALSE, !.cur = ic]
<1>1. m.cmd = "FOCUS_IN" /\ m.ic = ic  BY DEF Cmd
<1>2. ~Refuses(v, m)  BY <1>1 DEF Refuses, FocusOnly
<1>3. Effect(v, m) = x  BY <1>1 DEF Effect
<1>4. Apply(v, m) = x  BY <1>2, <1>3 DEF Apply
<1> HIDE DEF l
<1>5. DOMAIN x = PanelFields /\ x.cur = ic /\ x.fresh = FALSE  BY DEF PanelOK, PanelFields
<1> HIDE DEF x, m
<1>6. QED  BY <1>4, <1>5 DEF PanelOK, m

\* A context leaves it.
LEMMA ApplyFocusOut ==
  ASSUME NEW v, PanelOK(v), NEW ic \in Ics
  PROVE  PanelOK(Apply(v, Cmd(ic, "FOCUS_OUT", NoArg)))
<1> DEFINE m == Cmd(ic, "FOCUS_OUT", NoArg)  l == Remember(v)
           x == [v EXCEPT !.last = l, !.on = FALSE, !.cur = NoIcid]
<1>1. m.cmd = "FOCUS_OUT" /\ m.ic = ic  BY DEF Cmd
<1>2. CASE Refuses(v, m)  BY <1>2, ApplyRefused DEF Deaf
<1>3. CASE ~Refuses(v, m)
  <2>1. ~v.fresh
    BY <1>1, <1>3, Constants DEF PanelOK, Refuses, HasUuid, HasFocus, FocusOnly
  <2>2. Effect(v, m) = x  BY <1>1 DEF Effect
  <2>3. Apply(v, m) = x  BY <1>3, <2>2 DEF Apply
  <2> HIDE DEF l
  <2>4. DOMAIN x = PanelFields /\ x.fresh = v.fresh  BY DEF PanelOK, PanelFields
  <2> HIDE DEF x, m
  <2>5. QED  BY <2>1, <2>3, <2>4 DEF PanelOK, m
<1>4. QED  BY <1>2, <1>3

\* What is shown changes for the focused context, and not before one has the focus.
Shows3 == {"TURN_ON", "TURN_OFF", "FACTORY_INFO"}
Shown(v, w, cmd, arg) ==
  /\ w.on = (IF cmd = "TURN_ON" THEN TRUE ELSE IF cmd = "TURN_OFF" THEN FALSE ELSE v.on)
  /\ w.info = (IF cmd = "FACTORY_INFO" THEN arg ELSE v.info)

LEMMA ApplyShow ==
  ASSUME NEW v, PanelOK(v), NEW ic \in Ics, NEW cmd \in Shows3, NEW arg
  PROVE  LET w == Apply(v, Cmd(ic, cmd, arg))
         IN  /\ PanelOK(w) /\ w.cur = v.cur /\ w.fresh = v.fresh
             /\ v.cur = ic => Shown(v, w, cmd, arg)
<1> DEFINE m == Cmd(ic, cmd, arg)  w == Apply(v, m)
<1>1. m.cmd = cmd /\ m.ic = ic /\ m.arg = arg  BY DEF Cmd
<1>2. CASE Refuses(v, m)
  <2>1. v.cur # ic  BY <1>1, <1>2 DEF Refuses, HasUuid, HasFocus, FocusOnly, Shows3
  <2>2. Deaf(v, w)  BY <1>2, ApplyRefused
  <2>3. QED  BY <2>1, <2>2 DEF Deaf
<1>3. CASE ~Refuses(v, m)
  <2> DEFINE x == Effect(v, m)
             o == IF cmd = "TURN_ON" THEN TRUE ELSE IF cmd = "TURN_OFF" THEN FALSE ELSE v.on
             f == IF cmd = "FACTORY_INFO" THEN arg ELSE v.info
  <2>1. w = x  BY <1>3 DEF Apply
  <2>2. /\ DOMAIN x = PanelFields /\ x.cur = v.cur /\ x.last = v.last /\ x.fresh = v.fresh
    BY <1>1 DEF Effect, PanelOK, PanelFields, Shows3
  <2>3. x.on = o /\ x.info = f
    <3>1. CASE cmd = "TURN_ON"  BY <1>1, <3>1 DEF Effect, PanelOK, PanelFields
    <3>2. CASE cmd = "TURN_OFF"  BY <1>1, <3>2 DEF Effect, PanelOK, PanelFields
    <3>3. CASE cmd = "FACTORY_INFO"  BY <1>1, <3>3 DEF Effect, PanelOK, PanelFields
    <3>4. QED  BY <3>1, <3>2, <3>3 DEF Shows3
  <2> HIDE DEF x, m
  <2>4. PanelOK(x)  BY <2>2 DEF PanelOK
  <2>5. Shown(v, x, cmd, arg)  BY <2>3 DEF Shown
  <2>6. QED  BY <2>1, <2>2, <2>4, <2>5 DEF m
<1>4. QED  BY <1>2, <1>3

LEMMA ApplyOK ==
  ASSUME NEW v, PanelOK(v), NEW ic \in Ics, NEW cmd \in Commands, NEW arg,
         cmd \in {"FOCUS_IN", "FOCUS_OUT"} => arg = NoArg
  PROVE  PanelOK(Apply(v, Cmd(ic, cmd, arg)))
<1>1. CASE cmd \in {"UPDATE", "HELPER", "REGISTER", "REMOVE"}
  BY <1>1, ApplyDeaf DEF Deaf
<1>2. CASE cmd = "FOCUS_IN"  BY <1>2, ApplyFocusIn
<1>3. CASE cmd = "FOCUS_OUT"  BY <1>3, ApplyFocusOut
<1>4. CASE cmd \in Shows3  BY <1>4, ApplyShow
<1>5. QED  BY <1>1, <1>2, <1>3, <1>4 DEF Commands, FocusOnly, Shows3

-----------------------------------------------------------------------------
(* What the panel will have made of everything said so far: View.          *)

View(p, c) == FoldLeft(Apply, p, c.wire \o c.trans)

\* A client that speaks: with no transaction open nothing waits to be sent.
Client(c) ==
  /\ DOMAIN c = PcFields /\ c.ref \in Nat /\ IsSeq(c.wire) /\ IsSeq(c.trans)
  /\ c.ref = 0 => c.trans = <<>>

LEMMA PutView ==
  ASSUME NEW c, Client(c), NEW ic, NEW cmd, NEW arg, NEW p
  PROVE  LET d == put(c, ic, cmd, arg)
         IN  /\ Client(d) /\ d.up = c.up /\ d.ref = c.ref /\ d.cur = c.cur
             /\ \/ View(p, d) = Apply(View(p, c), Cmd(ic, cmd, arg)) /\ Accepts(c, ic)
                \/ View(p, d) = View(p, c) /\ (Accepts(c, ic) => cmd \in {"UPDATE", "HELPER"})
<1> DEFINE d == put(c, ic, cmd, arg)  m == Cmd(ic, cmd, arg)
<1>1. m.cmd = cmd  BY DEF Cmd
<1>2. CASE ~Accepts(c, ic)  BY <1>2 DEF put
<1>3. CASE Accepts(c, ic) /\ Merged(c.trans, m)
  <2>1. d = c  BY <1>3 DEF put
  <2>2. cmd \in {"UPDATE", "HELPER"}  BY <1>1, <1>3 DEF Merged
  <2>3. QED  BY <2>1, <2>2
<1>4. CASE Accepts(c, ic) /\ ~Merged(c.trans, m)
  <2> DEFINE y == Append(c.trans, m)
  <2>1. d = [c EXCEPT !.trans = y]  BY <1>4 DEF put
  <2>2. IsSeq(y)  BY Appended DEF Client
  <2>3. c.wire \o y = Append(c.wire \o c.trans, m)
    <3> DEFINE w == c.wire  x == c.trans
    <3>1. IsSeq(w) /\ IsSeq(x)  BY DEF Client
    <3> HIDE DEF w, x, m
    <3>2. w \o Append(x, m) = Append(w \o x, m)  BY <3>1, ThenOne
    <3>3. QED  BY <3>2 DEF w, x
  <2> HIDE DEF y
  <2>4. /\ DOMAIN d = PcFields /\ d.up = c.up /\ d.ref = c.ref /\ d.cur = c.cur
        /\ d.wire = c.wire /\ d.trans = y
    BY <2>1 DEF Client, PcFields
  <2> HIDE DEF d
  <2>5. c.ref # 0  BY <1>4 DEF Accepts, Client
  <2>6. Client(d)  BY <2>2, <2>4, <2>5 DEF Client
  <2>7. IsSeq(c.wire \o c.trans)  BY Joined DEF Client
  <2>8. FoldLeft(Apply, p, Append(c.wire \o c.trans, m)) = Apply(View(p, c), m)
    BY <2>7, ReadAppended DEF View
  <2>9. View(p, d) = Apply(View(p, c), m)  BY <2>3, <2>4, <2>8 DEF View
  <2>10. QED  BY <1>4, <2>4, <2>6, <2>9 DEF d
<1>5. QED  BY <1>2, <1>3, <1>4

LEMMA PutClient ==
  ASSUME NEW c, Client(c), NEW ic, NEW cmd, NEW arg
  PROVE  LET d == put(c, ic, cmd, arg)
         IN  Client(d) /\ d.up = c.up /\ d.ref = c.ref /\ d.cur = c.cur
<1> DEFINE d == put(c, ic, cmd, arg)
<1>1. /\ Client(d) /\ d.up = c.up /\ d.ref = c.ref /\ d.cur = c.cur
      /\ \/ View(c, d) = Apply(View(c, c), Cmd(ic, cmd, arg)) /\ Accepts(c, ic)
         \/ View(c, d) = View(c, c) /\ (Accepts(c, ic) => cmd \in {"UPDATE", "HELPER"})
  BY PutView
<1>2. QED  BY <1>1

LEMMA PrepareView ==
  ASSUME NEW c, Client(c), NEW ic, NEW p
  PROVE  LET d == prepare(c, ic)
         IN  /\ Client(d) /\ d.up = c.up /\ View(p, d) = View(p, c)
             /\ c.up /\ c.ref = 0 => d.ref = 1 /\ d.cur = ic
<1> DEFINE d == prepare(c, ic)
<1>1. /\ DOMAIN d = PcFields /\ d.up = c.up /\ d.ref \in Nat /\ d.wire = c.wire
      /\ d.trans = c.trans /\ (d.ref = 0 => c.ref = 0)
  <2>1. CASE c.up /\ c.ref = 0
    <3> DEFINE e == <<>>
    <3>1. d = [c EXCEPT !.cur = ic, !.trans = e, !.ref = 1]  BY <2>1 DEF prepare
    <3>2. c.trans = e  BY <2>1 DEF Client
    <3> HIDE DEF e, d
    <3>3. QED  BY <2>1, <3>1, <3>2 DEF Client, PcFields
  <2>2. CASE ~(c.up /\ c.ref = 0) /\ c.up /\ c.cur = ic
    <3> DEFINE n == c.ref + 1
    <3>1. d = [c EXCEPT !.ref = n]  BY <2>2 DEF prepare
    <3>2. n \in Nat /\ n # 0  BY DEF Client
    <3> HIDE DEF n, d
    <3>3. QED  BY <3>1, <3>2 DEF Client, PcFields
  <2>3. CASE ~(c.up /\ c.ref = 0) /\ ~(c.up /\ c.cur = ic)  BY <2>3 DEF prepare, Client, PcFields
  <2>4. QED  BY <2>1, <2>2, <2>3
<1>a. c.up /\ c.ref = 0 => d.ref = 1 /\ d.cur = ic  BY DEF prepare, Client, PcFields
<1> HIDE DEF d
<1>2. Client(d)  BY <1>1 DEF Client
<1>3. View(p, d) = View(p, c)  BY <1>1 DEF View
<1>4. QED  BY <1>1, <1>a, <1>2, <1>3 DEF d

LEMMA SendView ==
  ASSUME NEW c, Client(c), NEW p
  PROVE  LET d == send(c)
         IN  /\ Client(d) /\ d.up = c.up /\ View(p, d) = View(p, c)
             /\ c.up /\ c.ref = 1 => d.ref = 0
<1> DEFINE d == send(c)  w == c.wire \o c.trans
<1>1. IsSeq(w)  BY Joined DEF Client
<1>2. CASE ~c.up \/ c.ref = 0  BY <1>2 DEF send
<1>3. CASE ~(~c.up \/ c.ref = 0) /\ c.ref > 1
  <2>1. d = [c EXCEPT !.ref = @ - 1]  BY <1>3 DEF send
  <2>2. /\ DOMAIN d = PcFields /\ d.up = c.up /\ d.ref \in Nat /\ d.wire = c.wire
        /\ d.trans = c.trans /\ d.ref # 0
    BY <1>3, <2>1 DEF Client, PcFields
  <2> HIDE DEF d
  <2>3. Client(d) /\ View(p, d) = View(p, c)  BY <2>2 DEF Client, View
  <2>4. QED  BY <1>3, <2>2, <2>3 DEF d
<1>4. CASE ~(~c.up \/ c.ref = 0) /\ ~(c.ref > 1)
  <2>1. d = [c EXCEPT !.ref = 0, !.cur = NoIcid, !.trans = <<>>, !.wire = w]  BY <1>4 DEF send
  <2> HIDE DEF w
  <2>2. /\ DOMAIN d = PcFields /\ d.up = c.up /\ d.ref = 0 /\ d.wire = w /\ d.trans = <<>>
    BY <2>1 DEF Client, PcFields
  <2> HIDE DEF d
  <2>3. w \o <<>> = w /\ IsSeq(<<>>)  BY <1>1, NothingJoined
  <2>4. Client(d)  BY <1>1, <2>2, <2>3 DEF Client
  <2>5. View(p, d) = View(p, c)  BY <2>2, <2>3 DEF View, w
  <2>6. QED  BY <2>2, <2>4, <2>5 DEF d
<1>5. QED  BY <1>2, <1>3, <1>4

-----------------------------------------------------------------------------
(* Whatever an operation says, the panel's session stays one.              *)

\* The connection stays, and a session stays a session once all is read.
Chats(c, d) ==
  /\ Client(d) /\ d.up = c.up
  /\ \A p : PanelOK(View(p, c)) => PanelOK(View(p, d))

\* From s to t nothing but commands were put.
Says(s, t) == Quiet(s, t) /\ Good(t) /\ Chats(s.pc, t.pc)

LEMMA ChatsSelf ==
  ASSUME NEW c, Client(c)
  PROVE  Chats(c, c)
BY DEF Chats

LEMMA ChatsTrans ==
  ASSUME NEW c, NEW d, NEW e, Chats(c, d), Chats(d, e)
  PROVE  Chats(c, e)
BY DEF Chats

LEMMA SaysTrans ==
  ASSUME NEW s, NEW t, NEW r, Says(s, t), Says(t, r)
  PROVE  Says(s, r)
BY QuietTrans, ChatsTrans DEF Says

LEMMA SaysSelf ==
  ASSUME NEW s, Good(s), Client(s.pc)
  PROVE  Says(s, s)
BY QuietSelf, ChatsSelf DEF Says

\* Focus commands have no argument.
Fitting(ic, cmd, arg) ==
  ic \in Ics /\ cmd \in Commands /\ (cmd \in {"FOCUS_IN", "FOCUS_OUT"} => arg = NoArg)

LEMMA PutSays ==
  ASSUME NEW s, Good(s), Client(s.pc), NEW ic, NEW cmd, NEW arg, Fitting(ic, cmd, arg)
  PROVE  LET t == Put(s, ic, cmd, arg)
         IN  Says(s, t) /\ t.pc = put(s.pc, ic, cmd, arg)
<1> DEFINE t == Put(s, ic, cmd, arg)  c == s.pc  d == put(s.pc, ic, cmd, arg)
<1>1. t.pc = d  BY DEF Put, Good, Gt, Fields
<1>2. Quiet(s, t) /\ Good(t)  BY PutQuiet
<1> HIDE DEF t
<1>3. Client(d) /\ d.up = c.up  BY PutClient
<1>4. ASSUME NEW p, PanelOK(View(p, c)) PROVE PanelOK(View(p, d))
  <2>1. View(p, d) = Apply(View(p, c), Cmd(ic, cmd, arg)) \/ View(p, d) = View(p, c)
    BY PutView
  <2> HIDE DEF c, d
  <2>2. PanelOK(Apply(View(p, c), Cmd(ic, cmd, arg)))  BY <1>4, ApplyOK DEF Fitting
  <2>3. QED  BY <1>4, <2>1, <2>2
<1>5. Chats(c, d)  BY <1>3, <1>4 DEF Chats
<1>6. QED  BY <1>1, <1>2, <1>5 DEF Says, t

LEMMA ToldSays ==
  ASSUME NEW s, NEW t, Says(s, t), NEW ic, NEW cmd, NEW arg, Fitting(ic, cmd, arg)
  PROVE  Says(s, Put(t, ic, cmd, arg))
<1>1. Good(t) /\ Client(t.pc)  BY DEF Says, Chats
<1>2. QED  BY <1>1, PutSays, SaysTrans

LEMMA Words ==
  /\ FocusOnly \cup {"REGISTER", "REMOVE", "FOCUS_IN", "HELPER"} = Commands
  /\ {"TURN_ON", "TURN_OFF", "FACTORY_INFO", "UPDATE", "FOCUS_OUT"} = FocusOnly
BY DEF Commands, FocusOnly

LEMMA InfoSays ==
  ASSUME NEW s, NEW t, Says(s, t), NEW ic \in Ics
  PROVE  Says(s, panel_req_update_factory_info(t, ic))
<1> DEFINE a == IF t.ics[ic].on THEN UuidOf(t, ic) ELSE NoArg
<1>1. Fitting(ic, "FACTORY_INFO", a)  BY Words DEF Fitting
<1>2. panel_req_update_factory_info(t, ic) =
        IF t.focus = ic THEN Put(t, ic, "FACTORY_INFO", a) ELSE t
  BY DEF panel_req_update_factory_info
<1> HIDE DEF a
<1>3. QED  BY <1>1, <1>2, ToldSays

LEMMA ShowSays ==
  ASSUME NEW s, Good(s), Client(s.pc), NEW ic \in Ics
  PROVE  Says(s, Show(s, ic))
<1> DEFINE a == Put(s, ic, "FOCUS_IN", NoArg)  b == Put(a, ic, "UPDATE", NoArg)
           d == panel_req_update_factory_info(b, ic)
           e == Put(d, ic, "TURN_ON", NoArg)
<1>1. Show(s, ic) = IF s.ics[ic].on THEN Put(e, ic, "UPDATE", NoArg) ELSE Put(d, ic, "TURN_OFF", NoArg)
  BY DEF Show, panel_req_focus_in
<1>2. /\ Fitting(ic, "FOCUS_IN", NoArg) /\ Fitting(ic, "UPDATE", NoArg)
      /\ Fitting(ic, "TURN_ON", NoArg) /\ Fitting(ic, "TURN_OFF", NoArg)
  BY Words DEF Fitting
<1>3. Says(s, a)  BY <1>2, SaysSelf, ToldSays
<1> HIDE DEF a
<1>4. Says(s, b)  BY <1>2, <1>3, ToldSays
<1> HIDE DEF b
<1>5. Says(s, d)  BY <1>4, InfoSays
<1> HIDE DEF d
<1>6. Says(s, e)  BY <1>2, <1>5, ToldSays
<1> HIDE DEF e
<1>7. QED  BY <1>1, <1>2, <1>5, <1>6, ToldSays

\* What the operations that also change the data do to the client.
LEMMA ReplacePc ==
  ASSUME NEW s, Good(s), NEW ic, NEW u
  PROVE  ReplaceInstance(s, ic, u).pc = put(s.pc, ic, "REGISTER", u)
<1> DEFINE n  == Free([s EXCEPT !.ics[ic].si = NoInst])
           s1 == [create_instance(s, n, u) EXCEPT !.ics[ic].si = n, !.deff = u]
           s2 == set_frontend_data(s1, ic)
<1>1. ReplaceInstance(s, ic, u) = Put(s2, ic, "REGISTER", u)  BY DEF ReplaceInstance
<1> HIDE DEF n
<1>2. DOMAIN s1 = Fields /\ s1.pc = s.pc  BY DEF create_instance, Good, Gt, Fields
<1> HIDE DEF s1
<1>3. DOMAIN s2 = Fields /\ s2.pc = s.pc  BY <1>2 DEF set_frontend_data, Fields
<1> HIDE DEF s2
<1>4. QED  BY <1>1, <1>3 DEF Put, Fields

LEMMA TakePc ==
  ASSUME NEW s, Good(s), NEW ic \in Live(s)
  PROVE  /\ s.shared => \E u : take_focus(s, ic).pc = put(prepare(s.pc, ic), ic, "REGISTER", u)
         /\ ~s.shared => take_focus(s, ic).pc = prepare(s.pc, ic)
         /\ take_focus(s, ic).focus = ic
<1> DEFINE s0 == [s EXCEPT !.focus = ic]
           s1 == [s0 EXCEPT !.pc = prepare(@, ic)]
           s2 == IF s.shared THEN TakeShared(s1, ic) ELSE s1
           s3 == set_frontend_data(s2, ic)
           u  == UuidOf(s3, ic)
           t  == take_focus(s, ic)
<1>1. t = IF s.shared THEN Put(s3, ic, "REGISTER", u) ELSE s3
  <2>1. [s EXCEPT !.focus = ic, !.pc = prepare(@, ic)] = s1  BY DEF Good, Gt, Fields
  <2>2. QED  BY <2>1 DEF take_focus
<1> HIDE DEF t
<1>2. Keeps(s, s0) /\ s0.pc = s.pc /\ Good(s0) /\ s0.focus = ic  BY FocusGood DEF Keeps
<1> HIDE DEF s0
<1>3. Keeps(s0, s1) /\ Good(s1) /\ s1.focus = ic  BY <1>2, PrepareGood DEF Keeps
<1>4. s1.pc = prepare(s.pc, ic)  BY <1>2 DEF Good, Gt, Fields
<1> HIDE DEF s1
<1>5. ic \in Live(s1) /\ s1.shared = s.shared  BY <1>2, <1>3 DEF Keeps
<1>6. Keeps(s1, s2) /\ s2.pc = s1.pc /\ s2.focus = ic
  <2>1. CASE s.shared  BY <1>3, <1>5, <2>1, TakeSharedGood
  <2>2. CASE ~s.shared  BY <1>3, <2>2 DEF Keeps
  <2>3. QED  BY <2>1, <2>2
<1>7. Good(s2) /\ ic \in Live(s2)  BY <1>5, <1>6 DEF Keeps
<1> HIDE DEF s2
<1>8. Keeps(s2, s3) /\ s3.pc = s2.pc /\ s3.focus = ic  BY <1>6, <1>7, PointGood
<1> HIDE DEF s3, u
<1>9. DOMAIN s3 = Fields  BY <1>8 DEF Keeps, Good, Gt
<1>10. Put(s3, ic, "REGISTER", u).pc = put(s3.pc, ic, "REGISTER", u)
       /\ Put(s3, ic, "REGISTER", u).focus = ic
  BY <1>8, <1>9 DEF Put, Fields
<1>11. s3.pc = prepare(s.pc, ic)  BY <1>4, <1>6, <1>8
<1>12. QED  BY <1>1, <1>8, <1>10, <1>11 DEF t

LEMMA SwitchPc ==
  ASSUME NEW s, Good(s), NEW ic \in Live(s)
  PROVE  LET t == [s EXCEPT !.ics[ic].on = TRUE]
             r == [s EXCEPT !.ics[ic].on = FALSE]
         IN  /\ Good(t) /\ t.pc = s.pc /\ t.focus = s.focus
             /\ Good(r) /\ r.pc = s.pc /\ r.focus = s.focus
BY SwitchGood DEF Keeps

-----------------------------------------------------------------------------
(* Every operation.                                                        *)

LEMMA RunChats ==
  ASSUME NEW s, Good(s), Client(s.pc), NEW o \in Ops, o.f # "ret" => o.ic \in Live(s)
  PROVE  Chats(s.pc, Run(s, o).pc)
<1> DEFINE t == Run(s, o)  ic == o.ic
<1>a. o.f \in Names /\ ic \in Ics  BY DEF Ops
<1>b. Chats(s.pc, s.pc)  BY ChatsSelf
<1>c. ASSUME NEW d, Client(d) PROVE Chats(d, send(d)) /\ \A i : Chats(d, prepare(d, i))
  BY <1>c, SendView, PrepareView DEF Chats
<1>d. /\ Fitting(ic, "TURN_OFF", NoArg) /\ Fitting(ic, "FOCUS_OUT", NoArg)
      /\ Fitting(ic, "REMOVE", NoArg) /\ Fitting(ic, "HELPER", NoArg)
      /\ \A u : Fitting(ic, "REGISTER", u)
  BY <1>a, Words DEF Fitting
<1>e. DOMAIN s = Fields  BY DEF Good, Gt
<1> HIDE DEF ic
<1>1. CASE o.f = "finalize" \/ (o.f \in {"focus_out", "reset"} /\ s.focus = o.ic)
  <2>1. t = [s EXCEPT !.pc = prepare(@, o.ic)]  BY <1>1 DEF Run
  <2>2. t.pc = prepare(s.pc, o.ic)  BY <1>e, <2>1 DEF Fields
  <2>3. QED  BY <1>c, <2>2
<1>2. CASE o.f = "take_focus"
  <2>1. t = take_focus(s, ic) /\ ic \in Live(s)  BY <1>2 DEF Run, ic
  <2> DEFINE d == prepare(s.pc, ic)
  <2>2. Chats(s.pc, d) /\ Client(d)  BY <1>c DEF Chats
  <2> HIDE DEF d
  <2>3. ASSUME NEW u PROVE Chats(d, put(d, ic, "REGISTER", u))
    <3>1. Client(put(d, ic, "REGISTER", u)) /\ put(d, ic, "REGISTER", u).up = d.up
      BY <2>2, PutClient
    <3>2. ASSUME NEW p, PanelOK(View(p, d)) PROVE PanelOK(View(p, put(d, ic, "REGISTER", u)))
      <4>1. \/ View(p, put(d, ic, "REGISTER", u)) = Apply(View(p, d), Cmd(ic, "REGISTER", u))
            \/ View(p, put(d, ic, "REGISTER", u)) = View(p, d)
        BY <2>2, PutView
      <4>2. PanelOK(Apply(View(p, d), Cmd(ic, "REGISTER", u)))  BY <3>2, ApplyDeaf DEF Deaf
      <4>3. QED  BY <3>2, <4>1, <4>2
    <3>3. QED  BY <3>1, <3>2 DEF Chats
  <2>4. t.pc = d \/ \E u : t.pc = put(d, ic, "REGISTER", u)
    BY <2>1, TakePc DEF d
  <2>5. QED  BY <2>2, <2>3, <2>4, ChatsTrans
<1>3. CASE o.f = "send"
  <2>1. t = [s EXCEPT !.pc = send(@)]  BY <1>3 DEF Run
  <2>2. t.pc = send(s.pc)  BY <1>e, <2>1 DEF Fields
  <2>3. QED  BY <1>c, <2>2
<1>4. CASE o.f = "out"
  <2> DEFINE s1 == Put(Put(s, ic, "TURN_OFF", NoArg), ic, "FOCUS_OUT", NoArg)
  <2>1. t = [s1 EXCEPT !.pc = send(@), !.focus = NoIcid]  BY <1>4 DEF Run, Out, ic
  <2>2. Says(s, s1)  BY <1>d, SaysSelf, ToldSays
  <2> HIDE DEF s1
  <2>3. Chats(s.pc, s1.pc) /\ Client(s1.pc) /\ DOMAIN s1 = Fields
    BY <2>2 DEF Says, Chats, Quiet
  <2>4. t.pc = send(s1.pc)  BY <2>1, <2>3 DEF Fields
  <2>5. QED  BY <1>c, <2>3, <2>4, ChatsTrans
<1>5. CASE o.f = "dying"
  <2> DEFINE s1 == IF s.ics[ic].si # s.def /\ Data(s, ic) = ic THEN Put(s, ic, "HELPER", NoArg)
                   ELSE s
             s2 == IF s.focus = ic
                     THEN Put(Put(s1, ic, "TURN_OFF", NoArg), ic, "FOCUS_OUT", NoArg)
                   ELSE s1
             s3 == Put(s2, ic, "REMOVE", NoArg)
  <2>1. t = [s3 EXCEPT !.pc = send(@), !.ics[ic] = NoIC, !.focus = IF @ = ic THEN NoIcid ELSE @]
    BY <1>5 DEF Run, Dying, ic
  <2>2. Says(s, s1)  BY <1>d, SaysSelf, ToldSays
  <2> HIDE DEF s1
  <2>3. Says(s, s2)  BY <1>d, <2>2, ToldSays
  <2> HIDE DEF s2
  <2>4. Says(s, s3)  BY <1>d, <2>3, ToldSays
  <2> HIDE DEF s3
  <2>5. Chats(s.pc, s3.pc) /\ Client(s3.pc) /\ DOMAIN s3 = Fields
    BY <2>4 DEF Says, Chats, Quiet
  <2>6. t.pc = send(s3.pc)  BY <2>1, <2>5 DEF Fields
  <2>7. QED  BY <1>c, <2>5, <2>6, ChatsTrans
<1>6. CASE o.f = "show"
  <2>1. t = Show(s, ic)  BY <1>6 DEF Run, ic
  <2>2. QED  BY <1>a, <2>1, ShowSays DEF Says
<1>7. CASE o.f = "turn_on"
  <2> DEFINE s1 == [s EXCEPT !.ics[ic].on = TRUE]
  <2>1. t = IF s.ics[ic].on THEN s ELSE IF s.focus = ic THEN Show(s1, ic) ELSE s1
    BY <1>7 DEF Run, turn_on, ic
  <2>2. Good(s1) /\ s1.pc = s.pc  BY <1>7, SwitchPc DEF ic
  <2> HIDE DEF s1
  <2>3. Chats(s1.pc, Show(s1, ic).pc)  BY <1>a, <2>2, ShowSays DEF Says
  <2>4. QED  BY <1>b, <2>1, <2>2, <2>3
<1>8. CASE o.f = "turn_off" /\ s.ics[o.ic].on
  <2>1. t.pc = s.pc  BY <1>8, <1>e DEF Run, Fields
  <2>2. QED  BY <1>b, <2>1
<1>9. CASE o.f = "record"
  <2>1. t.pc = s.pc  BY <1>9, <1>e DEF Run, Record, Fields
  <2>2. QED  BY <1>b, <2>1
<1>10. CASE o.f = "turned_off"
  <2>1. t = Put(panel_req_update_factory_info(s, ic), ic, "TURN_OFF", NoArg)
    BY <1>10 DEF Run, ic
  <2>2. QED  BY <1>a, <1>d, <2>1, SaysSelf, InfoSays, ToldSays DEF Says
<1>11. CASE o.f = "replace"
  <2>1. t = ReplaceInstance(s, ic, o.u)  BY <1>11 DEF Run, ic
  <2>2. t.pc = put(s.pc, ic, "REGISTER", o.u)  BY <2>1, ReplacePc
  <2>3. Chats(s.pc, put(s.pc, ic, "REGISTER", o.u))  BY <1>d, PutSays DEF Says
  <2>4. QED  BY <2>2, <2>3
<1>12. CASE o.f = "share"
  <2>1. t = Share(s, ic) /\ ic \in Live(s)  BY <1>12 DEF Run, ic
  <2>2. t.pc = s.pc  BY <2>1, ShareGood
  <2>3. QED  BY <1>b, <2>2
<1>13. CASE o.f = "emit"
  <2>1. t = IF s.focus = Data(s, ic) /\ s.focus # NoIcid THEN Put(s, s.focus, "UPDATE", NoArg) ELSE s
    BY <1>13 DEF Run, ic
  <2>2. s.focus # NoIcid => Fitting(s.focus, "UPDATE", NoArg)
    BY Words DEF Fitting, Good, Gt
  <2>3. QED  BY <1>b, <2>1, <2>2, PutSays DEF Says
<1>14. CASE \/ o.f \in {"focus_in", "key", "change", "call", "engine", "fallback", "ret"}
            \/ o.f \in {"focus_out", "reset"} /\ s.focus # o.ic
            \/ o.f = "turn_off" /\ ~s.ics[o.ic].on
  <2>1. t = s  BY <1>14 DEF Run
  <2>2. QED  BY <1>b, <2>1
<1>15. QED
  BY <1>a, <1>1, <1>2, <1>3, <1>4, <1>5, <1>6, <1>7, <1>8, <1>9, <1>10, <1>11, <1>12, <1>13,
     <1>14 DEF Names, Payers

-----------------------------------------------------------------------------
(* The operations of one handler that no other was nested in.              *)

\* The operations of a handler once its transaction is open, which its last
\* operation, a send, closes.
Plain == {"engine", "show", "turn_on", "turn_off", "turned_off", "record", "key", "change",
          "replace", "share", "call", "fallback"}

\* Operation f is still to be done, and none but those of F before it; Switches
\* may stand before the one that replaces the engine: they turn it off first.
Has(q, f)       == \E k \in 1..Len(q) : q[k].f = f
Before(q, f, F) == \A k \in 1..Len(q) : q[k].f = f => \A j \in 1..(k - 1) : q[j].f \in F
Switches == {"turn_off", "engine", "turned_off", "record"}

\* An operation of context X, or a call of an instance, whosever it is.
Mine(o, X) == o.ic = X \/ o.f = "engine"

\* Operations of one context; the last one closes its transaction.
Script(q, X) ==
  /\ q \in Seq(Ops) /\ q # <<>>
  /\ \A k \in 1..Len(q) : Mine(q[k], X)
  /\ q[Len(q)].f \in Payers /\ \A k \in 1..(Len(q) - 1) : q[k].f \in Plain
  /\ Before(q, "show", {"engine"}) /\ Before(q, "turned_off", {"engine"})
  /\ Before(q, "replace", Switches)

\* Operation o may stand before those in q.
Leads(o, q, X) ==
  /\ o \in Ops /\ Mine(o, X) /\ o.f \in Plain
  /\ Has(q, "show") \/ Has(q, "turned_off") => o.f = "engine"
  /\ Has(q, "replace") => o.f \in Switches

LEMMA PlainNames ==
  /\ Plain \subseteq Names /\ Plain \cap Payers = {}
  /\ "show" \notin Payers /\ "turned_off" \notin Payers /\ "replace" \notin Payers
BY DEF Plain, Names, Payers

\* A sequence with one operation more at its head.
LEMMA Consed ==
  ASSUME NEW o \in Ops, NEW u \in Seq(Ops)
  PROVE  LET q == <<o>> \o u
         IN  /\ q \in Seq(Ops) /\ q # <<>> /\ Len(q) = Len(u) + 1 /\ Len(u) \in Nat
             /\ q[1] = o /\ \A k \in 1..Len(u) : q[k + 1] = u[k]
             /\ Head(q) = o /\ Tail(q) = u
<1> DEFINE y == <<o>>  q == y \o u
<1>1. y \in Seq(Ops) /\ Len(y) = 1 /\ y[1] = o  OBVIOUS
<1>2. Len(u) \in Nat  OBVIOUS
<1> HIDE DEF y
<1>3. /\ q \in Seq(Ops) /\ Len(q) = Len(y) + Len(u)
      /\ \A k \in 1..(Len(y) + Len(u)) : q[k] = IF k <= Len(y) THEN y[k] ELSE u[k - Len(y)]
  BY <1>1, ConcatProperties
<1> HIDE DEF q
<1>4. q[1] = o /\ \A k \in 1..Len(u) : q[k + 1] = u[k]  BY <1>1, <1>2, <1>3
<1>5. Len(q) = Len(u) + 1 /\ q # <<>>  BY <1>1, <1>2, <1>3
<1>6. Head(q) = o  BY <1>3, <1>4, <1>5
<1>7. Tail(q) \in Seq(Ops) /\ Len(Tail(q)) = Len(u)
      /\ \A k \in 1..Len(u) : Tail(q)[k] = q[k + 1]
  BY <1>2, <1>3, <1>5
<1>8. Tail(q) = u
  <2>1. \A k \in 1..Len(u) : Tail(q)[k] = u[k]  BY <1>4, <1>7
  <2>2. QED  BY <1>7, <2>1, SeqEqual
<1>9. QED  BY <1>2, <1>3, <1>4, <1>5, <1>6, <1>8 DEF q, y

LEMMA ConsHead ==
  ASSUME NEW q \in Seq(Ops), q # <<>>
  PROVE  Head(q) \in Ops /\ Tail(q) \in Seq(Ops) /\ q = <<Head(q)>> \o Tail(q)
<1> DEFINE o == Head(q)  u == Tail(q)  y == <<o>>
<1>1. o \in Ops /\ u \in Seq(Ops) /\ o = q[1] /\ Len(q) = Len(u) + 1 /\ Len(u) \in Nat
      /\ \A k \in 1..Len(u) : u[k] = q[k + 1]
  OBVIOUS
<1> HIDE DEF o, u
<1> DEFINE r == y \o u
<1>2. /\ r \in Seq(Ops) /\ Len(r) = Len(u) + 1 /\ r[1] = o
      /\ \A k \in 1..Len(u) : r[k + 1] = u[k]
  BY <1>1, Consed
<1> HIDE DEF r
<1>3. ASSUME NEW k \in 1..Len(q) PROVE q[k] = r[k]
  <2>1. CASE k = 1  BY <1>1, <1>2, <2>1
  <2>2. CASE k # 1
    <3>1. k - 1 \in 1..Len(u) /\ (k - 1) + 1 = k  BY <1>1, <2>2
    <3>2. r[(k - 1) + 1] = u[k - 1] /\ u[k - 1] = q[(k - 1) + 1]  BY <1>1, <1>2, <3>1
    <3>3. QED  BY <3>1, <3>2
  <2>3. QED  BY <2>1, <2>2
<1>4. q = r  BY <1>1, <1>2, <1>3, SeqEqual
<1>5. QED  BY <1>1, <1>4 DEF o, u, r

LEMMA HasCons ==
  ASSUME NEW o \in Ops, NEW u \in Seq(Ops), NEW f
  PROVE  Has(<<o>> \o u, f) <=> o.f = f \/ Has(u, f)
<1> DEFINE q == <<o>> \o u
<1>1. /\ Len(q) = Len(u) + 1 /\ Len(u) \in Nat /\ q[1] = o
      /\ \A k \in 1..Len(u) : q[k + 1] = u[k]
  BY Consed
<1> HIDE DEF q
<1>2. ASSUME Has(q, f) PROVE o.f = f \/ Has(u, f)
  <2>1. PICK k \in 1..Len(q) : q[k].f = f  BY <1>2 DEF Has
  <2>2. CASE k = 1  BY <1>1, <2>1, <2>2
  <2>3. CASE k # 1
    <3>1. k - 1 \in 1..Len(u) /\ (k - 1) + 1 = k  BY <1>1, <2>3
    <3>2. u[k - 1] = q[k]  BY <1>1, <3>1
    <3>3. QED  BY <2>1, <3>1, <3>2 DEF Has
  <2>4. QED  BY <2>2, <2>3
<1>3. ASSUME o.f = f PROVE Has(q, f)
  <2>1. 1 \in 1..Len(q)  BY <1>1
  <2>2. QED  BY <1>1, <1>3, <2>1 DEF Has
<1>4. ASSUME Has(u, f) PROVE Has(q, f)
  <2>1. PICK k \in 1..Len(u) : u[k].f = f  BY <1>4 DEF Has
  <2>2. k + 1 \in 1..Len(q) /\ q[k + 1] = u[k]  BY <1>1, <2>1
  <2>3. QED  BY <2>1, <2>2 DEF Has
<1>5. QED  BY <1>2, <1>3, <1>4 DEF q

LEMMA BeforeCons ==
  ASSUME NEW o \in Ops, NEW u \in Seq(Ops), NEW f, NEW F
  PROVE  Before(<<o>> \o u, f, F) <=> Before(u, f, F) /\ (Has(u, f) => o.f \in F)
<1> DEFINE q == <<o>> \o u
<1>1. /\ Len(q) = Len(u) + 1 /\ Len(u) \in Nat /\ q[1] = o
      /\ \A k \in 1..Len(u) : q[k + 1] = u[k]
  BY Consed
<1> HIDE DEF q
<1>2. ASSUME Before(q, f, F) PROVE Before(u, f, F) /\ (Has(u, f) => o.f \in F)
  <2>1. ASSUME NEW k \in 1..Len(u), u[k].f = f
        PROVE  o.f \in F /\ \A j \in 1..(k - 1) : u[j].f \in F
    <3>1. k + 1 \in 1..Len(q) /\ q[k + 1].f = f  BY <1>1, <2>1
    <3>2. \A j \in 1..k : q[j].f \in F
      <4>1. (k + 1) - 1 = k  BY <1>1
      <4>2. QED  BY <1>2, <3>1, <4>1 DEF Before
    <3>3. 1 \in 1..k  BY <1>1
    <3>4. ASSUME NEW j \in 1..(k - 1) PROVE u[j].f \in F
      <4>1. j + 1 \in 1..k /\ j \in 1..Len(u)  BY <1>1
      <4>2. q[j + 1].f \in F /\ q[j + 1] = u[j]  BY <1>1, <3>2, <4>1
      <4>3. QED  BY <4>2
    <3>5. QED  BY <1>1, <3>2, <3>3, <3>4
  <2>2. QED  BY <2>1 DEF Before, Has
<1>3. ASSUME Before(u, f, F), Has(u, f) => o.f \in F PROVE Before(q, f, F)
  <2>1. SUFFICES ASSUME NEW k \in 1..Len(q), q[k].f = f, NEW j \in 1..(k - 1) PROVE q[j].f \in F
    BY DEF Before
  <2>2. k # 1 /\ k - 1 \in 1..Len(u) /\ (k - 1) + 1 = k  BY <1>1, <2>1
  <2>3. u[k - 1] = q[k]  BY <1>1, <2>2
  <2>4. CASE j = 1
    <3>1. Has(u, f)  BY <2>1, <2>2, <2>3 DEF Has
    <3>2. QED  BY <1>1, <1>3, <2>4, <3>1
  <2>5. CASE j # 1
    <3>1. j - 1 \in 1..((k - 1) - 1) /\ j - 1 \in 1..Len(u) /\ (j - 1) + 1 = j
      BY <1>1, <2>2, <2>5
    <3>2. u[j - 1] = q[j]  BY <1>1, <3>1
    <3>3. u[j - 1].f \in F  BY <1>3, <2>1, <2>2, <2>3, <3>1 DEF Before
    <3>4. QED  BY <3>2, <3>3
  <2>6. QED  BY <2>4, <2>5
<1>4. QED  BY <1>2, <1>3 DEF q

\* An operation put before a script makes one if it may lead it, and no other.
LEMMA ScriptCons ==
  ASSUME NEW o \in Ops, NEW u \in Seq(Ops), u # <<>>, NEW X
  PROVE  Script(<<o>> \o u, X) <=> Script(u, X) /\ Leads(o, u, X)
<1> DEFINE q == <<o>> \o u
<1>1. /\ q \in Seq(Ops) /\ q # <<>> /\ Len(q) = Len(u) + 1 /\ Len(u) \in Nat /\ q[1] = o
      /\ \A k \in 1..Len(u) : q[k + 1] = u[k]
  BY Consed
<1>2. Len(u) >= 1  OBVIOUS
<1>3. /\ Before(q, "show", {"engine"}) <=>
           Before(u, "show", {"engine"}) /\ (Has(u, "show") => o.f \in {"engine"})
      /\ Before(q, "turned_off", {"engine"}) <=>
           Before(u, "turned_off", {"engine"}) /\ (Has(u, "turned_off") => o.f \in {"engine"})
      /\ Before(q, "replace", Switches) <=>
           Before(u, "replace", Switches) /\ (Has(u, "replace") => o.f \in Switches)
  BY BeforeCons
<1> HIDE DEF q
<1>4. q[Len(q)] = u[Len(u)]  BY <1>1, <1>2
<1>5. (\A k \in 1..Len(q) : Mine(q[k], X)) <=> Mine(o, X) /\ \A k \in 1..Len(u) : Mine(u[k], X)
  <2>1. ASSUME \A k \in 1..Len(q) : Mine(q[k], X)
        PROVE  Mine(o, X) /\ \A k \in 1..Len(u) : Mine(u[k], X)
    <3>1. 1 \in 1..Len(q) /\ \A k \in 1..Len(u) : k + 1 \in 1..Len(q)  BY <1>1
    <3>2. QED  BY <1>1, <2>1, <3>1
  <2>2. ASSUME Mine(o, X), \A k \in 1..Len(u) : Mine(u[k], X), NEW k \in 1..Len(q) PROVE Mine(q[k], X)
    <3>1. CASE k = 1  BY <1>1, <2>2, <3>1
    <3>2. CASE k # 1
      <4>1. k - 1 \in 1..Len(u) /\ (k - 1) + 1 = k  BY <1>1, <3>2
      <4>2. u[k - 1] = q[k]  BY <1>1, <4>1
      <4>3. QED  BY <2>2, <4>1, <4>2
    <3>3. QED  BY <3>1, <3>2
  <2>3. QED  BY <2>1, <2>2
<1>6. (\A k \in 1..(Len(q) - 1) : q[k].f \in Plain)
      <=> o.f \in Plain /\ \A k \in 1..(Len(u) - 1) : u[k].f \in Plain
  <2>1. ASSUME \A k \in 1..(Len(q) - 1) : q[k].f \in Plain
        PROVE  o.f \in Plain /\ \A k \in 1..(Len(u) - 1) : u[k].f \in Plain
    <3>1. 1 \in 1..(Len(q) - 1) /\ \A k \in 1..(Len(u) - 1) : k + 1 \in 1..(Len(q) - 1) /\ k \in 1..Len(u)
      BY <1>1, <1>2
    <3>2. QED  BY <1>1, <2>1, <3>1
  <2>2. ASSUME o.f \in Plain, \A k \in 1..(Len(u) - 1) : u[k].f \in Plain,
               NEW k \in 1..(Len(q) - 1)
        PROVE  q[k].f \in Plain
    <3>1. CASE k = 1  BY <1>1, <2>2, <3>1
    <3>2. CASE k # 1
      <4>1. k - 1 \in 1..(Len(u) - 1) /\ k - 1 \in 1..Len(u) /\ (k - 1) + 1 = k
        BY <1>1, <1>2, <3>2
      <4>2. u[k - 1] = q[k]  BY <1>1, <4>1
      <4>3. QED  BY <2>2, <4>1, <4>2
    <3>3. QED  BY <3>1, <3>2
  <2>3. QED  BY <2>1, <2>2
<1>7. Script(q, X) <=> Script(u, X) /\ Leads(o, u, X)
  BY <1>1, <1>3, <1>4, <1>5, <1>6 DEF Script, Leads
<1>8. QED  BY <1>7 DEF q

\* The last operation.
LEMMA ScriptOne ==
  ASSUME NEW o \in Ops, NEW X
  PROVE  /\ Script(<<o>>, X) <=> o.ic = X /\ o.f \in Payers
         /\ \A f : Has(<<o>>, f) <=> o.f = f
<1> DEFINE q == <<o>>
<1>1. q \in Seq(Ops) /\ q # <<>> /\ Len(q) = 1 /\ q[1] = o  OBVIOUS
<1> HIDE DEF q
<1>2. \A k \in 1..Len(q) : k = 1  BY <1>1
<1>3. \A k \in 1..(Len(q) - 1) : FALSE  BY <1>1
<1>4. \A f, F : Before(q, f, F)
  <2>1. \A k \in 1..Len(q) : \A j \in 1..(k - 1) : FALSE  BY <1>1
  <2>2. QED  BY <2>1 DEF Before
<1>5. 1 \in 1..Len(q)  BY <1>1
<1>a. o.f \in Payers => o.f # "engine"  BY DEF Payers
<1>6. Script(q, X) <=> o.ic = X /\ o.f \in Payers
  BY <1>1, <1>2, <1>3, <1>4, <1>5, <1>a DEF Script, Mine
<1>7. \A f : Has(q, f) <=> o.f = f  BY <1>1, <1>2, <1>5 DEF Has
<1>8. QED  BY <1>6, <1>7 DEF q

LEMMA NothingThere ==
  /\ \A X : ~Script(<<>>, X)
  /\ \A f : ~Has(<<>>, f)
<1>1. Len(<<>>) = 0  OBVIOUS
<1>2. QED  BY <1>1 DEF Script, Has

-----------------------------------------------------------------------------
(* The arrival of the focus, and what a script has still to say.           *)

\* The focus arrives: the context that had it is focused out first.
Arriving(q) ==
  /\ q \in Seq(Ops) /\ q # <<>> /\ q[Len(q)].f = "take_focus"
  /\ \A k \in 1..(Len(q) - 1) : q[k].f \in {"focus_out", "engine", "out"}

LEMMA ArrivingCons ==
  ASSUME NEW o \in Ops, NEW u \in Seq(Ops), u # <<>>
  PROVE  Arriving(<<o>> \o u) <=> Arriving(u) /\ o.f \in {"focus_out", "engine", "out"}
<1> DEFINE q == <<o>> \o u  F == {"focus_out", "engine", "out"}
<1>1. /\ q \in Seq(Ops) /\ q # <<>> /\ Len(q) = Len(u) + 1 /\ Len(u) \in Nat /\ q[1] = o
      /\ \A k \in 1..Len(u) : q[k + 1] = u[k]
  BY Consed
<1>2. Len(u) >= 1  OBVIOUS
<1> HIDE DEF q
<1>3. q[Len(q)] = u[Len(u)]  BY <1>1, <1>2
<1>4. (\A k \in 1..(Len(q) - 1) : q[k].f \in F)
      <=> o.f \in F /\ \A k \in 1..(Len(u) - 1) : u[k].f \in F
  <2> HIDE DEF F
  <2>1. ASSUME \A k \in 1..(Len(q) - 1) : q[k].f \in F
        PROVE  o.f \in F /\ \A k \in 1..(Len(u) - 1) : u[k].f \in F
    <3>1. 1 \in 1..(Len(q) - 1) /\ \A k \in 1..(Len(u) - 1) : k + 1 \in 1..(Len(q) - 1) /\ k \in 1..Len(u)
      BY <1>1, <1>2
    <3>2. QED  BY <1>1, <2>1, <3>1
  <2>2. ASSUME o.f \in F, \A k \in 1..(Len(u) - 1) : u[k].f \in F,
               NEW k \in 1..(Len(q) - 1)
        PROVE  q[k].f \in F
    <3>1. CASE k = 1  BY <1>1, <2>2, <3>1
    <3>2. CASE k # 1
      <4>1. k - 1 \in 1..(Len(u) - 1) /\ k - 1 \in 1..Len(u) /\ (k - 1) + 1 = k
        BY <1>1, <1>2, <3>2
      <4>2. u[k - 1] = q[k]  BY <1>1, <4>1
      <4>3. QED  BY <2>2, <4>1, <4>2
    <3>3. QED  BY <3>1, <3>2
  <2>3. QED  BY <2>1, <2>2
<1>5. Arriving(q) <=> Arriving(u) /\ o.f \in F  BY <1>1, <1>3, <1>4 DEF Arriving
<1>6. QED  BY <1>5 DEF q

LEMMA ArrivingOne ==
  ASSUME NEW o \in Ops
  PROVE  (Arriving(<<o>>) <=> o.f = "take_focus") /\ ~Arriving(<<>>)
<1> DEFINE q == <<o>>
<1>1. q \in Seq(Ops) /\ q # <<>> /\ Len(q) = 1 /\ q[1] = o  OBVIOUS
<1> HIDE DEF q
<1>2. \A k \in 1..(Len(q) - 1) : FALSE  BY <1>1
<1>3. Arriving(q) <=> o.f = "take_focus"  BY <1>1, <1>2 DEF Arriving
<1>4. ~Arriving(<<>>)  BY DEF Arriving
<1>5. QED  BY <1>3, <1>4 DEF q

-----------------------------------------------------------------------------
(* What the panel shows, and what a script has still to say.               *)

Info(s) == IF s.ics[s.focus].on THEN UuidOf(s, s.focus) ELSE NoArg

\* v shows the focused context, if it ever heard of one.
Shows(s, v) ==
  s.focus # NoIcid =>
    v.fresh \/ (v.cur = s.focus /\ v.on = s.ics[s.focus].on /\ v.info = Info(s))

\* From s to t nothing changes that is shown.
Alike(s, t) ==
  /\ t.focus = s.focus
  /\ s.focus # NoIcid => t.ics[s.focus].on = s.ics[s.focus].on /\ Info(t) = Info(s)

LEMMA AlikeShows ==
  ASSUME NEW s, NEW t, NEW v, NEW w, Alike(s, t), Deaf(v, w), Shows(s, v)
  PROVE  Shows(t, w)
BY DEF Alike, Deaf, Shows

LEMMA AlikeTrans ==
  ASSUME NEW s, NEW t, NEW r, Alike(s, t), Alike(t, r)
  PROVE  Alike(s, r)
BY DEF Alike

LEMMA QuietAlike ==
  ASSUME NEW s, NEW t, Quiet(s, t)
  PROVE  Alike(s, t)
<1>1. Info(t) = Info(s)  BY DEF Quiet, Info, UuidOf
<1>2. QED  BY <1>1 DEF Quiet, Alike

\* What is left of the script q says the rest.
Claim(s, v, q, X) ==
  /\ Has(q, "show") => s.focus = X
  /\ Has(q, "turned_off") => s.focus = X /\ ~s.ics[X].on /\ (v.fresh \/ v.cur = X)
  /\ ~Has(q, "show") /\ ~Has(q, "turned_off") => Shows(s, v)
  /\ Has(q, "replace") => Head(q).f = "turn_off" \/ ~s.ics[X].on

\* The transaction is that of context X.
Open(s, X) == s.pc.up /\ s.pc.ref = 1 /\ s.pc.cur = X
At(s, X)   == Good(s) /\ Client(s.pc) /\ Open(s, X) /\ X \in Live(s)

LEMMA PutAt ==
  ASSUME NEW s, NEW X, At(s, X), NEW p, PanelOK(View(p, s.pc)), NEW cmd, NEW arg,
         Fitting(X, cmd, arg)
  PROVE  LET t == Put(s, X, cmd, arg)
         IN  /\ Quiet(s, t) /\ At(t, X) /\ PanelOK(View(p, t.pc))
             /\ \/ View(p, t.pc) = Apply(View(p, s.pc), Cmd(X, cmd, arg))
                \/ View(p, t.pc) = View(p, s.pc) /\ cmd \in {"UPDATE", "HELPER"}
<1> DEFINE t == Put(s, X, cmd, arg)  c == s.pc  d == put(s.pc, X, cmd, arg)
<1>1. Good(s) /\ Client(c) /\ X \in Live(s)  BY DEF At
<1>2. Says(s, t) /\ t.pc = d  BY <1>1, PutSays
<1>3. Quiet(s, t) /\ Good(t) /\ Client(t.pc) /\ Live(t) = Live(s)
  BY <1>2, SameLive DEF Says, Chats, Quiet
<1>4. Accepts(c, X)  BY DEF At, Open, Accepts
<1>5. /\ d.up = c.up /\ d.ref = c.ref /\ d.cur = c.cur
      /\ \/ View(p, d) = Apply(View(p, c), Cmd(X, cmd, arg))
         \/ View(p, d) = View(p, c) /\ cmd \in {"UPDATE", "HELPER"}
  BY <1>1, <1>4, PutView
<1>6. PanelOK(View(p, d))  BY <1>2 DEF Says, Chats
<1> HIDE DEF t, d
<1>7. At(t, X)  BY <1>1, <1>2, <1>3, <1>5 DEF At, Open
<1>8. QED  BY <1>2, <1>3, <1>5, <1>6, <1>7 DEF t

LEMMA DeafAt ==
  ASSUME NEW s, NEW X, At(s, X), NEW p, PanelOK(View(p, s.pc)),
         NEW cmd \in {"UPDATE", "HELPER", "REGISTER", "REMOVE"}, NEW arg
  PROVE  LET t == Put(s, X, cmd, arg)
         IN  Quiet(s, t) /\ At(t, X) /\ Deaf(View(p, s.pc), View(p, t.pc)) /\ PanelOK(View(p, t.pc))
<1>1. Fitting(X, cmd, arg)  BY Words DEF Fitting, At, Live
<1>2. Deaf(View(p, s.pc), Apply(View(p, s.pc), Cmd(X, cmd, arg)))  BY ApplyDeaf
<1>3. Deaf(View(p, s.pc), View(p, s.pc))  BY DeafSelf
<1>4. QED  BY <1>1, <1>2, <1>3, PutAt

\* What is shown of the focused context.
LEMMA TellAt ==
  ASSUME NEW s, NEW X, At(s, X), NEW p, PanelOK(View(p, s.pc)), NEW cmd \in Shows3, NEW arg
  PROVE  LET t == Put(s, X, cmd, arg)
             v == View(p, s.pc)  w == View(p, t.pc)
         IN  /\ Quiet(s, t) /\ At(t, X) /\ PanelOK(w) /\ w.cur = v.cur /\ w.fresh = v.fresh
             /\ v.cur = X => Shown(v, w, cmd, arg)
<1>1. Fitting(X, cmd, arg)  BY Words DEF Fitting, At, Live, Shows3
<1>2. cmd \notin {"UPDATE", "HELPER"} /\ X \in Ics  BY DEF Shows3, At, Live
<1> DEFINE t == Put(s, X, cmd, arg)  v == View(p, s.pc)  w == View(p, t.pc)
<1>3. Quiet(s, t) /\ At(t, X) /\ w = Apply(v, Cmd(X, cmd, arg))  BY <1>1, <1>2, PutAt
<1> HIDE DEF t, w, v
<1>4. /\ PanelOK(w) /\ w.cur = v.cur /\ w.fresh = v.fresh
      /\ v.cur = X => Shown(v, w, cmd, arg)
  BY <1>2, <1>3, ApplyShow DEF v
<1>5. QED  BY <1>3, <1>4 DEF t, w, v

LEMMA TellInfo ==
  ASSUME NEW s, NEW X, At(s, X), NEW p, PanelOK(View(p, s.pc)), NEW arg
  PROVE  LET t == Put(s, X, "FACTORY_INFO", arg)
             v == View(p, s.pc)  w == View(p, t.pc)
         IN  /\ Quiet(s, t) /\ At(t, X) /\ PanelOK(w) /\ w.cur = v.cur /\ w.fresh = v.fresh
             /\ v.cur = X => w.info = arg /\ w.on = v.on
<1> DEFINE t == Put(s, X, "FACTORY_INFO", arg)
           v == View(p, s.pc)  w == View(p, t.pc)
<1>1. "FACTORY_INFO" \in Shows3  BY DEF Shows3
<1>2. /\ Quiet(s, t) /\ At(t, X) /\ PanelOK(w) /\ w.cur = v.cur /\ w.fresh = v.fresh
      /\ v.cur = X => Shown(v, w, "FACTORY_INFO", arg)
  BY <1>1, TellAt
<1>3. QED  BY <1>2 DEF Shown

Switched(v, w, b) == w.info = v.info /\ w.on = b

\* From s to t, in the open transaction of X, the panel p was told to turn on or off.
Told(s, t, X, p, b) ==
  LET v == View(p, s.pc)  w == View(p, t.pc)
  IN  /\ Quiet(s, t) /\ At(t, X) /\ PanelOK(w) /\ w.cur = v.cur /\ w.fresh = v.fresh
      /\ v.cur = X => Switched(v, w, b)

LEMMA TellOn ==
  ASSUME NEW s, NEW X, At(s, X), NEW p, PanelOK(View(p, s.pc))
  PROVE  Told(s, Put(s, X, "TURN_ON", NoArg), X, p, TRUE)
<1> DEFINE t == Put(s, X, "TURN_ON", NoArg)
           v == View(p, s.pc)  w == View(p, t.pc)
<1>1. "TURN_ON" \in Shows3  BY DEF Shows3
<1>2. /\ Quiet(s, t) /\ At(t, X) /\ PanelOK(w) /\ w.cur = v.cur /\ w.fresh = v.fresh
      /\ v.cur = X => Shown(v, w, "TURN_ON", NoArg)
  BY <1>1, TellAt
<1>3. v.cur = X => Switched(v, w, TRUE)  BY <1>2 DEF Shown, Switched
<1>4. QED  BY <1>2, <1>3 DEF Told

LEMMA TellOff ==
  ASSUME NEW s, NEW X, At(s, X), NEW p, PanelOK(View(p, s.pc))
  PROVE  Told(s, Put(s, X, "TURN_OFF", NoArg), X, p, FALSE)
<1> DEFINE t == Put(s, X, "TURN_OFF", NoArg)
           v == View(p, s.pc)  w == View(p, t.pc)
<1>1. "TURN_OFF" \in Shows3  BY DEF Shows3
<1>2. /\ Quiet(s, t) /\ At(t, X) /\ PanelOK(w) /\ w.cur = v.cur /\ w.fresh = v.fresh
      /\ v.cur = X => Shown(v, w, "TURN_OFF", NoArg)
  BY <1>1, TellAt
<1>3. v.cur = X => Switched(v, w, FALSE)  BY <1>2 DEF Shown, Switched
<1>4. QED  BY <1>2, <1>3 DEF Told

LEMMA InfoIs ==
  ASSUME NEW s, NEW X, s.focus = X
  PROVE  panel_req_update_factory_info(s, X) = Put(s, X, "FACTORY_INFO", Info(s))
BY DEF panel_req_update_factory_info, Info

LEMMA QuietInfo ==
  ASSUME NEW s, NEW t, Quiet(s, t)
  PROVE  Info(t) = Info(s) /\ t.focus = s.focus /\ t.ics = s.ics
BY DEF Quiet, Info, UuidOf

\* A context that has the focus says what it is, and is shown.
LEMMA ShowAt ==
  ASSUME NEW s, NEW X, At(s, X), NEW p, PanelOK(View(p, s.pc)), s.focus = X
  PROVE  LET t == Show(s, X)
         IN  Quiet(s, t) /\ At(t, X) /\ PanelOK(View(p, t.pc)) /\ Shows(t, View(p, t.pc))
<1> DEFINE a == Put(s, X, "FOCUS_IN", NoArg)  b == Put(a, X, "UPDATE", NoArg)
           c == Put(b, X, "FACTORY_INFO", Info(s))
           d == Put(c, X, "TURN_ON", NoArg)  e == Put(d, X, "UPDATE", NoArg)
           f == Put(c, X, "TURN_OFF", NoArg)
           V(r) == View(p, r.pc)  t == Show(s, X)
<1>0. X \in Ics  BY DEF At, Live
<1>1. Quiet(s, a) /\ At(a, X) /\ PanelOK(V(a)) /\ V(a).cur = X
  <2>1. Fitting(X, "FOCUS_IN", NoArg)  BY <1>0, Words DEF Fitting
  <2>2. Quiet(s, a) /\ At(a, X) /\ V(a) = Apply(View(p, s.pc), Cmd(X, "FOCUS_IN", NoArg))
    BY <2>1, PutAt
  <2>3. QED  BY <2>2, ApplyFocusIn
<1>a. t = IF s.ics[X].on THEN Put(Put(panel_req_update_factory_info(b, X), X, "TURN_ON", NoArg), X, "UPDATE", NoArg)
          ELSE Put(panel_req_update_factory_info(b, X), X, "TURN_OFF", NoArg)
  BY DEF Show, panel_req_focus_in
<1> HIDE DEF a, t
<1>2. Quiet(a, b) /\ At(b, X) /\ PanelOK(V(b)) /\ V(b).cur = X  BY <1>1, DeafAt DEF Deaf
<1> HIDE DEF b
<1>3. Quiet(s, b)  BY <1>1, <1>2, QuietTrans
<1>4. panel_req_update_factory_info(b, X) = c  BY <1>3, InfoIs, QuietInfo
<1>5. Quiet(b, c) /\ At(c, X) /\ PanelOK(V(c)) /\ V(c).cur = X /\ V(c).info = Info(s)
  BY <1>2, TellInfo
<1> HIDE DEF c
<1>6. Quiet(s, c)  BY <1>3, <1>5, QuietTrans
<1>7. CASE s.ics[X].on
  <2>1. Quiet(c, d) /\ At(d, X) /\ PanelOK(V(d)) /\ V(d).cur = X /\ V(d).info = Info(s) /\ V(d).on = TRUE
    <3>1. At(c, X) /\ PanelOK(View(p, c.pc)) /\ View(p, c.pc).cur = X  BY <1>5
    <3>2. /\ Quiet(c, d) /\ At(d, X) /\ PanelOK(View(p, d.pc)) /\ View(p, d.pc).cur = View(p, c.pc).cur
          /\ Switched(View(p, c.pc), View(p, d.pc), TRUE)
      <4>1. Told(c, d, X, p, TRUE)  BY <3>1, TellOn
      <4> HIDE DEF d
      <4>2. QED  BY <3>1, <4>1 DEF Told
    <3> HIDE DEF d
    <3>3. QED  BY <1>5, <3>1, <3>2 DEF Switched
  <2> HIDE DEF d
  <2>2. Quiet(d, e) /\ At(e, X) /\ PanelOK(V(e)) /\ V(e).cur = X /\ V(e).info = Info(s) /\ V(e).on = TRUE
    <3> DEFINE v == View(p, d.pc)  w == View(p, e.pc)
    <3>1. At(d, X) /\ PanelOK(v) /\ v.cur = X /\ v.info = Info(s) /\ v.on = TRUE  BY <2>1
    <3>2. "UPDATE" \in {"UPDATE", "HELPER", "REGISTER", "REMOVE"}  OBVIOUS
    <3>3. Quiet(d, e) /\ At(e, X) /\ Deaf(v, w) /\ PanelOK(w)  BY <3>1, <3>2, DeafAt
    <3> HIDE DEF v, e
    <3>4. QED  BY <3>1, <3>3 DEF Deaf
  <2>3. t = e  BY <1>4, <1>7, <1>a DEF d
  <2> HIDE DEF e
  <2>4. Quiet(s, e)  BY <1>6, <2>1, <2>2, QuietTrans
  <2>5. s.ics[X].on = TRUE  BY <1>0, <1>7 DEF At, Good, Gt, ICs
  <2>6. Shows(e, V(e))  BY <2>2, <2>4, <2>5, QuietInfo DEF Shows
  <2>7. QED  BY <2>2, <2>3, <2>4, <2>6 DEF t
<1>8. CASE ~s.ics[X].on
  <2>1. Quiet(c, f) /\ At(f, X) /\ PanelOK(V(f)) /\ V(f).cur = X /\ V(f).info = Info(s) /\ V(f).on = FALSE
    <3>1. At(c, X) /\ PanelOK(View(p, c.pc)) /\ View(p, c.pc).cur = X  BY <1>5
    <3>2. /\ Quiet(c, f) /\ At(f, X) /\ PanelOK(View(p, f.pc)) /\ View(p, f.pc).cur = View(p, c.pc).cur
          /\ Switched(View(p, c.pc), View(p, f.pc), FALSE)
      <4>1. Told(c, f, X, p, FALSE)  BY <3>1, TellOff
      <4> HIDE DEF f
      <4>2. QED  BY <3>1, <4>1 DEF Told
    <3> HIDE DEF f
    <3>3. QED  BY <1>5, <3>1, <3>2 DEF Switched
  <2>2. t = f  BY <1>4, <1>8, <1>a
  <2> HIDE DEF f
  <2>3. Quiet(s, f)  BY <1>6, <2>1, QuietTrans
  <2>4. s.ics[X].on = FALSE  BY <1>0, <1>8 DEF At, Good, Gt, ICs
  <2>5. Shows(f, V(f))  BY <2>1, <2>3, <2>4, QuietInfo DEF Shows
  <2>6. QED  BY <2>1, <2>2, <2>3, <2>5 DEF t
<1>9. QED  BY <1>7, <1>8

-----------------------------------------------------------------------------
(* What each operation changes of what is shown.                           *)

LEMMA FocusIsLive ==
  ASSUME NEW s, Good(s), s.focus # NoIcid
  PROVE  s.focus \in Live(s) /\ s.focus \in Ics /\ s.ics[s.focus].si \in Insts \cap Held(s)
BY DEF Good, Gt, Live, ICs, Held

LEMMA KeepsAt ==
  ASSUME NEW s, NEW X, At(s, X), NEW t, Keeps(s, t), t.pc = s.pc
  PROVE  At(t, X)
BY DEF At, Keeps, Open

\* The context is turned on or off.
LEMMA SwitchAt ==
  ASSUME NEW s, NEW X, At(s, X), NEW b \in BOOLEAN
  PROVE  LET t == [s EXCEPT !.ics[X].on = b]
         IN  /\ At(t, X) /\ t.pc = s.pc /\ t.focus = s.focus /\ t.ics[X].on = b
             /\ s.focus # X => Alike(s, t)
<1> DEFINE t == [s EXCEPT !.ics[X].on = b]  C == [s.ics EXCEPT ![X].on = b]
<1>1. Good(s) /\ X \in Live(s)  BY DEF At
<1>2. Keeps(s, t) /\ t.pc = s.pc /\ t.focus = s.focus  BY <1>1, SwitchGood
<1>3. At(t, X)  BY <1>2, KeepsAt
<1>4. t.ics = C /\ t.inst = s.inst  BY <1>1 DEF Good, Gt, Fields
<1>5. X \in Ics /\ s.ics \in [Ics -> ICs]  BY <1>1 DEF Live, Good, Gt
<1>6. C[X].on = b /\ \A i \in Ics : i # X => C[i] = s.ics[i]  BY <1>5 DEF ICs
<1> HIDE DEF t, C
<1>7. ASSUME s.focus # X PROVE Alike(s, t)
  <2>1. s.focus # NoIcid => t.ics[s.focus] = s.ics[s.focus]
    BY <1>1, <1>4, <1>6, <1>7, FocusIsLive
  <2>2. QED  BY <1>2, <1>4, <2>1 DEF Alike, Info, UuidOf
<1>8. QED  BY <1>2, <1>3, <1>4, <1>6, <1>7 DEF t

\* The instance points elsewhere.
LEMMA PointAlike ==
  ASSUME NEW s, Good(s), NEW ic \in Live(s)
  PROVE  LET t == set_frontend_data(s, ic)
         IN  Alike(s, t) /\ \A i \in Live(s) : UuidOf(t, i) = UuidOf(s, i)
<1> DEFINE n == s.ics[ic].si  I == [s.inst EXCEPT ![n].data = ic]
           t == set_frontend_data(s, ic)
<1>1. t = [s EXCEPT !.inst = I]  BY DEF set_frontend_data
<1>2. s.inst \in [Insts -> InstRecs] /\ n \in Insts  BY DEF Good, Gt, ICs, Live
<1>3. [s.inst[n] EXCEPT !.data = ic].uuid = s.inst[n].uuid  BY <1>2 DEF InstRecs
<1>4. \A m \in Insts : I[m].uuid = s.inst[m].uuid  BY <1>2, <1>3
<1> HIDE DEF I, t
<1>5. t.inst = I /\ t.ics = s.ics /\ t.focus = s.focus  BY <1>1 DEF Good, Gt, Fields
<1>6. \A i \in Live(s) : s.ics[i].si \in Insts  BY DEF Good, Gt, ICs, Live
<1>7. \A i \in Live(s) : UuidOf(t, i) = UuidOf(s, i)  BY <1>4, <1>5, <1>6 DEF UuidOf
<1>8. Alike(s, t)  BY <1>5, <1>7, FocusIsLive DEF Alike, Info
<1>9. QED  BY <1>7, <1>8 DEF t

\* Instances that nothing holds are collected.
LEMMA CollectAlike ==
  ASSUME NEW s, Good(s)
  PROVE  Alike(s, Collect(s)) /\ Collect(s).ics = s.ics
<1> DEFINE I == [n \in Insts |-> IF n \in Held(s) THEN s.inst[n] ELSE NoInstance]
           t == Collect(s)
<1>1. t = [s EXCEPT !.inst = I]  BY DEF Collect
<1>2. \A n \in Insts \cap Held(s) : I[n] = s.inst[n]  OBVIOUS
<1> HIDE DEF I, t
<1>3. t.inst = I /\ t.ics = s.ics /\ t.focus = s.focus  BY <1>1 DEF Good, Gt, Fields
<1>4. s.focus # NoIcid => UuidOf(t, s.focus) = UuidOf(s, s.focus)
  BY <1>2, <1>3, FocusIsLive DEF UuidOf
<1>5. Alike(s, t)
  <2>1. t.focus = s.focus /\ t.ics = s.ics  BY <1>3
  <2>2. s.focus # NoIcid => Info(t) = Info(s)  BY <1>4, <2>1 DEF Info
  <2>3. QED  BY <2>1, <2>2 DEF Alike
<1>6. QED  BY <1>3, <1>5 DEF t

\* A context that is off, or has not the focus, gets an instance of another factory.
LEMMA RenewAt ==
  ASSUME NEW s, NEW X, At(s, X), NEW u \in Uuids, NEW p, PanelOK(View(p, s.pc)),
         s.focus = X => ~s.ics[X].on
  PROVE  LET t == ReplaceInstance(s, X, u)
         IN  /\ At(t, X) /\ Alike(s, t) /\ t.ics[X].on = s.ics[X].on
             /\ Deaf(View(p, s.pc), View(p, t.pc))
<1> DEFINE s0 == [s EXCEPT !.ics[X].si = NoInst]
           n  == Free(s0)
           s1 == [create_instance(s, n, u) EXCEPT !.ics[X].si = n, !.deff = u]
           s2 == set_frontend_data(s1, X)
           t  == Put(s2, X, "REGISTER", u)
<1>a. Good(s) /\ X \in Live(s)  BY DEF At
<1>1. ReplaceInstance(s, X, u) = t  BY DEF ReplaceInstance
<1>b. SUFFICES /\ At(t, X) /\ Alike(s, t) /\ t.ics[X].on = s.ics[X].on
               /\ Deaf(View(p, s.pc), View(p, t.pc))
  BY <1>1
<1>2. X \in Ics /\ s.ics \in [Ics -> ICs] /\ s.ics[X].si # NoInst
  BY <1>a DEF Good, Gt, Live
<1>3. n \in Insts /\ \A i \in Ics : i # X => s.ics[i].si # n
  <2>1. s0.ics = [s.ics EXCEPT ![X].si = NoInst] /\ s0.def = s.def  BY <1>a DEF Good, Gt, Fields
  <2>2. s0.ics \in [Ics -> ICs] /\ s0.ics[X].si = NoInst
        /\ \A i \in Ics : i # X => s0.ics[i] = s.ics[i]
    <3>1. [s.ics[X] EXCEPT !.si = NoInst] \in ICs
          /\ [s.ics[X] EXCEPT !.si = NoInst].si = NoInst  BY <1>2 DEF ICs
    <3>2. QED  BY <1>2, <2>1, <3>1
  <2> HIDE DEF s0
  <2>3. n \in Insts /\ n \notin Held(s0)  BY <1>2, <2>2, FreeIn
  <2> HIDE DEF n
  <2>4. QED  BY <2>1, <2>2, <2>3 DEF Held
<1> HIDE DEF n
<1> DEFINE e == [uuid |-> u, data |-> NoIcid]  I == [s.inst EXCEPT ![n] = e]
           C == [s.ics EXCEPT ![X].si = n]
<1>4. s1 = [s EXCEPT !.inst = I, !.ics = C, !.deff = u]
  BY <1>a DEF create_instance, Good, Gt, Fields
<1>5. \A m \in Insts : m # n => I[m] = s.inst[m]  BY <1>3, <1>a DEF Good, Gt
<1>6. [s.ics[X] EXCEPT !.si = n].on = s.ics[X].on /\ [s.ics[X] EXCEPT !.si = n].si = n
  BY <1>2 DEF ICs
<1>7. /\ C[X].on = s.ics[X].on /\ C[X].si = n
      /\ \A i \in Ics : i # X => C[i] = s.ics[i]
  BY <1>2, <1>6
<1>8. DOMAIN I = Insts  BY <1>a DEF Good, Gt
<1> HIDE DEF I, C, e, s1
<1>9. DOMAIN s1 = Fields /\ s1.inst = I /\ s1.ics = C /\ s1.focus = s.focus
  BY <1>4, <1>a DEF Good, Gt, Fields
<1> DEFINE J == [I EXCEPT ![n].data = X]
<1>10. \A m \in Insts : m # n => J[m] = s.inst[m]  BY <1>5, <1>8
<1>11. s2 = [s1 EXCEPT !.inst = J]  BY <1>7, <1>9 DEF set_frontend_data, Fields
<1> HIDE DEF J, s2
<1>12. DOMAIN s2 = Fields /\ s2.inst = J /\ s2.ics = C /\ s2.focus = s.focus
  BY <1>9, <1>11 DEF Fields
<1>13. t.inst = J /\ t.ics = C /\ t.focus = s.focus  BY <1>12 DEF Put, Fields
<1>14. Keeps(s, t)  BY <1>1, <1>a, ReplaceGood
<1>15. t.pc = put(s.pc, X, "REGISTER", u)  BY <1>1, <1>a, ReplacePc
<1> HIDE DEF t
<1>16. Alike(s, t)
  <2>1. CASE s.focus = X
    <3>1. ~t.ics[X].on /\ ~s.ics[X].on  BY <1>7, <1>13, <2>1
    <3>2. t.ics[X].on = s.ics[X].on  BY <1>7, <1>13
    <3>3. Info(t) = NoArg /\ Info(s) = NoArg  BY <1>13, <2>1, <3>1 DEF Info
    <3>4. QED  BY <1>13, <2>1, <3>2, <3>3 DEF Alike
  <2>2. CASE s.focus # X
    <3>1. s.focus # NoIcid => t.ics[s.focus] = s.ics[s.focus]
                              /\ t.inst[s.ics[s.focus].si] = s.inst[s.ics[s.focus].si]
      BY <1>3, <1>7, <1>10, <1>13, <1>a, <2>2, FocusIsLive
    <3>2. QED  BY <1>13, <3>1 DEF Alike, Info, UuidOf
  <2>3. QED  BY <2>1, <2>2
<1>17. At(t, X)
  <2>1. Client(t.pc) /\ t.pc.up = s.pc.up /\ t.pc.ref = s.pc.ref /\ t.pc.cur = s.pc.cur
    BY <1>15, PutClient DEF At
  <2>2. QED  BY <1>14, <2>1 DEF At, Open, Keeps
<1>18. Deaf(View(p, s.pc), View(p, t.pc))
  <2> DEFINE v == View(p, s.pc)  w == View(p, t.pc)
  <2>1. w = Apply(v, Cmd(X, "REGISTER", u)) \/ w = v  BY <1>15, PutView DEF At
  <2> HIDE DEF v, w
  <2>2. Deaf(v, Apply(v, Cmd(X, "REGISTER", u)))  BY ApplyDeaf DEF v
  <2>3. Deaf(v, v)  BY DeafSelf DEF v
  <2>4. QED  BY <2>1, <2>2, <2>3 DEF v, w
<1>20. t.ics[X].on = s.ics[X].on  BY <1>7, <1>13
<1>19. QED  BY <1>16, <1>17, <1>18, <1>20

\* The instance of the context becomes the shared one.
LEMMA ShareAt ==
  ASSUME NEW s, NEW X, At(s, X)
  PROVE  LET t == Share(s, X)
         IN  At(t, X) /\ t.pc = s.pc /\ Alike(s, t) /\ t.ics[X].on = s.ics[X].on
<1>a. Good(s) /\ X \in Live(s)  BY DEF At
<1>b. Keeps(s, Share(s, X)) /\ Share(s, X).pc = s.pc  BY <1>a, ShareGood
<1>c. At(Share(s, X), X)  BY <1>b, KeepsAt
<1>1. CASE ~s.shared  BY <1>1, <1>c DEF Share, Alike
<1>2. CASE s.shared
  <2> DEFINE n == s.ics[X].si  C == [s.ics EXCEPT ![X].shared = TRUE]  t == Share(s, X)
  <2>1. t = [s EXCEPT !.def = n, !.ics = C]  BY <1>2, <1>a DEF Share, Good, Gt, Fields
  <2>2. X \in Ics /\ s.ics \in [Ics -> ICs]  BY <1>a DEF Good, Gt, Live
  <2>3. [s.ics[X] EXCEPT !.shared = TRUE].on = s.ics[X].on
        /\ [s.ics[X] EXCEPT !.shared = TRUE].si = n
    BY <2>2 DEF ICs
  <2>4. \A i \in Ics : C[i].si = s.ics[i].si /\ C[i].on = s.ics[i].on  BY <2>2, <2>3
  <2> HIDE DEF n, C, t
  <2>5. t.ics = C /\ t.inst = s.inst /\ t.focus = s.focus  BY <1>a, <2>1 DEF Good, Gt, Fields
  <2>6. Alike(s, t)  BY <1>a, <2>4, <2>5, FocusIsLive DEF Alike, Info, UuidOf
  <2>7. QED  BY <1>b, <1>c, <2>2, <2>4, <2>5, <2>6 DEF t
<1>3. QED  BY <1>1, <1>2

\* The focused context was turned off.
LEMMA TurnedOffAt ==
  ASSUME NEW s, NEW X, At(s, X), NEW p, PanelOK(View(p, s.pc)), s.focus = X, ~s.ics[X].on,
         View(p, s.pc).fresh \/ View(p, s.pc).cur = X
  PROVE  LET t == Put(panel_req_update_factory_info(s, X), X, "TURN_OFF", NoArg)
         IN  Quiet(s, t) /\ At(t, X) /\ PanelOK(View(p, t.pc)) /\ Shows(t, View(p, t.pc))
<1> DEFINE a == Put(s, X, "FACTORY_INFO", Info(s))  t == Put(a, X, "TURN_OFF", NoArg)
           v == View(p, s.pc)  x == View(p, a.pc)  w == View(p, t.pc)
<1>1. panel_req_update_factory_info(s, X) = a  BY InfoIs
<1>2. /\ Quiet(s, a) /\ At(a, X) /\ PanelOK(x) /\ x.cur = v.cur /\ x.fresh = v.fresh
      /\ v.cur = X => x.info = Info(s)
  BY TellInfo
<1> HIDE DEF a
<1>3. /\ Quiet(a, t) /\ At(t, X) /\ PanelOK(w) /\ w.cur = x.cur /\ w.fresh = x.fresh
      /\ x.cur = X => Switched(x, w, FALSE)
  <2>1. At(a, X) /\ PanelOK(View(p, a.pc))  BY <1>2
  <2>2. Told(a, t, X, p, FALSE)  BY <2>1, TellOff
  <2> HIDE DEF t
  <2>3. QED  BY <2>2 DEF Told
<1> HIDE DEF t, v, w, x
<1>4. Quiet(s, t)  BY <1>2, <1>3, QuietTrans
<1>5. s.ics[X].on = FALSE  BY DEF At, Good, Gt, ICs, Live
<1>6. Info(t) = Info(s) /\ t.focus = X /\ t.ics[X].on = FALSE  BY <1>4, <1>5, QuietInfo
<1>7. Shows(t, w)  BY <1>2, <1>3, <1>6 DEF Shows, Switched, v
<1>8. QED  BY <1>1, <1>3, <1>4, <1>7 DEF t, w

\* The called instance emits.
LEMMA EmitAt ==
  ASSUME NEW s, NEW X, At(s, X), NEW p, PanelOK(View(p, s.pc)), NEW o, o.f = "emit"
  PROVE  LET t == Run(s, o)
         IN  Quiet(s, t) /\ At(t, X) /\ Deaf(View(p, s.pc), View(p, t.pc))
<1> DEFINE t == Run(s, o)  r == Put(s, s.focus, "UPDATE", NoArg)
<1>1. t = s \/ (t = r /\ s.focus # NoIcid)
  BY DEF Run
<1>2. Good(s) /\ Client(s.pc)  BY DEF At
<1>3. CASE t = s  BY <1>2, <1>3, QuietSelf, DeafSelf
<1>4. CASE t = r /\ s.focus = X  BY <1>4, DeafAt
<1>5. CASE t = r /\ s.focus # X /\ s.focus # NoIcid
  <2>1. Says(s, r) /\ r.pc = put(s.pc, s.focus, "UPDATE", NoArg)
    <3>1. Fitting(s.focus, "UPDATE", NoArg)  BY <1>2, <1>5, Words DEF Fitting, Good, Gt
    <3>2. QED  BY <1>2, <3>1, PutSays
  <2>2. ~Accepts(s.pc, s.focus)  BY <1>5 DEF At, Open, Accepts
  <2>3. r.pc = s.pc  BY <2>1, <2>2 DEF put
  <2>4. Quiet(s, r) /\ Keeps(s, r)  BY <1>2, <2>1, QuietGood DEF Says
  <2>5. QED  BY <1>5, <2>3, <2>4, KeepsAt, DeafSelf
<1>6. QED  BY <1>1, <1>3, <1>4, <1>5

-----------------------------------------------------------------------------
(* A handler under way.                                                    *)

\* q is a script of X that neither shows it nor turns it off visibly.
Steady(s, q, X) ==
  /\ Script(q, X) /\ ~Has(q, "show") /\ ~Has(q, "turned_off")
  /\ Has(q, "replace") => ~s.ics[X].on

\* The open transaction is X's, and its script q says what the panel p lacks.
Ready(p, s, q, X) ==
  At(s, X) /\ PanelOK(View(p, s.pc)) /\ Script(q, X) /\ Claim(s, View(p, s.pc), q, X)

\* The open transaction is X's, and the panel lacks nothing.
Calm(p, s, X) == At(s, X) /\ PanelOK(View(p, s.pc)) /\ Shows(s, View(p, s.pc))

LEMMA SteadyReady ==
  ASSUME NEW p, NEW s, NEW q, NEW X, Calm(p, s, X), Steady(s, q, X)
  PROVE  Ready(p, s, q, X)
BY DEF Calm, Steady, Ready, Claim

LEMMA SteadyPush ==
  ASSUME NEW s, NEW q, NEW X, Steady(s, q, X), NEW o \in Ops, o.ic = X \/ o.f = "engine",
         o.f \in Plain \ {"show", "turned_off", "replace"},
         Has(q, "replace") => o.f \in Switches
  PROVE  Steady(s, <<o>> \o q, X)
<1>1. q \in Seq(Ops) /\ q # <<>>  BY DEF Steady, Script
<1>2. Leads(o, q, X)  BY DEF Steady, Leads, Mine
<1>3. Script(<<o>> \o q, X)  BY <1>1, <1>2, ScriptCons DEF Steady
<1>4. /\ Has(<<o>> \o q, "show") <=> o.f = "show" \/ Has(q, "show")
      /\ Has(<<o>> \o q, "turned_off") <=> o.f = "turned_off" \/ Has(q, "turned_off")
      /\ Has(<<o>> \o q, "replace") <=> o.f = "replace" \/ Has(q, "replace")
  BY <1>1, HasCons
<1>5. QED  BY <1>3, <1>4 DEF Steady

LEMMA SteadySame ==
  ASSUME NEW s, NEW t, NEW q, NEW X, Steady(s, q, X), t.ics[X].on = s.ics[X].on
  PROVE  Steady(t, q, X)
BY DEF Steady

\* Operations of the context a script is about.
LEMMA MyOp ==
  ASSUME NEW X \in Ics, NEW f \in Names \ {"replace", "change", "key"}
  PROVE  Op(f, X) \in Ops /\ Op(f, X).f = f /\ Op(f, X).ic = X
BY OpIn

LEMMA FirstPlain ==
  /\ {"engine", "show", "turn_on", "turn_off", "turned_off", "share"} \subseteq Names \ {"replace", "change", "key"}
  /\ {"send", "out", "dying"} \subseteq Names \ {"replace", "change", "key"}
BY DEF Names, Payers

LEMMA MaybePush ==
  ASSUME NEW s, NEW q, NEW X, Steady(s, q, X), NEW o \in Ops, o.ic = X, o.f \in {"engine", "record"},
         NEW b
  PROVE  LET y == IF b THEN <<o>> ELSE <<>>
         IN  Steady(s, y \o q, X) /\ y \in Seq(Ops)
<1>1. q \in Seq(Ops)  BY DEF Steady, Script
<1>2. <<>> \o q = q  BY <1>1
<1>3. Steady(s, <<o>> \o q, X)  BY SteadyPush DEF Plain, Switches
<1>4. <<>> \in Seq(Ops) /\ <<o>> \in Seq(Ops)  OBVIOUS
<1>5. CASE b  BY <1>3, <1>4, <1>5
<1>6. CASE ~b  BY <1>2, <1>4, <1>6
<1>7. QED  BY <1>5, <1>6

LEMMA RecordIn ==
  ASSUME NEW X \in Ics, NEW on \in {"on", "off"}
  PROVE  LET o == OpU("record", X, on) IN o \in Ops /\ o.ic = X /\ o.f = "record" /\ o.u = on
<1>1. "record" \in Names /\ on \in Args  BY DEF Names, Args
<1>2. Right(OpU("record", X, on))  BY DEF Right, OpU
<1>3. QED  BY <1>1, <1>2, OpUIn

LEMMA RecordedPush ==
  ASSUME NEW s, NEW r, NEW q, NEW X \in Ics, Steady(s, q, X), NEW on \in {"on", "off"}
  PROVE  Steady(s, Recorded(r, X, on) \o q, X) /\ Recorded(r, X, on) \in Seq(Ops)
<1>1. OpU("record", X, on) \in Ops /\ OpU("record", X, on).ic = X /\ OpU("record", X, on).f = "record"
  BY RecordIn
<1>2. QED  BY <1>1, MaybePush DEF Recorded

\* What the first operation of a script tells of the others.
LEMMA ReadyFirst ==
  ASSUME NEW p, NEW s, NEW o \in Ops, NEW u \in Seq(Ops), u # <<>>, NEW X,
         Ready(p, s, <<o>> \o u, X)
  PROVE  /\ At(s, X) /\ PanelOK(View(p, s.pc)) /\ Script(u, X) /\ Leads(o, u, X) /\ Mine(o, X)
         /\ X \in Live(s) /\ X \in Ics /\ <<>> \o u = u
         /\ Claim(s, View(p, s.pc), <<o>> \o u, X) /\ Head(<<o>> \o u) = o
         /\ Has(<<o>> \o u, "show") <=> o.f = "show" \/ Has(u, "show")
         /\ Has(<<o>> \o u, "turned_off") <=> o.f = "turned_off" \/ Has(u, "turned_off")
         /\ Has(<<o>> \o u, "replace") <=> o.f = "replace" \/ Has(u, "replace")
<1>1. Script(u, X) /\ Leads(o, u, X)  BY ScriptCons DEF Ready
<1>2. Head(<<o>> \o u) = o  BY Consed
<1>3. <<>> \o u = u  OBVIOUS
<1>4. X \in Live(s) /\ X \in Ics  BY DEF Ready, At, Live
<1>5. QED  BY <1>1, <1>2, <1>3, <1>4, HasCons DEF Ready, Leads

\* Operations other than calls of the instance.
LEMMA SteadyRest ==
  ASSUME NEW p, NEW s, NEW o \in Ops, NEW u \in Seq(Ops), u # <<>>, NEW X,
         Ready(p, s, <<o>> \o u, X), o.f # "engine"
  PROVE  /\ ~Has(u, "show") /\ ~Has(u, "turned_off")
         /\ o.f \notin Switches => ~Has(u, "replace") /\ Steady(s, u, X)
         /\ o.f \notin {"show", "turned_off"} => Calm(p, s, X)
         /\ o.f # "turn_off" => Steady(s, u, X)
BY ReadyFirst DEF Leads, Steady, Calm, Claim

-----------------------------------------------------------------------------
(* One operation of a handler under way.                                   *)

LEMMA CalmAlike ==
  ASSUME NEW p, NEW s, NEW t, NEW X, Calm(p, s, X), At(t, X), Alike(s, t),
         Deaf(View(p, s.pc), View(p, t.pc))
  PROVE  Calm(p, t, X)
<1>1. Shows(t, View(p, t.pc))  BY AlikeShows DEF Calm
<1>2. QED  BY <1>1 DEF Calm, Deaf

LEMMA CalmStill ==
  ASSUME NEW p, NEW s, NEW t, NEW X, Calm(p, s, X), At(t, X), Alike(s, t), t.pc = s.pc
  PROVE  Calm(p, t, X)
<1>1. Deaf(View(p, s.pc), View(p, t.pc))  BY DeafSelf DEF Calm
<1>2. QED  BY <1>1, CalmAlike

\* The data s and the script u once its first operation o was taken from it.
Before1(p, s, o, u, X) ==
  /\ o \in Ops /\ u \in Seq(Ops) /\ u # <<>> /\ o.f # "engine" /\ Ready(p, s, <<o>> \o u, X)
After1(p, s, o, u, X) == Ready(p, Run(s, o), Rest(s, o) \o u, X)

LEMMA First ==
  ASSUME NEW p, NEW s, NEW o, NEW u, NEW X, Before1(p, s, o, u, X)
  PROVE  /\ At(s, X) /\ PanelOK(View(p, s.pc)) /\ Good(s) /\ X \in Live(s) /\ X \in Ics
         /\ o \in Ops /\ o.ic = X /\ o.f \in Plain /\ <<>> \o u = u /\ u \in Seq(Ops)
         /\ ~Has(u, "show") /\ ~Has(u, "turned_off") /\ Script(u, X)
         /\ o.f \notin Switches => ~Has(u, "replace") /\ Steady(s, u, X)
         /\ o.f \notin {"show", "turned_off"} => Calm(p, s, X)
         /\ o.f # "turn_off" => Steady(s, u, X)
<1>1. o \in Ops /\ u \in Seq(Ops) /\ u # <<>> /\ o.f # "engine" /\ Ready(p, s, <<o>> \o u, X)
  BY DEF Before1
<1>2. /\ At(s, X) /\ PanelOK(View(p, s.pc)) /\ X \in Live(s) /\ X \in Ics
      /\ o.ic = X /\ Leads(o, u, X) /\ <<>> \o u = u /\ Script(u, X)
  BY <1>1, ReadyFirst DEF Mine
<1>3. Good(s) /\ o.f \in Plain  BY <1>2 DEF At, Leads
<1>4. /\ ~Has(u, "show") /\ ~Has(u, "turned_off")
      /\ o.f \notin Switches => ~Has(u, "replace") /\ Steady(s, u, X)
      /\ o.f \notin {"show", "turned_off"} => Calm(p, s, X)
      /\ o.f # "turn_off" => Steady(s, u, X)
  BY <1>1, SteadyRest
<1>5. QED  BY <1>1, <1>2, <1>3, <1>4

\* A context is shown, then its instance is called if it is on.
LEMMA ShowStep ==
  ASSUME NEW p, NEW s, NEW o, NEW u, NEW X, Before1(p, s, o, u, X), o.f = "show"
  PROVE  After1(p, s, o, u, X)
<1> DEFINE t == Show(s, X)  e == Op("engine", X)
<1>1. /\ At(s, X) /\ PanelOK(View(p, s.pc)) /\ X \in Ics /\ o.ic = X /\ <<>> \o u = u
      /\ Steady(s, u, X)
  BY First
<1>2. s.focus = X
  <2>1. Claim(s, View(p, s.pc), <<o>> \o u, X) /\ Has(<<o>> \o u, "show")
    BY ReadyFirst DEF Before1
  <2>2. QED  BY <2>1 DEF Claim
<1>3. Quiet(s, t) /\ At(t, X) /\ PanelOK(View(p, t.pc)) /\ Shows(t, View(p, t.pc))
  BY <1>1, <1>2, ShowAt
<1>4. Run(s, o) = t  BY <1>1 DEF Run
<1>5. Rest(s, o) = IF s.ics[X].on THEN <<e>> ELSE <<>>  BY <1>1 DEF Rest
<1>6. e \in Ops /\ e.ic = X /\ e.f = "engine"  BY <1>1, MyOp, FirstPlain
<1> HIDE DEF t, e
<1>7. Calm(p, t, X)  BY <1>3 DEF Calm
<1>8. Steady(t, u, X)  BY <1>1, <1>3, SteadySame DEF Quiet
<1>9. Steady(t, Rest(s, o) \o u, X)  BY <1>5, <1>6, <1>8, MaybePush
<1>10. QED  BY <1>4, <1>7, <1>9, SteadyReady DEF After1

\* From s to t context X was turned on or off, with no word to the panel.
Became(s, t, X, b) ==
  /\ At(t, X) /\ t.pc = s.pc /\ t.focus = s.focus /\ t.ics[X].on = b
  /\ s.focus # X => Alike(s, t)

LEMMA BecameOn ==
  ASSUME NEW s, NEW X, At(s, X)
  PROVE  Became(s, [s EXCEPT !.ics[X].on = TRUE], X, TRUE)
<1>1. \A b \in BOOLEAN : Became(s, [s EXCEPT !.ics[X].on = b], X, b)  BY SwitchAt DEF Became
<1>2. QED  BY <1>1

LEMMA BecameOff ==
  ASSUME NEW s, NEW X, At(s, X)
  PROVE  Became(s, [s EXCEPT !.ics[X].on = FALSE], X, FALSE)
<1>1. \A b \in BOOLEAN : Became(s, [s EXCEPT !.ics[X].on = b], X, b)  BY SwitchAt DEF Became
<1>2. QED  BY <1>1

LEMMA TurnOnStep ==
  ASSUME NEW p, NEW s, NEW o, NEW u, NEW X, Before1(p, s, o, u, X), o.f = "turn_on"
  PROVE  After1(p, s, o, u, X)
<1> DEFINE e == Op("engine", X)  s1 == [s EXCEPT !.ics[X].on = TRUE]  t == Run(s, o)
           y == IF s.focus = X THEN <<e>> ELSE <<>>  r == Recorded(s, X, "on")
<1>1. /\ At(s, X) /\ PanelOK(View(p, s.pc)) /\ X \in Ics /\ o.ic = X /\ <<>> \o u = u
      /\ Steady(s, u, X) /\ ~Has(u, "replace") /\ Calm(p, s, X) /\ u \in Seq(Ops)
  BY First DEF Switches
<1>2. t = IF s.ics[X].on THEN s ELSE IF s.focus = X THEN Show(s1, X) ELSE s1
  BY <1>1 DEF Run, turn_on
<1>3. CASE s.ics[X].on
  <2>1. Rest(s, o) = <<>> /\ t = s  BY <1>1, <1>2, <1>3 DEF Rest
  <2>2. QED  BY <1>1, <2>1, SteadyReady DEF After1
<1>4. CASE ~s.ics[X].on
  <2>1. Rest(s, o) = y \o r  BY <1>1, <1>4 DEF Rest
  <2>2. e \in Ops /\ e.ic = X /\ e.f = "engine"  BY <1>1, MyOp, FirstPlain
  <2>a. Became(s, s1, X, TRUE)  BY <1>1, BecameOn
  <2> HIDE DEF t, s1, e
  <2>3. /\ At(s1, X) /\ s1.pc = s.pc /\ s1.focus = s.focus
        /\ s.focus # X => Alike(s, s1)
    BY <2>a DEF Became
  <2>4. Calm(p, t, X)
    <3>1. CASE s.focus = X
      <4>1. PanelOK(View(p, s1.pc)) /\ s1.focus = X  BY <1>1, <2>3, <3>1
      <4>2. LET w == Show(s1, X)
            IN  At(w, X) /\ PanelOK(View(p, w.pc)) /\ Shows(w, View(p, w.pc))
        BY <2>3, <4>1, ShowAt
      <4>3. QED  BY <1>2, <1>4, <3>1, <4>2 DEF Calm
    <3>2. CASE s.focus # X  BY <1>1, <1>2, <1>4, <2>3, <3>2, CalmStill
    <3>3. QED  BY <3>1, <3>2
  <2>5. Steady(t, u, X)  BY <1>1 DEF Steady
  <2>6. Steady(t, r \o u, X) /\ r \in Seq(Ops)  BY <1>1, <2>5, RecordedPush
  <2> HIDE DEF r
  <2>7. Steady(t, y \o (r \o u), X) /\ y \in Seq(Ops)  BY <2>2, <2>6, MaybePush
  <2> HIDE DEF y
  <2>8. (y \o r) \o u = y \o (r \o u)  BY <1>1, <2>6, <2>7, OpsJoin
  <2>9. Ready(p, t, (y \o r) \o u, X)  BY <2>4, <2>7, <2>8, SteadyReady
  <2>10. QED  BY <2>1, <2>9 DEF After1, t
<1>5. QED  BY <1>3, <1>4

LEMMA TurnOffStep ==
  ASSUME NEW p, NEW s, NEW o, NEW u, NEW X, Before1(p, s, o, u, X), o.f = "turn_off"
  PROVE  After1(p, s, o, u, X)
<1> DEFINE e == Op("engine", X)  d == Op("turned_off", X)  t == [s EXCEPT !.ics[X].on = FALSE]
           y == IF s.focus = X THEN <<e, d>> ELSE <<>>  r == Recorded(s, X, "off")
<1>1. /\ At(s, X) /\ PanelOK(View(p, s.pc)) /\ X \in Ics /\ o.ic = X /\ <<>> \o u = u
      /\ Script(u, X) /\ ~Has(u, "show") /\ ~Has(u, "turned_off") /\ Calm(p, s, X)
      /\ u \in Seq(Ops)
  BY First
<1>2. CASE ~s.ics[X].on
  <2>1. Rest(s, o) = <<>> /\ Run(s, o) = s  BY <1>1, <1>2 DEF Rest, Run
  <2>2. Steady(s, u, X)  BY <1>1, <1>2 DEF Steady
  <2>3. QED  BY <1>1, <2>1, <2>2, SteadyReady DEF After1
<1>3. CASE s.ics[X].on
  <2>1. Rest(s, o) = y \o r  BY <1>1, <1>3 DEF Rest
  <2>a. Run(s, o) = t  BY <1>1, <1>3 DEF Run
  <2>2. e \in Ops /\ e.ic = X /\ e.f = "engine" /\ d \in Ops /\ d.ic = X /\ d.f = "turned_off"
    BY <1>1, MyOp, FirstPlain
  <2>b. Became(s, t, X, FALSE)  BY <1>1, BecameOff
  <2> HIDE DEF t, e, d
  <2>3. /\ At(t, X) /\ t.pc = s.pc /\ t.focus = s.focus /\ ~t.ics[X].on
        /\ s.focus # X => Alike(s, t)
    BY <2>b DEF Became
  <2>4. Steady(t, u, X)  BY <1>1, <2>3 DEF Steady
  <2>5. Steady(t, r \o u, X) /\ r \in Seq(Ops)  BY <1>1, <2>4, RecordedPush
  <2> HIDE DEF r
  <2>6. CASE s.focus # X
    <3>1. Calm(p, t, X)  BY <1>1, <2>3, <2>6, CalmStill
    <3>2. Rest(s, o) = r
      <4>1. <<>> \o r = r  BY <2>5
      <4>2. QED  BY <2>1, <2>6, <4>1
    <3>3. QED  BY <2>a, <2>5, <3>1, <3>2, SteadyReady DEF After1
  <2>7. CASE s.focus = X
    <3> DEFINE z == r \o u  z1 == <<d>> \o z  z2 == <<e>> \o z1
    <3>1. z \in Seq(Ops) /\ z # <<>> /\ Script(z, X) /\ ~Has(z, "show") /\ ~Has(z, "turned_off")
      BY <2>5 DEF Steady, Script
    <3> HIDE DEF z
    <3>2. Leads(d, z, X)  BY <2>2, <3>1 DEF Leads, Mine, Plain, Switches
    <3>3. Script(z1, X) /\ ~Has(z1, "show") /\ Has(z1, "turned_off")
      BY <2>2, <3>1, <3>2, ScriptCons, HasCons
    <3> HIDE DEF z1
    <3>4. z1 \in Seq(Ops) /\ z1 # <<>>  BY <3>3 DEF Script
    <3>5. Leads(e, z1, X)  BY <2>2 DEF Leads, Mine, Plain, Switches
    <3>6. Script(z2, X) /\ ~Has(z2, "show") /\ Has(z2, "turned_off")
      BY <2>2, <3>3, <3>4, <3>5, ScriptCons, HasCons
    <3> HIDE DEF z2
    <3>7. View(p, t.pc).fresh \/ View(p, t.pc).cur = X
      BY <1>1, <2>3, <2>7, Constants DEF Calm, Shows
    <3>8. Claim(t, View(p, t.pc), z2, X)  BY <2>3, <2>7, <3>6, <3>7 DEF Claim
    <3>9. Ready(p, t, z2, X)  BY <1>1, <2>3, <3>6, <3>8 DEF Ready
    <3>10. Rest(s, o) \o u = z2
      <4> DEFINE a == <<e>>  b == <<d>>
      <4>1. <<e, d>> = a \o b /\ a \in Seq(Ops) /\ b \in Seq(Ops)  BY <2>2, Pair
      <4>2. y = a \o b  BY <2>7, <4>1
      <4> HIDE DEF a, b, y
      <4>3. y \in Seq(Ops)  BY <4>1, <4>2
      <4>4. (y \o r) \o u = y \o (r \o u)  BY <1>1, <2>5, <4>3, OpsJoin
      <4>5. r \o u \in Seq(Ops)  BY <1>1, <2>5
      <4> DEFINE x == r \o u
      <4>6. x \in Seq(Ops)  BY <4>5
      <4> HIDE DEF x
      <4>7. (a \o b) \o x = a \o (b \o x)  BY <4>1, <4>6, OpsJoin
      <4>8. QED  BY <2>1, <4>2, <4>4, <4>7 DEF x, z2, z1, z, a, b
    <3>11. QED  BY <2>a, <3>9, <3>10 DEF After1
  <2>8. QED  BY <2>6, <2>7
<1>4. QED  BY <1>2, <1>3

LEMMA TurnedOffStep ==
  ASSUME NEW p, NEW s, NEW o, NEW u, NEW X, Before1(p, s, o, u, X), o.f = "turned_off"
  PROVE  After1(p, s, o, u, X)
<1> DEFINE t == Put(panel_req_update_factory_info(s, X), X, "TURN_OFF", NoArg)
<1>1. /\ At(s, X) /\ PanelOK(View(p, s.pc)) /\ X \in Ics /\ o.ic = X /\ <<>> \o u = u
      /\ Steady(s, u, X)
  BY First
<1>2. s.focus = X /\ ~s.ics[X].on /\ (View(p, s.pc).fresh \/ View(p, s.pc).cur = X)
  <2>1. Claim(s, View(p, s.pc), <<o>> \o u, X) /\ Has(<<o>> \o u, "turned_off")
    BY ReadyFirst DEF Before1
  <2>2. QED  BY <2>1 DEF Claim
<1>3. Quiet(s, t) /\ At(t, X) /\ PanelOK(View(p, t.pc)) /\ Shows(t, View(p, t.pc))
  BY <1>1, <1>2, TurnedOffAt
<1>4. Run(s, o) = t /\ Rest(s, o) = <<>>  BY <1>1 DEF Run, Rest
<1> HIDE DEF t
<1>5. Calm(p, t, X)  BY <1>3 DEF Calm
<1>6. Steady(t, u, X)  BY <1>1, <1>3, SteadySame DEF Quiet
<1>7. QED  BY <1>1, <1>4, <1>5, <1>6, SteadyReady DEF After1

LEMMA RecordStep ==
  ASSUME NEW p, NEW s, NEW o, NEW u, NEW X, Before1(p, s, o, u, X), o.f = "record"
  PROVE  After1(p, s, o, u, X)
<1> DEFINE t == Record(s, o.u)
<1>1. /\ At(s, X) /\ Good(s) /\ Calm(p, s, X) /\ <<>> \o u = u /\ Steady(s, u, X)
  BY First
<1>2. Run(s, o) = t /\ Rest(s, o) = <<>>  BY DEF Run, Rest
<1>3. Quiet(s, t) /\ t.pc = s.pc  BY <1>1 DEF Record, Quiet, Good, Gt, Fields
<1> HIDE DEF t
<1>4. Keeps(s, t) /\ Alike(s, t)  BY <1>1, <1>3, QuietGood, QuietAlike
<1>5. At(t, X)  BY <1>1, <1>3, <1>4, KeepsAt
<1>6. Calm(p, t, X)  BY <1>1, <1>3, <1>4, <1>5, CalmStill
<1>7. Steady(t, u, X)  BY <1>1, <1>3, SteadySame DEF Quiet
<1>8. QED  BY <1>1, <1>2, <1>6, <1>7, SteadyReady DEF After1

LEMMA ReplaceStep ==
  ASSUME NEW p, NEW s, NEW o, NEW u, NEW X, Before1(p, s, o, u, X), o.f = "replace"
  PROVE  After1(p, s, o, u, X)
<1> DEFINE t == ReplaceInstance(s, X, o.u)
<1>1. /\ At(s, X) /\ PanelOK(View(p, s.pc)) /\ Calm(p, s, X) /\ <<>> \o u = u /\ o.ic = X
      /\ Steady(s, u, X) /\ o \in Ops
  BY First
<1>2. Run(s, o) = t /\ Rest(s, o) = <<>>  BY <1>1 DEF Run, Rest
<1>3. ~s.ics[X].on
  <2>1. Claim(s, View(p, s.pc), <<o>> \o u, X) /\ Has(<<o>> \o u, "replace")
        /\ Head(<<o>> \o u) = o
    BY ReadyFirst DEF Before1
  <2>2. QED  BY <2>1 DEF Claim
<1>4. o.u \in Uuids  BY <1>1 DEF Ops, Right
<1>5. /\ At(t, X) /\ Alike(s, t) /\ t.ics[X].on = s.ics[X].on
      /\ Deaf(View(p, s.pc), View(p, t.pc))
  BY <1>1, <1>3, <1>4, RenewAt
<1> HIDE DEF t
<1>6. Calm(p, t, X)  BY <1>1, <1>5, CalmAlike
<1>7. Steady(t, u, X)  BY <1>1, <1>5, SteadySame
<1>8. QED  BY <1>1, <1>2, <1>6, <1>7, SteadyReady DEF After1

LEMMA ShareStep ==
  ASSUME NEW p, NEW s, NEW o, NEW u, NEW X, Before1(p, s, o, u, X), o.f = "share"
  PROVE  After1(p, s, o, u, X)
<1> DEFINE t == Share(s, X)
<1>1. At(s, X) /\ Calm(p, s, X) /\ <<>> \o u = u /\ Steady(s, u, X) /\ o.ic = X
  BY First
<1>2. Run(s, o) = t /\ Rest(s, o) = <<>>  BY <1>1 DEF Run, Rest
<1>3. At(t, X) /\ t.pc = s.pc /\ Alike(s, t) /\ t.ics[X].on = s.ics[X].on  BY <1>1, ShareAt
<1> HIDE DEF t
<1>4. Calm(p, t, X)  BY <1>1, <1>3, CalmStill
<1>5. Steady(t, u, X)  BY <1>1, <1>3, SteadySame
<1>6. QED  BY <1>1, <1>2, <1>4, <1>5, SteadyReady DEF After1

LEMMA CallStep ==
  ASSUME NEW p, NEW s, NEW o, NEW u, NEW X, Before1(p, s, o, u, X), o.f = "call"
  PROVE  After1(p, s, o, u, X)
<1> DEFINE e == Op("engine", X)
<1>1. Calm(p, s, X) /\ Steady(s, u, X) /\ o.ic = X /\ X \in Ics  BY First
<1>2. Run(s, o) = s /\ Rest(s, o) = <<e>>  BY <1>1 DEF Run, Rest
<1>3. e \in Ops /\ e.ic = X /\ e.f = "engine"  BY <1>1, MyOp, FirstPlain
<1> HIDE DEF e
<1>4. Steady(s, <<e>> \o u, X)  BY <1>1, <1>3, SteadyPush DEF Plain, Switches
<1>5. QED  BY <1>1, <1>2, <1>4, SteadyReady DEF After1

\* The fallback instance declines, or commits to no effect.
LEMMA FallbackStep ==
  ASSUME NEW p, NEW s, NEW o, NEW u, NEW X, Before1(p, s, o, u, X), o.f = "fallback"
  PROVE  After1(p, s, o, u, X)
<1>1. Calm(p, s, X) /\ Steady(s, u, X) /\ <<>> \o u = u  BY First
<1>2. Run(s, o) = s /\ Rest(s, o) = <<>>  BY DEF Run, Rest
<1>3. QED  BY <1>1, <1>2, SteadyReady DEF After1

\* One more operation that shows nothing.
LEMMA PushReady ==
  ASSUME NEW p, NEW s, NEW X, Calm(p, s, X), NEW u, Steady(s, u, X), ~Has(u, "replace"),
         NEW o \in Ops, o.ic = X, o.f \in {"engine", "turn_on", "turn_off", "change"}
  PROVE  Ready(p, s, <<o>> \o u, X)
<1>1. o.f \in Plain \ {"show", "turned_off", "replace"}  BY DEF Plain
<1>2. Steady(s, <<o>> \o u, X)  BY <1>1, SteadyPush
<1>3. QED  BY <1>2, SteadyReady

LEMMA KeyStep ==
  ASSUME NEW p, NEW s, NEW o, NEW u, NEW X, Before1(p, s, o, u, X), o.f = "key"
  PROVE  After1(p, s, o, u, X)
<1> DEFINE k == o.u
<1>1. /\ Calm(p, s, X) /\ Steady(s, u, X) /\ ~Has(u, "replace") /\ <<>> \o u = u /\ o.ic = X
      /\ X \in Ics /\ o \in Ops
  BY First DEF Switches
<1>2. Run(s, o) = s /\ Rest(s, o) = KeyEvent(s, X, k)  BY <1>1 DEF Run, Rest
<1>3. k \in HotKeys \cup Uuids  BY <1>1 DEF Ops, Right
<1> HIDE DEF k
<1>4. /\ Op("turn_off", X) \in Ops /\ Op("turn_off", X).f = "turn_off" /\ Op("turn_off", X).ic = X
      /\ Op("turn_on", X) \in Ops /\ Op("turn_on", X).f = "turn_on" /\ Op("turn_on", X).ic = X
      /\ Op("engine", X) \in Ops /\ Op("engine", X).f = "engine" /\ Op("engine", X).ic = X
  BY <1>1, MyOp, FirstPlain
<1>5. Ready(p, s, u, X)  BY <1>1, SteadyReady
<1>6. CASE k = "TRIGGER"
  <2>1. KeyEvent(s, X, k) = <<Op(IF s.ics[X].on THEN "turn_off" ELSE "turn_on", X)>>
    BY <1>6, GtkAssumption DEF KeyEvent
  <2>2. Ready(p, s, <<Op("turn_off", X)>> \o u, X)  BY <1>1, <1>4, PushReady
  <2>3. Ready(p, s, <<Op("turn_on", X)>> \o u, X)  BY <1>1, <1>4, PushReady
  <2>4. CASE s.ics[X].on
    <3>1. KeyEvent(s, X, k) = <<Op("turn_off", X)>>  BY <2>1, <2>4
    <3>2. QED  BY <1>2, <2>2, <3>1 DEF After1
  <2>5. CASE ~s.ics[X].on
    <3>1. KeyEvent(s, X, k) = <<Op("turn_on", X)>>  BY <2>1, <2>5
    <3>2. QED  BY <1>2, <2>3, <3>1 DEF After1
  <2>6. QED  BY <2>4, <2>5
<1>7. CASE k = "none"
  <2> DEFINE e == Op("engine", s.focus)  d == Op("fallback", X)  b == s.focus # NoIcid /\ s.ics[s.focus].on
             m == IF b THEN <<e>> ELSE <<>>  y == <<d>>  v == y \o u
  <2>1. KeyEvent(s, X, k) = m \o y  BY <1>7, GtkAssumption DEF KeyEvent
  <2>2. d \in Ops /\ d.f = "fallback" /\ d.ic = X
    <3>1. "fallback" \in Names  BY DEF Names
    <3>2. QED  BY <1>1, <3>1, OpIn
  <2>3. b => e \in Ops /\ e.f = "engine"
    <3>1. "engine" \in Names  BY DEF Names
    <3>2. s.focus # NoIcid => s.focus \in Ics  BY <1>1, FocusIsLive DEF Calm, At
    <3>3. QED  BY <3>1, <3>2, OpIn
  <2>4. u \in Seq(Ops)  BY <1>1 DEF Steady, Script
  <2> HIDE DEF e, d, b
  <2>5. d.f \in Plain \ {"show", "turned_off", "replace"}  BY <2>2 DEF Plain
  <2>6. Steady(s, v, X) /\ v \in Seq(Ops) /\ y \in Seq(Ops)
    <3>1. Steady(s, v, X)  BY <1>1, <2>2, <2>5, SteadyPush
    <3>2. QED  BY <2>2, <3>1 DEF Steady, Script
  <2> HIDE DEF v
  <2>7. Steady(s, m \o v, X) /\ m \in Seq(Ops)
    <3>1. CASE b
      <4>1. Steady(s, <<e>> \o v, X)  BY <2>3, <2>6, <3>1, SteadyPush DEF Plain, Switches
      <4>2. <<e>> \in Seq(Ops)  BY <2>3, <3>1
      <4>3. QED  BY <3>1, <4>1, <4>2
    <3>2. CASE ~b
      <4>1. <<>> \o v = v /\ <<>> \in Seq(Ops)  BY <2>6
      <4>2. QED  BY <2>6, <3>2, <4>1
    <3>3. QED  BY <3>1, <3>2
  <2> HIDE DEF m, y
  <2>8. (m \o y) \o u = m \o v  BY <2>4, <2>6, <2>7, OpsJoin DEF v
  <2>9. Ready(p, s, (m \o y) \o u, X)  BY <1>1, <2>7, <2>8, SteadyReady
  <2>10. QED  BY <1>2, <2>1, <2>9 DEF After1
<1>8. CASE k \in Uuids
  <2> DEFINE c == OpU("change", X, k)
  <2>1. k \notin {"TRIGGER", "none"}  BY <1>8, GtkAssumption
  <2>2. KeyEvent(s, X, k) = <<c>>  BY <1>8, <2>1 DEF KeyEvent
  <2>3. k \in Args /\ "change" \in Names  BY <1>8 DEF Args, Names
  <2>4. Right(c)  BY <1>8 DEF Right, OpU
  <2>5. c \in Ops /\ c.f = "change" /\ c.ic = X  BY <1>1, <2>3, <2>4, OpUIn
  <2> HIDE DEF c
  <2>6. Ready(p, s, <<c>> \o u, X)  BY <1>1, <2>5, PushReady
  <2>7. QED  BY <1>2, <2>2, <2>6 DEF After1
<1>9. QED  BY <1>3, <1>6, <1>7, <1>8 DEF HotKeys

\* The five operations of a change, one after another.
Five(a, b, c, d, e, u)      == <<a, b, c, d, e>> \o u
OneByOne(a, b, c, d, e, u) == <<a>> \o (<<b>> \o (<<c>> \o (<<d>> \o (<<e>> \o u))))

LEMMA FiveOps ==
  ASSUME NEW a \in Ops, NEW b \in Ops, NEW c \in Ops, NEW d \in Ops, NEW e \in Ops,
         NEW u \in Seq(Ops)
  PROVE  Five(a, b, c, d, e, u) = OneByOne(a, b, c, d, e, u)
<1> DEFINE q == <<a, b, c, d, e>>  w == q \o u
<1>1. q \in Seq(Ops) /\ Len(q) = 5 /\ q[1] = a /\ q[2] = b /\ q[3] = c /\ q[4] = d /\ q[5] = e
  OBVIOUS
<1> HIDE DEF q
<1>2. Len(u) \in Nat  OBVIOUS
<1>a. /\ w \in Seq(Ops) /\ Len(w) = Len(q) + Len(u)
      /\ \A k \in 1..(Len(q) + Len(u)) : w[k] = IF k <= Len(q) THEN q[k] ELSE u[k - Len(q)]
  BY <1>1, ConcatProperties
<1>3. /\ w \in Seq(Ops) /\ Len(w) = 5 + Len(u)
      /\ \A k \in 1..(5 + Len(u)) : w[k] = IF k <= 5 THEN q[k] ELSE u[k - 5]
  BY <1>1, <1>a
<1> HIDE DEF w
<1>4. w[1] = a /\ w[2] = b /\ w[3] = c /\ w[4] = d /\ w[5] = e
      /\ \A k \in 1..Len(u) : w[k + 5] = u[k]
  BY <1>1, <1>2, <1>3
<1> DEFINE v1 == <<e>> \o u  v2 == <<d>> \o v1  v3 == <<c>> \o v2  v4 == <<b>> \o v3
           v5 == <<a>> \o v4
<1>5. v1 \in Seq(Ops) /\ Len(v1) = Len(u) + 1 /\ v1[1] = e /\ \A k \in 1..Len(u) : v1[k + 1] = u[k]
  BY Consed
<1> HIDE DEF v1
<1>6. /\ v2 \in Seq(Ops) /\ Len(v2) = Len(v1) + 1 /\ v2[1] = d
      /\ \A k \in 1..Len(v1) : v2[k + 1] = v1[k]
  BY <1>5, Consed
<1> HIDE DEF v2
<1>7. /\ v3 \in Seq(Ops) /\ Len(v3) = Len(v2) + 1 /\ v3[1] = c
      /\ \A k \in 1..Len(v2) : v3[k + 1] = v2[k]
  BY <1>6, Consed
<1> HIDE DEF v3
<1>8. /\ v4 \in Seq(Ops) /\ Len(v4) = Len(v3) + 1 /\ v4[1] = b
      /\ \A k \in 1..Len(v3) : v4[k + 1] = v3[k]
  BY <1>7, Consed
<1> HIDE DEF v4
<1>9. /\ v5 \in Seq(Ops) /\ Len(v5) = Len(v4) + 1 /\ v5[1] = a
      /\ \A k \in 1..Len(v4) : v5[k + 1] = v4[k]
  BY <1>8, Consed
<1> HIDE DEF v5
<1>10. v2[2] = e /\ \A k \in 1..Len(u) : v2[k + 2] = u[k]
  <2>1. 1 \in 1..Len(v1)  BY <1>2, <1>5
  <2>2. v2[1 + 1] = v1[1]  BY <1>6, <2>1
  <2>3. ASSUME NEW k \in 1..Len(u) PROVE v2[k + 2] = u[k]
    <3>1. k + 1 \in 1..Len(v1) /\ (k + 1) + 1 = k + 2  BY <1>2, <1>5
    <3>2. QED  BY <1>5, <1>6, <3>1
  <2>4. QED  BY <1>5, <2>2, <2>3
<1>11. v3[2] = d /\ v3[3] = e /\ \A k \in 1..Len(u) : v3[k + 3] = u[k]
  <2>1. 1 \in 1..Len(v2) /\ 2 \in 1..Len(v2)  BY <1>2, <1>5, <1>6
  <2>2. v3[1 + 1] = v2[1] /\ v3[2 + 1] = v2[2]  BY <1>7, <2>1
  <2>3. ASSUME NEW k \in 1..Len(u) PROVE v3[k + 3] = u[k]
    <3>1. k + 2 \in 1..Len(v2) /\ (k + 2) + 1 = k + 3  BY <1>2, <1>5, <1>6
    <3>2. QED  BY <1>7, <1>10, <3>1
  <2>4. QED  BY <1>6, <1>10, <2>2, <2>3
<1>12. v4[2] = c /\ v4[3] = d /\ v4[4] = e /\ \A k \in 1..Len(u) : v4[k + 4] = u[k]
  <2>1. 1 \in 1..Len(v3) /\ 2 \in 1..Len(v3) /\ 3 \in 1..Len(v3)  BY <1>2, <1>5, <1>6, <1>7
  <2>2. v4[1 + 1] = v3[1] /\ v4[2 + 1] = v3[2] /\ v4[3 + 1] = v3[3]  BY <1>8, <2>1
  <2>3. ASSUME NEW k \in 1..Len(u) PROVE v4[k + 4] = u[k]
    <3>1. k + 3 \in 1..Len(v3) /\ (k + 3) + 1 = k + 4  BY <1>2, <1>5, <1>6, <1>7
    <3>2. QED  BY <1>8, <1>11, <3>1
  <2>4. QED  BY <1>7, <1>11, <2>2, <2>3
<1>13. v5[2] = b /\ v5[3] = c /\ v5[4] = d /\ v5[5] = e /\ \A k \in 1..Len(u) : v5[k + 5] = u[k]
  <2>1. 1 \in 1..Len(v4) /\ 2 \in 1..Len(v4) /\ 3 \in 1..Len(v4) /\ 4 \in 1..Len(v4)
    BY <1>2, <1>5, <1>6, <1>7, <1>8
  <2>2. v5[1 + 1] = v4[1] /\ v5[2 + 1] = v4[2] /\ v5[3 + 1] = v4[3] /\ v5[4 + 1] = v4[4]
    BY <1>9, <2>1
  <2>3. ASSUME NEW k \in 1..Len(u) PROVE v5[k + 5] = u[k]
    <3>1. k + 4 \in 1..Len(v4) /\ (k + 4) + 1 = k + 5  BY <1>2, <1>5, <1>6, <1>7, <1>8
    <3>2. QED  BY <1>9, <1>12, <3>1
  <2>4. QED  BY <1>8, <1>12, <2>2, <2>3
<1>14. Len(v5) = 5 + Len(u)  BY <1>2, <1>5, <1>6, <1>7, <1>8, <1>9
<1>15. ASSUME NEW k \in 1..Len(w) PROVE w[k] = v5[k]
  <2>1. CASE k \in {1, 2, 3, 4, 5}  BY <1>4, <1>9, <1>13, <2>1
  <2>2. CASE k \notin {1, 2, 3, 4, 5}
    <3>1. k - 5 \in 1..Len(u) /\ (k - 5) + 5 = k  BY <1>2, <1>3, <2>2
    <3>2. QED  BY <1>4, <1>13, <3>1
  <2>3. QED  BY <2>1, <2>2
<1>16. w = v5  BY <1>3, <1>9, <1>14, <1>15, SeqEqual
<1>17. QED  BY <1>16 DEF w, q, v5, v4, v3, v2, v1, Five, OneByOne

LEMMA ChangeStep ==
  ASSUME NEW p, NEW s, NEW o, NEW u, NEW X, Before1(p, s, o, u, X), o.f = "change"
  PROVE  After1(p, s, o, u, X)
<1> DEFINE n == o.u
           a == Op("turn_off", X)  b == OpU("replace", X, n)  c == Op("engine", X)
           d == Op("turn_on", X)   e == Op("share", X)
<1>1. /\ Calm(p, s, X) /\ Steady(s, u, X) /\ ~Has(u, "replace") /\ <<>> \o u = u /\ o.ic = X
      /\ X \in Ics /\ o \in Ops /\ u \in Seq(Ops)
  BY First DEF Switches
<1>2. Run(s, o) = s /\ Rest(s, o) = Change(s, X, n)  BY <1>1 DEF Run, Rest
<1>3. n \in Uuids \cup {NoArg}  BY <1>1 DEF Ops, Right
<1> HIDE DEF n
<1>4. /\ a \in Ops /\ a.f = "turn_off" /\ a.ic = X /\ c \in Ops /\ c.f = "engine" /\ c.ic = X
      /\ d \in Ops /\ d.f = "turn_on" /\ d.ic = X /\ e \in Ops /\ e.f = "share" /\ e.ic = X
  BY <1>1, MyOp, FirstPlain
<1>5. CASE UuidOf(s, X) = n
  <2>1. Change(s, X, n) = <<d>>  BY <1>5 DEF Change
  <2> HIDE DEF a, c, d, e
  <2>2. Ready(p, s, <<d>> \o u, X)  BY <1>1, <1>4, PushReady
  <2>3. QED  BY <1>2, <2>1, <2>2 DEF After1
<1>6. CASE UuidOf(s, X) # n /\ n = NoArg
  <2>1. Change(s, X, n) = <<a>>  BY <1>6 DEF Change
  <2> HIDE DEF a, c, d, e
  <2>2. Ready(p, s, <<a>> \o u, X)  BY <1>1, <1>4, PushReady
  <2>3. QED  BY <1>2, <2>1, <2>2 DEF After1
<1>7. CASE UuidOf(s, X) # n /\ n # NoArg
  <2>1. Change(s, X, n) = <<a, b, c, d, e>>  BY <1>7 DEF Change
  <2>2. b \in Ops /\ b.f = "replace" /\ b.ic = X
    <3>1. n \in Uuids /\ n \in Args /\ "replace" \in Names  BY <1>3, <1>7 DEF Args, Names
    <3>2. Right(b)  BY <3>1 DEF Right, OpU
    <3>3. QED  BY <1>1, <3>1, <3>2, OpUIn
  <2> HIDE DEF a, b, c, d, e
  <2> DEFINE w1 == <<e>> \o u   w2 == <<d>> \o w1  w3 == <<c>> \o w2  w4 == <<b>> \o w3
             w5 == <<a>> \o w4
  <2>3. Steady(s, w1, X) /\ ~Has(w1, "replace") /\ w1 \in Seq(Ops)
    <3>1. e.f \in Plain \ {"show", "turned_off", "replace"}  BY <1>4 DEF Plain
    <3>2. Steady(s, w1, X)  BY <1>1, <1>4, <3>1, SteadyPush
    <3>3. QED  BY <1>1, <1>4, <3>2, HasCons DEF Steady, Script
  <2> HIDE DEF w1
  <2>4. Steady(s, w2, X) /\ ~Has(w2, "replace") /\ w2 \in Seq(Ops)
    <3>1. d.f \in Plain \ {"show", "turned_off", "replace"}  BY <1>4 DEF Plain
    <3>2. Steady(s, w2, X)  BY <1>4, <2>3, <3>1, SteadyPush
    <3>3. QED  BY <1>4, <2>3, <3>2, HasCons DEF Steady, Script
  <2> HIDE DEF w2
  <2>5. Steady(s, w3, X) /\ ~Has(w3, "replace") /\ w3 \in Seq(Ops)
    <3>1. c.f \in Plain \ {"show", "turned_off", "replace"}  BY <1>4 DEF Plain
    <3>2. Steady(s, w3, X)  BY <1>4, <2>4, <3>1, SteadyPush
    <3>3. QED  BY <1>4, <2>4, <3>2, HasCons DEF Steady, Script
  <2> HIDE DEF w3
  <2>6. Script(w4, X) /\ ~Has(w4, "show") /\ ~Has(w4, "turned_off") /\ w4 \in Seq(Ops) /\ w4 # <<>>
    <3>1. Script(w3, X) /\ ~Has(w3, "show") /\ ~Has(w3, "turned_off") /\ w3 # <<>>
      BY <2>5 DEF Steady, Script
    <3>2. Leads(b, w3, X)  BY <2>2, <2>5, <3>1 DEF Leads, Mine, Plain, Switches
    <3>3. Script(w4, X)  BY <2>2, <2>5, <3>1, <3>2, ScriptCons
    <3>4. ~Has(w4, "show") /\ ~Has(w4, "turned_off")  BY <2>2, <2>5, <3>1, HasCons
    <3>5. QED  BY <3>3, <3>4 DEF Script
  <2> HIDE DEF w4
  <2>7. Script(w5, X) /\ ~Has(w5, "show") /\ ~Has(w5, "turned_off") /\ Head(w5) = a
    <3>1. Leads(a, w4, X)  BY <1>4, <2>6 DEF Leads, Mine, Plain, Switches
    <3>2. Script(w5, X)  BY <1>4, <2>6, <3>1, ScriptCons
    <3>3. ~Has(w5, "show") /\ ~Has(w5, "turned_off")  BY <1>4, <2>6, HasCons
    <3>4. Head(w5) = a  BY <1>4, <2>6, Consed
    <3>5. QED  BY <3>2, <3>3, <3>4
  <2> HIDE DEF w5
  <2>8. Ready(p, s, w5, X)  BY <1>1, <1>4, <2>7 DEF Ready, Calm, Claim
  <2>9. <<a, b, c, d, e>> \o u = w5
    <3>1. Five(a, b, c, d, e, u) = OneByOne(a, b, c, d, e, u)
      BY <1>1, <1>4, <2>2, FiveOps
    <3>2. QED  BY <3>1 DEF w1, w2, w3, w4, w5, Five, OneByOne
  <2>10. QED  BY <1>2, <2>1, <2>8, <2>9 DEF After1
<1>8. QED  BY <1>5, <1>6, <1>7

\* Any operation that does not call the instance.
LEMMA PlainStep ==
  ASSUME NEW p, NEW s, NEW o, NEW u, NEW X, Before1(p, s, o, u, X)
  PROVE  After1(p, s, o, u, X)
<1>1. o.f \in Plain /\ o.f # "engine"  BY First DEF Before1
<1>2. QED
  BY <1>1, ShowStep, TurnOnStep, TurnOffStep, TurnedOffStep, RecordStep, KeyStep, ChangeStep,
     ReplaceStep, ShareStep, CallStep, FallbackStep DEF Plain

-----------------------------------------------------------------------------
(* Returning calls, and the last operation of a script.                    *)

\* A call of the instance returns.
LEMMA EngineStep ==
  ASSUME NEW p, NEW s, NEW o \in Ops, NEW u \in Seq(Ops), u # <<>>, NEW X,
         Ready(p, s, <<o>> \o u, X), o.f = "engine",
         NEW t, Quiet(s, t), At(t, X), Deaf(View(p, s.pc), View(p, t.pc))
  PROVE  Ready(p, t, u, X)
<1> DEFINE v == View(p, s.pc)  w == View(p, t.pc)
<1>1. /\ Script(u, X) /\ Claim(s, v, <<o>> \o u, X) /\ Head(<<o>> \o u) = o
      /\ Has(<<o>> \o u, "show") <=> Has(u, "show")
      /\ Has(<<o>> \o u, "turned_off") <=> Has(u, "turned_off")
      /\ Has(<<o>> \o u, "replace") <=> Has(u, "replace")
  BY ReadyFirst
<1> HIDE DEF v, w
<1>2. t.focus = s.focus /\ t.ics = s.ics /\ Alike(s, t)  BY QuietAlike DEF Quiet
<1>3. PanelOK(w) /\ w.cur = v.cur /\ w.fresh = v.fresh  BY DEF Deaf, v, w
<1>4. Has(u, "show") => t.focus = X  BY <1>1, <1>2 DEF Claim
<1>5. Has(u, "turned_off") => t.focus = X /\ ~t.ics[X].on /\ (w.fresh \/ w.cur = X)
  BY <1>1, <1>2, <1>3 DEF Claim
<1>6. ~Has(u, "show") /\ ~Has(u, "turned_off") => Shows(t, w)
  <2> SUFFICES ASSUME ~Has(u, "show"), ~Has(u, "turned_off") PROVE Shows(t, w)  OBVIOUS
  <2>1. Shows(s, v)  BY <1>1 DEF Claim
  <2>2. QED  BY <1>2, <2>1, AlikeShows DEF v, w
<1>7. Has(u, "replace") => ~t.ics[X].on  BY <1>1, <1>2 DEF Claim
<1>8. Claim(t, w, u, X)  BY <1>4, <1>5, <1>6, <1>7 DEF Claim
<1>9. QED  BY <1>1, <1>3, <1>8 DEF Ready, w

\* The last operation of a script: it shows what there is to show.
LEMMA LastReady ==
  ASSUME NEW p, NEW s, NEW o \in Ops, NEW X, Ready(p, s, <<o>>, X)
  PROVE  Calm(p, s, X) /\ o.ic = X /\ o.f \in Payers
<1>1. Script(<<o>>, X) /\ Claim(s, View(p, s.pc), <<o>>, X)  BY DEF Ready
<1>2. o.ic = X /\ o.f \in Payers /\ \A f : Has(<<o>>, f) <=> o.f = f  BY <1>1, ScriptOne
<1>3. ~Has(<<o>>, "show") /\ ~Has(<<o>>, "turned_off")  BY <1>2, PlainNames
<1>4. Shows(s, View(p, s.pc))  BY <1>1, <1>3 DEF Claim
<1>5. QED  BY <1>2, <1>4 DEF Ready, Calm

LEMMA SendEnd ==
  ASSUME NEW p, NEW s, NEW X, Calm(p, s, X)
  PROVE  LET t == [s EXCEPT !.pc = send(@)] IN Shows(t, View(p, t.pc))
<1> DEFINE d == send(s.pc)  t == [s EXCEPT !.pc = d]
<1>1. t = [s EXCEPT !.pc = send(@)]  OBVIOUS
<1>2. Good(s) /\ Client(s.pc)  BY DEF Calm, At
<1>3. View(p, d) = View(p, s.pc)  BY <1>2, SendView
<1> HIDE DEF d
<1>4. t.pc = d /\ t.focus = s.focus /\ t.ics = s.ics /\ t.inst = s.inst
  BY <1>2 DEF Good, Gt, Fields
<1> HIDE DEF t
<1>5. Info(t) = Info(s)  BY <1>4 DEF Info, UuidOf
<1>6. Shows(t, View(p, t.pc))  BY <1>3, <1>4, <1>5 DEF Calm, Shows
<1>7. QED  BY <1>1, <1>6

\* A context that has not the focus dies.
LEMMA DyingEnd ==
  ASSUME NEW p, NEW s, NEW X, Calm(p, s, X)
  PROVE  LET t == Dying(s, X) IN Shows(t, View(p, t.pc))
<1> DEFINE s1 == IF s.ics[X].si # s.def /\ Data(s, X) = X THEN Put(s, X, "HELPER", NoArg)
                 ELSE s
           s2 == IF s.focus = X
                   THEN Put(Put(s1, X, "TURN_OFF", NoArg), X, "FOCUS_OUT", NoArg)
                 ELSE s1
           s3 == Put(s2, X, "REMOVE", NoArg)
           d  == send(s3.pc)
           C  == [s3.ics EXCEPT ![X] = NoIC]
           f  == IF s3.focus = X THEN NoIcid ELSE s3.focus
           t  == [s3 EXCEPT !.pc = d, !.ics = C, !.focus = f]
<1>1. At(s, X) /\ Good(s) /\ PanelOK(View(p, s.pc)) /\ Shows(s, View(p, s.pc))
  BY DEF Calm, At
<1>2. Quiet(s, s1) /\ Good(s1)  BY <1>1, PutQuiet, QuietSelf
<1>a. Dying(s, X) = [s3 EXCEPT !.pc = send(@), !.ics[X] = NoIC,
                               !.focus = IF @ = X THEN NoIcid ELSE @]
  BY DEF Dying
<1>b. At(s1, X) /\ Deaf(View(p, s.pc), View(p, s1.pc))
  <2>1. LET r == Put(s, X, "HELPER", NoArg)
        IN  At(r, X) /\ Deaf(View(p, s.pc), View(p, r.pc))
    BY <1>1, DeafAt
  <2>2. Deaf(View(p, s.pc), View(p, s.pc))  BY <1>1, DeafSelf
  <2>3. QED  BY <1>1, <2>1, <2>2
<1> HIDE DEF s1
<1>3. Quiet(s1, s2) /\ Good(s2)  BY <1>2, TwoPuts, QuietSelf
<1>4. s.focus # X => s2 = s1  OBVIOUS
<1> HIDE DEF s2
<1>5. Quiet(s2, s3) /\ Good(s3)  BY <1>3, PutQuiet
<1>6. Quiet(s, s3)  BY <1>2, <1>3, <1>5, QuietTrans
<1>7. s.focus # X => Deaf(View(p, s.pc), View(p, s3.pc)) /\ Client(s3.pc)
  <2> SUFFICES ASSUME s.focus # X
               PROVE  Deaf(View(p, s.pc), View(p, s3.pc)) /\ Client(s3.pc)
    OBVIOUS
  <2>1. At(s2, X) /\ Deaf(View(p, s.pc), View(p, s2.pc)) /\ PanelOK(View(p, s2.pc))
    BY <1>4, <1>b DEF Deaf
  <2>2. At(s3, X) /\ Deaf(View(p, s2.pc), View(p, s3.pc))  BY <2>1, DeafAt
  <2> HIDE DEF s3
  <2>3. QED  BY <2>1, <2>2, DeafTrans DEF At
<1> HIDE DEF s3
<1>8. DOMAIN s3 = Fields /\ s3.focus = s.focus /\ s3.ics = s.ics /\ s3.inst = s.inst
  BY <1>6 DEF Quiet
<1>9. Dying(s, X) = t  BY <1>8, <1>a DEF Fields
<1> HIDE DEF d, C, f
<1>10. t.pc = d /\ t.ics = C /\ t.focus = f /\ t.inst = s.inst  BY <1>8 DEF Fields
<1> HIDE DEF t
<1>11. CASE s.focus = X \/ s.focus = NoIcid
  <2>1. t.focus = NoIcid  BY <1>8, <1>10, <1>11 DEF f
  <2>2. QED  BY <1>9, <2>1 DEF Shows
<1>12. CASE s.focus # X /\ s.focus # NoIcid
  <2>1. View(p, t.pc) = View(p, s3.pc)  BY <1>7, <1>10, <1>12, SendView DEF d
  <2>2. t.focus = s.focus  BY <1>8, <1>10, <1>12 DEF f
  <2>3. t.ics[s.focus] = s.ics[s.focus]  BY <1>8, <1>10, <1>12 DEF C
  <2>4. Info(t) = Info(s)  BY <1>10, <2>2, <2>3 DEF Info, UuidOf
  <2>5. Shows(t, View(p, t.pc))  BY <1>1, <1>7, <1>12, <2>1, <2>2, <2>3, <2>4 DEF Shows, Deaf
  <2>6. QED  BY <1>9, <2>5
<1>13. QED  BY <1>11, <1>12

LEMMA EndShows ==
  ASSUME NEW p, NEW s, NEW o \in Ops, NEW X, Ready(p, s, <<o>>, X)
  PROVE  LET t == Run(s, o) IN Shows(t, View(p, t.pc)) /\ Rest(s, o) = <<>>
<1> DEFINE t == Run(s, o)
<1>1. Calm(p, s, X) /\ o.ic = X /\ o.f \in Payers  BY LastReady
<1>2. Rest(s, o) = <<>>  BY <1>1 DEF Rest, Payers
<1>3. CASE o.f = "send"
  <2>1. t = [s EXCEPT !.pc = send(@)]  BY <1>3 DEF Run
  <2>2. QED  BY <1>1, <1>2, <2>1, SendEnd
<1>4. CASE o.f = "out"
  <2>1. t = Out(s, X)  BY <1>1, <1>4 DEF Run
  <2> DEFINE s1 == Put(Put(s, X, "TURN_OFF", NoArg), X, "FOCUS_OUT", NoArg)
  <2>2. Out(s, X) = [s1 EXCEPT !.pc = send(@), !.focus = NoIcid]  BY DEF Out
  <2>3. Quiet(s, s1)  BY <1>1, TwoPuts DEF Calm, At
  <2> HIDE DEF s1
  <2>4. t.focus = NoIcid  BY <2>1, <2>2, <2>3 DEF Quiet, Fields
  <2> HIDE DEF t
  <2>5. Shows(t, View(p, t.pc))  BY <2>4 DEF Shows
  <2>6. QED  BY <1>2, <2>5 DEF t
<1>5. CASE o.f = "dying"
  <2>1. t = Dying(s, X)  BY <1>1, <1>5 DEF Run
  <2>2. QED  BY <1>1, <1>2, <2>1, DyingEnd
<1>6. QED  BY <1>1, <1>3, <1>4, <1>5 DEF Payers

-----------------------------------------------------------------------------
(* The focus arrives.                                                      *)

\* What the panel shows once the open handlers have returned, if no other is
\* nested in them: the focus is on its way, or nothing is left to do and the panel
\* shows it, or the handler under way will do it.
Settling(p, s, q) ==
  \/ Arriving(q)
  \/ q = <<>> /\ Shows(s, View(p, s.pc))
  \/ \E X \in Ics : Ready(p, s, q, X)

\* A transaction is opened.
LEMMA PreparedAt ==
  ASSUME NEW s, Good(s), Client(s.pc), s.pc.up, s.pc.ref = 0, NEW X \in Live(s),
         NEW p, PanelOK(View(p, s.pc))
  PROVE  LET t == [s EXCEPT !.pc = prepare(@, X)]
         IN  /\ At(t, X) /\ PanelOK(View(p, t.pc)) /\ t.focus = s.focus /\ t.ics = s.ics
             /\ Shows(s, View(p, s.pc)) => Calm(p, t, X)
<1> DEFINE d == prepare(s.pc, X)  t == [s EXCEPT !.pc = d]
<1>1. t = [s EXCEPT !.pc = prepare(@, X)]  OBVIOUS
<1>2. Client(d) /\ d.up /\ View(p, d) = View(p, s.pc) /\ d.ref = 1 /\ d.cur = X  BY PrepareView
<1>3. Keeps(s, t)  BY <1>1, PrepareGood
<1> HIDE DEF d
<1>4. t.pc = d /\ t.focus = s.focus /\ t.ics = s.ics /\ t.inst = s.inst  BY DEF Good, Gt, Fields
<1> HIDE DEF t
<1>5. At(t, X)  BY <1>2, <1>3, <1>4 DEF At, Keeps, Open
<1>6. PanelOK(View(p, t.pc))  BY <1>2, <1>4
<1>7. Info(t) = Info(s)  BY <1>4 DEF Info, UuidOf
<1>8. Shows(s, View(p, s.pc)) => Shows(t, View(p, t.pc))  BY <1>2, <1>4, <1>7 DEF Shows
<1>9. QED  BY <1>1, <1>4, <1>5, <1>6, <1>8 DEF Calm

\* A script of two operations, the first of which calls the instance.
LEMMA EndScript ==
  ASSUME NEW s, NEW X, NEW o \in Ops, o.ic = X, o.f \in Payers
  PROVE  Steady(s, <<o>>, X)
BY ScriptOne, PlainNames DEF Steady

\* The focus leaves the context that has it.
LEMMA FocusOutOps ==
  ASSUME NEW s, NEW X \in Ics, s.focus = X
  PROVE  LET e == Op("engine", X)  d == Op("out", X)
             y == IF s.ics[X].shared THEN <<e>> ELSE <<>>
         IN  /\ FocusOut(s, X) = (<<e>> \o y) \o <<d>>
             /\ e \in Ops /\ e.f = "engine" /\ e.ic = X
             /\ d \in Ops /\ d.f = "out" /\ d.ic = X
             /\ y \in Seq(Ops) /\ <<e>> \in Seq(Ops) /\ <<d>> \in Seq(Ops)
<1> DEFINE e == Op("engine", X)  d == Op("out", X)
           y == IF s.ics[X].shared THEN <<e>> ELSE <<>>
<1>1. /\ e \in Ops /\ e.f = "engine" /\ e.ic = X
      /\ d \in Ops /\ d.f = "out" /\ d.ic = X
  BY MyOp, FirstPlain
<1>2. FocusOut(s, X) = (<<e>> \o y) \o <<d>>  BY DEF FocusOut
<1> HIDE DEF e, d
<1>3. y \in Seq(Ops) /\ <<e>> \in Seq(Ops) /\ <<d>> \in Seq(Ops)  BY <1>1
<1>4. QED  BY <1>1, <1>2, <1>3 DEF e, d

LEMMA FocusOutSteady ==
  ASSUME NEW s, NEW r, NEW X \in Ics, s.focus = X
  PROVE  Steady(r, FocusOut(s, X), X)
<1> DEFINE e == Op("engine", X)  d == Op("out", X)
           y == IF s.ics[X].shared THEN <<e>> ELSE <<>>
<1>1. /\ FocusOut(s, X) = (<<e>> \o y) \o <<d>>
      /\ e \in Ops /\ e.f = "engine" /\ e.ic = X
      /\ d \in Ops /\ d.f = "out" /\ d.ic = X
      /\ y \in Seq(Ops) /\ <<e>> \in Seq(Ops) /\ <<d>> \in Seq(Ops)
  BY FocusOutOps
<1> HIDE DEF e, d
<1>2. Steady(r, <<d>>, X)  BY <1>1, EndScript DEF Payers
<1>3. Steady(r, y \o <<d>>, X)  BY <1>1, <1>2, MaybePush
<1> HIDE DEF y
<1>4. Steady(r, <<e>> \o (y \o <<d>>), X)  BY <1>1, <1>3, SteadyPush DEF Plain, Switches
<1>5. (<<e>> \o y) \o <<d>> = <<e>> \o (y \o <<d>>)  BY <1>1, OpsJoin
<1>6. QED  BY <1>1, <1>4, <1>5

LEMMA FocusOutArrives ==
  ASSUME NEW s, NEW X \in Ics, NEW u \in Seq(Ops), u # <<>>, Arriving(u)
  PROVE  Arriving(FocusOut(s, X) \o u)
<1>1. CASE s.focus # X
  <2>1. FocusOut(s, X) = <<>>  BY <1>1 DEF FocusOut
  <2>2. <<>> \o u = u  OBVIOUS
  <2>3. QED  BY <2>1, <2>2
<1>2. CASE s.focus = X
  <2> DEFINE e == Op("engine", X)  d == Op("out", X)
             y == IF s.ics[X].shared THEN <<e>> ELSE <<>>  z == <<d>> \o u
  <2>1. /\ FocusOut(s, X) = (<<e>> \o y) \o <<d>>
        /\ e \in Ops /\ e.f = "engine" /\ e.ic = X
        /\ d \in Ops /\ d.f = "out" /\ d.ic = X
        /\ y \in Seq(Ops) /\ <<e>> \in Seq(Ops) /\ <<d>> \in Seq(Ops)
    BY <1>2, FocusOutOps
  <2> HIDE DEF e, d
  <2>2. Arriving(z)  BY <2>1, ArrivingCons
  <2> HIDE DEF z
  <2>3. z \in Seq(Ops) /\ z # <<>> /\ <<>> \o z = z  BY <2>2 DEF Arriving
  <2>4. Arriving(<<e>> \o z)  BY <2>1, <2>2, <2>3, ArrivingCons
  <2>5. Arriving(y \o z) /\ y \o z \in Seq(Ops) /\ y \o z # <<>>
    <3>1. CASE s.ics[X].shared  BY <2>4, <3>1 DEF Arriving
    <3>2. CASE ~s.ics[X].shared  BY <2>2, <2>3, <3>2
    <3>3. QED  BY <3>1, <3>2
  <2> HIDE DEF y
  <2>6. Arriving(<<e>> \o (y \o z))  BY <2>1, <2>5, ArrivingCons
  <2>7. ((<<e>> \o y) \o <<d>>) \o u = <<e>> \o (y \o z)
    <3> DEFINE a == <<e>>  b == <<d>>
    <3>1. a \in Seq(Ops) /\ b \in Seq(Ops)  BY <2>1
    <3> HIDE DEF a, b
    <3>2. a \o y \in Seq(Ops) /\ b \o u \in Seq(Ops)  BY <2>1, <3>1
    <3> DEFINE c == a \o y  w == b \o u
    <3>3. c \in Seq(Ops) /\ w \in Seq(Ops)  BY <3>2
    <3> HIDE DEF c, w
    <3>4. (c \o b) \o u = c \o (b \o u)  BY <3>1, <3>3, OpsJoin
    <3>5. a \in Seq(Ops) /\ y \in Seq(Ops) /\ w \in Seq(Ops)  BY <2>1, <3>1, <3>3
    <3>6. (a \o y) \o w = a \o (y \o w)  BY <3>5, OpsJoin
    <3>7. QED  BY <3>4, <3>6 DEF a, b, c, w, z
  <2>8. QED  BY <2>1, <2>6, <2>7
<1>3. QED  BY <1>1, <1>2

\* The operation that takes the focus is the last.
LEMMA ArrivingHead ==
  ASSUME NEW o \in Ops, NEW u \in Seq(Ops), Arriving(<<o>> \o u)
  PROVE  \/ u = <<>> /\ o.f = "take_focus"
         \/ u # <<>> /\ Arriving(u) /\ o.f \in {"focus_out", "engine", "out"}
<1>1. CASE u = <<>>
  <2>1. <<o>> \o u = <<o>>  BY <1>1
  <2>2. QED  BY <1>1, <2>1, ArrivingOne
<1>2. CASE u # <<>>  BY <1>2, ArrivingCons
<1>3. QED  BY <1>1, <1>2

\* A context takes the focus, its script is to show it.
LEMMA TakeReady ==
  ASSUME NEW s, Good(s), Client(s.pc), s.pc.up, s.pc.ref = 0, NEW o \in Ops, o.f = "take_focus",
         o.ic \in Live(s), NEW p, PanelOK(View(p, s.pc))
  PROVE  Ready(p, Run(s, o), Rest(s, o), o.ic)
<1> DEFINE X == o.ic  t == Run(s, o)  e == Op("engine", X)  a == Op("show", X)  b == Op("send", X)
           c == prepare(s.pc, X)  y == IF s.shared THEN <<e>> ELSE <<>>
<1>1. t = take_focus(s, X)  BY DEF Run
<1>2. Rest(s, o) = y \o <<a, b>>  BY DEF Rest
<1>3. X \in Ics  BY DEF Live
<1>4. /\ e \in Ops /\ e.f = "engine" /\ e.ic = X /\ a \in Ops /\ a.f = "show" /\ a.ic = X
      /\ b \in Ops /\ b.f = "send" /\ b.ic = X
  BY <1>3, MyOp, FirstPlain
<1>5. Client(c) /\ c.up /\ View(p, c) = View(p, s.pc) /\ c.ref = 1 /\ c.cur = X  BY PrepareView
<1>6. Keeps(s, t)  BY <1>1, TakeFocusGood
<1>7. /\ t.focus = X
      /\ ~s.shared => t.pc = c
      /\ s.shared => \E u : t.pc = put(c, X, "REGISTER", u)
  BY <1>1, TakePc
<1>8. Chats(s.pc, t.pc)  BY RunChats
<1> HIDE DEF c, t
<1>9. t.pc.up /\ t.pc.ref = 1 /\ t.pc.cur = X
  <2>1. CASE ~s.shared  BY <1>5, <1>7, <2>1
  <2>2. CASE s.shared
    <3>1. PICK u : t.pc = put(c, X, "REGISTER", u)  BY <1>7, <2>2
    <3>2. QED  BY <1>5, <3>1, PutClient
  <2>3. QED  BY <2>1, <2>2
<1>10. At(t, X) /\ PanelOK(View(p, t.pc))  BY <1>6, <1>8, <1>9 DEF At, Open, Keeps, Chats
<1> HIDE DEF e, a, b
<1> DEFINE z == <<a>> \o <<b>>
<1>11. <<a, b>> = z /\ <<b>> \in Seq(Ops) /\ <<b>> # <<>>  BY <1>4, Pair
<1>12. Script(<<b>>, X) /\ ~Has(<<b>>, "show") /\ ~Has(<<b>>, "turned_off") /\ ~Has(<<b>>, "replace")
  BY <1>4, ScriptOne, PlainNames DEF Payers
<1>13. Script(z, X) /\ Has(z, "show") /\ ~Has(z, "turned_off") /\ ~Has(z, "replace")
  <2>1. Leads(a, <<b>>, X)  BY <1>4, <1>12 DEF Leads, Mine, Plain
  <2>2. QED  BY <1>4, <1>11, <1>12, <2>1, ScriptCons, HasCons
<1> HIDE DEF z
<1>14. z \in Seq(Ops) /\ z # <<>> /\ <<>> \o z = z  BY <1>13 DEF Script
<1> DEFINE w == <<e>> \o z
<1>15. Script(w, X) /\ Has(w, "show") /\ ~Has(w, "turned_off") /\ ~Has(w, "replace")
  <2>1. Leads(e, z, X)  BY <1>4, <1>13 DEF Leads, Mine, Plain
  <2>2. QED  BY <1>4, <1>13, <1>14, <2>1, ScriptCons, HasCons
<1> HIDE DEF w
<1>16. y \o z = z \/ y \o z = w
  <2>1. CASE s.shared  BY <2>1 DEF w
  <2>2. CASE ~s.shared  BY <1>14, <2>2
  <2>3. QED  BY <2>1, <2>2
<1>17. Ready(p, t, z, X)  BY <1>7, <1>10, <1>13 DEF Ready, Claim
<1>18. Ready(p, t, w, X)  BY <1>7, <1>10, <1>15 DEF Ready, Claim
<1>19. Rest(s, o) = z \/ Rest(s, o) = w  BY <1>2, <1>11, <1>16
<1>20. QED  BY <1>17, <1>18, <1>19 DEF t

-----------------------------------------------------------------------------
(* The operations of the open handlers, run one by one.                    *)

\* What the client has to tell the panel, while there is one.
Talks(p, c) == Client(c) /\ c.up /\ PanelOK(View(p, c))

\* From r to c instances were collected.
Tidy(r, c) ==
  /\ Keeps(r, c) /\ Alike(r, c) /\ c.ics = r.ics
  /\ Client(c.pc) /\ c.pc.up = r.pc.up /\ c.pc.ref = r.pc.ref /\ c.pc.cur = r.pc.cur
  /\ \A p : View(p, c.pc) = View(p, r.pc)

LEMMA TidyIs ==
  ASSUME NEW r, Good(r), Client(r.pc)
  PROVE  Tidy(r, [Collect(r) EXCEPT !.pc.wire = @])
<1> DEFINE k == Collect(r)  d == [k.pc EXCEPT !.wire = k.pc.wire]  c == [k EXCEPT !.pc = d]
<1>1. Keeps(r, k) /\ k.pc = r.pc /\ k.focus = r.focus  BY CollectGood
<1>2. Alike(r, k) /\ k.ics = r.ics  BY CollectAlike
<1>3. [Collect(r) EXCEPT !.pc.wire = @] = c  BY <1>1 DEF Keeps, Good, Gt, Fields
<1>a. Quiet(k, [k EXCEPT !.pc.wire = k.pc.wire])  BY <1>1, WireQuiet DEF Keeps
<1>b. [k EXCEPT !.pc.wire = k.pc.wire] = c  OBVIOUS
<1> HIDE DEF k
<1>4. /\ DOMAIN d = PcFields /\ d.up = r.pc.up /\ d.ref = r.pc.ref /\ d.cur = r.pc.cur
      /\ d.wire = r.pc.wire /\ d.trans = r.pc.trans
  BY <1>1 DEF Client, PcFields
<1> HIDE DEF d
<1>5. c.pc = d  BY <1>1 DEF Keeps, Good, Gt, Fields
<1>6. Quiet(k, c)  BY <1>a, <1>b
<1> HIDE DEF c
<1>7. Keeps(k, c) /\ Alike(k, c) /\ c.ics = k.ics  BY <1>1, <1>6, QuietGood, QuietAlike DEF Keeps, Quiet
<1>8. Keeps(r, c) /\ Alike(r, c) /\ c.ics = r.ics  BY <1>1, <1>2, <1>7, KeepsTrans, AlikeTrans
<1>9. Client(d) /\ \A p : View(p, d) = View(p, r.pc)  BY <1>4 DEF Client, View
<1>10. Tidy(r, c)  BY <1>4, <1>5, <1>8, <1>9 DEF Tidy
<1>11. QED  BY <1>3, <1>10

LEMMA TidySettling ==
  ASSUME NEW r, NEW c, Tidy(r, c), NEW p, NEW q, Settling(p, r, q)
  PROVE  Settling(p, c, q)
<1>1. View(p, c.pc) = View(p, r.pc) /\ Alike(r, c) /\ c.ics = r.ics /\ c.focus = r.focus
  BY DEF Tidy, Alike
<1>2. Shows(r, View(p, r.pc)) => Shows(c, View(p, c.pc))  BY <1>1 DEF Shows, Alike
<1>3. ASSUME NEW X \in Ics, Ready(p, r, q, X) PROVE Ready(p, c, q, X)
  <2>1. At(c, X)  BY <1>3 DEF Ready, At, Tidy, Keeps, Open
  <2>2. Claim(c, View(p, c.pc), q, X)  BY <1>1, <1>2, <1>3 DEF Ready, Claim
  <2>3. QED  BY <1>1, <1>3, <2>1, <2>2 DEF Ready
<1>4. QED  BY <1>2, <1>3 DEF Settling

\* Operation o is run, with a panel or without one.
LEMMA DoTalks ==
  ASSUME NEW s, Good(s), Client(s.pc), NEW o \in Ops, o.f # "ret" => o.ic \in Live(s),
         NEW rest, Do(s, o, rest)
  PROVE  /\ Client(g'.pc) /\ todo' = Rest(s, o) \o rest
         /\ alive => Tidy(Run(s, o), g')
         /\ \A p : alive /\ Talks(p, s.pc) => Talks(p, g'.pc)
<1> DEFINE r == Run(s, o)
<1>1. Good(r)  BY RunRan DEF Ran
<1>2. Chats(s.pc, r.pc)  BY RunChats
<1> HIDE DEF r
<1>3. CASE alive
  <2> DEFINE c == [Collect(r) EXCEPT !.pc.wire = @]
  <2>1. g' = c  BY <1>3 DEF Do, r
  <2>2. Tidy(r, c)  BY <1>1, <1>2, TidyIs DEF Chats
  <2> HIDE DEF c
  <2>3. Tidy(r, g')  BY <2>1, <2>2
  <2> DEFINE b == g'
  <2>4. Tidy(r, b) /\ b = g'  BY <2>3
  <2> HIDE DEF b
  <2>5. Client(b.pc)  BY <2>4 DEF Tidy
  <2>6. \A p : Talks(p, s.pc) => Talks(p, b.pc)  BY <1>2, <2>4 DEF Tidy, Talks, Chats
  <2>7. todo' = Rest(s, o) \o rest  BY DEF Do
  <2>8. QED  BY <2>4, <2>5, <2>6, <2>7 DEF r
<1>4. CASE ~alive
  <2> DEFINE k == Collect(r)  w == <<>>  d == [k.pc EXCEPT !.wire = w]  c == [k EXCEPT !.pc = d]
  <2>1. g' = [k EXCEPT !.pc.wire = <<>>]  BY <1>4 DEF Do, r
  <2>2. k.pc = r.pc /\ DOMAIN k = Fields  BY <1>1, CollectGood DEF Keeps, Good, Gt
  <2>3. g' = c  BY <2>1
  <2>4. Client(r.pc)  BY <1>2 DEF Chats
  <2>a. IsSeq(w)  BY <2>4, NothingJoined DEF Client
  <2> HIDE DEF k, w
  <2>5. /\ DOMAIN d = PcFields /\ d.ref = r.pc.ref /\ d.wire = w /\ d.trans = r.pc.trans
    BY <2>2, <2>4 DEF Client, PcFields
  <2> HIDE DEF d
  <2>6. Client(d)  BY <2>4, <2>5, <2>a DEF Client
  <2>7. c.pc = d  BY <2>2 DEF Fields
  <2> HIDE DEF c
  <2>8. Client(g'.pc)  BY <2>3, <2>6, <2>7
  <2>9. todo' = Rest(s, o) \o rest  BY DEF Do
  <2>10. QED  BY <1>4, <2>8, <2>9
<1>5. QED  BY <1>3, <1>4

\* The next operation of a handler that is to settle the focus.
LEMMA RunSettles ==
  ASSUME NEW s, Good(s), NEW p, Talks(p, s.pc), NEW q \in Seq(Ops), q # <<>>,
         s.pc.ref <= Num(q, Payers), Head(q).f # "engine",
         Head(q).f # "ret" => Head(q).ic \in Live(s), Settling(p, s, q)
  PROVE  Settling(p, Run(s, Head(q)), Rest(s, Head(q)) \o Tail(q))
<1> DEFINE o == Head(q)  u == Tail(q)  t == Run(s, o)
<1>1. o \in Ops /\ u \in Seq(Ops) /\ q = <<o>> \o u  BY ConsHead
<1>2. Client(s.pc) /\ s.pc.up /\ PanelOK(View(p, s.pc))  BY DEF Talks
<1>a. o.f # "engine" /\ (o.f # "ret" => o.ic \in Live(s))  OBVIOUS
<1> SUFFICES Settling(p, t, Rest(s, o) \o u)  OBVIOUS
<1> HIDE DEF o, u
<1>3. CASE Arriving(q)
  <2>1. \/ u = <<>> /\ o.f = "take_focus"
        \/ u # <<>> /\ Arriving(u) /\ o.f \in {"focus_out", "engine", "out"}
    BY <1>1, <1>3, ArrivingHead
  <2>2. CASE u = <<>> /\ o.f = "take_focus"
    <3>1. q = <<o>>  BY <1>1, <2>2
    <3>2. Num(<<o>>, Payers) = 0  BY <1>1, <2>2, NumOne DEF Payers
    <3>3. s.pc.ref = 0  BY <1>2, <3>1, <3>2 DEF Client
    <3>4. Ready(p, t, Rest(s, o), o.ic) /\ o.ic \in Ics
      BY <1>1, <1>2, <1>a, <2>2, <3>3, TakeReady DEF Live
    <3>5. Rest(s, o) \in Seq(Ops)  BY <3>4 DEF Ready, Script
    <3>6. Rest(s, o) \o u = Rest(s, o)  BY <2>2, <3>5
    <3>7. QED  BY <3>4, <3>6 DEF Settling
  <2>3. CASE u # <<>> /\ Arriving(u) /\ o.f = "out"
    <3>1. Rest(s, o) = <<>>  BY <2>3 DEF Rest
    <3>2. <<>> \o u = u  BY <1>1
    <3>3. QED  BY <2>3, <3>1, <3>2 DEF Settling
  <2>4. CASE u # <<>> /\ Arriving(u) /\ o.f = "focus_out"
    <3>1. Rest(s, o) = FocusOut(s, o.ic)  BY <2>4 DEF Rest
    <3>2. o.ic \in Ics  BY <1>1 DEF Ops
    <3>3. QED  BY <1>1, <2>4, <3>1, <3>2, FocusOutArrives DEF Settling
  <2>5. QED  BY <1>a, <2>1, <2>2, <2>3, <2>4
<1>4. ASSUME NEW X \in Ics, Ready(p, s, q, X) PROVE Settling(p, t, Rest(s, o) \o u)
  <2>1. CASE u = <<>>
    <3>1. q = <<o>>  BY <1>1, <2>1
    <3>2. Shows(t, View(p, t.pc)) /\ Rest(s, o) = <<>>  BY <1>1, <1>4, <3>1, EndShows
    <3>3. Rest(s, o) \o u = <<>>  BY <2>1, <3>2
    <3>4. QED  BY <3>2, <3>3 DEF Settling
  <2>2. CASE u # <<>>
    <3>1. Before1(p, s, o, u, X)  BY <1>1, <1>4, <1>a, <2>2 DEF Before1
    <3>2. After1(p, s, o, u, X)  BY <3>1, PlainStep
    <3>3. QED  BY <3>2 DEF After1, Settling
  <2>3. QED  BY <2>1, <2>2
<1>5. QED  BY <1>3, <1>4 DEF Settling

\* The instance that was called returns, after it has emitted or not.
LEMMA ReturnSettles ==
  ASSUME NEW s, Good(s), NEW p, Talks(p, s.pc), NEW q \in Seq(Ops), q # <<>>,
         Head(q).f = "engine", Settling(p, s, q),
         NEW e, e.f = "emit", NEW t, t = s \/ t = Run(s, e)
  PROVE  Settling(p, t, Tail(q))
<1> DEFINE o == Head(q)  u == Tail(q)
<1>1. o \in Ops /\ u \in Seq(Ops) /\ q = <<o>> \o u /\ o.f = "engine"  BY ConsHead
<1> SUFFICES Settling(p, t, u)  OBVIOUS
<1> HIDE DEF o, u
<1>3. CASE Arriving(q)
  <2>1. Arriving(u)  BY <1>1, <1>3, ArrivingHead
  <2>2. QED  BY <2>1 DEF Settling
<1>4. ASSUME NEW X \in Ics, Ready(p, s, q, X) PROVE Settling(p, t, u)
  <2>1. u # <<>>
    <3>1. SUFFICES ASSUME u = <<>> PROVE FALSE  OBVIOUS
    <3>2. q = <<o>>  BY <1>1, <3>1
    <3>3. o.f \in Payers  BY <1>1, <1>4, <3>2, LastReady
    <3>4. QED  BY <1>1, <3>3 DEF Payers
  <2>2. At(s, X) /\ PanelOK(View(p, s.pc))  BY <1>4 DEF Ready
  <2>3. Quiet(s, t) /\ At(t, X) /\ Deaf(View(p, s.pc), View(p, t.pc))
    <3>1. CASE t = s  BY <2>2, <3>1, QuietSelf, DeafSelf
    <3>2. CASE t = Run(s, e)  BY <2>2, <3>2, EmitAt
    <3>3. QED  BY <3>1, <3>2
  <2>4. Ready(p, t, u, X)  BY <1>1, <1>4, <2>1, <2>3, EngineStep
  <2>5. QED  BY <2>4 DEF Settling
<1>5. QED  BY <1>3, <1>4 DEF Settling

-----------------------------------------------------------------------------
(* The invariant, and the actions that begin a handler or go on with it.   *)

\* The connection and the panel's session.
Linked ==
  /\ Client(g.pc)
  /\ alive => Talks(panel, g.pc)
  /\ ~alive => panel = NewSession(Ics)

\* While the panel lives and no handler was nested since the focus last arrived,
\* the stack settles it.
SettleInv == Linked /\ (alive /\ ~mess => Settling(panel, g, todo))

LEMMA IdleShows ==
  ASSUME NEW p, NEW s, Settling(p, s, <<>>)
  PROVE  Shows(s, View(p, s.pc))
<1>1. ~Arriving(<<>>)  BY DEF Arriving
<1>2. \A X : ~Ready(p, s, <<>>, X)  BY NothingThere DEF Ready
<1>3. QED  BY <1>1, <1>2 DEF Settling

\* Operation o is run on data s, and settles what it has to.
LEMMA DoSettles ==
  ASSUME NEW s, Good(s), Client(s.pc), alive => Talks(panel, s.pc),
         ~alive => panel = NewSession(Ics),
         NEW o \in Ops, o.f # "ret" => o.ic \in Live(s), NEW rest, Do(s, o, rest),
         panel' = panel, alive' = alive,
         alive /\ ~mess' => Settling(panel, Run(s, o), Rest(s, o) \o rest)
  PROVE  SettleInv'
<1> DEFINE b == g'  q == Rest(s, o) \o rest  r == Run(s, o)
<1>1. /\ Client(b.pc) /\ todo' = q
      /\ alive => Tidy(r, b)
      /\ \A p : alive /\ Talks(p, s.pc) => Talks(p, b.pc)
  BY DoTalks
<1>2. g' = b /\ (alive /\ ~mess' => Settling(panel, r, q))  OBVIOUS
<1> HIDE DEF b, q, r
<1>3. alive /\ ~mess' => Settling(panel, b, q)  BY <1>1, <1>2, TidySettling
<1>4. Linked'  BY <1>1, <1>2 DEF Linked
<1>5. QED  BY <1>1, <1>2, <1>3, <1>4 DEF SettleInv

LEMMA StepSettles ==
  ASSUME GInv, SettleInv, Step
  PROVE  SettleInv'
<1> DEFINE o == Head(todo)  u == Tail(todo)
<1>1. Fit(g, todo) /\ todo # <<>> /\ o.f # "engine"  BY DEF GInv, Step
<1>2. Good(g) /\ Stack(Live(g), todo) /\ todo \in Seq(Ops) /\ g.pc.ref <= Num(todo, Payers)
  BY <1>1 DEF Fit, Stack
<1>3. o \in Ops /\ (o.f # "ret" => o.ic \in Live(g))  BY <1>1, <1>2, StackPop
<1>4. Do(g, o, u) /\ panel' = panel /\ alive' = alive /\ mess' = mess  BY DEF Step
<1>5. Client(g.pc) /\ (alive => Talks(panel, g.pc)) /\ (~alive => panel = NewSession(Ics))
  BY DEF SettleInv, Linked
<1>6. alive /\ ~mess => Settling(panel, Run(g, o), Rest(g, o) \o u)
  <2> SUFFICES ASSUME alive, ~mess PROVE Settling(panel, Run(g, o), Rest(g, o) \o u)
    OBVIOUS
  <2>1. Settling(panel, g, todo) /\ Talks(panel, g.pc)  BY <1>5 DEF SettleInv
  <2>2. QED  BY <1>1, <1>2, <1>3, <2>1, RunSettles
<1> HIDE DEF o, u
<1>7. QED  BY <1>2, <1>3, <1>4, <1>5, <1>6, DoSettles

LEMMA EngineReturnsSettles ==
  ASSUME GInv, SettleInv, NEW emits \in BOOLEAN, EngineReturns(emits)
  PROVE  SettleInv'
<1> DEFINE o == Op("emit", Head(todo).ic)  t == IF emits THEN Run(g, o) ELSE g
<1>1. Fit(g, todo) /\ todo # <<>> /\ Head(todo).f = "engine"  BY DEF GInv, EngineReturns
<1>2. Good(g) /\ todo \in Seq(Ops)  BY <1>1 DEF Fit, Stack
<1>3. o \in Ops /\ o.f = "emit" /\ o.ic \in Live(g)
  <2>1. Head(todo).ic \in Live(g)  BY <1>1, CalledStack
  <2>2. "emit" \in Names /\ Head(todo).ic \in Ics  BY <2>1 DEF Names, Live
  <2>3. QED  BY <2>1, <2>2, OpIn
<1>4. g' = t /\ todo' = Tail(todo) /\ mess' = mess /\ panel' = panel /\ alive' = alive
  BY DEF EngineReturns
<1>5. Client(g.pc) /\ (alive => Talks(panel, g.pc)) /\ (~alive => panel = NewSession(Ics))
  BY DEF SettleInv, Linked
<1> HIDE DEF o
<1>6. Chats(g.pc, t.pc)  BY <1>2, <1>3, <1>5, RunChats, ChatsSelf
<1>7. t = g \/ t = Run(g, o)  OBVIOUS
<1> HIDE DEF t
<1>8. alive /\ ~mess => Settling(panel, t, Tail(todo))
  <2> SUFFICES ASSUME alive, ~mess PROVE Settling(panel, t, Tail(todo))
    OBVIOUS
  <2>1. Settling(panel, g, todo) /\ Talks(panel, g.pc)  BY <1>5 DEF SettleInv
  <2>2. QED  BY <1>1, <1>2, <1>3, <1>7, <2>1, ReturnSettles
<1>9. Linked'  BY <1>4, <1>5, <1>6 DEF Linked, Chats, Talks
<1>10. QED  BY <1>4, <1>8, <1>9 DEF SettleInv

LEMMA NestedSettles ==
  ASSUME GInv, SettleInv, NEW f \in {"focus_in", "focus_out", "reset", "finalize"}, NEW ic \in Ics,
         Nested(f, ic)
  PROVE  SettleInv'
<1> DEFINE o == Op(f, ic)  rest == <<Op("ret", ic), Op("emit", Head(todo).ic)>> \o Tail(todo)
<1>1. Good(g) /\ ic \in Live(g)  BY DEF GInv, Fit, Nested
<1>2. f \in Names /\ f \notin {"replace", "change", "key"}  BY DEF Names
<1>3. o \in Ops /\ o.f = f /\ o.ic = ic  BY <1>2, OpIn
<1>4. Do(g, o, rest) /\ panel' = panel /\ alive' = alive /\ mess'  BY DEF Nested
<1>5. Client(g.pc) /\ (alive => Talks(panel, g.pc)) /\ (~alive => panel = NewSession(Ics))
  BY DEF SettleInv, Linked
<1> HIDE DEF o, rest
<1>6. QED  BY <1>1, <1>3, <1>4, <1>5, DoSettles

LEMMA FallbackSettles ==
  ASSUME GInv, SettleInv, NEW f \in {"focus_in", "focus_out", "reset", "finalize"}, NEW ic \in Ics,
         FallbackCommits(f, ic)
  PROVE  SettleInv'
<1> DEFINE o == Op(f, ic)  rest == <<Op("ret", ic)>> \o Tail(todo)
<1>1. Good(g) /\ ic \in Live(g)  BY DEF GInv, Fit, FallbackCommits
<1>2. f \in Names /\ f \notin {"replace", "change", "key"}  BY DEF Names
<1>3. o \in Ops /\ o.f = f /\ o.ic = ic  BY <1>2, OpIn
<1>4. Do(g, o, rest) /\ panel' = panel /\ alive' = alive /\ mess'  BY DEF FallbackCommits
<1>5. Client(g.pc) /\ (alive => Talks(panel, g.pc)) /\ (~alive => panel = NewSession(Ics))
  BY DEF SettleInv, Linked
<1> HIDE DEF o, rest
<1>6. QED  BY <1>1, <1>3, <1>4, <1>5, DoSettles

\* An operation that ends a script, after a call of the instance.
LEMMA CallThen ==
  ASSUME NEW s, NEW X \in Ics, NEW f \in {"send", "out", "dying"}
  PROVE  LET q == <<Op("engine", X), Op(f, X)>>
         IN  Steady(s, q, X) /\ Steady(s, <<Op(f, X)>>, X) /\ q \in Seq(Ops) /\ q \o <<>> = q
<1> DEFINE e == Op("engine", X)  d == Op(f, X)  q == <<e, d>>
<1>1. /\ e \in Ops /\ e.f = "engine" /\ e.ic = X /\ d \in Ops /\ d.f = f /\ d.ic = X
  BY MyOp, FirstPlain
<1> HIDE DEF e, d
<1>2. Steady(s, <<d>>, X)  BY <1>1, EndScript DEF Payers
<1>3. Steady(s, <<e>> \o <<d>>, X)  BY <1>1, <1>2, SteadyPush DEF Plain, Switches
<1>4. q = <<e>> \o <<d>>  BY <1>1, Pair
<1> HIDE DEF q
<1>5. q \in Seq(Ops)  BY <1>3, <1>4 DEF Steady, Script
<1>6. q \o <<>> = q  BY <1>5
<1>7. QED  BY <1>2, <1>3, <1>4, <1>5, <1>6 DEF q, e, d

\* A handler begins with no other open.
LEMMA BeginSettles ==
  ASSUME NEW s, Good(s), NEW p, Talks(p, s.pc), s.pc.ref = 0, NEW ic \in Live(s),
         NEW f \in {"focus_in", "focus_out", "reset", "finalize"},
         Shows(s, View(p, s.pc)) \/ (f = "focus_in" /\ s.focus # ic)
  PROVE  LET o == Op(f, ic) IN Settling(p, Run(s, o), Rest(s, o) \o <<>>)
<1> DEFINE o == Op(f, ic)  t == [s EXCEPT !.pc = prepare(@, ic)]
<1>1. Client(s.pc) /\ s.pc.up /\ PanelOK(View(p, s.pc)) /\ ic \in Ics  BY DEF Talks, Live
<1>2. f \in Names \ {"replace", "change", "key"}  BY DEF Names
<1>3. o \in Ops /\ o.f = f /\ o.ic = ic  BY <1>1, <1>2, MyOp
<1>4. Shows(s, View(p, s.pc)) => Calm(p, t, ic)  BY <1>1, PreparedAt
<1>5. CASE f = "focus_in" /\ s.focus # ic
  <2>1. Run(s, o) = s /\ Rest(s, o) = FocusIn(s, ic)  BY <1>3, <1>5 DEF Run, Rest
  <2> DEFINE a == Op("take_focus", ic)  b == Op("focus_out", s.focus)
  <2>2. a \in Ops /\ a.f = "take_focus"
    <3>1. "take_focus" \in Names  BY DEF Names
    <3>2. QED  BY <1>1, <3>1, OpIn
  <2>3. s.focus # NoIcid => b \in Ops /\ b.f = "focus_out"
    <3>1. "focus_out" \in Names  BY DEF Names
    <3>2. QED  BY <3>1, OpIn, FocusIsLive
  <2>4. FocusIn(s, ic) = IF s.focus = NoIcid THEN <<a>> ELSE <<b, a>>  BY <1>5 DEF FocusIn
  <2> HIDE DEF a, b
  <2>5. Arriving(<<a>>) /\ <<a>> \in Seq(Ops) /\ <<a>> # <<>>  BY <2>2, ArrivingOne
  <2>6. Arriving(FocusIn(s, ic))
    <3>1. CASE s.focus = NoIcid  BY <2>4, <2>5, <3>1
    <3>2. CASE s.focus # NoIcid
      <4>1. <<b, a>> = <<b>> \o <<a>>  BY <2>2, <2>3, <3>2, Pair
      <4>2. Arriving(<<b>> \o <<a>>)  BY <2>3, <2>5, <3>2, ArrivingCons
      <4>3. QED  BY <2>4, <3>2, <4>1, <4>2
    <3>3. QED  BY <3>1, <3>2
  <2>7. FocusIn(s, ic) \o <<>> = FocusIn(s, ic)  BY <2>6 DEF Arriving
  <2>8. QED  BY <2>1, <2>6, <2>7 DEF Settling
<1>6. CASE (f = "focus_in" /\ s.focus = ic) \/ (f \in {"focus_out", "reset"} /\ s.focus # ic)
  <2>1. Run(s, o) = s  BY <1>3, <1>6 DEF Run
  <2>2. Rest(s, o) = <<>>  BY <1>3, <1>6 DEF Rest, FocusIn, FocusOut
  <2>3. <<>> \o <<>> = <<>>  OBVIOUS
  <2>4. QED  BY <1>6, <2>1, <2>2, <2>3 DEF Settling
<1>7. CASE f = "focus_out" /\ s.focus = ic
  <2>1. Run(s, o) = t /\ Rest(s, o) = FocusOut(s, ic)  BY <1>3, <1>7 DEF Run, Rest
  <2> HIDE DEF t
  <2>2. Steady(t, FocusOut(s, ic), ic)  BY <1>1, <1>7, FocusOutSteady
  <2>3. Ready(p, t, FocusOut(s, ic), ic)  BY <1>4, <1>7, <2>2, SteadyReady
  <2>4. FocusOut(s, ic) \o <<>> = FocusOut(s, ic)  BY <2>2 DEF Steady, Script
  <2>5. QED  BY <1>1, <2>1, <2>3, <2>4 DEF Settling
<1>8. CASE f = "reset" /\ s.focus = ic
  <2> DEFINE q == <<Op("engine", ic), Op("send", ic)>>
  <2>1. Run(s, o) = t /\ Rest(s, o) = q  BY <1>3, <1>8 DEF Run, Rest
  <2> HIDE DEF t
  <2>2. Steady(t, q, ic) /\ q \o <<>> = q  BY <1>1, CallThen
  <2>3. Ready(p, t, q, ic)  BY <1>4, <1>8, <2>2, SteadyReady
  <2> HIDE DEF q
  <2>4. QED  BY <1>1, <2>1, <2>2, <2>3 DEF Settling
<1>9. CASE f = "finalize"
  <2> DEFINE e == Op("engine", ic)  d == Op("dying", ic)
             y == IF s.focus = ic THEN <<e>> ELSE <<>>  q == y \o <<d>>
  <2>1. Run(s, o) = t /\ Rest(s, o) = q  BY <1>3, <1>9 DEF Run, Rest, Finalize
  <2>2. e \in Ops /\ e.f = "engine" /\ e.ic = ic  BY <1>1, MyOp, FirstPlain
  <2> HIDE DEF t
  <2>3. Steady(t, <<d>>, ic)  BY <1>1, CallThen
  <2> HIDE DEF e, d
  <2>4. Steady(t, q, ic)  BY <2>2, <2>3, MaybePush
  <2> HIDE DEF q
  <2>5. q \o <<>> = q  BY <2>4 DEF Steady, Script
  <2>6. Ready(p, t, q, ic)  BY <1>4, <1>9, <2>4, SteadyReady
  <2>7. QED  BY <1>1, <2>1, <2>5, <2>6 DEF Settling
<1>10. QED  BY <1>5, <1>6, <1>7, <1>8, <1>9

LEMMA DispatchSettles ==
  ASSUME GInv, SettleInv, NEW f \in {"focus_in", "focus_out", "reset", "finalize"}, NEW ic \in Ics,
         Dispatch(f, ic)
  PROVE  SettleInv'
<1> DEFINE o == Op(f, ic)  q == <<>>
<1>1. Fit(g, q) /\ ic \in Live(g) /\ todo = q  BY DEF GInv, Dispatch, Idle
<1>2. Good(g) /\ g.pc.ref = 0  BY <1>1, IdleFits
<1>3. f \in Names \ {"replace", "change", "key"}  BY DEF Names
<1>4. o \in Ops /\ o.f = f /\ o.ic = ic  BY <1>3, MyOp
<1>5. /\ Do(g, o, q) /\ panel' = panel /\ alive' = alive
      /\ mess' = IF f = "focus_in" /\ g.focus # ic THEN FALSE ELSE mess
  BY DEF Dispatch
<1>6. Client(g.pc) /\ (alive => Talks(panel, g.pc)) /\ (~alive => panel = NewSession(Ics))
  BY DEF SettleInv, Linked
<1>7. alive /\ ~mess' => Settling(panel, Run(g, o), Rest(g, o) \o q)
  <2> SUFFICES ASSUME alive, ~mess' PROVE Settling(panel, Run(g, o), Rest(g, o) \o q)
    OBVIOUS
  <2>1. (f = "focus_in" /\ g.focus # ic) \/ ~mess  BY <1>5
  <2>2. Shows(g, View(panel, g.pc)) \/ (f = "focus_in" /\ g.focus # ic)
    <3>1. ~mess => Settling(panel, g, <<>>)  BY <1>1 DEF SettleInv
    <3>2. QED  BY <2>1, <3>1, IdleShows
  <2>3. Talks(panel, g.pc)  BY <1>6
  <2>4. QED  BY <1>1, <1>2, <2>2, <2>3, BeginSettles
<1> HIDE DEF o, q
<1>8. QED  BY <1>1, <1>2, <1>4, <1>5, <1>6, <1>7, DoSettles

\* A transaction around an operation.
LEMMA WithinShows ==
  ASSUME NEW t, NEW p, NEW ic \in Ics, Calm(p, t, ic), NEW o \in Ops,
         o.f \in {"key", "change", "call"}, o.ic = ic
  PROVE  Settling(p, Run(t, o), Rest(t, o) \o <<Op("send", ic)>>)
<1> DEFINE d == Op("send", ic)  u == <<d>>
<1>1. d \in Ops /\ d.f = "send" /\ d.ic = ic  BY MyOp, FirstPlain
<1> HIDE DEF d
<1>2. Steady(t, u, ic) /\ u \in Seq(Ops) /\ u # <<>>  BY <1>1, EndScript DEF Payers
<1>3. ~Has(u, "replace")  BY <1>1, ScriptOne
<1> HIDE DEF u
<1>4. o.f \in Plain \ {"show", "turned_off", "replace"}  BY DEF Plain
<1>5. Steady(t, <<o>> \o u, ic)  BY <1>2, <1>3, <1>4, SteadyPush
<1>6. Ready(p, t, <<o>> \o u, ic)  BY <1>5, SteadyReady
<1>7. After1(p, t, o, u, ic)  BY <1>2, <1>6, PlainStep DEF Before1
<1>8. QED  BY <1>7 DEF After1, Settling, u, d

LEMMA WithinSettles ==
  ASSUME GInv, SettleInv, NEW ic \in Ics, NEW o \in Ops, o.f \in {"key", "change", "call"},
         o.ic = ic, Within(ic, o)
  PROVE  SettleInv'
<1> DEFINE s == [g EXCEPT !.pc = prepare(@, ic)]  u == <<Op("send", ic)>>  c == prepare(g.pc, ic)
<1>1. Fit(g, <<>>) /\ ic \in Live(g) /\ todo = <<>>  BY DEF GInv, Within, Idle
<1>2. Good(g) /\ g.pc.ref = 0  BY <1>1, IdleFits
<1>3. Do(s, o, u) /\ panel' = panel /\ alive' = alive /\ mess' = mess  BY DEF Within
<1>4. Client(g.pc) /\ (alive => Talks(panel, g.pc)) /\ (~alive => panel = NewSession(Ics))
  BY DEF SettleInv, Linked
<1>5. Good(s) /\ Live(s) = Live(g)  BY <1>2, PrepareGood DEF Keeps
<1>6. s.pc = c  BY <1>2 DEF Good, Gt, Fields
<1>7. /\ Client(c) /\ c.up = g.pc.up /\ \A p : View(p, c) = View(p, g.pc)
  BY <1>4, PrepareView
<1>8. alive /\ ~mess => Calm(panel, s, ic)
  <2> SUFFICES ASSUME alive, ~mess PROVE Calm(panel, s, ic)  OBVIOUS
  <2>1. Shows(g, View(panel, g.pc))  BY <1>1, IdleShows DEF SettleInv
  <2>2. QED  BY <1>1, <1>2, <1>4, <2>1, PreparedAt DEF Talks
<1> HIDE DEF s, c
<1>9. Client(s.pc) /\ (alive => Talks(panel, s.pc))  BY <1>4, <1>6, <1>7 DEF Talks
<1>10. alive /\ ~mess' => Settling(panel, Run(s, o), Rest(s, o) \o u)
  BY <1>3, <1>8, WithinShows
<1> HIDE DEF u
<1>11. o.ic \in Live(s)  BY <1>1, <1>5
<1>12. QED  BY <1>3, <1>4, <1>5, <1>9, <1>10, <1>11, DoSettles

LEMMA KeySettles ==
  ASSUME GInv, SettleInv, NEW key \in HotKeys \cup Uuids, gtk_scim_key_snooper(key)
  PROVE  SettleInv'
<1> DEFINE o == OpU("key", g.focus, key)
<1>1. Within(g.focus, o) /\ g.focus \in Ics
  BY DEF gtk_scim_key_snooper, GInv, Fit, Good, Gt
<1>2. "key" \in Names /\ key \in Args  BY DEF Names, Args
<1>3. Right(o)  BY DEF Right, OpU
<1>4. o \in Ops /\ o.f = "key" /\ o.ic = g.focus  BY <1>1, <1>2, <1>3, OpUIn
<1> HIDE DEF o
<1>5. QED  BY <1>1, <1>4, WithinSettles

LEMMA PanelKeySettles ==
  ASSUME GInv, SettleInv, NEW ic \in Ics, NEW key \in HotKeys \cup Uuids,
         panel_slot_process_key_event(ic, key)
  PROVE  SettleInv'
<1> DEFINE o == OpU("key", ic, key)
<1>1. Within(ic, o)  BY DEF panel_slot_process_key_event
<1>2. "key" \in Names /\ key \in Args  BY DEF Names, Args
<1>3. Right(o)  BY DEF Right, OpU
<1>4. o \in Ops /\ o.f = "key" /\ o.ic = ic  BY <1>2, <1>3, OpUIn
<1> HIDE DEF o
<1>5. QED  BY <1>1, <1>4, WithinSettles

LEMMA ChangeSettles ==
  ASSUME GInv, SettleInv, NEW ic \in Ics, NEW u \in Uuids \cup {NoArg},
         panel_slot_change_factory(ic, u)
  PROVE  SettleInv'
<1> DEFINE o == OpU("change", ic, u)
<1>1. Within(ic, o)  BY DEF panel_slot_change_factory
<1>2. "change" \in Names /\ u \in Args  BY DEF Names, Args
<1>3. Right(o)  BY DEF Right, OpU
<1>4. o \in Ops /\ o.f = "change" /\ o.ic = ic  BY <1>2, <1>3, OpUIn
<1> HIDE DEF o
<1>5. QED  BY <1>1, <1>4, WithinSettles

LEMMA CallSettles ==
  ASSUME GInv, SettleInv, NEW ic \in Ics, panel_slot_call(ic)
  PROVE  SettleInv'
<1> DEFINE o == Op("call", ic)
<1>1. Within(ic, o)  BY DEF panel_slot_call
<1>2. "call" \in Names  BY DEF Names
<1>3. o \in Ops /\ o.f = "call" /\ o.ic = ic  BY <1>2, OpIn
<1> HIDE DEF o
<1>4. QED  BY <1>1, <1>3, WithinSettles

\* A context that is created changes nothing of the one that has the focus.
LEMMA CreatedAlike ==
  ASSUME NEW s, Good(s), s.next \in Ics
  PROVE  Alike(s, Created(s))
<1> DEFINE ic == s.next
           n  == IF s.shared /\ s.def # NoInst THEN s.def ELSE Free(s)
           s1 == IF n = s.def THEN s ELSE create_instance(s, n, s.deff)
           c  == [si |-> n, shared |-> s.shared, on |-> s.shared /\ Opened(s, FALSE)]
           e  == [uuid |-> s.deff, data |-> NoIcid]
           I  == IF n = s.def THEN s.inst ELSE [s.inst EXCEPT ![n] = e]
           C  == [s.ics EXCEPT ![ic] = c]
           d  == IF s.shared THEN n ELSE s.def
           t  == Created(s)
<1>1. t = [s1 EXCEPT !.next = @ + 1, !.def = IF s.shared THEN n ELSE @, !.ics[ic] = c]
  BY DEF Created
<1>2. s.ics \in [Ics -> ICs] /\ s.ics[ic].si = NoInst  BY Constants DEF Good, Gt
<1>3. n # s.def => n \notin Held(s)
  <2>1. CASE s.shared /\ s.def # NoInst  BY <2>1
  <2>2. CASE ~(s.shared /\ s.def # NoInst)  BY <1>2, <2>2, FreeIn
  <2>3. QED  BY <2>1, <2>2
<1>4. DOMAIN s1 = Fields /\ s1.ics = s.ics /\ s1.inst = I /\ s1.def = s.def /\ s1.focus = s.focus
      /\ s1.next = s.next
  BY DEF create_instance, Good, Gt, Fields
<1>5. t = [s1 EXCEPT !.next = s.next + 1, !.def = d, !.ics = C]  BY <1>1, <1>4 DEF Fields
<1>6. \A m \in Insts \cap Held(s) : I[m] = s.inst[m]
  <2>1. CASE n = s.def  BY <2>1
  <2>2. CASE n # s.def
    <3>1. \A m \in Insts : m # n => [s.inst EXCEPT ![n] = e][m] = s.inst[m]
      BY DEF Good, Gt
    <3>2. QED  BY <1>3, <2>2, <3>1
  <2>3. QED  BY <2>1, <2>2
<1>7. \A i \in Ics : i # ic => C[i] = s.ics[i]  BY <1>2
<1> HIDE DEF n, s1, c, e, I, C, d, t
<1>8. t.ics = C /\ t.inst = I /\ t.focus = s.focus  BY <1>4, <1>5 DEF Fields
<1>9. ASSUME s.focus # NoIcid
      PROVE  t.ics[s.focus].on = s.ics[s.focus].on /\ Info(t) = Info(s)
  <2>1. s.focus \in Ics /\ s.focus \in Live(s) /\ s.ics[s.focus].si \in Insts \cap Held(s)
    BY <1>9, FocusIsLive
  <2>2. s.focus # ic  BY <1>2, <2>1 DEF Live
  <2>3. t.ics[s.focus] = s.ics[s.focus]  BY <1>7, <1>8, <2>1, <2>2
  <2>4. UuidOf(t, s.focus) = UuidOf(s, s.focus)  BY <1>6, <1>8, <2>1, <2>3 DEF UuidOf
  <2>5. QED  BY <1>8, <2>3, <2>4 DEF Info
<1>10. QED  BY <1>8, <1>9 DEF Alike, t

LEMMA CreateSettles ==
  ASSUME GInv, SettleInv, gtk_im_context_scim_init
  PROVE  SettleInv'
<1> DEFINE ic == g.next  s2 == Created(g)  c == prepare(s2.pc, ic)
           s3 == [s2 EXCEPT !.pc = prepare(@, ic)]
           u  == UuidOf(s2, ic)
           t  == Put(s3, ic, "REGISTER", u)
           q  == <<Op("engine", ic), Op("send", ic)>>
<1>1. Fit(g, <<>>) /\ ic \in Ics /\ todo = <<>>  BY DEF GInv, gtk_im_context_scim_init, Idle
<1>2. Good(g) /\ g.pc.ref = 0  BY <1>1, IdleFits
<1>3. g' = t /\ todo' = q /\ mess' = mess /\ panel' = panel /\ alive' = alive
  BY DEF gtk_im_context_scim_init, Created
<1>4. Good(s2) /\ ic \in Live(s2) /\ s2.pc = g.pc  BY <1>1, <1>2, CreateGood
<1>5. Alike(g, s2)  BY <1>1, <1>2, CreatedAlike
<1>6. Client(g.pc) /\ (alive => Talks(panel, g.pc)) /\ (~alive => panel = NewSession(Ics))
  BY DEF SettleInv, Linked
<1> HIDE DEF s2, u
<1>7. Good(s3) /\ s3.pc = c /\ Client(c)
  <2>1. Good(s3)  BY <1>4, PrepareGood DEF Keeps
  <2>2. s3.pc = c  BY <1>4 DEF Good, Gt, Fields
  <2>3. Client(c)  BY <1>4, <1>6, PrepareView
  <2>4. QED  BY <2>1, <2>2, <2>3
<1>8. alive => At(s3, ic) /\ PanelOK(View(panel, s3.pc))
  BY <1>2, <1>4, <1>6, PreparedAt DEF Talks
<1>9. alive /\ Shows(s2, View(panel, s2.pc)) => Calm(panel, s3, ic)
  BY <1>2, <1>4, <1>6, PreparedAt DEF Talks
<1> HIDE DEF s3, c
<1>10. t.pc = put(s3.pc, ic, "REGISTER", u)  BY <1>7 DEF Put, Good, Gt, Fields
<1>11. Client(t.pc)  BY <1>7, <1>10, PutClient
<1>12. alive => Quiet(s3, t) /\ At(t, ic) /\ Deaf(View(panel, s3.pc), View(panel, t.pc))
                /\ PanelOK(View(panel, t.pc))
  BY <1>8, DeafAt
<1> HIDE DEF t
<1>13. alive => Talks(panel, t.pc)  BY <1>11, <1>12 DEF Talks, At, Open
<1>14. ASSUME alive, ~mess PROVE Settling(panel, t, q)
  <2>1. Shows(g, View(panel, g.pc))  BY <1>1, <1>14, IdleShows DEF SettleInv
  <2>2. Deaf(View(panel, g.pc), View(panel, s2.pc))  BY <1>4, <1>6, <1>14, DeafSelf DEF Talks
  <2>3. Shows(s2, View(panel, s2.pc))  BY <1>5, <2>1, <2>2, AlikeShows
  <2>4. Calm(panel, s3, ic)  BY <1>9, <1>14, <2>3
  <2>5. Calm(panel, t, ic)  BY <1>12, <1>14, <2>4, QuietAlike, CalmAlike
  <2>6. Steady(t, q, ic)  BY <1>1, CallThen
  <2> HIDE DEF q
  <2>7. QED  BY <1>1, <2>5, <2>6, SteadyReady DEF Settling
<1>15. Linked'  BY <1>3, <1>6, <1>11, <1>13 DEF Linked
<1>16. QED  BY <1>3, <1>14, <1>15 DEF SettleInv

LEMMA ReadSettles ==
  ASSUME GInv, SettleInv, PanelReads
  PROVE  SettleInv'
<1> DEFINE w == <<>>  d == [g.pc EXCEPT !.wire = w]  t == [g EXCEPT !.pc = d]
           v == FoldLeft(Apply, panel, g.pc.wire)  x == Read(panel, g.pc.wire)
<1>1. Fit(g, <<>>) /\ todo = <<>> /\ alive  BY DEF GInv, PanelReads
<1>2. Good(g) /\ g.pc.ref = 0  BY <1>1, IdleFits
<1>3. Talks(panel, g.pc) /\ Client(g.pc)  BY <1>1 DEF SettleInv, Linked
<1>4. panel' = x /\ todo' = todo /\ mess' = mess /\ alive' = alive  BY DEF PanelReads
<1>5. g' = t  BY DEF PanelReads
<1>6. g.pc.trans = <<>> /\ IsSeq(g.pc.wire)  BY <1>2, <1>3 DEF Client
<1>7. View(panel, g.pc) = v  BY <1>6, NothingJoined DEF View
<1>8. x = [v EXCEPT !.refused = {}]  BY DEF Read
<1>9. PanelOK(v)  BY <1>3, <1>7 DEF Talks
<1>a. w \o w = w /\ IsSeq(w)  BY <1>6, NothingJoined
<1>b. FoldLeft(Apply, x, w) = x  BY ReadNothing
<1> HIDE DEF v, x, w
<1>10. PanelOK(x) /\ x.fresh = v.fresh /\ x.cur = v.cur /\ x.on = v.on /\ x.info = v.info
  BY <1>8, <1>9 DEF PanelOK, PanelFields
<1>11. /\ DOMAIN d = PcFields /\ d.up = g.pc.up /\ d.ref = 0 /\ d.wire = w /\ d.trans = w
  BY <1>2, <1>3, <1>6 DEF Client, PcFields, w
<1> HIDE DEF d
<1>12. Client(d) /\ View(x, d) = x  BY <1>11, <1>a, <1>b DEF Client, View, w
<1>13. t.pc = d /\ t.focus = g.focus /\ t.ics = g.ics /\ t.inst = g.inst
  BY <1>2 DEF Good, Gt, Fields
<1> HIDE DEF t
<1>14. Talks(x, t.pc)  BY <1>3, <1>10, <1>11, <1>12, <1>13 DEF Talks
<1>15. ASSUME ~mess PROVE Settling(x, t, <<>>)
  <2>1. Shows(g, v)  BY <1>1, <1>7, <1>15, IdleShows DEF SettleInv
  <2>2. Info(t) = Info(g)  BY <1>13 DEF Info, UuidOf
  <2>3. Shows(t, x)  BY <1>10, <1>13, <2>1, <2>2 DEF Shows
  <2>4. QED  BY <1>12, <1>13, <2>3 DEF Settling
<1>16. Linked'  BY <1>1, <1>4, <1>5, <1>14 DEF Linked, Talks
<1>17. QED  BY <1>1, <1>4, <1>5, <1>15, <1>16 DEF SettleInv

LEMMA CrashSettles ==
  ASSUME GInv, SettleInv, PanelCrashes
  PROVE  SettleInv'
<1> DEFINE w == <<>>  d == [g.pc EXCEPT !.wire = w]  t == [g EXCEPT !.pc = d]
<1>1. Good(g) /\ Client(g.pc)  BY DEF GInv, Fit, SettleInv, Linked
<1>2. g' = t /\ ~alive' /\ panel' = NewSession(Ics)  BY DEF PanelCrashes
<1>3. IsSeq(w)  BY <1>1, NothingJoined DEF Client
<1> HIDE DEF w
<1>4. DOMAIN d = PcFields /\ d.ref = g.pc.ref /\ d.wire = w /\ d.trans = g.pc.trans
  BY <1>1 DEF Client, PcFields
<1> HIDE DEF d
<1>5. Client(d)  BY <1>1, <1>3, <1>4 DEF Client
<1>6. t.pc = d  BY <1>1 DEF Good, Gt, Fields
<1> HIDE DEF t
<1>7. QED  BY <1>2, <1>5, <1>6 DEF SettleInv, Linked

\* A panel that knows of no focus yet has nothing to show.
LEMMA NewPanel ==
  LET v == NewSession(Ics) IN PanelOK(v) /\ v.fresh
BY DEF NewSession, PanelOK, PanelFields

LEMMA ReconnectSettles ==
  ASSUME GInv, SettleInv, NEW ok \in BOOLEAN, panel_iochannel_handler(ok)
  PROVE  SettleInv'
<1> DEFINE w == <<>>  d == open_connection(g.pc, ok)  t == [g EXCEPT !.pc = d]
           v == NewSession(Ics)
<1>1. Fit(g, <<>>) /\ todo = <<>> /\ ~alive  BY DEF GInv, panel_iochannel_handler
<1>2. Good(g) /\ g.pc.ref = 0  BY <1>1, IdleFits
<1>3. Client(g.pc) /\ panel = v  BY <1>1 DEF SettleInv, Linked
<1>4. g' = t /\ todo' = todo /\ mess' = mess /\ alive' = ok /\ panel' = panel
  BY DEF panel_iochannel_handler
<1>5. g.pc.trans = w /\ IsSeq(w) /\ w \o w = w  BY <1>2, <1>3, NothingJoined DEF Client
<1>6. FoldLeft(Apply, v, w) = v  BY ReadNothing
<1>7. PanelOK(v) /\ v.fresh  BY NewPanel
<1>8. DOMAIN d = PcFields /\ d.up = ok /\ d.ref = 0 /\ d.wire = w /\ d.trans = w
  BY <1>2, <1>3, <1>5 DEF Client, PcFields, open_connection, close_connection
<1> HIDE DEF d, v
<1>9. Client(d) /\ View(v, d) = v  BY <1>5, <1>6, <1>8 DEF Client, View
<1>10. t.pc = d  BY <1>2 DEF Good, Gt, Fields
<1> HIDE DEF t
<1>11. ok => Talks(v, t.pc)  BY <1>7, <1>8, <1>9, <1>10 DEF Talks
<1>12. Settling(v, t, <<>>)  BY <1>7, <1>9, <1>10 DEF Settling, Shows
<1>13. Linked'  BY <1>3, <1>4, <1>9, <1>10, <1>11 DEF Linked, v
<1>14. QED  BY <1>1, <1>3, <1>4, <1>12, <1>13 DEF SettleInv

LEMMA SettleInit == Init => SettleInv
<1> SUFFICES ASSUME Init PROVE SettleInv  OBVIOUS
<1> DEFINE w == <<>>  d == g.pc  v == NewSession(Ics)
<1>1. d = open_connection(NewClient, TRUE) /\ todo = <<>> /\ panel = v /\ alive = TRUE
  BY DEF Init
<1>2. DOMAIN d = PcFields /\ d.ref = 0 /\ d.up = TRUE /\ d.wire = w /\ d.trans = w
  BY <1>1 DEF open_connection, close_connection, NewClient, PcFields
<1>3. w \in Seq({})  OBVIOUS
<1>4. IsSeq(w)  BY <1>3 DEF IsSeq
<1>5. w \o w = w  BY <1>4, NothingJoined
<1>6. FoldLeft(Apply, v, w) = v  BY ReadNothing
<1>7. PanelOK(v) /\ v.fresh  BY NewPanel
<1> HIDE DEF v
<1>8. Client(d) /\ View(v, d) = v  BY <1>2, <1>4, <1>5, <1>6 DEF Client, View
<1>9. Talks(panel, g.pc) /\ Client(g.pc)  BY <1>1, <1>2, <1>7, <1>8 DEF Talks
<1>10. Settling(panel, g, todo)  BY <1>1, <1>7, <1>8 DEF Settling, Shows
<1>11. QED  BY <1>1, <1>9, <1>10 DEF SettleInv, Linked

LEMMA SettleNext == GInv /\ SettleInv /\ [Next]_vars => SettleInv'
<1> SUFFICES ASSUME GInv, SettleInv, [Next]_vars PROVE SettleInv'  OBVIOUS
<1>1. CASE Step  BY <1>1, StepSettles
<1>2. ASSUME NEW emits \in BOOLEAN, EngineReturns(emits) PROVE SettleInv'
  BY <1>2, EngineReturnsSettles
<1>3. ASSUME NEW ic \in Ics, NEW f \in {"focus_in", "focus_out", "reset", "finalize"},
             Nested(f, ic) \/ FallbackCommits(f, ic) \/ Dispatch(f, ic)
      PROVE  SettleInv'
  BY <1>3, NestedSettles, FallbackSettles, DispatchSettles
<1>4. CASE gtk_im_context_scim_init  BY <1>4, CreateSettles
<1>5. ASSUME NEW key \in HotKeys \cup Uuids, gtk_scim_key_snooper(key) PROVE SettleInv'
  BY <1>5, KeySettles
<1>6. ASSUME NEW ic \in Ics, NEW u \in Uuids \cup {NoArg}, panel_slot_change_factory(ic, u)
      PROVE  SettleInv'
  BY <1>6, ChangeSettles
<1>7. ASSUME NEW ic \in Ics, panel_slot_call(ic) PROVE SettleInv'  BY <1>7, CallSettles
<1>8. CASE PanelReads  BY <1>8, ReadSettles
<1>9. CASE PanelCrashes  BY <1>9, CrashSettles
<1>10. ASSUME NEW ok \in BOOLEAN, panel_iochannel_handler(ok) PROVE SettleInv'
  BY <1>10, ReconnectSettles
<1>11. CASE UNCHANGED vars
  <2>1. g' = g /\ todo' = todo /\ mess' = mess /\ panel' = panel /\ alive' = alive
    BY <1>11 DEF vars
  <2>2. QED  BY <2>1 DEF SettleInv, Linked
<1>12. ASSUME NEW ic \in Ics, NEW key \in HotKeys \cup Uuids,
              panel_slot_process_key_event(ic, key)
       PROVE  SettleInv'
  BY <1>12, PanelKeySettles
<1>13. QED
  BY <1>1, <1>2, <1>3, <1>4, <1>5, <1>6, <1>7, <1>8, <1>9, <1>10, <1>11, <1>12 DEF Next

-----------------------------------------------------------------------------
(* Result.                                                                 *)

\* Whatever nested handlers did to the focus, one focus_in that is not nested
\* settles it, for any number of contexts, engines and commands under way: once
\* all is read the panel shows the focused context, its state and its factory,
\* through the hotkeys, the menu, the engine's calls and a change of the focus.
THEOREM SettlesAlways == Spec => []Settles
<1>1. GInv /\ SettleInv => Settles
  <2> SUFFICES ASSUME GInv, SettleInv, Idle, alive, ~mess, ~panel.fresh, g.focus # NoIcid
               PROVE  /\ panel.cur = g.focus
                      /\ panel.on = g.ics[g.focus].on
                      /\ panel.info = IF panel.on THEN UuidOf(g, g.focus) ELSE NoArg
    BY DEF Settles
  <2>1. todo = <<>> /\ g.pc.wire = <<>> /\ Fit(g, <<>>)  BY DEF Idle, GInv
  <2>2. g.pc.ref = 0  BY <2>1, IdleFits
  <2>3. Client(g.pc)  BY DEF SettleInv, Linked
  <2>4. g.pc.trans = <<>>  BY <2>2, <2>3 DEF Client
  <2>5. <<>> \o <<>> = <<>>  OBVIOUS
  <2>6. View(panel, g.pc) = panel  BY <2>1, <2>4, <2>5, ReadNothing DEF View
  <2>7. Shows(g, panel)  BY <2>1, <2>6, IdleShows DEF SettleInv
  <2>8. QED  BY <2>7 DEF Shows, Info
<1>2. Spec => []SettleInv
  <2>1. Init => SettleInv  BY SettleInit
  <2>2. GInv /\ SettleInv /\ [Next]_vars => SettleInv'  BY SettleNext
  <2>3. QED  BY <2>1, <2>2, GtkAlways, PTL DEF Spec
<1>3. QED  BY <1>1, <1>2, GtkAlways, PTL

=============================================================================
