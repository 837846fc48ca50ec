-------------------------- MODULE X11FrontEndProofs --------------------------
(***************************************************************************)
(* The ICs of the X11 front end, their instances and what is said on their *)
(* behalf, for every number of ICs and instances and every set of          *)
(* factories.                                                              *)
(*                                                                         *)
(* Most of what a handler calls only talks: it keeps who owns which        *)
(* instance (Talks).  The rest creates, deletes or shares an instance.     *)
(*                                                                         *)
(* What the panel will know is the fold of its Apply over what was written *)
(* and not read (RV), and over the open transaction too (View); each       *)
(* operator of the front end is followed through it.                       *)
(***************************************************************************)
EXTENDS X11FrontEnd, TLAPS, WellFoundedInduction, SequenceTheorems

Fields == {"ics", "next", "focus", "inst", "count", "def", "deff", "shared", "opened", "pc",
           "by", "fx"}

\* The front end's record, at any point of a handler.
Fe(s) ==
  /\ DOMAIN s = Fields
  /\ s.ics \in [Icids -> ICs] /\ s.focus \in Icids \cup {NoIcid}
  /\ s.inst \in [Siids -> Uuids \cup {NoArg}] /\ s.def \in Siids \cup {NoSiid}
  /\ s.count \in 0..MaxSiid /\ s.next \in 1..(MaxIcid + 1)
  /\ s.deff \in [Langs -> Uuids] /\ s.opened \in {"unset", "on", "off"}
  /\ DOMAIN s.pc = {"up", "ref", "cur", "trans", "wire"}
  /\ s.pc.ref \in Nat /\ s.pc.cur \in Icids \cup {NoIcid}

\* A transaction of ic is open, unless there is no connection.
Open(s, ic) == s.pc.up => s.pc.ref > 0 /\ s.pc.cur = ic

\* So far the handler has talked for ic, and nothing was lost.
Said(s, ic) == \A x \in s.fx : x.to = ic /\ x.how # "lost"

\* The same of a whole handler, with what the fallback instance said.
Fit(s, ic) ==
  \A x \in s.fx : x.how # "lost" /\ (x.to = ic \/ (x.how = "fallback" /\ x.to = s.focus))

\* No other IC has the instance of ic.
Sole(s, ic) == \A i \in Icids : s.ics[i].siid = s.ics[ic].siid => i = ic

\* From s to t the ICs keep their instances; and there is only talk, for ic.
Keeps(s, t) ==
  /\ Fe(t)
  /\ t.next = s.next /\ t.focus = s.focus /\ t.count = s.count /\ t.def = s.def
  /\ t.shared = s.shared
  /\ \A i \in Icids : /\ t.ics[i].siid = s.ics[i].siid /\ t.ics[i].shared = s.ics[i].shared
                      /\ t.ics[i].lang = s.ics[i].lang
  /\ \A n \in Siids : t.inst[n] = NoArg <=> s.inst[n] = NoArg
  /\ t.pc.up = s.pc.up /\ t.pc.ref = s.pc.ref /\ t.pc.cur = s.pc.cur

Talks(s, t, ic) ==
  Keeps(s, t) /\ (Sole(s, ic) /\ Open(s, ic) /\ Said(s, ic) => Said(t, ic))

LEMMA KeepsTrans ==
  ASSUME NEW s, NEW t, NEW r, Keeps(s, t), Keeps(t, r)
  PROVE  Keeps(s, r)
BY DEF Keeps

LEMMA TalksSelf ==
  ASSUME NEW s, Fe(s), NEW ic
  PROVE  Talks(s, s, ic)
BY DEF Talks, Keeps

LEMMA TalksTrans ==
  ASSUME NEW s, NEW t, NEW r, NEW ic \in Icids, Talks(s, t, ic), Talks(t, r, ic)
  PROVE  Talks(s, r, ic)
<1>1. Sole(s, ic) => Sole(t, ic)  BY DEF Talks, Keeps, Sole
<1>2. Open(s, ic) => Open(t, ic)  BY DEF Talks, Keeps, Open
<1>3. QED  BY <1>1, <1>2, KeepsTrans DEF Talks

\* A command to the panel.
LEMMA PutKeeps ==
  ASSUME NEW s, Fe(s), NEW ic, NEW cmd, NEW arg
  PROVE  /\ Keeps(s, Put(s, ic, cmd, arg))
         /\ Put(s, ic, cmd, arg).ics = s.ics
         /\ Open(s, ic) /\ Said(s, ic) => Said(Put(s, ic, cmd, arg), ic)
<1> DEFINE x == [to |-> ic, how |-> IF Accepts(s.pc, ic) \/ ~s.pc.up THEN "put" ELSE "lost"]
           p == put(s.pc, ic, cmd, arg)
           t == Put(s, ic, cmd, arg)
<1>1. t = [s EXCEPT !.pc = p, !.fx = s.fx \cup {x}]  BY DEF Put
<1>2. /\ DOMAIN p = DOMAIN s.pc /\ p.up = s.pc.up /\ p.ref = s.pc.ref /\ p.cur = s.pc.cur
  BY DEF Fe, put
<1>3. Open(s, ic) => x.to = ic /\ x.how # "lost"
  BY DEF Open, Accepts
<1> HIDE DEF p, x, t
<1>4. /\ DOMAIN t = Fields /\ t.pc = p /\ t.fx = s.fx \cup {x}
      /\ t.ics = s.ics /\ t.next = s.next /\ t.focus = s.focus /\ t.inst = s.inst
      /\ t.count = s.count /\ t.def = s.def /\ t.deff = s.deff /\ t.shared = s.shared
      /\ t.opened = s.opened
  BY <1>1 DEF Fe, Fields
<1>5. Fe(t)  BY <1>2, <1>4 DEF Fe
<1>6. Open(s, ic) /\ Said(s, ic) => Said(t, ic)  BY <1>3, <1>4 DEF Said
<1>7. QED  BY <1>2, <1>4, <1>5, <1>6 DEF Keeps, t

LEMMA PutTalks ==
  ASSUME NEW s, Fe(s), NEW ic, NEW cmd, NEW arg
  PROVE  Talks(s, Put(s, ic, cmd, arg), ic)
BY PutKeeps DEF Talks

\* What an instance emits.
LEMMA ShowsKeeps ==
  ASSUME NEW s, Fe(s), NEW siid
  PROVE  Keeps(s, Shows(s, siid)) /\ Shows(s, siid).ics = s.ics
BY PutKeeps DEF Shows, Keeps

LEMMA HidesKeeps ==
  ASSUME NEW s, Fe(s), NEW siid
  PROVE  /\ Keeps(s, HidesAndCommits(s, siid))
         /\ \A ic : FocusHas(s, siid) /\ s.focus = ic /\ Open(s, ic) /\ Said(s, ic)
                     => Said(HidesAndCommits(s, siid), ic)
         /\ ~FocusHas(s, siid) => HidesAndCommits(s, siid) = s
<1>1. CASE ~FocusHas(s, siid)  BY <1>1 DEF HidesAndCommits, Keeps
<1>2. CASE FocusHas(s, siid)
  <2> DEFINE t == Put(s, s.focus, "UPDATE", NoArg)
             y == [to |-> s.focus, how |-> "commit"]
             r == [t EXCEPT !.fx = @ \cup {y}]
  <2>1. HidesAndCommits(s, siid) = r  BY <1>2 DEF HidesAndCommits
  <2>2. Keeps(s, t) /\ (Open(s, s.focus) /\ Said(s, s.focus) => Said(t, s.focus))  BY PutKeeps
  <2>3. y.to = s.focus /\ y.how # "lost"  OBVIOUS
  <2> HIDE DEF t, y
  <2>4. /\ DOMAIN r = DOMAIN t /\ r.fx = t.fx \cup {y} /\ r.pc = t.pc
        /\ r.ics = t.ics /\ r.next = t.next /\ r.focus = t.focus /\ r.inst = t.inst
        /\ r.count = t.count /\ r.def = t.def /\ r.deff = t.deff /\ r.shared = t.shared
        /\ r.opened = t.opened
    BY <2>2 DEF Keeps, Fe, Fields
  <2> HIDE DEF r
  <2>5. Keeps(t, r)  BY <2>2, <2>4 DEF Keeps, Fe
  <2>6. Keeps(s, r)  BY <2>2, <2>5, KeepsTrans
  <2>7. \A ic : s.focus = ic /\ Said(t, ic) => Said(r, ic)  BY <2>3, <2>4 DEF Said
  <2>8. QED  BY <1>2, <2>1, <2>2, <2>6, <2>7
<1>3. QED  BY <1>1, <1>2

LEMMA CallsHelperKeeps ==
  ASSUME NEW s, Fe(s), NEW siid
  PROVE  Keeps(s, CallsHelper(s, siid))
<1>1. Keeps(s, s)  BY DEF Keeps
<1>2. QED  BY <1>1, PutKeeps DEF CallsHelper

\* An instance's signals keep everything in its place; and those of the instance
\* of ic alone are talk for ic.
LEMMA EngineKeeps ==
  ASSUME NEW s, Fe(s), NEW siid, NEW e
  PROVE  Keeps(s, Engine(s, siid, e))
<1>1. Keeps(s, s)  BY DEF Keeps
<1>2. CASE e
  <2> DEFINE a == Shows(s, siid)  b == HidesAndCommits(a, siid)
  <2>1. Keeps(s, a)  BY ShowsKeeps
  <2>2. Fe(a)  BY <2>1 DEF Keeps
  <2> HIDE DEF a
  <2>3. Keeps(a, b)  BY <2>2, HidesKeeps
  <2>4. Fe(b)  BY <2>3 DEF Keeps
  <2> HIDE DEF b
  <2>5. Keeps(b, CallsHelper(b, siid))  BY <2>4, CallsHelperKeeps
  <2>6. Keeps(s, CallsHelper(b, siid))  BY <2>1, <2>3, <2>5, KeepsTrans
  <2>7. QED  BY <1>2, <2>6 DEF Engine, a, b
<1>3. QED  BY <1>1, <1>2 DEF Engine

LEMMA FindSole ==
  ASSUME NEW s, Fe(s), NEW ic \in Icids, Sole(s, ic)
  PROVE  find_ic_by_siid(s, s.ics[ic].siid) = ic
<1>1. {i \in Icids : s.ics[i].siid = s.ics[ic].siid} = {ic}  BY DEF Sole
<1>2. ic <= ic  BY X11Assumption DEF Icids
<1>3. QED  BY <1>1, <1>2 DEF find_ic_by_siid

LEMMA EngineTalks ==
  ASSUME NEW s, Fe(s), NEW ic \in Icids, NEW siid, siid = s.ics[ic].siid, NEW e
  PROVE  Talks(s, Engine(s, siid, e), ic)
<1>1. Keeps(s, Engine(s, siid, e))  BY EngineKeeps
<1>2. ASSUME Sole(s, ic), Open(s, ic), Said(s, ic), e  PROVE Said(Engine(s, siid, e), ic)
  <2> DEFINE a == Shows(s, siid)  b == HidesAndCommits(a, siid)
  <2>1. Talks(s, a, ic)
    <3>1. CASE Inputing(s, siid)
      <4>1. s.focus = ic  BY <1>2, <3>1 DEF Inputing, FocusHas, Sole, Fe
      <4>2. QED  BY <3>1, <4>1, PutTalks DEF Shows
    <3>2. CASE ~Inputing(s, siid)  BY <3>2, TalksSelf DEF Shows
    <3>3. QED  BY <3>1, <3>2
  <2>2. Fe(a) /\ Sole(a, ic) /\ Open(a, ic) /\ Said(a, ic) /\ a.ics[ic].siid = siid
    BY <1>2, <2>1 DEF Talks, Keeps, Sole, Open
  <2> HIDE DEF a
  <2>3. Talks(a, b, ic)
    <3>1. Keeps(a, b)  BY <2>2, HidesKeeps
    <3>2. CASE FocusHas(a, siid)
      <4>1. a.focus = ic  BY <2>2, <3>2 DEF FocusHas, Sole, Fe
      <4>2. Said(b, ic)  BY <2>2, <3>2, <4>1, HidesKeeps
      <4>3. QED  BY <3>1, <4>2 DEF Talks
    <3>3. CASE ~FocusHas(a, siid)
      <4>1. b = a  BY <2>2, <3>3, HidesKeeps
      <4>2. QED  BY <2>2, <4>1, TalksSelf
    <3>4. QED  BY <3>2, <3>3
  <2>4. Fe(b) /\ Sole(b, ic) /\ Open(b, ic) /\ Said(b, ic) /\ b.ics[ic].siid = siid
    BY <2>2, <2>3 DEF Talks, Keeps, Sole, Open
  <2> HIDE DEF b
  <2>5. find_ic_by_siid(b, siid) = ic /\ ic # NoIcid
    BY <2>4, FindSole, X11Assumption DEF Icids, NoIcid
  <2>6. CallsHelper(b, siid) = Put(b, ic, "HELPER", NoArg)  BY <2>5 DEF CallsHelper
  <2>7. Said(CallsHelper(b, siid), ic)  BY <2>4, <2>6, PutKeeps
  <2>8. QED  BY <1>2, <2>7 DEF Engine, a, b
<1>3. ASSUME ~e  PROVE Engine(s, siid, e) = s  BY <1>3 DEF Engine
<1>4. QED  BY <1>1, <1>2, <1>3 DEF Talks

-----------------------------------------------------------------------------
(* The front end's own steps.                                              *)

LEMMA TalksFe ==
  ASSUME NEW s, NEW t, NEW ic \in Icids, Talks(s, t, ic)
  PROVE  /\ Fe(t) /\ t.focus = s.focus /\ t.ics[ic].siid = s.ics[ic].siid
         /\ t.ics[ic].shared = s.ics[ic].shared /\ t.ics[ic].lang = s.ics[ic].lang
         /\ \A n \in Siids : t.inst[n] = NoArg <=> s.inst[n] = NoArg
BY DEF Talks, Keeps

LEMMA UpdateTalks ==
  ASSUME NEW s, Fe(s), NEW ic \in Icids
  PROVE  Talks(s, update_factory_info(s, ic), ic)
BY PutTalks, TalksSelf DEF update_factory_info

LEMMA ResetTalks ==
  ASSUME NEW s, Fe(s), NEW ic \in Icids, NEW e
  PROVE  Talks(s, ResetShared(s, ic, e), ic)
BY EngineTalks, TalksSelf DEF ResetShared

LEMMA StartTalks ==
  ASSUME NEW s, Fe(s), NEW ic \in Icids, NEW e
  PROVE  Talks(s, start_ic(s, ic, e), ic)
<1> DEFINE a == Put(s, ic, "UPDATE", NoArg)
           b == update_factory_info(a, ic)
           c == Put(b, ic, "TURN_ON", NoArg)
           d == Put(c, ic, "UPDATE", NoArg)
           f == ResetShared(d, ic, e)
           h == Engine(f, s.ics[ic].siid, e)
<1>1. start_ic(s, ic, e) = h  BY DEF start_ic
<1>2. Talks(s, a, ic) /\ Fe(a)  BY PutTalks, TalksFe
<1> HIDE DEF a
<1>3. Talks(a, b, ic) /\ Fe(b)  BY <1>2, UpdateTalks, TalksFe
<1> HIDE DEF b
<1>4. Talks(b, c, ic) /\ Fe(c)  BY <1>3, PutTalks, TalksFe
<1> HIDE DEF c
<1>5. Talks(c, d, ic) /\ Fe(d)  BY <1>4, PutTalks, TalksFe
<1> HIDE DEF d
<1>6. Talks(d, f, ic) /\ Fe(f)  BY <1>5, ResetTalks, TalksFe
<1> HIDE DEF f
<1>7. Talks(s, b, ic)  BY <1>2, <1>3, TalksTrans
<1>8. Talks(s, d, ic)  BY <1>4, <1>5, <1>7, TalksTrans
<1>9. Talks(s, f, ic)  BY <1>6, <1>8, TalksTrans
<1>10. f.ics[ic].siid = s.ics[ic].siid  BY <1>9, TalksFe
<1>11. Talks(f, h, ic)  BY <1>6, <1>10, EngineTalks
<1> HIDE DEF h
<1>12. QED  BY <1>1, <1>9, <1>11, TalksTrans

LEMMA StopTalks ==
  ASSUME NEW s, Fe(s), NEW ic \in Icids, NEW e
  PROVE  Talks(s, stop_ic(s, ic, e), ic)
<1> DEFINE a == Engine(s, s.ics[ic].siid, e)
           b == ResetShared(a, ic, e)
           c == update_factory_info(b, ic)
           d == Put(c, ic, "TURN_OFF", NoArg)
<1>1. stop_ic(s, ic, e) = d  BY DEF stop_ic
<1>2. Talks(s, a, ic) /\ Fe(a)  BY EngineTalks, TalksFe
<1> HIDE DEF a
<1>3. Talks(a, b, ic) /\ Fe(b)  BY <1>2, ResetTalks, TalksFe
<1> HIDE DEF b
<1>4. Talks(b, c, ic) /\ Fe(c)  BY <1>3, UpdateTalks, TalksFe
<1> HIDE DEF c
<1>5. Talks(c, d, ic)  BY <1>4, PutTalks
<1> HIDE DEF d
<1>6. Talks(s, c, ic)  BY <1>2, <1>3, <1>4, TalksTrans
<1>7. QED  BY <1>1, <1>5, <1>6, TalksTrans

\* An IC is on or off, and this is recorded.
LEMMA RecordTalks ==
  ASSUME NEW s, Fe(s), NEW ic \in Icids, NEW b \in BOOLEAN, NEW on \in {"on", "off"}
  PROVE  Talks(s, Record([s EXCEPT !.ics[ic].on = b], on), ic)
<1> DEFINE t == [s EXCEPT !.ics[ic].on = b]
           c == [s.ics[ic] EXCEPT !.on = b]
<1>1. t = [s EXCEPT !.ics = [s.ics EXCEPT ![ic] = c]]  BY DEF Fe, Fields
<1> s.ics[ic] \in ICs  BY DEF Fe
<1>2. c \in ICs  BY DEF ICs
<1>3. c.siid = s.ics[ic].siid /\ c.lang = s.ics[ic].lang  BY DEF ICs
<1>4. c.shared = s.ics[ic].shared  BY DEF ICs
<1> HIDE DEF c
<1>5. /\ DOMAIN t = Fields /\ t.ics = [s.ics EXCEPT ![ic] = c] /\ t.pc = s.pc /\ t.fx = s.fx
      /\ t.next = s.next /\ t.focus = s.focus /\ t.inst = s.inst
      /\ t.count = s.count /\ t.def = s.def /\ t.deff = s.deff /\ t.shared = s.shared
      /\ t.opened = s.opened
  BY <1>1 DEF Fe, Fields
<1>6. t.ics \in [Icids -> ICs]  BY <1>2, <1>5 DEF Fe
<1> HIDE DEF t
<1>7. Fe(t)  BY <1>5, <1>6 DEF Fe
<1>8. \A i \in Icids : /\ t.ics[i].siid = s.ics[i].siid /\ t.ics[i].shared = s.ics[i].shared
                       /\ t.ics[i].lang = s.ics[i].lang
  BY <1>3, <1>4, <1>5 DEF Fe
<1>9. Talks(s, t, ic)  BY <1>5, <1>7, <1>8 DEF Talks, Keeps, Said
<1> DEFINE r == [t EXCEPT !.opened = on]
<1>10. /\ DOMAIN r = Fields /\ r.ics = t.ics /\ r.pc = t.pc /\ r.fx = t.fx
       /\ r.next = t.next /\ r.focus = t.focus /\ r.inst = t.inst
       /\ r.count = t.count /\ r.def = t.def /\ r.deff = t.deff /\ r.shared = t.shared
       /\ r.opened = on
  BY <1>5 DEF Fields
<1> HIDE DEF r
<1>11. Talks(t, r, ic)  BY <1>7, <1>10 DEF Talks, Keeps, Said, Fe
<1>12. Talks(s, r, ic)  BY <1>9, <1>11, TalksTrans
<1>13. QED  BY <1>9, <1>12 DEF Record, r, t

LEMMA TurnOnTalks ==
  ASSUME NEW s, Fe(s), NEW ic \in Icids, NEW e
  PROVE  Talks(s, ims_turn_on_ic(s, ic, e), ic)
<1> DEFINE a == Record([s EXCEPT !.ics[ic].on = TRUE], "on")
           b == panel_req_focus_in(a, ic)
<1>1. Talks(s, a, ic) /\ Fe(a)  BY RecordTalks, TalksFe
<1> HIDE DEF a
<1>2. Talks(a, b, ic) /\ Fe(b)  BY <1>1, PutTalks, TalksFe DEF panel_req_focus_in
<1> HIDE DEF b
<1>3. Talks(b, start_ic(b, ic, e), ic)  BY <1>2, StartTalks
<1>4. Talks(s, start_ic(b, ic, e), ic)  BY <1>1, <1>2, <1>3, TalksTrans
<1>5. Talks(s, s, ic)  BY TalksSelf
<1>6. QED  BY <1>1, <1>4, <1>5 DEF ims_turn_on_ic, a, b

LEMMA TurnOffTalks ==
  ASSUME NEW s, Fe(s), NEW ic \in Icids, NEW e
  PROVE  Talks(s, ims_turn_off_ic(s, ic, e), ic)
<1> DEFINE a == Record([s EXCEPT !.ics[ic].on = FALSE], "off")
<1>1. Talks(s, a, ic) /\ Fe(a)  BY RecordTalks, TalksFe
<1> HIDE DEF a
<1>2. Talks(a, stop_ic(a, ic, e), ic)  BY <1>1, StopTalks
<1>3. Talks(s, stop_ic(a, ic, e), ic)  BY <1>1, <1>2, TalksTrans
<1>4. Talks(s, s, ic)  BY TalksSelf
<1>5. QED  BY <1>1, <1>3, <1>4 DEF ims_turn_off_ic, a

\* An instance is given another factory.
LEMMA SetInst ==
  ASSUME NEW s, Fe(s), NEW n \in Siids, NEW u \in Uuids \cup {NoArg}
  PROVE  LET t == [s EXCEPT !.inst[n] = u]
         IN /\ Fe(t) /\ t.ics = s.ics /\ t.pc = s.pc /\ t.fx = s.fx /\ t.next = s.next
            /\ t.focus = s.focus /\ t.count = s.count /\ t.def = s.def /\ t.deff = s.deff
            /\ t.shared = s.shared /\ t.opened = s.opened /\ t.inst[n] = u
            /\ \A k \in Siids : k # n => t.inst[k] = s.inst[k]
<1> DEFINE t == [s EXCEPT !.inst[n] = u]
<1>1. t = [s EXCEPT !.inst = [s.inst EXCEPT ![n] = u]]  BY DEF Fe, Fields
<1>2. /\ DOMAIN t = Fields /\ t.ics = s.ics /\ t.pc = s.pc /\ t.fx = s.fx
      /\ t.next = s.next /\ t.focus = s.focus /\ t.inst = [s.inst EXCEPT ![n] = u]
      /\ t.count = s.count /\ t.def = s.def /\ t.deff = s.deff /\ t.shared = s.shared
      /\ t.opened = s.opened
  BY <1>1 DEF Fe, Fields
<1> HIDE DEF t
<1>3. t.inst \in [Siids -> Uuids \cup {NoArg}]  BY <1>2 DEF Fe
<1>4. Fe(t)  BY <1>2, <1>3 DEF Fe
<1>5. t.inst[n] = u /\ \A k \in Siids : k # n => t.inst[k] = s.inst[k]  BY <1>2 DEF Fe
<1>6. QED  BY <1>2, <1>4, <1>5 DEF t

LEMMA ReplaceKeeps ==
  ASSUME NEW s, Fe(s), NEW n \in Siids, s.inst[n] # NoArg, NEW u \in Uuids, NEW e
  PROVE  /\ Keeps(s, replace_instance(s, n, u, e))
         /\ \A ic \in Icids : n = s.ics[ic].siid => Talks(s, replace_instance(s, n, u, e), ic)
<1> DEFINE a == Engine(s, n, e)  b == [a EXCEPT !.inst[n] = u]
<1>1. Keeps(s, a)  BY EngineKeeps
<1>2. \A ic \in Icids : n = s.ics[ic].siid => Talks(s, a, ic)  BY EngineTalks
<1> HIDE DEF a
<1>3. Fe(a) /\ a.inst[n] # NoArg /\ u # NoArg  BY <1>1, X11Assumption DEF Keeps
<1>4. /\ Fe(b) /\ b.ics = a.ics /\ b.pc = a.pc /\ b.fx = a.fx /\ b.next = a.next
      /\ b.focus = a.focus /\ b.count = a.count /\ b.def = a.def /\ b.deff = a.deff
      /\ b.shared = a.shared /\ b.opened = a.opened /\ b.inst[n] = u
      /\ \A k \in Siids : k # n => b.inst[k] = a.inst[k]
  BY <1>3, SetInst
<1> HIDE DEF b
<1>5. Keeps(a, b) /\ \A ic \in Icids : Talks(a, b, ic)  BY <1>3, <1>4 DEF Talks, Keeps, Said
<1>6. Keeps(s, b)  BY <1>1, <1>5, KeepsTrans
<1>7. \A ic \in Icids : n = s.ics[ic].siid => Talks(s, b, ic)  BY <1>2, <1>5, TalksTrans
<1>8. Keeps(s, s) /\ \A ic \in Icids : Talks(s, s, ic)  BY TalksSelf DEF Talks
<1>9. QED  BY <1>6, <1>7, <1>8 DEF replace_instance, a, b

\* A live IC: its instance exists, and it has a language.
Served(s, ic) == s.ics[ic].siid \in Siids /\ s.inst[s.ics[ic].siid] # NoArg
                 /\ s.ics[ic].lang \in Langs

LEMMA ChangeTalks ==
  ASSUME NEW s, Fe(s), NEW ic \in Icids, Served(s, ic), NEW u \in Uuids, NEW e
  PROVE  Talks(s, ChangeFactory(s, ic, u, e), ic)
<1> DEFINE n == s.ics[ic].siid
           a == ims_turn_off_ic(s, ic, e)
           b == replace_instance(a, n, u, e)
           c == Put(b, ic, "REGISTER", b.inst[n])
           d == Engine(c, n, e)
           f == [d EXCEPT !.deff[s.ics[ic].lang] = u]
           h == ims_turn_on_ic(f, ic, e)
<1>1. ChangeFactory(s, ic, u, e) = h  BY DEF ChangeFactory
<1>2. n \in Siids /\ s.inst[n] # NoArg /\ s.ics[ic].lang \in Langs  BY DEF Served
<1>3. Talks(s, a, ic)  BY TurnOffTalks
<1> HIDE DEF a
<1>4. Fe(a) /\ a.ics[ic].siid = n /\ a.inst[n] # NoArg  BY <1>2, <1>3, TalksFe
<1>5. Talks(a, b, ic)  BY <1>2, <1>4, ReplaceKeeps
<1> HIDE DEF b
<1>6. Fe(b)  BY <1>5, TalksFe
<1>7. Talks(b, c, ic)  BY <1>6, PutTalks
<1> HIDE DEF c
<1>8. Talks(s, c, ic)  BY <1>3, <1>5, <1>7, TalksTrans
<1>9. Fe(c) /\ c.ics[ic].siid = n  BY <1>8, TalksFe
<1>10. Talks(c, d, ic)  BY <1>9, EngineTalks
<1> HIDE DEF d
<1>11. Talks(s, d, ic)  BY <1>8, <1>10, TalksTrans
<1>12. Fe(d)  BY <1>11, TalksFe
<1>13. Talks(d, f, ic)
  <2>1. f = [d EXCEPT !.deff = [d.deff EXCEPT ![s.ics[ic].lang] = u]]  BY <1>12 DEF Fe, Fields
  <2>2. [d.deff EXCEPT ![s.ics[ic].lang] = u] \in [Langs -> Uuids]  BY <1>12 DEF Fe
  <2>3. /\ DOMAIN f = Fields /\ f.ics = d.ics /\ f.pc = d.pc /\ f.fx = d.fx
        /\ f.next = d.next /\ f.focus = d.focus /\ f.inst = d.inst
        /\ f.count = d.count /\ f.def = d.def /\ f.shared = d.shared
        /\ f.opened = d.opened /\ f.deff = [d.deff EXCEPT ![s.ics[ic].lang] = u]
    BY <1>12, <2>1 DEF Fe, Fields
  <2> HIDE DEF f
  <2>4. QED  BY <1>12, <2>2, <2>3 DEF Talks, Keeps, Said, Fe
<1> HIDE DEF f
<1>14. Fe(f) /\ Talks(s, f, ic)  BY <1>11, <1>13, TalksTrans, TalksFe
<1>15. Talks(f, h, ic)  BY <1>14, TurnOnTalks
<1> HIDE DEF h
<1>16. QED  BY <1>1, <1>14, <1>15, TalksTrans

LEMMA HotkeysTalk ==
  ASSUME NEW s, Fe(s), NEW ic \in Icids, Served(s, ic), NEW key, NEW e
  PROVE  Talks(s, filter_hotkeys(s, ic, key, e), ic)
<1>1. Talks(s, ims_turn_on_ic(s, ic, e), ic) /\ Talks(s, ims_turn_off_ic(s, ic, e), ic)
  BY TurnOnTalks, TurnOffTalks
<1>2. Talks(s, Put(s, ic, "UPDATE", NoArg), ic)  BY PutTalks
<1>3. key \in Uuids => Talks(s, ChangeFactory(s, ic, key, e), ic)  BY ChangeTalks
<1>4. Talks(s, Engine(s, s.ics[ic].siid, e), ic) /\ Talks(s, s, ic)  BY EngineTalks, TalksSelf
<1>5. QED  BY <1>1, <1>2, <1>3, <1>4 DEF filter_hotkeys

-----------------------------------------------------------------------------
(* Who owns which instance.                                                *)

\* The ICs in X are between two instances.
Ownership(s, X) ==
  /\ s.focus # NoIcid => s.ics[s.focus].siid # NoSiid
  /\ s.def # NoSiid => s.def < s.count /\ s.inst[s.def] # NoArg
  /\ \A i \in Icids : i >= s.next => s.ics[i].siid = NoSiid
  /\ \A i \in Live(s) \ X : /\ s.ics[i].siid < s.count /\ Served(s, i)
                            /\ s.ics[i].shared => s.ics[i].siid = s.def
                            /\ ~s.ics[i].shared => s.ics[i].siid # s.def
  /\ \A i, j \in Live(s) \ X : s.ics[i].siid = s.ics[j].siid => i = j \/ s.ics[i].shared
  /\ \A n \in Siids : s.inst[n] # NoArg =>
       n = s.def \/ \E i \in Live(s) \ X : s.ics[i].siid = n

LEMMA KeepsOwnership ==
  ASSUME NEW s, Fe(s), NEW t, Keeps(s, t), NEW X, Ownership(s, X)
  PROVE  Ownership(t, X)
<1>1. Live(t) = Live(s)  BY DEF Keeps, Live
<1>2. \A i \in Icids : Served(s, i) => Served(t, i)  BY DEF Keeps, Served
<1>3. \A i \in Icids : /\ t.ics[i].siid = s.ics[i].siid /\ t.ics[i].shared = s.ics[i].shared
  BY DEF Keeps
<1>4. t.next = s.next /\ t.focus = s.focus /\ t.count = s.count /\ t.def = s.def  BY DEF Keeps
<1>5. \A n \in Siids : t.inst[n] = NoArg <=> s.inst[n] = NoArg  BY DEF Keeps
<1>6. Live(s) \subseteq Icids /\ s.focus \in Icids \cup {NoIcid} /\ s.def \in Siids \cup {NoSiid}
  BY DEF Live, Fe
<1>7. QED  BY <1>1, <1>2, <1>3, <1>4, <1>5, <1>6 DEF Ownership

\* An IC that does not share has its instance for itself.
LEMMA UnsharedSole ==
  ASSUME NEW s, Fe(s), Ownership(s, {}), NEW ic \in Live(s), ~s.ics[ic].shared
  PROVE  Sole(s, ic)
<1>1. ASSUME NEW i \in Icids, s.ics[i].siid = s.ics[ic].siid  PROVE i = ic
  <2>1. i \in Live(s)  BY <1>1 DEF Live
  <2>2. QED  BY <1>1, <2>1 DEF Ownership
<1>2. QED  BY <1>1 DEF Sole

\* FrontEndBase::new_instance.
LEMMA NewInstance ==
  ASSUME NEW s, Fe(s), s.count < MaxSiid, NEW u \in Uuids
  PROVE  LET t == new_instance(s, u)
         IN /\ Fe(t) /\ t.ics = s.ics /\ t.pc = s.pc /\ t.fx = s.fx /\ t.next = s.next
            /\ t.focus = s.focus /\ t.def = s.def /\ t.deff = s.deff
            /\ t.shared = s.shared /\ t.opened = s.opened
            /\ t.count = s.count + 1 /\ s.count \in Siids /\ t.inst[s.count] = u
            /\ \A k \in Siids : k # s.count => t.inst[k] = s.inst[k]
<1> DEFINE a == [s EXCEPT !.inst[s.count] = u]  t == [a EXCEPT !.count = s.count + 1]
<1>1. s.count \in Siids /\ s.count + 1 \in 0..MaxSiid  BY X11Assumption DEF Fe, Siids
<1>2. /\ Fe(a) /\ a.ics = s.ics /\ a.pc = s.pc /\ a.fx = s.fx /\ a.next = s.next
      /\ a.focus = s.focus /\ a.count = s.count /\ a.def = s.def /\ a.deff = s.deff
      /\ a.shared = s.shared /\ a.opened = s.opened /\ a.inst[s.count] = u
      /\ \A k \in Siids : k # s.count => a.inst[k] = s.inst[k]
  BY <1>1, SetInst
<1>3. new_instance(s, u) = t  BY DEF new_instance, Fe, Fields
<1> HIDE DEF a
<1>4. /\ DOMAIN t = Fields /\ t.ics = a.ics /\ t.pc = a.pc /\ t.fx = a.fx
      /\ t.next = a.next /\ t.focus = a.focus /\ t.inst = a.inst
      /\ t.count = s.count + 1 /\ t.def = a.def /\ t.deff = a.deff /\ t.shared = a.shared
      /\ t.opened = a.opened
  BY <1>2 DEF Fe, Fields
<1> HIDE DEF t
<1>5. Fe(t)  BY <1>1, <1>2, <1>4 DEF Fe
<1>6. QED  BY <1>1, <1>2, <1>3, <1>4, <1>5

\* An IC gives up its instance: one that is shared stays, its own is deleted.
LEMMA GiveUpShared ==
  ASSUME NEW s, Fe(s), Ownership(s, {}), NEW ic \in Live(s), s.ics[ic].shared
  PROVE  Ownership(s, {ic})
BY DEF Ownership

GivenUp(s, t, ic) ==
  /\ Fe(t) /\ Ownership(t, {ic})
  /\ \A i \in Icids : t.ics[i].siid = s.ics[i].siid /\ t.ics[i].lang = s.ics[i].lang
  /\ t.focus = s.focus /\ t.next = s.next /\ t.shared = s.shared /\ t.def = s.def
  /\ t.count = s.count
  /\ t.pc.up = s.pc.up /\ t.pc.ref = s.pc.ref /\ t.pc.cur = s.pc.cur

LEMMA GiveUpOwn ==
  ASSUME NEW s, Fe(s), Ownership(s, {}), NEW ic \in Live(s), ~s.ics[ic].shared, NEW e,
         NEW t, t = delete_instance(s, s.ics[ic].siid, e)
  PROVE  GivenUp(s, t, ic)
<1> DEFINE n == s.ics[ic].siid  a == Engine(s, n, e)
<1>1. ic \in Icids /\ n \in Siids /\ n # s.def  BY DEF Live, Ownership, Served
<1>2. Keeps(s, a)  BY EngineKeeps
<1> HIDE DEF a
<1>3. Fe(a) /\ Ownership(a, {})  BY <1>2, KeepsOwnership DEF Keeps
<1>4. t = [a EXCEPT !.inst[n] = NoArg]  BY DEF delete_instance, a
<1>5. /\ Fe(t) /\ t.ics = a.ics /\ t.pc = a.pc /\ t.fx = a.fx /\ t.next = a.next
      /\ t.focus = a.focus /\ t.count = a.count /\ t.def = a.def /\ t.deff = a.deff
      /\ t.shared = a.shared /\ t.opened = a.opened /\ t.inst[n] = NoArg
      /\ \A k \in Siids : k # n => t.inst[k] = a.inst[k]
  BY SMTT(30), <1>1, <1>3, <1>4, SetInst
<1>6. Live(a) = Live(s) /\ Live(t) = Live(a) /\ a.ics[ic].siid = n /\ a.def = s.def
      /\ ~a.ics[ic].shared
  BY <1>1, <1>2, <1>5 DEF Keeps, Live
<1>7. \A i \in Live(a) : a.ics[i].siid = n => i = ic  BY <1>3, <1>6 DEF Ownership
<1>8. \A i \in Live(a) \ {ic} : Served(t, i)
  <2> TAKE i \in Live(a) \ {ic}
  <2>1. Served(a, i) /\ a.ics[i].siid # n  BY <1>3, <1>7 DEF Ownership
  <2>2. QED  BY <1>5, <2>1 DEF Served
<1>9. Ownership(t, {ic})
  <2>1. /\ t.focus # NoIcid => t.ics[t.focus].siid # NoSiid
        /\ t.def # NoSiid => t.def < t.count /\ t.inst[t.def] # NoArg
        /\ \A i \in Icids : i >= t.next => t.ics[i].siid = NoSiid
    BY SMTT(30), <1>1, <1>3, <1>5, <1>6 DEF Ownership, Fe
  <2>2. \A k \in Siids : t.inst[k] # NoArg =>
          k = t.def \/ \E i \in Live(t) \ {ic} : t.ics[i].siid = k
    <3>1. SUFFICES ASSUME NEW k \in Siids, t.inst[k] # NoArg, k # t.def
                   PROVE  \E i \in Live(t) \ {ic} : t.ics[i].siid = k
      OBVIOUS
    <3>2. k # n /\ a.inst[k] # NoArg  BY <1>5, <3>1
    <3>3. PICK i \in Live(a) : a.ics[i].siid = k  BY <1>3, <1>5, <3>1, <3>2 DEF Ownership
    <3>4. i # ic  BY <1>6, <3>2, <3>3
    <3>5. QED  BY <1>5, <1>6, <3>3, <3>4
  <2>3. \A i \in Live(t) \ {ic} : /\ t.ics[i].siid < t.count /\ Served(t, i)
                                  /\ t.ics[i].shared => t.ics[i].siid = t.def
                                  /\ ~t.ics[i].shared => t.ics[i].siid # t.def
    <3> TAKE i \in Live(t) \ {ic}
    <3>1. i \in Live(a) \ {ic} /\ i \in Live(a) \ {}  BY <1>6
    <3>2. /\ a.ics[i].siid < a.count /\ (a.ics[i].shared => a.ics[i].siid = a.def)
          /\ (~a.ics[i].shared => a.ics[i].siid # a.def)
      BY <1>3, <3>1 DEF Ownership
    <3>3. QED  BY <1>5, <1>8, <3>1, <3>2
  <2>4. \A i, j \in Live(t) \ {ic} :
          t.ics[i].siid = t.ics[j].siid => i = j \/ t.ics[i].shared
    <3> TAKE i, j \in Live(t) \ {ic}
    <3>1. i \in Live(a) \ {} /\ j \in Live(a) \ {}  BY <1>6
    <3>2. a.ics[i].siid = a.ics[j].siid => i = j \/ a.ics[i].shared  BY <1>3, <3>1 DEF Ownership
    <3>3. QED  BY <1>5, <3>2
  <2>5. QED  BY <2>1, <2>2, <2>3, <2>4 DEF Ownership
<1>10. QED  BY <1>2, <1>5, <1>9 DEF Keeps, GivenUp

\* get_default_instance keeps what the ICs own; there is a shared instance then.
Shareable(s, t, X) ==
  /\ Fe(t) /\ Ownership(t, X)
  /\ \A i \in Icids : t.ics[i].siid = s.ics[i].siid /\ t.ics[i].lang = s.ics[i].lang
  /\ t.focus = s.focus /\ t.next = s.next /\ t.shared = s.shared
  /\ t.def \in Siids /\ t.def < t.count /\ t.inst[t.def] # NoArg
  /\ t.pc.up = s.pc.up /\ t.pc.ref = s.pc.ref /\ t.pc.cur = s.pc.cur

LEMMA GetDefault ==
  ASSUME NEW s, Fe(s), NEW X, Ownership(s, X), NEW l \in Langs, NEW e,
         s.def # NoSiid \/ s.count < MaxSiid
  PROVE  Shareable(s, get_default_instance(s, l, e), X)
<1> DEFINE u == s.deff[l]
<1>1. u \in Uuids /\ u # NoArg  BY X11Assumption DEF Fe
<1> HIDE DEF u
<1>2. CASE s.def # NoSiid
  <2> DEFINE t == replace_instance(s, s.def, u, e)
  <2>1. s.def \in Siids /\ s.inst[s.def] # NoArg  BY <1>2 DEF Ownership, Fe
  <2>2. Keeps(s, t)  BY <1>1, <2>1, ReplaceKeeps
  <2>3. get_default_instance(s, l, e) = t  BY <1>2 DEF get_default_instance, u
  <2> HIDE DEF t
  <2>4. Ownership(t, X)  BY <2>2, KeepsOwnership
  <2>5. t.def = s.def /\ s.def < t.count
    BY <1>2, <2>2, <2>4 DEF Keeps, Ownership
  <2>6. QED  BY <2>1, <2>2, <2>3, <2>4, <2>5 DEF Keeps, Shareable
<1>3. CASE s.def = NoSiid
  <2> DEFINE a == new_instance(s, u)  t == [a EXCEPT !.def = s.count]
  <2>1. /\ Fe(a) /\ a.ics = s.ics /\ a.pc = s.pc /\ a.next = s.next
        /\ a.focus = s.focus /\ a.shared = s.shared
        /\ a.count = s.count + 1 /\ s.count \in Siids /\ a.inst[s.count] = u
        /\ \A k \in Siids : k # s.count => a.inst[k] = s.inst[k]
    BY <1>1, <1>3, NewInstance
  <2>2. get_default_instance(s, l, e) = t  BY <1>3 DEF get_default_instance, u
  <2> HIDE DEF a
  <2>3. /\ DOMAIN t = Fields /\ t.ics = s.ics /\ t.pc = s.pc
        /\ t.next = s.next /\ t.focus = s.focus /\ t.inst = a.inst
        /\ t.count = s.count + 1 /\ t.def = s.count /\ t.deff = a.deff /\ t.shared = s.shared
        /\ t.opened = a.opened
    BY <2>1 DEF Fe, Fields
  <2> HIDE DEF t
  <2>4. Fe(t)  BY <2>1, <2>3 DEF Fe
  <2>5. Live(t) = Live(s) /\ s.count \in Int  BY <2>1, <2>3 DEF Live, Siids
  <2>6. ASSUME NEW i \in Live(s) \ X
        PROVE  /\ s.ics[i].siid \in Siids /\ s.ics[i].siid < s.count /\ s.ics[i].siid # s.count
               /\ Served(t, i) /\ ~s.ics[i].shared /\ s.ics[i].siid < t.count
    <3>1. /\ s.ics[i].siid < s.count /\ Served(s, i)  BY DEF Ownership
    <3>2. s.ics[i].siid \in Siids /\ s.ics[i].siid \in Int  BY <3>1 DEF Served, Siids
    <3>3. s.ics[i].siid # s.count /\ s.ics[i].siid < t.count  BY <2>3, <2>5, <3>1, <3>2
    <3>4. Served(t, i)  BY <2>1, <2>3, <3>1, <3>2, <3>3 DEF Served
    <3>5. ~s.ics[i].shared  BY <1>3, <3>2 DEF Ownership, Siids, NoSiid
    <3>6. QED  BY <3>1, <3>2, <3>3, <3>4, <3>5
  <2>7. Ownership(t, X)
    <3>1. \A k \in Siids : t.inst[k] # NoArg =>
            k = t.def \/ \E i \in Live(t) \ X : t.ics[i].siid = k
      BY <1>3, <2>1, <2>3, <2>5 DEF Ownership, Siids, NoSiid
    <3>2. /\ t.focus # NoIcid => t.ics[t.focus].siid # NoSiid
          /\ t.def # NoSiid => t.def < t.count /\ t.inst[t.def] # NoArg
          /\ \A i \in Icids : i >= t.next => t.ics[i].siid = NoSiid
      BY <1>1, <2>1, <2>3, <2>5 DEF Ownership
    <3>3. \A i, j \in Live(t) \ X : t.ics[i].siid = t.ics[j].siid => i = j \/ t.ics[i].shared
      BY <2>3, <2>5 DEF Ownership
    <3>4. \A i \in Live(t) \ X : /\ t.ics[i].siid < t.count /\ Served(t, i)
                                 /\ t.ics[i].shared => t.ics[i].siid = t.def
                                 /\ ~t.ics[i].shared => t.ics[i].siid # t.def
      BY <2>3, <2>5, <2>6
    <3>5. QED  BY <3>1, <3>2, <3>3, <3>4 DEF Ownership
  <2>8. t.def < t.count  BY <2>3, <2>5
  <2>9. QED  BY <1>1, <2>1, <2>2, <2>3, <2>4, <2>7, <2>8 DEF Shareable
<1>4. QED  BY <1>2, <1>3

\* An IC without an instance is given one: the shared one, or a new one.
Given(s, t, ic, c) ==
  /\ t.ics = [s.ics EXCEPT ![ic] = c] /\ c.siid \in Siids /\ c.lang \in Langs
  /\ t.focus = s.focus /\ t.def = s.def /\ t.next >= s.next /\ ic < t.next
  /\ t.count >= s.count /\ c.siid < t.count /\ t.inst[c.siid] # NoArg
  /\ \A k \in Siids : k # c.siid => t.inst[k] = s.inst[k]
  /\ c.shared => c.siid = s.def
  /\ ~c.shared => c.siid >= s.count

LEMMA Assign ==
  ASSUME NEW s, NEW t, Fe(s), Fe(t), NEW ic \in Icids, Ownership(s, {ic}),
         NEW c, Given(s, t, ic, c)
  PROVE  Ownership(t, {})
<1>0. /\ t.ics = [s.ics EXCEPT ![ic] = c] /\ c.siid \in Siids /\ c.lang \in Langs
      /\ t.focus = s.focus /\ t.def = s.def /\ t.next >= s.next /\ ic < t.next
      /\ t.count >= s.count /\ c.siid < t.count /\ t.inst[c.siid] # NoArg
      /\ \A k \in Siids : k # c.siid => t.inst[k] = s.inst[k]
      /\ c.shared => c.siid = s.def
      /\ ~c.shared => c.siid >= s.count
  BY DEF Given
<1> USE <1>0
<1>1. t.ics[ic] = c /\ \A i \in Icids : i # ic => t.ics[i] = s.ics[i]  BY DEF Fe
<1>2. c.siid # NoSiid /\ c.siid \in Int  BY DEF Siids, NoSiid
<1>3. Live(t) = Live(s) \cup {ic} /\ ic \in Icids /\ Live(s) \subseteq Icids
  BY <1>1, <1>2 DEF Live
<1>4. s.count \in Int /\ t.count \in Int /\ s.next \in Int /\ t.next \in Int
      /\ s.def \in Siids \cup {NoSiid} /\ s.focus \in Icids \cup {NoIcid}
  BY DEF Fe
<1>5. \A i \in Icids : i \in Int  BY DEF Icids
<1>6. /\ s.def # NoSiid => s.def \in Siids /\ s.def \in Int /\ s.def < s.count
      /\ ~c.shared => c.siid # s.def
  <2>1. s.def # NoSiid => s.def \in Siids /\ s.def \in Int /\ s.def < s.count
    BY <1>4 DEF Ownership, Siids
  <2>2. QED  BY <1>2, <1>4, <2>1
<1>7. /\ t.focus # NoIcid => t.ics[t.focus].siid # NoSiid
      /\ t.def # NoSiid => t.def < t.count /\ t.inst[t.def] # NoArg
      /\ \A i \in Icids : i >= t.next => t.ics[i].siid = NoSiid
  <2>1. t.focus # NoIcid => t.ics[t.focus].siid # NoSiid  BY <1>1, <1>2, <1>4 DEF Ownership
  <2>2. ASSUME t.def # NoSiid  PROVE t.def < t.count /\ t.inst[t.def] # NoArg
    <3>1. s.def \in Siids /\ s.def \in Int /\ s.def < s.count /\ s.inst[s.def] # NoArg
      BY <1>6, <2>2 DEF Ownership
    <3>2. QED  BY <1>4, <3>1
  <2>3. ASSUME NEW i \in Icids, i >= t.next  PROVE t.ics[i].siid = NoSiid
    <3>1. i # ic /\ i >= s.next  BY <1>4, <1>5, <2>3
    <3>2. QED  BY <1>1, <3>1 DEF Ownership
  <2>4. QED  BY <2>1, <2>2, <2>3
<1>8. ASSUME NEW i \in Live(s) \ {ic}
      PROVE  /\ t.ics[i] = s.ics[i] /\ s.ics[i].siid \in Siids /\ s.ics[i].siid \in Int
             /\ s.ics[i].siid < s.count /\ t.ics[i].siid < t.count /\ Served(t, i)
             /\ t.ics[i].shared => t.ics[i].siid = t.def
             /\ ~t.ics[i].shared => t.ics[i].siid # t.def
             /\ t.ics[i].siid = c.siid => t.ics[i].shared /\ c.shared
  <2>1. /\ s.ics[i].siid < s.count /\ Served(s, i)
        /\ s.ics[i].shared => s.ics[i].siid = s.def
        /\ ~s.ics[i].shared => s.ics[i].siid # s.def
    BY DEF Ownership
  <2>2. t.ics[i] = s.ics[i] /\ s.ics[i].siid \in Siids /\ s.ics[i].siid \in Int
    BY <1>1, <1>3, <2>1 DEF Served, Siids
  <2>3. s.ics[i].siid < t.count  BY <1>4, <2>1, <2>2
  <2>4. Served(t, i)  BY <2>1, <2>2 DEF Served
  <2>5. s.ics[i].siid = c.siid => c.shared  BY <1>2, <1>4, <2>1, <2>2
  <2>6. s.ics[i].siid = c.siid => s.ics[i].shared  BY <2>1, <2>5
  <2>7. QED  BY <2>1, <2>2, <2>3, <2>4, <2>5, <2>6
<1>9. Served(t, ic) /\ t.ics[ic].siid < t.count  BY <1>1 DEF Served
<1>10. \A i \in Live(t) : /\ t.ics[i].siid < t.count /\ Served(t, i)
                          /\ t.ics[i].shared => t.ics[i].siid = t.def
                          /\ ~t.ics[i].shared => t.ics[i].siid # t.def
  <2>1. ASSUME NEW i \in Live(t)
        PROVE  /\ t.ics[i].siid < t.count /\ Served(t, i)
               /\ t.ics[i].shared => t.ics[i].siid = t.def
               /\ ~t.ics[i].shared => t.ics[i].siid # t.def
    <3>1. CASE i = ic  BY <1>1, <1>6, <1>9, <3>1
    <3>2. CASE i # ic  BY <1>3, <1>8, <3>2
    <3>3. QED  BY <3>1, <3>2
  <2>2. QED  BY <2>1
<1>11. ASSUME NEW i \in Live(t), NEW j \in Live(t), t.ics[i].siid = t.ics[j].siid, i # j
       PROVE  t.ics[i].shared
  <2>1. CASE i = ic  BY <1>1, <1>3, <1>8, <1>11, <2>1
  <2>2. CASE j = ic  BY <1>1, <1>3, <1>8, <1>11, <2>2
  <2>3. CASE i # ic /\ j # ic
    <3>1. i \in Live(s) \ {ic} /\ j \in Live(s) \ {ic} /\ t.ics[i] = s.ics[i] /\ t.ics[j] = s.ics[j]
      BY <1>3, <1>8, <2>3
    <3>2. QED  BY <1>11, <3>1 DEF Ownership
  <2>4. QED  BY <2>1, <2>2, <2>3
<1>12. ASSUME NEW k \in Siids, t.inst[k] # NoArg, k # t.def
       PROVE  \E i \in Live(t) : t.ics[i].siid = k
  <2>1. CASE k = c.siid  BY <1>1, <1>3, <2>1
  <2>2. CASE k # c.siid
    <3>1. PICK i \in Live(s) \ {ic} : s.ics[i].siid = k  BY <1>12, <2>2 DEF Ownership
    <3>2. QED  BY <1>3, <1>8, <3>1
  <2>3. QED  BY <2>1, <2>2
<1>13. QED  BY <1>7, <1>10, <1>11, <1>12 DEF Ownership

\* An IC without an instance goes.
LEMMA Vanish ==
  ASSUME NEW s, NEW t, Fe(s), Fe(t), NEW ic \in Icids, Ownership(s, {ic}),
         t.ics = [s.ics EXCEPT ![ic] = NoIC], t.focus = NoIcid,
         t.def = s.def, t.next = s.next, t.count = s.count, t.inst = s.inst
  PROVE  Ownership(t, {}) /\ ic \notin Live(t)
<1>1. t.ics[ic] = NoIC /\ \A i \in Icids : i # ic => t.ics[i] = s.ics[i]  BY DEF Fe
<1>2. NoIC.siid = NoSiid  BY DEF NoIC
<1>3. Live(t) = Live(s) \ {ic}  BY <1>1, <1>2 DEF Live
<1>4. \A i \in Live(t) : t.ics[i] = s.ics[i] /\ (Served(s, i) => Served(t, i))
  BY <1>1, <1>3 DEF Live, Served
<1>5. \A i \in Icids : i >= t.next => t.ics[i].siid = NoSiid  BY <1>1, <1>2 DEF Ownership
<1>6. \A n \in Siids : t.inst[n] # NoArg => n = t.def \/ \E i \in Live(t) : t.ics[i].siid = n
  BY <1>3, <1>4 DEF Ownership
<1>7. QED  BY <1>3, <1>4, <1>5, <1>6 DEF Ownership

-----------------------------------------------------------------------------
(* The handlers.                                                           *)

\* Between two handlers no transaction is open; in one, that of its IC.
InTrans(s, ic) == IF s.pc.up THEN s.pc.ref = 1 /\ s.pc.cur = ic ELSE s.pc.ref = 0

XInv == Fe(fe) /\ Ownership(fe, {}) /\ fe.pc.ref = 0 /\ Directed

\* Only the client, what it has said and whose handler it is may differ.
Same(s, t) ==
  /\ Fe(t) /\ t.ics = s.ics /\ t.next = s.next /\ t.focus = s.focus /\ t.inst = s.inst
  /\ t.count = s.count /\ t.def = s.def /\ t.deff = s.deff /\ t.shared = s.shared
  /\ t.opened = s.opened

LEMMA SameOwnership ==
  ASSUME NEW s, NEW t, Same(s, t), NEW X, Ownership(s, X)
  PROVE  Ownership(t, X)
BY DEF Same, Ownership, Live, Served

LEMMA BeginTrans ==
  ASSUME NEW s, Fe(s), s.pc.ref = 0, NEW ic \in Icids
  PROVE  /\ Same(s, Begin(s, ic)) /\ Begin(s, ic).fx = s.fx
         /\ InTrans(Begin(s, ic), ic) /\ Open(Begin(s, ic), ic)
<1> DEFINE p == prepare(s.pc, ic)  t == [s EXCEPT !.pc = p]
<1>1. /\ DOMAIN p = {"up", "ref", "cur", "trans", "wire"} /\ p.ref \in Nat
      /\ p.cur \in Icids \cup {NoIcid} /\ p.up = s.pc.up
      /\ IF p.up THEN p.ref = 1 /\ p.cur = ic ELSE p.ref = 0
  BY DEF Fe, prepare
<1>2. Begin(s, ic) = t  BY DEF Begin
<1> HIDE DEF p
<1>3. /\ DOMAIN t = Fields /\ t.ics = s.ics /\ t.pc = p /\ t.fx = s.fx
      /\ t.next = s.next /\ t.focus = s.focus /\ t.inst = s.inst
      /\ t.count = s.count /\ t.def = s.def /\ t.deff = s.deff /\ t.shared = s.shared
      /\ t.opened = s.opened
  BY DEF Fe, Fields
<1> HIDE DEF t
<1>4. Fe(t)  BY <1>1, <1>3 DEF Fe
<1>5. InTrans(t, ic) /\ Open(t, ic)  BY <1>1, <1>3 DEF InTrans, Open
<1>6. QED  BY <1>2, <1>3, <1>4, <1>5 DEF Same

LEMMA EndTrans ==
  ASSUME NEW s, Fe(s), NEW ic, InTrans(s, ic)
  PROVE  Same(s, End(s)) /\ End(s).fx = s.fx /\ End(s).pc.ref = 0
<1> DEFINE p == send(s.pc)  t == [s EXCEPT !.pc = p]
<1>1. /\ DOMAIN p = {"up", "ref", "cur", "trans", "wire"} /\ p.ref = 0
      /\ p.cur \in Icids \cup {NoIcid}
  BY DEF Fe, send, InTrans
<1>2. End(s) = t  BY DEF End
<1> HIDE DEF p
<1>3. /\ DOMAIN t = Fields /\ t.ics = s.ics /\ t.pc = p /\ t.fx = s.fx
      /\ t.next = s.next /\ t.focus = s.focus /\ t.inst = s.inst
      /\ t.count = s.count /\ t.def = s.def /\ t.deff = s.deff /\ t.shared = s.shared
      /\ t.opened = s.opened
  BY DEF Fe, Fields
<1> HIDE DEF t
<1>4. Fe(t)  BY <1>1, <1>3 DEF Fe
<1>5. QED  BY <1>1, <1>2, <1>3, <1>4 DEF Same

LEMMA KeepsTransaction ==
  ASSUME NEW s, NEW t, Keeps(s, t), NEW ic, InTrans(s, ic)
  PROVE  InTrans(t, ic)
BY DEF Keeps, InTrans

LEMMA NowSame ==
  ASSUME Fe(fe)
  PROVE  Same(fe, Now) /\ Now.pc = fe.pc /\ Now.fx = {} /\ Now.by = NoIcid
<1>1. /\ DOMAIN Now = Fields /\ Now.ics = fe.ics /\ Now.pc = fe.pc /\ Now.fx = {}
      /\ Now.next = fe.next /\ Now.focus = fe.focus /\ Now.inst = fe.inst
      /\ Now.count = fe.count /\ Now.def = fe.def /\ Now.deff = fe.deff /\ Now.shared = fe.shared
      /\ Now.opened = fe.opened /\ Now.by = NoIcid
  BY DEF Fe, Fields, Now
<1>2. QED  BY <1>1 DEF Same, Fe

\* The end of a handler.
LEMMA HandledFit ==
  ASSUME NEW ic, NEW s, Handle(ic, s), Fe(s), Ownership(s, {}), s.pc.ref = 0,
         ic \in Live(s) /\ ~s.ics[ic].shared => Fit(s, ic)
  PROVE  XInv'
<1> DEFINE w == IF alive THEN s.pc.wire ELSE <<>>
           p == [s.pc EXCEPT !.wire = w]
<1>1. fe' = [s EXCEPT !.by = ic, !.pc = p]  BY DEF Handle, Fe, Fields
<1>2. DOMAIN p = DOMAIN s.pc /\ p.ref = s.pc.ref /\ p.cur = s.pc.cur /\ p.up = s.pc.up
  BY DEF Fe
<1> HIDE DEF p
<1>3. /\ DOMAIN fe' = Fields /\ fe'.ics = s.ics /\ fe'.pc = p /\ fe'.fx = s.fx /\ fe'.by = ic
      /\ fe'.next = s.next /\ fe'.focus = s.focus /\ fe'.inst = s.inst
      /\ fe'.count = s.count /\ fe'.def = s.def /\ fe'.deff = s.deff /\ fe'.shared = s.shared
      /\ fe'.opened = s.opened
  BY <1>1 DEF Fe, Fields
<1>4. Same(s, fe')  BY <1>2, <1>3 DEF Same, Fe
<1>5. Fe(fe') /\ Ownership(fe', {})  BY <1>4, SameOwnership DEF Same
<1>6. Directed'  BY <1>3 DEF Directed, Fit, Live
<1>7. Fe(fe)' /\ Ownership(fe, {})'
  BY <1>5 DEF Fe, Ownership, Live, Served
<1>8. QED  BY <1>2, <1>3, <1>6, <1>7 DEF XInv

\* The end of one in which the fallback instance said nothing.
LEMMA Handled ==
  ASSUME NEW ic, NEW s, Handle(ic, s), Fe(s), Ownership(s, {}), s.pc.ref = 0,
         ic \in Live(s) /\ ~s.ics[ic].shared => Said(s, ic)
  PROVE  XInv'
<1>1. Said(s, ic) => Fit(s, ic)  BY DEF Said, Fit
<1>2. QED  BY <1>1, HandledFit

\* The fallback instance changes nothing of the front end.
LEMMA FallbackSame ==
  ASSUME NEW s, Fe(s), NEW f
  PROVE  LET t == Fallback(s, f)
         IN /\ Same(s, t) /\ t.pc = s.pc /\ t.focus = s.focus
            /\ \A x \in t.fx : x \in s.fx \/ (x.how = "fallback" /\ x.to = s.focus)
<1> DEFINE t == Fallback(s, f)
<1>1. CASE f /\ s.focus # NoIcid
  <2>1. t = [s EXCEPT !.fx = @ \cup {[to |-> s.focus, how |-> "fallback"]}]  BY <1>1 DEF Fallback
  <2>2. /\ DOMAIN t = Fields /\ t.ics = s.ics /\ t.pc = s.pc /\ t.next = s.next
        /\ t.focus = s.focus /\ t.inst = s.inst /\ t.count = s.count /\ t.def = s.def
        /\ t.deff = s.deff /\ t.shared = s.shared /\ t.opened = s.opened
        /\ t.fx = s.fx \cup {[to |-> s.focus, how |-> "fallback"]}
    BY <2>1 DEF Fe, Fields
  <2> HIDE DEF t
  <2>3. Same(s, t)  BY <2>2 DEF Same, Fe
  <2>4. QED  BY <2>2, <2>3 DEF t
<1>2. CASE ~(f /\ s.focus # NoIcid)
  <2>1. t = s  BY <1>2 DEF Fallback
  <2>2. QED  BY <2>1 DEF Same
<1>3. QED  BY <1>1, <1>2

LEMMA FallbackKeeps ==
  ASSUME NEW s, NEW t, Keeps(s, t), NEW f
  PROVE  Keeps(s, Fallback(t, f)) /\ Fe(Fallback(t, f))
<1>1. Fe(t)  BY DEF Keeps
<1>2. Same(t, Fallback(t, f)) /\ Fallback(t, f).pc = t.pc  BY <1>1, FallbackSame
<1>3. QED  BY <1>2 DEF Same, Keeps

\* What Begin leaves for the rest of the handler of a live IC.
LEMMA Begun ==
  ASSUME XInv, NEW ic \in Live(fe)
  PROVE  LET b == Begin(Now, ic)
         IN /\ Fe(b) /\ Ownership(b, {}) /\ Served(b, ic) /\ ic \in Icids /\ ic \in Live(b)
            /\ InTrans(b, ic) /\ Open(b, ic) /\ b.fx = {} /\ Same(fe, b)
<1> DEFINE b == Begin(Now, ic)
<1>1. Fe(fe) /\ Ownership(fe, {}) /\ fe.pc.ref = 0 /\ ic \in Icids  BY DEF XInv, Live
<1>2. Same(fe, Now) /\ Fe(Now) /\ Now.pc.ref = 0 /\ Now.fx = {}  BY <1>1, NowSame DEF Same
<1>3. Same(Now, b) /\ b.fx = {} /\ InTrans(b, ic) /\ Open(b, ic)  BY <1>1, <1>2, BeginTrans
<1> HIDE DEF b
<1>4. Same(fe, b)  BY <1>2, <1>3 DEF Same
<1>5. Fe(b) /\ Ownership(b, {}) /\ ic \in Live(b)  BY <1>1, <1>4, SameOwnership DEF Same, Live
<1>6. Served(b, ic)  BY <1>5 DEF Ownership
<1>7. QED  BY <1>1, <1>3, <1>4, <1>5, <1>6 DEF b

\* The transaction of a live IC, from any point of its handler to the end.
LEMMA Spoken ==
  ASSUME NEW ic \in Icids, NEW b, Fe(b), Ownership(b, {}), InTrans(b, ic), ic \in Live(b),
         ~b.ics[ic].shared => Said(b, ic), NEW t, Talks(b, t, ic)
  PROVE  LET r == End(t)
         IN /\ Fe(r) /\ Ownership(r, {}) /\ r.pc.ref = 0 /\ ic \in Live(r)
            /\ ~r.ics[ic].shared => Said(r, ic)
            /\ r.next = b.next /\ r.focus = b.focus /\ r.count = b.count /\ r.def = b.def
            /\ r.shared = b.shared
            /\ \A i \in Icids : r.ics[i].siid = b.ics[i].siid /\ r.ics[i].shared = b.ics[i].shared
<1> DEFINE r == End(t)
<1>1. Open(b, ic)  BY DEF InTrans, Open
<1>2. Keeps(b, t)  BY DEF Talks
<1>3. Fe(t) /\ Ownership(t, {}) /\ InTrans(t, ic)
  BY <1>2, KeepsOwnership, KeepsTransaction DEF Keeps
<1>4. Same(t, r) /\ r.fx = t.fx /\ r.pc.ref = 0  BY <1>3, EndTrans
<1> HIDE DEF r
<1>5. Fe(r) /\ Ownership(r, {})  BY <1>3, <1>4, SameOwnership DEF Same
<1>6. /\ r.next = b.next /\ r.focus = b.focus /\ r.count = b.count /\ r.def = b.def
      /\ r.shared = b.shared
      /\ \A i \in Icids : r.ics[i].siid = b.ics[i].siid /\ r.ics[i].shared = b.ics[i].shared
  BY <1>2, <1>4 DEF Same, Keeps
<1>7. ic \in Live(r)  BY <1>6 DEF Live
<1>8. ASSUME ~r.ics[ic].shared  PROVE Said(r, ic)
  <2>1. ~b.ics[ic].shared  BY <1>6, <1>8
  <2>2. Sole(b, ic)  BY <2>1, UnsharedSole
  <2>3. Said(t, ic)  BY <1>1, <2>1, <2>2 DEF Talks
  <2>4. QED  BY <1>4, <2>3 DEF Said
<1>9. QED  BY <1>4, <1>5, <1>6, <1>7, <1>8 DEF r

\* A handler that only talks.
LEMMA Talking ==
  ASSUME XInv, NEW ic \in Live(fe), NEW t, Talks(Begin(Now, ic), t, ic), Handle(ic, End(t))
  PROVE  XInv'
<1> DEFINE b == Begin(Now, ic)
<1>1. Fe(b) /\ Ownership(b, {}) /\ ic \in Icids /\ ic \in Live(b) /\ InTrans(b, ic) /\ b.fx = {}
  BY Begun
<1>2. Said(b, ic)  BY <1>1 DEF Said
<1>3. Talks(b, t, ic)  OBVIOUS
<1> HIDE DEF b
<1>4. /\ Fe(End(t)) /\ Ownership(End(t), {}) /\ End(t).pc.ref = 0
      /\ ~End(t).ics[ic].shared => Said(End(t), ic)
  BY <1>1, <1>2, <1>3, Spoken
<1>5. QED  BY <1>4, Handled

LEMMA SetValuesStep ==
  ASSUME XInv, NEW ic \in Icids, NEW e, ims_set_ic_values_handler(ic, e)
  PROVE  XInv'
<1> DEFINE b == Begin(Now, ic)
           c == IF fe.focus = ic THEN Put(b, ic, "UPDATE", NoArg) ELSE b
           t == Engine(c, fe.ics[ic].siid, e)
<1>1. ic \in Live(fe) /\ Handle(ic, End(t))  BY DEF ims_set_ic_values_handler
<1>2. Fe(b) /\ b.ics = fe.ics  BY <1>1, Begun DEF Same
<1> HIDE DEF b
<1>3. Talks(b, c, ic)  BY <1>2, PutTalks, TalksSelf
<1> HIDE DEF c
<1>4. Fe(c) /\ c.ics[ic].siid = fe.ics[ic].siid  BY <1>2, <1>3, TalksFe
<1>5. Talks(c, t, ic)  BY <1>4, EngineTalks
<1> HIDE DEF t
<1>6. Talks(b, t, ic)  BY <1>3, <1>5, TalksTrans
<1>7. QED  BY <1>1, <1>6, Talking DEF b

LEMMA CallStep ==
  ASSUME XInv, NEW ic \in Icids, NEW e, CallInstance(ic, e)
  PROVE  XInv'
<1> DEFINE b == Begin(Now, ic)  t == Engine(b, fe.ics[ic].siid, e)
<1>1. ic \in Live(fe) /\ Handle(ic, End(t))  BY DEF CallInstance
<1>2. Fe(b) /\ b.ics = fe.ics  BY <1>1, Begun DEF Same
<1> HIDE DEF b
<1>3. Talks(b, t, ic)  BY <1>2, EngineTalks
<1> HIDE DEF t
<1>4. QED  BY <1>1, <1>3, Talking DEF b

LEMMA TriggerStep ==
  ASSUME XInv, NEW ic \in Icids, NEW flag, NEW e, ims_trigger_notify_handler(ic, flag, e)
  PROVE  XInv'
<1> DEFINE b == Begin(Now, ic)
           t == IF flag THEN ims_turn_off_ic(b, ic, e) ELSE ims_turn_on_ic(b, ic, e)
<1>1. ic \in Live(fe) /\ Handle(ic, End(t))  BY DEF ims_trigger_notify_handler
<1>2. Fe(b)  BY <1>1, Begun
<1> HIDE DEF b
<1>3. Talks(b, t, ic)  BY <1>2, TurnOnTalks, TurnOffTalks
<1> HIDE DEF t
<1>4. QED  BY <1>1, <1>3, Talking DEF b

LEMMA KeyStep ==
  ASSUME XInv, NEW ic \in Icids, NEW key, NEW e, NEW f, process_key_event(ic, key, e, f)
  PROVE  XInv'
<1> DEFINE b == Begin(Now, ic)
           t == IF fe.focus = ic THEN filter_hotkeys(b, ic, key, e)
                ELSE IF b.ics[ic].on THEN Engine(b, b.ics[ic].siid, e) ELSE b
           u == Fallback(t, f)
           r == End(u)
<1>1. ic \in Live(fe) /\ Handle(ic, r)  BY DEF process_key_event
<1>2. /\ Fe(b) /\ Served(b, ic) /\ Ownership(b, {}) /\ ic \in Live(b) /\ InTrans(b, ic)
      /\ Open(b, ic) /\ Said(b, ic)
  BY <1>1, Begun DEF Said
<1> HIDE DEF b
<1>3. Talks(b, filter_hotkeys(b, ic, key, e), ic)  BY <1>2, HotkeysTalk
<1>4. Talks(b, Engine(b, b.ics[ic].siid, e), ic) /\ Talks(b, b, ic)  BY <1>2, EngineTalks, TalksSelf
<1>5. Talks(b, t, ic)  BY <1>3, <1>4
<1> HIDE DEF t
<1>6. Keeps(b, t) /\ Fe(t)  BY <1>5 DEF Talks, Keeps
<1>7. Keeps(b, u) /\ Fe(u)  BY <1>6, FallbackKeeps
<1>8. /\ Same(t, u) /\ u.focus = t.focus
      /\ \A x \in u.fx : x \in t.fx \/ (x.how = "fallback" /\ x.to = t.focus)
  BY <1>6, FallbackSame
<1> HIDE DEF u
<1>9. Ownership(u, {}) /\ InTrans(u, ic)  BY <1>2, <1>7, KeepsOwnership, KeepsTransaction
<1>10. Same(u, r) /\ r.fx = u.fx /\ r.pc.ref = 0  BY <1>7, <1>9, EndTrans
<1> HIDE DEF r
<1>11. Fe(r) /\ Ownership(r, {}) /\ r.focus = t.focus /\ r.ics = u.ics
  BY <1>8, <1>9, <1>10, SameOwnership DEF Same
<1>12. ASSUME ~r.ics[ic].shared  PROVE Fit(r, ic)
  <2>1. ~b.ics[ic].shared  BY <1>7, <1>11, <1>12 DEF Keeps
  <2>2. Sole(b, ic)  BY <1>2, <2>1, UnsharedSole
  <2>3. Said(t, ic)  BY <1>2, <1>5, <2>2 DEF Talks
  <2>4. QED  BY <1>8, <1>10, <1>11, <2>3 DEF Said, Fit
<1>13. QED  BY <1>1, <1>10, <1>11, <1>12, HandledFit

LEMMA ChangeFactoryStep ==
  ASSUME XInv, NEW ic \in Icids, NEW u \in Uuids \cup {NoArg}, NEW e,
         panel_slot_change_factory(ic, u, e)
  PROVE  XInv'
<1> DEFINE b == Begin(Now, ic)
           o == update_factory_info(b, ic)
           t == IF u # NoArg THEN ChangeFactory(b, ic, u, e)
                ELSE IF fe.ics[ic].on THEN ims_turn_off_ic(b, ic, e)
                ELSE Put(o, ic, "TURN_OFF", NoArg)
<1>1. ic \in Live(fe) /\ Handle(ic, End(t))  BY DEF panel_slot_change_factory
<1>2. Fe(b) /\ Served(b, ic)  BY <1>1, Begun
<1> HIDE DEF b
<1>3. u # NoArg => Talks(b, ChangeFactory(b, ic, u, e), ic)  BY <1>2, ChangeTalks
<1>4. Talks(b, ims_turn_off_ic(b, ic, e), ic)  BY <1>2, TurnOffTalks
<1>5. Talks(b, o, ic) /\ Fe(o)  BY <1>2, UpdateTalks, TalksFe
<1> HIDE DEF o
<1>6. Talks(b, Put(o, ic, "TURN_OFF", NoArg), ic)  BY <1>5, PutTalks, TalksTrans
<1>7. Talks(b, t, ic)  BY <1>3, <1>4, <1>6
<1> HIDE DEF t
<1>8. QED  BY <1>1, <1>7, Talking DEF b, o

\* The focus goes to a live IC, or nowhere.
Refocused(s, t, f) ==
  /\ DOMAIN t = Fields /\ t.focus = f /\ t.ics = s.ics /\ t.pc = s.pc /\ t.next = s.next
  /\ t.inst = s.inst /\ t.count = s.count /\ t.def = s.def /\ t.deff = s.deff
  /\ t.shared = s.shared /\ t.opened = s.opened

LEMMA Refocus ==
  ASSUME NEW s, Fe(s), NEW X, Ownership(s, X), NEW f \in Icids \cup {NoIcid},
         f # NoIcid => s.ics[f].siid # NoSiid, NEW t, Refocused(s, t, f)
  PROVE  Fe(t) /\ Ownership(t, X)
<1>1. Fe(t)  BY DEF Fe, Refocused
<1>2. Live(t) = Live(s) /\ \A i : Served(t, i) <=> Served(s, i)  BY DEF Live, Served, Refocused
<1>3. Ownership(t, X)  BY <1>2 DEF Ownership, Refocused
<1>4. QED  BY <1>1, <1>3

LEMMA UnsetStep ==
  ASSUME XInv, NEW ic \in Icids, NEW e, ims_unset_ic_focus_handler(ic, e)
  PROVE  XInv'
<1> DEFINE b == Begin(Now, ic)
           c == stop_ic(b, ic, e)
           t == Put(c, ic, "FOCUS_OUT", NoArg)
           r == End(t)
           q == [r EXCEPT !.focus = NoIcid]
<1>1. ic = fe.focus /\ Handle(ic, q)  BY DEF ims_unset_ic_focus_handler
<1>2. ic \in Live(fe)
  BY <1>1, X11Assumption DEF XInv, Ownership, Live, Icids, NoIcid
<1>3. Fe(b) /\ Ownership(b, {}) /\ InTrans(b, ic) /\ ic \in Live(b) /\ b.fx = {}  BY <1>2, Begun
<1> HIDE DEF b
<1>4. Said(b, ic)  BY <1>3 DEF Said
<1>5. Talks(b, c, ic) /\ Fe(c)  BY <1>3, StopTalks, TalksFe
<1> HIDE DEF c
<1>6. Talks(b, t, ic)  BY <1>5, PutTalks, TalksTrans
<1> HIDE DEF t
<1>7. /\ Fe(r) /\ Ownership(r, {}) /\ r.pc.ref = 0
      /\ ~r.ics[ic].shared => Said(r, ic)
  BY <1>3, <1>4, <1>6, Spoken
<1> HIDE DEF r
<1>8. Refocused(r, q, NoIcid) /\ q.fx = r.fx  BY <1>7 DEF Fe, Fields, Refocused
<1> HIDE DEF q
<1>9. Fe(q) /\ Ownership(q, {})  BY <1>7, <1>8, Refocus
<1>10. /\ q.pc.ref = 0
       /\ ~q.ics[ic].shared => Said(q, ic)
  BY <1>7, <1>8 DEF Said, Refocused
<1>11. QED  BY <1>1, <1>9, <1>10, Handled

LEMMA DestroyStep ==
  ASSUME XInv, NEW ic \in Icids, NEW e, ims_destroy_ic_handler(ic, e)
  PROVE  XInv'
<1> DEFINE s1 == Begin(Now, ic)
           a1 == Engine(s1, fe.ics[ic].siid, e)
           a2 == Put(a1, ic, "TURN_OFF", NoArg)
           a3 == Put(a2, ic, "FOCUS_OUT", NoArg)
           s2 == IF fe.focus = ic THEN a3 ELSE s1
           s3 == [s2 EXCEPT !.focus = ic]
           s4 == IF fe.ics[ic].shared THEN s3 ELSE delete_instance(s3, fe.ics[ic].siid, e)
           p5 == Put(s4, ic, "REMOVE", NoArg)
           s5 == End(p5)
           f == IF s5.focus = ic THEN NoIcid ELSE s2.focus
           q == [s5 EXCEPT !.focus = f, !.ics[ic] = NoIC]
<1>1. ic \in Live(fe) /\ Handle(ic, q)  BY DEF ims_destroy_ic_handler
<1>2. /\ Fe(s1) /\ Ownership(s1, {}) /\ InTrans(s1, ic) /\ ic \in Live(s1) /\ s1.ics = fe.ics
  BY <1>1, Begun DEF Same
<1> HIDE DEF s1
<1>3. Keeps(s1, s2)
  <2>1. Keeps(s1, a1) /\ Fe(a1)  BY <1>2, EngineKeeps DEF Keeps
  <2> HIDE DEF a1
  <2>2. Keeps(a1, a2) /\ Fe(a2)  BY <2>1, PutKeeps DEF Keeps
  <2> HIDE DEF a2
  <2>3. Keeps(a2, a3)  BY <2>2, PutKeeps
  <2> HIDE DEF a3
  <2>4. Keeps(s1, a3)  BY <2>1, <2>2, <2>3, KeepsTrans
  <2>5. Keeps(s1, s1)  BY <1>2 DEF Keeps
  <2>6. QED  BY <2>4, <2>5
<1> HIDE DEF s2
<1>4. /\ Fe(s2) /\ Ownership(s2, {}) /\ InTrans(s2, ic) /\ s2.ics[ic].siid = fe.ics[ic].siid
      /\ s2.ics[ic].shared = fe.ics[ic].shared /\ s2.ics[ic].siid # NoSiid
  BY <1>2, <1>3, KeepsOwnership, KeepsTransaction DEF Keeps, Live
<1>5. Refocused(s2, s3, ic)  BY <1>4 DEF Fe, Fields, Refocused
<1> HIDE DEF s3
<1>6. Fe(s3) /\ Ownership(s3, {}) /\ s3.focus = ic /\ s3.ics = s2.ics /\ s3.pc = s2.pc
  BY <1>4, <1>5, Refocus DEF Refocused
<1>7. ic \in Live(s3) /\ InTrans(s3, ic)  BY <1>4, <1>6 DEF Live, InTrans
<1>8. Fe(s4) /\ Ownership(s4, {ic}) /\ s4.focus = ic /\ InTrans(s4, ic)
  <2>1. CASE fe.ics[ic].shared
    <3>1. Ownership(s3, {ic})  BY <1>4, <1>6, <1>7, <2>1, GiveUpShared
    <3>2. QED  BY <1>6, <1>7, <2>1, <3>1
  <2>2. CASE ~fe.ics[ic].shared
    <3> DEFINE t == delete_instance(s3, s3.ics[ic].siid, e)
    <3>0. ~s3.ics[ic].shared  BY <1>4, <1>6, <2>2
    <3>1. /\ Fe(t) /\ Ownership(t, {ic}) /\ t.focus = s3.focus
          /\ t.pc.up = s3.pc.up /\ t.pc.ref = s3.pc.ref /\ t.pc.cur = s3.pc.cur
      <4>1. t = delete_instance(s3, s3.ics[ic].siid, e)  OBVIOUS
      <4> HIDE DEF t
      <4>2. GivenUp(s3, t, ic)  BY <1>6, <1>7, <3>0, <4>1, GiveUpOwn
      <4>3. QED  BY <4>2 DEF GivenUp
    <3>2. s4 = t  BY <1>4, <1>6, <2>2
    <3> HIDE DEF t
    <3>3. InTrans(t, ic)  BY <1>7, <3>1 DEF InTrans
    <3>4. QED  BY <1>6, <3>1, <3>2, <3>3
  <2>3. QED  BY <2>1, <2>2
<1> HIDE DEF s4
<1>9. Keeps(s4, p5)  BY <1>8, PutKeeps
<1> HIDE DEF p5
<1>10. Fe(p5) /\ Ownership(p5, {ic}) /\ p5.focus = ic /\ InTrans(p5, ic)
  BY <1>8, <1>9, KeepsOwnership, KeepsTransaction DEF Keeps
<1>11. Same(p5, s5) /\ s5.pc.ref = 0  BY <1>10, EndTrans
<1> HIDE DEF s5
<1>12. Fe(s5) /\ Ownership(s5, {ic}) /\ f = NoIcid  BY <1>10, <1>11, SameOwnership DEF Same
<1> HIDE DEF f
<1>13. q = [s5 EXCEPT !.focus = f, !.ics = [s5.ics EXCEPT ![ic] = NoIC]]
  BY <1>12 DEF Fe, Fields
<1>14. /\ DOMAIN q = Fields /\ q.ics = [s5.ics EXCEPT ![ic] = NoIC] /\ q.pc = s5.pc
       /\ q.next = s5.next /\ q.focus = NoIcid /\ q.inst = s5.inst
       /\ q.count = s5.count /\ q.def = s5.def /\ q.deff = s5.deff /\ q.shared = s5.shared
       /\ q.opened = s5.opened
  BY <1>12, <1>13 DEF Fe, Fields
<1> HIDE DEF q
<1>15. NoIC \in ICs  BY DEF NoIC, ICs
<1>16. q.ics \in [Icids -> ICs]  BY <1>12, <1>14, <1>15 DEF Fe
<1>17. Fe(q)  BY <1>12, <1>14, <1>16 DEF Fe
<1>18. Ownership(q, {}) /\ ic \notin Live(q)  BY <1>12, <1>14, <1>17, Vanish
<1>19. QED  BY <1>1, <1>11, <1>14, <1>17, <1>18, Handled

\* ic, which does not count as an owner yet, is a new IC with the shared instance.
LEMMA Enter ==
  ASSUME NEW s, NEW t, Fe(s), Fe(t), NEW ic \in Icids, Ownership(s, {ic}),
         NEW c, c.siid # NoSiid, t.ics = [s.ics EXCEPT ![ic] = c],
         t.focus = s.focus, t.def = s.def, t.next >= s.next, ic < t.next, t.count = s.count,
         t.inst = s.inst
  PROVE  Ownership(t, {ic})
<1>1. t.ics[ic] = c /\ \A i \in Icids : i # ic => t.ics[i] = s.ics[i]  BY DEF Fe
<1>2. Live(t) \ {ic} = Live(s) \ {ic}  BY <1>1 DEF Live
<1>3. \A i \in Live(s) \ {ic} : t.ics[i] = s.ics[i] /\ (Served(s, i) => Served(t, i))
  BY <1>1 DEF Live, Served
<1>4. t.focus # NoIcid => t.ics[t.focus].siid # NoSiid  BY <1>1 DEF Ownership, Fe
<1>5. ASSUME NEW i \in Icids, i >= t.next  PROVE t.ics[i].siid = NoSiid
  <2>1. i \in Int /\ ic \in Int /\ s.next \in Int /\ t.next \in Int  BY DEF Icids, Fe
  <2>2. i # ic /\ i >= s.next  BY <1>5, <2>1
  <2>3. QED  BY <1>1, <2>2 DEF Ownership
<1>6. \A n \in Siids : t.inst[n] # NoArg => n = t.def \/ \E i \in Live(t) \ {ic} : t.ics[i].siid = n
  BY <1>2, <1>3 DEF Ownership
<1>7. QED  BY <1>2, <1>3, <1>4, <1>5, <1>6 DEF Ownership

\* The number of the next IC is free.
LEMMA NextFree ==
  ASSUME XInv, fe.next <= MaxIcid
  PROVE  /\ fe.next \in Icids /\ fe.next + 1 \in 1..(MaxIcid + 1)
         /\ Fe(Now) /\ Same(fe, Now) /\ Now.pc.ref = 0 /\ Now.fx = {}
         /\ Ownership(Now, {fe.next})
<1>1. Fe(fe) /\ Ownership(fe, {}) /\ fe.pc.ref = 0  BY DEF XInv
<1>2. fe.next \in Icids /\ fe.next + 1 \in 1..(MaxIcid + 1)  BY <1>1, X11Assumption DEF Fe, Icids
<1>3. Same(fe, Now) /\ Fe(Now) /\ Now.pc.ref = 0 /\ Now.fx = {}  BY <1>1, NowSame DEF Same
<1>4. Ownership(Now, {}) /\ Now.next = fe.next  BY <1>1, <1>3, SameOwnership DEF Same
<1>5. fe.next >= Now.next  BY <1>1, <1>4 DEF Fe
<1>6. fe.next \notin Live(Now)  BY <1>2, <1>4, <1>5 DEF Ownership, Live
<1>7. Live(Now) \ {fe.next} = Live(Now) \ {}  BY <1>6
<1>8. Ownership(Now, {fe.next})  BY <1>4, <1>7 DEF Ownership
<1>9. QED  BY <1>2, <1>3, <1>8

\* The record has another entry for ic.
Entry(s, t, ic, c) ==
  /\ Fe(t) /\ t.ics = [s.ics EXCEPT ![ic] = c] /\ t.pc = s.pc /\ t.fx = s.fx
  /\ t.focus = s.focus /\ t.inst = s.inst
  /\ t.count = s.count /\ t.def = s.def /\ t.shared = s.shared

AddIC(s, ic, c) == [s EXCEPT !.next = @ + 1, !.ics[ic] = c]
SetIC(s, ic, c) == [s EXCEPT !.ics = [s.ics EXCEPT ![ic] = c]]

LEMMA AddEntry ==
  ASSUME NEW s, Fe(s), NEW ic \in Icids, NEW c \in ICs, s.next + 1 \in 1..(MaxIcid + 1)
  PROVE  Entry(s, AddIC(s, ic, c), ic, c) /\ AddIC(s, ic, c).next = s.next + 1
<1> DEFINE t == AddIC(s, ic, c)
<1>1. t = [s EXCEPT !.next = s.next + 1, !.ics = [s.ics EXCEPT ![ic] = c]]
  BY DEF AddIC, Fe, Fields
<1> HIDE DEF t
<1>2. /\ DOMAIN t = Fields /\ t.ics = [s.ics EXCEPT ![ic] = c] /\ t.pc = s.pc /\ t.fx = s.fx
      /\ t.next = s.next + 1 /\ t.focus = s.focus /\ t.inst = s.inst
      /\ t.count = s.count /\ t.def = s.def /\ t.deff = s.deff /\ t.shared = s.shared
      /\ t.opened = s.opened
  BY <1>1 DEF Fe, Fields
<1>3. t.ics \in [Icids -> ICs]  BY <1>2 DEF Fe
<1>4. Fe(t)  BY <1>2, <1>3 DEF Fe
<1>5. QED  BY <1>2, <1>4 DEF Entry, t

LEMMA SetEntry ==
  ASSUME NEW s, Fe(s), NEW ic \in Icids, NEW c \in ICs
  PROVE  Entry(s, SetIC(s, ic, c), ic, c) /\ SetIC(s, ic, c).next = s.next
<1> DEFINE t == SetIC(s, ic, c)
<1>1. /\ DOMAIN t = Fields /\ t.ics = [s.ics EXCEPT ![ic] = c] /\ t.pc = s.pc /\ t.fx = s.fx
      /\ t.next = s.next /\ t.focus = s.focus /\ t.inst = s.inst
      /\ t.count = s.count /\ t.def = s.def /\ t.deff = s.deff /\ t.shared = s.shared
      /\ t.opened = s.opened
  BY DEF SetIC, Fe, Fields
<1> HIDE DEF t
<1>2. t.ics \in [Icids -> ICs]  BY <1>1 DEF Fe
<1>3. Fe(t)  BY <1>1, <1>2 DEF Fe
<1>4. QED  BY <1>1, <1>3 DEF Entry, t

\* A new IC outside the shared input method mode has a new instance.
LEMMA CreateOwn ==
  ASSUME XInv, NEW l \in Langs, NEW e, ims_create_ic_handler(l, e), ~fe.shared
  PROVE  XInv'
<1> DEFINE ic == fe.next
           u == Now.deff[l]
           c == [NoIC EXCEPT !.siid = fe.count, !.lang = l]
           a == new_instance(Now, u)
           s2 == AddIC(a, ic, c)
           b == Begin(s2, ic)
           p == Put(b, ic, "REGISTER", s2.inst[fe.count])
           t == Engine(p, fe.count, e)
           q == End(t)
<1>0. fe.next <= MaxIcid /\ fe.count < MaxSiid /\ Handle(ic, q)
  BY DEF ims_create_ic_handler, AddIC
<1>1. /\ ic \in Icids /\ ic + 1 \in 1..(MaxIcid + 1) /\ Fe(Now) /\ Same(fe, Now)
      /\ Now.pc.ref = 0 /\ Now.fx = {} /\ Ownership(Now, {ic})
  BY <1>0, NextFree
<1>2. Now.count = fe.count /\ Now.next = ic /\ u \in Uuids /\ u # NoArg
  BY <1>1, X11Assumption DEF Same, Fe
<1> HIDE DEF u
<1>3. /\ Fe(a) /\ a.ics = Now.ics /\ a.pc = Now.pc /\ a.fx = Now.fx /\ a.next = Now.next
      /\ a.focus = Now.focus /\ a.def = Now.def
      /\ a.count = Now.count + 1 /\ Now.count \in Siids /\ a.inst[Now.count] = u
      /\ \A k \in Siids : k # Now.count => a.inst[k] = Now.inst[k]
  BY <1>0, <1>1, <1>2, NewInstance
<1>4. fe.count \in Siids  BY <1>2, <1>3
<1>5. c \in ICs /\ c.siid = fe.count /\ c.lang = l  BY <1>4 DEF NoIC, ICs
<1>6. ~c.shared  BY DEF NoIC
<1>7. s2 = AddIC(a, ic, c)  OBVIOUS
<1> HIDE DEF ic, a, c, s2
<1>8. /\ Fe(s2) /\ s2.ics = [a.ics EXCEPT ![ic] = c] /\ s2.pc = a.pc /\ s2.fx = a.fx
      /\ s2.next = a.next + 1 /\ s2.focus = a.focus /\ s2.inst = a.inst
      /\ s2.count = a.count /\ s2.def = a.def
  <2>1. a.next + 1 \in 1..(MaxIcid + 1)  BY <1>1, <1>2, <1>3
  <2>2. Entry(a, s2, ic, c) /\ s2.next = a.next + 1  BY <1>1, <1>3, <1>5, <1>7, <2>1, AddEntry
  <2>3. QED  BY <2>2 DEF Entry
<1>9. /\ s2.next >= Now.next /\ ic < s2.next /\ s2.count >= Now.count /\ c.siid < s2.count
      /\ c.siid >= Now.count
  BY <1>1, <1>2, <1>3, <1>4, <1>5, <1>8 DEF Siids, Icids
<1>10. Ownership(s2, {})
  <2>1. s2.ics = [Now.ics EXCEPT ![ic] = c]  BY <1>3, <1>8
  <2>2. s2.inst[c.siid] # NoArg /\ \A k \in Siids : k # c.siid => s2.inst[k] = Now.inst[k]
    BY <1>2, <1>3, <1>5, <1>8
  <2>3. s2.focus = Now.focus /\ s2.def = Now.def  BY <1>3, <1>8
  <2>4. Given(Now, s2, ic, c)
    BY <1>4, <1>5, <1>6, <1>9, <2>1, <2>2, <2>3 DEF Given
  <2>5. QED  BY <1>1, <1>8, <2>4, Assign
<1>11. s2.pc.ref = 0 /\ s2.fx = {} /\ s2.ics[ic] = c  BY <1>1, <1>3, <1>8 DEF Fe
<1>12. Same(s2, b) /\ b.fx = {} /\ InTrans(b, ic)  BY <1>1, <1>8, <1>11, BeginTrans
<1> HIDE DEF b
<1>13. Fe(b) /\ Ownership(b, {}) /\ b.ics[ic] = c  BY <1>10, <1>11, <1>12, SameOwnership DEF Same
<1>14. ic \in Live(b)  BY <1>1, <1>4, <1>5, <1>13 DEF Live, Siids, NoSiid
<1>15. Said(b, ic)  BY <1>12 DEF Said
<1>16. Talks(b, p, ic)  BY <1>13, PutTalks
<1> HIDE DEF p
<1>17. Fe(p) /\ p.ics[ic].siid = fe.count  BY <1>1, <1>5, <1>13, <1>16, TalksFe
<1>18. Talks(p, t, ic)  BY <1>1, <1>17, EngineTalks
<1>19. q = End(t) /\ Handle(ic, q)  BY <1>0
<1> HIDE DEF t, q
<1>20. Talks(b, t, ic)  BY <1>1, <1>16, <1>18, TalksTrans
<1>21. /\ Fe(q) /\ Ownership(q, {}) /\ q.pc.ref = 0
       /\ ~q.ics[ic].shared => Said(q, ic)
  BY <1>1, <1>13, <1>12, <1>14, <1>15, <1>19, <1>20, Spoken
<1>22. QED  BY <1>19, <1>21, Handled

\* A new IC of the shared input method mode has the shared instance.
LEMMA CreateShared ==
  ASSUME XInv, NEW l \in Langs, NEW e, ims_create_ic_handler(l, e), fe.shared
  PROVE  XInv'
<1> DEFINE ic == fe.next
           s1 == get_default_instance(Now, l, e)
           c == [NoIC EXCEPT !.siid = s1.def, !.lang = l]
           s2 == AddIC(s1, ic, c)
           b == Begin(s2, ic)
           p == Put(b, ic, "REGISTER", s2.inst[s1.def])
           t == Engine(p, s1.def, e)
           s4 == End(t)
           o == OpenedByDefault(s4, FALSE)
           d == [s4.ics[ic] EXCEPT !.on = o, !.shared = TRUE]
           q == [s4 EXCEPT !.ics[ic].on = o, !.ics[ic].shared = TRUE]
<1>0. fe.next <= MaxIcid /\ (fe.def # NoSiid \/ fe.count < MaxSiid) /\ Handle(ic, q)
  BY DEF ims_create_ic_handler, AddIC
<1>1. /\ ic \in Icids /\ ic + 1 \in 1..(MaxIcid + 1) /\ Fe(Now) /\ Same(fe, Now)
      /\ Now.pc.ref = 0 /\ Ownership(Now, {ic})
  BY <1>0, NextFree
<1>2. Now.def # NoSiid \/ Now.count < MaxSiid  BY <1>0, <1>1 DEF Same
<1>3. Shareable(Now, s1, {ic})  BY <1>1, <1>2, GetDefault
<1> HIDE DEF s1
<1>4. /\ Fe(s1) /\ Ownership(s1, {ic}) /\ s1.next = ic /\ s1.def \in Siids
      /\ s1.def < s1.count /\ s1.inst[s1.def] # NoArg /\ s1.pc.ref = 0
  BY <1>1, <1>3 DEF Shareable, Same
<1>5. c \in ICs /\ c.siid = s1.def /\ c.lang = l  BY <1>4 DEF NoIC, ICs
<1>6. s2 = AddIC(s1, ic, c) /\ s4 = End(t) /\ Handle(ic, q)  BY <1>0 DEF s1
<1> HIDE DEF ic, c, s2
<1>8. Entry(s1, s2, ic, c) /\ s2.next = s1.next + 1  BY <1>1, <1>4, <1>5, <1>6, AddEntry
<1>9. /\ Fe(s2) /\ s2.ics = [s1.ics EXCEPT ![ic] = c] /\ s2.pc = s1.pc
      /\ s2.focus = s1.focus /\ s2.inst = s1.inst
      /\ s2.count = s1.count /\ s2.def = s1.def
  BY <1>8 DEF Entry
<1>10. Ownership(s2, {ic})
  <2>1. c.siid # NoSiid  BY <1>4, <1>5 DEF Siids, NoSiid
  <2>2. s2.next >= s1.next /\ ic < s2.next  BY <1>1, <1>4, <1>8 DEF Icids
  <2>3. QED  BY <1>1, <1>4, <1>9, <2>1, <2>2, Enter
<1>11. s2.pc.ref = 0 /\ s2.ics[ic] = c  BY <1>1, <1>4, <1>9 DEF Fe
<1>12. Same(s2, b) /\ InTrans(b, ic)  BY <1>1, <1>9, <1>11, BeginTrans
<1> HIDE DEF b
<1>13. Fe(b) /\ Ownership(b, {ic})  BY <1>10, <1>12, SameOwnership DEF Same
<1>14. Keeps(b, p)  BY <1>13, PutKeeps
<1> HIDE DEF p
<1>15. Fe(p)  BY <1>14 DEF Keeps
<1>16. Keeps(p, t)  BY <1>15, EngineKeeps
<1> HIDE DEF t
<1>17. Keeps(b, t)  BY <1>14, <1>16, KeepsTrans
<1>18. Fe(t) /\ Ownership(t, {ic}) /\ InTrans(t, ic)
  BY <1>12, <1>13, <1>17, KeepsOwnership, KeepsTransaction DEF Keeps
<1>19. Same(t, s4) /\ s4.pc.ref = 0  BY <1>6, <1>18, EndTrans
<1> HIDE DEF s4
<1>20. Fe(s4) /\ Ownership(s4, {ic})  BY <1>18, <1>19, SameOwnership DEF Same
<1>21. /\ s4.ics[ic].siid = s1.def /\ s4.ics[ic].lang = l /\ s4.def = s1.def
       /\ s4.count = s1.count /\ s4.next = s1.next + 1 /\ s4.inst[s1.def] # NoArg
  BY <1>1, <1>4, <1>5, <1>8, <1>9, <1>11, <1>12, <1>17, <1>19 DEF Same, Keeps
<1>22. s4.ics[ic] \in ICs  BY <1>1, <1>20 DEF Fe
<1>23. o \in BOOLEAN  BY DEF OpenedByDefault
<1> HIDE DEF o
<1>24. d \in ICs  BY <1>22, <1>23 DEF ICs
<1>25. d.siid = s1.def /\ d.lang = l  BY <1>21, <1>22 DEF ICs
<1>26. d.shared  BY <1>22 DEF ICs
<1>27. q = SetIC(s4, ic, d)  BY <1>1, <1>20, <1>22 DEF SetIC, Fe, Fields, ICs
<1> HIDE DEF d, q
<1>28. Entry(s4, q, ic, d) /\ q.next = s4.next  BY <1>1, <1>20, <1>24, <1>27, SetEntry
<1>29. Fe(q) /\ q.ics[ic] = d /\ q.pc.ref = 0  BY <1>1, <1>19, <1>20, <1>28 DEF Entry, Fe
<1>30. Given(s4, q, ic, d)
  <2>1. q.next >= s4.next /\ ic < q.next /\ q.count >= s4.count /\ d.siid < q.count
    BY <1>1, <1>4, <1>20, <1>21, <1>25, <1>28 DEF Entry, Fe, Icids
  <2>2. q.inst[d.siid] # NoArg /\ q.inst = s4.inst  BY <1>21, <1>25, <1>28 DEF Entry
  <2>3. QED  BY <1>4, <1>21, <1>25, <1>26, <1>28, <2>1, <2>2 DEF Given, Entry
<1>31. Ownership(q, {})  BY <1>1, <1>20, <1>29, <1>30, Assign
<1>32. QED  BY <1>6, <1>26, <1>29, <1>31, Handled

LEMMA CreateStep ==
  ASSUME XInv, NEW l \in Langs, NEW e, ims_create_ic_handler(l, e)
  PROVE  XInv'
BY CreateOwn, CreateShared

-----------------------------------------------------------------------------
(* The focus comes to an IC, and perhaps the shared instance with it.      *)

\* From s to t every IC keeps its instance, and no transaction is open at t.
Settled(s, t) ==
  /\ Fe(t) /\ Ownership(t, {}) /\ t.pc.ref = 0 /\ t.next = s.next /\ t.count = s.count
  /\ t.def = s.def /\ t.shared = s.shared
  /\ \A i \in Icids : t.ics[i].siid = s.ics[i].siid /\ t.ics[i].shared = s.ics[i].shared

LEMMA FocusOutSettles ==
  ASSUME XInv, NEW ic, NEW e
  PROVE  Settled(fe, FocusOutOld(Now, ic, e))
<1>1. Fe(fe) /\ Ownership(fe, {}) /\ fe.pc.ref = 0  BY DEF XInv
<1>2. Same(fe, Now) /\ Fe(Now) /\ Now.pc.ref = 0  BY <1>1, NowSame DEF Same
<1>3. Ownership(Now, {})  BY <1>1, <1>2, SameOwnership
<1>4. Now.focus = fe.focus  BY <1>2 DEF Same
<1>5. CASE Now.focus \in {NoIcid, ic}
  <2>1. FocusOutOld(Now, ic, e) = Now  BY <1>5 DEF FocusOutOld
  <2>2. Settled(fe, Now)  BY <1>2, <1>3 DEF Settled, Same
  <2>3. QED  BY <2>1, <2>2
<1>6. CASE Now.focus \notin {NoIcid, ic}
  <2> DEFINE o == fe.focus
             b == Begin(Now, o)
             c == stop_ic(b, o, e)
             t == Put(c, o, "FOCUS_OUT", NoArg)
             r == End(t)
  <2>1. FocusOutOld(Now, ic, e) = r  BY <1>4, <1>6 DEF FocusOutOld
  <2>2. o \in Icids /\ o \in Live(fe)  BY <1>1, <1>4, <1>6 DEF Fe, Ownership, Live
  <2> HIDE DEF o
  <2>3. Fe(b) /\ Ownership(b, {}) /\ InTrans(b, o) /\ o \in Live(b) /\ b.fx = {} /\ Same(fe, b)
    BY <2>2, Begun
  <2> HIDE DEF b
  <2>4. Said(b, o)  BY <2>3 DEF Said
  <2>5. Talks(b, c, o) /\ Fe(c)  BY <2>2, <2>3, StopTalks, TalksFe
  <2> HIDE DEF c
  <2>6. Talks(b, t, o)  BY <2>2, <2>5, PutTalks, TalksTrans
  <2> HIDE DEF t
  <2>7. /\ Fe(r) /\ Ownership(r, {}) /\ r.pc.ref = 0
        /\ r.next = b.next /\ r.count = b.count /\ r.def = b.def /\ r.shared = b.shared
        /\ \A i \in Icids : r.ics[i].siid = b.ics[i].siid /\ r.ics[i].shared = b.ics[i].shared
    BY <2>2, <2>3, <2>4, <2>6, Spoken
  <2> HIDE DEF r
  <2>8. Settled(fe, r)  BY <2>3, <2>7 DEF Settled, Same
  <2>9. QED  BY <2>1, <2>8
<1>7. QED  BY <1>5, <1>6

\* A live IC in its transaction; what it has said so far, if it does not share.
Speaking(s, ic) ==
  /\ Fe(s) /\ Ownership(s, {}) /\ InTrans(s, ic) /\ ic \in Live(s)
  /\ ~s.ics[ic].shared => Said(s, ic)

LEMMA JoinSpeaks ==
  ASSUME NEW ic \in Icids, NEW s, Speaking(s, ic), NEW e, s.def # NoSiid \/ s.count < MaxSiid
  PROVE  Speaking(JoinShared(s, ic, e), ic)
<1> DEFINE a == IF s.ics[ic].shared THEN s ELSE delete_instance(s, s.ics[ic].siid, e)
           l == s.ics[ic].lang
           b == get_default_instance(a, l, e)
           o == OpenedByDefault(b, b.ics[ic].on)
           c == [b.ics[ic] EXCEPT !.shared = TRUE, !.siid = b.def, !.on = o]
           q == [b EXCEPT !.ics[ic].shared = TRUE, !.ics[ic].siid = b.def,
                          !.ics[ic].on = OpenedByDefault(b, @)]
<1>1. JoinShared(s, ic, e) = q  BY DEF JoinShared
<1>2. Fe(s) /\ Ownership(s, {}) /\ InTrans(s, ic) /\ ic \in Live(s)  BY DEF Speaking
<1>3. l \in Langs /\ ic < s.next
  <2>1. Served(s, ic)  BY <1>2 DEF Ownership
  <2>2. s.ics[ic].siid # NoSiid /\ s.next \in Int /\ ic \in Int  BY <1>2 DEF Live, Fe, Icids
  <2>3. ~(ic >= s.next)  BY <1>2, <2>2 DEF Ownership
  <2>4. QED  BY <2>1, <2>2, <2>3 DEF Served
<1>4. /\ Fe(a) /\ Ownership(a, {ic}) /\ InTrans(a, ic) /\ a.next = s.next /\ a.def = s.def
      /\ a.count = s.count /\ a.ics[ic].lang = l
  <2>1. CASE s.ics[ic].shared
    <3>1. Ownership(s, {ic})  BY <1>2, <2>1, GiveUpShared
    <3>2. QED  BY <1>2, <2>1, <3>1
  <2>2. CASE ~s.ics[ic].shared
    <3>1. a = delete_instance(s, s.ics[ic].siid, e)  BY <2>2
    <3> HIDE DEF a
    <3>2. GivenUp(s, a, ic)  BY <1>2, <2>2, <3>1, GiveUpOwn
    <3>3. QED  BY <1>2, <3>2 DEF GivenUp, InTrans
  <2>3. QED  BY <2>1, <2>2
<1> HIDE DEF a, l
<1>5. Shareable(a, b, {ic})  BY <1>3, <1>4, GetDefault
<1> HIDE DEF b
<1>6. /\ Fe(b) /\ Ownership(b, {ic}) /\ InTrans(b, ic) /\ b.next = s.next /\ b.def \in Siids
      /\ b.def < b.count /\ b.inst[b.def] # NoArg /\ b.ics[ic].lang = l
  BY <1>4, <1>5 DEF Shareable, InTrans
<1>7. b.ics[ic] \in ICs  BY <1>6 DEF Fe
<1>8. o \in BOOLEAN
  <2>1. b.ics[ic].on \in BOOLEAN  BY <1>7 DEF ICs
  <2>2. QED  BY <2>1 DEF OpenedByDefault
<1>9. q = [b EXCEPT !.ics = [b.ics EXCEPT ![ic] = c]]  BY ZenonT(40), <1>6, <1>7 DEF Fe, Fields, ICs
<1> HIDE DEF o
<1>10. c \in ICs  BY <1>6, <1>7, <1>8 DEF ICs
<1>11. c.siid = b.def /\ c.lang = l  BY <1>6, <1>7 DEF ICs
<1>12. c.shared  BY <1>7 DEF ICs
<1>13. q = SetIC(b, ic, c)  BY <1>9 DEF SetIC
<1> HIDE DEF c, q
<1>14. Entry(b, q, ic, c) /\ q.next = b.next  BY <1>6, <1>10, <1>13, SetEntry
<1>15. Fe(q) /\ q.ics[ic] = c /\ InTrans(q, ic)  BY <1>6, <1>14 DEF Entry, Fe, InTrans
<1>16. Given(b, q, ic, c)
  <2>1. q.next >= b.next /\ ic < q.next /\ q.count >= b.count /\ c.siid < q.count
    BY <1>3, <1>6, <1>11, <1>14 DEF Entry, Fe
  <2>2. q.inst[c.siid] # NoArg /\ q.inst = b.inst  BY <1>6, <1>11, <1>14 DEF Entry
  <2>3. QED  BY <1>3, <1>6, <1>11, <1>12, <1>14, <2>1, <2>2 DEF Given, Entry
<1>17. Ownership(q, {})  BY <1>6, <1>15, <1>16, Assign
<1>18. ic \in Live(q)  BY <1>6, <1>11, <1>15 DEF Live, Siids, NoSiid
<1>19. QED  BY <1>1, <1>12, <1>15, <1>17, <1>18 DEF Speaking

LEMMA LeaveSpeaks ==
  ASSUME NEW ic \in Icids, NEW s, Speaking(s, ic), s.ics[ic].shared, s.fx = {},
         s.count < MaxSiid
  PROVE  Speaking(LeaveShared(s, ic), ic)
<1> DEFINE l == s.ics[ic].lang
           u == s.deff[l]
           b == new_instance(s, u)
           c == [b.ics[ic] EXCEPT !.siid = s.count, !.shared = FALSE]
           q == [b EXCEPT !.ics[ic].siid = s.count, !.ics[ic].shared = FALSE]
<1>1. LeaveShared(s, ic) = q  BY DEF LeaveShared
<1>2. Fe(s) /\ Ownership(s, {}) /\ InTrans(s, ic) /\ ic \in Live(s)  BY DEF Speaking
<1>3. l \in Langs /\ ic < s.next
  <2>1. Served(s, ic)  BY <1>2 DEF Ownership
  <2>2. s.ics[ic].siid # NoSiid /\ s.next \in Int /\ ic \in Int  BY <1>2 DEF Live, Fe, Icids
  <2>3. ~(ic >= s.next)  BY <1>2, <2>2 DEF Ownership
  <2>4. QED  BY <2>1, <2>2, <2>3 DEF Served
<1>4. u \in Uuids /\ u # NoArg  BY <1>2, <1>3, X11Assumption DEF Fe
<1>5. s.ics[ic].lang = l  OBVIOUS
<1> HIDE DEF u, l
<1>6. /\ Fe(b) /\ b.ics = s.ics /\ b.pc = s.pc /\ b.fx = s.fx /\ b.next = s.next
      /\ b.focus = s.focus /\ b.def = s.def
      /\ b.count = s.count + 1 /\ s.count \in Siids /\ b.inst[s.count] = u
      /\ \A k \in Siids : k # s.count => b.inst[k] = s.inst[k]
  BY <1>2, <1>4, NewInstance
<1>7. Ownership(s, {ic})  BY <1>2, GiveUpShared
<1> HIDE DEF b
<1>8. b.ics[ic] \in ICs  BY <1>6 DEF Fe
<1>9. c \in ICs  BY <1>6, <1>8 DEF ICs
<1>10. c.siid = s.count /\ c.lang = l  BY <1>5, <1>6, <1>8 DEF ICs
<1>11. ~c.shared  BY <1>8 DEF ICs
<1>12. q = SetIC(b, ic, c)  BY ZenonT(40), <1>6, <1>8 DEF SetIC, Fe, Fields, ICs
<1> HIDE DEF c, q
<1>13. Entry(b, q, ic, c) /\ q.next = b.next  BY <1>6, <1>9, <1>12, SetEntry
<1>14. Fe(q) /\ q.ics[ic] = c /\ InTrans(q, ic) /\ q.fx = {}
  BY <1>2, <1>6, <1>13 DEF Entry, Fe, InTrans
<1>15. Given(s, q, ic, c)
  <2>1. q.next >= s.next /\ ic < q.next /\ q.count >= s.count /\ c.siid < q.count
        /\ c.siid >= s.count
    BY <1>2, <1>3, <1>6, <1>10, <1>13 DEF Entry, Fe
  <2>2. q.inst[c.siid] # NoArg /\ \A k \in Siids : k # c.siid => q.inst[k] = s.inst[k]
    BY <1>4, <1>6, <1>10, <1>13 DEF Entry
  <2>3. q.ics = [s.ics EXCEPT ![ic] = c] /\ q.focus = s.focus /\ q.def = s.def
    BY <1>6, <1>13 DEF Entry
  <2>4. QED  BY <1>3, <1>6, <1>10, <1>11, <2>1, <2>2, <2>3 DEF Given
<1>16. Ownership(q, {})  BY <1>2, <1>7, <1>14, <1>15, Assign
<1>17. ic \in Live(q)  BY <1>6, <1>10, <1>14 DEF Live, Siids, NoSiid
<1>18. Said(q, ic)  BY <1>14 DEF Said
<1>19. QED  BY <1>1, <1>14, <1>16, <1>17, <1>18 DEF Speaking

LEMMA FocusStep ==
  ASSUME XInv, NEW ic \in Icids, NEW e, ims_set_ic_focus_handler(ic, e)
  PROVE  XInv'
<1> DEFINE s9 == FocusOutOld(Now, ic, e)
           s0 == [s9 EXCEPT !.focus = ic, !.fx = {}]
           s1 == Begin(s0, ic)
           s2 == IF fe.shared THEN JoinShared(s1, ic, e)
                 ELSE IF fe.ics[ic].shared THEN LeaveShared(s1, ic) ELSE s1
           siid == s2.ics[ic].siid
           s3 == panel_req_focus_in(s2, ic)
           e3 == Engine(s3, siid, e)
           p3 == Put(e3, ic, "REGISTER", s3.inst[siid])
           s4 == IF fe.shared \/ fe.ics[ic].shared THEN p3 ELSE s3
           u4 == update_factory_info(s4, ic)
           s5 == IF s4.ics[ic].on THEN start_ic(s4, ic, e)
                 ELSE Put(u4, ic, "TURN_OFF", NoArg)
<1>1. /\ ic \in Live(fe) /\ Handle(ic, End(s5))
      /\ (fe.shared /\ fe.def # NoSiid) \/ ~(fe.shared \/ fe.ics[ic].shared)
           \/ fe.count < MaxSiid
  BY DEF ims_set_ic_focus_handler
<1>2. Settled(fe, s9)  BY FocusOutSettles
<1> HIDE DEF s9
<1>3. Fe(s9) /\ Ownership(s9, {}) /\ s9.pc.ref = 0 /\ s9.ics[ic].siid # NoSiid
  BY <1>1, <1>2 DEF Settled, Live
<1>4. Refocused(s9, s0, ic) /\ s0.fx = {}  BY <1>3 DEF Fe, Fields, Refocused
<1> HIDE DEF s0
<1>5. Fe(s0) /\ Ownership(s0, {})  BY <1>3, <1>4, Refocus
<1>6. s0.pc.ref = 0  BY <1>3, <1>4 DEF Refocused
<1>7. Same(s0, s1) /\ s1.fx = {} /\ InTrans(s1, ic)  BY <1>4, <1>5, <1>6, BeginTrans
<1> HIDE DEF s1
<1>8. Fe(s1) /\ Ownership(s1, {}) /\ s1.ics = s9.ics /\ s1.def = fe.def /\ s1.count = fe.count
      /\ s1.ics[ic].shared = fe.ics[ic].shared
  BY <1>2, <1>4, <1>5, <1>7, SameOwnership DEF Same, Refocused, Settled
<1>9. Speaking(s1, ic)
  <2>1. ic \in Live(s1)  BY <1>3, <1>8 DEF Live
  <2>2. Said(s1, ic)  BY <1>7 DEF Said
  <2>3. QED  BY <1>7, <1>8, <2>1, <2>2 DEF Speaking
<1>10. Speaking(s2, ic)
  <2>1. CASE fe.shared  BY <1>1, <1>8, <1>9, <2>1, JoinSpeaks
  <2>2. CASE ~fe.shared /\ fe.ics[ic].shared
    <3>1. s1.count < MaxSiid /\ s1.ics[ic].shared  BY <1>1, <1>8, <2>2
    <3>2. QED  BY <1>7, <1>9, <2>2, <3>1, LeaveSpeaks
  <2>3. CASE ~fe.shared /\ ~fe.ics[ic].shared  BY <1>9, <2>3
  <2>4. QED  BY <2>1, <2>2, <2>3
<1> HIDE DEF s2
<1>11. Fe(s2)  BY <1>10 DEF Speaking
<1>12. Talks(s2, s3, ic)  BY <1>11, PutTalks DEF panel_req_focus_in
<1> HIDE DEF s3
<1>13. Fe(s3) /\ s3.ics[ic].siid = siid  BY <1>12, TalksFe
<1>14. Talks(s3, e3, ic)  BY <1>13, EngineTalks
<1> HIDE DEF e3, siid
<1>15. Fe(e3)  BY <1>14, TalksFe
<1>16. Talks(e3, p3, ic)  BY <1>15, PutTalks
<1> HIDE DEF p3
<1>17. Talks(s2, p3, ic)  BY <1>12, <1>14, <1>16, TalksTrans
<1>18. Talks(s2, s4, ic)  BY <1>12, <1>17
<1> HIDE DEF s4
<1>19. Fe(s4)  BY <1>18, TalksFe
<1>20. Talks(s4, start_ic(s4, ic, e), ic)  BY <1>19, StartTalks
<1>21. Talks(s4, u4, ic) /\ Fe(u4)  BY <1>19, UpdateTalks, TalksFe
<1> HIDE DEF u4
<1>22. Talks(s4, Put(u4, ic, "TURN_OFF", NoArg), ic)  BY <1>21, PutTalks, TalksTrans
<1>23. Talks(s4, s5, ic)  BY <1>20, <1>22
<1>24. Handle(ic, End(s5))  BY <1>1 DEF s9, s0, s1, s2, siid, s3, e3, p3, s4, u4
<1> HIDE DEF s5
<1>25. Talks(s2, s5, ic)  BY <1>18, <1>23, TalksTrans
<1>26. /\ Fe(End(s5)) /\ Ownership(End(s5), {}) /\ End(s5).pc.ref = 0
       /\ ~End(s5).ics[ic].shared => Said(End(s5), ic)
  BY <1>10, <1>25, Spoken DEF Speaking
<1>27. QED  BY <1>24, <1>26, Handled

-----------------------------------------------------------------------------
(* The mode, the panel and the connection; and the theorems.               *)

LEMMA ReloadStep ==
  ASSUME XInv, reload_config_callback
  PROVE  XInv'
<1> DEFINE q == [Now EXCEPT !.shared = ~@]
<1>1. Handle(NoIcid, q)  BY DEF reload_config_callback
<1>2. Fe(fe) /\ Ownership(fe, {}) /\ fe.pc.ref = 0  BY DEF XInv
<1>3. Same(fe, Now) /\ Fe(Now) /\ Now.pc.ref = 0  BY <1>2, NowSame DEF Same
<1>4. Ownership(Now, {})  BY <1>2, <1>3, SameOwnership
<1>5. /\ DOMAIN q = Fields /\ q.ics = Now.ics /\ q.pc = Now.pc /\ q.next = Now.next
      /\ q.focus = Now.focus /\ q.inst = Now.inst /\ q.count = Now.count /\ q.def = Now.def
      /\ q.deff = Now.deff /\ q.opened = Now.opened
  BY <1>3 DEF Fe, Fields
<1> HIDE DEF q
<1>6. Fe(q)  BY <1>3, <1>5 DEF Fe
<1>7. Live(q) = Live(Now) /\ \A i : Served(q, i) <=> Served(Now, i)  BY <1>5 DEF Live, Served
<1>8. Ownership(q, {})  BY <1>4, <1>5, <1>7 DEF Ownership
<1>9. NoIcid \notin Live(q)  BY DEF Live, Icids, NoIcid
<1>10. QED  BY <1>1, <1>3, <1>5, <1>6, <1>8, <1>9, Handled

\* Only the client changes, and no handler runs.
LEMMA ClientStep ==
  ASSUME XInv, NEW p, DOMAIN p = {"up", "ref", "cur", "trans", "wire"}, p.ref = 0,
         p.cur \in Icids \cup {NoIcid}, fe' = [Now EXCEPT !.pc = p]
  PROVE  XInv'
<1>1. Fe(fe) /\ Ownership(fe, {})  BY DEF XInv
<1>2. Same(fe, Now) /\ Fe(Now) /\ Now.by = NoIcid  BY <1>1, NowSame DEF Same
<1>3. /\ DOMAIN fe' = Fields /\ fe'.ics = Now.ics /\ fe'.pc = p /\ fe'.by = NoIcid
      /\ fe'.next = Now.next /\ fe'.focus = Now.focus /\ fe'.inst = Now.inst
      /\ fe'.count = Now.count /\ fe'.def = Now.def /\ fe'.deff = Now.deff
      /\ fe'.shared = Now.shared /\ fe'.opened = Now.opened
  BY <1>2 DEF Fe, Fields
<1>4. Same(fe, fe')  BY <1>2, <1>3 DEF Same, Fe
<1>5. Fe(fe') /\ Ownership(fe', {})  BY <1>1, <1>4, SameOwnership DEF Same
<1>6. Directed'  BY <1>3 DEF Directed, Live, Icids, NoIcid
<1>7. Fe(fe)' /\ Ownership(fe, {})'  BY <1>5 DEF Fe, Ownership, Live, Served
<1>8. QED  BY <1>3, <1>6, <1>7 DEF XInv

LEMMA PanelStep ==
  ASSUME XInv, PanelReads \/ PanelCrashes \/ \E ok \in BOOLEAN : run_reconnect(ok)
  PROVE  XInv'
<1>1. Fe(fe) /\ fe.pc.ref = 0  BY DEF XInv
<1>2. Fe(Now) /\ Now.pc = fe.pc  BY <1>1, NowSame DEF Same
<1>3. ASSUME fe' = [Now EXCEPT !.pc.wire = <<>>]  PROVE XInv'
  <2> DEFINE p == [fe.pc EXCEPT !.wire = <<>>]
  <2>1. fe' = [Now EXCEPT !.pc = p]  BY <1>2, <1>3 DEF Fe, Fields
  <2>2. /\ DOMAIN p = {"up", "ref", "cur", "trans", "wire"} /\ p.ref = 0
        /\ p.cur \in Icids \cup {NoIcid}
    BY <1>1 DEF Fe
  <2> HIDE DEF p
  <2>3. QED  BY <2>1, <2>2, ClientStep
<1>4. ASSUME NEW ok \in BOOLEAN, run_reconnect(ok)  PROVE XInv'
  <2> DEFINE p == open_connection(fe.pc, ok)
  <2>1. fe' = [Now EXCEPT !.pc = p]  BY <1>2, <1>4 DEF run_reconnect, Fe, Fields
  <2>2. /\ DOMAIN p = {"up", "ref", "cur", "trans", "wire"} /\ p.ref = 0
        /\ p.cur \in Icids \cup {NoIcid}
    BY <1>1 DEF Fe, open_connection, close_connection
  <2> HIDE DEF p
  <2>3. QED  BY <2>1, <2>2, ClientStep
<1>5. QED  BY <1>3, <1>4 DEF PanelReads, PanelCrashes

LEMMA XInvInit == Init => XInv
<1> SUFFICES ASSUME Init PROVE XInv  OBVIOUS
<1>1. PICK shared \in BOOLEAN, u \in Uuids :
       fe = [ics |-> [i \in Icids |-> NoIC], next |-> 1, focus |-> NoIcid,
             inst |-> [i \in Siids |-> NoArg], count |-> 0, def |-> NoSiid,
             deff |-> [l \in Langs |-> u], shared |-> shared, opened |-> "unset",
             pc |-> open_connection(NewClient, TRUE), by |-> NoIcid, fx |-> {}]
  BY DEF Init
<1> DEFINE p == open_connection(NewClient, TRUE)
<1>2. DOMAIN p = {"up", "ref", "cur", "trans", "wire"} /\ p.ref = 0 /\ p.cur = NoIcid
  BY DEF open_connection, close_connection, NewClient
<1> HIDE DEF p
<1>3. /\ DOMAIN fe = Fields /\ fe.ics = [i \in Icids |-> NoIC] /\ fe.next = 1
      /\ fe.focus = NoIcid /\ fe.inst = [i \in Siids |-> NoArg] /\ fe.count = 0
      /\ fe.def = NoSiid /\ fe.deff = [l \in Langs |-> u] /\ fe.opened = "unset"
      /\ fe.pc = p /\ fe.by = NoIcid /\ fe.fx = {}
  BY <1>1 DEF Fields, p
<1>4. NoIC \in ICs /\ NoIC.siid = NoSiid  BY DEF NoIC, ICs
<1>5. fe.count \in 0..MaxSiid /\ fe.next \in 1..(MaxIcid + 1)  BY <1>3, X11Assumption
<1>6. Fe(fe)  BY <1>2, <1>3, <1>4, <1>5 DEF Fe
<1>7. \A i \in Icids : fe.ics[i].siid = NoSiid  BY <1>3, <1>4
<1>8. Live(fe) = {}  BY <1>7 DEF Live
<1>9. Ownership(fe, {})  BY <1>3, <1>7, <1>8 DEF Ownership
<1>10. QED  BY <1>2, <1>3, <1>6, <1>8, <1>9 DEF XInv, Directed

LEMMA XInvNext == XInv /\ [Next]_vars => XInv'
<1> SUFFICES ASSUME XInv, [Next]_vars PROVE XInv'  OBVIOUS
<1>1. CASE Xim  BY <1>1, CreateStep, SetValuesStep, DestroyStep, UnsetStep, FocusStep,
                   TriggerStep DEF Xim
<1>2. CASE FromPanel  BY <1>2, CallStep, KeyStep, ChangeFactoryStep DEF FromPanel
<1>3. CASE reload_config_callback  BY <1>3, ReloadStep
<1>4. CASE PanelReads \/ PanelCrashes \/ \E ok \in BOOLEAN : run_reconnect(ok)
  BY <1>4, PanelStep
<1>5. CASE UNCHANGED vars
  BY <1>5 DEF vars, XInv, Fe, Ownership, Live, Served, Directed
<1>6. QED  BY <1>1, <1>2, <1>3, <1>4, <1>5 DEF Next

LEMMA XInvAlways == Spec => []XInv
BY XInvInit, XInvNext, PTL DEF Spec

\* The ICs, the instances and the client keep their types, and m_focus_ic is an
\* IC that exists, in every handler's outcome.
THEOREM X11Types == Spec => []TypeOK
<1>1. XInv => TypeOK  BY DEF XInv, Fe, Ownership, Live, TypeOK
<1>2. QED  BY <1>1, XInvAlways, PTL

\* No instance leaks and none is used after its deletion: whatever the shared
\* input method mode was when an IC was created, focused or destroyed.
THEOREM EveryInstanceOwned == Spec => []InstancesOwned
<1>1. XInv => InstancesOwned
  <2> SUFFICES ASSUME XInv PROVE InstancesOwned  OBVIOUS
  <2>1. Ownership(fe, {})  BY DEF XInv
  <2>2. Live(fe) \ {} = Live(fe)  OBVIOUS
  <2>3. QED  BY <2>1, <2>2 DEF Ownership, Served, InstancesOwned
<1>2. QED  BY <1>1, XInvAlways, PTL

\* Every command of a handler for an IC with an instance of its own is put in the
\* transaction of this IC.
THEOREM EverythingDirected == Spec => []Directed
<1>1. XInv => Directed  BY DEF XInv
<1>2. QED  BY <1>1, XInvAlways, PTL

-----------------------------------------------------------------------------
(* What the panel makes of a sequence of commands.  FoldLeft is a function *)
(* chosen to satisfy a recursive equation on the subsets of the indices;   *)
(* it is shown to do so by induction on the number of commands read (Least *)
(* and SetInduction, from the well-foundedness of Nat).                    *)

LEMMA Least ==
  ASSUME NEW T \in SUBSET Nat, T # {}
  PROVE  \E n \in T : \A m \in T : n <= m
<1> DEFINE R == {ss \in Nat \X Nat : ss[1] < ss[2]}
<1>1. IsWellFoundedOn(R, Nat)
  BY NatLessThanWellFounded DEF OpToRel
<1>2. \A m, n \in Nat : m < n => <<m, n>> \in R
  OBVIOUS
<1> HIDE DEF R
<1>3. PICK n \in T : \A m \in T : <<m, n>> \notin R
  BY <1>1, WFMin
<1>4. \A m \in T : ~(m < n)
  BY <1>2, <1>3
<1> QED  BY <1>4

LEMMA SetInduction ==
  ASSUME NEW T \in SUBSET Nat, 0 \in T, \A n \in T : n + 1 \in T
  PROVE  \A n \in Nat : n \in T
<1> DEFINE U == Nat \ T
<1> SUFFICES ASSUME U # {} PROVE FALSE
  OBVIOUS
<1>1. U \in SUBSET Nat
  OBVIOUS
<1> HIDE DEF U
<1>2. PICK n \in U : \A m \in U : n <= m
  BY <1>1, Least
<1>3. n # 0 /\ n - 1 \in Nat
  BY DEF U
<1> QED  BY <1>2, <1>3 DEF U

Unfold(p, s, D, f) ==
  [S \in SUBSET D |-> IF S = {} THEN p ELSE Apply(f[S \ {Max(S)}], s[Max(S)])]

Fold(p, s, D) == CHOOSE f : f = Unfold(p, s, D, f)

LEMMA FoldDef ==
  ASSUME NEW p, NEW s
  PROVE  FoldLeft(Apply, p, s) = Fold(p, s, DOMAIN s)[DOMAIN s]
BY DEF FoldLeft, MapThenFoldSet, Unfold, Fold

LEMMA MaxOfLast ==
  ASSUME NEW k \in Nat, NEW S \in SUBSET (1..k+1), k + 1 \in S
  PROVE  Max(S) = k + 1 /\ S \ {k + 1} \in SUBSET (1..k)
<1>1. \A y \in S : y \in Int /\ y <= k + 1
  OBVIOUS
<1>2. \A x \in S : (\A y \in S : x >= y) <=> x = k + 1
  BY <1>1
<1>3. Max(S) = CHOOSE x \in S : \A y \in S : x >= y
  BY DEF Max
<1>4. Max(S) \in S /\ \A y \in S : Max(S) >= y
  BY <1>2, <1>3
<1>5. Max(S) = k + 1
  BY <1>2, <1>4
<1> QED  BY <1>5

LEMMA FoldExists ==
  ASSUME NEW p, NEW s, NEW n \in Nat
  PROVE  \E f : f = Unfold(p, s, 1..n, f)
<1> DEFINE T == {k \in Nat : \E f : f = Unfold(p, s, 1..k, f)}
<1>1. 0 \in T
  <2> DEFINE f == [S \in SUBSET (1..0) |-> p]
  <2>1. SUBSET (1..0) = {{}}
    OBVIOUS
  <2>2. f = Unfold(p, s, 1..0, f)
    BY <2>1 DEF Unfold
  <2> QED
    BY <2>2
<1>2. \A k \in T : k + 1 \in T
  <2> SUFFICES ASSUME NEW k \in T PROVE k + 1 \in T
    OBVIOUS
  <2>1. PICK f : f = Unfold(p, s, 1..k, f)
    OBVIOUS
  <2> DEFINE g == [S \in SUBSET (1..k+1) |->
                     IF k + 1 \in S THEN Apply(f[S \ {k + 1}], s[k + 1]) ELSE f[S]]
             h == Unfold(p, s, 1..k+1, g)
  <2>2. \A S \in SUBSET (1..k+1) : g[S] = h[S]
    <3> SUFFICES ASSUME NEW S \in SUBSET (1..k+1) PROVE g[S] = h[S]
      OBVIOUS
    <3>1. CASE k + 1 \in S
      <4>1. Max(S) = k + 1 /\ S \ {k + 1} \in SUBSET (1..k)
        BY <3>1, MaxOfLast
      <4>2. g[S \ {k + 1}] = f[S \ {k + 1}]
        BY <4>1
      <4> QED
        BY <3>1, <4>1, <4>2 DEF Unfold
    <3>2. CASE k + 1 \notin S
      <4>1. S \in SUBSET (1..k)
        BY <3>2
      <4>2. CASE S = {}
        BY <2>1, <3>2, <4>1, <4>2 DEF Unfold
      <4>3. CASE S # {}
        <5> DEFINE R == S \ {Max(S)}
        <5>1. R \in SUBSET (1..k) /\ k + 1 \notin R
          BY <3>2, <4>1
        <5> HIDE DEF R
        <5>2. g[R] = f[R]
          BY <5>1
        <5>3. f[S] = Apply(f[R], s[Max(S)])
          BY <2>1, <4>1, <4>3 DEF Unfold, R
        <5>4. h[S] = Apply(g[R], s[Max(S)])
          BY <4>3 DEF Unfold, R
        <5> QED
          BY <3>2, <5>2, <5>3, <5>4
      <4> QED
        BY <4>2, <4>3
    <3> QED
      BY <3>1, <3>2
  <2>3. g = h
    BY <2>2 DEF Unfold
  <2> QED
    BY <2>3
<1> HIDE DEF T
<1>3. T \in SUBSET Nat
  BY DEF T
<1>4. n \in T
  BY <1>1, <1>2, <1>3, SetInduction
<1> QED  BY <1>4 DEF T

LEMMA FoldIs ==
  ASSUME NEW p, NEW s, NEW n \in Nat
  PROVE  /\ Fold(p, s, 1..n) = Unfold(p, s, 1..n, Fold(p, s, 1..n))
         /\ Fold(p, s, 1..n)[{}] = p
         /\ \A k \in 0..n-1 : Fold(p, s, 1..n)[1..k+1] = Apply(Fold(p, s, 1..n)[1..k], s[k + 1])
<1>1. Fold(p, s, 1..n) = Unfold(p, s, 1..n, Fold(p, s, 1..n))
  BY FoldExists DEF Fold
<1> DEFINE f == Fold(p, s, 1..n)
<1> HIDE DEF f
<1>2. f[{}] = p
  BY <1>1 DEF Unfold, f
<1>3. \A k \in 0..n-1 : f[1..k+1] = Apply(f[1..k], s[k + 1])
  <2> SUFFICES ASSUME NEW k \in 0..n-1 PROVE f[1..k+1] = Apply(f[1..k], s[k + 1])
    OBVIOUS
  <2> DEFINE S == 1..k+1
  <2>1. S \in SUBSET (1..k+1) /\ k + 1 \in S /\ k \in Nat /\ S # {} /\ S \in SUBSET (1..n)
    BY SMTT(30)
  <2>2. S \ {k + 1} = 1..k
    OBVIOUS
  <2> HIDE DEF S
  <2>3. Max(S) = k + 1
    BY <2>1, MaxOfLast
  <2>4. f[S] = Apply(f[S \ {Max(S)}], s[Max(S)])
    BY <1>1, <2>1 DEF Unfold, f
  <2> QED
    BY <2>2, <2>3, <2>4 DEF S
<1> QED  BY <1>1, <1>2, <1>3 DEF f

LEMMA FoldSame ==
  ASSUME NEW p, NEW s, NEW t, NEW m \in Nat, NEW n \in Nat, \A k \in 1..m : s[k] = t[k], m <= n
  PROVE  Fold(p, s, 1..m)[1..m] = Fold(p, t, 1..n)[1..m]
<1> DEFINE f == Fold(p, s, 1..m)
           g == Fold(p, t, 1..n)
           T == {k \in Nat : k <= m => f[1..k] = g[1..k]}
<1>1. f[{}] = p /\ g[{}] = p
  BY FoldIs
<1>2. /\ \A k \in 0..m-1 : f[1..k+1] = Apply(f[1..k], s[k + 1])
      /\ \A k \in 0..n-1 : g[1..k+1] = Apply(g[1..k], t[k + 1])
  BY FoldIs
<1> HIDE DEF f, g
<1>3. 0 \in T
  BY <1>1
<1>4. \A k \in T : k + 1 \in T
  <2> SUFFICES ASSUME NEW k \in T, k + 1 <= m PROVE f[1..k+1] = g[1..k+1]
    OBVIOUS
  <2>1. k \in 0..m-1 /\ k \in 0..n-1 /\ k + 1 \in 1..m /\ f[1..k] = g[1..k]
    OBVIOUS
  <2>2. s[k + 1] = t[k + 1]
    BY <2>1
  <2> QED
    BY <1>2, <2>1, <2>2
<1>5. T \in SUBSET Nat
  OBVIOUS
<1> HIDE DEF T
<1>6. m \in T
  BY <1>3, <1>4, <1>5, SetInduction
<1> QED  BY <1>6 DEF T, f, g

\* Reading nothing, and reading one command more.
LEMMA ReadNothing ==
  ASSUME NEW p
  PROVE  FoldLeft(Apply, p, <<>>) = p
<1>1. DOMAIN <<>> = 1..0 /\ 1..0 = {}
  OBVIOUS
<1>2. Fold(p, <<>>, 1..0)[{}] = p
  BY FoldIs
<1> QED  BY <1>1, <1>2, FoldDef

LEMMA ReadOneMore ==
  ASSUME NEW p, NEW C, NEW s \in Seq(C), NEW m \in C
  PROVE  FoldLeft(Apply, p, Append(s, m)) = Apply(FoldLeft(Apply, p, s), m)
<1> DEFINE t == Append(s, m)
           n == Len(s)
<1>1. /\ t \in Seq(C) /\ n \in Nat /\ Len(t) = n + 1 /\ DOMAIN s = 1..n /\ DOMAIN t = 1..n+1
      /\ t[n + 1] = m /\ \A k \in 1..n : s[k] = t[k]
  OBVIOUS
<1> HIDE DEF t, n
<1>2. FoldLeft(Apply, p, s) = Fold(p, s, 1..n)[1..n]
  BY <1>1, FoldDef
<1>3. FoldLeft(Apply, p, t) = Fold(p, t, 1..n+1)[1..n+1]
  BY <1>1, FoldDef
<1>4. Fold(p, s, 1..n)[1..n] = Fold(p, t, 1..n+1)[1..n]
  <2>1. n + 1 \in Nat /\ n <= n + 1
    BY <1>1
  <2> QED
    BY <1>1, <2>1, FoldSame
<1>5. Fold(p, t, 1..n+1)[1..n+1] = Apply(Fold(p, t, 1..n+1)[1..n], t[n + 1])
  BY <1>1, FoldIs
<1> QED  BY <1>1, <1>2, <1>3, <1>4, <1>5 DEF t

IsSeq(x) == \E C : x \in Seq(C)

LEMMA Appended ==
  ASSUME NEW x, IsSeq(x), NEW m
  PROVE  IsSeq(Append(x, m))
<1>1. PICK C : x \in Seq(C)
  BY DEF IsSeq
<1> DEFINE D == C \cup {m}
<1>2. x \in Seq(D) /\ m \in D
  BY <1>1
<1> HIDE DEF D
<1>3. Append(x, m) \in Seq(D)
  BY <1>2
<1> QED  BY <1>3 DEF IsSeq

LEMMA Joined ==
  ASSUME NEW x, IsSeq(x), NEW y, IsSeq(y)
  PROVE  /\ IsSeq(x \o y) /\ Len(x \o y) = Len(x) + Len(y) /\ Len(x) \in Nat /\ Len(y) \in Nat
         /\ \A k \in 1..Len(x) + Len(y) : (x \o y)[k] = IF k <= Len(x) THEN x[k] ELSE y[k - Len(x)]
<1>1. PICK C : x \in Seq(C)
  BY DEF IsSeq
<1>2. PICK D : y \in Seq(D)
  BY DEF IsSeq
<1> DEFINE E == C \cup D
<1>3. x \in Seq(E) /\ y \in Seq(E)
  BY <1>1, <1>2
<1> HIDE DEF E
<1>4. x \o y \in Seq(E)
  BY <1>3
<1>5. Len(x \o y) = Len(x) + Len(y) /\ Len(x) \in Nat /\ Len(y) \in Nat
  BY <1>3
<1>6. \A k \in 1..Len(x) + Len(y) : (x \o y)[k] = IF k <= Len(x) THEN x[k] ELSE y[k - Len(x)]
  BY <1>3
<1> QED  BY <1>4, <1>5, <1>6 DEF IsSeq

LEMMA ThenOne ==
  ASSUME NEW x, IsSeq(x), NEW y, IsSeq(y), NEW m
  PROVE  x \o Append(y, m) = Append(x \o y, m)
<1>1. PICK C : x \in Seq(C)
  BY DEF IsSeq
<1>2. PICK D : y \in Seq(D)
  BY DEF IsSeq
<1> DEFINE E == C \cup D \cup {m}
<1>3. x \in Seq(E) /\ y \in Seq(E) /\ m \in E
  BY <1>1, <1>2
<1> HIDE DEF E
<1> QED  BY <1>3

\* The part of w behind its first n elements.
Behind(w, n) == SubSeq(w, n + 1, Len(w))

LEMMA BehindAll ==
  ASSUME NEW w, IsSeq(w), NEW n \in 0..Len(w)
  PROVE  /\ IsSeq(Behind(w, n)) /\ Len(Behind(w, n)) = Len(w) - n
         /\ \A k \in 1..Len(w) - n : Behind(w, n)[k] = w[n + k]
<1>1. PICK C : w \in Seq(C)  BY DEF IsSeq
<1> DEFINE a == Len(w)
<1>2. a \in Nat /\ n \in 0..a /\ \A k \in 1..a : w[k] \in C
  BY <1>1
<1> DEFINE x == [k \in 1..a - n |-> w[n + k]]
<1>3. Behind(w, n) = x
  <2>1. Behind(w, n) = [k \in 1..a - (n + 1) + 1 |-> w[k + (n + 1) - 1]]
    BY DEF Behind, SubSeq
  <2>2. a - (n + 1) + 1 = a - n /\ \A k \in Int : k + (n + 1) - 1 = n + k  BY <1>2
  <2> HIDE DEF a
  <2>3. QED  BY <2>1, <2>2
<1> HIDE DEF a
<1>4. a - n \in Nat  BY <1>2
<1>5. \A k \in 1..a - n : n + k \in 1..a  BY <1>2
<1>6. x \in Seq(C) /\ Len(x) = a - n
  <2>1. \A k \in 1..a - n : w[n + k] \in C  BY <1>2, <1>5
  <2>2. x \in [1..a - n -> C]  BY <2>1
  <2> HIDE DEF x
  <2>3. x \in Seq(C)  BY <1>4, <2>2 DEF Seq
  <2>4. DOMAIN x = 1..a - n  BY <2>2
  <2>5. QED  BY <1>4, <2>3, <2>4, LenProperties
<1>7. QED  BY <1>3, <1>6 DEF IsSeq, a

LEMMA SameSeq ==
  ASSUME NEW x, NEW y, IsSeq(x), IsSeq(y), Len(x) = Len(y), \A k \in 1..Len(x) : x[k] = y[k]
  PROVE  x = y
<1>1. PICK C : x \in Seq(C)
  BY DEF IsSeq
<1>2. PICK D : y \in Seq(D)
  BY DEF IsSeq
<1>3. x \in [1..Len(x) -> C] /\ y \in [1..Len(y) -> D]  BY <1>1, <1>2, LenProperties
<1> QED  BY <1>3

LEMMA BehindJoin ==
  ASSUME NEW w, IsSeq(w), NEW t, IsSeq(t), NEW n \in 0..Len(w)
  PROVE  Behind(w \o t, n) = Behind(w, n) \o t /\ n \in 0..Len(w \o t)
<1> DEFINE u == w \o t
           v == Behind(w, n)
           x == Behind(u, n)
           y == v \o t
           a == Len(w)
           b == Len(t)
<1>1. /\ IsSeq(u) /\ Len(u) = a + b /\ a \in Nat /\ b \in Nat
      /\ \A k \in 1..a + b : u[k] = IF k <= a THEN w[k] ELSE t[k - a]
  BY Joined
<1>4. IsSeq(v) /\ Len(v) = a - n /\ \A k \in 1..a - n : v[k] = w[n + k]
  BY BehindAll
<1> HIDE DEF u, v
<1>5. /\ IsSeq(y) /\ Len(y) = Len(v) + b
      /\ \A k \in 1..Len(v) + b : y[k] = IF k <= Len(v) THEN v[k] ELSE t[k - Len(v)]
  BY <1>4, Joined
<1> n \in 0..a  OBVIOUS
<1> HIDE DEF a, b, y
<1>2. n \in 0..a + b /\ n \in 0..a
  BY <1>1
<1>3. IsSeq(x) /\ Len(x) = a + b - n /\ \A k \in 1..a + b - n : x[k] = u[n + k]
  <2>1. n \in 0..Len(u)  BY <1>1, <1>2
  <2>2. /\ IsSeq(x) /\ Len(x) = Len(u) - n
        /\ \A k \in 1..Len(u) - n : x[k] = u[n + k]
    BY <1>1, <2>1, BehindAll
  <2>3. QED  BY <1>1, <2>2
<1> HIDE DEF x
<1>6. \A k \in 1..a + b - n : x[k] = y[k]
  <2> SUFFICES ASSUME NEW k \in 1..a + b - n PROVE x[k] = y[k]
    OBVIOUS
  <2>1. n + k \in 1..a + b /\ k \in 1..a - n + b
    BY <1>1, <1>2
  <2>2. x[k] = IF n + k <= a THEN w[n + k] ELSE t[n + k - a]
    BY <1>1, <1>3, <2>1
  <2>3. CASE n + k <= a
    <3>1. k <= a - n /\ k \in 1..a - n
      BY <1>1, <1>2, <2>3
    <3> QED
      BY <1>4, <1>5, <2>1, <2>2, <2>3, <3>1
  <2>4. CASE ~(n + k <= a)
    <3>1. ~(k <= a - n) /\ n + k - a = k - (a - n)
      BY <1>1, <1>2, <2>4
    <3> QED
      BY <1>4, <1>5, <2>1, <2>2, <2>4, <3>1
  <2> QED
    BY <2>3, <2>4
<1>7. a + b - n = a - n + b
  BY <1>1, <1>2
<1>8. x = y
  BY <1>3, <1>4, <1>5, <1>6, <1>7, SameSeq
<1> QED  BY <1>1, <1>2, <1>8 DEF x, y, u, v

LEMMA NothingSeq == IsSeq(<<>>)
<1>1. <<>> \in Seq({})
  OBVIOUS
<1> QED  BY <1>1 DEF IsSeq

LEMMA BehindNothing ==
  ASSUME NEW x, IsSeq(x)
  PROVE  x \o <<>> = x /\ Behind(x, 0) = x /\ Behind(x, Len(x)) = <<>> /\ Len(x) \in Nat
<1>1. PICK C : x \in Seq(C)
  BY DEF IsSeq
<1>2. x \o <<>> = x /\ Len(x) \in Nat
  BY <1>1
<1>3. Behind(x, 0) = x
  <2>1. 0 \in 0..Len(x)  BY <1>2
  <2>2. /\ IsSeq(Behind(x, 0)) /\ Len(Behind(x, 0)) = Len(x) - 0
        /\ \A k \in 1..Len(x) - 0 : Behind(x, 0)[k] = x[0 + k]
    BY <2>1, BehindAll
  <2>3. Len(x) - 0 = Len(x) /\ \A k \in 1..Len(x) : 0 + k = k  BY <1>2
  <2>4. QED  BY <2>2, <2>3, SameSeq
<1>4. Behind(x, Len(x)) = <<>>
  <2>1. Len(x) \in 0..Len(x) /\ Len(x) - Len(x) = 0  BY <1>2
  <2>2. IsSeq(Behind(x, Len(x))) /\ Len(Behind(x, Len(x))) = 0
    BY <2>1, BehindAll
  <2>3. PICK D : Behind(x, Len(x)) \in Seq(D)  BY <2>2 DEF IsSeq
  <2>4. QED  BY <2>2, <2>3, EmptySeq
<1> QED  BY <1>2, <1>3, <1>4

-----------------------------------------------------------------------------
(* One command, as the panel takes it.  Quiet and Noise: what a command    *)
(* that is not about the focus or a registration leaves alone.             *)

\* The panel's session, and whether it listens to ic.
PanelFields == {"cur", "last", "uuid", "on", "info", "fresh", "refused"}

PanelOK(v) ==
  /\ DOMAIN v = PanelFields /\ DOMAIN v.uuid = Icids /\ v.fresh \in BOOLEAN
  /\ v.fresh => v.cur = NoIcid /\ v.last = NoIcid

Heard(v, ic) == v.fresh \/ v.cur = ic

\* From v to w nothing is refused to another context than ic, and nothing to
\* ic if it is heard.
Refs(v, w, ic) ==
  /\ w.refused \subseteq v.refused \cup {ic}
  /\ Heard(v, ic) => w.refused = v.refused /\ Heard(w, ic)

\* From v to w neither the focus nor a registration changes; and nothing that is
\* shown.
Quiet(v, w, ic) ==
  /\ PanelOK(w) /\ Refs(v, w, ic)
  /\ w.cur = v.cur /\ w.last = v.last /\ w.uuid = v.uuid /\ w.fresh = v.fresh

Noise(v, w, ic) == Quiet(v, w, ic) /\ w.on = v.on /\ w.info = v.info

LEMMA QuietSelf ==
  ASSUME NEW v, PanelOK(v), NEW ic
  PROVE  Noise(v, v, ic)
BY DEF Noise, Quiet, Refs

LEMMA QuietTrans ==
  ASSUME NEW v, NEW w, NEW x, NEW ic, Quiet(v, w, ic), Quiet(w, x, ic)
  PROVE  Quiet(v, x, ic)
BY DEF Quiet, Refs, Heard

LEMMA NoiseTrans ==
  ASSUME NEW v, NEW w, NEW x, NEW ic, Noise(v, w, ic), Noise(w, x, ic)
  PROVE  Noise(v, x, ic)
BY QuietTrans DEF Noise

LEMMA IcidIsOne ==
  ASSUME NEW ic \in Icids
  PROVE  ic # NoIcid /\ ic \in Int
BY X11Assumption DEF Icids, NoIcid

\* A refused command.
LEMMA ApplyRefused ==
  ASSUME NEW v, PanelOK(v), NEW ic \in Icids, NEW cmd, NEW arg,
         Refuses(v, Cmd(ic, cmd, arg))
  PROVE  LET w == Apply(v, Cmd(ic, cmd, arg))
         IN /\ PanelOK(w) /\ w.cur = v.cur /\ w.last = v.last /\ w.uuid = v.uuid
            /\ w.fresh = v.fresh /\ w.on = v.on /\ w.info = v.info
            /\ w.refused \subseteq v.refused \cup {ic}
            /\ v.fresh => w = v
<1> DEFINE m == Cmd(ic, cmd, arg)
           r == v.refused \cup {ic}
           x == [v EXCEPT !.refused = r]
<1>1. Apply(v, m) = IF v.fresh THEN v ELSE x
  BY DEF Apply, Cmd
<1>2. /\ DOMAIN x = PanelFields /\ x.cur = v.cur /\ x.last = v.last /\ x.uuid = v.uuid
      /\ x.fresh = v.fresh /\ x.on = v.on /\ x.info = v.info /\ x.refused = r
  BY DEF PanelOK, PanelFields
<1> HIDE DEF x, m
<1>3. PanelOK(x)  BY <1>2 DEF PanelOK
<1>4. QED  BY <1>1, <1>2, <1>3 DEF m

\* Focused or not heard of yet, ic is not refused; another is, unless none has the
\* focus.
LEMMA WhoIsRefused ==
  ASSUME NEW v, PanelOK(v), NEW ic \in Icids, NEW cmd \in FocusOnly, NEW arg
  PROVE  /\ v.cur = ic => ~Refuses(v, Cmd(ic, cmd, arg))
         /\ v.fresh \/ v.cur \notin {NoIcid, ic} => Refuses(v, Cmd(ic, cmd, arg))
BY IcidIsOne DEF PanelOK, Refuses, Cmd, HasUuid, HasFocus, FocusOnly

LEMMA ApplyNoise ==
  ASSUME NEW v, PanelOK(v), NEW ic \in Icids, NEW cmd \in {"UPDATE", "HELPER"}, NEW arg
  PROVE  Noise(v, Apply(v, Cmd(ic, cmd, arg)), ic)
<1> DEFINE m == Cmd(ic, cmd, arg)  w == Apply(v, m)
<1>1. m.cmd = cmd /\ m.ic = ic  BY DEF Cmd
<1>2. CASE Refuses(v, m)
  <2>1. v.cur # ic
    <3>1. v.cur = ic => HasUuid(v, m.ic) /\ HasFocus(v, m.ic)
      BY <1>1 DEF HasUuid, HasFocus
    <3>2. ~(HasUuid(v, m.ic) /\ HasFocus(v, m.ic))
      BY <1>1, <1>2 DEF Refuses
    <3>3. QED  BY <3>1, <3>2
  <2>2. /\ PanelOK(w) /\ w.cur = v.cur /\ w.last = v.last /\ w.uuid = v.uuid
        /\ w.fresh = v.fresh /\ w.on = v.on /\ w.info = v.info
        /\ w.refused \subseteq v.refused \cup {ic}
        /\ v.fresh => w = v
    BY <1>2, ApplyRefused
  <2> HIDE DEF w
  <2>3. QED  BY <2>1, <2>2 DEF Noise, Quiet, Refs, Heard, w
<1>3. CASE ~Refuses(v, m)
  <2>1. w = Effect(v, m)  BY <1>3 DEF Apply
  <2> HIDE DEF w
  <2>2. Effect(v, m) = v  BY <1>1 DEF Effect
  <2>3. w = v  BY <2>1, <2>2
  <2>4. QED  BY <2>3, QuietSelf DEF w
<1>4. QED  BY <1>2, <1>3

Shown(v, w, cmd, arg) ==
  /\ w.on = (IF cmd = "TURN_ON" THEN TRUE ELSE IF cmd = "TURN_OFF" THEN FALSE ELSE v.on)
  /\ w.info = (IF cmd = "FACTORY_INFO" THEN arg ELSE v.info)

Shows3 == {"TURN_ON", "TURN_OFF", "FACTORY_INFO"}

LEMMA ApplyShow ==
  ASSUME NEW v, PanelOK(v), NEW ic \in Icids, NEW cmd \in Shows3, NEW arg
  PROVE  LET w == Apply(v, Cmd(ic, cmd, arg))
         IN /\ Quiet(v, w, ic)
            /\ v.cur = ic => Shown(v, w, cmd, arg)
            /\ v.fresh \/ v.cur \notin {NoIcid, ic} => w.on = v.on /\ w.info = v.info
<1> DEFINE m == Cmd(ic, cmd, arg)  w == Apply(v, m)
<1>1. m.cmd = cmd /\ m.ic = ic /\ m.arg = arg  BY DEF Cmd
<1>2. CASE Refuses(v, m)
  <2>1. v.cur # ic
    BY <1>2, WhoIsRefused DEF Shows3, FocusOnly
  <2>2. /\ PanelOK(w) /\ w.cur = v.cur /\ w.last = v.last /\ w.uuid = v.uuid
        /\ w.fresh = v.fresh /\ w.on = v.on /\ w.info = v.info
        /\ w.refused \subseteq v.refused \cup {ic}
        /\ v.fresh => w = v
    BY <1>2, ApplyRefused
  <2> HIDE DEF w
  <2>3. QED  BY <2>1, <2>2 DEF Quiet, Refs, Heard, w
<1>3. CASE ~Refuses(v, m)
  <2>1. ~(v.fresh \/ v.cur \notin {NoIcid, ic})
    BY <1>3, WhoIsRefused DEF Shows3, FocusOnly
  <2> DEFINE x == Effect(v, m)
             o == IF cmd = "TURN_ON" THEN TRUE ELSE IF cmd = "TURN_OFF" THEN FALSE ELSE v.on
             f == IF cmd = "FACTORY_INFO" THEN arg ELSE v.info
  <2>2. w = x  BY <1>3 DEF Apply
  <2>3. /\ DOMAIN x = PanelFields /\ x.cur = v.cur /\ x.last = v.last /\ x.uuid = v.uuid
        /\ x.fresh = v.fresh /\ x.refused = v.refused
    BY <1>1 DEF Effect, PanelOK, PanelFields, Shows3
  <2>4. x.on = o /\ x.info = f
    <3>1. CASE cmd = "TURN_ON"  BY <1>1, <3>1 DEF Effect, PanelOK, PanelFields
    <3>2. CASE cmd = "TURN_OFF"  BY <1>1, <3>2 DEF Effect, PanelOK, PanelFields
    <3>3. CASE cmd = "FACTORY_INFO"  BY <1>1, <3>3 DEF Effect, PanelOK, PanelFields
    <3>4. QED  BY <3>1, <3>2, <3>3 DEF Shows3
  <2> HIDE DEF x, m
  <2>5. PanelOK(x)  BY <2>3 DEF PanelOK
  <2>6. Quiet(v, x, ic)  BY <2>3, <2>5 DEF Quiet, Refs, Heard
  <2>7. Shown(v, x, cmd, arg)  BY <2>4 DEF Shown
  <2>8. QED  BY <2>1, <2>2, <2>6, <2>7 DEF m
<1>4. QED  BY <1>2, <1>3

LEMMA ApplyRegister ==
  ASSUME NEW v, PanelOK(v), NEW ic \in Icids, NEW cmd \in {"REGISTER", "REMOVE"}, NEW arg,
         NEW u, u = IF cmd = "REGISTER" THEN arg ELSE NoArg
  PROVE  LET w == Apply(v, Cmd(ic, cmd, arg))
         IN /\ PanelOK(w) /\ w.cur = v.cur /\ w.last = v.last /\ w.on = v.on
            /\ w.info = v.info /\ w.fresh = v.fresh /\ w.refused = v.refused
            /\ w.uuid = [v.uuid EXCEPT ![ic] = u]
<1> DEFINE m == Cmd(ic, cmd, arg)
           x == [v EXCEPT !.uuid = [v.uuid EXCEPT ![ic] = u]]
<1>1. m.cmd = cmd /\ m.ic = ic /\ m.arg = arg  BY DEF Cmd
<1>2. ~Refuses(v, m)  BY <1>1 DEF Refuses, FocusOnly
<1>3. Effect(v, m) = x
  <2>1. Effect(v, m) = [v EXCEPT !.uuid[ic] = u]  BY <1>1 DEF Effect
  <2>2. QED  BY <2>1 DEF PanelOK, PanelFields
<1>4. Apply(v, m) = x  BY <1>2, <1>3 DEF Apply
<1>5. /\ DOMAIN x = PanelFields /\ x.cur = v.cur /\ x.last = v.last /\ x.on = v.on
      /\ x.info = v.info /\ x.fresh = v.fresh /\ x.refused = v.refused
      /\ x.uuid = [v.uuid EXCEPT ![ic] = u]
  BY DEF PanelOK, PanelFields
<1> HIDE DEF x, m
<1>6. PanelOK(x)  BY <1>5 DEF PanelOK
<1>7. QED  BY <1>4, <1>5, <1>6 DEF m

LEMMA ApplyFocusIn ==
  ASSUME NEW v, PanelOK(v), NEW ic \in Icids
  PROVE  LET w == Apply(v, Cmd(ic, "FOCUS_IN", NoArg))
         IN /\ PanelOK(w) /\ w.cur = ic /\ ~w.fresh /\ w.uuid = v.uuid /\ w.on = v.on
            /\ w.info = v.info /\ w.refused = v.refused
<1> DEFINE m == Cmd(ic, "FOCUS_IN", NoArg)
           l == Remember(v)
           x == [v EXCEPT !.last = l, !.fresh = FALSE, !.cur = ic]
<1>1. m.cmd = "FOCUS_IN" /\ m.ic = ic  BY DEF Cmd
<1>2. ~Refuses(v, m)  BY <1>1 DEF Refuses, FocusOnly
<1>3. Effect(v, m) = x  BY <1>1 DEF Effect
<1>4. Apply(v, m) = x  BY <1>2, <1>3 DEF Apply
<1> HIDE DEF l
<1>5. /\ DOMAIN x = PanelFields /\ x.cur = ic /\ x.fresh = FALSE /\ x.uuid = v.uuid
      /\ x.on = v.on /\ x.info = v.info /\ x.refused = v.refused
  BY DEF PanelOK, PanelFields
<1> HIDE DEF x, m
<1>6. PanelOK(x)  BY <1>5 DEF PanelOK
<1>7. QED  BY <1>4, <1>5, <1>6 DEF m

LEMMA ApplyFocusOut ==
  ASSUME NEW v, PanelOK(v), NEW ic \in Icids
  PROVE  LET w == Apply(v, Cmd(ic, "FOCUS_OUT", NoArg))
         IN /\ PanelOK(w) /\ w.uuid = v.uuid /\ w.refused \subseteq v.refused \cup {ic}
            /\ Heard(v, ic) => w.refused = v.refused
<1> DEFINE m == Cmd(ic, "FOCUS_OUT", NoArg)
           l == Remember(v)
           w == Apply(v, m)
           x == [v EXCEPT !.last = l, !.on = FALSE, !.cur = NoIcid]
<1>1. m.cmd = "FOCUS_OUT" /\ m.ic = ic  BY DEF Cmd
<1>2. CASE Refuses(v, m)
  <2>1. v.cur # ic
    BY <1>2, WhoIsRefused DEF FocusOnly
  <2>2. /\ PanelOK(w) /\ w.uuid = v.uuid
        /\ w.refused \subseteq v.refused \cup {ic}
        /\ v.fresh => w = v
    BY <1>2, ApplyRefused
  <2> HIDE DEF w
  <2>3. QED  BY <2>1, <2>2 DEF Heard, w
<1>3. CASE ~Refuses(v, m)
  <2>1. ~v.fresh
    BY <1>3, WhoIsRefused DEF FocusOnly
  <2>2. Effect(v, m) = x  BY <1>1 DEF Effect
  <2>3. w = x  BY <1>3, <2>2 DEF Apply
  <2> HIDE DEF l
  <2>4. /\ DOMAIN x = PanelFields /\ x.fresh = v.fresh /\ x.uuid = v.uuid
        /\ x.refused = v.refused
    BY DEF PanelOK, PanelFields
  <2> HIDE DEF x, m
  <2>5. PanelOK(x)  BY <2>1, <2>4 DEF PanelOK
  <2>6. QED  BY <2>3, <2>4, <2>5 DEF m
<1>4. QED  BY <1>2, <1>3

-----------------------------------------------------------------------------
(* What the panel will have made of a handler's commands so far: View.     *)

\* What the panel, from q on, makes of what s has written after the first n commands
\* and of its transaction.
View(q, n, s) == FoldLeft(Apply, q, Behind(s.pc.wire, n) \o s.pc.trans)

\* In a transaction of ic, with a connection.
Mid(n, s, ic) ==
  /\ Fe(s) /\ s.pc.up /\ InTrans(s, ic)
  /\ IsSeq(s.pc.wire) /\ IsSeq(s.pc.trans) /\ n \in 0..Len(s.pc.wire)

At(q, n, s, ic) == Mid(n, s, ic) /\ PanelOK(View(q, n, s))

\* The view follows from the client alone.
LEMMA SameView ==
  ASSUME NEW q, NEW n, NEW s, NEW t, t.pc = s.pc
  PROVE  View(q, n, t) = View(q, n, s)
BY DEF View

LEMMA SamePcAt ==
  ASSUME NEW q, NEW n, NEW s, NEW t, NEW ic, At(q, n, s, ic), t.pc = s.pc, Fe(t)
  PROVE  At(q, n, t, ic) /\ View(q, n, t) = View(q, n, s)
BY SameView DEF At, Mid, InTrans

LEMMA SameTrans ==
  ASSUME NEW s, NEW t, NEW r, Same(s, t), Same(t, r)
  PROVE  Same(s, r)
BY DEF Same

LEMMA PutFields ==
  ASSUME NEW s, Fe(s), NEW ic, NEW cmd, NEW arg
  PROVE  Same(s, Put(s, ic, cmd, arg)) /\ Put(s, ic, cmd, arg).pc = put(s.pc, ic, cmd, arg)
<1> DEFINE x == [to |-> ic, how |-> IF Accepts(s.pc, ic) \/ ~s.pc.up THEN "put" ELSE "lost"]
           p == put(s.pc, ic, cmd, arg)
           t == Put(s, ic, cmd, arg)
<1>1. t = [s EXCEPT !.pc = p, !.fx = s.fx \cup {x}]  BY DEF Put
<1>2. Fe(t)  BY PutKeeps DEF Keeps
<1> HIDE DEF p, x, t
<1>3. /\ t.pc = p
      /\ t.ics = s.ics /\ t.next = s.next /\ t.focus = s.focus /\ t.inst = s.inst
      /\ t.count = s.count /\ t.def = s.def /\ t.deff = s.deff /\ t.shared = s.shared
      /\ t.opened = s.opened
  BY <1>1 DEF Fe, Fields
<1>4. Same(s, t)  BY <1>2, <1>3 DEF Same
<1>5. QED  BY <1>3, <1>4 DEF t, p

\* A command of the transaction's context; UPDATE and HELPER may be merged.
LEMMA PutView ==
  ASSUME NEW q, NEW n, NEW ic, NEW s, Mid(n, s, ic), NEW cmd, NEW arg
  PROVE  LET t == Put(s, ic, cmd, arg)
         IN /\ Same(s, t) /\ Mid(n, t, ic)
            /\ \/ View(q, n, t) = Apply(View(q, n, s), Cmd(ic, cmd, arg))
               \/ cmd \in {"UPDATE", "HELPER"} /\ View(q, n, t) = View(q, n, s)
<1> DEFINE t == Put(s, ic, cmd, arg)
           m == Cmd(ic, cmd, arg)
           p == put(s.pc, ic, cmd, arg)
           w == Behind(s.pc.wire, n)
<1>1. Same(s, t) /\ t.pc = p /\ Fe(t)  BY PutFields DEF Mid, Same
<1> HIDE DEF t
<1>2. Accepts(s.pc, ic)  BY DEF Mid, InTrans, Accepts
<1>3. m.cmd = cmd  BY DEF Cmd
<1>4. IsSeq(w) /\ IsSeq(s.pc.trans)  BY BehindAll DEF Mid
<1>5. CASE Merged(s.pc.trans, m)
  <2>1. p = s.pc  BY <1>5 DEF put
  <2>2. t.pc = s.pc  BY <1>1, <2>1
  <2>3. Mid(n, t, ic)  BY <1>1, <2>2 DEF Mid, InTrans
  <2>4. View(q, n, t) = View(q, n, s)  BY <2>2, SameView
  <2>5. cmd \in {"UPDATE", "HELPER"}  BY <1>3, <1>5 DEF Merged
  <2>6. QED  BY <1>1, <2>3, <2>4, <2>5 DEF t
<1>6. CASE ~Merged(s.pc.trans, m)
  <2> DEFINE y == Append(s.pc.trans, m)
  <2>1. p = [s.pc EXCEPT !.trans = y]  BY <1>2, <1>6 DEF put
  <2>2. IsSeq(y)  BY <1>4, Appended
  <2>3. w \o y = Append(w \o s.pc.trans, m)
    <3> DEFINE x == s.pc.trans
    <3>1. IsSeq(w) /\ IsSeq(x)  BY <1>4
    <3> HIDE DEF w, x, m
    <3>2. w \o Append(x, m) = Append(w \o x, m)  BY <3>1, ThenOne
    <3>3. QED  BY <3>2 DEF x
  <2> HIDE DEF y
  <2>4. /\ t.pc.up = s.pc.up /\ t.pc.ref = s.pc.ref /\ t.pc.cur = s.pc.cur
        /\ t.pc.wire = s.pc.wire /\ t.pc.trans = y
    BY <1>1, <2>1 DEF Mid, Fe
  <2>5. Mid(n, t, ic)  BY <1>1, <2>2, <2>4 DEF Mid, InTrans
  <2>6. View(q, n, t) = FoldLeft(Apply, q, Append(w \o s.pc.trans, m))
    BY <2>3, <2>4 DEF View
  <2>7. IsSeq(w \o s.pc.trans)  BY <1>4, Joined
  <2>8. FoldLeft(Apply, q, Append(w \o s.pc.trans, m)) = Apply(FoldLeft(Apply, q, w \o s.pc.trans), m)
    <3> DEFINE z == w \o s.pc.trans
    <3>1. IsSeq(z)  BY <2>7
    <3> HIDE DEF z, m
    <3>2. PICK C : z \in Seq(C)  BY <3>1 DEF IsSeq
    <3> DEFINE D == C \cup {m}
    <3>3. z \in Seq(D) /\ m \in D  BY <3>2
    <3> HIDE DEF D
    <3>4. FoldLeft(Apply, q, Append(z, m)) = Apply(FoldLeft(Apply, q, z), m)
      BY <3>3, ReadOneMore
    <3>5. QED  BY <3>4 DEF z
  <2>9. View(q, n, t) = Apply(View(q, n, s), m)  BY <2>6, <2>8 DEF View
  <2>10. QED  BY <1>1, <2>5, <2>9 DEF t
<1>7. QED  BY <1>5, <1>6

LEMMA PutOther ==
  ASSUME NEW q, NEW n, NEW ic, NEW s, At(q, n, s, ic), NEW j, j # ic, NEW cmd, NEW arg
  PROVE  LET t == Put(s, j, cmd, arg)
         IN /\ Same(s, t) /\ At(q, n, t, ic) /\ View(q, n, t) = View(q, n, s)
<1> DEFINE t == Put(s, j, cmd, arg)
<1>1. Same(s, t) /\ t.pc = put(s.pc, j, cmd, arg) /\ Fe(t)  BY PutFields DEF At, Mid, Same
<1> HIDE DEF t
<1>2. ~Accepts(s.pc, j)  BY DEF At, Mid, InTrans, Accepts
<1>3. t.pc = s.pc  BY <1>1, <1>2 DEF put
<1>4. At(q, n, t, ic) /\ View(q, n, t) = View(q, n, s)  BY <1>1, <1>3, SamePcAt
<1>5. QED  BY <1>1, <1>4 DEF t

\* From s to t the transaction of ic is continued; and nothing is shown.
Tells(q, n, s, t, ic) ==
  Same(s, t) /\ At(q, n, t, ic) /\ Quiet(View(q, n, s), View(q, n, t), ic)

Hums(q, n, s, t, ic) ==
  Same(s, t) /\ At(q, n, t, ic) /\ Noise(View(q, n, s), View(q, n, t), ic)

LEMMA TellsSelf ==
  ASSUME NEW q, NEW n, NEW ic, NEW s, At(q, n, s, ic)
  PROVE  Hums(q, n, s, s, ic) /\ Tells(q, n, s, s, ic)
BY QuietSelf DEF Hums, Tells, At, Mid, Same, Noise

LEMMA HumsTrans ==
  ASSUME NEW q, NEW n, NEW ic, NEW s, NEW t, NEW r, Hums(q, n, s, t, ic), Hums(q, n, t, r, ic)
  PROVE  Hums(q, n, s, r, ic)
BY NoiseTrans, SameTrans DEF Hums

LEMMA TellsTrans ==
  ASSUME NEW q, NEW n, NEW ic, NEW s, NEW t, NEW r, Tells(q, n, s, t, ic), Tells(q, n, t, r, ic)
  PROVE  Tells(q, n, s, r, ic)
BY QuietTrans, SameTrans DEF Tells

LEMMA HumsTells ==
  ASSUME NEW q, NEW n, NEW ic, NEW s, NEW t, Hums(q, n, s, t, ic)
  PROVE  Tells(q, n, s, t, ic)
BY DEF Hums, Tells, Noise

LEMMA PutHums ==
  ASSUME NEW q, NEW n, NEW ic \in Icids, NEW s, At(q, n, s, ic), NEW j,
         NEW cmd \in {"UPDATE", "HELPER"}, NEW arg
  PROVE  Hums(q, n, s, Put(s, j, cmd, arg), ic)
<1> DEFINE t == Put(s, j, cmd, arg)
<1>1. CASE j = ic
  <2>1. Mid(n, s, ic) /\ PanelOK(View(q, n, s))  BY DEF At
  <2>2. /\ Same(s, t) /\ Mid(n, t, ic)
        /\ \/ View(q, n, t) = Apply(View(q, n, s), Cmd(ic, cmd, arg))
           \/ View(q, n, t) = View(q, n, s)
    BY <1>1, <2>1, PutView
  <2> HIDE DEF t
  <2>3. Noise(View(q, n, s), Apply(View(q, n, s), Cmd(ic, cmd, arg)), ic)
    BY <2>1, ApplyNoise
  <2>4. Noise(View(q, n, s), View(q, n, s), ic)  BY <2>1, QuietSelf
  <2>5. Noise(View(q, n, s), View(q, n, t), ic)  BY <2>2, <2>3, <2>4
  <2>6. QED  BY <2>2, <2>5 DEF Hums, At, Noise, Quiet, t
<1>2. CASE j # ic
  <2>1. Same(s, t) /\ At(q, n, t, ic) /\ View(q, n, t) = View(q, n, s)  BY <1>2, PutOther
  <2>2. Noise(View(q, n, s), View(q, n, s), ic)  BY QuietSelf DEF At
  <2>3. QED  BY <2>1, <2>2 DEF Hums
<1>3. QED  BY <1>1, <1>2

LEMMA PutTells ==
  ASSUME NEW q, NEW n, NEW ic \in Icids, NEW s, At(q, n, s, ic), NEW cmd \in Shows3, NEW arg
  PROVE  LET t == Put(s, ic, cmd, arg)
             v == View(q, n, s)
             w == View(q, n, t)
         IN /\ Tells(q, n, s, t, ic)
            /\ v.cur = ic => Shown(v, w, cmd, arg)
            /\ v.fresh \/ v.cur \notin {NoIcid, ic} => w.on = v.on /\ w.info = v.info
<1> DEFINE t == Put(s, ic, cmd, arg)
           v == View(q, n, s)
           w == View(q, n, t)
<1>1. Mid(n, s, ic) /\ PanelOK(v)  BY DEF At
<1>2. cmd \notin {"UPDATE", "HELPER"}  BY DEF Shows3
<1>3. Same(s, t) /\ Mid(n, t, ic) /\ w = Apply(v, Cmd(ic, cmd, arg))
  BY <1>1, <1>2, PutView
<1> HIDE DEF t, v, w
<1>4. /\ Quiet(v, w, ic)
      /\ v.cur = ic => Shown(v, w, cmd, arg)
      /\ v.fresh \/ v.cur \notin {NoIcid, ic} => w.on = v.on /\ w.info = v.info
  BY <1>1, <1>3, ApplyShow
<1>5. PanelOK(w)  BY <1>4 DEF Quiet
<1>6. Tells(q, n, s, t, ic)  BY <1>3, <1>4, <1>5 DEF Tells, At, v, w
<1>7. QED  BY <1>4, <1>6 DEF t, v, w

\* What instances emit, for whomever, is noise.
LEMMA EngineHums ==
  ASSUME NEW q, NEW n, NEW ic \in Icids, NEW s, At(q, n, s, ic), NEW siid, NEW e
  PROVE  Hums(q, n, s, Engine(s, siid, e), ic)
<1> DEFINE a == Shows(s, siid)
           b == HidesAndCommits(a, siid)
           c == CallsHelper(b, siid)
<1>1. Hums(q, n, s, a, ic)  BY PutHums, TellsSelf DEF Shows
<1>2. At(q, n, a, ic)  BY <1>1 DEF Hums
<1> HIDE DEF a
<1>3. Hums(q, n, a, b, ic)
  <2>1. CASE ~FocusHas(a, siid)  BY <1>2, <2>1, TellsSelf DEF HidesAndCommits
  <2>2. CASE FocusHas(a, siid)
    <3> DEFINE t == Put(a, a.focus, "UPDATE", NoArg)
               f == t.fx \cup {[to |-> a.focus, how |-> "commit"]}
               r == [t EXCEPT !.fx = f]
    <3>1. b = r  BY <2>2 DEF HidesAndCommits
    <3>2. Hums(q, n, a, t, ic)  BY <1>2, PutHums
    <3> HIDE DEF t, f
    <3>3. Fe(t)  BY <3>2 DEF Hums, Same
    <3>4. /\ DOMAIN r = Fields /\ r.pc = t.pc
          /\ r.ics = t.ics /\ r.next = t.next /\ r.focus = t.focus /\ r.inst = t.inst
          /\ r.count = t.count /\ r.def = t.def /\ r.deff = t.deff /\ r.shared = t.shared
          /\ r.opened = t.opened
      BY <3>3 DEF Fe, Fields
    <3> HIDE DEF r
    <3>5. Fe(r) /\ Same(t, r)  BY <3>3, <3>4 DEF Fe, Same
    <3>6. At(q, n, r, ic) /\ View(q, n, r) = View(q, n, t)
      BY <3>2, <3>4, <3>5, SamePcAt DEF Hums
    <3>7. Hums(q, n, a, r, ic)  BY <3>2, <3>5, <3>6, SameTrans DEF Hums
    <3>8. QED  BY <3>1, <3>7
  <2>3. QED  BY <2>1, <2>2
<1>4. At(q, n, b, ic)  BY <1>3 DEF Hums
<1> HIDE DEF b
<1>5. Hums(q, n, b, c, ic)  BY <1>4, PutHums, TellsSelf DEF CallsHelper
<1> HIDE DEF c
<1>6. Hums(q, n, s, c, ic)  BY <1>1, <1>3, <1>5, HumsTrans
<1>7. Hums(q, n, s, s, ic)  BY TellsSelf
<1>8. QED  BY <1>6, <1>7 DEF Engine, a, b, c

\* What the panel is to show for ic.
Info(s, ic) == IF s.ics[ic].on THEN s.inst[s.ics[ic].siid] ELSE NoArg

Showing(w, on, info) == w.on = on /\ w.info = info

Steady(v, w, ic) == v.fresh \/ v.cur \notin {NoIcid, ic} => w.on = v.on /\ w.info = v.info

LEMMA UpdateShows ==
  ASSUME NEW q, NEW n, NEW ic \in Icids, NEW s, At(q, n, s, ic)
  PROVE  LET t == update_factory_info(s, ic)
             v == View(q, n, s)
             w == View(q, n, t)
         IN /\ Tells(q, n, s, t, ic) /\ Steady(v, w, ic)
            /\ s.focus = ic /\ v.cur = ic => w.info = Info(s, ic)
<1> DEFINE t == update_factory_info(s, ic)
           v == View(q, n, s)
           w == View(q, n, t)
<1>1. CASE s.focus = ic
  <2> DEFINE arg == Info(s, ic)
  <2>1. t = Put(s, ic, "FACTORY_INFO", arg)  BY <1>1 DEF update_factory_info, Info
  <2> HIDE DEF arg, t
  <2>2. "FACTORY_INFO" \in Shows3  BY DEF Shows3
  <2>3. /\ Tells(q, n, s, t, ic)
        /\ v.cur = ic => Shown(v, w, "FACTORY_INFO", arg)
        /\ v.fresh \/ v.cur \notin {NoIcid, ic} => w.on = v.on /\ w.info = v.info
    BY <2>1, <2>2, PutTells
  <2> HIDE DEF v, w
  <2>4. v.cur = ic => w.info = arg  BY <2>3 DEF Shown
  <2>5. QED  BY <2>3, <2>4 DEF Steady, arg, t, v, w
<1>2. CASE s.focus # ic
  <2>1. t = s  BY <1>2 DEF update_factory_info
  <2>2. Tells(q, n, s, s, ic)  BY TellsSelf
  <2>3. QED  BY <1>2, <2>1, <2>2 DEF Steady
<1>3. QED  BY <1>1, <1>2

LEMMA ResetHums ==
  ASSUME NEW q, NEW n, NEW ic \in Icids, NEW s, At(q, n, s, ic), NEW e
  PROVE  Hums(q, n, s, ResetShared(s, ic, e), ic)
BY EngineHums, TellsSelf DEF ResetShared

\* start_ic and stop_ic of the focused IC.
LEMMA StartShows ==
  ASSUME NEW q, NEW n, NEW ic \in Icids, NEW s, At(q, n, s, ic), NEW e
  PROVE  LET t == start_ic(s, ic, e)
             v == View(q, n, s)
             w == View(q, n, t)
         IN /\ Tells(q, n, s, t, ic)
            /\ s.focus = ic /\ v.cur = ic => Showing(w, TRUE, Info(s, ic))
<1> DEFINE a == Put(s, ic, "UPDATE", NoArg)
           b == update_factory_info(a, ic)
           c == Put(b, ic, "TURN_ON", NoArg)
           d == Put(c, ic, "UPDATE", NoArg)
           f == ResetShared(d, ic, e)
           h == Engine(f, s.ics[ic].siid, e)
<1>1. start_ic(s, ic, e) = h  BY DEF start_ic
<1>2. Hums(q, n, s, a, ic)  BY PutHums
<1> HIDE DEF a
<1>3. At(q, n, a, ic) /\ Same(s, a) /\ View(q, n, a).cur = View(q, n, s).cur
  BY <1>2 DEF Hums, Noise, Quiet
<1>4. /\ Tells(q, n, a, b, ic)
      /\ a.focus = ic /\ View(q, n, a).cur = ic => View(q, n, b).info = Info(a, ic)
  BY <1>3, UpdateShows
<1>5. Info(a, ic) = Info(s, ic) /\ a.focus = s.focus  BY <1>3 DEF Same, Info
<1> HIDE DEF b
<1>6. At(q, n, b, ic) /\ View(q, n, b).cur = View(q, n, s).cur
  BY <1>3, <1>4 DEF Tells, Quiet
<1>7. "TURN_ON" \in Shows3  BY DEF Shows3
<1>8. /\ Tells(q, n, b, c, ic)
      /\ View(q, n, b).cur = ic => Shown(View(q, n, b), View(q, n, c), "TURN_ON", NoArg)
  BY <1>6, <1>7, PutTells
<1> HIDE DEF c
<1>9. At(q, n, c, ic)  BY <1>8 DEF Tells
<1>10. Hums(q, n, c, d, ic)  BY <1>9, PutHums
<1> HIDE DEF d
<1>11. At(q, n, d, ic)  BY <1>10 DEF Hums
<1>12. Hums(q, n, d, f, ic)  BY <1>11, ResetHums
<1> HIDE DEF f
<1>13. At(q, n, f, ic)  BY <1>12 DEF Hums
<1>14. Hums(q, n, f, h, ic)  BY <1>13, EngineHums
<1> HIDE DEF h
<1>15. Hums(q, n, c, h, ic)  BY <1>10, <1>12, <1>14, HumsTrans
<1>16. Tells(q, n, s, b, ic)  BY <1>2, <1>4, HumsTells, TellsTrans
<1>17. Tells(q, n, c, h, ic)  BY <1>15, HumsTells
<1>18. Tells(q, n, s, h, ic)  BY <1>8, <1>16, <1>17, TellsTrans
<1>19. s.focus = ic /\ View(q, n, s).cur = ic
         => Showing(View(q, n, h), TRUE, Info(s, ic))
  BY <1>3, <1>4, <1>5, <1>6, <1>8, <1>15 DEF Hums, Noise, Shown, Showing
<1>20. QED  BY <1>1, <1>18, <1>19

\* An IC that is off shows so.
LEMMA OffShows ==
  ASSUME NEW q, NEW n, NEW ic \in Icids, NEW s, At(q, n, s, ic)
  PROVE  LET t == Put(update_factory_info(s, ic), ic, "TURN_OFF", NoArg)
             v == View(q, n, s)
             w == View(q, n, t)
         IN /\ Tells(q, n, s, t, ic) /\ Steady(v, w, ic)
            /\ s.focus = ic /\ v.cur = ic => Showing(w, FALSE, Info(s, ic))
<1> DEFINE a == update_factory_info(s, ic)
           t == Put(a, ic, "TURN_OFF", NoArg)
           u == View(q, n, a)
           v == View(q, n, s)
           w == View(q, n, t)
<1>1. /\ Tells(q, n, s, a, ic) /\ Steady(v, u, ic)
      /\ s.focus = ic /\ v.cur = ic => u.info = Info(s, ic)
  BY UpdateShows
<1> HIDE DEF a
<1>2. At(q, n, a, ic) /\ u.cur = v.cur /\ u.fresh = v.fresh  BY <1>1 DEF Tells, Quiet
<1>3. "TURN_OFF" \in Shows3  BY DEF Shows3
<1>4. /\ Tells(q, n, a, t, ic)
      /\ u.cur = ic => Shown(u, w, "TURN_OFF", NoArg)
      /\ u.fresh \/ u.cur \notin {NoIcid, ic} => w.on = u.on /\ w.info = u.info
  BY <1>2, <1>3, PutTells
<1>5. Tells(q, n, s, t, ic)  BY <1>1, <1>4, TellsTrans
<1> HIDE DEF t, u, v, w
<1>6. Steady(v, w, ic)  BY <1>1, <1>2, <1>4 DEF Steady
<1>7. s.focus = ic /\ v.cur = ic => Showing(w, FALSE, Info(s, ic))
  BY <1>1, <1>2, <1>4 DEF Shown, Showing
<1>8. QED  BY <1>5, <1>6, <1>7 DEF a, t, v, w

LEMMA StopShows ==
  ASSUME NEW q, NEW n, NEW ic \in Icids, NEW s, At(q, n, s, ic), NEW e
  PROVE  LET t == stop_ic(s, ic, e)
             v == View(q, n, s)
             w == View(q, n, t)
         IN /\ Tells(q, n, s, t, ic)
            /\ s.focus = ic /\ v.cur = ic => Showing(w, FALSE, Info(s, ic))
<1> DEFINE a == Engine(s, s.ics[ic].siid, e)
           b == ResetShared(a, ic, e)
           t == Put(update_factory_info(b, ic), ic, "TURN_OFF", NoArg)
<1>1. stop_ic(s, ic, e) = t  BY DEF stop_ic
<1>2. Hums(q, n, s, a, ic)  BY EngineHums
<1>3. At(q, n, a, ic)  BY <1>2 DEF Hums
<1> HIDE DEF a
<1>4. Hums(q, n, a, b, ic)  BY <1>3, ResetHums
<1> HIDE DEF b
<1>5. Hums(q, n, s, b, ic)  BY <1>2, <1>4, HumsTrans
<1>6. At(q, n, b, ic) /\ Same(s, b) /\ View(q, n, b).cur = View(q, n, s).cur
  BY <1>5 DEF Hums, Noise, Quiet
<1> DEFINE u == View(q, n, b)  w == View(q, n, t)
<1>7. /\ Tells(q, n, b, t, ic) /\ Steady(u, w, ic)
      /\ b.focus = ic /\ u.cur = ic => Showing(w, FALSE, Info(b, ic))
  BY <1>6, OffShows
<1> HIDE DEF t
<1>8. Info(b, ic) = Info(s, ic) /\ b.focus = s.focus  BY <1>6 DEF Same, Info
<1>9. Tells(q, n, s, t, ic)  BY <1>5, <1>7, HumsTells, TellsTrans
<1>10. QED  BY <1>1, <1>6, <1>7, <1>8, <1>9

-----------------------------------------------------------------------------
(* The panel and the ICs: what is registered and what is displayed.        *)

\* What the panel knows of the ICs of s but those in X; and what it shows.
Registered(v, s, X) ==
  \A i \in Live(s) \ X :
    v.uuid[i] # NoArg /\ ~s.ics[i].shared => v.uuid[i] = s.inst[s.ics[i].siid]

Displays(v, s) ==
  s.focus # NoIcid /\ ~v.fresh =>
    /\ v.cur = s.focus /\ v.on = s.ics[s.focus].on
    /\ ~s.ics[s.focus].shared => v.info = Info(s, s.focus)

Good(v, s) == Registered(v, s, {}) /\ Displays(v, s)

Alike(s, t) == t.ics = s.ics /\ t.focus = s.focus /\ t.inst = s.inst

LEMMA AlikeRegistered ==
  ASSUME NEW s, NEW t, Alike(s, t), NEW v, NEW w, w.uuid = v.uuid, NEW X, Registered(v, s, X)
  PROVE  Registered(w, t, X)
BY DEF Alike, Registered, Live

LEMMA AlikeDisplays ==
  ASSUME NEW s, NEW t, Alike(s, t), NEW v, NEW w, w.cur = v.cur, w.fresh = v.fresh, w.on = v.on,
         w.info = v.info, Displays(v, s)
  PROVE  Displays(w, t)
BY DEF Alike, Displays, Info

LEMMA HumsGood ==
  ASSUME NEW q, NEW n, NEW ic, NEW s, NEW t, Hums(q, n, s, t, ic), Good(View(q, n, s), s)
  PROVE  Good(View(q, n, t), t)
<1>1. Alike(s, t)  BY DEF Hums, Same, Alike
<1>2. QED  BY <1>1, AlikeRegistered, AlikeDisplays DEF Hums, Noise, Quiet, Good

\* The panel hears the focused IC.
LEMMA FocusHeard ==
  ASSUME NEW v, NEW s, Displays(v, s), s.focus # NoIcid
  PROVE  Heard(v, s.focus)
BY DEF Displays, Heard

LEMMA RefsTrans ==
  ASSUME NEW v, NEW w, NEW x, NEW ic, Refs(v, w, ic), Refs(w, x, ic)
  PROVE  Refs(v, x, ic)
BY DEF Refs

\* An IC is on or off, and this is recorded.
Marked(s, t, ic, b) ==
  /\ Fe(t) /\ t.pc = s.pc /\ t.focus = s.focus /\ t.inst = s.inst
  /\ t.ics[ic].on = b
  /\ \A i \in Icids : /\ t.ics[i].siid = s.ics[i].siid /\ t.ics[i].shared = s.ics[i].shared
                      /\ i # ic => t.ics[i] = s.ics[i]

LEMMA RecordMarks ==
  ASSUME NEW s, Fe(s), NEW ic \in Icids, NEW b \in BOOLEAN, NEW on \in {"on", "off"}
  PROVE  Marked(s, Record([s EXCEPT !.ics[ic].on = b], on), ic, b)
<1> DEFINE t == [s EXCEPT !.ics[ic].on = b]
           c == [s.ics[ic] EXCEPT !.on = b]
           r == [t EXCEPT !.opened = on]
<1>1. Record(t, on) = IF t.shared THEN r ELSE t  BY DEF Record
<1>2. Fe(Record(t, on))  BY RecordTalks DEF Talks, Keeps
<1>3. t = [s EXCEPT !.ics = [s.ics EXCEPT ![ic] = c]]  BY DEF Fe, Fields
<1> s.ics[ic] \in ICs  BY DEF Fe
<1>4. c.on = b /\ c.siid = s.ics[ic].siid  BY DEF ICs
<1>5. c.shared = s.ics[ic].shared  BY DEF ICs
<1> HIDE DEF c
<1>6. /\ DOMAIN t = Fields /\ t.ics = [s.ics EXCEPT ![ic] = c] /\ t.pc = s.pc
      /\ t.focus = s.focus /\ t.inst = s.inst
  BY <1>3 DEF Fe, Fields
<1> HIDE DEF t
<1>7. r.ics = t.ics /\ r.pc = t.pc /\ r.focus = t.focus /\ r.inst = t.inst
  BY <1>6 DEF Fields
<1> HIDE DEF r
<1> DEFINE z == Record(t, on)
<1>8. z.ics = t.ics /\ z.pc = t.pc /\ z.focus = t.focus /\ z.inst = t.inst
  BY <1>1, <1>7
<1>9. Fe(z)  BY <1>2
<1> HIDE DEF z
<1>10. z.ics[ic] = c /\ \A i \in Icids : i # ic => z.ics[i] = s.ics[i]
  BY <1>6, <1>8 DEF Fe
<1>11. Marked(s, z, ic, b)
  BY <1>4, <1>5, <1>6, <1>8, <1>9, <1>10 DEF Marked
<1>12. QED  BY <1>11 DEF z, t

\* A mark changes no registration, and what is shown only if ic has the focus.
LEMMA MarkedAgrees ==
  ASSUME NEW s, Fe(s), NEW t, NEW ic \in Icids, NEW b, Marked(s, t, ic, b), NEW v, Good(v, s)
  PROVE  /\ Registered(v, t, {})
         /\ s.focus # ic => Displays(v, t)
<1>1. Registered(v, t, {})  BY DEF Marked, Good, Registered, Live
<1>2. ASSUME s.focus # ic  PROVE Displays(v, t)
  <2>1. t.focus = s.focus /\ t.inst = s.inst /\ s.focus \in Icids \cup {NoIcid}
    BY DEF Marked, Fe
  <2>2. s.focus # NoIcid => t.ics[s.focus] = s.ics[s.focus]  BY <1>2, <2>1 DEF Marked
  <2>3. Displays(v, s)  BY DEF Good
  <2>4. QED  BY <2>1, <2>2, <2>3 DEF Displays, Info
<1>3. QED  BY <1>1, <1>2

\* The focused IC is shown, or not heard of.
LEMMA Displayed ==
  ASSUME NEW s, NEW ic, s.focus = ic, NEW v,
         v.fresh \/ (v.cur = ic /\ Showing(v, s.ics[ic].on, Info(s, ic)))
  PROVE  Displays(v, s)
BY DEF Displays, Showing

\* Between s and t the panel keeps agreeing.
Agreeing(q, n, s, t, ic) ==
  /\ At(q, n, t, ic) /\ Good(View(q, n, t), t) /\ Refs(View(q, n, s), View(q, n, t), ic)

LEMMA AgreeingTrans ==
  ASSUME NEW q, NEW n, NEW s, NEW t, NEW r, NEW ic, Agreeing(q, n, s, t, ic),
         Agreeing(q, n, t, r, ic)
  PROVE  Agreeing(q, n, s, r, ic)
BY RefsTrans DEF Agreeing

LEMMA AgreeingSelf ==
  ASSUME NEW q, NEW n, NEW s, NEW ic, At(q, n, s, ic), Good(View(q, n, s), s)
  PROVE  Agreeing(q, n, s, s, ic)
BY DEF Agreeing, Refs

LEMMA HumsAgreeing ==
  ASSUME NEW q, NEW n, NEW ic, NEW s, NEW t, Hums(q, n, s, t, ic), Good(View(q, n, s), s)
  PROVE  Agreeing(q, n, s, t, ic)
BY HumsGood DEF Hums, Agreeing, Noise, Quiet

\* The rest of a step that tells the panel how the focused IC ic is.
LEMMA TellsAgreeing ==
  ASSUME NEW q, NEW n, NEW ic, NEW s, NEW t, Tells(q, n, s, t, ic), s.focus = ic,
         Registered(View(q, n, s), s, {}), Heard(View(q, n, s), ic),
         View(q, n, s).cur = ic => Showing(View(q, n, t), s.ics[ic].on, Info(s, ic))
  PROVE  Agreeing(q, n, s, t, ic)
<1> DEFINE v == View(q, n, s)  w == View(q, n, t)
<1>1. Quiet(v, w, ic) /\ Alike(s, t) /\ At(q, n, t, ic)  BY DEF Tells, Same, Alike
<1>2. w.uuid = v.uuid /\ w.cur = v.cur /\ w.fresh = v.fresh /\ Refs(v, w, ic)  BY <1>1 DEF Quiet
<1>3. Registered(w, t, {})  BY <1>1, <1>2, AlikeRegistered
<1>4. t.focus = ic /\ t.ics[ic].on = s.ics[ic].on /\ Info(t, ic) = Info(s, ic)
  BY <1>1 DEF Alike, Info
<1>5. w.fresh \/ (w.cur = ic /\ Showing(w, t.ics[ic].on, Info(t, ic)))
  BY <1>2, <1>4 DEF Heard
<1> HIDE DEF v, w
<1>6. Displays(w, t)  BY <1>4, <1>5, Displayed
<1>7. QED  BY <1>1, <1>2, <1>3, <1>6 DEF Agreeing, Good, v, w

LEMMA FocusInView ==
  ASSUME NEW q, NEW n, NEW ic \in Icids, NEW s, At(q, n, s, ic)
  PROVE  LET t == panel_req_focus_in(s, ic)
             v == View(q, n, s)
             w == View(q, n, t)
         IN /\ Same(s, t) /\ At(q, n, t, ic) /\ w.cur = ic /\ ~w.fresh /\ w.uuid = v.uuid
            /\ w.on = v.on /\ w.info = v.info /\ w.refused = v.refused
<1> DEFINE t == Put(s, ic, "FOCUS_IN", NoArg)
           v == View(q, n, s)
           w == View(q, n, t)
<1>1. Mid(n, s, ic) /\ PanelOK(v)  BY DEF At
<1>2. Same(s, t) /\ Mid(n, t, ic) /\ w = Apply(v, Cmd(ic, "FOCUS_IN", NoArg))
  BY <1>1, PutView
<1> HIDE DEF v, t, w
<1>3. /\ PanelOK(w) /\ w.cur = ic /\ ~w.fresh /\ w.uuid = v.uuid /\ w.on = v.on
      /\ w.info = v.info /\ w.refused = v.refused
  BY <1>1, <1>2, ApplyFocusIn
<1>4. At(q, n, t, ic)  BY <1>2, <1>3 DEF At, w
<1>5. panel_req_focus_in(s, ic) = t  BY DEF panel_req_focus_in, t
<1>6. QED  BY <1>2, <1>3, <1>4, <1>5 DEF v, w

LEMMA TurnOnAgrees ==
  ASSUME NEW q, NEW n, NEW ic \in Icids, NEW s, At(q, n, s, ic), Good(View(q, n, s), s), NEW e
  PROVE  Agreeing(q, n, s, ims_turn_on_ic(s, ic, e), ic)
<1> DEFINE a == Record([s EXCEPT !.ics[ic].on = TRUE], "on")
           b == panel_req_focus_in(a, ic)
           c == start_ic(b, ic, e)
           v == View(q, n, s)
           w == View(q, n, b)
<1>1. CASE s.ics[ic].on
  <2>1. ims_turn_on_ic(s, ic, e) = s  BY <1>1 DEF ims_turn_on_ic
  <2>2. QED  BY <2>1, AgreeingSelf
<1>2. CASE ~s.ics[ic].on
  <2>1. Fe(s)  BY DEF At, Mid
  <2>2. Marked(s, a, ic, TRUE)  BY <2>1, RecordMarks
  <2>3. ims_turn_on_ic(s, ic, e) = IF s.focus = ic THEN c ELSE a
    BY <1>2 DEF ims_turn_on_ic
  <2> HIDE DEF a
  <2>4. At(q, n, a, ic) /\ View(q, n, a) = v  BY <2>2, SamePcAt DEF Marked
  <2>5. Registered(v, a, {}) /\ (s.focus # ic => Displays(v, a))
    BY <2>1, <2>2, MarkedAgrees
  <2>6. CASE s.focus # ic
    <3>1. Agreeing(q, n, s, a, ic)
      BY <2>4, <2>5, <2>6 DEF Agreeing, Good, Refs
    <3>2. QED  BY <2>3, <2>6, <3>1
  <2>7. CASE s.focus = ic
    <3>1. /\ Same(a, b) /\ At(q, n, b, ic) /\ w.cur = ic /\ ~w.fresh /\ w.uuid = v.uuid
          /\ w.refused = v.refused
      BY <2>4, FocusInView
    <3> HIDE DEF b
    <3>2. Alike(a, b) /\ b.focus = ic /\ b.ics[ic].on = TRUE
      BY <2>2, <2>7, <3>1 DEF Marked, Same, Alike
    <3>3. Registered(w, b, {})  BY <2>5, <3>1, <3>2, AlikeRegistered
    <3>4. Tells(q, n, b, c, ic) /\ Showing(View(q, n, c), TRUE, Info(b, ic))
      BY <3>1, <3>2, StartShows
    <3>5. Showing(View(q, n, c), b.ics[ic].on, Info(b, ic))  BY <3>2, <3>4
    <3>6. Heard(w, ic)  BY <3>1 DEF Heard
    <3> HIDE DEF c
    <3>7. Agreeing(q, n, b, c, ic)  BY <3>2, <3>3, <3>4, <3>5, <3>6, TellsAgreeing
    <3>8. Refs(v, w, ic)  BY <3>1, <3>6 DEF Refs
    <3>9. Agreeing(q, n, s, c, ic)  BY <3>7, <3>8, RefsTrans DEF Agreeing
    <3>10. QED  BY <2>3, <2>7, <3>9
  <2>8. QED  BY <2>6, <2>7
<1>3. QED  BY <1>1, <1>2

LEMMA TurnOffAgrees ==
  ASSUME NEW q, NEW n, NEW ic \in Icids, NEW s, At(q, n, s, ic), Good(View(q, n, s), s), NEW e
  PROVE  LET t == ims_turn_off_ic(s, ic, e)
         IN Agreeing(q, n, s, t, ic) /\ ~t.ics[ic].on
<1> DEFINE a == Record([s EXCEPT !.ics[ic].on = FALSE], "off")
           c == stop_ic(a, ic, e)
           v == View(q, n, s)
<1>1. CASE ~s.ics[ic].on
  <2>1. ims_turn_off_ic(s, ic, e) = s  BY <1>1 DEF ims_turn_off_ic
  <2>2. QED  BY <1>1, <2>1, AgreeingSelf
<1>2. CASE s.ics[ic].on
  <2>1. Fe(s)  BY DEF At, Mid
  <2>2. Marked(s, a, ic, FALSE)  BY <2>1, RecordMarks
  <2>3. ims_turn_off_ic(s, ic, e) = IF s.focus = ic THEN c ELSE a
    BY <1>2 DEF ims_turn_off_ic
  <2> HIDE DEF a
  <2>4. At(q, n, a, ic) /\ View(q, n, a) = v  BY <2>2, SamePcAt DEF Marked
  <2>5. Registered(v, a, {}) /\ (s.focus # ic => Displays(v, a))
    BY <2>1, <2>2, MarkedAgrees
  <2>6. ~a.ics[ic].on  BY <2>2 DEF Marked
  <2>7. CASE s.focus # ic
    <3>1. Agreeing(q, n, s, a, ic)
      BY <2>4, <2>5, <2>7 DEF Agreeing, Good, Refs
    <3>2. QED  BY <2>3, <2>6, <2>7, <3>1
  <2>8. CASE s.focus = ic
    <3>1. a.focus = ic /\ a.ics[ic].on = FALSE  BY <2>2, <2>8 DEF Marked
    <3>2. /\ Tells(q, n, a, c, ic)
          /\ View(q, n, a).cur = ic => Showing(View(q, n, c), FALSE, Info(a, ic))
      BY <2>4, <3>1, StopShows
    <3>3. Heard(View(q, n, a), ic)  BY <2>4, <2>8, IcidIsOne, FocusHeard DEF Good
    <3>4. View(q, n, a).cur = ic => Showing(View(q, n, c), a.ics[ic].on, Info(a, ic))
      BY <3>1, <3>2
    <3>5. Registered(View(q, n, a), a, {})  BY <2>4, <2>5
    <3> HIDE DEF c
    <3>6. Agreeing(q, n, a, c, ic)  BY <3>1, <3>2, <3>3, <3>4, <3>5, TellsAgreeing
    <3>7. Agreeing(q, n, s, c, ic)  BY <2>4, <3>6 DEF Agreeing
    <3>8. ~c.ics[ic].on  BY <2>6, <3>2 DEF Tells, Same
    <3>9. QED  BY <2>3, <2>8, <3>7, <3>8
  <2>9. QED  BY <2>7, <2>8
<1>3. QED  BY <1>1, <1>2

-----------------------------------------------------------------------------
(* A change of the factory.                                                *)

\* Only instance k may differ.
Elsewhere(s, t, k) ==
  /\ t.ics = s.ics /\ t.focus = s.focus
  /\ \A m \in Siids : m # k => t.inst[m] = s.inst[m]

LEMMA InstRegistered ==
  ASSUME NEW s, NEW t, NEW k, Elsewhere(s, t, k), NEW v, NEW X, Registered(v, s, X),
         \A i \in Live(s) \ X : ~s.ics[i].shared => s.ics[i].siid \in Siids \ {k}
  PROVE  Registered(v, t, X)
BY DEF Elsewhere, Registered, Live

LEMMA InstDisplays ==
  ASSUME NEW s, NEW t, NEW k, Elsewhere(s, t, k), NEW v, Displays(v, s),
         s.focus # NoIcid /\ ~s.ics[s.focus].shared /\ s.ics[s.focus].on
           => s.ics[s.focus].siid \in Siids \ {k}
  PROVE  Displays(v, t)
BY DEF Elsewhere, Displays, Info

\* Two ICs that do not share have different instances.
LEMMA OtherInstances ==
  ASSUME NEW s, Ownership(s, {}), NEW ic \in Live(s), NEW i \in Live(s) \ {ic}, ~s.ics[i].shared
  PROVE  s.ics[i].siid \in Siids \ {s.ics[ic].siid}
BY DEF Ownership, Served

LEMMA FocusLive ==
  ASSUME NEW s, Fe(s), NEW X, Ownership(s, X), s.focus # NoIcid
  PROVE  s.focus \in Live(s)
BY DEF Fe, Ownership, Live

\* From s to t the panel's entry of ic became u, and nothing else changed.
Entered(q, n, s, t, ic, u) ==
  LET v == View(q, n, s)
      w == View(q, n, t)
  IN /\ Same(s, t) /\ At(q, n, t, ic) /\ w.cur = v.cur /\ w.fresh = v.fresh
     /\ w.on = v.on /\ w.info = v.info /\ w.refused = v.refused
     /\ \A i \in Icids : w.uuid[i] = IF i = ic THEN u ELSE v.uuid[i]

LEMMA RegisterView ==
  ASSUME NEW q, NEW n, NEW ic \in Icids, NEW s, At(q, n, s, ic),
         NEW cmd \in {"REGISTER", "REMOVE"}, NEW arg,
         NEW u, u = IF cmd = "REGISTER" THEN arg ELSE NoArg
  PROVE  Entered(q, n, s, Put(s, ic, cmd, arg), ic, u)
<1> DEFINE t == Put(s, ic, cmd, arg)
           v == View(q, n, s)
           w == View(q, n, t)
<1>1. Mid(n, s, ic) /\ PanelOK(v)  BY DEF At
<1>2. Same(s, t) /\ Mid(n, t, ic) /\ w = Apply(v, Cmd(ic, cmd, arg))
  BY <1>1, PutView
<1> HIDE DEF v, t, w
<1>3. /\ PanelOK(w) /\ w.cur = v.cur /\ w.last = v.last /\ w.on = v.on
      /\ w.info = v.info /\ w.fresh = v.fresh /\ w.refused = v.refused
      /\ w.uuid = [v.uuid EXCEPT ![ic] = u]
  BY <1>1, <1>2, ApplyRegister
<1>4. At(q, n, t, ic)  BY <1>2, <1>3 DEF At, w
<1>5. \A i \in Icids : w.uuid[i] = IF i = ic THEN u ELSE v.uuid[i]
  BY <1>1, <1>3 DEF PanelOK
<1>6. QED  BY <1>2, <1>3, <1>4, <1>5 DEF Entered, t, v, w

\* ic is registered with the factory of its instance.
LEMMA RegisterAgrees ==
  ASSUME NEW q, NEW n, NEW ic \in Icids, NEW s, At(q, n, s, ic),
         Registered(View(q, n, s), s, {ic}), NEW arg, arg = s.inst[s.ics[ic].siid]
  PROVE  LET t == Put(s, ic, "REGISTER", arg)
             v == View(q, n, s)
             w == View(q, n, t)
         IN /\ Same(s, t) /\ At(q, n, t, ic) /\ Registered(w, t, {})
            /\ Displays(v, s) => Displays(w, t)
            /\ w.cur = v.cur /\ w.fresh = v.fresh /\ w.refused = v.refused
<1> DEFINE t == Put(s, ic, "REGISTER", arg)
           v == View(q, n, s)
           w == View(q, n, t)
<1>1. /\ Same(s, t) /\ At(q, n, t, ic) /\ w.cur = v.cur /\ w.fresh = v.fresh
      /\ w.on = v.on /\ w.info = v.info /\ w.refused = v.refused
      /\ \A i \in Icids : w.uuid[i] = IF i = ic THEN arg ELSE v.uuid[i]
  <2>1. /\ arg = IF "REGISTER" = "REGISTER" THEN arg ELSE NoArg
        /\ "REGISTER" \in {"REGISTER", "REMOVE"}
    OBVIOUS
  <2>2. Entered(q, n, s, t, ic, arg)  BY <2>1, RegisterView
  <2> HIDE DEF t
  <2>3. QED  BY <2>2 DEF Entered
<1>2. Registered(v, s, {ic})  OBVIOUS
<1> HIDE DEF t, v, w
<1>3. Alike(s, t)  BY <1>1 DEF Same, Alike
<1>4. Registered(w, t, {})
  <2> SUFFICES ASSUME NEW i \in Live(t), ~t.ics[i].shared, w.uuid[i] # NoArg
               PROVE  w.uuid[i] = t.inst[t.ics[i].siid]
    BY DEF Registered
  <2>1. i \in Icids /\ i \in Live(s)  BY <1>3 DEF Live, Alike
  <2>2. CASE i = ic  BY <1>1, <1>3, <2>1, <2>2 DEF Alike
  <2>3. CASE i # ic
    <3>1. w.uuid[i] = v.uuid[i]  BY <1>1, <2>1, <2>3
    <3>2. QED  BY <1>2, <1>3, <2>1, <2>3, <3>1 DEF Registered, Alike
  <2>4. QED  BY <2>2, <2>3
<1>5. Displays(v, s) => Displays(w, t)  BY <1>1, <1>3, AlikeDisplays
<1>6. QED  BY <1>1, <1>4, <1>5 DEF t, v, w

\* The instance of an IC that is off is replaced.
LEMMA ReplaceAgrees ==
  ASSUME NEW q, NEW n, NEW ic, NEW s, At(q, n, s, ic), Good(View(q, n, s), s),
         Ownership(s, {}), ic \in Live(s), ~s.ics[ic].on, NEW u \in Uuids, NEW e
  PROVE  LET t == replace_instance(s, s.ics[ic].siid, u, e)
         IN /\ Keeps(s, t) /\ At(q, n, t, ic) /\ Refs(View(q, n, s), View(q, n, t), ic)
            /\ Registered(View(q, n, t), t, {ic}) /\ Displays(View(q, n, t), t)
            /\ t.inst[t.ics[ic].siid] = u
<1> DEFINE k == s.ics[ic].siid
           t == replace_instance(s, k, u, e)
           a == Engine(s, k, e)
           b == [a EXCEPT !.inst[k] = u]
<1>1. Fe(s) /\ ic \in Icids /\ k \in Siids /\ s.inst[k] # NoArg
  BY DEF At, Mid, Live, Ownership, Served
<1>2. Keeps(s, t)  BY <1>1, ReplaceKeeps
<1>3. CASE s.inst[k] = u
  <2>1. t = s  BY <1>3 DEF replace_instance
  <2>2. Registered(View(q, n, s), s, {ic})  BY DEF Good, Registered
  <2>3. QED  BY <1>2, <1>3, <2>1, <2>2 DEF Good, Refs
<1>4. CASE s.inst[k] # u
  <2>1. t = b  BY <1>4 DEF replace_instance
  <2>2. Hums(q, n, s, a, ic)  BY <1>1, EngineHums
  <2>3. Good(View(q, n, a), a)  BY <2>2, HumsGood
  <2>4. Same(s, a) /\ At(q, n, a, ic) /\ Fe(a) /\ Refs(View(q, n, s), View(q, n, a), ic)
    BY <2>2 DEF Hums, Same, Noise, Quiet
  <2> HIDE DEF a
  <2>5. /\ Fe(b) /\ b.ics = a.ics /\ b.pc = a.pc /\ b.focus = a.focus /\ b.inst[k] = u
        /\ \A m \in Siids : m # k => b.inst[m] = a.inst[m]
    BY <1>1, <2>4, SetInst
  <2> HIDE DEF b
  <2>6. At(q, n, b, ic) /\ View(q, n, b) = View(q, n, a)  BY <2>4, <2>5, SamePcAt
  <2>7. Ownership(a, {}) /\ Live(a) = Live(s) /\ a.ics = s.ics
    BY <2>4, SameOwnership DEF Same, Live
  <2>8. \A i \in Live(a) \ {ic} : ~a.ics[i].shared => a.ics[i].siid \in Siids \ {k}
    BY <2>7, OtherInstances
  <2>9. Elsewhere(a, b, k)  BY <2>5 DEF Elsewhere
  <2>10. Registered(View(q, n, a), a, {ic})  BY <2>3 DEF Good, Registered
  <2>11. Registered(View(q, n, b), b, {ic})  BY <2>6, <2>8, <2>9, <2>10, InstRegistered
  <2>12. a.focus # NoIcid => a.focus \in Live(a)  BY <2>4, <2>7, FocusLive
  <2>13. Displays(View(q, n, b), b)
    BY <2>3, <2>6, <2>7, <2>8, <2>9, <2>12, InstDisplays DEF Good
  <2>14. QED  BY <1>2, <2>1, <2>4, <2>5, <2>6, <2>7, <2>11, <2>13
<1>5. QED  BY <1>3, <1>4

LEMMA ChangeAgrees ==
  ASSUME NEW q, NEW n, NEW ic, NEW s, At(q, n, s, ic), Good(View(q, n, s), s),
         Ownership(s, {}), ic \in Live(s), NEW u \in Uuids, NEW e
  PROVE  Agreeing(q, n, s, ChangeFactory(s, ic, u, e), ic)
<1> DEFINE k == s.ics[ic].siid
           a == ims_turn_off_ic(s, ic, e)
           b == replace_instance(a, k, u, e)
           c == Put(b, ic, "REGISTER", b.inst[k])
           d == Engine(c, k, e)
           f == [d EXCEPT !.deff[s.ics[ic].lang] = u]
           h == ims_turn_on_ic(f, ic, e)
<1>1. ChangeFactory(s, ic, u, e) = h  BY DEF ChangeFactory
<1>2. Fe(s) /\ ic \in Icids /\ s.ics[ic].lang \in Langs
  BY DEF At, Mid, Live, Ownership, Served
<1>3. Agreeing(q, n, s, a, ic) /\ ~a.ics[ic].on  BY <1>2, TurnOffAgrees
<1>4. Keeps(s, a)  BY <1>2, TurnOffTalks DEF Talks
<1> HIDE DEF a
<1>5. Ownership(a, {}) /\ a.ics[ic].siid = k /\ ic \in Live(a)
  BY <1>2, <1>4, KeepsOwnership DEF Keeps, Live
<1>6. /\ Keeps(a, b) /\ At(q, n, b, ic) /\ Refs(View(q, n, a), View(q, n, b), ic)
      /\ Registered(View(q, n, b), b, {ic}) /\ Displays(View(q, n, b), b)
  <2>1. At(q, n, a, ic) /\ Good(View(q, n, a), a)  BY <1>3 DEF Agreeing
  <2> DEFINE r == replace_instance(a, a.ics[ic].siid, u, e)
  <2>2. /\ Keeps(a, r) /\ At(q, n, r, ic) /\ Refs(View(q, n, a), View(q, n, r), ic)
        /\ Registered(View(q, n, r), r, {ic}) /\ Displays(View(q, n, r), r)
    BY <1>3, <1>5, <2>1, ReplaceAgrees
  <2>3. r = b  BY <1>5
  <2> HIDE DEF r, b
  <2>4. QED  BY <2>2, <2>3
<1> HIDE DEF b
<1>7. b.ics[ic].siid = k  BY <1>2, <1>5, <1>6 DEF Keeps
<1>8. /\ Same(b, c) /\ At(q, n, c, ic) /\ Registered(View(q, n, c), c, {})
      /\ Displays(View(q, n, b), b) => Displays(View(q, n, c), c)
      /\ View(q, n, c).cur = View(q, n, b).cur /\ View(q, n, c).fresh = View(q, n, b).fresh
      /\ View(q, n, c).refused = View(q, n, b).refused
  BY <1>2, <1>6, <1>7, RegisterAgrees
<1> HIDE DEF c
<1>9. Agreeing(q, n, a, c, ic)
  <2>1. Refs(View(q, n, b), View(q, n, c), ic)  BY <1>8 DEF Refs, Heard
  <2>2. Refs(View(q, n, a), View(q, n, c), ic)  BY <1>6, <2>1, RefsTrans
  <2>3. QED  BY <1>6, <1>8, <2>2 DEF Agreeing, Good
<1>10. Hums(q, n, c, d, ic)  BY <1>2, <1>8, EngineHums
<1> HIDE DEF d
<1>11. Agreeing(q, n, c, d, ic)  BY <1>9, <1>10, HumsAgreeing DEF Agreeing
<1>12. Fe(d)  BY <1>10 DEF Hums, Same
<1>13. Agreeing(q, n, d, f, ic)
  <2> DEFINE z == [d.deff EXCEPT ![s.ics[ic].lang] = u]
  <2>1. f = [d EXCEPT !.deff = z]  BY <1>12 DEF Fe, Fields
  <2>2. z \in [Langs -> Uuids]  BY <1>12 DEF Fe
  <2> HIDE DEF z
  <2>3. /\ DOMAIN f = Fields /\ f.ics = d.ics /\ f.pc = d.pc
        /\ f.next = d.next /\ f.focus = d.focus /\ f.inst = d.inst
        /\ f.count = d.count /\ f.def = d.def /\ f.shared = d.shared
        /\ f.opened = d.opened /\ f.deff = z
    BY <1>12, <2>1 DEF Fe, Fields
  <2> HIDE DEF f
  <2>4. Fe(f) /\ Alike(d, f)  BY <1>12, <2>2, <2>3 DEF Fe, Alike
  <2>5. At(q, n, f, ic) /\ View(q, n, f) = View(q, n, d)
    BY <1>11, <2>3, <2>4, SamePcAt DEF Agreeing
  <2>6. Good(View(q, n, d), d)  BY <1>11 DEF Agreeing
  <2>7. Good(View(q, n, f), f)  BY <2>4, <2>5, <2>6, AlikeRegistered, AlikeDisplays DEF Good
  <2>8. QED  BY <2>5, <2>7 DEF Agreeing, Refs
<1> HIDE DEF f
<1>14. Agreeing(q, n, f, h, ic)  BY <1>2, <1>13, TurnOnAgrees DEF Agreeing
<1> HIDE DEF h
<1>15. QED  BY <1>1, <1>3, <1>9, <1>11, <1>13, <1>14, AgreeingTrans

LEMMA HotkeysAgree ==
  ASSUME NEW q, NEW n, NEW ic, NEW s, At(q, n, s, ic), Good(View(q, n, s), s),
         Ownership(s, {}), ic \in Live(s), NEW key, NEW e
  PROVE  Agreeing(q, n, s, filter_hotkeys(s, ic, key, e), ic)
<1>1. ic \in Icids  BY DEF Live
<1>2. /\ Agreeing(q, n, s, ims_turn_on_ic(s, ic, e), ic)
      /\ Agreeing(q, n, s, ims_turn_off_ic(s, ic, e), ic)
  BY <1>1, TurnOnAgrees, TurnOffAgrees
<1>3. Agreeing(q, n, s, Put(s, ic, "UPDATE", NoArg), ic)  BY <1>1, PutHums, HumsAgreeing
<1>4. key \in Uuids => Agreeing(q, n, s, ChangeFactory(s, ic, key, e), ic)  BY ChangeAgrees
<1>5. Agreeing(q, n, s, Engine(s, s.ics[ic].siid, e), ic)  BY <1>1, EngineHums, HumsAgreeing
<1>6. Agreeing(q, n, s, s, ic)  BY AgreeingSelf
<1>7. QED  BY <1>2, <1>3, <1>4, <1>5, <1>6 DEF filter_hotkeys

-----------------------------------------------------------------------------
(* Handlers, from one state without a transaction to the next.             *)

\* Between two handlers: what the panel, from q on, makes of what was written.
RV(q, n, s) == FoldLeft(Apply, q, Behind(s.pc.wire, n))

Rest(q, n, s) ==
  /\ s.pc.up /\ IsSeq(s.pc.wire) /\ n \in 0..Len(s.pc.wire) /\ PanelOK(RV(q, n, s))

Fine(q, n, s) == Rest(q, n, s) /\ Good(RV(q, n, s), s)

\* From s to r the panel refuses nothing to the IC that has the focus then.
Polite(q, n, s, r) ==
  RV(q, n, s).refused = {} /\ r.focus # NoIcid /\ ~r.ics[r.focus].shared
    => r.focus \notin RV(q, n, r).refused

LEMMA BeginView ==
  ASSUME NEW q, NEW n, NEW s, Fe(s), Rest(q, n, s), s.pc.ref = 0, NEW ic \in Icids
  PROVE  LET b == Begin(s, ic)
         IN Same(s, b) /\ At(q, n, b, ic) /\ View(q, n, b) = RV(q, n, s)
<1> DEFINE b == Begin(s, ic)
           p == prepare(s.pc, ic)
           w == Behind(s.pc.wire, n)
<1>1. Same(s, b) /\ InTrans(b, ic)  BY BeginTrans
<1>2. b = [s EXCEPT !.pc = p]  BY DEF Begin
<1>3. p.up /\ p.wire = s.pc.wire /\ p.trans = <<>>  BY DEF Fe, Rest, prepare
<1> HIDE DEF b, p
<1>4. b.pc = p  BY <1>2 DEF Fe, Fields
<1>5. IsSeq(w)  BY BehindAll DEF Rest
<1>6. w \o <<>> = w  BY <1>5, BehindNothing
<1> HIDE DEF w
<1>7. View(q, n, b) = RV(q, n, s)  BY <1>3, <1>4, <1>6 DEF View, RV, w
<1>8. Mid(n, b, ic)  BY <1>1, <1>3, <1>4, NothingSeq DEF Mid, Rest, Same
<1>9. QED  BY <1>1, <1>7, <1>8 DEF At, Rest, b

LEMMA EndView ==
  ASSUME NEW q, NEW n, NEW ic, NEW s, At(q, n, s, ic)
  PROVE  LET r == End(s)
         IN Same(s, r) /\ Rest(q, n, r) /\ RV(q, n, r) = View(q, n, s) /\ r.pc.ref = 0
<1> DEFINE r == End(s)
           p == send(s.pc)
           x == s.pc.wire \o s.pc.trans
<1>1. Mid(n, s, ic) /\ PanelOK(View(q, n, s))  BY DEF At
<1>2. Same(s, r) /\ r.pc.ref = 0  BY <1>1, EndTrans DEF Mid
<1>3. r = [s EXCEPT !.pc = p]  BY DEF End
<1>4. IsSeq(s.pc.wire) /\ IsSeq(s.pc.trans) /\ n \in 0..Len(s.pc.wire)  BY <1>1 DEF Mid
<1>5. IsSeq(x)  BY <1>4, Joined
<1>6. Behind(x, n) = Behind(s.pc.wire, n) \o s.pc.trans /\ n \in 0..Len(x)
  BY <1>4, BehindJoin
<1>7. p = [s.pc EXCEPT !.ref = 0, !.cur = NoIcid, !.trans = <<>>, !.wire = x]
  BY <1>1 DEF Mid, InTrans, send
<1> HIDE DEF x
<1>8. p.up /\ p.wire = x  BY <1>1, <1>7 DEF Mid, Fe
<1> HIDE DEF r, p
<1>9. r.pc = p  BY <1>1, <1>3 DEF Mid, Fe, Fields
<1>10. RV(q, n, r) = View(q, n, s)  BY <1>6, <1>8, <1>9 DEF RV, View
<1>11. Rest(q, n, r)  BY <1>1, <1>5, <1>6, <1>8, <1>9, <1>10 DEF Rest
<1>12. QED  BY <1>2, <1>10, <1>11 DEF r

Shape(r) == DOMAIN r = Fields /\ DOMAIN r.pc = {"up", "ref", "cur", "trans", "wire"}

LEMMA FeShape ==
  ASSUME NEW s, Fe(s)
  PROVE  Shape(s)
BY DEF Fe, Shape

\* The end of a handler, as the panel will see it.
LEMMA Carried ==
  ASSUME NEW q, NEW n, alive, NEW ic, NEW r, Handle(ic, r), Shape(r), Fine(q, n, r),
         Polite(q, n, fe, r)
  PROVE  Fine(q, n, fe') /\ Polite(q, n, fe, fe')
<1> DEFINE p == [r.pc EXCEPT !.wire = r.pc.wire]
<1>1. fe' = [r EXCEPT !.by = ic, !.pc = p]  BY DEF Handle, Shape, Fields
<1>2. p.wire = r.pc.wire /\ p.up = r.pc.up  BY DEF Shape
<1> HIDE DEF p
<1>3. fe'.pc = p /\ Alike(r, fe')  BY <1>1 DEF Shape, Fields, Alike
<1>4. RV(q, n, fe') = RV(q, n, r)  BY <1>2, <1>3 DEF RV
<1>5. Good(RV(q, n, fe'), fe')
  BY <1>3, <1>4, AlikeRegistered, AlikeDisplays DEF Fine, Good
<1>6. Rest(q, n, fe')  BY <1>2, <1>3, <1>4 DEF Fine, Rest
<1>7. QED  BY <1>3, <1>4, <1>5, <1>6 DEF Fine, Polite, Alike

\* A handler that only talks.
LEMMA TalkingAgrees ==
  ASSUME XInv, alive, NEW q, NEW n, Fine(q, n, fe), NEW ic \in Live(fe), NEW t,
         Keeps(Begin(Now, ic), t), Handle(ic, End(t)),
         LET b == Begin(Now, ic)
         IN At(q, n, b, ic) /\ Good(View(q, n, b), b) => Agreeing(q, n, b, t, ic)
  PROVE  Fine(q, n, fe') /\ Polite(q, n, fe, fe')
<1> DEFINE b == Begin(Now, ic)  r == End(t)
<1>1. Fe(fe) /\ fe.pc.ref = 0 /\ ic \in Icids  BY DEF XInv, Live
<1>2. Same(fe, Now) /\ Fe(Now) /\ Now.pc = fe.pc  BY <1>1, NowSame DEF Same
<1>3. RV(q, n, Now) = RV(q, n, fe) /\ Rest(q, n, Now)  BY <1>2 DEF RV, Rest, Fine
<1>4. Same(Now, b) /\ At(q, n, b, ic) /\ View(q, n, b) = RV(q, n, fe)
  BY <1>1, <1>2, <1>3, BeginView
<1>5. Same(fe, b) /\ Alike(fe, b)  BY <1>2, <1>4, SameTrans DEF Same, Alike
<1>6. Good(View(q, n, b), b)
  BY <1>4, <1>5, AlikeRegistered, AlikeDisplays DEF Good, Fine
<1>7. Agreeing(q, n, b, t, ic) /\ Keeps(b, t)  BY <1>4, <1>6
<1> HIDE DEF b
<1>8. Same(t, r) /\ Rest(q, n, r) /\ RV(q, n, r) = View(q, n, t)
  BY <1>7, EndView DEF Agreeing
<1>9. Handle(ic, r)  OBVIOUS
<1> HIDE DEF r
<1>10. Fe(r) /\ Alike(t, r)  BY <1>8 DEF Same, Alike
<1>11. Fine(q, n, r)
  BY <1>7, <1>8, <1>10, AlikeRegistered, AlikeDisplays DEF Fine, Good, Agreeing
<1>12. Polite(q, n, fe, r)
  <2> SUFFICES ASSUME RV(q, n, fe).refused = {}, r.focus # NoIcid
               PROVE  r.focus \notin RV(q, n, r).refused
    BY DEF Polite
  <2>1. r.focus = fe.focus /\ b.focus = fe.focus
    BY <1>5, <1>7, <1>10 DEF Keeps, Alike
  <2>2. Refs(RV(q, n, fe), RV(q, n, r), ic)  BY <1>4, <1>7, <1>8 DEF Agreeing
  <2>3. CASE fe.focus = ic
    <3>1. Heard(RV(q, n, fe), ic)  BY <2>1, <2>3, FocusHeard DEF Fine, Good
    <3>2. QED  BY <2>2, <3>1 DEF Refs
  <2>4. CASE fe.focus # ic  BY <2>1, <2>2, <2>4 DEF Refs
  <2>5. QED  BY <2>3, <2>4
<1>13. QED  BY <1>9, <1>10, <1>11, <1>12, FeShape, Carried

LEMMA SetValuesAgrees ==
  ASSUME XInv, alive, NEW q, NEW n, Fine(q, n, fe), NEW ic \in Icids, NEW e,
         ims_set_ic_values_handler(ic, e)
  PROVE  Fine(q, n, fe') /\ Polite(q, n, fe, fe')
<1> DEFINE b == Begin(Now, ic)
           c == IF fe.focus = ic THEN Put(b, ic, "UPDATE", NoArg) ELSE b
           t == Engine(c, fe.ics[ic].siid, e)
<1>1. ic \in Live(fe) /\ Handle(ic, End(t))  BY DEF ims_set_ic_values_handler
<1>2. Fe(b) /\ b.ics = fe.ics  BY <1>1, Begun DEF Same
<1> HIDE DEF b
<1>3. Talks(b, c, ic)  BY <1>2, PutTalks, TalksSelf
<1>4. ASSUME At(q, n, b, ic)  PROVE Hums(q, n, b, c, ic)  BY <1>4, PutHums, TellsSelf
<1> HIDE DEF c
<1>5. Fe(c) /\ Keeps(b, c)  BY <1>3, TalksFe DEF Talks
<1>6. Keeps(c, t)  BY <1>5, EngineKeeps
<1>7. ASSUME At(q, n, b, ic), Good(View(q, n, b), b)  PROVE Agreeing(q, n, b, t, ic)
  <2>1. Hums(q, n, b, c, ic) /\ At(q, n, c, ic)  BY <1>4, <1>7 DEF Hums
  <2>2. Hums(q, n, c, t, ic)  BY <2>1, EngineHums
  <2>3. QED  BY <1>7, <2>1, <2>2, HumsTrans, HumsAgreeing
<1> HIDE DEF t
<1>8. Keeps(b, t)  BY <1>5, <1>6, KeepsTrans
<1>9. QED  BY <1>1, <1>7, <1>8, TalkingAgrees DEF b

LEMMA CallAgrees ==
  ASSUME XInv, alive, NEW q, NEW n, Fine(q, n, fe), NEW ic \in Icids, NEW e,
         CallInstance(ic, e)
  PROVE  Fine(q, n, fe') /\ Polite(q, n, fe, fe')
<1> DEFINE b == Begin(Now, ic)  t == Engine(b, fe.ics[ic].siid, e)
<1>1. ic \in Live(fe) /\ Handle(ic, End(t))  BY DEF CallInstance
<1>2. Fe(b)  BY <1>1, Begun
<1> HIDE DEF b
<1>3. Keeps(b, t)  BY <1>2, EngineKeeps
<1>4. ASSUME At(q, n, b, ic), Good(View(q, n, b), b)  PROVE Agreeing(q, n, b, t, ic)
  BY <1>4, EngineHums, HumsAgreeing
<1> HIDE DEF t
<1>5. QED  BY <1>1, <1>3, <1>4, TalkingAgrees DEF b

LEMMA TriggerAgrees ==
  ASSUME XInv, alive, NEW q, NEW n, Fine(q, n, fe), NEW ic \in Icids, NEW flag, NEW e,
         ims_trigger_notify_handler(ic, flag, e)
  PROVE  Fine(q, n, fe') /\ Polite(q, n, fe, fe')
<1> DEFINE b == Begin(Now, ic)
           t == IF flag THEN ims_turn_off_ic(b, ic, e) ELSE ims_turn_on_ic(b, ic, e)
<1>1. ic \in Live(fe) /\ Handle(ic, End(t))  BY DEF ims_trigger_notify_handler
<1>2. Fe(b)  BY <1>1, Begun
<1> HIDE DEF b
<1>3. Keeps(b, t)  BY <1>2, TurnOnTalks, TurnOffTalks DEF Talks
<1>4. ASSUME At(q, n, b, ic), Good(View(q, n, b), b)  PROVE Agreeing(q, n, b, t, ic)
  BY <1>4, TurnOnAgrees, TurnOffAgrees
<1> HIDE DEF t
<1>5. QED  BY <1>1, <1>3, <1>4, TalkingAgrees DEF b

LEMMA FallbackAgrees ==
  ASSUME NEW q, NEW n, NEW ic, NEW s, NEW t, Fe(t), NEW f, Agreeing(q, n, s, t, ic)
  PROVE  Agreeing(q, n, s, Fallback(t, f), ic)
<1> DEFINE u == Fallback(t, f)
<1>1. Same(t, u) /\ u.pc = t.pc  BY FallbackSame
<1> HIDE DEF u
<1>2. Alike(t, u) /\ View(q, n, u) = View(q, n, t)  BY <1>1, SameView DEF Same, Alike
<1>3. At(q, n, u, ic)  BY <1>1, SamePcAt DEF Agreeing, Same
<1>4. Good(View(q, n, u), u)  BY <1>2, AlikeRegistered, AlikeDisplays DEF Agreeing, Good
<1>5. QED  BY <1>2, <1>3, <1>4 DEF Agreeing, u

LEMMA KeyAgrees ==
  ASSUME XInv, alive, NEW q, NEW n, Fine(q, n, fe), NEW ic \in Icids, NEW key, NEW e, NEW f,
         process_key_event(ic, key, e, f)
  PROVE  Fine(q, n, fe') /\ Polite(q, n, fe, fe')
<1> DEFINE b == Begin(Now, ic)
           t == IF fe.focus = ic THEN filter_hotkeys(b, ic, key, e)
                ELSE IF b.ics[ic].on THEN Engine(b, b.ics[ic].siid, e) ELSE b
           u == Fallback(t, f)
<1>1. ic \in Live(fe) /\ Handle(ic, End(u))  BY DEF process_key_event
<1>2. Fe(b) /\ Served(b, ic) /\ Ownership(b, {}) /\ ic \in Live(b)  BY <1>1, Begun
<1> HIDE DEF b
<1>3. Keeps(b, t)
  BY <1>2, HotkeysTalk, EngineTalks, TalksSelf DEF Talks
<1>4. ASSUME At(q, n, b, ic), Good(View(q, n, b), b)  PROVE Agreeing(q, n, b, t, ic)
  <2>1. Agreeing(q, n, b, filter_hotkeys(b, ic, key, e), ic)  BY <1>2, <1>4, HotkeysAgree
  <2>2. Agreeing(q, n, b, Engine(b, b.ics[ic].siid, e), ic)  BY <1>4, EngineHums, HumsAgreeing
  <2>3. Agreeing(q, n, b, b, ic)  BY <1>4, AgreeingSelf
  <2>4. QED  BY <2>1, <2>2, <2>3
<1> HIDE DEF t
<1>5. Fe(t) /\ Keeps(b, u)  BY <1>3, FallbackKeeps DEF Keeps
<1>6. ASSUME At(q, n, b, ic), Good(View(q, n, b), b)  PROVE Agreeing(q, n, b, u, ic)
  BY <1>4, <1>5, <1>6, FallbackAgrees
<1> HIDE DEF u
<1>7. QED  BY <1>1, <1>5, <1>6, TalkingAgrees DEF b

LEMMA ChangeFactoryAgrees ==
  ASSUME XInv, alive, NEW q, NEW n, Fine(q, n, fe), NEW ic \in Icids,
         NEW u \in Uuids \cup {NoArg}, NEW e, panel_slot_change_factory(ic, u, e)
  PROVE  Fine(q, n, fe') /\ Polite(q, n, fe, fe')
<1> DEFINE b == Begin(Now, ic)
           o == Put(update_factory_info(b, ic), ic, "TURN_OFF", NoArg)
           t == IF u # NoArg THEN ChangeFactory(b, ic, u, e)
                ELSE IF fe.ics[ic].on THEN ims_turn_off_ic(b, ic, e) ELSE o
<1>1. ic \in Live(fe) /\ Handle(ic, End(t))  BY DEF panel_slot_change_factory
<1>2. Fe(b) /\ Served(b, ic) /\ Ownership(b, {}) /\ ic \in Live(b) /\ b.ics = fe.ics
  BY <1>1, Begun DEF Same
<1> HIDE DEF b
<1>3. Talks(b, o, ic)
  <2> DEFINE a == update_factory_info(b, ic)
  <2>1. Talks(b, a, ic) /\ Fe(a)  BY <1>2, UpdateTalks, TalksFe
  <2> HIDE DEF a
  <2>2. Talks(a, Put(a, ic, "TURN_OFF", NoArg), ic)  BY <2>1, PutTalks
  <2>3. QED  BY <2>1, <2>2, TalksTrans DEF a
<1>4. ASSUME At(q, n, b, ic), Good(View(q, n, b), b), ~b.ics[ic].on  PROVE Agreeing(q, n, b, o, ic)
  <2> DEFINE v == View(q, n, b)  w == View(q, n, o)
  <2>1. /\ Tells(q, n, b, o, ic) /\ Steady(v, w, ic)
        /\ b.focus = ic /\ v.cur = ic => Showing(w, FALSE, Info(b, ic))
    BY <1>4, OffShows
  <2> HIDE DEF o
  <2>2. CASE b.focus = ic
    <3>1. Heard(v, ic)  BY <1>4, <2>2, IcidIsOne, FocusHeard DEF Good
    <3>2. Registered(v, b, {})  BY <1>4 DEF Good
    <3>3. b.ics[ic].on = FALSE
      <4>1. b.ics[ic] \in ICs  BY <1>2 DEF Fe
      <4>2. QED  BY <1>4, <4>1 DEF ICs
    <3>4. v.cur = ic => Showing(w, b.ics[ic].on, Info(b, ic))  BY <2>1, <2>2, <3>3
    <3>5. QED  BY <2>1, <2>2, <3>1, <3>2, <3>4, TellsAgreeing
  <2>3. CASE b.focus # ic
    <3>1. /\ Alike(b, o) /\ At(q, n, o, ic) /\ Refs(v, w, ic) /\ w.uuid = v.uuid
          /\ w.cur = v.cur /\ w.fresh = v.fresh
      BY <2>1 DEF Tells, Quiet, Same, Alike
    <3>2. Registered(w, o, {})  BY <1>4, <3>1, AlikeRegistered DEF Good
    <3> HIDE DEF v, w
    <3>3. Displays(v, b)  BY <1>4 DEF Good, v
    <3>4. Displays(w, o)
      <4>1. CASE b.focus # NoIcid /\ ~v.fresh
        <5>1. v.cur = b.focus  BY <3>3, <4>1 DEF Displays
        <5>2. w.on = v.on /\ w.info = v.info  BY <2>1, <2>3, <4>1, <5>1 DEF Steady
        <5>3. QED  BY <3>1, <3>3, <5>2, AlikeDisplays
      <4>2. CASE ~(b.focus # NoIcid /\ ~v.fresh)  BY <3>1, <4>2 DEF Displays, Alike
      <4>3. QED  BY <4>1, <4>2
    <3>5. QED  BY <3>1, <3>2, <3>4 DEF Agreeing, Good, v, w
  <2>4. QED  BY <2>2, <2>3
<1> HIDE DEF o
<1>5. Keeps(b, t)
  BY <1>2, <1>3, ChangeTalks, TurnOffTalks DEF Talks
<1>6. ASSUME At(q, n, b, ic), Good(View(q, n, b), b)  PROVE Agreeing(q, n, b, t, ic)
  <2>1. u \in Uuids => Agreeing(q, n, b, ChangeFactory(b, ic, u, e), ic)
    BY <1>2, <1>6, ChangeAgrees
  <2>2. Agreeing(q, n, b, ims_turn_off_ic(b, ic, e), ic)  BY <1>6, TurnOffAgrees
  <2>3. QED  BY <1>2, <1>4, <1>6, <2>1, <2>2
<1> HIDE DEF t
<1>7. QED  BY <1>1, <1>5, <1>6, TalkingAgrees DEF b

-----------------------------------------------------------------------------
(* The focus leaves an IC; an IC is destroyed.                             *)

LEMMA FocusOutView ==
  ASSUME NEW q, NEW n, NEW ic \in Icids, NEW s, At(q, n, s, ic)
  PROVE  LET t == Put(s, ic, "FOCUS_OUT", NoArg)
             v == View(q, n, s)
             w == View(q, n, t)
         IN /\ Same(s, t) /\ At(q, n, t, ic) /\ w.uuid = v.uuid
            /\ Heard(v, ic) => w.refused = v.refused
<1> DEFINE t == Put(s, ic, "FOCUS_OUT", NoArg)
           v == View(q, n, s)
           w == View(q, n, t)
<1>1. Mid(n, s, ic) /\ PanelOK(v)  BY DEF At
<1>2. Same(s, t) /\ Mid(n, t, ic) /\ w = Apply(v, Cmd(ic, "FOCUS_OUT", NoArg))
  BY <1>1, PutView
<1> HIDE DEF v, t, w
<1>3. /\ PanelOK(w) /\ w.uuid = v.uuid
      /\ Heard(v, ic) => w.refused = v.refused
  BY <1>1, <1>2, ApplyFocusOut
<1>4. At(q, n, t, ic)  BY <1>2, <1>3 DEF At, w
<1>5. QED  BY <1>2, <1>3, <1>4 DEF t, v, w

\* What Begin leaves, as the panel will see it.
LEMMA BegunView ==
  ASSUME XInv, NEW q, NEW n, Fine(q, n, fe), NEW ic \in Icids
  PROVE  LET b == Begin(Now, ic)
         IN /\ Same(fe, b) /\ At(q, n, b, ic) /\ View(q, n, b) = RV(q, n, fe)
            /\ Good(View(q, n, b), b)
<1> DEFINE b == Begin(Now, ic)
<1>1. Fe(fe) /\ fe.pc.ref = 0  BY DEF XInv
<1>2. Same(fe, Now) /\ Fe(Now) /\ Now.pc = fe.pc  BY <1>1, NowSame DEF Same
<1>3. RV(q, n, Now) = RV(q, n, fe) /\ Rest(q, n, Now)  BY <1>2 DEF RV, Rest, Fine
<1>4. Same(Now, b) /\ At(q, n, b, ic) /\ View(q, n, b) = RV(q, n, fe)
  BY <1>1, <1>2, <1>3, BeginView
<1> HIDE DEF b
<1>5. Same(fe, b) /\ Alike(fe, b)  BY <1>2, <1>4, SameTrans DEF Same, Alike
<1>6. Good(View(q, n, b), b)
  BY <1>4, <1>5, AlikeRegistered, AlikeDisplays DEF Good, Fine
<1>7. QED  BY <1>4, <1>5, <1>6 DEF b

\* The IC that has the focus is stopped, and leaves it.
LEMMA StopAndLeave ==
  ASSUME NEW q, NEW n, NEW ic \in Icids, NEW s, At(q, n, s, ic), NEW e,
         Registered(View(q, n, s), s, {})
  PROVE  LET t == Put(stop_ic(s, ic, e), ic, "FOCUS_OUT", NoArg)
         IN /\ Same(s, t) /\ At(q, n, t, ic) /\ Registered(View(q, n, t), t, {})
            /\ Heard(View(q, n, s), ic) => View(q, n, t).refused = View(q, n, s).refused
<1> DEFINE a == stop_ic(s, ic, e)
           t == Put(a, ic, "FOCUS_OUT", NoArg)
           u == View(q, n, a)
           v == View(q, n, s)
           w == View(q, n, t)
<1>1. Tells(q, n, s, a, ic)  BY StopShows
<1> HIDE DEF a
<1>2. /\ Same(s, a) /\ At(q, n, a, ic) /\ u.uuid = v.uuid
      /\ Heard(v, ic) => u.refused = v.refused /\ Heard(u, ic)
  BY <1>1 DEF Tells, Quiet, Refs
<1>3. /\ Same(a, t) /\ At(q, n, t, ic) /\ w.uuid = u.uuid
      /\ Heard(u, ic) => w.refused = u.refused
  BY <1>2, FocusOutView
<1> HIDE DEF t
<1>4. Same(s, t) /\ Alike(s, t)  BY <1>2, <1>3, SameTrans DEF Same, Alike
<1>5. Registered(w, t, {})  BY <1>2, <1>3, <1>4, AlikeRegistered
<1>6. QED  BY <1>2, <1>3, <1>4, <1>5 DEF a, t

LEMMA UnsetAgrees ==
  ASSUME XInv, alive, NEW q, NEW n, Fine(q, n, fe), NEW ic \in Icids, NEW e,
         ims_unset_ic_focus_handler(ic, e)
  PROVE  Fine(q, n, fe') /\ Polite(q, n, fe, fe')
<1> DEFINE b == Begin(Now, ic)
           t == Put(stop_ic(b, ic, e), ic, "FOCUS_OUT", NoArg)
           r == End(t)
           z == [r EXCEPT !.focus = NoIcid]
<1>1. Handle(ic, z)  BY DEF ims_unset_ic_focus_handler
<1>2. At(q, n, b, ic) /\ Good(View(q, n, b), b)  BY BegunView
<1> HIDE DEF b
<1>3. At(q, n, t, ic) /\ Registered(View(q, n, t), t, {})
  BY <1>2, StopAndLeave DEF Good
<1> HIDE DEF t
<1>4. Same(t, r) /\ Rest(q, n, r) /\ RV(q, n, r) = View(q, n, t)  BY <1>3, EndView
<1> HIDE DEF r
<1>5. Fe(r) /\ Alike(t, r)  BY <1>4 DEF Same, Alike
<1>6. Registered(RV(q, n, r), r, {})  BY <1>3, <1>4, <1>5, AlikeRegistered
<1>7. /\ Shape(z) /\ z.focus = NoIcid /\ z.ics = r.ics /\ z.inst = r.inst /\ z.pc = r.pc
  BY <1>5 DEF Fe, Fields, Shape
<1> HIDE DEF z
<1>8. RV(q, n, z) = RV(q, n, r)  BY <1>7 DEF RV
<1>9. Registered(RV(q, n, z), z, {})  BY <1>6, <1>7, <1>8 DEF Registered, Live
<1>10. Fine(q, n, z) /\ Polite(q, n, fe, z)
  BY <1>4, <1>7, <1>8, <1>9 DEF Fine, Rest, Good, Displays, Polite
<1>11. QED  BY <1>1, <1>7, <1>10, Carried

LEMMA ReloadAgrees ==
  ASSUME XInv, alive, NEW q, NEW n, Fine(q, n, fe), reload_config_callback
  PROVE  Fine(q, n, fe') /\ Polite(q, n, fe, fe')
<1> DEFINE z == [Now EXCEPT !.shared = ~@]
<1>1. Handle(NoIcid, z)  BY DEF reload_config_callback
<1>2. Fe(fe)  BY DEF XInv
<1>3. Same(fe, Now) /\ Now.pc = fe.pc  BY <1>2, NowSame
<1>4. Shape(z) /\ z.focus = fe.focus /\ z.ics = fe.ics /\ z.inst = fe.inst /\ z.pc = fe.pc
  BY <1>3 DEF Same, Fe, Fields, Shape
<1> HIDE DEF z
<1>5. Alike(fe, z) /\ RV(q, n, z) = RV(q, n, fe)  BY <1>4 DEF Alike, RV
<1>6. Fine(q, n, z)
  BY <1>4, <1>5, AlikeRegistered, AlikeDisplays DEF Fine, Rest, Good
<1>7. Polite(q, n, fe, z)  BY <1>5 DEF Polite
<1>8. QED  BY <1>1, <1>4, <1>6, <1>7, Carried

\* An instance is deleted in a transaction of its IC.
Deletable(q, n, s, ic) ==
  /\ At(q, n, s, ic) /\ Registered(View(q, n, s), s, {}) /\ Ownership(s, {}) /\ ic \in Live(s)

Deleted(q, n, s, t, ic) ==
  /\ At(q, n, t, ic) /\ Registered(View(q, n, t), t, {ic}) /\ t.ics = s.ics

LEMMA DeleteView ==
  ASSUME NEW q, NEW n, NEW ic, NEW s, Deletable(q, n, s, ic), NEW e,
         NEW t, t = delete_instance(s, s.ics[ic].siid, e)
  PROVE  Deleted(q, n, s, t, ic)
<1> DEFINE k == s.ics[ic].siid
           a == Engine(s, k, e)
           b == [a EXCEPT !.inst[k] = NoArg]
<1>0. At(q, n, s, ic) /\ Registered(View(q, n, s), s, {}) /\ Ownership(s, {}) /\ ic \in Live(s)
  BY DEF Deletable
<1>1. Fe(s) /\ ic \in Icids /\ k \in Siids
  BY <1>0 DEF At, Mid, Live, Ownership, Served
<1>2. t = b  BY DEF delete_instance
<1>3. Hums(q, n, s, a, ic)  BY <1>0, <1>1, EngineHums
<1>4. Same(s, a) /\ At(q, n, a, ic) /\ Fe(a) /\ View(q, n, a).uuid = View(q, n, s).uuid
  BY <1>3 DEF Hums, Same, Noise, Quiet
<1> HIDE DEF a
<1>5. /\ Fe(b) /\ b.ics = a.ics /\ b.pc = a.pc /\ b.focus = a.focus
      /\ \A m \in Siids : m # k => b.inst[m] = a.inst[m]
  BY <1>1, <1>4, SetInst
<1> HIDE DEF b
<1>6. At(q, n, b, ic) /\ View(q, n, b) = View(q, n, a)  BY <1>4, <1>5, SamePcAt
<1>7. Ownership(a, {}) /\ Live(a) = Live(s) /\ a.ics = s.ics /\ Alike(s, a)
  BY <1>0, <1>4, SameOwnership DEF Same, Live, Alike
<1>8. \A i \in Live(a) \ {ic} : ~a.ics[i].shared => a.ics[i].siid \in Siids \ {k}
  BY <1>0, <1>7, OtherInstances
<1>9. Elsewhere(a, b, k)  BY <1>5 DEF Elsewhere
<1>10. Registered(View(q, n, a), a, {})  BY <1>0, <1>4, <1>7, AlikeRegistered
<1>11. Registered(View(q, n, a), a, {ic})  BY <1>10 DEF Registered
<1>12. Registered(View(q, n, b), b, {ic})  BY <1>6, <1>8, <1>9, <1>11, InstRegistered
<1>13. QED  BY <1>2, <1>5, <1>6, <1>7, <1>12 DEF Deleted

LEMMA DestroyAgrees ==
  ASSUME XInv, alive, NEW q, NEW n, Fine(q, n, fe), NEW ic \in Icids, NEW e,
         ims_destroy_ic_handler(ic, e)
  PROVE  Fine(q, n, fe') /\ Polite(q, n, fe, fe')
<1> DEFINE s1 == Begin(Now, ic)
           a1 == Engine(s1, fe.ics[ic].siid, e)
           a2 == Put(a1, ic, "TURN_OFF", NoArg)
           a3 == Put(a2, ic, "FOCUS_OUT", NoArg)
           s2 == IF fe.focus = ic THEN a3 ELSE s1
           s3 == [s2 EXCEPT !.focus = ic]
           s4 == IF fe.ics[ic].shared THEN s3 ELSE delete_instance(s3, fe.ics[ic].siid, e)
           p5 == Put(s4, ic, "REMOVE", NoArg)
           s5 == End(p5)
           f == IF s5.focus = ic THEN NoIcid ELSE s2.focus
           z == [s5 EXCEPT !.focus = f, !.ics[ic] = NoIC]
<1>1. ic \in Live(fe) /\ Handle(ic, z)  BY DEF ims_destroy_ic_handler
<1>2. /\ Same(fe, s1) /\ At(q, n, s1, ic) /\ Registered(View(q, n, s1), s1, {})
      /\ Ownership(s1, {}) /\ ic \in Live(s1)
  BY <1>1, Begun, BegunView DEF Good
<1> HIDE DEF s1
<1>3. Same(s1, s2) /\ At(q, n, s2, ic) /\ View(q, n, s2).uuid = View(q, n, s1).uuid
  <2>1. Hums(q, n, s1, a1, ic)  BY <1>2, EngineHums
  <2> HIDE DEF a1
  <2>2. Same(s1, a1) /\ At(q, n, a1, ic) /\ View(q, n, a1).uuid = View(q, n, s1).uuid
    BY <2>1 DEF Hums, Noise, Quiet
  <2>3. "TURN_OFF" \in Shows3  BY DEF Shows3
  <2>4. Tells(q, n, a1, a2, ic)  BY <2>2, <2>3, PutTells
  <2> HIDE DEF a2
  <2>5. Same(a1, a2) /\ At(q, n, a2, ic) /\ View(q, n, a2).uuid = View(q, n, a1).uuid
    BY <2>4 DEF Tells, Quiet
  <2>6. Same(a2, a3) /\ At(q, n, a3, ic) /\ View(q, n, a3).uuid = View(q, n, a2).uuid
    BY <2>5, FocusOutView
  <2> HIDE DEF a3
  <2>7. Same(s1, a3)  BY <2>2, <2>5, <2>6, SameTrans
  <2>8. Same(s1, s1)  BY <1>2 DEF Same
  <2>9. QED  BY <1>2, <2>2, <2>5, <2>6, <2>7, <2>8
<1> HIDE DEF s2
<1>4. Fe(s2) /\ Ownership(s2, {}) /\ s2.ics = fe.ics /\ Alike(s1, s2)
  BY <1>2, <1>3, SameOwnership DEF Same, Alike
<1>5. Registered(View(q, n, s2), s2, {})  BY <1>2, <1>3, <1>4, AlikeRegistered
<1>6. Refocused(s2, s3, ic) /\ s2.ics[ic].siid # NoSiid  BY <1>1, <1>4 DEF Fe, Fields, Refocused, Live
<1> HIDE DEF s3
<1>7. Fe(s3) /\ Ownership(s3, {}) /\ s3.focus = ic /\ s3.ics = s2.ics /\ s3.pc = s2.pc
      /\ s3.inst = s2.inst
  BY <1>4, <1>6, Refocus DEF Refocused
<1>8. At(q, n, s3, ic) /\ View(q, n, s3) = View(q, n, s2)  BY <1>3, <1>7, SamePcAt
<1>9. Registered(View(q, n, s3), s3, {}) /\ ic \in Live(s3)
  BY <1>1, <1>4, <1>5, <1>7, <1>8 DEF Registered, Live
<1>10. At(q, n, s4, ic) /\ Registered(View(q, n, s4), s4, {ic}) /\ s4.ics = fe.ics
       /\ s4.focus = ic
  <2>1. CASE fe.ics[ic].shared
    <3>1. Registered(View(q, n, s3), s3, {ic})  BY <1>9 DEF Registered
    <3>2. QED  BY <1>4, <1>7, <1>8, <2>1, <3>1
  <2>2. CASE ~fe.ics[ic].shared
    <3> DEFINE t == delete_instance(s3, s3.ics[ic].siid, e)
    <3>1. s4 = t  BY <1>4, <1>7, <2>2
    <3>2. t = delete_instance(s3, s3.ics[ic].siid, e) /\ ~s3.ics[ic].shared
      BY <1>4, <1>7, <2>2
    <3>3. At(q, n, s3, ic) /\ Registered(View(q, n, s3), s3, {}) /\ Ownership(s3, {})
          /\ ic \in Live(s3)
      BY <1>7, <1>8, <1>9
    <3> HIDE DEF t
    <3>4. At(q, n, t, ic) /\ Registered(View(q, n, t), t, {ic}) /\ t.ics = s3.ics
      <4>1. Deletable(q, n, s3, ic)  BY <3>3 DEF Deletable
      <4>2. Deleted(q, n, s3, t, ic)  BY <3>2, <4>1, DeleteView
      <4>3. QED  BY <4>2 DEF Deleted
    <3>5. GivenUp(s3, t, ic)  BY <1>7, <3>2, <3>3, GiveUpOwn
    <3>6. t.focus = s3.focus  BY <3>5 DEF GivenUp
    <3>7. QED  BY <1>4, <1>7, <3>1, <3>4, <3>6
  <2>3. QED  BY <2>1, <2>2
<1> HIDE DEF s4
<1>11. /\ Same(s4, p5) /\ At(q, n, p5, ic)
       /\ \A i \in Icids : i # ic => View(q, n, p5).uuid[i] = View(q, n, s4).uuid[i]
  <2>1. At(q, n, s4, ic) /\ "REMOVE" \in {"REGISTER", "REMOVE"}  BY <1>10
  <2>2. NoArg = IF "REMOVE" = "REGISTER" THEN NoArg ELSE NoArg  OBVIOUS
  <2>3. Entered(q, n, s4, p5, ic, NoArg)  BY <2>1, <2>2, RegisterView
  <2> HIDE DEF p5
  <2>4. QED  BY <2>3 DEF Entered
<1> HIDE DEF p5
<1>12. Same(p5, s5) /\ Rest(q, n, s5) /\ RV(q, n, s5) = View(q, n, p5)  BY <1>11, EndView
<1> HIDE DEF s5
<1>13. Fe(s5) /\ s5.ics = s4.ics /\ s5.inst = s4.inst /\ f = NoIcid
  BY <1>10, <1>11, <1>12 DEF Same
<1> HIDE DEF f
<1>14. z = [s5 EXCEPT !.focus = f, !.ics = [s5.ics EXCEPT ![ic] = NoIC]]
  BY <1>13 DEF Fe, Fields
<1>15. /\ Shape(z) /\ z.ics = [s5.ics EXCEPT ![ic] = NoIC] /\ z.pc = s5.pc
       /\ z.focus = NoIcid /\ z.inst = s5.inst
  BY <1>13, <1>14 DEF Fe, Fields, Shape
<1> HIDE DEF z
<1>16. RV(q, n, z) = RV(q, n, s5)  BY <1>15 DEF RV
<1>17. Registered(RV(q, n, z), z, {})
  <2> SUFFICES ASSUME NEW i \in Live(z), ~z.ics[i].shared, RV(q, n, z).uuid[i] # NoArg
               PROVE  RV(q, n, z).uuid[i] = z.inst[z.ics[i].siid]
    BY DEF Registered
  <2>1. z.ics[ic] = NoIC /\ i \in Icids  BY <1>13, <1>15 DEF Fe, Live
  <2>2. i # ic
    <3>1. NoIC.siid = NoSiid  BY DEF NoIC
    <3>2. z.ics[i].siid # NoSiid  BY DEF Live
    <3>3. QED  BY <2>1, <3>1, <3>2
  <2>3. z.ics[i] = s4.ics[i]  BY <1>13, <1>15, <2>1, <2>2 DEF Fe
  <2>4. i \in Live(s4) \ {ic}  BY <2>1, <2>2, <2>3 DEF Live
  <2>5. RV(q, n, z).uuid[i] = View(q, n, s4).uuid[i]  BY <1>11, <1>12, <1>16, <2>1, <2>2
  <2>6. QED  BY <1>10, <1>13, <1>15, <2>3, <2>4, <2>5 DEF Registered
<1>18. Fine(q, n, z) /\ Polite(q, n, fe, z)
  BY <1>12, <1>15, <1>16, <1>17 DEF Fine, Rest, Good, Displays, Polite
<1>19. QED  BY <1>1, <1>15, <1>18, Carried

-----------------------------------------------------------------------------
(* A new IC.                                                               *)

\* Without a transaction nothing is put.
Silent(s, t) == Same(s, t) /\ (s.pc.ref = 0 => t.pc = s.pc)

LEMMA SilentTrans ==
  ASSUME NEW s, NEW t, NEW r, Silent(s, t), Silent(t, r)
  PROVE  Silent(s, r)
BY SameTrans DEF Silent

LEMMA PutSilent ==
  ASSUME NEW s, Fe(s), NEW ic, NEW cmd, NEW arg
  PROVE  Silent(s, Put(s, ic, cmd, arg))
<1> DEFINE t == Put(s, ic, cmd, arg)
<1>1. Same(s, t) /\ t.pc = put(s.pc, ic, cmd, arg)  BY PutFields
<1> HIDE DEF t
<1>2. ASSUME s.pc.ref = 0  PROVE t.pc = s.pc
  <2>1. ~Accepts(s.pc, ic)  BY <1>2 DEF Accepts
  <2>2. QED  BY <1>1, <2>1 DEF put
<1>3. QED  BY <1>1, <1>2 DEF Silent, t

LEMMA EngineSilent ==
  ASSUME NEW s, Fe(s), NEW siid, NEW e
  PROVE  Silent(s, Engine(s, siid, e))
<1> DEFINE a == Shows(s, siid)
           b == HidesAndCommits(a, siid)
           c == CallsHelper(b, siid)
<1>1. Silent(s, s)  BY DEF Silent, Same
<1>2. Silent(s, a)  BY <1>1, PutSilent DEF Shows
<1> HIDE DEF a
<1>3. Fe(a)  BY <1>2 DEF Silent, Same
<1>4. Silent(a, b)
  <2>1. CASE ~FocusHas(a, siid)  BY <1>3, <2>1 DEF HidesAndCommits, Silent, Same
  <2>2. CASE FocusHas(a, siid)
    <3> DEFINE t == Put(a, a.focus, "UPDATE", NoArg)
               f == t.fx \cup {[to |-> a.focus, how |-> "commit"]}
               r == [t EXCEPT !.fx = f]
    <3>1. b = r  BY <2>2 DEF HidesAndCommits
    <3>2. Silent(a, t)  BY <1>3, PutSilent
    <3> HIDE DEF t, f
    <3>3. Fe(t)  BY <3>2 DEF Silent, Same
    <3>4. /\ DOMAIN r = Fields /\ r.pc = t.pc
          /\ r.ics = t.ics /\ r.next = t.next /\ r.focus = t.focus /\ r.inst = t.inst
          /\ r.count = t.count /\ r.def = t.def /\ r.deff = t.deff /\ r.shared = t.shared
          /\ r.opened = t.opened
      BY <3>3 DEF Fe, Fields
    <3> HIDE DEF r
    <3>5. Fe(r)  BY <3>3, <3>4 DEF Fe
    <3>6. Silent(t, r)  BY <3>4, <3>5 DEF Silent, Same
    <3>7. QED  BY <3>1, <3>2, <3>6, SilentTrans
  <2>3. QED  BY <2>1, <2>2
<1>5. Fe(b)  BY <1>4 DEF Silent, Same
<1> HIDE DEF b
<1>6. Silent(b, c)
  <2>1. Silent(b, b)  BY <1>5 DEF Silent, Same
  <2>2. QED  BY <1>5, <2>1, PutSilent DEF CallsHelper
<1> HIDE DEF c
<1>7. Silent(s, b)  BY <1>2, <1>4, SilentTrans
<1>8. Silent(s, c)  BY <1>6, <1>7, SilentTrans
<1>9. QED  BY <1>1, <1>8 DEF Engine, a, b, c

\* The shared instance comes from elsewhere.
LEMMA DefaultElsewhere ==
  ASSUME NEW s, Fe(s), NEW X, Ownership(s, X), NEW l \in Langs, NEW e,
         s.def # NoSiid \/ s.count < MaxSiid, NEW t, t = get_default_instance(s, l, e)
  PROVE  /\ Fe(t) /\ Elsewhere(s, t, t.def)
         /\ t.pc = s.pc \/ t.pc = Engine(s, s.def, e).pc
         /\ \A i \in Live(s) \ X : ~s.ics[i].shared => s.ics[i].siid \in Siids \ {t.def}
<1> DEFINE u == s.deff[l]
<1>1. u \in Uuids /\ Shareable(s, t, X)  BY GetDefault DEF Fe
<1>2. Fe(t) /\ Ownership(t, X)  BY <1>1 DEF Shareable
<1>3. /\ Elsewhere(s, t, t.def)
      /\ t.pc = s.pc \/ t.pc = Engine(s, s.def, e).pc
  <2>1. CASE s.def # NoSiid
    <3> DEFINE a == Engine(s, s.def, e)
               b == [a EXCEPT !.inst[s.def] = u]
    <3>1. t = IF s.inst[s.def] = u THEN s ELSE b
      BY <2>1 DEF get_default_instance, replace_instance
    <3>2. s.def \in Siids  BY <2>1 DEF Fe
    <3>3. Same(s, a)  BY EngineSilent DEF Silent
    <3> HIDE DEF a, u
    <3>4. Fe(a)  BY <3>3 DEF Same
    <3>5. /\ b.ics = a.ics /\ b.pc = a.pc /\ b.focus = a.focus /\ b.def = a.def
          /\ \A k \in Siids : k # s.def => b.inst[k] = a.inst[k]
      BY <1>1, <3>2, <3>4, SetInst
    <3> HIDE DEF b
    <3>6. Elsewhere(s, b, s.def) /\ b.def = s.def  BY <3>3, <3>5 DEF Same, Elsewhere
    <3>7. Elsewhere(s, s, s.def)  BY DEF Elsewhere
    <3>8. CASE s.inst[s.def] = u
      <4>1. t = s  BY <3>1, <3>8
      <4>2. QED  BY <3>7, <4>1
    <3>9. CASE s.inst[s.def] # u
      <4>1. t = b  BY <3>1, <3>9
      <4>2. QED  BY <3>5, <3>6, <4>1 DEF a
    <3>10. QED  BY <3>8, <3>9
  <2>2. CASE s.def = NoSiid
    <3> DEFINE a == new_instance(s, u)  z == [a EXCEPT !.def = s.count]
    <3>1. t = z  BY <2>2 DEF get_default_instance
    <3> HIDE DEF u
    <3>2. /\ Fe(a) /\ a.ics = s.ics /\ a.pc = s.pc /\ a.focus = s.focus
          /\ \A k \in Siids : k # s.count => a.inst[k] = s.inst[k]
      BY <1>1, <2>2, NewInstance
    <3> HIDE DEF a
    <3>3. /\ z.ics = a.ics /\ z.pc = a.pc /\ z.focus = a.focus /\ z.inst = a.inst
          /\ z.def = s.count
      BY <3>2 DEF Fe, Fields
    <3> HIDE DEF z
    <3>4. QED  BY <3>1, <3>2, <3>3 DEF Elsewhere
  <2>3. QED  BY <2>1, <2>2
<1>4. t.ics = s.ics /\ Live(t) = Live(s)  BY <1>3 DEF Elsewhere, Live
<1>5. ASSUME NEW i \in Live(s) \ X, ~s.ics[i].shared
      PROVE  s.ics[i].siid \in Siids \ {t.def}
  <2>1. Served(t, i) /\ t.ics[i].siid # t.def  BY <1>2, <1>4, <1>5 DEF Ownership
  <2>2. QED  BY <1>4, <2>1 DEF Served
<1>6. QED  BY <1>2, <1>3, <1>5

\* ic gets another entry; the other ICs' instances are the same.
LEMMA EntryRegistered ==
  ASSUME NEW s, Fe(s), NEW t, NEW ic \in Icids, NEW c, t.ics = [s.ics EXCEPT ![ic] = c],
         \A i \in Live(s) \ {ic} : ~s.ics[i].shared => t.inst[s.ics[i].siid] = s.inst[s.ics[i].siid],
         NEW v, Registered(v, s, {ic})
  PROVE  Registered(v, t, {ic})
<1>1. \A i \in Icids : i # ic => t.ics[i] = s.ics[i]  BY DEF Fe
<1> SUFFICES ASSUME NEW i \in Live(t) \ {ic}, v.uuid[i] # NoArg, ~t.ics[i].shared
             PROVE  v.uuid[i] = t.inst[t.ics[i].siid]
  BY DEF Registered
<1>2. t.ics[i] = s.ics[i] /\ i \in Live(s) \ {ic}  BY <1>1 DEF Live
<1>3. v.uuid[i] = s.inst[s.ics[i].siid]  BY <1>2 DEF Registered
<1>4. QED  BY <1>2, <1>3

LEMMA EntryDisplays ==
  ASSUME NEW s, Fe(s), NEW t, NEW ic \in Icids, NEW c, t.ics = [s.ics EXCEPT ![ic] = c],
         \A i \in Live(s) \ {ic} : ~s.ics[i].shared => t.inst[s.ics[i].siid] = s.inst[s.ics[i].siid],
         t.focus = s.focus, s.focus # NoIcid => s.focus \in Live(s) \ {ic},
         NEW v, Displays(v, s)
  PROVE  Displays(v, t)
<1>1. \A i \in Icids : i # ic => t.ics[i] = s.ics[i]  BY DEF Fe
<1>2. s.focus # NoIcid => t.ics[s.focus] = s.ics[s.focus]  BY <1>1 DEF Live
<1>3. QED  BY <1>2 DEF Displays, Info

\* ic is new; it is announced to the panel.
Newborn(q, n, s, ic) ==
  /\ Fe(s) /\ Rest(q, n, s) /\ s.pc.ref = 0 /\ ic \in Icids
  /\ Registered(RV(q, n, s), s, {ic}) /\ Displays(RV(q, n, s), s)

Announce(s, ic, siid, e) ==
  End(Engine(Put(Begin(s, ic), ic, "REGISTER", s.inst[siid]), siid, e))

Announced(q, n, s, r, ic) ==
  /\ Same(s, r) /\ Fine(q, n, r) /\ r.pc.ref = 0
  /\ RV(q, n, r).refused \subseteq RV(q, n, s).refused \cup {ic}

LEMMA CreatedView ==
  ASSUME NEW q, NEW n, NEW ic, NEW s, Newborn(q, n, s, ic), NEW siid, s.ics[ic].siid = siid,
         NEW e, NEW r, r = Announce(s, ic, siid, e)
  PROVE  Announced(q, n, s, r, ic)
<1> DEFINE b == Begin(s, ic)
           p == Put(b, ic, "REGISTER", s.inst[siid])
           d == Engine(p, siid, e)
<1>0. /\ Fe(s) /\ Rest(q, n, s) /\ s.pc.ref = 0 /\ ic \in Icids
      /\ Registered(RV(q, n, s), s, {ic}) /\ Displays(RV(q, n, s), s)
  BY DEF Newborn
<1>1. Same(s, b) /\ At(q, n, b, ic) /\ View(q, n, b) = RV(q, n, s)  BY <1>0, BeginView
<1>2. r = End(d)  BY DEF Announce
<1> HIDE DEF b
<1>3. Alike(s, b) /\ b.inst[b.ics[ic].siid] = s.inst[siid]  BY <1>1 DEF Same, Alike
<1>4. Registered(View(q, n, b), b, {ic})  BY <1>0, <1>1, <1>3, AlikeRegistered
<1>5. Displays(View(q, n, b), b)  BY <1>0, <1>1, <1>3, AlikeDisplays
<1>6. /\ Same(b, p) /\ At(q, n, p, ic) /\ Registered(View(q, n, p), p, {})
      /\ Displays(View(q, n, b), b) => Displays(View(q, n, p), p)
      /\ View(q, n, p).refused = View(q, n, b).refused
  BY <1>0, <1>1, <1>3, <1>4, RegisterAgrees
<1> HIDE DEF p
<1>7. Good(View(q, n, p), p)  BY <1>5, <1>6 DEF Good
<1>8. Hums(q, n, p, d, ic)  BY <1>0, <1>6, EngineHums
<1> HIDE DEF d
<1>9. Same(p, d) /\ At(q, n, d, ic) /\ Good(View(q, n, d), d)
      /\ View(q, n, d).refused \subseteq View(q, n, p).refused \cup {ic}
  BY <1>7, <1>8, HumsGood DEF Hums, Noise, Quiet, Refs
<1>10. Same(d, r) /\ Rest(q, n, r) /\ RV(q, n, r) = View(q, n, d) /\ r.pc.ref = 0
  BY <1>2, <1>9, EndView
<1>11. Alike(d, r)  BY <1>10 DEF Same, Alike
<1>12. Good(RV(q, n, r), r)  BY <1>9, <1>10, <1>11, AlikeRegistered, AlikeDisplays DEF Good
<1>13. Same(s, p)  BY <1>1, <1>6, SameTrans
<1>14. Same(s, d)  BY <1>9, <1>13, SameTrans
<1>15. Same(s, r)  BY <1>10, <1>14, SameTrans
<1>16. RV(q, n, r).refused \subseteq RV(q, n, s).refused \cup {ic}  BY <1>1, <1>6, <1>9, <1>10
<1>17. QED  BY <1>10, <1>12, <1>15, <1>16 DEF Fine, Announced

\* What a new IC finds.
LEMMA BeforeCreation ==
  ASSUME XInv, NEW q, NEW n, Fine(q, n, fe), fe.next <= MaxIcid, NEW ic, ic = fe.next
  PROVE  /\ ic \in Icids /\ ic + 1 \in 1..(MaxIcid + 1) /\ Fe(Now) /\ Same(fe, Now)
         /\ Now.pc.ref = 0 /\ Ownership(Now, {ic}) /\ Rest(q, n, Now)
         /\ RV(q, n, Now) = RV(q, n, fe) /\ Registered(RV(q, n, fe), Now, {ic})
         /\ Displays(RV(q, n, fe), Now) /\ Now.next = ic
         /\ Now.focus # NoIcid => Now.focus \in Live(Now) \ {ic}
<1>1. /\ ic \in Icids /\ ic + 1 \in 1..(MaxIcid + 1) /\ Fe(Now) /\ Same(fe, Now)
      /\ Now.pc.ref = 0 /\ Ownership(Now, {ic})
  BY NextFree
<1>2. Fe(fe)  BY DEF XInv
<1>3. Now.pc = fe.pc /\ Alike(fe, Now) /\ Now.next = ic  BY <1>1, <1>2, NowSame DEF Alike, Same
<1>4. RV(q, n, Now) = RV(q, n, fe) /\ Rest(q, n, Now)  BY <1>3 DEF RV, Rest, Fine
<1>5. Registered(RV(q, n, fe), Now, {}) /\ Displays(RV(q, n, fe), Now)
  BY <1>3, AlikeRegistered, AlikeDisplays DEF Fine, Good
<1>6. Registered(RV(q, n, fe), Now, {ic})  BY <1>5 DEF Registered
<1>7. ic \notin Live(Now)
  <2>1. ic >= Now.next  BY <1>1, <1>3 DEF Icids
  <2>2. QED  BY <1>1, <2>1 DEF Ownership, Live
<1>8. Now.focus # NoIcid => Now.focus \in Live(Now) \ {ic}  BY <1>1, <1>7, FocusLive
<1>9. QED  BY <1>1, <1>3, <1>4, <1>5, <1>6, <1>8

LEMMA CreateOwnAgrees ==
  ASSUME XInv, alive, NEW q, NEW n, Fine(q, n, fe), NEW l \in Langs, NEW e,
         ims_create_ic_handler(l, e), ~fe.shared
  PROVE  Fine(q, n, fe') /\ Polite(q, n, fe, fe')
<1> DEFINE ic == fe.next
           u == Now.deff[l]
           c == [NoIC EXCEPT !.siid = fe.count, !.lang = l]
           a == new_instance(Now, u)
           s == AddIC(a, ic, c)
           r == Announce(s, ic, fe.count, e)
<1>0. fe.next <= MaxIcid /\ fe.count < MaxSiid /\ Handle(ic, r)
  BY DEF ims_create_ic_handler, AddIC, Announce
<1>1. /\ ic \in Icids /\ ic + 1 \in 1..(MaxIcid + 1) /\ Fe(Now) /\ Same(fe, Now)
      /\ Now.pc.ref = 0 /\ Ownership(Now, {ic}) /\ Rest(q, n, Now)
      /\ RV(q, n, Now) = RV(q, n, fe) /\ Registered(RV(q, n, fe), Now, {ic})
      /\ Displays(RV(q, n, fe), Now) /\ Now.next = ic
      /\ Now.focus # NoIcid => Now.focus \in Live(Now) \ {ic}
  BY <1>0, BeforeCreation
<1>2. Now.count = fe.count /\ u \in Uuids  BY <1>1 DEF Same, Fe
<1> HIDE DEF u
<1>3. /\ Fe(a) /\ a.ics = Now.ics /\ a.pc = Now.pc /\ a.next = Now.next
      /\ a.focus = Now.focus /\ Now.count \in Siids
      /\ \A k \in Siids : k # Now.count => a.inst[k] = Now.inst[k]
  BY <1>0, <1>1, <1>2, NewInstance
<1>4. fe.count \in Siids  BY <1>2, <1>3
<1>5. c \in ICs /\ c.siid = fe.count  BY <1>4 DEF NoIC, ICs
<1>6. s = AddIC(a, ic, c) /\ r = Announce(s, ic, fe.count, e) /\ Handle(ic, r)
  BY <1>0
<1> HIDE DEF ic, a, c, s
<1>7. a.next + 1 \in 1..(MaxIcid + 1)  BY <1>1, <1>3
<1>8. Entry(a, s, ic, c)  BY <1>1, <1>3, <1>5, <1>6, <1>7, AddEntry
<1>9. /\ Fe(s) /\ s.ics = [Now.ics EXCEPT ![ic] = c] /\ s.pc = Now.pc /\ s.focus = Now.focus
      /\ \A k \in Siids : k # Now.count => s.inst[k] = Now.inst[k]
  BY <1>3, <1>8 DEF Entry
<1>10. ASSUME NEW i \in Live(Now) \ {ic}
       PROVE  s.inst[Now.ics[i].siid] = Now.inst[Now.ics[i].siid]
  <2>1. Now.ics[i].siid < Now.count /\ Served(Now, i)  BY <1>1 DEF Ownership
  <2>2. Now.ics[i].siid \in Siids /\ Now.ics[i].siid \in Int /\ Now.count \in Int
    BY <1>3, <2>1 DEF Served, Siids
  <2>3. Now.ics[i].siid # Now.count  BY <2>1, <2>2
  <2>4. QED  BY <1>9, <2>2, <2>3
<1>11. Rest(q, n, s) /\ RV(q, n, s) = RV(q, n, fe) /\ s.pc.ref = 0
  BY <1>1, <1>9 DEF Rest, RV
<1>12. Registered(RV(q, n, s), s, {ic})  BY <1>1, <1>9, <1>10, <1>11, EntryRegistered
<1>13. Displays(RV(q, n, s), s)
  <2>1. \A i \in Live(Now) \ {ic} : ~Now.ics[i].shared =>
          s.inst[Now.ics[i].siid] = Now.inst[Now.ics[i].siid]
    BY <1>10
  <2>2. s.focus = Now.focus /\ Displays(RV(q, n, s), Now)  BY <1>1, <1>9, <1>11
  <2>3. Fe(Now) /\ ic \in Icids /\ s.ics = [Now.ics EXCEPT ![ic] = c]  BY <1>1, <1>9
  <2>4. Now.focus # NoIcid => Now.focus \in Live(Now) \ {ic}  BY <1>1
  <2>5. QED  BY <2>1, <2>2, <2>3, <2>4, EntryDisplays
<1>14. s.ics[ic].siid = fe.count  BY <1>1, <1>5, <1>9 DEF Fe
<1> HIDE DEF r
<1>15. /\ Same(s, r) /\ Fine(q, n, r)
       /\ RV(q, n, r).refused \subseteq RV(q, n, s).refused \cup {ic}
  <2>1. ic \in Icids /\ Fe(s) /\ Rest(q, n, s) /\ s.pc.ref = 0  BY <1>1, <1>6, <1>9, <1>11, <1>12, <1>13, <1>14
  <2>2. Registered(RV(q, n, s), s, {ic})  BY <1>1, <1>6, <1>9, <1>11, <1>12, <1>13, <1>14
  <2>3. Displays(RV(q, n, s), s)  BY <1>1, <1>6, <1>9, <1>11, <1>12, <1>13, <1>14
  <2>4. s.ics[ic].siid = fe.count  BY <1>1, <1>6, <1>9, <1>11, <1>12, <1>13, <1>14
  <2>5. Newborn(q, n, s, ic)  BY <2>1, <2>2, <2>3 DEF Newborn
  <2>6. Announced(q, n, s, r, ic)  BY <1>6, <2>4, <2>5, CreatedView
  <2>7. QED  BY <2>6 DEF Announced
<1>16. Shape(r) /\ r.focus = Now.focus  BY <1>9, <1>15, FeShape DEF Same
<1>17. Polite(q, n, fe, r)  BY <1>1, <1>11, <1>15, <1>16 DEF Polite
<1>18. QED  BY <1>6, <1>15, <1>16, <1>17, Carried

LEMMA CreateSharedAgrees ==
  ASSUME XInv, alive, NEW q, NEW n, Fine(q, n, fe), NEW l \in Langs, NEW e,
         ims_create_ic_handler(l, e), fe.shared
  PROVE  Fine(q, n, fe') /\ Polite(q, n, fe, fe')
<1> DEFINE ic == fe.next
           a == get_default_instance(Now, l, e)
           c == [NoIC EXCEPT !.siid = a.def, !.lang = l]
           s == AddIC(a, ic, c)
           r == Announce(s, ic, a.def, e)
           o == OpenedByDefault(r, FALSE)
           d == [r.ics[ic] EXCEPT !.on = o, !.shared = TRUE]
           z == [r EXCEPT !.ics[ic].on = o, !.ics[ic].shared = TRUE]
<1>0. fe.next <= MaxIcid /\ (fe.def # NoSiid \/ fe.count < MaxSiid) /\ Handle(ic, z)
  BY DEF ims_create_ic_handler, AddIC, Announce
<1>1. /\ ic \in Icids /\ ic + 1 \in 1..(MaxIcid + 1) /\ Fe(Now) /\ Same(fe, Now)
      /\ Now.pc.ref = 0 /\ Ownership(Now, {ic}) /\ Rest(q, n, Now)
      /\ RV(q, n, Now) = RV(q, n, fe) /\ Registered(RV(q, n, fe), Now, {ic})
      /\ Displays(RV(q, n, fe), Now) /\ Now.next = ic
      /\ Now.focus # NoIcid => Now.focus \in Live(Now) \ {ic}
  BY <1>0, BeforeCreation
<1>2. Now.def # NoSiid \/ Now.count < MaxSiid  BY <1>0, <1>1 DEF Same
<1>3. Shareable(Now, a, {ic})  BY <1>1, <1>2, GetDefault
<1>4. /\ Fe(a) /\ Elsewhere(Now, a, a.def)
      /\ a.pc = Now.pc \/ a.pc = Engine(Now, Now.def, e).pc
      /\ \A i \in Live(Now) \ {ic} : ~Now.ics[i].shared => Now.ics[i].siid \in Siids \ {a.def}
  <2> DEFINE t == a
  <2>1. t = get_default_instance(Now, l, e)  OBVIOUS
  <2> HIDE DEF t
  <2>2. /\ Fe(t) /\ Elsewhere(Now, t, t.def)
        /\ t.pc = Now.pc \/ t.pc = Engine(Now, Now.def, e).pc
        /\ \A i \in Live(Now) \ {ic} : ~Now.ics[i].shared => Now.ics[i].siid \in Siids \ {t.def}
    BY <1>1, <1>2, <2>1, DefaultElsewhere
  <2>3. QED  BY <2>1, <2>2
<1> HIDE DEF a
<1>5. a.pc = Now.pc  BY <1>1, <1>4, EngineSilent DEF Silent
<1>6. a.ics = Now.ics /\ a.focus = Now.focus /\ a.next = Now.next /\ a.def \in Siids
  BY <1>3, <1>4 DEF Elsewhere, Shareable
<1>7. c \in ICs /\ c.siid = a.def  BY <1>6 DEF NoIC, ICs
<1>8. /\ s = AddIC(a, ic, c) /\ Handle(ic, z)
      /\ r = Announce(s, ic, a.def, e)
  BY <1>0 DEF a
<1>9. Registered(RV(q, n, fe), a, {ic})  BY <1>1, <1>4, InstRegistered
<1>10. Displays(RV(q, n, fe), a)  BY <1>1, <1>4, InstDisplays
<1> HIDE DEF ic, c, s
<1>11. a.next + 1 \in 1..(MaxIcid + 1)  BY <1>1, <1>6
<1>12. Entry(a, s, ic, c)  BY <1>1, <1>4, <1>7, <1>8, <1>11, AddEntry
<1>13. /\ Fe(s) /\ s.ics = [a.ics EXCEPT ![ic] = c] /\ s.pc = a.pc /\ s.focus = a.focus
       /\ s.inst = a.inst
  BY <1>12 DEF Entry
<1>14. a.focus # NoIcid => a.focus \in Live(a) \ {ic}  BY <1>1, <1>6 DEF Live
<1>15. Rest(q, n, s) /\ RV(q, n, s) = RV(q, n, fe) /\ s.pc.ref = 0
  BY <1>1, <1>5, <1>13 DEF Rest, RV
<1>16. Registered(RV(q, n, s), s, {ic})  BY <1>1, <1>4, <1>9, <1>13, <1>15, EntryRegistered
<1>17. Displays(RV(q, n, s), s)  BY <1>1, <1>4, <1>10, <1>13, <1>14, <1>15, EntryDisplays
<1>18. s.ics[ic].siid = a.def  BY <1>1, <1>4, <1>7, <1>13 DEF Fe
<1> HIDE DEF r
<1>19. /\ Same(s, r) /\ Fine(q, n, r)
       /\ RV(q, n, r).refused \subseteq RV(q, n, s).refused \cup {ic}
  <2>1. ic \in Icids /\ Fe(s) /\ Rest(q, n, s) /\ s.pc.ref = 0  BY <1>1, <1>8, <1>13, <1>15, <1>16, <1>17, <1>18
  <2>2. Registered(RV(q, n, s), s, {ic})  BY <1>1, <1>8, <1>13, <1>15, <1>16, <1>17, <1>18
  <2>3. Displays(RV(q, n, s), s)  BY <1>1, <1>8, <1>13, <1>15, <1>16, <1>17, <1>18
  <2>4. s.ics[ic].siid = a.def  BY <1>1, <1>8, <1>13, <1>15, <1>16, <1>17, <1>18
  <2>5. Newborn(q, n, s, ic)  BY <2>1, <2>2, <2>3 DEF Newborn
  <2>6. Announced(q, n, s, r, ic)  BY <1>8, <2>4, <2>5, CreatedView
  <2>7. QED  BY <2>6 DEF Announced
<1>20. Fe(r) /\ r.ics[ic] \in ICs  BY <1>1, <1>19 DEF Same, Fe
<1>21. o \in BOOLEAN  BY DEF OpenedByDefault
<1> HIDE DEF o
<1>22. d \in ICs  BY <1>20, <1>21 DEF ICs
<1>23. d.shared  BY <1>20 DEF ICs
<1>24. z = SetIC(r, ic, d)  BY ZenonT(40), <1>1, <1>20 DEF SetIC, Fe, Fields, ICs
<1> HIDE DEF d, z
<1>25. Entry(r, z, ic, d)  BY <1>1, <1>20, <1>22, <1>24, SetEntry
<1>26. /\ Fe(z) /\ z.ics = [r.ics EXCEPT ![ic] = d] /\ z.pc = r.pc /\ z.focus = r.focus
       /\ z.inst = r.inst
  BY <1>25 DEF Entry
<1>27. RV(q, n, z) = RV(q, n, r) /\ Rest(q, n, z)  BY <1>19, <1>26 DEF RV, Rest, Fine
<1>28. Registered(RV(q, n, z), z, {})
  <2>1. Registered(RV(q, n, r), r, {})  BY <1>19 DEF Fine, Good
  <2>2. Registered(RV(q, n, r), r, {ic})  BY <2>1 DEF Registered
  <2>3. Registered(RV(q, n, z), z, {ic})  BY <1>1, <1>20, <1>26, <1>27, <2>2, EntryRegistered
  <2>4. z.ics[ic].shared  BY <1>1, <1>20, <1>23, <1>26 DEF Fe
  <2>5. QED  BY <2>3, <2>4 DEF Registered
<1>29. r.focus # NoIcid => r.focus \in Live(r) \ {ic}
  <2>1. s.focus # NoIcid => s.focus \in Live(s) \ {ic}
    BY <1>1, <1>4, <1>13, <1>14 DEF Live, Fe
  <2>2. QED  BY <1>19, <2>1 DEF Same, Live
<1>30. Displays(RV(q, n, z), z)
  <2>1. Displays(RV(q, n, z), r)  BY <1>19, <1>27 DEF Fine, Good
  <2>2. QED  BY <1>1, <1>20, <1>26, <1>29, <2>1, EntryDisplays
<1>31. Polite(q, n, fe, z)  BY <1>15, <1>19, <1>26, <1>27, <1>29 DEF Polite
<1>32. QED  BY <1>8, <1>26, <1>27, <1>28, <1>30, <1>31, FeShape, Carried DEF Fine, Good

-----------------------------------------------------------------------------
(* The focus comes to an IC: what has the focus leaves it first.           *)

\* The IC that had the focus leaves it, and is refused nothing.
LEMMA FocusOutOldView ==
  ASSUME XInv, NEW q, NEW n, Fine(q, n, fe), NEW ic, NEW e, NEW t, t = FocusOutOld(Now, ic, e)
  PROVE  /\ Same(fe, t) /\ Rest(q, n, t) /\ t.pc.ref = 0 /\ Registered(RV(q, n, t), t, {})
         /\ RV(q, n, t).refused = RV(q, n, fe).refused
<1>1. Fe(fe) /\ Ownership(fe, {}) /\ fe.pc.ref = 0  BY DEF XInv
<1>2. Same(fe, Now) /\ Now.pc = fe.pc  BY <1>1, NowSame
<1>3. Now.focus = fe.focus  BY <1>2 DEF Same
<1>4. CASE Now.focus \in {NoIcid, ic}
  <2>1. t = Now  BY <1>4 DEF FocusOutOld
  <2>2. RV(q, n, Now) = RV(q, n, fe) /\ Rest(q, n, Now) /\ Alike(fe, Now)
    BY <1>2 DEF RV, Rest, Fine, Same, Alike
  <2>3. Registered(RV(q, n, Now), Now, {})  BY <2>2, AlikeRegistered DEF Fine, Good
  <2>4. QED  BY <1>1, <1>2, <2>1, <2>2, <2>3
<1>5. CASE Now.focus \notin {NoIcid, ic}
  <2> DEFINE o == fe.focus
             b == Begin(Now, o)
             p == Put(stop_ic(b, o, e), o, "FOCUS_OUT", NoArg)
  <2>1. t = End(p)  BY <1>3, <1>5 DEF FocusOutOld
  <2>2. o \in Icids /\ o # NoIcid  BY <1>1, <1>3, <1>5 DEF Fe
  <2>3. Heard(RV(q, n, fe), o)  BY <2>2, FocusHeard DEF Fine, Good
  <2> HIDE DEF o
  <2>4. /\ Same(fe, b) /\ At(q, n, b, o) /\ View(q, n, b) = RV(q, n, fe)
        /\ Good(View(q, n, b), b)
    BY <2>2, BegunView
  <2> HIDE DEF b
  <2>5. /\ Same(b, p) /\ At(q, n, p, o) /\ Registered(View(q, n, p), p, {})
        /\ View(q, n, p).refused = View(q, n, b).refused
    <3>1. Registered(View(q, n, b), b, {})  BY <2>4 DEF Good
    <3>2. QED  BY <2>2, <2>3, <2>4, <3>1, StopAndLeave
  <2> HIDE DEF p
  <2>6. Same(p, t) /\ Rest(q, n, t) /\ RV(q, n, t) = View(q, n, p) /\ t.pc.ref = 0
    BY <2>1, <2>5, EndView
  <2>7. Alike(p, t)  BY <2>6 DEF Same, Alike
  <2>8. Registered(RV(q, n, t), t, {})  BY <2>5, <2>6, <2>7, AlikeRegistered
  <2>9. Same(fe, p)  BY <2>4, <2>5, SameTrans
  <2>10. Same(fe, t)  BY <2>6, <2>9, SameTrans
  <2>11. QED  BY <2>4, <2>5, <2>6, <2>8, <2>10
<1>6. QED  BY <1>4, <1>5

\* In the shared input method mode the registration of ic does not count.
LEMMA JoinView ==
  ASSUME NEW q, NEW n, NEW ic \in Icids, NEW s, At(q, n, s, ic), Registered(View(q, n, s), s, {}),
         Speaking(s, ic), NEW e, s.def # NoSiid \/ s.count < MaxSiid,
         NEW t, t = JoinShared(s, ic, e)
  PROVE  /\ At(q, n, t, ic) /\ Registered(View(q, n, t), t, {}) /\ t.focus = s.focus
         /\ t.ics[ic].shared
<1> DEFINE a == IF s.ics[ic].shared THEN s ELSE delete_instance(s, s.ics[ic].siid, e)
           l == s.ics[ic].lang
           b == get_default_instance(a, l, e)
           h == Engine(a, a.def, e)
           o == OpenedByDefault(b, b.ics[ic].on)
           c == [b.ics[ic] EXCEPT !.shared = TRUE, !.siid = b.def, !.on = o]
           z == [b EXCEPT !.ics[ic].shared = TRUE, !.ics[ic].siid = b.def,
                          !.ics[ic].on = OpenedByDefault(b, @)]
<1>1. t = z  BY DEF JoinShared
<1>2. Fe(s) /\ Ownership(s, {}) /\ ic \in Live(s)  BY DEF Speaking
<1>3. l \in Langs
  <2>1. Served(s, ic)  BY <1>2 DEF Ownership
  <2>2. QED  BY <2>1 DEF Served
<1>4. /\ Fe(a) /\ At(q, n, a, ic) /\ Registered(View(q, n, a), a, {ic}) /\ Ownership(a, {ic})
      /\ a.focus = s.focus /\ a.def = s.def /\ a.count = s.count
  <2>1. CASE s.ics[ic].shared
    <3>1. Ownership(s, {ic})  BY <1>2, <2>1, GiveUpShared
    <3>2. Registered(View(q, n, s), s, {ic})  BY DEF Registered
    <3>3. a = s  BY <2>1
    <3>4. QED  BY <1>2, <3>1, <3>2, <3>3
  <2>2. CASE ~s.ics[ic].shared
    <3>1. a = delete_instance(s, s.ics[ic].siid, e)  BY <2>2
    <3> HIDE DEF a
    <3>2. GivenUp(s, a, ic)  BY <1>2, <2>2, <3>1, GiveUpOwn
    <3>3. Deletable(q, n, s, ic)  BY <1>2 DEF Deletable
    <3>4. At(q, n, a, ic) /\ Registered(View(q, n, a), a, {ic}) /\ a.ics = s.ics
      <4>1. Deleted(q, n, s, a, ic)  BY <3>1, <3>3, DeleteView
      <4>2. QED  BY <4>1 DEF Deleted
    <3>5. QED  BY <3>2, <3>4 DEF GivenUp
  <2>3. QED  BY <2>1, <2>2
<1> HIDE DEF a, l
<1>5. /\ Fe(b) /\ Elsewhere(a, b, b.def)
      /\ b.pc = a.pc \/ b.pc = h.pc
      /\ \A i \in Live(a) \ {ic} : ~a.ics[i].shared => a.ics[i].siid \in Siids \ {b.def}
  <2> DEFINE d == b
  <2>1. d = get_default_instance(a, l, e)  OBVIOUS
  <2> HIDE DEF d
  <2>2. /\ Fe(d) /\ Elsewhere(a, d, d.def)
        /\ d.pc = a.pc \/ d.pc = Engine(a, a.def, e).pc
        /\ \A i \in Live(a) \ {ic} : ~a.ics[i].shared => a.ics[i].siid \in Siids \ {d.def}
    BY <1>3, <1>4, <2>1, DefaultElsewhere
  <2>3. QED  BY <2>1, <2>2
<1>6. b.def \in Siids  BY <1>3, <1>4, GetDefault DEF Shareable
<1>7. Hums(q, n, a, h, ic)  BY <1>4, EngineHums
<1> HIDE DEF b, h
<1>8. At(q, n, b, ic) /\ View(q, n, b).uuid = View(q, n, a).uuid
  <2>1. At(q, n, h, ic) /\ View(q, n, h).uuid = View(q, n, a).uuid
    BY <1>7 DEF Hums, Noise, Quiet
  <2>2. CASE b.pc = a.pc
    <3>1. At(q, n, b, ic) /\ View(q, n, b) = View(q, n, a)  BY <1>4, <1>5, <2>2, SamePcAt
    <3>2. QED  BY <3>1
  <2>3. CASE b.pc = h.pc
    <3>1. At(q, n, b, ic) /\ View(q, n, b) = View(q, n, h)  BY <1>5, <2>1, <2>3, SamePcAt
    <3>2. QED  BY <2>1, <3>1
  <2>4. QED  BY <1>5, <2>2, <2>3
<1>9. Registered(View(q, n, b), b, {ic})
  <2>1. Registered(View(q, n, a), b, {ic})  BY <1>4, <1>5, InstRegistered
  <2>2. Alike(b, b)  BY DEF Alike
  <2>3. QED  BY <1>8, <2>1, <2>2, AlikeRegistered
<1>10. b.ics[ic] \in ICs /\ b.focus = s.focus  BY <1>4, <1>5 DEF Fe, Elsewhere
<1>11. o \in BOOLEAN
  <2>1. b.ics[ic].on \in BOOLEAN  BY <1>10 DEF ICs
  <2>2. QED  BY <2>1 DEF OpenedByDefault
<1>12. z = [b EXCEPT !.ics = [b.ics EXCEPT ![ic] = c]]  BY ZenonT(40), <1>5, <1>10 DEF Fe, Fields, ICs
<1> HIDE DEF o
<1>13. c \in ICs  BY <1>6, <1>10, <1>11 DEF ICs
<1>14. c.shared  BY <1>10 DEF ICs
<1>15. t = SetIC(b, ic, c)  BY <1>1, <1>12 DEF SetIC
<1> HIDE DEF c, z
<1>16. Entry(b, t, ic, c)  BY <1>5, <1>13, <1>15, SetEntry
<1>17. /\ Fe(t) /\ t.ics = [b.ics EXCEPT ![ic] = c] /\ t.pc = b.pc /\ t.focus = b.focus
       /\ t.inst = b.inst
  BY <1>16 DEF Entry
<1>18. At(q, n, t, ic) /\ View(q, n, t) = View(q, n, b)  BY <1>8, <1>17, SamePcAt
<1>19. t.ics[ic].shared  BY <1>5, <1>14, <1>17 DEF Fe
<1>20. Registered(View(q, n, t), t, {ic})  BY <1>5, <1>9, <1>17, <1>18, EntryRegistered
<1>21. Registered(View(q, n, t), t, {})  BY <1>19, <1>20 DEF Registered
<1>22. QED  BY <1>10, <1>17, <1>18, <1>19, <1>21

LEMMA LeaveView ==
  ASSUME NEW q, NEW n, NEW ic \in Icids, NEW s, At(q, n, s, ic), Registered(View(q, n, s), s, {}),
         Speaking(s, ic), s.count < MaxSiid, NEW t, t = LeaveShared(s, ic)
  PROVE  /\ At(q, n, t, ic) /\ Registered(View(q, n, t), t, {ic}) /\ t.focus = s.focus
         /\ View(q, n, t) = View(q, n, s)
<1> DEFINE l == s.ics[ic].lang
           u == s.deff[l]
           b == new_instance(s, u)
           c == [b.ics[ic] EXCEPT !.siid = s.count, !.shared = FALSE]
           z == [b EXCEPT !.ics[ic].siid = s.count, !.ics[ic].shared = FALSE]
<1>1. t = z  BY DEF LeaveShared
<1>2. Fe(s) /\ Ownership(s, {}) /\ ic \in Live(s)  BY DEF Speaking
<1>3. l \in Langs
  <2>1. Served(s, ic)  BY <1>2 DEF Ownership
  <2>2. QED  BY <2>1 DEF Served
<1>4. u \in Uuids  BY <1>2, <1>3 DEF Fe
<1> HIDE DEF u, l
<1>5. /\ Fe(b) /\ b.ics = s.ics /\ b.pc = s.pc /\ b.focus = s.focus /\ s.count \in Siids
      /\ \A k \in Siids : k # s.count => b.inst[k] = s.inst[k]
  BY <1>2, <1>4, NewInstance
<1> HIDE DEF b
<1>6. b.ics[ic] \in ICs  BY <1>5 DEF Fe
<1>7. c \in ICs  BY <1>5, <1>6 DEF ICs
<1>8. t = SetIC(b, ic, c)  BY ZenonT(40), <1>1, <1>5, <1>6 DEF SetIC, Fe, Fields, ICs
<1> HIDE DEF c, z
<1>9. Entry(b, t, ic, c)  BY <1>5, <1>7, <1>8, SetEntry
<1>10. /\ Fe(t) /\ t.ics = [s.ics EXCEPT ![ic] = c] /\ t.pc = s.pc /\ t.focus = s.focus
       /\ t.inst = b.inst
  BY <1>5, <1>9 DEF Entry
<1>11. At(q, n, t, ic) /\ View(q, n, t) = View(q, n, s)  BY <1>10, SamePcAt
<1>12. ASSUME NEW i \in Live(s)
       PROVE  t.inst[s.ics[i].siid] = s.inst[s.ics[i].siid]
  <2>1. s.ics[i].siid < s.count /\ Served(s, i)  BY <1>2 DEF Ownership
  <2>2. s.ics[i].siid \in Siids /\ s.ics[i].siid \in Int /\ s.count \in Int
    BY <1>5, <2>1 DEF Served, Siids
  <2>3. s.ics[i].siid # s.count  BY <2>1, <2>2
  <2>4. QED  BY <1>5, <1>10, <2>2, <2>3
<1>13. Registered(View(q, n, s), s, {ic})  BY DEF Registered
<1>14. Registered(View(q, n, s), t, {ic})  BY <1>2, <1>10, <1>12, <1>13, EntryRegistered
<1>15. QED  BY <1>10, <1>11, <1>14

\* The focus is announced, and how ic is; then the transaction ends.
Came(s, ic, changed, e) ==
  LET siid == s.ics[ic].siid
      s3 == panel_req_focus_in(s, ic)
      s4 == IF changed THEN Put(Engine(s3, siid, e), ic, "REGISTER", s3.inst[siid])
                       ELSE s3
  IN End(IF s4.ics[ic].on THEN start_ic(s4, ic, e)
         ELSE Put(update_factory_info(s4, ic), ic, "TURN_OFF", NoArg))

\* ic has the focus, and is to be registered again if its instance has changed.
Coming(q, n, s, ic, changed) ==
  /\ At(q, n, s, ic) /\ s.focus = ic
  /\ Registered(View(q, n, s), s, IF changed THEN {ic} ELSE {})

Arrived(q, n, s, r) ==
  /\ Same(s, r) /\ Fine(q, n, r) /\ RV(q, n, r).refused = View(q, n, s).refused

LEMMA CameView ==
  ASSUME NEW q, NEW n, NEW ic \in Icids, NEW s, NEW changed, Coming(q, n, s, ic, changed), NEW e,
         NEW r, r = Came(s, ic, changed, e)
  PROVE  Arrived(q, n, s, r)
<1> DEFINE siid == s.ics[ic].siid
           a == panel_req_focus_in(s, ic)
           h == Engine(a, siid, e)
           p == Put(h, ic, "REGISTER", a.inst[siid])
           b == IF changed THEN p ELSE a
           on == start_ic(b, ic, e)
           off == Put(update_factory_info(b, ic), ic, "TURN_OFF", NoArg)
           c == IF b.ics[ic].on THEN on ELSE off
<1>0. /\ At(q, n, s, ic) /\ s.focus = ic
      /\ Registered(View(q, n, s), s, IF changed THEN {ic} ELSE {})
  BY DEF Coming
<1>1. r = End(c)  BY DEF Came
<1>2. /\ Same(s, a) /\ At(q, n, a, ic) /\ View(q, n, a).cur = ic /\ ~View(q, n, a).fresh
      /\ View(q, n, a).uuid = View(q, n, s).uuid /\ View(q, n, a).refused = View(q, n, s).refused
  BY <1>0, FocusInView
<1> HIDE DEF a
<1>3. Alike(s, a) /\ Fe(a) /\ siid = a.ics[ic].siid  BY <1>2 DEF Same, Alike
<1> HIDE DEF siid
<1>4. /\ Same(s, b) /\ At(q, n, b, ic) /\ View(q, n, b).cur = ic
      /\ Registered(View(q, n, b), b, {}) /\ View(q, n, b).refused = View(q, n, s).refused
  <2>1. CASE ~changed
    <3>1. Registered(View(q, n, s), s, {})  BY <1>0, <2>1
    <3>2. Registered(View(q, n, a), a, {})  BY <1>2, <1>3, <3>1, AlikeRegistered
    <3>3. QED  BY <1>2, <2>1, <3>2
  <2>2. CASE changed
    <3>1. Registered(View(q, n, s), s, {ic})  BY <1>0, <2>2
    <3>2. Hums(q, n, a, h, ic)  BY <1>2, EngineHums
    <3> HIDE DEF h
    <3>3. /\ Same(a, h) /\ At(q, n, h, ic) /\ View(q, n, h).cur = ic
          /\ View(q, n, h).uuid = View(q, n, a).uuid
          /\ View(q, n, h).refused = View(q, n, a).refused
      BY <1>2, <3>2 DEF Hums, Noise, Quiet, Refs, Heard
    <3>4. Same(s, h)  BY <1>2, <3>3, SameTrans
    <3>5. Alike(s, h) /\ h.inst = a.inst /\ h.ics = a.ics  BY <3>3, <3>4 DEF Same, Alike
    <3>6. View(q, n, h).uuid = View(q, n, s).uuid  BY <1>2, <3>3
    <3>7. Registered(View(q, n, h), h, {ic})  BY <3>1, <3>5, <3>6, AlikeRegistered
    <3>8. a.inst[siid] = h.inst[h.ics[ic].siid]  BY <1>3, <3>5
    <3>9. /\ Same(h, p) /\ At(q, n, p, ic) /\ Registered(View(q, n, p), p, {})
          /\ View(q, n, p).cur = View(q, n, h).cur
          /\ View(q, n, p).refused = View(q, n, h).refused
      BY <3>3, <3>7, <3>8, RegisterAgrees
    <3> HIDE DEF p
    <3>10. Same(s, p)  BY <3>4, <3>9, SameTrans
    <3>11. QED  BY <1>2, <2>2, <3>3, <3>9, <3>10
  <2>3. QED  BY <2>1, <2>2
<1> HIDE DEF b
<1>5. b.focus = ic /\ b.ics[ic] \in ICs  BY <1>0, <1>4 DEF Same, Fe
<1>6. /\ Tells(q, n, b, on, ic)
      /\ b.focus = ic /\ View(q, n, b).cur = ic
           => Showing(View(q, n, on), TRUE, Info(b, ic))
  BY <1>4, StartShows
<1>7. /\ Tells(q, n, b, off, ic)
      /\ b.focus = ic /\ View(q, n, b).cur = ic
           => Showing(View(q, n, off), FALSE, Info(b, ic))
  BY <1>4, OffShows
<1> HIDE DEF on, off
<1>8. Tells(q, n, b, c, ic) /\ Showing(View(q, n, c), b.ics[ic].on, Info(b, ic))
  <2>1. b.ics[ic].on \in BOOLEAN  BY <1>5 DEF ICs
  <2>2. CASE b.ics[ic].on
    <3>1. b.ics[ic].on = TRUE  BY <2>1, <2>2
    <3>2. QED  BY <1>4, <1>5, <1>6, <2>2, <3>1
  <2>3. CASE ~b.ics[ic].on
    <3>1. b.ics[ic].on = FALSE  BY <2>1, <2>3
    <3>2. QED  BY <1>4, <1>5, <1>7, <2>3, <3>1
  <2>4. QED  BY <2>2, <2>3
<1> HIDE DEF c
<1>9. Heard(View(q, n, b), ic)  BY <1>4 DEF Heard
<1>10. Agreeing(q, n, b, c, ic)  BY <1>4, <1>5, <1>8, <1>9, TellsAgreeing
<1>11. /\ Same(b, c) /\ At(q, n, c, ic) /\ Good(View(q, n, c), c)
       /\ View(q, n, c).refused = View(q, n, b).refused
  BY <1>8, <1>9, <1>10 DEF Tells, Agreeing, Refs
<1>12. Same(c, r) /\ Rest(q, n, r) /\ RV(q, n, r) = View(q, n, c)  BY <1>1, <1>11, EndView
<1>13. Alike(c, r)  BY <1>12 DEF Same, Alike
<1>14. Good(RV(q, n, r), r)  BY <1>11, <1>12, <1>13, AlikeRegistered, AlikeDisplays DEF Good
<1>15. Same(s, c)  BY <1>4, <1>11, SameTrans
<1>16. Same(s, r)  BY <1>12, <1>15, SameTrans
<1>17. QED  BY <1>4, <1>11, <1>12, <1>14, <1>16 DEF Fine, Arrived

LEMMA FocusAgrees ==
  ASSUME XInv, alive, NEW q, NEW n, Fine(q, n, fe), NEW ic \in Icids, NEW e,
         ims_set_ic_focus_handler(ic, e)
  PROVE  Fine(q, n, fe') /\ Polite(q, n, fe, fe')
<1> DEFINE s9 == FocusOutOld(Now, ic, e)
           s0 == [s9 EXCEPT !.focus = ic, !.fx = {}]
           s1 == Begin(s0, ic)
           s2 == IF fe.shared THEN JoinShared(s1, ic, e)
                 ELSE IF fe.ics[ic].shared THEN LeaveShared(s1, ic) ELSE s1
           ch == fe.shared \/ fe.ics[ic].shared
           r == Came(s2, ic, ch, e)
<1>1. /\ ic \in Live(fe) /\ Handle(ic, r)
      /\ (fe.shared /\ fe.def # NoSiid) \/ ~(fe.shared \/ fe.ics[ic].shared)
           \/ fe.count < MaxSiid
  BY DEF ims_set_ic_focus_handler, Came
<1>2. Settled(fe, s9) /\ s9 = FocusOutOld(Now, ic, e)  BY FocusOutSettles
<1> HIDE DEF s9
<1>3. /\ Same(fe, s9) /\ Rest(q, n, s9) /\ s9.pc.ref = 0 /\ Registered(RV(q, n, s9), s9, {})
      /\ RV(q, n, s9).refused = RV(q, n, fe).refused
  BY <1>2, FocusOutOldView
<1>4. Fe(s9) /\ Ownership(s9, {}) /\ s9.ics[ic].siid # NoSiid  BY <1>1, <1>2 DEF Settled, Live
<1>5. Refocused(s9, s0, ic) /\ s0.fx = {}  BY <1>4 DEF Fe, Fields, Refocused
<1> HIDE DEF s0
<1>6. Fe(s0) /\ Ownership(s0, {}) /\ s0.pc = s9.pc /\ s0.ics = s9.ics /\ s0.inst = s9.inst
  BY <1>4, <1>5, Refocus DEF Refocused
<1>7. Rest(q, n, s0) /\ RV(q, n, s0) = RV(q, n, s9) /\ s0.pc.ref = 0
  BY <1>3, <1>6 DEF Rest, RV
<1>8. Registered(RV(q, n, s0), s0, {})  BY <1>3, <1>6, <1>7 DEF Registered, Live
<1>9. Same(s0, s1) /\ s1.fx = {} /\ InTrans(s1, ic)  BY <1>5, <1>6, <1>7, BeginTrans
<1>10. At(q, n, s1, ic) /\ View(q, n, s1) = RV(q, n, s0)  BY <1>6, <1>7, BeginView
<1> HIDE DEF s1
<1>11. Alike(s0, s1)  BY <1>9 DEF Same, Alike
<1>12. Registered(View(q, n, s1), s1, {})  BY <1>8, <1>10, <1>11, AlikeRegistered
<1>13. /\ Fe(s1) /\ Ownership(s1, {}) /\ s1.def = fe.def /\ s1.count = fe.count
       /\ s1.ics[ic].shared = fe.ics[ic].shared /\ s1.ics[ic].siid # NoSiid /\ s1.focus = ic
       /\ View(q, n, s1).refused = RV(q, n, fe).refused
  BY <1>2, <1>3, <1>4, <1>5, <1>6, <1>7, <1>9, <1>10, SameOwnership
     DEF Same, Refocused, Settled
<1>14. Speaking(s1, ic)
  <2>1. ic \in Live(s1)  BY <1>13 DEF Live
  <2>2. Said(s1, ic)  BY <1>9 DEF Said
  <2>3. QED  BY <1>9, <1>13, <2>1, <2>2 DEF Speaking
<1>15. /\ At(q, n, s2, ic) /\ Registered(View(q, n, s2), s2, IF ch THEN {ic} ELSE {})
       /\ s2.focus = ic
       /\ s2.ics[ic].shared \/ View(q, n, s2).refused = RV(q, n, fe).refused
  <2>1. CASE fe.shared
    <3> DEFINE t == JoinShared(s1, ic, e)
    <3>1. s2 = t /\ ch  BY <2>1
    <3>2. t = JoinShared(s1, ic, e) /\ (s1.def # NoSiid \/ s1.count < MaxSiid)
      BY <1>1, <1>13, <2>1
    <3> HIDE DEF t, s2, ch
    <3>3. /\ At(q, n, t, ic) /\ Registered(View(q, n, t), t, {}) /\ t.focus = s1.focus
          /\ t.ics[ic].shared
      BY <1>10, <1>12, <1>14, <3>2, JoinView
    <3>4. Registered(View(q, n, t), t, {ic})  BY <3>3 DEF Registered
    <3>5. QED  BY <1>13, <3>1, <3>3, <3>4
  <2>2. CASE ~fe.shared /\ fe.ics[ic].shared
    <3> DEFINE t == LeaveShared(s1, ic)
    <3>1. s2 = t /\ ch  BY <2>2
    <3>2. t = LeaveShared(s1, ic) /\ s1.count < MaxSiid  BY <1>1, <1>13, <2>2
    <3> HIDE DEF t, s2, ch
    <3>3. /\ At(q, n, t, ic) /\ Registered(View(q, n, t), t, {ic}) /\ t.focus = s1.focus
          /\ View(q, n, t) = View(q, n, s1)
      BY <1>10, <1>12, <1>14, <3>2, LeaveView
    <3>4. QED  BY <1>13, <3>1, <3>3
  <2>3. CASE ~fe.shared /\ ~fe.ics[ic].shared
    <3>1. s2 = s1 /\ ~ch  BY <2>3
    <3> HIDE DEF s2, ch
    <3>2. QED  BY <1>10, <1>12, <1>13, <3>1
  <2>4. QED  BY <2>1, <2>2, <2>3
<1>16. r = Came(s2, ic, ch, e) /\ Handle(ic, r)  BY <1>1 DEF s9, s0, s1
<1> HIDE DEF s2, ch, r
<1>17. Same(s2, r) /\ Fine(q, n, r) /\ RV(q, n, r).refused = View(q, n, s2).refused
  <2>1. Coming(q, n, s2, ic, ch)  BY <1>15 DEF Coming
  <2>2. Arrived(q, n, s2, r)  BY <1>16, <2>1, CameView
  <2>3. QED  BY <2>2 DEF Arrived
<1>18. Shape(r) /\ r.focus = ic /\ r.ics = s2.ics  BY <1>15, <1>17, FeShape DEF Same
<1>19. Polite(q, n, fe, r)  BY <1>15, <1>17, <1>18 DEF Polite
<1>20. QED  BY <1>16, <1>17, <1>18, <1>19, Carried

-----------------------------------------------------------------------------
(* Every step; and the panel's theorems.                                   *)

\* The panel and the front end between two steps.
AInv ==
  /\ XInv
  /\ alive => Fine(panel, 0, fe)
  /\ ~alive => panel = NewSession(Icids) /\ fe.pc.wire = <<>>

Handler == Xim \/ FromPanel \/ reload_config_callback

LEMMA HandlerHandles ==
  ASSUME Handler
  PROVE  \E ic, s : Handle(ic, s)
<1>1. ASSUME NEW l \in Langs, NEW e \in BOOLEAN, ims_create_ic_handler(l, e)
      PROVE  \E ic, s : Handle(ic, s)
  BY <1>1 DEF ims_create_ic_handler
<1>2. ASSUME NEW ic \in Icids, NEW e \in BOOLEAN, ims_set_ic_values_handler(ic, e)
      PROVE  \E i, s : Handle(i, s)
  BY <1>2 DEF ims_set_ic_values_handler
<1>3. ASSUME NEW ic \in Icids, NEW e \in BOOLEAN, ims_destroy_ic_handler(ic, e)
      PROVE  \E i, s : Handle(i, s)
  BY <1>3 DEF ims_destroy_ic_handler
<1>4. ASSUME NEW ic \in Icids, NEW e \in BOOLEAN, ims_unset_ic_focus_handler(ic, e)
      PROVE  \E i, s : Handle(i, s)
  BY <1>4 DEF ims_unset_ic_focus_handler
<1>5. ASSUME NEW ic \in Icids, NEW e \in BOOLEAN, ims_set_ic_focus_handler(ic, e)
      PROVE  \E i, s : Handle(i, s)
  BY <1>5 DEF ims_set_ic_focus_handler
<1>6. ASSUME NEW ic \in Icids, NEW e \in BOOLEAN, NEW flag \in BOOLEAN,
             ims_trigger_notify_handler(ic, flag, e)
      PROVE  \E i, s : Handle(i, s)
  BY <1>6 DEF ims_trigger_notify_handler
<1>7. Xim => \E i, s : Handle(i, s)
  BY <1>1, <1>2, <1>3, <1>4, <1>5, <1>6 DEF Xim
<1>8. ASSUME NEW ic \in Icids, NEW e \in BOOLEAN, CallInstance(ic, e)
      PROVE  \E i, s : Handle(i, s)
  BY <1>8 DEF CallInstance
<1>9. ASSUME NEW ic \in Icids, NEW e \in BOOLEAN, NEW key, NEW f, process_key_event(ic, key, e, f)
      PROVE  \E i, s : Handle(i, s)
  BY <1>9 DEF process_key_event
<1>10. ASSUME NEW ic \in Icids, NEW e \in BOOLEAN, NEW u, panel_slot_change_factory(ic, u, e)
       PROVE  \E i, s : Handle(i, s)
  BY <1>10 DEF panel_slot_change_factory
<1>11. FromPanel => \E i, s : Handle(i, s)
  BY <1>8, <1>9, <1>10 DEF FromPanel
<1>12. reload_config_callback => \E i, s : Handle(i, s)
  BY DEF reload_config_callback
<1>13. QED  BY <1>7, <1>11, <1>12 DEF Handler

\* A handler changes neither the panel nor, when it is dead, what is written.
LEMMA HandlerFrame ==
  ASSUME Handler, DOMAIN fe' = Fields, DOMAIN fe'.pc = {"up", "ref", "cur", "trans", "wire"}
  PROVE  panel' = panel /\ alive' = alive /\ (~alive => fe'.pc.wire = <<>>)
<1>1. PICK ic, s : Handle(ic, s)  BY HandlerHandles
<1>2. panel' = panel /\ alive' = alive  BY <1>1 DEF Handle
<1>3. ASSUME ~alive  PROVE fe'.pc.wire = <<>>
  <2> DEFINE p == [s.pc EXCEPT !.wire = <<>>]
             r == [s EXCEPT !.by = ic, !.pc.wire = <<>>]
  <2>1. fe' = r  BY <1>1, <1>3 DEF Handle
  <2>2. DOMAIN s = Fields  BY <2>1
  <2>3. r = [s EXCEPT !.by = ic, !.pc = p]  BY <2>2 DEF Fields
  <2>4. DOMAIN p = DOMAIN s.pc  OBVIOUS
  <2>5. p.wire = <<>> \/ "wire" \notin DOMAIN s.pc  OBVIOUS
  <2> HIDE DEF p, r
  <2>6. fe'.pc = p  BY <2>1, <2>2, <2>3 DEF Fields
  <2>7. QED  BY <2>4, <2>5, <2>6
<1>4. QED  BY <1>2, <1>3

\* Every handler, of what the panel has read so far and of what it has not.
LEMMA HandlerAgrees ==
  ASSUME XInv, alive, NEW q, NEW n, Fine(q, n, fe), Handler
  PROVE  Fine(q, n, fe') /\ Polite(q, n, fe, fe')
<1>1. Xim => Fine(q, n, fe') /\ Polite(q, n, fe, fe')
  BY CreateOwnAgrees, CreateSharedAgrees, SetValuesAgrees, DestroyAgrees, UnsetAgrees,
     FocusAgrees, TriggerAgrees DEF Xim
<1>2. FromPanel => Fine(q, n, fe') /\ Polite(q, n, fe, fe')
  BY CallAgrees, KeyAgrees, ChangeFactoryAgrees DEF FromPanel
<1>3. QED  BY <1>1, <1>2, ReloadAgrees DEF Handler

\* With all of it read nothing is left to read.
LEMMA AllRead ==
  ASSUME NEW q, NEW s, s.pc.wire = <<>>
  PROVE  RV(q, 0, s) = q
<1>1. Behind(s.pc.wire, 0) = <<>>  BY NothingSeq, BehindNothing
<1>2. QED  BY <1>1, ReadNothing DEF RV

LEMMA NewPanel ==
  PanelOK(NewSession(Icids)) /\ NewSession(Icids).fresh /\ NewSession(Icids).refused = {}
    /\ \A i \in Icids : NewSession(Icids).uuid[i] = NoArg
BY DEF PanelOK, PanelFields, NewSession

\* A connection on which nothing was said.
LEMMA NewFine ==
  ASSUME NEW s, s.pc.up, s.pc.wire = <<>>
  PROVE  Fine(NewSession(Icids), 0, s)
<1> DEFINE v == NewSession(Icids)
<1>1. RV(v, 0, s) = v  BY AllRead
<1>2. PanelOK(v) /\ v.fresh /\ \A i \in Icids : v.uuid[i] = NoArg  BY NewPanel
<1> HIDE DEF v
<1>3. Good(v, s)  BY <1>2 DEF Good, Registered, Displays, Live
<1>4. IsSeq(s.pc.wire) /\ 0 \in 0..Len(s.pc.wire)  BY NothingSeq, BehindNothing
<1>5. QED  BY <1>1, <1>2, <1>3, <1>4 DEF Fine, Rest, v

\* The panel reads; what it has refused before does not matter.
LEMMA ReadIs ==
  ASSUME NEW v, NEW s, Fine(v, 0, s)
  PROVE  LET q == Read(v, s.pc.wire)
             w == RV(v, 0, s)
         IN /\ PanelOK(q) /\ q.refused = {} /\ q.uuid = w.uuid /\ q.cur = w.cur
            /\ q.fresh = w.fresh /\ q.on = w.on /\ q.info = w.info
<1> DEFINE q == Read(v, s.pc.wire)  w == RV(v, 0, s)
<1>1. IsSeq(s.pc.wire) /\ PanelOK(w)  BY DEF Fine, Rest
<1>2. Behind(s.pc.wire, 0) = s.pc.wire  BY <1>1, BehindNothing
<1>3. q = [w EXCEPT !.refused = {}]  BY <1>2 DEF Read, RV
<1> HIDE DEF q, w
<1>4. /\ DOMAIN q = PanelFields /\ q.refused = {} /\ q.uuid = w.uuid /\ q.cur = w.cur
      /\ q.last = w.last /\ q.fresh = w.fresh /\ q.on = w.on /\ q.info = w.info
  BY <1>1, <1>3 DEF PanelOK, PanelFields
<1>5. PanelOK(q)  BY <1>1, <1>4 DEF PanelOK
<1>6. QED  BY <1>4, <1>5 DEF q, w

\* What has been read is as good from there on as what was written from the start.
LEMMA ReadFine ==
  ASSUME NEW v, NEW s, Fine(v, 0, s), NEW q, q = Read(v, s.pc.wire), NEW n, NEW t,
         RV(q, n, t) = q, Alike(s, t), t.pc.up, IsSeq(t.pc.wire), n \in 0..Len(t.pc.wire)
  PROVE  Fine(q, n, t) /\ RV(q, n, t).refused = {}
<1> DEFINE w == RV(v, 0, s)
<1>1. /\ PanelOK(q) /\ q.refused = {} /\ q.uuid = w.uuid /\ q.cur = w.cur
      /\ q.fresh = w.fresh /\ q.on = w.on /\ q.info = w.info
  BY ReadIs
<1>2. Registered(w, s, {}) /\ Displays(w, s)  BY DEF Fine, Good
<1> HIDE DEF w
<1>3. Registered(q, t, {})  BY <1>1, <1>2, AlikeRegistered
<1>4. Displays(q, t)  BY <1>1, <1>2, AlikeDisplays
<1>5. QED  BY <1>1, <1>3, <1>4 DEF Fine, Rest, Good

LEMMA WireEmptied ==
  ASSUME Fe(fe), fe' = [Now EXCEPT !.pc.wire = <<>>]
  PROVE  fe'.pc.wire = <<>> /\ fe'.pc.up = fe.pc.up /\ Alike(fe, fe')
<1> DEFINE p == [fe.pc EXCEPT !.wire = <<>>]
<1>1. Same(fe, Now) /\ Now.pc = fe.pc  BY NowSame
<1>2. fe' = [Now EXCEPT !.pc = p]  BY <1>1 DEF Same, Fe, Fields
<1>3. p.wire = <<>> /\ p.up = fe.pc.up  BY DEF Fe
<1> HIDE DEF p
<1>4. fe'.pc = p /\ fe'.ics = Now.ics /\ fe'.focus = Now.focus /\ fe'.inst = Now.inst
  BY <1>1, <1>2 DEF Same, Fe, Fields
<1>5. QED  BY <1>1, <1>3, <1>4 DEF Same, Alike

LEMMA ReadsAgrees ==
  ASSUME AInv, PanelReads
  PROVE  alive' /\ Fine(panel', 0, fe') /\ fe'.pc.wire = <<>>
<1>1. /\ alive /\ alive' = alive /\ panel' = Read(panel, fe.pc.wire)
      /\ fe' = [Now EXCEPT !.pc.wire = <<>>]
  BY DEF PanelReads
<1>2. Fe(fe) /\ Fine(panel, 0, fe)  BY <1>1 DEF AInv, XInv
<1>3. fe'.pc.wire = <<>> /\ fe'.pc.up /\ Alike(fe, fe')
  BY <1>1, <1>2, WireEmptied DEF Fine, Rest
<1>4. RV(panel', 0, fe') = panel'  BY <1>3, AllRead
<1>5. IsSeq(fe'.pc.wire) /\ 0 \in 0..Len(fe'.pc.wire)  BY <1>3, NothingSeq, BehindNothing
<1>6. QED  BY <1>1, <1>2, <1>3, <1>4, <1>5, ReadFine

LEMMA CrashAgrees ==
  ASSUME AInv, PanelCrashes
  PROVE  ~alive' /\ panel' = NewSession(Icids) /\ fe'.pc.wire = <<>>
<1>1. Fe(fe)  BY DEF AInv, XInv
<1>2. QED  BY <1>1, WireEmptied DEF PanelCrashes

LEMMA ReconnectAgrees ==
  ASSUME AInv, NEW ok \in BOOLEAN, run_reconnect(ok)
  PROVE  /\ panel' = NewSession(Icids) /\ fe'.pc.wire = <<>>
         /\ alive' => Fine(panel', 0, fe')
<1>1. /\ ~alive /\ alive' = ok /\ panel' = panel
      /\ fe' = [Now EXCEPT !.pc = open_connection(@, ok)]
  BY DEF run_reconnect
<1>2. Fe(fe) /\ panel = NewSession(Icids)  BY <1>1 DEF AInv, XInv
<1> DEFINE p == open_connection(fe.pc, ok)
<1>3. Fe(Now) /\ Now.pc = fe.pc  BY <1>2, NowSame DEF Same
<1>4. p.wire = <<>> /\ p.up = ok  BY <1>2 DEF open_connection, close_connection, Fe
<1>5. fe' = [Now EXCEPT !.pc = p]  BY <1>1, <1>3 DEF Fe, Fields
<1> HIDE DEF p
<1>6. fe'.pc = p  BY <1>3, <1>5 DEF Fe, Fields
<1>7. QED  BY <1>1, <1>2, <1>4, <1>6, NewFine

LEMMA AInvInit == Init => AInv
<1> SUFFICES ASSUME Init PROVE AInv  OBVIOUS
<1>1. fe.pc = open_connection(NewClient, TRUE) /\ panel = NewSession(Icids) /\ alive = TRUE
  BY DEF Init
<1>2. fe.pc.up /\ fe.pc.wire = <<>>
  BY <1>1 DEF open_connection, close_connection, NewClient
<1>3. QED  BY <1>1, <1>2, XInvInit, NewFine DEF AInv

LEMMA AInvNext == AInv /\ [Next]_vars => AInv'
<1> SUFFICES ASSUME AInv, [Next]_vars PROVE AInv'  OBVIOUS
<1>1. XInv /\ XInv'  BY XInvNext DEF AInv
<1>2. CASE Handler
  <2>1. Fe(fe)'  BY <1>1 DEF XInv
  <2>2. DOMAIN fe' = Fields /\ DOMAIN fe'.pc = {"up", "ref", "cur", "trans", "wire"}
    BY <2>1 DEF Fe
  <2>3. panel' = panel /\ alive' = alive /\ (~alive => fe'.pc.wire = <<>>)
    BY <1>2, <2>2, HandlerFrame
  <2>4. alive => Fine(panel', 0, fe')  BY <1>1, <1>2, <2>3, HandlerAgrees DEF AInv
  <2>5. QED  BY <1>1, <2>3, <2>4 DEF AInv
<1>3. CASE PanelReads  BY <1>1, <1>3, ReadsAgrees DEF AInv
<1>4. CASE PanelCrashes  BY <1>1, <1>4, CrashAgrees DEF AInv
<1>5. ASSUME NEW ok \in BOOLEAN, run_reconnect(ok)  PROVE AInv'
  BY <1>1, <1>5, ReconnectAgrees DEF AInv
<1>6. CASE UNCHANGED vars
  <2>1. fe' = fe /\ panel' = panel /\ alive' = alive  BY <1>6 DEF vars
  <2>2. QED  BY <1>1, <2>1 DEF AInv
<1>7. QED  BY <1>2, <1>3, <1>4, <1>5, <1>6 DEF Next, Handler

\* Once the panel has read everything it agrees with the front end on the
\* registrations, on the focused IC and on what this shows: after every sequence
\* of requests, hotkeys, changes of the mode, crashes and reconnections, however
\* much is unread in between.
THEOREM PanelAgreesAlways == Spec => []PanelAgrees
<1>1. AInv => PanelAgrees
  <2> SUFFICES ASSUME AInv, alive, fe.pc.wire = <<>>
               PROVE  /\ \A i \in Live(fe) :
                           panel.uuid[i] # NoArg /\ ~fe.ics[i].shared =>
                             panel.uuid[i] = fe.inst[fe.ics[i].siid]
                      /\ fe.focus # NoIcid /\ ~panel.fresh =>
                           /\ panel.cur = fe.focus /\ panel.on = fe.ics[fe.focus].on
                           /\ ~fe.ics[fe.focus].shared =>
                                panel.info = IF panel.on THEN fe.inst[fe.ics[fe.focus].siid]
                                             ELSE NoArg
    BY DEF PanelAgrees
  <2>1. Good(panel, fe)  BY AllRead DEF AInv, Fine
  <2>2. Live(fe) \ {} = Live(fe)  OBVIOUS
  <2>3. QED  BY <2>1, <2>2 DEF Good, Registered, Displays, Info
<1>2. QED  BY <1>1, AInvInit, AInvNext, PTL DEF Spec

\* The IC that has the focus after a handler, with an instance of its own, has
\* no command of this handler refused by the panel, whatever is unread.
THEOREM NothingRefusedAlways == Spec => NothingRefused
<1> DEFINE n == Len(fe.pc.wire)
           q == Read(panel, fe.pc.wire)
           W == SubSeq(fe'.pc.wire, n + 1, Len(fe'.pc.wire))
           A == fe'.focus # NoIcid /\ ~fe'.ics[fe'.focus].shared
                  => fe'.focus \notin Refused(q, W)
<1>1. ASSUME AInv, [Next]_vars  PROVE A
  <2>1. XInv /\ XInv'  BY <1>1, XInvNext DEF AInv
  <2>2. IsSeq(fe.pc.wire)  BY <1>1, NothingSeq DEF AInv, Fine, Rest
  <2>3. n \in Nat /\ Behind(fe.pc.wire, n) = <<>>  BY <2>2, BehindNothing
  <2>4. q.refused = {}
    <3>1. CASE alive  BY <1>1, <3>1, ReadIs DEF AInv
    <3>2. CASE ~alive
      <4>1. panel = NewSession(Icids) /\ fe.pc.wire = <<>>  BY <1>1, <3>2 DEF AInv
      <4>2. q = [panel EXCEPT !.refused = {}]  BY <4>1, ReadNothing DEF Read
      <4>3. QED  BY <4>1, <4>2 DEF NewSession
    <3>3. QED  BY <3>1, <3>2
  <2>5. Refused(q, <<>>) = {}  BY <2>4, ReadNothing DEF Refused
  <2>6. ASSUME fe'.pc.wire = <<>>  PROVE W = <<>>
    <3>1. Len(fe'.pc.wire) = 0  BY <2>6
    <3>2. n + 1 > 0  BY <2>3
    <3>3. QED  BY <2>3, <2>6, <3>1, <3>2
  <2>7. CASE Handler /\ alive
    <3>1. RV(q, n, fe) = q  BY <2>3, ReadNothing DEF RV
    <3>2. n \in 0..Len(fe.pc.wire) /\ Alike(fe, fe) /\ fe.pc.up
      BY <1>1, <2>3, <2>7 DEF Alike, AInv, Fine, Rest
    <3> DEFINE k == n  r == q
    <3>3. k = n /\ r = q  OBVIOUS
    <3>4. Fine(panel, 0, fe)  BY <1>1, <2>7 DEF AInv
    <3>5. r = Read(panel, fe.pc.wire) /\ RV(r, k, fe) = r /\ k \in 0..Len(fe.pc.wire)
      BY <3>1, <3>2
    <3> HIDE DEF k, r
    <3>6. Fine(r, k, fe) /\ RV(r, k, fe).refused = {}
      BY <2>2, <3>2, <3>4, <3>5, ReadFine
    <3>7. Fine(r, k, fe') /\ Polite(r, k, fe, fe')  BY <2>1, <2>7, <3>6, HandlerAgrees
    <3>8. RV(r, k, fe').refused = Refused(r, Behind(fe'.pc.wire, k))  BY DEF RV, Refused
    <3>9. Behind(fe'.pc.wire, k) = W  BY <3>3 DEF Behind
    <3>10. QED  BY <3>3, <3>6, <3>7, <3>8, <3>9 DEF Polite
  <2>8. CASE Handler /\ ~alive
    <3>1. Fe(fe)'  BY <2>1 DEF XInv
    <3>2. DOMAIN fe' = Fields /\ DOMAIN fe'.pc = {"up", "ref", "cur", "trans", "wire"}
      BY <3>1 DEF Fe
    <3>3. fe'.pc.wire = <<>>  BY <2>8, <3>2, HandlerFrame
    <3>4. QED  BY <2>5, <2>6, <3>3
  <2>9. CASE PanelReads \/ PanelCrashes \/ \E ok \in BOOLEAN : run_reconnect(ok)
    <3>1. fe'.pc.wire = <<>>  BY <1>1, <2>9, ReadsAgrees, CrashAgrees, ReconnectAgrees
    <3>2. QED  BY <2>5, <2>6, <3>1
  <2>10. CASE UNCHANGED vars
    <3>1. fe' = fe  BY <2>10 DEF vars
    <3>2. W = <<>>  BY <2>3, <3>1 DEF Behind
    <3>3. QED  BY <2>5, <3>2
  <2>11. QED  BY <1>1, <2>7, <2>8, <2>9, <2>10 DEF Next, Handler
<1>2. AInv /\ [Next]_vars => [A]_vars  BY <1>1
<1> HIDE DEF A
<1>3. Spec => [][A]_vars  BY <1>2, AInvInit, AInvNext, PTL DEF Spec
<1>4. QED  BY <1>3 DEF NothingRefused, A
=============================================================================
