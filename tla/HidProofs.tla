----------------------------- MODULE HidProofs -----------------------------
(***************************************************************************)
(* Theorems about Hid for every set of connections, goroutines, keys and   *)
(* scripts, with their proofs: typing; HidInv, the inductive invariant,    *)
(* and the safety properties that follow from it; the list of held keys;   *)
(* the refinement of HidPromise; and of HidTyping, that texts arrive.      *)
(***************************************************************************)
EXTENDS HidTyping, SequenceTheorems, TLAPS

\* No session that has been reset into its read loop is left.
NoneOpen == \A c \in Conns : conn[c] \in {"off", "hello"}

\* A free mutex has nothing to write.
FreeLockInv == holder = None => out = NoReports

\* What an unplugged target knows.
DetachedInv == ~attached => wire = NoReports /\ seen = Cleared

\* Only an open session holds keys or buttons.
HeldBySessions == NoneOpen => mods = {} /\ keys = <<>> /\ buttons = {}

\* The relative mouse has a button down only for an open session.
RelInv == fresh /\ NoneOpen => Final("rel").buttons = {}

\* Without a relative mouse nothing ever reaches its line.
NoRelInv == ~HasRel => /\ out["rel"] = None
                       /\ wire["rel"] = None
                       /\ seen["rel"] = RelReport({})

HidInv ==
    /\ FreeLockInv
    /\ DetachedInv
    /\ HeldBySessions
    /\ KeyboardInStep
    /\ PointerInStep
    /\ RelInv
    /\ NoRelInv

-----------------------------------------------------------------------------
(* Typing.                                                                 *)

\* Removing one entry from a key list leaves a key list.
LEMMA DropAtType ==
    ASSUME NEW s \in Seq(Keys), NEW i, s # <<>>
    PROVE  /\ DropAt(s, i) \in Seq(Keys)
           /\ Len(DropAt(s, i)) = Len(s) - 1
           /\ \A j \in 1 .. Len(s) - 1 :
                 DropAt(s, i)[j] = IF j < i THEN s[j] ELSE s[j + 1]
<1>1. Len(s) - 1 \in Nat
  BY EmptySeq, LenProperties
<1>2. \A j \in 1 .. Len(s) - 1 : s[j] \in Keys /\ s[j + 1] \in Keys
  BY LenProperties, ElementOfSeq
<1>3. DropAt(s, i) \in [1 .. Len(s) - 1 -> Keys]
  BY <1>2 DEF DropAt
<1>4. DropAt(s, i) \in Seq(Keys)
  BY <1>1, <1>3, SeqDef
<1>5. Len(DropAt(s, i)) = Len(s) - 1
  <2>1. DOMAIN DropAt(s, i) = 1 .. Len(s) - 1
    BY DEF DropAt
  <2>2. Len(DropAt(s, i)) \in Nat /\ DOMAIN DropAt(s, i) = 1 .. Len(DropAt(s, i))
    BY <1>4, LenProperties
  <2>3. QED
    BY <1>1, <2>1, <2>2
<1>6. QED
  BY <1>4, <1>5 DEF DropAt

\* The list of held keys stays a sequence of keys.
LEMMA KeysAfterType ==
    ASSUME TypeOK, NEW k \in Keys, NEW press \in BOOLEAN
    PROVE  KeysAfter(keys, k, press) \in Seq(Keys)
<1>1. keys \in Seq(Keys)
  BY DEF TypeOK, ProcOK
<1>2. CASE press
  BY <1>1, <1>2, AppendProperties DEF KeysAfter
<1>3. CASE ~press /\ k \in Range(keys)
  <2>1. keys # <<>>
    BY <1>1, <1>3, EmptySeq DEF Range
  <2>2. QED
    BY <1>1, <1>3, <2>1, DropAtType DEF KeysAfter
<1>4. CASE ~press /\ k \notin Range(keys)
  BY <1>1, <1>4 DEF KeysAfter
<1>5. QED
  BY <1>2, <1>3, <1>4

\* What writeRaw writes is a keyboard report.
LEMMA RawReportType ==
    ASSUME NEW r \in KbdReports
    PROVE  RawReport(r) \in KbdReports /\ Len(RawReport(r).keys) <= KeySlots
<1>1. r.keys \in Seq(Keys) /\ r.mods \in SUBSET Mods
  BY DEF KbdReports
<1>2. CASE Len(r.keys) > KeySlots
  <2>1. SubSeq(r.keys, 1, KeySlots) \in Seq(Keys)
    BY <1>1, <1>2, HidAssumption, ReportsAssumption, SubSeqProperties
  <2>2. Len(SubSeq(r.keys, 1, KeySlots)) = KeySlots
    BY <1>1, <1>2, HidAssumption, ReportsAssumption, SubSeqProperties, LenProperties
  <2>3. QED
    BY <1>1, <1>2, <2>1, <2>2, HidAssumption, ReportsAssumption DEF RawReport, KbdReport, KbdReports
<1>3. CASE ~(Len(r.keys) > KeySlots)
  BY <1>1, <1>3, HidAssumption, ReportsAssumption, LenProperties DEF RawReport, KbdReport, KbdReports
<1>4. QED
  BY <1>2, <1>3

\* The three devices are three, each with reports of its own.
LEMMA DeviceFacts ==
    /\ Cleared \in [Devices -> AnyReport]
    /\ NoReports \in [Devices -> AnyReport \cup {None}]
    /\ \A d \in Devices : /\ ReportsOf(d) \subseteq AnyReport
                          /\ Cleared[d] \in ReportsOf(d)
                          /\ NoReports[d] = None
                          /\ None \notin ReportsOf(d)
<1>1. <<>> \in Seq(Keys)
  BY EmptySeq
<1>2. \A d \in Devices : /\ ReportsOf(d) \subseteq AnyReport
                         /\ NoReports[d] = None
                         /\ None \notin ReportsOf(d)
  BY NoneIsNoReport DEF ReportsOf, AnyReport, NoReports
<1>3. \A d \in Devices : Cleared[d] \in ReportsOf(d)
  BY <1>1 DEF Cleared, Devices, ReportsOf, KbdReport, AbsReport, RelReport,
              KbdReports, AbsReports, RelReports
<1>4. Cleared \in [Devices -> AnyReport]
  BY <1>2, <1>3 DEF Cleared
<1>5. NoReports \in [Devices -> AnyReport \cup {None}]
  BY DEF NoReports
<1>6. QED
  BY <1>2, <1>3, <1>4, <1>5

\* Taking the mutex with one report to write keeps the typing.
LEMMA OnlyType ==
    ASSUME NEW d \in Devices, NEW r \in ReportsOf(d)
    PROVE  /\ Only(d, r) \in [Devices -> AnyReport \cup {None}]
           /\ \A e \in Devices : Only(d, r)[e] = IF e = d THEN r ELSE None
BY DeviceFacts DEF Only, NoReports

LEMMA OnlyKeepsLines ==
    ASSUME LinesOK, NEW d \in Devices, NEW r \in ReportsOf(d),
           out' = Only(d, r), UNCHANGED <<wire, seen>>
    PROVE  LinesOK'
<1>1. \A e \in Devices : out'[e] \in ReportsOf(e) \cup {None}
  BY OnlyType
<1>2. out' \in [Devices -> AnyReport \cup {None}]
  BY OnlyType
<1>3. QED
  BY <1>1, <1>2 DEF LinesOK

\* What the handlers write are reports of their devices.
LEMMA ReportTypes ==
    /\ \A ms \in SUBSET Mods, ks \in Seq(Keys) : KbdReport(ms, ks) \in ReportsOf("kbd")
    /\ \A bs \in SUBSET Buttons, p \in Points : AbsReport(bs, p) \in ReportsOf("abs")
    /\ \A bs \in SUBSET Buttons : RelReport(bs) \in ReportsOf("rel")
    /\ <<>> \in Seq(Keys)
    /\ {"kbd", "abs", "rel"} = Devices
BY EmptySeq DEF KbdReport, AbsReport, RelReport, ReportsOf,
                KbdReports, AbsReports, RelReports, Devices

\* A script is a sequence of keyboard reports.
LEMMA ScriptType == Scripts \subseteq Seq(KbdReports) /\ <<>> \in Seq(KbdReports)
BY HidAssumption, ReportsAssumption, EmptySeq DEF KbdReports

\* What Reset leaves to be written are reports of their devices.
LEMMA ResetReportsType ==
    ASSUME last \in Points
    PROVE  /\ ResetReports \in [Devices -> AnyReport \cup {None}]
           /\ ResetReports["kbd"] = KbdReport({}, <<>>)
           /\ ResetReports["abs"] = AbsReport({}, last)
           /\ ResetReports["rel"] = IF HasRel THEN RelReport({}) ELSE None
           /\ \A d \in Devices : ResetReports[d] \in ReportsOf(d) \cup {None}
<1>1. /\ ResetReports["kbd"] = KbdReport({}, <<>>)
      /\ ResetReports["abs"] = AbsReport({}, last)
      /\ ResetReports["rel"] = IF HasRel THEN RelReport({}) ELSE None
      /\ DOMAIN ResetReports = Devices
  BY DEF ResetReports, Devices
<1>2. \A d \in Devices : ResetReports[d] \in ReportsOf(d) \cup {None}
  BY <1>1, ReportTypes DEF Devices
<1>3. \A d \in Devices : ResetReports[d] \in AnyReport \cup {None}
  BY <1>2, DeviceFacts
<1>4. ResetReports = [d \in Devices |-> ResetReports[d]]
  BY <1>1 DEF ResetReports, Devices
<1>5. QED
  BY <1>1, <1>2, <1>3, <1>4

\* A step that leaves the lines and the process alone keeps the typing.
LEMMA TypeStutter == ASSUME TypeOK, UNCHANGED vars PROVE TypeOK'
BY DEF TypeOK, ProcOK, LinesOK, vars, procVars

LEMMA TypeWrite == ASSUME TypeOK, NEW d \in Devices, Write(d) PROVE TypeOK'
<1> USE DEF TypeOK
<1>1. LinesOK'
  <2>1. out' \in [Devices -> AnyReport \cup {None}]
        /\ \A e \in Devices : out'[e] \in ReportsOf(e) \cup {None}
    BY DEF Write, LinesOK
  <2>2. wire' \in [Devices -> AnyReport \cup {None}]
        /\ \A e \in Devices : wire'[e] \in ReportsOf(e) \cup {None}
    BY DEF Write, LinesOK
  <2>3. QED
    BY <2>1, <2>2 DEF Write, LinesOK
<1>2. more' \in 0 .. MaxChunks - 1 /\ holder' \in Conns \cup Tasks \cup {None}
  BY HidAssumption, ReportsAssumption DEF Write, ProcOK
<1>3. QED
  BY <1>1, <1>2 DEF Write, ProcOK, procVars

LEMMA TypeSession == ASSUME TypeOK, NEW c \in Conns, Session(c) PROVE TypeOK'
<1> USE DEF TypeOK
<1>0. LinesOK /\ ProcOK
  OBVIOUS
<1>1. CASE Connect(c)
  BY <1>0, <1>1 DEF Connect, LinesOK, ProcOK, procVars, lineVars
<1>2. CASE Disconnect(c)
  BY <1>0, <1>2 DEF Disconnect, LinesOK, ProcOK, procVars, lineVars
<1>3. CASE Reset(c)
  <2>1. out' = ResetReports /\ holder' = c
    BY <1>3 DEF Reset, Hold, ResetReports
  <2>2. LinesOK'
    BY <1>0, <1>3, <2>1, ResetReportsType DEF Reset, LinesOK, ProcOK, lineVars
  <2>3. ProcOK'
    BY <1>0, <1>3, <2>1, ReportTypes DEF Reset, ProcOK, lineVars
  <2>4. QED
    BY <2>2, <2>3
<1>4. ASSUME NEW m \in Mods, NEW press \in BOOLEAN, ModKey(c, m, press) PROVE TypeOK'
  <2>1. mods' \in SUBSET Mods
    BY <1>0, <1>4 DEF ModKey, ProcOK
  <2>2. LinesOK'
    BY <1>0, <1>4, <2>1, ReportTypes, OnlyKeepsLines DEF ModKey, Handling, Hold, ProcOK, lineVars
  <2>3. ProcOK'
    BY <1>0, <1>4, <2>1 DEF ModKey, Handling, Hold, ProcOK, lineVars
  <2>4. QED
    BY <2>2, <2>3
<1>5. ASSUME NEW k \in Keys, NEW press \in BOOLEAN, Key(c, k, press) PROVE TypeOK'
  <2>1. keys' \in Seq(Keys)
    BY <1>5, KeysAfterType DEF Key
  <2>2. LinesOK'
    BY <1>0, <1>5, <2>1, ReportTypes, OnlyKeepsLines DEF Key, Handling, Hold, ProcOK, lineVars
  <2>3. ProcOK'
    BY <1>0, <1>5, <2>1 DEF Key, Handling, Hold, ProcOK, lineVars
  <2>4. QED
    BY <2>2, <2>3
<1>6. ASSUME NEW bs \in SUBSET Buttons, NEW p \in Points, MouseAbs(c, bs, p) PROVE TypeOK'
  <2>1. LinesOK'
    BY <1>0, <1>6, ReportTypes, OnlyKeepsLines DEF MouseAbs, Handling, Hold, lineVars
  <2>2. ProcOK'
    BY <1>0, <1>6 DEF MouseAbs, Handling, Hold, ProcOK, lineVars
  <2>3. QED
    BY <2>1, <2>2
<1>7. CASE Wheel(c)
  <2>1. LinesOK'
    BY <1>0, <1>7, ReportTypes, OnlyKeepsLines DEF Wheel, Handling, Hold, ProcOK, lineVars
  <2>2. ProcOK'
    BY <1>0, <1>7 DEF Wheel, Handling, Hold, ProcOK, lineVars, procVars
  <2>3. QED
    BY <2>1, <2>2
<1>8. ASSUME NEW bs \in SUBSET Buttons, NEW n \in 1 .. MaxChunks, MouseRelMove(c, bs, n)
      PROVE  TypeOK'
  <2>1. LinesOK'
    BY <1>0, <1>8, ReportTypes, OnlyKeepsLines DEF MouseRelMove, Handling, Hold, lineVars
  <2>2. more' \in 0 .. MaxChunks - 1
    BY <1>8, HidAssumption, ReportsAssumption DEF MouseRelMove
  <2>3. ProcOK'
    BY <1>0, <1>8, <2>2 DEF MouseRelMove, Handling, Hold, ProcOK, lineVars, procVars
  <2>4. QED
    BY <2>1, <2>3
<1>9. ASSUME NEW t \in Tasks, NEW s \in Scripts, SpawnFromSession(c, t, s) PROVE TypeOK'
  BY <1>0, <1>9, ScriptType
     DEF SpawnFromSession, Start, LinesOK, ProcOK, procVars, lineVars
<1>10. QED
  BY <1>1, <1>2, <1>3, <1>4, <1>5, <1>6, <1>7, <1>8, <1>9 DEF Session

LEMMA TypeGoroutine == ASSUME TypeOK, NEW t \in Tasks, Goroutine(t) PROVE TypeOK'
<1> USE DEF TypeOK
<1>0. LinesOK /\ ProcOK
  OBVIOUS
<1>1. CASE Press(t)
  <2>1. Head(task[t]) \in KbdReports /\ Tail(task[t]) \in Seq(KbdReports)
    BY <1>0, <1>1, HeadTailProperties DEF Press, ProcOK
  <2>2. RawReport(Head(task[t])) \in ReportsOf("kbd")
    BY <2>1, RawReportType DEF ReportsOf
  <2>3. LinesOK'
    BY <1>0, <1>1, <2>2, ReportTypes, OnlyKeepsLines DEF Press, Hold, lineVars
  <2>4. ProcOK'
    BY <1>0, <1>1, <2>1 DEF Press, Hold, ProcOK, lineVars, procVars
  <2>5. QED
    BY <2>3, <2>4
<1>2. CASE Release(t)
  <2>1. LinesOK'
    BY <1>0, <1>2, ReportTypes, OnlyKeepsLines DEF Release, Hold, lineVars
  <2>2. ProcOK'
    BY <1>0, <1>2 DEF Release, Hold, ProcOK, lineVars, procVars
  <2>3. QED
    BY <2>1, <2>2
<1>3. ASSUME NEW s \in Scripts, SpawnFromApi(t, s) PROVE TypeOK'
  BY <1>0, <1>3, ScriptType DEF SpawnFromApi, Start, LinesOK, ProcOK, procVars, lineVars
<1>4. QED
  BY <1>1, <1>2, <1>3 DEF Goroutine

LEMMA TypeTarget == ASSUME TypeOK, Target PROVE TypeOK'
<1> USE DEF TypeOK
<1>0. LinesOK /\ ProcOK
  OBVIOUS
<1>1. ASSUME NEW d \in Devices, Poll(d) PROVE TypeOK'
  <2>1. LinesOK'
    BY <1>0, <1>1, DeviceFacts DEF Poll, LinesOK
  <2>2. ProcOK'
    BY <1>0, <1>1 DEF Poll, ProcOK, procVars
  <2>3. QED
    BY <2>1, <2>2
<1>2. CASE Detach
  <2>1. LinesOK'
    BY <1>0, <1>2, DeviceFacts DEF Detach, LinesOK
  <2>2. ProcOK'
    BY <1>0, <1>2 DEF Detach, ProcOK, procVars
  <2>3. QED
    BY <2>1, <2>2
<1>3. CASE Attach
  BY <1>0, <1>3 DEF Attach, LinesOK, ProcOK, procVars
<1>4. QED
  BY <1>1, <1>2, <1>3 DEF Target

LEMMA TypeRestart == ASSUME TypeOK, Restart PROVE TypeOK'
<1> USE DEF TypeOK
<1>1. LinesOK'
  BY DeviceFacts DEF Restart, LinesOK, lineVars
<1>2. task' \in [Tasks -> Seq(KbdReports)] /\ keys' \in Seq(Keys)
  BY ScriptType, ReportTypes DEF Restart
<1>3. attached' \in BOOLEAN
  BY DEF Restart, ProcOK, lineVars
<1>4. conn' \in [Conns -> {"off", "hello", "open", "bye"}] /\ down' \in [Tasks -> BOOLEAN]
  BY DEF Restart
<1>5. more' \in 0 .. MaxChunks - 1 /\ last' \in Points
  BY HidAssumption, ReportsAssumption DEF Restart
<1>6. ProcOK'
  BY <1>2, <1>3, <1>4, <1>5 DEF Restart, ProcOK
<1>7. QED
  BY <1>1, <1>6

LEMMA TypeInit == Init => TypeOK
<1> USE DEF TypeOK
<1>1. Init => LinesOK
  BY DeviceFacts DEF Init, LinesOK
<1>2. Init => ProcOK
  BY HidAssumption, ReportsAssumption, ReportTypes, ScriptType DEF Init, ProcOK
<1>3. QED
  BY <1>1, <1>2

LEMMA TypeNext == TypeOK /\ [Next]_vars => TypeOK'
BY TypeStutter, TypeWrite, TypeSession, TypeGoroutine, TypeTarget, TypeRestart DEF Next

\* Every variable keeps its type: in particular the key list stays a list of
\* keys and every device line carries reports of its own kind.
THEOREM TypeCorrect == Spec => []TypeOK
BY TypeInit, TypeNext, PTL DEF Spec

-----------------------------------------------------------------------------
(* The inductive invariant.  Each action either gives one device a new     *)
(* final report, or leaves every final report as it is or cleared.         *)

\* An empty keyboard report presses nothing, and neither does a cleared line.
LEMMA EmptyPressesNothing ==
    /\ Pressed("kbd", KbdReport({}, <<>>)) = {}
    /\ Cleared["kbd"] = KbdReport({}, <<>>)
    /\ Cleared["rel"] = RelReport({})
    /\ RelReport({}).buttons = {}
    /\ \A p : AbsReport({}, p).buttons = {}
<1>1. DOMAIN <<>> = {}
  BY EmptySeq, LenProperties
<1>2. Range(<<>>) = {}
  BY <1>1 DEF Range
<1>3. QED
  BY <1>2 DEF Pressed, KbdReport, RelReport, AbsReport, Cleared, Devices

\* Taking the free mutex with one report changes the final report of that
\* device only.
LEMMA FinalAfterOnly ==
    ASSUME TypeOK, HidInv, NEW p, NEW d \in Devices, NEW r \in ReportsOf(d),
           Hold(p, Only(d, r)), UNCHANGED <<wire, seen>>
    PROVE  \A e \in Devices : Final(e)' = IF e = d THEN r ELSE Final(e)
<1>1. out = NoReports
  BY DEF HidInv, FreeLockInv, Hold
<1>2. \A e \in Devices : out[e] = None
  BY <1>1, DeviceFacts
<1>3. \A e \in Devices : out'[e] = IF e = d THEN r ELSE None
  BY OnlyType DEF Hold
<1>4. r # None
  BY DeviceFacts
<1>5. QED
  BY <1>2, <1>3, <1>4 DEF Final

\* Final reports that stay, or are cleared by a fresh enumeration.
Steady == \A d \in Devices : Final(d)' = Final(d) \/ Final(d)' = Cleared[d]

\* A step that keeps the final reports, the process's state, the sessions'
\* standing and the goroutines' presses keeps the invariant.
LEMMA SteadyKeeps ==
    ASSUME HidInv, Steady, UNCHANGED <<procVars, down, fresh>>,
           NoneOpen' => NoneOpen
    PROVE  HeldBySessions' /\ KeyboardInStep' /\ PointerInStep' /\ RelInv'
<1>1. HeldBySessions'
  BY DEF HidInv, HeldBySessions, procVars
<1>2. KeyboardInStep'
  BY EmptyPressesNothing DEF HidInv, KeyboardInStep, Steady, procVars, Devices
<1>3. PointerInStep'
  BY DEF HidInv, PointerInStep, Steady, procVars, Devices
<1>4. RelInv'
  BY EmptyPressesNothing DEF HidInv, RelInv, Steady, Devices
<1>5. QED
  BY <1>1, <1>2, <1>3, <1>4

LEMMA InvWrite == ASSUME TypeOK, HidInv, NEW d \in Devices, Write(d) PROVE HidInv'
<1>0. LinesOK /\ (more > 0 => more - 1 \in Nat)
  BY HidAssumption, ReportsAssumption DEF TypeOK, ProcOK
<1>1. FreeLockInv'
  BY DeviceFacts DEF Write, HidInv, FreeLockInv
<1>2. DetachedInv'
  BY DEF Write, HidInv, DetachedInv
<1>3. Steady
  <2>1. ASSUME NEW e \in Devices PROVE Final(e)' = Final(e) \/ Final(e)' = Cleared[e]
    <3>1. CASE attached
      <4>1. wire'[d] = out[d] /\ out[d] # None /\ wire[d] = None /\ seen' = seen
        BY <1>0, <3>1 DEF Write, LinesOK
      <4>2. e # d => wire'[e] = wire[e] /\ out'[e] = out[e]
        BY <1>0, <3>1 DEF Write, LinesOK
      <4>3. out'[d] \in {None, out[d]}
        BY <1>0 DEF Write, LinesOK
      <4>4. QED
        BY <4>1, <4>2, <4>3 DEF Final
    <3>2. CASE ~attached
      <4>1. wire[e] = None /\ seen[e] = Cleared[e] /\ wire' = wire /\ seen' = seen
        BY <3>2, DeviceFacts DEF HidInv, DetachedInv, Write
      <4>2. out'[e] \in {None, out[e]}
        BY <1>0 DEF Write, LinesOK
      <4>3. QED
        BY <4>1, <4>2 DEF Final
    <3>3. QED
      BY <3>1, <3>2
  <2>2. QED
    BY <2>1 DEF Steady
<1>4. NoRelInv'
  BY <1>0 DEF Write, HidInv, NoRelInv, LinesOK, Devices
<1>5. NoneOpen' => NoneOpen
  BY DEF Write, NoneOpen
<1>6. QED
  BY <1>1, <1>2, <1>3, <1>4, <1>5, SteadyKeeps DEF Write, HidInv

\* A handler of an open session: it takes the mutex with one report for
\* device d, and the session stays open.
LEMMA InvHandler ==
    ASSUME TypeOK, HidInv, NEW c \in Conns, Handling(c),
           NEW d \in Devices, NEW r \in ReportsOf(d), Hold(c, Only(d, r)),
           d = "kbd" => r = KbdReport(mods, keys)' /\ UNCHANGED <<buttons, last>>,
           d = "abs" => r = AbsReport(buttons, last)' /\ UNCHANGED <<mods, keys>>,
           d = "rel" => HasRel /\ UNCHANGED procVars
    PROVE  HidInv'
<1>1. \A e \in Devices : Final(e)' = IF e = d THEN r ELSE Final(e)
  BY FinalAfterOnly DEF Handling, lineVars
<1>2. ~NoneOpen'
  BY DEF Handling, NoneOpen
<1>3. FreeLockInv'
  BY HidAssumption, ReportsAssumption DEF Hold, FreeLockInv
<1>4. DetachedInv'
  BY DEF Handling, lineVars, HidInv, DetachedInv
<1>5. KeyboardInStep'
  BY <1>1 DEF HidInv, KeyboardInStep, Handling, Devices, procVars
<1>6. PointerInStep'
  BY <1>1 DEF HidInv, PointerInStep, Handling, Devices, procVars
<1>7. NoRelInv'
  BY OnlyType DEF HidInv, NoRelInv, Handling, Hold, lineVars, Devices
<1>8. QED
  BY <1>2, <1>3, <1>4, <1>5, <1>6, <1>7 DEF HidInv, HeldBySessions, RelInv

LEMMA InvReset == ASSUME TypeOK, HidInv, NEW c \in Conns, Reset(c) PROVE HidInv'
<1>0. last \in Points /\ HasRel \in BOOLEAN
  BY HidAssumption, ReportsAssumption DEF TypeOK, ProcOK
<1>1. out' = ResetReports /\ holder' = c /\ out = NoReports
  BY DEF Reset, Hold, ResetReports, HidInv, FreeLockInv
<1>a. /\ {} \in SUBSET Mods /\ {} \in SUBSET Buttons
      /\ "kbd" \in Devices /\ "abs" \in Devices /\ "rel" \in Devices
  BY DEF Devices
<1>b. /\ KbdReport({}, <<>>) # None
      /\ AbsReport({}, last) # None
      /\ RelReport({}) # None
  BY <1>0, <1>a, ReportTypes, DeviceFacts
<1>2. Final("kbd")' = KbdReport({}, <<>>) /\ Final("abs")' = AbsReport({}, last)
  BY <1>0, <1>1, <1>b, ResetReportsType DEF Final
<1>3. HasRel => Final("rel")' = RelReport({})
  BY <1>0, <1>1, <1>b, ResetReportsType DEF Final
<1>4. NoRelInv'
  BY <1>0, <1>1, ResetReportsType DEF HidInv, NoRelInv, Reset, lineVars
<1>5. ~HasRel => Final("rel")' = RelReport({})
  BY <1>4 DEF NoRelInv, Final
<1>6. FreeLockInv'
  BY <1>1, HidAssumption, ReportsAssumption DEF FreeLockInv
<1>7. DetachedInv'
  BY DEF Reset, lineVars, HidInv, DetachedInv
<1>8. HeldBySessions' /\ KeyboardInStep' /\ PointerInStep'
  BY <1>2 DEF Reset, HeldBySessions, KeyboardInStep, PointerInStep
<1>9. RelInv'
  BY <1>0, <1>3, <1>5, EmptyPressesNothing DEF RelInv
<1>10. QED
  BY <1>4, <1>6, <1>7, <1>8, <1>9 DEF HidInv

\* What the other steps of a session do to the invariant.
LEMMA InvSession == ASSUME TypeOK, HidInv, NEW c \in Conns, Session(c) PROVE HidInv'
<1>0. ProcOK
  BY DEF TypeOK
<1>1. CASE Connect(c) \/ Disconnect(c)
  <2>1. Steady
    BY <1>1 DEF Connect, Disconnect, Steady, Final, lineVars
  <2>2. NoneOpen' => NoneOpen
    BY <1>0, <1>1 DEF Connect, Disconnect, NoneOpen, ProcOK
  <2>3. HeldBySessions' /\ KeyboardInStep' /\ PointerInStep' /\ RelInv'
    BY <1>1, <2>1, <2>2, SteadyKeeps DEF Connect, Disconnect
  <2>4. FreeLockInv' /\ DetachedInv' /\ NoRelInv'
    BY <1>1 DEF Connect, Disconnect, lineVars, HidInv, FreeLockInv, DetachedInv, NoRelInv
  <2>5. QED
    BY <2>3, <2>4 DEF HidInv
<1>2. CASE Reset(c)
  BY <1>2, InvReset
<1>3. ASSUME NEW m \in Mods, NEW press \in BOOLEAN, ModKey(c, m, press) PROVE HidInv'
  <2>1. KbdReport(mods', keys) \in ReportsOf("kbd") /\ "kbd" \in Devices
    BY <1>0, <1>3, ReportTypes DEF ModKey, ProcOK, Devices
  <2>2. QED
    BY <1>3, <2>1, InvHandler DEF ModKey
<1>4. ASSUME NEW k \in Keys, NEW press \in BOOLEAN, Key(c, k, press) PROVE HidInv'
  <2>1. KbdReport(mods, keys') \in ReportsOf("kbd") /\ "kbd" \in Devices
    BY <1>0, <1>4, KeysAfterType, ReportTypes DEF Key, ProcOK, Devices
  <2>2. QED
    BY <1>4, <2>1, InvHandler DEF Key
<1>5. ASSUME NEW bs \in SUBSET Buttons, NEW p \in Points, MouseAbs(c, bs, p) PROVE HidInv'
  <2>1. AbsReport(bs, p) \in ReportsOf("abs") /\ "abs" \in Devices
    BY ReportTypes DEF Devices
  <2>2. QED
    BY <1>5, <2>1, InvHandler DEF MouseAbs
<1>6. CASE Wheel(c)
  <2>1. AbsReport(buttons, last) \in ReportsOf("abs") /\ "abs" \in Devices
    BY <1>0, ReportTypes DEF ProcOK, Devices
  <2>2. AbsReport(buttons, last) = AbsReport(buttons, last)'
    BY <1>6 DEF Wheel, procVars
  <2>3. QED
    BY <1>6, <2>1, <2>2, InvHandler DEF Wheel, procVars
<1>7. ASSUME NEW bs \in SUBSET Buttons, NEW n \in 1 .. MaxChunks, MouseRelMove(c, bs, n)
      PROVE  HidInv'
  <2>1. RelReport(bs) \in ReportsOf("rel") /\ "rel" \in Devices
    BY ReportTypes DEF Devices
  <2>2. QED
    BY <1>7, <2>1, InvHandler DEF MouseRelMove
<1>8. ASSUME NEW t \in Tasks, NEW s \in Scripts, Start(t, s) PROVE HidInv'
  <2>1. Steady /\ (NoneOpen' => NoneOpen)
    BY <1>8 DEF Start, Steady, Final, NoneOpen, lineVars
  <2>2. HeldBySessions' /\ KeyboardInStep' /\ PointerInStep' /\ RelInv'
    BY <1>8, <2>1, SteadyKeeps DEF Start
  <2>3. FreeLockInv' /\ DetachedInv' /\ NoRelInv'
    BY <1>8 DEF Start, lineVars, HidInv, FreeLockInv, DetachedInv, NoRelInv
  <2>4. QED
    BY <2>2, <2>3 DEF HidInv
<1>9. QED
  BY <1>1, <1>2, <1>3, <1>4, <1>5, <1>6, <1>7, <1>8 DEF Session, SpawnFromSession

\* A goroutine's press or release takes the mutex with one keyboard report;
\* after a press the goroutine is down, and a release presses nothing.
LEMMA InvGoroutine == ASSUME TypeOK, HidInv, NEW t \in Tasks, Goroutine(t) PROVE HidInv'
<1>0. ProcOK
  BY DEF TypeOK
<1>1. ASSUME NEW r \in ReportsOf("kbd"), Hold(t, Only("kbd", r)),
             UNCHANGED <<conn, procVars, lineVars, fresh>>,
             (\E u \in Tasks : down'[u]) \/ Pressed("kbd", r) = {}
      PROVE  HidInv'
  <2>1. "kbd" \in Devices
    BY DEF Devices
  <2>2. \A e \in Devices : Final(e)' = IF e = "kbd" THEN r ELSE Final(e)
    BY <1>1, <2>1, FinalAfterOnly DEF lineVars
  <2>3. KeyboardInStep'
    BY <1>1, <2>1, <2>2 DEF KeyboardInStep
  <2>4. PointerInStep' /\ RelInv'
    BY <1>1, <2>2 DEF HidInv, PointerInStep, RelInv, NoneOpen, procVars, Devices
  <2>5. HeldBySessions' /\ DetachedInv'
    BY <1>1 DEF HidInv, HeldBySessions, DetachedInv, NoneOpen, procVars, lineVars
  <2>6. FreeLockInv'
    BY <1>1, HidAssumption, ReportsAssumption DEF Hold, FreeLockInv
  <2>7. NoRelInv'
    BY <1>1, <2>1, OnlyType DEF HidInv, NoRelInv, Hold, lineVars, Devices
  <2>8. QED
    BY <2>3, <2>4, <2>5, <2>6, <2>7 DEF HidInv
<1>2. CASE Press(t)
  <2>1. RawReport(Head(task[t])) \in ReportsOf("kbd")
    BY <1>0, <1>2, HeadTailProperties, RawReportType DEF Press, ProcOK, ReportsOf
  <2>2. down'[t]
    BY <1>0, <1>2 DEF Press, ProcOK
  <2>3. QED
    BY <1>1, <1>2, <2>1, <2>2 DEF Press
<1>3. CASE Release(t)
  <2>1. KbdReport({}, <<>>) \in ReportsOf("kbd") /\ Pressed("kbd", KbdReport({}, <<>>)) = {}
    BY ReportTypes, EmptyPressesNothing
  <2>2. QED
    BY <1>1, <1>3, <2>1 DEF Release
<1>4. ASSUME NEW s \in Scripts, SpawnFromApi(t, s) PROVE HidInv'
  <2>1. Steady /\ (NoneOpen' => NoneOpen)
    BY <1>4 DEF SpawnFromApi, Start, Steady, Final, NoneOpen, lineVars
  <2>2. HeldBySessions' /\ KeyboardInStep' /\ PointerInStep' /\ RelInv'
    BY <1>4, <2>1, SteadyKeeps DEF SpawnFromApi, Start
  <2>3. FreeLockInv' /\ DetachedInv' /\ NoRelInv'
    BY <1>4 DEF SpawnFromApi, Start, lineVars, HidInv, FreeLockInv, DetachedInv, NoRelInv
  <2>4. QED
    BY <2>2, <2>3 DEF HidInv
<1>5. QED
  BY <1>2, <1>3, <1>4 DEF Goroutine

LEMMA InvTarget == ASSUME TypeOK, HidInv, Target PROVE HidInv'
<1>0. LinesOK
  BY DEF TypeOK
<1>1. Steady
  <2>1. ASSUME NEW d \in Devices, Poll(d) PROVE Steady
    <3>1. ASSUME NEW e \in Devices PROVE Final(e)' = Final(e)
      BY <1>0, <2>1 DEF Poll, LinesOK, Final
    <3>2. QED
      BY <3>1 DEF Steady
  <2>2. CASE Detach
    BY <2>2, DeviceFacts DEF Detach, Steady, Final
  <2>3. CASE Attach
    BY <2>3 DEF Attach, Steady, Final
  <2>4. QED
    BY <2>1, <2>2, <2>3 DEF Target
<1>2. UNCHANGED <<conn, holder, procVars, down, out, fresh>>
  BY DEF Target, Poll, Detach, Attach
<1>3. HeldBySessions' /\ KeyboardInStep' /\ PointerInStep' /\ RelInv'
  BY <1>1, <1>2, SteadyKeeps DEF NoneOpen
<1>4. FreeLockInv'
  BY <1>2 DEF HidInv, FreeLockInv
<1>5. DetachedInv'
  BY DEF Target, Poll, Detach, Attach, HidInv, DetachedInv
<1>6. NoRelInv'
  BY <1>0, <1>2, DeviceFacts, EmptyPressesNothing
     DEF Target, Poll, Detach, Attach, HidInv, NoRelInv, LinesOK, Devices
<1>7. QED
  BY <1>3, <1>4, <1>5, <1>6 DEF HidInv

LEMMA InvRestart == ASSUME TypeOK, HidInv, Restart PROVE HidInv'
<1>1. FreeLockInv' /\ DetachedInv' /\ HeldBySessions'
  BY DEF Restart, lineVars, HidInv, FreeLockInv, DetachedInv, HeldBySessions
<1>2. KeyboardInStep' /\ PointerInStep' /\ RelInv'
  BY DEF Restart, KeyboardInStep, PointerInStep, RelInv
<1>3. NoRelInv'
  BY DeviceFacts DEF Restart, lineVars, HidInv, NoRelInv, Devices
<1>4. QED
  BY <1>1, <1>2, <1>3 DEF HidInv

LEMMA InvInit == Init => HidInv
<1> SUFFICES ASSUME Init PROVE HidInv
  OBVIOUS
<1>1. \A d \in Devices : Final(d) = Cleared[d]
  BY DeviceFacts DEF Init, Final
<1>2. FreeLockInv /\ DetachedInv /\ HeldBySessions
  BY DEF Init, FreeLockInv, DetachedInv, HeldBySessions
<1>3. KeyboardInStep /\ PointerInStep /\ RelInv
  BY <1>1, EmptyPressesNothing DEF Init, KeyboardInStep, PointerInStep, RelInv, Devices
<1>4. NoRelInv
  BY DeviceFacts, EmptyPressesNothing DEF Init, NoRelInv, Devices
<1>5. QED
  BY <1>2, <1>3, <1>4 DEF HidInv

LEMMA InvStutter == ASSUME HidInv, UNCHANGED vars PROVE HidInv'
BY DEF vars, procVars, HidInv, FreeLockInv, DetachedInv, HeldBySessions, NoneOpen,
       KeyboardInStep, PointerInStep, RelInv, NoRelInv, Final

LEMMA InvNext == TypeOK /\ HidInv /\ [Next]_vars => HidInv'
BY InvStutter, InvWrite, InvSession, InvGoroutine, InvTarget, InvRestart DEF Next

\* The inductive invariant holds in every reachable state: who holds the
\* mutex owes the reports it is writing, and each device ends with what the
\* sessions, the goroutines or a Reset last made of it (Reset, writeKbd,
\* writeMouse, writeRaw).
THEOREM HidInvariant == Spec => []HidInv
BY InvInit, InvNext, TypeCorrect, PTL DEF Spec

-----------------------------------------------------------------------------
(* What the invariant gives.                                               *)

\* What the target's keyboard ends with is in step with the process, for any
\* number of sessions, goroutines and keys (writeKbd, writeRaw).
THEOREM KeyboardStaysInStep == Spec => []KeyboardInStep
BY HidInvariant, PTL DEF HidInv

\* The same for the absolute pointer, which a wheel event or a Reset reports
\* again from memory (writeMouse).
THEOREM PointerStaysInStep == Spec => []PointerInStep
BY HidInvariant, PTL DEF HidInv

\* When all sessions have ended and no goroutine runs, nothing stays held.
LEMMA InvGivesNoStuckKeys == HidInv => NoStuckKeys
<1> SUFFICES ASSUME HidInv, NobodyThere, fresh, NEW d \in Devices
             PROVE  Pressed(d, Final(d)) = {}
  BY DEF NoStuckKeys
<1>1. NoneOpen /\ \A t \in Tasks : ~down[t]
  BY DEF NobodyThere, NoneOpen, Idle
<1>2. mods = {} /\ keys = <<>> /\ buttons = {}
  BY <1>1 DEF HidInv, HeldBySessions
<1>3. CASE d = "kbd"
  BY <1>1, <1>2, <1>3, EmptyPressesNothing DEF HidInv, KeyboardInStep
<1>4. CASE d = "abs"
  <2>1. Final("abs").buttons = {}
    BY <1>2, EmptyPressesNothing
       DEF HidInv, PointerInStep, AbsReport, Cleared, Devices
  <2>2. QED
    BY <1>4, <2>1 DEF Pressed
<1>5. CASE d = "rel"
  BY <1>1, <1>5 DEF HidInv, RelInv, Pressed
<1>6. QED
  BY <1>3, <1>4, <1>5 DEF Devices

\* For any number of sessions, goroutines and scripts: once nobody is there,
\* no device ends with anything held (serveInput, Reset, Type, Chord).
THEOREM NoKeyStaysStuck == Spec => []NoStuckKeys
BY HidInvariant, InvGivesNoStuckKeys, PTL

-----------------------------------------------------------------------------
(* The list of held keys.  KeyListSound is inductive once the variables    *)
(* are typed: what matters is the lemma on KeysAfter, and that no writer   *)
(* puts more into a report.                                                *)

\* A list of distinct keys that fits into a report.
Sound(ks) ==
    /\ Len(ks) <= KeySlots
    /\ \A i, j \in DOMAIN ks : ks[i] = ks[j] => i = j

\* Taking an entry out leaves a list of distinct keys that fits.
LEMMA DropAtSound ==
    ASSUME NEW ks \in Seq(Keys), ks # <<>>, Sound(ks), NEW n \in DOMAIN ks
    PROVE  Sound(DropAt(ks, n))
<1>1. Len(ks) \in Nat /\ DOMAIN ks = 1 .. Len(ks) /\ n \in 1 .. Len(ks)
  BY LenProperties
<1>2. /\ DropAt(ks, n) \in Seq(Keys)
      /\ Len(DropAt(ks, n)) = Len(ks) - 1
      /\ \A j \in 1 .. Len(ks) - 1 :
            DropAt(ks, n)[j] = IF j < n THEN ks[j] ELSE ks[j + 1]
  BY DropAtType
<1>3. DOMAIN DropAt(ks, n) = 1 .. Len(ks) - 1
  BY <1>1, <1>2 DEF DropAt
<1>4. ASSUME NEW i \in 1 .. Len(ks) - 1, NEW j \in 1 .. Len(ks) - 1,
             DropAt(ks, n)[i] = DropAt(ks, n)[j]
      PROVE  i = j
  <2>1. PICK a \in 1 .. Len(ks) : a = IF i < n THEN i ELSE i + 1
    BY <1>1
  <2>2. PICK b \in 1 .. Len(ks) : b = IF j < n THEN j ELSE j + 1
    BY <1>1
  <2>3. ks[a] = ks[b]
    BY <1>2, <1>4, <2>1, <2>2
  <2>4. a = b
    BY <1>1, <2>3 DEF Sound
  <2>5. QED
    BY <1>1, <2>1, <2>2, <2>4
<1>5. Len(DropAt(ks, n)) <= KeySlots
  BY <1>1, <1>2, ReportsAssumption DEF Sound
<1>6. QED
  BY <1>3, <1>4, <1>5 DEF Sound

\* The first entry of a key is an entry of the list.
LEMMA FirstEntry ==
    ASSUME NEW ks \in Seq(Keys), NEW k \in Range(ks), Sound(ks)
    PROVE  (CHOOSE i \in DOMAIN ks : ks[i] = k /\ \A j \in 1 .. i - 1 : ks[j] # k)
               \in DOMAIN ks
<1>1. PICK n \in DOMAIN ks : ks[n] = k
  BY DEF Range
<1>2. Len(ks) \in Nat /\ DOMAIN ks = 1 .. Len(ks)
  BY LenProperties
<1>3. ASSUME NEW j \in 1 .. n - 1 PROVE ks[j] # k
  BY <1>1, <1>2 DEF Sound
<1>4. \E i \in DOMAIN ks : ks[i] = k /\ \A j \in 1 .. i - 1 : ks[j] # k
  BY <1>1, <1>3
<1>5. QED
  BY <1>4

\* No event of a key spoils the list.
LEMMA KeysAfterSound ==
    ASSUME NEW ks \in Seq(Keys), NEW k \in Keys, NEW press \in BOOLEAN, Sound(ks)
    PROVE  Sound(KeysAfter(ks, k, press))
<1>0. Len(ks) \in Nat /\ DOMAIN ks = 1 .. Len(ks) /\ KeySlots \in Nat
  BY LenProperties, ReportsAssumption
<1>1. CASE press /\ k \notin Range(ks) /\ Len(ks) < KeySlots
  <2>0. ~(Len(ks) >= KeySlots)
    BY <1>0, <1>1
  <2>1. KeysAfter(ks, k, press) = Append(ks, k)
    BY <1>1, <2>0, Zenon DEF KeysAfter
  <2>2. /\ Len(Append(ks, k)) = Len(ks) + 1
        /\ DOMAIN Append(ks, k) = 1 .. Len(ks) + 1
        /\ \A i \in 1 .. Len(ks) : Append(ks, k)[i] = ks[i] /\ ks[i] # k
        /\ Append(ks, k)[Len(ks) + 1] = k
    BY <1>0, <1>1, AppendProperties DEF Range
  <2>3. ASSUME NEW i \in 1 .. Len(ks) + 1, NEW j \in 1 .. Len(ks) + 1,
               Append(ks, k)[i] = Append(ks, k)[j]
        PROVE  i = j
    <3>1. CASE i \in 1 .. Len(ks) /\ j \in 1 .. Len(ks)
      BY <1>0, <2>2, <2>3, <3>1 DEF Sound
    <3>2. CASE i = Len(ks) + 1 \/ j = Len(ks) + 1
      BY <1>0, <2>2, <2>3, <3>2
    <3>3. QED
      BY <1>0, <3>1, <3>2
  <2>4. Len(Append(ks, k)) <= KeySlots
    BY <1>0, <1>1, <2>2
  <2>5. Sound(Append(ks, k))
    BY <2>2, <2>3, <2>4 DEF Sound
  <2>6. QED
    BY <2>1, <2>5
<1>2. CASE ~press /\ k \in Range(ks)
  <2>1. ks # <<>>
    BY <1>2, EmptySeq DEF Range
  <2>2. QED
    BY <1>2, <2>1, FirstEntry, DropAtSound DEF KeysAfter
<1>3. CASE IF press THEN k \in Range(ks) \/ Len(ks) >= KeySlots ELSE k \notin Range(ks)
  <2>1. KeysAfter(ks, k, press) = ks
    BY <1>3, Zenon DEF KeysAfter
  <2>2. QED
    BY <2>1
<1>4. Len(ks) < KeySlots \/ Len(ks) >= KeySlots
  BY <1>0
<1>5. QED
  BY <1>1, <1>2, <1>3, <1>4, Zenon

-----------------------------------------------------------------------------

\* A report of the keyboard fits into the key slots, if there is one.
Fits(r) == r # None => Len(r.keys) <= KeySlots

\* KeyListSound, one line at a time.
LEMMA KeyListParts ==
    KeyListSound <=> Sound(keys) /\ Fits(out["kbd"]) /\ Fits(wire["kbd"]) /\ Fits(seen["kbd"])
BY DEF KeyListSound, Sound, Fits

\* The empty report fits.
LEMMA EmptyFits == Sound(<<>>) /\ Fits(KbdReport({}, <<>>)) /\ Fits(None)
                   /\ Fits(Cleared["kbd"]) /\ Fits(NoReports["kbd"])
<1>1. Len(<<>>) = 0 /\ DOMAIN <<>> = {} /\ KeySlots \in Nat
  BY EmptySeq, LenProperties, ReportsAssumption
<1>2. QED
  BY <1>1, EmptyPressesNothing, DeviceFacts DEF Sound, Fits, KbdReport, Devices

\* A handler that writes one report which fits, if it is for the keyboard.
LEMMA OnlyFits ==
    ASSUME NEW d \in Devices, NEW r \in ReportsOf(d), d = "kbd" => Fits(r)
    PROVE  Fits(Only(d, r)["kbd"])
BY OnlyType, EmptyFits DEF Devices

\* Nothing a session does spoils the key list or overfills a report.
LEMMA KeyListSession ==
    ASSUME TypeOK, KeyListSound, NEW c \in Conns, Session(c)
    PROVE  KeyListSound'
<1>0. /\ ProcOK /\ Sound(keys) /\ Fits(wire["kbd"]) /\ Fits(seen["kbd"]) /\ Fits(out["kbd"])
      /\ "kbd" \in Devices /\ "abs" \in Devices /\ "rel" \in Devices
  BY KeyListParts DEF TypeOK, Devices
<1>1. ASSUME Sound(keys)', Fits(out["kbd"])', UNCHANGED <<wire, seen>> PROVE KeyListSound'
  BY <1>0, <1>1, KeyListParts DEF KeyListSound, Sound, Fits
<1>2. CASE Connect(c) \/ Disconnect(c)
  BY <1>0, <1>1, <1>2 DEF Connect, Disconnect, procVars, lineVars, Sound, Fits
<1>3. CASE Reset(c)
  <2>1. out' = ResetReports /\ ResetReports["kbd"] = KbdReport({}, <<>>)
    BY <1>0, <1>3, ResetReportsType DEF Reset, Hold, ResetReports, ProcOK
  <2>2. QED
    BY <1>0, <1>1, <1>3, <2>1, EmptyFits DEF Reset, lineVars, Sound, Fits
<1>4. ASSUME NEW m \in Mods, NEW press \in BOOLEAN, ModKey(c, m, press) PROVE KeyListSound'
  <2>1. KbdReport(mods', keys) \in ReportsOf("kbd")
    BY <1>0, <1>4, ReportTypes DEF ModKey, ProcOK
  <2>2. Fits(KbdReport(mods', keys))
    BY <1>0 DEF Fits, Sound, KbdReport
  <2>3. Fits(Only("kbd", KbdReport(mods', keys))["kbd"])
    BY <1>0, <2>1, <2>2, OnlyFits
  <2>4. QED
    BY <1>0, <1>1, <1>4, <2>3 DEF ModKey, Handling, Hold, lineVars, Sound, Fits
<1>5. ASSUME NEW k \in Keys, NEW press \in BOOLEAN, Key(c, k, press) PROVE KeyListSound'
  <2>1. Sound(keys') /\ KbdReport(mods, keys') \in ReportsOf("kbd")
    BY <1>0, <1>5, KeysAfterSound, KeysAfterType, ReportTypes DEF Key, ProcOK
  <2>2. Fits(KbdReport(mods, keys'))
    BY <2>1 DEF Fits, Sound, KbdReport
  <2>3. Fits(Only("kbd", KbdReport(mods, keys'))["kbd"])
    BY <1>0, <2>1, <2>2, OnlyFits
  <2>4. QED
    BY <1>0, <1>1, <1>5, <2>1, <2>3 DEF Key, Handling, Hold, lineVars, Sound, Fits
<1>6. ASSUME NEW d \in Devices \ {"kbd"}, NEW r \in ReportsOf(d), Hold(c, Only(d, r)),
             UNCHANGED <<keys, wire, seen>>
      PROVE  KeyListSound'
  <2>1. Fits(Only(d, r)["kbd"])
    BY OnlyFits
  <2>2. QED
    BY <1>0, <1>1, <1>6, <2>1 DEF Hold, Sound, Fits
<1>7. CASE \/ \E bs \in SUBSET Buttons, p \in Points : MouseAbs(c, bs, p)
           \/ Wheel(c)
           \/ \E bs \in SUBSET Buttons, n \in 1 .. MaxChunks : MouseRelMove(c, bs, n)
  <2>1. buttons \in SUBSET Buttons /\ last \in Points
    BY <1>0 DEF ProcOK
  <2>2. PICK d \in Devices \ {"kbd"} : \E r \in ReportsOf(d) : Hold(c, Only(d, r))
    BY <1>0, <1>7, <2>1, ReportTypes DEF MouseAbs, Wheel, MouseRelMove
  <2>3. UNCHANGED <<keys, wire, seen>>
    BY <1>7 DEF MouseAbs, Wheel, MouseRelMove, Handling, procVars, lineVars
  <2>4. QED
    BY <1>6, <2>2, <2>3
<1>8. ASSUME NEW t \in Tasks, NEW s \in Scripts, SpawnFromSession(c, t, s) PROVE KeyListSound'
  BY <1>0, <1>1, <1>8 DEF SpawnFromSession, Start, procVars, lineVars, Sound, Fits
<1>9. QED
  BY <1>2, <1>3, <1>4, <1>5, <1>7, <1>8 DEF Session

LEMMA KeyListGoroutine ==
    ASSUME TypeOK, KeyListSound, NEW t \in Tasks, Goroutine(t)
    PROVE  KeyListSound'
<1>0. /\ ProcOK /\ Sound(keys) /\ Fits(wire["kbd"]) /\ Fits(seen["kbd"]) /\ Fits(out["kbd"])
      /\ "kbd" \in Devices
  BY KeyListParts DEF TypeOK, Devices
<1>1. ASSUME Fits(out["kbd"])', UNCHANGED <<keys, wire, seen>> PROVE KeyListSound'
  BY <1>0, <1>1, KeyListParts DEF KeyListSound, Sound, Fits
<1>2. CASE Press(t)
  <2>1. /\ RawReport(Head(task[t])) \in ReportsOf("kbd")
        /\ Fits(RawReport(Head(task[t])))
    BY <1>0, <1>2, HeadTailProperties, RawReportType DEF Press, ProcOK, ReportsOf, Fits
  <2>2. Fits(Only("kbd", RawReport(Head(task[t])))["kbd"])
    BY <1>0, <2>1, OnlyFits
  <2>3. QED
    BY <1>1, <1>2, <2>2 DEF Press, Hold, procVars, lineVars, Fits
<1>3. CASE Release(t)
  <2>1. Fits(Only("kbd", KbdReport({}, <<>>))["kbd"])
    BY <1>0, ReportTypes, EmptyFits, OnlyFits
  <2>2. QED
    BY <1>1, <1>3, <2>1 DEF Release, Hold, procVars, lineVars, Fits
<1>4. ASSUME NEW s \in Scripts, SpawnFromApi(t, s) PROVE KeyListSound'
  BY <1>0, <1>1, <1>4 DEF SpawnFromApi, Start, procVars, lineVars, Fits
<1>5. QED
  BY <1>2, <1>3, <1>4 DEF Goroutine

\* A write and a poll move a report along; the others clear a line.
LEMMA KeyListRest ==
    ASSUME TypeOK, KeyListSound,
           (\E d \in Devices : Write(d)) \/ Target \/ Restart \/ UNCHANGED vars
    PROVE  KeyListSound'
<1>0. /\ LinesOK /\ Sound(keys) /\ Fits(wire["kbd"]) /\ Fits(seen["kbd"]) /\ Fits(out["kbd"])
      /\ "kbd" \in Devices
  BY KeyListParts DEF TypeOK, Devices
<1>1. ASSUME keys' = keys \/ keys' = <<>>, Fits(out["kbd"])', Fits(wire["kbd"])', Fits(seen["kbd"])'
      PROVE  KeyListSound'
  BY <1>0, <1>1, EmptyFits, KeyListParts DEF KeyListSound, Sound, Fits
<1>2. ASSUME NEW d \in Devices, Write(d) PROVE KeyListSound'
  <2>1. out'["kbd"] \in {out["kbd"], None} /\ wire'["kbd"] \in {wire["kbd"], out["kbd"]}
    BY <1>0, <1>2 DEF Write, LinesOK
  <2>2. QED
    BY <1>0, <1>1, <1>2, <2>1, EmptyFits DEF Write, procVars, Fits
<1>3. ASSUME NEW d \in Devices, Poll(d) PROVE KeyListSound'
  <2>1. seen'["kbd"] \in {seen["kbd"], wire["kbd"]} /\ wire'["kbd"] \in {wire["kbd"], None}
    BY <1>0, <1>3 DEF Poll, LinesOK
  <2>2. QED
    BY <1>0, <1>1, <1>3, <2>1, EmptyFits DEF Poll, procVars, Fits
<1>4. CASE Detach \/ Attach
  BY <1>0, <1>1, <1>4, EmptyFits DEF Detach, Attach, procVars, Fits
<1>5. CASE Restart
  BY <1>0, <1>1, <1>5, EmptyFits DEF Restart, lineVars, Fits
<1>6. CASE UNCHANGED vars
  BY <1>0, <1>1, <1>6 DEF vars, Fits
<1>7. QED
  BY <1>2, <1>3, <1>4, <1>5, <1>6 DEF Target

LEMMA KeyListNext == TypeOK /\ KeyListSound /\ [Next]_vars => KeyListSound'
BY KeyListSession, KeyListGoroutine, KeyListRest DEF Next

LEMMA KeyListInit == Init => KeyListSound
BY EmptyFits, KeyListParts DEF Init

\* Whatever the number of slots, sessions and goroutines: the list of held
\* keys has no key twice and fits into a report, as does every report on its
\* way to the target (key, writeKbd, writeRaw).
THEOREM KeyListStaysSound == Spec => []KeyListSound
BY KeyListInit, KeyListNext, TypeCorrect, PTL DEF Spec

-----------------------------------------------------------------------------
(* Hid implements HidPromise: each step of Hid is a step of the promise or *)
(* leaves all the promise speaks of as it was.  The refinement mapping is  *)
(* in Hid: a device has been told its final report, and the gadget has     *)
(* taken the queued report or, if none is queued, the last one read.       *)

\* What the promise's `said' and `got' stand for.
Said == [d \in Devices |-> Final(d)]
Got == [d \in Devices |-> Taken(d)]

\* The promise's own copies of the report helpers.
LEMMA SameReports ==
    /\ Promise!Devices = Devices
    /\ Promise!Cleared = Cleared
    /\ \A ms, ks : Promise!KbdReport(ms, ks) = KbdReport(ms, ks)
    /\ \A bs, p : Promise!AbsReport(bs, p) = AbsReport(bs, p)
    /\ \A bs : Promise!RelReport(bs) = RelReport(bs)
    /\ \A r : Promise!RawReport(r) = RawReport(r)
    /\ \A ks, k, press : Promise!KeysAfter(ks, k, press) = KeysAfter(ks, k, press)
<1>1. /\ Promise!Devices = Devices
      /\ \A ms, ks : Promise!KbdReport(ms, ks) = KbdReport(ms, ks)
      /\ \A bs, p : Promise!AbsReport(bs, p) = AbsReport(bs, p)
      /\ \A bs : Promise!RelReport(bs) = RelReport(bs)
  BY DEF Promise!Devices, Devices, Promise!KbdReport, KbdReport,
         Promise!AbsReport, AbsReport, Promise!RelReport, RelReport
<1>2. Promise!Cleared = Cleared
  BY <1>1 DEF Promise!Cleared, Cleared
<1>3. \A r : Promise!RawReport(r) = RawReport(r)
  BY <1>1 DEF Promise!RawReport, RawReport
<1>4. ASSUME NEW ks, NEW k, NEW press
      PROVE  Promise!KeysAfter(ks, k, press) = KeysAfter(ks, k, press)
  BY DEF Promise!KeysAfter, KeysAfter, Promise!DropAt, DropAt, Promise!Range, Range
<1>5. QED
  BY <1>1, <1>2, <1>3, <1>4

-----------------------------------------------------------------------------
(* What each kind of step does to the two mapped variables.                *)

\* A handler, a press or a release: one device ends with something else, and
\* the gadget has taken nothing yet.
LEMMA HoldSays ==
    ASSUME TypeOK, HidInv, NEW p, NEW d \in Devices, NEW r \in ReportsOf(d),
           Hold(p, Only(d, r)), UNCHANGED <<wire, seen>>
    PROVE  /\ Said' = [Said EXCEPT ![d] = r]
           /\ Got' = Got
<1>1. \A e \in Devices : Final(e)' = IF e = d THEN r ELSE Final(e)
  BY FinalAfterOnly
<1>2. Said' = [e \in Devices |-> IF e = d THEN r ELSE Final(e)]
  BY <1>1 DEF Said
<1>3. QED
  BY <1>2 DEF Said, Got, Taken

\* A step that touches no line at all.
LEMMA LinesSayNothing ==
    ASSUME UNCHANGED <<out, wire, seen>>
    PROVE  Said' = Said /\ Got' = Got
BY DEF Said, Got, Final, Taken

\* Reset tells all three devices, the relative mouse if there is one.
LEMMA ResetSays ==
    ASSUME TypeOK, HidInv, NEW c \in Conns, Reset(c)
    PROVE  /\ Said' = [kbd |-> KbdReport({}, <<>>), abs |-> AbsReport({}, last),
                       rel |-> IF HasRel THEN RelReport({}) ELSE Said["rel"]]
           /\ Got' = Got
<1>0. last \in Points /\ HasRel \in BOOLEAN
  BY ReportsAssumption DEF TypeOK, ProcOK
<1>1. out' = ResetReports /\ UNCHANGED <<wire, seen>>
  BY DEF Reset, Hold, ResetReports, lineVars
<1>2. out["rel"] = None /\ "rel" \in Devices
  BY DeviceFacts DEF Reset, Hold, HidInv, FreeLockInv, Devices
<1>3. /\ {} \in SUBSET Mods /\ {} \in SUBSET Buttons
      /\ "kbd" \in Devices /\ "abs" \in Devices
  BY DEF Devices
<1>4. /\ KbdReport({}, <<>>) # None
      /\ AbsReport({}, last) # None
      /\ RelReport({}) # None
  BY <1>0, <1>2, <1>3, ReportTypes, DeviceFacts
<1>5. /\ Final("kbd")' = KbdReport({}, <<>>)
      /\ Final("abs")' = AbsReport({}, last)
      /\ Final("rel")' = IF HasRel THEN RelReport({}) ELSE Final("rel")
  BY <1>0, <1>1, <1>2, <1>4, ResetReportsType DEF Final
<1>6. Said["rel"] = Final("rel")
  BY <1>2 DEF Said
<1>7. Said' = [d \in Devices |-> Final(d)']
  BY DEF Said
<1>8. QED
  BY <1>1, <1>5, <1>6, <1>7 DEF Got, Taken, Devices

-----------------------------------------------------------------------------
(* Each step of Hid is a step of the promise.                              *)

\* The promise's variables, and what it says of a next state.
Kept == UNCHANGED Promise!promiseVars
Follows == Promise!PromiseNext \/ Kept

LEMMA WriteFollows ==
    ASSUME TypeOK, HidInv, NEW d \in Devices, Write(d)
    PROVE  Follows
<1>0. LinesOK /\ \A e \in Devices : ReportsOf(e) \subseteq AnyReport /\ None \notin ReportsOf(e)
  BY DeviceFacts DEF TypeOK
<1>1. UNCHANGED <<conn, mods, keys, buttons, last, task, down, seen, attached, fresh>>
  BY DEF Write, procVars
<1>2. \A e \in Devices : e # d => out'[e] = out[e] /\ wire'[e] = wire[e]
  BY <1>0 DEF Write, LinesOK
<1>3. CASE attached
  <2>1. wire'[d] = out[d] /\ out[d] # None /\ out'[d] \in {out[d], None}
    BY <1>0, <1>3 DEF Write, LinesOK
  <2>2. \A e \in Devices : Final(e)' = Final(e)
    BY <1>1, <1>2, <2>1 DEF Final
  <2>3. \A e \in Devices : Taken(e)' = IF e = d THEN Final(d) ELSE Taken(e)
    BY <1>1, <1>2, <2>1 DEF Final, Taken
  <2>4. Said' = Said /\ Got' = [Got EXCEPT ![d] = Said[d]]
    BY <2>2, <2>3 DEF Said, Got
  <2>5. Promise!Take(d)
    BY <1>1, <1>3, <2>4 DEF Promise!Take, Promise!procVars, Promise!taskVars, Said, Got
  <2>6. QED
    BY <2>5, SameReports DEF Follows, Promise!PromiseNext
<1>4. CASE ~attached
  <2>1. wire' = wire /\ wire[d] = None
    BY <1>4, DeviceFacts DEF Write, HidInv, DetachedInv
  <2>2. \A e \in Devices : Taken(e)' = Taken(e)
    BY <1>1, <2>1 DEF Taken
  <2>3. CASE out'[d] = None
    <3>1. \A e \in Devices : Final(e)' = IF e = d THEN Taken(d) ELSE Final(e)
      BY <1>1, <1>2, <2>1, <2>3 DEF Final, Taken
    <3>2. Said' = [Said EXCEPT ![d] = Got[d]] /\ Got' = Got
      BY <2>2, <3>1 DEF Said, Got
    <3>3. Promise!Lose(d)
      BY <1>1, <1>4, <3>2
         DEF Promise!Lose, Promise!procVars, Promise!taskVars, Promise!lineVars, Said, Got
    <3>4. QED
      BY <3>3, SameReports DEF Follows, Promise!PromiseNext
  <2>4. CASE out'[d] # None
    <3>1. out' = out
      BY <1>0, <2>4 DEF Write, LinesOK
    <3>2. Said' = Said /\ Got' = Got
      BY <1>1, <2>1, <3>1, LinesSayNothing
    <3>3. QED
      BY <1>1, <3>2 DEF Follows, Kept, Promise!promiseVars, Promise!procVars,
                        Promise!taskVars, Promise!lineVars, Said, Got
  <2>5. QED
    BY <2>3, <2>4
<1>5. QED
  BY <1>3, <1>4

\* A handled message: the same change of the process, one report said.
LEMMA MessageFollows ==
    ASSUME TypeOK, HidInv, NEW c \in Conns,
           \/ \E m \in Mods, press \in BOOLEAN : ModKey(c, m, press)
           \/ \E k \in Keys, press \in BOOLEAN : Key(c, k, press)
           \/ \E bs \in SUBSET Buttons, p \in Points : MouseAbs(c, bs, p)
           \/ Wheel(c)
           \/ \E bs \in SUBSET Buttons, n \in 1 .. MaxChunks : MouseRelMove(c, bs, n)
    PROVE  Promise!Session(c)
<1> USE DEF Promise!Handling, Promise!Say, Promise!procVars, Promise!taskVars,
            Promise!lineVars
<1>0. ProcOK /\ "kbd" \in Devices /\ "abs" \in Devices /\ "rel" \in Devices
  BY DEF TypeOK, Devices
<1>1. ASSUME NEW m \in Mods, NEW press \in BOOLEAN, ModKey(c, m, press)
      PROVE  Promise!ModKey(c, m, press)
  <2>1. KbdReport(mods', keys) \in ReportsOf("kbd")
    BY <1>0, <1>1, ReportTypes DEF ModKey, ProcOK
  <2>2. Said' = [Said EXCEPT !["kbd"] = KbdReport(mods', keys)] /\ Got' = Got
    BY <1>0, <1>1, <2>1, HoldSays DEF ModKey, Handling, lineVars
  <2>3. QED
    BY <1>1, <2>2, SameReports DEF ModKey, Handling, lineVars, Promise!ModKey, Said, Got
<1>2. ASSUME NEW k \in Keys, NEW press \in BOOLEAN, Key(c, k, press)
      PROVE  Promise!Key(c, k, press)
  <2>1. KbdReport(mods, keys') \in ReportsOf("kbd")
    BY <1>0, <1>2, KeysAfterType, ReportTypes DEF Key, ProcOK
  <2>2. Said' = [Said EXCEPT !["kbd"] = KbdReport(mods, keys')] /\ Got' = Got
    BY <1>0, <1>2, <2>1, HoldSays DEF Key, Handling, lineVars
  <2>3. QED
    BY <1>2, <2>2, SameReports DEF Key, Handling, lineVars, Promise!Key, Said, Got
<1>3. ASSUME NEW bs \in SUBSET Buttons, NEW p \in Points, MouseAbs(c, bs, p)
      PROVE  Promise!MouseAbs(c, bs, p)
  <2>1. Said' = [Said EXCEPT !["abs"] = AbsReport(bs, p)] /\ Got' = Got
    BY <1>0, <1>3, ReportTypes, HoldSays DEF MouseAbs, Handling, lineVars
  <2>2. QED
    BY <1>3, <2>1, SameReports DEF MouseAbs, Handling, lineVars, Promise!MouseAbs, Said, Got
<1>4. CASE Wheel(c)
  <2>1. AbsReport(buttons, last) \in ReportsOf("abs")
    BY <1>0, ReportTypes DEF ProcOK
  <2>2. Said' = [Said EXCEPT !["abs"] = AbsReport(buttons, last)] /\ Got' = Got
    BY <1>0, <1>4, <2>1, HoldSays DEF Wheel, Handling, lineVars
  <2>3. Promise!Wheel(c)
    BY <1>4, <2>2, SameReports
       DEF Wheel, Handling, lineVars, procVars, Promise!Wheel, Said, Got
  <2>4. QED
    BY <2>3 DEF Promise!Session
<1>5. ASSUME NEW bs \in SUBSET Buttons, NEW n \in 1 .. MaxChunks, MouseRelMove(c, bs, n)
      PROVE  Promise!MouseRel(c, bs)
  <2>1. Said' = [Said EXCEPT !["rel"] = RelReport(bs)] /\ Got' = Got
    BY <1>0, <1>5, ReportTypes, HoldSays DEF MouseRelMove, Handling, lineVars
  <2>2. QED
    BY <1>5, <2>1, SameReports
       DEF MouseRelMove, Handling, lineVars, procVars, Promise!MouseRel, Said, Got
<1>6. QED
  BY <1>1, <1>2, <1>3, <1>4, <1>5 DEF Promise!Session

\* A goroutine's step, or a message that starts one.
LEMMA GoroutineFollows ==
    ASSUME TypeOK, HidInv, NEW t \in Tasks,
           Press(t) \/ Release(t) \/ \E s \in Scripts : Start(t, s)
    PROVE  Follows
<1> USE DEF Promise!Say, Promise!procVars, Promise!taskVars, Promise!lineVars
<1>0. ProcOK /\ "kbd" \in Devices
  BY DEF TypeOK, Devices
<1>1. CASE Press(t)
  <2>1. RawReport(Head(task[t])) \in ReportsOf("kbd")
    BY <1>0, <1>1, HeadTailProperties, RawReportType DEF Press, ProcOK, ReportsOf
  <2>2. Said' = [Said EXCEPT !["kbd"] = RawReport(Head(task[t]))] /\ Got' = Got
    BY <1>0, <1>1, <2>1, HoldSays DEF Press, lineVars
  <2>3. Promise!Press(t)
    BY <1>1, <2>2, SameReports DEF Press, lineVars, procVars, Promise!Press, Said, Got
  <2>4. QED
    BY <2>3 DEF Follows, Promise!PromiseNext
<1>2. CASE Release(t)
  <2>1. Said' = [Said EXCEPT !["kbd"] = KbdReport({}, <<>>)] /\ Got' = Got
    BY <1>0, <1>2, ReportTypes, HoldSays DEF Release, lineVars
  <2>2. Promise!Release(t)
    BY <1>2, <2>1, SameReports DEF Release, lineVars, procVars, Promise!Release, Said, Got
  <2>3. QED
    BY <2>2 DEF Follows, Promise!PromiseNext
<1>3. ASSUME NEW s \in Scripts, Start(t, s) PROVE Follows
  <2>1. Said' = Said /\ Got' = Got
    BY <1>3, LinesSayNothing DEF Start, lineVars
  <2>2. Promise!Start(t, s)
    BY <1>3, <2>1 DEF Start, Idle, lineVars, procVars, Promise!Start, Said, Got
  <2>3. QED
    BY <2>2 DEF Follows, Promise!PromiseNext
<1>4. QED
  BY <1>1, <1>2, <1>3

LEMMA SessionFollows ==
    ASSUME TypeOK, HidInv, NEW c \in Conns, Session(c)
    PROVE  Follows
<1> USE DEF Promise!procVars, Promise!taskVars, Promise!lineVars
<1>1. CASE Connect(c) \/ Disconnect(c)
  <2>1. Said' = Said /\ Got' = Got
    BY <1>1, LinesSayNothing DEF Connect, Disconnect, lineVars
  <2>2. Promise!Connect(c) \/ Promise!Disconnect(c)
    BY <1>1, <2>1 DEF Connect, Disconnect, lineVars, procVars,
                      Promise!Connect, Promise!Disconnect, Said, Got
  <2>3. QED
    BY <2>2 DEF Follows, Promise!PromiseNext, Promise!Session
<1>2. CASE Reset(c)
  <2>1. /\ Said' = [kbd |-> KbdReport({}, <<>>), abs |-> AbsReport({}, last),
                    rel |-> IF HasRel THEN RelReport({}) ELSE Said["rel"]]
        /\ Got' = Got
    BY <1>2, ResetSays
  <2>2. Promise!Reset(c)
    BY <1>2, <2>1, SameReports DEF Reset, lineVars, Promise!Reset, Said, Got
  <2>3. QED
    BY <2>2 DEF Follows, Promise!PromiseNext, Promise!Session
<1>3. ASSUME NEW t \in Tasks, NEW s \in Scripts, SpawnFromSession(c, t, s)
      PROVE  Follows
  BY <1>3, GoroutineFollows DEF SpawnFromSession
<1>4. CASE ~(Connect(c) \/ Disconnect(c) \/ Reset(c))
           /\ ~(\E t \in Tasks, s \in Scripts : SpawnFromSession(c, t, s))
  <2>1. Promise!Session(c)
    BY <1>4, MessageFollows DEF Session
  <2>2. QED
    BY <2>1 DEF Follows, Promise!PromiseNext
<1>5. QED
  BY <1>1, <1>2, <1>3, <1>4

LEMMA TargetFollows == ASSUME TypeOK, HidInv, Target PROVE Follows
<1> USE DEF Promise!procVars, Promise!taskVars, Promise!lineVars
<1>0. LinesOK /\ \A e \in Devices : None \notin ReportsOf(e) /\ NoReports[e] = None
  BY DeviceFacts DEF TypeOK
<1>1. ASSUME NEW d \in Devices, Poll(d) PROVE Follows
  <2>1. \A e \in Devices : Final(e)' = Final(e) /\ Taken(e)' = Taken(e)
    BY <1>0, <1>1 DEF Poll, LinesOK, Final, Taken
  <2>2. Said' = Said /\ Got' = Got
    BY <2>1 DEF Said, Got
  <2>3. QED
    BY <1>1, <2>2 DEF Poll, procVars, Follows, Kept, Promise!promiseVars, Said, Got
<1>2. CASE Detach
  <2>1. \A e \in Devices : /\ Taken(e)' = Cleared[e]
                            /\ Final(e)' = IF out[e] = None THEN Cleared[e] ELSE Final(e)
    BY <1>0, <1>2 DEF Detach, Final, Taken
  <2>2. Got' = Cleared
    BY <2>1 DEF Got, Cleared
  <2>3. PICK D \in SUBSET Devices : D = {e \in Devices : out[e] = None}
    OBVIOUS
  <2>4. Said' = [e \in Devices |-> IF e \in D THEN Cleared[e] ELSE Said[e]]
    BY <2>1, <2>3 DEF Said
  <2>5. Promise!Leave
    BY <1>2, <2>2, <2>4, SameReports DEF Detach, procVars, Promise!Leave, Said, Got
  <2>6. QED
    BY <2>5 DEF Follows, Promise!PromiseNext
<1>3. CASE Attach
  <2>1. Said' = Said /\ Got' = Got
    BY <1>3, LinesSayNothing DEF Attach
  <2>2. Promise!Arrive
    BY <1>3, <2>1 DEF Attach, procVars, Promise!Arrive, Said, Got
  <2>3. QED
    BY <2>2 DEF Follows, Promise!PromiseNext
<1>4. QED
  BY <1>1, <1>2, <1>3 DEF Target

LEMMA RestartFollows == ASSUME Restart PROVE Follows
<1>1. \A e \in Devices : Final(e)' = Taken(e) /\ Taken(e)' = Taken(e)
  BY DeviceFacts DEF Restart, lineVars, Final, Taken
<1>2. Said' = Got /\ Got' = Got
  BY <1>1 DEF Said, Got
<1>3. Promise!Restart
  BY <1>2 DEF Restart, lineVars, Promise!Restart, Promise!lineVars, Said, Got
<1>4. QED
  BY <1>3 DEF Follows, Promise!PromiseNext

LEMMA StutterFollows == ASSUME UNCHANGED vars PROVE Follows
<1>1. Said' = Said /\ Got' = Got
  BY LinesSayNothing DEF vars
<1>2. QED
  BY <1>1 DEF vars, Follows, Kept, Promise!promiseVars, Promise!procVars,
              Promise!taskVars, Promise!lineVars, Said, Got

LEMMA NextFollows == TypeOK /\ HidInv /\ [Next]_vars => [Promise!PromiseNext]_(Promise!promiseVars)
<1> SUFFICES ASSUME TypeOK, HidInv, [Next]_vars PROVE Follows
  BY DEF Follows, Kept
<1>1. QED
  BY WriteFollows, SessionFollows, GoroutineFollows, TargetFollows, RestartFollows,
     StutterFollows DEF Next, Goroutine, SpawnFromApi

LEMMA InitFollows == Init => Promise!PromiseInit
<1> SUFFICES ASSUME Init PROVE Promise!PromiseInit
  OBVIOUS
<1>1. \A e \in Devices : Final(e) = Cleared[e] /\ Taken(e) = Cleared[e]
  BY DeviceFacts DEF Init, Final, Taken
<1>2. Said = Cleared /\ Got = Cleared
  BY <1>1 DEF Said, Got, Cleared
<1>3. QED
  BY <1>2, SameReports DEF Init, Promise!PromiseInit, Said, Got

\* Hid implements its promise: to the sessions, the goroutines and the target,
\* every handler, press, release and Reset is one step, whatever the mutex,
\* the blocking writes and the queues do in between (mu, and all its users).
THEOREM HidKeepsThePromise == Spec => HandlersAreAtomic
BY InitFollows, NextFollows, TypeCorrect, HidInvariant, PTL
   DEF Spec, HandlersAreAtomic, Promise!PromiseSpec

-----------------------------------------------------------------------------
(* What the target recognises of typed text: asked is at all times what it *)
(* has recognised, what is on its way, and what the goroutine has left.    *)

StrokeSet == [mods : SUBSET Mods, keys : SUBSET Keys]

\* Does the report r, if it is one, press a key?
Presses(r) == r # None /\ Range(r.keys) # {}

\* The stroke that r will be.
Sent(r) == IF Presses(r) THEN <<Stroke(r.mods, Range(r.keys))>> ELSE <<>>

OnTheWay == strokes \o (Sent(wire["kbd"]) \o Sent(out["kbd"]))

OrderInv ==
    /\ \A t \in Tasks : task[t] # <<>> => asked = OnTheWay \o Strokes(task[t])
    /\ (\A t \in Tasks : task[t] = <<>>) => asked = OnTheWay

\* A report that presses follows one that does not.
SpaceInv ==
    /\ Presses(wire["kbd"]) => ~Presses(seen["kbd"])
    /\ Presses(out["kbd"]) => ~Presses(Taken("kbd"))

CalmInv ==
    /\ attached /\ fresh /\ mods = {} /\ keys = <<>>
    /\ OneAtATime
    /\ \A t \in Tasks : IsText(task[t])

HistoryTyped == asked \in Seq(StrokeSet) /\ strokes \in Seq(StrokeSet)

TypingInv == CalmInv /\ HistoryTyped /\ OrderInv /\ SpaceInv

KbdLine == <<out["kbd"], wire["kbd"], seen["kbd"]>>

\* The operators of the typing.
LEMMA NothingRange == Range(<<>>) = {}
BY DEF Range

LEMMA KbdTyped ==
    ASSUME TypeOK
    PROVE  /\ out["kbd"] \in KbdReports \cup {None}
           /\ wire["kbd"] \in KbdReports \cup {None}
           /\ seen["kbd"] \in KbdReports
           /\ None \notin KbdReports
BY DeviceFacts DEF TypeOK, LinesOK, Devices, ReportsOf

LEMMA SentFacts ==
    ASSUME NEW r \in KbdReports \cup {None}
    PROVE  /\ Sent(r) \in Seq(StrokeSet)
           /\ ~Presses(r) => Sent(r) = <<>>
           /\ ~Presses(KbdReport({}, <<>>)) /\ ~Presses(None)
<1>1. CASE Presses(r)
  <2>1. r \in KbdReports
    BY <1>1 DEF Presses
  <2>2. r.mods \in SUBSET Mods /\ r.keys \in Seq(Keys)
    BY <2>1 DEF KbdReports
  <2>3. Stroke(r.mods, Range(r.keys)) \in StrokeSet
    BY <2>2, RangeOfSeq DEF Stroke, StrokeSet
  <2>4. Sent(r) \in Seq(StrokeSet)
    BY <1>1, <2>3 DEF Sent
  <2>5. QED
    BY <1>1, <2>4, NothingRange DEF Presses, KbdReport
<1>2. CASE ~Presses(r)
  BY <1>2, EmptySeq, NothingRange DEF Sent, Presses, KbdReport
<1>3. QED
  BY <1>1, <1>2

LEMMA StrokeOfFacts ==
    ASSUME NEW s \in KbdReports, NEW r \in KbdReports, ~Presses(s) \/ ~Presses(r)
    PROVE  StrokeOf(s, r) = Sent(r) /\ StrokeOf(s, s) = <<>>
<1>1. r # None /\ s # None
  BY NoneIsNoReport DEF AnyReport
<1>2. Range(r.keys) \ {} = Range(r.keys)
  OBVIOUS
<1>3. QED
  BY <1>1, <1>2 DEF StrokeOf, Sent, Presses

LEMMA StrokesFacts ==
    ASSUME NEW s \in Seq(KbdReports)
    PROVE  /\ Strokes(s) \in Seq(StrokeSet)
           /\ Len(Strokes(s)) = Len(s)
           /\ Strokes(<<>>) = <<>>
<1>1. Len(s) \in Nat /\ DOMAIN s = 1 .. Len(s)
  BY LenProperties
<1>2. ASSUME NEW j \in 1 .. Len(s)
      PROVE  Stroke(s[j].mods, Range(s[j].keys)) \in StrokeSet
  <2>1. s[j] \in KbdReports
    BY ElementOfSeq
  <2>2. s[j].mods \in SUBSET Mods /\ s[j].keys \in Seq(Keys)
    BY <2>1 DEF KbdReports
  <2>3. QED
    BY <2>2, RangeOfSeq DEF Stroke, StrokeSet
<1>3. Strokes(s) \in [1 .. Len(s) -> StrokeSet]
  BY <1>1, <1>2 DEF Strokes
<1>4. Strokes(s) \in Seq(StrokeSet)
  BY <1>1, <1>3, SeqDef
<1>5. Len(Strokes(s)) \in Nat /\ DOMAIN Strokes(s) = 1 .. Len(Strokes(s))
  BY <1>4, LenProperties
<1>6. Len(Strokes(s)) = Len(s)
  BY <1>1, <1>3, <1>5
<1>7. Strokes(<<>>) = <<>>
  BY DEF Strokes
<1>8. QED
  BY <1>4, <1>6, <1>7

LEMMA FirstAndRest ==
    ASSUME NEW S, NEW W \in Seq(S), NEW F \in Seq(S), NEW T \in Seq(S),
           Len(F) = 1, Len(W) - 1 = Len(T), F[1] = W[1],
           \A j \in 1 .. Len(T) : T[j] = W[j + 1]
    PROVE  W = F \o T
<1>1. Len(W) \in Nat /\ Len(T) \in Nat /\ Len(W) = Len(F) + Len(T)
  BY LenProperties
<1>2. /\ F \o T \in Seq(S) /\ Len(F \o T) = Len(F) + Len(T)
      /\ \A i \in 1 .. Len(F) + Len(T) :
             (F \o T)[i] = IF i <= Len(F) THEN F[i] ELSE T[i - Len(F)]
  BY ConcatProperties
<1>3. ASSUME NEW i \in 1 .. Len(W) PROVE (F \o T)[i] = W[i]
  <2>1. CASE i = 1
    BY <1>1, <1>2, <2>1
  <2>2. CASE i # 1
    <3>1. i - 1 \in 1 .. Len(T) /\ (i - 1) + 1 = i /\ ~(i <= 1)
      BY <1>1, <2>2
    <3>2. T[i - 1] = W[i]
      BY <3>1
    <3>3. QED
      BY <1>1, <1>2, <3>1, <3>2
  <2>3. QED
    BY <2>1, <2>2
<1>4. QED
  BY <1>1, <1>2, <1>3, SeqEqual

\* The first stroke of a text, and the rest of it.
LEMMA HeadIsSent ==
    ASSUME NEW s \in Seq(KbdReports), s # <<>>, IsText(s)
    PROVE  /\ Strokes(s) = Sent(RawReport(Head(s))) \o Strokes(Tail(s))
           /\ IsText(Tail(s))
<1>1. Len(s) \in Nat \ {0} /\ DOMAIN s = 1 .. Len(s)
  BY LenProperties, EmptySeq
<1>2. /\ Tail(s) \in Seq(KbdReports) /\ Len(Tail(s)) = Len(s) - 1
      /\ \A i \in 1 .. Len(s) - 1 : Tail(s)[i] = s[i + 1]
  BY HeadTailProperties
<1>3. DOMAIN Tail(s) = 1 .. Len(s) - 1
  BY <1>2, LenProperties
<1>4. Head(s) = s[1] /\ s[1] \in KbdReports
  BY <1>1, ElementOfSeq
<1>5. s[1].keys \in Seq(Keys) /\ Len(s[1].keys) \in 1 .. KeySlots
  BY <1>1, <1>4 DEF KbdReports, IsText
<1>6. RawReport(s[1]) = KbdReport(s[1].mods, s[1].keys)
  BY <1>5, ReportsAssumption DEF RawReport
<1>7. KbdReport(s[1].mods, s[1].keys) \in KbdReports
  BY <1>4 DEF KbdReport, KbdReports
<1>8. KbdReport(s[1].mods, s[1].keys) # None
  BY <1>7, NoneIsNoReport DEF AnyReport
<1>9. Range(s[1].keys) # {}
  <2>1. 1 \in DOMAIN s[1].keys
    BY <1>5, LenProperties
  <2>2. QED
    BY <2>1 DEF Range
<1>10. Sent(RawReport(Head(s))) = <<Stroke(s[1].mods, Range(s[1].keys))>>
  BY <1>4, <1>6, <1>8, <1>9 DEF Sent, Presses, KbdReport
<1>11. IsText(Tail(s))
  <2>1. ASSUME NEW j \in 1 .. Len(s) - 1 PROVE Len(Tail(s)[j].keys) \in 1 .. KeySlots
    <3>1. j + 1 \in DOMAIN s /\ Tail(s)[j] = s[j + 1]
      BY <1>1, <1>2
    <3>2. QED
      BY <3>1 DEF IsText
  <2>2. QED
    BY <1>3, <2>1 DEF IsText
<1>12. Strokes(s) = <<Stroke(s[1].mods, Range(s[1].keys))>> \o Strokes(Tail(s))
  <2> DEFINE F == <<Stroke(s[1].mods, Range(s[1].keys))>>
             T == Strokes(Tail(s))
             W == Strokes(s)
  <2>1. W \in Seq(StrokeSet) /\ T \in Seq(StrokeSet) /\ Len(W) = Len(s) /\ Len(T) = Len(s) - 1
    BY <1>2, StrokesFacts
  <2>2. F \in Seq(StrokeSet) /\ Len(F) = 1 /\ F[1] = W[1]
    <3>1. W[1] = Stroke(s[1].mods, Range(s[1].keys))
      BY <1>1 DEF Strokes
    <3>2. W[1] \in StrokeSet
      BY <2>1, <1>1, ElementOfSeq
    <3>3. QED
      BY <3>1, <3>2
  <2>3. ASSUME NEW j \in 1 .. Len(s) - 1 PROVE T[j] = W[j + 1]
    <3>1. j + 1 \in 1 .. Len(s) /\ Tail(s)[j] = s[j + 1]
      BY <1>1, <1>2
    <3>2. QED
      BY <1>1, <1>3, <3>1 DEF Strokes
  <2>4. QED
    BY <1>1, <2>1, <2>2, <2>3, FirstAndRest
<1>13. QED
  BY <1>10, <1>11, <1>12

-----------------------------------------------------------------------------
(* What the steps do to the keyboard's line.                               *)

\* A step that neither queues nor reads a keyboard report, and says none that
\* presses a key.
SaysNothing ==
    /\ wire'["kbd"] = wire["kbd"] /\ seen'["kbd"] = seen["kbd"]
    /\ \/ out'["kbd"] = out["kbd"]
       \/ ~Presses(out["kbd"]) /\ ~Presses(out'["kbd"])

\* The kinds of step in the favourable environment.
KindOfStep ==
    \/ SaysNothing /\ task' = task
    \/ \E t \in Tasks : Press(t) /\ holder = None
    \/ \E t \in Tasks, s \in Scripts : Start(t, s)
    \/ Write("kbd") /\ attached
    \/ Poll("kbd")

LEMMA OnlySaysNothing ==
    ASSUME FreeLockInv, NEW c, Hold(c, out'), ~Presses(out'["kbd"]),
           UNCHANGED <<wire, seen>>
    PROVE  SaysNothing
<1>1. out["kbd"] = None
  BY DEF Hold, FreeLockInv, NoReports, Devices
<1>2. QED
  BY <1>1 DEF SaysNothing, Presses

LEMMA SessionKind ==
    ASSUME TypeOK, HidInv, CalmInv, Favourable, NEW c \in Conns, Session(c)
    PROVE  KindOfStep
<1>0. FreeLockInv /\ last \in Points /\ "kbd" \in Devices /\ "abs" \in Devices /\ "rel" \in Devices
  BY DEF HidInv, TypeOK, ProcOK, Devices
<1>1. ~Presses(KbdReport({}, <<>>)) /\ ~Presses(None)
  BY SentFacts DEF KbdReports
<1>2. CASE Connect(c) \/ Disconnect(c)
  BY <1>2 DEF Connect, Disconnect, lineVars, KindOfStep, SaysNothing
<1>3. CASE Reset(c)
  <2>1. out'["kbd"] = KbdReport({}, <<>>)
    BY <1>3 DEF Reset, Hold, ResetReports
  <2>2. UNCHANGED <<wire, seen>> /\ task' = task /\ Hold(c, out')
    BY <1>3 DEF Reset, Hold, lineVars
  <2>3. QED
    BY <1>0, <1>1, <2>1, <2>2, OnlySaysNothing DEF KindOfStep
<1>4. ASSUME Handling(c), NEW d \in Devices, NEW r, Hold(c, Only(d, r)), 
             d = "kbd" => r = KbdReport({}, <<>>)
      PROVE  KindOfStep
  <2>1. out'["kbd"] = IF d = "kbd" THEN r ELSE None
    BY <1>4, <1>0 DEF Hold, Only, NoReports
  <2>2. UNCHANGED <<wire, seen>> /\ task' = task /\ Hold(c, out')
    BY <1>4 DEF Handling, Hold, lineVars
  <2>3. ~Presses(out'["kbd"])
    BY <1>1, <1>4, <2>1
  <2>4. QED
    BY <1>0, <2>2, <2>3, OnlySaysNothing DEF KindOfStep
<1>5. ASSUME NEW m \in Mods, NEW press \in BOOLEAN, ModKey(c, m, press) PROVE KindOfStep
  <2>1. KbdReport(mods', keys) = KbdReport({}, <<>>)
    BY DEF Favourable, CalmInv
  <2>2. QED
    BY <1>0, <1>4, <1>5, <2>1 DEF ModKey
<1>6. ASSUME NEW k \in Keys, NEW press \in BOOLEAN, Key(c, k, press) PROVE KindOfStep
  <2>1. KbdReport(mods, keys') = KbdReport({}, <<>>)
    BY DEF Favourable, CalmInv
  <2>2. QED
    BY <1>0, <1>4, <1>6, <2>1 DEF Key
<1>7. CASE \E bs \in SUBSET Buttons, p \in Points : MouseAbs(c, bs, p)
  BY <1>0, <1>4, <1>7 DEF MouseAbs
<1>8. CASE Wheel(c)
  BY <1>0, <1>4, <1>8 DEF Wheel
<1>9. CASE \E bs \in SUBSET Buttons, n \in 1 .. MaxChunks : MouseRelMove(c, bs, n)
  BY <1>0, <1>4, <1>9 DEF MouseRelMove
<1>10. CASE \E t \in Tasks, s \in Scripts : SpawnFromSession(c, t, s)
  BY <1>10 DEF SpawnFromSession, KindOfStep
<1>11. QED
  BY <1>2, <1>3, <1>5, <1>6, <1>7, <1>8, <1>9, <1>10 DEF Session

LEMMA StepKind ==
    ASSUME TypeOK, HidInv, CalmInv, Favourable, Next
    PROVE  KindOfStep
<1>0. FreeLockInv /\ "kbd" \in Devices
  BY DEF HidInv, Devices
<1>1. CASE \E c \in Conns : Session(c)
  BY <1>1, SessionKind
<1>2. ASSUME NEW t \in Tasks, Release(t) PROVE KindOfStep
  <2>1. out'["kbd"] = KbdReport({}, <<>>)
    BY <1>0, <1>2 DEF Release, Hold, Only, NoReports
  <2>2. ~Presses(out'["kbd"])
    BY <2>1, SentFacts DEF KbdReports
  <2>3. UNCHANGED <<wire, seen>> /\ task' = task /\ Hold(t, out')
    BY <1>2 DEF Release, Hold, lineVars
  <2>4. QED
    BY <1>0, <2>2, <2>3, OnlySaysNothing DEF KindOfStep
<1>3. ASSUME NEW t \in Tasks, Goroutine(t) PROVE KindOfStep
  BY <1>2, <1>3 DEF Goroutine, Press, Hold, SpawnFromApi, KindOfStep
<1>4. ASSUME NEW d \in Devices, Write(d) PROVE KindOfStep
  <2>1. CASE d = "kbd"
    BY <1>4, <2>1 DEF KindOfStep, CalmInv
  <2>2. CASE d # "kbd"
    <3>1. out'["kbd"] = out["kbd"] /\ wire'["kbd"] = wire["kbd"]
      BY <1>0, <1>4, <2>2 DEF Write, TypeOK, LinesOK
    <3>2. QED
      BY <1>4, <3>1 DEF Write, KindOfStep, SaysNothing
  <2>3. QED
    BY <2>1, <2>2
<1>5. ASSUME NEW d \in Devices, Poll(d) PROVE KindOfStep
  <2>1. CASE d = "kbd"
    BY <1>5, <2>1 DEF KindOfStep
  <2>2. CASE d # "kbd"
    <3>1. seen'["kbd"] = seen["kbd"] /\ wire'["kbd"] = wire["kbd"]
      BY <1>0, <1>5, <2>2 DEF Poll, TypeOK, LinesOK
    <3>2. QED
      BY <1>5, <3>1 DEF Poll, KindOfStep, SaysNothing
  <2>3. QED
    BY <2>1, <2>2
<1>6. ~Detach /\ ~Attach /\ ~Restart
  BY DEF Favourable, CalmInv, Detach, Attach, Restart
<1>7. QED
  BY <1>1, <1>3, <1>4, <1>5, <1>6 DEF Next, Target

-----------------------------------------------------------------------------
(* Each step keeps the order of the strokes.                               *)

LEMMA OnTheWayTyped ==
    ASSUME TypeOK, HistoryTyped
    PROVE  /\ Sent(out["kbd"]) \in Seq(StrokeSet)
           /\ Sent(wire["kbd"]) \in Seq(StrokeSet)
           /\ OnTheWay \in Seq(StrokeSet)
BY KbdTyped, SentFacts, ConcatProperties DEF OnTheWay, HistoryTyped

\* Nothing new is asked for, nothing is lost or turned round.
LEMMA SameOrder ==
    ASSUME OrderInv, task' = task, asked' = asked, OnTheWay' = OnTheWay
    PROVE  OrderInv'
BY DEF OrderInv

LEMMA NotStarted == ASSUME task' = task PROVE Started = {}
<1>1. \A t \in Tasks : ~(Len(task[t]) > Len(task[t]))
  OBVIOUS
<1>2. QED
  BY <1>1 DEF Started

LEMMA QuietKeeps ==
    ASSUME TypeOK, HistoryTyped, OrderInv, SpaceInv, TypingNext, SaysNothing, task' = task
    PROVE  HistoryTyped' /\ OrderInv' /\ SpaceInv'
<1>1. asked' = asked
  BY NotStarted DEF TypingNext
<1>2. strokes' = strokes
  <2>1. seen'["kbd"] = seen["kbd"] /\ StrokeOf(seen["kbd"], seen["kbd"]) = <<>>
    BY DEF SaysNothing, StrokeOf
  <2>2. strokes \o <<>> = strokes
    BY ConcatEmptySeq DEF HistoryTyped
  <2>3. QED
    BY <2>1, <2>2 DEF TypingNext
<1>3. /\ wire'["kbd"] = wire["kbd"] /\ seen'["kbd"] = seen["kbd"]
      /\ Sent(out'["kbd"]) = Sent(out["kbd"])
      /\ Presses(out'["kbd"]) => Presses(out["kbd"])
  BY DEF SaysNothing, Sent
<1>4. OnTheWay' = OnTheWay
  <2>1. OnTheWay' = strokes' \o (Sent(wire'["kbd"]) \o Sent(out'["kbd"]))
    BY DEF OnTheWay, Sent, Presses
  <2>2. QED
    BY <1>2, <1>3, <2>1 DEF OnTheWay
<1>5. OrderInv'
  BY <1>1, <1>4, SameOrder
<1>6. SpaceInv'
  BY <1>3 DEF SpaceInv, Taken, Presses
<1>7. QED
  BY <1>1, <1>2, <1>5, <1>6 DEF HistoryTyped

LEMMA WriteKbdKeeps ==
    ASSUME TypeOK, HistoryTyped, OrderInv, SpaceInv, TypingNext, Write("kbd"), attached
    PROVE  HistoryTyped' /\ OrderInv' /\ SpaceInv'
<1>1. /\ wire["kbd"] = None /\ wire'["kbd"] = out["kbd"] /\ out'["kbd"] = None
      /\ out["kbd"] # None /\ seen' = seen /\ task' = task
  BY DEF Write, TypeOK, LinesOK, Devices
<1>2. asked' = asked
  BY <1>1, NotStarted DEF TypingNext
<1>3. strokes' = strokes
  <2>1. StrokeOf(seen["kbd"], seen["kbd"]) = <<>>
    BY DEF StrokeOf
  <2>2. strokes \o <<>> = strokes
    BY ConcatEmptySeq DEF HistoryTyped
  <2>3. QED
    BY <1>1, <2>1, <2>2 DEF TypingNext
<1>4. OnTheWay' = OnTheWay
  <2>1. OnTheWay' = strokes' \o (Sent(wire'["kbd"]) \o Sent(out'["kbd"]))
    BY DEF OnTheWay, Sent, Presses
  <2>2. Sent(None) = <<>>
    BY DEF Sent, Presses
  <2>3. <<>> \o Sent(out["kbd"]) = Sent(out["kbd"]) /\ Sent(out["kbd"]) \o <<>> = Sent(out["kbd"])
    BY OnTheWayTyped, ConcatEmptySeq
  <2>4. QED
    BY <1>1, <1>3, <2>1, <2>2, <2>3 DEF OnTheWay
<1>5. OrderInv'
  BY <1>1, <1>2, <1>4, SameOrder
<1>6. SpaceInv'
  <2>1. ~Presses(None)
    BY DEF Presses
  <2>2. Presses(out["kbd"]) => ~Presses(seen["kbd"])
    BY <1>1 DEF SpaceInv, Taken
  <2>3. QED
    BY <1>1, <2>1, <2>2 DEF SpaceInv, Presses
<1>7. QED
  BY <1>2, <1>3, <1>5, <1>6 DEF HistoryTyped

LEMMA PollKbdKeeps ==
    ASSUME TypeOK, HistoryTyped, OrderInv, SpaceInv, TypingNext, Poll("kbd")
    PROVE  HistoryTyped' /\ OrderInv' /\ SpaceInv'
<1>1. /\ wire["kbd"] # None /\ seen'["kbd"] = wire["kbd"] /\ wire'["kbd"] = None
      /\ out' = out /\ task' = task
  BY DEF Poll, TypeOK, LinesOK, Devices
<1>2. asked' = asked
  BY <1>1, NotStarted DEF TypingNext
<1>3. strokes' = strokes \o Sent(wire["kbd"])
  <2>1. wire["kbd"] \in KbdReports /\ seen["kbd"] \in KbdReports
    BY <1>1, KbdTyped
  <2>2. StrokeOf(seen["kbd"], wire["kbd"]) = Sent(wire["kbd"])
    BY <2>1, StrokeOfFacts DEF SpaceInv
  <2>3. QED
    BY <1>1, <2>2 DEF TypingNext
<1>4. OnTheWay' = OnTheWay
  <2>1. OnTheWay' = strokes' \o (Sent(wire'["kbd"]) \o Sent(out'["kbd"]))
    BY DEF OnTheWay, Sent, Presses
  <2>2. Sent(None) = <<>>
    BY DEF Sent, Presses
  <2>3. <<>> \o Sent(out["kbd"]) = Sent(out["kbd"])
    BY OnTheWayTyped, ConcatEmptySeq
  <2>4. (strokes \o Sent(wire["kbd"])) \o Sent(out["kbd"])
        = strokes \o (Sent(wire["kbd"]) \o Sent(out["kbd"]))
    <3>1. /\ strokes \in Seq(StrokeSet)
          /\ Sent(wire["kbd"]) \in Seq(StrokeSet) /\ Sent(out["kbd"]) \in Seq(StrokeSet)
      BY OnTheWayTyped DEF HistoryTyped
    <3>2. QED
      BY <3>1, ConcatAssociative
  <2>5. QED
    BY <1>1, <1>3, <2>1, <2>2, <2>3, <2>4 DEF OnTheWay
<1>5. OrderInv'
  BY <1>1, <1>2, <1>4, SameOrder
<1>6. SpaceInv'
  <2>1. ~Presses(None)
    BY DEF Presses
  <2>2. Presses(out["kbd"]) => ~Presses(wire["kbd"])
    BY <1>1 DEF SpaceInv, Taken
  <2>3. QED
    BY <1>1, <2>1, <2>2 DEF SpaceInv, Presses, Taken
<1>7. strokes' \in Seq(StrokeSet)
  BY <1>3, OnTheWayTyped, ConcatProperties DEF HistoryTyped
<1>8. QED
  BY <1>2, <1>5, <1>6, <1>7 DEF HistoryTyped

LEMMA StartKeeps ==
    ASSUME TypeOK, HistoryTyped, OrderInv, SpaceInv, CalmInv, TypingNext,
           NEW t \in Tasks, NEW s \in Scripts, Start(t, s)
    PROVE  HistoryTyped' /\ OrderInv' /\ SpaceInv'
<1>1. /\ Idle(t) /\ task' = [task EXCEPT ![t] = s] /\ task \in [Tasks -> Seq(KbdReports)]
      /\ UNCHANGED <<out, wire, seen>> /\ s \in Seq(KbdReports)
  BY ScriptType DEF Start, lineVars, TypeOK, ProcOK
<1>2. strokes' = strokes
  <2>1. StrokeOf(seen["kbd"], seen["kbd"]) = <<>>
    BY DEF StrokeOf
  <2>2. strokes \o <<>> = strokes
    BY ConcatEmptySeq DEF HistoryTyped
  <2>3. QED
    BY <1>1, <2>1, <2>2 DEF TypingNext
<1>3. OnTheWay' = OnTheWay
  BY <1>1, <1>2 DEF OnTheWay, Sent, Presses
<1>4. CASE s = <<>>
  <2>1. task' = task
    BY <1>1, <1>4 DEF Idle
  <2>2. asked' = asked
    BY <2>1, NotStarted DEF TypingNext
  <2>3. OrderInv'
    BY <2>1, <2>2, <1>3, SameOrder
  <2>4. QED
    BY <1>1, <1>2, <2>2, <2>3 DEF HistoryTyped, SpaceInv, Presses, Taken
<1>5. CASE s # <<>>
  <2>1. Len(s) \in Nat \ {0} /\ Len(<<>>) = 0 /\ task[t] = <<>> /\ task'[t] = s
    BY <1>1, <1>5, EmptySeq DEF Idle
  <2>2. \A u \in Tasks : u # t => task'[u] = task[u]
    BY <1>1
  <2>3. Started = {t}
    <3>1. t \in Started
      BY <2>1 DEF Started
    <3>2. ASSUME NEW u \in Started PROVE u = t
      <4>1. u \in Tasks /\ Len(task'[u]) > Len(task[u]) /\ Len(task[u]) \in Nat
        BY <1>1, <3>2, LenProperties DEF Started
      <4>2. u # t => Len(task'[u]) = Len(task[u])
        BY <2>2, <4>1
      <4>3. QED
        BY <4>1, <4>2
    <3>3. QED
      BY <3>1, <3>2
  <2>4. asked' = asked \o Strokes(s)
    BY <2>1, <2>3 DEF TypingNext
  <2>5. \A u \in Tasks : u # t => task'[u] = <<>>
    <3>1. ~Idle(t)'
      BY <1>5, <2>1 DEF Idle
    <3>2. \A u \in Tasks : u # t => Idle(u)'
      BY <3>1 DEF TypingNext, Favourable, OneAtATime
    <3>3. QED
      BY <3>2 DEF Idle
  <2>6. asked = OnTheWay
    BY <2>1, <2>2, <2>5 DEF OrderInv
  <2>7. OrderInv'
    BY <1>3, <1>5, <2>1, <2>4, <2>5, <2>6 DEF OrderInv
  <2>8. asked' \in Seq(StrokeSet)
    BY <1>1, <2>4, StrokesFacts, ConcatProperties DEF HistoryTyped
  <2>9. QED
    BY <1>1, <1>2, <2>7, <2>8 DEF HistoryTyped, SpaceInv, Presses, Taken
<1>6. QED
  BY <1>4, <1>5

LEMMA PressKeeps ==
    ASSUME TypeOK, HidInv, HistoryTyped, OrderInv, SpaceInv, CalmInv, TypingNext,
           NEW t \in Tasks, Press(t)
    PROVE  HistoryTyped' /\ OrderInv' /\ SpaceInv'
<1> DEFINE r == RawReport(Head(task[t]))
<1>1. /\ task[t] # <<>> /\ ~down[t] /\ task' = [task EXCEPT ![t] = Tail(task[t])]
      /\ down' = [down EXCEPT ![t] = TRUE]
      /\ UNCHANGED <<wire, seen>>
      /\ task \in [Tasks -> Seq(KbdReports)] /\ down \in [Tasks -> BOOLEAN]
      /\ IsText(task[t]) /\ task[t] \in Seq(KbdReports)
  BY DEF Press, lineVars, TypeOK, ProcOK, CalmInv
<1>2. out["kbd"] = None /\ out'["kbd"] = r
  BY DEF Press, Hold, HidInv, FreeLockInv, NoReports, Only, Devices
<1>3. \A u \in Tasks : u # t => task[u] = <<>> /\ ~down[u] /\ task'[u] = <<>>
  <2>1. ~Idle(t)
    BY <1>1 DEF Idle
  <2>2. \A u \in Tasks : u # t => Idle(u)
    BY <2>1 DEF CalmInv, OneAtATime
  <2>3. QED
    BY <1>1, <2>2 DEF Idle
<1>4. ~Presses(Taken("kbd"))
  <2>1. \A u \in Tasks : ~down[u]
    BY <1>1, <1>3
  <2>2. Final("kbd") = Taken("kbd")
    BY <1>2 DEF Final, Taken
  <2>3. Final("kbd") = KbdReport({}, <<>>) \/ Pressed("kbd", Final("kbd")) = {}
    BY <2>1 DEF HidInv, KeyboardInStep, CalmInv
  <2>4. ~Presses(KbdReport({}, <<>>))
    BY SentFacts DEF KbdReports
  <2>5. QED
    BY <2>2, <2>3, <2>4 DEF Pressed, Presses
<1>5. /\ Strokes(task[t]) = Sent(r) \o Strokes(Tail(task[t]))
      /\ Tail(task[t]) \in Seq(KbdReports)
  BY <1>1, HeadIsSent, HeadTailProperties
<1>6. Sent(r) \in Seq(StrokeSet)
  <2>1. r \in KbdReports
    <3>1. Head(task[t]) \in KbdReports
      BY <1>1, HeadTailProperties
    <3>2. QED
      BY <3>1, RawReportType
  <2>2. QED
    BY <2>1, SentFacts
<1> HIDE DEF r
<1>7. Started = {}
  <2>1. ASSUME NEW u \in Tasks PROVE ~(Len(task'[u]) > Len(task[u]))
    <3>1. CASE u = t
      <4>1. task'[u] = Tail(task[t]) /\ Len(Tail(task[t])) = Len(task[t]) - 1
            /\ Len(task[t]) \in Nat
        BY <1>1, <3>1, HeadTailProperties, LenProperties
      <4>2. QED
        BY <3>1, <4>1
    <3>2. CASE u # t
      BY <1>3, <3>2
    <3>3. QED
      BY <3>1, <3>2
  <2>2. QED
    BY <2>1 DEF Started
<1>8. asked' = asked
  BY <1>7 DEF TypingNext
<1>9. strokes' = strokes
  <2>1. StrokeOf(seen["kbd"], seen["kbd"]) = <<>>
    BY DEF StrokeOf
  <2>2. strokes \o <<>> = strokes
    BY ConcatEmptySeq DEF HistoryTyped
  <2>3. QED
    BY <1>1, <2>1, <2>2 DEF TypingNext
<1>10. OnTheWay' = OnTheWay \o Sent(r)
  <2>1. OnTheWay' = strokes' \o (Sent(wire'["kbd"]) \o Sent(out'["kbd"]))
    BY DEF OnTheWay, Sent, Presses
  <2>2. OnTheWay = strokes \o Sent(wire["kbd"])
    <3>1. Sent(out["kbd"]) = <<>>
      BY <1>2 DEF Sent, Presses
    <3>2. Sent(wire["kbd"]) \o <<>> = Sent(wire["kbd"])
      BY OnTheWayTyped, ConcatEmptySeq
    <3>3. QED
      BY <3>1, <3>2 DEF OnTheWay
  <2>3. (strokes \o Sent(wire["kbd"])) \o Sent(r) = strokes \o (Sent(wire["kbd"]) \o Sent(r))
    <3>1. strokes \in Seq(StrokeSet) /\ Sent(wire["kbd"]) \in Seq(StrokeSet)
      BY OnTheWayTyped DEF HistoryTyped
    <3>2. QED
      BY <1>6, <3>1, ConcatAssociative
  <2>4. QED
    BY <1>1, <1>2, <1>9, <2>1, <2>2, <2>3
<1>11. asked' = OnTheWay' \o Strokes(Tail(task[t]))
  <2>1. asked = OnTheWay \o (Sent(r) \o Strokes(Tail(task[t])))
    BY <1>1, <1>5 DEF OrderInv
  <2>2. (OnTheWay \o Sent(r)) \o Strokes(Tail(task[t]))
        = OnTheWay \o (Sent(r) \o Strokes(Tail(task[t])))
    <3>1. OnTheWay \in Seq(StrokeSet) /\ Strokes(Tail(task[t])) \in Seq(StrokeSet)
      BY <1>5, OnTheWayTyped, StrokesFacts
    <3>2. QED
      BY <1>6, <3>1, ConcatAssociative
  <2>3. QED
    BY <1>8, <1>10, <2>1, <2>2
<1>12. OrderInv'
  <2>1. task'[t] = Tail(task[t])
    BY <1>1
  <2>2. task'[t] = <<>> => asked' = OnTheWay'
    <3>1. Strokes(<<>>) = <<>> /\ OnTheWay' \in Seq(StrokeSet)
      BY <1>6, <1>10, OnTheWayTyped, StrokesFacts, ConcatProperties, EmptySeq
    <3>2. OnTheWay' \o <<>> = OnTheWay'
      BY <3>1, ConcatEmptySeq
    <3>3. QED
      BY <1>11, <2>1, <3>1, <3>2
  <2>3. QED
    BY <1>3, <1>11, <2>1, <2>2 DEF OrderInv
<1>13. SpaceInv'
  <2>1. Taken("kbd")' = Taken("kbd")
    BY <1>1 DEF Taken
  <2>2. ~Presses(Taken("kbd"))'
    BY <1>4, <2>1 DEF Presses
  <2>3. QED
    BY <1>1, <2>2 DEF SpaceInv, Presses
<1>14. QED
  BY <1>8, <1>9, <1>12, <1>13 DEF HistoryTyped

\* The environment stays calm, and a text that is begun is typed to its end.
LEMMA CalmKeeps ==
    ASSUME TypeOK, CalmInv, TypingNext, KindOfStep
    PROVE  CalmInv'
<1>1. attached' /\ fresh' /\ mods' = {} /\ keys' = <<>> /\ OneAtATime'
  BY DEF TypingNext, Favourable
<1>2. task \in [Tasks -> Seq(KbdReports)]
  BY DEF TypeOK, ProcOK
<1>3. \A t \in Tasks : IsText(task[t])
  BY DEF CalmInv
<1>4. CASE task' = task
  BY <1>1, <1>3, <1>4 DEF CalmInv, OneAtATime, Idle
<1>5. ASSUME NEW t \in Tasks, Press(t) PROVE \A u \in Tasks : IsText(task'[u])
  <2>1. task[t] # <<>> /\ task' = [task EXCEPT ![t] = Tail(task[t])]
    BY <1>5 DEF Press
  <2>2. IsText(Tail(task[t]))
    BY <1>2, <1>3, <2>1, HeadIsSent
  <2>3. QED
    BY <1>2, <1>3, <2>1, <2>2
<1>6. ASSUME NEW t \in Tasks, NEW s \in Scripts, Start(t, s)
      PROVE  \A u \in Tasks : IsText(task'[u])
  <2>1. task[t] = <<>> /\ task' = [task EXCEPT ![t] = s] /\ s \in Seq(KbdReports)
    BY <1>6, ScriptType DEF Start, Idle
  <2>2. task'[t] = s
    BY <1>2, <2>1
  <2>3. IsText(s)
    <3>1. CASE s = <<>>
      BY <3>1 DEF IsText
    <3>2. CASE s # <<>>
      <4>1. Len(s) \in Nat \ {0} /\ Len(<<>>) = 0
        BY <2>1, <3>2, EmptySeq
      <4>2. t \in Started
        BY <2>1, <2>2, <4>1 DEF Started
      <4>3. QED
        BY <2>2, <4>2 DEF TypingNext, Favourable
    <3>3. QED
      BY <3>1, <3>2
  <2>4. QED
    BY <1>2, <1>3, <2>1, <2>3
<1>7. task' = task \/ \A u \in Tasks : IsText(task'[u])
  BY <1>5, <1>6 DEF KindOfStep, Write, Poll
<1>8. (\A u \in Tasks : IsText(task'[u])) => \A u \in Tasks : IsText(task[u])'
  BY DEF IsText
<1>9. QED
  BY <1>1, <1>4, <1>7, <1>8 DEF CalmInv

LEMMA TypingStep ==
    ASSUME TypeOK, HidInv, TypingInv, TypingNext
    PROVE  TypingInv'
<1>1. CalmInv /\ HistoryTyped /\ OrderInv /\ SpaceInv
  BY DEF TypingInv
<1>2. KindOfStep
  BY <1>1, StepKind DEF TypingNext
<1>3. CalmInv'
  BY <1>1, <1>2, CalmKeeps
<1>4. HistoryTyped' /\ OrderInv' /\ SpaceInv'
  BY <1>1, <1>2, QuietKeeps, WriteKbdKeeps, PollKbdKeeps, StartKeeps, PressKeeps DEF KindOfStep
<1>5. QED
  BY <1>3, <1>4 DEF TypingInv

LEMMA TypingStutter == ASSUME TypingInv, UNCHANGED typingVars PROVE TypingInv'
BY DEF TypingInv, CalmInv, OneAtATime, Idle, IsText, HistoryTyped, OrderInv, OnTheWay, Sent,
       Presses, Strokes, Stroke, SpaceInv, Taken, typingVars, vars

LEMMA TypingStart == TypingInit => TypingInv
<1> SUFFICES ASSUME TypingInit PROVE TypingInv
  OBVIOUS
<1>1. /\ \A t \in Tasks : task[t] = <<>> /\ ~down[t]
      /\ out["kbd"] = None /\ wire["kbd"] = None
  BY DEF TypingInit, Init, NoReports, Devices
<1>2. CalmInv
  BY <1>1 DEF TypingInit, Init, CalmInv, OneAtATime, Idle, IsText
<1>3. OnTheWay = <<>> /\ <<>> \in Seq(StrokeSet)
  <2>1. Sent(None) = <<>> /\ <<>> \o <<>> = <<>>
    BY EmptySeq, ConcatEmptySeq DEF Sent, Presses
  <2>2. QED
    BY <1>1, <2>1, EmptySeq DEF OnTheWay, TypingInit
<1>4. SpaceInv
  BY <1>1 DEF SpaceInv, Presses
<1>5. QED
  BY <1>1, <1>2, <1>3, <1>4 DEF TypingInv, HistoryTyped, OrderInv, TypingInit

LEMMA TypingGives == TypeOK /\ TypingInv => TypedAsAsked
<1> SUFFICES ASSUME TypeOK, TypingInv PROVE TypedAsAsked
  OBVIOUS
<1>1. \E rest \in Seq(StrokeSet) : asked = strokes \o rest
  <2> DEFINE sent == Sent(wire["kbd"]) \o Sent(out["kbd"])
  <2>1. sent \in Seq(StrokeSet) /\ OnTheWay = strokes \o sent
    BY OnTheWayTyped, ConcatProperties DEF OnTheWay, TypingInv
  <2> HIDE DEF sent
  <2>2. CASE \A t \in Tasks : task[t] = <<>>
    BY <2>1, <2>2 DEF TypingInv, OrderInv
  <2>3. ASSUME NEW t \in Tasks, task[t] # <<>>
        PROVE  \E rest \in Seq(StrokeSet) : asked = strokes \o rest
    <3>1. Strokes(task[t]) \in Seq(StrokeSet) /\ asked = OnTheWay \o Strokes(task[t])
      BY <2>3, StrokesFacts DEF TypeOK, ProcOK, TypingInv, OrderInv
    <3>2. strokes \in Seq(StrokeSet) /\ sent \o Strokes(task[t]) \in Seq(StrokeSet)
      BY <2>1, <3>1, ConcatProperties DEF TypingInv, HistoryTyped
    <3>3. (strokes \o sent) \o Strokes(task[t]) = strokes \o (sent \o Strokes(task[t]))
      BY <2>1, <3>1, <3>2, ConcatAssociative
    <3>4. QED
      BY <2>1, <3>1, <3>2, <3>3
  <2>4. QED
    BY <2>2, <2>3
<1>2. PICK rest \in Seq(StrokeSet) : asked = strokes \o rest
  BY <1>1
<1>3. strokes \in Seq(StrokeSet) /\ Len(strokes) \in Nat /\ Len(rest) \in Nat
  BY LenProperties DEF TypingInv, HistoryTyped
<1>4. Len(asked) = Len(strokes) + Len(rest)
  BY <1>2, <1>3, ConcatProperties
<1>5. SubSeq(asked, 1, Len(strokes)) = strokes
  <2>1. CASE strokes = <<>>
    BY <1>3, <2>1, SubSeqEmpty, EmptySeq
  <2>2. CASE strokes # <<>>
    <3>1. 1 \in 1 .. Len(strokes) /\ Len(strokes) \in 1 .. Len(strokes)
      BY <1>3, <2>2, EmptySeq
    <3>2. SubSeq(strokes \o rest, 1, Len(strokes)) = SubSeq(strokes, 1, Len(strokes))
      BY <1>3, <3>1, SubSeqOfConcat1
    <3>3. QED
      BY <1>2, <1>3, <3>2, SubSeqFull
  <2>3. QED
    BY <2>1, <2>2
<1>6. AllTyped => strokes = asked
  <2>1. SUFFICES ASSUME AllTyped PROVE strokes = asked
    OBVIOUS
  <2>2. /\ \A t \in Tasks : task[t] = <<>>
        /\ Sent(out["kbd"]) = <<>> /\ Sent(wire["kbd"]) = <<>>
    BY <2>1 DEF AllTyped, Idle, Sent, Presses
  <2>3. asked = strokes \o (<<>> \o <<>>)
    BY <2>2 DEF TypingInv, OrderInv, OnTheWay
  <2>4. <<>> \o <<>> = <<>> /\ strokes \o <<>> = strokes
    BY <1>3, EmptySeq, ConcatEmptySeq
  <2>5. QED
    BY <2>3, <2>4
<1>7. QED
  BY <1>3, <1>4, <1>5, <1>6 DEF TypedAsAsked

\* However sessions come, go and reset the keyboard, and whatever the mutex,
\* the queue and the target delay: with one text at a time the target
\* recognises exactly the strokes that were asked for, in order, for any
\* goroutines and texts (Type, writeRaw).
THEOREM TextArrives == TypingSpec => []TypedAsAsked
<1>1. TypingInit => Init
  BY DEF TypingInit
<1>2. [TypingNext]_typingVars => [Next]_vars
  BY DEF TypingNext, typingVars
<1>3. TypeOK /\ HidInv /\ TypingInv /\ [TypingNext]_typingVars => TypingInv'
  BY TypingStep, TypingStutter
<1>4. QED
  BY <1>1, <1>2, <1>3, TypeInit, TypeNext, InvInit, InvNext, TypingStart, TypingGives, PTL
     DEF TypingSpec
=============================================================================
