-------------------------------- MODULE Hid --------------------------------
(***************************************************************************)
(* The HID bridge of the control plane (src/controlplane/hid.go) with the  *)
(* WebSocket sessions that drive it (serveInput in main.go) and the        *)
(* goroutines that type text, send chords and run macros (macro.go).       *)
(*                                                                         *)
(* Every session and every goroutine shares one keyboard state, one        *)
(* pointer state, one mutex and three gadget devices.  A handler takes the *)
(* mutex, updates the shared state and writes its reports while it still   *)
(* holds it, so a device the target does not poll blocks all of them.      *)
(* The gadget queues one report per device (external: the Linux f_hid      *)
(* function); the target takes it when it polls.                           *)
(*                                                                         *)
(* Abstractions: a modifier bit, a key usage, a mouse button and a screen  *)
(* position are members of small sets; a wheel delta or a pointer delta    *)
(* leaves no state on the target and is left out; sleeps are the arbitrary *)
(* delays between two steps.                                               *)
(***************************************************************************)
EXTENDS HidReports

CONSTANTS
    MaxChunks,  \* most reports one relative movement is split into (bound)
    None        \* no report, no holder

ASSUME HidAssumption ==
    /\ MaxChunks \in Nat \ {0}
    /\ None \notin Conns \cup Tasks

ASSUME NoneIsNoReport == None \notin AnyReport

NoReports == [d \in Devices |-> None]

VARIABLES
    conn,      \* a connection: "off", "hello" (upgraded, not yet reset),
               \* "open" (in the read loop), "bye" (read failed, not yet reset)
    holder,    \* who holds h.mu
    mods,      \* h.mods
    keys,      \* h.keys
    buttons,   \* h.buttons
    last,      \* (h.lastX, h.lastY)
    task,      \* what a goroutine has still to press
    down,      \* the goroutine has pressed and not yet released
    out,       \* per device, the report the holder has still to write
    more,      \* further reports of a split relative movement
    wire,      \* per device, the report queued in the gadget (external)
    seen,      \* per device, the last report the target has read (external)
    attached,  \* the target is plugged in and has configured the gadget (external)
    fresh      \* a Reset has run since the process started, or the board booted

procVars == <<mods, keys, buttons, last>>
lineVars == <<wire, seen, attached>>
vars == <<conn, holder, mods, keys, buttons, last, task, down, out, more,
          wire, seen, attached, fresh>>

ProcOK ==
    /\ conn \in [Conns -> {"off", "hello", "open", "bye"}]
    /\ holder \in Conns \cup Tasks \cup {None}
    /\ mods \in SUBSET Mods
    /\ keys \in Seq(Keys)
    /\ buttons \in SUBSET Buttons
    /\ last \in Points
    /\ task \in [Tasks -> Seq(KbdReports)]
    /\ down \in [Tasks -> BOOLEAN]
    /\ more \in 0 .. MaxChunks - 1
    /\ attached \in BOOLEAN
    /\ fresh \in BOOLEAN

LinesOK ==
    /\ out \in [Devices -> AnyReport \cup {None}]
    /\ wire \in [Devices -> AnyReport \cup {None}]
    /\ seen \in [Devices -> AnyReport]
    /\ \A d \in Devices : /\ out[d] \in ReportsOf(d) \cup {None}
                          /\ wire[d] \in ReportsOf(d) \cup {None}
                          /\ seen[d] \in ReportsOf(d)

\* Each variable has its type, and each device line carries reports of its
\* own device.
TypeOK == ProcOK /\ LinesOK

Init ==
    /\ conn = [c \in Conns |-> "off"]
    /\ holder = None
    /\ mods = {}
    /\ keys = <<>>
    /\ buttons = {}
    /\ last = Origin
    /\ task = [t \in Tasks |-> <<>>]
    /\ down = [t \in Tasks |-> FALSE]
    /\ out = NoReports
    /\ more = 0
    /\ wire = NoReports
    /\ seen = Cleared
    /\ attached \in BOOLEAN
    /\ fresh = TRUE

-----------------------------------------------------------------------------
(* The mutex and the writes made under it.                                 *)

\* Mutant: the handler writes without the mutex.
HoldNoLock(p, reports) ==
    /\ holder' = p
    /\ out' = reports

\* p takes the free mutex and leaves these reports to be written under it.
Hold(p, reports) ==
    /\ holder = None
    /\ holder' = p
    /\ out' = reports

Only(d, r) == [NoReports EXCEPT ![d] = r]

\* Reset writes the keyboard, then the absolute mouse, then the relative one.
Before(d) == IF d = "kbd" THEN {} ELSE IF d = "abs" THEN {"kbd"} ELSE {"kbd", "abs"}

\* The holder's next write.  While the target is plugged in it waits for the
\* queue slot of the device; with no target it fails, and the error is
\* ignored.  The last write of the critical section releases the mutex.
Write(d) ==
    /\ out[d] # None
    /\ \A e \in Before(d) : out[e] = None
    /\ IF attached THEN /\ wire[d] = None
                        /\ wire' = [wire EXCEPT ![d] = out[d]]
                   ELSE wire' = wire
    /\ IF d = "rel" /\ more > 0
       THEN /\ more' = more - 1
            /\ UNCHANGED <<out, holder>>
       ELSE /\ out' = [out EXCEPT ![d] = None]
            /\ holder' = IF out' = NoReports THEN None ELSE holder
            /\ more' = more
    /\ UNCHANGED <<conn, procVars, task, down, seen, attached, fresh>>

-----------------------------------------------------------------------------
(* WebSocket sessions.                                                     *)

Connect(c) ==
    /\ conn[c] = "off"
    /\ holder # c
    /\ conn' = [conn EXCEPT ![c] = "hello"]
    /\ UNCHANGED <<holder, procVars, task, down, out, more, lineVars, fresh>>

\* The peer closes, or the connection breaks: ReadMessage returns an error.
Disconnect(c) ==
    /\ conn[c] = "open"
    /\ holder # c
    /\ conn' = [conn EXCEPT ![c] = "bye"]
    /\ UNCHANGED <<holder, procVars, task, down, out, more, lineVars, fresh>>

\* Mutant: Reset forgets the relative mouse, as it did before that mode existed.
ResetForgetsRel == [kbd |-> KbdReport({}, <<>>), abs |-> AbsReport({}, last), rel |-> None]

\* What Reset writes.
ResetReports == [kbd |-> KbdReport({}, <<>>),
                 abs |-> AbsReport({}, last),
                 rel |-> IF HasRel THEN RelReport({}) ELSE None]

\* Mutant: Reset on connect only.
ResetOnConnectOnly(c) ==
    /\ conn[c] = "hello"
    /\ conn' = [conn EXCEPT ![c] = "open"]
    /\ mods' = {} /\ keys' = <<>> /\ buttons' = {} /\ last' = last
    /\ Hold(c, ResetReports)
    /\ fresh' = TRUE
    /\ UNCHANGED <<task, down, more, lineVars>>

\* Reset, before the read loop and after it.
Reset(c) ==
    /\ conn[c] \in {"hello", "bye"}
    /\ conn' = [conn EXCEPT ![c] = IF conn[c] = "hello" THEN "open" ELSE "off"]
    /\ mods' = {}
    /\ keys' = <<>>
    /\ buttons' = {}
    /\ last' = last
    /\ Hold(c, ResetReports)
    /\ fresh' = TRUE
    /\ UNCHANGED <<task, down, more, lineVars>>

\* A message of an open session is being handled.
Handling(c) ==
    /\ conn[c] = "open"
    /\ UNCHANGED <<conn, task, down, lineVars, fresh>>

ModKey(c, m, press) ==
    /\ Handling(c)
    /\ mods' = IF press THEN mods \cup {m} ELSE mods \ {m}
    /\ Hold(c, Only("kbd", KbdReport(mods', keys)))
    /\ UNCHANGED <<keys, buttons, last, more>>

Key(c, k, press) ==
    /\ Handling(c)
    /\ keys' = KeysAfter(keys, k, press)
    /\ Hold(c, Only("kbd", KbdReport(mods, keys')))
    /\ UNCHANGED <<mods, buttons, last, more>>

MouseAbs(c, bs, p) ==
    /\ Handling(c)
    /\ buttons' = bs
    /\ last' = p
    /\ Hold(c, Only("abs", AbsReport(bs, p)))
    /\ UNCHANGED <<mods, keys, more>>

\* Mutant: a wheel event sends no buttons.
WheelDropsButtons(c) ==
    /\ Handling(c)
    /\ Hold(c, Only("abs", AbsReport({}, last)))
    /\ UNCHANGED <<procVars, more>>

Wheel(c) ==
    /\ Handling(c)
    /\ Hold(c, Only("abs", AbsReport(buttons, last)))
    /\ UNCHANGED <<procVars, more>>

\* Mutant: one report more than the movement needs.
MouseRelOneMore(c, bs, n) ==
    /\ HasRel
    /\ Handling(c)
    /\ Hold(c, Only("rel", RelReport(bs)))
    /\ more' = n
    /\ UNCHANGED procVars

\* A movement split into n reports with the same buttons.
MouseRelMove(c, bs, n) ==
    /\ HasRel
    /\ Handling(c)
    /\ Hold(c, Only("rel", RelReport(bs)))
    /\ more' = n - 1
    /\ UNCHANGED procVars

-----------------------------------------------------------------------------
(* Chord, Type and RunMacro: goroutines that press and release.            *)

Idle(t) == task[t] = <<>> /\ ~down[t]

Start(t, s) ==
    /\ Idle(t)
    /\ holder # t
    /\ task' = [task EXCEPT ![t] = s]
    /\ UNCHANGED <<conn, holder, procVars, down, out, more, lineVars, fresh>>

\* A "chord" or "type" message of an open session.
SpawnFromSession(c, t, s) ==
    /\ conn[c] = "open"
    /\ holder # c
    /\ Start(t, s)

\* POST /api/macros/run needs no WebSocket session.
SpawnFromApi(t, s) == Start(t, s)

Press(t) ==
    /\ task[t] # <<>>
    /\ ~down[t]
    /\ Hold(t, Only("kbd", RawReport(Head(task[t]))))
    /\ task' = [task EXCEPT ![t] = Tail(task[t])]
    /\ down' = [down EXCEPT ![t] = TRUE]
    /\ UNCHANGED <<conn, procVars, more, lineVars, fresh>>

\* Mutant: the goroutine moves on without writing the release.
ReleaseForgotten(t) ==
    /\ down[t]
    /\ down' = [down EXCEPT ![t] = FALSE]
    /\ UNCHANGED <<conn, holder, procVars, task, out, more, lineVars, fresh>>

Release(t) ==
    /\ down[t]
    /\ Hold(t, Only("kbd", KbdReport({}, <<>>)))
    /\ down' = [down EXCEPT ![t] = FALSE]
    /\ UNCHANGED <<conn, procVars, task, more, lineVars, fresh>>

-----------------------------------------------------------------------------
(* The target and the process.                                             *)

\* The target polls a device and takes the queued report.
Poll(d) ==
    /\ attached
    /\ wire[d] # None
    /\ seen' = [seen EXCEPT ![d] = wire[d]]
    /\ wire' = [wire EXCEPT ![d] = None]
    /\ UNCHANGED <<conn, holder, procVars, task, down, out, more, attached, fresh>>

\* The target is unplugged or powered off: it forgets what was held.
Detach ==
    /\ attached
    /\ attached' = FALSE
    /\ wire' = NoReports
    /\ seen' = Cleared
    /\ UNCHANGED <<conn, holder, procVars, task, down, out, more, fresh>>

Attach ==
    /\ ~attached
    /\ attached' = TRUE
    /\ UNCHANGED <<conn, holder, procVars, task, down, out, more, wire, seen, fresh>>

\* The service is stopped or dies and systemd starts it again.  Nothing is
\* written on the way out; NewHID opens the devices and writes nothing.
Restart ==
    /\ conn' = [c \in Conns |-> "off"]
    /\ holder' = None
    /\ mods' = {}
    /\ keys' = <<>>
    /\ buttons' = {}
    /\ last' = Origin
    /\ task' = [t \in Tasks |-> <<>>]
    /\ down' = [t \in Tasks |-> FALSE]
    /\ out' = NoReports
    /\ more' = 0
    /\ fresh' = FALSE
    /\ UNCHANGED lineVars

Session(c) ==
    \/ Connect(c)
    \/ Disconnect(c)
    \/ Reset(c)
    \/ \E m \in Mods, press \in BOOLEAN : ModKey(c, m, press)
    \/ \E k \in Keys, press \in BOOLEAN : Key(c, k, press)
    \/ \E bs \in SUBSET Buttons, p \in Points : MouseAbs(c, bs, p)
    \/ Wheel(c)
    \/ \E bs \in SUBSET Buttons, n \in 1 .. MaxChunks : MouseRelMove(c, bs, n)
    \/ \E t \in Tasks, s \in Scripts : SpawnFromSession(c, t, s)

Goroutine(t) == Press(t) \/ Release(t) \/ \E s \in Scripts : SpawnFromApi(t, s)

Target == (\E d \in Devices : Poll(d)) \/ Detach \/ Attach

Next ==
    \/ \E c \in Conns : Session(c)
    \/ \E t \in Tasks : Goroutine(t)
    \/ \E d \in Devices : Write(d)
    \/ Target
    \/ Restart

Spec == Init /\ [][Next]_vars

\* The target keeps polling, the holder of the mutex runs, and sync.Mutex
\* hands itself to a waiter that has waited long enough (starvation mode), so
\* a goroutine whose turn recurs gets it.  Nothing makes a client connect,
\* send or leave, and nothing makes the target come or go.
Fairness ==
    /\ \A d \in Devices : WF_vars(Poll(d)) /\ WF_vars(Write(d))
    /\ \A c \in Conns : SF_vars(Reset(c))
    /\ \A t \in Tasks : SF_vars(Press(t)) /\ SF_vars(Release(t))

FairSpec == Spec /\ Fairness

-----------------------------------------------------------------------------
(* Safety.                                                                 *)

\* The report a device ends with once the writes already due are made.
Final(d) == IF out[d] # None THEN out[d]
            ELSE IF wire[d] # None THEN wire[d] ELSE seen[d]

NobodyThere ==
    /\ \A c \in Conns : conn[c] = "off"
    /\ \A t \in Tasks : Idle(t)

\* Once every session has ended and no macro, chord or paste runs, all three
\* devices end with nothing held down, whatever the order in which sessions
\* connected, left and overlapped with the goroutines ("releases all keys on
\* connect/disconnect (no stuck keys)", controlplane/README.md; Reset).
NoStuckKeys ==
    NobodyThere /\ fresh => \A d \in Devices : Pressed(d, Final(d)) = {}

\* What the target ends with on the keyboard is what the sessions hold, a
\* goroutine's press still to be released, or nothing: never a mixture, and
\* never a state the process has moved on from (writeKbd, writeRaw).
KeyboardInStep ==
    fresh => \/ Final("kbd") = KbdReport(mods, keys)
             \/ Pressed("kbd", Final("kbd")) = {}
             \/ \E t \in Tasks : down[t]

\* The absolute pointer: the target ends with the buttons and the position
\* the process remembers, which a wheel event or a Reset sends again
\* (writeMouse), unless it has been plugged in since.
PointerInStep ==
    fresh => \/ Final("abs") = AbsReport(buttons, last)
             \/ Final("abs") = Cleared["abs"]

\* The key list never outgrows a boot report and never holds a key twice:
\* with a duplicate, one key-up would leave the key held (key).
KeyListSound ==
    /\ Len(keys) <= KeySlots
    /\ \A i, j \in DOMAIN keys : keys[i] = keys[j] => i = j
    /\ \A r \in {out["kbd"], wire["kbd"], seen["kbd"]} \ {None} : Len(r.keys) <= KeySlots

\* What the gadget has of a device: the queued report, or the last one read.
Taken(d) == IF wire[d] # None THEN wire[d] ELSE seen[d]

Promise == INSTANCE HidPromise WITH
    said <- [d \in Devices |-> Final(d)],
    got  <- [d \in Devices |-> Taken(d)]

\* Seen by its callers, every handler takes effect at once: the mutex, the
\* writes that block under it, the queues and the interleavings of sessions
\* and goroutines add nothing to what HidPromise allows (mu, and all of its
\* users).
HandlersAreAtomic == Promise!PromiseSpec

-----------------------------------------------------------------------------
(* Liveness.                                                               *)

\* Every session has ended or broken, and no goroutine has more to press.
EverybodyLeaves ==
    /\ \A c \in Conns : conn[c] \in {"off", "bye"}
    /\ \A t \in Tasks : task[t] = <<>>

\* If from some time on everybody has left, then from some time on the target
\* has nothing held down: however busy the mutex and however slow the target,
\* each press is released, each broken session gets to its final Reset, and
\* the releases do not only get queued, they arrive (serveInput, Type, Chord).
TargetComesToRest ==
    <>[](EverybodyLeaves /\ fresh) => <>[](\A d \in Devices : Pressed(d, seen[d]) = {})
=============================================================================
