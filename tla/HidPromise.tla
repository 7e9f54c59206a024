----------------------------- MODULE HidPromise -----------------------------
(***************************************************************************)
(* What the HID bridge promises its callers: a message, a press or a       *)
(* release of a goroutine and a Reset are each one step, and each of the   *)
(* three devices ends with what was said last.  Nothing is said here of    *)
(* the mutex, of the order of the writes or of the queues: a report        *)
(* arrives at the gadget some time later, and is lost only when no target  *)
(* is there.  Hid, with all of those, implements this.                     *)
(***************************************************************************)
EXTENDS HidReports

VARIABLES
    conn,     \* a connection: "off", "hello", "open" or "bye", as in Hid
    mods, keys, buttons, last,  \* what the process remembers
    task,     \* what a goroutine has still to press
    down,     \* the goroutine has pressed and not yet released
    said,     \* per device, the report it ends with as things stand
    got,      \* per device, the last report the gadget has taken
    attached, \* the target is plugged in
    fresh     \* a Reset has run since the process started, or the board booted

procVars == <<mods, keys, buttons, last>>
taskVars == <<task, down>>
lineVars == <<got, attached>>
promiseVars == <<conn, procVars, taskVars, said, lineVars, fresh>>

PromiseInit ==
    /\ conn = [c \in Conns |-> "off"]
    /\ mods = {} /\ keys = <<>> /\ buttons = {} /\ last = Origin
    /\ task = [t \in Tasks |-> <<>>]
    /\ down = [t \in Tasks |-> FALSE]
    /\ said = Cleared /\ got = Cleared
    /\ attached \in BOOLEAN
    /\ fresh = TRUE

Say(d, r) == said' = [said EXCEPT ![d] = r]

-----------------------------------------------------------------------------
(* Sessions.                                                               *)

Connect(c) ==
    /\ conn[c] = "off"
    /\ conn' = [conn EXCEPT ![c] = "hello"]
    /\ UNCHANGED <<procVars, taskVars, said, lineVars, fresh>>

Disconnect(c) ==
    /\ conn[c] = "open"
    /\ conn' = [conn EXCEPT ![c] = "bye"]
    /\ UNCHANGED <<procVars, taskVars, said, lineVars, fresh>>

\* Mutant: the session that ends does not reset.
ResetOnConnectOnly(c) ==
    /\ conn[c] \in {"hello", "bye"}
    /\ conn' = [conn EXCEPT ![c] = IF conn[c] = "hello" THEN "open" ELSE "off"]
    /\ IF conn[c] = "hello"
       THEN /\ mods' = {} /\ keys' = <<>> /\ buttons' = {}
            /\ said' = [kbd |-> KbdReport({}, <<>>), abs |-> AbsReport({}, last),
                        rel |-> IF HasRel THEN RelReport({}) ELSE said["rel"]]
            /\ fresh' = TRUE
       ELSE UNCHANGED <<mods, keys, buttons, said, fresh>>
    /\ UNCHANGED <<last, taskVars, lineVars>>

\* Reset, before the read loop and after it: all devices are released.
Reset(c) ==
    /\ conn[c] \in {"hello", "bye"}
    /\ conn' = [conn EXCEPT ![c] = IF conn[c] = "hello" THEN "open" ELSE "off"]
    /\ mods' = {} /\ keys' = <<>> /\ buttons' = {}
    /\ said' = [kbd |-> KbdReport({}, <<>>), abs |-> AbsReport({}, last),
                rel |-> IF HasRel THEN RelReport({}) ELSE said["rel"]]
    /\ fresh' = TRUE
    /\ UNCHANGED <<last, taskVars, lineVars>>

\* A message of an open session.
Handling(c) == conn[c] = "open" /\ UNCHANGED <<conn, taskVars, lineVars, fresh>>

ModKey(c, m, press) ==
    /\ Handling(c)
    /\ mods' = IF press THEN mods \cup {m} ELSE mods \ {m}
    /\ Say("kbd", KbdReport(mods', keys))
    /\ UNCHANGED <<keys, buttons, last>>

Key(c, k, press) ==
    /\ Handling(c)
    /\ keys' = KeysAfter(keys, k, press)
    /\ Say("kbd", KbdReport(mods, keys'))
    /\ UNCHANGED <<mods, buttons, last>>

MouseAbs(c, bs, p) ==
    /\ Handling(c)
    /\ buttons' = bs /\ last' = p
    /\ Say("abs", AbsReport(bs, p))
    /\ UNCHANGED <<mods, keys>>

Wheel(c) ==
    /\ Handling(c)
    /\ Say("abs", AbsReport(buttons, last))
    /\ UNCHANGED procVars

MouseRel(c, bs) ==
    /\ HasRel
    /\ Handling(c)
    /\ Say("rel", RelReport(bs))
    /\ UNCHANGED procVars

-----------------------------------------------------------------------------
(* Goroutines.                                                             *)

Start(t, s) ==
    /\ task[t] = <<>> /\ ~down[t]
    /\ task' = [task EXCEPT ![t] = s]
    /\ UNCHANGED <<conn, procVars, down, said, lineVars, fresh>>

Press(t) ==
    /\ task[t] # <<>> /\ ~down[t]
    /\ Say("kbd", RawReport(Head(task[t])))
    /\ task' = [task EXCEPT ![t] = Tail(task[t])]
    /\ down' = [down EXCEPT ![t] = TRUE]
    /\ UNCHANGED <<conn, procVars, lineVars, fresh>>

Release(t) ==
    /\ down[t]
    /\ Say("kbd", KbdReport({}, <<>>))
    /\ down' = [down EXCEPT ![t] = FALSE]
    /\ UNCHANGED <<conn, procVars, task, lineVars, fresh>>

-----------------------------------------------------------------------------
(* The gadget, the target and the service.                                 *)

\* The gadget takes the report a device ends with.
Take(d) ==
    /\ attached
    /\ got' = [got EXCEPT ![d] = said[d]]
    /\ UNCHANGED <<conn, procVars, taskVars, said, attached, fresh>>

\* With no target there, and only then, a report is lost.
Lose(d) ==
    /\ ~attached
    /\ said' = [said EXCEPT ![d] = got[d]]
    /\ UNCHANGED <<conn, procVars, taskVars, lineVars, fresh>>

\* The target leaves and forgets all; reports still to be taken follow.
Leave ==
    /\ attached
    /\ attached' = FALSE
    /\ got' = Cleared
    /\ \E D \in SUBSET Devices :
          said' = [d \in Devices |-> IF d \in D THEN Cleared[d] ELSE said[d]]
    /\ UNCHANGED <<conn, procVars, taskVars, fresh>>

Arrive ==
    /\ ~attached
    /\ attached' = TRUE
    /\ UNCHANGED <<conn, procVars, taskVars, said, got, fresh>>

\* The service starts anew; what was not taken is never said.
Restart ==
    /\ conn' = [c \in Conns |-> "off"]
    /\ mods' = {} /\ keys' = <<>> /\ buttons' = {} /\ last' = Origin
    /\ task' = [t \in Tasks |-> <<>>]
    /\ down' = [t \in Tasks |-> FALSE]
    /\ said' = got
    /\ fresh' = FALSE
    /\ UNCHANGED lineVars

Session(c) ==
    \/ Connect(c) \/ Disconnect(c) \/ Reset(c)
    \/ \E m \in Mods, press \in BOOLEAN : ModKey(c, m, press)
    \/ \E k \in Keys, press \in BOOLEAN : Key(c, k, press)
    \/ \E bs \in SUBSET Buttons, p \in Points : MouseAbs(c, bs, p)
    \/ Wheel(c)
    \/ \E bs \in SUBSET Buttons : MouseRel(c, bs)

PromiseNext ==
    \/ \E c \in Conns : Session(c)
    \/ \E t \in Tasks : Press(t) \/ Release(t) \/ \E s \in Scripts : Start(t, s)
    \/ \E d \in Devices : Take(d) \/ Lose(d)
    \/ Leave \/ Arrive
    \/ Restart

PromiseSpec == PromiseInit /\ [][PromiseNext]_promiseVars
=============================================================================
