----------------------------- MODULE HidReports -----------------------------
(***************************************************************************)
(* What the HID bridge (src/controlplane/hid.go) is about: who uses it,    *)
(* the reports of its three gadget devices, and the list of held keys.     *)
(* Shared by the promise HidPromise and the detailed model Hid.            *)
(***************************************************************************)
EXTENDS Integers, Sequences, Functions

CONSTANTS
    Conns,      \* WebSocket connections
    Tasks,      \* goroutines of Chord, Type and RunMacro alive at once
    Mods,       \* modifier keys, one bit each of the report's first byte
    Keys,       \* other keys (usages of keymap and charMap)
    KeySlots,   \* key bytes of a boot keyboard report: 6 in the code
    Buttons,    \* mouse buttons
    Points,     \* positions of the absolute pointer
    Origin,     \* the position a fresh process starts with, (0, 0)
    Unplaced,   \* the target's pointer before any report places it
    HasRel,     \* is the relative mouse /dev/hidg2 there?
    Scripts     \* what Chord, Type or RunMacro may be asked to press

ASSUME ReportsAssumption ==
    /\ KeySlots \in Nat \ {0}
    /\ HasRel \in BOOLEAN
    /\ Origin \in Points
    /\ Unplaced \notin Points
    /\ Conns \cap Tasks = {}
    /\ Mods \cap Keys = {}
    /\ Scripts \subseteq Seq([mods : SUBSET Mods, keys : Seq(Keys)])

Devices == {"kbd", "abs", "rel"}

KbdReports == [mods : SUBSET Mods, keys : Seq(Keys)]
AbsReports == [buttons : SUBSET Buttons, pos : Points \cup {Unplaced}]
RelReports == [buttons : SUBSET Buttons]

ReportsOf(d) == IF d = "kbd" THEN KbdReports
                ELSE IF d = "abs" THEN AbsReports ELSE RelReports

AnyReport == KbdReports \cup AbsReports \cup RelReports

KbdReport(ms, ks) == [mods |-> ms, keys |-> ks]
AbsReport(bs, p) == [buttons |-> bs, pos |-> p]
RelReport(bs) == [buttons |-> bs]

\* What a report tells the target is held down.
Pressed(d, r) == IF d = "kbd" THEN r.mods \cup Range(r.keys) ELSE r.buttons

\* What a target that enumerates the gadget afresh starts from.
Cleared == [d \in Devices |-> IF d = "kbd" THEN KbdReport({}, <<>>)
                              ELSE IF d = "abs" THEN AbsReport({}, Unplaced)
                              ELSE RelReport({})]

\* The sequence s without its i-th entry.
DropAt(s, i) == [j \in 1 .. Len(s) - 1 |-> IF j < i THEN s[j] ELSE s[j + 1]]

\* Mutant: a repeated key-down is appended again.
KeysAfterNoCheck(ks, k, press) ==
    IF press
    THEN IF Len(ks) >= KeySlots THEN ks ELSE Append(ks, k)
    ELSE IF k \in Range(ks)
         THEN DropAt(ks, CHOOSE i \in DOMAIN ks : ks[i] = k)
         ELSE ks

\* The list ks of held keys after an event of key k.  A repeated key-down and
\* a key too many leave it as it is; a key-up removes the first entry of the
\* key.
KeysAfter(ks, k, press) ==
    IF press
    THEN IF k \in Range(ks) \/ Len(ks) >= KeySlots THEN ks ELSE Append(ks, k)
    ELSE IF k \in Range(ks)
         THEN DropAt(ks, CHOOSE i \in DOMAIN ks :
                             ks[i] = k /\ \A j \in 1 .. i - 1 : ks[j] # k)
         ELSE ks

\* writeRaw copies at most KeySlots usages into the report.
RawReport(r) == KbdReport(r.mods, IF Len(r.keys) > KeySlots
                                  THEN SubSeq(r.keys, 1, KeySlots) ELSE r.keys)
=============================================================================
