----------------------------- MODULE HidTyping -----------------------------
(***************************************************************************)
(* What a target makes of typed text: Hid with two history variables, the  *)
(* strokes that Type was asked for and the strokes the target recognises.  *)
(* A target sees a stroke when a key appears in a report that was not in   *)
(* the report before it, so a letter typed twice needs a release between.  *)
(*                                                                         *)
(* The environment is the favourable one: the target stays plugged in, the *)
(* service runs on, one goroutine at a time has a text to type, and the    *)
(* sessions move the mouse, connect and leave but press no keys.           *)
(***************************************************************************)
EXTENDS Hid

CONSTANT MaxAsked   \* most strokes asked for in a behaviour (bound)

VARIABLES asked, strokes

typingVars == <<vars, asked, strokes>>

\* Scripts started in this step.
Started == {t \in Tasks : Len(task'[t]) > Len(task[t])}

OneAtATime == \A t, u \in Tasks : ~Idle(t) /\ ~Idle(u) => t = u

\* Each stroke has a key, and as many as a report has room for.
IsText(s) == \A j \in DOMAIN s : Len(s[j].keys) \in 1 .. KeySlots

Favourable ==
    /\ attached' /\ fresh' /\ mods' = {} /\ keys' = <<>>
    /\ OneAtATime'
    /\ \A t \in Started : IsText(task'[t])

\* What a target makes of keys that go down together.
Stroke(ms, ks) == [mods |-> ms, keys |-> ks]

\* The stroke a target recognises when report r follows report s.
StrokeOf(s, r) ==
    IF Range(r.keys) \subseteq Range(s.keys) THEN <<>>
    ELSE <<Stroke(r.mods, Range(r.keys) \ Range(s.keys))>>

\* The strokes of a script.
Strokes(s) == [j \in DOMAIN s |-> Stroke(s[j].mods, Range(s[j].keys))]

TypingInit == Init /\ attached /\ asked = <<>> /\ strokes = <<>>

TypingNext ==
    /\ Next
    /\ Favourable
    /\ asked' = IF Started = {} THEN asked
                ELSE asked \o Strokes(task'[CHOOSE t \in Started : TRUE])
    /\ Len(asked') <= MaxAsked
    /\ strokes' = strokes \o StrokeOf(seen["kbd"], seen'["kbd"])

TypingSpec == TypingInit /\ [][TypingNext]_typingVars

\* Everything has been typed and read.
AllTyped ==
    /\ \A t \in Tasks : Idle(t)
    /\ out["kbd"] = None
    /\ wire["kbd"] = None

\* With one paste or macro at a time, the target recognises exactly the text,
\* in order and with its modifiers, whatever the mouse does meanwhile and
\* however often sessions come and go and reset the keyboard (Type).
TypedAsAsked ==
    /\ Len(strokes) <= Len(asked)
    /\ strokes = SubSeq(asked, 1, Len(strokes))
    /\ AllTyped => strokes = asked
=============================================================================
