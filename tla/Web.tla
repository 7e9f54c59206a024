-------------------------------- MODULE Web --------------------------------
(***************************************************************************)
(* The keyboard from the user's finger to the target: the web page         *)
(* (controlplane/web/index.html), the WebSocket that carries its messages, *)
(* and the control plane, which is here what HidPromise says of it.        *)
(*                                                                         *)
(* The page sends only while its socket is open and forgets what it could  *)
(* not send; it connects again a second after a close.  A connection the   *)
(* page has given up still delivers what was under way, while the next one *)
(* is already in use.                                                      *)
(*                                                                         *)
(* Left out: the mouse; other browsers; the type box, which sends a script *)
(* like a shortcut does.  External: the browser's key and focus events and *)
(* the network, which may drop a connection with the end of what it        *)
(* carries, seen by the page first or by the control plane first.          *)
(***************************************************************************)
EXTENDS HidPromise, SequencesExt

CONSTANTS
    MaxInFlight,  \* most messages under way in a connection (bound)
    MaxBreaks,    \* most lost connections and restarts in a behaviour (bound)
    NoConn        \* the page has no open socket

ASSUME WebAssumption ==
    /\ MaxInFlight \in Nat \ {0} /\ MaxBreaks \in Nat
    /\ NoConn \notin Conns

VARIABLES
    finger,     \* keys the user holds down
    focus,      \* "page", "field" (an input of the page) or "away"
    capturing,  \* the page's keyboard capture is on
    held,       \* the page's set of held keys
    ws,         \* the connection of the page's open socket, or NoConn
    chan,       \* per connection, the messages under way
    breaks      \* connections lost and restarts so far

pageVars == <<finger, focus, capturing, held>>
netVars == <<ws, chan, breaks>>
vars == <<promiseVars, pageVars, netVars>>

Codes == Mods \cup Keys

Down(k) == [t |-> "k", code |-> k, down |-> TRUE]
Up(k) == [t |-> "k", code |-> k, down |-> FALSE]
Chord(s) == [t |-> "chord", script |-> s]

Messages == {Down(k) : k \in Codes} \cup {Up(k) : k \in Codes}
            \cup {Chord(s) : s \in Scripts}

TypeOK ==
    /\ conn \in [Conns -> {"off", "hello", "open", "bye"}]
    /\ mods \subseteq Mods /\ keys \in Seq(Keys) /\ Len(keys) <= KeySlots
    /\ finger \subseteq Codes
    /\ focus \in {"page", "field", "away"}
    /\ capturing \in BOOLEAN
    /\ held \subseteq Codes
    /\ focus = "away" => held = {} /\ ~capturing
    /\ ws \in Conns \cup {NoConn}
    /\ \A c \in Conns : /\ chan[c] \in Seq(Messages)
                        /\ Len(chan[c]) <= MaxInFlight
                        /\ conn[c] \in {"off", "bye"} => chan[c] = <<>>
    /\ breaks \in 0 .. MaxBreaks

Init ==
    /\ PromiseInit /\ attached
    /\ finger = {} /\ focus = "page" /\ capturing = FALSE /\ held = {}
    /\ ws = NoConn
    /\ chan = [c \in Conns |-> <<>>]
    /\ breaks = 0

-----------------------------------------------------------------------------
(* The page.                                                               *)

\* send: nothing while the socket is not open; what goes to a connection the
\* control plane has ended is lost.
Send(msgs) ==
    IF ws = NoConn THEN chan' = chan
    ELSE IF conn[ws] \in {"off", "bye"} THEN chan' = chan
    ELSE /\ Len(chan[ws]) + Len(msgs) <= MaxInFlight
         /\ chan' = [chan EXCEPT ![ws] = @ \o msgs]

PageStep == UNCHANGED <<promiseVars, ws, breaks>>

Listening == capturing /\ focus = "page"

KeyDown(k) ==
    /\ k \notin finger
    /\ finger' = finger \cup {k}
    /\ IF Listening THEN held' = held \cup {k} /\ Send(<<Down(k)>>)
                    ELSE UNCHANGED <<held, chan>>
    /\ UNCHANGED <<focus, capturing>> /\ PageStep

KeyUp(k) ==
    /\ k \in finger
    /\ finger' = finger \ {k}
    /\ IF Listening THEN held' = held \ {k} /\ Send(<<Up(k)>>)
                    ELSE UNCHANGED <<held, chan>>
    /\ UNCHANGED <<focus, capturing>> /\ PageStep

\* The capture button; a click takes the focus from an input.
ToggleCapture ==
    /\ focus # "away"
    /\ capturing' = ~capturing
    /\ focus' = "page"
    /\ UNCHANGED <<finger, held, chan>> /\ PageStep

\* The user clicks into the page or into one of its inputs.
MoveFocus(f) ==
    /\ f \in {"page", "field"} \ {focus}
    /\ focus' = f
    /\ UNCHANGED <<finger, capturing, held, chan>> /\ PageStep

\* Mutant: blur does not release.
BlurKeepsKeys ==
    /\ focus # "away"
    /\ focus' = "away"
    /\ capturing' = FALSE
    /\ held' = {}
    /\ UNCHANGED <<finger, chan>> /\ PageStep

\* The window loses the focus: all held keys are released.
Blur ==
    /\ focus # "away"
    /\ focus' = "away"
    /\ capturing' = FALSE
    /\ Send(SetToSeq({Up(k) : k \in held}))
    /\ held' = {}
    /\ UNCHANGED finger /\ PageStep

\* A shortcut button.
Shortcut(s) ==
    /\ focus # "away"
    /\ focus' = "page"
    /\ Send(<<Chord(s)>>)
    /\ UNCHANGED <<finger, capturing, held>> /\ PageStep

Page ==
    \/ \E k \in Codes : KeyDown(k) \/ KeyUp(k)
    \/ ToggleCapture \/ Blur
    \/ \E f \in {"page", "field"} : MoveFocus(f)
    \/ \E s \in Scripts : Shortcut(s)

-----------------------------------------------------------------------------
(* The connections.                                                        *)

\* connect and onopen.
Open(c) ==
    /\ ws = NoConn
    /\ chan[c] = <<>>
    /\ Connect(c)
    /\ ws' = c
    /\ UNCHANGED <<pageVars, chan, breaks>>

\* The page sees the connection break; what is under way may arrive in part.
BreaksForPage ==
    /\ breaks < MaxBreaks
    /\ ws # NoConn
    /\ \E n \in 0 .. Len(chan[ws]) : chan' = [chan EXCEPT ![ws] = SubSeq(@, 1, n)]
    /\ ws' = NoConn
    /\ breaks' = breaks + 1
    /\ UNCHANGED <<promiseVars, pageVars>>

\* The control plane sees it break.
BreaksForServer(c) ==
    /\ breaks < MaxBreaks
    /\ Disconnect(c)
    /\ chan' = [chan EXCEPT ![c] = <<>>]
    /\ breaks' = breaks + 1
    /\ UNCHANGED <<pageVars, ws>>

\* onclose: the control plane has ended the connection.
Close ==
    /\ ws # NoConn
    /\ conn[ws] \in {"off", "bye"}
    /\ ws' = NoConn
    /\ UNCHANGED <<promiseVars, pageVars, chan, breaks>>

\* Mutant: the read loop ends before all of it is read.
EndOfStreamEarly(c) ==
    /\ ws # c
    /\ Disconnect(c)
    /\ UNCHANGED <<pageVars, netVars>>

\* The control plane reads the end of a connection the page has given up.
EndOfStream(c) ==
    /\ ws # c
    /\ chan[c] = <<>>
    /\ Disconnect(c)
    /\ UNCHANGED <<pageVars, netVars>>

\* serveInput's read loop: the next message is handled.  A chord starts a
\* goroutine; with all of Tasks busy it waits here.
Handle(c) ==
    /\ chan[c] # <<>>
    /\ LET m == Head(chan[c])
       IN  CASE m.t = "k" /\ m.code \in Mods -> ModKey(c, m.code, m.down)
             [] m.t = "k" /\ m.code \in Keys -> Key(c, m.code, m.down)
             [] OTHER -> conn[c] = "open" /\ \E t \in Tasks : Start(t, m.script)
    /\ chan' = [chan EXCEPT ![c] = Tail(@)]
    /\ UNCHANGED <<pageVars, ws, breaks>>

Serve(c) == Reset(c) /\ UNCHANGED <<pageVars, netVars>>

Type(t) == (Press(t) \/ Release(t)) /\ UNCHANGED <<pageVars, netVars>>

Deliver(d) == said[d] # got[d] /\ Take(d) /\ UNCHANGED <<pageVars, netVars>>

ServiceRestarts ==
    /\ breaks < MaxBreaks
    /\ Restart
    /\ chan' = [c \in Conns |-> <<>>]
    /\ breaks' = breaks + 1
    /\ UNCHANGED <<pageVars, ws>>

Next ==
    \/ Page
    \/ \E c \in Conns : \/ Open(c) \/ BreaksForServer(c) \/ EndOfStream(c)
                        \/ Handle(c) \/ Serve(c)
    \/ BreaksForPage \/ Close
    \/ \E t \in Tasks : Type(t)
    \/ \E d \in Devices : Deliver(d)
    \/ ServiceRestarts

Spec == Init /\ [][Next]_vars

\* The page connects again while it is open, each connection is served, a
\* dead one is noticed in the end (TCP keep-alive), goroutines go on and the
\* target polls (Hid: TargetComesToRest).  The user need do nothing.
Fairness ==
    /\ WF_vars(\E c \in Conns : Open(c))
    /\ WF_vars(Close)
    /\ \A c \in Conns : WF_vars(Handle(c)) /\ WF_vars(Serve(c)) /\ WF_vars(EndOfStream(c))
    /\ \A t \in Tasks : WF_vars(Type(t))
    /\ \A d \in Devices : WF_vars(Deliver(d))

FairSpec == Spec /\ Fairness

-----------------------------------------------------------------------------
\* The page's connection is the only one, and all that was sent has arrived.
Calm ==
    /\ ws # NoConn /\ conn[ws] = "open"
    /\ \A c \in Conns \ {ws} : conn[c] = "off"
    /\ \A c \in Conns : chan[c] = <<>>
    /\ \A t \in Tasks : task[t] = <<>> /\ ~down[t]
    /\ \A d \in Devices : said[d] = got[d]

\* Whatever was lost with a connection, came late over an old one or was
\* forgotten by a restart: once it is calm, the target holds no key down that
\* the page does not know of and would not release when it loses the focus
\* ("track held keys so we can release them if focus is lost", index.html;
\* serveInput's two Resets).
PageKnowsHeldKeys == Calm => Pressed("kbd", got["kbd"]) \subseteq held

\* A user who turns to another window for good leaves no key down on the
\* target, through all reconnections and restarts of the service, as long as
\* the page stays open (blur, connect, serveInput).
AwayComesToRest ==
    <>[](focus = "away") => <>[](Pressed("kbd", got["kbd"]) = {})

\* "track held keys so we can release them if focus is lost" (index.html): a
\* key the user has let go of is not held once the focus has left the page for
\* one of its inputs or for another window.
FocusLossReleases ==
    Calm /\ focus # "page" => Pressed("kbd", got["kbd"]) \subseteq finger
=============================================================================
