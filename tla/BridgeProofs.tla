---------------------------- MODULE BridgeProofs ----------------------------
(***************************************************************************)
(* Theorems about Bridge, for every set of modes and pixel clocks.         *)
(***************************************************************************)
EXTENDS Bridge, TLAPS

\* The causes that the service routine has yet to handle, by place: ddc is last.
SeenInv ==
    /\ isr.at = "sys" => isr.seen = {"ddc"}
    /\ isr.at \in {"read5v", "edid", "plug", "arm", "disarm", "cancel", "low", "zero"}
          => isr.seen = {}

\* The routine has read that the source is gone.
Leaving == isr.at \in {"disarm", "cancel", "low", "zero"}

\* What the source did since the routine looked is latched.
SourceInv ==
    /\ src # Silent => power
    /\ Leaving => /\ power => "ddc" \in raw
                  /\ src # Silent => "de" \in raw
    /\ isr.torn /\ src # Silent => "de" \in raw

\* Hot-plug of a source that is there and has something to read is up, or
\* someone is on the way to raise it.
OfferInv ==
    power /\ blocks =>
        \/ hpd \/ due \/ "ddc" \in raw
        \/ isr.at \in {"read5v", "edid", "plug"}
        \/ call.at \in {"low", "write", "read5v", "plug"}

\* With the interrupts masked hot-plug is down, or about to go down, or the
\* interrupts are about to be unmasked.
ArmedInv ==
    ~armed => /\ due => isr.at \in {"cancel", "arm"} \/ call.at = "arm"
              /\ hpd => isr.at \in {"cancel", "low", "arm"} \/ call.at = "arm"

\* A picture that is let through although it is another than the one set has
\* its interrupt latched or seen, or someone is on the way to mute it.
StopInv ==
    moved /\ src \in Modes \ {dv} /\ open => ToBeStopped \/ call.at = "mute"

BridgeInv == TypeOK /\ SeenInv /\ SourceInv /\ OfferInv /\ ArmedInv /\ StopInv

LEMMA InitInv == Init => BridgeInv
<1> SUFFICES ASSUME Init PROVE BridgeInv
  OBVIOUS
<1>1. TypeOK
  BY BridgeAssumption DEF Init, TypeOK, IsrPlaces, CallPlaces
<1>2. SeenInv /\ SourceInv /\ OfferInv /\ ArmedInv /\ StopInv
  BY DEF Init, SeenInv, Leaving, SourceInv, OfferInv, ArmedInv, StopInv, ToBeStopped
<1>3. QED
  BY <1>1, <1>2 DEF BridgeInv

\* The source.
LEMMA SourceKeeps ==
    ASSUME BridgeInv, Source
    PROVE  BridgeInv'
<1> USE DEF stateVars, Tears
<1>1. TypeOK'
  BY DEF BridgeInv, TypeOK, Source, PowerChanges, SourceChanges, Causes
<1>2. SeenInv'
  BY DEF BridgeInv, TypeOK, Source, PowerChanges, SourceChanges, SeenInv
<1>3. SourceInv'
  BY DEF BridgeInv, TypeOK, Source, PowerChanges, SourceChanges, SourceInv, Leaving
<1>4. OfferInv'
  BY DEF BridgeInv, TypeOK, Source, PowerChanges, SourceChanges, OfferInv
<1>5. ArmedInv'
  BY DEF BridgeInv, TypeOK, Source, PowerChanges, SourceChanges, ArmedInv
<1>6. StopInv'
  BY BridgeAssumption DEF BridgeInv, TypeOK, Source, PowerChanges, SourceChanges, StopInv, ToBeStopped
<1>7. QED
  BY <1>1, <1>2, <1>3, <1>4, <1>5, <1>6 DEF BridgeInv

\* The hot-plug work.
LEMMA HotplugKeeps ==
    ASSUME BridgeInv, Hotplug
    PROVE  BridgeInv'
<1>1. TypeOK'
  BY DEF BridgeInv, TypeOK, Hotplug
<1>2. SeenInv' /\ SourceInv' /\ StopInv'
  BY DEF BridgeInv, Hotplug, SeenInv, SourceInv, Leaving, StopInv, ToBeStopped
<1>3. OfferInv' /\ ArmedInv'
  BY DEF BridgeInv, Hotplug, OfferInv, ArmedInv
<1>4. QED
  BY <1>1, <1>2, <1>3 DEF BridgeInv

\* A call begins.
LEMMA UserKeeps ==
    ASSUME BridgeInv, User
    PROVE  BridgeInv'
BY DEF BridgeInv, TypeOK, User, SEdid, SDvTimings, SStreamOn, SStreamOff, Call, CallAt, CallKeeps,
       chipVars, stateVars, CallPlaces,
       SeenInv, SourceInv, Leaving, OfferInv, ArmedInv, StopInv, ToBeStopped

-----------------------------------------------------------------------------
(* The calls of user space.                                                *)

LEMMA CallPlace ==
    ASSUME TypeOK, NEW p \in CallPlaces
    PROVE  /\ CallGo(p) => /\ call' \in [at : CallPlaces, arg : Modes \cup {NoMode}]
                           /\ call'.at = p
           /\ Return => /\ call' \in [at : CallPlaces, arg : Modes \cup {NoMode}]
                        /\ call'.at = "idle"
BY DEF TypeOK, CallGo, Return, CallPlaces

LEMMA CallTyped ==
    ASSUME TypeOK, CallStep
    PROVE  TypeOK'
<1> USE CallPlace DEF CallPlaces, CallAt, CallKeeps, chipVars, stateVars
<1>1. CASE EdidCancel
  <2>1. call' \in [at : CallPlaces, arg : Modes \cup {NoMode}]
    BY <1>1 DEF EdidCancel
  <2>2. due' \in BOOLEAN
    BY <1>1 DEF EdidCancel
  <2>3. QED
    BY <1>1, <2>1, <2>2 DEF TypeOK, EdidCancel
<1>2. CASE EdidLow
  <2>1. call' \in [at : CallPlaces, arg : Modes \cup {NoMode}]
    BY <1>2 DEF EdidLow
  <2>2. hpd' \in BOOLEAN
    BY <1>2 DEF EdidLow
  <2>3. QED
    BY <1>2, <2>1, <2>2 DEF TypeOK, EdidLow
<1>3. CASE EdidWrite
  BY <1>3 DEF TypeOK, EdidWrite
<1>4. CASE EdidRead5v
  BY <1>4 DEF TypeOK, EdidRead5v
<1>5. CASE EdidPlug
  BY <1>5 DEF TypeOK, EdidPlug
<1>6. CASE EdidArm
  BY <1>6 DEF TypeOK, EdidArm
<1>7. CASE TimingsMatch
  BY <1>7 DEF TypeOK, TimingsMatch
<1>8. CASE TimingsSet
  BY <1>8 DEF TypeOK, TimingsSet
<1>9. CASE StreamMute
  <2>1. call' \in [at : CallPlaces, arg : Modes \cup {NoMode}]
    BY <1>9 DEF StreamMute
  <2>2. open' \in BOOLEAN
    BY <1>9 DEF StreamMute
  <2>3. moved' \in BOOLEAN
    BY <1>9 DEF TypeOK, StreamMute, ToBeStopped
  <2>4. QED
    BY <1>9, <2>1, <2>2, <2>3 DEF TypeOK, StreamMute
<1>10. CASE StreamBuf
  <2>1. call' \in [at : CallPlaces, arg : Modes \cup {NoMode}]
    BY <1>10 DEF StreamBuf
  <2>2. buf' \in BOOLEAN
    BY <1>10 DEF StreamBuf
  <2>3. QED
    BY <1>10, <2>1, <2>2 DEF TypeOK, StreamBuf
<1>11. QED
  BY <1>1, <1>2, <1>3, <1>4, <1>5, <1>6, <1>7, <1>8, <1>9, <1>10 DEF CallStep

LEMMA CallKeepsInv ==
    ASSUME BridgeInv, CallStep
    PROVE  BridgeInv'
<1> USE CallPlace DEF CallPlaces, CallAt, CallKeeps, chipVars, stateVars
<1>1. TypeOK /\ TypeOK'
  BY CallTyped DEF BridgeInv
<1>2. CASE EdidCancel
  BY <1>1, <1>2 DEF BridgeInv, EdidCancel, SeenInv, SourceInv, Leaving, OfferInv, ArmedInv, StopInv, ToBeStopped
<1>3. CASE EdidLow
  BY <1>1, <1>3 DEF BridgeInv, EdidLow, SeenInv, SourceInv, Leaving, OfferInv, ArmedInv, StopInv, ToBeStopped
<1>4. CASE EdidWrite
  BY <1>1, <1>4 DEF BridgeInv, EdidWrite, SeenInv, SourceInv, Leaving, OfferInv, ArmedInv, StopInv, ToBeStopped
<1>5. CASE EdidRead5v
  BY <1>1, <1>5 DEF BridgeInv, EdidRead5v, SeenInv, SourceInv, Leaving, OfferInv, ArmedInv, StopInv, ToBeStopped
<1>6. CASE EdidPlug
  BY <1>1, <1>6 DEF BridgeInv, EdidPlug, SeenInv, SourceInv, Leaving, OfferInv, ArmedInv, StopInv, ToBeStopped
<1>7. CASE EdidArm
  BY <1>1, <1>7 DEF BridgeInv, EdidArm, SeenInv, SourceInv, Leaving, OfferInv, ArmedInv, StopInv, ToBeStopped
<1>8. CASE TimingsMatch
  BY <1>1, <1>8 DEF BridgeInv, TimingsMatch, SeenInv, SourceInv, Leaving, OfferInv, ArmedInv, StopInv, ToBeStopped
<1>9. CASE TimingsSet
  BY <1>1, <1>9 DEF BridgeInv, TimingsSet, SeenInv, SourceInv, Leaving, OfferInv, ArmedInv, StopInv, ToBeStopped
<1>10. CASE StreamMute
  BY <1>1, <1>10 DEF BridgeInv, StreamMute, SeenInv, SourceInv, Leaving, OfferInv, ArmedInv, StopInv, ToBeStopped
<1>11. CASE StreamBuf
  BY <1>1, <1>11 DEF BridgeInv, StreamBuf, SeenInv, SourceInv, Leaving, OfferInv, ArmedInv, StopInv, ToBeStopped
<1>12. QED
  BY <1>2, <1>3, <1>4, <1>5, <1>6, <1>7, <1>8, <1>9, <1>10, <1>11 DEF CallStep

-----------------------------------------------------------------------------
(* The interrupt service routine.                                          *)

LEMMA NextHandler ==
    ASSUME NEW S \in SUBSET Causes
    PROVE  /\ HandlerOf(S) \in {"misc", "clk", "sys", "idle"}
           /\ HandlerOf(S) = "sys" => S = {"ddc"}
           /\ HandlerOf(S) = "idle" => S = {}
BY DEF HandlerOf, Causes

LEMMA IsrPlace ==
    ASSUME TypeOK, NEW p \in IsrPlaces, IsrGo(p)
    PROVE  /\ isr' \in [at : IsrPlaces, seen : SUBSET Causes, torn : BOOLEAN]
           /\ isr'.at = p /\ isr'.seen = isr.seen /\ isr'.torn = FALSE
BY DEF TypeOK, IsrGo

\* The routine goes on with the next cause that it has seen.
LEMMA IsrGoesOn ==
    ASSUME TypeOK, IsrGoOn
    PROVE  /\ isr' \in [at : IsrPlaces, seen : SUBSET Causes, torn : BOOLEAN]
           /\ isr'.at \in {"misc", "clk", "sys", "idle"} /\ isr'.torn = FALSE
           /\ isr'.seen = isr.seen
           /\ isr'.at = "sys" => isr'.seen = {"ddc"}
           /\ isr'.at = "idle" => isr'.seen = {}
<1>1. isr.seen \in SUBSET Causes
  BY DEF TypeOK
<1>2. HandlerOf(isr.seen) \in IsrPlaces
  BY <1>1, NextHandler DEF IsrPlaces
<1>3. IsrGo(HandlerOf(isr.seen))
  BY DEF IsrGoOn
<1>4. /\ isr' \in [at : IsrPlaces, seen : SUBSET Causes, torn : BOOLEAN]
      /\ isr'.at = HandlerOf(isr.seen) /\ isr'.seen = isr.seen /\ isr'.torn = FALSE
  BY <1>2, <1>3, IsrPlace
<1>5. QED
  BY <1>1, <1>4, NextHandler

\* A handler clears its cause.
LEMMA CauseCleared ==
    ASSUME TypeOK, NEW c \in Causes, NEW p \in IsrPlaces, Handle(c, p)
    PROVE  /\ isr' \in [at : IsrPlaces, seen : SUBSET Causes, torn : BOOLEAN]
           /\ isr'.at = p /\ isr'.seen = isr.seen \ {c} /\ isr'.torn = FALSE
           /\ raw' = raw \ {c} /\ raw' \subseteq Causes
           /\ UNCHANGED <<power, src, armed, hpd, open, buf, blocks, dv, due, call, moved>>
BY DEF TypeOK, Handle, IsrKeeps, stateVars

\* What a step of the routine has to keep typed.
LEMMA IsrStepTyped ==
    ASSUME TypeOK, isr' \in [at : IsrPlaces, seen : SUBSET Causes, torn : BOOLEAN],
           isr'.at = "idle" => isr'.seen = {}, isr'.torn = FALSE,
           raw' = raw \/ raw' \subseteq Causes,
           armed' = armed \/ armed' \in BOOLEAN, hpd' = hpd \/ hpd' \in BOOLEAN,
           open' = open \/ open' \in BOOLEAN, buf' = buf \/ buf' \in BOOLEAN,
           due' = due \/ due' \in BOOLEAN, dv' = dv \/ dv' = NoMode,
           UNCHANGED <<power, src, blocks, call, moved>>
    PROVE  TypeOK'
BY DEF TypeOK

LEMMA IsrTyped ==
    ASSUME BridgeInv, Isr
    PROVE  TypeOK'
<1> USE DEF IsrAt, IsrKeeps, chipVars, stateVars
<1>1. TypeOK /\ SeenInv
  BY DEF BridgeInv
<1>2. CASE IsrBegin
  <2>1. Visible \in SUBSET Causes
    BY <1>1 DEF TypeOK, Visible, Causes
  <2>2. isr' \in [at : IsrPlaces, seen : SUBSET Causes, torn : BOOLEAN] /\ isr'.torn = FALSE
        /\ isr'.seen = Visible /\ isr'.at = HandlerOf(Visible)
    BY <1>2, <2>1, NextHandler DEF IsrBegin, IsrPlaces
  <2>3. isr'.at # "idle"
    BY <1>2, <2>1, <2>2, NextHandler DEF IsrBegin
  <2>4. QED
    BY <1>2, <1>1, <2>2, <2>3, IsrStepTyped DEF IsrBegin
<1>3. CASE IsrMisc
  <2>1. Handle("sync", "decide") /\ "sync" \in Causes /\ "decide" \in IsrPlaces
    BY <1>3 DEF IsrMisc, Causes, IsrPlaces
  <2>2. QED
    BY <1>1, <2>1, CauseCleared, IsrStepTyped
<1>4. CASE IsrClk
  <2>1. isr.seen \ {"de"} \in SUBSET Causes /\ "de" \in Causes
    BY <1>1 DEF TypeOK, Causes
  <2>2. PICK p \in {"decide", HandlerOf(isr.seen \ {"de"})} : Handle("de", p)
    BY <1>4 DEF IsrClk
  <2>3. p \in IsrPlaces /\ (p = "idle" => isr.seen \ {"de"} = {})
    BY <2>1, NextHandler DEF IsrPlaces
  <2>4. QED
    BY <1>1, <2>1, <2>2, <2>3, CauseCleared, IsrStepTyped
<1>5. CASE IsrDecide
  <2>1. PICK p \in {"mute", "compare"} : IsrGo(p)
    BY <1>5 DEF IsrDecide
  <2>2. p \in IsrPlaces
    BY DEF IsrPlaces
  <2>3. isr' \in [at : IsrPlaces, seen : SUBSET Causes, torn : BOOLEAN]
        /\ isr'.at = p /\ isr'.seen = isr.seen /\ isr'.torn = FALSE
    BY <1>1, <2>1, <2>2, IsrPlace
  <2>4. p = "idle" => isr.seen = {}
    BY <1>5, <1>1 DEF SeenInv, IsrDecide
  <2>5. QED
    BY <1>5, <1>1, <2>3, <2>4, IsrStepTyped DEF IsrDecide
<1>6. CASE IsrCompare
  <2>1. CASE IsrGo("mute")
    <3>1. "mute" \in IsrPlaces
      BY DEF IsrPlaces
    <3>2. isr' \in [at : IsrPlaces, seen : SUBSET Causes, torn : BOOLEAN]
          /\ isr'.at = "mute" /\ isr'.torn = FALSE
      BY <1>1, <2>1, <3>1, IsrPlace
    <3>3. QED
      BY <1>6, <1>1, <3>2, IsrStepTyped DEF IsrCompare
  <2>2. CASE IsrGoOn
    BY <1>6, <1>1, <2>2, IsrGoesOn, IsrStepTyped DEF IsrCompare
  <2>3. QED
    BY <1>6, <2>1, <2>2 DEF IsrCompare
<1>7. CASE IsrMute
  <2>1. PICK p \in {"unbuf"} : IsrGo(p)
    BY <1>7 DEF IsrMute
  <2>2. p \in IsrPlaces
    BY DEF IsrPlaces
  <2>3. isr' \in [at : IsrPlaces, seen : SUBSET Causes, torn : BOOLEAN]
        /\ isr'.at = p /\ isr'.seen = isr.seen /\ isr'.torn = FALSE
    BY <1>1, <2>1, <2>2, IsrPlace
  <2>4. p = "idle" => isr.seen = {}
    BY <1>7, <1>1 DEF SeenInv, IsrMute
  <2>5. QED
    BY <1>7, <1>1, <2>3, <2>4, IsrStepTyped DEF IsrMute
<1>8. CASE IsrUnbuf
  <2>1. buf' \in BOOLEAN
    BY <1>8 DEF IsrUnbuf
  <2>2. QED
    BY <1>8, <1>1, <2>1, IsrGoesOn, IsrStepTyped DEF IsrUnbuf
<1>9. CASE IsrSys
  <2>1. Handle("ddc", "read5v") /\ "ddc" \in Causes /\ "read5v" \in IsrPlaces
    BY <1>9 DEF IsrSys, Causes, IsrPlaces
  <2>2. QED
    BY <1>1, <2>1, CauseCleared, IsrStepTyped
<1>10. CASE IsrRead5v
  <2>1. PICK p \in {"edid", "disarm"} : IsrGo(p)
    BY <1>10 DEF IsrRead5v
  <2>2. p \in IsrPlaces
    BY DEF IsrPlaces
  <2>3. isr' \in [at : IsrPlaces, seen : SUBSET Causes, torn : BOOLEAN]
        /\ isr'.at = p /\ isr'.seen = isr.seen /\ isr'.torn = FALSE
    BY <1>1, <2>1, <2>2, IsrPlace
  <2>4. p = "idle" => isr.seen = {}
    BY <1>10, <1>1 DEF SeenInv, IsrRead5v
  <2>5. QED
    BY <1>10, <1>1, <2>3, <2>4, IsrStepTyped DEF IsrRead5v
<1>11. CASE IsrEdid
  <2>1. PICK p \in {"plug", "idle"} : IsrGo(p)
    BY <1>11 DEF IsrEdid
  <2>2. p \in IsrPlaces
    BY DEF IsrPlaces
  <2>3. isr' \in [at : IsrPlaces, seen : SUBSET Causes, torn : BOOLEAN]
        /\ isr'.at = p /\ isr'.seen = isr.seen /\ isr'.torn = FALSE
    BY <1>1, <2>1, <2>2, IsrPlace
  <2>4. p = "idle" => isr.seen = {}
    BY <1>11, <1>1 DEF SeenInv, IsrEdid
  <2>5. QED
    BY <1>11, <1>1, <2>3, <2>4, IsrStepTyped DEF IsrEdid
<1>12. CASE IsrPlug
  <2>1. PICK p \in {"arm"} : IsrGo(p)
    BY <1>12 DEF IsrPlug
  <2>2. p \in IsrPlaces
    BY DEF IsrPlaces
  <2>3. isr' \in [at : IsrPlaces, seen : SUBSET Causes, torn : BOOLEAN]
        /\ isr'.at = p /\ isr'.seen = isr.seen /\ isr'.torn = FALSE
    BY <1>1, <2>1, <2>2, IsrPlace
  <2>4. p = "idle" => isr.seen = {}
    BY <1>12, <1>1 DEF SeenInv, IsrPlug
  <2>5. QED
    BY <1>12, <1>1, <2>3, <2>4, IsrStepTyped DEF IsrPlug
<1>13. CASE IsrArm
  <2>1. PICK p \in {"idle", "cancel"} : IsrGo(p)
    BY <1>13 DEF IsrArm
  <2>2. p \in IsrPlaces
    BY DEF IsrPlaces
  <2>3. isr' \in [at : IsrPlaces, seen : SUBSET Causes, torn : BOOLEAN]
        /\ isr'.at = p /\ isr'.seen = isr.seen /\ isr'.torn = FALSE
    BY <1>1, <2>1, <2>2, IsrPlace
  <2>4. p = "idle" => isr.seen = {}
    BY <1>13, <1>1 DEF SeenInv, IsrArm
  <2>5. QED
    BY <1>13, <1>1, <2>3, <2>4, IsrStepTyped DEF IsrArm
<1>14. CASE IsrCancel
  <2>1. PICK p \in {"low"} : IsrGo(p)
    BY <1>14 DEF IsrCancel
  <2>2. p \in IsrPlaces
    BY DEF IsrPlaces
  <2>3. isr' \in [at : IsrPlaces, seen : SUBSET Causes, torn : BOOLEAN]
        /\ isr'.at = p /\ isr'.seen = isr.seen /\ isr'.torn = FALSE
    BY <1>1, <2>1, <2>2, IsrPlace
  <2>4. p = "idle" => isr.seen = {}
    BY <1>14, <1>1 DEF SeenInv, IsrCancel
  <2>5. QED
    BY <1>14, <1>1, <2>3, <2>4, IsrStepTyped DEF IsrCancel
<1>15. CASE IsrLow
  <2>1. PICK p \in {"zero"} : IsrGo(p)
    BY <1>15 DEF IsrLow
  <2>2. p \in IsrPlaces
    BY DEF IsrPlaces
  <2>3. isr' \in [at : IsrPlaces, seen : SUBSET Causes, torn : BOOLEAN]
        /\ isr'.at = p /\ isr'.seen = isr.seen /\ isr'.torn = FALSE
    BY <1>1, <2>1, <2>2, IsrPlace
  <2>4. p = "idle" => isr.seen = {}
    BY <1>15, <1>1 DEF SeenInv, IsrLow
  <2>5. QED
    BY <1>15, <1>1, <2>3, <2>4, IsrStepTyped DEF IsrLow
<1>16. CASE IsrZero
  <2>1. PICK p \in {"idle"} : IsrGo(p)
    BY <1>16 DEF IsrZero
  <2>2. p \in IsrPlaces
    BY DEF IsrPlaces
  <2>3. isr' \in [at : IsrPlaces, seen : SUBSET Causes, torn : BOOLEAN]
        /\ isr'.at = p /\ isr'.seen = isr.seen /\ isr'.torn = FALSE
    BY <1>1, <2>1, <2>2, IsrPlace
  <2>4. p = "idle" => isr.seen = {}
    BY <1>16, <1>1 DEF SeenInv, IsrZero
  <2>5. QED
    BY <1>16, <1>1, <2>3, <2>4, IsrStepTyped DEF IsrZero
<1>17. QED
  BY <1>2, <1>3, <1>4, <1>5, <1>6, <1>7, <1>8, <1>9, <1>10, <1>11, <1>12, <1>13, <1>14, <1>15, <1>16 DEF Isr

LEMMA IsrKeepsInv ==
    ASSUME BridgeInv, Isr
    PROVE  BridgeInv'
<1> USE DEF IsrAt, IsrKeeps, chipVars, stateVars
<1>1. TypeOK /\ TypeOK' /\ isr.seen \in SUBSET Causes
  BY IsrTyped DEF BridgeInv, TypeOK
<1> DEFINE Rest == SeenInv /\ SourceInv /\ OfferInv /\ ArmedInv /\ StopInv
<1>2. Rest
  BY DEF BridgeInv
<1> HIDE DEF Rest
<1>3. ASSUME IsrBegin PROVE Rest'
  <2>1. Visible \in SUBSET Causes
    BY <1>1 DEF TypeOK, Visible, Causes
  <2>2. HandlerOf(Visible) \in {"misc", "clk", "sys", "idle"}
        /\ (HandlerOf(Visible) = "sys" => Visible = {"ddc"})
    BY <2>1, NextHandler
  <2>3. QED
    BY <1>1, <1>3, <1>2, <2>2 DEF TypeOK, IsrBegin, Rest, SeenInv, SourceInv, Leaving, OfferInv, ArmedInv, StopInv, ToBeStopped
<1>4. ASSUME IsrMisc PROVE Rest'
  <2>1. Handle("sync", "decide") /\ "sync" \in Causes /\ "decide" \in IsrPlaces
    BY <1>4 DEF IsrMisc, Causes, IsrPlaces
  <2>2. /\ isr'.at = "decide" /\ isr'.seen = isr.seen \ {"sync"} /\ isr'.torn = FALSE
        /\ raw' = raw \ {"sync"}
        /\ UNCHANGED <<power, src, armed, hpd, open, buf, blocks, dv, due, call, moved>>
    BY <1>1, <2>1, CauseCleared
  <2>3. QED
    BY <1>4, <1>2, <2>2 DEF IsrMisc, Rest, SeenInv, SourceInv, Leaving, OfferInv, ArmedInv, StopInv, ToBeStopped
<1>5. ASSUME IsrClk PROVE Rest'
  <2>1. isr.seen \ {"de"} \in SUBSET Causes /\ "de" \in Causes
    BY <1>1 DEF Causes
  <2>2. PICK p \in {"decide", HandlerOf(isr.seen \ {"de"})} : Handle("de", p)
                /\ (src # Silent => p = "decide")
    BY <1>5 DEF IsrClk
  <2>3. p \in {"misc", "clk", "sys", "idle", "decide"} /\ p \in IsrPlaces
        /\ (p = "sys" => isr.seen \ {"de"} = {"ddc"})
    BY <2>1, NextHandler DEF IsrPlaces
  <2>4. /\ isr'.at = p /\ isr'.seen = isr.seen \ {"de"} /\ isr'.torn = FALSE
        /\ raw' = raw \ {"de"}
        /\ UNCHANGED <<power, src, armed, hpd, open, buf, blocks, dv, due, call, moved>>
    BY <1>1, <2>1, <2>2, <2>3, CauseCleared
  <2>5. src \in Modes => src # Silent
    BY BridgeAssumption
  <2>6. SeenInv' /\ SourceInv'
    BY <1>5, <1>2, <2>2, <2>3, <2>4 DEF IsrClk, Rest, SeenInv, SourceInv, Leaving
  <2>7. OfferInv' /\ ArmedInv'
    BY <1>5, <1>2, <2>2, <2>3, <2>4 DEF IsrClk, Rest, OfferInv, ArmedInv
  <2>8. StopInv'
    BY <1>2, <2>2, <2>4, <2>5 DEF Rest, StopInv, ToBeStopped
  <2>9. QED
    BY <2>6, <2>7, <2>8 DEF Rest
<1>6. ASSUME IsrDecide PROVE Rest'
  <2>1. PICK p \in {"mute", "compare"} : IsrGo(p)
    BY <1>6 DEF IsrDecide
  <2>2. isr'.at = p /\ isr'.seen = isr.seen /\ isr'.torn = FALSE
    BY <1>1, <2>1, IsrPlace DEF IsrPlaces
  <2>3. QED
    BY <1>6, <1>1, <1>2, <2>1, <2>2 DEF TypeOK, IsrDecide, Rest, SeenInv, SourceInv, Leaving, OfferInv, ArmedInv, StopInv, ToBeStopped
<1>7. ASSUME IsrCompare PROVE Rest'
  <2>1. CASE IsrGo("mute")
    <3>1. isr'.at = "mute" /\ isr'.torn = FALSE
      BY <1>1, <2>1, IsrPlace DEF IsrPlaces
    <3>2. QED
      BY <1>7, <1>2, <3>1 DEF IsrCompare, Rest, SeenInv, SourceInv, Leaving, OfferInv, ArmedInv, StopInv, ToBeStopped
  <2>2. CASE (isr.torn \/ src = dv) /\ IsrGoOn
    <3>1. /\ isr'.at \in {"misc", "clk", "sys", "idle"} /\ isr'.torn = FALSE
          /\ isr'.at = "sys" => isr'.seen = {"ddc"}
      BY <1>1, <2>2, IsrGoesOn
    <3>2. src \in Modes => src # Silent
      BY BridgeAssumption
    <3>3. QED
      BY <1>7, <1>2, <2>2, <3>1, <3>2 DEF IsrCompare, Rest, SeenInv, SourceInv, Leaving, OfferInv, ArmedInv, StopInv, ToBeStopped
  <2>3. QED
    BY <1>7, <2>1, <2>2 DEF IsrCompare
<1>8. ASSUME IsrMute PROVE Rest'
  <2>1. PICK p \in {"unbuf"} : IsrGo(p)
    BY <1>8 DEF IsrMute
  <2>2. isr'.at = p /\ isr'.seen = isr.seen /\ isr'.torn = FALSE
    BY <1>1, <2>1, IsrPlace DEF IsrPlaces
  <2>3. QED
    BY <1>8, <1>1, <1>2, <2>1, <2>2 DEF TypeOK, IsrMute, Rest, SeenInv, SourceInv, Leaving, OfferInv, ArmedInv, StopInv, ToBeStopped
<1>9. ASSUME IsrUnbuf PROVE Rest'
  <2>1. /\ isr'.at \in {"misc", "clk", "sys", "idle"} /\ isr'.torn = FALSE
        /\ isr'.seen = isr.seen
        /\ isr'.at = "sys" => isr'.seen = {"ddc"}
    BY <1>9, <1>1, IsrGoesOn DEF IsrUnbuf
  <2>2. QED
    BY <1>9, <1>2, <2>1 DEF IsrUnbuf, Rest, SeenInv, SourceInv, Leaving, OfferInv, ArmedInv, StopInv, ToBeStopped
<1>10. ASSUME IsrSys PROVE Rest'
  <2>1. Handle("ddc", "read5v") /\ "ddc" \in Causes /\ "read5v" \in IsrPlaces
    BY <1>10 DEF IsrSys, Causes, IsrPlaces
  <2>2. /\ isr'.at = "read5v" /\ isr'.seen = isr.seen \ {"ddc"} /\ isr'.torn = FALSE
        /\ raw' = raw \ {"ddc"}
        /\ UNCHANGED <<power, src, armed, hpd, open, buf, blocks, dv, due, call, moved>>
    BY <1>1, <2>1, CauseCleared
  <2>3. QED
    BY <1>10, <1>2, <2>2 DEF IsrSys, Rest, SeenInv, SourceInv, Leaving, OfferInv, ArmedInv, StopInv, ToBeStopped
<1>11. ASSUME IsrRead5v PROVE Rest'
  <2>1. PICK p \in {"edid", "disarm"} : IsrGo(p) /\ (p = "edid" <=> power)
    BY <1>11 DEF IsrRead5v
  <2>2. isr'.at = p /\ isr'.seen = isr.seen /\ isr'.torn = FALSE
    BY <1>1, <2>1, IsrPlace DEF IsrPlaces
  <2>3. QED
    BY <1>11, <1>1, <1>2, <2>1, <2>2 DEF TypeOK, IsrRead5v, Rest, SeenInv, SourceInv, Leaving, OfferInv, ArmedInv, StopInv, ToBeStopped
<1>12. ASSUME IsrEdid PROVE Rest'
  <2>1. PICK p \in {"plug", "idle"} : IsrGo(p) /\ (p = "plug" <=> blocks)
    BY <1>12 DEF IsrEdid
  <2>2. isr'.at = p /\ isr'.seen = isr.seen /\ isr'.torn = FALSE
    BY <1>1, <2>1, IsrPlace DEF IsrPlaces
  <2>3. QED
    BY <1>12, <1>1, <1>2, <2>1, <2>2 DEF TypeOK, IsrEdid, Rest, SeenInv, SourceInv, Leaving, OfferInv, ArmedInv, StopInv, ToBeStopped
<1>13. ASSUME IsrPlug PROVE Rest'
  <2>1. PICK p \in {"arm"} : IsrGo(p)
    BY <1>13 DEF IsrPlug
  <2>2. isr'.at = p /\ isr'.seen = isr.seen /\ isr'.torn = FALSE
    BY <1>1, <2>1, IsrPlace DEF IsrPlaces
  <2>3. QED
    BY <1>13, <1>1, <1>2, <2>1, <2>2 DEF TypeOK, IsrPlug, Rest, SeenInv, SourceInv, Leaving, OfferInv, ArmedInv, StopInv, ToBeStopped
<1>14. ASSUME IsrArm PROVE Rest'
  <2>1. PICK p \in {"idle", "cancel"} :
           IsrGo(p) /\ IF p = "idle" THEN isr.at = "arm" /\ armed' = TRUE
                                     ELSE isr.at = "disarm" /\ armed' = FALSE
    BY <1>14 DEF IsrArm
  <2>2. isr'.at = p /\ isr'.seen = isr.seen /\ isr'.torn = FALSE
    BY <1>1, <2>1, IsrPlace DEF IsrPlaces
  <2>3. QED
    BY <1>14, <1>1, <1>2, <2>1, <2>2 DEF TypeOK, IsrArm, Rest, SeenInv, SourceInv, Leaving, OfferInv, ArmedInv, StopInv, ToBeStopped
<1>15. ASSUME IsrCancel PROVE Rest'
  <2>1. PICK p \in {"low"} : IsrGo(p)
    BY <1>15 DEF IsrCancel
  <2>2. isr'.at = p /\ isr'.seen = isr.seen /\ isr'.torn = FALSE
    BY <1>1, <2>1, IsrPlace DEF IsrPlaces
  <2>3. QED
    BY <1>15, <1>1, <1>2, <2>1, <2>2 DEF TypeOK, IsrCancel, Rest, SeenInv, SourceInv, Leaving, OfferInv, ArmedInv, StopInv, ToBeStopped
<1>16. ASSUME IsrLow PROVE Rest'
  <2>1. PICK p \in {"zero"} : IsrGo(p)
    BY <1>16 DEF IsrLow
  <2>2. isr'.at = p /\ isr'.seen = isr.seen /\ isr'.torn = FALSE
    BY <1>1, <2>1, IsrPlace DEF IsrPlaces
  <2>3. QED
    BY <1>16, <1>1, <1>2, <2>1, <2>2 DEF TypeOK, IsrLow, Rest, SeenInv, SourceInv, Leaving, OfferInv, ArmedInv, StopInv, ToBeStopped
<1>17. ASSUME IsrZero PROVE Rest'
  <2>1. PICK p \in {"idle"} : IsrGo(p)
    BY <1>17 DEF IsrZero
  <2>2. isr'.at = p /\ isr'.seen = isr.seen /\ isr'.torn = FALSE
    BY <1>1, <2>1, IsrPlace DEF IsrPlaces
  <2>3. QED
    BY <1>17, <1>1, <1>2, <2>1, <2>2, BridgeAssumption DEF TypeOK, IsrZero, Rest, SeenInv, SourceInv, Leaving, OfferInv, ArmedInv, StopInv, ToBeStopped
<1>18. Rest'
  BY <1>3, <1>4, <1>5, <1>6, <1>7, <1>8, <1>9, <1>10, <1>11, <1>12, <1>13, <1>14, <1>15, <1>16, <1>17 DEF Isr
<1>19. QED
  BY <1>1, <1>18 DEF BridgeInv, Rest

LEMMA NextInv == BridgeInv /\ [Next]_vars => BridgeInv'
<1> SUFFICES ASSUME BridgeInv, [Next]_vars PROVE BridgeInv'
  OBVIOUS
<1>1. CASE Next
  BY <1>1, SourceKeeps, IsrKeepsInv, HotplugKeeps, UserKeeps, CallKeepsInv DEF Next
<1>2. CASE UNCHANGED vars
  <2>1. TypeOK'
    BY <1>2 DEF vars, chipVars, stateVars, BridgeInv, TypeOK
  <2>2. SeenInv' /\ SourceInv' /\ OfferInv' /\ ArmedInv' /\ StopInv'
    BY <1>2 DEF vars, chipVars, stateVars, BridgeInv, SeenInv, SourceInv, Leaving, OfferInv,
                ArmedInv, StopInv, ToBeStopped
  <2>3. QED
    BY <2>1, <2>2 DEF BridgeInv
<1>3. QED
  BY <1>1, <1>2

LEMMA InvHolds == Spec => []BridgeInv
BY InitInv, NextInv, PTL DEF Spec

-----------------------------------------------------------------------------
(* Theorems.                                                               *)

\* Every reachable state is typed; the service routine rests only when it has
\* handled every cause that it saw.
THEOREM BridgeTyped == Spec => []TypeOK
<1>1. BridgeInv => TypeOK
  BY DEF BridgeInv
<1>2. QED
  BY <1>1, InvHolds, PTL

\* However 5 V events fall into s_edid and the service routine, a source that is
\* plugged in is offered the EDID in the end (s_edid, sys_int_handler).
THEOREM EdidStaysOffered == Spec => []EdidOffered
<1>1. ASSUME BridgeInv, Quiet, power, blocks
      PROVE  hpd \/ due
  <2>1. "ddc" \notin raw
    BY <1>1 DEF Quiet, Visible
  <2>2. isr.at = "idle" /\ call.at = "idle"
    BY <1>1 DEF Quiet
  <2>3. QED
    BY <1>1, <2>1, <2>2 DEF BridgeInv, OfferInv
<1>2. BridgeInv => EdidOffered
  BY <1>1 DEF EdidOffered
<1>3. QED
  BY <1>2, InvHolds, PTL

\* However changes of the source fall into the service routine and into calls
\* that start and stop the stream and set timings, a picture other than the one
\* that is set is muted once the driver rests, unless s_stream(1) has set VI_MUTE
\* after the service routine was done with the last change (format_change,
\* s_dv_timings, enable_stream).
THEOREM WrongPictureIsStopped == Spec => []WrongPictureStops
<1>1. ASSUME BridgeInv, Quiet, moved, Detected \in Modes \ {dv}, open
      PROVE  FALSE
  <2>1. hpd /\ src \in Modes \ {dv}
    BY <1>1, BridgeAssumption DEF Detected
  <2>2. isr.at = "idle" /\ call.at = "idle" /\ Visible = {}
    BY <1>1 DEF Quiet
  <2>3. armed
    BY <1>1, <2>1, <2>2 DEF BridgeInv, ArmedInv
  <2>4. raw = {}
    BY <2>2, <2>3 DEF Visible
  <2>5. QED
    BY <1>1, <2>1, <2>2, <2>4 DEF BridgeInv, TypeOK, StopInv, ToBeStopped
<1>2. BridgeInv => WrongPictureStops
  BY <1>1 DEF WrongPictureStops
<1>3. QED
  BY <1>2, InvHolds, PTL
=============================================================================
