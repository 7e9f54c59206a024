# TLA+ models of rad-kvm

rad-kvm turns a Radxa Dragon Q6A board into a KVM: an HDMI to CSI bridge and a
v4l2 pipeline show the target's screen in a web page, and a USB gadget plays the
target's keyboard and mouse. This directory models the parts of it that act at
the same time as each other, that can fail between two steps, or that must get
somewhere in the end. Everything is plain TLA+, checked with TLC and, where
theorems are stated, proved with TLAPS.

    tlc -workers 2 -config MCHid.cfg MCHid      # any run of the table below
    tlapm HidProofs.tla                         # the proofs

Paths below are relative to `src/`.

## 1. The system

| part | state it keeps | operations | talks to |
|---|---|---|---|
| HID bridge, `controlplane/hid.go` | held modifiers and keys, pointer position and buttons, one mutex, three open gadget devices | key, absolute and relative mouse, wheel, Reset, Chord, Type | gadget devices; called by sessions and macros |
| Input sessions, `main.go` `serveInput`, `ws.go` | one goroutine and one WebSocket each | upgrade, read loop, Reset at both ends | page, HID bridge |
| Macros, `macro.go`, `api.go` | none; one goroutine per run | RunMacro | HID bridge, store |
| Web page, `web/index.html` | socket, capture flag, set of held keys, mouse mode, pointer lock | key and mouse events, blur, shortcuts, reconnection | input sessions, API |
| Account and sessions, `auth.go`, `totp.go` | the account in memory and in `auth.json` | setup, login with one-time code, cookie issue and check | file system, clock |
| Saved devices and macros, `store.go`, `api.go` | two lists in memory and as JSON files | add, delete, list | file system |
| Wake-on-LAN, `wol.go` | none | one datagram | network |
| Pipeline scripts, `packaging/q6a-kvm-configure.sh`, `-stream.sh` | processes, media links, capture format | load EDID, wait for a lock, set timings and formats, feed the loopback device, serve | bridge driver, systemd |
| Watchdog, `packaging/q6a-kvm-watchdog.sh` | last state of the signal, stall count, time of the last restart | poll, restart the streamer | bridge driver, streamer, systemd |
| Bridge driver, `kernel/tc358743/tc358743.c` | registers of the HDMI receiver and of the CSI transmitter, timings, format, lanes in use, EDID length, delayed work, poll timer | service routine, hot-plug work, subdev calls, probe and remove | source, camera receiver |
| Gadget script, `gadget/q6a-kvm-gadget.sh` | configfs tree | tear down, set up | kernel |
| EDID generator, device tree, image and install scripts, project page | data or run once | | |

What is hard in them, and what makes them correct:

* **HID bridge.** Sessions and goroutines interleave; a write blocks under the
  mutex while the target does not poll; sessions end while a macro is between
  press and release. Correct means: nothing stays held when everybody has left,
  each device ends with what the process remembers, handlers are atomic.
* **Page and connections.** A socket breaks on one side first, its last messages
  arrive after the next one is in use, the service restarts. Correct means: the
  target holds no key the page would not release.
* **Account.** Two browsers, a crash or power cut between any two file-system
  calls, a clock that jumps. Correct means: no lock-out, no replayed code, one
  owner, cookies that outlive restarts.
* **Lists.** A save that fails or is cut off half-way; a stop between a save and its
  answer; a power cut, since nothing is fsynced. Correct means: what was acknowledged
  is there, and what else is there was asked for.
* **Scripts and watchdog.** Two sleeping loops over a target that changes at any
  second, and whose signal each restart takes away. Correct means: the picture
  follows the target, restarts stay apart, a mode the link cannot carry is left
  alone.
* **Driver.** Three threads on the same registers with hardly a lock. Correct
  means: a source that is plugged in gets its EDID, all of it, and hot-plug; a
  picture of the wrong mode is stopped; the lanes in use carry the mode and are
  those the receiver is told of.

`PROJECT.json` lists every component with its status and every hazard at its line.

## 2. Modules

    HidReports   reports of the three devices, the list of held keys
      HidPromise   what the bridge promises: every handler one atomic step
        Web          page + connections + HidPromise
          WebProofs    theorems about Web
      Hid          mutex, blocking writes, queues, target     (implements HidPromise)
        HidTyping    Hid with what was asked to be typed and what was recognised
          HidProofs    theorems about Hid and HidTyping
    Auth         account, one-time codes, cookies, credential file
      AuthProofs   theorems about Auth
    Store        the two lists and their files
      StoreProofs  theorems about Store
    Capture      target, bridge, configure and stream scripts, in seconds
      Watchdog     the watchdog loop over Capture
        WatchdogProofs  theorems about Watchdog
    Bridge       the driver's three threads, register access by register access
      BridgeProofs theorems about Bridge
    Pll          the PLL of the bridge, from the device tree
      Probe        how the driver starts, stops and sets an EDID
        ProbeProofs  theorems about Probe
      Csi          lanes, transmitter, output format and stream
        CsiProofs    theorems about Csi
    MC*          small instances for TLC

### Hid, HidReports, HidPromise, HidTyping

`Hid` has one action per handler of `hid.go` and per step of its callers. A
handler takes `h.mu` (`Hold`), changes `mods`, `keys`, `buttons`, `last` as the
code does, and leaves its reports in `out`; `Write` is one write call, which waits
for the device's queue slot (`wire`) while a target is attached and fails at once
when none is, and the last of them releases the mutex. `Poll` is the target
reading. `Session` is `serveInput`, `Goroutine` is `Chord`/`Type`/`RunMacro`
(`writeRaw` does not touch the remembered keys, as in the code). `Restart` loses
all of the process and writes nothing.

`Final(d)` is the report device `d` ends with when the writes already due are
made. `HidPromise` is the bridge without mutex and queues: every handler sets
`said` at once, the gadget takes it later (`got`), and it is lost only while no
target is there. `Hid!HandlersAreAtomic` is the refinement, with `said <- Final`,
`got <- Taken`.

`HidTyping` adds two history variables, the strokes asked for and the strokes a
boot-protocol host recognises from successive reports: the keys of a report that were
not in the one before it, as a set, since a report gives its keys no order. Its
environment is the favourable one (`Favourable`), among it that one text at a time is
typed and that each stroke has a key and fits a report, as every stroke of `Type` does.

### Web

The page's key handlers, capture button, blur, shortcuts and `send`, which drops
while the socket is not open. Each connection is a queue of messages. It may break
for the page first (a prefix of what is under way still arrives) or for the
control plane first; a new connection is used while the old one is still being
served. The control plane is `HidPromise`, which is sound because `Hid` implements it.

### Auth, Store

`Auth` keeps three versions of `auth.json`: as read by the process (`path`), the
temporary file, and as of the last journal commit (`durable`), each with whether
its data was synced. `saveLocked` is four actions (open, write, sync and close,
rename), each of which may fail; `Crash` keeps the cached files, `PowerCut` leaves
`Surviving(durable)`. Codes are model values with a table of the steps they are
right for, one of which repeats. `Store` is the same idea for `os.WriteFile`: truncate,
then write, each of which may fail; the kernel writes a file back in its own time, and
`disk` is the set of contents a power cut may leave of it. The end of a save gives the
mutex back (`op`) and leaves the answer to be sent (`due`), an action of its own that
`Stop`, `PowerCut` and a broken connection (`AnswerLost`) may forestall and other
requests and their answers may overtake. `told` and `untold` are histories, `hit`
marks the lists a stop or a power cut took something from. A list is the set of its
entries, since nothing depends on their order.

### Capture, Watchdog

Time is in seconds and the delays are those of the scripts (8 looks for a lock,
2 s, 5 s, POLL 2, MIN_INTERVAL 8, 6 s after a restart, 3 ticks of stall).
`Tick` lets a second pass when every loop sleeps, so neither loop can be starved.
`LoadEdid` drops hot-plug and raises it whether or not the EDID is new, as
`s_edid` does, and the target then needs `Retrain` seconds. The watchdog's four
commands of a poll are three actions (`ReadTimings`, `Judge`, `Compare`), so the
target and the streamer may change in between. `since` is the shell's difference of
two wall-clock times, `gap` the seconds that have really passed; `SetClock` and the
negative start of `since` set them apart, as NTP does on a board that has no clock of
its own.

### Bridge

`isr` runs the service routine with the causes it read at its start; each handler
clears its cause and then acts. `due` is the delayed hot-plug work, `call` the one
subdev call of user space under way. Each action is one register access or one
access to `struct tc358743_state`. `VI_MUTE` (`open`) and `CONFCTL` (`buf`) are
separate, because only the second is under a mutex. `format_change` reads the
timings of the source from a dozen registers (`IsrDecide` begins, `IsrCompare` has
them all); if the source changes in between (`torn`), what was read may or may not
look like the timings that are set.

### Probe

`at` is the place of the thread that binds and unbinds the driver: the steps of
`tc358743_probe`, each of which goes on or goes to a label of the error path, and
the steps of `tc358743_remove`. Beside it run the callback of the poll timer
(`firing`), which re-arms itself (`timer`) and queues the work (`queued`,
`running`), the delayed hot-plug work (`hotplug`) and one call of `s_edid`
(`call`), which sends the EDID burst by burst (`left`). `clk` and `pdata` are what `probe_of` has done about the reference clock
and the PLL. `late` remembers that such a call has scheduled the hot-plug work
after remove had cancelled it. The board has no interrupt line (its device tree
names none), so only the polling mode is modelled.

A 5 V interrupt in the middle of `s_edid` schedules the hot-plug work whenever an
EDID was ever set; nothing but the 143 ms of `schedule_delayed_work` keeps it from
offering what is half written. So `Probe` counts time, in units of the longest that
one transfer takes: `wait` is what the work has still to wait, and with every `Tick`
a call that writes gets a transfer done. `i2c_wr` gives up a block on the first burst
that fails and returns nothing (`WritesEdid`); `whole` and `failed` remember what the
chip has and whether the caller should have been told.

### Csi, Pll

`Pll` is the arithmetic of `probe_of` and `set_pll`. `Csi` takes it up where
`s_dv_timings`, `set_fmt` and `s_stream` set the transmitter up: `LanesNeeded` is
`num_csi_lanes_needed` with its wrap at 2^32, written in octets per second because TLC
counts on 32 bits (every rate involved is a multiple of eight bits; the lowest bit of
the `- 1` in `DIV_ROUND_UP` is accounted for by that). `req` is the call under way and
goes from access to access: the timings are stored, `VI_MUTE`, `CONFCTL` read, `CONFCTL`
written, the PLL, the lanes, the transmitter, the colour space, `CONFCTL` again. The
scripts make these calls one after another from one process, so there is one `req`.
`isr` is the service routine stopping the stream, and `IsrUnplugs` its `memset` of
`state->timings`. `CONFCTL` is shared under `confctl_mutex` (`Unlocked`);
`state->timings` is under no lock, so a call during which it is cleared stores or
computes with any mixture of old and cleared fields (`Mix`).

`set_csi` writes a lane's disable bit and never its opposite, so `tx` is what a reset
transmitter becomes (`Transmitter`), and the mutant without the reset shows what would
be left of the mode before.

## 3. Runs

| run | instance | properties | what it shows |
|---|---|---|---|
| MCHid | 2 sessions, 1 goroutine, 1 key, 2 key slots, a 3-key chord, 3 devices, plug, unplug, restart | TypeOK, NoStuckKeys, KeyboardInStep, PointerInStep, KeyListSound, TargetComesToRest, HandlersAreAtomic | nothing stays held; devices end in step with the process; the rest is reached; Hid implements HidPromise |
| MCHidTyping | 1 session, 2 goroutines in turn, 2 keys and shift, texts with a doubled letter, 5 strokes | TypedAsAsked | one paste at a time is recognised exactly, whatever sessions and mouse do |
| MCWeb | 2 connections, 1 loss or restart, 1 message under way, 1 shortcut | TypeOK, PageKnowsHeldKeys, AwayComesToRest | the target holds no key the page does not know, and none once the user is away |
| MCAuth | 2 requests, 3 time steps, 2 setups, 1 failed save or power cut | TypeOK, ReplaysNeedAFailure, CookiesHonoured, OneSetupWins, NeverTorn | the account survives races, crashes and clock changes |
| MCStore | 2 lists, 2 entries, 2 failed saves or power cuts, stops at every step | TypeOK, ListsAsTold, FileCatchesUp | lists are as told unless a stop meets a failed or half-written save, or a power cut a file not yet on the disk; a later save makes up for a failed one |
| MCWatchdog | 1 mode that fits, 1 over the budget, Retrain 7, 1 death of a process or clock set forward, a clock set back at the start | TypeOK, NoThrash, TooHighBacksOff, VideoFollows | restarts stay apart and stop where they are useless; the video follows, whatever the clock does |
| MCBridge | 2 modes of one pixel clock | TypeOK, EdidOffered, WrongPictureStops, HotplugComes | hot-plug comes and stays; the wrong picture is muted, also when the timings are read torn or `s_stream(1)` is under way, but not when `s_stream(1)` comes after the routine |
| MCProbe | 4 reference clocks, one not supported; 6 link frequencies, the ends of the range and one beyond each; 2 or 5 lanes; an EDID of 2 blocks of 2 bursts, 8 units of time before hot-plug | TypeOK, NothingOutlives, ServedWithClock, OfferedWhole, StoppingEnds | a failed attempt and a removal leave nothing running; the chip is used only with its clock on and the PLL as asked for; no half-written EDID is offered |
| MCCsi | 4 boards from 62.5 to 1000 Mbps a lane; 720p60, 1080p60, 1920x1200, a mode beyond the cap; both formats | TypeOK, LanesAgree, FitsLink, WiredLanesSuffice, ColourKept | the lanes in use carry the mode, are on and are those the receiver is told of; a watchdog-approved mode needs no more than the two that are wired; format and stream may cross |

Three runs end in a violation on purpose; each is a finding (section 6).

| run | instance | property |
|---|---|---|
| MCWebFocus | no loss of connection | FocusLossReleases |
| MCWatchdogSlow | 2 modes that fit, Retrain 8, no deaths | VideoFollows |
| MCProbeRefclk | the clocks and links of MCProbe, 2 lanes, an EDID of one burst | NeverBug |

Why the bounds are enough. The interesting case of each instance needs few
actors: two sessions suffice for one's Reset to fall into the other's work, one
goroutine for a macro that outlives its session, two key slots and a chord of
three for a full report and a truncated one, two connections for a late message
of the old one. In MCAuth three time steps give a code the window before, at and
after the clock, and the step after the last has the code of the first again. In
MCWatchdog Retrain 7 is the largest value for which the scripts' eight looks are
enough, so every shorter one is easier; a clock may be set back at the start only, by two
seconds (`Settings`): at any time the same properties hold, on 2.7 million states.
In MCProbe two blocks of two
bursts have every place where a burst may fail (first and last of a block, first and
last block), and 8 is the least delay that is longer than the seven transfers. In
MCCsi the boards are the device tree's, the one the comments of `probe_of` speak of, and
both ends of the range; the modes need one to more than four lanes on them.
`MaxChunks`, `MaxAsked`, `MaxInFlight`,
`MaxBreaks`, `MaxClk`, `MaxAccounts`, `MaxLosses` and `MaxFaults` are the named
bounds; each is a guard on an action of the environment or of a user.

In MCHid no modifier and no second pointer position is enumerated: a modifier is a bit
that takes the path of a key without the list, and MCHidTyping has one. With one position
PointerInStep is about the buttons there, and with one key the key list of
KeyListSound is never full of different keys; a second of either takes the run beyond
its five minutes. That the remembered position and a full list are right as well is what
the theorems PointerStaysInStep and KeyListStaysSound show.
MCHidTyping stops when all strokes are asked for, and in MCProbe and MCProbeRefclk a
`BUG_ON` stops the kernel, so these do not check for deadlock; all other runs do.

## 4. Fairness

* `Hid`: weak fairness of each `Poll(d)` and `Write(d)`: a target that is
  attached polls, and the holder of the mutex runs. Strong fairness of `Reset`,
  `Press`, `Release`: `sync.Mutex` hands itself over to a waiter that has waited
  a millisecond (starvation mode), so a goroutine whose turn recurs gets it. No
  client has to connect, send or leave, and no target has to come.
* `Web`: the page's timer connects again, a read loop runs, a dead connection is
  noticed (Go enables TCP keep-alive on accepted connections), goroutines run and
  reports are taken, which is what `TargetComesToRest` shows of `Hid`.
* `Watchdog`: both loops run and time passes.
* `Bridge`: the poll timer re-arms itself and its work runs, scheduled work runs, a
  call that has begun goes on.
* `Probe`: the thread that binds and unbinds runs, a callback of the timer finishes,
  and the work queue gets to its items. `timer_delete_sync` tries again while the
  callback runs; the timer expires 10 ms or more after each re-arming, so it finds
  it between two callbacks (strong fairness of `DeleteTimer`). Nobody has to bind,
  unbind or call, and no step of probe has to succeed.

The environment (targets, sources, power, users, faults) is never fair.

## 5. Proofs

### The HID bridge

`HidProofs` proves, for every set of connections, goroutines, keys, buttons,
positions and scripts, every `KeySlots`, and with or without a relative mouse:

| theorem | states |
|---|---|
| TypeCorrect | `Spec => []TypeOK` |
| HidInvariant | `Spec => []HidInv` |
| KeyboardStaysInStep | `Spec => []KeyboardInStep` |
| PointerStaysInStep | `Spec => []PointerInStep` |
| NoKeyStaysStuck | `Spec => []NoStuckKeys` |
| HidKeepsThePromise | `Spec => HandlersAreAtomic` |
| KeyListStaysSound | `Spec => []KeyListSound` |
| TextArrives | `TypingSpec => []TypedAsAsked` |

Assumptions: the named ASSUMEs of `HidReports` and `Hid` (the sets are disjoint
where the code's types are, `None` is none of the reports, scripts are sequences
of reports); TLC evaluates them on each run.

`NoStuckKeys` is not inductive: that nobody is there says nothing of what the
last one left behind. `HidInv` adds what holds in between. A free mutex has
nothing to write (`FreeLockInv`), so a handler that takes it sees no report of
another. Only an open session holds keys or buttons (`HeldBySessions`), so
when the last one has gone through its Reset the remembered state is empty.
`KeyboardInStep` and `PointerInStep` then say what the devices end with, up to a
goroutine that is between press and release; the relative mouse has no remembered
state and needs a clause of its own (`RelInv`), as does the board without one
(`NoRelInv`). `DetachedInv` covers writes that fail because no target is there.
Each action either gives one device a new final report (`InvHandler`), or leaves
every final report as it is or cleared (`SteadyKeeps`); the proof has one lemma
per group of actions and one step per conjunct it can disturb.

`HandlersAreAtomic`, the refinement, follows from `HidInv` step by step. A handler, press
or release says one report (`HoldSays`, from `FreeLockInv`: nothing of another
holder is overwritten), Reset says three (`ResetSays`). A write is a `Take` while a
target is there and otherwise a `Lose`, since an unplugged gadget holds nothing
(`DetachedInv`); a write of a split movement with more to come loses nothing yet. A
poll is a stutter. `Detach` is `Leave` with the devices that have nothing left to
write. `KeyListSound`, for every number of slots, is inductive
once the variables are typed, and its core is that neither an appended nor a removed
entry makes two equal ones (`KeysAfterSound`).

`TypedAsAsked` follows from `HidInv` and an account of the strokes (`TypingInv`). What was
asked for is at all times what has been recognised, then the stroke in the gadget's
queue, then the one that waits to be written, then what the goroutine has left
(`OrderInv`); each step moves a stroke from one of these to the one before it or none at all
(`KindOfStep`). That a stroke which is read is also recognised needs that
a report which presses follows one that does not (`SpaceInv`): when a goroutine
presses, no other one is between press and release, so by `KeyboardInStep` the last report
said presses nothing, be it its own release or a Reset that fell in between.

### The page

`WebProofs` proves, for every set of connections, goroutines, keys and scripts, and any
number of messages under way, lost connections and restarts:

| theorem | states |
|---|---|
| WebTyped | `Spec => []TypeOK` |
| PageKnows | `Spec => []PageKnowsHeldKeys` |

`WebAssumption` keeps `NoConn` apart from the connections. `PageKnowsHeldKeys` speaks of
calm: one session, the page's, with nothing under way. Its strengthening, `WebInv`, says
what the calm will rest on while messages are still travelling. `SentInv` is about the
page's own connection: with the keys it holds now, every key-down under way that is not
among them is followed by its key-up; that is why `send` may drop only while the socket is
closed, and why the page forgets a key only when it has sent the key-up or has no socket.
`HeldInv` is about both ends: while the page's is the only session, a key that the
control plane remembers is held by the page, or its key-up is under way. It says nothing of
a second session, which may press what it likes; what makes that harmless is the Reset at
its end, from which the invariant starts anew. Between what is remembered and what the
keyboard was told stands `SaidInv`, as long as no goroutine is between press and release, and
between an earlier process and this one `FreshInv`: a session is served only after its
Reset. A key is released by being taken out of a list, which needs that no key is in
it twice (`Distinct`, kept by `KeysAfterFacts`); `Blur` sends the key-ups of a set in
some order, of which `ReleasesSent` needs only that each is there.

### The watchdog

`WatchdogProofs` proves, for every set of modes, all delays of the scripts and of the
target, and every setting of the clock:

| theorem | states |
|---|---|
| WatchdogTyped | `Spec => []TypeOK` |
| RestartsAreSpaced | `Spec => NoThrash` |

`WatchdogAssumption` says that delays are positive and that POLL is no longer than
MIN_INTERVAL (2 and 8 in the script). `NoThrash` is an action property: the step that
restarts the streamer finds `gap`, the seconds that have really passed, large enough. The
script knows only `since`, which its clock may have made anything, and takes it before two
further commands and after two sleeps. `GapInv` relates the three: while the watchdog sleeps after
a restart, `gap` and what is left of the sleep make up all of it; afterwards the sleep before
the next look comes on top; and unless the clock was set forward `gap` is at least
`since` and that sleep, because `last` is taken when the sleep is over. So three triggers
that look at nothing but `since` cannot come too early, and a clock that was set
forward still leaves a look and the sleep.

### The start and stop of the driver

`ProbeProofs` proves, for every set of clocks, link frequencies and lane counts, and every
number of blocks and bursts of an EDID:

| theorem | states |
|---|---|
| ProbeTyped | `Spec => []TypeOK` |
| NothingIsLeft | `Spec => []NothingOutlives` |
| ServedRight | `Spec => []ServedWithClock` |
| OfferIsWhole | `Spec => []OfferedWhole` |

`ProbeAssumption` says that clocks and link frequencies are positive and that twice a
link frequency fits 32 bits. `EdidAssumption` says that the transfers of an EDID take
less time than the 143 ms of the hot-plug work: 35 for the board's two blocks, of about
a hundred microseconds to a millisecond each on its bus. Only `OfferIsWhole` uses it.
`NothingOutlives` speaks of one place, the end; its strengthening says for every
place what may be about there. Timer and poll work live between `StartPolling` and
the flush, and the flush finds the timer stopped (`PollInv`); that is why remove has
to delete the timer before it flushes. A subdevice that is registered is not in the
middle of a failed attempt (`ListedInv`), so a call lasts into a removal at most
(`CallInv`), and hot-plug work that is pending is either still to be cancelled or
late (`HotplugInv`). For `ServedWithClock`, `PllInv` says that past `set_ref_clk` the
PLL was worked out from a supported clock, which is still on; what the dividers make
of it is then arithmetic on the three clocks (`PllPrd` is 4, 4 and 7). Typing rests on the same
arithmetic: at an allowed rate neither divider is too large for its register field
(`DividersFit`), which the code writes without a check.

For `OfferedWhole`, `EdidInv` compares two clocks that nothing else relates: while a call
writes and hot-plug is due, `wait` is larger than `left`, because the call cancels the
work before its first transfer, whoever schedules it again gives it all of `Delay`, and
each unit of time takes one off `left` too. Hot-plug is down meanwhile, or the transfer
that should have lowered it failed.

### The transmitter

`CsiProofs` proves, for every set of device trees with a supported clock and an allowed
rate, and every set of timings:

| theorem | states |
|---|---|
| Typing | `Spec => []TypeOK` |
| LanesKept | `Spec => []LanesAgree` |
| ColourHeld | `Spec => []ColourKept` |
| LinkFits | `Spec => []FitsLink` |
| TwoLanesSuffice | `Spec => []WiredLanesSuffice` |

`CsiAssumption` is what `probe_of` has checked by then; no bound is put on the timings
a caller may ask for. All five rest on `Typed`. `TxFollows` says at which places of a
call the transmitter may differ from the lanes in use, `ColourFollows` which of the
colour registers are already written at each place and that whoever holds the mutex has
seen the `CONFCTL` that is there: without that the service routine would write back the
format of before. `LanesFollow` says that the timings are at all times within the cap or a
mixture of such timings with zeros (`Bounded`), and that once a call has come past `NeedLanes` the
lanes are those of the timings that are set, unless these are cleared. The rest is
arithmetic that no unit test covers: the frame is at least as large as the picture, so
`fps()` rounded to the nearest is at most the pixel clock over the picture and a half
more, and with two octets a pixel the sum stays below 2^29 octets for everything in the
cap, so neither product nor `DIV_ROUND_UP` wraps. Typing needs that a wrapped number
of lanes still fits a `u8`: 2^32 over the lowest rate of a lane is below 256.

### The saved lists

`StoreProofs` proves, for every set of lists and of entries and any number of faults:

| theorem | states |
|---|---|
| StoreTyped | `Spec => []TypeOK` |
| ToldIsShown | `Spec => []ListsAsTold` |
| SavedIsShown | `Spec => []FileCatchesUp` |

`StoreAssumption` says that a torn file is no list and `None` no change. `AsTold` relates
a set of entries to the changes that were acknowledged and those that were begun, and asks
less the fewer of the former and the more of the latter there are (`AsksLess`): that is
why a lost answer or a stop before it does no harm. It is not inductive for what was
acknowledged alone, since an answer may go out at any time: the invariant has it for
`Acked`, what is acknowledged or about to be (`MemoryTold`), and for the file as well
as for memory (`FileTold`), since the file is what a stop at this step would bring back; the file is
exempt while it is being written and while its last save has failed (`Behind`). `InMemory` says
that the change being saved is in memory, so the file that is written has it;
`DeletesKnown` that nothing is deleted before it is added. A power cut leaves the file of
a list alone whose only content on the disk is the one the kernel shows (`DownKeeps`).

### The account

`AuthProofs` proves, for every number of requests, every clock, skew and lifetime of a
cookie, and any number of accounts and failures:

| theorem | states |
|---|---|
| AuthTyped | `Spec => []TypeOK` |
| FileIsWhole | `Spec => []NeverTorn` |
| SetupOnce | `Spec => []OneSetupWins` |
| CookiesLast | `Spec => []CookiesHonoured` |
| ReplaysAreOwed | `Spec => []ReplaysNeedAFailure` |

`AuthAssumption` gives the numbers their ranges; `NoAccount` keeps an account, a missing
file, a torn file and no operation apart. None of the four properties is inductive, and
all rest on one invariant, `AuthInv`. `FilesInv`: the file and what a power cut would
bring back are synced and whole, and a temporary file that is about to be renamed is
the account in memory, synced; that is why the order of write, sync and rename is enough.
`MemInv` relates memory and file: with nobody in between, the file has the key of the account
in memory and a last step no later than its; a setup that is being saved has no file yet, so
its failure may forget the account; a login that is being saved has put memory
strictly ahead. `KeysInv` bounds every key that is about by the number of setups so far, so
a new key equals none of them and none of its codes has been accepted. `EraInv` says that
until a power cut whatever was promised since the operator last removed the file, a setup
or a cookie, has its key in the file.

`ReplaysNeedAFailure` counts, and its strengthening counts more: `Unsaved` is the set of
accepted codes that the file has not, each of which a restart would accept once more, and
replays so far and members of `Unsaved` together are no more than the failures
(`ReplayInv`). A login adds a code to `granted` only when its save has ended, so it adds
to `Unsaved` only by failing; a restart moves nothing; a replay takes a member out. The steps
are about cardinalities of finite sets, from the theorems of `FiniteSetTheorems`.

### The threads of the driver

`BridgeProofs` proves, for every set of modes and any number of events:

| theorem | states |
|---|---|
| BridgeTyped | `Spec => []TypeOK` |
| EdidStaysOffered | `Spec => []EdidOffered` |
| WrongPictureIsStopped | `Spec => []WrongPictureStops` |

Both properties speak of the moments at which the driver rests. `BridgeInv` says at
each place of the service routine and of a call who is going to act: a source that is
there and has an EDID to read has hot-plug up, or the work is due, or the 5 V interrupt is
latched, or one of the two threads is at a place from which it goes on to plug
(`OfferInv`); a picture that is let through while another one is set has its interrupt
latched or seen, or a thread is at a place from which it goes on to mute it (`StopInv`).
The history `moved` is what WrongPictureIsStopped is conditional on: it is set by every
change of the source and taken back only by an `s_stream(1)` that sets `VI_MUTE` when the
service routine is done with that change (`ToBeStopped` is false). A change that comes
after that moment, still within `s_stream(1)` or later, or one that the routine has yet to
mute for, is covered; the stream that is started on, or just behind the stop of, a wrong
picture is not, and section 6 says that it runs. What makes
them inductive is that the routine clears a cause before it reads the state that the
cause is about: whatever the source does after the reading is latched again (`SourceInv`),
and of the causes that the routine saw the 5 V one comes last (`SeenInv`). `ArmedInv` accounts
for the masked interrupts: while they are masked hot-plug is down, or a thread is on the
way to lower it or to unmask them.

Every safety invariant and action property of the passing runs is a theorem. Only
model-checked is liveness (`TargetComesToRest`, `AwayComesToRest`, `VideoFollows`,
`TooHighBacksOff`, `HotplugComes`, `StoppingEnds`), which needs fairness and ENABLED and is
out of the prover's reach. No module here declares a RECURSIVE operator.

## 6. Findings

Each of these has a run that ends in it.

* A key that is down when the user clicks into an input of the page stays down on
  the target after it has been let go of: the key-up is ignored, and only the blur
  of the window releases held keys (`index.html:472`, MCWebFocus). The same happens
  when the capture is switched off with a key down. The next blur repairs it
  (PageKnowsHeldKeys).
* Every start of the streamer pulses hot-plug; a target that needs eight seconds
  or more to come back is never followed (`configure.sh:26`, MCWatchdogSlow).
* A reference clock that is not supported does not fail the probe: `probe_of` goes to
  `disable_clk` with `ret` still 0, and the caller runs into the `BUG_ON` of
  `set_ref_clk` (`tc358743.c:2087`, MCProbeRefclk).

And these were met while modelling; no run is kept for them.

* `saveJSON` writes in place and `loadJSON` takes a torn file for an empty list: a
  stop at the wrong moment loses a whole list (`store.go:52`; ListsAsTold leaves out
  the lists that were `hit`).
* `os.WriteFile` does not fsync (`store.go:52`): a power cut soon after an acknowledged
  add or delete brings back the list of before, or an empty one (ListsAsTold leaves out
  a list whose file was not written back, FileCatchesUp is about the service only).
* The answer to a change goes out after the save and outside the mutex (`store.go:81`,
  `api.go:23`): after a stop in between the restarted service shows an entry, or lacks one,
  of which no client was told. The same is true of an add that was answered with an error: its entry
  stays in memory and the next save writes it. ListsAsTold allows both.
* The delete handlers drop the error of the save (`api.go:40`, `:89`): a delete that
  was answered with 204 is undone by a restart if its save failed.
* `s_stream(1)` does not look at the timings, and `VI_MUTE` is written outside
  `confctl_mutex` (`tc358743.c:656`): if the service routine clears `VI_MUTE` for a new
  picture and `s_stream(1)` sets it after that, and likewise `CONFCTL`, the wrong
  picture goes through until the next interrupt. The other way round, a stream that was
  asked for stays muted with its buffer enabled. WrongPictureStops is conditional on
  `moved`, which leaves the first out; without the condition MCBridge ends in it.
* With 24 bits a pixel `DIV_ROUND_UP` wraps near the top of the range
  (`tc358743.c:797`): at 999 Mbps a lane (27 MHz, link frequency 500 MHz) 1920x1200 at 60 Hz
  with reduced blanking needs four lanes and is given none. Neither rate nor format is
  this board's; FitsLink speaks of the 16 bits the pipeline sets.
* A mode that needs more than four lanes is programmed as one lane and reported as the
  number it needs (`tc358743.c:808`, `:849`); LanesAgree leaves these out.
* An unplugged source leaves the reported lanes as they were, with the timings cleared
  (`tc358743.c:1315`); FitsLink holds then because nothing needs no lane.
* The watchdog's limit says that above 75 MHz the link "physically can't carry it"
  (`q6a-kvm-watchdog.sh:23`), but 1280x800 at 60 Hz, 83.5 MHz, needs two lanes: the
  blanking is not sent. WiredLanesSuffice is the other direction.
* Twice the link frequency is cut off to 32 bits before it is compared with the allowed
  range (`tc358743.c:2095`). Modelled up to where it is not (`MaxLink`).
* A mouse button is released on the target only by an event over the image
  (`index.html:437`): let go of outside of it, or in another window, it stays down until
  the pointer is back. Under pointer lock a mode switch in the middle of a drag leaves it
  down on the relative mouse (`index.html:455`). The mouse of the page is not modelled.
* A clock that is set forward lets the watchdog restart the streamer a look after the
  last time (`q6a-kvm-watchdog.sh:62`; the exception `ahead` of NoThrash).
* `i2c_wr` returns nothing, so an EDID of which a burst failed is offered, and
  `VIDIOC_SUBDEV_S_EDID` succeeds (`tc358743.c:1918`; the exception `failed` of OfferedWhole).
  A bus held up for more than 143 ms has the same effect.
* `get_detected_timings` rounds the frame rate and the blanking it reads; at a hundred
  pictures a second or more two readings of one signal may differ.

* `Type` releases the mutex between reports and every message or macro run has a
  goroutine of its own (`hid.go:106`, `hid.go:283`): two at once alternate their
  reports and lose strokes. Without `OneAtATime` MCHidTyping fails.
* `saveLocked` does not sync the directory (`auth.go:182`): a power cut soon after a
  setup that was reported as done loses the account.
* `remove` cancels the hot-plug work before it unregisters the subdevice: a call of
  `s_edid` in between, or one that has not finished, schedules it again
  (`tc358743.c:2365`; the exception `late` of NothingOutlives).
* No failure after `probe_of`, and not `remove` either, disables the reference clock
  again (`tc358743.c:2217`).
* `pll_fbd` is rounded before it is multiplied (`tc358743.c:2103`): with 27 MHz the
  rate is a multiple of 27 MHz, up to 27 Mbps below the one of `LINK_FREQ`, and below
  the 62.5 Mbps of the check for the lowest ones. The board's 594 Mbps is exact.
* With an interrupt line the threaded handler is freed only after `remove`, so it can
  schedule the hot-plug work after its cancellation. Not modelled: this board polls.

The safety properties of `Hid` except a service that was killed with a key down and
has not been connected to since (`fresh`): it writes nothing when it starts. With a
page open the reconnection repairs that, which AwayComesToRest of `Web` shows.

## 7. What is not modelled, and the plan

Not modelled: Wake-on-LAN (one datagram); the EDID generator, device tree and
kernel configuration (data); install, image and build scripts (run once); the
project page and the QR encoder. Inside the modelled parts: cryptography, JSON and
macro syntax, pointer and wheel deltas, audio, CEC, HDCP and infoframes of the
bridge (CEC is not built for this board), logging. Of `s_edid`, the call with no
blocks, which clears the EDID without a look at the 5 V. The control that reports the 5 V.

Planned, in this order:

1. An interrupt line instead of the poll timer in `Probe`.
2. `WsFrame`: framing of `ws.go` as functions, against a reference; `HidReports`:
   splitting of relative movements (sum, range, number of chunks).
3. The mouse of the page in `Web`: two modes and the pointer lock.
4. `Gadget`: tear-down and set-up of the configfs tree with steps that fail.
