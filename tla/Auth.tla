-------------------------------- MODULE Auth --------------------------------
(***************************************************************************)
(* The single account of the control plane (src/controlplane/auth.go and   *)
(* totp.go): first-run setup, login with a one-time code, the signed       *)
(* session cookie, and the credential file, which is rewritten at every    *)
(* login with a code.  The file is written beside the old one, synced and  *)
(* renamed over it, and any of those steps can fail or be the last one     *)
(* before the service dies or the board loses power.                       *)
(*                                                                         *)
(* The file system is external and modelled as ext4 behaves: what a        *)
(* process reads is the cached state; a power cut leaves the directory     *)
(* entry as of the last journal commit, with whatever data of that file    *)
(* was synced.                                                             *)
(*                                                                         *)
(* Abstractions: time is counted in 30 s steps; a code is a model value,   *)
(* and which steps it is right for is a constant; a password is right or   *)
(* the request changes nothing; the random cookie key of an account is     *)
(* the number of the setup that made it.                                   *)
(***************************************************************************)
EXTENDS Integers, FiniteSets

CONSTANTS
    Reqs,        \* HTTP requests in flight
    Codes,       \* one-time codes
    MaxClk,      \* last time step of the clock (bound)
    Skew,        \* totpSkew: 1 in the code
    CodeAt,      \* the code of each time step
    TTL,         \* lifetime of a cookie, in steps
    MaxAccounts, \* most setups in a behaviour (bound)
    MaxLosses,   \* most failed saves and power cuts in a behaviour (bound)
    Absent,      \* no such file
    Torn,        \* a file that does not parse: empty or cut short
    None

Clock == 0 .. MaxClk
Steps == 0 .. MaxClk + Skew

ASSUME AuthAssumption ==
    /\ MaxClk \in Nat /\ Skew \in Nat /\ TTL \in Nat \ {0}
    /\ MaxAccounts \in Nat /\ MaxLosses \in Nat
    /\ CodeAt \in [Steps -> Codes]

\* authFile: key stands for Username, Salt, Hash and Secret, all fixed at setup.
Accounts == [key : 1 .. MaxAccounts, totp : BOOLEAN, last : Steps]

\* What holds au.mu: step is that of the code it accepted.
Ops == [kind : {"setup", "login"}, at : {"open", "write", "sync", "rename"}, step : Steps]

ASSUME NoAccount ==
    /\ {Absent, Torn, None} \cap Accounts = {}
    /\ Absent # Torn
    /\ \A o \in Ops : o # None

VARIABLES
    clk,       \* time.Now(), in steps
    state,     \* the process: "up", "down", or "refused" (NewAuth failed)
    acc,       \* au.a
    req,       \* a request: "idle", "saving" (holds au.mu), "issuing"
    op,        \* the operation that holds au.mu: in Ops, or None
    path,      \* auth.json: [data, synced]
    tmp,       \* auth.json.tmp: [data, synced]
    durable,   \* auth.json as of the last journal commit
    made,      \* setups begun
    era,       \* setups begun when the operator last removed the file
    setups,    \* keys of setups that returned nil
    cookies,   \* cookies handed out
    granted,   \* <<key, step>>: codes accepted by calls that returned nil
    replays,   \* how many times one was accepted again
    losses,    \* failed saves so far
    cuts       \* power cuts so far

vars == <<clk, state, acc, req, op, path, tmp, durable, made, era, setups,
          cookies, granted, replays, losses, cuts>>
fileVars == <<path, tmp, durable>>
histVars == <<made, era, setups, cookies, granted, replays, losses, cuts>>

File(d, s) == [data |-> d, synced |-> s]
Files == [data : Accounts \cup {Absent, Torn}, synced : BOOLEAN]

\* What is left of a file after a power cut.
Surviving(f) == File(IF f.synced THEN f.data ELSE Torn, TRUE)

TypeOK ==
    /\ clk \in Clock
    /\ state \in {"up", "down", "refused"}
    /\ acc \in Accounts \cup {None}
    /\ req \in [Reqs -> {"idle", "saving", "issuing"}]
    /\ op \in {None} \cup Ops
    /\ path \in Files /\ tmp \in Files /\ durable \in Files
    /\ made \in 0 .. MaxAccounts /\ era \in 0 .. MaxAccounts
    /\ setups \subseteq 1 .. MaxAccounts
    /\ cookies \subseteq [key : 1 .. MaxAccounts, exp : 0 .. MaxClk + TTL]
    /\ granted \subseteq (1 .. MaxAccounts) \X Steps
    /\ replays \in Nat /\ losses \in Nat /\ cuts \in Nat /\ losses + cuts <= MaxLosses

Init ==
    /\ clk \in Clock
    /\ state = "up"
    /\ acc = None
    /\ req = [r \in Reqs |-> "idle"]
    /\ op = None
    /\ path = File(Absent, TRUE)
    /\ tmp = File(Absent, TRUE)
    /\ durable = File(Absent, TRUE)
    /\ made = 0 /\ era = 0
    /\ setups = {} /\ cookies = {} /\ granted = {}
    /\ replays = 0 /\ losses = 0 /\ cuts = 0

-----------------------------------------------------------------------------
(* One-time codes.                                                         *)

\* Mutant: the step of the last accepted code is accepted again.
MatchesAgain(code, t, lastStep) ==
    {c \in t - Skew .. t + Skew : c >= 0 /\ c >= lastStep /\ CodeAt[c] = code}

\* The steps around t, newer than the last accepted one, that this code is for.
Matches(code, t, lastStep) ==
    {c \in t - Skew .. t + Skew : c >= 0 /\ c > lastStep /\ CodeAt[c] = code}

\* totpVerify returns the first of them.
First(S) == {c \in S : \A e \in S : c <= e}

-----------------------------------------------------------------------------
(* Setup and Login up to the save; au.mu is held from there to its end.    *)

Lock(r, kind, step) ==
    /\ state = "up"
    /\ op = None
    /\ req[r] = "idle"
    /\ op' = [kind |-> kind, at |-> "open", step |-> step]
    /\ req' = [req EXCEPT ![r] = "saving"]

\* Mutant: no look at whether an account exists already.
SetupAgain(r, totp, code) ==
    /\ made < MaxAccounts
    /\ \E step \in IF totp THEN First(Matches(code, clk, 0)) ELSE {0} :
          /\ Lock(r, "setup", step)
          /\ acc' = [key |-> made + 1, totp |-> totp, last |-> step]
    /\ made' = made + 1
    /\ UNCHANGED <<clk, state, fileVars, era, setups, cookies, granted, replays, losses, cuts>>

Setup(r, totp, code) ==
    /\ acc = None
    /\ made < MaxAccounts
    /\ \E step \in IF totp THEN First(Matches(code, clk, 0)) ELSE {0} :
          /\ Lock(r, "setup", step)
          /\ acc' = [key |-> made + 1, totp |-> totp, last |-> step]
    /\ made' = made + 1
    /\ UNCHANGED <<clk, state, fileVars, era, setups, cookies, granted, replays, losses, cuts>>

\* A login without a code writes nothing and goes on to the cookie.
LoginPlain(r) ==
    /\ state = "up" /\ op = None /\ req[r] = "idle"
    /\ acc # None
    /\ ~acc.totp
    /\ req' = [req EXCEPT ![r] = "issuing"]
    /\ UNCHANGED <<clk, state, acc, op, fileVars, histVars>>

LoginTotp(r, code) ==
    /\ acc # None
    /\ acc.totp
    /\ \E step \in First(Matches(code, clk, acc.last)) :
          /\ Lock(r, "login", step)
          /\ acc' = [acc EXCEPT !.last = step]
    /\ UNCHANGED <<clk, state, fileVars, histVars>>

-----------------------------------------------------------------------------
(* saveLocked, one file-system call at a time.                             *)

At(s) == op # None /\ op.at = s
Go(s) == op' = [op EXCEPT !.at = s]

\* The call returns nil: the code it accepted counts, the cookie comes next.
Succeed ==
    /\ op' = None
    /\ req' = [r \in Reqs |-> IF req[r] = "saving" THEN "issuing" ELSE req[r]]
    /\ setups' = IF op.kind = "setup" THEN setups \cup {acc.key} ELSE setups
    /\ IF acc.totp
       THEN /\ granted' = granted \cup {<<acc.key, op.step>>}
            /\ replays' = IF <<acc.key, op.step>> \in granted THEN replays + 1 ELSE replays
       ELSE UNCHANGED <<granted, replays>>

\* Mutant: a setup whose save fails leaves the account in memory.
FailKeepsAccount ==
    /\ losses + cuts < MaxLosses
    /\ losses' = losses + 1
    /\ cuts' = cuts
    /\ op' = None
    /\ req' = [r \in Reqs |-> IF req[r] = "saving" THEN "idle" ELSE req[r]]
    /\ UNCHANGED <<acc, setups, granted, replays>>

\* The save fails: Setup forgets the account and reports the error, Login
\* succeeds all the same.
Fail ==
    /\ losses + cuts < MaxLosses
    /\ losses' = losses + 1
    /\ cuts' = cuts
    /\ IF op.kind = "setup"
       THEN /\ acc' = None
            /\ op' = None
            /\ req' = [r \in Reqs |-> IF req[r] = "saving" THEN "idle" ELSE req[r]]
            /\ UNCHANGED <<setups, granted, replays>>
       ELSE Succeed /\ acc' = acc

\* Mutant: the credential file itself is truncated and written in place.
SaveOpenInPlace ==
    /\ At("open")
    /\ path' = File(Torn, FALSE)
    /\ tmp' = File(Torn, FALSE)
    /\ Go("write")
    /\ UNCHANGED <<acc, req, setups, granted, replays, losses, cuts, durable>>

SaveOpen ==
    /\ At("open")
    /\ \/ /\ tmp' = File(Torn, FALSE)
          /\ Go("write")
          /\ UNCHANGED <<acc, req, setups, granted, replays, losses, cuts>>
       \/ Fail /\ tmp' = tmp
    /\ UNCHANGED <<path, durable>>

SaveWrite ==
    /\ At("write")
    /\ \/ /\ tmp' = File(acc, FALSE)
          /\ Go("sync")
          /\ UNCHANGED <<acc, req, setups, granted, replays, losses, cuts>>
       \/ Fail /\ tmp' = File(Absent, TRUE)
    /\ UNCHANGED <<path, durable>>

\* Mutant: no fsync before the rename.
SaveNoSync ==
    /\ At("sync")
    /\ Go("rename")
    /\ UNCHANGED <<acc, req, tmp, setups, granted, replays, losses, cuts, path, durable>>

\* f.Sync and f.Close.
SaveSync ==
    /\ At("sync")
    /\ \/ /\ tmp' = File(tmp.data, TRUE)
          /\ Go("rename")
          /\ UNCHANGED <<acc, req, setups, granted, replays, losses, cuts>>
       \/ Fail /\ tmp' = File(Absent, TRUE)
    /\ UNCHANGED <<path, durable>>

\* A failed rename leaves the temporary file behind.
SaveRename ==
    /\ At("rename")
    /\ \/ /\ path' = tmp
          /\ tmp' = File(Absent, TRUE)
          /\ Succeed
          /\ UNCHANGED <<acc, losses, cuts>>
       \/ Fail /\ UNCHANGED <<path, tmp>>
    /\ UNCHANGED durable

Save == /\ state = "up"
        /\ SaveOpen \/ SaveWrite \/ SaveSync \/ SaveRename
        /\ UNCHANGED <<clk, state, made, era, cookies>>

-----------------------------------------------------------------------------
(* The cookie.                                                             *)

\* Mutant: the cookie outlives sessionTTL.
IssueLonger(r) ==
    /\ state = "up"
    /\ op = None
    /\ req[r] = "issuing"
    /\ req' = [req EXCEPT ![r] = "idle"]
    /\ cookies' = IF acc = None THEN cookies
                  ELSE cookies \cup {[key |-> acc.key, exp |-> clk + TTL + 1]}
    /\ UNCHANGED <<clk, state, acc, op, fileVars, made, era, setups, granted,
                   replays, losses, cuts>>

\* issue: signed with the key of the account that is there now.
Issue(r) ==
    /\ state = "up"
    /\ op = None
    /\ req[r] = "issuing"
    /\ req' = [req EXCEPT ![r] = "idle"]
    /\ cookies' = IF acc = None THEN cookies
                  ELSE cookies \cup {[key |-> acc.key, exp |-> clk + TTL]}
    /\ UNCHANGED <<clk, state, acc, op, fileVars, made, era, setups, granted,
                   replays, losses, cuts>>

Valid(ck) == acc # None /\ ck.key = acc.key /\ clk < ck.exp

-----------------------------------------------------------------------------
(* The process, the board, the operator, the clock.                        *)

Stop ==
    /\ state' = "down"
    /\ acc' = None
    /\ op' = None
    /\ req' = [r \in Reqs |-> "idle"]

Crash ==
    /\ state = "up"
    /\ Stop
    /\ UNCHANGED <<clk, fileVars, histVars>>

\* NewAuth: a file that is there but does not parse is refused.
Start ==
    /\ state # "up"
    /\ state' = IF path.data = Torn THEN "refused" ELSE "up"
    /\ acc' = IF path.data \in Accounts THEN path.data ELSE None
    /\ UNCHANGED <<clk, req, op, fileVars, histVars>>

PowerCut ==
    /\ losses + cuts < MaxLosses
    /\ cuts' = cuts + 1
    /\ Stop
    /\ path' = Surviving(durable)
    /\ durable' = Surviving(durable)
    /\ tmp' = File(Absent, TRUE)   \* truncated by the next save, never read
    /\ clk' \in Clock              \* no battery-backed clock is relied on
    /\ UNCHANGED <<made, era, setups, cookies, granted, replays, losses>>

\* The journal commits the rename, some seconds after it was made.
Commit ==
    /\ durable # path
    /\ durable' = path
    /\ UNCHANGED <<clk, state, acc, req, op, path, tmp, histVars>>

\* "Inspect or remove it to re-run setup": the operator removes the file of a
\* stopped service.
OperatorReset ==
    /\ state # "up"
    /\ path.data # Absent
    /\ path' = File(Absent, TRUE)
    /\ durable' = File(Absent, TRUE)
    /\ era' = made
    /\ UNCHANGED <<clk, state, acc, req, op, tmp, made, setups, cookies, granted,
                   replays, losses, cuts>>

\* Time passes, or the clock is set, forwards or back.
SetClock ==
    /\ clk' \in Clock \ {clk}
    /\ UNCHANGED <<state, acc, req, op, fileVars, histVars>>

Next ==
    \/ \E r \in Reqs : \/ \E totp \in BOOLEAN, code \in Codes : Setup(r, totp, code)
                       \/ LoginPlain(r)
                       \/ \E code \in Codes : LoginTotp(r, code)
                       \/ Issue(r)
    \/ Save
    \/ Crash \/ Start \/ PowerCut \/ Commit \/ OperatorReset \/ SetClock

Spec == Init /\ [][Next]_vars

-----------------------------------------------------------------------------
(* Properties.                                                             *)

\* Whatever step of whatever save is interrupted, by a crash or by a power
\* cut, the credential file is absent or complete, so the service never locks
\* its owner out by refusing to start ("a crash never truncates it",
\* controlplane/README.md; saveLocked, NewAuth).
NeverTorn == path.data # Torn /\ Surviving(durable).data # Torn /\ state # "refused"

\* A code is accepted for the same step again only if a save failed, and at
\* most once for each failure: neither crashes and restarts, nor two requests
\* at once, nor a clock set back make a replay possible (totpVerify, Login: "a
\* failed write just allows one replay").
ReplaysNeedAFailure == cuts = 0 => replays <= losses

\* A cookie is honoured until it expires, whatever crashes, fails or is set
\* up meanwhile, unless the operator removes the account or the power is cut:
\* the key that signed it was on disk before the cookie was (Setup, issue,
\* valid).
CookiesHonoured ==
    state = "up" /\ cuts = 0 =>
        \A ck \in cookies : ck.key > era /\ clk < ck.exp => Valid(ck)

\* Of all the setups tried since the operator last removed the file, however
\* they race and restart, one at most succeeds (Setup, NewAuth).
OneSetupWins == cuts = 0 => Cardinality({k \in setups : k > era}) <= 1
=============================================================================
