----------------------------- MODULE AuthProofs -----------------------------
(***************************************************************************)
(* Theorems about Auth, for any number of requests, codes, setups, faults  *)
(* and power cuts, every table of codes and every lifetime of a cookie.    *)
(***************************************************************************)
EXTENDS Auth, FiniteSetTheorems, TLAPS

Busy(kind) == op # None /\ op.kind = kind

\* The credential file holds the account of this setup.
InFile(k) == path.data \in Accounts /\ path.data.key = k

\* Neither the file nor its last committed version is ever cut short, and what
\* is about to be renamed is the account in memory, on disk.
FilesInv ==
    /\ path.synced = TRUE /\ path.data # Torn
    /\ durable.synced = TRUE /\ durable.data # Torn
    /\ state # "refused"
    /\ At("sync") \/ At("rename") => tmp.data = acc
    /\ At("rename") => tmp.synced = TRUE

\* How the account in memory and the one in the file differ.
MemInv ==
    /\ op # None => state = "up" /\ acc \in Accounts /\ op.step = acc.last
    /\ state = "up" /\ acc = None => path.data = Absent
    /\ Busy("setup") => path.data = Absent /\ acc.key = made
    /\ state = "up" /\ acc # None /\ ~Busy("setup")
          => InFile(acc.key) /\ path.data.last <= acc.last
    /\ Busy("login") => acc.totp = TRUE /\ path.data.last < acc.last

\* No key is of a setup that has not begun; the one of a setup that is not yet
\* saved has accepted no code.
KeysInv ==
    /\ era <= made
    /\ \A k \in setups : k <= made
    /\ \A ck \in cookies : ck.key <= made
    /\ \A g \in granted : g[1] <= made
    /\ \A a \in {acc, path.data, durable.data} : a \in Accounts => a.key <= made
    /\ Busy("setup") => \A g \in granted : g[1] < made

\* A setup that succeeded and a cookie's key are on disk, unless the operator
\* removed them or a power cut did.
EraInv ==
    cuts = 0 => /\ \A k \in setups : k > era => InFile(k)
                /\ \A ck \in cookies : ck.key > era => InFile(ck.key)

\* The codes that a restart would forget to have accepted.
Unsaved == {g \in granted : InFile(g[1]) /\ g[2] > path.data.last}

\* Each of them is owed to a failed save, as was each replay.
ReplayInv ==
    /\ IsFiniteSet(granted)
    /\ cuts = 0 => replays + Cardinality(Unsaved) <= losses

AuthInv == TypeOK /\ FilesInv /\ MemInv /\ KeysInv /\ EraInv /\ ReplayInv

LEMMA Numbers ==
    /\ MaxClk \in Nat /\ Skew \in Nat /\ TTL \in Nat /\ MaxAccounts \in Nat /\ MaxLosses \in Nat
    /\ \A s \in Steps : s \in Nat
    /\ 0 \in Steps
BY AuthAssumption DEF Steps

LEMMA AccountFields ==
    ASSUME NEW a \in Accounts
    PROVE  /\ a.key \in Nat /\ a.key \in 1 .. MaxAccounts /\ a.last \in Steps /\ a.last \in Nat
           /\ a # None /\ a # Absent /\ a # Torn
BY Numbers, NoAccount DEF Accounts

LEMMA NotAccounts == Absent \notin Accounts /\ Torn \notin Accounts /\ None \notin Accounts
BY NoAccount

LEMMA OpFields ==
    ASSUME NEW o \in Ops
    PROVE  /\ o.kind \in {"setup", "login"} /\ o.step \in Steps
           /\ o.at \in {"open", "write", "sync", "rename"} /\ o # None
BY NoAccount DEF Ops

LEMMA FileFields ==
    ASSUME NEW d \in Accounts \cup {Absent, Torn}, NEW b \in BOOLEAN
    PROVE  File(d, b) \in Files /\ File(d, b).data = d /\ File(d, b).synced = b
BY DEF File, Files

LEMMA InitInv == Init => AuthInv
<1> SUFFICES ASSUME Init PROVE AuthInv
  OBVIOUS
<1>1. /\ path \in Files /\ path.data = Absent /\ path.synced = TRUE
      /\ tmp = path /\ durable = path
  BY FileFields DEF Init
<1>2. TypeOK
  <2>1. acc \in Accounts \cup {None} /\ state \in {"up", "down", "refused"}
        /\ op \in {None} \cup Ops /\ clk \in Clock
    BY DEF Init
  <2>2. /\ made \in 0 .. MaxAccounts /\ era \in 0 .. MaxAccounts
        /\ replays \in Nat /\ losses \in Nat /\ cuts \in Nat /\ losses + cuts <= MaxLosses
    BY Numbers DEF Init
  <2>3. req \in [Reqs -> {"idle", "saving", "issuing"}]
    BY DEF Init
  <2>4. /\ setups \subseteq 1 .. MaxAccounts
        /\ cookies \subseteq [key : 1 .. MaxAccounts, exp : 0 .. MaxClk + TTL]
        /\ granted \subseteq (1 .. MaxAccounts) \X Steps
    BY DEF Init
  <2>5. QED
    BY <1>1, <2>1, <2>2, <2>3, <2>4 DEF TypeOK
<1>3. FilesInv
  <2>1. op = None /\ state = "up"
    BY DEF Init
  <2>2. path.data # Torn
    BY <1>1, NoAccount
  <2>3. QED
    BY <1>1, <2>1, <2>2 DEF FilesInv, At
<1>4. MemInv
  BY <1>1 DEF Init, MemInv, Busy
<1>5. KeysInv /\ EraInv
  <2>1. /\ acc = None /\ op = None /\ made = 0 /\ era = 0
        /\ setups = {} /\ cookies = {} /\ granted = {}
    BY DEF Init
  <2>2. \A a \in {acc, path.data, durable.data} : a \notin Accounts
    BY <1>1, <2>1, NotAccounts
  <2>3. QED
    BY <2>1, <2>2 DEF KeysInv, EraInv, Busy
<1>6. ReplayInv
  <2>1. Unsaved = {} /\ granted = {}
    BY DEF Init, Unsaved
  <2>2. QED
    BY <2>1, FS_EmptySet DEF Init, ReplayInv
<1>7. QED
  BY <1>2, <1>3, <1>4, <1>5, <1>6 DEF AuthInv

-----------------------------------------------------------------------------
(* What steps share.                                                       *)

\* A step that touches neither the file nor what is known of it.
LEMMA FileKept ==
    ASSUME AuthInv, UNCHANGED <<path, era, setups, cookies, granted, replays, losses, cuts>>
    PROVE  EraInv' /\ ReplayInv'
<1>1. Unsaved' = Unsaved
  BY DEF Unsaved, InFile
<1>2. EraInv'
  BY DEF AuthInv, EraInv, InFile
<1>3. ReplayInv'
  BY <1>1 DEF AuthInv, ReplayInv
<1>4. QED
  BY <1>2, <1>3

\* A step of a request or of the clock.
LEMMA OnlyRequestsMove ==
    ASSUME AuthInv, TypeOK', UNCHANGED <<state, acc, op, fileVars, histVars>>
    PROVE  AuthInv'
<1>1. EraInv' /\ ReplayInv'
  BY FileKept DEF fileVars, histVars
<1>2. FilesInv'
  BY DEF AuthInv, FilesInv, At, fileVars
<1>3. MemInv'
  BY DEF AuthInv, MemInv, Busy, InFile, fileVars, histVars
<1>4. KeysInv'
  BY DEF AuthInv, KeysInv, Busy, fileVars, histVars
<1>5. QED
  BY <1>1, <1>2, <1>3, <1>4 DEF AuthInv

\* An accepted code is for a step the clock can reach, after the last one.
LEMMA AcceptedStep ==
    ASSUME NEW code, NEW t \in Clock, NEW last \in Nat, NEW s \in First(Matches(code, t, last))
    PROVE  s \in Steps /\ s \in Nat /\ last < s
<1>1. s \in t - Skew .. t + Skew /\ s >= 0 /\ s > last
  BY DEF First, Matches
<1>2. QED
  BY <1>1, Numbers DEF Clock, Steps

-----------------------------------------------------------------------------
(* Setup, login and cookie.                                                *)

LEMMA SetupKeeps ==
    ASSUME AuthInv, NEW r \in Reqs, NEW totp \in BOOLEAN, NEW code, Setup(r, totp, code)
    PROVE  AuthInv'
<1> USE DEF fileVars
<1>1. TypeOK /\ acc = None /\ op = None /\ state = "up" /\ path.data = Absent
  BY DEF AuthInv, MemInv, Setup, Lock
<1>2. made \in Nat /\ made + 1 \in 1 .. MaxAccounts /\ made' = made + 1
  BY <1>1, Numbers DEF Setup, TypeOK
<1>3. PICK step \in IF totp THEN First(Matches(code, clk, 0)) ELSE {0} :
         /\ op' = [kind |-> "setup", at |-> "open", step |-> step]
         /\ req' = [req EXCEPT ![r] = "saving"]
         /\ acc' = [key |-> made + 1, totp |-> totp, last |-> step]
  BY DEF Setup, Lock
<1>4. step \in Steps
  BY <1>1, <1>3, Numbers, AcceptedStep DEF TypeOK
<1>5. /\ op' \in Ops /\ op' # None /\ op'.kind = "setup" /\ op'.at = "open"
      /\ op'.step = step
  BY <1>3, <1>4, OpFields DEF Ops
<1>6. acc' \in Accounts /\ acc'.key = made + 1 /\ acc'.last = step
  BY <1>2, <1>3, <1>4 DEF Accounts
<1>7. TypeOK'
  <2>1. req' \in [Reqs -> {"idle", "saving", "issuing"}]
    BY <1>1, <1>3 DEF TypeOK
  <2>2. made' \in 0 .. MaxAccounts
    BY <1>2, Numbers
  <2>3. QED
    BY <1>1, <1>5, <1>6, <2>1, <2>2 DEF TypeOK, Setup
<1>8. EraInv' /\ ReplayInv'
  BY FileKept DEF Setup
<1>9. FilesInv'
  BY <1>5 DEF AuthInv, FilesInv, At, Setup
<1>10. MemInv'
  BY <1>1, <1>2, <1>5, <1>6 DEF MemInv, Busy, Setup
<1>11. KeysInv'
  <2>1. /\ era \in Nat /\ setups \subseteq Nat /\ \A ck \in cookies : ck.key \in Nat
        /\ \A g \in granted : g[1] \in Nat
    BY <1>1, Numbers DEF TypeOK
  <2>2. path.data \notin Accounts /\ (durable.data \in Accounts => durable.data.key \in Nat)
    BY <1>1, NotAccounts, AccountFields
  <2>3. QED
    BY <1>2, <1>6, <2>1, <2>2 DEF AuthInv, KeysInv, Busy, Setup
<1>12. QED
  BY <1>7, <1>8, <1>9, <1>10, <1>11 DEF AuthInv

LEMMA LoginTotpKeeps ==
    ASSUME AuthInv, NEW r \in Reqs, NEW code, LoginTotp(r, code)
    PROVE  AuthInv'
<1> USE DEF fileVars, histVars
<1>1. TypeOK /\ op = None /\ state = "up" /\ acc \in Accounts /\ acc.totp
  BY DEF AuthInv, TypeOK, LoginTotp, Lock
<1>2. InFile(acc.key) /\ path.data.last <= acc.last /\ path.data.last \in Nat /\ acc.last \in Nat
  BY <1>1, AccountFields DEF AuthInv, MemInv, Busy, InFile
<1>3. PICK step \in First(Matches(code, clk, acc.last)) :
         /\ op' = [kind |-> "login", at |-> "open", step |-> step]
         /\ req' = [req EXCEPT ![r] = "saving"]
         /\ acc' = [acc EXCEPT !.last = step]
  BY DEF LoginTotp, Lock
<1>4. step \in Steps /\ step \in Nat /\ acc.last < step
  BY <1>1, <1>2, <1>3, AcceptedStep DEF TypeOK
<1>5. /\ op' \in Ops /\ op' # None /\ op'.kind = "login" /\ op'.at = "open"
      /\ op'.step = step
  BY <1>3, <1>4, OpFields DEF Ops
<1>6. /\ acc' \in Accounts /\ acc'.key = acc.key /\ acc'.last = step /\ acc'.totp = acc.totp
      /\ acc' # None
  BY <1>1, <1>3, <1>4, NotAccounts DEF Accounts
<1>7. TypeOK'
  <2>1. req' \in [Reqs -> {"idle", "saving", "issuing"}]
    BY <1>1, <1>3 DEF TypeOK
  <2>2. QED
    BY <1>1, <1>5, <1>6, <2>1 DEF TypeOK, LoginTotp
<1>8. EraInv' /\ ReplayInv'
  BY FileKept DEF LoginTotp
<1>9. FilesInv'
  BY <1>5 DEF AuthInv, FilesInv, At, LoginTotp
<1>10. MemInv'
  <2>1. path.data.last < step
    BY <1>2, <1>4
  <2>2. /\ path' = path /\ path.data \in Accounts /\ path.data.key = acc'.key
        /\ state' = "up"
    BY <1>1, <1>2, <1>6 DEF InFile, LoginTotp
  <2>3. QED
    BY <1>1, <1>2, <1>4, <1>5, <1>6, <2>1, <2>2 DEF MemInv, Busy, InFile
<1>11. KeysInv'
  BY <1>1, <1>5, <1>6 DEF AuthInv, KeysInv, Busy, LoginTotp
<1>12. QED
  BY <1>7, <1>8, <1>9, <1>10, <1>11 DEF AuthInv

LEMMA LoginPlainKeeps ==
    ASSUME AuthInv, NEW r \in Reqs, LoginPlain(r)
    PROVE  AuthInv'
<1>1. TypeOK'
  BY DEF AuthInv, TypeOK, LoginPlain, fileVars, histVars
<1>2. QED
  BY <1>1, OnlyRequestsMove DEF LoginPlain

\* A cookie is signed with the key of the account in memory, which is on disk.
LEMMA IssueKeeps ==
    ASSUME AuthInv, NEW r \in Reqs, Issue(r)
    PROVE  AuthInv'
<1> USE DEF fileVars
<1>1. TypeOK /\ op = None /\ state = "up" /\ clk \in Nat
  BY Numbers DEF AuthInv, TypeOK, Issue, Clock
<1>2. CASE acc = None
  <2>1. UNCHANGED <<state, acc, op, fileVars, histVars>>
    BY <1>2 DEF Issue, histVars
  <2>2. TypeOK'
    BY <1>1, <2>1 DEF TypeOK, Issue, histVars
  <2>3. QED
    BY <2>1, <2>2, OnlyRequestsMove
<1>3. CASE acc # None
  <2> DEFINE ck == [key |-> acc.key, exp |-> clk + TTL]
  <2>1. cookies' = cookies \cup {ck} /\ acc \in Accounts /\ ck.key = acc.key
    BY <1>1, <1>3 DEF Issue, TypeOK
  <2>2. ck \in [key : 1 .. MaxAccounts, exp : 0 .. MaxClk + TTL]
    BY <1>1, <2>1, AccountFields, Numbers DEF TypeOK, Clock
  <2>3. InFile(acc.key) /\ acc.key <= made
    BY <1>1, <1>3, <2>1 DEF AuthInv, MemInv, KeysInv, Busy
  <2> HIDE DEF ck
  <2>4. TypeOK'
    BY <1>1, <2>1, <2>2 DEF TypeOK, Issue
  <2>5. ReplayInv'
    <3>1. Unsaved' = Unsaved
      BY DEF Unsaved, InFile, Issue
    <3>2. QED
      BY <3>1 DEF AuthInv, ReplayInv, Issue
  <2>6. EraInv'
    BY <2>1, <2>3 DEF AuthInv, EraInv, InFile, Issue
  <2>7. FilesInv' /\ MemInv'
    BY DEF AuthInv, FilesInv, MemInv, At, Busy, InFile, Issue
  <2>8. KeysInv'
    BY <1>1, <2>1, <2>3 DEF AuthInv, KeysInv, Busy, Issue
  <2>9. QED
    BY <2>4, <2>5, <2>6, <2>7, <2>8 DEF AuthInv
<1>4. QED
  BY <1>2, <1>3

-----------------------------------------------------------------------------
(* The save.                                                               *)

\* The operation under way.
LEMMA Saving ==
    ASSUME AuthInv, op # None
    PROVE  /\ TypeOK /\ state = "up" /\ op \in Ops /\ op.kind \in {"setup", "login"}
           /\ acc \in Accounts /\ acc # None /\ op.step = acc.last
           /\ acc.key \in Nat /\ acc.last \in Nat /\ acc.key <= made
           /\ <<acc.key, op.step>> \in (1 .. MaxAccounts) \X Steps
<1>1. TypeOK /\ state = "up" /\ op \in Ops /\ acc \in Accounts /\ op.step = acc.last
  BY DEF AuthInv, TypeOK, MemInv
<1>2. acc.key <= made
  BY <1>1 DEF AuthInv, KeysInv
<1>3. QED
  BY <1>1, <1>2, OpFields, AccountFields

\* A step within the save: the file and the account stay as they are.
LEMMA SaveGoesOn ==
    ASSUME AuthInv, op # None, NEW p \in {"write", "sync", "rename"}, Go(p),
           tmp' \in Files, p \in {"sync", "rename"} => tmp'.data = acc,
           p = "rename" => tmp'.synced = TRUE,
           UNCHANGED <<clk, state, acc, req, path, durable, histVars>>
    PROVE  AuthInv'
<1> USE DEF histVars
<1>1. TypeOK /\ op \in Ops
  BY Saving
<1>2. /\ op' \in Ops /\ op' # None /\ op'.at = p /\ op'.kind = op.kind
      /\ op'.step = op.step
  BY <1>1, OpFields DEF Go, Ops
<1>3. TypeOK'
  BY <1>1, <1>2 DEF TypeOK
<1>4. EraInv' /\ ReplayInv'
  BY FileKept
<1>5. FilesInv'
  BY <1>2 DEF AuthInv, FilesInv, At
<1>6. MemInv'
  BY <1>2 DEF AuthInv, MemInv, Busy, InFile
<1>7. KeysInv'
  BY <1>2 DEF AuthInv, KeysInv, Busy
<1>8. QED
  BY <1>3, <1>4, <1>5, <1>6, <1>7 DEF AuthInv

\* What counts of a call that returns nil is typed.
LEMMA SucceedTyped ==
    ASSUME AuthInv, op # None, Succeed
    PROVE  /\ op' = None
           /\ req' \in [Reqs -> {"idle", "saving", "issuing"}]
           /\ setups' \subseteq 1 .. MaxAccounts
           /\ \A k \in setups' : k \in setups \/ (k = acc.key /\ op.kind = "setup")
           /\ granted' \subseteq (1 .. MaxAccounts) \X Steps
           /\ \A g \in granted' : g \in granted \/ g = <<acc.key, op.step>>
           /\ replays' \in Nat
           /\ IsFiniteSet(granted')
<1>1. TypeOK /\ acc \in Accounts /\ acc.key \in 1 .. MaxAccounts
      /\ <<acc.key, op.step>> \in (1 .. MaxAccounts) \X Steps
  BY Saving, AccountFields
<1>2. req' \in [Reqs -> {"idle", "saving", "issuing"}]
  BY <1>1 DEF Succeed, TypeOK
<1>3. /\ setups' \subseteq 1 .. MaxAccounts
      /\ \A k \in setups' : k \in setups \/ (k = acc.key /\ op.kind = "setup")
  <2>1. setups \subseteq 1 .. MaxAccounts
    BY <1>1 DEF TypeOK
  <2>2. CASE op.kind = "setup"
    <3>1. setups' = setups \cup {acc.key}
      BY <2>2 DEF Succeed
    <3>2. QED
      BY <1>1, <2>1, <2>2, <3>1, Zenon
  <2>3. CASE op.kind # "setup"
    <3>1. setups' = setups
      BY <2>3 DEF Succeed
    <3>2. QED
      BY <2>1, <3>1
  <2>4. QED
    BY <2>2, <2>3
<1>4. /\ granted' \subseteq (1 .. MaxAccounts) \X Steps
      /\ \A g \in granted' : g \in granted \/ g = <<acc.key, op.step>>
  <2>1. granted \subseteq (1 .. MaxAccounts) \X Steps
    BY <1>1 DEF TypeOK
  <2>2. granted' = granted \cup {<<acc.key, op.step>>} \/ granted' = granted
    BY DEF Succeed
  <2>3. QED
    BY <1>1, <2>1, <2>2, Zenon
<1>5. replays' \in Nat
  BY <1>1 DEF Succeed, TypeOK
<1>6. IsFiniteSet(granted')
  <2>1. IsFiniteSet(granted)
    BY DEF AuthInv, ReplayInv
  <2>2. IsFiniteSet(granted \cup {<<acc.key, op.step>>})
    BY <2>1, FS_AddElement, Zenon
  <2>3. QED
    BY <2>1, <2>2, Zenon DEF Succeed
<1>7. QED
  BY <1>2, <1>3, <1>4, <1>5, <1>6 DEF Succeed

LEMMA UnsavedFinite ==
    ASSUME AuthInv
    PROVE  IsFiniteSet(granted) /\ IsFiniteSet(Unsaved) /\ Cardinality(Unsaved) \in Nat
<1>1. IsFiniteSet(granted) /\ Unsaved \in SUBSET granted
  BY DEF AuthInv, ReplayInv, Unsaved
<1>2. QED
  BY <1>1, FS_Subset, FS_CardinalityType, Zenon

\* A setup that cannot be saved is forgotten.
LEMMA SetupFails ==
    ASSUME AuthInv, op # None, op.kind = "setup", Fail, tmp' \in Files,
           UNCHANGED <<clk, state, path, durable, made, era, cookies>>
    PROVE  AuthInv'
<1>1. TypeOK /\ state = "up" /\ path.data = Absent
  BY Saving DEF AuthInv, MemInv, Busy
<1>2. /\ op' = None /\ acc' = None /\ UNCHANGED <<setups, granted, replays, cuts>>
      /\ losses' = losses + 1 /\ losses + cuts < MaxLosses
  BY DEF Fail
<1>3. losses \in Nat /\ cuts \in Nat /\ replays \in Nat
  BY <1>1 DEF TypeOK
<1>4. TypeOK'
  <2>1. req' \in [Reqs -> {"idle", "saving", "issuing"}]
    BY <1>1 DEF Fail, TypeOK
  <2>2. losses' \in Nat /\ losses' + cuts' <= MaxLosses
    BY <1>2, <1>3, Numbers
  <2>3. QED
    BY <1>1, <1>2, <2>1, <2>2 DEF TypeOK
<1>5. ReplayInv'
  <2>1. Unsaved' = Unsaved
    BY <1>2 DEF Unsaved, InFile
  <2>2. QED
    BY <1>2, <1>3, <2>1, UnsavedFinite DEF AuthInv, ReplayInv
<1>6. EraInv'
  BY <1>2 DEF AuthInv, EraInv, InFile
<1>7. FilesInv' /\ MemInv'
  BY <1>1, <1>2 DEF AuthInv, FilesInv, MemInv, At, Busy
<1>8. KeysInv'
  BY <1>2, NotAccounts DEF AuthInv, KeysInv, Busy
<1>9. QED
  BY <1>4, <1>5, <1>6, <1>7, <1>8 DEF AuthInv

\* A login whose save fails succeeds: one more code is owed to a failure, or one
\* that was owed has been accepted again.
LEMMA LoginUnsaved ==
    ASSUME AuthInv, op # None, op.kind = "login", Fail, tmp' \in Files,
           UNCHANGED <<clk, state, path, durable, made, era, cookies>>
    PROVE  AuthInv'
<1> DEFINE x == <<acc.key, op.step>>
<1>1. /\ TypeOK /\ state = "up" /\ acc \in Accounts /\ acc # None /\ op.step = acc.last
      /\ acc.key <= made /\ acc.last \in Nat
  BY Saving
<1>2. /\ acc.totp /\ InFile(acc.key)
      /\ path.data.last < acc.last /\ path.data.last <= acc.last
  BY <1>1 DEF AuthInv, MemInv, Busy
<1>3. /\ Succeed /\ acc' = acc /\ cuts' = cuts
      /\ losses' = losses + 1 /\ losses + cuts < MaxLosses
  BY DEF Fail
<1>4. /\ op' = None /\ setups' = setups /\ granted' = granted \cup {x}
      /\ replays' = IF x \in granted THEN replays + 1 ELSE replays
  BY <1>2, <1>3 DEF Succeed
<1>5. losses \in Nat /\ cuts \in Nat /\ replays \in Nat /\ replays' \in Nat
  BY <1>1, <1>3, SucceedTyped DEF TypeOK
<1>6. TypeOK'
  <2>1. losses' \in Nat /\ losses' + cuts' <= MaxLosses
    BY <1>3, <1>5, Numbers
  <2>2. QED
    BY <1>1, <1>3, <1>5, <2>1, SucceedTyped DEF TypeOK
<1>7. ReplayInv'
  <2>1. Unsaved' = Unsaved \cup {x}
    <3>1. x[1] = acc.key /\ x[2] = acc.last
      BY <1>1
    <3> HIDE DEF x
    <3>2. \A g : g \in Unsaved' <=> g \in Unsaved \/ g = x
      BY <1>1, <1>2, <1>4, <3>1 DEF Unsaved, InFile, AuthInv, MemInv
    <3>3. QED
      BY <3>2
  <2>2. x \in granted => x \in Unsaved
    BY <1>1, <1>2 DEF Unsaved
  <2> HIDE DEF x
  <2>3. /\ Cardinality(Unsaved') = IF x \in Unsaved THEN Cardinality(Unsaved)
                                                  ELSE Cardinality(Unsaved) + 1
        /\ Cardinality(Unsaved) \in Nat
    BY <2>1, UnsavedFinite, FS_AddElement
  <2>4. cuts' = 0 => replays + Cardinality(Unsaved) <= losses
    BY <1>3 DEF AuthInv, ReplayInv
  <2>5. cuts' = 0 => replays' + Cardinality(Unsaved') <= losses'
    BY <1>3, <1>4, <1>5, <2>2, <2>3, <2>4
  <2>6. QED
    BY <1>3, <2>5, SucceedTyped DEF ReplayInv
<1>8. EraInv'
  BY <1>3, <1>4 DEF AuthInv, EraInv, InFile
<1>9. FilesInv'
  BY <1>4 DEF AuthInv, FilesInv, At
<1>10. MemInv'
  BY <1>1, <1>2, <1>3, <1>4 DEF MemInv, Busy, InFile
<1>11. KeysInv'
  BY <1>1, <1>3, <1>4 DEF AuthInv, KeysInv, Busy
<1>12. QED
  BY <1>6, <1>7, <1>8, <1>9, <1>10, <1>11 DEF AuthInv

LEMMA FailKeeps ==
    ASSUME AuthInv, op # None, Fail, tmp' \in Files,
           UNCHANGED <<clk, state, path, durable, made, era, cookies>>
    PROVE  AuthInv'
BY Saving, SetupFails, LoginUnsaved

\* The renamed file holds the account in memory and the step it accepted, so
\* nothing of this account that was owed to a failure and is not newer stays so.
LEMMA RenameKeeps ==
    ASSUME AuthInv, At("rename"), path' = tmp, tmp' = File(Absent, TRUE), Succeed,
           UNCHANGED <<acc, losses, cuts, durable, clk, state, made, era, cookies>>
    PROVE  AuthInv'
<1> DEFINE x == <<acc.key, op.step>>
<1>1. /\ op # None /\ TypeOK /\ state = "up" /\ acc \in Accounts /\ acc # None
      /\ op.step = acc.last /\ acc.key <= made /\ acc.key \in Nat /\ acc.last \in Nat
      /\ op.kind \in {"setup", "login"}
  BY Saving DEF At
<1>2. path'.data = acc /\ path'.synced = TRUE /\ path' \in Files /\ tmp' \in Files
  BY <1>1, FileFields DEF AuthInv, FilesInv, TypeOK
<1>3. InFile(acc.key)' /\ \A k : InFile(k)' <=> k = acc.key
  BY <1>1, <1>2 DEF InFile
<1>4. op' = None
  BY <1>1, SucceedTyped
<1>5. TypeOK'
  BY <1>1, <1>2, SucceedTyped DEF TypeOK
<1>6. FilesInv'
  BY <1>1, <1>2, <1>4, AccountFields DEF AuthInv, FilesInv, At
<1>7. MemInv'
  BY <1>1, <1>2, <1>4, <1>3 DEF MemInv, Busy
<1>8. KeysInv'
  <2>1. /\ \A k \in setups' : k <= made
        /\ \A g \in granted' : g[1] <= made
    BY <1>1, SucceedTyped DEF AuthInv, KeysInv
  <2>2. QED
    BY <1>1, <1>2, <1>4, <2>1 DEF AuthInv, KeysInv, Busy
<1>9. EraInv'
  <2>1. CASE op.kind = "setup"
    <3>1. path.data \notin Accounts
      BY <1>1, <2>1, NotAccounts DEF AuthInv, MemInv, Busy
    <3>2. cuts = 0 => /\ \A k \in setups' : k > era => k = acc.key
                      /\ \A ck \in cookies : ~(ck.key > era)
      BY <1>1, <3>1, SucceedTyped DEF AuthInv, EraInv, InFile
    <3>3. QED
      BY <1>3, <3>2 DEF EraInv
  <2>2. CASE op.kind = "login"
    <3>1. \A k : InFile(k) <=> k = acc.key
      BY <1>1, <2>2 DEF AuthInv, MemInv, Busy, InFile
    <3>2. \A k \in setups' : k \in setups
      BY <1>1, <2>2, SucceedTyped
    <3>3. QED
      BY <1>3, <3>1, <3>2 DEF AuthInv, EraInv
  <2>3. QED
    BY <1>1, <2>1, <2>2
<1>10. ReplayInv'
  <2>1. Unsaved' = {g \in granted' : g[1] = acc.key /\ g[2] > acc.last}
    BY <1>2, <1>3 DEF Unsaved
  <2>2. x[1] = acc.key /\ x[2] = acc.last
    BY <1>1
  <2>3. \A g \in granted' : g \in granted \/ g = x
    BY <1>1, SucceedTyped
  <2>4. \A g \in granted : g[1] \in Nat /\ g[2] \in Nat
    BY <1>1, Numbers DEF TypeOK
  <2>5. replays' = replays \/ (x \in granted /\ replays' = replays + 1)
    BY DEF Succeed
  <2>6. granted \subseteq granted'
    BY DEF Succeed
  <2> HIDE DEF x
  <2>7. /\ IsFiniteSet(Unsaved) /\ Cardinality(Unsaved) \in Nat
        /\ IsFiniteSet(granted')
    BY <1>1, UnsavedFinite, SucceedTyped
  <2>8. CASE op.kind = "setup"
    <3>1. /\ path.data \notin Accounts /\ acc.key = made
          /\ \A g \in granted : g[1] < made
      BY <1>1, <2>8, NotAccounts DEF AuthInv, MemInv, KeysInv, Busy
    <3>2. Unsaved = {}
      BY <3>1 DEF Unsaved, InFile
    <3>3. Unsaved' = {}
      BY <1>1, <2>1, <2>2, <2>3, <2>4, <3>1
    <3>4. x \notin granted
      BY <1>1, <2>2, <2>4, <3>1
    <3>5. QED
      BY <2>5, <2>7, <3>2, <3>3, <3>4 DEF AuthInv, ReplayInv
  <2>9. CASE op.kind = "login"
    <3>1. /\ InFile(acc.key) /\ path.data.key = acc.key /\ path.data.last < acc.last
          /\ path.data.last \in Nat
      BY <1>1, <2>9, AccountFields DEF AuthInv, MemInv, Busy, InFile
    <3>2. Unsaved' \in SUBSET (Unsaved \ {x})
      BY <1>1, <2>1, <2>2, <2>3, <2>4, <3>1 DEF Unsaved
    <3>3. x \in granted => x \in Unsaved
      BY <2>2, <3>1 DEF Unsaved
    <3>4. /\ IsFiniteSet(Unsaved \ {x})
          /\ Cardinality(Unsaved \ {x}) = IF x \in Unsaved THEN Cardinality(Unsaved) - 1
                                                           ELSE Cardinality(Unsaved)
      BY <2>7, FS_RemoveElement
    <3>5. /\ Cardinality(Unsaved') <= Cardinality(Unsaved \ {x})
          /\ Cardinality(Unsaved') \in Nat
      BY <3>2, <3>4, FS_Subset, FS_CardinalityType
    <3>6. replays \in Nat /\ losses \in Nat
      BY <1>1 DEF TypeOK
    <3>7. cuts = 0 => replays + Cardinality(Unsaved) <= losses
      BY DEF AuthInv, ReplayInv
    <3>8. cuts = 0 => replays' + Cardinality(Unsaved') <= losses
      BY <2>5, <2>7, <3>3, <3>4, <3>5, <3>6, <3>7
    <3>9. QED
      BY <2>7, <3>8 DEF ReplayInv
  <2>10. QED
    BY <1>1, <2>8, <2>9
<1>11. QED
  BY <1>5, <1>6, <1>7, <1>8, <1>9, <1>10 DEF AuthInv

LEMMA SaveKeeps ==
    ASSUME AuthInv, Save
    PROVE  AuthInv'
<1>1. op # None /\ UNCHANGED <<clk, state, made, era, cookies>>
  BY DEF Save, SaveOpen, SaveWrite, SaveSync, SaveRename, At
<1>2. acc \in Accounts /\ TypeOK /\ tmp \in Files
  BY <1>1, Saving DEF TypeOK
<1>3. \A b \in BOOLEAN : /\ File(Torn, b) \in Files /\ File(Absent, b) \in Files
                         /\ File(acc, b) \in Files /\ File(acc, b).data = acc
  BY <1>2, FileFields
<1>4. CASE SaveOpen
  <2>1. CASE /\ tmp' = File(Torn, FALSE) /\ Go("write")
             /\ UNCHANGED <<acc, req, setups, granted, replays, losses, cuts>>
    BY <1>1, <1>3, <1>4, <2>1, SaveGoesOn DEF SaveOpen, histVars
  <2>2. CASE Fail /\ tmp' = tmp
    BY <1>1, <1>2, <1>4, <2>2, FailKeeps DEF SaveOpen
  <2>3. QED
    BY <1>4, <2>1, <2>2 DEF SaveOpen
<1>5. CASE SaveWrite
  <2>1. CASE /\ tmp' = File(acc, FALSE) /\ Go("sync")
             /\ UNCHANGED <<acc, req, setups, granted, replays, losses, cuts>>
    BY <1>1, <1>3, <1>5, <2>1, SaveGoesOn DEF SaveWrite, histVars
  <2>2. CASE Fail /\ tmp' = File(Absent, TRUE)
    BY <1>1, <1>3, <1>5, <2>2, FailKeeps DEF SaveWrite
  <2>3. QED
    BY <1>5, <2>1, <2>2 DEF SaveWrite
<1>6. CASE SaveSync
  <2>1. tmp.data = acc
    BY <1>6 DEF AuthInv, FilesInv, SaveSync
  <2>2. CASE /\ tmp' = File(tmp.data, TRUE) /\ Go("rename")
             /\ UNCHANGED <<acc, req, setups, granted, replays, losses, cuts>>
    <3>1. tmp' \in Files /\ tmp'.data = acc /\ tmp'.synced = TRUE
      BY <1>2, <2>1, <2>2, FileFields
    <3>2. QED
      BY <1>1, <1>6, <2>2, <3>1, SaveGoesOn DEF SaveSync, histVars
  <2>3. CASE Fail /\ tmp' = File(Absent, TRUE)
    BY <1>1, <1>3, <1>6, <2>3, FailKeeps DEF SaveSync
  <2>4. QED
    BY <1>6, <2>2, <2>3 DEF SaveSync
<1>7. CASE SaveRename
  <2>1. CASE /\ path' = tmp /\ tmp' = File(Absent, TRUE) /\ Succeed
             /\ UNCHANGED <<acc, losses, cuts>>
    BY <1>1, <1>7, <2>1, RenameKeeps DEF SaveRename
  <2>2. CASE Fail /\ UNCHANGED <<path, tmp>>
    BY <1>1, <1>2, <1>7, <2>2, FailKeeps DEF SaveRename
  <2>3. QED
    BY <1>7, <2>1, <2>2 DEF SaveRename
<1>8. QED
  BY <1>4, <1>5, <1>6, <1>7 DEF Save

-----------------------------------------------------------------------------
(* The process, the board, the operator, the clock.                        *)

LEMMA CrashKeeps ==
    ASSUME AuthInv, Crash
    PROVE  AuthInv'
<1> USE DEF fileVars, histVars
<1>1. state' = "down" /\ acc' = None /\ op' = None
      /\ UNCHANGED <<clk, path, tmp, durable, made, era, setups, cookies, granted, replays, losses, cuts>>
  BY DEF Crash, Stop
<1>2. TypeOK'
  BY <1>1 DEF AuthInv, TypeOK, Crash, Stop
<1>3. EraInv' /\ ReplayInv'
  BY <1>1, FileKept
<1>4. FilesInv' /\ MemInv'
  BY <1>1 DEF AuthInv, FilesInv, MemInv, At, Busy
<1>5. KeysInv'
  BY <1>1, NotAccounts DEF AuthInv, KeysInv, Busy
<1>6. QED
  BY <1>2, <1>3, <1>4, <1>5 DEF AuthInv

\* A service that starts finds a whole file or none.
LEMMA StartKeeps ==
    ASSUME AuthInv, Start
    PROVE  AuthInv'
<1> USE DEF fileVars, histVars
<1>1. TypeOK /\ op = None /\ path.data # Torn /\ path.data \in Accounts \cup {Absent}
  BY DEF AuthInv, TypeOK, Files, FilesInv, MemInv, Start
<1>2. /\ state' = "up" /\ acc' = IF path.data \in Accounts THEN path.data ELSE None
      /\ UNCHANGED <<clk, req, op, path, tmp, durable, made, era, setups, cookies,
                     granted, replays, losses, cuts>>
  BY <1>1 DEF Start
<1>3. TypeOK'
  BY <1>1, <1>2 DEF TypeOK
<1>4. EraInv' /\ ReplayInv'
  BY <1>2, FileKept
<1>5. FilesInv'
  BY <1>1, <1>2 DEF AuthInv, FilesInv, At
<1>6. MemInv'
  <2>1. CASE path.data \in Accounts
    <3>1. acc' # None /\ InFile(acc'.key) /\ path.data.last <= acc'.last
      BY <1>2, <2>1, AccountFields DEF InFile
    <3>2. QED
      BY <1>1, <1>2, <2>1, <3>1 DEF MemInv, Busy, InFile
  <2>2. CASE path.data \notin Accounts
    BY <1>1, <1>2, <2>2 DEF MemInv, Busy
  <2>3. QED
    BY <2>1, <2>2
<1>7. KeysInv'
  BY <1>1, <1>2, NotAccounts DEF AuthInv, KeysInv, Busy
<1>8. QED
  BY <1>3, <1>4, <1>5, <1>6, <1>7 DEF AuthInv

LEMMA PowerCutKeeps ==
    ASSUME AuthInv, PowerCut
    PROVE  AuthInv'
<1>1. TypeOK /\ durable.data \in Accounts \cup {Absent, Torn}
      /\ durable.data # Torn /\ durable.synced = TRUE
  BY DEF AuthInv, TypeOK, Files, FilesInv
<1>2. /\ path' \in Files /\ path'.data = durable.data /\ path'.synced = TRUE
      /\ durable' = path' /\ tmp' \in Files
  BY <1>1, FileFields DEF PowerCut, Surviving
<1>3. /\ state' = "down" /\ acc' = None /\ op' = None /\ cuts' = cuts + 1
      /\ UNCHANGED <<made, era, setups, cookies, granted, replays, losses>>
      /\ losses + cuts < MaxLosses /\ losses \in Nat /\ cuts \in Nat
  BY <1>1 DEF PowerCut, Stop, TypeOK
<1>4. TypeOK'
  <2>1. req' \in [Reqs -> {"idle", "saving", "issuing"}] /\ clk' \in Clock
    BY DEF PowerCut, Stop
  <2>2. cuts' \in Nat /\ losses' + cuts' <= MaxLosses
    BY <1>3, Numbers
  <2>3. QED
    BY <1>1, <1>2, <1>3, <2>1, <2>2 DEF TypeOK
<1>5. cuts' # 0 /\ IsFiniteSet(granted')
  BY <1>3 DEF AuthInv, ReplayInv
<1>6. FilesInv' /\ MemInv'
  BY <1>1, <1>2, <1>3 DEF FilesInv, MemInv, At, Busy
<1>7. KeysInv'
  BY <1>2, <1>3, NotAccounts DEF AuthInv, KeysInv, Busy
<1>8. QED
  BY <1>4, <1>5, <1>6, <1>7 DEF AuthInv, EraInv, ReplayInv

LEMMA CommitKeeps ==
    ASSUME AuthInv, Commit
    PROVE  AuthInv'
<1> USE DEF histVars
<1>1. EraInv' /\ ReplayInv'
  BY FileKept DEF Commit
<1>2. TypeOK'
  BY DEF AuthInv, TypeOK, Commit
<1>3. FilesInv'
  BY DEF AuthInv, FilesInv, At, Commit
<1>4. MemInv'
  BY DEF AuthInv, MemInv, Busy, InFile, Commit
<1>5. KeysInv'
  BY DEF AuthInv, KeysInv, Busy, Commit
<1>6. QED
  BY <1>1, <1>2, <1>3, <1>4, <1>5 DEF AuthInv

LEMMA OperatorResetKeeps ==
    ASSUME AuthInv, OperatorReset
    PROVE  AuthInv'
<1>1. TypeOK /\ op = None
  BY DEF AuthInv, MemInv, OperatorReset
<1>2. /\ path' \in Files /\ path'.data = Absent /\ path'.synced = TRUE /\ durable' = path'
  BY FileFields DEF OperatorReset
<1>3. era' = made /\ UNCHANGED <<clk, state, acc, req, op, tmp, made, setups, cookies,
                                 granted, replays, losses, cuts>>
  BY DEF OperatorReset
<1>4. TypeOK'
  BY <1>1, <1>2, <1>3 DEF TypeOK
<1>5. FilesInv'
  BY <1>1, <1>2, <1>3, NoAccount DEF AuthInv, FilesInv, At
<1>6. MemInv'
  BY <1>1, <1>3 DEF MemInv, Busy, OperatorReset
<1>7. KeysInv'
  <2>1. made <= made
    BY <1>1 DEF TypeOK
  <2>2. QED
    BY <1>1, <1>2, <1>3, <2>1, NotAccounts DEF AuthInv, KeysInv, Busy
<1>8. EraInv'
  <2>1. made \in Nat /\ setups \subseteq Nat /\ \A ck \in cookies : ck.key \in Nat
    BY <1>1, Numbers DEF TypeOK
  <2>2. /\ \A k \in setups : ~(k > made)
        /\ \A ck \in cookies : ~(ck.key > made)
    BY <2>1 DEF AuthInv, KeysInv
  <2>3. QED
    BY <1>3, <2>2 DEF EraInv
<1>9. ReplayInv'
  <2>1. Unsaved' = {}
    BY <1>2, NotAccounts DEF Unsaved, InFile
  <2>2. Cardinality(Unsaved') = 0
    BY <2>1, FS_EmptySet
  <2>3. replays \in Nat /\ losses \in Nat
    BY <1>1 DEF TypeOK
  <2>4. QED
    BY <1>3, <2>2, <2>3, UnsavedFinite DEF AuthInv, ReplayInv
<1>10. QED
  BY <1>4, <1>5, <1>6, <1>7, <1>8, <1>9 DEF AuthInv

LEMMA SetClockKeeps ==
    ASSUME AuthInv, SetClock
    PROVE  AuthInv'
<1>1. TypeOK'
  BY DEF AuthInv, TypeOK, SetClock, fileVars, histVars
<1>2. QED
  BY <1>1, OnlyRequestsMove DEF SetClock

LEMMA NextInv == AuthInv /\ [Next]_vars => AuthInv'
<1> SUFFICES ASSUME AuthInv, [Next]_vars PROVE AuthInv'
  OBVIOUS
<1>1. ASSUME NEW r \in Reqs, NEW totp \in BOOLEAN, NEW code, Setup(r, totp, code)
      PROVE  AuthInv'
  BY <1>1, SetupKeeps
<1>2. ASSUME NEW r \in Reqs, NEW code, LoginTotp(r, code)
      PROVE  AuthInv'
  BY <1>2, LoginTotpKeeps
<1>3. ASSUME NEW r \in Reqs, LoginPlain(r) \/ Issue(r)
      PROVE  AuthInv'
  BY <1>3, LoginPlainKeeps, IssueKeeps
<1>4. CASE Save
  BY <1>4, SaveKeeps
<1>5. CASE Crash \/ Start \/ PowerCut \/ Commit \/ OperatorReset \/ SetClock
  BY <1>5, CrashKeeps, StartKeeps, PowerCutKeeps, CommitKeeps, OperatorResetKeeps, SetClockKeeps
<1>6. CASE UNCHANGED vars
  <2>1. TypeOK'
    BY <1>6 DEF AuthInv, TypeOK, vars
  <2>2. QED
    BY <1>6, <2>1, OnlyRequestsMove DEF vars, fileVars, histVars
<1>7. QED
  BY <1>1, <1>2, <1>3, <1>4, <1>5, <1>6 DEF Next

LEMMA InvHolds == Spec => []AuthInv
BY InitInv, NextInv, PTL DEF Spec

-----------------------------------------------------------------------------
(* Theorems.                                                               *)

\* Every reachable state is typed: no cookie outlives sessionTTL, no step
\* outside the window of the clock is accepted.
THEOREM AuthTyped == Spec => []TypeOK
<1>1. AuthInv => TypeOK
  BY DEF AuthInv
<1>2. QED
  BY <1>1, InvHolds, PTL

\* No crash and no power cut, at whatever step of a save, leaves a credential
\* file that the service refuses to start with (saveLocked, NewAuth).
THEOREM FileIsWhole == Spec => []NeverTorn
<1>1. AuthInv => NeverTorn
  BY DEF AuthInv, FilesInv, NeverTorn, Surviving, File
<1>2. QED
  BY <1>1, InvHolds, PTL

\* However requests race, fail and restart, one setup at most succeeds until the
\* operator removes the file (Setup, NewAuth).
THEOREM SetupOnce == Spec => []OneSetupWins
<1>1. ASSUME AuthInv, cuts = 0
      PROVE  Cardinality({k \in setups : k > era}) <= 1
  <2> DEFINE S == {k \in setups : k > era}
  <2>1. S \in SUBSET {path.data.key}
    BY <1>1 DEF AuthInv, EraInv, InFile
  <2> HIDE DEF S
  <2>2. IsFiniteSet({path.data.key}) /\ Cardinality({path.data.key}) = 1
    BY FS_Singleton
  <2>3. IsFiniteSet(S) /\ Cardinality(S) <= 1
    BY <2>1, <2>2, FS_Subset
  <2>4. QED
    BY <2>3 DEF S
<1>2. AuthInv => OneSetupWins
  BY <1>1 DEF OneSetupWins
<1>3. QED
  BY <1>2, InvHolds, PTL

\* Short of a power cut a cookie is honoured for as long as it was issued for
\* (issue, valid).
THEOREM CookiesLast == Spec => []CookiesHonoured
<1>1. ASSUME AuthInv, state = "up", cuts = 0, NEW ck \in cookies, ck.key > era, clk < ck.exp
      PROVE  Valid(ck)
  <2>1. InFile(ck.key)
    BY <1>1 DEF AuthInv, EraInv
  <2>2. path.data \in Accounts /\ path.data # Absent
    BY <2>1, NotAccounts DEF InFile
  <2>3. acc # None /\ ~Busy("setup")
    BY <1>1, <2>2 DEF AuthInv, MemInv
  <2>4. acc.key = ck.key
    BY <1>1, <2>1, <2>3 DEF AuthInv, MemInv, InFile
  <2>5. QED
    BY <1>1, <2>3, <2>4 DEF Valid
<1>2. AuthInv => CookiesHonoured
  BY <1>1 DEF CookiesHonoured
<1>3. QED
  BY <1>2, InvHolds, PTL

\* Every replay of a one-time code is owed to a failed save of its own
\* (totpVerify, Login).
THEOREM ReplaysAreOwed == Spec => []ReplaysNeedAFailure
<1>1. ASSUME AuthInv, cuts = 0
      PROVE  replays <= losses
  <2>1. replays \in Nat /\ losses \in Nat
    BY <1>1 DEF AuthInv, TypeOK
  <2>2. Cardinality(Unsaved) \in Nat /\ replays + Cardinality(Unsaved) <= losses
    BY <1>1, UnsavedFinite DEF AuthInv, ReplayInv
  <2>3. QED
    BY <2>1, <2>2
<1>2. AuthInv => ReplaysNeedAFailure
  BY <1>1 DEF ReplaysNeedAFailure
<1>3. QED
  BY <1>2, InvHolds, PTL
=============================================================================
