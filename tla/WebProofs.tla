------------------------------ MODULE WebProofs ------------------------------
(***************************************************************************)
(* Theorems about Web, for every set of connections, goroutines, keys and  *)
(* scripts and any number of lost connections and restarts.                *)
(***************************************************************************)
EXTENDS Web, FiniteSetTheorems, FunctionTheorems, SequenceTheorems, TLAPS

\* No entry twice.
Distinct(s) == \A i, j \in DOMAIN s : s[i] = s[j] => i = j

\* TypeOK in three parts, with what it leaves open: the list of held keys has no
\* key twice, the page holds finitely many.
ServerTyped ==
    /\ conn \in [Conns -> {"off", "hello", "open", "bye"}]
    /\ mods \subseteq Mods
    /\ keys \in Seq(Keys) /\ Len(keys) <= KeySlots /\ Distinct(keys)
    /\ down \in [Tasks -> BOOLEAN]
    /\ said = [d \in Devices |-> said[d]]
    /\ got = [d \in Devices |-> got[d]]

PageTyped ==
    /\ finger \subseteq Codes
    /\ focus \in {"page", "field", "away"}
    /\ capturing \in BOOLEAN
    /\ held \subseteq Codes /\ IsFiniteSet(held)
    /\ focus = "away" => held = {} /\ ~capturing

NetTyped ==
    /\ ws \in Conns \cup {NoConn}
    /\ chan \in [Conns -> Seq(Messages)]
    /\ \A c \in Conns : Len(chan[c]) <= MaxInFlight
    /\ \A c \in Conns : conn[c] \in {"off", "bye"} => chan[c] = <<>>
    /\ breaks \in 0 .. MaxBreaks

\* A session is served only after a Reset.
FreshInv == \A c \in Conns : conn[c] \in {"open", "bye"} => fresh

\* Apart from what a goroutine is pressing, or what an earlier process left, the
\* keyboard was told of no key but those the process remembers.
SaidInv == fresh /\ (\A t \in Tasks : ~down[t])
              => Pressed("kbd", said["kbd"]) \subseteq mods \cup Range(keys)

\* With the keys H held, the key-up of every other key-down in s follows it.
ReleasesFollow(s, H) ==
    \A i \in DOMAIN s, k \in Codes :
        s[i] = Down(k) => k \in H \/ \E j \in DOMAIN s : i < j /\ s[j] = Up(k)

SentInv == ws # NoConn => ReleasesFollow(chan[ws], held)

\* The page's is the only session.
Alone == /\ ws # NoConn /\ conn[ws] = "open"
         /\ \A c \in Conns \ {ws} : conn[c] = "off"

\* The control plane remembers no key but those the page holds and those whose
\* key-up is on its way.
HeldInv == Alone => \A k \in mods \cup Range(keys) :
                       k \in held \/ Up(k) \in Range(chan[ws])

WebInv == ServerTyped /\ PageTyped /\ NetTyped /\ FreshInv /\ SaidInv /\ SentInv /\ HeldInv

-----------------------------------------------------------------------------
(* The operators of the model.                                             *)

LEMMA Tags ==
    /\ \A k \in Codes, l \in Codes : Down(k) # Up(l)
    /\ \A k \in Codes, l \in Codes : (Down(k) = Down(l) => k = l) /\ (Up(k) = Up(l) => k = l)
    /\ \A k \in Codes : /\ Down(k) \in Messages /\ Up(k) \in Messages
                        /\ Down(k).t = "k" /\ Down(k).code = k /\ Down(k).down = TRUE
                        /\ Up(k).t = "k" /\ Up(k).code = k /\ Up(k).down = FALSE
    /\ \A s \in Scripts : /\ Chord(s) \in Messages
                          /\ Chord(s).t = "chord"
BY DEF Down, Up, Chord, Messages

LEMMA MessageCases ==
    ASSUME NEW m \in Messages
    PROVE  \/ \E k \in Codes : m = Down(k) \/ m = Up(k)
           \/ \E s \in Scripts : m = Chord(s)
BY DEF Messages

\* Taking an entry out of a list without repetitions.
LEMMA DropAtFacts ==
    ASSUME NEW s \in Seq(Keys), Distinct(s), NEW n \in DOMAIN s
    PROVE  /\ DropAt(s, n) \in Seq(Keys)
           /\ Len(DropAt(s, n)) < Len(s)
           /\ Distinct(DropAt(s, n))
           /\ Range(DropAt(s, n)) = Range(s) \ {s[n]}
<1>1. Len(s) \in Nat /\ DOMAIN s = 1 .. Len(s) /\ n \in 1 .. Len(s) /\ Len(s) - 1 \in Nat
  BY LenProperties
<1> DEFINE D == DropAt(s, n)
           from(j) == IF j < n THEN j ELSE j + 1
<1>2. D = [j \in 1 .. Len(s) - 1 |-> s[from(j)]]
  BY DEF DropAt
<1>3. \A j \in 1 .. Len(s) - 1 : from(j) \in 1 .. Len(s) /\ from(j) # n
  BY <1>1
<1>4. \A i, j \in 1 .. Len(s) - 1 : from(i) = from(j) => i = j
  BY <1>1
<1>5. \A i \in 1 .. Len(s) : i # n => \E j \in 1 .. Len(s) - 1 : from(j) = i
  <2> SUFFICES ASSUME NEW i \in 1 .. Len(s), i # n
               PROVE  \E j \in 1 .. Len(s) - 1 : from(j) = i
    OBVIOUS
  <2>1. CASE i < n
    <3>1. i \in 1 .. Len(s) - 1 /\ from(i) = i
      BY <1>1, <2>1
    <3>2. QED
      BY <3>1
  <2>2. CASE i > n
    <3>1. i - 1 \in 1 .. Len(s) - 1 /\ from(i - 1) = i
      BY <1>1, <2>2
    <3>2. QED
      BY <3>1
  <2>3. QED
    BY <1>1, <2>1, <2>2
<1> HIDE DEF from
<1>6. DOMAIN D = 1 .. Len(s) - 1 /\ \A j \in 1 .. Len(s) - 1 : D[j] = s[from(j)]
  BY <1>2
<1> HIDE DEF D
<1>7. \A i \in 1 .. Len(s) : s[i] \in Keys
  BY <1>1, ElementOfSeq
<1>8. D \in Seq(Keys) /\ Len(D) = Len(s) - 1
  <2>1. D \in [1 .. Len(s) - 1 -> Keys]
    BY <1>2, <1>3, <1>7
  <2>2. QED
    <3>1. D \in Seq(Keys)
      BY <1>1, <2>1, SeqDef
    <3>2. Len(D) \in Nat /\ DOMAIN D = 1 .. Len(D)
      BY <3>1, LenProperties
    <3>3. Len(s) - 1 \in Nat /\ DOMAIN D = 1 .. Len(s) - 1
      BY <1>1, <1>6
    <3>4. Len(D) = Len(s) - 1
      BY <3>2, <3>3
    <3>5. QED
      BY <3>1, <3>4
<1>9. Distinct(D)
  BY <1>3, <1>4, <1>6, <1>1 DEF Distinct
<1>10. Range(D) = Range(s) \ {s[n]}
  <2>1. ASSUME NEW x \in Range(D) PROVE x \in Range(s) \ {s[n]}
    BY <1>1, <1>3, <1>6, <2>1 DEF Range, Distinct
  <2>2. ASSUME NEW x \in Range(s) \ {s[n]} PROVE x \in Range(D)
    <3>1. PICK i \in 1 .. Len(s) : s[i] = x
      BY <1>1, <2>2 DEF Range
    <3>2. PICK j \in 1 .. Len(s) - 1 : from(j) = i
      BY <1>5, <3>1, <2>2
    <3>3. QED
      BY <1>6, <3>1, <3>2 DEF Range
  <2>3. QED
    BY <2>1, <2>2
<1>11. QED
  BY <1>1, <1>8, <1>9, <1>10 DEF D

\* What an event of a key makes of the list: it keeps no key that is let go of.
LEMMA KeysAfterFacts ==
    ASSUME NEW s \in Seq(Keys), Len(s) <= KeySlots, Distinct(s),
           NEW k \in Keys, NEW press \in BOOLEAN
    PROVE  /\ KeysAfter(s, k, press) \in Seq(Keys)
           /\ Len(KeysAfter(s, k, press)) <= KeySlots
           /\ Distinct(KeysAfter(s, k, press))
           /\ press => Range(KeysAfter(s, k, press)) \subseteq Range(s) \cup {k}
           /\ ~press => Range(KeysAfter(s, k, press)) = Range(s) \ {k}
<1>1. Len(s) \in Nat /\ DOMAIN s = 1 .. Len(s) /\ KeySlots \in Nat
  BY LenProperties, ReportsAssumption
<1>2. CASE KeysAfter(s, k, press) = s /\ (~press => k \notin Range(s))
  BY <1>2
<1>3. CASE press /\ k \notin Range(s) /\ Len(s) < KeySlots
  <2>1. KeysAfter(s, k, press) = Append(s, k)
    <3>1. ~(Len(s) >= KeySlots)
      BY <1>1, <1>3
    <3>2. QED
      BY <1>3, <3>1, Zenon DEF KeysAfter
  <2>2. /\ Append(s, k) \in Seq(Keys) /\ Len(Append(s, k)) = Len(s) + 1
        /\ DOMAIN Append(s, k) = 1 .. Len(s) + 1
        /\ \A i \in 1 .. Len(s) : Append(s, k)[i] = s[i] /\ s[i] # k
        /\ Append(s, k)[Len(s) + 1] = k
    BY <1>1, <1>3, AppendProperties, LenProperties DEF Range
  <2>3. \A i \in 1 .. Len(s) + 1 : i \in 1 .. Len(s) \/ i = Len(s) + 1
    BY <1>1
  <2>4. Distinct(Append(s, k))
    BY <1>1, <2>2, <2>3 DEF Distinct
  <2>5. Range(Append(s, k)) \subseteq Range(s) \cup {k}
    BY <1>1, <2>2, <2>3 DEF Range
  <2>6. Len(Append(s, k)) <= KeySlots
    BY <1>1, <1>3, <2>2
  <2>7. QED
    BY <1>3, <2>1, <2>2, <2>4, <2>5, <2>6
<1>4. CASE ~press /\ k \in Range(s)
  <2>1. PICK n \in DOMAIN s : s[n] = k
    BY <1>4 DEF Range
  <2>2. \A j \in 1 .. n - 1 : s[j] # k
    BY <1>1, <2>1 DEF Distinct
  <2>3. (CHOOSE i \in DOMAIN s : s[i] = k /\ \A j \in 1 .. i - 1 : s[j] # k) = n
    <3>1. \A i \in DOMAIN s : s[i] = k => i = n
      BY <2>1 DEF Distinct
    <3>2. QED
      BY <2>1, <2>2, <3>1
  <2>4. KeysAfter(s, k, press) = DropAt(s, n)
    BY <1>4, <2>3, Zenon DEF KeysAfter
  <2>5. /\ DropAt(s, n) \in Seq(Keys) /\ Len(DropAt(s, n)) < Len(s)
        /\ Distinct(DropAt(s, n)) /\ Range(DropAt(s, n)) = Range(s) \ {s[n]}
    BY DropAtFacts
  <2>6. Len(DropAt(s, n)) <= KeySlots
    BY <1>1, <2>5, LenProperties
  <2>7. QED
    BY <1>4, <2>1, <2>4, <2>5, <2>6
<1>5. CASE press /\ (k \in Range(s) \/ Len(s) >= KeySlots)
  <2>1. KeysAfter(s, k, press) = s
    BY <1>5, Zenon DEF KeysAfter
  <2>2. QED
    BY <1>5, <2>1
<1>6. CASE ~press /\ k \notin Range(s)
  <2>1. KeysAfter(s, k, press) = s
    BY <1>6, Zenon DEF KeysAfter
  <2>2. QED
    BY <1>6, <2>1
<1>7. Len(s) < KeySlots \/ Len(s) >= KeySlots
  BY <1>1
<1>8. QED
  BY <1>3, <1>4, <1>5, <1>6, <1>7

\* All elements of a finite set are in the sequence made of it.
LEMMA SetToSeqFacts ==
    ASSUME NEW S, IsFiniteSet(S)
    PROVE  SetToSeq(S) \in Seq(S) /\ Range(SetToSeq(S)) = S
<1> DEFINE n == Cardinality(S)
           f == SetToSeq(S)
<1>1. n \in Nat /\ ExistsBijection(1 .. n, S)
  BY FS_CardinalityType
<1>2. PICK g \in [1 .. n -> S] : IsInjective(g)
  BY <1>1 DEF ExistsBijection, Bijection, Injection
<1>3. f \in [1 .. n -> S] /\ IsInjective(f)
  BY <1>2 DEF SetToSeq
<1>4. f \in Seq(S)
  BY <1>1, <1>3, SeqDef
<1>5. IsFiniteSet(1 .. n) /\ Cardinality(1 .. n) = n
  BY <1>1, FS_Interval
<1>6. f \in Injection(1 .. n, S)
  BY <1>3 DEF Injection
<1>7. f \in Surjection(1 .. n, S)
  BY <1>5, <1>6, FS_Injection
<1>8. Range(f) = S
  BY <1>3, <1>7 DEF Surjection, Range
<1>9. QED
  BY <1>4, <1>8

\* The key-ups of a finite set of keys are finitely many.
LEMMA UpsFinite ==
    ASSUME NEW H \in SUBSET Codes, IsFiniteSet(H)
    PROVE  IsFiniteSet({Up(k) : k \in H})
<1> DEFINE U == {Up(k) : k \in H}
           f == [k \in H |-> Up(k)]
<1>1. f \in Surjection(H, U)
  BY DEF Surjection
<1>2. QED
  BY <1>1, FS_Surjection

LEMMA ConcatRange ==
    ASSUME NEW s \in Seq(Messages), NEW r \in Seq(Messages)
    PROVE  Range(s \o r) = Range(s) \cup Range(r)
<1>1. /\ Len(s) \in Nat /\ DOMAIN s = 1 .. Len(s) /\ Len(r) \in Nat /\ DOMAIN r = 1 .. Len(r)
      /\ DOMAIN (s \o r) = 1 .. Len(s) + Len(r)
  BY LenProperties, ConcatProperties
<1>2. /\ \A i \in 1 .. Len(s) : i \in 1 .. Len(s) + Len(r) /\ (s \o r)[i] = s[i]
      /\ \A i \in 1 .. Len(r) : /\ Len(s) + i \in 1 .. Len(s) + Len(r)
                               /\ (s \o r)[Len(s) + i] = r[i]
      /\ \A i \in 1 .. Len(s) + Len(r) : i \in 1 .. Len(s) \/ i - Len(s) \in 1 .. Len(r)
      /\ \A i \in 1 .. Len(s) + Len(r) : i \notin 1 .. Len(s) => (s \o r)[i] = r[i - Len(s)]
  BY <1>1, ConcatProperties
<1>3. ASSUME NEW x \in Range(s \o r) PROVE x \in Range(s) \cup Range(r)
  <2>1. PICK i \in 1 .. Len(s) + Len(r) : (s \o r)[i] = x
    BY <1>1 DEF Range
  <2>2. CASE i \in 1 .. Len(s)
    BY <1>1, <1>2, <2>1, <2>2 DEF Range
  <2>3. CASE i \notin 1 .. Len(s)
    <3>1. i - Len(s) \in 1 .. Len(r) /\ r[i - Len(s)] = x
      BY <1>2, <2>1, <2>3
    <3>2. QED
      BY <1>1, <3>1 DEF Range
  <2>4. QED
    BY <2>2, <2>3
<1>4. ASSUME NEW x \in Range(s) \cup Range(r) PROVE x \in Range(s \o r)
  <2>1. CASE x \in Range(s)
    BY <1>1, <1>2, <2>1 DEF Range
  <2>2. CASE x \in Range(r)
    <3>1. PICK i \in 1 .. Len(r) : r[i] = x
      BY <1>1, <2>2 DEF Range
    <3>2. Len(s) + i \in DOMAIN (s \o r) /\ (s \o r)[Len(s) + i] = x
      BY <1>1, <1>2, <3>1
    <3>3. QED
      BY <3>2 DEF Range
  <2>3. QED
    BY <2>1, <2>2
<1>5. QED
  BY <1>3, <1>4

\* A sender that lets go of keys says so keeps the key-downs followed.
LEMMA ReleasesSent ==
    ASSUME NEW s \in Seq(Messages), NEW r \in Seq(Messages), NEW H, NEW G,
           ReleasesFollow(s, H), ReleasesFollow(r, G),
           \A k \in H \ G : Up(k) \in Range(r)
    PROVE  ReleasesFollow(s \o r, G)
<1>1. /\ Len(s) \in Nat /\ DOMAIN s = 1 .. Len(s) /\ Len(r) \in Nat /\ DOMAIN r = 1 .. Len(r)
      /\ DOMAIN (s \o r) = 1 .. Len(s) + Len(r)
  BY LenProperties, ConcatProperties
<1>2. /\ \A i \in 1 .. Len(s) : i \in 1 .. Len(s) + Len(r) /\ (s \o r)[i] = s[i]
      /\ \A i \in 1 .. Len(r) : /\ Len(s) + i \in 1 .. Len(s) + Len(r)
                               /\ (s \o r)[Len(s) + i] = r[i]
  BY <1>1, ConcatProperties
<1> SUFFICES ASSUME NEW i \in 1 .. Len(s) + Len(r), NEW k \in Codes,
                    (s \o r)[i] = Down(k), k \notin G
             PROVE  \E j \in 1 .. Len(s) + Len(r) : i < j /\ (s \o r)[j] = Up(k)
  BY <1>1 DEF ReleasesFollow
<1>3. CASE i \in 1 .. Len(s) /\ k \notin H
  <2>1. PICK j \in 1 .. Len(s) : i < j /\ s[j] = Up(k)
    BY <1>1, <1>2, <1>3 DEF ReleasesFollow
  <2>2. QED
    BY <1>2, <2>1
<1>4. CASE i \in 1 .. Len(s) /\ k \in H
  <2>1. PICK j \in 1 .. Len(r) : r[j] = Up(k)
    BY <1>1, <1>4 DEF Range
  <2>2. i < Len(s) + j
    BY <1>1, <1>4
  <2>3. QED
    BY <1>2, <2>1, <2>2
<1>5. CASE i \notin 1 .. Len(s)
  <2>1. PICK m \in 1 .. Len(r) : i = Len(s) + m
    <3>1. i - Len(s) \in 1 .. Len(r) /\ i = Len(s) + (i - Len(s))
      BY <1>1, <1>5
    <3>2. QED
      BY <3>1
  <2>2. r[m] = Down(k)
    BY <1>2, <2>1
  <2>3. PICK j \in 1 .. Len(r) : m < j /\ r[j] = Up(k)
    BY <1>1, <2>2 DEF ReleasesFollow
  <2>4. i < Len(s) + j
    BY <1>1, <2>1, <2>3
  <2>5. QED
    BY <1>2, <2>3, <2>4
<1>6. QED
  BY <1>3, <1>4, <1>5

\* What is left of a followed sequence when its first message has been handled.
LEMMA TailFacts ==
    ASSUME NEW s \in Seq(Messages), s # <<>>
    PROVE  /\ Head(s) \in Messages /\ Tail(s) \in Seq(Messages) /\ Len(Tail(s)) < Len(s)
           /\ Range(s) \subseteq Range(Tail(s)) \cup {Head(s)}
           /\ \A H : ReleasesFollow(s, H) =>
                 /\ ReleasesFollow(Tail(s), H)
                 /\ \A k \in Codes : Head(s) = Down(k) => k \in H \/ Up(k) \in Range(Tail(s))
<1> DEFINE T == Tail(s)
<1>1. /\ Head(s) = s[1] /\ Head(s) \in Messages /\ T \in Seq(Messages)
      /\ Len(s) \in Nat /\ Len(s) >= 1 /\ Len(T) = Len(s) - 1
      /\ DOMAIN s = 1 .. Len(s) /\ DOMAIN T = 1 .. Len(s) - 1
      /\ \A i \in 1 .. Len(s) - 1 : i + 1 \in 1 .. Len(s) /\ T[i] = s[i + 1]
  BY HeadTailProperties, LenProperties, EmptySeq
<1>2. \A i \in 1 .. Len(s) : i = 1 \/ (i - 1 \in 1 .. Len(s) - 1 /\ s[i] = T[i - 1])
  BY <1>1
<1>3. ASSUME NEW x \in Range(s) PROVE x \in Range(T) \cup {Head(s)}
  <2>1. PICK i \in 1 .. Len(s) : s[i] = x
    BY <1>1, <1>3 DEF Range
  <2>2. CASE i = 1
    BY <1>1, <2>1, <2>2
  <2>3. CASE i # 1
    <3>1. i - 1 \in DOMAIN T /\ T[i - 1] = x
      BY <1>1, <1>2, <2>1, <2>3
    <3>2. QED
      BY <3>1 DEF Range
  <2>4. QED
    BY <2>2, <2>3
<1>4. ASSUME NEW H, ReleasesFollow(s, H)
      PROVE  /\ ReleasesFollow(T, H)
             /\ \A k \in Codes : Head(s) = Down(k) => k \in H \/ Up(k) \in Range(T)
  <2>1. ASSUME NEW i \in 1 .. Len(s) - 1, NEW k \in Codes, T[i] = Down(k), k \notin H
        PROVE  \E j \in 1 .. Len(s) - 1 : i < j /\ T[j] = Up(k)
    <3>1. PICK j \in 1 .. Len(s) : i + 1 < j /\ s[j] = Up(k)
      BY <1>1, <1>4, <2>1 DEF ReleasesFollow
    <3>2. j - 1 \in 1 .. Len(s) - 1 /\ i < j - 1 /\ T[j - 1] = Up(k)
      BY <1>1, <1>2, <3>1
    <3>3. QED
      BY <3>2
  <2>2. ASSUME NEW k \in Codes, Head(s) = Down(k), k \notin H
        PROVE  Up(k) \in Range(T)
    <3>1. PICK j \in 1 .. Len(s) : 1 < j /\ s[j] = Up(k)
      BY <1>1, <1>4, <2>2 DEF ReleasesFollow
    <3>2. j - 1 \in 1 .. Len(s) - 1 /\ T[j - 1] = Up(k)
      BY <1>1, <1>2, <3>1
    <3>3. QED
      BY <1>1, <3>2 DEF Range
  <2>3. QED
    BY <1>1, <2>1, <2>2 DEF ReleasesFollow
<1>5. QED
  BY <1>1, <1>3, <1>4

-----------------------------------------------------------------------------
(* The page.                                                               *)

\* send adds the messages, or there is nobody to read them.
LEMMA SendFacts ==
    ASSUME NetTyped, NEW msgs \in Seq(Messages), Send(msgs), UNCHANGED <<conn, ws, breaks>>
    PROVE  /\ NetTyped'
           /\ ws # NoConn => \/ chan'[ws] = chan[ws] \o msgs
                            \/ (chan'[ws] = <<>> /\ conn[ws] \in {"off", "bye"})
<1>1. CASE ws = NoConn \/ conn[ws] \in {"off", "bye"}
  <2>1. chan' = chan
    BY <1>1 DEF Send
  <2>2. QED
    BY <1>1, <2>1 DEF NetTyped
<1>2. CASE ~(ws = NoConn \/ conn[ws] \in {"off", "bye"})
  <2>1. /\ ws \in Conns /\ Len(chan[ws]) + Len(msgs) <= MaxInFlight
        /\ chan' = [chan EXCEPT ![ws] = chan[ws] \o msgs]
    BY <1>2 DEF Send, NetTyped
  <2>2. /\ chan[ws] \o msgs \in Seq(Messages)
        /\ Len(chan[ws] \o msgs) <= MaxInFlight
    BY <2>1, ConcatProperties DEF NetTyped
  <2>3. /\ chan' \in [Conns -> Seq(Messages)]
        /\ \A c \in Conns : chan'[c] = IF c = ws THEN chan[ws] \o msgs ELSE chan[c]
    BY <2>1, <2>2 DEF NetTyped
  <2>4. /\ \A c \in Conns : Len(chan'[c]) <= MaxInFlight
        /\ \A c \in Conns : conn'[c] \in {"off", "bye"} => chan'[c] = <<>>
    BY <1>2, <2>2, <2>3 DEF NetTyped
  <2>7. chan' \in [Conns -> Seq(Messages)]
    BY <2>3
  <2>5. NetTyped'
    <3>1. ws' \in Conns \cup {NoConn} /\ breaks' \in 0 .. MaxBreaks
      BY DEF NetTyped
    <3>2. \A c \in Conns : conn'[c] = conn[c]
      OBVIOUS
    <3>3. QED
      BY <2>4, <2>7, <3>1, <3>2, Zenon DEF NetTyped
  <2>6. QED
    BY <2>1, <2>3, <2>5
<1>3. QED
  BY <1>1, <1>2

\* A step of the page that says of each key it lets go.
LEMMA PageSends ==
    ASSUME WebInv, NEW msgs \in Seq(Messages), Send(msgs), PageStep,
           \A k \in held \ held' : Up(k) \in Range(msgs),
           ReleasesFollow(msgs, held')
    PROVE  ServerTyped' /\ NetTyped' /\ FreshInv' /\ SaidInv' /\ SentInv' /\ HeldInv'
<1>1. /\ UNCHANGED <<conn, mods, keys, down, said, got, fresh>>
      /\ UNCHANGED <<ws, breaks>>
  BY DEF PageStep, promiseVars, procVars, taskVars, lineVars
<1>2. ServerTyped' /\ FreshInv' /\ SaidInv'
  BY <1>1 DEF WebInv, ServerTyped, FreshInv, SaidInv
<1>3. /\ NetTyped /\ NetTyped'
      /\ ws # NoConn => \/ chan'[ws] = chan[ws] \o msgs
                       \/ (chan'[ws] = <<>> /\ conn[ws] \in {"off", "bye"})
  BY <1>1, SendFacts DEF WebInv
<1>4. SentInv'
  <2> SUFFICES ASSUME ws # NoConn PROVE ReleasesFollow(chan'[ws], held')
    BY <1>1 DEF SentInv
  <2>1. CASE chan'[ws] = chan[ws] \o msgs
    <3>1. chan[ws] \in Seq(Messages) /\ ReleasesFollow(chan[ws], held)
      BY <1>3 DEF NetTyped, WebInv, SentInv
    <3>2. QED
      BY <2>1, <3>1, ReleasesSent
  <2>2. CASE chan'[ws] = <<>>
    BY <2>2 DEF ReleasesFollow
  <2>3. QED
    BY <1>3, <2>1, <2>2
<1>5. HeldInv'
  <2> SUFFICES ASSUME Alone, NEW k \in mods \cup Range(keys)
               PROVE  k \in held' \/ Up(k) \in Range(chan'[ws])
    BY <1>1 DEF HeldInv, Alone
  <2>1. /\ ws # NoConn /\ chan'[ws] = chan[ws] \o msgs
        /\ chan[ws] \in Seq(Messages)
    BY <1>3 DEF Alone, NetTyped
  <2>2. Range(chan'[ws]) = Range(chan[ws]) \cup Range(msgs)
    BY <2>1, ConcatRange
  <2>3. k \in held \/ Up(k) \in Range(chan[ws])
    BY DEF WebInv, HeldInv
  <2>4. QED
    BY <2>2, <2>3
<1>6. QED
  BY <1>2, <1>3, <1>4, <1>5

\* A step of the page that sends nothing lets go of nothing.
LEMMA PageIdles ==
    ASSUME WebInv, UNCHANGED <<held, chan>>, PageStep
    PROVE  ServerTyped' /\ NetTyped' /\ FreshInv' /\ SaidInv' /\ SentInv' /\ HeldInv'
BY DEF WebInv, ServerTyped, NetTyped, FreshInv, SaidInv, SentInv, ReleasesFollow, HeldInv, Alone,
       PageStep, promiseVars, procVars, taskVars, lineVars

LEMMA OneMessage ==
    ASSUME NEW m \in Messages
    PROVE  /\ <<m>> \in Seq(Messages) /\ Range(<<m>>) = {m}
           /\ \A H : (\A k \in Codes : m = Down(k) => k \in H) => ReleasesFollow(<<m>>, H)
<1>1. <<m>> \in Seq(Messages) /\ Range(<<m>>) = {m}
  BY DEF Range
<1>2. DOMAIN <<m>> = {1} /\ <<m>>[1] = m
  OBVIOUS
<1>3. QED
  BY <1>1, <1>2, Zenon DEF ReleasesFollow

LEMMA KeyDownKeeps == ASSUME WebInv, NEW k \in Codes, KeyDown(k) PROVE WebInv'
<1>1. PageStep /\ UNCHANGED <<focus, capturing>> /\ finger' = finger \cup {k}
  BY DEF KeyDown
<1>2. CASE Listening
  <2>1. held' = held \cup {k} /\ Send(<<Down(k)>>)
    BY <1>2 DEF KeyDown
  <2>2. ServerTyped' /\ NetTyped' /\ FreshInv' /\ SaidInv' /\ SentInv' /\ HeldInv'
    <3>1. \A l \in Codes : Down(k) = Down(l) => l \in held'
      BY <2>1, Tags
    <3>2. Down(k) \in Messages
      BY Tags
    <3>3. <<Down(k)>> \in Seq(Messages) /\ ReleasesFollow(<<Down(k)>>, held')
      BY <3>1, <3>2, OneMessage
    <3>4. QED
      BY <1>1, <2>1, <3>3, PageSends
  <2>3. IsFiniteSet(held')
    BY <2>1, FS_AddElement DEF WebInv, PageTyped
  <2>4. PageTyped'
    BY <1>1, <1>2, <2>1, <2>3 DEF WebInv, PageTyped, Listening
  <2>5. QED
    BY <2>2, <2>4 DEF WebInv
<1>3. CASE ~Listening
  BY <1>1, <1>3, PageIdles DEF KeyDown, WebInv, PageTyped
<1>4. QED
  BY <1>2, <1>3

LEMMA KeyUpKeeps == ASSUME WebInv, NEW k \in Codes, KeyUp(k) PROVE WebInv'
<1>1. PageStep /\ UNCHANGED <<focus, capturing>> /\ finger' = finger \ {k}
  BY DEF KeyUp
<1>2. CASE Listening
  <2>1. held' = held \ {k} /\ Send(<<Up(k)>>)
    BY <1>2 DEF KeyUp
  <2>2. ServerTyped' /\ NetTyped' /\ FreshInv' /\ SaidInv' /\ SentInv' /\ HeldInv'
    <3>1. Up(k) \in Messages /\ \A l \in Codes : Up(k) # Down(l)
      BY Tags
    <3>2. /\ <<Up(k)>> \in Seq(Messages) /\ Range(<<Up(k)>>) = {Up(k)}
          /\ ReleasesFollow(<<Up(k)>>, held')
      BY <3>1, OneMessage
    <3>3. \A l \in held \ held' : Up(l) \in Range(<<Up(k)>>)
      BY <2>1, <3>2
    <3>4. QED
      BY <1>1, <2>1, <3>2, <3>3, PageSends
  <2>3. IsFiniteSet(held')
    BY <2>1, FS_RemoveElement DEF WebInv, PageTyped
  <2>4. PageTyped'
    BY <1>1, <1>2, <2>1, <2>3 DEF WebInv, PageTyped, Listening
  <2>5. QED
    BY <2>2, <2>4 DEF WebInv
<1>3. CASE ~Listening
  BY <1>1, <1>3, PageIdles DEF KeyUp, WebInv, PageTyped
<1>4. QED
  BY <1>2, <1>3

LEMMA BlurKeeps == ASSUME WebInv, Blur PROVE WebInv'
<1> DEFINE ups == SetToSeq({Up(k) : k \in held})
<1>1. /\ PageStep /\ UNCHANGED finger /\ Send(ups)
      /\ held' = {} /\ capturing' = FALSE /\ focus' = "away"
  BY DEF Blur
<1>2. ups \in Seq({Up(k) : k \in held}) /\ Range(ups) = {Up(k) : k \in held}
  BY UpsFinite, SetToSeqFacts DEF WebInv, PageTyped
<1>3. {Up(k) : k \in held} \subseteq Messages
  BY Tags DEF WebInv, PageTyped
<1> HIDE DEF ups
<1>4. ups \in Seq(Messages)
  BY <1>2, <1>3, SeqMonotonic
<1>5. ReleasesFollow(ups, {})
  <2>1. \A i \in DOMAIN ups : \E k \in held : ups[i] = Up(k)
    BY <1>2 DEF Range
  <2>2. QED
    BY <2>1, Tags DEF ReleasesFollow, WebInv, PageTyped
<1>6. ServerTyped' /\ NetTyped' /\ FreshInv' /\ SaidInv' /\ SentInv' /\ HeldInv'
  BY <1>1, <1>2, <1>4, <1>5, PageSends
<1>7. PageTyped'
  BY <1>1, FS_EmptySet DEF WebInv, PageTyped
<1>8. QED
  BY <1>6, <1>7 DEF WebInv

LEMMA ShortcutKeeps == ASSUME WebInv, NEW s \in Scripts, Shortcut(s) PROVE WebInv'
<1>1. /\ PageStep /\ UNCHANGED <<finger, capturing, held>> /\ Send(<<Chord(s)>>)
      /\ focus # "away" /\ focus' = "page"
  BY DEF Shortcut
<1>2. Chord(s) \in Messages /\ \A k \in Codes : Chord(s) # Down(k)
  BY Tags
<1>3. <<Chord(s)>> \in Seq(Messages) /\ ReleasesFollow(<<Chord(s)>>, held')
  BY <1>2, OneMessage
<1>4. ServerTyped' /\ NetTyped' /\ FreshInv' /\ SaidInv' /\ SentInv' /\ HeldInv'
  BY <1>1, <1>3, PageSends
<1>5. PageTyped'
  BY <1>1 DEF WebInv, PageTyped
<1>6. QED
  BY <1>4, <1>5 DEF WebInv

LEMMA FocusKeeps ==
    ASSUME WebInv, ToggleCapture \/ \E f \in {"page", "field"} : MoveFocus(f)
    PROVE  WebInv'
<1>1. /\ PageStep /\ UNCHANGED <<finger, held, chan>>
      /\ focus' \in {"page", "field"} /\ capturing' \in BOOLEAN
  BY DEF ToggleCapture, MoveFocus, WebInv, PageTyped
<1>2. PageTyped'
  BY <1>1 DEF WebInv, PageTyped
<1>3. QED
  BY <1>1, <1>2, PageIdles DEF WebInv

LEMMA PageKeeps == ASSUME WebInv, Page PROVE WebInv'
BY KeyDownKeeps, KeyUpKeeps, BlurKeeps, ShortcutKeeps, FocusKeeps DEF Page

-----------------------------------------------------------------------------
(* The initial state and the connections.                                  *)

LEMMA InitInv == Init => WebInv
<1> SUFFICES ASSUME Init PROVE WebInv
  OBVIOUS
<1>1. /\ conn = [c \in Conns |-> "off"] /\ mods = {} /\ keys = <<>>
      /\ down = [t \in Tasks |-> FALSE] /\ said = Cleared /\ got = Cleared /\ fresh = TRUE
  BY DEF Init, PromiseInit
<1>2. DOMAIN <<>> = {} /\ Len(<<>>) = 0 /\ <<>> \in Seq(Keys) /\ <<>> \in Seq(Messages)
  BY EmptySeq
<1>3. ServerTyped
  <2>1. said = [d \in Devices |-> said[d]]
    BY <1>1, Zenon DEF Cleared
  <2>2. got = [d \in Devices |-> got[d]]
    BY <1>1, Zenon DEF Cleared
  <2>3. Len(keys) <= KeySlots
    BY <1>1, <1>2, ReportsAssumption
  <2>4. QED
    BY <1>1, <1>2, <2>1, <2>2, <2>3 DEF ServerTyped, Distinct
<1>4. PageTyped
  BY FS_EmptySet DEF Init, PageTyped
<1>5. NetTyped
  BY <1>2, WebAssumption DEF Init, NetTyped
<1>6. Pressed("kbd", said["kbd"]) = {}
  <2>1. said["kbd"] = KbdReport({}, <<>>)
    BY <1>1 DEF Cleared, Devices
  <2>2. QED
    BY <1>2, <2>1 DEF Pressed, KbdReport, Range
<1>7. FreshInv /\ SaidInv /\ SentInv /\ HeldInv
  BY <1>1, <1>6 DEF Init, FreshInv, SaidInv, SentInv, HeldInv, Alone
<1>8. QED
  BY <1>3, <1>4, <1>5, <1>7 DEF WebInv

LEMMA OpenKeeps == ASSUME WebInv, NEW c \in Conns, Open(c) PROVE WebInv'
<1>1. /\ ws' = c /\ chan[c] = <<>> /\ conn[c] = "off" /\ conn' = [conn EXCEPT ![c] = "hello"]
      /\ UNCHANGED <<mods, keys, down, said, got, fresh, finger, focus, capturing, held, chan, breaks>>
  BY DEF Open, Connect, procVars, taskVars, lineVars, pageVars
<1>2. ServerTyped' /\ PageTyped'
  BY <1>1 DEF WebInv, ServerTyped, PageTyped
<1>3. NetTyped'
  BY <1>1 DEF WebInv, ServerTyped, NetTyped
<1>4. FreshInv' /\ SaidInv' /\ HeldInv'
  BY <1>1 DEF WebInv, ServerTyped, FreshInv, SaidInv, HeldInv, Alone
<1>5. SentInv'
  BY <1>1 DEF SentInv, ReleasesFollow
<1>6. QED
  BY <1>2, <1>3, <1>4, <1>5 DEF WebInv

LEMMA BreaksForPageKeeps == ASSUME WebInv, BreaksForPage PROVE WebInv'
<1>1. PICK n \in 0 .. Len(chan[ws]) : chan' = [chan EXCEPT ![ws] = SubSeq(chan[ws], 1, n)]
  BY DEF BreaksForPage
<1>2. /\ ws \in Conns /\ ws' = NoConn /\ breaks < MaxBreaks /\ breaks' = breaks + 1
      /\ UNCHANGED <<conn, mods, keys, down, said, got, fresh, finger, focus, capturing, held>>
  BY DEF BreaksForPage, WebInv, NetTyped, promiseVars, procVars, taskVars, lineVars, pageVars
<1>3. ServerTyped' /\ PageTyped' /\ FreshInv' /\ SaidInv' /\ SentInv' /\ HeldInv'
  BY <1>2 DEF WebInv, ServerTyped, PageTyped, FreshInv, SaidInv, SentInv, HeldInv, Alone
<1>4. NetTyped'
  <2> DEFINE cut == SubSeq(chan[ws], 1, n)
  <2>1. chan[ws] \in Seq(Messages) /\ Len(chan[ws]) \in Nat /\ n \in Nat /\ n <= Len(chan[ws])
    BY <1>2, LenProperties DEF WebInv, NetTyped
  <2>2. cut \in Seq(Messages) /\ Len(cut) = n
    <3>1. \A i \in 1 .. n : chan[ws][i] \in Messages
      BY <2>1, ElementOfSeq
    <3>2. QED
      BY <2>1, <3>1, SubSeqProperties
  <2>3. chan[ws] = <<>> => cut = <<>>
    <3>1. chan[ws] = <<>> => Len(cut) = 0
      BY <2>1, <2>2, EmptySeq
    <3>2. QED
      BY <2>2, <3>1, EmptySeq
  <2> HIDE DEF cut
  <2>4. chan' = [chan EXCEPT ![ws] = cut]
    BY <1>1 DEF cut
  <2>5. chan' \in [Conns -> Seq(Messages)]
    BY <1>2, <2>2, <2>4 DEF WebInv, NetTyped
  <2>6. \A c \in Conns : Len(chan'[c]) <= MaxInFlight
    BY <1>2, <2>1, <2>2, <2>4, WebAssumption DEF WebInv, NetTyped
  <2>7. \A c \in Conns : conn'[c] \in {"off", "bye"} => chan'[c] = <<>>
    BY <1>2, <2>3, <2>4 DEF WebInv, NetTyped
  <2>8. breaks' \in 0 .. MaxBreaks
    BY <1>2, WebAssumption DEF WebInv, NetTyped
  <2>9. QED
    BY <1>2, <2>5, <2>6, <2>7, <2>8 DEF NetTyped
<1>5. QED
  BY <1>3, <1>4 DEF WebInv

\* A session that ends stops being the page's only open one.
LEMMA DisconnectKeeps ==
    ASSUME WebInv, NEW c \in Conns, Disconnect(c), UNCHANGED pageVars,
           chan' = [chan EXCEPT ![c] = <<>>], ws' = ws, breaks' \in 0 .. MaxBreaks
    PROVE  WebInv'
<1>1. /\ conn[c] = "open" /\ conn' = [conn EXCEPT ![c] = "bye"]
      /\ UNCHANGED <<mods, keys, down, said, got, fresh, finger, focus, capturing, held>>
  BY DEF Disconnect, procVars, taskVars, lineVars, pageVars
<1>2. ServerTyped' /\ PageTyped' /\ FreshInv' /\ SaidInv'
  BY <1>1 DEF WebInv, ServerTyped, PageTyped, FreshInv, SaidInv
<1>3. <<>> \in Seq(Messages) /\ Len(<<>>) = 0 /\ DOMAIN <<>> = {}
  BY EmptySeq
<1>4. NetTyped'
  <2>1. chan' \in [Conns -> Seq(Messages)]
    BY <1>3 DEF WebInv, NetTyped
  <2>2. \A d \in Conns : Len(chan'[d]) <= MaxInFlight
    BY <1>3, WebAssumption DEF WebInv, NetTyped
  <2>3. \A d \in Conns : conn'[d] \in {"off", "bye"} => chan'[d] = <<>>
    BY <1>1 DEF WebInv, NetTyped, ServerTyped
  <2>4. QED
    BY <2>1, <2>2, <2>3 DEF WebInv, NetTyped
<1>5. SentInv'
  BY <1>1, <1>3 DEF WebInv, NetTyped, SentInv, ReleasesFollow
<1>6. HeldInv'
  BY <1>1 DEF WebInv, ServerTyped, NetTyped, HeldInv, Alone
<1>7. QED
  BY <1>2, <1>4, <1>5, <1>6 DEF WebInv

LEMMA EndKeeps ==
    ASSUME WebInv, NEW c \in Conns, BreaksForServer(c) \/ EndOfStream(c)
    PROVE  WebInv'
<1>1. CASE BreaksForServer(c)
  <2>1. breaks' \in 0 .. MaxBreaks
    BY <1>1, WebAssumption DEF BreaksForServer, WebInv, NetTyped
  <2>2. QED
    BY <1>1, <2>1, DisconnectKeeps DEF BreaksForServer
<1>2. CASE EndOfStream(c)
  <2>1. chan' = [chan EXCEPT ![c] = <<>>] /\ ws' = ws /\ breaks' \in 0 .. MaxBreaks
    BY <1>2 DEF EndOfStream, netVars, WebInv, NetTyped
  <2>2. QED
    BY <1>2, <2>1, DisconnectKeeps DEF EndOfStream
<1>3. QED
  BY <1>1, <1>2

LEMMA CloseKeeps == ASSUME WebInv, Close PROVE WebInv'
BY DEF Close, WebInv, ServerTyped, PageTyped, NetTyped, FreshInv, SaidInv, SentInv, HeldInv, Alone,
       promiseVars, procVars, taskVars, lineVars, pageVars

-----------------------------------------------------------------------------
(* The control plane.                                                      *)

\* What one message makes of the remembered keys.
LEMMA MessageFacts ==
    ASSUME WebInv, NEW c \in Conns, Handle(c)
    PROVE  /\ conn[c] = "open" /\ UNCHANGED <<conn, got, fresh>>
           /\ ServerTyped'
           /\ SaidInv'
           /\ \A k \in mods' \cup Range(keys') : k \in mods \cup Range(keys) \/ Head(chan[c]) = Down(k)
           /\ \A k \in mods' \cup Range(keys') : Head(chan[c]) # Up(k)
<1> DEFINE m == Head(chan[c])
<1>1. m \in Messages
  BY HeadTailProperties DEF Handle, WebInv, NetTyped
<1>2. /\ mods \subseteq Mods /\ keys \in Seq(Keys) /\ Len(keys) <= KeySlots /\ Distinct(keys)
      /\ Range(keys) \subseteq Keys /\ said = [d \in Devices |-> said[d]]
  <2>1. keys \in [DOMAIN keys -> Keys]
    BY LenProperties DEF WebInv, ServerTyped
  <2>2. Range(keys) \subseteq Keys
    BY <2>1 DEF Range
  <2>3. QED
    BY <2>2 DEF WebInv, ServerTyped
<1> HIDE DEF m
<1>3. ASSUME NEW k \in Mods, NEW press \in BOOLEAN, ModKey(c, k, press),
             m = (IF press THEN Down(k) ELSE Up(k))
      PROVE  /\ conn[c] = "open" /\ UNCHANGED <<conn, got, fresh>> /\ ServerTyped' /\ SaidInv'
             /\ \A l \in mods' \cup Range(keys') : l \in mods \cup Range(keys) \/ m = Down(l)
             /\ \A l \in mods' \cup Range(keys') : m # Up(l)
  <2>1. /\ conn[c] = "open" /\ UNCHANGED <<conn, got, fresh, down, keys>>
        /\ mods' = (IF press THEN mods \cup {k} ELSE mods \ {k})
        /\ said' = [said EXCEPT !["kbd"] = KbdReport(mods', keys)]
    BY <1>3 DEF ModKey, Handling, Say, taskVars, lineVars
  <2>2. ServerTyped'
    BY <2>1, <1>2 DEF WebInv, ServerTyped
  <2>3. said'["kbd"] = KbdReport(mods', keys)
    BY <2>1, <1>2 DEF Devices
  <2>4. SaidInv'
    BY <2>1, <2>3 DEF SaidInv, Pressed, KbdReport
  <2>5. k \in Codes /\ k \notin Range(keys) /\ mods' \cup Range(keys') \subseteq Codes
    BY <1>2, <2>1, ReportsAssumption DEF Codes
  <2>6. QED
    BY <1>3, <2>1, <2>2, <2>4, <2>5, Tags
<1>4. ASSUME NEW k \in Keys, NEW press \in BOOLEAN, Key(c, k, press),
             m = (IF press THEN Down(k) ELSE Up(k))
      PROVE  /\ conn[c] = "open" /\ UNCHANGED <<conn, got, fresh>> /\ ServerTyped' /\ SaidInv'
             /\ \A l \in mods' \cup Range(keys') : l \in mods \cup Range(keys) \/ m = Down(l)
             /\ \A l \in mods' \cup Range(keys') : m # Up(l)
  <2>1. /\ conn[c] = "open" /\ UNCHANGED <<conn, got, fresh, down, mods>>
        /\ keys' = KeysAfter(keys, k, press)
        /\ said' = [said EXCEPT !["kbd"] = KbdReport(mods, keys')]
    BY <1>4 DEF Key, Handling, Say, taskVars, lineVars
  <2>2. /\ keys' \in Seq(Keys) /\ Len(keys') <= KeySlots /\ Distinct(keys')
        /\ press => Range(keys') \subseteq Range(keys) \cup {k}
        /\ ~press => Range(keys') = Range(keys) \ {k}
    BY <1>2, <2>1, KeysAfterFacts
  <2>3. ServerTyped'
    BY <2>1, <2>2, <1>2 DEF WebInv, ServerTyped
  <2>4. said'["kbd"] = KbdReport(mods, keys')
    BY <2>1, <1>2 DEF Devices
  <2>5. SaidInv'
    BY <2>1, <2>4 DEF SaidInv, Pressed, KbdReport
  <2>6. k \in Codes /\ k \notin mods /\ mods' \cup Range(keys') \subseteq Codes
    BY <1>2, <2>1, <2>2, ReportsAssumption DEF Codes
  <2>7. CASE press
    BY <1>4, <2>1, <2>2, <2>3, <2>5, <2>6, <2>7, Tags
  <2>8. CASE ~press
    BY <1>4, <2>1, <2>2, <2>3, <2>5, <2>6, <2>8, Tags
  <2>9. QED
    BY <2>7, <2>8
<1>5. ASSUME NEW t \in Tasks, NEW s \in Scripts, Start(t, s), conn[c] = "open", m = Chord(s)
      PROVE  /\ UNCHANGED <<conn, got, fresh>> /\ ServerTyped' /\ SaidInv'
             /\ UNCHANGED <<mods, keys>>
             /\ \A l \in mods' \cup Range(keys') : m # Up(l)
  <2>1. UNCHANGED <<conn, got, fresh, down, said, mods, keys>>
    BY <1>5 DEF Start, procVars, lineVars
  <2>2. ServerTyped' /\ SaidInv'
    BY <2>1 DEF WebInv, ServerTyped, SaidInv
  <2>3. mods' \cup Range(keys') \subseteq Codes
    BY <1>2, <2>1 DEF Codes
  <2>4. QED
    BY <1>5, <2>1, <2>2, <2>3, Tags
<1>6. CASE \E k \in Codes : m = Down(k) \/ m = Up(k)
  <2>1. PICK k \in Codes, press \in BOOLEAN : m = (IF press THEN Down(k) ELSE Up(k))
    BY <1>6
  <2>2. m.t = "k" /\ m.code = k /\ m.down = press
    BY <2>1, Tags
  <2>3. (k \in Mods /\ ModKey(c, k, press)) \/ (k \in Keys /\ Key(c, k, press))
    BY <2>2 DEF Handle, m, Codes
  <2>4. QED
    BY <1>3, <1>4, <2>1, <2>3 DEF m
<1>7. CASE \E s \in Scripts : m = Chord(s)
  <2>1. PICK s \in Scripts : m = Chord(s)
    BY <1>7
  <2>2. m.t = "chord" /\ m.script = s
    BY <2>1 DEF Chord
  <2>3. conn[c] = "open" /\ \E t \in Tasks : Start(t, s)
    BY <2>2 DEF Handle, m
  <2>4. QED
    BY <1>5, <2>1, <2>3 DEF m
<1>8. QED
  BY <1>1, <1>6, <1>7, MessageCases

LEMMA HandleKeeps == ASSUME WebInv, NEW c \in Conns, Handle(c) PROVE WebInv'
<1>1. /\ chan[c] # <<>> /\ chan[c] \in Seq(Messages)
      /\ chan' = [chan EXCEPT ![c] = Tail(chan[c])]
      /\ UNCHANGED <<finger, focus, capturing, held, ws, breaks>>
  BY DEF Handle, pageVars, WebInv, NetTyped
<1>2. /\ Head(chan[c]) \in Messages /\ Tail(chan[c]) \in Seq(Messages)
      /\ Len(Tail(chan[c])) < Len(chan[c])
      /\ Range(chan[c]) \subseteq Range(Tail(chan[c])) \cup {Head(chan[c])}
      /\ ReleasesFollow(chan[c], held) =>
            /\ ReleasesFollow(Tail(chan[c]), held)
            /\ \A k \in Codes : Head(chan[c]) = Down(k) => k \in held \/ Up(k) \in Range(Tail(chan[c]))
  BY <1>1, TailFacts
<1>3. conn[c] = "open" /\ UNCHANGED <<conn, got, fresh>> /\ ServerTyped' /\ SaidInv'
  BY MessageFacts
<1>4. FreshInv' /\ PageTyped'
  BY <1>1, <1>3 DEF WebInv, FreshInv, PageTyped
<1>5. NetTyped'
  <2>1. chan' \in [Conns -> Seq(Messages)]
    BY <1>1, <1>2 DEF WebInv, NetTyped
  <2>2. \A d \in Conns : Len(chan'[d]) <= MaxInFlight
    <3>1. Len(Tail(chan[c])) <= MaxInFlight
      BY <1>1, <1>2, LenProperties, WebAssumption DEF WebInv, NetTyped
    <3>2. QED
      BY <1>1, <3>1 DEF WebInv, NetTyped
  <2>3. \A d \in Conns : conn'[d] \in {"off", "bye"} => chan'[d] = <<>>
    BY <1>1, <1>3 DEF WebInv, NetTyped
  <2>4. QED
    BY <1>1, <2>1, <2>2, <2>3 DEF WebInv, NetTyped
<1>6. SentInv'
  BY <1>1, <1>2 DEF WebInv, NetTyped, SentInv
<1>7. HeldInv'
  <2> SUFFICES ASSUME Alone, NEW k \in mods' \cup Range(keys')
               PROVE  k \in held \/ Up(k) \in Range(chan'[ws])
    BY <1>1, <1>3 DEF HeldInv, Alone
  <2>1. ws = c /\ chan'[ws] = Tail(chan[c])
    BY <1>1, <1>3 DEF Alone, WebInv, NetTyped
  <2>2. ReleasesFollow(chan[c], held)
    BY <2>1 DEF Alone, WebInv, SentInv
  <2>3. Head(chan[c]) # Up(k)
    BY MessageFacts
  <2>4. CASE k \in mods \cup Range(keys)
    <3>1. k \in held \/ Up(k) \in Range(chan[c])
      BY <2>1, <2>4 DEF WebInv, HeldInv
    <3>2. QED
      BY <1>2, <2>1, <2>3, <3>1
  <2>5. CASE Head(chan[c]) = Down(k)
    <3>1. k \in Codes
      <4>1. Range(keys') \subseteq Keys /\ mods' \subseteq Mods
        <5>1. keys' \in [DOMAIN keys' -> Keys]
          BY <1>3, LenProperties DEF ServerTyped
        <5>2. QED
          BY <1>3, <5>1 DEF ServerTyped, Range
      <4>2. QED
        BY <4>1 DEF Codes
    <3>2. QED
      BY <1>2, <2>1, <2>2, <2>5, <3>1
  <2>6. QED
    BY <2>4, <2>5, MessageFacts
<1>8. QED
  BY <1>3, <1>4, <1>5, <1>6, <1>7 DEF WebInv

\* A Reset leaves nothing pressed and nothing remembered.
LEMMA ServeKeeps == ASSUME WebInv, NEW c \in Conns, Serve(c) PROVE WebInv'
<1>1. /\ conn[c] \in {"hello", "bye"} /\ mods' = {} /\ keys' = <<>> /\ fresh' = TRUE
      /\ conn' = [conn EXCEPT ![c] = IF conn[c] = "hello" THEN "open" ELSE "off"]
      /\ said' = [kbd |-> KbdReport({}, <<>>), abs |-> AbsReport({}, last),
                  rel |-> IF HasRel THEN RelReport({}) ELSE said["rel"]]
      /\ UNCHANGED <<down, got, finger, focus, capturing, held, ws, chan, breaks>>
  BY DEF Serve, Reset, taskVars, lineVars, pageVars, netVars
<1>2. <<>> \in Seq(Keys) /\ Len(<<>>) = 0 /\ DOMAIN <<>> = {}
  BY EmptySeq
<1>3. said'["kbd"] = KbdReport({}, <<>>) /\ said' = [d \in Devices |-> said'[d]]
  BY <1>1 DEF Devices
<1>4. ServerTyped'
  BY <1>1, <1>2, <1>3, ReportsAssumption DEF WebInv, ServerTyped, Distinct
<1>5. PageTyped' /\ NetTyped' /\ FreshInv' /\ SentInv'
  BY <1>1 DEF WebInv, PageTyped, NetTyped, ServerTyped, FreshInv, SentInv
<1>6. mods' \cup Range(keys') = {}
  BY <1>1, <1>2 DEF Range
<1>7. SaidInv'
  BY <1>1, <1>3 DEF SaidInv, Pressed, KbdReport
<1>8. HeldInv'
  BY <1>6 DEF HeldInv
<1>9. QED
  BY <1>4, <1>5, <1>7, <1>8 DEF WebInv

LEMMA TypeKeeps == ASSUME WebInv, NEW t \in Tasks, Type(t) PROVE WebInv'
<1>1. UNCHANGED <<conn, mods, keys, got, fresh, finger, focus, capturing, held, ws, chan, breaks>>
  BY DEF Type, Press, Release, procVars, lineVars, pageVars, netVars
<1>2. /\ PageTyped' /\ NetTyped' /\ FreshInv' /\ SentInv' /\ HeldInv'
  BY <1>1 DEF WebInv, PageTyped, NetTyped, FreshInv, SentInv, HeldInv, Alone
<1>3. ServerTyped'
  BY <1>1 DEF Type, Press, Release, Say, WebInv, ServerTyped
<1>4. SaidInv'
  <2>1. CASE Press(t)
    <3>1. down'[t] = TRUE
      BY <2>1 DEF Press, WebInv, ServerTyped
    <3>2. QED
      BY <3>1 DEF SaidInv
  <2>2. CASE Release(t)
    <3>1. said'["kbd"] = KbdReport({}, <<>>)
      BY <2>2 DEF Release, Say, WebInv, ServerTyped, Devices
    <3>2. Pressed("kbd", said'["kbd"]) = {}
      BY <3>1, EmptySeq DEF Pressed, KbdReport, Range
    <3>3. QED
      BY <3>2 DEF SaidInv
  <2>3. QED
    BY <2>1, <2>2 DEF Type
<1>5. QED
  BY <1>2, <1>3, <1>4 DEF WebInv

LEMMA DeliverKeeps == ASSUME WebInv, NEW d \in Devices, Deliver(d) PROVE WebInv'
<1>1. /\ got' = [got EXCEPT ![d] = said[d]]
      /\ UNCHANGED <<conn, mods, keys, down, said, fresh, finger, focus, capturing, held, ws, chan, breaks>>
  BY DEF Deliver, Take, procVars, taskVars, pageVars, netVars
<1>2. ServerTyped'
  BY <1>1 DEF WebInv, ServerTyped
<1>3. QED
  BY <1>1, <1>2 DEF WebInv, PageTyped, NetTyped, FreshInv, SaidInv, SentInv, HeldInv, Alone

LEMMA ServiceRestartsKeeps == ASSUME WebInv, ServiceRestarts PROVE WebInv'
<1>1. /\ conn' = [c \in Conns |-> "off"] /\ mods' = {} /\ keys' = <<>>
      /\ down' = [t \in Tasks |-> FALSE] /\ said' = got /\ fresh' = FALSE
      /\ chan' = [c \in Conns |-> <<>>] /\ breaks < MaxBreaks /\ breaks' = breaks + 1
      /\ UNCHANGED <<got, finger, focus, capturing, held, ws>>
  BY DEF ServiceRestarts, Restart, lineVars, pageVars
<1>2. <<>> \in Seq(Keys) /\ <<>> \in Seq(Messages) /\ Len(<<>>) = 0 /\ DOMAIN <<>> = {}
  BY EmptySeq
<1>3. ServerTyped' /\ PageTyped'
  BY <1>1, <1>2, ReportsAssumption DEF WebInv, ServerTyped, PageTyped, Distinct
<1>4. NetTyped'
  BY <1>1, <1>2, WebAssumption DEF WebInv, NetTyped
<1>5. FreshInv' /\ SaidInv' /\ SentInv' /\ HeldInv'
  BY <1>1, <1>2 DEF WebInv, NetTyped, FreshInv, SaidInv, SentInv, ReleasesFollow, HeldInv, Alone
<1>6. QED
  BY <1>3, <1>4, <1>5 DEF WebInv

LEMMA NextInv == WebInv /\ [Next]_vars => WebInv'
<1>1. ASSUME WebInv, UNCHANGED vars PROVE WebInv'
  BY <1>1 DEF vars, promiseVars, procVars, taskVars, lineVars, pageVars, netVars, WebInv,
       ServerTyped, PageTyped, NetTyped, FreshInv, SaidInv, SentInv, HeldInv, Alone
<1>2. QED
  BY <1>1, PageKeeps, OpenKeeps, BreaksForPageKeeps, EndKeeps, CloseKeeps, HandleKeeps, ServeKeeps,
     TypeKeeps, DeliverKeeps, ServiceRestartsKeeps DEF Next

LEMMA InvHolds == Spec => []WebInv
BY InitInv, NextInv, PTL DEF Spec

-----------------------------------------------------------------------------
(* Theorems.                                                               *)

\* Every reachable state is typed: a connection that the control plane has ended
\* carries nothing, a window without the focus holds no key.
THEOREM WebTyped == Spec => []TypeOK
<1>1. WebInv => TypeOK
  BY DEF WebInv, ServerTyped, PageTyped, NetTyped, TypeOK
<1>2. QED
  BY <1>1, InvHolds, PTL

\* Whatever was lost, came late or was forgotten by a restart, and however many
\* connections overlap: once it is calm, the target holds no key that the page
\* would not release (send, blur, serveInput).
THEOREM PageKnows == Spec => []PageKnowsHeldKeys
<1>1. ASSUME WebInv, Calm PROVE Pressed("kbd", got["kbd"]) \subseteq held
  <2>1. Alone /\ ws \in Conns /\ chan[ws] = <<>> /\ fresh
    BY <1>1 DEF Calm, Alone, WebInv, NetTyped, FreshInv
  <2>2. got["kbd"] = said["kbd"]
    BY <1>1 DEF Calm, Devices
  <2>3. Pressed("kbd", said["kbd"]) \subseteq mods \cup Range(keys)
    BY <1>1, <2>1 DEF Calm, WebInv, SaidInv
  <2>4. Range(chan[ws]) = {}
    BY <2>1, EmptySeq DEF Range
  <2>5. mods \cup Range(keys) \subseteq held
    BY <1>1, <2>1, <2>4 DEF WebInv, HeldInv
  <2>6. QED
    BY <2>2, <2>3, <2>5
<1>2. WebInv => PageKnowsHeldKeys
  BY <1>1 DEF PageKnowsHeldKeys
<1>3. QED
  BY <1>2, InvHolds, PTL
=============================================================================
