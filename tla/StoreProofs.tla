---------------------------- MODULE StoreProofs ----------------------------
(***************************************************************************)
(* Theorems about Store, for any number of lists, entries and faults.      *)
(***************************************************************************)
EXTENDS Store, TLAPS

\* What is acknowledged or about to be.
Acked == told \cup due

\* Memory holds every change that was saved or is being saved.
MemoryTold == up => \A l \in Lists \ hit : AsTold(l, list[l], Acked, Begun)

InMemory ==
    op # None => (op.kind = "add" <=> op.id \in list[op.list])

\* A file neither cut short nor behind holds every change that was saved: what
\* a stop at this step would bring back.
FileTold == \A l \in Lists \ (hit \cup Behind) :
    file[l] # Torn /\ AsTold(l, file[l], Acked, Begun)

\* Unless a change to it is being saved, a list shows what its file holds.
InStep == up => \A l \in Lists \ stale :
    (op # None /\ op.list = l) \/ Read(file[l]) = list[l]

\* Only what has been in the list is deleted.
DeletesKnown == \A l \in Lists, id \in Ids : Deleting(l, id) \in Begun => Known(l, id)

\* A service that is down saves nothing and owes nothing.
Quiet == /\ ~up => op = None /\ due = {} /\ stale = {}
         /\ op = None => ~writing

StoreInv ==
    TypeOK /\ MemoryTold /\ InMemory /\ FileTold /\ InStep /\ DeletesKnown /\ Quiet

\* What changes mean to a list depends on no more than which are acknowledged
\* and which begun: fewer of the former and more of the latter ask less of it.
LEMMA AsksLess ==
    ASSUME NEW l, NEW s, NEW acked, NEW begun, NEW acked2, NEW begun2,
           AsTold(l, s, acked, begun), acked2 \subseteq acked, begun \subseteq begun2
    PROVE  AsTold(l, s, acked2, begun2)
BY DEF AsTold

LEMMA ChangeParts ==
    ASSUME NEW l \in Lists, NEW id \in Ids
    PROVE  /\ Adding(l, id) \in Changes /\ Deleting(l, id) \in Changes
           /\ Adding(l, id) # None /\ Deleting(l, id) # None
           /\ Adding(l, id).list = l /\ Adding(l, id).id = id /\ Adding(l, id).kind = "add"
           /\ Deleting(l, id).list = l /\ Deleting(l, id).id = id /\ Deleting(l, id).kind = "del"
BY StoreAssumption DEF Adding, Deleting, Changes

LEMMA ChangeIs ==
    ASSUME NEW c \in Changes
    PROVE  /\ c.list \in Lists /\ c.id \in Ids /\ c # None
           /\ c = Adding(c.list, c.id) \/ c = Deleting(c.list, c.id)
           /\ c.kind = "add" => c = Adding(c.list, c.id)
           /\ c.kind # "add" => c = Deleting(c.list, c.id) /\ c.kind = "del"
BY StoreAssumption DEF Adding, Deleting, Changes

LEMMA InitInv == Init => StoreInv
<1> SUFFICES ASSUME Init PROVE StoreInv
  OBVIOUS
<1> USE StoreAssumption DEF Init
<1>1. TypeOK
  <2>1. list \in [Lists -> SUBSET Ids] /\ file \in [Lists -> Contents]
    BY DEF Contents
  <2>2. disk \in [Lists -> SUBSET Contents]
    <3>1. {{}} \in SUBSET Contents
      BY DEF Contents
    <3>2. QED
      BY <3>1
  <2>3. Torn \notin {list[l] : l \in Lists}
    BY <2>1
  <2>4. 0 \in 0 .. MaxFaults
    OBVIOUS
  <2>5. up \in BOOLEAN /\ writing \in BOOLEAN
    OBVIOUS
  <2>6. QED
    BY <2>1, <2>2, <2>3, <2>4, <2>5 DEF TypeOK
<1>2. Acked = {} /\ Begun = {} /\ Behind = {}
  BY DEF Acked, Begun, Behind
<1>3. MemoryTold /\ FileTold
  BY <1>2 DEF MemoryTold, FileTold, AsTold
<1>4. InMemory /\ InStep /\ Quiet
  BY DEF InMemory, InStep, Quiet, Read
<1>5. DeletesKnown
  BY <1>2 DEF DeletesKnown
<1>6. QED
  BY <1>1, <1>3, <1>4, <1>5 DEF StoreInv

\* A change enters the mutex and the list in memory.
LEMMA BeginKeeps ==
    ASSUME StoreInv, NEW l \in Lists, NEW id \in Ids, NEW c \in {Adding(l, id), Deleting(l, id)},
           Begin(c),
           c = Adding(l, id) => ~Known(l, id),
           c = Deleting(l, id) => Known(l, id),
           list' = [list EXCEPT ![l] = IF c.kind = "add" THEN @ \cup {id} ELSE @ \ {id}]
    PROVE  StoreInv'
<1>1. TypeOK
  BY DEF StoreInv
<1>2. c \in Changes /\ c # None /\ c.list = l /\ c.id = id
  BY ChangeParts
<1>3. up /\ up' /\ op = None /\ op' = c /\ ~writing /\ ~writing'
  BY DEF Begin, StoreInv, Quiet
<1>4. UNCHANGED <<file, disk, due, told, untold, stale, hit, faults>>
  BY DEF Begin
<1>5. Acked' = Acked /\ Begun' = Begun \cup {c} /\ Behind' = Behind
  BY <1>2, <1>3, <1>4 DEF Acked, Begun, Behind
<1>6. list' \in [Lists -> SUBSET Ids]
  BY <1>1 DEF TypeOK
<1>7. list'[l] = (IF c.kind = "add" THEN list[l] \cup {id} ELSE list[l] \ {id})
      /\ \A m \in Lists : m # l => list'[m] = list[m]
  BY <1>1 DEF TypeOK
<1>8. TypeOK'
  <2>1. Torn \notin {list'[m] : m \in Lists}
    BY <1>6, StoreAssumption
  <2>2. UNCHANGED <<up, writing>>
    BY DEF Begin
  <2>3. QED
    BY <1>1, <1>2, <1>3, <1>4, <1>6, <2>1, <2>2 DEF TypeOK
<1>9. MemoryTold'
  <2> SUFFICES ASSUME NEW m \in Lists, m \notin hit
               PROVE  AsTold(m, list'[m], Acked, Begun \cup {c})
    BY <1>4, <1>5 DEF MemoryTold
  <2>1. AsTold(m, list[m], Acked, Begun)
    BY <1>3 DEF StoreInv, MemoryTold
  <2>2. CASE m # l
    BY <1>7, <2>1, <2>2, AsksLess
  <2>3. CASE m = l /\ c = Adding(l, id)
    <3>1. list'[m] = list[m] \cup {id}
      BY <1>7, <2>3, ChangeParts
    <3>2. Deleting(m, id) \notin Acked
      BY <2>3 DEF StoreInv, DeletesKnown, Acked, Begun
    <3>3. QED
      BY <2>1, <2>3, <3>1, <3>2 DEF AsTold
  <2>4. CASE m = l /\ c = Deleting(l, id)
    <3>1. list'[m] = list[m] \ {id}
      BY <1>7, <2>4, ChangeParts
    <3>2. QED
      BY <2>1, <2>4, <3>1 DEF AsTold
  <2>5. QED
    BY <2>2, <2>3, <2>4
<1>10. FileTold'
  <2> SUFFICES ASSUME NEW m \in Lists \ (hit \cup Behind)
               PROVE  file[m] # Torn /\ AsTold(m, file[m], Acked, Begun \cup {c})
    BY <1>4, <1>5 DEF FileTold
  <2>1. file[m] # Torn /\ AsTold(m, file[m], Acked, Begun)
    BY DEF StoreInv, FileTold
  <2>2. QED
    BY <2>1, AsksLess
<1>11. InMemory'
  <2>1. CASE c = Adding(l, id)
    BY <1>2, <1>3, <1>7, <2>1, ChangeParts DEF InMemory
  <2>2. CASE c = Deleting(l, id)
    BY <1>2, <1>3, <1>7, <2>2, ChangeParts DEF InMemory
  <2>3. QED
    BY <2>1, <2>2
<1>12. InStep'
  BY <1>2, <1>3, <1>4, <1>7 DEF StoreInv, InStep
<1>13. DeletesKnown'
  <2> SUFFICES ASSUME NEW m \in Lists, NEW i \in Ids, Deleting(m, i) \in Begun \cup {c}
               PROVE  Adding(m, i) \in Begun \cup {c}
    BY <1>5 DEF DeletesKnown, Known
  <2>1. CASE Deleting(m, i) \in Begun
    BY <2>1 DEF StoreInv, DeletesKnown, Known
  <2>2. CASE Deleting(m, i) = c
    <3>1. c = Deleting(l, id) /\ m = l /\ i = id
      BY <1>2, <2>2, ChangeParts
    <3>2. QED
      BY <3>1 DEF Known
  <2>3. QED
    BY <2>1, <2>2
<1>14. Quiet'
  BY <1>2, <1>3 DEF Quiet
<1>15. QED
  BY <1>8, <1>9, <1>10, <1>11, <1>12, <1>13, <1>14 DEF StoreInv

LEMMA AddKeeps ==
    ASSUME StoreInv, NEW l \in Lists, NEW id \in Ids, Add(l, id)
    PROVE  StoreInv'
<1>1. Adding(l, id).kind = "add" /\ Adding(l, id) # Deleting(l, id)
  BY ChangeParts
<1>2. QED
  BY <1>1, BeginKeeps DEF Add

LEMMA DelKeeps ==
    ASSUME StoreInv, NEW l \in Lists, NEW id \in Ids, Del(l, id)
    PROVE  StoreInv'
<1>1. Deleting(l, id).kind = "del" /\ Adding(l, id) # Deleting(l, id)
  BY ChangeParts
<1>2. QED
  BY <1>1, BeginKeeps DEF Del, Without

LEMMA SaveOpenKeeps ==
    ASSUME StoreInv, SaveOpen
    PROVE  StoreInv'
<1>1. TypeOK /\ op \in Changes /\ op # None /\ op.list \in Lists
  BY ChangeIs DEF StoreInv, TypeOK, SaveOpen
<1>2. UNCHANGED <<up, list, op, due, told, untold, stale, hit, faults>> /\ writing' = TRUE
  BY DEF SaveOpen
<1>3. /\ file' = [file EXCEPT ![op.list] = Torn]
      /\ disk' = [disk EXCEPT ![op.list] = @ \cup {Torn}]
  BY DEF SaveOpen
<1>4. Acked' = Acked /\ Begun' = Begun /\ Behind' = Behind \cup {op.list}
  BY <1>2 DEF Acked, Begun, Behind, SaveOpen
<1>5. TypeOK'
  <2>1. file' \in [Lists -> Contents]
    BY <1>1, <1>3 DEF TypeOK, Contents
  <2>2. disk' \in [Lists -> SUBSET Contents]
    BY <1>1, <1>3 DEF TypeOK, Contents
  <2>3. QED
    BY <1>1, <1>2, <2>1, <2>2 DEF TypeOK
<1>6. \A m \in Lists : m # op.list => file'[m] = file[m]
  BY <1>1, <1>3 DEF TypeOK
<1>7. MemoryTold' /\ InMemory' /\ DeletesKnown' /\ Quiet'
  BY <1>1, <1>2, <1>4 DEF StoreInv, MemoryTold, InMemory, DeletesKnown, Known, Quiet
<1>8. FileTold'
  BY <1>2, <1>4, <1>6 DEF StoreInv, FileTold
<1>9. InStep'
  BY <1>1, <1>2, <1>6 DEF StoreInv, InStep
<1>10. QED
  BY <1>5, <1>7, <1>8, <1>9 DEF StoreInv

\* The end of a save, be it good or bad, leaves memory as its clients are told,
\* or are about to be.
LEMMA EndOfSave ==
    ASSUME StoreInv, op # None, Return,
           due' \in {due, due \cup {op}}, untold' \in {untold, untold \cup {op}},
           op \in due' \cup untold'
    PROVE  /\ op \in Changes /\ op.list \in Lists /\ up
           /\ due' \subseteq Changes /\ untold' \subseteq Changes
           /\ Begun' = Begun /\ Acked' \subseteq Acked \cup {op}
           /\ op.list \notin hit => AsTold(op.list, list[op.list], Acked', Begun)
           /\ \A l \in Lists, s \in SUBSET Ids :
                  l # op.list /\ AsTold(l, s, Acked, Begun) => AsTold(l, s, Acked', Begun)
           /\ MemoryTold' /\ InMemory' /\ DeletesKnown' /\ Quiet'
<1>1. TypeOK /\ op \in Changes /\ op.list \in Lists /\ op.id \in Ids /\ up
  BY ChangeIs DEF StoreInv, TypeOK, Quiet
<1>2. op' = None /\ ~writing' /\ UNCHANGED <<up, list, told, hit>>
  BY DEF Return
<1>3. due' \subseteq Changes /\ untold' \subseteq Changes
  BY <1>1 DEF TypeOK
<1>4. Begun' = Begun
  BY <1>2 DEF Begun
<1>5. Acked' \subseteq Acked \cup {op}
  BY <1>2 DEF Acked
<1>6. \A l \in Lists, s \in SUBSET Ids :
          l # op.list /\ AsTold(l, s, Acked, Begun) => AsTold(l, s, Acked', Begun)
  <2> SUFFICES ASSUME NEW l \in Lists, NEW s \in SUBSET Ids, l # op.list,
                      AsTold(l, s, Acked, Begun)
               PROVE  AsTold(l, s, Acked', Begun)
    OBVIOUS
  <2>1. \A id \in Ids : Adding(l, id) # op /\ Deleting(l, id) # op
    BY ChangeParts
  <2>2. QED
    BY <1>5, <2>1 DEF AsTold
<1>7. op.list \notin hit => AsTold(op.list, list[op.list], Acked', Begun)
  <2> SUFFICES ASSUME op.list \notin hit PROVE AsTold(op.list, list[op.list], Acked', Begun)
    OBVIOUS
  <2>1. AsTold(op.list, list[op.list], Acked, Begun)
    BY <1>1 DEF StoreInv, MemoryTold
  <2>2. \A id \in Ids : Adding(op.list, id) = op => id = op.id /\ op.kind = "add"
    BY <1>1, ChangeParts
  <2>3. \A id \in Ids : Deleting(op.list, id) = op => id = op.id /\ op.kind # "add"
    BY <1>1, ChangeParts
  <2>4. op.kind = "add" <=> op.id \in list[op.list]
    BY DEF StoreInv, InMemory
  <2>5. QED
    BY <1>5, <2>1, <2>2, <2>3, <2>4 DEF AsTold
<1>8. MemoryTold'
  <2> SUFFICES ASSUME NEW l \in Lists, l \notin hit PROVE AsTold(l, list[l], Acked', Begun)
    BY <1>2, <1>4 DEF MemoryTold
  <2>1. list[l] \in SUBSET Ids
    BY <1>1 DEF TypeOK
  <2>2. AsTold(l, list[l], Acked, Begun)
    BY <1>1 DEF StoreInv, MemoryTold
  <2>3. QED
    BY <1>6, <1>7, <2>1, <2>2
<1>9. InMemory' /\ DeletesKnown' /\ Quiet'
  BY <1>1, <1>2, <1>4 DEF StoreInv, InMemory, DeletesKnown, Known, Quiet
<1>10. QED
  BY <1>1, <1>3, <1>4, <1>5, <1>6, <1>7, <1>8, <1>9

LEMMA SaveWriteKeeps ==
    ASSUME StoreInv, SaveWrite
    PROVE  StoreInv'
<1>1. op # None /\ writing /\ Return /\ due' = due \cup {op} /\ untold' = untold
  BY DEF SaveWrite
<1>2. /\ op \in Changes /\ op.list \in Lists /\ up
      /\ due' \subseteq Changes /\ untold' \subseteq Changes
      /\ Begun' = Begun /\ Acked' \subseteq Acked \cup {op}
      /\ op.list \notin hit => AsTold(op.list, list[op.list], Acked', Begun)
      /\ \A l \in Lists, s \in SUBSET Ids :
             l # op.list /\ AsTold(l, s, Acked, Begun) => AsTold(l, s, Acked', Begun)
      /\ MemoryTold' /\ InMemory' /\ DeletesKnown' /\ Quiet'
  BY <1>1, EndOfSave
<1>3. TypeOK
  BY DEF StoreInv
<1>4. /\ file' = [file EXCEPT ![op.list] = list[op.list]]
      /\ disk' = [disk EXCEPT ![op.list] = @ \cup {list[op.list]}]
      /\ stale' = stale \ {op.list}
      /\ UNCHANGED <<up, list, told, hit, faults>> /\ op' = None /\ ~writing' /\ writing' = FALSE
  BY DEF SaveWrite, Return
<1>5. list[op.list] \in SUBSET Ids /\ list[op.list] # Torn /\ list[op.list] \in Contents
  BY <1>2, <1>3, StoreAssumption DEF TypeOK, Contents
<1>6. TypeOK'
  <2>1. file' \in [Lists -> Contents]
    BY <1>2, <1>3, <1>4, <1>5 DEF TypeOK
  <2>2. disk' \in [Lists -> SUBSET Contents]
    BY <1>2, <1>3, <1>4, <1>5 DEF TypeOK
  <2>3. QED
    BY <1>2, <1>3, <1>4, <2>1, <2>2 DEF TypeOK
<1>7. file'[op.list] = list[op.list] /\ \A m \in Lists : m # op.list => file'[m] = file[m]
  BY <1>2, <1>3, <1>4 DEF TypeOK
<1>8. FileTold'
  <2> SUFFICES ASSUME NEW m \in Lists \ (hit \cup stale')
               PROVE  file'[m] # Torn /\ AsTold(m, file'[m], Acked', Begun)
    BY <1>2, <1>4 DEF FileTold, Behind
  <2>1. CASE m = op.list
    BY <1>2, <1>5, <1>7, <2>1
  <2>2. CASE m # op.list
    <3>1. m \in Lists \ (hit \cup Behind)
      BY <1>4, <2>2 DEF Behind
    <3>2. file[m] # Torn /\ AsTold(m, file[m], Acked, Begun)
      BY <3>1 DEF StoreInv, FileTold
    <3>3. file[m] \in SUBSET Ids
      BY <1>3, <3>2 DEF TypeOK, Contents
    <3>4. QED
      BY <1>2, <1>7, <2>2, <3>2, <3>3
  <2>3. QED
    BY <2>1, <2>2
<1>9. InStep'
  <2> SUFFICES ASSUME NEW m \in Lists \ stale' PROVE Read(file'[m]) = list[m]
    BY <1>4 DEF InStep
  <2>1. CASE m = op.list
    BY <1>5, <1>7, <2>1 DEF Read
  <2>2. CASE m # op.list
    BY <1>2, <1>4, <1>7, <2>2 DEF StoreInv, InStep
  <2>3. QED
    BY <2>1, <2>2
<1>10. QED
  BY <1>2, <1>6, <1>8, <1>9 DEF StoreInv

LEMMA SaveFailKeeps ==
    ASSUME StoreInv, SaveFail
    PROVE  StoreInv'
<1>1. /\ op # None /\ Return
      /\ due' \in {due, due \cup {op}} /\ untold' \in {untold, untold \cup {op}}
      /\ op \in due' \cup untold'
  <2>1. op \in Changes
    BY DEF SaveFail, StoreInv, TypeOK
  <2>2. op.kind # "add" => op.kind = "del"
    BY <2>1, ChangeIs
  <2>3. QED
    BY <2>2 DEF SaveFail
<1>2. /\ op \in Changes /\ op.list \in Lists /\ up
      /\ due' \subseteq Changes /\ untold' \subseteq Changes
      /\ Begun' = Begun /\ Acked' \subseteq Acked \cup {op}
      /\ \A l \in Lists, s \in SUBSET Ids :
             l # op.list /\ AsTold(l, s, Acked, Begun) => AsTold(l, s, Acked', Begun)
      /\ MemoryTold' /\ InMemory' /\ DeletesKnown' /\ Quiet'
  BY <1>1, EndOfSave
<1>3. TypeOK
  BY DEF StoreInv
<1>4. /\ stale' = stale \cup {op.list}
      /\ UNCHANGED <<up, list, told, hit>> /\ op' = None /\ ~writing' /\ writing' = FALSE
  BY DEF SaveFail, Return
<1>5. list[op.list] \in Contents
  BY <1>2, <1>3 DEF TypeOK, Contents
<1>6. /\ file' \in [Lists -> Contents] /\ disk' \in [Lists -> SUBSET Contents]
      /\ \A m \in Lists : m # op.list => file'[m] = file[m]
  <2>1. CASE UNCHANGED <<file, disk>>
    BY <1>3, <2>1 DEF TypeOK
  <2>2. CASE /\ file' = [file EXCEPT ![op.list] = list[op.list]]
             /\ disk' = [disk EXCEPT ![op.list] = @ \cup {list[op.list]}]
    <3>1. file' \in [Lists -> Contents] /\ \A m \in Lists : m # op.list => file'[m] = file[m]
      BY <1>2, <1>3, <1>5, <2>2 DEF TypeOK
    <3>2. disk' \in [Lists -> SUBSET Contents]
      BY <1>2, <1>3, <1>5, <2>2 DEF TypeOK
    <3>3. QED
      BY <3>1, <3>2
  <2>3. QED
    BY <2>1, <2>2 DEF SaveFail
<1>7. TypeOK'
  <2>1. faults' \in 0 .. MaxFaults
    BY <1>3, StoreAssumption DEF TypeOK, SaveFail
  <2>2. QED
    BY <1>2, <1>3, <1>4, <1>6, <2>1 DEF TypeOK
<1>8. FileTold'
  <2> SUFFICES ASSUME NEW m \in Lists \ (hit \cup stale')
               PROVE  file'[m] # Torn /\ AsTold(m, file'[m], Acked', Begun)
    BY <1>2, <1>4 DEF FileTold, Behind
  <2>1. m # op.list /\ m \in Lists \ (hit \cup Behind)
    BY <1>4 DEF Behind
  <2>2. file[m] # Torn /\ AsTold(m, file[m], Acked, Begun)
    BY <2>1 DEF StoreInv, FileTold
  <2>3. file[m] \in SUBSET Ids
    BY <1>3, <2>2 DEF TypeOK, Contents
  <2>4. QED
    BY <1>2, <1>6, <2>1, <2>2, <2>3
<1>9. InStep'
  BY <1>2, <1>4, <1>6 DEF StoreInv, InStep
<1>10. QED
  BY <1>2, <1>7, <1>8, <1>9 DEF StoreInv

\* An answer, sent or lost: what was about to be acknowledged is, or is not.
LEMMA AnswerKeeps ==
    ASSUME StoreInv, NEW c \in due, Answer(c) \/ AnswerLost(c)
    PROVE  StoreInv'
<1>1. TypeOK /\ c \in Changes
  BY DEF StoreInv, TypeOK
<1>2. UNCHANGED <<up, list, file, disk, op, writing, stale, hit, faults>> /\ due' = due \ {c}
  BY DEF Answer, AnswerLost
<1>3. /\ told' \subseteq Changes /\ untold' \subseteq Changes
      /\ Acked' \subseteq Acked /\ Begun' = Begun /\ Behind' = Behind
  BY <1>1, <1>2 DEF TypeOK, Answer, AnswerLost, Acked, Begun, Behind
<1>4. TypeOK'
  BY <1>1, <1>2, <1>3 DEF TypeOK
<1>5. MemoryTold'
  <2> SUFFICES ASSUME up, NEW l \in Lists \ hit PROVE AsTold(l, list[l], Acked', Begun)
    BY <1>2, <1>3 DEF MemoryTold
  <2>1. AsTold(l, list[l], Acked, Begun)
    BY DEF StoreInv, MemoryTold
  <2>2. QED
    BY <1>3, <2>1, AsksLess
<1>6. FileTold'
  <2> SUFFICES ASSUME NEW l \in Lists \ (hit \cup Behind)
               PROVE  file[l] # Torn /\ AsTold(l, file[l], Acked', Begun)
    BY <1>2, <1>3 DEF FileTold
  <2>1. file[l] # Torn /\ AsTold(l, file[l], Acked, Begun)
    BY DEF StoreInv, FileTold
  <2>2. QED
    BY <1>3, <2>1, AsksLess
<1>7. InMemory' /\ InStep' /\ DeletesKnown'
  BY <1>2, <1>3 DEF StoreInv, InMemory, InStep, DeletesKnown, Known
<1>8. Quiet'
  BY <1>2 DEF StoreInv, Quiet
<1>9. QED
  BY <1>4, <1>5, <1>6, <1>7, <1>8 DEF StoreInv

LEMMA WriteBackKeeps ==
    ASSUME StoreInv, NEW l \in Lists, WriteBack(l)
    PROVE  StoreInv'
<1>1. TypeOK
  BY DEF StoreInv
<1>2. UNCHANGED <<up, list, file, op, writing, due, told, untold, stale, hit, faults>>
  BY DEF WriteBack
<1>3. disk' \in [Lists -> SUBSET Contents]
  BY <1>1 DEF TypeOK, WriteBack
<1>4. TypeOK'
  BY <1>1, <1>2, <1>3 DEF TypeOK
<1>5. Acked' = Acked /\ Begun' = Begun /\ Behind' = Behind
  BY <1>2 DEF Acked, Begun, Behind
<1>6. MemoryTold' /\ FileTold'
  BY <1>2, <1>5 DEF StoreInv, MemoryTold, FileTold
<1>7. InMemory' /\ InStep' /\ DeletesKnown' /\ Quiet'
  BY <1>2, <1>5 DEF StoreInv, InMemory, InStep, DeletesKnown, Known, Quiet
<1>8. QED
  BY <1>4, <1>6, <1>7 DEF StoreInv

\* A service that goes down leaves the files of the lists not hit as they are,
\* and they hold what its clients were told.
LEMMA DownKeeps ==
    ASSUME StoreInv, Down, hit \cup Behind \subseteq hit', hit' \subseteq Lists,
           file' \in [Lists -> Contents], disk' \in [Lists -> SUBSET Contents],
           faults' \in 0 .. MaxFaults,
           \A l \in Lists \ hit' : file'[l] = file[l]
    PROVE  StoreInv'
<1>1. TypeOK
  BY DEF StoreInv
<1>2. /\ ~up' /\ up' = FALSE /\ op' = None /\ writing' = FALSE /\ due' = {} /\ stale' = {}
      /\ untold' = untold \cup due \cup ({op} \ {None}) /\ UNCHANGED <<list, told>>
  BY DEF Down
<1>3. untold' \subseteq Changes /\ Acked' \subseteq Acked /\ Begun' = Begun
  BY <1>1, <1>2 DEF TypeOK, Acked, Begun
<1>4. Behind' = {}
  BY <1>2 DEF Behind
<1>5. TypeOK'
  BY <1>1, <1>2, <1>3 DEF TypeOK
<1>6. FileTold'
  <2> SUFFICES ASSUME NEW l \in Lists \ hit'
               PROVE  file[l] # Torn /\ AsTold(l, file[l], Acked', Begun)
    BY <1>3, <1>4 DEF FileTold
  <2>1. file[l] # Torn /\ AsTold(l, file[l], Acked, Begun)
    BY DEF StoreInv, FileTold
  <2>2. QED
    BY <1>3, <2>1, AsksLess
<1>7. MemoryTold' /\ InMemory' /\ InStep' /\ Quiet'
  BY <1>2 DEF MemoryTold, InMemory, InStep, Quiet
<1>8. DeletesKnown'
  BY <1>3 DEF StoreInv, DeletesKnown, Known
<1>9. QED
  BY <1>5, <1>6, <1>7, <1>8 DEF StoreInv

LEMMA StopKeeps ==
    ASSUME StoreInv, Stop \/ PowerCut
    PROVE  StoreInv'
<1>1. TypeOK
  BY DEF StoreInv
<1>2. Behind \subseteq Lists
  <2>1. writing => op \in Changes
    BY <1>1 DEF StoreInv, Quiet, TypeOK
  <2>2. writing => op.list \in Lists
    BY <2>1, ChangeIs
  <2>3. QED
    BY <1>1, <2>2 DEF Behind, TypeOK
<1>3. CASE Stop
  <2>1. hit' = hit \cup Behind /\ UNCHANGED <<file, disk, faults>> /\ Down
    BY <1>3 DEF Stop
  <2>2. hit \cup Behind \subseteq hit' /\ hit' \subseteq Lists
    BY <1>1, <1>2, <2>1 DEF TypeOK
  <2>3. file' \in [Lists -> Contents] /\ disk' \in [Lists -> SUBSET Contents]
        /\ faults' \in 0 .. MaxFaults
    BY <1>1, <2>1 DEF TypeOK
  <2>4. QED
    BY <2>1, <2>2, <2>3, DownKeeps
<1>4. CASE PowerCut
  <2>1. /\ Down /\ file' \in [Lists -> Contents]
        /\ disk' = [l \in Lists |-> {file'[l]}]
        /\ hit' = hit \cup Behind \cup {l \in Lists : disk[l] # {file[l]}}
    BY <1>4 DEF PowerCut
  <2>2. hit \cup Behind \subseteq hit' /\ hit' \subseteq Lists
    BY <1>1, <1>2, <2>1 DEF TypeOK
  <2>3. disk' \in [Lists -> SUBSET Contents]
    BY <2>1
  <2>4. faults' \in 0 .. MaxFaults
    BY <1>1, <1>4, StoreAssumption DEF TypeOK, PowerCut
  <2>5. \A l \in Lists \ hit' : file'[l] = file[l]
    BY <1>4, <2>1 DEF PowerCut
  <2>6. QED
    BY <2>1, <2>2, <2>3, <2>4, <2>5, DownKeeps
<1>5. QED
  BY <1>3, <1>4

\* A start reads the files.
LEMMA StartKeeps ==
    ASSUME StoreInv, Start
    PROVE  StoreInv'
<1>1. TypeOK /\ op = None /\ due = {} /\ stale = {} /\ ~writing /\ Behind = {}
  BY DEF StoreInv, Quiet, Start, Behind
<1>2. /\ up' /\ up' = TRUE /\ list' = [l \in Lists |-> Read(file[l])]
      /\ UNCHANGED <<file, disk, op, writing, due, told, untold, stale, hit, faults>>
  BY DEF Start
<1>3. list' \in [Lists -> SUBSET Ids]
  BY <1>1, <1>2 DEF TypeOK, Read, Contents
<1>4. Torn \notin {list'[l] : l \in Lists}
  BY <1>3, StoreAssumption
<1>5. TypeOK'
  BY <1>1, <1>2, <1>3, <1>4 DEF TypeOK
<1>6. Acked' = Acked /\ Begun' = Begun /\ Behind' = Behind
  BY <1>2 DEF Acked, Begun, Behind
<1>7. MemoryTold'
  <2> SUFFICES ASSUME NEW l \in Lists \ hit PROVE AsTold(l, list'[l], Acked, Begun)
    BY <1>2, <1>6 DEF MemoryTold
  <2>1. file[l] # Torn /\ AsTold(l, file[l], Acked, Begun)
    BY <1>1 DEF StoreInv, FileTold
  <2>2. QED
    BY <1>2, <2>1 DEF Read
<1>8. FileTold' /\ DeletesKnown'
  BY <1>2, <1>6 DEF StoreInv, FileTold, DeletesKnown, Known
<1>9. InMemory' /\ InStep' /\ Quiet'
  BY <1>1, <1>2 DEF InMemory, InStep, Quiet
<1>10. QED
  BY <1>5, <1>7, <1>8, <1>9 DEF StoreInv

LEMMA NextInv == StoreInv /\ [Next]_vars => StoreInv'
<1> SUFFICES ASSUME StoreInv, [Next]_vars PROVE StoreInv'
  OBVIOUS
<1>1. CASE \E l \in Lists, id \in Ids : Add(l, id) \/ Del(l, id)
  BY <1>1, AddKeeps, DelKeeps
<1>2. CASE SaveOpen \/ SaveWrite \/ SaveFail
  BY <1>2, SaveOpenKeeps, SaveWriteKeeps, SaveFailKeeps
<1>3. CASE \E c \in due : Answer(c) \/ AnswerLost(c)
  BY <1>3, AnswerKeeps
<1>4. CASE \E l \in Lists : WriteBack(l)
  BY <1>4, WriteBackKeeps
<1>5. CASE Stop \/ PowerCut
  BY <1>5, StopKeeps
<1>6. CASE Start
  BY <1>6, StartKeeps
<1>7. CASE UNCHANGED vars
  <2>1. Acked' = Acked /\ Begun' = Begun /\ Behind' = Behind
    BY <1>7 DEF vars, Acked, Begun, Behind
  <2>2. TypeOK' /\ InMemory' /\ InStep' /\ Quiet'
    BY <1>7 DEF vars, StoreInv, TypeOK, InMemory, InStep, Quiet
  <2>3. MemoryTold' /\ FileTold' /\ DeletesKnown'
    BY <1>7, <2>1 DEF vars, StoreInv, MemoryTold, FileTold, DeletesKnown, Known
  <2>4. QED
    BY <2>2, <2>3 DEF StoreInv
<1>8. QED
  BY <1>1, <1>2, <1>3, <1>4, <1>5, <1>6, <1>7 DEF Next

\* What the store keeps is always well formed; nothing of a file that was cut
\* short is ever shown.
THEOREM StoreTyped == Spec => []TypeOK
<1>1. StoreInv => TypeOK
  BY DEF StoreInv
<1>2. QED
  BY <1>1, InitInv, NextInv, PTL DEF Spec

\* However adds, deletes and their answers interleave with failed saves, stops
\* between any two steps and power cuts, a list that no stop met with its last
\* save failed or half written, and no power cut before its file was written
\* back, shows what its clients were told; what else it shows is an entry whose
\* add was begun and not acknowledged.
THEOREM ToldIsShown == Spec => []ListsAsTold
<1>1. StoreInv => ListsAsTold
  <2> SUFFICES ASSUME StoreInv, up, NEW l \in Lists \ hit PROVE AsTold(l, list[l], told, Begun)
    BY DEF ListsAsTold
  <2>1. AsTold(l, list[l], Acked, Begun)
    BY DEF StoreInv, MemoryTold
  <2>2. QED
    BY <2>1, AsksLess DEF Acked
<1>2. QED
  BY <1>1, InitInv, NextInv, PTL DEF Spec

\* After any save that succeeds a restart of the service loses nothing it shows.
THEOREM SavedIsShown == Spec => []FileCatchesUp
<1>1. StoreInv => FileCatchesUp
  BY DEF StoreInv, InStep, FileCatchesUp
<1>2. QED
  BY <1>1, InitInv, NextInv, PTL DEF Spec
=============================================================================
