------------------------------- MODULE Store -------------------------------
(***************************************************************************)
(* The saved devices and macros of the control plane (store.go) as their   *)
(* HTTP handlers use them (api.go).  Both lists live in memory under one   *)
(* mutex; every change rewrites the list's JSON file in place, with        *)
(* os.WriteFile: truncate, write, close, no fsync.  The mutex is released  *)
(* with the end of the save, before the handler answers.  At start a file  *)
(* that does not parse counts as an empty list.                            *)
(*                                                                         *)
(* Abstractions: an entry is its random id (a model value never drawn      *)
(* twice) and a list the set of its entries; names, addresses and scripts  *)
(* are left out; a request the handler rejects before it calls the store   *)
(* changes nothing; a delete names an id that the list has or had (another *)
(* id would do what a second delete of the same one does).                 *)
(***************************************************************************)
EXTENDS Naturals

CONSTANTS
    Lists,      \* the two lists: devices and macros
    Ids,        \* ids that newID draws
    MaxFaults,  \* most failed saves and power cuts in a behaviour (bound)
    Torn,       \* a file cut short
    None

Changes == [list : Lists, kind : {"add", "del"}, id : Ids]
Adding(l, id) == [list |-> l, kind |-> "add", id |-> id]
Deleting(l, id) == [list |-> l, kind |-> "del", id |-> id]

ASSUME StoreAssumption ==
    /\ MaxFaults \in Nat
    /\ \A s \in SUBSET Ids : s # Torn
    /\ \A c \in Changes : c # None

VARIABLES
    up,        \* the service runs
    list,      \* s.devices, s.macros
    file,      \* devices.json, macros.json, as the running system reads them
    disk,      \* per file, what a power cut may leave of it
    op,        \* the change whose save is under way, or None
    writing,   \* its file is truncated and not yet written
    due,       \* changes that have been made and are still to be acknowledged
    told,      \* changes a client was told are made
    untold,    \* changes no client was told are made: refused, or the answer was lost
    stale,     \* the lists whose last save failed, as long as the service runs
    hit,       \* the lists a stop or a power cut took something from
    faults

vars == <<up, list, file, disk, op, writing, due, told, untold, stale, hit, faults>>

Contents == {Torn} \cup SUBSET Ids

TypeOK ==
    /\ up \in BOOLEAN /\ writing \in BOOLEAN
    /\ Torn \notin {list[l] : l \in Lists}   \* nothing of a cut-off file is shown
    /\ list \in [Lists -> SUBSET Ids]
    /\ file \in [Lists -> Contents]
    /\ disk \in [Lists -> SUBSET Contents]
    /\ op \in {None} \cup Changes
    /\ due \subseteq Changes /\ told \subseteq Changes /\ untold \subseteq Changes
    /\ stale \subseteq Lists /\ hit \subseteq Lists
    /\ faults \in 0 .. MaxFaults

Init ==
    /\ up = TRUE /\ writing = FALSE
    /\ list = [l \in Lists |-> {}]
    /\ file = [l \in Lists |-> {}]   \* no file yet reads like an empty list
    /\ disk = [l \in Lists |-> {{}}]
    /\ op = None
    /\ due = {} /\ told = {} /\ untold = {}
    /\ stale = {} /\ hit = {}
    /\ faults = 0

\* All changes that were ever begun.
Begun == told \cup due \cup untold \cup ({op} \ {None})

\* The entry has been in the list, and clients may have seen its id.
Known(l, id) == Adding(l, id) \in Begun

\* The handler enters the store's mutex; the change is in memory before the
\* save begins.
Begin(c) ==
    /\ up /\ op = None
    /\ op' = c
    /\ UNCHANGED <<up, file, disk, writing, due, told, untold, stale, hit, faults>>

\* AddDevice, AddMacro.
Add(l, id) ==
    /\ \A m \in Lists : ~Known(m, id)
    /\ Begin(Adding(l, id))
    /\ list' = [list EXCEPT ![l] = @ \cup {id}]

\* Mutant: all entries but the one are dropped.
Keeping(s, id) == s \cap {id}

\* The entries of a list without the one that is deleted.
Without(s, id) == s \ {id}

\* DelDevice, DelMacro; an unknown id rewrites the file all the same.
Del(l, id) ==
    /\ Known(l, id)
    /\ Begin(Deleting(l, id))
    /\ list' = [list EXCEPT ![l] = Without(@, id)]

\* os.WriteFile opens and truncates.
SaveOpen ==
    /\ op # None /\ ~writing
    /\ writing' = TRUE
    /\ file' = [file EXCEPT ![op.list] = Torn]
    /\ disk' = [disk EXCEPT ![op.list] = @ \cup {Torn}]
    /\ UNCHANGED <<up, list, op, due, told, untold, stale, hit, faults>>

\* The save is over and with it the store's part; what is left is the answer.
Return ==
    /\ op' = None /\ writing' = FALSE
    /\ UNCHANGED <<up, list, told, hit>>

\* Mutant: the list in memory is not what is written.
SaveOnlyNew ==
    /\ op # None /\ writing
    /\ file' = [file EXCEPT ![op.list] = {op.id}]
    /\ disk' = [disk EXCEPT ![op.list] = @ \cup {{op.id}}]
    /\ due' = due \cup {op}
    /\ stale' = stale \ {op.list}
    /\ Return
    /\ UNCHANGED <<untold, faults>>

\* It writes and closes, and leaves it to the kernel when the disk has it.
SaveWrite ==
    /\ op # None /\ writing
    /\ file' = [file EXCEPT ![op.list] = list[op.list]]
    /\ disk' = [disk EXCEPT ![op.list] = @ \cup {list[op.list]}]
    /\ due' = due \cup {op}
    /\ stale' = stale \ {op.list}
    /\ Return
    /\ UNCHANGED <<untold, faults>>

\* A failed open leaves the file alone, a failed write what was written, a
\* failed close perhaps all of it.  The client of an add is told of the error,
\* the entry stays in memory; the delete handlers drop it and answer as ever.
SaveFail ==
    /\ op # None
    /\ faults < MaxFaults /\ faults' = faults + 1
    /\ \/ UNCHANGED <<file, disk>>
       \/ /\ writing
          /\ file' = [file EXCEPT ![op.list] = list[op.list]]
          /\ disk' = [disk EXCEPT ![op.list] = @ \cup {list[op.list]}]
    /\ due' = IF op.kind = "del" THEN due \cup {op} ELSE due
    /\ untold' = IF op.kind = "add" THEN untold \cup {op} ELSE untold
    /\ stale' = stale \cup {op.list}
    /\ Return

\* The handler answers, with the entry or with 204.
Answer(c) ==
    /\ due' = due \ {c}
    /\ told' = told \cup {c}
    /\ UNCHANGED <<up, list, file, disk, op, writing, untold, stale, hit, faults>>

\* The connection breaks before the answer is through.
AnswerLost(c) ==
    /\ due' = due \ {c}
    /\ untold' = untold \cup {c}
    /\ UNCHANGED <<up, list, file, disk, op, writing, told, stale, hit, faults>>

\* The kernel writes a file back, in its own time.
WriteBack(l) ==
    /\ disk' = [disk EXCEPT ![l] = {file[l]}]
    /\ UNCHANGED <<up, list, file, op, writing, due, told, untold, stale, hit, faults>>

\* The service is gone, at whatever step: with it the answers it owes, the
\* change it was making and the lists in memory.
Down ==
    /\ up
    /\ up' = FALSE
    /\ op' = None /\ writing' = FALSE
    /\ due' = {}
    /\ untold' = untold \cup due \cup ({op} \ {None})
    /\ stale' = {}
    /\ UNCHANGED <<list, told>>

\* The lists whose file a stop leaves cut short or behind what was shown.
Behind == stale \cup IF writing THEN {op.list} ELSE {}

Stop ==
    /\ Down
    /\ hit' = hit \cup Behind
    /\ UNCHANGED <<file, disk, faults>>

\* Nothing was fsynced: of a file not yet written back any of its recent
\* contents, or a part of one, is what is left.
PowerCut ==
    /\ Down
    /\ faults < MaxFaults /\ faults' = faults + 1
    /\ file' \in [Lists -> Contents]
    /\ \A l \in Lists : file'[l] \in disk[l]
    /\ disk' = [l \in Lists |-> {file'[l]}]
    /\ hit' = hit \cup Behind \cup {l \in Lists : disk[l] # {file[l]}}

\* Mutant: what is left of a cut-off file becomes the list.
ReadUnchecked(contents) == contents

\* loadJSON ignores a file it cannot parse.
Read(contents) == IF contents = Torn THEN {} ELSE contents

\* NewStore.
Start ==
    /\ ~up
    /\ up' = TRUE
    /\ list' = [l \in Lists |-> Read(file[l])]
    /\ UNCHANGED <<file, disk, op, writing, due, told, untold, stale, hit, faults>>

Next ==
    \/ \E l \in Lists, id \in Ids : Add(l, id) \/ Del(l, id)
    \/ SaveOpen \/ SaveWrite \/ SaveFail
    \/ \E c \in due : Answer(c) \/ AnswerLost(c)
    \/ \E l \in Lists : WriteBack(l)
    \/ Stop \/ PowerCut \/ Start

Spec == Init /\ [][Next]_vars

-----------------------------------------------------------------------------
\* What s says of list l agrees with the changes that were acknowledged, given
\* those that were begun: an entry whose add was acknowledged is there unless
\* its deletion was begun, one whose deletion was acknowledged is not, and
\* nothing is there whose add was never begun.
AsTold(l, s, acked, begun) == \A id \in Ids :
    /\ Adding(l, id) \in acked => id \in s \/ Deleting(l, id) \in begun
    /\ Deleting(l, id) \in acked => id \notin s
    /\ id \in s => Adding(l, id) \in begun

\* The lists show what their clients were told, whatever saves failed and
\* however often the service was stopped, at whatever step, the one between a
\* save and its answer (store.go:81, api.go:23-28) among them; beyond that they
\* show only entries whose add was answered with an error, not yet, or, because
\* of a stop or a broken connection, never.  Exempt is a list that a stop met
\* while its last save had failed or was half written, or a power cut before the
\* kernel had written its file back (store.go:52 does not fsync).  What happens
\* to one list does not reach the other.
ListsAsTold == up => \A l \in Lists \ hit : AsTold(l, list[l], told, Begun)

\* A failed save is made good by the next one that succeeds: from then on a
\* restart of the service loses nothing that it shows (saveJSON writes the whole
\* list each time).  A power cut still may, see hit.
FileCatchesUp ==
    up /\ op = None => \A l \in Lists \ stale : Read(file[l]) = list[l]
=============================================================================
