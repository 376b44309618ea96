----------------------------- MODULE MemoryPalace -----------------------------
(***************************************************************************)
(* The Memory Palace: memory.correct and memory.forget of the MCP gateway  *)
(* over SQLiteMemoryGraphStore.  The gateway serves one request at a time, *)
(* but each write is a transaction of its own and the process can die, or  *)
(* a write raise, between two of them.  A correction is stored under the   *)
(* id of the memory it corrects with the second of the request appended.   *)
(***************************************************************************)
EXTENDS MemoryTransitions, FiniteSets, Sequences, SequencesExt

CONSTANTS
    Seeds,       \* memories stored before the gateway serves
    DayLength,   \* seconds in a day
    LastSecond,  \* bound of the clock
    MaxDepth,    \* bound on corrections of corrections
    MaxRequests, \* bound on requests
    MaxFaults    \* bound on interrupted requests

ASSUME PalaceAssumption ==
    /\ None \notin Nat
    /\ DayLength \in Nat \ {0}
    /\ LastSecond \in Nat /\ MaxDepth \in Nat
    /\ MaxRequests \in Nat /\ MaxFaults \in Nat

\* A memory_id: the seed it goes back to, and the seconds of the corrections.
Ids == [seed : Seeds, at : BoundedSeq(0..LastSecond, MaxDepth)]

VARIABLES
    rows,     \* the memories table
    audits,   \* the audit_events table: action, target and second make the id
    now,
    pc,       \* what the request in progress does next
    target,   \* the memory it is about
    action,   \* "correct_memory" or "delete_memory"
    began,    \* its timestamp
    copy,     \* the corrected record, made of the record as it was read
    served,   \* requests so far
    faults,   \* interrupted requests so far
    hurt,     \* history: seeds that an interrupted request was about
    again     \* history: seeds of which a version was corrected a second time

request == <<pc, target, action, began, copy>>
vars == <<rows, audits, now, request, served, faults, hurt, again>>

TypeOK ==
    /\ DOMAIN rows \subseteq Ids
    /\ rows \in [DOMAIN rows -> Records]
    /\ audits \subseteq [action : {"correct_memory", "delete_memory"},
                         target : Ids, at : 0..LastSecond]
    /\ now \in 0..LastSecond
    /\ pc \in {"rest", "replace", "receipt"}
    /\ target \in Ids \cup {None}
    /\ action \in {"correct_memory", "delete_memory", None}
    /\ began \in 0..LastSecond
    /\ copy \in Records \cup {None}
    /\ served \in 0..MaxRequests /\ faults \in 0..MaxFaults
    /\ hurt \subseteq Seeds /\ again \subseteq Seeds

Root(s) == [seed |-> s, at |-> <<>>]

\* What compile_scene_memory and the gateway's fixtures store.
SeedRecords ==
    {m \in [status : {"candidate", "active"}, evidence : {"observed_and_inferred"},
            confidence : {"fair"}, secret : BOOLEAN, confirm : {FALSE},
            level : {"direct", "tool"}, allowed : {TRUE}, from : {0}, to : {None}] :
        Valid(m)}

Init ==
    /\ rows \in [{Root(s) : s \in Seeds} -> SeedRecords]
    /\ audits = {}
    /\ now = 0
    /\ pc = "rest" /\ target = None /\ action = None /\ began = 0 /\ copy = None
    /\ served = 0 /\ faults = 0 /\ hurt = {} /\ again = {}

-----------------------------------------------------------------------------
Day(second) == second \div DayLength

\* add_memory: an upsert.
Put(id, record) == [x \in DOMAIN rows \cup {id} |-> IF x = id THEN record ELSE rows[x]]

\* get_memory validates the row it reads, and raises if it is not valid.
Readable(id) == id \in DOMAIN rows /\ Valid(rows[id])

CorrectedId(id, second) == [id EXCEPT !.at = Append(@, second)]

\* Mutant of Corrected: the copy is made of the superseded record.
CorrectedSuperseded(original, second) ==
    [Transition(original, "superseded", Day(second)) EXCEPT
        !.evidence = "user_confirmed", !.confidence = "high",
        !.status = "active", !.from = Day(second), !.confirm = FALSE]

\* model_copy of the record as it was read: what it does not name is kept.
Corrected(original, second) ==
    [original EXCEPT !.evidence = "user_confirmed", !.confidence = "high",
                     !.status = "active", !.from = Day(second), !.confirm = FALSE]

Begin(id, what) ==
    /\ pc = "rest" /\ served < MaxRequests
    /\ served' = served + 1
    /\ Readable(id)
    /\ target' = id
    /\ action' = what
    /\ began' = now

Rest == pc' = "rest" /\ target' = None /\ action' = None /\ began' = 0 /\ copy' = None

-----------------------------------------------------------------------------
(* correct_memory *)

\* Mutant of CorrectBegin: the memory that is corrected is left as it was.
CorrectBeginUnsuperseded(id) ==
    /\ Begin(id, "correct_memory")
    /\ Len(id.at) < MaxDepth
    /\ rows[id].status \notin Terminal
    /\ Allowed(rows[id], "superseded", FALSE, TRUE)
    /\ pc' = "replace"
    /\ copy' = Corrected(rows[id], now)
    /\ again' = IF rows[id].status = "superseded" THEN again \cup {id.seed} ELSE again
    /\ UNCHANGED <<rows, audits, now, faults, hurt>>

\* Up to the first write.
CorrectBegin(id) ==
    /\ Begin(id, "correct_memory")
    /\ Len(id.at) < MaxDepth
    /\ rows[id].status \notin Terminal
    /\ Allowed(rows[id], "superseded", FALSE, TRUE)
    /\ pc' = "replace"
    /\ copy' = Corrected(rows[id], now)
    /\ rows' = Put(id, Transition(rows[id], "superseded", Day(now)))
    /\ again' = IF rows[id].status = "superseded" THEN again \cup {id.seed} ELSE again
    /\ UNCHANGED <<audits, now, faults, hurt>>

Replace ==
    /\ pc = "replace"
    /\ pc' = "receipt"
    /\ rows' = Put(CorrectedId(target, began), copy)
    /\ UNCHANGED <<audits, now, target, action, began, copy, served, faults, hurt, again>>

-----------------------------------------------------------------------------
(* delete_memory *)

\* The tombstone is dated by a clock of its own, and nothing is removed.
DeleteBegin(id) ==
    /\ Begin(id, "delete_memory")
    /\ Allowed(rows[id], "deleted", FALSE, FALSE)
    /\ pc' = "receipt"
    /\ rows' = Put(id, Transition(rows[id], "deleted", Day(now)))
    /\ UNCHANGED <<audits, now, copy, faults, hurt, again>>

-----------------------------------------------------------------------------
\* Mutant of Receipt: it is addressed to the replacement.
ReceiptOfReplacement ==
    /\ pc = "receipt"
    /\ audits' = audits \cup {[action |-> action, at |-> began,
                               target |-> IF action = "correct_memory" /\ copy # None
                                          THEN CorrectedId(target, began) ELSE target]}
    /\ Rest
    /\ UNCHANGED <<rows, now, served, faults, hurt, again>>

\* The audit event, in a transaction of its own.
Receipt ==
    /\ pc = "receipt"
    /\ audits' = audits \cup {[action |-> action, target |-> target, at |-> began]}
    /\ Rest
    /\ UNCHANGED <<rows, now, served, faults, hurt, again>>

\* A write raises, or the gateway dies and is started again.
Interrupted ==
    /\ pc # "rest" /\ faults < MaxFaults
    /\ faults' = faults + 1
    /\ hurt' = hurt \cup {target.seed}
    /\ Rest
    /\ UNCHANGED <<rows, audits, now, served, again>>

Tick ==
    /\ now < LastSecond
    /\ now' = now + 1
    /\ UNCHANGED <<rows, audits, request, served, faults, hurt, again>>

Next ==
    \/ \E id \in DOMAIN rows : CorrectBegin(id) \/ DeleteBegin(id)
    \/ Replace \/ Receipt \/ Interrupted \/ Tick

Spec == Init /\ [][Next]_vars

-----------------------------------------------------------------------------
(* Properties *)

Recalled(id) == Found(rows[id], Day(now))
Versions(s) == {id \in DOMAIN rows : id.seed = s}
Recallable(s) == {id \in Versions(s) : Recalled(id)}

\* A search never returns two versions of one memory, even in the middle of a
\* correction, after one that was interrupted, or when an old version is corrected.
OneVersionRecalled == \A s \in Seeds : Cardinality(Recallable(s)) <= 1

\* A correction does not lose the memory: while none of its versions has been
\* deleted, corrected twice or left by an interrupted request, the one a search
\* returns is the last, if a search would return the memory at all.
CorrectionIsRecalled ==
    pc = "rest" =>
        \A s \in Seeds \ (hurt \cup again) :
            (\A id \in Versions(s) : rows[id].status # "deleted" /\ ~rows[id].secret)
                => Recallable(s) = {id \in Versions(s) :
                                        \A v \in Versions(s) : Len(v.at) <= Len(id.at)}

\* A deleted memory is not recalled again, even when its id is minted once more
\* within the second.
DeletedStaysOut ==
    [][\A id \in DOMAIN rows :
            rows[id].status = "deleted" => ~Found(rows'[id], Day(now'))]_vars

\* The receipts account for the state: what is superseded or deleted has one,
\* unless a request about it was interrupted.
ChangesAreAudited ==
    pc = "rest" => \A id \in DOMAIN rows : id.seed \notin hurt =>
        /\ rows[id].status = "superseded" =>
                \E a \in audits : a.target = id /\ a.action = "correct_memory"
        /\ rows[id].status = "deleted" =>
                \E a \in audits : a.target = id /\ a.action = "delete_memory"

\* What is stored can be read back, and so listed, explained and deleted, unless
\* an old version was corrected again.
FirstCorrectionsAreReadable ==
    \A id \in DOMAIN rows : id.seed \notin again => Readable(id)

\* "valid_to cannot be before valid_from", nor may a row break the other rules
\* of the contract: what is stored can be read back.
RowsAreReadable == \A id \in DOMAIN rows : Readable(id)
===============================================================================
