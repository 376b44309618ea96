-------------------------- MODULE ManualMemoryBook --------------------------
(***************************************************************************)
(* The Manual Memory Book: ManualMemoryBookService over the encrypted      *)
(* memory store, the redacted index and the undo and audit tables of one   *)
(* SQLite file.  ThreadingHTTPServer runs every request in a thread of its *)
(* own and no lock covers a request, so a handler is a process whose steps *)
(* are its SQLite transactions.  A handler may raise between two of them   *)
(* ("database is locked"), and the server process may die.                 *)
(*                                                                         *)
(* A memory is its identifier: the text it was saved with never changes,   *)
(* and a tombstone keeps the identifier and drops the text.                *)
(***************************************************************************)
EXTENDS Naturals, FiniteSets

CONSTANTS
    Memories,   \* memory ids _build_memory can mint
    UndoIds,    \* undo ids _store_undo can mint
    Handlers,   \* request threads
    None,
    Window,     \* MANUAL_MEMORY_BOOK_UNDO_MINUTES
    MaxTime,    \* bound of the clock
    MaxFaults   \* bound on failed handlers and server crashes

UndoRow == [mem: Memories, expires: Nat]

ASSUME BookAssumption ==
    /\ None \notin Memories \cup UndoIds \cup UndoRow
    /\ Window \in Nat \ {0}
    /\ MaxTime \in Nat
    /\ MaxFaults \in Nat

VARIABLES
    store,        \* encrypted_memories: the row of each memory id
    replacement,  \* the id a corrected row's tombstone names
    index,        \* redacted_memory_index: the row of each memory id
    undo,         \* manual_memory_undo: the row of each undo id
    audit,        \* manual_memory_audit: the target_refs of each action
    minted,       \* memory ids generated so far
    issued,       \* undo ids generated so far
    offered,      \* undo ids a forget response has returned
    honoured,     \* history: undo ids whose original has been put back
    now,          \* the clock self.now() reads
    faults,       \* failed handlers and crashes so far
    hurt,         \* history: the memories of requests that failed
    pc,           \* what each handler does next
    arg,          \* the memory its request is about
    new,          \* the id of the corrected memory it builds
    uid,          \* the undo id of its request
    ts,           \* the timestamp it read first
    cand,         \* ids a read has still to fetch
    found,        \* cards a read has collected
    wasLive       \* history: memories live at some time during the read

rows == <<store, replacement, index, undo, audit>>
ids == <<minted, issued, offered, honoured>>
failures == <<faults, hurt>>
locals == <<arg, new, uid, ts>>
reads == <<cand, found, wasLive>>
vars == <<rows, ids, now, failures, pc, locals, reads>>

RowState == {"absent", "live", "forgotten", "corrected"}
IndexState == {"absent", "live", "tomb"}
Actions == {"save", "correct", "forget", "undo_forget"}

SaveSteps == {"saveStore", "saveIndex", "saveAudit"}
CorrectSteps == {"correctTombStore", "correctTombIndex", "correctNewStore",
                 "correctNewIndex", "correctAudit"}
ForgetSteps == {"forgetRead", "forgetUndo", "forgetTombStore",
                "forgetTombIndex", "forgetAudit"}
UndoSteps == {"undoSelect", "undoDelete", "undoStore", "undoIndex", "undoAudit"}
Steps == {"idle", "fetch"} \cup SaveSteps \cup CorrectSteps \cup ForgetSteps
            \cup UndoSteps

TypeOK ==
    /\ store \in [Memories -> RowState]
    /\ replacement \in [Memories -> Memories \cup {None}]
    /\ index \in [Memories -> IndexState]
    /\ undo \in [UndoIds -> UndoRow \cup {None}]
    /\ audit \in [Actions -> SUBSET Memories]
    /\ minted \subseteq Memories
    /\ issued \subseteq UndoIds
    /\ offered \subseteq issued
    /\ honoured \subseteq UndoIds
    /\ now \in Nat
    /\ faults \in Nat
    /\ hurt \subseteq Memories
    /\ pc \in [Handlers -> Steps]
    /\ arg \in [Handlers -> Memories \cup {None}]
    /\ new \in [Handlers -> Memories \cup {None}]
    /\ uid \in [Handlers -> UndoIds \cup {None}]
    /\ ts \in [Handlers -> Nat]
    /\ cand \in [Handlers -> SUBSET Memories]
    /\ found \in [Handlers -> SUBSET Memories]
    /\ wasLive \in [Handlers -> SUBSET Memories]

Init ==
    /\ store = [m \in Memories |-> "absent"]
    /\ replacement = [m \in Memories |-> None]
    /\ index = [m \in Memories |-> "absent"]
    /\ undo = [u \in UndoIds |-> None]
    /\ audit = [a \in Actions |-> {}]
    /\ minted = {}
    /\ issued = {}
    /\ offered = {}
    /\ honoured = {}
    /\ now = 0
    /\ faults = 0
    /\ hurt = {}
    /\ pc = [h \in Handlers |-> "idle"]
    /\ arg = [h \in Handlers |-> None]
    /\ new = [h \in Handlers |-> None]
    /\ uid = [h \in Handlers |-> None]
    /\ ts = [h \in Handlers |-> 0]
    /\ cand = [h \in Handlers |-> {}]
    /\ found = [h \in Handlers |-> {}]
    /\ wasLive = [h \in Handlers |-> {}]

-----------------------------------------------------------------------------
(* What the handlers are built from. *)

Live == {m \in Memories : store[m] = "live"}

\* Mutant of Visible: the index row is trusted.
VisibleByIndex(m) == index[m] = "live"

\* _visible_manual_memory: every row is user-confirmed and user-visible, and a
\* row is ACTIVE exactly when it is DIRECT_QUERY.
Visible(m) == store[m] = "live"

\* The rows _candidate_hits selects: a tombstone is STORED_ONLY.
Indexed == {m \in Memories : index[m] = "live"}

\* EncryptedMemoryStore.add_memory: one upsert of the sealed payload.
PutStore(m, row, by) ==
    /\ store' = [store EXCEPT ![m] = row]
    /\ replacement' = [replacement EXCEPT ![m] = by]
    /\ wasLive' = [h \in Handlers |->
                      IF pc[h] = "fetch" /\ row = "live"
                      THEN wasLive[h] \cup {m} ELSE wasLive[h]]

\* Mutant of PutIndex: INSERT OR IGNORE.
PutIndexOnce(m, row) ==
    index' = [index EXCEPT ![m] = IF @ = "absent" THEN row ELSE @]

\* The second half of UnifiedEncryptedGraphIndex.add_memory.
PutIndex(m, row) == index' = [index EXCEPT ![m] = row]

\* Mutant of PutAudit: one event id for each action.
PutAuditOverwrites(action, m) == audit' = [audit EXCEPT ![action] = {m}]

\* _add_audit
PutAudit(action, m) == audit' = [audit EXCEPT ![action] = @ \cup {m}]

Goto(h, from, to) ==
    /\ pc[h] = from
    /\ pc' = [pc EXCEPT ![h] = to]

\* The request is over: its thread keeps nothing.
Clear(h) ==
    /\ arg' = [arg EXCEPT ![h] = None]
    /\ new' = [new EXCEPT ![h] = None]
    /\ uid' = [uid EXCEPT ![h] = None]
    /\ ts' = [ts EXCEPT ![h] = 0]

-----------------------------------------------------------------------------
(* save *)

SaveBegin(h, m) ==
    /\ m \notin minted
    /\ Goto(h, "idle", "saveStore")
    /\ minted' = minted \cup {m}
    /\ arg' = [arg EXCEPT ![h] = m]
    /\ UNCHANGED <<rows, issued, offered, honoured, now, failures, new, uid, ts, reads>>

SaveStore(h) ==
    /\ Goto(h, "saveStore", "saveIndex")
    /\ PutStore(arg[h], "live", None)
    /\ UNCHANGED <<index, undo, audit, ids, now, failures, locals, cand, found>>

SaveIndex(h) ==
    /\ Goto(h, "saveIndex", "saveAudit")
    /\ PutIndex(arg[h], "live")
    /\ UNCHANGED <<store, replacement, undo, audit, ids, now, failures, locals,
                   reads>>

SaveAudit(h) ==
    /\ Goto(h, "saveAudit", "idle")
    /\ PutAudit("save", arg[h])
    /\ Clear(h)
    /\ UNCHANGED <<store, replacement, index, undo, ids, now, failures, reads>>

-----------------------------------------------------------------------------
(* correct *)

\* _require_active_memory, then the two records the handler will write.
CorrectBegin(h, m, n) ==
    /\ Visible(m)
    /\ n \notin minted
    /\ Goto(h, "idle", "correctTombStore")
    /\ minted' = minted \cup {n}
    /\ arg' = [arg EXCEPT ![h] = m]
    /\ new' = [new EXCEPT ![h] = n]
    /\ UNCHANGED <<rows, issued, offered, honoured, now, failures, uid, ts, reads>>

\* Mutant of CorrectTombStore: the tombstone names no replacement.
CorrectTombStoreUnlinked(h) ==
    /\ Goto(h, "correctTombStore", "correctTombIndex")
    /\ PutStore(arg[h], "corrected", None)
    /\ UNCHANGED <<index, undo, audit, ids, now, failures, locals, cand, found>>

CorrectTombStore(h) ==
    /\ Goto(h, "correctTombStore", "correctTombIndex")
    /\ PutStore(arg[h], "corrected", new[h])
    /\ UNCHANGED <<index, undo, audit, ids, now, failures, locals, cand, found>>

CorrectTombIndex(h) ==
    /\ Goto(h, "correctTombIndex", "correctNewStore")
    /\ PutIndex(arg[h], "tomb")
    /\ UNCHANGED <<store, replacement, undo, audit, ids, now, failures, locals,
                   reads>>

CorrectNewStore(h) ==
    /\ Goto(h, "correctNewStore", "correctNewIndex")
    /\ PutStore(new[h], "live", None)
    /\ UNCHANGED <<index, undo, audit, ids, now, failures, locals, cand, found>>

CorrectNewIndex(h) ==
    /\ Goto(h, "correctNewIndex", "correctAudit")
    /\ PutIndex(new[h], "live")
    /\ UNCHANGED <<store, replacement, undo, audit, ids, now, failures, locals,
                   reads>>

CorrectAudit(h) ==
    /\ Goto(h, "correctAudit", "idle")
    /\ PutAudit("correct", arg[h])
    /\ Clear(h)
    /\ UNCHANGED <<store, replacement, index, undo, ids, now, failures, reads>>

-----------------------------------------------------------------------------
(* forget, confirmed: an unconfirmed request returns before it reads *)

\* The undo id is made of the memory id and of the request's timestamp in
\* microseconds: two forgets of one memory do not share it.
FreshUndoId(u) == u \notin issued

ForgetBegin(h, m, u) ==
    /\ FreshUndoId(u)
    /\ Goto(h, "idle", "forgetRead")
    /\ issued' = issued \cup {u}
    /\ arg' = [arg EXCEPT ![h] = m]
    /\ uid' = [uid EXCEPT ![h] = u]
    /\ ts' = [ts EXCEPT ![h] = now]
    /\ UNCHANGED <<rows, minted, offered, honoured, now, failures, new, reads>>

\* Mutant of ForgetRead: the original is not sealed away first.
ForgetReadSkipsUndo(h) ==
    /\ Goto(h, "forgetRead", "forgetTombStore")
    /\ Visible(arg[h])
    /\ UNCHANGED <<rows, ids, now, failures, locals, reads>>

ForgetRead(h) ==
    /\ Goto(h, "forgetRead", "forgetUndo")
    /\ Visible(arg[h])
    /\ UNCHANGED <<rows, ids, now, failures, locals, reads>>

\* KeyError: the memory is not active any more.
ForgetMissing(h) ==
    /\ Goto(h, "forgetRead", "idle")
    /\ ~Visible(arg[h])
    /\ Clear(h)
    /\ UNCHANGED <<rows, ids, now, failures, reads>>

UndoRecord(h) == [mem |-> arg[h], expires |-> ts[h] + Window]

ForgetUndo(h) ==
    /\ Goto(h, "forgetUndo", "forgetTombStore")
    /\ undo' = [undo EXCEPT ![uid[h]] = UndoRecord(h)]
    /\ UNCHANGED <<store, replacement, index, audit, ids, now, failures, locals,
                   reads>>

ForgetTombStore(h) ==
    /\ Goto(h, "forgetTombStore", "forgetTombIndex")
    /\ PutStore(arg[h], "forgotten", None)
    /\ UNCHANGED <<index, undo, audit, ids, now, failures, locals, cand, found>>

ForgetTombIndex(h) ==
    /\ Goto(h, "forgetTombIndex", "forgetAudit")
    /\ PutIndex(arg[h], "tomb")
    /\ UNCHANGED <<store, replacement, undo, audit, ids, now, failures, locals,
                   reads>>

\* The response carries the undo id to the client.
ForgetAudit(h) ==
    /\ Goto(h, "forgetAudit", "idle")
    /\ PutAudit("forget", arg[h])
    /\ offered' = offered \cup {uid[h]}
    /\ Clear(h)
    /\ UNCHANGED <<store, replacement, index, undo, minted, issued, honoured, now,
                   failures, reads>>

-----------------------------------------------------------------------------
(* undo_forget *)

UndoBegin(h, u) ==
    /\ u \in offered
    /\ Goto(h, "idle", "undoSelect")
    /\ uid' = [uid EXCEPT ![h] = u]
    /\ ts' = [ts EXCEPT ![h] = now]
    /\ UNCHANGED <<rows, ids, now, failures, arg, new, reads>>

\* Mutant of Lapsed: the last instant still counts.
LapsedAfter(u, t) == undo[u].expires < t

Lapsed(u, t) == undo[u].expires <= t

\* The SELECT of _pop_valid_undo runs before any transaction is open.
UndoSelect(h) ==
    /\ Goto(h, "undoSelect", "undoDelete")
    /\ undo[uid[h]] # None
    /\ ~Lapsed(uid[h], ts[h])
    /\ arg' = [arg EXCEPT ![h] = undo[uid[h]].mem]
    /\ UNCHANGED <<rows, ids, now, failures, new, uid, ts, reads>>

UndoMissing(h) ==
    /\ Goto(h, "undoSelect", "idle")
    /\ undo[uid[h]] = None
    /\ Clear(h)
    /\ UNCHANGED <<rows, ids, now, failures, reads>>

\* The DELETE of an expired row is rolled back by the raise that follows it
\* inside the same "with con" block, so the row stays.
UndoExpired(h) ==
    /\ Goto(h, "undoSelect", "idle")
    /\ undo[uid[h]] # None
    /\ Lapsed(uid[h], ts[h])
    /\ Clear(h)
    /\ UNCHANGED <<rows, ids, now, failures, reads>>

\* Mutant of PopUndo: this DELETE is rolled back as well.
PopUndoRolledBack(u) == undo' = undo

PopUndo(u) == undo' = [undo EXCEPT ![u] = None]

UndoDelete(h) ==
    /\ Goto(h, "undoDelete", "undoStore")
    /\ PopUndo(uid[h])
    /\ UNCHANGED <<store, replacement, index, audit, ids, now, failures, locals,
                   reads>>

\* The sealed original goes back, whatever the row has become meanwhile.
UndoStore(h) ==
    /\ Goto(h, "undoStore", "undoIndex")
    /\ PutStore(arg[h], "live", None)
    /\ honoured' = honoured \cup {uid[h]}
    /\ UNCHANGED <<index, undo, audit, minted, issued, offered, now, failures,
                   locals, cand, found>>

UndoIndex(h) ==
    /\ Goto(h, "undoIndex", "undoAudit")
    /\ PutIndex(arg[h], "live")
    /\ UNCHANGED <<store, replacement, undo, audit, ids, now, failures, locals,
                   reads>>

UndoAudit(h) ==
    /\ Goto(h, "undoAudit", "idle")
    /\ PutAudit("undo_forget", arg[h])
    /\ Clear(h)
    /\ UNCHANGED <<store, replacement, index, undo, ids, now, failures, reads>>

-----------------------------------------------------------------------------
(* search, ask, context_pack, list_cards, snapshot *)

StartRead(h, candidates) ==
    /\ Goto(h, "idle", "fetch")
    /\ cand' = [cand EXCEPT ![h] = candidates]
    /\ found' = [found EXCEPT ![h] = {}]
    /\ wasLive' = [wasLive EXCEPT ![h] = Live]
    /\ UNCHANGED <<rows, ids, now, failures, locals>>

\* matching: the memories whose text the query overlaps.
SearchBegin(h, matching) == StartRead(h, Indexed \cap matching)

\* list_cards selects the ids of ACTIVE rows, then opens them one by one.
ListBegin(h) == StartRead(h, {m \in Memories : Visible(m)})

FetchNext(h, m) ==
    /\ pc[h] = "fetch"
    /\ m \in cand[h]
    /\ cand' = [cand EXCEPT ![h] = @ \ {m}]
    /\ found' = [found EXCEPT ![h] = IF Visible(m) THEN @ \cup {m} ELSE @]
    /\ UNCHANGED <<rows, ids, now, failures, pc, locals, wasLive>>

ReadReply(h) ==
    /\ Goto(h, "fetch", "idle")
    /\ cand[h] = {}
    /\ found' = [found EXCEPT ![h] = {}]
    /\ wasLive' = [wasLive EXCEPT ![h] = {}]
    /\ UNCHANGED <<rows, ids, now, failures, locals, cand>>

-----------------------------------------------------------------------------
(* The clock, and what goes wrong *)

Tick ==
    /\ now < MaxTime
    /\ now' = now + 1
    /\ UNCHANGED <<rows, ids, failures, pc, locals, reads>>

\* sqlite3.OperationalError between two transactions ends one request.
HandlerFails(h) ==
    /\ faults < MaxFaults
    /\ pc[h] # "idle"
    /\ faults' = faults + 1
    /\ hurt' = (hurt \cup {arg[h]}) \ {None}
    /\ pc' = [pc EXCEPT ![h] = "idle"]
    /\ Clear(h)
    /\ cand' = [cand EXCEPT ![h] = {}]
    /\ found' = [found EXCEPT ![h] = {}]
    /\ wasLive' = [wasLive EXCEPT ![h] = {}]
    /\ UNCHANGED <<rows, ids, now>>

\* The server dies and starts again: the tables are all that is left.
ServerCrash ==
    /\ faults < MaxFaults
    /\ faults' = faults + 1
    /\ hurt' = (hurt \cup {arg[h] : h \in Handlers}) \ {None}
    /\ pc' = [h \in Handlers |-> "idle"]
    /\ arg' = [h \in Handlers |-> None]
    /\ new' = [h \in Handlers |-> None]
    /\ uid' = [h \in Handlers |-> None]
    /\ ts' = [h \in Handlers |-> 0]
    /\ cand' = [h \in Handlers |-> {}]
    /\ found' = [h \in Handlers |-> {}]
    /\ wasLive' = [h \in Handlers |-> {}]
    /\ UNCHANGED <<rows, ids, now>>

Save(h) == \/ \E m \in Memories : SaveBegin(h, m)
           \/ SaveStore(h) \/ SaveIndex(h) \/ SaveAudit(h)

Correct(h) == \/ \E m, n \in Memories : CorrectBegin(h, m, n)
              \/ CorrectTombStore(h) \/ CorrectTombIndex(h)
              \/ CorrectNewStore(h) \/ CorrectNewIndex(h) \/ CorrectAudit(h)

Forget(h) == \/ \E m \in Memories, u \in UndoIds : ForgetBegin(h, m, u)
             \/ ForgetRead(h) \/ ForgetMissing(h) \/ ForgetUndo(h) \/ ForgetTombStore(h)
             \/ ForgetTombIndex(h) \/ ForgetAudit(h)

UndoForget(h) == \/ \E u \in UndoIds : UndoBegin(h, u)
                 \/ UndoSelect(h) \/ UndoMissing(h) \/ UndoExpired(h)
                 \/ UndoDelete(h) \/ UndoStore(h) \/ UndoIndex(h) \/ UndoAudit(h)

Read(h) == \/ \E matching \in SUBSET Memories : SearchBegin(h, matching)
           \/ ListBegin(h)
           \/ \E m \in Memories : FetchNext(h, m)
           \/ ReadReply(h)

Next ==
    \/ \E h \in Handlers :
          Save(h) \/ Correct(h) \/ Forget(h) \/ UndoForget(h) \/ Read(h)
             \/ HandlerFails(h)
    \/ Tick
    \/ ServerCrash

Spec == Init /\ [][Next]_vars

-----------------------------------------------------------------------------
(* Properties *)

\* A card in an answer (search, ask, context_pack, list_cards) is of a memory
\* that was active at some moment since the request began: whatever the index
\* says, a memory forgotten before the request and not restored is never shown.
AnswersShowOnlyLive == \A h \in Handlers : found[h] \subseteq wasLive[h]

\* A memory whose row says it was forgotten can still be undone unless a request
\* about that very memory has failed: an undo row holds its original, or an undo
\* handler that has popped the row is about to write the original back.  However
\* many forget, correct and undo requests overlap, none loses the last copy.
ForgottenIsRecoverable ==
    \A m \in Memories \ hurt : store[m] = "forgotten" =>
        \/ \E u \in UndoIds : undo[u] # None /\ undo[u].mem = m
        \/ \E h \in Handlers : pc[h] = "undoStore" /\ arg[h] = m

\* The tombstone a correction leaves names a replacement that is stored, or that
\* its handler is about to store, unless a request about that memory has failed.
ReplacementIsStored ==
    \A m \in Memories \ hurt : store[m] = "corrected" =>
        \E n \in Memories :
            /\ replacement[m] = n
            /\ \/ store[n] # "absent"
               \/ \E h \in Handlers :
                     /\ pc[h] \in {"correctTombIndex", "correctNewStore"}
                     /\ arg[h] = m
                     /\ new[h] = n

\* Every tombstone has its audit event, or the handler that wrote one is still on
\* its way to write the event, unless a request about that memory has failed.
TombstonesAreAudited ==
    \A m \in Memories \ hurt :
        /\ store[m] = "forgotten" =>
              \/ m \in audit["forget"]
              \/ \E h \in Handlers : /\ pc[h] \in {"forgetTombIndex", "forgetAudit"}
                                     /\ arg[h] = m
        /\ store[m] = "corrected" =>
              \/ m \in audit["correct"]
              \/ \E h \in Handlers :
                    /\ pc[h] \in {"correctTombIndex", "correctNewStore",
                                 "correctNewIndex", "correctAudit"}
                    /\ arg[h] = m

\* The row of an undo id that has put its original back is gone: no request that
\* looks for it afterwards, no retry and none after a crash, puts it back again.
\* (A request that has looked before the row was deleted may still put it back.)
HonouredUndoIsSpent == \A u \in honoured : undo[u] = None

AtRest == \A h \in Handlers : pc[h] \in {"idle", "fetch"}

\* Between requests the index and the store agree: an active memory can be
\* found and the index keeps no terms of an inactive one.
IndexAgreesAtRest ==
    AtRest => \A m \in Memories : index[m] = "live" <=> store[m] = "live"

\* Between requests a pending undo row is the only one of its memory, and that
\* memory is forgotten: pending_undo_count counts forgotten memories.
PendingUndoMeansForgotten ==
    AtRest => \A u \in UndoIds : undo[u] # None =>
        /\ store[undo[u].mem] = "forgotten"
        /\ \A v \in UndoIds \ {u} : undo[v] # None => undo[v].mem # undo[u].mem

\* ADR 0007: undo "restores only a user-forgotten manual memory": no step turns
\* a memory the user has corrected back into an active one.
UndoRestoresOnlyForgotten ==
    [][\A m \in Memories : store[m] = "corrected" => store'[m] # "live"]_vars
=============================================================================
