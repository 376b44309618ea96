---------------------- MODULE ManualMemoryBook_proofs ----------------------
(***************************************************************************)
(* What the Memory Book keeps true however its handlers interleave and     *)
(* wherever they fail, and what more it keeps while requests that overlap  *)
(* are about different memories: for every set of memories, undo ids and   *)
(* threads, every undo window and every bound of the model.                *)
(***************************************************************************)
EXTENDS ManualMemoryBookRefinement, TLAPS

UsesArg == SaveSteps \cup CorrectSteps \cup ForgetSteps \cup (UndoSteps \ {"undoSelect"})

\* A handler has what its next step uses.
ArgsOK ==
    \A h \in Handlers :
        /\ pc[h] \in UsesArg => arg[h] \in Memories
        /\ pc[h] \in CorrectSteps => new[h] \in Memories
        /\ pc[h] \in ForgetSteps => uid[h] \in issued \ offered
        /\ pc[h] \in UndoSteps => uid[h] \in offered

-----------------------------------------------------------------------------
(* Types *)

\* What an upsert of the store leaves behind has its type.
LEMMA PutStoreTypes ==
    ASSUME TypeOK, NEW m \in Memories, NEW row \in RowState,
           NEW by \in Memories \cup {None}, PutStore(m, row, by)
    PROVE  /\ store' \in [Memories -> RowState]
           /\ replacement' \in [Memories -> Memories \cup {None}]
           /\ wasLive' \in [Handlers -> SUBSET Memories]
<1>1. store' \in [Memories -> RowState]
  BY DEF PutStore, TypeOK
<1>2. replacement' \in [Memories -> Memories \cup {None}]
  BY DEF PutStore, TypeOK
<1>3. ASSUME NEW h \in Handlers
      PROVE  (IF pc[h] = "fetch" /\ row = "live"
              THEN wasLive[h] \cup {m} ELSE wasLive[h]) \in SUBSET Memories
  BY DEF TypeOK
<1>4. wasLive' \in [Handlers -> SUBSET Memories]
  BY <1>3 DEF PutStore
<1> QED
  BY <1>1, <1>2, <1>4

\* Every step keeps every variable in its type.
LEMMA TypeStep == TypeOK /\ ArgsOK /\ [Next]_vars => TypeOK'
<1> SUFFICES ASSUME TypeOK, ArgsOK, [Next]_vars PROVE TypeOK'
  OBVIOUS
<1> USE DEF ArgsOK, vars, rows, ids, failures, locals, reads, Actions, Steps, SaveSteps,
        CorrectSteps, ForgetSteps, UndoSteps, UsesArg, Goto, Clear
<1>1. CASE UNCHANGED vars
  BY <1>1 DEF TypeOK
<1>2. ASSUME NEW h \in Handlers, Save(h) PROVE TypeOK'
  <2>1. ASSUME NEW m \in Memories, SaveBegin(h, m) PROVE TypeOK'
    BY <2>1 DEF SaveBegin, TypeOK
  <2>2. CASE SaveStore(h)
    BY <2>2, PutStoreTypes DEF SaveStore, RowState, TypeOK
  <2>3. CASE SaveIndex(h)
    BY <2>3 DEF SaveIndex, PutIndex, IndexState, TypeOK
  <2>4. CASE SaveAudit(h)
    BY <2>4 DEF SaveAudit, PutAudit, TypeOK
  <2> QED
    BY <1>2, <2>1, <2>2, <2>3, <2>4 DEF Save
<1>3. ASSUME NEW h \in Handlers, Correct(h) PROVE TypeOK'
  <2>1. ASSUME NEW m \in Memories, NEW n \in Memories, CorrectBegin(h, m, n)
        PROVE TypeOK'
    BY <2>1 DEF CorrectBegin, TypeOK
  <2>2. CASE CorrectTombStore(h)
    BY <2>2, PutStoreTypes DEF CorrectTombStore, RowState, TypeOK
  <2>3. CASE CorrectTombIndex(h)
    BY <2>3 DEF CorrectTombIndex, PutIndex, IndexState, TypeOK
  <2>4. CASE CorrectNewStore(h)
    BY <2>4, PutStoreTypes DEF CorrectNewStore, RowState, TypeOK
  <2>5. CASE CorrectNewIndex(h)
    BY <2>5 DEF CorrectNewIndex, PutIndex, IndexState, TypeOK
  <2>6. CASE CorrectAudit(h)
    BY <2>6 DEF CorrectAudit, PutAudit, TypeOK
  <2> QED
    BY <1>3, <2>1, <2>2, <2>3, <2>4, <2>5, <2>6 DEF Correct
<1>4. ASSUME NEW h \in Handlers, Forget(h) PROVE TypeOK'
  <2>1. ASSUME NEW m \in Memories, NEW u \in UndoIds, ForgetBegin(h, m, u)
        PROVE TypeOK'
    BY <2>1 DEF ForgetBegin, TypeOK
  <2>2. CASE ForgetRead(h)
    BY <2>2 DEF ForgetRead, TypeOK
  <2>3. CASE ForgetMissing(h)
    BY <2>3 DEF ForgetMissing, TypeOK
  <2>4. CASE ForgetUndo(h)
    <3>1. UndoRecord(h) \in UndoRow
      BY <2>4, BookAssumption DEF ForgetUndo, UndoRecord, UndoRow, TypeOK
    <3> QED
      BY <2>4, <3>1 DEF ForgetUndo, TypeOK
  <2>5. CASE ForgetTombStore(h)
    BY <2>5, PutStoreTypes DEF ForgetTombStore, RowState, TypeOK
  <2>6. CASE ForgetTombIndex(h)
    BY <2>6 DEF ForgetTombIndex, PutIndex, IndexState, TypeOK
  <2>7. CASE ForgetAudit(h)
    BY <2>7 DEF ForgetAudit, PutAudit, TypeOK
  <2> QED
    BY <1>4, <2>1, <2>2, <2>3, <2>4, <2>5, <2>6, <2>7 DEF Forget
<1>5. ASSUME NEW h \in Handlers, UndoForget(h) PROVE TypeOK'
  <2>1. ASSUME NEW u \in UndoIds, UndoBegin(h, u) PROVE TypeOK'
    BY <2>1 DEF UndoBegin, TypeOK
  <2>2. CASE UndoSelect(h)
    <3>1. undo[uid[h]].mem \in Memories
      BY <2>2 DEF UndoSelect, UndoRow, TypeOK
    <3> QED
      BY <2>2, <3>1 DEF UndoSelect, TypeOK
  <2>3. CASE UndoMissing(h)
    BY <2>3 DEF UndoMissing, TypeOK
  <2>4. CASE UndoExpired(h)
    BY <2>4 DEF UndoExpired, TypeOK
  <2>5. CASE UndoDelete(h)
    BY <2>5 DEF UndoDelete, PopUndo, TypeOK
  <2>6. CASE UndoStore(h)
    BY <2>6, PutStoreTypes DEF UndoStore, RowState, TypeOK
  <2>7. CASE UndoIndex(h)
    BY <2>7 DEF UndoIndex, PutIndex, IndexState, TypeOK
  <2>8. CASE UndoAudit(h)
    BY <2>8 DEF UndoAudit, PutAudit, TypeOK
  <2> QED
    BY <1>5, <2>1, <2>2, <2>3, <2>4, <2>5, <2>6, <2>7, <2>8 DEF UndoForget
<1>6. ASSUME NEW h \in Handlers, Read(h) PROVE TypeOK'
  <2>1. ASSUME NEW matching \in SUBSET Memories, SearchBegin(h, matching) PROVE TypeOK'
    BY <2>1 DEF SearchBegin, StartRead, Live, Indexed, Visible, TypeOK
  <2>2. CASE ListBegin(h)
    BY <2>2 DEF ListBegin, StartRead, Live, Indexed, Visible, TypeOK
  <2>3. ASSUME NEW m \in Memories, FetchNext(h, m) PROVE TypeOK'
    BY <2>3 DEF FetchNext, Live, Indexed, Visible, TypeOK
  <2>4. CASE ReadReply(h)
    BY <2>4 DEF ReadReply, TypeOK
  <2> QED
    BY <1>6, <2>1, <2>2, <2>3, <2>4 DEF Read
<1>7. ASSUME NEW h \in Handlers, HandlerFails(h) PROVE TypeOK'
  BY <1>7 DEF HandlerFails, TypeOK
<1>8. CASE Tick
  BY <1>8 DEF Tick, TypeOK
<1>9. CASE ServerCrash
  BY <1>9 DEF ServerCrash, TypeOK
<1> QED
  BY <1>1, <1>2, <1>3, <1>4, <1>5, <1>6, <1>7, <1>8, <1>9 DEF Next
-----------------------------------------------------------------------------
(* Handlers and their undo ids *)

HoldsUndo == {"forgetTombStore", "forgetTombIndex", "forgetAudit"}

\* No two forget requests share an undo id.
OwnIds ==
    \A g, h \in Handlers :
        g # h /\ pc[g] \in ForgetSteps /\ pc[h] \in ForgetSteps => uid[g] # uid[h]

\* A forget that goes on to its tombstone has sealed the original in an undo row;
\* an undo that goes on to its DELETE has opened the memory of its row.  A row
\* is of an id that was minted, and of none whose forget has yet to write it.
UndoRows ==
    /\ \A u \in UndoIds : undo[u] # None => u \in issued
    /\ \A h \in Handlers :
        /\ pc[h] \in {"forgetRead", "forgetUndo"} => undo[uid[h]] = None
        /\ pc[h] \in HoldsUndo => undo[uid[h]] # None /\ undo[uid[h]].mem = arg[h]
        /\ pc[h] = "undoDelete" /\ undo[uid[h]] # None => undo[uid[h]].mem = arg[h]

\* What a forget seals is an undo row, which no absent row equals.
LEMMA UndoRecordType ==
    ASSUME TypeOK, NEW h \in Handlers, arg[h] \in Memories
    PROVE  UndoRecord(h) \in UndoRow /\ UndoRecord(h) # None
BY BookAssumption DEF UndoRecord, UndoRow, TypeOK

\* Every step leaves each handler what its next step uses.
LEMMA ArgsStep == TypeOK /\ ArgsOK /\ OwnIds /\ [Next]_vars => ArgsOK'
<1> SUFFICES ASSUME TypeOK, ArgsOK, OwnIds, [Next]_vars PROVE ArgsOK'
  OBVIOUS
<1> USE DEF TypeOK, vars, rows, ids, failures, locals, reads, SaveSteps, CorrectSteps,
        ForgetSteps, UndoSteps, UsesArg, HoldsUndo, Goto, Clear, ArgsOK, OwnIds
<1>1. CASE UNCHANGED vars
  BY <1>1
<1>2. ASSUME NEW h \in Handlers, Save(h) PROVE ArgsOK'
  <2>1. ASSUME NEW m \in Memories, SaveBegin(h, m)
        PROVE ArgsOK'
    BY <2>1 DEF SaveBegin
  <2>2. CASE SaveStore(h)
    BY <2>2 DEF SaveStore, PutStore
  <2>3. CASE SaveIndex(h)
    BY <2>3 DEF SaveIndex
  <2>4. CASE SaveAudit(h)
    BY <2>4 DEF SaveAudit
  <2> QED
    BY <1>2, <2>1, <2>2, <2>3, <2>4 DEF Save
<1>3. ASSUME NEW h \in Handlers, Correct(h) PROVE ArgsOK'
  <2>1. ASSUME NEW m \in Memories, NEW n \in Memories, CorrectBegin(h, m, n)
        PROVE ArgsOK'
    BY <2>1 DEF CorrectBegin
  <2>2. CASE CorrectTombStore(h)
    BY <2>2 DEF CorrectTombStore, PutStore
  <2>3. CASE CorrectTombIndex(h)
    BY <2>3 DEF CorrectTombIndex
  <2>4. CASE CorrectNewStore(h)
    BY <2>4 DEF CorrectNewStore, PutStore
  <2>5. CASE CorrectNewIndex(h)
    BY <2>5 DEF CorrectNewIndex
  <2>6. CASE CorrectAudit(h)
    BY <2>6 DEF CorrectAudit
  <2> QED
    BY <1>3, <2>1, <2>2, <2>3, <2>4, <2>5, <2>6 DEF Correct
<1>4. ASSUME NEW h \in Handlers, Forget(h) PROVE ArgsOK'
  <2>1. ASSUME NEW m \in Memories, NEW u \in UndoIds, ForgetBegin(h, m, u)
        PROVE ArgsOK'
    BY <2>1 DEF ForgetBegin, FreshUndoId
  <2>2. CASE ForgetRead(h)
    BY <2>2 DEF ForgetRead
  <2>3. CASE ForgetMissing(h)
    BY <2>3 DEF ForgetMissing
  <2>4. CASE ForgetUndo(h)
    BY <2>4 DEF ForgetUndo, UndoRecord
  <2>5. CASE ForgetTombStore(h)
    BY <2>5 DEF ForgetTombStore, PutStore
  <2>6. CASE ForgetTombIndex(h)
    BY <2>6 DEF ForgetTombIndex
  <2>7. CASE ForgetAudit(h)
    BY <2>7 DEF ForgetAudit
  <2> QED
    BY <1>4, <2>1, <2>2, <2>3, <2>4, <2>5, <2>6, <2>7 DEF Forget
<1>5. ASSUME NEW h \in Handlers, UndoForget(h) PROVE ArgsOK'
  <2>1. ASSUME NEW u \in UndoIds, UndoBegin(h, u)
        PROVE ArgsOK'
    BY <2>1 DEF UndoBegin
  <2>2. CASE UndoSelect(h)
    <3>1. undo[uid[h]].mem \in Memories
      BY <2>2 DEF UndoSelect, UndoRow
    <3> QED
      BY <2>2, <3>1 DEF UndoSelect
  <2>3. CASE UndoMissing(h)
    BY <2>3 DEF UndoMissing
  <2>4. CASE UndoExpired(h)
    BY <2>4 DEF UndoExpired
  <2>5. CASE UndoDelete(h)
    BY <2>5 DEF UndoDelete, PopUndo
  <2>6. CASE UndoStore(h)
    BY <2>6 DEF UndoStore, PutStore
  <2>7. CASE UndoIndex(h)
    BY <2>7 DEF UndoIndex
  <2>8. CASE UndoAudit(h)
    BY <2>8 DEF UndoAudit
  <2> QED
    BY <1>5, <2>1, <2>2, <2>3, <2>4, <2>5, <2>6, <2>7, <2>8 DEF UndoForget
<1>6. ASSUME NEW h \in Handlers, Read(h) PROVE ArgsOK'
  BY <1>6 DEF Read, SearchBegin, ListBegin, StartRead, FetchNext, ReadReply
<1>7. ASSUME NEW h \in Handlers, HandlerFails(h) PROVE ArgsOK'
  BY <1>7 DEF HandlerFails
<1>8. CASE Tick
  BY <1>8 DEF Tick
<1>9. CASE ServerCrash
  BY <1>9 DEF ServerCrash
<1> QED
  BY <1>1, <1>2, <1>3, <1>4, <1>5, <1>6, <1>7, <1>8, <1>9 DEF Next

\* An undo id a request mints is nobody else's.
LEMMA OwnIdsStep == TypeOK /\ ArgsOK /\ OwnIds /\ [Next]_vars => OwnIds'
<1> SUFFICES ASSUME TypeOK, ArgsOK, OwnIds, [Next]_vars PROVE OwnIds'
  OBVIOUS
<1> USE DEF TypeOK, vars, rows, ids, failures, locals, reads, SaveSteps, CorrectSteps,
        ForgetSteps, UndoSteps, UsesArg, HoldsUndo, Goto, Clear, ArgsOK, OwnIds
<1>1. CASE UNCHANGED vars
  BY <1>1
<1>2. ASSUME NEW h \in Handlers, Save(h) PROVE OwnIds'
  <2>1. ASSUME NEW m \in Memories, SaveBegin(h, m)
        PROVE OwnIds'
    BY <2>1 DEF SaveBegin
  <2>2. CASE SaveStore(h)
    BY <2>2 DEF SaveStore, PutStore
  <2>3. CASE SaveIndex(h)
    BY <2>3 DEF SaveIndex
  <2>4. CASE SaveAudit(h)
    BY <2>4 DEF SaveAudit
  <2> QED
    BY <1>2, <2>1, <2>2, <2>3, <2>4 DEF Save
<1>3. ASSUME NEW h \in Handlers, Correct(h) PROVE OwnIds'
  <2>1. ASSUME NEW m \in Memories, NEW n \in Memories, CorrectBegin(h, m, n)
        PROVE OwnIds'
    BY <2>1 DEF CorrectBegin
  <2>2. CASE CorrectTombStore(h)
    BY <2>2 DEF CorrectTombStore, PutStore
  <2>3. CASE CorrectTombIndex(h)
    BY <2>3 DEF CorrectTombIndex
  <2>4. CASE CorrectNewStore(h)
    BY <2>4 DEF CorrectNewStore, PutStore
  <2>5. CASE CorrectNewIndex(h)
    BY <2>5 DEF CorrectNewIndex
  <2>6. CASE CorrectAudit(h)
    BY <2>6 DEF CorrectAudit
  <2> QED
    BY <1>3, <2>1, <2>2, <2>3, <2>4, <2>5, <2>6 DEF Correct
<1>4. ASSUME NEW h \in Handlers, Forget(h) PROVE OwnIds'
  <2>1. ASSUME NEW m \in Memories, NEW u \in UndoIds, ForgetBegin(h, m, u)
        PROVE OwnIds'
    BY <2>1 DEF ForgetBegin, FreshUndoId
  <2>2. CASE ForgetRead(h)
    BY <2>2 DEF ForgetRead
  <2>3. CASE ForgetMissing(h)
    BY <2>3 DEF ForgetMissing
  <2>4. CASE ForgetUndo(h)
    BY <2>4 DEF ForgetUndo, UndoRecord
  <2>5. CASE ForgetTombStore(h)
    BY <2>5 DEF ForgetTombStore, PutStore
  <2>6. CASE ForgetTombIndex(h)
    BY <2>6 DEF ForgetTombIndex
  <2>7. CASE ForgetAudit(h)
    BY <2>7 DEF ForgetAudit
  <2> QED
    BY <1>4, <2>1, <2>2, <2>3, <2>4, <2>5, <2>6, <2>7 DEF Forget
<1>5. ASSUME NEW h \in Handlers, UndoForget(h) PROVE OwnIds'
  <2>1. ASSUME NEW u \in UndoIds, UndoBegin(h, u)
        PROVE OwnIds'
    BY <2>1 DEF UndoBegin
  <2>2. CASE UndoSelect(h)
    BY <2>2 DEF UndoSelect
  <2>3. CASE UndoMissing(h)
    BY <2>3 DEF UndoMissing
  <2>4. CASE UndoExpired(h)
    BY <2>4 DEF UndoExpired
  <2>5. CASE UndoDelete(h)
    BY <2>5 DEF UndoDelete, PopUndo
  <2>6. CASE UndoStore(h)
    BY <2>6 DEF UndoStore, PutStore
  <2>7. CASE UndoIndex(h)
    BY <2>7 DEF UndoIndex
  <2>8. CASE UndoAudit(h)
    BY <2>8 DEF UndoAudit
  <2> QED
    BY <1>5, <2>1, <2>2, <2>3, <2>4, <2>5, <2>6, <2>7, <2>8 DEF UndoForget
<1>6. ASSUME NEW h \in Handlers, Read(h) PROVE OwnIds'
  BY <1>6 DEF Read, SearchBegin, ListBegin, StartRead, FetchNext, ReadReply
<1>7. ASSUME NEW h \in Handlers, HandlerFails(h) PROVE OwnIds'
  BY <1>7 DEF HandlerFails
<1>8. CASE Tick
  BY <1>8 DEF Tick
<1>9. CASE ServerCrash
  BY <1>9 DEF ServerCrash
<1> QED
  BY <1>1, <1>2, <1>3, <1>4, <1>5, <1>6, <1>7, <1>8, <1>9 DEF Next

\* Nobody else touches the undo row of a forget in progress.
LEMMA UndoRowsStep ==
    TypeOK /\ ArgsOK /\ OwnIds /\ UndoRows /\ [Next]_vars => UndoRows'
<1> SUFFICES ASSUME TypeOK, ArgsOK, OwnIds, UndoRows, [Next]_vars PROVE UndoRows'
  OBVIOUS
<1> USE DEF TypeOK, vars, rows, ids, failures, locals, reads, SaveSteps, CorrectSteps,
        ForgetSteps, UndoSteps, UsesArg, HoldsUndo, Goto, Clear, ArgsOK, OwnIds, UndoRows
<1>1. CASE UNCHANGED vars
  BY <1>1
<1>2. ASSUME NEW h \in Handlers, Save(h) PROVE UndoRows'
  <2>1. ASSUME NEW m \in Memories, SaveBegin(h, m)
        PROVE UndoRows'
    BY <2>1 DEF SaveBegin
  <2>2. CASE SaveStore(h)
    BY <2>2 DEF SaveStore, PutStore
  <2>3. CASE SaveIndex(h)
    BY <2>3 DEF SaveIndex
  <2>4. CASE SaveAudit(h)
    BY <2>4 DEF SaveAudit
  <2> QED
    BY <1>2, <2>1, <2>2, <2>3, <2>4 DEF Save
<1>3. ASSUME NEW h \in Handlers, Correct(h) PROVE UndoRows'
  <2>1. ASSUME NEW m \in Memories, NEW n \in Memories, CorrectBegin(h, m, n)
        PROVE UndoRows'
    BY <2>1 DEF CorrectBegin
  <2>2. CASE CorrectTombStore(h)
    BY <2>2 DEF CorrectTombStore, PutStore
  <2>3. CASE CorrectTombIndex(h)
    BY <2>3 DEF CorrectTombIndex
  <2>4. CASE CorrectNewStore(h)
    BY <2>4 DEF CorrectNewStore, PutStore
  <2>5. CASE CorrectNewIndex(h)
    BY <2>5 DEF CorrectNewIndex
  <2>6. CASE CorrectAudit(h)
    BY <2>6 DEF CorrectAudit
  <2> QED
    BY <1>3, <2>1, <2>2, <2>3, <2>4, <2>5, <2>6 DEF Correct
<1>4. ASSUME NEW h \in Handlers, Forget(h) PROVE UndoRows'
  <2>1. ASSUME NEW m \in Memories, NEW u \in UndoIds, ForgetBegin(h, m, u)
        PROVE UndoRows'
    BY <2>1 DEF ForgetBegin, FreshUndoId
  <2>2. CASE ForgetRead(h)
    BY <2>2 DEF ForgetRead
  <2>3. CASE ForgetMissing(h)
    BY <2>3 DEF ForgetMissing
  <2>4. CASE ForgetUndo(h)
    <3>1. UndoRecord(h) # None /\ UndoRecord(h).mem = arg[h]
      BY <2>4, UndoRecordType DEF ForgetUndo, UndoRecord
    <3> QED
      BY <2>4, <3>1 DEF ForgetUndo
  <2>5. CASE ForgetTombStore(h)
    BY <2>5 DEF ForgetTombStore, PutStore
  <2>6. CASE ForgetTombIndex(h)
    BY <2>6 DEF ForgetTombIndex
  <2>7. CASE ForgetAudit(h)
    BY <2>7 DEF ForgetAudit
  <2> QED
    BY <1>4, <2>1, <2>2, <2>3, <2>4, <2>5, <2>6, <2>7 DEF Forget
<1>5. ASSUME NEW h \in Handlers, UndoForget(h) PROVE UndoRows'
  <2>1. ASSUME NEW u \in UndoIds, UndoBegin(h, u)
        PROVE UndoRows'
    BY <2>1 DEF UndoBegin
  <2>2. CASE UndoSelect(h)
    BY <2>2 DEF UndoSelect
  <2>3. CASE UndoMissing(h)
    BY <2>3 DEF UndoMissing
  <2>4. CASE UndoExpired(h)
    BY <2>4 DEF UndoExpired
  <2>5. CASE UndoDelete(h)
    BY <2>5 DEF UndoDelete, PopUndo
  <2>6. CASE UndoStore(h)
    BY <2>6 DEF UndoStore, PutStore
  <2>7. CASE UndoIndex(h)
    BY <2>7 DEF UndoIndex
  <2>8. CASE UndoAudit(h)
    BY <2>8 DEF UndoAudit
  <2> QED
    BY <1>5, <2>1, <2>2, <2>3, <2>4, <2>5, <2>6, <2>7, <2>8 DEF UndoForget
<1>6. ASSUME NEW h \in Handlers, Read(h) PROVE UndoRows'
  BY <1>6 DEF Read, SearchBegin, ListBegin, StartRead, FetchNext, ReadReply
<1>7. ASSUME NEW h \in Handlers, HandlerFails(h) PROVE UndoRows'
  BY <1>7 DEF HandlerFails
<1>8. CASE Tick
  BY <1>8 DEF Tick
<1>9. CASE ServerCrash
  BY <1>9 DEF ServerCrash
<1> QED
  BY <1>1, <1>2, <1>3, <1>4, <1>5, <1>6, <1>7, <1>8, <1>9 DEF Next

-----------------------------------------------------------------------------
(* The safety properties *)

\* A read in progress has seen every memory that is active.
ReadsSeeLive ==
    \A h \in Handlers : pc[h] = "fetch" => Live \subseteq wasLive[h]

\* A failed request marks its memory and leaves the other requests alone.
LEMMA HandlerFailureHurts ==
    ASSUME TypeOK, NEW h \in Handlers, HandlerFails(h), NEW m \in Memories \ hurt'
    PROVE  /\ m \notin hurt
           /\ arg[h] # m
           /\ \A g \in Handlers \ {h} :
                 pc'[g] = pc[g] /\ arg'[g] = arg[g] /\ new'[g] = new[g]
           /\ rows' = rows
BY BookAssumption DEF HandlerFails, Clear, TypeOK

\* A crash marks the memory of every request in progress.
LEMMA ServerCrashHurts ==
    ASSUME TypeOK, ServerCrash, NEW m \in Memories \ hurt'
    PROVE  /\ m \notin hurt
           /\ \A g \in Handlers : arg[g] # m
           /\ rows' = rows
BY BookAssumption DEF ServerCrash, TypeOK

\* No step loses the last copy of a forgotten memory.
LEMMA RecoverableStep ==
    TypeOK /\ ArgsOK /\ UndoRows /\ ForgottenIsRecoverable /\ [Next]_vars
        => ForgottenIsRecoverable'
<1> SUFFICES ASSUME TypeOK, ArgsOK, UndoRows, ForgottenIsRecoverable, [Next]_vars
             PROVE ForgottenIsRecoverable'
  OBVIOUS
<1> USE DEF TypeOK, vars, rows, ids, failures, locals, reads, SaveSteps, CorrectSteps,
        ForgetSteps, UndoSteps, UsesArg, HoldsUndo, Goto, Clear, ArgsOK, UndoRows,
        ForgottenIsRecoverable
<1>1. CASE UNCHANGED vars
  BY <1>1
<1>2. ASSUME NEW h \in Handlers, Save(h) PROVE ForgottenIsRecoverable'
  <2>1. ASSUME NEW m \in Memories, SaveBegin(h, m)
        PROVE ForgottenIsRecoverable'
    BY <2>1 DEF SaveBegin
  <2>2. CASE SaveStore(h)
    BY <2>2 DEF SaveStore, PutStore
  <2>3. CASE SaveIndex(h)
    BY <2>3 DEF SaveIndex
  <2>4. CASE SaveAudit(h)
    BY <2>4 DEF SaveAudit
  <2> QED
    BY <1>2, <2>1, <2>2, <2>3, <2>4 DEF Save
<1>3. ASSUME NEW h \in Handlers, Correct(h) PROVE ForgottenIsRecoverable'
  <2>1. ASSUME NEW m \in Memories, NEW n \in Memories, CorrectBegin(h, m, n)
        PROVE ForgottenIsRecoverable'
    BY <2>1 DEF CorrectBegin
  <2>2. CASE CorrectTombStore(h)
    BY <2>2 DEF CorrectTombStore, PutStore
  <2>3. CASE CorrectTombIndex(h)
    BY <2>3 DEF CorrectTombIndex
  <2>4. CASE CorrectNewStore(h)
    BY <2>4 DEF CorrectNewStore, PutStore
  <2>5. CASE CorrectNewIndex(h)
    BY <2>5 DEF CorrectNewIndex
  <2>6. CASE CorrectAudit(h)
    BY <2>6 DEF CorrectAudit
  <2> QED
    BY <1>3, <2>1, <2>2, <2>3, <2>4, <2>5, <2>6 DEF Correct
<1>4. ASSUME NEW h \in Handlers, Forget(h) PROVE ForgottenIsRecoverable'
  <2>1. ASSUME NEW m \in Memories, NEW u \in UndoIds, ForgetBegin(h, m, u)
        PROVE ForgottenIsRecoverable'
    BY <2>1 DEF ForgetBegin, FreshUndoId
  <2>2. CASE ForgetRead(h)
    BY <2>2 DEF ForgetRead
  <2>3. CASE ForgetMissing(h)
    BY <2>3 DEF ForgetMissing
  <2>4. CASE ForgetUndo(h)
    <3>1. UndoRecord(h) # None /\ UndoRecord(h).mem = arg[h]
      BY <2>4, UndoRecordType DEF ForgetUndo, UndoRecord
    <3> QED
      BY <2>4, <3>1 DEF ForgetUndo
  <2>5. CASE ForgetTombStore(h)
    BY <2>5 DEF ForgetTombStore, PutStore
  <2>6. CASE ForgetTombIndex(h)
    BY <2>6 DEF ForgetTombIndex
  <2>7. CASE ForgetAudit(h)
    BY <2>7 DEF ForgetAudit
  <2> QED
    BY <1>4, <2>1, <2>2, <2>3, <2>4, <2>5, <2>6, <2>7 DEF Forget
<1>5. ASSUME NEW h \in Handlers, UndoForget(h) PROVE ForgottenIsRecoverable'
  <2>1. ASSUME NEW u \in UndoIds, UndoBegin(h, u)
        PROVE ForgottenIsRecoverable'
    BY <2>1 DEF UndoBegin
  <2>2. CASE UndoSelect(h)
    BY <2>2 DEF UndoSelect
  <2>3. CASE UndoMissing(h)
    BY <2>3 DEF UndoMissing
  <2>4. CASE UndoExpired(h)
    BY <2>4 DEF UndoExpired
  <2>5. CASE UndoDelete(h)
    BY <2>5 DEF UndoDelete, PopUndo
  <2>6. CASE UndoStore(h)
    BY <2>6 DEF UndoStore, PutStore
  <2>7. CASE UndoIndex(h)
    BY <2>7 DEF UndoIndex
  <2>8. CASE UndoAudit(h)
    BY <2>8 DEF UndoAudit
  <2> QED
    BY <1>5, <2>1, <2>2, <2>3, <2>4, <2>5, <2>6, <2>7, <2>8 DEF UndoForget
<1>6. ASSUME NEW h \in Handlers, Read(h) PROVE ForgottenIsRecoverable'
  BY <1>6 DEF Read, SearchBegin, ListBegin, StartRead, FetchNext, ReadReply
<1>7. ASSUME NEW h \in Handlers, HandlerFails(h) PROVE ForgottenIsRecoverable'
  BY <1>7, HandlerFailureHurts
<1>8. CASE Tick
  BY <1>8 DEF Tick
<1>9. CASE ServerCrash
  BY <1>9, ServerCrashHurts
<1> QED
  BY <1>1, <1>2, <1>3, <1>4, <1>5, <1>6, <1>7, <1>8, <1>9 DEF Next

\* No step leaves a correction without its replacement.
LEMMA ReplacementStep ==
    TypeOK /\ ArgsOK /\ ReplacementIsStored /\ [Next]_vars => ReplacementIsStored'
<1> SUFFICES ASSUME TypeOK, ArgsOK, ReplacementIsStored, [Next]_vars PROVE ReplacementIsStored'
  OBVIOUS
<1> USE DEF TypeOK, vars, rows, ids, failures, locals, reads, SaveSteps, CorrectSteps,
        ForgetSteps, UndoSteps, UsesArg, HoldsUndo, Goto, Clear, ArgsOK, ReplacementIsStored
<1>1. CASE UNCHANGED vars
  BY <1>1
<1>2. ASSUME NEW h \in Handlers, Save(h) PROVE ReplacementIsStored'
  <2>1. ASSUME NEW m \in Memories, SaveBegin(h, m)
        PROVE ReplacementIsStored'
    BY <2>1 DEF SaveBegin
  <2>2. CASE SaveStore(h)
    BY <2>2 DEF SaveStore, PutStore
  <2>3. CASE SaveIndex(h)
    BY <2>3 DEF SaveIndex
  <2>4. CASE SaveAudit(h)
    BY <2>4 DEF SaveAudit
  <2> QED
    BY <1>2, <2>1, <2>2, <2>3, <2>4 DEF Save
<1>3. ASSUME NEW h \in Handlers, Correct(h) PROVE ReplacementIsStored'
  <2>1. ASSUME NEW m \in Memories, NEW n \in Memories, CorrectBegin(h, m, n)
        PROVE ReplacementIsStored'
    BY <2>1 DEF CorrectBegin
  <2>2. CASE CorrectTombStore(h)
    BY <2>2 DEF CorrectTombStore, PutStore
  <2>3. CASE CorrectTombIndex(h)
    BY <2>3 DEF CorrectTombIndex
  <2>4. CASE CorrectNewStore(h)
    BY <2>4 DEF CorrectNewStore, PutStore
  <2>5. CASE CorrectNewIndex(h)
    BY <2>5 DEF CorrectNewIndex
  <2>6. CASE CorrectAudit(h)
    BY <2>6 DEF CorrectAudit
  <2> QED
    BY <1>3, <2>1, <2>2, <2>3, <2>4, <2>5, <2>6 DEF Correct
<1>4. ASSUME NEW h \in Handlers, Forget(h) PROVE ReplacementIsStored'
  <2>1. ASSUME NEW m \in Memories, NEW u \in UndoIds, ForgetBegin(h, m, u)
        PROVE ReplacementIsStored'
    BY <2>1 DEF ForgetBegin, FreshUndoId
  <2>2. CASE ForgetRead(h)
    BY <2>2 DEF ForgetRead
  <2>3. CASE ForgetMissing(h)
    BY <2>3 DEF ForgetMissing
  <2>4. CASE ForgetUndo(h)
    BY <2>4 DEF ForgetUndo, UndoRecord
  <2>5. CASE ForgetTombStore(h)
    BY <2>5 DEF ForgetTombStore, PutStore
  <2>6. CASE ForgetTombIndex(h)
    BY <2>6 DEF ForgetTombIndex
  <2>7. CASE ForgetAudit(h)
    BY <2>7 DEF ForgetAudit
  <2> QED
    BY <1>4, <2>1, <2>2, <2>3, <2>4, <2>5, <2>6, <2>7 DEF Forget
<1>5. ASSUME NEW h \in Handlers, UndoForget(h) PROVE ReplacementIsStored'
  <2>1. ASSUME NEW u \in UndoIds, UndoBegin(h, u)
        PROVE ReplacementIsStored'
    BY <2>1 DEF UndoBegin
  <2>2. CASE UndoSelect(h)
    BY <2>2 DEF UndoSelect
  <2>3. CASE UndoMissing(h)
    BY <2>3 DEF UndoMissing
  <2>4. CASE UndoExpired(h)
    BY <2>4 DEF UndoExpired
  <2>5. CASE UndoDelete(h)
    BY <2>5 DEF UndoDelete, PopUndo
  <2>6. CASE UndoStore(h)
    BY <2>6 DEF UndoStore, PutStore
  <2>7. CASE UndoIndex(h)
    BY <2>7 DEF UndoIndex
  <2>8. CASE UndoAudit(h)
    BY <2>8 DEF UndoAudit
  <2> QED
    BY <1>5, <2>1, <2>2, <2>3, <2>4, <2>5, <2>6, <2>7, <2>8 DEF UndoForget
<1>6. ASSUME NEW h \in Handlers, Read(h) PROVE ReplacementIsStored'
  <2>1. ASSUME NEW matching \in SUBSET Memories, SearchBegin(h, matching)
        PROVE ReplacementIsStored'
    BY <2>1 DEF SearchBegin, StartRead
  <2>2. CASE ListBegin(h)
    BY <2>2 DEF ListBegin, StartRead
  <2>3. ASSUME NEW m \in Memories, FetchNext(h, m) PROVE ReplacementIsStored'
    BY <2>3 DEF FetchNext
  <2>4. CASE ReadReply(h)
    BY <2>4 DEF ReadReply
  <2> QED
    BY <1>6, <2>1, <2>2, <2>3, <2>4 DEF Read
<1>7. ASSUME NEW h \in Handlers, HandlerFails(h) PROVE ReplacementIsStored'
  BY <1>7, HandlerFailureHurts
<1>8. CASE Tick
  BY <1>8 DEF Tick
<1>9. CASE ServerCrash
  BY <1>9, ServerCrashHurts
<1> QED
  BY <1>1, <1>2, <1>3, <1>4, <1>5, <1>6, <1>7, <1>8, <1>9 DEF Next

\* No step leaves a tombstone without its audit event.
LEMMA AuditedStep ==
    TypeOK /\ ArgsOK /\ TombstonesAreAudited /\ [Next]_vars => TombstonesAreAudited'
<1> SUFFICES ASSUME TypeOK, ArgsOK, TombstonesAreAudited, [Next]_vars
             PROVE TombstonesAreAudited'
  OBVIOUS
<1> /\ store \in [Memories -> RowState]
    /\ audit \in [Actions -> SUBSET Memories]
    /\ pc \in [Handlers -> Steps]
    /\ arg \in [Handlers -> Memories \cup {None}]
  BY DEF TypeOK
<1> USE DEF Actions, vars, rows, ids, failures, locals, reads, SaveSteps, CorrectSteps,
        ForgetSteps, UndoSteps, UsesArg, HoldsUndo, Goto, Clear, ArgsOK,
        TombstonesAreAudited, PutAudit
<1>1. CASE UNCHANGED vars
  BY <1>1
<1>2. ASSUME NEW h \in Handlers, Save(h) PROVE TombstonesAreAudited'
  <2>1. ASSUME NEW m \in Memories, SaveBegin(h, m)
        PROVE TombstonesAreAudited'
    BY <2>1 DEF SaveBegin
  <2>2. CASE SaveStore(h)
    BY <2>2 DEF SaveStore, PutStore
  <2>3. CASE SaveIndex(h)
    BY <2>3 DEF SaveIndex
  <2>4. CASE SaveAudit(h)
    BY <2>4 DEF SaveAudit
  <2> QED
    BY <1>2, <2>1, <2>2, <2>3, <2>4 DEF Save
<1>3. ASSUME NEW h \in Handlers, Correct(h) PROVE TombstonesAreAudited'
  <2>1. ASSUME NEW m \in Memories, NEW n \in Memories, CorrectBegin(h, m, n)
        PROVE TombstonesAreAudited'
    BY <2>1 DEF CorrectBegin
  <2>2. CASE CorrectTombStore(h)
    BY <2>2 DEF CorrectTombStore, PutStore
  <2>3. CASE CorrectTombIndex(h)
    BY <2>3 DEF CorrectTombIndex
  <2>4. CASE CorrectNewStore(h)
    BY <2>4 DEF CorrectNewStore, PutStore
  <2>5. CASE CorrectNewIndex(h)
    BY <2>5 DEF CorrectNewIndex
  <2>6. CASE CorrectAudit(h)
    BY <2>6 DEF CorrectAudit
  <2> QED
    BY <1>3, <2>1, <2>2, <2>3, <2>4, <2>5, <2>6 DEF Correct
<1>4. ASSUME NEW h \in Handlers, Forget(h) PROVE TombstonesAreAudited'
  <2>1. ASSUME NEW m \in Memories, NEW u \in UndoIds, ForgetBegin(h, m, u)
        PROVE TombstonesAreAudited'
    BY <2>1 DEF ForgetBegin, FreshUndoId
  <2>2. CASE ForgetRead(h)
    BY <2>2 DEF ForgetRead
  <2>3. CASE ForgetMissing(h)
    BY <2>3 DEF ForgetMissing
  <2>4. CASE ForgetUndo(h)
    BY <2>4 DEF ForgetUndo, UndoRecord
  <2>5. CASE ForgetTombStore(h)
    BY <2>5 DEF ForgetTombStore, PutStore
  <2>6. CASE ForgetTombIndex(h)
    BY <2>6 DEF ForgetTombIndex
  <2>7. CASE ForgetAudit(h)
    BY <2>7 DEF ForgetAudit
  <2> QED
    BY <1>4, <2>1, <2>2, <2>3, <2>4, <2>5, <2>6, <2>7 DEF Forget
<1>5. ASSUME NEW h \in Handlers, UndoForget(h) PROVE TombstonesAreAudited'
  <2>1. ASSUME NEW u \in UndoIds, UndoBegin(h, u)
        PROVE TombstonesAreAudited'
    BY <2>1 DEF UndoBegin
  <2>2. CASE UndoSelect(h)
    BY <2>2 DEF UndoSelect
  <2>3. CASE UndoMissing(h)
    BY <2>3 DEF UndoMissing
  <2>4. CASE UndoExpired(h)
    BY <2>4 DEF UndoExpired
  <2>5. CASE UndoDelete(h)
    BY <2>5 DEF UndoDelete, PopUndo
  <2>6. CASE UndoStore(h)
    BY <2>6 DEF UndoStore, PutStore
  <2>7. CASE UndoIndex(h)
    BY <2>7 DEF UndoIndex
  <2>8. CASE UndoAudit(h)
    BY <2>8 DEF UndoAudit
  <2> QED
    BY <1>5, <2>1, <2>2, <2>3, <2>4, <2>5, <2>6, <2>7, <2>8 DEF UndoForget
<1>6. ASSUME NEW h \in Handlers, Read(h) PROVE TombstonesAreAudited'
  BY <1>6 DEF Read, SearchBegin, ListBegin, StartRead, FetchNext, ReadReply
<1>7. ASSUME NEW h \in Handlers, HandlerFails(h) PROVE TombstonesAreAudited'
  BY <1>7, HandlerFailureHurts
<1>8. CASE Tick
  BY <1>8 DEF Tick
<1>9. CASE ServerCrash
  BY <1>9, ServerCrashHurts
<1> QED
  BY <1>1, <1>2, <1>3, <1>4, <1>5, <1>6, <1>7, <1>8, <1>9 DEF Next

\* No step lets a read show a memory it has not seen active.
LEMMA ReadsStep ==
    TypeOK /\ ArgsOK /\ ReadsSeeLive /\ AnswersShowOnlyLive /\ [Next]_vars
        => (ReadsSeeLive /\ AnswersShowOnlyLive)'
<1> SUFFICES ASSUME TypeOK, ArgsOK, ReadsSeeLive, AnswersShowOnlyLive, [Next]_vars
             PROVE (ReadsSeeLive /\ AnswersShowOnlyLive)'
  OBVIOUS
<1> USE DEF TypeOK, vars, rows, ids, failures, locals, reads, SaveSteps, CorrectSteps,
        ForgetSteps, UndoSteps, UsesArg, HoldsUndo, Goto, Clear, ArgsOK, ReadsSeeLive,
        AnswersShowOnlyLive, Live, Visible
<1>1. CASE UNCHANGED vars
  BY <1>1
<1>2. ASSUME NEW h \in Handlers, Save(h) PROVE (ReadsSeeLive /\ AnswersShowOnlyLive)'
  <2>1. ASSUME NEW m \in Memories, SaveBegin(h, m)
        PROVE (ReadsSeeLive /\ AnswersShowOnlyLive)'
    BY <2>1 DEF SaveBegin
  <2>2. CASE SaveStore(h)
    BY <2>2 DEF SaveStore, PutStore
  <2>3. CASE SaveIndex(h)
    BY <2>3 DEF SaveIndex
  <2>4. CASE SaveAudit(h)
    BY <2>4 DEF SaveAudit
  <2> QED
    BY <1>2, <2>1, <2>2, <2>3, <2>4 DEF Save
<1>3. ASSUME NEW h \in Handlers, Correct(h) PROVE (ReadsSeeLive /\ AnswersShowOnlyLive)'
  <2>1. ASSUME NEW m \in Memories, NEW n \in Memories, CorrectBegin(h, m, n)
        PROVE (ReadsSeeLive /\ AnswersShowOnlyLive)'
    BY <2>1 DEF CorrectBegin
  <2>2. CASE CorrectTombStore(h)
    BY <2>2 DEF CorrectTombStore, PutStore
  <2>3. CASE CorrectTombIndex(h)
    BY <2>3 DEF CorrectTombIndex
  <2>4. CASE CorrectNewStore(h)
    BY <2>4 DEF CorrectNewStore, PutStore
  <2>5. CASE CorrectNewIndex(h)
    BY <2>5 DEF CorrectNewIndex
  <2>6. CASE CorrectAudit(h)
    BY <2>6 DEF CorrectAudit
  <2> QED
    BY <1>3, <2>1, <2>2, <2>3, <2>4, <2>5, <2>6 DEF Correct
<1>4. ASSUME NEW h \in Handlers, Forget(h) PROVE (ReadsSeeLive /\ AnswersShowOnlyLive)'
  <2>1. ASSUME NEW m \in Memories, NEW u \in UndoIds, ForgetBegin(h, m, u)
        PROVE (ReadsSeeLive /\ AnswersShowOnlyLive)'
    BY <2>1 DEF ForgetBegin, FreshUndoId
  <2>2. CASE ForgetRead(h)
    BY <2>2 DEF ForgetRead
  <2>3. CASE ForgetMissing(h)
    BY <2>3 DEF ForgetMissing
  <2>4. CASE ForgetUndo(h)
    BY <2>4 DEF ForgetUndo, UndoRecord
  <2>5. CASE ForgetTombStore(h)
    BY <2>5 DEF ForgetTombStore, PutStore
  <2>6. CASE ForgetTombIndex(h)
    BY <2>6 DEF ForgetTombIndex
  <2>7. CASE ForgetAudit(h)
    BY <2>7 DEF ForgetAudit
  <2> QED
    BY <1>4, <2>1, <2>2, <2>3, <2>4, <2>5, <2>6, <2>7 DEF Forget
<1>5. ASSUME NEW h \in Handlers, UndoForget(h) PROVE (ReadsSeeLive /\ AnswersShowOnlyLive)'
  <2>1. ASSUME NEW u \in UndoIds, UndoBegin(h, u)
        PROVE (ReadsSeeLive /\ AnswersShowOnlyLive)'
    BY <2>1 DEF UndoBegin
  <2>2. CASE UndoSelect(h)
    BY <2>2 DEF UndoSelect
  <2>3. CASE UndoMissing(h)
    BY <2>3 DEF UndoMissing
  <2>4. CASE UndoExpired(h)
    BY <2>4 DEF UndoExpired
  <2>5. CASE UndoDelete(h)
    BY <2>5 DEF UndoDelete, PopUndo
  <2>6. CASE UndoStore(h)
    BY <2>6 DEF UndoStore, PutStore
  <2>7. CASE UndoIndex(h)
    BY <2>7 DEF UndoIndex
  <2>8. CASE UndoAudit(h)
    BY <2>8 DEF UndoAudit
  <2> QED
    BY <1>5, <2>1, <2>2, <2>3, <2>4, <2>5, <2>6, <2>7, <2>8 DEF UndoForget
<1>6. ASSUME NEW h \in Handlers, Read(h) PROVE (ReadsSeeLive /\ AnswersShowOnlyLive)'
  BY <1>6 DEF Read, SearchBegin, ListBegin, StartRead, FetchNext, ReadReply
<1>7. ASSUME NEW h \in Handlers, HandlerFails(h) PROVE (ReadsSeeLive /\ AnswersShowOnlyLive)'
  BY <1>7 DEF HandlerFails
<1>8. CASE Tick
  BY <1>8 DEF Tick
<1>9. CASE ServerCrash
  BY <1>9 DEF ServerCrash
<1> QED
  BY <1>1, <1>2, <1>3, <1>4, <1>5, <1>6, <1>7, <1>8, <1>9 DEF Next

-----------------------------------------------------------------------------
(* The theorems *)

IInv ==
    /\ TypeOK
    /\ ArgsOK
    /\ OwnIds
    /\ UndoRows
    /\ ForgottenIsRecoverable
    /\ ReplacementIsStored
    /\ TombstonesAreAudited
    /\ ReadsSeeLive
    /\ AnswersShowOnlyLive

\* The inductive invariant behind every theorem of this module.
THEOREM Inductive == Spec => []IInv
<1>1. Init => IInv
  <2> SUFFICES ASSUME Init PROVE IInv
    OBVIOUS
  <2> USE DEF Init
  <2>1. TypeOK
    BY DEF TypeOK, RowState, IndexState, Actions, Steps
  <2>2. ArgsOK /\ OwnIds /\ UndoRows
    BY DEF ArgsOK, OwnIds, UndoRows, UsesArg, SaveSteps, CorrectSteps,
           ForgetSteps, UndoSteps, HoldsUndo
  <2>3. ForgottenIsRecoverable /\ ReplacementIsStored /\ TombstonesAreAudited
    BY DEF ForgottenIsRecoverable, ReplacementIsStored, TombstonesAreAudited
  <2>4. ReadsSeeLive /\ AnswersShowOnlyLive
    BY DEF ReadsSeeLive, AnswersShowOnlyLive
  <2> QED
    BY <2>1, <2>2, <2>3, <2>4 DEF IInv
<1>2. IInv /\ [Next]_vars => IInv'
  BY TypeStep, ArgsStep, OwnIdsStep, UndoRowsStep, RecoverableStep,
     ReplacementStep, AuditedStep, ReadsStep DEF IInv
<1> QED
  BY <1>1, <1>2, PTL DEF Spec

\* Every variable of the Memory Book keeps its type.
THEOREM TypeCorrect == Spec => []TypeOK
<1>1. IInv => TypeOK
  BY DEF IInv
<1> QED
  BY <1>1, Inductive, PTL

\* search, ask, context_pack and list_cards never show a memory that was not
\* active at some moment since the request began, for any number of requests
\* and any failures.
THEOREM AnswersAreLive == Spec => []AnswersShowOnlyLive
<1>1. IInv => AnswersShowOnlyLive
  BY DEF IInv
<1> QED
  BY <1>1, Inductive, PTL

\* Forget and undo_forget never lose the last copy of a forgotten memory, however
\* many requests overlap, unless a request about that memory fails half-way.
THEOREM ForgottenRecoverable == Spec => []ForgottenIsRecoverable
<1>1. IInv => ForgottenIsRecoverable
  BY DEF IInv
<1> QED
  BY <1>1, Inductive, PTL

\* A correction's tombstone names a memory that is stored or about to be, unless
\* a request about the corrected memory fails half-way.
THEOREM ReplacementStored == Spec => []ReplacementIsStored
<1>1. IInv => ReplacementIsStored
  BY DEF IInv
<1> QED
  BY <1>1, Inductive, PTL

\* Every tombstone has its audit event or a handler on its way to write it, unless
\* a request about that memory fails half-way.
THEOREM TombstonesAudited == Spec => []TombstonesAreAudited
<1>1. IInv => TombstonesAreAudited
  BY DEF IInv
<1> QED
  BY <1>1, Inductive, PTL

\* The row of an undo id that a client holds, once gone, is not written again.
LEMMA SpentStep ==
    IInv /\ [Next]_vars => \A u \in offered : undo[u] = None => undo'[u] = None
<1> SUFFICES ASSUME IInv, [Next]_vars, NEW u \in offered, undo[u] = None
             PROVE  undo'[u] = None
  OBVIOUS
<1> USE DEF vars, rows, ids
<1>0. u \in UndoIds /\ undo \in [UndoIds -> UndoRow \cup {None}]
  BY DEF IInv, TypeOK
<1>1. CASE undo' = undo
  BY <1>1
<1>2. ASSUME NEW h \in Handlers, ForgetUndo(h) PROVE undo'[u] = None
  <2>1. uid[h] \notin offered
    BY <1>2 DEF IInv, ArgsOK, ForgetUndo, Goto, ForgetSteps
  <2> QED
    BY <1>2, <2>1, <1>0 DEF ForgetUndo
<1>3. ASSUME NEW h \in Handlers, UndoDelete(h) PROVE undo'[u] = None
  BY <1>3, <1>0 DEF UndoDelete, PopUndo
<1>4. ASSUME NEW h \in Handlers, Save(h) \/ Correct(h) \/ Read(h) \/ HandlerFails(h)
      PROVE  undo' = undo
  BY <1>4 DEF Save, SaveBegin, SaveStore, SaveIndex, SaveAudit, Correct,
              CorrectBegin, CorrectTombStore, CorrectTombIndex, CorrectNewStore,
              CorrectNewIndex, CorrectAudit, Read, SearchBegin, ListBegin,
              StartRead, FetchNext, ReadReply, HandlerFails
<1>5. ASSUME NEW h \in Handlers, Forget(h), ~ForgetUndo(h) PROVE undo' = undo
  BY <1>5 DEF Forget, ForgetBegin, ForgetRead, ForgetMissing, ForgetTombStore,
              ForgetTombIndex, ForgetAudit
<1>6. ASSUME NEW h \in Handlers, UndoForget(h), ~UndoDelete(h)
      PROVE  undo' = undo
  BY <1>6 DEF UndoForget, UndoBegin, UndoSelect, UndoMissing, UndoExpired,
              UndoStore, UndoIndex, UndoAudit
<1>7. CASE Tick \/ ServerCrash
  BY <1>7, <1>1 DEF Tick, ServerCrash
<1>8. CASE UNCHANGED vars
  BY <1>8, <1>1
<1> QED
  BY <1>1, <1>2, <1>3, <1>4, <1>5, <1>6, <1>7, <1>8 DEF Next

\* What makes HonouredUndoIsSpent inductive: a request puts an original back only
\* after its own DELETE, and under an id that a client was given.
HonouredInv ==
    /\ honoured \subseteq offered
    /\ HonouredUndoIsSpent
    /\ \A h \in Handlers : pc[h] = "undoStore" => undo[uid[h]] = None

\* Only UndoStore honours an id, and only UndoDelete leads to it.
LEMMA HonouringStep ==
    ASSUME IInv, [Next]_vars
    PROVE  /\ offered \subseteq offered'
           /\ \/ honoured' = honoured
              \/ \E h \in Handlers : /\ pc[h] = "undoStore"
                                     /\ honoured' = honoured \cup {uid[h]}
           /\ \A h \in Handlers : pc'[h] = "undoStore" =>
                  /\ uid'[h] = uid[h]
                  /\ pc[h] = "undoStore" \/ (pc[h] = "undoDelete" /\ undo'[uid[h]] = None)
<1> DEFINE Leads ==
        \A h \in Handlers : pc'[h] = "undoStore" =>
            /\ uid'[h] = uid[h]
            /\ pc[h] = "undoStore" \/ (pc[h] = "undoDelete" /\ undo'[uid[h]] = None)
<1> USE DEF vars, ids, locals, Goto, Clear
<1>0. /\ pc \in [Handlers -> Steps] /\ uid \in [Handlers -> UndoIds \cup {None}]
      /\ undo \in [UndoIds -> UndoRow \cup {None}]
  BY DEF IInv, TypeOK
<1>1. CASE UNCHANGED vars
  BY <1>1
<1>2. ASSUME NEW g \in Handlers, Save(g) \/ Correct(g) \/ Read(g) \/ HandlerFails(g)
      PROVE  offered' = offered /\ honoured' = honoured /\ Leads
  BY <1>0, <1>2 DEF Save, SaveBegin, SaveStore, SaveIndex, SaveAudit, Correct,
              CorrectBegin, CorrectTombStore, CorrectTombIndex, CorrectNewStore,
              CorrectNewIndex, CorrectAudit, Read, SearchBegin, ListBegin,
              StartRead, FetchNext, ReadReply, HandlerFails
<1>3. ASSUME NEW g \in Handlers, Forget(g)
      PROVE  offered \subseteq offered' /\ honoured' = honoured /\ Leads
  BY <1>0, <1>3 DEF Forget, ForgetBegin, ForgetRead, ForgetMissing, ForgetUndo,
              ForgetTombStore, ForgetTombIndex, ForgetAudit
<1>4. ASSUME NEW g \in Handlers, UndoDelete(g)
      PROVE  offered' = offered /\ honoured' = honoured /\ Leads
  <2>1. uid[g] \in UndoIds
    BY <1>4 DEF UndoDelete, IInv, ArgsOK, TypeOK, UndoSteps
  <2> QED BY <1>0, <1>4, <2>1 DEF UndoDelete, PopUndo
<1>5. ASSUME NEW g \in Handlers, UndoStore(g)
      PROVE  /\ offered' = offered /\ Leads
             /\ pc[g] = "undoStore" /\ honoured' = honoured \cup {uid[g]}
  BY <1>0, <1>5 DEF UndoStore
<1>6. ASSUME NEW g \in Handlers, UndoForget(g), ~UndoDelete(g), ~UndoStore(g)
      PROVE  offered' = offered /\ honoured' = honoured /\ Leads
  BY <1>0, <1>6 DEF UndoForget, UndoBegin, UndoSelect, UndoMissing, UndoExpired,
              UndoIndex, UndoAudit
<1>7. CASE Tick \/ ServerCrash
  BY <1>0, <1>7 DEF Tick, ServerCrash
<1> QED
  BY <1>1, <1>2, <1>3, <1>4, <1>5, <1>6, <1>7 DEF Next

\* The row of an undo id that has put its original back is gone for good: no
\* request that looks for it afterwards restores again, whatever fails.
THEOREM UndoSpentOnce == Spec => []HonouredUndoIsSpent
<1>1. Init => HonouredInv
  BY DEF Init, HonouredInv, HonouredUndoIsSpent
<1>2. IInv /\ HonouredInv /\ [Next]_vars => HonouredInv'
  <2> SUFFICES ASSUME IInv, HonouredInv, [Next]_vars PROVE HonouredInv'
    OBVIOUS
  <2>1. \A u \in offered : undo[u] = None => undo'[u] = None
    BY SpentStep
  <2>2. /\ offered \subseteq offered'
        /\ \/ honoured' = honoured
           \/ \E h \in Handlers : /\ pc[h] = "undoStore"
                                  /\ honoured' = honoured \cup {uid[h]}
        /\ \A h \in Handlers : pc'[h] = "undoStore" =>
               /\ uid'[h] = uid[h]
               /\ pc[h] = "undoStore" \/ (pc[h] = "undoDelete" /\ undo'[uid[h]] = None)
    BY HonouringStep
  <2>3. \A h \in Handlers : pc[h] = "undoStore" => uid[h] \in offered
    BY DEF IInv, ArgsOK, UndoSteps
  <2> QED
    BY <2>1, <2>2, <2>3 DEF HonouredInv, HonouredUndoIsSpent
<1>3. HonouredInv => HonouredUndoIsSpent
  BY DEF HonouredInv
<1> QED
  BY <1>1, <1>2, <1>3, Inductive, PTL DEF Spec

-----------------------------------------------------------------------------
(* Requests about different memories *)

Touches(h) == {arg[h], new[h]} \ {None}

\* Requests that overlap are about different memories, and none that had touched
\* its memory has failed.  Reads may be as many as they like, and they may fail.
Undisturbed ==
    /\ \A g, h \in Handlers : g # h => Touches(g) \cap Touches(h) = {}
    /\ hurt = {}

\* An id that has yet to be minted names no row.
UnmintedAbsent ==
    \A m \in Memories \ minted : store[m] = "absent" /\ index[m] = "absent"

\* What a request knows of the rows its next steps are about.
RequestRows ==
    \A h \in Handlers :
        /\ pc[h] = "saveStore" => arg[h] \in minted /\ store[arg[h]] = "absent"
        /\ pc[h] \in {"saveIndex", "correctTombStore", "forgetUndo", "forgetTombStore",
                      "undoIndex"} => store[arg[h]] = "live"
        /\ pc[h] \in {"correctTombIndex", "correctNewStore"} =>
              store[arg[h]] = "corrected" /\ replacement[arg[h]] = new[h]
        /\ pc[h] \in {"correctTombStore", "correctTombIndex", "correctNewStore"} =>
              new[h] \in minted /\ store[new[h]] = "absent" /\ arg[h] # new[h]
        /\ pc[h] = "correctNewIndex" => store[new[h]] = "live"
        /\ pc[h] \in {"forgetTombIndex", "undoDelete", "undoStore"} =>
              store[arg[h]] = "forgotten"
        /\ pc[h] = "undoDelete" => undo[uid[h]] # None
        /\ pc[h] = "undoStore" =>
              \A u \in UndoIds : undo[u] # None => undo[u].mem # arg[h]

\* A request has changed the store row of m and not yet its index row.
IndexBehind(m) ==
    \E h \in Handlers :
        \/ /\ pc[h] \in {"saveIndex", "correctTombIndex", "forgetTombIndex", "undoIndex"}
           /\ arg[h] = m
        \/ pc[h] = "correctNewIndex" /\ new[h] = m

IndexFollows ==
    \A m \in Memories : IndexBehind(m) \/ (index[m] = "live" <=> store[m] = "live")

OnlyCorrectedReplaced ==
    \A m \in Memories : replacement[m] # None => store[m] = "corrected"

\* A pending undo row is of a forgotten memory, or of one about to be forgotten.
PendingForgotten ==
    \A u \in UndoIds : undo[u] # None =>
        \/ store[undo[u].mem] = "forgotten"
        \/ \E h \in Handlers : pc[h] = "forgetTombStore" /\ uid[h] = u

\* No two pending undo rows are of the same memory.
OnePending ==
    \A u, v \in UndoIds :
        undo[u] # None /\ undo[v] # None /\ undo[u].mem = undo[v].mem => u = v

RowsInStep ==
    /\ UnmintedAbsent
    /\ RequestRows
    /\ IndexFollows
    /\ OnlyCorrectedReplaced
    /\ PendingForgotten
    /\ OnePending

\* While a request writes, every other stays where it is, away from its memories.
LEMMA OthersApart ==
    ASSUME TypeOK, Undisturbed, Undisturbed', NEW h \in Handlers,
           Save(h) \/ Correct(h) \/ Forget(h) \/ UndoForget(h), NEW g \in Handlers \ {h}
    PROVE  /\ pc'[g] = pc[g] /\ arg'[g] = arg[g] /\ new'[g] = new[g]
           /\ uid'[g] = uid[g] /\ ts'[g] = ts[g]
           /\ arg[g] \in Memories => arg[g] \notin {arg[h], new[h], arg'[h], new'[h]}
           /\ new[g] \in Memories => new[g] \notin {arg[h], new[h], arg'[h], new'[h]}
<1>1. /\ pc'[g] = pc[g] /\ arg'[g] = arg[g] /\ new'[g] = new[g]
      /\ uid'[g] = uid[g] /\ ts'[g] = ts[g]
  <2> USE DEF TypeOK, Goto, Clear, locals
  <2>1. CASE Save(h)
    BY <2>1 DEF Save, SaveBegin, SaveStore, SaveIndex, SaveAudit
  <2>2. CASE Correct(h)
    BY <2>2 DEF Correct, CorrectBegin, CorrectTombStore, CorrectTombIndex,
       CorrectNewStore, CorrectNewIndex, CorrectAudit
  <2>3. CASE Forget(h)
    BY <2>3 DEF Forget, ForgetBegin, ForgetRead, ForgetMissing, ForgetUndo,
       ForgetTombStore, ForgetTombIndex, ForgetAudit
  <2>4. CASE UndoForget(h)
    BY <2>4 DEF UndoForget, UndoBegin, UndoSelect, UndoMissing, UndoExpired,
       UndoDelete, UndoStore, UndoIndex, UndoAudit
  <2> QED
    BY <2>1, <2>2, <2>3, <2>4
<1>2. Touches(g) \cap Touches(h) = {} /\ (Touches(g) \cap Touches(h) = {})'
  BY DEF Undisturbed
<1> QED
  BY <1>1, <1>2, BookAssumption DEF Touches

\* A save keeps the tables in step.
LEMMA SaveInStep ==
    ASSUME TypeOK, ArgsOK, UndoRows, RowsInStep, Undisturbed, Undisturbed',
           NEW h \in Handlers, Save(h)
    PROVE  RowsInStep'
<1> USE DEF TypeOK, rows, ids, failures, locals, reads, Goto, Clear, ArgsOK, UsesArg,
        SaveSteps, CorrectSteps, ForgetSteps, UndoSteps, UndoRows, RowsInStep,
        UnmintedAbsent, RequestRows, IndexBehind, IndexFollows, OnlyCorrectedReplaced,
        PendingForgotten, OnePending
<1>0. \A g \in Handlers \ {h} :
         /\ pc'[g] = pc[g] /\ arg'[g] = arg[g] /\ new'[g] = new[g]
         /\ uid'[g] = uid[g] /\ ts'[g] = ts[g]
         /\ arg[g] \in Memories => arg[g] \notin {arg[h], new[h], arg'[h], new'[h]}
         /\ new[g] \in Memories => new[g] \notin {arg[h], new[h], arg'[h], new'[h]}
  BY OthersApart
<1>1. ASSUME NEW m \in Memories, SaveBegin(h, m) PROVE RowsInStep'
  BY <1>0, <1>1 DEF SaveBegin
<1>2. CASE SaveStore(h)
  <2>1. /\ arg[h] \in minted /\ store[arg[h]] = "absent"
        /\ store' = [store EXCEPT ![arg[h]] = "live"]
        /\ replacement' = [replacement EXCEPT ![arg[h]] = None]
        /\ pc[h] = "saveStore" /\ pc' = [pc EXCEPT ![h] = "saveIndex"]
        /\ UNCHANGED <<index, undo, minted, issued, offered, arg, new, uid>>
    BY <1>2 DEF SaveStore, PutStore
  <2>2. UnmintedAbsent'
    BY <2>1
  <2>3. RequestRows'
    BY <1>0, <2>1
  <2>4. IndexFollows'
    BY <1>0, <2>1
  <2>5. OnlyCorrectedReplaced'
    BY <2>1
  <2>6. PendingForgotten' /\ OnePending'
    BY <1>0, <2>1
  <2> QED
    BY <2>2, <2>3, <2>4, <2>5, <2>6
<1>3. CASE SaveIndex(h)
  BY <1>0, <1>3 DEF SaveIndex, PutIndex
<1>4. CASE SaveAudit(h)
  BY <1>0, <1>4 DEF SaveAudit
<1> QED
  BY <1>1, <1>2, <1>3, <1>4, Save(h) DEF Save
\* A correction keeps the tables in step.
LEMMA CorrectInStep ==
    ASSUME TypeOK, ArgsOK, UndoRows, RowsInStep, Undisturbed, Undisturbed',
           NEW h \in Handlers, Correct(h)
    PROVE  RowsInStep'
<1> USE DEF TypeOK, rows, ids, failures, locals, reads, Goto, Clear, ArgsOK, UsesArg,
        SaveSteps, CorrectSteps, ForgetSteps, UndoSteps, UndoRows, RowsInStep,
        UnmintedAbsent, RequestRows, IndexBehind, IndexFollows, OnlyCorrectedReplaced,
        PendingForgotten, OnePending
<1>0. \A g \in Handlers \ {h} :
         /\ pc'[g] = pc[g] /\ arg'[g] = arg[g] /\ new'[g] = new[g]
         /\ uid'[g] = uid[g] /\ ts'[g] = ts[g]
         /\ arg[g] \in Memories => arg[g] \notin {arg[h], new[h], arg'[h], new'[h]}
         /\ new[g] \in Memories => new[g] \notin {arg[h], new[h], arg'[h], new'[h]}
  BY OthersApart
<1>1. ASSUME NEW m \in Memories, NEW n \in Memories, CorrectBegin(h, m, n) PROVE RowsInStep'
  BY <1>0, <1>1 DEF CorrectBegin, Visible
<1>2. CASE CorrectTombStore(h)
  BY <1>0, <1>2 DEF CorrectTombStore, PutStore
<1>3. CASE CorrectTombIndex(h)
  BY <1>0, <1>3 DEF CorrectTombIndex, PutIndex
<1>4. CASE CorrectNewStore(h)
  BY <1>0, <1>4 DEF CorrectNewStore, PutStore
<1>5. CASE CorrectNewIndex(h)
  BY <1>0, <1>5 DEF CorrectNewIndex, PutIndex
<1>6. CASE CorrectAudit(h)
  BY <1>0, <1>6 DEF CorrectAudit
<1> QED
  BY <1>1, <1>2, <1>3, <1>4, <1>5, <1>6, Correct(h) DEF Correct

\* A forget keeps the tables in step: the row it seals is the only one of its memory.
LEMMA ForgetInStep ==
    ASSUME TypeOK, ArgsOK, UndoRows, RowsInStep, Undisturbed, Undisturbed',
           NEW h \in Handlers, Forget(h)
    PROVE  RowsInStep'
<1> USE DEF TypeOK, rows, ids, failures, locals, reads, Goto, Clear, ArgsOK, UsesArg,
        SaveSteps, CorrectSteps, ForgetSteps, UndoSteps, UndoRows, RowsInStep,
        UnmintedAbsent, RequestRows, IndexBehind, IndexFollows, OnlyCorrectedReplaced,
        PendingForgotten, OnePending
<1>0. \A g \in Handlers \ {h} :
         /\ pc'[g] = pc[g] /\ arg'[g] = arg[g] /\ new'[g] = new[g]
         /\ uid'[g] = uid[g] /\ ts'[g] = ts[g]
         /\ arg[g] \in Memories => arg[g] \notin {arg[h], new[h], arg'[h], new'[h]}
         /\ new[g] \in Memories => new[g] \notin {arg[h], new[h], arg'[h], new'[h]}
  BY OthersApart
<1>1. ASSUME NEW m \in Memories, NEW u \in UndoIds, ForgetBegin(h, m, u) PROVE RowsInStep'
  BY <1>0, <1>1 DEF ForgetBegin
<1>2. CASE ForgetRead(h)
  BY <1>0, <1>2 DEF ForgetRead, Visible
<1>3. CASE ForgetMissing(h)
  BY <1>0, <1>3 DEF ForgetMissing
<1>4. CASE ForgetUndo(h)
  <2>1. /\ uid[h] \in UndoIds /\ store[arg[h]] = "live"
        /\ undo' = [undo EXCEPT ![uid[h]] = UndoRecord(h)]
        /\ pc[h] = "forgetUndo" /\ pc' = [pc EXCEPT ![h] = "forgetTombStore"]
        /\ UNCHANGED <<store, replacement, index, minted, issued, offered, arg, new, uid>>
    BY <1>4 DEF ForgetUndo
  <2>2. UndoRecord(h) \in UndoRow /\ UndoRecord(h).mem = arg[h]
    BY <2>1, UndoRecordType DEF UndoRecord
  <2>3. \A u \in UndoIds : undo[u] # None => undo[u].mem # arg[h]
    BY <1>0, <2>1 DEF HoldsUndo
  <2>4. UnmintedAbsent' /\ IndexFollows' /\ OnlyCorrectedReplaced'
    BY <1>0, <2>1
  <2>5. RequestRows'
    BY <1>0, <2>1, <2>2, BookAssumption
  <2>6. PendingForgotten'
    BY <1>0, <2>1, <2>2
  <2>7. OnePending'
    BY <2>1, <2>2, <2>3
  <2> QED
    BY <2>4, <2>5, <2>6, <2>7
<1>5. CASE ForgetTombStore(h)
  <2>1. /\ uid[h] \in UndoIds /\ undo[uid[h]] # None /\ undo[uid[h]].mem = arg[h]
        /\ store[arg[h]] = "live"
        /\ store' = [store EXCEPT ![arg[h]] = "forgotten"]
        /\ replacement' = [replacement EXCEPT ![arg[h]] = None]
        /\ pc[h] = "forgetTombStore" /\ pc' = [pc EXCEPT ![h] = "forgetTombIndex"]
        /\ UNCHANGED <<index, undo, minted, issued, offered, arg, new, uid>>
    BY <1>5 DEF ForgetTombStore, PutStore, HoldsUndo
  <2>2. \A u \in UndoIds \ {uid[h]} : undo[u] # None => undo[u].mem # arg[h]
    BY <2>1
  <2>3. UnmintedAbsent' /\ OnlyCorrectedReplaced'
    BY <2>1
  <2>4. RequestRows' /\ IndexFollows'
    BY <1>0, <2>1
  <2>5. PendingForgotten' /\ OnePending'
    BY <1>0, <2>1, <2>2 DEF UndoRow
  <2> QED
    BY <2>3, <2>4, <2>5
<1>6. CASE ForgetTombIndex(h)
  BY <1>0, <1>6 DEF ForgetTombIndex, PutIndex
<1>7. CASE ForgetAudit(h)
  BY <1>0, <1>7 DEF ForgetAudit
<1> QED
  BY <1>1, <1>2, <1>3, <1>4, <1>5, <1>6, <1>7, Forget(h) DEF Forget

\* An undo keeps the tables in step: what it writes back was forgotten.
LEMMA UndoInStep ==
    ASSUME TypeOK, ArgsOK, UndoRows, RowsInStep, Undisturbed, Undisturbed',
           NEW h \in Handlers, UndoForget(h)
    PROVE  RowsInStep'
<1> USE DEF TypeOK, rows, ids, failures, locals, reads, Goto, Clear, ArgsOK, UsesArg,
        SaveSteps, CorrectSteps, ForgetSteps, UndoSteps, UndoRows, RowsInStep,
        UnmintedAbsent, RequestRows, IndexBehind, IndexFollows, OnlyCorrectedReplaced,
        PendingForgotten, OnePending
<1>0. \A g \in Handlers \ {h} :
         /\ pc'[g] = pc[g] /\ arg'[g] = arg[g] /\ new'[g] = new[g]
         /\ uid'[g] = uid[g] /\ ts'[g] = ts[g]
         /\ arg[g] \in Memories => arg[g] \notin {arg[h], new[h], arg'[h], new'[h]}
         /\ new[g] \in Memories => new[g] \notin {arg[h], new[h], arg'[h], new'[h]}
  BY OthersApart
<1>1. ASSUME NEW u \in UndoIds, UndoBegin(h, u) PROVE RowsInStep'
  BY <1>0, <1>1 DEF UndoBegin
<1>2. CASE UndoSelect(h)
  BY <1>0, <1>2 DEF UndoSelect, UndoRow
<1>3. CASE UndoMissing(h)
  BY <1>0, <1>3 DEF UndoMissing
<1>4. CASE UndoExpired(h)
  BY <1>0, <1>4 DEF UndoExpired
<1>5. CASE UndoDelete(h)
  <2>1. /\ uid[h] \in UndoIds /\ undo[uid[h]] # None /\ undo[uid[h]].mem = arg[h]
        /\ undo' = [undo EXCEPT ![uid[h]] = None]
        /\ pc[h] = "undoDelete" /\ pc' = [pc EXCEPT ![h] = "undoStore"]
        /\ UNCHANGED <<store, replacement, index, minted, issued, offered, arg, new, uid>>
    BY <1>5 DEF UndoDelete, PopUndo
  <2>2. \A g \in Handlers \ {h} : pc[g] = "undoDelete" => uid[g] # uid[h]
    BY <1>0, <2>1
  <2>3. UnmintedAbsent' /\ IndexFollows' /\ OnlyCorrectedReplaced' /\ OnePending'
    BY <1>0, <2>1
  <2>4. RequestRows'
    BY <1>0, <2>1, <2>2
  <2>5. PendingForgotten'
    BY <1>0, <2>1
  <2> QED
    BY <2>3, <2>4, <2>5
<1>6. CASE UndoStore(h)
  BY <1>0, <1>6 DEF UndoStore, PutStore
<1>7. CASE UndoIndex(h)
  BY <1>0, <1>7 DEF UndoIndex, PutIndex
<1>8. CASE UndoAudit(h)
  BY <1>0, <1>8 DEF UndoAudit
<1> QED
  BY <1>1, <1>2, <1>3, <1>4, <1>5, <1>6, <1>7, <1>8, UndoForget(h) DEF UndoForget

\* Steps that leave the tables alone and every request that writes where it is.
LEMMA QuietInStep ==
    ASSUME RowsInStep, rows' = rows, minted' = minted,
           \A g \in Handlers :
              \/ pc'[g] = pc[g] /\ arg'[g] = arg[g] /\ new'[g] = new[g] /\ uid'[g] = uid[g]
              \/ pc[g] \in {"idle", "fetch", "undoSelect"} /\ pc'[g] \in {"idle", "fetch"}
    PROVE  RowsInStep'
BY DEF rows, RowsInStep, UnmintedAbsent, RequestRows, IndexBehind, IndexFollows,
       OnlyCorrectedReplaced, PendingForgotten, OnePending

\* A request that fails without marking a memory had yet to touch one.
LEMMA HarmlessFailure ==
    ASSUME TypeOK, ArgsOK, Undisturbed, Undisturbed',
           ServerCrash \/ \E h \in Handlers : HandlerFails(h)
    PROVE  /\ rows' = rows /\ minted' = minted
           /\ \A g \in Handlers :
              \/ /\ pc'[g] = pc[g] /\ arg'[g] = arg[g] /\ new'[g] = new[g]
                 /\ uid'[g] = uid[g] /\ ts'[g] = ts[g]
              \/ pc[g] \in {"idle", "fetch", "undoSelect"} /\ pc'[g] = "idle"
<1>1. ASSUME NEW g \in Handlers, arg[g] = None
      PROVE  pc[g] \in {"idle", "fetch", "undoSelect"}
  <2>1. pc[g] \in Steps /\ pc[g] \notin UsesArg
    BY <1>1, BookAssumption DEF TypeOK, ArgsOK
  <2> QED
    BY <2>1 DEF Steps, UsesArg, SaveSteps, CorrectSteps, ForgetSteps, UndoSteps
<1>2. CASE ServerCrash
  <2>1. \A g \in Handlers : arg[g] = None
    BY <1>2 DEF ServerCrash, Undisturbed
  <2> QED
    BY <1>1, <1>2, <2>1 DEF ServerCrash, ids
<1>3. ASSUME NEW h \in Handlers, HandlerFails(h)
      PROVE  /\ rows' = rows /\ minted' = minted
             /\ \A g \in Handlers :
                \/ /\ pc'[g] = pc[g] /\ arg'[g] = arg[g] /\ new'[g] = new[g]
                 /\ uid'[g] = uid[g] /\ ts'[g] = ts[g]
                \/ pc[g] \in {"idle", "fetch", "undoSelect"} /\ pc'[g] = "idle"
  <2>1. arg[h] = None
    BY <1>3 DEF HandlerFails, Undisturbed
  <2> QED
    BY <1>1, <1>3, <2>1 DEF HandlerFails, Clear, TypeOK, ids
<1> QED
  BY <1>2, <1>3

\* The rows stay in step as long as overlapping requests are about different
\* memories and none fails half-way.
LEMMA InStepKept ==
    IInv /\ RowsInStep /\ Undisturbed /\ Undisturbed' /\ [Next]_vars => RowsInStep'
<1> SUFFICES ASSUME IInv, RowsInStep, Undisturbed, Undisturbed', [Next]_vars
             PROVE  RowsInStep'
  OBVIOUS
<1>0. TypeOK /\ ArgsOK /\ UndoRows
  BY DEF IInv
<1>1. ASSUME NEW h \in Handlers, Save(h) \/ Correct(h) \/ Forget(h) \/ UndoForget(h)
      PROVE  RowsInStep'
  BY <1>0, <1>1, SaveInStep, CorrectInStep, ForgetInStep, UndoInStep
<1>2. ASSUME NEW h \in Handlers, Read(h) PROVE RowsInStep'
  <2>1. /\ rows' = rows /\ minted' = minted /\ UNCHANGED locals
        /\ pc[h] \in {"idle", "fetch"} /\ pc'[h] \in {"idle", "fetch"}
        /\ \A g \in Handlers \ {h} : pc'[g] = pc[g]
    BY <1>0, <1>2 DEF TypeOK, Read, SearchBegin, ListBegin, StartRead, FetchNext,
                      ReadReply, Goto, ids
  <2> QED
    BY <2>1, QuietInStep DEF locals
<1>3. CASE ServerCrash \/ \E h \in Handlers : HandlerFails(h)
  BY <1>0, <1>3, HarmlessFailure, QuietInStep
<1>4. CASE Tick
  BY <1>4, QuietInStep DEF Tick, ids, locals
<1>5. CASE UNCHANGED vars
  BY <1>5, QuietInStep DEF vars, ids, locals
<1> QED
  BY <1>1, <1>2, <1>3, <1>4, <1>5 DEF Next

\* As long as overlapping requests are about different memories and none fails
\* half-way, the tables are in step with the steps of the requests.
THEOREM ApartInductive == Spec /\ []Undisturbed => []RowsInStep
<1>1. Init => RowsInStep
  BY DEF Init, RowsInStep, UnmintedAbsent, RequestRows, IndexFollows,
         OnlyCorrectedReplaced, PendingForgotten, OnePending
<1> QED
  BY <1>1, InStepKept, Inductive, PTL DEF Spec

\* Between requests the index finds exactly the active memories: what the run shows
\* of one thread holds of any number of requests that overlap and are about
\* different memories.
THEOREM ApartIndexAgrees == Spec /\ []Undisturbed => []IndexAgreesAtRest
<1>1. RowsInStep => IndexAgreesAtRest
  BY DEF RowsInStep, IndexFollows, IndexBehind, IndexAgreesAtRest, AtRest
<1> QED
  BY <1>1, ApartInductive, PTL

\* Between requests every pending undo row is of a forgotten memory, one row to a
\* memory, so that pending_undo_count counts forgotten memories.
THEOREM ApartPendingUndo == Spec /\ []Undisturbed => []PendingUndoMeansForgotten
<1>1. RowsInStep => PendingUndoMeansForgotten
  BY DEF RowsInStep, PendingForgotten, OnePending, PendingUndoMeansForgotten, AtRest
<1> QED
  BY <1>1, ApartInductive, PTL

\* What a request puts back in the store as live was absent or forgotten.
LEMMA OnlyForgottenComeBack ==
    ASSUME IInv, RowsInStep, Undisturbed, Undisturbed', [Next]_vars,
           NEW m \in Memories, store[m] = "corrected"
    PROVE  store'[m] # "live"
<1> USE DEF RowsInStep, RequestRows, PutStore, Goto
<1>0. store \in [Memories -> RowState]
  BY DEF IInv, TypeOK
<1>1. CASE store' = store
  BY <1>1
<1>2. ASSUME NEW h \in Handlers, SaveStore(h) PROVE store'[m] # "live"
  BY <1>0, <1>2 DEF SaveStore
<1>3. ASSUME NEW h \in Handlers, CorrectTombStore(h) PROVE store'[m] # "live"
  BY <1>0, <1>3 DEF CorrectTombStore
<1>4. ASSUME NEW h \in Handlers, CorrectNewStore(h) PROVE store'[m] # "live"
  BY <1>0, <1>4 DEF CorrectNewStore
<1>5. ASSUME NEW h \in Handlers, ForgetTombStore(h) PROVE store'[m] # "live"
  BY <1>0, <1>5 DEF ForgetTombStore
<1>6. ASSUME NEW h \in Handlers, UndoStore(h) PROVE store'[m] # "live"
  BY <1>0, <1>6 DEF UndoStore
<1>7. ASSUME NEW h \in Handlers, Save(h), ~SaveStore(h) PROVE store' = store
  BY <1>7 DEF Save, SaveBegin, SaveIndex, SaveAudit, rows
<1>8. ASSUME NEW h \in Handlers, Correct(h), ~CorrectTombStore(h), ~CorrectNewStore(h)
      PROVE  store' = store
  BY <1>8 DEF Correct, CorrectBegin, CorrectTombIndex, CorrectNewIndex, CorrectAudit, rows
<1>9. ASSUME NEW h \in Handlers, Forget(h), ~ForgetTombStore(h) PROVE store' = store
  BY <1>9 DEF Forget, ForgetBegin, ForgetRead, ForgetMissing, ForgetUndo, ForgetTombIndex,
              ForgetAudit, rows
<1>10. ASSUME NEW h \in Handlers, UndoForget(h), ~UndoStore(h) PROVE store' = store
  BY <1>10 DEF UndoForget, UndoBegin, UndoSelect, UndoMissing, UndoExpired, UndoDelete,
               UndoIndex, UndoAudit, rows
<1>11. ASSUME NEW h \in Handlers, Read(h) \/ HandlerFails(h) PROVE store' = store
  BY <1>11 DEF Read, SearchBegin, ListBegin, StartRead, FetchNext, ReadReply, HandlerFails,
               rows
<1>12. CASE Tick \/ ServerCrash \/ UNCHANGED vars
  BY <1>12, <1>1 DEF Tick, ServerCrash, vars, rows
<1> QED
  BY <1>1, <1>2, <1>3, <1>4, <1>5, <1>6, <1>7, <1>8, <1>9, <1>10, <1>11, <1>12 DEF Next

\* ADR 0007: no step turns a corrected memory back into an active one, as long as
\* overlapping requests are about different memories and none fails half-way.
THEOREM ApartUndoRestores == Spec /\ []Undisturbed => UndoRestoresOnlyForgotten
<1>1. IInv /\ RowsInStep /\ Undisturbed /\ Undisturbed' /\ [Next]_vars
        => [\A m \in Memories : store[m] = "corrected" => store'[m] # "live"]_vars
  BY OnlyForgottenComeBack
<1> QED
  BY <1>1, ApartInductive, Inductive, PTL DEF Spec, UndoRestoresOnlyForgotten

-----------------------------------------------------------------------------
(* The service keeps the promise of MemoryBook *)

Correcting == {m \in Memories : BeingCorrected(m)}
Undoable == {m \in Memories : CanStillUndo(m)}

\* bookState, of the rows and of what the requests in progress will do.
Shown(rowOf, correcting, undoable) ==
    [m \in Memories |->
        IF m \in correcting THEN "live"
        ELSE IF rowOf[m] = "forgotten" /\ m \notin undoable THEN "gone"
        ELSE rowOf[m]]

Linked(replacementOf, correcting) ==
    [m \in Memories |-> IF m \in correcting THEN None ELSE replacementOf[m]]

\* The refinement mapping, of the rows and of what the requests in progress will do.
LEMMA BookIsShown ==
    /\ bookState = Shown(store, Correcting, Undoable)
    /\ bookState' = Shown(store', Correcting', Undoable')
    /\ bookReplacedBy = Linked(replacement, Correcting)
    /\ bookReplacedBy' = Linked(replacement', Correcting')
BY DEF bookState, bookReplacedBy, Shown, Linked, Correcting, Undoable

\* A step that leaves the store alone lets at most some undo windows lapse.
LEMMA LapseStep ==
    ASSUME store' = store, replacement' = replacement, Correcting' = Correcting,
           \A m \in Memories : store[m] = "forgotten" /\ m \in Undoable' => m \in Undoable
    PROVE  Book!Lapse
<1> DEFINE closed == {m \in Memories : /\ bookState[m] = "forgotten"
                                       /\ m \notin Correcting
                                       /\ m \notin Undoable'}
<1>1. closed \in SUBSET {m \in Memories : bookState[m] = "forgotten"}
  OBVIOUS
<1>2. bookState' = [m \in Memories |-> IF m \in closed THEN "gone" ELSE bookState[m]]
  BY BookIsShown DEF Shown
<1>3. bookReplacedBy' = bookReplacedBy
  BY BookIsShown DEF Linked
<1> QED
  BY <1>1, <1>2, <1>3 DEF Book!Lapse

\* The row of a memory that is being corrected says so.
LEMMA CorrectingRows ==
    TypeOK /\ ArgsOK /\ RowsInStep => \A m \in Correcting : store[m] = "corrected"
BY DEF Correcting, BeingCorrected, RowsInStep, RequestRows

\* A save is one Remember, when its row is stored.
LEMMA SavePromised ==
    ASSUME TypeOK, ArgsOK, UndoRows, RowsInStep, Undisturbed, Undisturbed',
           NEW h \in Handlers, Save(h)
    PROVE  [Book!PromiseNext]_(Book!promiseVars)
<1> USE DEF TypeOK, Goto
<1>0. \A g \in Handlers \ {h} :
         /\ pc'[g] = pc[g] /\ arg'[g] = arg[g] /\ new'[g] = new[g]
         /\ uid'[g] = uid[g] /\ ts'[g] = ts[g]
         /\ arg[g] \in Memories => arg[g] \notin {arg[h], new[h], arg'[h], new'[h]}
         /\ new[g] \in Memories => new[g] \notin {arg[h], new[h], arg'[h], new'[h]}
  BY OthersApart
<1>1. pc[h] \in {"idle"} \cup SaveSteps /\ pc'[h] \in {"idle"} \cup SaveSteps
      /\ undo' = undo /\ now' = now
  BY DEF Save, SaveBegin, SaveStore, SaveIndex, SaveAudit, SaveSteps, rows
<1>2. Correcting' = Correcting /\ \A m \in Correcting : store[m] = "corrected"
  BY <1>0, <1>1, CorrectingRows DEF Correcting, BeingCorrected, SaveSteps
<1>3. Undoable' = Undoable
  BY <1>0, <1>1 DEF Undoable, CanStillUndo, BeingRestored, SaveSteps
<1>4. CASE SaveStore(h)
  <2>1. arg[h] \in Memories /\ store[arg[h]] = "absent" /\ replacement[arg[h]] = None
    BY <1>4 DEF SaveStore, ArgsOK, UsesArg, SaveSteps, RowsInStep, RequestRows,
                OnlyCorrectedReplaced
  <2>2. /\ store' = [store EXCEPT ![arg[h]] = "live"]
        /\ replacement' = [replacement EXCEPT ![arg[h]] = None]
    BY <1>4 DEF SaveStore, PutStore
  <2>3. Book!Remember(arg[h])
    <3>1. bookState[arg[h]] = "absent"
      BY <1>2, <2>1, BookIsShown DEF Shown
    <3>2. bookState' = [bookState EXCEPT ![arg[h]] = "live"]
      BY <1>2, <1>3, <2>1, <2>2, BookIsShown DEF Shown
    <3>3. bookReplacedBy' = bookReplacedBy
      BY <1>2, <2>1, <2>2, BookIsShown DEF Linked
    <3> QED
      BY <3>1, <3>2, <3>3 DEF Book!Remember
  <2> QED
    BY <2>1, <2>3 DEF Book!PromiseNext
<1>5. CASE ~SaveStore(h)
  <2>1. store' = store /\ replacement' = replacement
    BY <1>5 DEF Save, SaveBegin, SaveIndex, SaveAudit, rows
  <2> QED
    BY <1>2, <1>3, <2>1, LapseStep DEF Book!PromiseNext
<1> QED
  BY <1>4, <1>5

\* A correction is one Replace, when the new row is stored.
LEMMA CorrectPromised ==
    ASSUME TypeOK, ArgsOK, UndoRows, RowsInStep, Undisturbed, Undisturbed',
           NEW h \in Handlers, Correct(h)
    PROVE  [Book!PromiseNext]_(Book!promiseVars)
<1> USE DEF TypeOK, Goto
<1>0. \A g \in Handlers \ {h} :
         /\ pc'[g] = pc[g] /\ arg'[g] = arg[g] /\ new'[g] = new[g]
         /\ uid'[g] = uid[g] /\ ts'[g] = ts[g]
         /\ arg[g] \in Memories => arg[g] \notin {arg[h], new[h], arg'[h], new'[h]}
         /\ new[g] \in Memories => new[g] \notin {arg[h], new[h], arg'[h], new'[h]}
  BY OthersApart
<1>1. pc[h] \in {"idle"} \cup CorrectSteps /\ pc'[h] \in {"idle"} \cup CorrectSteps
      /\ undo' = undo /\ now' = now
  BY DEF Correct, CorrectBegin, CorrectTombStore, CorrectTombIndex, CorrectNewStore,
         CorrectNewIndex, CorrectAudit, CorrectSteps, rows
<1>2. Undoable' = Undoable
  BY <1>0, <1>1 DEF Undoable, CanStillUndo, BeingRestored, CorrectSteps
<1>3. CASE CorrectTombStore(h)
  <2>1. /\ arg[h] \in Memories
        /\ store[arg[h]] = "live"
        /\ replacement[arg[h]] = None
    BY <1>3 DEF CorrectTombStore, ArgsOK, UsesArg, CorrectSteps, RowsInStep, RequestRows,
                OnlyCorrectedReplaced
  <2>2. /\ store' = [store EXCEPT ![arg[h]] = "corrected"]
        /\ replacement' = [replacement EXCEPT ![arg[h]] = new[h]]
    BY <1>3 DEF CorrectTombStore, PutStore
  <2>3. arg[h] \notin Correcting /\ Correcting' = Correcting \cup {arg[h]}
    BY <1>0, <1>3, <2>1, CorrectingRows
       DEF CorrectTombStore, Correcting, BeingCorrected, locals
  <2>4. bookState' = bookState /\ bookReplacedBy' = bookReplacedBy
    BY <1>2, <2>1, <2>2, <2>3, BookIsShown DEF Shown, Linked
  <2> QED
    BY <2>4 DEF Book!promiseVars
<1>4. CASE CorrectNewStore(h)
  <2>1. /\ arg[h] \in Memories /\ new[h] \in Memories /\ arg[h] # new[h]
        /\ store[arg[h]] = "corrected" /\ replacement[arg[h]] = new[h]
        /\ store[new[h]] = "absent" /\ replacement[new[h]] = None
    BY <1>4 DEF CorrectNewStore, ArgsOK, UsesArg, CorrectSteps, RowsInStep, RequestRows,
                OnlyCorrectedReplaced
  <2>2. /\ store' = [store EXCEPT ![new[h]] = "live"]
        /\ replacement' = [replacement EXCEPT ![new[h]] = None]
    BY <1>4 DEF CorrectNewStore, PutStore
  <2>3. /\ arg[h] \in Correcting /\ new[h] \notin Correcting
        /\ Correcting' = Correcting \ {arg[h]}
    BY <1>0, <1>4, <2>1, CorrectingRows DEF CorrectNewStore, Correcting, BeingCorrected
  <2>4. Book!Replace(arg[h], new[h])
    <3>1. bookState[arg[h]] = "live" /\ bookState[new[h]] = "absent"
      BY <2>1, <2>3, BookIsShown DEF Shown
    <3>2. bookState' = [bookState EXCEPT ![arg[h]] = "corrected", ![new[h]] = "live"]
      BY <1>2, <2>1, <2>2, <2>3, BookIsShown DEF Shown
    <3>3. bookReplacedBy' = [bookReplacedBy EXCEPT ![arg[h]] = new[h]]
      BY <2>1, <2>2, <2>3, BookIsShown DEF Linked
    <3> QED
      BY <3>1, <3>2, <3>3 DEF Book!Replace
  <2> QED
    BY <2>1, <2>4 DEF Book!PromiseNext
<1>5. CASE ~CorrectTombStore(h) /\ ~CorrectNewStore(h)
  <2>1. store' = store /\ replacement' = replacement
    BY <1>5 DEF Correct, CorrectBegin, CorrectTombIndex, CorrectNewIndex, CorrectAudit, rows
  <2>2. Correcting' = Correcting
    BY <1>0, <1>5 DEF Correct, CorrectBegin, CorrectTombIndex, CorrectNewIndex,
       CorrectAudit, Clear, locals, Correcting, BeingCorrected
  <2> QED
    BY <1>2, <2>1, <2>2, LapseStep DEF Book!PromiseNext
<1> QED
  BY <1>3, <1>4, <1>5

\* A forget is one Dismiss, when its tombstone is stored.
LEMMA ForgetPromised ==
    ASSUME TypeOK, ArgsOK, UndoRows, RowsInStep, Undisturbed, Undisturbed',
           NEW h \in Handlers, Forget(h)
    PROVE  [Book!PromiseNext]_(Book!promiseVars)
<1> USE DEF TypeOK, Goto
<1>0. \A g \in Handlers \ {h} :
         /\ pc'[g] = pc[g] /\ arg'[g] = arg[g] /\ new'[g] = new[g]
         /\ uid'[g] = uid[g] /\ ts'[g] = ts[g]
         /\ arg[g] \in Memories => arg[g] \notin {arg[h], new[h], arg'[h], new'[h]}
         /\ new[g] \in Memories => new[g] \notin {arg[h], new[h], arg'[h], new'[h]}
  BY OthersApart
<1>1. pc[h] \in {"idle"} \cup ForgetSteps /\ pc'[h] \in {"idle"} \cup ForgetSteps
      /\ now' = now
  BY DEF Forget, ForgetBegin, ForgetRead, ForgetMissing, ForgetUndo, ForgetTombStore,
         ForgetTombIndex, ForgetAudit, ForgetSteps
<1>2. Correcting' = Correcting /\ \A m \in Correcting : store[m] = "corrected"
  BY <1>0, <1>1, CorrectingRows DEF Correcting, BeingCorrected, ForgetSteps
<1>3. CASE ForgetTombStore(h)
  <2>1. /\ arg[h] \in Memories
        /\ store[arg[h]] = "live"
        /\ replacement[arg[h]] = None
    BY <1>3 DEF ForgetTombStore, ArgsOK, UsesArg, ForgetSteps, RowsInStep, RequestRows,
                OnlyCorrectedReplaced
  <2>2. /\ store' = [store EXCEPT ![arg[h]] = "forgotten"]
        /\ replacement' = [replacement EXCEPT ![arg[h]] = None]
        /\ undo' = undo
    BY <1>3 DEF ForgetTombStore, PutStore
  <2>3. Undoable' = Undoable
    BY <1>0, <1>1, <2>2 DEF Undoable, CanStillUndo, BeingRestored, ForgetSteps
  <2>4. Book!Dismiss(arg[h])
    <3> DEFINE result == IF arg[h] \in Undoable THEN "forgotten" ELSE "gone"
    <3>1. bookState[arg[h]] = "live"
      BY <1>2, <2>1, BookIsShown DEF Shown
    <3>2. result \in {"forgotten", "gone"} /\ bookState' = [bookState EXCEPT ![arg[h]] = result]
      BY <1>2, <2>1, <2>2, <2>3, BookIsShown DEF Shown
    <3>3. bookReplacedBy' = bookReplacedBy
      BY <1>2, <2>1, <2>2, BookIsShown DEF Linked
    <3> HIDE DEF result
    <3> QED
      BY <3>1, <3>2, <3>3 DEF Book!Dismiss
  <2> QED
    BY <2>1, <2>4 DEF Book!PromiseNext
<1>4. CASE ForgetUndo(h)
  <2>1. /\ uid[h] \in UndoIds /\ undo[uid[h]] = None /\ store[arg[h]] = "live"
        /\ undo' = [undo EXCEPT ![uid[h]] = UndoRecord(h)]
        /\ store' = store /\ replacement' = replacement
    BY <1>4 DEF ForgetUndo, ArgsOK, ForgetSteps, UndoRows, RowsInStep, RequestRows
  <2>2. UndoRecord(h).mem = arg[h]
    BY DEF UndoRecord
  <2>3. ASSUME NEW m \in Memories, store[m] = "forgotten", m \in Undoable'
        PROVE  m \in Undoable
    BY <1>0, <1>1, <2>1, <2>2, <2>3 DEF Undoable, CanStillUndo, BeingRestored, ForgetSteps
  <2> QED
    BY <1>2, <2>1, <2>3, LapseStep DEF Book!PromiseNext
<1>5. CASE ~ForgetTombStore(h) /\ ~ForgetUndo(h)
  <2>1. store' = store /\ replacement' = replacement /\ undo' = undo
    BY <1>5 DEF Forget, ForgetBegin, ForgetRead, ForgetMissing, ForgetTombIndex,
                ForgetAudit, rows
  <2>2. Undoable' = Undoable
    BY <1>0, <1>1, <2>1 DEF Undoable, CanStillUndo, BeingRestored, ForgetSteps
  <2> QED
    BY <1>2, <2>1, <2>2, LapseStep DEF Book!PromiseNext
<1> QED
  BY <1>3, <1>4, <1>5

\* An undo is one Restore, when the original is stored again, and an undo that
\* begins in time is one whose memory could still be undone.
LEMMA UndoPromised ==
    ASSUME TypeOK, ArgsOK, UndoRows, RowsInStep, Undisturbed, Undisturbed',
           NEW h \in Handlers, UndoForget(h)
    PROVE  [Book!PromiseNext]_(Book!promiseVars)
<1> USE DEF TypeOK, Goto
<1>0. \A g \in Handlers \ {h} :
         /\ pc'[g] = pc[g] /\ arg'[g] = arg[g] /\ new'[g] = new[g]
         /\ uid'[g] = uid[g] /\ ts'[g] = ts[g]
         /\ arg[g] \in Memories => arg[g] \notin {arg[h], new[h], arg'[h], new'[h]}
         /\ new[g] \in Memories => new[g] \notin {arg[h], new[h], arg'[h], new'[h]}
  BY OthersApart
<1>1. pc[h] \in {"idle"} \cup UndoSteps /\ pc'[h] \in {"idle"} \cup UndoSteps
      /\ now' = now
  BY DEF UndoForget, UndoBegin, UndoSelect, UndoMissing, UndoExpired, UndoDelete, UndoStore,
         UndoIndex, UndoAudit, UndoSteps
<1>2. Correcting' = Correcting /\ \A m \in Correcting : store[m] = "corrected"
  BY <1>0, <1>1, CorrectingRows DEF Correcting, BeingCorrected, UndoSteps
<1>3. CASE UndoStore(h)
  <2>1. /\ arg[h] \in Memories
        /\ store[arg[h]] = "forgotten"
        /\ replacement[arg[h]] = None
    BY <1>3 DEF UndoStore, ArgsOK, UsesArg, UndoSteps, RowsInStep, RequestRows,
                OnlyCorrectedReplaced
  <2>2. /\ store' = [store EXCEPT ![arg[h]] = "live"]
        /\ replacement' = [replacement EXCEPT ![arg[h]] = None]
        /\ undo' = undo /\ arg' = arg
        /\ pc[h] = "undoStore" /\ pc' = [pc EXCEPT ![h] = "undoIndex"]
    BY <1>3 DEF UndoStore, PutStore, locals
  <2>3. arg[h] \in Undoable
    BY <2>1, <2>2 DEF Undoable, CanStillUndo, BeingRestored
  <2>4. ASSUME NEW m \in Memories \ {arg[h]} PROVE m \in Undoable' <=> m \in Undoable
    BY <1>0, <1>1, <2>2, <2>4 DEF Undoable, CanStillUndo, BeingRestored
  <2>5. Book!Restore(arg[h])
    <3>1. bookState[arg[h]] = "forgotten"
      BY <1>2, <2>1, <2>3, BookIsShown DEF Shown
    <3>2. bookState' = [bookState EXCEPT ![arg[h]] = "live"]
      BY <1>2, <2>1, <2>2, <2>4, BookIsShown DEF Shown
    <3>3. bookReplacedBy' = bookReplacedBy
      BY <1>2, <2>1, <2>2, BookIsShown DEF Linked
    <3> QED
      BY <3>1, <3>2, <3>3 DEF Book!Restore
  <2> QED
    BY <2>1, <2>5 DEF Book!PromiseNext
<1>4. CASE ~UndoStore(h)
  <2>1. store' = store /\ replacement' = replacement
    BY <1>4 DEF UndoForget, UndoBegin, UndoSelect, UndoMissing, UndoExpired, UndoDelete,
                UndoIndex, UndoAudit, rows
  <2>2. ASSUME NEW m \in Memories, store[m] = "forgotten", m \in Undoable'
        PROVE  m \in Undoable
    <3> USE <1>0, <1>1, <2>2 DEF Undoable, CanStillUndo, BeingRestored, Clear, rows, locals
    <3>1. ASSUME NEW u \in UndoIds, UndoBegin(h, u) PROVE m \in Undoable
      BY <3>1 DEF UndoBegin
    <3>2. CASE UndoSelect(h)
      <4>1. undo[uid[h]].expires > ts[h] /\ undo[uid[h]].mem = arg'[h]
        BY <3>2, <1>0 DEF UndoSelect, Lapsed, UndoRow, ArgsOK, UndoSteps
      <4> QED
        BY <3>2, <4>1 DEF UndoSelect
    <3>3. CASE UndoMissing(h)
      BY <3>3 DEF UndoMissing
    <3>4. CASE UndoExpired(h)
      BY <3>4 DEF UndoExpired
    <3>5. CASE UndoDelete(h)
      BY <3>5 DEF UndoDelete, PopUndo
    <3>6. CASE UndoIndex(h)
      BY <3>6 DEF UndoIndex
    <3>7. CASE UndoAudit(h)
      BY <3>7 DEF UndoAudit
    <3> QED
      BY <1>4, <3>1, <3>2, <3>3, <3>4, <3>5, <3>6, <3>7, UndoForget(h) DEF UndoForget
  <2> QED
    BY <1>2, <2>1, <2>2, LapseStep DEF Book!PromiseNext
<1> QED
  BY <1>3, <1>4

\* A step that moves no request that writes, but perhaps the clock, or ends one that has
\* only begun to look at its undo row.
LEMMA QuietPromised ==
    ASSUME TypeOK, rows' = rows, now' \in Nat, now <= now',
           \A g \in Handlers :
              \/ pc'[g] = pc[g] /\ arg'[g] = arg[g] /\ uid'[g] = uid[g] /\ ts'[g] = ts[g]
              \/ pc[g] \in {"idle", "fetch", "undoSelect"} /\ pc'[g] \in {"idle", "fetch"}
    PROVE  Book!PromiseNext
<1>1. store' = store /\ replacement' = replacement /\ undo' = undo
  BY DEF rows
<1>2. Correcting' = Correcting
  BY DEF Correcting, BeingCorrected
<1>3. ASSUME NEW m \in Memories, m \in Undoable' PROVE m \in Undoable
  <2>1. CASE BeingRestored(m)'
    BY <1>1, <2>1 DEF BeingRestored, Undoable, CanStillUndo
  <2>2. ASSUME NEW u \in UndoIds, undo[u] # None, undo[u].mem = m, undo[u].expires > now'
        PROVE  m \in Undoable
    <3>1. undo[u].expires > now
      BY <2>2 DEF TypeOK, UndoRow
    <3> QED
      BY <2>2, <3>1 DEF Undoable, CanStillUndo
  <2> QED
    BY <1>1, <1>3, <2>1, <2>2 DEF Undoable, CanStillUndo
<1> QED
  BY <1>1, <1>2, <1>3, LapseStep DEF Book!PromiseNext

\* Every step of the service is a step of MemoryBook or changes nothing it shows.
LEMMA PromisedStep ==
    IInv /\ RowsInStep /\ Undisturbed /\ Undisturbed' /\ [Next]_vars
        => [Book!PromiseNext]_(Book!promiseVars)
<1> SUFFICES ASSUME IInv, RowsInStep, Undisturbed, Undisturbed', [Next]_vars
             PROVE  [Book!PromiseNext]_(Book!promiseVars)
  OBVIOUS
<1>0. TypeOK /\ ArgsOK /\ UndoRows
  BY DEF IInv
<1>1. ASSUME NEW h \in Handlers, Save(h) \/ Correct(h) \/ Forget(h) \/ UndoForget(h)
      PROVE  [Book!PromiseNext]_(Book!promiseVars)
  BY <1>0, <1>1, SavePromised, CorrectPromised, ForgetPromised, UndoPromised
<1>2. ASSUME NEW h \in Handlers, Read(h) PROVE Book!PromiseNext
  <2>1. /\ rows' = rows /\ now' = now /\ UNCHANGED locals
        /\ pc[h] \in {"idle", "fetch"} /\ pc'[h] \in {"idle", "fetch"}
        /\ \A g \in Handlers \ {h} : pc'[g] = pc[g]
    BY <1>0, <1>2 DEF TypeOK, Read, SearchBegin, ListBegin, StartRead, FetchNext,
                      ReadReply, Goto
  <2> QED
    BY <1>0, <2>1, QuietPromised DEF locals, TypeOK
<1>3. CASE ServerCrash \/ \E h \in Handlers : HandlerFails(h)
  <2>1. now' = now
    BY <1>3 DEF ServerCrash, HandlerFails
  <2> QED
    BY <1>0, <1>3, <2>1, HarmlessFailure, QuietPromised DEF TypeOK
<1>4. CASE Tick
  BY <1>0, <1>4, QuietPromised DEF Tick, locals, TypeOK
<1>5. CASE UNCHANGED vars
  BY <1>0, <1>5, QuietPromised DEF vars, locals, TypeOK
<1> QED
  BY <1>1, <1>2, <1>3, <1>4, <1>5 DEF Next

\* save, correct, forget and undo_forget, each in its transactions, implement the
\* atomic promise of MemoryBook, whatever reads overlap them and whatever the clock
\* does, as long as overlapping requests are about different memories and none of
\* them fails half-way.
THEOREM ApartKeepsPromise == Spec /\ []Undisturbed => KeepsPromise
<1>1. Init => Book!PromiseInit
  BY DEF Init, Book!PromiseInit, bookState, bookReplacedBy, BeingCorrected
<1> QED
  BY <1>1, PromisedStep, Inductive, ApartInductive, PTL DEF Spec, KeepsPromise, Book!Promise

\* One request thread that never fails is undisturbed.
LEMMA OneThread ==
    ASSUME NEW t, Handlers = {t}, MaxFaults = 0
    PROVE  Spec => []Undisturbed
<1>1. Init => Undisturbed
  BY DEF Init, Undisturbed
<1>2. IInv /\ Undisturbed /\ [Next]_vars => Undisturbed'
  <2> SUFFICES ASSUME IInv, Undisturbed, [Next]_vars PROVE hurt' = {}
    BY DEF Undisturbed
  <2>1. ~(faults < MaxFaults)
    BY DEF IInv, TypeOK
  <2>2. UNCHANGED hurt
    BY <2>1 DEF Next, vars, failures, Tick, ServerCrash, HandlerFails,
       Save, SaveBegin, SaveStore, SaveIndex, SaveAudit, Correct,
       CorrectBegin, CorrectTombStore, CorrectTombIndex, CorrectNewStore,
       CorrectNewIndex, CorrectAudit, Read, SearchBegin, ListBegin,
       StartRead, FetchNext, ReadReply,
       Forget, ForgetBegin, ForgetRead, ForgetMissing, ForgetUndo, ForgetTombStore,
       ForgetTombIndex, ForgetAudit, UndoForget, UndoBegin, UndoSelect, UndoMissing,
       UndoExpired, UndoDelete, UndoStore, UndoIndex, UndoAudit
  <2> QED
    BY <2>2 DEF Undisturbed
<1> QED
  BY <1>1, <1>2, Inductive, PTL DEF Spec


\* The service with one request thread that never fails: the index agrees with the
\* store and undo rows with forgotten memories between requests, undo restores
\* nothing but forgotten memories, and the promise of MemoryBook is kept.
THEOREM SequentialService ==
    ASSUME NEW t, Handlers = {t}, MaxFaults = 0
    PROVE  Spec => /\ []IndexAgreesAtRest
                   /\ []PendingUndoMeansForgotten
                   /\ UndoRestoresOnlyForgotten
                   /\ KeepsPromise
BY OneThread, ApartIndexAgrees, ApartPendingUndo, ApartUndoRestores,
   ApartKeepsPromise, PTL
=============================================================================
