-------------------------- MODULE SelfLessons_proofs --------------------------
(***************************************************************************)
(* The properties of SelfLessons for any topics, any number of lessons and *)
(* failures, and any review window.                                        *)
(***************************************************************************)
EXTENDS SelfLessons, TLAPS

\* The audit trail accounts for a row of this status.
Accounted(id, status) ==
    status = "candidate" \/ [target |-> id, action |-> CauseOf(status)] \in audit

\* The row that a decided request is about to store in place of the one it read.
Update(id, row) ==
    /\ id \in Ids /\ row \in Lessons /\ rows[id] # None
    /\ row.body = rows[id].body /\ row.origin = rows[id].origin
    /\ row.status # "candidate"
    /\ row.validated # None => row.validated <= today + 1
    /\ rows[id].status \in Withdrawn => row.status \in Withdrawn
    /\ row.status = "active" =>
        /\ confirmed[row.body] # None /\ row.validated # None
        /\ row.validated <= confirmed[row.body] + 1

\* A content that nobody has stored yet.
Fresh(id, row) ==
    /\ id \in Ids /\ row \in Lessons
    /\ row.status = "candidate" /\ row.validated = None /\ row.body <= written
    /\ row.body \notin withdrawn /\ row.origin # row.body
    /\ row.origin # None => row.origin <= written
    /\ \A i \in Ids : rows[i] # None =>
            rows[i].body # row.body /\ rows[i].origin # row.body

OriginWithdrawn(row) ==
    \A i \in Ids : rows[i] # None /\ rows[i].body = row.origin =>
        rows[i].status \in Withdrawn

\* What the request in hand can have left to write.
Denied == todo = <<EventWrite(Denial)>>
UpdateToAudit ==
    \E id \in Ids, row \in Lessons, event \in Events :
        /\ Update(id, row)
        /\ Accounted(id, row.status)
           \/ event = [target |-> id, action |-> CauseOf(row.status)]
        /\ todo = <<EventWrite(event), RowWrite(id, row)>>
UpdateToStore ==
    \E id \in Ids, row \in Lessons :
        /\ Update(id, row) /\ Accounted(id, row.status)
        /\ todo = <<RowWrite(id, row)>>
FreshToStore ==
    \E id \in Ids, row \in Lessons :
        /\ Fresh(id, row) /\ OriginWithdrawn(row)
        /\ todo = <<RowWrite(id, row)>>
CorrectionToAudit ==
    \E id, jd \in Ids, row, new \in Lessons :
        /\ Update(id, row) /\ row.status = "superseded"
        /\ Fresh(jd, new) /\ new.origin = row.body
        /\ todo = <<EventWrite([target |-> id, action |-> "correct"]),
                    RowWrite(id, row), RowWrite(jd, new)>>
CorrectionToStore ==
    \E id, jd \in Ids, row, new \in Lessons :
        /\ Update(id, row) /\ row.status = "superseded"
        /\ Accounted(id, "superseded")
        /\ Fresh(jd, new) /\ new.origin = row.body
        /\ todo = <<RowWrite(id, row), RowWrite(jd, new)>>

Pending ==
    \/ todo = <<>>
    \/ Denied
    \/ UpdateToAudit \/ UpdateToStore
    \/ FreshToStore
    \/ CorrectionToAudit \/ CorrectionToStore

\* The values of the variables, but for todo, which Pending describes.
Values ==
    /\ rows \in [Ids -> Lessons \union {None}]
    /\ audit \in SUBSET Events
    /\ now \in 0 .. LastSecond
    /\ today \in Nat
    /\ local \in Nat /\ local \in today - 1 .. today + 1
    /\ written \in 0 .. MaxLessons
    /\ failures \in 0 .. MaxFailures
    /\ withdrawn \in SUBSET Bodies
    /\ confirmed \in [Bodies -> Nat \union {None}]

\* Contents are stored once, under numbers that have been given out.
Numbered ==
    /\ \A body \in withdrawn : body <= written
    /\ \A i \in Ids : rows[i] # None =>
        /\ rows[i].body <= written
        /\ rows[i].origin # None => rows[i].origin <= written
        /\ rows[i].origin # rows[i].body
    /\ \A i, j \in Ids :
        rows[i] # None /\ rows[j] # None /\ rows[i].body = rows[j].body => i = j

\* What is known of a stored row.
RowsKnown ==
    \A i \in Ids : rows[i] # None =>
        /\ rows[i].body \in withdrawn => rows[i].status \in Withdrawn
        /\ Accounted(i, rows[i].status)
        /\ rows[i].status = "active" =>
            /\ confirmed[rows[i].body] # None /\ rows[i].validated # None
            /\ rows[i].validated <= confirmed[rows[i].body] + 1

\* No word of the user is of a day to come, and no validation of more than one.
PastOnly ==
    /\ \A body \in Bodies : confirmed[body] # None => confirmed[body] <= today
    /\ \A i \in Ids : rows[i] # None /\ rows[i].validated # None =>
            rows[i].validated <= today + 1

Inv == Values /\ Numbered /\ RowsKnown /\ PastOnly /\ ReplacedIsWithdrawn /\ Pending

-----------------------------------------------------------------------------
(* Each step preserves the invariant *)

LEMMA InitInv == Init => Inv
  BY LessonsAssumption
  DEF Init, Inv, Values, Numbered, RowsKnown, PastOnly, ReplacedIsWithdrawn,
      Pending, Stored, Bodies, Events

\* The facts about stored rows do not depend on what is still to write.
LEMMA KeepsRows ==
  ASSUME Inv, UNCHANGED <<rows, audit, now, today, local, failures, withdrawn>>,
         written' \in 0 .. MaxLessons, written <= written',
         confirmed' \in [Bodies -> Nat \union {None}],
         \A body \in Bodies : confirmed'[body] = confirmed[body] \/ confirmed'[body] = today
  PROVE  Values' /\ Numbered' /\ RowsKnown' /\ PastOnly' /\ ReplacedIsWithdrawn'
<1>1. Values' /\ Numbered' /\ ReplacedIsWithdrawn'
  BY LessonsAssumption
  DEF Inv, Values, Numbered, ReplacedIsWithdrawn, Stored, Bodies, Lessons
<1>2. PastOnly'
  BY LessonsAssumption DEF Inv, Values, PastOnly
<1>3. RowsKnown'
  <2> SUFFICES ASSUME NEW i \in Ids, rows[i] # None
               PROVE  /\ rows[i].body \in withdrawn => rows[i].status \in Withdrawn
                      /\ Accounted(i, rows[i].status)'
                      /\ rows[i].status = "active" =>
                          /\ confirmed'[rows[i].body] # None /\ rows[i].validated # None
                          /\ rows[i].validated <= confirmed'[rows[i].body] + 1
    BY DEF RowsKnown
  <2>1. rows[i] \in Lessons /\ rows[i].body \in Bodies
    BY DEF Inv, Values, Lessons
  <2>2. rows[i].validated # None => rows[i].validated <= today + 1
    BY DEF Inv, PastOnly
  <2> QED BY <2>1, <2>2, LessonsAssumption DEF Inv, Values, RowsKnown, Accounted
<1> QED BY <1>1, <1>2, <1>3

\* A new number is that of a content nobody has stored, or withdrawn.
LEMMA NewIsFresh ==
  ASSUME Inv, NEW id \in Ids, NEW row \in Lessons,
         UNCHANGED <<rows, withdrawn>>, written \in Nat, written' = written + 1,
         row.status = "candidate", row.validated = None, row.body = written + 1,
         row.origin # None => row.origin <= written
  PROVE  Fresh(id, row)'
<1>1. row.body \notin withdrawn /\ row.body <= written' /\ row.origin # row.body
  BY LessonsAssumption DEF Inv, Numbered, Values, Bodies, Lessons
<1>2. row.origin # None => row.origin <= written'
  BY DEF Lessons, Bodies
<1>3. ASSUME NEW i \in Ids, rows[i] # None
      PROVE  rows[i].body # row.body /\ rows[i].origin # row.body
  <2>1. rows[i] \in Lessons
    BY <1>3 DEF Inv, Values
  <2> QED BY <1>3, <2>1, LessonsAssumption DEF Inv, Numbered, Lessons, Bodies
<1> QED BY <1>1, <1>2, <1>3 DEF Fresh

\* propose has its rows and events still to write.
LEMMA ProposeInv ==
  ASSUME Inv, NEW topic \in Topics, NEW scoped \in BOOLEAN, NEW sure \in BOOLEAN,
         Propose(topic, scoped, sure)
  PROVE  Inv'
<1>1. /\ written \in Nat /\ MaxLessons \in Nat
      /\ written' = written + 1 /\ written' \in 0 .. MaxLessons
  BY LessonsAssumption DEF Inv, Values, Propose
<1>2. PICK id \in Ids, row \in Lessons :
            id = <<topic, now>> /\ row = Candidate(written + 1, scoped, sure, None)
  <2>1. <<topic, now>> \in Ids
    BY DEF Ids, Inv, Values
  <2>2. Candidate(written + 1, scoped, sure, None) \in Lessons
    BY <1>1 DEF Candidate, Lessons, Bodies, Statuses
  <2> QED BY <2>1, <2>2
<1>3. todo' = <<RowWrite(id, row)>>
      /\ UNCHANGED <<rows, audit, now, today, local, failures, withdrawn, confirmed>>
  BY <1>2 DEF Propose, Request
<1>4. Values' /\ Numbered' /\ RowsKnown' /\ PastOnly' /\ ReplacedIsWithdrawn'
  BY <1>1, <1>3, KeepsRows DEF Inv, Values
<1>5. Fresh(id, row)'
  BY <1>1, <1>2, <1>3, NewIsFresh DEF Candidate, Inv, Values
<1>6. OriginWithdrawn(row)'
  BY <1>2, <1>3, LessonsAssumption DEF OriginWithdrawn, Candidate, Inv, Values, Lessons, Bodies
<1>7. Pending'
  BY <1>3, <1>5, <1>6 DEF Pending, FreshToStore
<1> QED BY <1>4, <1>7 DEF Inv

\* A denied decision leaves the audit event only.
LEMMA DeniedInv ==
  ASSUME Inv, todo' = <<EventWrite(Denial)>>,
         UNCHANGED <<rows, audit, now, today, local, failures, withdrawn, written, confirmed>>
  PROVE  Inv'
<1>1. Values' /\ Numbered' /\ RowsKnown' /\ PastOnly' /\ ReplacedIsWithdrawn'
  BY KeepsRows, LessonsAssumption DEF Inv, Values
<1> QED BY <1>1 DEF Inv, Pending, Denied

\* An allowed decision on one row leaves the event and the row.
LEMMA UpdateInv ==
  ASSUME Inv, NEW id \in Ids, rows[id] # None, NEW row \in Lessons, NEW action \in Actions,
         todo' = AuditedWrites(id, action, row),
         UNCHANGED <<rows, audit, now, today, local, failures, withdrawn, written>>,
         \/ confirmed' = confirmed
         \/ confirmed' = [confirmed EXCEPT ![rows[id].body] = today],
         Update(id, row)',
         Accounted(id, row.status) \/ action = CauseOf(row.status)
  PROVE  Inv'
<1>1. rows[id].body \in Bodies /\ today \in Nat
  BY DEF Inv, Values, Lessons
<1>2. /\ confirmed' \in [Bodies -> Nat \union {None}]
      /\ \A body \in Bodies : confirmed'[body] = confirmed[body] \/ confirmed'[body] = today
  BY <1>1 DEF Inv, Values
<1>3. Values' /\ Numbered' /\ RowsKnown' /\ PastOnly' /\ ReplacedIsWithdrawn'
  BY <1>2, KeepsRows, LessonsAssumption DEF Inv, Values
<1>4. UpdateToAudit'
  <2> DEFINE event == [target |-> id, action |-> action]
  <2>1. event \in Events
    BY DEF Events
  <2>2. todo' = <<EventWrite(event), RowWrite(id, row)>>
    BY DEF AuditedWrites
  <2>3. Accounted(id, row.status)'
        \/ event = [target |-> id, action |-> CauseOf(row.status)]
    BY DEF Accounted
  <2> HIDE DEF event
  <2> QED BY <2>1, <2>2, <2>3 DEF UpdateToAudit
<1> QED BY <1>3, <1>4 DEF Inv, Pending

\* promote: as many.
LEMMA PromoteInv ==
  ASSUME Inv, NEW id \in Ids, NEW confirms \in BOOLEAN, Promote(id, confirms)
  PROVE  Inv'
<1>1. rows[id] # None /\ rows[id] \in Lessons /\ rows[id].body \in Bodies /\ today \in Nat
  BY DEF Promote, Stored, Inv, Values, Lessons
<1>2. CASE ~MayPromote(rows[id], confirms)
  BY <1>2, DeniedInv DEF Promote, Request, Decided, Confirm
<1>3. CASE MayPromote(rows[id], confirms)
  <2>1. PICK row \in Lessons : row = Promoted(rows[id])
    BY <1>1 DEF Promoted, Lessons, Statuses, Inv, Values
  <2>2. /\ todo' = AuditedWrites(id, "promote", row)
        /\ confirmed' = [confirmed EXCEPT ![rows[id].body] = today]
        /\ UNCHANGED <<rows, audit, now, today, local, failures, withdrawn, written>>
    BY <1>3, <2>1 DEF Promote, Request, Decided, Confirm, MayPromote
  <2>3. /\ row.body = rows[id].body /\ row.origin = rows[id].origin
        /\ row.status = "active" /\ row.validated = local
        /\ local \in Nat /\ local <= today + 1
    BY <1>1, <2>1 DEF Promoted, Lessons, Inv, Values
  <2>4. confirmed'[row.body] = today
    BY <1>1, <2>2, <2>3 DEF Inv, Values
  <2>5. Update(id, row)'
    BY <1>1, <1>3, <2>1, <2>2, <2>3, <2>4, LessonsAssumption
    DEF Update, MayPromote, Withdrawn
  <2>6. CauseOf(row.status) = "promote"
    BY <2>3 DEF CauseOf
  <2> QED BY <1>1, <2>1, <2>2, <2>5, <2>6, UpdateInv DEF Actions
<1> QED BY <1>2, <1>3

\* rollback.
LEMMA RollBackInv ==
  ASSUME Inv, NEW id \in Ids, NEW called \in BOOLEAN, RollBack(id, called)
  PROVE  Inv'
<1>1. rows[id] # None /\ rows[id] \in Lessons
  BY DEF RollBack, Stored, Inv, Values
<1>2. CASE ~MayRollBack(rows[id], called)
  BY <1>2, DeniedInv DEF RollBack, Request, Decided
<1>3. CASE MayRollBack(rows[id], called)
  <2>1. PICK row \in Lessons : row = RolledBack(rows[id])
    BY <1>1 DEF RolledBack, Lessons, Statuses, Withdrawn
  <2>2. /\ todo' = AuditedWrites(id, "rollback", row)
        /\ UNCHANGED <<rows, audit, now, today, local, failures, withdrawn, written, confirmed>>
    BY <1>3, <2>1 DEF RollBack, Request, Decided
  <2>3. /\ row.body = rows[id].body /\ row.origin = rows[id].origin
        /\ row.status = "revoked" /\ row.validated = rows[id].validated
    BY <1>1, <2>1 DEF RolledBack, Lessons
  <2>4. Update(id, row)'
    BY <1>1, <2>1, <2>2, <2>3 DEF Update, Withdrawn, Inv, PastOnly
  <2>5. CauseOf(row.status) = "rollback"
    BY <2>3 DEF CauseOf
  <2> QED BY <1>1, <2>1, <2>2, <2>4, <2>5, UpdateInv DEF Actions
<1> QED BY <1>2, <1>3

\* delete.
LEMMA DeleteInv ==
  ASSUME Inv, NEW id \in Ids, NEW confirms \in BOOLEAN, Delete(id, confirms)
  PROVE  Inv'
<1>1. rows[id] # None /\ rows[id] \in Lessons
  BY DEF Delete, Stored, Inv, Values
<1>2. CASE ~MayDelete(rows[id], confirms)
  BY <1>2, DeniedInv DEF Delete, Request, Decided
<1>3. CASE MayDelete(rows[id], confirms)
  <2>1. PICK row \in Lessons : row = Deleted(rows[id])
    BY <1>1 DEF Deleted, Lessons, Statuses, Withdrawn
  <2>2. /\ todo' = AuditedWrites(id, "delete", row)
        /\ UNCHANGED <<rows, audit, now, today, local, failures, withdrawn, written, confirmed>>
    BY <1>3, <2>1 DEF Delete, Request, Decided
  <2>3. /\ row.body = rows[id].body /\ row.origin = rows[id].origin
        /\ row.status = "deleted" /\ row.validated = rows[id].validated
    BY <1>1, <2>1 DEF Deleted, Lessons
  <2>4. Update(id, row)'
    BY <1>1, <2>1, <2>2, <2>3 DEF Update, Withdrawn, Inv, PastOnly
  <2>5. CauseOf(row.status) = "delete"
    BY <2>3 DEF CauseOf
  <2> QED BY <1>1, <2>1, <2>2, <2>4, <2>5, UpdateInv DEF Actions
<1> QED BY <1>2, <1>3

\* refresh.
LEMMA RefreshInv ==
  ASSUME Inv, NEW id \in Ids, NEW confirms \in BOOLEAN, Refresh(id, confirms)
  PROVE  Inv'
<1>1. rows[id] # None /\ rows[id] \in Lessons /\ rows[id].body \in Bodies /\ today \in Nat
  BY DEF Refresh, Stored, Inv, Values, Lessons
<1>2. CASE ~MayRefresh(rows[id], confirms)
  BY <1>2, DeniedInv DEF Refresh, Request, Decided, Confirm
<1>3. CASE MayRefresh(rows[id], confirms)
  <2>1. PICK row \in Lessons : row = Refreshed(rows[id])
    BY <1>1 DEF Refreshed, Lessons
  <2>2. /\ todo' = AuditedWrites(id, "refresh", row)
        /\ confirmed' = [confirmed EXCEPT ![rows[id].body] = today]
        /\ UNCHANGED <<rows, audit, now, today, local, failures, withdrawn, written>>
    BY <1>3, <2>1 DEF Refresh, Request, Decided, Confirm, MayRefresh
  <2>3. /\ row.body = rows[id].body /\ row.origin = rows[id].origin
        /\ row.status = rows[id].status /\ row.status = "active" /\ row.validated = today
    BY <1>1, <1>3, <2>1 DEF Refreshed, Lessons, MayRefresh
  <2>4. confirmed'[row.body] = today
    BY <1>1, <2>2, <2>3 DEF Inv, Values
  <2>5. Update(id, row)'
    BY <1>1, <2>1, <2>2, <2>3, <2>4, LessonsAssumption DEF Update, Withdrawn
  <2>6. Accounted(id, row.status)
    BY <1>1, <2>3 DEF Inv, RowsKnown
  <2> QED BY <1>1, <2>1, <2>2, <2>5, <2>6, UpdateInv DEF Actions
<1> QED BY <1>2, <1>3

\* correct, with two rows to write.
LEMMA CorrectInv ==
  ASSUME Inv, NEW id \in Ids, NEW topic \in Topics, NEW harmful \in BOOLEAN,
         Correct(id, topic, harmful)
  PROVE  Inv'
<1>1. /\ rows[id] # None /\ rows[id] \in Lessons /\ rows[id].body \in Bodies
      /\ written \in Nat /\ MaxLessons \in Nat /\ written < MaxLessons
  BY LessonsAssumption DEF Correct, Stored, Inv, Values, Lessons
<1>2. CASE ~MayCorrect(rows[id], harmful)
  BY <1>2, DeniedInv DEF Correct, Request, Decided
<1>3. CASE MayCorrect(rows[id], harmful)
  <2>1. PICK row \in Lessons : row = Superseded(rows[id])
    BY <1>1 DEF Superseded, Lessons, Statuses, Withdrawn
  <2>2. PICK jd \in Ids : jd = <<topic, now>>
    BY DEF Ids, Inv, Values
  <2>3. PICK new \in Lessons : new = Replacement(rows[id])
    <3>1. rows[id].scoped \in BOOLEAN /\ written + 1 \in Bodies
      BY <1>1 DEF Lessons, Bodies
    <3> QED BY <1>1, <3>1 DEF Replacement, Candidate, Lessons, Statuses
  <2>4. /\ todo' = <<EventWrite([target |-> id, action |-> "correct"]),
                     RowWrite(id, row), RowWrite(jd, new)>>
        /\ written' = written + 1
        /\ UNCHANGED <<rows, audit, now, today, local, failures, withdrawn, confirmed>>
    BY <1>3, <2>1, <2>2, <2>3 DEF Correct, Request, Decided, CorrectionWrites
  <2>5. Values' /\ Numbered' /\ RowsKnown' /\ PastOnly' /\ ReplacedIsWithdrawn'
    BY <1>1, <2>4, KeepsRows DEF Inv, Values
  <2>6. /\ row.body = rows[id].body /\ row.origin = rows[id].origin
        /\ row.status = "superseded" /\ row.validated = rows[id].validated
    BY <1>1, <2>1 DEF Superseded, Lessons
  <2>7. Update(id, row)'
    BY <1>1, <2>4, <2>6 DEF Update, Withdrawn, Inv, PastOnly
  <2>8. /\ new.status = "candidate" /\ new.validated = None /\ new.body = written + 1
        /\ new.origin = rows[id].body /\ rows[id].body <= written
    BY <1>1, <2>3 DEF Replacement, Candidate, Inv, Numbered
  <2>9. Fresh(jd, new)'
    BY <1>1, <2>4, <2>8, NewIsFresh
  <2>10. CorrectionToAudit'
    BY <2>4, <2>6, <2>7, <2>8, <2>9 DEF CorrectionToAudit
  <2> QED BY <2>5, <2>10 DEF Inv, Pending
<1> QED BY <1>2, <1>3

\* Recording an event takes nothing from what is known.
LEMMA EventKeepsRows ==
  ASSUME Inv, NEW event \in Events \union {Denial},
         audit' = audit \union ({event} \ {Denial}),
         UNCHANGED <<rows, now, today, local, written, failures, withdrawn, confirmed>>
  PROVE  Values' /\ Numbered' /\ RowsKnown' /\ PastOnly' /\ ReplacedIsWithdrawn'
<1>1. Values'
  BY DEF Inv, Values
<1>2. Numbered' /\ PastOnly' /\ ReplacedIsWithdrawn'
  BY DEF Inv, Numbered, PastOnly, ReplacedIsWithdrawn, Stored
<1>3. RowsKnown'
  BY DEF Inv, RowsKnown, Accounted
<1> QED BY <1>1, <1>2, <1>3

\* An event is committed.
LEMMA WriteEventInv == ASSUME Inv, WriteEvent PROVE Inv'
<1>1. PICK event : event = Head(todo).event /\ event # None
  BY DEF WriteEvent
<1>2. /\ audit' = audit \union ({event} \ {Denial}) /\ todo' = Tail(todo) /\ todo # <<>>
      /\ UNCHANGED <<rows, now, today, local, written, failures, withdrawn, confirmed>>
  BY <1>1 DEF WriteEvent
<1>3. CASE Denied
  <2>1. event = Denial /\ todo' = <<>>
    BY <1>1, <1>2, <1>3 DEF Denied, EventWrite
  <2> QED BY <1>2, <2>1, EventKeepsRows DEF Inv, Pending
<1>4. CASE UpdateToAudit
  <2>1. PICK id \in Ids, row \in Lessons, cause \in Events :
            /\ Update(id, row)
            /\ Accounted(id, row.status)
               \/ cause = [target |-> id, action |-> CauseOf(row.status)]
            /\ todo = <<EventWrite(cause), RowWrite(id, row)>>
    BY <1>4 DEF UpdateToAudit
  <2>2. event = cause /\ todo' = <<RowWrite(id, row)>>
    BY <1>1, <1>2, <2>1 DEF EventWrite
  <2>3. Update(id, row)'
    BY <1>2, <2>1 DEF Update
  <2>4. Accounted(id, row.status)'
    BY <1>2, <2>1, <2>2, EventsAssumption DEF Accounted
  <2>5. UpdateToStore'
    BY <2>2, <2>3, <2>4 DEF UpdateToStore
  <2> QED BY <1>2, <2>1, <2>2, <2>5, EventKeepsRows DEF Inv, Pending
<1>5. CASE CorrectionToAudit
  <2>1. PICK id \in Ids, jd \in Ids, row \in Lessons, new \in Lessons :
            /\ Update(id, row) /\ row.status = "superseded"
            /\ Fresh(jd, new) /\ new.origin = row.body
            /\ todo = <<EventWrite([target |-> id, action |-> "correct"]),
                        RowWrite(id, row), RowWrite(jd, new)>>
    BY <1>5 DEF CorrectionToAudit
  <2>2. event = [target |-> id, action |-> "correct"]
        /\ todo' = <<RowWrite(id, row), RowWrite(jd, new)>>
    BY <1>1, <1>2, <2>1 DEF EventWrite
  <2>3. Update(id, row)' /\ Fresh(jd, new)'
    BY <1>2, <2>1 DEF Update, Fresh
  <2>4. event \in Events
    BY <2>2 DEF Events, Actions
  <2>5. Accounted(id, "superseded")'
    BY <1>2, <2>2, <2>4, EventsAssumption DEF Accounted, CauseOf
  <2>6. CorrectionToStore'
    BY <2>1, <2>2, <2>3, <2>5 DEF CorrectionToStore
  <2> QED BY <1>2, <2>4, <2>6, EventKeepsRows DEF Inv, Pending
<1>6. CASE UpdateToStore
  BY <1>1, <1>6 DEF UpdateToStore, RowWrite
<1>7. CASE FreshToStore
  BY <1>1, <1>7 DEF FreshToStore, RowWrite
<1>8. CASE CorrectionToStore
  BY <1>1, <1>8 DEF CorrectionToStore, RowWrite
<1> QED BY <1>2, <1>3, <1>4, <1>5, <1>6, <1>7, <1>8 DEF Inv, Pending

-----------------------------------------------------------------------------
(* Storing a row *)

\* An update keeps the number of the row it replaces.
LEMMA StoreUpdate ==
  ASSUME Inv, NEW id \in Ids, NEW row \in Lessons, Update(id, row),
         Accounted(id, row.status),
         rows' = [rows EXCEPT ![id] = row],
         withdrawn' = IF row.status \in Withdrawn
                      THEN withdrawn \union {row.body} ELSE withdrawn,
         UNCHANGED <<audit, now, today, local, written, failures, confirmed>>
  PROVE  Values' /\ Numbered' /\ RowsKnown' /\ PastOnly' /\ ReplacedIsWithdrawn'
<1>1. rows[id] \in Lessons /\ row.body \in Bodies /\ row.body <= written
  BY DEF Inv, Values, Numbered, Update, Lessons
<1>2. \A i \in Ids : rows'[i] = IF i = id THEN row ELSE rows[i]
  BY DEF Inv, Values
<1>3. Values'
  BY <1>1 DEF Inv, Values
<1>4. Numbered'
  BY <1>1, <1>2 DEF Inv, Numbered, Update
<1>5. PastOnly'
  BY <1>2 DEF Inv, PastOnly, Update
<1>6. RowsKnown'
  <2> SUFFICES ASSUME NEW i \in Ids, rows'[i] # None
               PROVE  /\ rows'[i].body \in withdrawn' => rows'[i].status \in Withdrawn
                      /\ Accounted(i, rows'[i].status)
                      /\ rows'[i].status = "active" =>
                          /\ confirmed[rows'[i].body] # None /\ rows'[i].validated # None
                          /\ rows'[i].validated <= confirmed[rows'[i].body] + 1
    BY DEF RowsKnown, Accounted
  <2>1. CASE i = id
    BY <1>1, <1>2, <2>1 DEF Inv, RowsKnown, Update
  <2>2. CASE i # id
    <3>1. rows'[i] = rows[i] /\ rows[i].body # row.body
      BY <1>2, <2>2 DEF Inv, Numbered, Update
    <3> QED BY <3>1 DEF Inv, RowsKnown
  <2> QED BY <2>1, <2>2
<1>7. ReplacedIsWithdrawn'
  <2> SUFFICES ASSUME NEW i \in Ids, NEW j \in Ids, rows'[i] # None, rows'[j] # None,
                      rows'[j].origin = rows'[i].body
               PROVE  rows'[i].status \in Withdrawn
    BY DEF ReplacedIsWithdrawn, Stored
  <2>1. rows[i] # None /\ rows[j] # None /\ rows[j].origin = rows[i].body
    BY <1>2 DEF Update
  <2>2. rows[i].status \in Withdrawn
    BY <2>1 DEF Inv, ReplacedIsWithdrawn, Stored
  <2> QED BY <1>2, <2>2 DEF Update
<1> QED BY <1>3, <1>4, <1>5, <1>6, <1>7

\* A new content comes under a number of its own, whatever row it replaces.
LEMMA StoreFresh ==
  ASSUME Inv, NEW id \in Ids, NEW row \in Lessons, Fresh(id, row), OriginWithdrawn(row),
         rows' = [rows EXCEPT ![id] = row],
         withdrawn' = withdrawn,
         UNCHANGED <<audit, now, today, local, written, failures, confirmed>>
  PROVE  Values' /\ Numbered' /\ RowsKnown' /\ PastOnly' /\ ReplacedIsWithdrawn'
<1>2. \A i \in Ids : rows'[i] = IF i = id THEN row ELSE rows[i]
  BY DEF Inv, Values
<1>3. Values'
  BY DEF Inv, Values
<1>4. Numbered'
  BY <1>2 DEF Inv, Numbered, Fresh
<1>5. PastOnly'
  BY <1>2 DEF Inv, PastOnly, Fresh
<1>6. RowsKnown'
  BY <1>2 DEF Inv, RowsKnown, Fresh, Accounted
<1>7. ReplacedIsWithdrawn'
  <2> SUFFICES ASSUME NEW i \in Ids, NEW j \in Ids, rows'[i] # None, rows'[j] # None,
                      rows'[j].origin = rows'[i].body
               PROVE  rows'[i].status \in Withdrawn
    BY DEF ReplacedIsWithdrawn, Stored
  <2>1. i # id
    BY <1>2 DEF Fresh
  <2>2. CASE j = id
    BY <1>2, <2>1, <2>2 DEF OriginWithdrawn
  <2>3. CASE j # id
    BY <1>2, <2>1, <2>3 DEF Inv, ReplacedIsWithdrawn, Stored
  <2> QED BY <2>2, <2>3
<1> QED BY <1>3, <1>4, <1>5, <1>6, <1>7

\* A row is committed, and takes effect.
LEMMA WriteRowInv == ASSUME Inv, WriteRow PROVE Inv'
<1>1. todo # <<>> /\ Head(todo).event = None /\ todo' = Tail(todo)
      /\ UNCHANGED <<audit, now, today, local, written, failures, confirmed>>
  BY DEF WriteRow
<1>2. CASE Denied
  BY <1>1, <1>2, LessonsAssumption DEF Denied, EventWrite
<1>3. CASE UpdateToAudit
  BY <1>1, <1>3, EventsAssumption DEF UpdateToAudit, EventWrite
<1>4. CASE CorrectionToAudit
  <2>1. \A id \in Ids : [target |-> id, action |-> "correct"] \in Events
    BY DEF Events, Actions
  <2> QED BY <1>1, <1>4, <2>1, EventsAssumption DEF CorrectionToAudit, EventWrite
<1>5. CASE UpdateToStore
  <2>1. PICK id \in Ids, row \in Lessons :
            /\ Update(id, row) /\ Accounted(id, row.status)
            /\ todo = <<RowWrite(id, row)>>
    BY <1>5 DEF UpdateToStore
  <2>2. /\ rows' = [rows EXCEPT ![id] = row] /\ todo' = <<>>
        /\ withdrawn' = IF row.status \in Withdrawn
                        THEN withdrawn \union {row.body} ELSE withdrawn
    <3>1. Head(todo) = RowWrite(id, row) /\ Tail(todo) = <<>>
      BY <2>1
    <3>2. Head(todo).id = id /\ Head(todo).row = row
      BY <3>1 DEF RowWrite
    <3> QED BY <3>1, <3>2 DEF WriteRow
  <2> QED BY <1>1, <2>1, <2>2, StoreUpdate DEF Inv, Pending
<1>6. CASE FreshToStore
  <2>1. PICK id \in Ids, row \in Lessons :
            /\ Fresh(id, row) /\ OriginWithdrawn(row)
            /\ todo = <<RowWrite(id, row)>>
    BY <1>6 DEF FreshToStore
  <2>2. rows' = [rows EXCEPT ![id] = row] /\ todo' = <<>> /\ withdrawn' = withdrawn
    <3>1. Head(todo) = RowWrite(id, row) /\ Tail(todo) = <<>>
      BY <2>1
    <3>2. Head(todo).id = id /\ Head(todo).row = row
      BY <3>1 DEF RowWrite
    <3> QED BY <2>1, <3>1, <3>2 DEF WriteRow, Fresh, Withdrawn
  <2> QED BY <1>1, <2>1, <2>2, StoreFresh DEF Inv, Pending
<1>7. CASE CorrectionToStore
  <2>1. PICK id \in Ids, jd \in Ids, row \in Lessons, new \in Lessons :
            /\ Update(id, row) /\ row.status = "superseded"
            /\ Accounted(id, "superseded")
            /\ Fresh(jd, new) /\ new.origin = row.body
            /\ todo = <<RowWrite(id, row), RowWrite(jd, new)>>
    BY <1>7 DEF CorrectionToStore
  <2>2. /\ rows' = [rows EXCEPT ![id] = row] /\ todo' = <<RowWrite(jd, new)>>
        /\ withdrawn' = withdrawn \union {row.body} /\ row.status \in Withdrawn
    <3>1. Head(todo) = RowWrite(id, row) /\ Tail(todo) = <<RowWrite(jd, new)>>
      BY <2>1
    <3>2. Head(todo).id = id /\ Head(todo).row = row
      BY <3>1 DEF RowWrite
    <3> QED BY <2>1, <3>1, <3>2 DEF WriteRow, Withdrawn
  <2>3. Values' /\ Numbered' /\ RowsKnown' /\ PastOnly' /\ ReplacedIsWithdrawn'
    BY <1>1, <2>1, <2>2, StoreUpdate
  <2>4. \A i \in Ids : rows'[i] = IF i = id THEN row ELSE rows[i]
    BY <2>2 DEF Inv, Values
  <2>5. row.body # new.body /\ row.origin # new.body
    BY <2>1 DEF Update, Fresh
  <2>6. Fresh(jd, new)'
    BY <1>1, <2>1, <2>2, <2>4, <2>5 DEF Fresh
  <2>7. OriginWithdrawn(new)'
    BY <2>1, <2>2, <2>4 DEF OriginWithdrawn, Inv, Numbered, Update
  <2> QED BY <2>2, <2>3, <2>6, <2>7 DEF Inv, Pending, FreshToStore
<1> QED BY <1>1, <1>2, <1>3, <1>4, <1>5, <1>6, <1>7 DEF Inv, Pending

-----------------------------------------------------------------------------
(* Failures and time *)

LEMMA FailInv == ASSUME Inv, Fail PROVE Inv'
<1>1. Values'
  BY LessonsAssumption DEF Inv, Values, Fail
<1>2. Numbered' /\ PastOnly' /\ ReplacedIsWithdrawn' /\ RowsKnown'
  BY DEF Inv, Fail, Numbered, PastOnly, ReplacedIsWithdrawn, Stored, RowsKnown, Accounted
<1> QED BY <1>1, <1>2 DEF Inv, Fail, Pending

\* A step that touches neither the tables nor what is to write.
LEMMA PendingKept ==
  ASSUME Pending, UNCHANGED <<rows, audit, todo, written, withdrawn, confirmed>>,
         \A id \in Ids, row \in Lessons : Update(id, row) => Update(id, row)'
  PROVE  Pending'
<1>1. ASSUME NEW id, NEW row, Fresh(id, row) PROVE Fresh(id, row)'
  BY <1>1 DEF Fresh
<1>2. ASSUME NEW row, OriginWithdrawn(row) PROVE OriginWithdrawn(row)'
  BY <1>2 DEF OriginWithdrawn
<1>3. ASSUME NEW id, NEW status, Accounted(id, status) PROVE Accounted(id, status)'
  BY <1>3 DEF Accounted
<1>4. UpdateToAudit => UpdateToAudit'
  BY <1>3 DEF UpdateToAudit
<1>5. UpdateToStore => UpdateToStore'
  BY <1>3 DEF UpdateToStore
<1>6. FreshToStore => FreshToStore'
  BY <1>1, <1>2 DEF FreshToStore
<1>7. CorrectionToAudit => CorrectionToAudit'
  BY <1>1 DEF CorrectionToAudit
<1>8. CorrectionToStore => CorrectionToStore'
  BY <1>1, <1>3 DEF CorrectionToStore
<1> QED BY <1>4, <1>5, <1>6, <1>7, <1>8 DEF Pending, Denied

\* A second passes; a lesson may become overdue.
LEMMA TickInv == ASSUME Inv, Tick PROVE Inv'
<1>1. /\ today \in Nat /\ today' \in Nat /\ today <= today' /\ now' \in 0 .. LastSecond
      /\ local' \in Nat /\ local' \in today' - 1 .. today' + 1
      /\ UNCHANGED <<rows, audit, todo, written, failures, withdrawn, confirmed>>
  <2>1. today \in Nat /\ local \in Nat /\ now \in Nat
    BY DEF Inv, Values
  <2>2. /\ today' \in today .. LastDay /\ local' \in today' - 1 .. today' + 1
        /\ local <= local' /\ now < LastSecond /\ now' = now + 1
        /\ UNCHANGED <<rows, audit, todo, written, failures, withdrawn, confirmed>>
    BY DEF Tick
  <2>3. today' \in Nat /\ today <= today' /\ now' \in 0 .. LastSecond
    BY <2>1, <2>2, LessonsAssumption
  <2>4. local' \in Nat
    <3>1. local' \in Int
      BY <2>2, <2>3
    <3> QED BY <2>1, <2>2, <3>1
  <2> QED BY <2>1, <2>2, <2>3, <2>4
<1>2. Values' /\ Numbered' /\ ReplacedIsWithdrawn' /\ RowsKnown'
  BY <1>1 DEF Inv, Values, Numbered, ReplacedIsWithdrawn, Stored, RowsKnown, Accounted
<1>3. PastOnly'
  <2>1. \A body \in Bodies : confirmed[body] # None => confirmed[body] \in Nat
    BY DEF Inv, Values
  <2>2. \A i \in Ids : rows[i] # None /\ rows[i].validated # None =>
            rows[i].validated \in Nat
    BY DEF Inv, Values, Lessons
  <2> QED BY <1>1, <2>1, <2>2 DEF Inv, PastOnly
<1>4. ASSUME NEW id \in Ids, NEW row \in Lessons, Update(id, row) PROVE Update(id, row)'
  <2>1. row.validated # None => row.validated \in Nat
    BY DEF Lessons
  <2> QED BY <1>1, <1>4, <2>1 DEF Update
<1>5. Pending'
  BY <1>1, <1>4, PendingKept DEF Inv
<1> QED BY <1>2, <1>3, <1>5 DEF Inv

\* Nothing changes.
LEMMA StutterInv == ASSUME Inv, UNCHANGED vars PROVE Inv'
<1>1. UNCHANGED <<rows, audit, todo, now, today, local, written, failures, withdrawn, confirmed>>
  BY DEF vars
<1>2. Values' /\ Numbered' /\ ReplacedIsWithdrawn' /\ RowsKnown' /\ PastOnly'
  BY <1>1 DEF Inv, Values, Numbered, ReplacedIsWithdrawn, Stored, RowsKnown, Accounted, PastOnly
<1>3. ASSUME NEW id \in Ids, NEW row \in Lessons, Update(id, row) PROVE Update(id, row)'
  BY <1>1, <1>3 DEF Update
<1>4. Pending'
  BY <1>1, <1>3, PendingKept DEF Inv
<1> QED BY <1>2, <1>4 DEF Inv

-----------------------------------------------------------------------------
(* The theorems *)

\* Inv holds in every state of every behaviour.
THEOREM Invariance == Spec => []Inv
<1>1. ASSUME Inv, [Next]_vars PROVE Inv'
  BY <1>1, ProposeInv, CorrectInv, PromoteInv, RollBackInv, RefreshInv, DeleteInv,
     WriteEventInv, WriteRowInv, FailInv, TickInv, StutterInv
  DEF Next
<1> QED BY InitInv, <1>1, PTL DEF Spec

\* The tables, the history and the writes in hand have their types.
THEOREM TypeCorrect == Spec => []TypeOK
<1>1. ASSUME Inv PROVE TypeOK
  <2>1. \A event \in Events \union {Denial} :
            EventWrite(event).event = event
    BY DEF EventWrite
  <2>2. \A id, row : RowWrite(id, row).id = id /\ RowWrite(id, row).row = row
    BY DEF RowWrite
  <2>3. \A id \in Ids : [target |-> id, action |-> "correct"] \in Events
    BY DEF Events, Actions
  <2>4. \A k \in DOMAIN todo :
            \/ todo[k].event \in Events \union {Denial} /\ todo[k] = EventWrite(todo[k].event)
            \/ /\ todo[k].id \in Ids /\ todo[k].row \in Lessons
               /\ todo[k] = RowWrite(todo[k].id, todo[k].row)
    <3>1. CASE todo = <<>>
      BY <3>1
    <3>2. CASE Denied
      BY <2>1, <3>2 DEF Denied
    <3>3. CASE UpdateToAudit
      BY <2>1, <2>2, <3>3 DEF UpdateToAudit
    <3>4. CASE UpdateToStore
      BY <2>2, <3>4 DEF UpdateToStore
    <3>5. CASE FreshToStore
      BY <2>2, <3>5 DEF FreshToStore
    <3>6. CASE CorrectionToAudit
      BY <2>1, <2>2, <2>3, <3>6 DEF CorrectionToAudit
    <3>7. CASE CorrectionToStore
      BY <2>2, <3>7 DEF CorrectionToStore
    <3> QED BY <1>1, <3>1, <3>2, <3>3, <3>4, <3>5, <3>6, <3>7 DEF Inv, Pending
  <2> QED BY <1>1, <2>4 DEF Inv, Values, TypeOK
<1> QED BY <1>1, Invariance, PTL

\* What has been revoked, superseded or deleted never guides an agent again.
THEOREM WithdrawnOut == Spec => []WithdrawnStaysOut
<1>1. Inv => WithdrawnStaysOut
  BY DEF Inv, RowsKnown, WithdrawnStaysOut, Stored, Guides, Withdrawn
<1> QED BY <1>1, Invariance, PTL

\* A replacement is never stored beside an original in use, failures included.
THEOREM ReplacedWithdrawn == Spec => []ReplacedIsWithdrawn
<1>1. Inv => ReplacedIsWithdrawn
  BY DEF Inv
<1> QED BY <1>1, Invariance, PTL

\* Guidance rests on the user's word; scoped guidance on one no older than the
\* review window and the day that local and UTC dates may differ by.
THEOREM GuidanceConfirmed == Spec => []GuidanceIsConfirmed
<1>1. ASSUME Inv PROVE GuidanceIsConfirmed
  <2> SUFFICES ASSUME NEW id \in Ids, Stored(id), Guides(rows[id])
               PROVE  /\ confirmed[rows[id].body] # None
                      /\ rows[id].scoped => today - confirmed[rows[id].body] <= ReviewAfter + 1
    BY DEF GuidanceIsConfirmed
  <2>1. /\ rows[id] # None /\ rows[id] \in Lessons /\ rows[id].body \in Bodies
        /\ rows[id].status = "active"
    BY <1>1 DEF Inv, Values, Lessons, Stored, Guides
  <2>2. /\ confirmed[rows[id].body] # None /\ rows[id].validated # None
        /\ rows[id].validated <= confirmed[rows[id].body] + 1
    BY <1>1, <2>1 DEF Inv, RowsKnown
  <2>3. confirmed[rows[id].body] \in Nat /\ rows[id].validated \in Nat /\ today \in Nat
    BY <1>1, <2>1, <2>2 DEF Inv, Values, Lessons
  <2>4. rows[id].scoped => ~(today - rows[id].validated > ReviewAfter)
    BY <2>1 DEF Guides, ReviewRequired
  <2> QED BY <2>2, <2>3, <2>4, LessonsAssumption
<1> QED BY <1>1, Invariance, PTL

\* Every row's status has its allowed decision in the audit trail.
THEOREM EffectsAudited == Spec => []EffectsAreAudited
<1>1. Inv => EffectsAreAudited
  BY DEF Inv, RowsKnown, EffectsAreAudited, Stored, Accounted
<1> QED BY <1>1, Invariance, PTL
=============================================================================
