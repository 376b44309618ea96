----------------------------- MODULE SelfLessons -----------------------------
(***************************************************************************)
(* Self-lessons behind the MCP gateway: an agent proposes a lesson about   *)
(* its own method, the user promotes, refreshes, rolls back, corrects or   *)
(* deletes it, and the context pack hands the active ones to agents.       *)
(*                                                                         *)
(* The gateway answers one request at a time.  A request reads the lesson, *)
(* decides, and then makes its writes, each in a transaction of its own:   *)
(* the audit event first, allowed or not, then the rows.  todo is what the *)
(* request in hand has still to write; a failing database ends it there.   *)
(***************************************************************************)
EXTENDS Integers, Sequences, FiniteSets

CONSTANTS
    Topics,       \* what applies_to[0] can be
    None,
    Denial,       \* the audit event of a denied decision, which no property reads
    ReviewAfter,  \* SELF_LESSON_REVIEW_AFTER_DAYS
    LastSecond,   \* bound of the clock
    LastDay,      \* bound of the calendar
    MaxLessons,   \* bound of the lessons ever written
    MaxFailures   \* bound of the database's failures

ASSUME LessonsAssumption ==
    /\ ReviewAfter \in Nat /\ LastSecond \in Nat /\ LastDay \in Nat
    /\ MaxLessons \in Nat /\ MaxFailures \in Nat
    /\ None \notin Nat /\ Denial # None

VARIABLES
    rows,       \* the table self_lessons, by lesson id
    audit,      \* the audit events of allowed decisions: target and action
    todo,       \* the writes the request in hand has still to make
    now,        \* in seconds
    today,      \* the date in UTC, by which lessons are refreshed and reviewed
    local,      \* the date where the server runs, which a promotion writes
    written,    \* lessons ever written: a lesson's number is its content
    failures,
    withdrawn,  \* history: contents stored as revoked, superseded or deleted
    confirmed   \* history: the date (UTC) the user last confirmed a content, or None

vars == <<rows, audit, todo, now, today, local, written, failures, withdrawn, confirmed>>

\* _lesson_id: the topic and the second, nothing else.
Ids == Topics \X (0 .. LastSecond)

Withdrawn == {"revoked", "superseded", "deleted"}
Statuses == {"candidate", "active"} \union Withdrawn
Bodies == 1 .. MaxLessons

Lessons == [body : Bodies, status : Statuses, scoped : BOOLEAN, sure : BOOLEAN,
            validated : Nat \union {None}, origin : Bodies \union {None}]

Actions == {"promote", "rollback", "refresh", "correct", "delete"}
Events == [target : Ids, action : Actions]

ASSUME EventsAssumption == None \notin Events /\ Denial \notin Events

\* A write is an audit event or a row.
EventWrite(event) == [event |-> event, id |-> None, row |-> None]
RowWrite(id, row) == [event |-> None, id |-> id, row |-> row]

Stored(id) == id \in Ids /\ rows[id] # None

-----------------------------------------------------------------------------
(* What the context pack does with a lesson *)

\* self_lesson_review_state
ReviewRequired(lesson) ==
    /\ lesson.status = "active" /\ lesson.scoped
    /\ \/ lesson.validated = None
       \/ today - lesson.validated > ReviewAfter

\* get_context_pack hands the lesson to an agent whose goal and scope match.
Guides(lesson) == lesson.status = "active" /\ ~ReviewRequired(lesson)

-----------------------------------------------------------------------------
(* Decisions: evaluate_stored_self_lesson_promotion, ... *)

\* Mutant of MayPromote: only deleted lessons are taken to be terminal.
MayPromoteUndeleted(lesson, confirms) ==
    lesson.status # "deleted" /\ lesson.sure /\ confirms

MayPromote(lesson, confirms) ==
    lesson.status \notin Withdrawn /\ lesson.sure /\ confirms

\* harmful stands for an injection, a forbidden change, a high risk or a low
\* confidence in what the caller gives.
MayCorrect(lesson, harmful) == lesson.status # "deleted" /\ ~harmful

MayDelete(lesson, confirms) == lesson.status # "deleted" /\ confirms

MayRollBack(lesson, called) == lesson.status = "active" /\ called

\* Mutant of MayRefresh: nobody is asked.
MayRefreshUnasked(lesson, confirms) ==
    lesson.status = "active" /\ ReviewRequired(lesson)

MayRefresh(lesson, confirms) ==
    lesson.status = "active" /\ ReviewRequired(lesson) /\ confirms

-----------------------------------------------------------------------------
(* The rows the allowed decisions write *)

\* date.today(), without a zone.
Promoted(lesson) == [lesson EXCEPT !.status = "active", !.validated = local]
RolledBack(lesson) == [lesson EXCEPT !.status = "revoked"]
\* datetime.now(UTC).date().
Refreshed(lesson) == [lesson EXCEPT !.validated = today]
Deleted(lesson) == [lesson EXCEPT !.status = "deleted"]
Superseded(lesson) == [lesson EXCEPT !.status = "superseded"]

\* propose_self_lesson; the replacement of correct_self_lesson has an origin.
Candidate(body, scoped, sure, origin) ==
    [body |-> body, status |-> "candidate", scoped |-> scoped, sure |-> sure,
     validated |-> None, origin |-> origin]

Replacement(lesson) == Candidate(written + 1, lesson.scoped, TRUE, lesson.body)

-----------------------------------------------------------------------------

TypeOK ==
    /\ rows \in [Ids -> Lessons \union {None}]
    /\ audit \in SUBSET Events
    /\ \A k \in DOMAIN todo :
            \/ todo[k].event \in Events \union {Denial} /\ todo[k] = EventWrite(todo[k].event)
            \/ /\ todo[k].id \in Ids /\ todo[k].row \in Lessons
               /\ todo[k] = RowWrite(todo[k].id, todo[k].row)
    /\ now \in 0 .. LastSecond
    /\ today \in Nat
    /\ local \in Nat /\ local \in today - 1 .. today + 1
    /\ written \in 0 .. MaxLessons
    /\ failures \in 0 .. MaxFailures
    /\ withdrawn \in SUBSET Bodies
    /\ confirmed \in [Bodies -> Nat \union {None}]

Init ==
    /\ rows = [id \in Ids |-> None]
    /\ audit = {}
    /\ todo = <<>>
    /\ now = 0
    /\ today = 1
    /\ local \in 0 .. 2
    /\ written = 0
    /\ failures = 0
    /\ withdrawn = {}
    /\ confirmed = [body \in Bodies |-> None]

\* The gateway reads its next line when the last is answered.
Request(writes) ==
    /\ todo = <<>>
    /\ todo' = writes
    /\ UNCHANGED <<rows, audit, now, today, local, failures, withdrawn>>

\* A denied decision leaves its audit event, an allowed one also its rows.
Decided(allowed, writes) == IF allowed THEN writes ELSE <<EventWrite(Denial)>>

\* Mutant of AuditedWrites: the row first, then the event.
RowBeforeEvent(id, action, row) ==
    <<RowWrite(id, row), EventWrite([target |-> id, action |-> action])>>

\* record_self_lesson_decision_audit, then the row.
AuditedWrites(id, action, row) ==
    <<EventWrite([target |-> id, action |-> action]), RowWrite(id, row)>>

\* self_lesson.propose: no audit event.
Propose(topic, scoped, sure) ==
    /\ written < MaxLessons
    /\ Request(<<RowWrite(<<topic, now>>, Candidate(written + 1, scoped, sure, None))>>)
    /\ written' = written + 1
    /\ UNCHANGED confirmed

\* Mutant of CorrectionWrites: the replacement before the old row.
ReplacementFirst(id, topic) ==
    <<EventWrite([target |-> id, action |-> "correct"]),
      RowWrite(<<topic, now>>, Replacement(rows[id])),
      RowWrite(id, Superseded(rows[id]))>>

\* The audit event first; the old row is superseded before the new one is written.
CorrectionWrites(id, topic) ==
    <<EventWrite([target |-> id, action |-> "correct"]),
      RowWrite(id, Superseded(rows[id])),
      RowWrite(<<topic, now>>, Replacement(rows[id]))>>

\* self_lesson.correct
Correct(id, topic, harmful) ==
    LET allowed == MayCorrect(rows[id], harmful)
    IN  /\ Stored(id)
        /\ written < MaxLessons
        /\ Request(Decided(allowed, CorrectionWrites(id, topic)))
        /\ written' = IF allowed THEN written + 1 ELSE written
        /\ UNCHANGED confirmed

\* The user's word on an allowed decision, for the history.
Confirm(lesson, allowed, confirms) ==
    confirmed' = IF allowed /\ confirms THEN [confirmed EXCEPT ![lesson.body] = today]
                 ELSE confirmed

Promote(id, confirms) ==
    /\ Stored(id)
    /\ Request(Decided(MayPromote(rows[id], confirms),
                       AuditedWrites(id, "promote", Promoted(rows[id]))))
    /\ Confirm(rows[id], MayPromote(rows[id], confirms), confirms)
    /\ UNCHANGED written

RollBack(id, called) ==
    /\ Stored(id)
    /\ Request(Decided(MayRollBack(rows[id], called),
                       AuditedWrites(id, "rollback", RolledBack(rows[id]))))
    /\ UNCHANGED <<written, confirmed>>

Refresh(id, confirms) ==
    /\ Stored(id)
    /\ Request(Decided(MayRefresh(rows[id], confirms),
                       AuditedWrites(id, "refresh", Refreshed(rows[id]))))
    /\ Confirm(rows[id], MayRefresh(rows[id], confirms), confirms)
    /\ UNCHANGED written

Delete(id, confirms) ==
    /\ Stored(id)
    /\ Request(Decided(MayDelete(rows[id], confirms),
                       AuditedWrites(id, "delete", Deleted(rows[id]))))
    /\ UNCHANGED <<written, confirmed>>

\* One transaction: add_audit_event, or add_self_lesson, which replaces the row
\* that has the id.
WriteEvent ==
    /\ todo # <<>> /\ Head(todo).event # None
    /\ audit' = audit \union ({Head(todo).event} \ {Denial})
    /\ todo' = Tail(todo)
    /\ UNCHANGED <<rows, now, today, local, written, failures, withdrawn, confirmed>>

WriteRow ==
    /\ todo # <<>> /\ Head(todo).event = None
    /\ rows' = [rows EXCEPT ![Head(todo).id] = Head(todo).row]
    /\ todo' = Tail(todo)
    /\ withdrawn' = IF Head(todo).row.status \in Withdrawn
                    THEN withdrawn \union {Head(todo).row.body} ELSE withdrawn
    /\ UNCHANGED <<audit, now, today, local, written, failures, confirmed>>

\* sqlite3 raises, or the process dies: what was committed stays.
Fail ==
    /\ todo # <<>>
    /\ failures < MaxFailures
    /\ todo' = <<>>
    /\ failures' = failures + 1
    /\ UNCHANGED <<rows, audit, now, today, local, written, withdrawn, confirmed>>

\* A later second, of the same day or a later one.  The local date is within a day
\* of the date in UTC, on the side that the server's zone says, and does not go back.
Tick ==
    /\ now < LastSecond
    /\ now' = now + 1
    /\ today' \in today .. LastDay
    /\ local' \in today' - 1 .. today' + 1
    /\ local <= local'
    /\ UNCHANGED <<rows, audit, todo, written, failures, withdrawn, confirmed>>

Next ==
    \/ \E topic \in Topics, scoped, sure \in BOOLEAN : Propose(topic, scoped, sure)
    \/ \E id \in Ids, topic \in Topics, harmful \in BOOLEAN : Correct(id, topic, harmful)
    \/ \E id \in Ids, confirms \in BOOLEAN :
            \/ Promote(id, confirms)
            \/ RollBack(id, confirms)
            \/ Refresh(id, confirms)
            \/ Delete(id, confirms)
    \/ WriteEvent
    \/ WriteRow
    \/ Fail
    \/ Tick

Spec == Init /\ [][Next]_vars

-----------------------------------------------------------------------------
(* Properties *)

\* A content that was revoked, superseded or deleted guides no agent again,
\* whatever follows: retries, corrections of corrections, an id used twice.
WithdrawnStaysOut ==
    \A id \in Ids : Stored(id) /\ Guides(rows[id]) => rows[id].body \notin withdrawn

\* What a correction has replaced is out of use from the moment its replacement
\* is stored, also when the request fails between its writes.
ReplacedIsWithdrawn ==
    \A i, j \in Ids :
        /\ Stored(i) /\ Stored(j)
        /\ rows[j].origin = rows[i].body
        => rows[i].status \in Withdrawn

\* A lesson guides by the user's own word on this content; a scoped one by a word
\* no older than the review window and a day: the date a promotion writes is that
\* of the server's zone, which may be a day ahead of the one it is reviewed by.
GuidanceIsConfirmed ==
    \A id \in Ids : Stored(id) /\ Guides(rows[id]) =>
        LET day == confirmed[rows[id].body]
        IN  day # None /\ (rows[id].scoped => today - day <= ReviewAfter + 1)

\* The audit trail accounts for every row, at every point of every request.
CauseOf(status) ==
    CASE status = "active" -> "promote"
      [] status = "revoked" -> "rollback"
      [] status = "superseded" -> "correct"
      [] status = "deleted" -> "delete"

EffectsAreAudited ==
    \A id \in Ids : Stored(id) /\ rows[id].status # "candidate" =>
        [target |-> id, action |-> CauseOf(rows[id].status)] \in audit
=============================================================================
