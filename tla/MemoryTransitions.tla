-------------------------- MODULE MemoryTransitions --------------------------
(***************************************************************************)
(* The rules of the memory lifecycle: what a MemoryRecord must satisfy     *)
(* (contracts.py), which status changes are allowed and what they write    *)
(* (memory_lifecycle.py), and which records a search returns               *)
(* (sqlite_store.py, retrieval.py).  Scopes and the words of a query are   *)
(* left out: the search is one whose scope and words match.                *)
(***************************************************************************)
EXTENDS Naturals

CONSTANT None  \* no valid_to

Statuses == {"candidate", "active", "deprecated", "superseded", "revoked",
             "deleted", "quarantined"}
Evidences == {"user_confirmed", "observed", "inferred", "observed_and_inferred",
              "external_evidence"}
Confidences == {"low", "fair", "high"}   \* below 0.75, below 0.90, and the rest
Levels == {"stored_only", "direct", "tool"}  \* tool: TOOL_ACTIONS and above

Records ==
    [status : Statuses, evidence : Evidences, confidence : Confidences,
     secret : BOOLEAN, confirm : BOOLEAN,    \* requires_user_confirmation
     level : Levels, allowed : BOOLEAN,      \* allowed_influence is not empty
     from : Nat, to : Nat \cup {None}]

\* MemoryRecord.enforce_memory_safety
Valid(m) ==
    /\ m.to # None => m.from <= m.to
    /\ m.evidence = "inferred" /\ m.status = "active" =>
            m.confirm \/ m.confidence = "high"
    /\ m.level = "tool" /\ m.status = "active" => m.allowed
    /\ m.status \in {"deleted", "revoked"} => m.level = "stored_only"

-----------------------------------------------------------------------------
Terminal == {"deleted", "revoked"}
Blocking == {"deleted", "revoked", "superseded", "quarantined"}

\* Mutant of CanActivate: approval is asked for tool influence only.
CanActivateUnconfirmed(m, approved) ==
    /\ m.status \notin Blocking
    /\ ~m.secret
    /\ m.evidence # "external_evidence"
    /\ m.confidence # "low"
    /\ m.level = "tool" => approved

\* _evaluate_activation; NON_PROMOTABLE_STATUSES has the members of Blocking.
CanActivate(m, approved) ==
    /\ m.status \notin Blocking
    /\ ~m.secret
    /\ m.evidence # "external_evidence"
    /\ m.confidence # "low"
    /\ m.evidence = "inferred" => approved /\ m.confidence = "high"
    /\ m.confirm \/ m.level = "tool" => approved

\* evaluate_memory_transition; replaced: a replacement_memory_id is given.
Allowed(m, target, approved, replaced) ==
    \/ target = m.status
    \/ /\ m.status \notin Terminal
       /\ \/ target = "active" /\ CanActivate(m, approved)
          \/ target = "superseded" /\ m.status # "quarantined" /\ replaced
          \/ target = "deprecated" /\ m.status # "quarantined"
          \/ target \in {"deleted", "revoked", "quarantined"}

\* Mutant of Transition: the record keeps its influence.
TransitionKeepsLevel(m, target, today) ==
    [m EXCEPT !.status = target,
              !.confirm = @ /\ target # "active",
              !.to = IF target \in Blocking \cup {"deprecated"} THEN today ELSE @]

\* Mutant of Transition: valid_to is the day before.
TransitionBackdated(m, target, today) ==
    [m EXCEPT !.status = target,
              !.confirm = @ /\ target # "active",
              !.level = IF target \in Blocking THEN "stored_only" ELSE @,
              !.allowed = @ /\ target \notin Blocking,
              !.to = IF target \in Blocking \cup {"deprecated"}
                       THEN IF today = 0 THEN 0 ELSE today - 1 ELSE @]

\* transition_memory, which writes without validating: model_copy.
Transition(m, target, today) ==
    [m EXCEPT !.status = target,
              !.confirm = @ /\ target # "active",
              !.level = IF target \in Blocking THEN "stored_only" ELSE @,
              !.allowed = @ /\ target \notin Blocking,
              !.to = IF target \in Blocking \cup {"deprecated"} THEN today ELSE @]

-----------------------------------------------------------------------------
\* recall_allowed, which explain_memory and the dashboard report.
RecallAllowed(m) ==
    /\ m.status \notin Blocking
    /\ m.level # "stored_only"
    /\ ~m.secret

\* The rows SQLiteMemoryGraphStore.rank selects.
Selected(m) ==
    /\ m.status \notin {"deleted", "revoked", "quarantined"}
    /\ m.level # "stored_only"

\* score_memory's eligible; NON_RETRIEVABLE_STATUSES has the members of Blocking.
Eligible(m, today) ==
    /\ m.status \notin Blocking
    /\ m.level # "stored_only"
    /\ m.to # None => today <= m.to
    /\ ~m.secret

\* What a search returns.
Found(m, today) == Selected(m) /\ Eligible(m, today)
=============================================================================
