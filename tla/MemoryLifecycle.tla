--------------------------- MODULE MemoryLifecycle ---------------------------
(***************************************************************************)
(* The life of one memory under transition_memory: any caller may ask for  *)
(* any status on any day, with or without the user's approval.             *)
(***************************************************************************)
EXTENDS MemoryTransitions

CONSTANT LastDay  \* bound of the calendar

ASSUME LifecycleAssumption == None \notin Nat /\ LastDay \in Nat

VARIABLES
    memory,    \* the record
    today,
    blocked,   \* history: a transition has given it a status that blocks recall
    approved   \* history: the user has approved a transition of it

vars == <<memory, today, blocked, approved>>

TypeOK ==
    /\ memory \in Records
    /\ today \in Nat
    /\ blocked \in BOOLEAN /\ approved \in BOOLEAN

\* Any record of the contract, its window and its status included.  A record that
\* comes with a blocking status and no influence is one a transition has blocked.
Init ==
    /\ today = 0
    /\ memory \in [status : Statuses, evidence : Evidences, confidence : Confidences,
                   secret : BOOLEAN, confirm : BOOLEAN, level : Levels,
                   allowed : BOOLEAN, from : 0..LastDay, to : 0..LastDay \cup {None}]
    /\ Valid(memory)
    /\ blocked = (memory.status \in Blocking /\ memory.level = "stored_only")
    /\ approved = FALSE

Change(target, approval, replaced) ==
    /\ Allowed(memory, target, approval, replaced)
    /\ memory' = Transition(memory, target, today)
    /\ blocked' = (blocked \/ target \in Blocking)
    /\ approved' = (approved \/ approval)
    /\ UNCHANGED today

NextDay ==
    /\ today < LastDay
    /\ today' = today + 1
    /\ UNCHANGED <<memory, blocked, approved>>

Next ==
    \/ \E target \in Statuses, approval, replaced \in BOOLEAN :
            Change(target, approval, replaced)
    \/ NextDay

Spec == Init /\ [][Next]_vars

-----------------------------------------------------------------------------
(* Properties *)

\* A memory that a transition has once blocked is never recalled again, by whatever
\* path of allowed transitions it comes back to a status that is recalled.
BlockedStaysOut == blocked => ~RecallAllowed(memory) /\ ~Found(memory, today)

\* A memory that asks for confirmation, or would act on tools, becomes active by the
\* user's approval alone; external evidence and secrets are never made active.
PromotionIsEarned ==
    [][memory'.status = "active" /\ memory.status # "active" =>
            /\ memory.evidence # "external_evidence" /\ ~memory.secret
            /\ memory.confirm \/ memory.level = "tool" => approved']_vars

\* transition_memory closes the window of a memory before it opens.
ClosesBeforeOpening ==
    memory'.status \in Blocking \cup {"deprecated"} /\ today < memory.from

\* transition_memory activates a memory that acts on tools and may influence none.
ActivatesWithoutPermission ==
    memory'.status = "active" /\ memory.level = "tool" /\ ~memory.allowed

\* transition_memory clears the confirmation of an inferred memory that is active
\* only because it asks for one.
ClearsItsOnlyReview ==
    /\ memory.status = "active" /\ memory'.status = "active"
    /\ memory.evidence = "inferred" /\ memory.confirm /\ memory.confidence # "high"

\* transition_memory writes without validating (model_copy) what the store validates
\* when it reads.  A transition of a record that can be read writes one that can be
\* read, but for exactly three cases.
TransitionsStayReadable ==
    [][Valid(memory) /\ memory' # memory =>
          (~Valid(memory') <=> \/ ClosesBeforeOpening
                               \/ ActivatesWithoutPermission
                               \/ ClearsItsOnlyReview)]_vars
=============================================================================
