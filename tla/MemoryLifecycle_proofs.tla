------------------------ MODULE MemoryLifecycle_proofs ------------------------
(***************************************************************************)
(* The safety of the memory lifecycle, for every calendar.                 *)
(***************************************************************************)
EXTENDS MemoryLifecycle, TLAPS

\* What makes BlockedStaysOut inductive: blocking strips the influence, and no
\* transition gives any back.
Stripped == blocked => memory.level = "stored_only"

LifecycleInv == TypeOK /\ Stripped

-----------------------------------------------------------------------------
\* A transition gives a record back: what it writes, and what it leaves alone.
LEMMA TransitionShape ==
    ASSUME NEW m \in Records, NEW target \in Statuses, NEW day \in Nat
    PROVE  LET n == Transition(m, target, day)
           IN  /\ n \in Records
               /\ n.status = target /\ n.from = m.from
               /\ n.secret = m.secret
               /\ n.evidence = m.evidence /\ n.confidence = m.confidence
               /\ n.confirm <=> m.confirm /\ target # "active"
               /\ n.level = IF target \in Blocking THEN "stored_only" ELSE m.level
               /\ n.allowed <=> m.allowed /\ target \notin Blocking
               /\ n.to = IF target \in Blocking \cup {"deprecated"} THEN day ELSE m.to
  BY DEF Records, Transition, Levels

\* A record without influence is neither recalled nor found.
LEMMA StoredOnlyIsOut ==
    ASSUME NEW m, NEW day, m.level = "stored_only"
    PROVE  ~RecallAllowed(m) /\ ~Found(m, day)
  BY DEF RecallAllowed, Found, Selected

\* Blocking strips influence, and no transition gives it back.
THEOREM LifecycleInductive == Spec => []LifecycleInv
<1>1. Init => LifecycleInv
  <2> SUFFICES ASSUME Init PROVE LifecycleInv
    OBVIOUS
  <2>1. memory \in Records
    <3>1. 0..LastDay \subseteq Nat
      OBVIOUS
    <3> QED BY <3>1 DEF Init, Records
  <2> QED
    BY <2>1 DEF Init, LifecycleInv, TypeOK, Stripped
<1>2. LifecycleInv /\ [Next]_vars => LifecycleInv'
  <2> SUFFICES ASSUME LifecycleInv, [Next]_vars PROVE LifecycleInv'
    OBVIOUS
  <2> USE DEF LifecycleInv, TypeOK, Stripped
  <2>1. ASSUME NEW target \in Statuses, NEW approval \in BOOLEAN,
               NEW replaced \in BOOLEAN, Change(target, approval, replaced)
        PROVE  LifecycleInv'
    <3>1. memory' = Transition(memory, target, today)
      BY <2>1 DEF Change
    <3>2. /\ memory' \in Records
          /\ memory'.status = target
          /\ memory.level = "stored_only" => memory'.level = "stored_only"
          /\ target \in Blocking => memory'.level = "stored_only"
      BY <3>1, TransitionShape
    <3> QED
      BY <2>1, <3>2 DEF Change
  <2>2. CASE NextDay
    BY <2>2 DEF NextDay
  <2>3. CASE UNCHANGED vars
    BY <2>3 DEF vars
  <2> QED
    BY <2>1, <2>2, <2>3 DEF Next
<1> QED
  BY <1>1, <1>2, PTL DEF Spec

\* Every record a transition writes has the types of the contract.
THEOREM LifecycleTypeCorrect == Spec => []TypeOK
<1>1. LifecycleInv => TypeOK
  BY DEF LifecycleInv
<1> QED
  BY <1>1, LifecycleInductive, PTL

\* transition_memory: a memory that once was deleted, revoked, superseded or
\* quarantined is not recalled again, whatever transitions follow.
THEOREM BlockedForGood == Spec => []BlockedStaysOut
<1>1. LifecycleInv => BlockedStaysOut
  BY StoredOnlyIsOut DEF LifecycleInv, Stripped, BlockedStaysOut
<1> QED
  BY <1>1, LifecycleInductive, PTL

\* transition_memory: a record that can be read is written as one that can be read,
\* but when its window closes before it opens, when it acts on tools without a
\* permission, or when it loses the review an inferred memory of little confidence
\* is active by.
THEOREM TransitionsReadable == Spec => TransitionsStayReadable
<1> DEFINE Exceptions ==
        ClosesBeforeOpening \/ ActivatesWithoutPermission \/ ClearsItsOnlyReview
<1>1. LifecycleInv /\ [Next]_vars =>
          [Valid(memory) /\ memory' # memory => (~Valid(memory') <=> Exceptions)]_vars
  <2> SUFFICES ASSUME LifecycleInv, [Next]_vars, Valid(memory), memory' # memory
               PROVE  ~Valid(memory') <=> Exceptions
    OBVIOUS
  <2>1. PICK target \in Statuses, approval \in BOOLEAN, replaced \in BOOLEAN :
            Change(target, approval, replaced)
    BY DEF Next, NextDay, vars
  <2> DEFINE n == memory'
  <2>2. /\ memory \in Records /\ today \in Nat
        /\ memory.from \in Nat /\ memory.to \in Nat \cup {None}
    BY DEF LifecycleInv, TypeOK, Records
  <2>3. /\ n.status = target /\ n.from = memory.from
        /\ n.evidence = memory.evidence /\ n.confidence = memory.confidence
        /\ n.confirm <=> memory.confirm /\ target # "active"
        /\ n.level = IF target \in Blocking THEN "stored_only" ELSE memory.level
        /\ n.allowed <=> memory.allowed /\ target \notin Blocking
        /\ n.to = IF target \in Blocking \cup {"deprecated"} THEN today ELSE memory.to
    BY <2>1, <2>2, TransitionShape DEF Change
  <2>4. CASE target \in Blocking \cup {"deprecated"}
    <3>1. /\ n.status # "active" /\ n.to = today
          /\ n.status \in {"deleted", "revoked"} => n.level = "stored_only"
      BY <2>3, <2>4 DEF Blocking
    <3>2. Valid(n) <=> n.from <= today
      BY <3>1, <2>2, LifecycleAssumption DEF Valid
    <3>3. Exceptions <=> today < memory.from
      BY <2>3, <2>4, <3>1
      DEF ClosesBeforeOpening, ActivatesWithoutPermission, ClearsItsOnlyReview
    <3> QED BY <3>2, <3>3, <2>2, <2>3
  <2>5. CASE target = "active"
    <3>1. /\ n.status = "active" /\ ~n.confirm /\ n.to = memory.to
          /\ n.level = memory.level /\ (n.allowed <=> memory.allowed)
      BY <2>3, <2>5 DEF Blocking
    <3>2. n.to # None => n.from <= n.to
      BY <2>3, <3>1 DEF Valid
    <3>3. Valid(n) <=> /\ memory.evidence = "inferred" => memory.confidence = "high"
                       /\ memory.level = "tool" => memory.allowed
      BY <2>3, <3>1, <3>2 DEF Valid
    <3>4. memory.status # "active" /\ memory.evidence = "inferred"
              => memory.confidence = "high"
      BY <2>1, <2>5 DEF Change, Allowed, CanActivate
    <3>5. memory.status = "active" /\ memory.evidence = "inferred"
              => memory.confirm \/ memory.confidence = "high"
      BY DEF Valid
    <3>6. Exceptions <=> \/ memory.level = "tool" /\ ~memory.allowed
                         \/ /\ memory.status = "active" /\ memory.evidence = "inferred"
                            /\ memory.confirm /\ memory.confidence # "high"
      BY <3>1
      DEF ClosesBeforeOpening, ActivatesWithoutPermission, ClearsItsOnlyReview, Blocking
    <3> QED BY <3>3, <3>4, <3>5, <3>6
  <2>6. CASE target = "candidate"
    <3>1. memory.status = "candidate"
      BY <2>1, <2>6 DEF Change, Allowed
    <3>2. Valid(n)
      BY <2>3, <2>6 DEF Valid, Blocking
    <3>3. ~Exceptions
      BY <2>3, <2>6
      DEF ClosesBeforeOpening, ActivatesWithoutPermission, ClearsItsOnlyReview, Blocking
    <3> QED BY <3>2, <3>3
  <2> QED BY <2>4, <2>5, <2>6 DEF Statuses, Blocking
<1> QED
  BY <1>1, LifecycleInductive, PTL DEF Spec, TransitionsStayReadable

\* _evaluate_activation: promotion of external evidence and secrets is refused,
\* and of what asks for confirmation or acts on tools it takes the user.
THEOREM PromotionEarned == Spec => PromotionIsEarned
<1> DEFINE Earned ==
        memory'.status = "active" /\ memory.status # "active" =>
            /\ memory.evidence # "external_evidence" /\ ~memory.secret
            /\ memory.confirm \/ memory.level = "tool" => approved'
<1>1. LifecycleInv /\ [Next]_vars => [Earned]_vars
  <2> SUFFICES ASSUME LifecycleInv, [Next]_vars,
                      memory'.status = "active", memory.status # "active"
               PROVE  /\ memory.evidence # "external_evidence" /\ ~memory.secret
                      /\ memory.confirm \/ memory.level = "tool" => approved'
    OBVIOUS
  <2>1. ASSUME NEW target \in Statuses, NEW approval \in BOOLEAN,
               NEW replaced \in BOOLEAN, Change(target, approval, replaced)
        PROVE  /\ memory.evidence # "external_evidence" /\ ~memory.secret
               /\ memory.confirm \/ memory.level = "tool" => approved'
    <3>1. target = "active"
      BY <2>1, TransitionShape DEF Change, LifecycleInv, TypeOK
    <3>2. CanActivate(memory, approval)
      BY <2>1, <3>1 DEF Change, Allowed
    <3>3. approved' = (approved \/ approval)
      BY <2>1 DEF Change
    <3> QED
      BY <3>2, <3>3, Zenon DEF CanActivate
  <2> QED
    BY <2>1 DEF Next, NextDay, vars
<1> QED
  BY <1>1, LifecycleInductive, PTL DEF Spec, PromotionIsEarned
=============================================================================
