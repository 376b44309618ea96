-------------------------- MODULE LiveClicker_proofs --------------------------
(***************************************************************************)
(* For any number of requests, texts, observations and failures: receipts  *)
(* of the live clicker tell the truth about its store.  What a thread      *)
(* knows inside observe holds because it has the lock; what a failed one   *)
(* leaves behind is remembered in torn.                                    *)
(***************************************************************************)
EXTENDS LiveClicker, FiniteSetTheorems, TLAPS

Inside == {"remembering", "auditing", "noting"}

Outcomes == [remember : BOOLEAN, writes : BOOLEAN]

\* A thread inside observe has the lock and the next number.
Numbered ==
    \A c \in Requests : pc[c] \in Inside =>
        lock = c /\ number[c] = Len(receipts) + 1 /\ number[c] \in Numbers

\* The receipt of the overlay and the evidence plan agree on the memory.
Agreed ==
    \A c \in Requests :
        /\ pc[c] \in Inside \union {"observing"} =>
              observed[c] \in Outcomes /\ (observed[c].remember <=> observed[c].writes)
        /\ pc[c] \in {"remembering", "auditing"} => observed[c].remember

\* What a thread inside observe has written so far.
Written ==
    \A c \in Requests :
        /\ pc[c] = "auditing" => memories[number[c]] = c
        /\ pc[c] = "noting" /\ observed[c].remember =>
              memories[number[c]] = c /\ number[c] \in audits

\* A memory that no receipt tells of is that of a failed observation or of the
\* one that has the lock.
Accounted ==
    \A n \in Numbers : n > Len(receipts) /\ memories[n] # None =>
        \/ n \in torn
        \/ \E c \in Requests : /\ pc[c] \in {"auditing", "noting"}
                               /\ observed[c].remember /\ number[c] = n

Inv == TypeOK /\ Numbered /\ Agreed /\ Written /\ Accounted /\ ReceiptsTellTheStore
-----------------------------------------------------------------------------
(* The pipeline *)

\* Whatever the observation, a memory is written exactly when the overlay's
\* receipt says so: neither the firewall nor the plan lets the two part.
LEMMA OutcomeAgrees ==
  ASSUME NEW o, o.local \in BOOLEAN
  PROVE  /\ Outcome(o) \in Outcomes
         /\ Outcome(o).remember <=> Outcome(o).writes
<1>1. o.local /\ ClickerPlan(o).eligible <=> ClickerReceipt(o).writes
  BY DEF ClickerPlan, ClickerReceipt, Receipt, Plan, Clean, ClickerEnvelope
<1>2. ClickerReceipt(o).writes \in BOOLEAN
  BY DEF ClickerReceipt, Receipt
<1>3. (o.local /\ ClickerPlan(o).eligible) \in BOOLEAN
  OBVIOUS
<1> QED BY <1>1, <1>2, <1>3 DEF Outcome, Outcomes

-----------------------------------------------------------------------------
(* Each step preserves the invariant *)

LEMMA InitInv == Init => Inv
  BY RequestsAssumption
  DEF Init, Inv, TypeOK, Stages, Numbered, Agreed, Written, Accounted,
      ReceiptsTellTheStore, Numbers, Inside, Unstored

\* A step that moves one thread from where it holds nothing to where it holds
\* nothing, and leaves receipts, numbers and store alone.
LEMMA Outside ==
  ASSUME Inv, NEW c \in Requests, NEW to \in Stages \ Inside,
         pc[c] \notin Inside, pc' = [pc EXCEPT ![c] = to],
         \A d \in Requests \ {c} : observed'[d] = observed[d],
         observed' \in [Requests -> Outcomes \union {None}],
         to = "observing" => /\ observed'[c] \in Outcomes
                             /\ observed'[c].remember <=> observed'[c].writes,
         rejected' \in Nat,
         UNCHANGED <<receipts, lock, number, memories, audits, failures, torn>>
  PROVE  Inv'
<1>1. TypeOK'
  BY DEF Inv, TypeOK, Outcomes
<1>2. \A d \in Requests : pc'[d] = IF d = c THEN to ELSE pc[d]
  BY DEF Inv, TypeOK
<1>3. Numbered'
  BY <1>2 DEF Inv, Numbered
<1>4. Agreed'
  BY <1>2 DEF Inv, Agreed, Inside
<1>5. Written'
  BY <1>2 DEF Inv, Written, Inside
<1>6. Accounted'
  BY <1>2 DEF Inv, Accounted, Inside
<1>7. ReceiptsTellTheStore'
  BY DEF Inv, ReceiptsTellTheStore
<1> QED BY <1>1, <1>3, <1>4, <1>5, <1>6, <1>7 DEF Inv

\* A request comes in and is judged; nothing that is shared is touched.
LEMMA BeginStep ==
  ASSUME Inv, NEW c \in Requests, Begin(c)
  PROVE  Inv'
<1>1. CASE PostUnfit(c)
  BY <1>1, Outside DEF PostUnfit, Goes, Unstored, Inv, TypeOK, Stages, Inside, Outcomes
<1>2. ASSUME NEW o \in Observations, Post(c, o) PROVE Inv'
  <2>1. Outcome(o) \in Outcomes /\ (Outcome(o).remember <=> Outcome(o).writes)
    BY OutcomeAgrees DEF Observations
  <2>2. /\ observed' \in [Requests -> Outcomes \union {None}]
        /\ observed'[c] = Outcome(o)
        /\ \A d \in Requests \ {c} : observed'[d] = observed[d]
    BY <1>2, <2>1 DEF Post, Inv, TypeOK, Outcomes
  <2> QED BY <1>2, <2>1, <2>2, Outside
          DEF Post, Goes, Unstored, Inv, TypeOK, Stages, Inside
<1> QED BY <1>1, <1>2 DEF Begin

\* The steps that touch no more than the count of rejections.
LEMMA PlainStep ==
  ASSUME Inv, NEW c \in Requests, Reject(c) \/ Refuse(c) \/ Answer(c)
  PROVE  Inv'
<1>1. rejected' \in Nat /\ observed' = observed
  BY DEF Reject, Refuse, Answer, Inv, TypeOK
<1>2. PICK to \in {"answering", "done", "dropped"} : pc' = [pc EXCEPT ![c] = to]
  BY DEF Reject, Refuse, Answer, Goes
<1>3. pc[c] \notin Inside
  BY DEF Reject, Refuse, Answer, Goes, Inside
<1> QED BY <1>1, <1>2, <1>3, Outside
        DEF Reject, Refuse, Answer, Unstored, Stages, Inside, Inv, TypeOK, Outcomes

\* No thread is inside observe but the one that has the lock.
LEMMA EnterStep ==
  ASSUME Inv, NEW c \in Requests, Enter(c)
  PROVE  Inv'
<1> DEFINE to == IF observed[c].remember THEN "remembering" ELSE "noting"
<1>1. \A d \in Requests : pc[d] \notin Inside
  BY RequestsAssumption DEF Enter, Inv, Numbered
<1>2. /\ Len(receipts) \in Nat /\ Len(receipts) < MaxObservations
      /\ Len(receipts) + 1 \in Numbers
  BY RequestsAssumption DEF Enter, Inv, TypeOK, Numbers
<1>3. /\ \A d \in Requests : pc'[d] = IF d = c THEN to ELSE pc[d]
      /\ \A d \in Requests :
            number'[d] = IF d = c THEN Len(receipts) + 1 ELSE number[d]
  BY DEF Enter, Goes, Inv, TypeOK
<1>4. TypeOK'
  BY <1>2 DEF Enter, Goes, Inv, TypeOK, Stages, Unstored
<1>5. Numbered'
  BY <1>1, <1>2, <1>3 DEF Enter, Numbered, Inside
<1>6. Agreed'
  BY <1>1, <1>3 DEF Enter, Goes, Inv, Agreed, Inside
<1>7. Accounted'
  BY <1>1 DEF Enter, Unstored, Inv, Accounted, Inside
<1>8. Written'
  <2> SUFFICES ASSUME NEW d \in Requests
               PROVE  /\ pc'[d] # "auditing"
                      /\ ~(pc'[d] = "noting" /\ observed'[d].remember)
    BY DEF Written
  <2> QED BY <1>1, <1>3 DEF Enter, Inside
<1>9. ReceiptsTellTheStore'
  BY DEF Enter, Unstored, Inv, ReceiptsTellTheStore
<1> QED BY <1>4, <1>5, <1>6, <1>7, <1>8, <1>9 DEF Inv

\* The memory is written.
LEMMA RememberStep ==
  ASSUME Inv, NEW c \in Requests, Remember(c)
  PROVE  Inv'
<1>1. /\ lock = c /\ number[c] = Len(receipts) + 1 /\ number[c] \in Numbers
      /\ observed[c].remember /\ observed[c] \in Outcomes
      /\ \A d \in Requests \ {c} : pc[d] \notin Inside
  BY DEF Remember, Goes, Inv, Numbered, Agreed, Inside
<1>2. \A d \in Requests : pc'[d] = IF d = c THEN "auditing" ELSE pc[d]
  BY DEF Remember, Goes, Inv, TypeOK
<1>3. \A n \in Numbers : memories'[n] = IF n = number[c] THEN c ELSE memories[n]
  BY DEF Remember, Inv, TypeOK
<1>4. TypeOK'
  BY DEF Remember, Goes, Inv, TypeOK, Stages
<1>5. Numbered'
  BY <1>1, <1>2 DEF Remember, Inv, Numbered, Inside
<1>6. Agreed'
  <2>1. \A d \in Requests :
           /\ pc'[d] \in Inside \union {"observing"} => pc[d] \in Inside \union {"observing"}
           /\ pc'[d] \in {"remembering", "auditing"} => pc[d] \in {"remembering", "auditing"}
    BY <1>2 DEF Remember, Goes, Inside
  <2>2. observed' = observed
    BY DEF Remember
  <2> QED BY <2>1, <2>2, Zenon DEF Inv, Agreed
<1>7. Written'
  BY <1>1, <1>2, <1>3 DEF Remember, Written, Inside
<1>8. Accounted'
  BY <1>1, <1>2, <1>3 DEF Remember, Inv, Accounted, Inside
<1>9. ReceiptsTellTheStore'
  <2>1. Len(receipts) \in Nat /\ DOMAIN receipts = 1 .. Len(receipts)
    BY DEF Inv, TypeOK
  <2>2. \A n \in DOMAIN receipts : n \in Numbers /\ n # number[c]
    BY <1>1, <2>1, RequestsAssumption DEF Inv, TypeOK, Numbers
  <2> QED BY <2>2, <1>3 DEF Remember, Inv, ReceiptsTellTheStore
<1> QED BY <1>4, <1>5, <1>6, <1>7, <1>8, <1>9 DEF Inv

\* Its audit event is written.
LEMMA AuditStep ==
  ASSUME Inv, NEW c \in Requests, Audit(c)
  PROVE  Inv'
<1>1. /\ lock = c /\ number[c] = Len(receipts) + 1 /\ number[c] \in Numbers
      /\ observed[c].remember /\ observed[c] \in Outcomes
      /\ memories[number[c]] = c
      /\ \A d \in Requests \ {c} : pc[d] \notin Inside
  BY DEF Audit, Goes, Inv, Numbered, Agreed, Written, Inside
<1>2. \A d \in Requests : pc'[d] = IF d = c THEN "noting" ELSE pc[d]
  BY DEF Audit, Goes, Inv, TypeOK
<1>3. TypeOK'
  BY <1>1 DEF Audit, Goes, Inv, TypeOK, Stages
<1>4. Numbered'
  BY <1>1, <1>2 DEF Audit, Inv, Numbered, Inside
<1>5. Agreed'
  <2>1. \A d \in Requests :
           /\ pc'[d] \in Inside \union {"observing"} => pc[d] \in Inside \union {"observing"}
           /\ pc'[d] \in {"remembering", "auditing"} => pc[d] \in {"remembering", "auditing"}
    BY <1>2 DEF Audit, Goes, Inside
  <2>2. observed' = observed
    BY DEF Audit
  <2> QED BY <2>1, <2>2, Zenon DEF Inv, Agreed
<1>6. Written'
  BY <1>1, <1>2 DEF Audit, Written, Inside
<1>7. Accounted'
  BY <1>1, <1>2 DEF Audit, Inv, Accounted, Inside
<1>8. ReceiptsTellTheStore'
  BY DEF Audit, Inv, ReceiptsTellTheStore
<1> QED BY <1>3, <1>4, <1>5, <1>6, <1>7, <1>8 DEF Inv

\* The receipt is appended and the lock let go.
LEMMA NoteStep ==
  ASSUME Inv, NEW c \in Requests, Note(c)
  PROVE  Inv'
<1> DEFINE n == Len(receipts) + 1
           receipt == [of |-> c, written |-> observed[c].remember,
                       writes |-> observed[c].writes]
<1>1. /\ lock = c /\ number[c] = n /\ n \in Numbers
      /\ observed[c] \in Outcomes /\ (observed[c].remember <=> observed[c].writes)
      /\ observed[c].remember => memories[n] = c /\ n \in audits
      /\ \A d \in Requests \ {c} : pc[d] \notin Inside
  BY DEF Note, Goes, Inv, Numbered, Agreed, Written, Inside
<1>2. \A d \in Requests : pc'[d] = IF d = c THEN "answering" ELSE pc[d]
  BY DEF Note, Goes, Inv, TypeOK
<1>3. receipt \in [of : Requests, written : BOOLEAN, writes : BOOLEAN]
  BY <1>1 DEF Outcomes
<1>4. /\ receipts' = Append(receipts, receipt) /\ lock' = None
      /\ UNCHANGED <<observed, rejected, number, memories, audits, failures, torn>>
  BY DEF Note, Unstored
<1>5. /\ receipts' \in Seq([of : Requests, written : BOOLEAN, writes : BOOLEAN])
      /\ Len(receipts') = n /\ DOMAIN receipts' = DOMAIN receipts \union {n}
      /\ receipts'[n] = receipt
      /\ \A m \in DOMAIN receipts : receipts'[m] = receipts[m]
  <2> HIDE DEF receipt
  <2> QED BY <1>3, <1>4 DEF Inv, TypeOK
<1>6. TypeOK'
  BY <1>1, <1>4, <1>5 DEF Note, Goes, Inv, TypeOK, Stages, Numbers
<1>7. Numbered' /\ Agreed' /\ Written'
  BY <1>1, <1>2, <1>4 DEF Inv, Numbered, Agreed, Written, Inside
<1>8. Accounted'
  <2>1. \A d \in Requests, m \in Numbers :
            pc[d] \in {"auditing", "noting"} /\ number[d] = m => m = n
    BY <1>1 DEF Inside
  <2> QED BY <2>1, <1>1, <1>4, <1>5 DEF Inv, TypeOK, Accounted, Numbers
<1>9. ReceiptsTellTheStore'
  <2>1. ~observed[c].remember => memories[n] = None \/ n \in torn
    BY <1>1 DEF Inv, TypeOK, Accounted, Inside
  <2>2. \A m \in DOMAIN receipts' : m = n \/ m \in DOMAIN receipts
    BY <1>5
  <2>3. /\ receipts'[n].written <=> receipts'[n].writes
        /\ receipts'[n].written => memories[n] = receipts'[n].of /\ n \in audits
        /\ ~receipts'[n].written => memories[n] = None \/ n \in torn
    BY <1>1, <1>5, <2>1
  <2> HIDE DEF n, receipt
  <2> QED BY <2>2, <2>3, <1>4, <1>5 DEF Inv, ReceiptsTellTheStore
<1> QED BY <1>6, <1>7, <1>8, <1>9 DEF Inv

\* The store fails and the lock is let go.
LEMMA FailStep ==
  ASSUME Inv, NEW c \in Requests, Fail(c)
  PROVE  Inv'
<1>1. /\ pc[c] \in Inside /\ pc' = [pc EXCEPT ![c] = "broken"]
      /\ failures < MaxFailures /\ failures' = failures + 1
      /\ torn' = torn \union {number[c]} /\ lock' = None
      /\ UNCHANGED <<observed, receipts, rejected, number, memories, audits>>
  BY DEF Fail, Goes, Inside
<1>2. /\ number[c] = Len(receipts) + 1 /\ number[c] \in Numbers
      /\ \A d \in Requests \ {c} : pc[d] \notin Inside
  BY <1>1 DEF Inv, Numbered
<1>3. \A d \in Requests : pc'[d] = IF d = c THEN "broken" ELSE pc[d]
  BY <1>1 DEF Inv, TypeOK
<1>4. TypeOK'
  BY <1>1, <1>2, RequestsAssumption DEF Inv, TypeOK, Stages
<1>5. Numbered' /\ Agreed' /\ Written'
  BY <1>1, <1>2, <1>3 DEF Inv, Numbered, Agreed, Written, Inside
<1>6. Accounted'
  BY <1>1, <1>2, <1>3 DEF Inv, Accounted, Inside
<1>7. ReceiptsTellTheStore'
  BY <1>1 DEF Inv, ReceiptsTellTheStore
<1> QED BY <1>4, <1>5, <1>6, <1>7 DEF Inv

\* Nothing changes.
LEMMA Stutter == Inv /\ UNCHANGED vars => Inv'
  BY DEF Inv, vars, TypeOK, Numbered, Agreed, Written, Accounted,
         ReceiptsTellTheStore

\* Every step keeps the invariant.
LEMMA StepInv == Inv /\ [Next]_vars => Inv'
<1> SUFFICES ASSUME Inv, Next PROVE Inv'
  BY Stutter
<1>1. PICK c \in Requests : Begin(c) \/ Proceed(c)
  BY DEF Next
<1> QED BY <1>1, BeginStep, PlainStep, EnterStep, RememberStep, AuditStep,
           NoteStep, FailStep DEF Proceed

-----------------------------------------------------------------------------

\* What the threads know inside observe, and what the store holds of each
\* number, is an invariant of the live clicker.
THEOREM ClickerInductive == Spec => []Inv
<1> QED BY InitInv, StepInv, PTL DEF Spec

\* The session keeps its types, and never takes more than max_observations
\* (observe's check and its append are under one lock).
THEOREM ClickerTypeCorrect == Spec => []TypeOK
<1>1. Inv => TypeOK
  BY DEF Inv
<1> QED BY <1>1, ClickerInductive, PTL

\* A receipt that names a memory names that of its own observation, stored and
\* audited, however requests and failures of the store interleave.
THEOREM ReceiptsTrue == Spec => []ReceiptsTellTheStore
<1>1. Inv => ReceiptsTellTheStore
  BY DEF Inv
<1> QED BY <1>1, ClickerInductive, PTL

\* A thread gets to its answer by one count more, and leaves the count alone
\* before and after.
LEMMA CountStep ==
  ASSUME Inv, AnswersAreCountedOnce, [Next]_vars
  PROVE  AnswersAreCountedOnce'
<1> USE DEF Inv
<1>1. IsFiniteSet(Answered)
  BY RequestsAssumption, FS_Subset DEF Answered
<1>2. CASE UNCHANGED vars
  BY <1>2 DEF vars, AnswersAreCountedOnce, Answered
<1>3. ASSUME NEW c \in Requests, Begin(c) \/ Proceed(c)
      PROVE  AnswersAreCountedOnce'
  <2>1. CASE Reject(c) \/ Refuse(c) \/ Note(c)
    <3>1. c \notin Answered /\ Answered' = Answered \union {c}
      BY <2>1 DEF Reject, Refuse, Note, Goes, Answered, TypeOK
    <3>2. Cardinality(Answered') = Cardinality(Answered) + 1
      BY <3>1, <1>1, FS_AddElement
    <3>3. Len(receipts') + rejected' = Len(receipts) + rejected + 1
      <4>1. CASE Reject(c) \/ Refuse(c)
        BY <4>1 DEF Reject, Refuse, TypeOK
      <4>2. CASE Note(c)
        <5>1. [of |-> c, written |-> observed[c].remember, writes |-> observed[c].writes]
                  \in [of : Requests, written : BOOLEAN, writes : BOOLEAN]
          BY <4>2 DEF Note, Goes, Agreed, Inside, Outcomes
        <5> QED BY <5>1, <4>2 DEF Note, TypeOK
      <4> QED BY <2>1, <4>1, <4>2
    <3> QED BY <3>2, <3>3 DEF AnswersAreCountedOnce
  <2>2. CASE Begin(c) \/ Enter(c) \/ Remember(c) \/ Audit(c) \/ Fail(c) \/ Answer(c)
    <3>1. Answered' = Answered
      BY <2>2 DEF Begin, PostUnfit, Post, Enter, Remember, Audit, Fail, Answer,
                  Goes, Answered, TypeOK
    <3>2. receipts' = receipts /\ rejected' = rejected
      BY <2>2 DEF Begin, PostUnfit, Post, Enter, Remember, Audit, Fail, Answer
    <3> QED BY <3>1, <3>2 DEF AnswersAreCountedOnce
  <2> QED BY <1>3, <2>1, <2>2 DEF Proceed
<1> QED BY <1>2, <1>3 DEF Next

\* Receipts and rejections account for every answer once, whatever the order
\* in which threads reach the limit.
THEOREM AnswersCounted == Spec => []AnswersAreCountedOnce
<1>1. Init => AnswersAreCountedOnce
  <2> SUFFICES ASSUME Init PROVE AnswersAreCountedOnce
    OBVIOUS
  <2>1. Answered = {}
    BY DEF Init, Answered
  <2> QED BY <2>1, FS_EmptySet DEF Init, AnswersAreCountedOnce
<1>2. Inv /\ AnswersAreCountedOnce /\ [Next]_vars => AnswersAreCountedOnce'
  BY CountStep
<1> QED BY <1>1, <1>2, ClickerInductive, PTL DEF Spec
=============================================================================
