----------------------------- MODULE LiveClicker -----------------------------
(***************************************************************************)
(* The live clicker's session behind its threading HTTP server: pages post *)
(* observations, each goes through the perception pipeline, an eligible    *)
(* one becomes a memory and an audit event in the session's store, and     *)
(* every one gets a receipt.  One lock, held from the numbering of an      *)
(* observation to its receipt, orders the requests; the store is written   *)
(* in one transaction per row, and a transaction may fail.                 *)
(*                                                                         *)
(* A request is served by a thread of its own.                             *)
(***************************************************************************)
EXTENDS Perception, FiniteSets

CONSTANTS
    Requests,
    Texts,
    MaxObservations,  \* max_observations
    MaxFailures,      \* bound of the store's failures
    None

ASSUME RequestsAssumption ==
    /\ MaxObservations \in Nat \ {0} /\ MaxFailures \in Nat
    /\ IsFiniteSet(Requests) /\ None \notin Requests

VARIABLES
    pc,
    observed,  \* what the pipeline makes of each request's observation, or None
    receipts,  \* _receipts: entry n is that of event live_clicker_obs_n
    rejected,  \* rejected_observation_count
    lock,      \* the holder of _lock
    number,    \* sequence, in a thread inside observe
    memories,  \* the store's memories: by number, the request they tell of
    audits,    \* numbers of the store's audit events
    failures,
    torn       \* history: numbers of the observations whose writing failed

vars == <<pc, observed, receipts, rejected, lock, number, memories, audits,
          failures, torn>>

Numbers == 1 .. MaxObservations
Observations == [local : BOOLEAN, text : Texts]
-----------------------------------------------------------------------------
(* The pipeline *)

\* _build_envelope.  There is no raw capture, and consent is given by the page.
ClickerEnvelope(o) ==
    [consent |-> "active",
     trust   |-> IF o.local THEN "local_observed" ELSE "external_untrusted",
     hint    |-> IF o.local THEN "low" ELSE "private_work",
     route   |-> "firewall_required",
     raw     |-> FALSE,
     derived |-> {"given"},
     third   |-> ~o.local,
     risk    |-> FALSE]

ClickerPlan(o) == Plan(ClickerEnvelope(o), Decision(ClickerEnvelope(o), o.text))
ClickerReceipt(o) ==
    Receipt(ClickerEnvelope(o), Decision(ClickerEnvelope(o), o.text), ClickerPlan(o))

\* What observe goes by: whether to write a memory, and what the overlay's
\* receipt says of it.
Outcome(o) == [remember |-> o.local /\ ClickerPlan(o).eligible,
               writes   |-> ClickerReceipt(o).writes]

-----------------------------------------------------------------------------
(* do_POST *)

Goes(c, from, to) == pc[c] = from /\ pc' = [pc EXCEPT ![c] = to]

Unstored == <<memories, audits, failures, torn>>

\* A request that _observation_request_error finds fault with, that is too
\* large, or whose payload is refused by LiveClickerObservationInput.
PostUnfit(c) ==
    /\ Goes(c, "idle", "rejecting")
    /\ UNCHANGED <<observed, receipts, rejected, lock, number, Unstored>>

\* The pipeline runs under the lock, but nothing in it depends on the session.
Post(c, o) ==
    /\ Goes(c, "idle", "observing")
    /\ observed' = [observed EXCEPT ![c] = Outcome(o)]
    /\ UNCHANGED <<receipts, rejected, lock, number, Unstored>>

\* record_rejection
Reject(c) ==
    /\ Goes(c, "rejecting", "answering")
    /\ lock = None
    /\ rejected' = rejected + 1
    /\ UNCHANGED <<observed, receipts, lock, number, Unstored>>

\* Mutant of Refuse: the handler that catches every ValueError comes first, so
\* that the refusal is counted by record_rejection again.
RefuseTwice(c) ==
    /\ Goes(c, "observing", "rejecting")
    /\ lock = None /\ Len(receipts) >= MaxObservations
    /\ rejected' = rejected + 1
    /\ UNCHANGED <<observed, receipts, lock, number, Unstored>>

\* observe, past the limit.
Refuse(c) ==
    /\ Goes(c, "observing", "answering")
    /\ lock = None /\ Len(receipts) >= MaxObservations
    /\ rejected' = rejected + 1
    /\ UNCHANGED <<observed, receipts, lock, number, Unstored>>

\* Mutant of Enter: a free session gives the number out before it is locked.
EnterUnlocked(c) ==
    /\ Goes(c, "observing", IF observed[c].remember THEN "remembering" ELSE "noting")
    /\ Len(receipts) < MaxObservations
    /\ number' = [number EXCEPT ![c] = Len(receipts) + 1]
    /\ UNCHANGED <<observed, receipts, rejected, lock, Unstored>>

\* observe takes the lock and numbers the observation, and what follows
\* depends on the evidence plan.
Enter(c) ==
    /\ Goes(c, "observing", IF observed[c].remember THEN "remembering" ELSE "noting")
    /\ lock = None /\ lock' = c
    /\ Len(receipts) < MaxObservations
    /\ number' = [number EXCEPT ![c] = Len(receipts) + 1]
    /\ UNCHANGED <<observed, receipts, rejected, Unstored>>

\* add_memory, which replaces the row of the same id.
Remember(c) ==
    /\ Goes(c, "remembering", "auditing")
    /\ memories' = [memories EXCEPT ![number[c]] = c]
    /\ UNCHANGED <<observed, receipts, rejected, lock, number, audits, failures, torn>>

\* add_audit_event
Audit(c) ==
    /\ Goes(c, "auditing", "noting")
    /\ audits' = audits \union {number[c]}
    /\ UNCHANGED <<observed, receipts, rejected, lock, number, memories, failures, torn>>

\* The receipt is appended, and the lock let go.
Note(c) ==
    /\ Goes(c, "noting", "answering")
    /\ receipts' = Append(receipts,
          [of |-> c, written |-> observed[c].remember, writes |-> observed[c].writes])
    /\ lock' = None
    /\ UNCHANGED <<observed, rejected, number, Unstored>>

\* Mutant of Fail: the lock is released at the end of observe and not on the
\* way of an exception.
FailLocked(c) ==
    /\ \/ Goes(c, "remembering", "broken")
       \/ Goes(c, "auditing", "broken")
       \/ Goes(c, "noting", "broken") /\ observed[c].remember
    /\ failures < MaxFailures /\ failures' = failures + 1
    /\ torn' = torn \union {number[c]}
    /\ UNCHANGED <<observed, receipts, rejected, lock, number, memories, audits>>

\* A transaction of the store, or one of the searches that follow the writes,
\* fails: do_POST does not catch sqlite3.Error, so the thread ends without a
\* reply, and the with statement releases the lock.
Fail(c) ==
    /\ \/ Goes(c, "remembering", "broken")
       \/ Goes(c, "auditing", "broken")
       \/ Goes(c, "noting", "broken") /\ observed[c].remember
    /\ failures < MaxFailures /\ failures' = failures + 1
    /\ torn' = torn \union {number[c]}
    /\ lock' = None
    /\ UNCHANGED <<observed, receipts, rejected, number, memories, audits>>

\* _write_json; the client may have gone.
Answer(c) ==
    /\ \/ Goes(c, "answering", "done")
       \/ Goes(c, "answering", "dropped")
    /\ UNCHANGED <<observed, receipts, rejected, lock, number, Unstored>>

-----------------------------------------------------------------------------

Init ==
    /\ pc = [c \in Requests |-> "idle"]
    /\ observed = [c \in Requests |-> None]
    /\ receipts = <<>>
    /\ rejected = 0
    /\ lock = None
    /\ number = [c \in Requests |-> 0]
    /\ memories = [n \in Numbers |-> None]
    /\ audits = {}
    /\ failures = 0
    /\ torn = {}

Begin(c) == PostUnfit(c) \/ \E o \in Observations : Post(c, o)

Proceed(c) ==
    \/ Reject(c) \/ Refuse(c) \/ Enter(c) \/ Remember(c) \/ Audit(c) \/ Note(c)
    \/ Fail(c) \/ Answer(c)

Next == \E c \in Requests : Begin(c) \/ Proceed(c)

\* Threads are scheduled.  Each of finitely many requests takes the lock at
\* most twice, so weak fairness is enough for those who wait for it.
Spec == Init /\ [][Next]_vars /\ \A c \in Requests : WF_vars(Proceed(c))

-----------------------------------------------------------------------------
(* Properties *)

Stages == {"idle", "observing", "remembering", "auditing", "noting", "rejecting",
           "answering", "done", "dropped", "broken"}

TypeOK ==
    /\ pc \in [Requests -> Stages]
    /\ observed \in [Requests -> [remember : BOOLEAN, writes : BOOLEAN] \union {None}]
    /\ receipts \in Seq([of : Requests, written : BOOLEAN, writes : BOOLEAN])
    /\ Len(receipts) <= MaxObservations
    /\ rejected \in Nat
    /\ lock \in Requests \union {None}
    /\ number \in [Requests -> Numbers \union {0}]
    /\ memories \in [Numbers -> Requests \union {None}]
    /\ audits \subseteq Numbers
    /\ failures \in 0 .. MaxFailures
    /\ torn \subseteq Numbers

\* A receipt that says a memory was written names one that is in the store,
\* tells of this very observation and has its audit event; a receipt that says
\* none was written names none, unless a failed observation of the same number
\* left one behind (observe numbers by the receipts there are).
ReceiptsTellTheStore ==
    \A n \in DOMAIN receipts :
        LET receipt == receipts[n]
        IN /\ receipt.written <=> receipt.writes
           /\ receipt.written => memories[n] = receipt.of /\ n \in audits
           /\ ~receipt.written => memories[n] = None \/ n \in torn

Answered == {c \in Requests : pc[c] \in {"answering", "done", "dropped"}}

\* Every request that gets as far as an answer is counted once: by a receipt
\* or by the count of rejections (do_POST's two ways to a rejection).
AnswersAreCountedOnce == Len(receipts) + rejected = Cardinality(Answered)

\* Every request ends, with a reply or with a closed connection, whatever the
\* store does to the ones before it.
EveryRequestEnds ==
    \A c \in Requests : pc[c] # "idle" ~> pc[c] \in {"done", "dropped", "broken"}
=============================================================================
