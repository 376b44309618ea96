--------------------------- MODULE AdapterEndpoint ---------------------------
(***************************************************************************)
(* The adapter endpoint and the other callers of the perception pipeline.  *)
(* The browser extension and the terminal hook post events to a threading  *)
(* HTTP server, one thread to a request; each result is appended to a list *)
(* under a lock that is not reentrant, and GET /results copies the list.   *)
(* Code of the same process hands adapter events of all four sources to    *)
(* the pipeline directly and has the overlay's receipt made.               *)
(*                                                                         *)
(* A caller makes one call: pc says how far it has come, request what was  *)
(* asked and outcome what was made of it.                                  *)
(***************************************************************************)
EXTENDS Perception, FiniteSets

CONSTANTS
    Callers,
    Posts,      \* for each caller, the payloads it may post
    Locals,     \* for each caller, the events it may hand over itself
    None

\* What is wrong with a request, if anything.
Forms == {"good",
          "unreadable",  \* too large, not JSON or not an object
          "misrouted",   \* another path, or a client of another host
          "escalated",   \* a claim of more trust, or of no third-party content
          "malformed",   \* refused by the validators of the adapter event
          "local"}       \* not a request: a call within the process

ASSUME CallersAssumption ==
    /\ IsFiniteSet(Callers) /\ None \notin Callers
    /\ \A c \in Callers :
          /\ \A payload \in Posts[c] :
                 /\ payload.form \in Forms \ {"local"}
                 /\ payload.event.source \in WebSources
                 /\ payload.event.text \in Seq(Pieces)
          /\ \A event \in Locals[c] : event.text \in Seq(Pieces)

VARIABLES
    pc,
    request,
    outcome,
    results,  \* _ingest_results
    lock,     \* the holder of _ingest_lock
    shown,    \* the list as a GET copied it
    asked     \* history: the posts that were answered when a GET came in

vars == <<pc, request, outcome, results, lock, shown, asked>>
-----------------------------------------------------------------------------
(* Results *)

\* _reject, _validation_reject
Rejection == [accepted |-> FALSE]

\* _accepted, and the plan that is made on the way and dropped here.
\* secret_retained looks for the beginning of a fake token.
Acceptance(e) ==
    LET handoff == Handoff(e)
    IN [accepted |-> TRUE, plan |-> handoff.plan, text |-> handoff.text,
        secret |-> /\ e.source = "terminal"
                   /\ \E i \in DOMAIN e.text :
                         /\ e.text[i].kind = "fake_cortex_token"
                         /\ <<i, 1>> \in Range(handoff.text)]

\* The refusals of _ingest_browser_payload and _ingest_terminal_payload.
Refused(payload) == payload.form # "good" \/ payload.event.raw

\* What a thread does not catch.
Fails(payload) == ~Refused(payload) /\ Raises(payload.event)

-----------------------------------------------------------------------------
(* POST /adapter/browser, POST /adapter/terminal *)

Goes(c, from, to) == pc[c] = from /\ pc' = [pc EXCEPT ![c] = to]

Unreadable(payload) == payload.form = "unreadable"

\* do_POST up to record_ingest, and with it ingest_adapter_payload: nothing
\* of this is shared.  A body that cannot be read is answered and not
\* recorded.  The handoff is outside the try that catches ValidationError:
\* where a builder raises, the thread ends without a reply.
Post(c, payload) ==
    /\ Goes(c, "idle", CASE Unreadable(payload) -> "recorded"
                         [] Fails(payload) -> "dropped"
                         [] OTHER -> "judged")
    /\ request' = [request EXCEPT ![c] = payload]
    /\ outcome' = [outcome EXCEPT ![c] =
                      CASE Refused(payload) -> Rejection
                        [] Fails(payload) -> None
                        [] OTHER -> Acceptance(payload.event)]
    /\ UNCHANGED <<results, lock, shown, asked>>

\* record_ingest waits for the lock,
EnterRecord(c) ==
    /\ Goes(c, "judged", "recording")
    /\ lock = None /\ lock' = c
    /\ UNCHANGED <<request, outcome, results, shown, asked>>

\* Mutant of Record: the list starts anew with each result.
RecordLatest(c) ==
    /\ Goes(c, "recording", "recorded")
    /\ results' = <<outcome[c]>>
    /\ lock' = None
    /\ UNCHANGED <<request, outcome, shown, asked>>

\* appends and lets it go.
Record(c) ==
    /\ Goes(c, "recording", "recorded")
    /\ results' = Append(results, outcome[c])
    /\ lock' = None
    /\ UNCHANGED <<request, outcome, shown, asked>>

\* _write_json; the client may have gone.
Reply(c) ==
    /\ \/ Goes(c, "recorded", "done")
       \/ Goes(c, "recorded", "dropped")
    /\ UNCHANGED <<request, outcome, results, lock, shown, asked>>

-----------------------------------------------------------------------------
(* GET /results *)

IsRecorded(c) == request[c] # None /\ request[c].form \notin {"unreadable", "local"}

Ask(c) ==
    /\ Goes(c, "idle", "asking")
    /\ asked' = [asked EXCEPT ![c] = {d \in Callers : pc[d] = "done" /\ IsRecorded(d)}]
    /\ UNCHANGED <<request, outcome, results, lock, shown>>

\* ingest_results, called by results
EnterResults(c) ==
    /\ Goes(c, "asking", "copying")
    /\ lock = None /\ lock' = c
    /\ UNCHANGED <<request, outcome, results, shown, asked>>

\* Mutant of Results: the lock is kept for the counting that follows.
ResultsUnderLock(c) ==
    /\ Goes(c, "copying", "copied")
    /\ shown' = [shown EXCEPT ![c] = results]
    /\ UNCHANGED <<request, outcome, results, lock, asked>>

Results(c) ==
    /\ Goes(c, "copying", "copied")
    /\ shown' = [shown EXCEPT ![c] = results]
    /\ lock' = None
    /\ UNCHANGED <<request, outcome, results, asked>>

Show(c) ==
    /\ \/ Goes(c, "copied", "done")
       \/ Goes(c, "copied", "dropped")
    /\ UNCHANGED <<request, outcome, results, lock, shown, asked>>

-----------------------------------------------------------------------------
(* Callers within the process *)

\* handoff_terminal_event, handoff_browser_event, handoff_macos_*, and then
\* build_shadow_pointer_capture_receipt.
HandOver(c, event) ==
    /\ Goes(c, "idle", IF Raises(event) THEN "dropped" ELSE "done")
    /\ request' = [request EXCEPT ![c] = [form |-> "local", event |-> event]]
    /\ outcome' = [outcome EXCEPT ![c] =
           IF Raises(event) THEN None ELSE Handoff(event)]
    /\ UNCHANGED <<results, lock, shown, asked>>

-----------------------------------------------------------------------------

Init ==
    /\ pc = [c \in Callers |-> "idle"]
    /\ request = [c \in Callers |-> None]
    /\ outcome = [c \in Callers |-> None]
    /\ results = <<>>
    /\ lock = None
    /\ shown = [c \in Callers |-> <<>>]
    /\ asked = [c \in Callers |-> {}]

Begin(c) ==
    \/ \E payload \in Posts[c] : Post(c, payload)
    \/ \E event \in Locals[c] : HandOver(c, event)
    \/ Ask(c)

\* What a thread does once its request has come in.
Proceed(c) ==
    \/ EnterRecord(c) \/ Record(c) \/ Reply(c)
    \/ EnterResults(c) \/ Results(c) \/ Show(c)

Next == \E c \in Callers : Begin(c) \/ Proceed(c)

\* Threads are scheduled.  Each of finitely many callers takes the lock at
\* most once, so weak fairness is enough for those who wait for it.
Spec == Init /\ [][Next]_vars /\ \A c \in Callers : WF_vars(Proceed(c))

-----------------------------------------------------------------------------
(* Properties *)

Judged(c) == outcome[c] # None /\ "plan" \in DOMAIN outcome[c]
Event(c) == request[c].event
ThePlan(c) == outcome[c].plan

\* Whatever the source: evidence is kept in any form only under active
\* consent; the raw capture or the text as it was given only if the text has
\* neither a secret nor an injection; and nothing a browser shows is ever
\* eligible for memory (perception_adapters, firewall, evidence_eligibility).
KeptIsConsentedAndClean ==
    \A c \in Callers : Judged(c) =>
        /\ ThePlan(c).raw \/ ThePlan(c).derived # {} \/ ThePlan(c).eligible =>
              Event(c).consent = "active"
        /\ ThePlan(c).raw \/ "given" \in ThePlan(c).derived \/ ThePlan(c).eligible =>
              ~HasSecret(Event(c).text) /\ ~Injected(Event(c).text)
        /\ ThePlan(c).eligible \/ ThePlan(c).raw => Event(c).source # "browser"

\* Where no pattern matches a text twice, redaction leaves nothing of any
\* secret and everything else (redact_sensitive_text).
LoneSecretsAreReplaced ==
    \A c \in Callers :
        pc[c] \in {"judged", "done"} /\ Judged(c) /\ outcome[c].text # <<>>
        /\ LoneSecrets(Event(c).text) =>
            Left(Event(c).text, outcome[c].text)
                = {i \in DOMAIN Event(c).text : ~IsSecret(Event(c).text[i])}

\* A reply to GET /results counts every post that had been answered when the
\* request came in (record_ingest comes before the reply).
ResultsCountWhatWasAnswered ==
    \A c \in Callers :
        pc[c] \in {"copied", "done"} => Cardinality(asked[c]) <= Len(shown[c])

\* Every call ends, with a reply or with a closed connection: no thread waits
\* for the lock for ever.
EveryCallEnds ==
    \A c \in Callers : pc[c] # "idle" ~> pc[c] \in {"done", "dropped"}

\* docs/security/secret-pii-local-data-policy.md:26, "Raw secrets are replaced
\* with `[REDACTED_SECRET]`", of every text that comes out of the firewall.
SecretsAreReplaced ==
    \A c \in Callers :
        Judged(c) => SecretsLeft(Event(c).text, outcome[c].text) = {}
=============================================================================
