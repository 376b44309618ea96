----------------------------- MODULE Perception -----------------------------
(***************************************************************************)
(* The way of an observation from an adapter to the evidence plan and to   *)
(* what the overlay says of it: adapter event, perception envelope,        *)
(* firewall decision, evidence plan, Shadow Pointer receipt.  Each step is *)
(* a function of the one before it.                                        *)
(***************************************************************************)
EXTENDS Redaction

Consents == {"active", "paused", "revoked", "unknown"}
WebSources == {"terminal", "browser"}
MacSources == {"macos_app_window", "macos_accessibility"}
Trusts == {"local_observed", "external_untrusted", "hostile_until_safe"}

\* granted, allowed and private are what a macOS event says of its
\* permission, its app and its field; the others carry none of them.
Events(texts) ==
    {e \in [source : WebSources \union MacSources, consent : Consents,
            text : texts, raw : BOOLEAN, derived : BOOLEAN,
            granted : BOOLEAN, allowed : BOOLEAN, private : BOOLEAN] :
        \* The validators of the adapter events.
        IF e.source \in WebSources
        THEN /\ e.raw => e.consent = "active"
             /\ e.granted /\ e.allowed /\ ~e.private
        ELSE ~e.raw}

-----------------------------------------------------------------------------
(* Envelopes *)

\* Mutant of Route: only consent that was taken back counts as missing.
RouteUnlessRevoked(e) ==
    IF e.consent # "revoked" /\ e.granted /\ e.allowed /\ ~e.private
    THEN "firewall_required" ELSE "discard"

\* _macos_route, and the first lines of build_terminal_envelope and
\* build_browser_envelope.
Route(e) ==
    IF e.consent = "active" /\ e.granted /\ e.allowed /\ ~e.private
    THEN "firewall_required" ELSE "discard"

\* build_terminal_envelope, build_browser_envelope,
\* build_macos_app_window_envelope, build_macos_accessibility_envelope
Envelope(e) ==
    [consent |-> e.consent,
     trust   |-> IF e.source = "browser" THEN "external_untrusted" ELSE "local_observed",
     hint    |-> IF e.source = "macos_accessibility" /\ e.private
                 THEN "secret" ELSE "private_work",
     route   |-> Route(e),
     raw     |-> e.raw,
     derived |-> IF e.derived /\ Route(e) # "discard" THEN {"given"} ELSE {},
     third   |-> e.source = "browser",
     risk    |-> e.source = "browser" /\ Injected(e.text)]

\* The validator of PerceptionEventEnvelope: where it fails the builder raises.
ValidEnvelope(env) ==
    /\ env.raw => env.consent = "active" /\ env.route = "firewall_required"
    /\ env.risk => env.route = "firewall_required"
    /\ env.third /\ env.route = "discard" => env.derived = {}

-----------------------------------------------------------------------------
(* The firewall *)

\* assess_observation_text
TextVerdict(trust, text) ==
    IF Injected(text) \/ trust = "hostile_until_safe" THEN "quarantine"
    ELSE IF HasSecret(text) THEN "mask"
    ELSE IF trust = "external_untrusted" THEN "ephemeral_only"
    ELSE "memory_eligible"

Sensitivity(env, text) == IF HasSecret(text) THEN "secret" ELSE env.hint

Verdict(env, text) ==
    IF Sensitivity(env, text) = "secret" /\ ~HasSecret(text) THEN "discard"
    ELSE IF env.risk \/ Injected(text) THEN "quarantine"
    ELSE IF env.third /\ TextVerdict(env.trust, text) = "memory_eligible"
    THEN "ephemeral_only"
    ELSE TextVerdict(env.trust, text)

\* assess_perception_envelope.  No builder asks for the route "ephemeral_only".
Decision(env, text) ==
    IF env.route = "discard"
    THEN [verdict |-> "discard", sensitivity |-> env.hint, redactions |-> FALSE,
          eligible |-> FALSE]
    ELSE [verdict |-> Verdict(env, text), sensitivity |-> Sensitivity(env, text),
          redactions |-> HasSecret(text),
          eligible |-> Verdict(env, text) = "memory_eligible"]

\* The text that goes with the decision.
RedactedText(env, text) == IF env.route = "discard" THEN <<>> ELSE Redacted(text)

\* The validator of FirewallDecisionRecord.
ValidDecision(dec) ==
    /\ dec.verdict \in {"discard", "quarantine"} => ~dec.eligible
    /\ dec.sensitivity = "secret" /\ dec.verdict # "discard" => dec.redactions

-----------------------------------------------------------------------------
(* The evidence plan *)

Clean(env, dec) == dec.sensitivity # "secret" /\ ~env.third

KeptDerived(env, dec) ==
    CASE dec.verdict \in {"discard", "quarantine"} -> {}
      [] dec.verdict = "mask" -> {"redacted"}
      [] OTHER -> env.derived

KeepsRaw(env, dec) == dec.verdict = "memory_eligible" /\ env.raw /\ Clean(env, dec)

\* build_evidence_eligibility_plan
Plan(env, dec) ==
    [mode |-> IF dec.verdict \in {"discard", "quarantine"} THEN "discard"
              ELSE IF KeepsRaw(env, dec) THEN "raw_and_derived"
              ELSE IF KeptDerived(env, dec) # {} THEN "derived_only"
              ELSE "metadata_only",
     raw         |-> KeepsRaw(env, dec),
     derived     |-> KeptDerived(env, dec),
     eligible    |-> /\ dec.verdict = "memory_eligible" /\ dec.eligible
                     /\ env.raw \/ env.derived # {}
                     /\ Clean(env, dec),
     sensitivity |-> dec.sensitivity,
     third       |-> env.third]

\* The validator of EvidenceEligibilityPlan.
ValidPlan(plan) ==
    /\ plan.mode = "raw_and_derived" <=> plan.raw
    /\ plan.mode \in {"discard", "metadata_only"} =>
          plan.derived = {} /\ ~plan.raw /\ ~plan.eligible
    /\ plan.sensitivity = "secret" \/ plan.third => ~plan.eligible /\ ~plan.raw

-----------------------------------------------------------------------------
(* The overlay's receipt *)

\* _state_flags
PointerState(env, dec, plan) ==
    CASE env.consent = "paused" -> "paused"
      [] env.consent \in {"revoked", "unknown"} -> "off"
      [] env.consent = "active" /\ env.route = "discard" -> "private_masking"
      [] env.consent = "active" /\ env.route # "discard" ->
            CASE dec.verdict = "quarantine" -> "needs_approval"
              [] dec.verdict = "mask" -> "private_masking"
              [] dec.verdict = "ephemeral_only" -> "observing"
              [] dec.verdict = "memory_eligible" /\ plan.eligible -> "observing"
              [] OTHER -> "segmenting"

\* build_shadow_pointer_capture_receipt
Receipt(env, dec, plan) ==
    [state     |-> PointerState(env, dec, plan),
     observing |-> env.consent = "active" /\ env.route # "discard",
     writes    |-> /\ env.consent = "active" /\ env.route # "discard"
                   /\ dec.verdict = "memory_eligible" /\ plan.eligible,
     confirms  |-> PointerState(env, dec, plan) = "needs_approval"]

\* The validator of ShadowPointerCaptureReceipt.
ValidReceipt(dec, plan, receipt) ==
    receipt.writes =>
        /\ dec.verdict = "memory_eligible"
        /\ plan.mode \notin {"discard", "metadata_only"}
        /\ receipt.state \notin {"off", "paused", "private_masking", "needs_approval"}

-----------------------------------------------------------------------------
(* handoff_terminal_event, handoff_browser_event, ..., _build_handoff_result *)

Raises(e) == ~ValidEnvelope(Envelope(e))

DecisionOn(e) == Decision(Envelope(e), e.text)
PlanFor(e) == Plan(Envelope(e), DecisionOn(e))

\* The result of a handoff, as far as its callers use it.
Handoff(e) ==
    LET env == Envelope(e)
        dec == Decision(env, e.text)
        plan == Plan(env, dec)
    IN [plan |-> plan, text |-> RedactedText(env, e.text), receipt |-> Receipt(env, dec, plan)]
=============================================================================
