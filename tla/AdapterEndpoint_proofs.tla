------------------------ MODULE AdapterEndpoint_proofs ------------------------
(***************************************************************************)
(* First the perception pipeline, for any event whatever its text: past    *)
(* the envelope no validator fails, what is kept was consented to, and the *)
(* overlay's receipt tells the truth.  Then redaction, for a text of any   *)
(* length, and the endpoint, for any number of callers and any payloads.   *)
(***************************************************************************)
EXTENDS AdapterEndpoint, FiniteSetTheorems, SequenceTheorems, WellFoundedInduction, TLAPS

(* The pipeline *)

\* What the firewall lets through to memory.
LEMMA EligibleVerdict ==
  ASSUME NEW e, DecisionOn(e).verdict = "memory_eligible"
  PROVE  /\ Envelope(e).route = "firewall_required" /\ e.consent = "active"
         /\ ~HasSecret(e.text) /\ ~Injected(e.text)
         /\ Envelope(e).trust = "local_observed" /\ ~Envelope(e).third
         /\ DecisionOn(e).eligible
<1>1. Envelope(e).route # "discard"
  BY DEF DecisionOn, Decision
<1>2. DecisionOn(e).verdict = Verdict(Envelope(e), e.text)
  BY <1>1 DEF DecisionOn, Decision
<1>3. ~Injected(e.text) /\ TextVerdict(Envelope(e).trust, e.text) = "memory_eligible"
  BY <1>2 DEF Verdict
<1>4. ~HasSecret(e.text) /\ Envelope(e).trust # "external_untrusted"
  BY <1>3 DEF TextVerdict
<1>5. e.source # "browser"
  BY <1>4 DEF Envelope
<1> QED BY <1>1, <1>3, <1>4, <1>5 DEF Envelope, Route, DecisionOn, Decision

\* An injection or a secret takes the verdict out of those that keep a text as
\* it was given.
LEMMA UncleanVerdict ==
  ASSUME NEW env, NEW text, Injected(text) \/ HasSecret(text)
  PROVE  Verdict(env, text) \in {"discard", "quarantine", "mask"}
  BY DEF Verdict, TextVerdict

\* Whatever is kept of an event was consented to.
LEMMA KeptVerdict ==
  ASSUME NEW e, KeptDerived(Envelope(e), DecisionOn(e)) # {}
  PROVE  /\ e.consent = "active"
         /\ "given" \in KeptDerived(Envelope(e), DecisionOn(e)) =>
               ~HasSecret(e.text) /\ ~Injected(e.text)
<1>1. Envelope(e).route # "discard"
  BY DEF KeptDerived, DecisionOn, Decision
<1>2. DecisionOn(e).verdict = Verdict(Envelope(e), e.text)
  BY <1>1 DEF DecisionOn, Decision
<1>3. e.consent = "active"
  BY <1>1 DEF Envelope, Route
<1>4. ASSUME "given" \in KeptDerived(Envelope(e), DecisionOn(e))
      PROVE  ~HasSecret(e.text) /\ ~Injected(e.text)
  <2>1. DecisionOn(e).verdict \notin {"discard", "quarantine", "mask"}
    BY <1>4 DEF KeptDerived
  <2> QED BY <2>1, <1>2, UncleanVerdict
<1> QED BY <1>3, <1>4

\* Evidence is kept in any form only under active consent, in the clear only
\* if it is clean, and for memory only if it is no web page's (Route, the
\* firewall's verdicts and the plan put together).
THEOREM KeptIsClean ==
  ASSUME NEW e
  PROVE  LET plan == PlanFor(e)
         IN /\ plan.raw \/ plan.derived # {} \/ plan.eligible => e.consent = "active"
            /\ plan.raw \/ "given" \in plan.derived \/ plan.eligible =>
                  ~HasSecret(e.text) /\ ~Injected(e.text)
            /\ plan.eligible \/ plan.raw => e.source # "browser"
<1>1. /\ PlanFor(e).raw => DecisionOn(e).verdict = "memory_eligible"
      /\ PlanFor(e).eligible => DecisionOn(e).verdict = "memory_eligible"
      /\ PlanFor(e).derived = KeptDerived(Envelope(e), DecisionOn(e))
  BY DEF PlanFor, Plan, KeepsRaw
<1>2. ~Envelope(e).third => e.source # "browser"
  BY DEF Envelope
<1> QED BY <1>1, <1>2, EligibleVerdict, KeptVerdict

\* Past the envelope no validator fails: the decision, the plan and the
\* overlay's receipt always satisfy their contracts (the adapters check none
\* of them before they hand over).
THEOREM PipelineIsTotal ==
  ASSUME NEW e, e \in Events({e.text})
  PROVE  /\ ValidDecision(DecisionOn(e))
         /\ ValidPlan(PlanFor(e))
         /\ ValidReceipt(DecisionOn(e), PlanFor(e), Handoff(e).receipt)
<1> DEFINE env == Envelope(e)
           dec == DecisionOn(e)
           plan == PlanFor(e)
<1>1. ValidDecision(dec)
  <2>1. dec.verdict \in {"discard", "quarantine"} => ~dec.eligible
    BY DEF DecisionOn, Decision
  <2>2. ASSUME dec.sensitivity = "secret", dec.verdict # "discard" PROVE dec.redactions
    <3>1. env.route # "discard"
      BY <2>2 DEF DecisionOn, Decision
    <3>2. ~e.private \/ e.source # "macos_accessibility"
      BY <3>1 DEF Envelope, Route
    <3>3. env.hint # "secret"
      BY <3>2 DEF Envelope
    <3> QED BY <2>2, <3>1, <3>3 DEF DecisionOn, Decision, Sensitivity
  <2> QED BY <2>1, <2>2 DEF ValidDecision
<1>2. /\ plan.raw = KeepsRaw(env, dec) /\ plan.derived = KeptDerived(env, dec)
      /\ plan.third = env.third /\ plan.sensitivity = dec.sensitivity
      /\ plan.eligible <=> /\ dec.verdict = "memory_eligible" /\ dec.eligible
                           /\ env.raw \/ env.derived # {}
                           /\ Clean(env, dec)
  BY DEF PlanFor, Plan
<1>3. /\ plan.raw <=> /\ dec.verdict = "memory_eligible"
                       /\ env.raw /\ Clean(env, dec)
  BY <1>2 DEF KeepsRaw, Envelope
<1>4. plan.mode = IF dec.verdict \in {"discard", "quarantine"} THEN "discard"
                  ELSE IF KeepsRaw(env, dec) THEN "raw_and_derived"
                  ELSE IF KeptDerived(env, dec) # {} THEN "derived_only"
                  ELSE "metadata_only"
  BY DEF PlanFor, Plan
<1>5. /\ plan.mode = "raw_and_derived" <=> plan.raw
      /\ plan.mode = "discard" => dec.verdict \in {"discard", "quarantine"}
      /\ plan.mode = "metadata_only" => ~plan.raw /\ plan.derived = {}
  <2> HIDE DEF env, dec, plan
  <2> QED BY <1>2, <1>3, <1>4
<1>6. plan.eligible => plan.raw \/ plan.derived # {}
  <2>1. dec.verdict = "memory_eligible" => KeptDerived(env, dec) = env.derived
    BY DEF KeptDerived
  <2> QED BY <2>1, <1>2, <1>3
<1>7. dec.verdict \in {"discard", "quarantine"} => plan.derived = {} /\ ~plan.raw
  BY <1>2, <1>3 DEF KeptDerived
<1>8. ValidPlan(plan)
  <2>1. plan.sensitivity = "secret" \/ plan.third => ~plan.eligible /\ ~plan.raw
    BY <1>2, <1>3 DEF Clean
  <2> QED BY <2>1, <1>2, <1>5, <1>6, <1>7 DEF ValidPlan
<1>9. ValidReceipt(dec, plan, Receipt(env, dec, plan))
  <2> SUFFICES ASSUME env.consent = "active", env.route # "discard",
                      dec.verdict = "memory_eligible", plan.eligible
               PROVE  /\ plan.mode \notin {"discard", "metadata_only"}
                      /\ PointerState(env, dec, plan) = "observing"
    BY DEF ValidReceipt, Receipt
  <2>1. plan.mode \notin {"discard", "metadata_only"}
    BY <1>5, <1>6
  <2> QED BY <2>1 DEF PointerState
<1> QED BY <1>1, <1>8, <1>9 DEF Handoff, PlanFor, DecisionOn

\* The overlay says that memory may be written exactly when the plan lets it
\* (_state_flags and the eligibility plan are written apart).
THEOREM OverlayTellsThePlan ==
  ASSUME NEW e
  PROVE  Handoff(e).receipt.writes <=> PlanFor(e).eligible
<1>1. PlanFor(e).eligible => DecisionOn(e).verdict = "memory_eligible"
  BY DEF PlanFor, Plan
<1>2. Envelope(e).consent = e.consent
  BY DEF Envelope
<1> QED BY <1>1, <1>2, EligibleVerdict
        DEF Handoff, Receipt, PlanFor, DecisionOn

\* The one kind of event a builder raises on: a browser's, with an instruction
\* in its text, without active consent (build_browser_envelope reports the risk
\* and the route of a discarded event together, which the contract refuses).
THEOREM RaisesExactly ==
  ASSUME NEW texts, NEW e \in Events(texts)
  PROVE  Raises(e) <=> /\ e.source = "browser" /\ Injected(e.text)
                       /\ e.consent # "active"
<1>1. e.raw => e.consent = "active" /\ e.granted /\ e.allowed /\ ~e.private
  BY DEF Events
<1>2. e.source = "browser" => e.granted /\ e.allowed /\ ~e.private
  BY DEF Events, WebSources
<1>3. Envelope(e).raw => /\ Envelope(e).consent = "active"
                        /\ Envelope(e).route = "firewall_required"
  BY <1>1 DEF Envelope, Route
<1>4. Envelope(e).route = "discard" => Envelope(e).derived = {}
  BY DEF Envelope
<1>5. Envelope(e).risk <=> e.source = "browser" /\ Injected(e.text)
  BY DEF Envelope
<1>6. e.source = "browser" =>
        (Envelope(e).route = "firewall_required" <=> e.consent = "active")
  BY <1>2 DEF Envelope, Route
<1> QED BY <1>3, <1>4, <1>5, <1>6 DEF Raises, ValidEnvelope

-----------------------------------------------------------------------------
(* Redaction.  Texts have any length, so this is induction over data: the  *)
(* provers cannot instantiate a theorem that takes an operator, but that a *)
(* set of numbers has a least element speaks of sets alone, and serves.    *)

\* A set of natural numbers that is not empty has a least element.
LEMMA LeastOf ==
  ASSUME NEW T \in SUBSET Nat, T # {}
  PROVE  \E n \in T : \A m \in T : n <= m
<1>1. PICK n \in T : \A m \in T : <<m, n>> \notin OpToRel(<, Nat)
  BY NatLessThanWellFounded, WFMin
<1>2. ASSUME NEW m \in T, m < n PROVE FALSE
  <2>1. <<m, n>> \in Nat \X Nat /\ <<m, n>>[1] < <<m, n>>[2]
    BY <1>2
  <2>2. OpToRel(<, Nat) = {ss \in Nat \X Nat : ss[1] < ss[2]}
    BY DEF OpToRel
  <2>3. <<m, n>> \in OpToRel(<, Nat)
    BY <2>1, <2>2
  <2> QED BY <1>1, <2>3
<1>3. \A m \in T : n <= m
  BY <1>2
<1> QED BY <1>3

\* Induction over the numbers, with a set for the predicate.
LEMMA Induction ==
  ASSUME NEW S, 0 \in S, \A n \in Nat : n \in S => n + 1 \in S
  PROVE  Nat \subseteq S
<1> SUFFICES ASSUME Nat \ S # {} PROVE FALSE
  OBVIOUS
<1>1. PICK n \in Nat \ S : \A m \in Nat \ S : n <= m
  BY LeastOf
<1>2. n # 0 /\ n - 1 \in Nat /\ n - 1 \notin Nat \ S
  BY <1>1
<1> QED BY <1>1, <1>2

CellSeqs == Seq(Nat \X Nat)

\* Piece i lies whole in the cells from place p on.
LiesAt(text, cells, i, p) ==
    /\ p + text[i].size - 1 <= Len(cells)
    /\ \A j \in 1 .. text[i].size : cells[p + j - 1] = <<i, j>>

\* The cells are placeholders and the cells of the pieces of whole; each of
\* these pieces lies there in one place.
Laid(text, cells, whole) ==
    /\ cells \in CellSeqs
    /\ \A p \in DOMAIN cells :
          \/ cells[p] = Placeholder
          \/ \E i \in whole : \E j \in 1 .. text[i].size : cells[p] = <<i, j>>
    /\ \A i \in whole : \E p \in DOMAIN cells : LiesAt(text, cells, i, p)
    /\ \A p, q \in DOMAIN cells :
          cells[p] = cells[q] => p = q \/ cells[p] = Placeholder

\* Pieces and their cells.
LEMMA TextFacts ==
  ASSUME NEW text \in Seq(Pieces)
  PROVE  /\ Len(text) \in Nat /\ DOMAIN text = 1 .. Len(text)
         /\ \A i \in DOMAIN text :
               /\ text[i].size \in 1 .. 3
               /\ PieceCells(text, i) \in CellSeqs
               /\ Len(PieceCells(text, i)) = text[i].size
               /\ \A j \in 1 .. text[i].size : PieceCells(text, i)[j] = <<i, j>>
<1>1. Len(text) \in Nat /\ DOMAIN text = 1 .. Len(text)
  BY LenProperties
<1>2. ASSUME NEW i \in DOMAIN text
      PROVE  /\ text[i].size \in 1 .. 3
             /\ PieceCells(text, i) \in CellSeqs
             /\ Len(PieceCells(text, i)) = text[i].size
             /\ \A j \in 1 .. text[i].size : PieceCells(text, i)[j] = <<i, j>>
  <2>1. text[i] \in Pieces
    BY <1>1, ElementOfSeq
  <2>2. text[i].size \in 1 .. 3
    BY <2>1 DEF Pieces, SecretPieces
  <2>3. PieceCells(text, i) \in [1 .. text[i].size -> Nat \X Nat]
    BY <1>1, <2>2 DEF PieceCells
  <2>4. PieceCells(text, i) \in CellSeqs /\ Len(PieceCells(text, i)) = text[i].size
    BY <2>2, <2>3, SeqDef DEF CellSeqs
  <2> QED BY <2>2, <2>4 DEF PieceCells
<1> QED BY <1>1, <1>2

\* A slice within the bounds.
LEMMA Slice ==
  ASSUME NEW cells \in CellSeqs, NEW m \in Int, NEW n \in Int,
         1 <= m, m <= n + 1, n <= Len(cells)
  PROVE  /\ SubSeq(cells, m, n) \in CellSeqs
         /\ Len(SubSeq(cells, m, n)) = n - m + 1
         /\ \A j \in 1 .. n - m + 1 : SubSeq(cells, m, n)[j] = cells[m + j - 1]
<1>1. Len(cells) \in Nat
  BY LenProperties DEF CellSeqs
<1>2. \A k \in m .. n : cells[k] \in Nat \X Nat
  <2>1. \A k \in 1 .. Len(cells) : cells[k] \in Nat \X Nat
    BY ElementOfSeq DEF CellSeqs
  <2> QED BY <2>1, <1>1
<1>3. /\ SubSeq(cells, m, n) \in Seq(Nat \X Nat)
      /\ Len(SubSeq(cells, m, n)) = IF m <= n THEN n - m + 1 ELSE 0
      /\ \A j \in 1 .. n - m + 1 : SubSeq(cells, m, n)[j] = cells[m + j - 1]
  BY <1>2, SubSeqProperties
<1> QED BY <1>3 DEF CellSeqs

\* A piece that lies in the cells lies at its Start.
LEMMA StartOfPiece ==
  ASSUME NEW text \in Seq(Pieces), NEW cells, NEW whole \in SUBSET DOMAIN text,
         Laid(text, cells, whole), NEW i \in whole
  PROVE  /\ Start(cells, i) \in DOMAIN cells
         /\ LiesAt(text, cells, i, Start(cells, i))
<1>1. PICK p \in DOMAIN cells : LiesAt(text, cells, i, p)
  BY DEF Laid
<1>2. i \in Nat \ {0} /\ text[i].size \in 1 .. 3
  BY TextFacts
<1>3. DOMAIN cells = 1 .. Len(cells) /\ Len(cells) \in Nat
  BY LenProperties DEF Laid, CellSeqs
<1>4. cells[p] = <<i, 1>>
  <2>1. 1 \in 1 .. text[i].size
    BY <1>2
  <2>2. cells[p + 1 - 1] = <<i, 1>> /\ p + 1 - 1 = p
    BY <1>1, <2>1, <1>3 DEF LiesAt
  <2> QED BY <2>2
<1>5. Start(cells, i) \in DOMAIN cells /\ cells[Start(cells, i)] = <<i, 1>>
  BY <1>4 DEF Start
<1>6. cells[p] # Placeholder
  BY <1>2, <1>4 DEF Placeholder
<1>7. Start(cells, i) = p
  BY <1>4, <1>5, <1>6 DEF Laid
<1> QED BY <1>1, <1>7

\* What lies in the cells is what a pattern can match.
LEMMA WholePieces ==
  ASSUME NEW text \in Seq(Pieces), NEW cells, NEW whole \in SUBSET DOMAIN text,
         Laid(text, cells, whole), NEW i \in DOMAIN text
  PROVE  Whole(text, cells, i) <=> i \in whole
<1> DEFINE s == Start(cells, i)
           z == text[i].size
<1>1. i \in Nat \ {0} /\ z \in 1 .. 3
  BY TextFacts
<1>2. DOMAIN cells = 1 .. Len(cells) /\ Len(cells) \in Nat /\ cells \in CellSeqs
  BY LenProperties DEF Laid, CellSeqs
<1>3. ASSUME Whole(text, cells, i) PROVE i \in whole
  <2>1. PICK p \in DOMAIN cells : cells[p] = <<i, 1>>
    BY <1>3 DEF Whole
  <2>2. cells[p] # Placeholder
    BY <1>1, <2>1 DEF Placeholder
  <2>3. PICK k \in whole : \E j \in 1 .. text[k].size : cells[p] = <<k, j>>
    BY <2>2 DEF Laid
  <2> QED BY <2>1, <2>3
<1>4. ASSUME i \in whole PROVE Whole(text, cells, i)
  <2>1. s \in DOMAIN cells /\ LiesAt(text, cells, i, s)
    BY <1>4, StartOfPiece
  <2>2. \A j \in 1 .. z : cells[s + j - 1] = <<i, j>>
    BY <2>1 DEF LiesAt
  <2>3. s + z - 1 <= Len(cells) /\ s \in 1 .. Len(cells)
    BY <2>1, <1>2 DEF LiesAt
  <2>4. cells[s] = <<i, 1>>
    <3>1. 1 \in 1 .. z /\ s + 1 - 1 = s
      BY <1>1, <1>2, <2>3
    <3> QED BY <3>1, <2>2
  <2>5. 1 <= s /\ s <= s + z /\ s + z - 1 \in Int /\ s \in Int /\ s + z - 1 - s + 1 = z
    BY <1>1, <2>3
  <2>6. /\ SubSeq(cells, s, s + z - 1) \in CellSeqs
        /\ Len(SubSeq(cells, s, s + z - 1)) = z
        /\ \A j \in 1 .. z : SubSeq(cells, s, s + z - 1)[j] = cells[s + j - 1]
    <3> HIDE DEF s, z
    <3> QED BY <2>5, <2>3, <1>1, <1>2, Slice
  <2>7. SubSeq(cells, s, s + z - 1) = PieceCells(text, i)
    <3>1. /\ PieceCells(text, i) \in CellSeqs
          /\ Len(PieceCells(text, i)) = z
          /\ \A j \in 1 .. z : PieceCells(text, i)[j] = <<i, j>>
      BY TextFacts
    <3>2. \A j \in 1 .. z : SubSeq(cells, s, s + z - 1)[j] = PieceCells(text, i)[j]
      BY <3>1, <2>6, <2>2
    <3> QED BY <3>1, <3>2, <2>6, SeqEqual DEF CellSeqs
  <2> QED BY <2>1, <2>3, <2>4, <2>7 DEF Whole
<1> QED BY <1>3, <1>4

\* Two sequences of cells, one after the other.
LEMMA Joined ==
  ASSUME NEW a \in CellSeqs, NEW b \in CellSeqs
  PROVE  /\ a \o b \in CellSeqs /\ Len(a \o b) = Len(a) + Len(b)
         /\ \A p \in 1 .. Len(a) + Len(b) :
               (a \o b)[p] = IF p <= Len(a) THEN a[p] ELSE b[p - Len(a)]
  BY ConcatProperties DEF CellSeqs

\* What replacing a stretch of cells by the placeholder leaves, place by place.
LEMMA ReplacedCells ==
  ASSUME NEW cells \in CellSeqs, NEW s \in 1 .. Len(cells), NEW z \in Nat \ {0},
         s + z - 1 <= Len(cells)
  PROVE  LET left == Replaced(cells, s, z)
         IN  /\ left \in CellSeqs /\ Len(left) = Len(cells) - z + 1
             /\ \A p \in 1 .. s - 1 : left[p] = cells[p]
             /\ left[s] = Placeholder
             /\ \A p \in s + 1 .. Len(left) : left[p] = cells[p + z - 1]
<1> DEFINE front == SubSeq(cells, 1, s - 1)
           back  == SubSeq(cells, s + z, Len(cells))
           left  == Replaced(cells, s, z)
<1>1. Len(cells) \in Nat
  BY LenProperties DEF CellSeqs
<1>2. left = front \o <<Placeholder>> \o back
  <2>1. (IF s - 1 < Len(cells) THEN s - 1 ELSE Len(cells)) = s - 1
    BY <1>1
  <2> QED BY <2>1 DEF Replaced
<1>3. /\ front \in CellSeqs /\ Len(front) = s - 1
      /\ \A j \in 1 .. s - 1 : front[j] = cells[j]
  <2>1. /\ front \in CellSeqs /\ Len(front) = s - 1 - 1 + 1
        /\ \A j \in 1 .. s - 1 - 1 + 1 : front[j] = cells[1 + j - 1]
    BY <1>1, Slice
  <2> QED BY <2>1
<1>4. /\ back \in CellSeqs /\ Len(back) = Len(cells) - s - z + 1
      /\ \A j \in 1 .. Len(cells) - s - z + 1 : back[j] = cells[s + z + j - 1]
  <2>1. /\ back \in CellSeqs /\ Len(back) = Len(cells) - (s + z) + 1
        /\ \A j \in 1 .. Len(cells) - (s + z) + 1 : back[j] = cells[s + z + j - 1]
    BY <1>1, Slice
  <2> QED BY <2>1, <1>1
<1>5. <<Placeholder>> \in CellSeqs /\ Len(<<Placeholder>>) = 1
      /\ <<Placeholder>>[1] = Placeholder
  BY DEF Placeholder, CellSeqs
<1> DEFINE head == front \o <<Placeholder>>
<1>6. /\ head \in CellSeqs /\ Len(head) = s
      /\ \A p \in 1 .. s : head[p] = IF p <= s - 1 THEN front[p]
                                       ELSE <<Placeholder>>[p - (s - 1)]
  <2> HIDE DEF front
  <2>1. /\ head \in CellSeqs /\ Len(head) = Len(front) + 1
        /\ \A p \in 1 .. Len(front) + 1 :
              head[p] = IF p <= Len(front) THEN front[p] ELSE <<Placeholder>>[p - Len(front)]
    BY <1>3, <1>5, Joined
  <2> QED BY <2>1, <1>3
<1>7. /\ left \in CellSeqs /\ Len(left) = s + Len(back)
      /\ \A p \in 1 .. s + Len(back) : left[p] = IF p <= s THEN head[p] ELSE back[p - s]
  <2>1. left = head \o back
    BY <1>2
  <2> HIDE DEF head, back, left
  <2> QED BY <2>1, <1>4, <1>6, Joined
<1> HIDE DEF head, front, back, left
<1>8. Len(left) = Len(cells) - z + 1
  BY <1>1, <1>4, <1>7
<1>9. ASSUME NEW p \in 1 .. s - 1 PROVE left[p] = cells[p]
  <2>1. p \in 1 .. s + Len(back) /\ p \in 1 .. s /\ p <= s - 1 /\ p <= s
    BY <1>1, <1>4
  <2> QED BY <2>1, <1>3, <1>6, <1>7
<1>10. left[s] = Placeholder
  <2>1. s \in 1 .. s + Len(back) /\ s \in 1 .. s /\ ~(s <= s - 1) /\ s - (s - 1) = 1
    BY <1>1, <1>4
  <2> QED BY <2>1, <1>5, <1>6, <1>7
<1>11. ASSUME NEW p \in s + 1 .. Len(left) PROVE left[p] = cells[p + z - 1]
  <2>1. /\ p \in 1 .. s + Len(back) /\ ~(p <= s) /\ p - s \in 1 .. Len(cells) - s - z + 1
        /\ s + z + (p - s) - 1 = p + z - 1
    BY <1>1, <1>4, <1>8
  <2> QED BY <2>1, <1>4, <1>7
<1> QED BY <1>7, <1>8, <1>9, <1>10, <1>11 DEF left

\* Replacing a piece takes away that piece and no other.
LEMMA ReplacedLaid ==
  ASSUME NEW text \in Seq(Pieces), NEW cells, NEW whole \in SUBSET DOMAIN text,
         Laid(text, cells, whole), NEW i \in whole
  PROVE  Laid(text, Replaced(cells, Start(cells, i), text[i].size), whole \ {i})
<1> DEFINE s == Start(cells, i)
           z == text[i].size
           left == Replaced(cells, s, z)
<1>1. i \in Nat \ {0} /\ z \in 1 .. 3
  BY TextFacts
<1>2. DOMAIN cells = 1 .. Len(cells) /\ Len(cells) \in Nat /\ cells \in CellSeqs
  BY LenProperties DEF Laid, CellSeqs
<1>3. s \in 1 .. Len(cells) /\ LiesAt(text, cells, i, s)
  BY <1>2, StartOfPiece
<1>4. s + z - 1 <= Len(cells) /\ \A j \in 1 .. z : cells[s + j - 1] = <<i, j>>
  BY <1>3 DEF LiesAt
<1>5. /\ left \in CellSeqs /\ Len(left) = Len(cells) - z + 1
      /\ \A p \in 1 .. s - 1 : left[p] = cells[p]
      /\ left[s] = Placeholder
      /\ \A p \in s + 1 .. Len(left) : left[p] = cells[p + z - 1]
  <2>1. z \in Nat \ {0}
    BY <1>1
  <2> HIDE DEF s, z
  <2> QED BY <2>1, <1>2, <1>3, <1>4, ReplacedCells DEF left
<1>6. DOMAIN left = 1 .. Len(left)
  BY <1>5, LenProperties DEF CellSeqs
<1>7. \A k \in 1 .. z : cells[s + k - 1][1] = i
  BY <1>4
<1> HIDE DEF s, z, left
\* Where a cell of what is left was before.
<1> DEFINE from(p) == IF p < s THEN p ELSE p + z - 1
<1>8. ASSUME NEW p \in DOMAIN left, left[p] # Placeholder
      PROVE  /\ p # s /\ from(p) \in DOMAIN cells /\ left[p] = cells[from(p)]
             /\ from(p) \notin s .. s + z - 1
  <2>1. p # s
    BY <1>5, <1>8
  <2>2. CASE p < s
    <3>1. p \in 1 .. s - 1 /\ p \in DOMAIN cells /\ p \notin s .. s + z - 1
      BY <2>2, <1>1, <1>2, <1>3, <1>6
    <3> QED BY <2>1, <2>2, <3>1, <1>5
  <2>3. CASE p > s
    <3>1. /\ p \in s + 1 .. Len(left) /\ ~(p < s)
          /\ p + z - 1 \in DOMAIN cells /\ p + z - 1 \notin s .. s + z - 1
      BY <2>3, <1>1, <1>2, <1>3, <1>4, <1>5, <1>6
    <3> QED BY <2>1, <3>1, <1>5
  <2> QED BY <2>1, <2>2, <2>3, <1>3, <1>6
<1>9. ASSUME NEW p \in DOMAIN left, left[p] # Placeholder
      PROVE  \E k \in whole \ {i} : \E j \in 1 .. text[k].size : left[p] = <<k, j>>
  <2>1. /\ from(p) \in DOMAIN cells /\ left[p] = cells[from(p)]
        /\ from(p) \notin s .. s + z - 1
    BY <1>8, <1>9
  <2>2. PICK k \in whole : \E j \in 1 .. text[k].size : left[p] = <<k, j>>
    BY <2>1, <1>9 DEF Laid
  <2>3. PICK j \in 1 .. text[k].size : left[p] = <<k, j>>
    BY <2>2
  <2>4. ASSUME k = i PROVE FALSE
    <3>1. j \in 1 .. z /\ cells[s + j - 1] = <<i, j>>
      BY <2>3, <2>4, <1>4 DEF z
    <3>2. s + j - 1 \in DOMAIN cells /\ s + j - 1 \in s .. s + z - 1
      BY <3>1, <1>1, <1>2, <1>3, <1>4
    <3>3. cells[s + j - 1] = cells[from(p)] /\ cells[from(p)] # Placeholder
      BY <3>1, <2>1, <2>3, <2>4, <1>9
    <3>4. s + j - 1 = from(p)
      BY <3>2, <3>3, <2>1 DEF Laid
    <3> QED BY <3>2, <3>4, <2>1
  <2> QED BY <2>3, <2>4
<1>10. ASSUME NEW p \in DOMAIN left, NEW q \in DOMAIN left, left[p] = left[q]
       PROVE  p = q \/ left[p] = Placeholder
  <2> SUFFICES ASSUME left[p] # Placeholder PROVE p = q
    OBVIOUS
  <2>1. /\ p # s /\ from(p) \in DOMAIN cells /\ left[p] = cells[from(p)]
        /\ q # s /\ from(q) \in DOMAIN cells /\ left[q] = cells[from(q)]
    BY <1>8, <1>10
  <2>2. from(p) = from(q)
    BY <2>1, <1>10 DEF Laid
  <2> QED BY <2>1, <2>2, <1>1, <1>3, <1>5, <1>6
<1>11. ASSUME NEW k \in whole \ {i} PROVE \E p \in DOMAIN left : LiesAt(text, left, k, p)
  <2> DEFINE y == text[k].size
             t == Start(cells, k)
  <2>1. y \in 1 .. 3 /\ k \in Nat \ {0}
    BY TextFacts
  <2>2. t \in DOMAIN cells /\ LiesAt(text, cells, k, t)
    BY StartOfPiece
  <2>3. t + y - 1 <= Len(cells) /\ \A j \in 1 .. y : cells[t + j - 1] = <<k, j>>
    BY <2>2 DEF LiesAt
  <2> HIDE DEF y, t
  <2>4. \A a \in 1 .. z : \A b \in 1 .. y : s + a - 1 # t + b - 1
    BY <2>3, <1>4
  \* Neither piece begins within the other.
  <2>5. t \notin s .. s + z - 1
    <3>1. ASSUME t \in s .. s + z - 1 PROVE FALSE
      <4>1. t - s + 1 \in 1 .. z /\ 1 \in 1 .. y /\ s + (t - s + 1) - 1 = t + 1 - 1
        BY <3>1, <2>1, <1>1, <1>3
      <4> QED BY <4>1, <2>4
    <3> QED BY <3>1
  <2>6. s \notin t .. t + y - 1
    <3>1. ASSUME s \in t .. t + y - 1 PROVE FALSE
      <4>1. s - t + 1 \in 1 .. y /\ 1 \in 1 .. z /\ t + (s - t + 1) - 1 = s + 1 - 1
        BY <3>1, <2>1, <1>1, <1>2, <1>3, <2>2
      <4> QED BY <4>1, <2>4
    <3> QED BY <3>1
  <2>7. CASE t < s
    <3>1. t + y - 1 <= s - 1 /\ t \in DOMAIN left
      BY <2>1, <2>2, <2>6, <2>7, <1>1, <1>2, <1>3, <1>4, <1>5, <1>6
    <3>2. ASSUME NEW j \in 1 .. y PROVE left[t + j - 1] = <<k, j>>
      <4>1. t + j - 1 \in 1 .. s - 1
        BY <3>1, <2>1, <2>2, <1>2, <1>3
      <4> QED BY <4>1, <2>3, <1>5
    <3>3. t + y - 1 <= Len(left)
      BY <3>1, <2>1, <2>2, <1>1, <1>2, <1>3, <1>4, <1>5
    <3> QED BY <3>1, <3>2, <3>3 DEF LiesAt, y
  <2>8. CASE t >= s + z
    <3>0. /\ z \in 1 .. 3 /\ y \in 1 .. 3 /\ s \in 1 .. Len(cells) /\ t \in 1 .. Len(cells)
          /\ Len(cells) \in Nat /\ Len(left) = Len(cells) - z + 1 /\ t + y - 1 <= Len(cells)
      BY <2>1, <2>2, <2>3, <1>1, <1>2, <1>3, <1>5
    <3>1. t - z + 1 \in DOMAIN left /\ t - z + 1 + y - 1 <= Len(left)
      <4>1. t - z + 1 >= 1 /\ t - z + 1 <= Len(left) /\ t - z + 1 + y - 1 <= Len(left)
        BY <3>0, <2>8
      <4> QED BY <4>1, <3>0, <1>6
    <3>2. ASSUME NEW j \in 1 .. y PROVE left[t - z + 1 + j - 1] = <<k, j>>
      <4>1. t - z + 1 + j - 1 \in s + 1 .. Len(left)
            /\ t - z + 1 + j - 1 + z - 1 = t + j - 1
        BY <3>0, <2>8
      <4> QED BY <4>1, <2>3, <1>5
    <3> QED BY <3>1, <3>2 DEF LiesAt, y
  <2> QED BY <2>5, <2>7, <2>8, <2>2, <1>1, <1>2, <1>3
<1>12. Laid(text, left, whole \ {i})
  BY <1>5, <1>9, <1>10, <1>11 DEF Laid
<1> QED BY <1>12 DEF left, s, z

\* The cells of one more piece.
LEMMA OneMorePiece ==
  ASSUME NEW text \in Seq(Pieces), NEW n \in Nat, n + 1 \in DOMAIN text,
         NEW cells, Laid(text, cells, 1 .. n)
  PROVE  Laid(text, cells \o PieceCells(text, n + 1), 1 .. n + 1)
<1> DEFINE piece == PieceCells(text, n + 1)
           all == cells \o piece
           m == Len(cells)
           z == text[n + 1].size
<1>1. /\ piece \in CellSeqs /\ Len(piece) = z /\ z \in 1 .. 3
      /\ \A j \in 1 .. z : piece[j] = <<n + 1, j>>
  BY TextFacts
<1>2. DOMAIN cells = 1 .. m /\ m \in Nat /\ cells \in CellSeqs
  BY LenProperties DEF Laid, CellSeqs
<1> HIDE DEF piece, z
<1>3. /\ all \in CellSeqs /\ Len(all) = m + z
      /\ \A p \in 1 .. m + z : all[p] = IF p <= m THEN cells[p] ELSE piece[p - m]
  BY <1>1, <1>2, Joined
<1>4. DOMAIN all = 1 .. m + z
  BY <1>3, LenProperties DEF CellSeqs
<1> HIDE DEF all, m
<1>5. \A p \in 1 .. m : p \in DOMAIN all /\ all[p] = cells[p]
  BY <1>1, <1>2, <1>3, <1>4
<1>6. \A j \in 1 .. z : m + j \in DOMAIN all /\ all[m + j] = <<n + 1, j>>
  <2> TAKE j \in 1 .. z
  <2>1. m + j \in 1 .. m + z /\ ~(m + j <= m) /\ m + j - m = j
    BY <1>1, <1>2
  <2>2. all[m + j] = piece[m + j - m]
    BY <2>1, <1>1, <1>2, <1>3
  <2>3. piece[m + j - m] = <<n + 1, j>>
    BY <2>1, <1>1
  <2> QED BY <2>1, <2>2, <2>3, <1>4
<1>7. \A p \in DOMAIN all : p \in 1 .. m \/ \E j \in 1 .. z : p = m + j
  <2> SUFFICES ASSUME NEW p \in DOMAIN all, p \notin 1 .. m PROVE \E j \in 1 .. z : p = m + j
    OBVIOUS
  <2>1. p - m \in 1 .. z /\ p = m + (p - m)
    BY <1>1, <1>2, <1>4
  <2> QED BY <2>1
<1>8. ASSUME NEW p \in DOMAIN cells, cells[p] # Placeholder
      PROVE  \E i \in 1 .. n : \E j \in 1 .. text[i].size : cells[p] = <<i, j>>
  BY <1>8 DEF Laid
<1>9. ASSUME NEW p \in DOMAIN all
      PROVE  \/ all[p] = Placeholder
             \/ \E i \in 1 .. n + 1 : \E j \in 1 .. text[i].size : all[p] = <<i, j>>
  <2>1. CASE p \in 1 .. m
    <3>1. 1 .. n \subseteq 1 .. n + 1
      OBVIOUS
    <3> QED BY <2>1, <3>1, <1>2, <1>5, <1>8
  <2>2. CASE \E j \in 1 .. z : p = m + j
    <3>1. n + 1 \in 1 .. n + 1
      OBVIOUS
    <3> QED BY <2>2, <3>1, <1>6 DEF z
  <2> QED BY <2>1, <2>2, <1>7
<1>10. ASSUME NEW i \in 1 .. n + 1 PROVE \E p \in DOMAIN all : LiesAt(text, all, i, p)
  <2>1. CASE i = n + 1
    <3>1. m + 1 \in DOMAIN all
      BY <1>1, <1>2, <1>4
    <3>2. ASSUME NEW j \in 1 .. z PROVE all[m + 1 + j - 1] = <<n + 1, j>>
      <4>1. m + 1 + j - 1 = m + j
        BY <1>1, <1>2
      <4> QED BY <4>1, <1>6
    <3>3. m + 1 + z - 1 <= Len(all)
      BY <1>1, <1>2, <1>3
    <3> QED BY <2>1, <3>1, <3>2, <3>3 DEF LiesAt, z
  <2>2. CASE i # n + 1
    <3>1. i \in 1 .. n
      BY <2>2
    <3>2. PICK p \in DOMAIN cells : LiesAt(text, cells, i, p)
      BY <3>1 DEF Laid
    <3>3. text[i].size \in 1 .. 3
      BY <3>1, TextFacts
    <3>4. p + text[i].size - 1 <= m
          /\ \A j \in 1 .. text[i].size : cells[p + j - 1] = <<i, j>>
      BY <3>2 DEF LiesAt, m
    <3>5. p + text[i].size - 1 <= Len(all)
      BY <3>3, <3>4, <1>1, <1>2, <1>3
    <3>6. ASSUME NEW j \in 1 .. text[i].size PROVE all[p + j - 1] = <<i, j>>
      <4>1. p + j - 1 \in 1 .. m
        BY <3>3, <3>4, <1>2
      <4> QED BY <4>1, <3>4, <1>5
    <3> QED BY <3>2, <3>5, <3>6, <1>2, <1>5 DEF LiesAt
  <2> QED BY <2>1, <2>2
<1>11. ASSUME NEW p \in DOMAIN all, NEW q \in DOMAIN all, all[p] = all[q]
       PROVE  p = q \/ all[p] = Placeholder
  <2> SUFFICES ASSUME all[p] # Placeholder PROVE p = q
    OBVIOUS
  <2>1. ASSUME NEW x \in 1 .. m, NEW j \in 1 .. z, all[x] = all[m + j], all[x] # Placeholder
        PROVE  FALSE
    <3>1. cells[x] = <<n + 1, j>> /\ x \in DOMAIN cells /\ cells[x] # Placeholder
      BY <2>1, <1>2, <1>5, <1>6
    <3>2. PICK i \in 1 .. n : \E k \in 1 .. text[i].size : cells[x] = <<i, k>>
      BY <3>1, <1>8
    <3> QED BY <3>1, <3>2
  <2>2. CASE p \in 1 .. m /\ q \in 1 .. m
    BY <2>2, <1>2, <1>5, <1>11 DEF Laid
  <2>3. CASE p \notin 1 .. m /\ q \notin 1 .. m
    BY <2>3, <1>1, <1>2, <1>6, <1>7, <1>11
  <2> QED BY <2>1, <2>2, <2>3, <1>7, <1>11
<1>12. Laid(text, all, 1 .. n + 1)
  BY <1>3, <1>9, <1>10, <1>11 DEF Laid
<1> QED BY <1>12 DEF all, piece

\* The flattening of the pieces exists, and its prefixes hold what they should.
LEMMA CellsLaid ==
  ASSUME NEW text \in Seq(Pieces)
  PROVE  Laid(text, Cells(text), DOMAIN text)
<1> DEFINE N == Len(text)
           seqs == [i \in DOMAIN text |-> PieceCells(text, i)]
           Upto(f, i) == IF i = 1 THEN seqs[i] ELSE f[i - 1] \o seqs[i]
           Flat(f, n) == f = [i \in 1 .. n |-> Upto(f, i)]
<1>1. N \in Nat /\ DOMAIN text = 1 .. N
  BY TextFacts
<1>2. seqs \in [1 .. N -> CellSeqs] /\ \A i \in 1 .. N : seqs[i] = PieceCells(text, i)
  BY <1>1, TextFacts
<1>3. seqs \in Seq(CellSeqs) /\ Len(seqs) = N
  BY <1>1, <1>2, SeqDef
<1> HIDE DEF N, seqs, Flat
<1>4. CASE N = 0
  <2>1. Cells(text) = seqs /\ seqs = <<>>
    BY <1>3, <1>4 DEF Cells, FlattenSeq, seqs
  <2>2. Cells(text) \in CellSeqs /\ DOMAIN Cells(text) = {}
    BY <2>1 DEF CellSeqs
  <2>3. DOMAIN text = {}
    BY <1>1, <1>4
  <2> QED BY <2>2, <2>3 DEF Laid
<1>5. CASE N # 0
  <2> DEFINE Built == {n \in Nat : n <= N => \E f : Flat(f, n)}
  <2>1. 0 \in Built
    <3>1. Flat(<<>>, 0)
      BY DEF Flat
    <3> QED BY <3>1
  <2>2. ASSUME NEW n \in Nat, n \in Built PROVE n + 1 \in Built
    <3> SUFFICES ASSUME n + 1 <= N PROVE \E f : Flat(f, n + 1)
      OBVIOUS
    <3>1. PICK f : Flat(f, n)
      BY <1>1, <2>2
    <3> DEFINE g == [i \in 1 .. n + 1 |-> IF i = n + 1 THEN Upto(f, i) ELSE f[i]]
    <3>2. ASSUME NEW i \in 1 .. n + 1 PROVE g[i] = Upto(g, i)
      <4>1. CASE i = 1
        BY <4>1, <3>1 DEF Flat
      <4>2. CASE i # 1
        <5>1. i - 1 \in 1 .. n + 1 /\ i - 1 # n + 1
          BY <4>2
        <5>2. g[i - 1] = f[i - 1]
          BY <5>1
        <5>3. CASE i = n + 1
          BY <5>3, <5>2, <4>2
        <5>4. CASE i # n + 1
          <6>1. i \in 1 .. n
            BY <5>4
          <6>2. f[i] = Upto(f, i)
            BY <6>1, <3>1 DEF Flat
          <6> QED BY <5>2, <5>4, <6>2, <4>2
        <5> QED BY <5>3, <5>4
      <4> QED BY <4>1, <4>2
    <3>3. Flat(g, n + 1)
      BY <3>2 DEF Flat
    <3> QED BY <3>3
  <2>3. N \in Built
    <3> HIDE DEF Built
    <3> QED BY <2>1, <2>2, <1>1, Induction
  <2>4. \E f : Flat(f, N)
    BY <2>3, <1>1
  <2> DEFINE flatten == CHOOSE f : Flat(f, N)
  <2>5. Flat(flatten, N)
    BY <2>4
  <2>6. Cells(text) = flatten[N]
    BY <1>3, <1>5 DEF Cells, FlattenSeq, seqs, Flat
  <2> HIDE DEF flatten
  <2>11. ASSUME NEW i \in 1 .. N PROVE flatten[i] = Upto(flatten, i)
    BY <2>5 DEF Flat
  <2>12. ASSUME NEW i \in 1 .. N, i # 1 PROVE flatten[i] = flatten[i - 1] \o PieceCells(text, i)
    BY <2>11, <2>12, <1>2
  <2> DEFINE Good == {n \in Nat : n + 1 <= N => Laid(text, flatten[n + 1], 1 .. n + 1)}
  <2>7. 0 \in Good
    <3>1. Laid(text, <<>>, 1 .. 0)
      BY DEF Laid, CellSeqs
    <3>2. 1 \in DOMAIN text /\ PieceCells(text, 1) \in CellSeqs
      BY <1>1, <1>5, TextFacts
    <3>3. <<>> \o PieceCells(text, 1) = PieceCells(text, 1)
      BY <3>2, ConcatEmptySeq DEF CellSeqs
    <3>4. Laid(text, PieceCells(text, 1), 1 .. 1)
      <4>1. 0 + 1 = 1
        OBVIOUS
      <4> QED BY <3>1, <3>2, <3>3, <4>1, OneMorePiece
    <3>5. flatten[1] = PieceCells(text, 1)
      BY <2>11, <1>1, <1>2, <1>5
    <3> QED BY <3>4, <3>5
  <2>8. ASSUME NEW n \in Nat, n \in Good PROVE n + 1 \in Good
    <3> SUFFICES ASSUME n + 1 + 1 <= N PROVE Laid(text, flatten[n + 1 + 1], 1 .. n + 1 + 1)
      OBVIOUS
    <3>1. Laid(text, flatten[n + 1], 1 .. n + 1)
      BY <1>1, <2>8
    <3>2. n + 1 + 1 \in 1 .. N /\ n + 1 + 1 # 1 /\ n + 1 + 1 - 1 = n + 1 /\ n + 1 \in Nat
      BY <1>1
    <3>3. flatten[n + 1 + 1] = flatten[n + 1] \o PieceCells(text, n + 1 + 1)
      <4>1. PICK k \in 1 .. N : k = n + 1 + 1 /\ k # 1 /\ k - 1 = n + 1
        BY <3>2
      <4>2. flatten[k] = flatten[k - 1] \o PieceCells(text, k)
        BY <4>1, <2>12
      <4> QED BY <4>1, <4>2
    <3> QED BY <3>1, <3>2, <3>3, <1>1, OneMorePiece
  <2>9. N - 1 \in Good
    <3> HIDE DEF Good
    <3> QED BY <2>7, <2>8, <1>1, <1>5, Induction
  <2>10. Laid(text, flatten[N], 1 .. N)
    <3>1. N - 1 + 1 = N /\ N - 1 \in Nat
      BY <1>1, <1>5
    <3> QED BY <2>9, <3>1
  <2> QED BY <2>6, <2>10, <1>1
<1> QED BY <1>4, <1>5

\* The inner loop, where the pattern matches at most once.
LEMMA KindRedacted ==
  ASSUME NEW text \in Seq(Pieces), NEW cells, NEW whole \in SUBSET DOMAIN text,
         Laid(text, cells, whole), NEW kind,
         \A i, j \in DOMAIN text : text[i].kind = kind /\ text[j].kind = kind => i = j
  PROVE  Laid(text, RedactKind(text, cells, kind), {i \in whole : text[i].kind # kind})
<1> DEFINE found == Matches(text, cells, kind)
           left == {i \in whole : text[i].kind # kind}
           After(f, s) == Replaced(f[s \ {Max(s)}], Start(cells, Max(s)), text[Max(s)].size)
           Folds(f) == f = [s \in SUBSET found |-> IF s = {} THEN cells ELSE After(f, s)]
           fold == CHOOSE f : Folds(f)
<1>1. RedactKind(text, cells, kind) = fold[found]
  BY DEF RedactKind, ReplacePieces, MapThenFoldSet
<1>2. found = {i \in whole : text[i].kind = kind}
  <2>1. \A i \in DOMAIN text : Whole(text, cells, i) <=> i \in whole
    BY WholePieces
  <2> QED BY <2>1 DEF Matches
<1> HIDE DEF found
<1>3. CASE found = {}
  <2>1. Folds([s \in SUBSET found |-> cells])
    BY <1>3
  <2>2. Folds(fold)
    BY <2>1
  <2>3. fold[found] = cells
    <3> HIDE DEF fold
    <3> QED BY <2>2, <1>3
  <2>4. left = whole
    BY <1>2, <1>3
  <2> QED BY <1>1, <2>3, <2>4
<1>4. CASE found # {}
  <2>1. PICK i \in found : found = {i}
    BY <1>2, <1>4
  <2>2. i \in whole /\ left = whole \ {i} /\ i \in Int
    <3>1. i \in Nat
      BY <1>2, TextFacts
    <3> QED BY <3>1, <1>2, <2>1
  <2>3. Max({i}) = i
    BY <2>2 DEF Max
  <2> DEFINE first == Replaced(cells, Start(cells, i), text[i].size)
             f == [s \in SUBSET found |-> IF s = {} THEN cells ELSE first]
  <2>4. \A s \in SUBSET found : s # {} => s = {i} /\ s \ {i} = {}
    BY <2>1
  <2>5. \A s \in SUBSET found : s # {} => After(f, s) = first
    BY <2>3, <2>4
  <2>6. Folds(f)
    <3> HIDE DEF first, After
    <3> QED BY <2>5
  <2>7. Folds(fold)
    BY <2>6
  <2>8. fold[{}] = cells /\ fold[found] = After(fold, {i})
    <3> HIDE DEF fold, After
    <3> QED BY <2>1, <2>7
  <2>9. fold[found] = first
    BY <2>3, <2>8
  <2>10. Laid(text, first, whole \ {i})
    BY <2>2, ReplacedLaid
  <2>11. Laid(text, RedactKind(text, cells, kind), left)
    <3> HIDE DEF first, fold, left
    <3> QED BY <1>1, <2>2, <2>9, <2>10
  <2> QED BY <2>11
<1> QED BY <1>3, <1>4

\* The three patterns, one after the other.
LEMMA OuterLoop ==
  ASSUME NEW text
  PROVE  Redacted(text)
            = RedactKind(text, RedactKind(text, RedactKind(text, Cells(text),
                 "api_key"), "bearer_token"), "fake_cortex_token")
<1> DEFINE D == DOMAIN SecretKinds
           After(f, s) == RedactKind(text, f[s \ {Max(s)}], SecretKinds[Max(s)])
           Folds(f) == f = [s \in SUBSET D |-> IF s = {} THEN Cells(text) ELSE After(f, s)]
           fold == CHOOSE f : Folds(f)
           One(s) == IF 1 \in s THEN RedactKind(text, Cells(text), SecretKinds[1])
                                ELSE Cells(text)
           Two(s) == IF 2 \in s THEN RedactKind(text, One(s), SecretKinds[2]) ELSE One(s)
           Three(s) == IF 3 \in s THEN RedactKind(text, Two(s), SecretKinds[3]) ELSE Two(s)
           f0 == [s \in SUBSET D |-> Three(s)]
<1>1. Redacted(text) = fold[D]
  BY DEF Redacted, FoldLeft, MapThenFoldSet
<1>2. D = 1 .. 3
  BY DEF SecretKinds
<1> HIDE DEF D
<1>3. ASSUME NEW s \in SUBSET D, s # {}
      PROVE  Max(s) \in s /\ \A n \in s : n <= Max(s)
  <2>1. \E x \in s : \A y \in s : x >= y
    <3>1. CASE 3 \in s
      BY <3>1, <1>2
    <3>2. CASE 3 \notin s /\ 2 \in s
      BY <3>2, <1>2
    <3>3. CASE 3 \notin s /\ 2 \notin s
      <4>1. D = {1, 2, 3}
        BY <1>2
      <4>2. s = {1}
        BY <3>3, <1>3, <4>1
      <4> QED BY <4>2
    <3> QED BY <3>1, <3>2, <3>3
  <2>2. s \subseteq Int
    BY <1>2
  <2> QED BY <2>1, <2>2 DEF Max
<1>4. ASSUME NEW s \in SUBSET D, s # {} PROVE f0[s] = After(f0, s)
  <2> DEFINE m == Max(s)
             r == s \ {m}
  <2>1. r \in SUBSET D /\ f0[r] = Three(r) /\ f0[s] = Three(s) /\ m \in s /\ m \in 1 .. 3
    BY <1>2, <1>3, <1>4
  <2>2. \A n \in s : n <= m
    BY <1>3, <1>4
  <2>3. CASE m = 3
    <3>1. /\ 1 \in r <=> 1 \in s
          /\ 2 \in r <=> 2 \in s
          /\ 3 \notin r /\ 3 \in s
      BY <2>1, <2>3
    <3>2. One(r) = One(s)
      BY <3>1
    <3>3. Two(r) = Two(s)
      BY <3>1, <3>2
    <3>4. Three(s) = RedactKind(text, Two(s), SecretKinds[3]) /\ Three(r) = Two(r)
      BY <3>1
    <3> HIDE DEF One, Two, Three, f0, r, m
    <3> QED BY <2>1, <2>3, <3>3, <3>4 DEF m, r
  <2>4. CASE m = 2
    <3>1. /\ 1 \in r <=> 1 \in s
          /\ 2 \notin r /\ 2 \in s /\ 3 \notin r /\ 3 \notin s
      BY <2>1, <2>2, <2>4
    <3>2. One(r) = One(s)
      BY <3>1
    <3>3. Two(s) = RedactKind(text, One(s), SecretKinds[2]) /\ Two(r) = One(r)
      BY <3>1
    <3>4. Three(s) = Two(s) /\ Three(r) = Two(r)
      BY <3>1
    <3> HIDE DEF One, Two, Three, f0, r, m
    <3> QED BY <2>1, <2>4, <3>2, <3>3, <3>4 DEF m, r
  <2>5. CASE m = 1
    <3>1. 1 \notin r /\ 1 \in s /\ 2 \notin r /\ 2 \notin s /\ 3 \notin r /\ 3 \notin s
      BY <2>1, <2>2, <2>5
    <3>2. One(s) = RedactKind(text, Cells(text), SecretKinds[1]) /\ One(r) = Cells(text)
      BY <3>1
    <3>3. Two(s) = One(s) /\ Two(r) = One(r)
      BY <3>1
    <3>4. Three(s) = Two(s) /\ Three(r) = Two(r)
      BY <3>1
    <3> HIDE DEF One, Two, Three, f0, r, m
    <3> QED BY <2>1, <2>5, <3>2, <3>3, <3>4 DEF m, r
  <2> QED BY <2>1, <2>3, <2>4, <2>5
<1>5. f0[{}] = Cells(text)
  BY <1>2
<1> HIDE DEF One, Two, Three
<1>6. Folds(f0)
  <2>1. ASSUME NEW s \in SUBSET D
        PROVE  f0[s] = IF s = {} THEN Cells(text) ELSE After(f0, s)
    <3> HIDE DEF f0, After
    <3> QED BY <1>4, <1>5
  <2> HIDE DEF After
  <2>2. f0 = [s \in SUBSET D |-> f0[s]]
    OBVIOUS
  <2> HIDE DEF f0
  <2> QED BY <2>1, <2>2
<1>7. Folds(fold)
  <2> HIDE DEF Folds
  <2> QED BY <1>6
<1> HIDE DEF f0, fold
<1>8. fold[{}] = Cells(text)
  BY <1>7
<1>9. ASSUME NEW s \in SUBSET D, s # {} PROVE fold[s] = After(fold, s)
  <2> HIDE DEF After
  <2> QED BY <1>7, <1>9
<1>10. Max({1}) = 1 /\ Max({1, 2}) = 2 /\ Max({1, 2, 3}) = 3
  <2>1. ASSUME NEW n \in 1 .. 3 PROVE Max(1 .. n) = n
    <3>1. 1 .. n \in SUBSET D /\ n \in 1 .. n /\ 1 .. n # {}
      BY <1>2
    <3>2. Max(1 .. n) \in 1 .. n /\ n <= Max(1 .. n)
      BY <3>1, <1>3
    <3> QED BY <3>2
  <2>2. 1 .. 1 = {1} /\ 1 .. 2 = {1, 2} /\ 1 .. 3 = {1, 2, 3}
    OBVIOUS
  <2> QED BY <2>1, <2>2
<1>11. fold[{1}] = RedactKind(text, Cells(text), SecretKinds[1])
  <2>1. {1} \ {1} = {} /\ {1} \in SUBSET D
    BY <1>2
  <2> QED BY <2>1, <1>8, <1>9, <1>10
<1>12. fold[{1, 2}] = RedactKind(text, fold[{1}], SecretKinds[2])
  <2>1. {1, 2} \ {2} = {1} /\ {1, 2} \in SUBSET D
    BY <1>2
  <2> QED BY <2>1, <1>9, <1>10
<1>13. fold[{1, 2, 3}] = RedactKind(text, fold[{1, 2}], SecretKinds[3])
  <2>1. {1, 2, 3} \ {3} = {1, 2} /\ {1, 2, 3} \in SUBSET D
    BY <1>2
  <2> QED BY <2>1, <1>9, <1>10
<1>14. D = {1, 2, 3}
  BY <1>2
<1>15. /\ SecretKinds[1] = "api_key" /\ SecretKinds[2] = "bearer_token"
       /\ SecretKinds[3] = "fake_cortex_token"
  BY DEF SecretKinds
<1> QED BY <1>1, <1>11, <1>12, <1>13, <1>14, <1>15

\* What is left of a text of which no pattern matches twice.
LEMMA RedactionIsExact ==
  ASSUME NEW text \in Seq(Pieces), LoneSecrets(text)
  PROVE  Left(text, Redacted(text)) = {i \in DOMAIN text : ~IsSecret(text[i])}
<1> DEFINE first  == RedactKind(text, Cells(text), "api_key")
           second == RedactKind(text, first, "bearer_token")
           third  == RedactKind(text, second, "fake_cortex_token")
           Without(kinds) == {i \in DOMAIN text : text[i].kind \notin kinds}
<1>1. Range(SecretKinds) = {"api_key", "bearer_token", "fake_cortex_token"}
  BY DEF SecretKinds, Range
<1>2. ASSUME NEW kind \in Range(SecretKinds)
      PROVE  \A i, j \in DOMAIN text : text[i].kind = kind /\ text[j].kind = kind => i = j
  BY <1>2 DEF LoneSecrets, IsSecret
<1>3. ASSUME NEW cells, NEW kinds, Laid(text, cells, Without(kinds)),
             NEW kind \in Range(SecretKinds)
      PROVE  Laid(text, RedactKind(text, cells, kind), Without(kinds \union {kind}))
  <2>1. Laid(text, RedactKind(text, cells, kind), {i \in Without(kinds) : text[i].kind # kind})
    BY <1>2, <1>3, KindRedacted
  <2>2. {i \in Without(kinds) : text[i].kind # kind} = Without(kinds \union {kind})
    OBVIOUS
  <2> QED BY <2>1, <2>2
<1>4. Laid(text, Cells(text), Without({}))
  <2>1. Without({}) = DOMAIN text
    OBVIOUS
  <2> QED BY <2>1, CellsLaid
<1> DEFINE kept == {i \in DOMAIN text : ~IsSecret(text[i])}
<1>5. Laid(text, Redacted(text), kept)
  <2> HIDE DEF Without
  <2>1. Laid(text, first, Without({} \union {"api_key"}))
    BY <1>1, <1>3, <1>4
  <2>2. Laid(text, second, Without({} \union {"api_key"} \union {"bearer_token"}))
    BY <2>1, <1>1, <1>3
  <2>3. Laid(text, third, Without({} \union {"api_key"} \union {"bearer_token"}
                                  \union {"fake_cortex_token"}))
    BY <2>2, <1>1, <1>3
  <2>4. Without({} \union {"api_key"} \union {"bearer_token"} \union {"fake_cortex_token"})
           = kept
    BY <1>1 DEF Without, IsSecret
  <2>5. Redacted(text) = third
    BY OuterLoop
  <2> HIDE DEF third, kept
  <2> QED BY <2>3, <2>4, <2>5
<1>6. ASSUME NEW i \in DOMAIN text, NEW p \in DOMAIN Redacted(text), Redacted(text)[p][1] = i
      PROVE  i \in kept
  <2>1. i # 0
    BY TextFacts
  <2>2. Redacted(text)[p] # Placeholder
    BY <2>1, <1>6 DEF Placeholder
  <2>3. PICK k \in kept : \E j \in 1 .. text[k].size : Redacted(text)[p] = <<k, j>>
    BY <2>2, <1>5 DEF Laid
  <2> QED BY <2>3, <1>6
<1>7. ASSUME NEW i \in kept
      PROVE  \E p \in DOMAIN Redacted(text) : Redacted(text)[p][1] = i
  <2>1. i \in DOMAIN text
    OBVIOUS
  <2>2. Start(Redacted(text), i) \in DOMAIN Redacted(text)
        /\ LiesAt(text, Redacted(text), i, Start(Redacted(text), i))
    <3>1. kept \in SUBSET DOMAIN text
      OBVIOUS
    <3> HIDE DEF kept
    <3> QED BY <3>1, <1>5, StartOfPiece
  <2>3. 1 \in 1 .. text[i].size
    BY <2>1, TextFacts
  <2>4. Start(Redacted(text), i) \in Int
    <3>1. DOMAIN Redacted(text) = 1 .. Len(Redacted(text))
      BY <1>5, LenProperties DEF Laid, CellSeqs
    <3> QED BY <3>1, <2>2
  <2>5. Redacted(text)[Start(Redacted(text), i)] = <<i, 1>>
    <3>1. Redacted(text)[Start(Redacted(text), i) + 1 - 1] = <<i, 1>>
      BY <2>2, <2>3 DEF LiesAt
    <3> QED BY <3>1, <2>4
  <2> QED BY <2>2, <2>5
<1> QED BY <1>6, <1>7 DEF Left

-----------------------------------------------------------------------------
(* The endpoint *)

Stages == {"idle", "judged", "recording", "recorded", "asking", "copying", "copied",
           "done", "dropped"}

AllPosts == UNION {Posts[c] : c \in Callers}
AllLocals == UNION {Locals[c] : c \in Callers}

Requests == {None} \union AllPosts
            \union {[form |-> "local", event |-> e] : e \in AllLocals}
Outcomes == {None, Rejection}
            \union {Acceptance(payload.event) : payload \in AllPosts}
            \union {Handoff(e) : e \in AllLocals}

TypeOK ==
    /\ pc \in [Callers -> Stages]
    /\ request \in [Callers -> Requests]
    /\ outcome \in [Callers -> Outcomes]
    /\ results \in Seq(Outcomes)
    /\ lock \in Callers \union {None}
    /\ shown \in [Callers -> Seq(Outcomes)]
    /\ asked \in [Callers -> SUBSET Callers]

\* A thread that has come with a GET has no payload.
Blank ==
    \A c \in Callers :
        pc[c] \in {"idle", "asking", "copying", "copied"} => request[c] = None

\* A plan and a text are those of the request's event.
MadeOf(judgement, e) ==
    /\ judgement.plan = PlanFor(e)
    /\ judgement.text = RedactedText(Envelope(e), e.text)

Traced ==
    \A c \in Callers : Judged(c) =>
        Event(c).text \in Seq(Pieces) /\ MadeOf(outcome[c], Event(c))

\* The posts whose result has been appended and not let go of, and those that
\* have been answered.
Recorded == {c \in Callers : pc[c] \in {"recorded", "done"} /\ IsRecorded(c)}
Answered == {c \in Callers : pc[c] = "done" /\ IsRecorded(c)}

Counted == Cardinality(Recorded) <= Len(results)

\* What was answered once is answered for good.
Asked ==
    \A c \in Callers :
        /\ asked[c] \subseteq Answered
        /\ pc[c] \in {"idle", "judged", "recording", "recorded"} => asked[c] = {}

Inv == TypeOK /\ Blank /\ Traced /\ Counted /\ Asked /\ ResultsCountWhatWasAnswered

\* Either way of the handoff gives the plan and the text of its event.
LEMMA AcceptedPlan ==
  ASSUME NEW e
  PROVE  MadeOf(Acceptance(e), e) /\ MadeOf(Handoff(e), e)
  BY DEF Acceptance, Handoff, PlanFor, DecisionOn, MadeOf

\* At first nobody has asked for anything.
LEMMA InitInv == Init => Inv
<1> SUFFICES ASSUME Init PROVE Inv
  OBVIOUS
<1>1. Recorded = {}
  BY DEF Init, Recorded
<1>2. Cardinality(Recorded) = 0
  BY <1>1, FS_EmptySet
<1>3. TypeOK
  BY DEF Init, TypeOK, Stages, Requests, Outcomes
<1> QED BY <1>2, <1>3
        DEF Init, Inv, Blank, Traced, Judged, Counted, Asked, ResultsCountWhatWasAnswered

\* The facts about lists depend on pc, requests and lists alone.
LEMMA ListsKept ==
  ASSUME Inv, TypeOK', Blank', Traced', NEW c \in Callers,
         Recorded' \subseteq Recorded, Answered \subseteq Answered',
         UNCHANGED <<results, shown, asked>>,
         \A d \in Callers \ {c} : pc'[d] = pc[d],
         pc'[c] \in {"idle", "judged", "recording", "recorded"} => asked[c] = {},
         pc'[c] \in {"copied", "done"} => \/ pc[c] = "copied"
                                         \/ asked[c] = {}
  PROVE  Inv'
<1>1. IsFiniteSet(Recorded) /\ IsFiniteSet(Recorded')
  BY CallersAssumption, FS_Subset DEF Recorded
<1>2. Cardinality(Recorded') <= Cardinality(Recorded)
  BY <1>1, FS_Subset
<1>3. Cardinality(Recorded) \in Nat /\ Cardinality(Recorded') \in Nat /\ Len(results) \in Nat
  BY <1>1, FS_CardinalityType DEF Inv, TypeOK
<1>4. Counted'
  BY <1>2, <1>3 DEF Inv, Counted
<1>5. Asked'
  BY DEF Inv, Asked
<1>6. ResultsCountWhatWasAnswered'
  <2> SUFFICES ASSUME NEW d \in Callers, pc'[d] \in {"copied", "done"}
               PROVE  Cardinality(asked[d]) <= Len(shown[d])
    BY DEF ResultsCountWhatWasAnswered
  <2>1. CASE pc[d] \in {"copied", "done"}
    BY <2>1 DEF Inv, ResultsCountWhatWasAnswered
  <2>2. CASE d = c /\ asked[c] = {}
    BY <2>2, FS_EmptySet DEF Inv, TypeOK
  <2> QED BY <2>1, <2>2
<1> QED BY <1>4, <1>5, <1>6 DEF Inv

\* A post is judged, refused or lost; nothing is recorded yet.
LEMMA PostStep ==
  ASSUME Inv, NEW c \in Callers, NEW payload \in Posts[c], Post(c, payload)
  PROVE  Inv'
<1> USE DEF Inv
<1>1. payload \in AllPosts /\ payload.form \in Forms \ {"local"}
  BY CallersAssumption DEF AllPosts
<1>2. /\ pc[c] = "idle" /\ pc'[c] \in {"recorded", "dropped", "judged"}
      /\ pc'[c] = "recorded" => payload.form = "unreadable"
      /\ pc' \in [Callers -> Stages]
      /\ \A d \in Callers \ {c} : pc'[d] = pc[d]
  BY DEF Post, Goes, TypeOK, Stages, Unreadable
<1>3. request'[c] = payload /\ \A d \in Callers \ {c} : request'[d] = request[d]
  BY DEF Post, TypeOK
<1>4. /\ outcome'[c] \in {Rejection, None, Acceptance(payload.event)}
      /\ \A d \in Callers \ {c} : outcome'[d] = outcome[d]
  BY DEF Post, TypeOK, Fails
<1>5. TypeOK'
  BY <1>1, <1>2, <1>3, <1>4 DEF Post, TypeOK, Requests, Outcomes
<1>6. Traced'
  <2> SUFFICES ASSUME NEW d \in Callers, Judged(d)'
               PROVE  /\ request'[d].event.text \in Seq(Pieces)
                      /\ MadeOf(outcome'[d], request'[d].event)
    BY DEF Traced, MadeOf, Event
  <2>1. CASE d # c
    BY <2>1, <1>3, <1>4 DEF Traced, Judged, Event
  <2>2. CASE d = c
    <3>1. outcome'[c] # None /\ "plan" \in DOMAIN outcome'[c]
      BY <2>2 DEF Judged
    <3>2. outcome'[c] = Acceptance(payload.event)
      BY <3>1, <1>4 DEF Rejection
    <3> QED BY <2>2, <3>2, <1>3, AcceptedPlan, CallersAssumption
  <2> QED BY <2>1, <2>2
<1>7. Recorded' \subseteq Recorded /\ Answered \subseteq Answered'
  BY <1>2, <1>3 DEF Recorded, Answered, IsRecorded
<1>8. asked[c] = {}
  BY <1>2 DEF Asked
<1>9. Blank'
  BY <1>2, <1>3 DEF Blank
<1> QED BY <1>2, <1>5, <1>6, <1>7, <1>8, <1>9, ListsKept DEF Post

\* A call within the process touches its own caller only.
LEMMA HandOverStep ==
  ASSUME Inv, NEW c \in Callers, NEW event \in Locals[c], HandOver(c, event)
  PROVE  Inv'
<1> USE DEF Inv
<1>1. event \in AllLocals
  BY DEF AllLocals
<1>2. /\ pc[c] = "idle" /\ pc'[c] \in {"dropped", "done"}
      /\ pc' \in [Callers -> Stages]
      /\ \A d \in Callers \ {c} : pc'[d] = pc[d]
  BY DEF HandOver, Goes, TypeOK, Stages
<1>3. /\ request'[c] = [form |-> "local", event |-> event]
      /\ \A d \in Callers \ {c} : request'[d] = request[d]
  BY DEF HandOver, TypeOK
<1>4. /\ outcome'[c] \in {None, Handoff(event)}
      /\ \A d \in Callers \ {c} : outcome'[d] = outcome[d]
  BY DEF HandOver, TypeOK
<1>5. TypeOK'
  BY <1>1, <1>2, <1>3, <1>4 DEF HandOver, TypeOK, Requests, Outcomes
<1>6. Traced'
  <2> SUFFICES ASSUME NEW d \in Callers, Judged(d)'
               PROVE  /\ request'[d].event.text \in Seq(Pieces)
                      /\ MadeOf(outcome'[d], request'[d].event)
    BY DEF Traced, MadeOf, Event
  <2>1. CASE d # c
    BY <2>1, <1>3, <1>4 DEF Traced, Judged, Event
  <2>2. CASE d = c
    BY <2>2, <1>3, <1>4, AcceptedPlan, CallersAssumption DEF Judged
  <2> QED BY <2>1, <2>2
<1>7. Recorded' \subseteq Recorded /\ Answered \subseteq Answered'
  BY <1>2, <1>3 DEF Recorded, Answered, IsRecorded
<1>8. asked[c] = {}
  BY <1>2 DEF Asked
<1>9. Blank'
  BY <1>2, <1>3 DEF Blank
<1> QED BY <1>2, <1>5, <1>6, <1>7, <1>8, <1>9, ListsKept DEF HandOver

\* The steps that append nothing and copy nothing.
LEMMA MoveStep ==
  ASSUME Inv, NEW c \in Callers,
         EnterRecord(c) \/ Reply(c) \/ EnterResults(c) \/ Show(c)
  PROVE  Inv'
<1> USE DEF Inv
<1>1. /\ \A d \in Callers \ {c} : pc'[d] = pc[d]
      /\ <<pc[c], pc'[c]>> \in {<<"judged", "recording">>, <<"recorded", "done">>,
             <<"recorded", "dropped">>, <<"asking", "copying">>, <<"copied", "done">>,
             <<"copied", "dropped">>}
      /\ pc' \in [Callers -> Stages]
      /\ UNCHANGED <<request, outcome, results, shown, asked>>
  BY DEF EnterRecord, Reply, EnterResults, Show, Goes, TypeOK, Stages
<1>2. TypeOK'
  BY <1>1 DEF EnterRecord, Reply, EnterResults, Show, TypeOK
<1>3. Traced'
  BY <1>1 DEF Traced, MadeOf, Judged, Event
<1>4. Answered \subseteq Answered'
  BY <1>1 DEF Answered, IsRecorded
<1>5. Blank'
  BY <1>1 DEF Blank
<1>6. Recorded' \subseteq Recorded
  BY <1>1 DEF Blank, Recorded, IsRecorded
<1>7. pc[c] \in {"judged", "recorded"} => asked[c] = {}
  BY DEF Asked
<1> QED BY <1>1, <1>2, <1>3, <1>4, <1>5, <1>6, <1>7, ListsKept

\* A result is appended for one post more.
LEMMA RecordStep ==
  ASSUME Inv, NEW c \in Callers, Record(c)
  PROVE  Inv'
<1> USE DEF Inv
<1>1. /\ pc[c] = "recording" /\ pc'[c] = "recorded" /\ pc' \in [Callers -> Stages]
      /\ \A d \in Callers \ {c} : pc'[d] = pc[d]
      /\ UNCHANGED <<request, outcome, shown, asked>>
  BY DEF Record, Goes, TypeOK, Stages
<1>2. outcome[c] \in Outcomes
  BY DEF TypeOK
<1>3. /\ results' \in Seq(Outcomes) /\ Len(results') = Len(results) + 1
      /\ Len(results) \in Nat
  <2> HIDE DEF Outcomes
  <2> QED BY <1>2 DEF Record, TypeOK
<1>4. TypeOK' /\ Blank' /\ Traced'
  BY <1>1, <1>3 DEF Record, TypeOK, Blank, Traced, MadeOf, Judged, Event
<1>5. IsFiniteSet(Recorded) /\ IsFiniteSet(Recorded')
  BY CallersAssumption, FS_Subset DEF Recorded
<1>6. Recorded' \subseteq Recorded \union {c}
  BY <1>1 DEF Recorded, IsRecorded
<1>7. Cardinality(Recorded') <= Cardinality(Recorded) + 1
  <2>1. /\ Cardinality(Recorded \union {c}) <= Cardinality(Recorded) + 1
        /\ IsFiniteSet(Recorded \union {c})
    <3>1. c \notin Recorded
      BY <1>1 DEF Recorded
    <3>2. /\ Cardinality(Recorded \union {c}) = Cardinality(Recorded) + 1
          /\ IsFiniteSet(Recorded \union {c})
      BY <3>1, <1>5, FS_AddElement
    <3> QED BY <3>2, <1>5, FS_CardinalityType
  <2>2. Cardinality(Recorded') <= Cardinality(Recorded \union {c})
    BY <2>1, <1>6, FS_Subset
  <2> QED BY <2>1, <2>2, <1>5, FS_CardinalityType
<1>8. Counted'
  BY <1>3, <1>5, <1>7, FS_CardinalityType DEF Counted
<1>9. Asked' /\ ResultsCountWhatWasAnswered'
  BY <1>1 DEF Asked, Answered, IsRecorded, ResultsCountWhatWasAnswered
<1> QED BY <1>4, <1>8, <1>9

\* A GET notes which posts have been answered.
LEMMA AskStep ==
  ASSUME Inv, NEW c \in Callers, Ask(c)
  PROVE  Inv'
<1> USE DEF Inv
<1>1. /\ pc[c] = "idle" /\ pc'[c] = "asking" /\ pc' \in [Callers -> Stages]
      /\ \A d \in Callers \ {c} : pc'[d] = pc[d]
      /\ UNCHANGED <<request, outcome, results, lock, shown>>
  BY DEF Ask, Goes, TypeOK, Stages
<1>2. \A d \in Callers : asked'[d] = IF d = c THEN Answered ELSE asked[d]
  BY DEF Ask, Answered, TypeOK
<1>3. asked' \in [Callers -> SUBSET Callers]
  BY DEF Ask, TypeOK
<1>4. TypeOK' /\ Blank' /\ Traced'
  BY <1>1, <1>3 DEF TypeOK, Blank, Traced, MadeOf, Judged, Event
<1>5. Recorded' = Recorded /\ Answered' = Answered
  BY <1>1 DEF Recorded, Answered, IsRecorded
<1>6. Counted' /\ Asked' /\ ResultsCountWhatWasAnswered'
  BY <1>1, <1>2, <1>5 DEF Counted, Asked, ResultsCountWhatWasAnswered
<1> QED BY <1>4, <1>6

\* The copy holds a result for every post that was answered before.
LEMMA ResultsStep ==
  ASSUME Inv, NEW c \in Callers, Results(c)
  PROVE  Inv'
<1> USE DEF Inv
<1>1. /\ pc[c] = "copying" /\ pc'[c] = "copied" /\ pc' \in [Callers -> Stages]
      /\ \A d \in Callers \ {c} : pc'[d] = pc[d]
      /\ UNCHANGED <<request, outcome, results, asked>>
  BY DEF Results, Goes, TypeOK, Stages
<1>2. \A d \in Callers : shown'[d] = IF d = c THEN results ELSE shown[d]
  BY DEF Results, TypeOK
<1>3. shown' \in [Callers -> Seq(Outcomes)]
  BY DEF Results, TypeOK
<1>4. TypeOK' /\ Blank' /\ Traced'
  BY <1>1, <1>3 DEF Results, TypeOK, Blank, Traced, MadeOf, Judged, Event
<1>5. Recorded' = Recorded /\ Answered' = Answered
  BY <1>1 DEF Recorded, Answered, IsRecorded
<1>6. Counted' /\ Asked'
  BY <1>1, <1>5 DEF Counted, Asked
<1>7. Cardinality(asked[c]) <= Len(results)
  <2>1. asked[c] \subseteq Recorded
    BY DEF Asked, Answered, Recorded
  <2>2. IsFiniteSet(Recorded)
    BY CallersAssumption, FS_Subset DEF Recorded
  <2>3. /\ IsFiniteSet(asked[c]) /\ Cardinality(asked[c]) <= Cardinality(Recorded)
    BY <2>1, <2>2, FS_Subset
  <2>4. Len(results) \in Nat
    BY DEF TypeOK
  <2> QED BY <2>2, <2>3, <2>4, FS_CardinalityType DEF Counted
<1>8. ResultsCountWhatWasAnswered'
  BY <1>1, <1>2, <1>7 DEF ResultsCountWhatWasAnswered
<1> QED BY <1>4, <1>6, <1>8

\* Nothing changes.
LEMMA Stutter == Inv /\ UNCHANGED vars => Inv'
  BY DEF Inv, vars, TypeOK, Blank, Traced, MadeOf, Judged, Event, Counted, Recorded,
         Asked, Answered, IsRecorded, ResultsCountWhatWasAnswered

\* Every step keeps the invariant.
LEMMA StepInv == Inv /\ [Next]_vars => Inv'
<1> SUFFICES ASSUME Inv, Next PROVE Inv'
  BY Stutter
<1>1. PICK c \in Callers : Begin(c) \/ Proceed(c)
  BY DEF Next
<1> QED BY <1>1, PostStep, HandOverStep, AskStep, MoveStep, RecordStep, ResultsStep
        DEF Begin, Proceed

\* What the endpoint's list and its readers know of each other.
THEOREM EndpointInductive == Spec => []Inv
<1> QED BY InitInv, StepInv, PTL DEF Spec

\* Nothing is kept of what was not consented to, whoever posts it or hands it
\* over, and in whatever order.
THEOREM KeptForGood == Spec => []KeptIsConsentedAndClean
<1>1. Inv => KeptIsConsentedAndClean
  <2> SUFFICES ASSUME Inv, NEW c \in Callers, Judged(c), NEW e, e = Event(c)
               PROVE  LET plan == PlanFor(e)
                      IN /\ plan.raw \/ plan.derived # {} \/ plan.eligible =>
                               e.consent = "active"
                         /\ plan.raw \/ "given" \in plan.derived \/ plan.eligible =>
                               ~HasSecret(e.text) /\ ~Injected(e.text)
                         /\ plan.eligible \/ plan.raw => e.source # "browser"
    BY DEF Inv, Traced, MadeOf, ThePlan, KeptIsConsentedAndClean
  <2> QED BY KeptIsClean
<1> QED BY <1>1, EndpointInductive, PTL

\* No result that was answered is missing from a later copy of the list.
THEOREM NoResultIsLost == Spec => []ResultsCountWhatWasAnswered
<1>1. Inv => ResultsCountWhatWasAnswered
  BY DEF Inv
<1> QED BY <1>1, EndpointInductive, PTL

\* redact_sensitive_text: where no pattern matches a text twice, what goes out
\* has no cell of a secret and every other piece, however long the text.
THEOREM LoneSecretsReplaced == Spec => []LoneSecretsAreReplaced
<1>1. Inv => LoneSecretsAreReplaced
  <2> SUFFICES ASSUME Inv, NEW c \in Callers, Judged(c), outcome[c].text # <<>>,
                      LoneSecrets(Event(c).text)
               PROVE  Left(Event(c).text, outcome[c].text)
                        = {i \in DOMAIN Event(c).text : ~IsSecret(Event(c).text[i])}
    BY DEF LoneSecretsAreReplaced
  <2>1. /\ Event(c).text \in Seq(Pieces)
        /\ outcome[c].text = RedactedText(Envelope(Event(c)), Event(c).text)
    BY DEF Inv, Traced, MadeOf
  <2>2. outcome[c].text = Redacted(Event(c).text)
    BY <2>1 DEF RedactedText
  <2> QED BY <2>1, <2>2, RedactionIsExact
<1> QED BY <1>1, EndpointInductive, PTL
=============================================================================
