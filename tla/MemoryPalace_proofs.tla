-------------------------- MODULE MemoryPalace_proofs --------------------------
(***************************************************************************)
(* The Memory Palace for any memories, any clock and any number of         *)
(* requests and interruptions.  A version that a search could return is    *)
(* one that has never been corrected: nothing is ever stored over it or    *)
(* beside it.                                                              *)
(***************************************************************************)
EXTENDS MemoryPalace, FiniteSetTheorems, SequenceTheorems, TLAPS

Retired == {"superseded", "deleted"}

\* What holds of the rows of a memory, and of the copies made of them.
Sound(m, s) ==
    /\ m.status \in {"candidate", "active"} \cup Retired
    /\ m.status \in Retired => m.level = "stored_only"
    /\ m.level = "tool" => m.allowed = TRUE
    /\ m.evidence # "inferred"
    /\ m.from <= Day(now)
    /\ s \notin again =>
          /\ m.status \notin Retired => m.to = None /\ m.level # "stored_only"
          /\ m.to # None => m.from <= m.to

SoundRows == \A id \in DOMAIN rows : Sound(rows[id], id.seed)

Live(id) == rows[id].level # "stored_only"

OneLive ==
    \A i, j \in DOMAIN rows : i.seed = j.seed /\ Live(i) /\ Live(j) => i = j

\* A memory that has a correction is there, and is not live.
Closed ==
    \A i \in Ids, t \in 0..LastSecond :
        CorrectedId(i, t) \in DOMAIN rows => i \in DOMAIN rows /\ ~Live(i)

\* A correction under way.
Correcting ==
    /\ pc # "rest" => target \in DOMAIN rows /\ action \in {"correct_memory", "delete_memory"}
    /\ pc = "replace" =>
          /\ Len(target.at) < MaxDepth /\ rows[target].status = "superseded"
          /\ action = "correct_memory"
          /\ copy \in Records /\ copy.status = "active" /\ Sound(copy, target.seed)
          /\ copy.level # "stored_only" =>
                /\ CorrectedId(target, began) \notin DOMAIN rows
                /\ \A id \in DOMAIN rows : id.seed = target.seed => ~Live(id)

\* The versions of a memory that was corrected without mishap form a chain.
Tip(s, id) ==
    /\ id \in DOMAIN rows /\ id.seed = s
    /\ \A v \in DOMAIN rows \ {id} :
          v.seed = s => Len(v.at) < Len(id.at) /\ rows[v].status \in Retired
    /\ pc = "replace" /\ target.seed = s => target = id
    /\ rows[id].status = "superseded" => pc = "replace" /\ target = id
Chain == \A s \in Seeds \ (hurt \cup again) : \E id \in Ids : Tip(s, id)

\* What is superseded or deleted has its receipt, or will have it.
Accounted ==
    \A id \in DOMAIN rows : id.seed \notin hurt =>
        /\ rows[id].status = "superseded" =>
              \/ \E a \in audits : a.target = id /\ a.action = "correct_memory"
              \/ pc # "rest" /\ target = id /\ action = "correct_memory"
        /\ rows[id].status = "deleted" =>
              \/ \E a \in audits : a.target = id /\ a.action = "delete_memory"
              \/ pc # "rest" /\ target = id /\ action = "delete_memory"

Inv ==
    /\ TypeOK /\ SoundRows /\ OneLive /\ Closed /\ Correcting /\ Chain /\ Accounted

-----------------------------------------------------------------------------
(* Ids, days and records *)

LEMMA IdFacts ==
  ASSUME NEW i \in Ids
  PROVE  /\ i.seed \in Seeds /\ i.at \in Seq(0..LastSecond)
         /\ Len(i.at) \in Nat /\ Len(i.at) <= MaxDepth
  BY PalaceAssumption DEF Ids, BoundedSeq, SeqOf

\* The id of a correction: that of its original, and the second of the correction.
LEMMA CorrectedIdFacts ==
  ASSUME NEW i \in Ids, NEW t \in 0..LastSecond
  PROVE  /\ CorrectedId(i, t).seed = i.seed
         /\ CorrectedId(i, t).at = Append(i.at, t)
         /\ Len(CorrectedId(i, t).at) = Len(i.at) + 1
         /\ Len(i.at) < MaxDepth => CorrectedId(i, t) \in Ids
<1>1. i.at \in Seq(0..LastSecond) /\ Len(i.at) \in Nat
  BY IdFacts
<1>2. /\ CorrectedId(i, t).seed = i.seed /\ CorrectedId(i, t).at = Append(i.at, t)
      /\ CorrectedId(i, t) = [seed |-> i.seed, at |-> Append(i.at, t)]
  BY DEF CorrectedId, Ids
<1>3. /\ Append(i.at, t) \in Seq(0..LastSecond)
      /\ Len(Append(i.at, t)) = Len(i.at) + 1
  BY <1>1
<1>4. ASSUME Len(i.at) < MaxDepth PROVE CorrectedId(i, t) \in Ids
  <2>1. Append(i.at, t) \in [1..Len(i.at) + 1 -> 0..LastSecond]
    BY <1>1, <1>3, LenProperties
  <2>2. PICK m \in 0..MaxDepth : m = Len(i.at) + 1
    BY <1>1, <1>4, PalaceAssumption
  <2>3. Append(i.at, t) \in BoundedSeq(0..LastSecond, MaxDepth)
    BY <2>1, <2>2 DEF BoundedSeq, SeqOf
  <2> QED BY <2>3, <1>2, IdFacts DEF Ids
<1> QED BY <1>2, <1>3, <1>4

\* A correction has one memory that it corrects.
LEMMA CorrectedIdInjective ==
  ASSUME NEW i \in Ids, NEW j \in Ids, NEW t \in 0..LastSecond, NEW u \in 0..LastSecond,
         CorrectedId(i, t) = CorrectedId(j, u)
  PROVE  i = j
<1>1. Append(i.at, t) = Append(j.at, u) /\ i.seed = j.seed
  BY CorrectedIdFacts
<1>2. i.at \in Seq(0..LastSecond) /\ j.at \in Seq(0..LastSecond)
  BY IdFacts
<1>3. i.at = j.at
  <2>1. Len(i.at) = Len(j.at)
    BY <1>1, CorrectedIdFacts, <1>2
  <2>2. \A k \in 1..Len(i.at) : i.at[k] = j.at[k]
    <3> SUFFICES ASSUME NEW k \in 1..Len(i.at) PROVE i.at[k] = j.at[k]
      OBVIOUS
    <3>1. i.at[k] = Append(i.at, t)[k] /\ j.at[k] = Append(j.at, u)[k]
      BY <1>2, <2>1
    <3> QED BY <3>1, <1>1
  <2> QED BY <1>2, <2>1, <2>2
<1> QED BY <1>1, <1>3 DEF Ids

\* The id of a seed.
LEMMA RootFacts ==
  ASSUME NEW s \in Seeds
  PROVE  Root(s) \in Ids /\ Root(s).seed = s /\ Root(s).at = <<>>
<1>1. <<>> \in [1..0 -> 0..LastSecond]
  OBVIOUS
<1>2. <<>> \in BoundedSeq(0..LastSecond, MaxDepth)
  BY <1>1, PalaceAssumption DEF BoundedSeq, SeqOf
<1> QED BY <1>2 DEF Root, Ids

\* The days of a chain do not go back.
LEMMA DayGrows ==
  ASSUME NEW a \in Nat
  PROVE  Day(a) \in Nat /\ Day(a) <= Day(a + 1)
<1>1. PICK d \in Nat \ {0} : d = DayLength
  BY PalaceAssumption
<1>2. a \div d \in Nat /\ (a + 1) \div d \in Nat
  OBVIOUS
<1>3. a \div d <= (a + 1) \div d
  OBVIOUS
<1> QED BY <1>1, <1>2, <1>3 DEF Day

\* What a transition changes of a record, and what it keeps.
LEMMA TransitionFacts ==
  ASSUME NEW m \in Records, NEW to \in {"superseded", "deleted"}, NEW day \in Nat
  PROVE  LET n == Transition(m, to, day)
         IN /\ n \in Records /\ n.status = to /\ n.level = "stored_only"
            /\ n.to = day /\ n.from = m.from /\ n.evidence = m.evidence
            /\ n.secret = m.secret
  BY DEF Transition, Records, Statuses, Levels, Blocking

\* What a correction writes.
LEMMA CorrectedFacts ==
  ASSUME NEW m \in Records, NEW second \in Nat
  PROVE  LET n == Corrected(m, second)
         IN /\ n \in Records /\ n.status = "active" /\ n.level = m.level
            /\ n.allowed = m.allowed /\ n.evidence = "user_confirmed"
            /\ n.from = Day(second) /\ n.to = m.to
  BY DayGrows DEF Corrected, Records, Statuses, Levels, Evidences, Confidences

-----------------------------------------------------------------------------
(* The initial states *)

LEMMA InitInv == Init => Inv
<1> SUFFICES ASSUME Init PROVE Inv
  OBVIOUS
<1> USE DEF Init
<1>1. /\ DOMAIN rows = {Root(s) : s \in Seeds}
      /\ \A id \in DOMAIN rows : rows[id] \in SeedRecords
  OBVIOUS
<1>2. /\ \A s \in Seeds : Root(s) \in DOMAIN rows
      /\ \A id \in DOMAIN rows :
            id \in Ids /\ id.seed \in Seeds /\ id = Root(id.seed) /\ id.at = <<>>
  BY <1>1, RootFacts
<1>3. \A m \in SeedRecords :
          /\ m \in Records /\ m.status \in {"candidate", "active"}
          /\ m.level \in {"direct", "tool"} /\ m.allowed = TRUE
          /\ m.evidence # "inferred" /\ m.from = 0 /\ m.to = None
  <2> SUFFICES ASSUME NEW m \in SeedRecords
               PROVE  /\ m \in Records /\ m.status \in {"candidate", "active"}
                      /\ m.level \in {"direct", "tool"} /\ m.allowed = TRUE
                      /\ m.evidence # "inferred" /\ m.from = 0 /\ m.to = None
    OBVIOUS
  <2> HIDE DEF Init
  <2>1. m \in [status : {"candidate", "active"}, evidence : {"observed_and_inferred"},
               confidence : {"fair"}, secret : BOOLEAN, confirm : {FALSE},
               level : {"direct", "tool"}, allowed : {TRUE}, from : {0}, to : {None}]
    BY DEF SeedRecords
  <2>2. /\ m.status \in Statuses /\ m.evidence \in Evidences
        /\ m.confidence \in Confidences /\ m.level \in Levels
    BY <2>1 DEF Statuses, Levels, Evidences, Confidences
  <2>3. /\ m.secret \in BOOLEAN /\ m.confirm \in BOOLEAN /\ m.allowed \in BOOLEAN
    BY <2>1
  <2>4. m.from \in Nat /\ m.to \in Nat \cup {None}
    BY <2>1
  <2>5. m = [status |-> m.status, evidence |-> m.evidence, confidence |-> m.confidence,
             secret |-> m.secret, confirm |-> m.confirm, level |-> m.level,
             allowed |-> m.allowed, from |-> m.from, to |-> m.to]
    BY <2>1
  <2>6. m \in Records
    BY <2>2, <2>3, <2>4, <2>5 DEF Records
  <2> QED BY <2>1, <2>6
<1>4. Day(now) \in Nat
  BY DayGrows
<1>5. TypeOK
  BY <1>1, <1>2, <1>3, PalaceAssumption DEF TypeOK
<1>6. SoundRows
  BY <1>1, <1>3, <1>4 DEF SoundRows, Sound, Retired
<1>7. OneLive
  BY <1>2 DEF OneLive
<1>8. Closed
  <2> SUFFICES ASSUME NEW i \in Ids, NEW t \in 0..LastSecond
               PROVE  CorrectedId(i, t) \notin DOMAIN rows
    BY DEF Closed
  <2>1. Len(CorrectedId(i, t).at) # 0
    BY CorrectedIdFacts, IdFacts
  <2>2. Len(<<>>) = 0
    OBVIOUS
  <2> QED BY <2>1, <2>2, <1>2
<1>9. Correcting
  BY DEF Correcting
<1>10. Chain
  <2> SUFFICES ASSUME NEW s \in Seeds PROVE Tip(s, Root(s))
    BY RootFacts DEF Chain
  <2>1. rows[Root(s)].status # "superseded"
    BY <1>1, <1>2, <1>3
  <2> QED BY <1>2, <2>1, RootFacts DEF Tip
<1>11. Accounted
  BY <1>1, <1>3 DEF Accounted
<1> QED BY <1>5, <1>6, <1>7, <1>8, <1>9, <1>10, <1>11 DEF Inv

-----------------------------------------------------------------------------
(* A request begins: one row is retired *)

\* What CorrectBegin and DeleteBegin both do to the rows.
Retire(id, status) ==
    /\ pc = "rest" /\ id \in DOMAIN rows
    /\ rows' = Put(id, Transition(rows[id], status, Day(now)))
    /\ again \subseteq again' /\ UNCHANGED <<now, audits, hurt>>

\* Retiring a row leaves the others, and nothing that could come back.
LEMMA RetireFacts ==
  ASSUME Inv, NEW id \in DOMAIN rows, NEW status \in Retired, Retire(id, status)
  PROVE  /\ DOMAIN rows' = DOMAIN rows
         /\ rows'[id] \in Records /\ rows'[id].status = status
         /\ rows'[id].level = "stored_only"
         /\ \A x \in DOMAIN rows \ {id} : rows'[x] = rows[x]
         /\ rows' \in [DOMAIN rows -> Records]
         /\ SoundRows' /\ OneLive' /\ Closed'
<1> USE DEF Retire
<1>1. now \in Nat /\ rows \in [DOMAIN rows -> Records]
  BY PalaceAssumption DEF Inv, TypeOK
<1>2. PICK day \in Nat : day = Day(now)
  BY <1>1, DayGrows
<1>3. PICK m \in Records : m = rows[id]
  BY <1>1
<1>4. PICK n \in Records : n = Transition(m, status, day)
  BY TransitionFacts DEF Retired
<1>5. /\ n.status = status /\ n.level = "stored_only" /\ n.to = day
      /\ n.from = m.from /\ n.evidence = m.evidence
  BY <1>4, TransitionFacts DEF Retired
<1>6. rows' = [x \in DOMAIN rows |-> IF x = id THEN n ELSE rows[x]]
  BY <1>2, <1>3, <1>4 DEF Put
<1>7. /\ DOMAIN rows' = DOMAIN rows /\ rows'[id] = n
      /\ \A x \in DOMAIN rows \ {id} : rows'[x] = rows[x]
  BY <1>6
<1>8. rows' \in [DOMAIN rows -> Records]
  BY <1>6, <1>1
<1>9. SoundRows'
  <2> SUFFICES ASSUME NEW x \in DOMAIN rows PROVE Sound(rows[x], x.seed)'
    BY <1>7 DEF SoundRows
  <2>1. Sound(rows[x], x.seed) /\ Day(now)' = day
    BY <1>2 DEF Inv, SoundRows, Day
  <2>2. CASE x = id
    <3>1. rows'[x] = n
      BY <1>7, <2>2
    <3>2. m.from <= day /\ m.evidence # "inferred"
      BY <2>1, <2>2, <1>2, <1>3 DEF Sound
    <3>3. n.status \in Retired /\ n.level # "tool"
      BY <1>5
    <3> QED BY <3>1, <3>2, <3>3, <2>1, <1>5 DEF Sound
  <2>3. CASE x # id
    <3>1. rows'[x] = rows[x]
      BY <1>7, <2>3
    <3> QED BY <3>1, <2>1, <1>2 DEF Sound
  <2> QED BY <2>2, <2>3
<1>10. \A x \in DOMAIN rows : Live(x)' => Live(x)
  BY <1>7, <1>5 DEF Live
<1>11. OneLive'
  BY <1>7, <1>10 DEF Inv, OneLive
<1>12. Closed'
  <2> SUFFICES ASSUME NEW i \in Ids, NEW t \in 0..LastSecond,
                      CorrectedId(i, t) \in DOMAIN rows'
               PROVE  i \in DOMAIN rows' /\ ~Live(i)'
    BY DEF Closed, CorrectedId
  <2>1. i \in DOMAIN rows /\ ~Live(i)
    BY <1>7 DEF Inv, Closed
  <2> QED BY <2>1, <1>7, <1>10
<1> QED BY <1>5, <1>7, <1>8, <1>9, <1>11, <1>12

\* correct_memory up to its first write.
LEMMA StepCorrectBegin ==
  ASSUME Inv, NEW id \in DOMAIN rows, CorrectBegin(id)
  PROVE  Inv'
<1> USE DEF CorrectBegin, Begin
<1>1. Retire(id, "superseded")
  BY DEF Retire
<1>2. /\ DOMAIN rows' = DOMAIN rows
      /\ rows'[id] \in Records /\ rows'[id].status = "superseded"
      /\ rows'[id].level = "stored_only"
      /\ \A x \in DOMAIN rows \ {id} : rows'[x] = rows[x]
      /\ rows' \in [DOMAIN rows -> Records]
      /\ SoundRows' /\ OneLive' /\ Closed'
  BY <1>1, RetireFacts DEF Retired
<1>3. /\ id \in Ids /\ id.seed \in Seeds /\ now \in 0..LastSecond /\ now \in Nat
      /\ rows[id] \in Records
  BY IdFacts, PalaceAssumption DEF Inv, TypeOK
<1>4. PICK m \in Records : m = rows[id]
  BY <1>3
<1>5. /\ copy' \in Records /\ copy'.status = "active" /\ copy'.level = m.level
      /\ copy'.allowed = m.allowed /\ copy'.evidence = "user_confirmed"
      /\ copy'.from = Day(now) /\ copy'.to = m.to
  BY <1>3, <1>4, CorrectedFacts
<1>6. PICK day \in Nat : day = Day(now)
  BY <1>3, DayGrows
<1>7. /\ m.status # "deleted" /\ (m.status = "superseded" => again' = again \cup {id.seed})
      /\ again \subseteq again' /\ again' \subseteq Seeds
  BY <1>4, <1>3 DEF Terminal, Inv, TypeOK
<1>8. TypeOK'
  BY <1>2, <1>3, <1>5, <1>7, PalaceAssumption DEF Inv, TypeOK
<1>9. Correcting'
  <2>1. Sound(rows[id], id.seed) /\ Day(now)' = Day(now)
    BY DEF Inv, SoundRows, Day
  <2>2. id.seed \notin again' => m.status \notin Retired
    BY <1>7 DEF Retired
  <2>3. id.seed \notin again' => m.to = None /\ m.level # "stored_only"
    BY <2>1, <2>2, <1>4, <1>7 DEF Sound
  <2>4. m.level = "tool" => m.allowed = TRUE
    BY <2>1, <1>4 DEF Sound
  <2>5. Sound(copy, target.seed)'
    BY <2>1, <2>3, <2>4, <1>5, <1>6 DEF Sound, Retired
  <2>6. ASSUME m.level # "stored_only"
        PROVE  /\ CorrectedId(id, now) \notin DOMAIN rows
               /\ \A x \in DOMAIN rows : x.seed = id.seed => ~Live(x)'
    <3>1. Live(id)
      BY <2>6, <1>4 DEF Live
    <3>2. CorrectedId(id, now) \notin DOMAIN rows
      BY <3>1, <1>3 DEF Inv, Closed
    <3>3. ASSUME NEW x \in DOMAIN rows, x.seed = id.seed PROVE ~Live(x)'
      <4>1. CASE x = id
        BY <4>1, <1>2 DEF Live
      <4>2. CASE x # id
        BY <4>2, <1>2, <3>1, <3>3 DEF Live, Inv, OneLive
      <4> QED BY <4>1, <4>2
    <3> QED BY <3>2, <3>3
  <2>7. CorrectedId(target, began)' = CorrectedId(id, now)
    BY DEF CorrectedId
  <2> QED BY <2>5, <2>6, <2>7, <1>2, <1>5 DEF Correcting
<1>10. Chain'
  <2> SUFFICES ASSUME NEW s \in Seeds, s \notin hurt' \cup again'
               PROVE  \E t \in Ids : Tip(s, t)'
    BY DEF Chain
  <2>1. PICK t \in Ids : Tip(s, t)
    BY <1>7 DEF Inv, Chain
  <2>2. \A v \in DOMAIN rows : rows[v].status \in Retired => rows'[v].status \in Retired
    BY <1>2 DEF Retired
  <2>3. CASE id.seed # s
    <3>1. t # id /\ rows'[t] = rows[t]
      BY <2>1, <2>3, <1>2 DEF Tip
    <3> QED BY <2>1, <2>2, <2>3, <3>1, <1>2 DEF Tip
  <2>4. CASE id.seed = s
    <3>1. m.status \notin Retired
      BY <2>4, <1>7 DEF Retired
    <3>2. t = id
      BY <3>1, <2>1, <2>4, <1>4 DEF Tip
    <3> QED BY <3>2, <2>1, <2>2, <1>2 DEF Tip
  <2> QED BY <2>3, <2>4
<1>11. Accounted'
  <2> SUFFICES ASSUME NEW x \in DOMAIN rows, x.seed \notin hurt
               PROVE  /\ rows'[x].status = "superseded" =>
                            \/ \E a \in audits : a.target = x /\ a.action = "correct_memory"
                            \/ id = x
                      /\ rows'[x].status = "deleted" =>
                            \E a \in audits : a.target = x /\ a.action = "delete_memory"
    BY <1>2 DEF Accounted
  <2>1. CASE x = id
    BY <2>1, <1>2
  <2>2. CASE x # id
    BY <2>2, <1>2 DEF Inv, Accounted
  <2> QED BY <2>1, <2>2
<1> QED BY <1>2, <1>8, <1>9, <1>10, <1>11 DEF Inv

\* delete_memory up to its write.
LEMMA StepDeleteBegin ==
  ASSUME Inv, NEW id \in DOMAIN rows, DeleteBegin(id)
  PROVE  Inv'
<1> USE DEF DeleteBegin, Begin
<1>1. Retire(id, "deleted")
  BY DEF Retire
<1>2. /\ DOMAIN rows' = DOMAIN rows
      /\ rows'[id] \in Records /\ rows'[id].status = "deleted"
      /\ rows'[id].level = "stored_only"
      /\ \A x \in DOMAIN rows \ {id} : rows'[x] = rows[x]
      /\ rows' \in [DOMAIN rows -> Records]
      /\ SoundRows' /\ OneLive' /\ Closed'
  BY <1>1, RetireFacts DEF Retired
<1>3. TypeOK'
  BY <1>2, PalaceAssumption DEF Inv, TypeOK
<1>4. Correcting'
  BY <1>2 DEF Correcting
<1>5. Chain'
  <2> SUFFICES ASSUME NEW s \in Seeds, s \notin hurt \cup again
               PROVE  \E t \in Ids : Tip(s, t)'
    BY DEF Chain
  <2>1. PICK t \in Ids : Tip(s, t)
    BY DEF Inv, Chain
  <2>2. \A v \in DOMAIN rows : rows[v].status \in Retired => rows'[v].status \in Retired
    BY <1>2 DEF Retired
  <2>3. rows[t].status # "superseded" /\ rows'[t].status # "superseded"
    BY <2>1, <1>2 DEF Tip
  <2> QED BY <2>1, <2>2, <2>3, <1>2 DEF Tip
<1>6. Accounted'
  <2> SUFFICES ASSUME NEW x \in DOMAIN rows, x.seed \notin hurt
               PROVE  /\ rows'[x].status = "superseded" =>
                            \E a \in audits : a.target = x /\ a.action = "correct_memory"
                      /\ rows'[x].status = "deleted" =>
                            \/ \E a \in audits : a.target = x /\ a.action = "delete_memory"
                            \/ id = x
    BY <1>2 DEF Accounted
  <2>1. CASE x = id
    BY <2>1, <1>2
  <2>2. CASE x # id
    BY <2>2, <1>2 DEF Inv, Accounted
  <2> QED BY <2>1, <2>2
<1> QED BY <1>2, <1>3, <1>4, <1>5, <1>6 DEF Inv

-----------------------------------------------------------------------------
(* The replacement is stored *)

LEMMA StepReplace ==
  ASSUME Inv, Replace
  PROVE  Inv'
<1> USE DEF Replace
<1>1. /\ target \in DOMAIN rows /\ Len(target.at) < MaxDepth
      /\ rows[target].status = "superseded" /\ action = "correct_memory"
      /\ copy \in Records /\ copy.status = "active" /\ Sound(copy, target.seed)
  BY DEF Inv, Correcting
<1>2. target \in Ids /\ target.seed \in Seeds /\ began \in 0..LastSecond
  BY <1>1, IdFacts DEF Inv, TypeOK
<1>3. PICK c \in Ids : c = CorrectedId(target, began)
  BY <1>1, <1>2, CorrectedIdFacts
<1>4. c.seed = target.seed /\ Len(c.at) = Len(target.at) + 1 /\ c # target
  BY <1>2, <1>3, CorrectedIdFacts, IdFacts
<1>5. /\ rows' = [x \in DOMAIN rows \cup {c} |-> IF x = c THEN copy ELSE rows[x]]
      /\ DOMAIN rows' = DOMAIN rows \cup {c}
      /\ rows'[c] = copy
      /\ \A x \in DOMAIN rows \ {c} : rows'[x] = rows[x]
  BY <1>3 DEF Put
<1>6. copy.level # "stored_only" =>
          c \notin DOMAIN rows /\ \A x \in DOMAIN rows : x.seed = c.seed => ~Live(x)
  BY <1>3, <1>4 DEF Inv, Correcting
<1>7. TypeOK'
  <2>1. rows' \in [DOMAIN rows' -> Records]
    BY <1>1, <1>5 DEF Inv, TypeOK
  <2> QED BY <2>1, <1>3, <1>5 DEF Inv, TypeOK
<1>8. SoundRows'
  <2> SUFFICES ASSUME NEW x \in DOMAIN rows' PROVE Sound(rows[x], x.seed)'
    BY DEF SoundRows
  <2>1. CASE x = c
    BY <2>1, <1>1, <1>4, <1>5 DEF Sound, Day
  <2>2. CASE x # c
    <3>1. Sound(rows[x], x.seed) /\ rows'[x] = rows[x]
      BY <2>2, <1>5 DEF Inv, SoundRows
    <3> QED BY <3>1 DEF Sound, Day
  <2> QED BY <2>1, <2>2
<1>9. /\ Live(c)' <=> copy.level # "stored_only"
      /\ \A x \in DOMAIN rows \ {c} : Live(x)' <=> Live(x)
  BY <1>5 DEF Live
<1>10. OneLive'
  <2> SUFFICES ASSUME NEW i \in DOMAIN rows', NEW j \in DOMAIN rows',
                      i.seed = j.seed, Live(i)', Live(j)'
               PROVE  i = j
    BY DEF OneLive
  <2>1. CASE i # c /\ j # c
    BY <2>1, <1>5, <1>9 DEF Inv, OneLive
  <2>2. CASE i = c \/ j = c
    BY <2>2, <1>5, <1>6, <1>9
  <2> QED BY <2>1, <2>2
<1>11. Closed'
  <2> SUFFICES ASSUME NEW i \in Ids, NEW t \in 0..LastSecond,
                      CorrectedId(i, t) \in DOMAIN rows'
               PROVE  i \in DOMAIN rows' /\ ~Live(i)'
    BY DEF Closed, CorrectedId
  <2>1. CASE CorrectedId(i, t) = c
    <3>1. i = target
      BY <2>1, <1>2, <1>3, CorrectedIdInjective
    <3>2. ~Live(target)
      BY <1>1 DEF Live, Inv, SoundRows, Sound, Retired
    <3> QED BY <3>1, <3>2, <1>1, <1>4, <1>5, <1>9
  <2>2. CASE CorrectedId(i, t) # c
    <3>1. i \in DOMAIN rows /\ ~Live(i)
      BY <2>2, <1>5 DEF Inv, Closed
    <3> QED BY <3>1, <1>5, <1>6, <1>9
  <2> QED BY <2>1, <2>2
<1>12. Correcting'
  BY <1>1, <1>5 DEF Correcting
<1>13. Chain'
  <2> SUFFICES ASSUME NEW s \in Seeds, s \notin hurt \cup again
               PROVE  \E t \in Ids : Tip(s, t)'
    BY DEF Chain
  <2>1. PICK t \in Ids : Tip(s, t)
    BY DEF Inv, Chain
  <2>2. Len(t.at) \in Nat /\ \A v \in DOMAIN rows : Len(v.at) \in Nat
    BY IdFacts DEF Inv, TypeOK
  <2>3. CASE target.seed # s
    <3>1. t # c /\ rows'[t] = rows[t] /\ t \in DOMAIN rows'
      BY <2>1, <2>3, <1>4, <1>5 DEF Tip
    <3>2. rows[t].status # "superseded"
      BY <2>1, <2>3 DEF Tip
    <3>3. \A v \in DOMAIN rows' \ {t} : v.seed = s =>
              Len(v.at) < Len(t.at) /\ rows'[v].status \in Retired
      BY <2>1, <2>3, <1>4, <1>5 DEF Tip
    <3> QED BY <2>1, <3>1, <3>2, <3>3 DEF Tip
  <2>4. CASE target.seed = s
    <3>1. t = target
      BY <2>1, <2>4 DEF Tip
    <3>2. \A v \in DOMAIN rows' \ {c} : v.seed = s =>
              Len(v.at) < Len(c.at) /\ rows'[v].status \in Retired
      <4> SUFFICES ASSUME NEW v \in DOMAIN rows \ {c}, v.seed = s
                   PROVE  Len(v.at) < Len(c.at) /\ rows[v].status \in Retired
        BY <1>5
      <4>1. CASE v = target
        BY <4>1, <1>1, <1>4, <2>2 DEF Retired
      <4>2. CASE v # target
        BY <4>2, <3>1, <2>1, <1>4, <2>2 DEF Tip
      <4> QED BY <4>1, <4>2
    <3>3. Tip(s, c)'
      BY <3>2, <2>4, <1>1, <1>4, <1>5 DEF Tip
    <3> QED BY <3>3, <1>3
  <2> QED BY <2>3, <2>4
<1>14. Accounted'
  <2> SUFFICES ASSUME NEW x \in DOMAIN rows', x.seed \notin hurt
               PROVE  /\ rows'[x].status = "superseded" =>
                            \/ \E a \in audits : a.target = x /\ a.action = "correct_memory"
                            \/ target = x /\ action = "correct_memory"
                      /\ rows'[x].status = "deleted" =>
                            \/ \E a \in audits : a.target = x /\ a.action = "delete_memory"
                            \/ target = x /\ action = "delete_memory"
    BY DEF Accounted
  <2>1. CASE x = c
    BY <2>1, <1>1, <1>5
  <2>2. CASE x # c
    BY <2>2, <1>5 DEF Inv, Accounted
  <2> QED BY <2>1, <2>2
<1> QED BY <1>7, <1>8, <1>10, <1>11, <1>12, <1>13, <1>14 DEF Inv

-----------------------------------------------------------------------------
(* The other steps leave the rows alone *)

LEMMA SameRows ==
  ASSUME Inv, UNCHANGED <<rows, again>>,
         \/ now' = now
         \/ now' = now + 1 /\ now' \in 0..LastSecond
  PROVE  SoundRows' /\ OneLive' /\ Closed' /\ Day(now) \in Nat /\ Day(now') \in Nat
         /\ Day(now) <= Day(now')
<1>1. now \in Nat
  BY PalaceAssumption DEF Inv, TypeOK
<1>2. PICK old \in Nat : old = Day(now)
  BY <1>1, DayGrows
<1>3. PICK new \in Nat : new = Day(now') /\ old <= new
  BY <1>1, <1>2, DayGrows
<1>4. ASSUME NEW x \in DOMAIN rows PROVE Sound(rows[x], x.seed)'
  <2>1. Sound(rows[x], x.seed) /\ rows[x].from \in Nat
    BY DEF Inv, SoundRows, TypeOK, Records
  <2>2. Day(now)' = new
    BY <1>3 DEF Day
  <2>3. rows[x].from <= new
    BY <2>1, <1>2, <1>3 DEF Sound
  <2> QED BY <2>1, <2>2, <2>3 DEF Sound
<1>5. SoundRows'
  BY <1>4 DEF SoundRows
<1>6. OneLive'
  BY DEF Inv, OneLive, Live
<1>7. Closed'
  BY DEF Inv, Closed, Live, CorrectedId
<1> QED BY <1>2, <1>3, <1>5, <1>6, <1>7

\* The receipt of a request is written.
LEMMA StepReceipt ==
  ASSUME Inv, Receipt
  PROVE  Inv'
<1> USE DEF Receipt, Rest
<1>1. SoundRows' /\ OneLive' /\ Closed'
  BY SameRows
<1>2. /\ target \in DOMAIN rows /\ target \in Ids
      /\ action \in {"correct_memory", "delete_memory"}
  BY DEF Inv, Correcting, TypeOK
<1>3. TypeOK'
  <2>1. [action |-> action, target |-> target, at |-> began] \in
            [action : {"correct_memory", "delete_memory"}, target : Ids, at : 0..LastSecond]
    BY <1>2 DEF Inv, TypeOK
  <2> QED BY <2>1, PalaceAssumption DEF Inv, TypeOK
<1>4. Correcting'
  BY DEF Correcting
<1>5. Chain'
  <2> SUFFICES ASSUME NEW s \in Seeds, s \notin hurt \cup again
               PROVE  \E t \in Ids : Tip(s, t)'
    BY DEF Chain
  <2>1. PICK t \in Ids : Tip(s, t)
    BY DEF Inv, Chain
  <2> QED BY <2>1 DEF Tip
<1>6. Accounted'
  <2> SUFFICES ASSUME NEW x \in DOMAIN rows, x.seed \notin hurt
               PROVE  /\ rows[x].status = "superseded" =>
                            \E a \in audits' : a.target = x /\ a.action = "correct_memory"
                      /\ rows[x].status = "deleted" =>
                            \E a \in audits' : a.target = x /\ a.action = "delete_memory"
    BY DEF Accounted
  <2> DEFINE event == [action |-> action, target |-> target, at |-> began]
  <2>1. event \in audits' /\ event.target = target /\ event.action = action
    OBVIOUS
  <2>2. audits \subseteq audits'
    OBVIOUS
  <2> HIDE DEF event
  <2> QED BY <2>1, <2>2 DEF Inv, Accounted
<1> QED BY <1>1, <1>3, <1>4, <1>5, <1>6 DEF Inv

\* A request dies between two writes.
LEMMA StepInterrupted ==
  ASSUME Inv, Interrupted
  PROVE  Inv'
<1> USE DEF Interrupted, Rest
<1>1. SoundRows' /\ OneLive' /\ Closed'
  BY SameRows
<1>2. target \in DOMAIN rows /\ target \in Ids /\ target.seed \in Seeds
  BY IdFacts DEF Inv, Correcting, TypeOK
<1>3. TypeOK'
  BY <1>2, PalaceAssumption DEF Inv, TypeOK
<1>4. Correcting'
  BY DEF Correcting
<1>5. Chain'
  <2> SUFFICES ASSUME NEW s \in Seeds, s \notin hurt \cup again, s # target.seed
               PROVE  \E t \in Ids : Tip(s, t)'
    BY DEF Chain
  <2>1. PICK t \in Ids : Tip(s, t)
    BY DEF Inv, Chain
  <2>2. rows[t].status # "superseded"
    BY <2>1 DEF Tip
  <2> QED BY <2>1, <2>2 DEF Tip
<1>6. Accounted'
  BY DEF Inv, Accounted
<1> QED BY <1>1, <1>3, <1>4, <1>5, <1>6 DEF Inv

\* The clock advances.
LEMMA StepTick ==
  ASSUME Inv, Tick
  PROVE  Inv'
<1> USE DEF Tick, request
<1>1. now \in Nat /\ now' = now + 1 /\ now' \in 0..LastSecond
  BY PalaceAssumption DEF Inv, TypeOK
<1>2. SoundRows' /\ OneLive' /\ Closed' /\ Day(now) <= Day(now')
      /\ Day(now) \in Nat /\ Day(now') \in Nat
  BY <1>1, SameRows
<1>3. TypeOK'
  BY <1>1 DEF Inv, TypeOK
<1>4. Correcting'
  <2>1. ASSUME pc = "replace" PROVE Sound(copy, target.seed)'
    <3>1. PICK old \in Nat, new \in Nat : old = Day(now) /\ new = Day(now') /\ old <= new
      BY <1>2
    <3>2. Sound(copy, target.seed) /\ copy.from \in Nat
      BY <2>1 DEF Inv, Correcting, Records
    <3>3. Day(now)' = new
      BY <3>1 DEF Day
    <3>4. copy.from <= new
      BY <3>1, <3>2 DEF Sound
    <3> QED BY <3>2, <3>3, <3>4 DEF Sound
  <2>2. CorrectedId(target, began)' = CorrectedId(target, began)
    BY DEF CorrectedId
  <2> QED BY <2>1, <2>2 DEF Inv, Correcting, Live
<1>5. Chain'
  BY DEF Inv, Chain, Tip
<1>6. Accounted'
  BY DEF Inv, Accounted
<1> QED BY <1>2, <1>3, <1>4, <1>5, <1>6 DEF Inv

\* Nothing changes.
LEMMA StepStutter ==
  ASSUME Inv, UNCHANGED vars
  PROVE  Inv'
<1> USE DEF vars, request
<1>1. SoundRows' /\ OneLive' /\ Closed'
  BY SameRows
<1>2. TypeOK'
  BY DEF Inv, TypeOK
<1>3. Correcting'
  BY DEF Inv, Correcting, Sound, Live, Day, CorrectedId
<1>4. Chain' /\ Accounted'
  BY DEF Inv, Chain, Tip, Accounted
<1> QED BY <1>1, <1>2, <1>3, <1>4 DEF Inv

\* Every step keeps the invariant.
LEMMA StepInv == Inv /\ [Next]_vars => Inv'
<1> SUFFICES ASSUME Inv, [Next]_vars PROVE Inv'
  OBVIOUS
<1>1. ASSUME NEW id \in DOMAIN rows, CorrectBegin(id) PROVE Inv'
  BY <1>1, StepCorrectBegin
<1>2. ASSUME NEW id \in DOMAIN rows, DeleteBegin(id) PROVE Inv'
  BY <1>2, StepDeleteBegin
<1>3. CASE Replace
  BY <1>3, StepReplace
<1>4. CASE Receipt
  BY <1>4, StepReceipt
<1>5. CASE Interrupted
  BY <1>5, StepInterrupted
<1>6. CASE Tick
  BY <1>6, StepTick
<1>7. CASE UNCHANGED vars
  BY <1>7, StepStutter
<1> QED BY <1>1, <1>2, <1>3, <1>4, <1>5, <1>6, <1>7 DEF Next

-----------------------------------------------------------------------------
(* Theorems *)

\* Inv holds in every reachable state, whatever the memories, the clock, the
\* number of requests and the steps at which they are interrupted.
THEOREM PalaceInductive == Spec => []Inv
<1>1. Init => Inv
  BY InitInv
<1>2. Inv /\ [Next]_vars => Inv'
  BY StepInv
<1> QED BY <1>1, <1>2, PTL DEF Spec

\* correct_memory, delete_memory and their writes keep the tables well typed.
THEOREM PalaceTypeCorrect == Spec => []TypeOK
<1>1. Inv => TypeOK
  BY DEF Inv
<1> QED BY <1>1, PalaceInductive, PTL

\* What a search finds is live,
LEMMA FoundIsLive ==
  ASSUME NEW id \in DOMAIN rows, Recalled(id)
  PROVE  Live(id)
  BY DEF Recalled, Found, Selected, Live

\* and there is one live version of a memory at most.
LEMMA AtMostOne ==
  ASSUME NEW S, \A x, y \in S : x = y
  PROVE  Cardinality(S) <= 1
<1>1. CASE S = {}
  BY <1>1, FS_EmptySet
<1>2. CASE S # {}
  <2>1. PICK x \in S : TRUE
    BY <1>2
  <2>2. S = {x}
    BY <2>1
  <2> QED BY <2>2, FS_Singleton
<1> QED BY <1>1, <1>2

\* A search returns at most one version of a memory.
THEOREM OneVersion == Spec => []OneVersionRecalled
<1>1. Inv => OneVersionRecalled
  <2> SUFFICES ASSUME Inv, NEW s \in Seeds PROVE Cardinality(Recallable(s)) <= 1
    BY DEF OneVersionRecalled
  <2>1. \A x, y \in Recallable(s) : x = y
    BY FoundIsLive DEF Recallable, Versions, Inv, OneLive
  <2> QED BY <2>1, AtMostOne
<1> QED BY <1>1, PalaceInductive, PTL

\* A correction leaves the last version of the memory to the search.
THEOREM CorrectionRecalled == Spec => []CorrectionIsRecalled
<1>1. Inv => CorrectionIsRecalled
  <2> SUFFICES ASSUME Inv, pc = "rest", NEW s \in Seeds, s \notin hurt \cup again,
                      \A id \in Versions(s) : rows[id].status # "deleted" /\ ~rows[id].secret
               PROVE  Recallable(s) = {id \in Versions(s) :
                                        \A v \in Versions(s) : Len(v.at) <= Len(id.at)}
    BY DEF CorrectionIsRecalled
  <2>1. PICK t \in Ids : Tip(s, t)
    BY DEF Inv, Chain
  <2>2. t \in Versions(s) /\ \A v \in Versions(s) \ {t} :
            Len(v.at) < Len(t.at) /\ rows[v].status \in Retired
    BY <2>1 DEF Tip, Versions
  <2>3. \A v \in Versions(s) : Len(v.at) \in Nat
    BY IdFacts DEF Versions, Inv, TypeOK
  <2>4. {id \in Versions(s) : \A v \in Versions(s) : Len(v.at) <= Len(id.at)} = {t}
    BY <2>2, <2>3
  <2>5. Recalled(t)
    <3>1. rows[t].status \notin Retired /\ ~rows[t].secret
      BY <2>1, <2>2 DEF Tip, Retired
    <3>2. Sound(rows[t], s)
      BY <2>1 DEF Tip, Inv, SoundRows
    <3>3. rows[t].status \in {"candidate", "active"} /\ rows[t].to = None
          /\ rows[t].level # "stored_only"
      BY <3>1, <3>2 DEF Sound
    <3> QED BY <3>1, <3>3 DEF Recalled, Found, Selected, Eligible, Blocking
  <2>6. \A v \in Versions(s) \ {t} : ~Recalled(v)
    <3> SUFFICES ASSUME NEW v \in Versions(s) \ {t} PROVE ~Live(v)
      BY FoundIsLive DEF Versions
    <3> QED BY <2>2 DEF Versions, Inv, SoundRows, Sound, Live
  <2>7. Recallable(s) = {t}
    BY <2>2, <2>5, <2>6 DEF Recallable
  <2> QED BY <2>4, <2>7
<1> QED BY <1>1, PalaceInductive, PTL

\* What is superseded or deleted has its receipt once the request is over.
THEOREM ChangesAudited == Spec => []ChangesAreAudited
<1>1. Inv => ChangesAreAudited
  BY DEF Inv, Accounted, ChangesAreAudited
<1> QED BY <1>1, PalaceInductive, PTL

\* Every row of a memory that was not corrected twice over the same version
\* passes the validation get_memory makes.
THEOREM FirstReadable == Spec => []FirstCorrectionsAreReadable
<1>1. Inv => FirstCorrectionsAreReadable
  <2> SUFFICES ASSUME Inv, NEW id \in DOMAIN rows, id.seed \notin again
               PROVE  Valid(rows[id])
    BY DEF FirstCorrectionsAreReadable, Readable
  <2>1. Sound(rows[id], id.seed)
    BY DEF Inv, SoundRows
  <2> QED BY <2>1 DEF Sound, Valid, Retired
<1> QED BY <1>1, PalaceInductive, PTL

\* A deleted memory stays out of the search in every later step, also when a
\* correction is stored over it.
THEOREM DeletedForGood == Spec => DeletedStaysOut
<1>1. Inv /\ [Next]_vars =>
          [\A id \in DOMAIN rows :
              rows[id].status = "deleted" => ~Found(rows'[id], Day(now'))]_vars
  <2> SUFFICES ASSUME Inv, Next, NEW id \in DOMAIN rows, rows[id].status = "deleted"
               PROVE  rows'[id].level = "stored_only"
    BY DEF Found, Selected
  <2>1. rows[id].level = "stored_only"
    BY DEF Inv, SoundRows, Sound, Retired
  <2>2. ASSUME NEW x \in DOMAIN rows, CorrectBegin(x) PROVE rows'[id].level = "stored_only"
    <3>1. Retire(x, "superseded")
      BY <2>2 DEF CorrectBegin, Begin, Retire
    <3>2. CASE id = x
      BY <3>1, <3>2, RetireFacts DEF Retired
    <3>3. CASE id # x
      BY <3>1, <3>3, <2>1, RetireFacts DEF Retired
    <3> QED BY <3>2, <3>3
  <2>3. ASSUME NEW x \in DOMAIN rows, DeleteBegin(x) PROVE rows'[id].level = "stored_only"
    <3>1. Retire(x, "deleted")
      BY <2>3 DEF DeleteBegin, Begin, Retire
    <3>2. CASE id = x
      BY <3>1, <3>2, RetireFacts DEF Retired
    <3>3. CASE id # x
      BY <3>1, <3>3, <2>1, RetireFacts DEF Retired
    <3> QED BY <3>2, <3>3
  <2>4. CASE Replace
    <3>1. CASE id = CorrectedId(target, began)
      BY <2>4, <3>1 DEF Replace, Put, Inv, Correcting
    <3>2. CASE id # CorrectedId(target, began)
      BY <2>1, <2>4, <3>2 DEF Replace, Put
    <3> QED BY <3>1, <3>2
  <2>5. CASE Receipt \/ Interrupted \/ Tick
    BY <2>1, <2>5 DEF Receipt, Interrupted, Tick
  <2> QED BY <2>2, <2>3, <2>4, <2>5 DEF Next
<1> QED BY <1>1, PalaceInductive, PTL DEF Spec, DeletedStaysOut
=============================================================================
