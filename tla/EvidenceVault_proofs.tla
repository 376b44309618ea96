------------------------- MODULE EvidenceVault_proofs -------------------------
(***************************************************************************)
(* The vault for any evidence, payloads, retentions, times and number of   *)
(* interruptions.  The properties are about a vault at rest; the invariant *)
(* says of each of them what is left of it while a call is under way.      *)
(***************************************************************************)
EXTENDS EvidenceVault, TLAPS

Storing(e) == pc \in {"write", "upsert"} /\ who = e

\* What a call under way has made sure of.
CallKnows ==
    /\ pc \in {"write", "upsert"} =>
          /\ who \in Evidence
          /\ pending \in Rows /\ pending.sha \in Payloads /\ pending.held = TRUE
          /\ reply = None /\ swept = None
    /\ pc = "upsert" => blob[who] = pending.sha
    /\ pc # "sweep" => done = {}
    /\ pc # "rest" => reported = {}
    /\ pc = "sweep" => /\ due \cup done = Due(at)
                       /\ latest # None /\ at <= latest
                       /\ \A e \in done : blob[e] = None

\* A row is the one of the last store that returned, but for raw_ref.
RowsFollow ==
    \A e \in Evidence :
        /\ row[e] # None <=> stored[e] # None
        /\ row[e] # None => /\ row[e].sha = stored[e].sha
                            /\ row[e].expires = stored[e].expires
                            /\ row[e].held => row[e].sha \in Payloads

OutlivesSweeps(e) ==
    /\ stored[e] # None /\ stored[e].held
    /\ latest = None \/ stored[e].expires = None \/ stored[e].expires > latest

\* UnexpiredIsReadable, also within calls.
Readable ==
    \A e \in Evidence \ hurt :
        ~Storing(e) /\ OutlivesSweeps(e) => Held(e) /\ blob[e] = stored[e].sha

\* StoredBlobsAreTracked, also within calls.
Tracked ==
    \A e \in Evidence \ (hurt \cup dropped) : ~Storing(e) /\ blob[e] # None => Held(e)

\* SweptIsGone, also within calls.
Gone ==
    swept # None =>
        \A e \in Evidence :
            stored[e] # None /\ stored[e].expires # None /\ stored[e].expires <= swept
                => ~Held(e) /\ (e \notin hurt \cup dropped => blob[e] = None)

Inv ==
    /\ TypeOK /\ CallKnows /\ RowsFollow
    /\ Readable /\ Tracked /\ Gone
    /\ ServedAsStored /\ ReportedIsGone

-----------------------------------------------------------------------------
(* Each step preserves the invariant *)

LEMMA NullFacts ==
  /\ None \notin Nat /\ None \notin Payloads /\ None \notin Evidence /\ None # Torn
  /\ Nothing \notin Payloads /\ Error \notin Payloads /\ Torn \notin Payloads
  /\ None \notin Rows
  BY VaultAssumption, RowAssumption

\* The fields of a row.
LEMMA RowFields ==
  ASSUME NEW r \in Rows
  PROVE  /\ r.sha \in Payloads \cup {None} /\ r.held \in BOOLEAN
         /\ r.expires \in Nat \cup {None}
  BY DEF Rows, Expiries

\* A row whose bytes are dropped keeps its digest and its time.
LEMMA RowDropped ==
  ASSUME NEW r \in Rows
  PROVE  LET bare == [r EXCEPT !.held = FALSE]
         IN /\ bare \in Rows /\ bare # None /\ bare.held = FALSE
            /\ bare.sha = r.sha /\ bare.expires = r.expires
  BY RowAssumption DEF Rows

\* An empty vault.
LEMMA InitInv == Init => Inv
  BY NullFacts, VaultAssumption
  DEF Init, Inv, TypeOK, CallKnows, RowsFollow, Readable, Tracked,
      Gone, ServedAsStored, ReportedIsGone, Times, OutlivesSweeps

\* Steps that leave rows, files and history alone keep most of the invariant.
LEMMA Untouched ==
  ASSUME Inv, TypeOK', CallKnows', ServedAsStored', ReportedIsGone',
         UNCHANGED <<row, blob, stored, hurt, dropped, latest>>,
         swept' = swept \/ swept' = None,
         \A e \in Evidence : Storing(e)' <=> Storing(e)
  PROVE  Inv'
<1>1. RowsFollow'
  BY DEF Inv, RowsFollow
<1>2. Readable' /\ Tracked'
  BY NullFacts DEF Inv, Readable, Tracked, OutlivesSweeps, Held
<1>3. Gone'
  BY DEF Inv, Gone, Held
<1> QED BY <1>1, <1>2, <1>3 DEF Inv

\* store takes its arguments.
LEMMA StoreBeginStep ==
  ASSUME Inv, NEW e \in Evidence, NEW p \in Payloads, NEW ttl \in Ttls \cup {None},
         NEW t \in Times, StoreBegin(e, p, ttl, t)
  PROVE  Inv'
<1>1. ExpiryFor(t, ttl) \in Expiries
  BY VaultAssumption DEF ExpiryFor, Expiries, Times
<1>2. /\ pending' \in Rows /\ pending'.sha = p /\ pending'.held = TRUE
      /\ who' = e /\ pc = "rest" /\ pc' = "write" /\ done = {}
      /\ reply' = None /\ reported' = {} /\ swept' = None
      /\ UNCHANGED <<row, blob, at, due, done, faults, stored, hurt, dropped, latest>>
  BY <1>1 DEF StoreBegin, Begin, Rows, Inv, CallKnows
<1>3. TypeOK'
  BY <1>2, NullFacts DEF Inv, TypeOK
<1>4. CallKnows' /\ ServedAsStored' /\ ReportedIsGone'
  BY <1>2 DEF CallKnows, ServedAsStored, ReportedIsGone
<1>5. RowsFollow' /\ Gone'
  BY <1>2 DEF Inv, RowsFollow, Gone
<1>6. Readable' /\ Tracked'
  BY <1>2, NullFacts DEF Inv, Readable, Tracked, OutlivesSweeps, Held, Storing
<1> QED BY <1>3, <1>4, <1>5, <1>6 DEF Inv

\* store writes the file before the row.
LEMMA WriteBlobStep ==
  ASSUME Inv, WriteBlob
  PROVE  Inv'
<1>1. /\ pc = "write" /\ pc' = "upsert" /\ who \in Evidence
      /\ pending \in Rows /\ pending.sha \in Payloads /\ pending.held = TRUE
      /\ reply = None /\ swept = None /\ reported = {} /\ done = {}
      /\ \A e \in Evidence : blob'[e] = IF e = who THEN pending.sha ELSE blob[e]
      /\ UNCHANGED <<row, who, pending, at, due, done, answers, faults, history>>
  BY DEF WriteBlob, Inv, CallKnows, TypeOK
<1>2. TypeOK'
  BY <1>1 DEF WriteBlob, Inv, TypeOK, answers, history
<1>3. CallKnows' /\ ServedAsStored' /\ ReportedIsGone' /\ Gone'
  BY <1>1, NullFacts DEF CallKnows, ServedAsStored, ReportedIsGone, Gone, answers, history
<1>4. RowsFollow'
  BY <1>1, NullFacts DEF Inv, RowsFollow, history
<1>5. Readable' /\ Tracked'
  BY <1>1, NullFacts DEF Inv, Readable, Tracked, OutlivesSweeps, Held, Storing, history
<1> QED BY <1>2, <1>3, <1>4, <1>5 DEF Inv

\* store writes the row and returns.
LEMMA UpsertStep ==
  ASSUME Inv, Upsert
  PROVE  Inv'
<1>1. /\ pc = "upsert" /\ pc' = "rest" /\ who \in Evidence /\ who' = None
      /\ pending \in Rows /\ pending.sha \in Payloads /\ pending.held = TRUE
      /\ blob[who] = pending.sha /\ reply = None /\ swept = None /\ reported = {}
      /\ \A e \in Evidence : row'[e] = IF e = who THEN pending ELSE row[e]
      /\ \A e \in Evidence : stored'[e] = IF e = who THEN pending ELSE stored[e]
      /\ hurt' = hurt \ {who} /\ dropped' = dropped \ {who} /\ done' = {}
      /\ UNCHANGED <<blob, answers, faults, latest, swept>>
  BY DEF Upsert, Rest, Inv, CallKnows, TypeOK
<1>2. TypeOK'
  <2>1. row' \in [Evidence -> Rows \cup {None}] /\ stored' \in [Evidence -> Rows \cup {None}]
    BY <1>1 DEF Upsert, Inv, TypeOK
  <2>2. /\ hurt' \subseteq Evidence /\ dropped' \subseteq Evidence /\ 0 \in Times
        /\ who' = None /\ pending' = None /\ at' = 0 /\ due' = {} /\ done' = {}
    BY <1>1, VaultAssumption DEF Upsert, Rest, Inv, TypeOK, Times
  <2> QED BY <2>1, <2>2, <1>1 DEF Inv, TypeOK, answers
<1>3. CallKnows' /\ ServedAsStored' /\ ReportedIsGone' /\ Gone'
  BY <1>1 DEF CallKnows, ServedAsStored, ReportedIsGone, Gone, answers
<1>4. RowsFollow'
  BY <1>1, NullFacts DEF Inv, RowsFollow
<1>6. Readable' /\ Tracked'
  BY <1>1, NullFacts DEF Inv, Readable, Tracked, OutlivesSweeps, Held, Storing
<1> QED BY <1>2, <1>3, <1>4, <1>6 DEF Inv

\* store_metadata_only writes a row without a file.
LEMMA StoreLightStep ==
  ASSUME Inv, NEW e \in Evidence, NEW ttl \in Ttls \cup {None}, NEW t \in Times,
         StoreLight(e, ttl, t)
  PROVE  Inv'
<1> DEFINE new == [sha |-> None, held |-> FALSE, expires |-> ExpiryFor(t, ttl)]
<1>1. ExpiryFor(t, ttl) \in Expiries
  BY VaultAssumption DEF ExpiryFor, Expiries, Times
<1>2. /\ new \in Rows /\ new.held = FALSE
      /\ pc = "rest" /\ pc' = "rest" /\ e \in Evidence /\ done = {}
      /\ row' = [row EXCEPT ![e] = new]
      /\ \A d \in Evidence : row'[d] = IF d = e THEN new ELSE row[d]
      /\ \A d \in Evidence : stored'[d] = IF d = e THEN new ELSE stored[d]
      /\ reply' = None /\ reported' = {} /\ swept' = None
      /\ dropped' = IF blob[e] = None THEN dropped ELSE dropped \cup {e}
      /\ UNCHANGED <<blob, who, pending, at, due, done, faults, hurt, latest>>
  BY <1>1, NullFacts DEF StoreLight, Begin, Inv, CallKnows, TypeOK, Rows
<1>3. stored' = [stored EXCEPT ![e] = new]
  BY <1>2 DEF StoreLight, Inv, TypeOK
<1>4. TypeOK'
  BY <1>2, <1>3 DEF Inv, TypeOK
<1>5. CallKnows' /\ ServedAsStored' /\ ReportedIsGone' /\ Gone'
  BY <1>2 DEF CallKnows, ServedAsStored, ReportedIsGone, Gone
<1>6. RowsFollow'
  <2> HIDE DEF new
  <2> QED BY <1>2, NullFacts DEF Inv, RowsFollow
<1>7. Readable' /\ Tracked'
  <2> HIDE DEF new
  <2>1. \A d \in Evidence : OutlivesSweeps(d)' => d # e /\ OutlivesSweeps(d)
    BY <1>2 DEF OutlivesSweeps
  <2>2. Readable'
    BY <1>2, <2>1 DEF Inv, Readable, Held, Storing
  <2>3. \A d \in Evidence \ (hurt' \cup dropped') :
            d \notin dropped /\ (d = e => blob[d] = None)
    BY <1>2
  <2>4. Tracked'
    BY <1>2, <2>3 DEF Inv, Tracked, Held, Storing
  <2> QED BY <2>2, <2>4
<1> QED BY <1>4, <1>5, <1>6, <1>7 DEF Inv

\* The SELECT, with either answer.
LEMMA SweepStep ==
  ASSUME Inv, NEW t \in Times, Sweep(t), reported' = {},
         reply' \in Answer \cup {None},
         reply' # None => reply'.got \notin Payloads
  PROVE  Inv'
<1>1. /\ pc = "rest" /\ pc' = "sweep" /\ at' = t /\ due' = Due(t)
      /\ latest' = IF latest = None \/ t > latest THEN t ELSE latest
      /\ UNCHANGED <<row, blob, who, pending, done, faults, stored, hurt, dropped, swept>>
  BY DEF Sweep, Begin
<1>2. t \in Nat /\ Times \subseteq Nat
  BY DEF Times
<1>3. /\ latest' # None /\ t <= latest' /\ latest' \in Times
      /\ latest # None => latest \in Nat /\ latest <= latest'
  <2>1. latest \in Nat \cup {None} /\ latest \in Times \cup {None}
    BY <1>2 DEF Inv, TypeOK
  <2>2. CASE latest = None
    BY <2>2, <1>1, <1>2, NullFacts
  <2>3. CASE latest \in Nat
    BY <2>1, <2>3, <1>1, <1>2, NullFacts
  <2> QED BY <2>1, <2>2, <2>3
<1>4. TypeOK'
  BY <1>1, <1>3 DEF Inv, TypeOK, Due
<1>5. done = {}
  BY <1>1 DEF Inv, CallKnows
<1>6. Due(t)' = Due(t)
  BY <1>1 DEF Due, Held, Expired
<1>7. CallKnows' /\ ServedAsStored' /\ ReportedIsGone'
  BY <1>1, <1>3, <1>5, <1>6 DEF CallKnows, ServedAsStored, ReportedIsGone
<1>8. RowsFollow' /\ Gone'
  BY <1>1 DEF Inv, RowsFollow, Gone, Held
<1>9. Readable'
  <2> SUFFICES ASSUME NEW e \in Evidence \ hurt, OutlivesSweeps(e)'
               PROVE  Held(e) /\ blob[e] = stored[e].sha
    BY <1>1 DEF Readable, Held
  <2>1. stored[e] # None /\ stored[e].held /\ stored[e] \in Rows
    BY <1>1, NullFacts DEF OutlivesSweeps, Inv, TypeOK
  <2>2. stored[e].expires \in Nat \cup {None}
    BY <2>1, RowFields
  <2>3. stored[e].expires = None \/ stored[e].expires > latest'
    BY <1>1, <1>3 DEF OutlivesSweeps
  <2>4. latest # None /\ stored[e].expires # None => stored[e].expires > latest
    BY <2>2, <2>3, <1>2, <1>3, NullFacts
  <2>5. OutlivesSweeps(e)
    BY <2>1, <2>4 DEF OutlivesSweeps
  <2> QED BY <2>5, <1>1 DEF Inv, Readable, Storing
<1>10. Tracked'
  BY <1>1 DEF Inv, Tracked, Held, Storing
<1> QED BY <1>4, <1>7, <1>8, <1>9, <1>10 DEF Inv

\* expire takes the next of what was due, and unlinks its file.
LEMMA SweepNextStep ==
  ASSUME Inv, NEW e \in Evidence, SweepNext(e)
  PROVE  Inv'
<1>1. /\ pc = "sweep" /\ e \in Due(at) /\ latest \in Nat /\ at <= latest
      /\ due \cup done = Due(at) /\ at \in Nat
      /\ due' = due \ {e} /\ done' = done \cup {e} /\ due' \cup done' = Due(at)
      /\ \A d \in Evidence : blob'[d] = IF d = e THEN None ELSE blob[d]
      /\ UNCHANGED <<row, pc, who, pending, at, answers, faults, history>>
  BY DEF SweepNext, Inv, CallKnows, TypeOK, Times
<1>2. TypeOK'
  BY <1>1 DEF SweepNext, Inv, TypeOK, answers, history
<1>3. Due(at)' = Due(at)
  BY <1>1 DEF Due, Held, Expired
<1>4. CallKnows'
  BY <1>1, <1>3 DEF Inv, CallKnows, answers, history, Due
<1>5. ServedAsStored' /\ ReportedIsGone'
  BY <1>1 DEF Inv, CallKnows, ServedAsStored, ReportedIsGone, answers, history
<1>6. RowsFollow'
  BY <1>1, NullFacts DEF Inv, RowsFollow, history
<1>7. Tracked' /\ Gone'
  BY <1>1 DEF Inv, Tracked, Gone, Storing, Held, history
<1>8. Readable'
  <2>1. stored[e].expires \in Nat /\ stored[e].expires <= at
    <3>1. /\ row[e] # None /\ row[e] \in Rows /\ row[e].expires # None
          /\ row[e].expires <= at
      BY <1>1 DEF Due, Held, Expired, Inv, TypeOK
    <3> QED BY <3>1, RowFields DEF Inv, RowsFollow
  <2>2. ~OutlivesSweeps(e)
    BY <2>1, <1>1, NullFacts DEF OutlivesSweeps
  <2> QED BY <1>1, <2>2, NullFacts
          DEF Inv, Readable, OutlivesSweeps, Storing, Held, history
<1> QED BY <1>2, <1>4, <1>5, <1>6, <1>7, <1>8 DEF Inv

\* expire commits the deletions and returns.
LEMMA SweepCommitStep ==
  ASSUME Inv, SweepCommit
  PROVE  Inv'
<1>1. /\ pc = "sweep" /\ pc' = "rest" /\ done = Due(at) /\ latest \in Nat /\ at <= latest
      /\ at \in Nat /\ \A e \in done : blob[e] = None
      /\ reported' = done /\ swept' = at
      /\ who' = None /\ pending' = None /\ at' = 0 /\ due' = {} /\ done' = {}
      /\ UNCHANGED <<blob, reply, faults, stored, hurt, dropped, latest>>
  BY DEF SweepCommit, Rest, Inv, CallKnows, TypeOK, Times
<1>2. /\ \A e \in Evidence :
            row'[e] = IF e \in done THEN [row[e] EXCEPT !.held = FALSE] ELSE row[e]
      /\ \A e \in done : e \in Evidence /\ row[e] # None /\ row[e] \in Rows
  BY <1>1 DEF SweepCommit, Inv, TypeOK, Due, Held
<1>3. \A e \in done : /\ row'[e] \in Rows /\ row'[e] # None /\ row'[e].held = FALSE
                        /\ row'[e].sha = row[e].sha /\ row'[e].expires = row[e].expires
  <2> SUFFICES ASSUME NEW e \in done
               PROVE  /\ row'[e] \in Rows /\ row'[e] # None /\ row'[e].held = FALSE
                      /\ row'[e].sha = row[e].sha /\ row'[e].expires = row[e].expires
    OBVIOUS
  <2>1. PICK r \in Rows : r = row[e]
    BY <1>2
  <2>2. row'[e] = [r EXCEPT !.held = FALSE]
    BY <1>2, <2>1
  <2> QED BY <2>1, <2>2, RowDropped
<1>4. TypeOK'
  <2>1. row' \in [Evidence -> Rows \cup {None}]
    BY <1>2, <1>3 DEF SweepCommit, Inv, TypeOK
  <2> QED BY <2>1, <1>1, VaultAssumption DEF Inv, TypeOK, Times
<1>5. CallKnows' /\ ServedAsStored'
  BY <1>1 DEF Inv, CallKnows, ServedAsStored
<1>6. RowsFollow'
  <2>1. \A e \in Evidence :
            /\ row'[e] # None <=> row[e] # None
            /\ row[e] # None => /\ row'[e].sha = row[e].sha
                                /\ row'[e].expires = row[e].expires
                                /\ row'[e] = row[e] \/ row'[e].held = FALSE
    BY <1>2, <1>3
  <2> QED BY <2>1, <1>1 DEF Inv, RowsFollow
<1>10. ReportedIsGone'
  BY <1>1, <1>2, <1>3 DEF ReportedIsGone, Held
<1>7. Tracked'
  BY <1>1, <1>2 DEF Inv, Tracked, Storing, Held
<1>8. Gone'
  <2> SUFFICES ASSUME NEW e \in Evidence, stored[e] # None,
                      stored[e].expires # None, stored[e].expires <= at
               PROVE  ~Held(e)' /\ (e \notin hurt \cup dropped => blob[e] = None)
    BY <1>1 DEF Gone
  <2>1. CASE e \in done
    BY <2>1, <1>1, <1>3 DEF Held
  <2>2. CASE e \notin done
    <3>1. ~Held(e)
      BY <2>2, <1>1 DEF Due, Expired, Held, Inv, RowsFollow
    <3>2. e \notin hurt \cup dropped => blob[e] = None
      BY <3>1, <1>1 DEF Inv, Tracked, Storing
    <3> QED BY <3>1, <3>2, <2>2, <1>2 DEF Held
  <2> QED BY <2>1, <2>2
<1>9. Readable'
  <2> SUFFICES ASSUME NEW e \in Evidence \ hurt, OutlivesSweeps(e)
               PROVE  Held(e)' /\ blob[e] = stored[e].sha
    BY <1>1 DEF Readable, OutlivesSweeps
  <2>1. e \in Evidence /\ Held(e) /\ blob[e] = stored[e].sha
    BY <1>1, NullFacts DEF Inv, Readable, Storing
  <2>2. e \notin done
    <3>1. row[e].expires = stored[e].expires /\ row[e] \in Rows
      BY <2>1 DEF Inv, RowsFollow, TypeOK, Held
    <3>2. row[e].expires \in Nat \cup {None}
      BY <3>1, RowFields
    <3> QED BY <3>1, <3>2, <1>1, NullFacts DEF OutlivesSweeps, Due, Expired
  <2> QED BY <2>1, <2>2, <1>2 DEF Held
<1> QED BY <1>4, <1>5, <1>6, <1>7, <1>8, <1>9, <1>10 DEF Inv

\* Reads that sweep nothing.
LEMMA ReadStep ==
  ASSUME Inv, NEW e \in Evidence, NEW t \in Times, ReadNothing(e, t) \/ ReadBlob(e, t)
  PROVE  Inv'
<1>1. /\ pc = "rest" /\ pc' = "rest" /\ reported' = {}
      /\ UNCHANGED <<row, blob, who, pending, at, due, done, faults, history>>
  BY DEF ReadNothing, ReadBlob, Begin, Answers
<1>2. reply' \in Answer /\ ServedAsStored'
  <2>1. CASE ReadNothing(e, t)
    BY <2>1, NullFacts DEF ReadNothing, Answers, Answer, ServedAsStored
  <2>2. CASE ReadBlob(e, t)
    <3>1. row[e] # None /\ row[e] \in Rows /\ ~Expired(e, t)
      BY <2>2 DEF ReadBlob, Held, Inv, TypeOK
    <3>2. row[e].sha \in Payloads \cup {None} /\ row[e].expires \in Nat \cup {None}
      BY <3>1, RowFields
    <3>3. reply' = [id |-> e, time |-> t, got |-> Checked(e)]
      BY <2>2 DEF ReadBlob, Answers
    <3>4. row[e].sha = stored[e].sha /\ row[e].expires = stored[e].expires
      BY <3>1 DEF Inv, RowsFollow
    <3>5. Checked(e) \in Payloads \cup {Error}
      BY <2>2, <3>1 DEF Checked, ReadBlob, Held, Inv, RowsFollow
    <3>6. Checked(e) \in Payloads => Checked(e) = row[e].sha
      BY NullFacts DEF Checked
    <3>7. row[e].expires # None => t < row[e].expires
      BY <3>1, <3>2, NullFacts DEF Expired, Times
    <3> QED BY <1>1, <3>3, <3>4, <3>5, <3>6, <3>7 DEF Answer, ServedAsStored, history
  <2> QED BY <2>1, <2>2
<1>3. TypeOK'
  BY <1>1, <1>2 DEF Inv, TypeOK, history
<1>4. CallKnows' /\ ReportedIsGone'
  BY <1>1 DEF Inv, CallKnows, ReportedIsGone
<1> QED BY <1>1, <1>2, <1>3, <1>4, Untouched DEF Storing, history

\* A call dies where it is.
LEMMA InterruptedStep ==
  ASSUME Inv, Interrupted
  PROVE  Inv'
<1>1. /\ pc # "rest" /\ pc' = "rest" /\ who' = None /\ pending' = None /\ at' = 0
      /\ due' = {} /\ done' = {} /\ reply' = None /\ reported = {}
      /\ faults < MaxFaults /\ faults' = faults + 1
      /\ UNCHANGED <<row, reported, stored, dropped, latest, swept>>
  BY DEF Interrupted, Rest, Inv, CallKnows
<1>2. CASE pc = "sweep"
  <2>1. blob' = blob /\ hurt' = hurt
    BY <1>2 DEF Interrupted
  <2>2. TypeOK'
    BY <2>1, <1>1, VaultAssumption DEF Inv, TypeOK, Times
  <2>3. CallKnows' /\ ServedAsStored' /\ ReportedIsGone'
    BY <1>1 DEF CallKnows, ServedAsStored, ReportedIsGone
  <2>4. \A e \in Evidence : Storing(e)' <=> Storing(e)
    BY <1>1, <1>2 DEF Storing
  <2> QED BY <2>1, <2>2, <2>3, <2>4, <1>1, Untouched
<1>3. CASE pc \in {"write", "upsert"}
  <2>1. /\ who \in Evidence /\ hurt' = hurt \cup {who} /\ swept = None
        /\ blob' \in [Evidence -> Payloads \cup {Torn, None}]
        /\ \A e \in Evidence : e # who => blob'[e] = blob[e]
    BY <1>3 DEF Interrupted, Inv, CallKnows, TypeOK
  <2>2. TypeOK'
    BY <2>1, <1>1, VaultAssumption DEF Inv, TypeOK, Times
  <2>3. CallKnows' /\ ServedAsStored' /\ ReportedIsGone' /\ Gone'
    BY <1>1, <2>1 DEF CallKnows, ServedAsStored, ReportedIsGone, Gone
  <2>4. RowsFollow'
    BY <1>1, <2>1, NullFacts DEF Inv, RowsFollow
  <2>5. Readable' /\ Tracked'
    BY <1>1, <2>1, NullFacts DEF Inv, Readable, Tracked, OutlivesSweeps, Storing, Held
  <2> QED BY <2>2, <2>3, <2>4, <2>5 DEF Inv
<1> QED BY <1>1, <1>2, <1>3 DEF Inv, TypeOK

\* Nothing changes.
LEMMA Stutter == Inv /\ UNCHANGED vars => Inv'
  BY DEF vars, local, answers, history, Inv, TypeOK, CallKnows, RowsFollow,
         Readable, Tracked, Gone, ServedAsStored, ReportedIsGone,
         OutlivesSweeps, Storing, Held, Due, Expired

\* Every step keeps the invariant.
LEMMA StepInv == Inv /\ [Next]_vars => Inv'
<1> SUFFICES ASSUME Inv, Next PROVE Inv'
  BY Stutter
<1>1. CASE Store
  BY <1>1, StoreBeginStep, WriteBlobStep, UpsertStep, StoreLightStep DEF Store
<1>2. CASE Expire
  <2>1. ASSUME NEW t \in Times, ExpireBegin(t) PROVE Inv'
    BY <2>1, SweepStep DEF ExpireBegin
  <2> QED BY <1>2, <2>1, SweepNextStep, SweepCommitStep DEF Expire
<1>3. CASE Read
  <2>1. ASSUME NEW e \in Evidence, NEW t \in Times, ReadExpired(e, t) PROVE Inv'
    <3>1. reply' \in Answer /\ reply'.got \notin Payloads
      BY <2>1, NullFacts DEF ReadExpired, Answers, Answer
    <3> QED BY <2>1, <3>1, SweepStep DEF ReadExpired, Answers
  <2> QED BY <1>3, <2>1, ReadStep DEF Read
<1> QED BY <1>1, <1>2, <1>3, InterruptedStep DEF Next

-----------------------------------------------------------------------------

\* What the vault and a call under way know is an invariant.
THEOREM VaultInductive == Spec => []Inv
<1> QED BY InitInv, StepInv, PTL DEF Spec

\* Rows, files and the call in progress keep their types.
THEOREM VaultTypeCorrect == Spec => []TypeOK
<1>1. Inv => TypeOK
  BY DEF Inv
<1> QED BY <1>1, VaultInductive, PTL

\* What read_raw returns is what was stored last, and has not expired.
THEOREM ServedStored == Spec => []ServedAsStored
<1>1. Inv => ServedAsStored
  BY DEF Inv
<1> QED BY <1>1, VaultInductive, PTL

\* No sweep and no interruption takes evidence before its time.
THEOREM UnexpiredReadable == Spec => []UnexpiredIsReadable
<1>1. Inv => UnexpiredIsReadable
  BY DEF Inv, Readable, UnexpiredIsReadable, Storing, OutlivesSweeps
<1> QED BY <1>1, VaultInductive, PTL

\* What was due when an expire that returned was called has no row that names a
\* file, and no file but one the row had lost sight of before.
THEOREM SweptGone == Spec => []SweptIsGone
<1>1. Inv => SweptIsGone
  BY DEF Inv, Gone, SweptIsGone
<1> QED BY <1>1, VaultInductive, PTL

\* No file outlives its row, but that of an interrupted store, or of evidence that
\* was stored again without its payload.
THEOREM BlobsTracked == Spec => []StoredBlobsAreTracked
<1>1. Inv => StoredBlobsAreTracked
  BY DEF Inv, Tracked, StoredBlobsAreTracked, Storing
<1> QED BY <1>1, VaultInductive, PTL

\* What expire reports is deleted.
THEOREM ReportedGone == Spec => []ReportedIsGone
<1>1. Inv => ReportedIsGone
  BY DEF Inv
<1> QED BY <1>1, VaultInductive, PTL
=============================================================================
