---------------------------- MODULE EvidenceVault ----------------------------
(***************************************************************************)
(* The evidence vault: raw payloads in blob files, what is known of them   *)
(* in a SQLite table.  store() writes the file before the row, expire()    *)
(* unlinks files inside the transaction that marks their rows, and the     *)
(* caller's process can die, or a call raise, between any two of these.    *)
(* A caller passes its own "now" to every call, so times need not rise.    *)
(***************************************************************************)
EXTENDS Naturals

CONSTANTS
    Evidence,       \* ids; any may be stored with its payload or without
    Payloads,
    Ttls,           \* lengths of the retention policies that expire
    None,           \* NULL: no row, no file, no expiry
    Torn,           \* what a write that was cut short leaves in a file
    Nothing,        \* read_raw's None
    Error,          \* read_raw raised
    MaxTime,        \* bound of the times callers pass
    MaxFaults       \* bound on interrupted calls

Times == 0..MaxTime

ASSUME VaultAssumption ==
    /\ {None, Torn, Nothing, Error} \cap (Payloads \cup Evidence) = {}
    /\ None # Torn /\ None \notin Nat
    /\ Nothing # Error
    /\ Ttls \subseteq Nat
    /\ MaxTime \in Nat /\ MaxFaults \in Nat

VARIABLES
    row,       \* evidence_metadata
    blob,      \* the file blobs/<evidence_id>.blob
    pc,        \* what the call in progress does next
    who,       \* the evidence it is about
    pending,   \* the row it is going to upsert
    at,        \* the time it was called with
    due,       \* rows its SELECT returned that are still to be done
    done,      \* rows it has updated and not yet committed
    reply,     \* what the last call, if it was read_raw, answered
    reported,  \* the evidence the last call, if it was expire, reported
    faults,    \* interrupted calls so far
    stored,    \* history: the row of the last store that returned
    hurt,      \* history: evidence whose last store was interrupted
    dropped,   \* history: evidence stored without its payload over a file
    latest,    \* history: the greatest time expire was called with
    swept      \* history: the time of the last expire, if nothing was stored since

local == <<pc, who, pending, at, due, done>>
answers == <<reply, reported>>
history == <<stored, hurt, dropped, latest, swept>>
vars == <<row, blob, local, answers, faults, history>>

Expiries == Nat \cup {None}
Rows == [sha : Payloads \cup {None}, held : BOOLEAN, expires : Expiries]
\* NULL is not a row.
ASSUME RowAssumption == None \notin Rows

Answer == [id : Evidence, time : Times, got : Payloads \cup {Nothing, Error}]

TypeOK ==
    /\ row \in [Evidence -> Rows \cup {None}]
    /\ blob \in [Evidence -> Payloads \cup {Torn, None}]
    /\ pc \in {"rest", "write", "upsert", "sweep"}
    /\ who \in Evidence \cup {None}
    /\ pending \in Rows \cup {None}
    /\ at \in Times
    /\ due \subseteq Evidence /\ done \subseteq Evidence
    /\ reply \in Answer \cup {None}
    /\ reported \subseteq Evidence
    /\ faults \in 0..MaxFaults
    /\ stored \in [Evidence -> Rows \cup {None}]
    /\ hurt \subseteq Evidence /\ dropped \subseteq Evidence
    /\ latest \in Times \cup {None} /\ swept \in Times \cup {None}

Init ==
    /\ row = [e \in Evidence |-> None]
    /\ blob = [e \in Evidence |-> None]
    /\ pc = "rest" /\ who = None /\ pending = None /\ at = 0
    /\ due = {} /\ done = {}
    /\ reply = None /\ reported = {}
    /\ faults = 0
    /\ stored = [e \in Evidence |-> None]
    /\ hurt = {} /\ dropped = {} /\ latest = None /\ swept = None

-----------------------------------------------------------------------------
\* expires_at_for: None for the policies that keep raw evidence.
ExpiryFor(created, ttl) == IF ttl = None THEN None ELSE created + ttl

\* Mutant of Expired: evidence outlives its expiry by one instant.
ExpiredAfter(e, t) == row[e].expires # None /\ row[e].expires < t

\* The comparison of read_raw and of expire's SELECT.
Expired(e, t) == row[e].expires # None /\ row[e].expires <= t

Held(e) == row[e] # None /\ row[e].held

Due(t) == {e \in Evidence : Held(e) /\ Expired(e, t)}

\* A call begins: the answers of the one before are gone.
Begin(next) ==
    /\ pc = "rest"
    /\ pc' = next

Rest == /\ pc' = "rest"
        /\ who' = None /\ pending' = None /\ at' = 0 /\ due' = {} /\ done' = {}

-----------------------------------------------------------------------------
(* store *)

StoreBegin(e, payload, ttl, t) ==
    /\ Begin("write")
    /\ who' = e
    /\ pending' = [sha |-> payload, held |-> TRUE, expires |-> ExpiryFor(t, ttl)]
    /\ reply' = None /\ reported' = {} /\ swept' = None
    /\ UNCHANGED <<row, blob, at, due, done, faults, stored, hurt, dropped, latest>>

\* Mutant of WriteBlob: a file that is there is not written again.
WriteBlobOnce ==
    /\ pc = "write"
    /\ pc' = "upsert"
    /\ blob' = [blob EXCEPT ![who] = IF @ = None THEN pending.sha ELSE @]
    /\ UNCHANGED <<row, who, pending, at, due, done, answers, faults, history>>

WriteBlob ==
    /\ pc = "write"
    /\ pc' = "upsert"
    /\ blob' = [blob EXCEPT ![who] = pending.sha]
    /\ UNCHANGED <<row, who, pending, at, due, done, answers, faults, history>>

Upsert ==
    /\ pc = "upsert"
    /\ row' = [row EXCEPT ![who] = pending]
    /\ stored' = [stored EXCEPT ![who] = pending]
    /\ hurt' = hurt \ {who} /\ dropped' = dropped \ {who}
    /\ Rest
    /\ UNCHANGED <<blob, answers, faults, latest, swept>>

\* The DISCARD branch of store, and store_metadata_only: a row without a path.
\* A file that an earlier store of this id wrote stays, and nothing names it.
StoreLight(e, ttl, t) ==
    /\ Begin("rest")
    /\ row' = [row EXCEPT ![e] = [sha |-> None, held |-> FALSE,
                                  expires |-> ExpiryFor(t, ttl)]]
    /\ stored' = [stored EXCEPT ![e] = row'[e]]
    /\ dropped' = IF blob[e] = None THEN dropped ELSE dropped \cup {e}
    /\ reply' = None /\ reported' = {} /\ swept' = None
    /\ UNCHANGED <<blob, who, pending, at, due, done, faults, hurt, latest>>

-----------------------------------------------------------------------------
(* expire, and expire_with_receipts, which reports the same evidence *)

\* SELECT, inside the transaction that ends in SweepCommit.
Sweep(t) ==
    /\ Begin("sweep")
    /\ at' = t
    /\ due' = Due(t)
    /\ latest' = IF latest = None \/ t > latest THEN t ELSE latest
    /\ UNCHANGED <<row, blob, who, pending, done, faults, stored, hurt, dropped, swept>>

ExpireBegin(t) ==
    /\ Sweep(t)
    /\ reply' = None /\ reported' = {}

\* Mutant of SweepNext: the file is left for the next sweep.
SweepNextKeepsFile(e) ==
    /\ pc = "sweep" /\ e \in due
    /\ due' = due \ {e} /\ done' = done \cup {e}
    /\ UNCHANGED <<row, blob, pc, who, pending, at, answers, faults, history>>

\* The file is unlinked if it exists; the UPDATE waits for the commit.
SweepNext(e) ==
    /\ pc = "sweep" /\ e \in due
    /\ due' = due \ {e} /\ done' = done \cup {e}
    /\ blob' = [blob EXCEPT ![e] = None]
    /\ UNCHANGED <<row, pc, who, pending, at, answers, faults, history>>

SweepCommit ==
    /\ pc = "sweep" /\ due = {}
    /\ row' = [e \in Evidence |->
                  IF e \in done THEN [row[e] EXCEPT !.held = FALSE] ELSE row[e]]
    /\ reported' = done
    /\ swept' = at
    /\ Rest
    /\ UNCHANGED <<blob, reply, faults, stored, hurt, dropped, latest>>

-----------------------------------------------------------------------------
(* read_raw *)

Answers(e, t, got) ==
    /\ reply' = [id |-> e, time |-> t, got |-> got]
    /\ reported' = {}

ReadNothing(e, t) ==
    /\ Begin("rest")
    /\ ~Held(e)
    /\ Answers(e, t, Nothing)
    /\ UNCHANGED <<row, blob, who, pending, at, due, done, faults, history>>

ReadExpired(e, t) ==
    /\ Held(e) /\ Expired(e, t)
    /\ Sweep(t)
    /\ Answers(e, t, Nothing)

\* Mutant of Checked: the checksum is not compared.
Unchecked(e) == IF blob[e] \in Payloads THEN blob[e] ELSE Error

\* A missing file, a torn one and a checksum mismatch all raise.
Checked(e) == IF blob[e] = row[e].sha THEN blob[e] ELSE Error

ReadBlob(e, t) ==
    /\ Begin("rest")
    /\ Held(e) /\ ~Expired(e, t)
    /\ Answers(e, t, Checked(e))
    /\ UNCHANGED <<row, blob, who, pending, at, due, done, faults, history>>

-----------------------------------------------------------------------------
\* The call raises, or the process dies and the vault is opened again: a write
\* is cut short or not begun, an open transaction is rolled back.
Interrupted ==
    /\ pc # "rest" /\ faults < MaxFaults
    /\ faults' = faults + 1
    /\ \/ UNCHANGED blob
       \/ pc = "write" /\ blob' = [blob EXCEPT ![who] = Torn]
    /\ hurt' = IF pc = "sweep" THEN hurt ELSE hurt \cup {who}
    /\ reply' = None
    /\ Rest
    /\ UNCHANGED <<row, reported, stored, dropped, latest, swept>>

Store == \/ \E e \in Evidence, p \in Payloads, ttl \in Ttls \cup {None}, t \in Times :
                StoreBegin(e, p, ttl, t)
         \/ WriteBlob \/ Upsert
         \/ \E e \in Evidence, ttl \in Ttls \cup {None}, t \in Times :
                StoreLight(e, ttl, t)

Expire == \/ \E t \in Times : ExpireBegin(t)
          \/ \E e \in Evidence : SweepNext(e)
          \/ SweepCommit

Read == \E e \in Evidence, t \in Times :
            ReadNothing(e, t) \/ ReadExpired(e, t) \/ ReadBlob(e, t)

Next == Store \/ Expire \/ Read \/ Interrupted

Spec == Init /\ [][Next]_vars

-----------------------------------------------------------------------------
(* Properties *)

\* Bytes that read_raw returns are those of the last store that returned, and
\* are never returned at or after their expiry, whatever was interrupted.
ServedAsStored ==
    reply # None /\ reply.got \in Payloads =>
        /\ stored[reply.id].sha = reply.got
        /\ stored[reply.id].expires # None => reply.time < stored[reply.id].expires

\* Evidence stored with its payload that has not expired by any time expire was
\* called with can be read, unless the last store of its payload was interrupted.
UnexpiredIsReadable ==
    pc = "rest" =>
        \A e \in Evidence \ hurt :
            /\ stored[e] # None /\ stored[e].held
            /\ latest = None \/ stored[e].expires = None \/ stored[e].expires > latest
            => Held(e) /\ blob[e] = stored[e].sha

\* After an expire that returned, the row of no evidence due by its time names a
\* file, whatever was interrupted.  The file too is gone, unless a store of it was
\* interrupted, or it was stored again without its payload.
SweptIsGone ==
    pc = "rest" /\ swept # None =>
        \A e \in Evidence :
            stored[e] # None /\ stored[e].expires # None /\ stored[e].expires <= swept
                => ~Held(e) /\ (e \notin hurt \cup dropped => blob[e] = None)

\* What expire reports, and expire_with_receipts gives receipts of, is deleted.
ReportedIsGone == \A e \in reported : ~Held(e) /\ blob[e] = None

\* Every file has a row that will have it deleted, but those of interrupted stores
\* and of evidence stored again without its payload.
StoredBlobsAreTracked ==
    pc = "rest" => \A e \in Evidence \ (hurt \cup dropped) : blob[e] # None => Held(e)
=============================================================================
