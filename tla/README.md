# Cortex Memory OS in TLA+

A verification project for `src/cortex_memory_os` (Python): a local-first memory
layer that observes, with consent, what its user does, turns it into memories the
user can inspect, correct, forget and undo, and serves those memories to agents
through an MCP gateway, next to a native overlay it starts and stops.

The project models the parts that keep state and can lose it (the Manual Memory
Book, the capture control bridge, the evidence vault, the memory lifecycle, the
Memory Palace, self-lessons) and the way of an observation into them (the
perception pipeline, the adapter endpoint, the live clicker). TLC checks each on
small instances; TLAPS proves the main results for every value of the constants.

## 1. Inventory

### Components modelled

| Component | State it keeps | Operations | Correct when |
| --- | --- | --- | --- |
| **Manual Memory Book** (`manual_memory_book.py`, over `encrypted_graph_index.py` and `memory_encryption.py`) | five tables of one SQLite file: sealed memories, redacted index, undo rows, audit | `save`, `correct`, `forget`, `undo_forget`; reads `list_cards`, `search`, `ask`, `context_pack`, `snapshot`, `explain` | no forgotten memory is shown; a forgotten one can be restored inside its window and only then; a corrected one is replaced for good; every tombstone is audited |
| **Capture control bridge** (`capture_control_server.py`) | the overlay process, its card, the card file, the list of agentic turns | `start`, `stop`, `status`, `update_agentic_card`, posting a turn | stop ends every overlay and removes its files; status tells the truth; the overlay shows the latest turn |
| **Evidence vault** (`evidence_vault.py`) | one blob file per evidence, one row each | `store`, `store_metadata_only`, `read_raw`, `expire`, `expire_with_receipts` | what is served is what was stored and not expired; what is not due is readable; what is due is deleted, file and all; what is reported deleted is gone |
| **Memory lifecycle** (`memory_lifecycle.py`, `contracts.py`, `retrieval.py`) | none: pure rules on a `MemoryRecord` | `evaluate_memory_transition`, `transition_memory`, `recall_allowed`, `score_memory` | what a transition has blocked stays out of recall, promotion is earned, what a transition writes can be read back |
| **Memory Palace** (`memory_palace.py` over `sqlite_store.py`, served by `mcp_server.py`) | the memories and audit tables | `correct_memory`, `delete_memory` (`memory.correct`, `memory.forget`) | one version of a memory is recalled, the last one; deletion is final; every row can be read back |
| **Self-lessons** (`self_lessons.py`, `self_lesson_audit.py`, served by `mcp_server.py`) | the self-lesson and audit tables | `propose`, `promote`, `refresh`, `rollback`, `correct`, `delete`, and the lessons of a context pack | what guides an agent was confirmed by the user, lately if it is scoped, and was never withdrawn; no row is ahead of the audit trail |
| **Perception pipeline** (`perception_adapters.py`, `firewall.py`, `evidence_eligibility.py`, `shadow_pointer_capture.py`) | none: functions from an adapter event to an envelope, a verdict, an evidence plan and an overlay receipt | `handoff_terminal_event`, `handoff_browser_event`, the two macOS ones, `redact_sensitive_text` | what is kept was consented to and is clean; the overlay tells the truth; no validator fails on the way; no secret is left |
| **Adapter endpoint** (`adapter_endpoint.py`) | a list of results under a lock | `POST /adapter/browser`, `POST /adapter/terminal`, `GET /results` | a post that was answered is counted; every call ends |
| **Live clicker** (`live_clicker_demo.py`) | receipts and a count of rejections under a lock; memories and audit events in SQLite | `POST /observe` | receipts tell what the store holds; every answer is counted once; every request ends |

### How they interact

* The capture control server is a `ThreadingHTTPServer`: every request runs in a
  thread of its own. Its handlers call the process manager (attributes of one
  object, no lock) and the Memory Book (SQLite, one connection per transaction, no
  lock over a request). The only lock protects the list of agentic turns.
* The adapter endpoint and the live clicker are `ThreadingHTTPServer`s too. The
  endpoint judges a post outside its lock and takes it to append the result; the
  clicker numbers an observation, runs the pipeline, writes to the store and appends
  the receipt under one lock. Neither lock is reentrant.
* Both call the perception pipeline, each with envelopes of its own making. The
  pipeline decides what may be kept (raw blob, redacted text, metadata) and what the
  Shadow Pointer shows; the vault and the stores take it from there.
* The MCP gateway reads one JSON-RPC line at a time from stdin and calls the Memory
  Palace, the Memory Book, self-lessons, skills and traces; nothing overlaps inside
  it, but every write is its own transaction, so the process can die between two.
  The Palace writes rows first and the audit event last; self-lessons do the opposite.
* The evidence vault is a library without threads; its caller passes the time of
  every call. The file system and the database are two stores without a common
  transaction.
* `memory_lifecycle` decides what the palace and `SQLiteMemoryGraphStore` write;
  `contracts.MemoryRecord` validates what they read back. The writes go through
  `model_copy`, which validates nothing: the two meet only at the next read.

### What is hard here

Interleavings of request threads over several transactions; a handler that raises
or a server that dies between two of them; undo windows that close while an undo
is on its way; a process that exits between a poll and the use of its pid; a file
and a row that disagree after a crash; ids with the resolution of a second; records
written without validation; locks that are not reentrant around code that can
raise; numbers given out by the length of a list; validators at the end of four
functions each of which trusts the one before; spans found in a text that is
changed under them. `PROJECT.json` lists each hazard at its line with the
properties that would catch it.

### Not modelled

* The **terminal and browser adapters** (zsh, JavaScript) are the callers of the
  endpoint, which takes any payload from them.
* The **live tutor** keeps a list of turns under one lock, as the clicker does, but
  without limit or store; the rest is wording. **Realtime voice** and the **native
  cursor** are contracts and command lines; the **Swift overlay** draws.
* The **Shadow Pointer's controls** (pause, ignore an app, delete the recent past),
  the **capture budget queue**, **swarm governance**, **skills**, **key management**
  and **robot safety** are functions that decide and contracts that validate; in this
  repository only tests, benchmarks and dashboards call them, and no code holds the
  state they would change. **Runtime traces** are validated when built and not
  changed afterwards.
* **Scene segmentation**, **hybrid and fused retrieval** and **source routing** rank
  and group; what may be returned at all is in `MemoryTransitions`.
* **Export** filters by `recall_allowed`, which `MemoryTransitions` has, by scope
  and by visibility.
* **Dashboards, readiness reports, static UIs, plugin packaging** format what the
  other parts keep. `benchmarks.py` and the smokes, a third of the code, are the
  repository's own test harness.

## 2. The modules

| Module | Models | State and actions |
| --- | --- | --- |
| `ManualMemoryBook` | the service's handlers as processes | `store`, `replacement`, `index`, `undo`, `audit` are the tables; `pc` and the locals belong to a request thread; one action per SQLite transaction (`CorrectTombStore`, `CorrectTombIndex`, `CorrectNewStore`, ...); `HandlerFails` is `sqlite3.OperationalError` between two transactions, `ServerCrash` the end of the process |
| `MemoryBook` | the promise to the user, one atomic step per request | each memory is absent, live, forgotten, corrected or gone |
| `ManualMemoryBookRefinement` | the refinement mapping | a correction takes effect when the replacement is stored; a forgotten memory is gone when no undo row and no undo request can bring it back |
| `CaptureControl` | the process manager as attributes read and written by request threads | `process`, `card`, `cardFile` are `self._...`; `os`, `disk`, `text` the processes and files of the machine; one action per access to a shared attribute, two reads next to one another (`_is_running`) being one step that may fail when another request intervenes |
| `EvidenceVault` | the vault, one call at a time | `row` and `blob` are the table and the directory; any id may be stored with its payload or without, in any order; `store` and `expire` take several steps and `Interrupted` ends them anywhere |
| `MemoryTransitions` | the lifecycle, contract and eligibility rules as operators | no state |
| `MemoryLifecycle` | one record under any sequence of transitions | begins with any record the validator accepts; `Change` is `transition_memory` |
| `MemoryPalace` | corrections and deletions through the gateway | `rows` and `audits` are the tables; an id is a seed and the seconds of its corrections |
| `SelfLessons` | the gateway's self-lesson tools | `rows` and `audit` are the tables; a request (`Propose`, `Promote`, `Correct`, ...) reads and decides, and leaves in `todo` the transactions it is to make; `WriteEvent` and `WriteRow` make them, `Fail` ends the request; `Guides` is what a context pack hands out; `today` is the date in UTC, `local` that of the server, at most a day from it |
| `Redaction` | `redact_sensitive_text` and the patterns | no state; a text is a sequence of pieces laid out in cells |
| `Perception` | envelope, verdict, plan and receipt, each with its validator | no state |
| `AdapterEndpoint` | posts, `GET /results` and calls within the process | `results` and `lock` are `_ingest_results` and `_ingest_lock`; a caller judges its post, waits for the lock, records, replies |
| `LiveClicker` | the session of observations | `receipts`, `rejected`, `lock` are the session's; `memories` and `audits` the store; one action per transaction, `Fail` breaks one |
| `..._proofs` | theorems of the module they are named after | |
| `MC...` | symmetry sets, payloads and texts for TLC | |

Abstractions. A memory of the Book is its identifier: the text saved under an id
never changes, and encryption, scores and wording tell no two behaviours apart. A
query of the Book matches any set of memories. A card is the number of the turn it
was made of. A payload is a model value, a torn file is the value `Torn`; sealing
and opening are a function and its inverse, so the model compares what was stored
with the checksum. Confidence is one of three bands, cut at the thresholds 0.75 and
0.90 of the code. Influence levels 1 to 3 are `"direct"`, 4 and 5 are `"tool"`.
The Palace's search is one whose words and scope match.

The content of a self-lesson is its number, its id a topic and a second (as in
`_lesson_id`); lessons from the configuration, which no tool changes, are left out,
and what the wording filters say of a text is one flag. A text in the pipeline is a
sequence of pieces, each plain, an injection or a secret of one of the three kinds;
a secret takes at least two cells and the placeholder one, because every pattern
matches more characters than the placeholder has. The fields of an event that only
reach the output (titles, URLs, working directories) are left out, as the firewall
leaves them out.

History variables (`wasLive`, `hurt`, `dropped`, `honoured`, `again`, `stored`,
`withdrawn`, `confirmed`, `asked`, `torn`, ...) are read by properties only; no action
is guarded by one, save that `lone` tells `AttributeFails` which requests another may
have come between. `minted` and `issued` stand for the uniqueness of `uuid` and
microsecond ids.

## 3. The runs

| Run | Question | Bounds |
| --- | --- | --- |
| `book_sequential` | does the service keep its promise when requests do not overlap and nothing fails? | 3 memories, 2 undo ids, 1 handler, no fault |
| `book_concurrent` | what stays true with two threads and a failure? | 2 memories, 2 undo ids, 2 handlers, 1 fault |
| `control_sequential` | one request at a time, the overlay dying anywhere | 3 processes, 3 files, 3 turns |
| `control_concurrent` | what survives races of the lock-free manager? | 2 handlers, 2 processes, 2 files, 1 turn |
| `vault_interrupted` | calls interrupted between file and row, times in any order | 2 evidence ids, each stored with or without its payload, 2 payloads, 3 times, 2 interruptions |
| `lifecycle` | every record of any status and window, every sequence of transitions | 3 days |
| `palace` | corrections of corrections, deletions, retries, one interruption | 5 requests, depth 2, 4 seconds of 2 to a day |
| `lessons` | every order of proposals, decisions, failures and days | 1 topic, 2 seconds, 3 lessons, 1 failure, 3 days, a server ahead of UTC, behind or level, a review window of 0 days |
| `endpoint` | every event through the pipeline while others post and read | 3 callers: one may send anything, one posts ordinary events, one reads |
| `clicker` | requests that race for the last numbers of a session whose store fails once | 4 requests, 2 observations, 1 failure |
| `palace_unreadable` | *violated*: `contracts.py`, "valid_to cannot be before valid_from" | as `palace` |
| `endpoint_second_secret` | *violated*: "Raw secrets are replaced with `[REDACTED_SECRET]`" | as `endpoint` |

Why the bounds are enough for the cases that matter. Two handlers are what a race
needs, and each property is about one memory or one request against the others.
Two undo ids and a clock that passes the window let an undo lapse before, during
and after its request. Three processes let an overlay be started, die, be replaced
and die again. In the vault an interruption of a store can be followed by an
interruption of the sweep that would repair it, and one id can be stored in one way
while another is swept. The lifecycle starts from every valid record of three
days: windows that open tomorrow, that have closed, and all seven statuses, with
influence wherever the contract allows it. In the palace two seconds of one
day and two of the next make ids collide and validity windows close. In the lessons
two seconds make an id collide with itself or not, three contents let a replacement
be replaced, and a window of no days makes a lesson overdue at the first midnight,
or at the second when it was promoted ahead of UTC. At the endpoint one caller takes every combination of source, consent, permission
and text, the texts have secrets of one kind, of two, and twice the same, and two
more callers are enough to wait for the lock and to read between two records. Four
requests at the clicker fill a session of two, let one fail and one be refused.
Beyond the bounds stand the proofs.

Deadlock is checked in every run but those of the palace, the endpoint and the
clicker, which stop when their requests are used up.

Fairness and liveness. `EveryCallEnds` and `EveryRequestEnds` assume
`WF_vars(Proceed(c))` for each thread: a thread that can take its next step takes
it in the end, which is what the operating system's scheduler gives. Nothing is
assumed of the clients: a request (`Begin`) may never come. `threading.Lock` is not
fair, but there are finitely many requests and each takes the lock once or twice, so
that a thread that waits is left alone with it sooner or later. The other components
have no liveness to state: their requests are straight-line, nothing waits for
anything, and the one thing the bridge could wait for, the end of the overlay, it
does not wait for.

### What the violated runs show

* **A correction nobody can read.** Correcting a memory that is already superseded
  (a retry after an interrupted correction is enough) copies its old `valid_to`
  under a new `valid_from`. On a later day the row is refused by the contract:
  `list_memories` raises, and the row can be neither explained nor deleted.
* **The second secret.** `redact_sensitive_text` finds all matches of a pattern,
  then replaces one after the other in the text that has become shorter. From the
  second match on the spans are stale: part or all of the secret stays.

### Facts met on the way that no property states

Each one in bold was seen in a run of TLC before the property beside it was given the
exemption, or the condition, that it has now.

* **An undo of what was not forgotten.** A correction has read the memory; a forget
  writes its tombstone and is answered; the undo of it pops the row and, before it
  writes, the correction supersedes the memory and stores its replacement. The undo
  writes the original back without looking at what it replaces: both are live, though
  ADR 0007 says that an undo restores only what the user has forgotten
  (`manual_memory_book.py:613`). `UndoRestoresOnlyForgotten` is checked without races
  and proved where they are about different memories.
* **A dead overlay called running.** Two starts race; the second has launched an
  overlay that has ended at once. A status polls the first, the second start puts its
  own in the manager, and the status names that one
  (`capture_control_server.py:275`); the capture control document says that stale
  overlay state cannot be reported as running.
* **Bytes that outlive their row.** Evidence stored with its payload and again without
  it (`DISCARD`, or metadata only) loses its `blob_path`, and no `expire` finds the file,
  with nothing interrupted (`evidence_vault.py:141`, `:185`). `SweptIsGone` and
  `StoredBlobsAreTracked` except such evidence (`dropped`); `ServedAsStored` does not:
  what is left is on the disk, not in any answer.
* **A superseded record that is recalled.** The contract lets a superseded or
  quarantined record have influence; a superseded one may be deprecated, and a
  deprecated record with influence is recalled. No transition makes such a record, so
  what the code itself has superseded stays out (`BlockedStaysOut`); the benchmarks do
  make one (`benchmarks.py:4825`). A record that came with no influence stays out too.
* **A review that clears itself.** The transition of an active memory to active is
  allowed as a no-op, to anybody, and clears `requires_user_confirmation`: an inferred
  memory of low confidence is then active without review, and the store refuses to
  read it (`ClearsItsOnlyReview` in `TransitionsStayReadable`).
* **A day too long.** A promotion is dated in the server's zone (`date.today()`), the
  review in UTC. East of Greenwich the date may be a day ahead, and a scoped lesson
  guides for a day past its window. `GuidanceIsConfirmed` has the bound that does hold.
* Two overlapping starts both find no overlay running; the second assignment
  forgets the first process, and stop ends one (`capture_control_server.py:296`).
  With two threads `StopRemovesCards` and `OverlayShowsLatestTurn` fail as well, which
  is why they are stated of requests that follow one another.
* A store interrupted after the blob and before the row leaves a file that no
  expiry ever finds (`evidence_vault.py:157`).
* `model_copy` does not validate. `TransitionsStayReadable` names the three kinds of
  transition that write what the store cannot read back: the blocking or deprecation
  of a memory whose `valid_from` is to come (`valid_to` is today), the activation of a
  tool memory without `allowed_influence`, and the no-op above
  (`memory_lifecycle.py:106`, `contracts.py:339`, `:346`).
* The DELETE of an expired undo row is rolled back by the exception that follows it,
  so sealed originals outlive their window, though they cannot be restored. A
  deprecated memory, documented as eligible with a penalty, is given `valid_to`
  today and is found no more from the next day on.
* A browser event that looks like an injection and comes without active consent
  makes `build_browser_envelope` raise (`RaisesExactly` shows it is the only one). At
  the endpoint this happens outside the `try`: the thread ends without a reply and
  without a recorded result, and the receipt that the capture wiring document
  promises for paused consent is not made. The firewall sees the text of an event,
  not its title, URL or working directory.
* After a failure of the store the clicker gives the same number out again: the
  next observation overwrites the memory, or leaves it beside a receipt that says
  that none was written. `torn` is the history of these numbers.
* A lesson's id is a topic and a second: a proposal or correction within the second
  overwrites an earlier row, a deleted one too. A revoked or superseded lesson may be
  corrected again, and both replacements promoted. A proposal has no audit event.

Hazards that no property covers: `saved_count` counts a listing capped at 20
(`manual_memory_book.py:631`); candidates are cut before inactive ones are dropped
(`encrypted_graph_index.py:349`); the overlay's output pipes are not read
(`capture_control_server.py:313`); a duration that is not a number (line 301);
receipts trimmed while others append (line 524).

## 4. The proofs

`tlapm` checks every theorem from nothing. Assumptions: only the named ASSUMEs of
the modules (that `None` is not a memory, the window is positive, sets of requests
are finite, and the like), which TLC evaluates in the runs. Type correctness is a
theorem of each module with proofs, save the endpoint, whose typing is part of its
invariant, and so is not repeated in the runs.

* **Manual Memory Book.** The safety of `book_concurrent` holds for any number of
  memories, undo ids, request threads, failures and any window. None of the
  properties is inductive: that a forgotten memory can be recovered depends on what
  each handler in flight has already written. The invariant says, for each step of
  each handler, what its earlier steps have made true and no other handler can
  destroy: undo ids belong to one request and its row is there until the undo that
  pops it, and an undo that was honoured leaves none (`HonouredInv`); replacement ids
  belong to one correction; every forget past its undo step has a row or a restore
  under way.
  Index and store, the undo rows, the undo of a correction and the refinement of
  `MemoryBook` are false under races ("Facts met on the way" has one), so their theorems
  say when they are true: `Undisturbed`, that requests which overlap are about
  different memories and that no request has failed after it touched its memory. Any
  number of threads, of reads at the same time and of harmless failures is allowed.
  The invariant `RowsInStep` says what each step of a request knows of its memory's
  rows, that the index lags the store only where a request is between the two, and
  that a pending undo row is the only one of a forgotten memory. For the refinement
  each action is shown to be a step of `MemoryBook` under the mapping or to leave it
  unchanged: a save is remembered by `SaveStore`, a correction happens in
  `CorrectNewStore`, a forget in `ForgetTombStore`, a restore in `UndoStore`; every
  other step is a lapse or nothing, a window closing when the clock advances or an undo
  request gives up. A lone thread is always undisturbed, so
  `SequentialService` has no condition left but no failures, as `book_sequential`.
* **Capture control.** `LoneStopResets` and `LoneRepliesAreTrue` hold for any number
  of threads, processes, files and turns. A request that nothing overlaps knows at
  each step what it has polled (`LoneKnows`); for the rest only three facts survive
  the races: what is held has been launched, dead processes stay dead, and each
  step belongs to its route (`History`). The five properties of `control_sequential`
  are false when requests race; they are proved under `OneRequest`,
  that no two requests overlap, whichever threads serve them, whenever overlays end
  and whichever launches fail. `ServedInv` says which file and which turn the held
  process shows, that no other card file is on the disk, and what the request that is
  being served knows. With one thread the condition is true (`SequentialBridge`).
* **Evidence vault.** The four properties of the run, and that what `expire` reports
  is gone, for any evidence, times and number of interruptions. They speak of a
  vault at rest, whose evidence may have been stored in any of the three ways and any
  order; files of an id that was stored again without its payload (`dropped`) are the
  ones no sweep can find, and the two properties about files except them together
  with those of interrupted stores. The invariant says what is left of each while a
  call is under way (`CallKnows`, `Readable`, `Tracked`, `Gone`): a sweep's remaining
  and finished evidence are together what was due, a store past its write has its
  blob on the disk, a row is that of the last store that returned.
* **Memory lifecycle.** For any record the contract accepts and any number of days.
  Blocking strips influence and no transition gives it back (`Stripped`), so no path
  of allowed transitions returns a memory that a transition has blocked to recall,
  whatever its status has become (a superseded memory may be deprecated and
  then activated). A record that came blocked with influence is not `blocked` in this
  sense, and does come back ("Facts met on the way"). Promotion and readability
  (`TransitionsReadable`, both directions of its equivalence) are action properties.
* **Memory Palace.** All five properties of the run, for any memories, clock, depth
  and interruptions. The key is `Closed`: a memory of which a correction exists is
  not live, so nothing can be stored over or beside a live version (`OneLive`); the
  versions of a memory that met no mishap form a chain whose tip is the last
  correction (`Chain`); what is retired has its receipt or a request on its way to
  write it (`Accounted`).
* **Self-lessons.** All four properties, for any topics, clock and failures. The
  invariant lists what a request can still have to write (`Pending`) and, for each
  of these writes, why it will do no harm when it is made: an update does not bring
  back what is withdrawn, a new content is one that nobody has stored, and the
  event of a decision is written or about to be. What bounds the age of guidance is
  that the date a row carries is at most a day after the one on which the user confirmed
  it (`GuidanceConfirmed`).
* **Perception and endpoint.** Four theorems about the pipeline for every event,
  whatever its text: what is kept was consented to and is clean (`KeptIsClean`), past
  the envelope no validator fails (`PipelineIsTotal`), the overlay's receipt allows a
  write exactly when the plan is eligible, although the two are computed apart
  (`OverlayTellsThePlan`), and the builders raise in one case only (`RaisesExactly`).
  For the endpoint: the results and the posts recorded or being recorded agree in
  number, which counts every answered post in every later reply.
* **Live clicker.** A thread inside `observe` has the lock and the next number; what
  it has written so far is there; a memory that no receipt tells of is that of a
  failed observation or of the thread inside. From this follow the truth of the
  receipts and the count of the answers.

* **Redaction.** `LoneSecretsAreReplaced` is about a fold over a text of any length,
  so it takes induction over data. No prover here can instantiate a theorem that
  takes an operator, but that every set of naturals has a least element (`WFMin` for
  `<`) is about sets alone; `Induction` follows, with a set in the place of the
  predicate. With it `CellsLaid` shows that the flattening exists and that its prefixes
  hold the cells of their pieces, each once and whole. `Laid` is the invariant of the
  two loops: the cells are placeholders and the cells of the pieces not yet replaced,
  each of which lies whole in one place. Replacing a match keeps that because two
  pieces never overlap; it is why the condition says that no pattern matches twice,
  for a second match is replaced at a place that is no longer its own
  (`endpoint_second_secret`).

Every safety property of the passing runs is a theorem. Only model-checked are the two
liveness properties, `EveryCallEnds` and `EveryRequestEnds`: liveness under fairness
and ENABLED are out of the prover's reach. The modules with theorems reach no
RECURSIVE operator.

## 5. The plan

Order: what can lose or leak user data first, then gateways, then pure rules.

1. Done: Memory Book, capture control, vault, lifecycle, palace, self-lessons,
   perception pipeline, adapter endpoint, live clicker; the proofs of each.
2. The Shadow Pointer's controls over snapshots, and the capture budget queue, both
   as operators against a reference, once code applies them.
3. The gateway's listing, review queue and export tools over `MemoryTransitions` and
   `SelfLessons`, with scopes; scene segmentation; the ranking of hybrid retrieval.
4. The tutor's session, composed with the voice routes.
5. Proofs: `Undisturbed` memory by memory, so that a race about one memory leaves the
   theorems about the others standing; which secrets survive in a text that a pattern
   matches twice.
6. Compositions: the pipeline's plans with the vault; palace and lifecycle with the
   dashboard's reads; the Book with the death of the capture server.
