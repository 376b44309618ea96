---------------------------- MODULE CaptureControl ----------------------------
(***************************************************************************)
(* The capture control bridge: CaptureControlProcessManager behind         *)
(* ThreadingHTTPServer.  The manager launches one native overlay process   *)
(* (cortex-shadow-clicker), shows it the card of the latest agentic turn   *)
(* through a temporary file, and stops it.  Only the list of turns has a   *)
(* lock: request threads read and write the manager's attributes freely,   *)
(* so a request is a process whose steps are its accesses to them.         *)
(***************************************************************************)
EXTENDS Naturals, FiniteSets

CONSTANTS
    Handlers,   \* request threads
    Procs,      \* processes popen_factory can launch
    Files,      \* temporary files NamedTemporaryFile can create
    None,
    MaxTurns    \* bound on the agentic turns posted

ASSUME ControlAssumption ==
    /\ None \notin Procs \cup Files \cup Handlers
    /\ MaxTurns \in Nat

VARIABLES
    process,    \* self._process
    card,       \* self._agentic_card: the turn it was made of, 0 for the default
    cardFile,   \* self._agentic_card_file
    turns,      \* agentic_turns: how many; turn number n is the n-th
    os,         \* what each process is
    shows,      \* the card file on its command line
    disk,       \* what each temporary file is
    text,       \* the turn whose card each temporary file holds
    pc,         \* what each request does next
    op,         \* its route
    turn,       \* the turn whose card it carries
    path,       \* the card file it puts on the command line
    pid,        \* the process its reply names, or the one it has launched
    deadBefore, \* history: processes that had ended when the request began
    lone        \* history: the request no other has overlapped, if there is one

manager == <<process, card, cardFile, turns>>
world == <<os, shows, disk, text>>
locals == <<op, turn, path, pid, deadBefore, lone>>
vars == <<manager, world, pc, locals>>

Turns == 0..MaxTurns
Ops == {"status", "start", "stop", "turn"}
Replies == {"replyRunning", "replyStopped", "replyExited", "replyStop"}
Steps == {"idle", "consume", "consumeTake", "unlink", "forgetFile",
          "forgetCard", "startCheck",
          "statusCheck", "statusPid", "fileCheck", "fileCreate", "fileWrite", "popen",
          "assign", "updateCheck", "updateCard", "updateReply", "stopCheck",
          "terminate", "drop"} \cup Replies

TypeOK ==
    /\ process \in Procs \cup {None}
    /\ card \in Turns \cup {None}
    /\ cardFile \in Files \cup {None}
    /\ turns \in Turns
    /\ os \in [Procs -> {"unborn", "running", "stopping", "exited"}]
    /\ shows \in [Procs -> Files \cup {None}]
    /\ disk \in [Files -> {"unmade", "empty", "written", "gone"}]
    /\ text \in [Files -> Turns]
    /\ pc \in [Handlers -> Steps]
    /\ op \in [Handlers -> Ops \cup {None}]
    /\ turn \in [Handlers -> Turns]
    /\ path \in [Handlers -> Files \cup {None}]
    /\ pid \in [Handlers -> Procs \cup {None}]
    /\ deadBefore \in [Handlers -> SUBSET Procs]
    /\ lone \in Handlers \cup {None}

Init ==
    /\ process = None
    /\ card = None
    /\ cardFile = None
    /\ turns = 0
    /\ os = [p \in Procs |-> "unborn"]
    /\ shows = [p \in Procs |-> None]
    /\ disk = [f \in Files |-> "unmade"]
    /\ text = [f \in Files |-> 0]
    /\ pc = [h \in Handlers |-> "idle"]
    /\ op = [h \in Handlers |-> None]
    /\ turn = [h \in Handlers |-> 0]
    /\ path = [h \in Handlers |-> None]
    /\ pid = [h \in Handlers |-> None]
    /\ deadBefore = [h \in Handlers |-> {}]
    /\ lone = None

-----------------------------------------------------------------------------
(* What the requests are built from. *)

\* Mutant of Alive: what has been launched is taken to be alive.
AliveOnceLaunched(p) == p # None /\ os[p] # "unborn"

\* poll() answers None until the process has been reaped.
Alive(p) == p # None /\ os[p] \in {"running", "stopping"}

\* _is_running.  It reads self._process twice: what it answers is true of one of the
\* two reads, and AttributeFails is what happens when a request clears it in between.
IsRunning == Alive(process)

Goto(h, from, to) ==
    /\ pc[h] = from
    /\ pc' = [pc EXCEPT ![h] = to]

Jump(h, from, cond, yes, no) == Goto(h, from, IF cond THEN yes ELSE no)

Alone(h) == \A g \in Handlers \ {h} : pc[g] = "idle"

\* A request arrives; a turn carries its own card.
Arrive(h, route, first, t) ==
    /\ Goto(h, "idle", first)
    /\ op' = [op EXCEPT ![h] = route]
    /\ turn' = [turn EXCEPT ![h] = t]
    /\ deadBefore' = [deadBefore EXCEPT ![h] = {p \in Procs : os[p] = "exited"}]
    /\ lone' = IF Alone(h) THEN h ELSE None

\* A response has been written, or an exception has ended the thread.
Leave(h) ==
    /\ pc' = [pc EXCEPT ![h] = "idle"]
    /\ op' = [op EXCEPT ![h] = None]
    /\ turn' = [turn EXCEPT ![h] = 0]
    /\ path' = [path EXCEPT ![h] = None]
    /\ pid' = [pid EXCEPT ![h] = None]
    /\ deadBefore' = [deadBefore EXCEPT ![h] = {}]
    /\ lone' = IF lone = h THEN None ELSE lone

-----------------------------------------------------------------------------
(* The requests *)

GetStatus(h) ==
    /\ Arrive(h, "status", "consume", 0)
    /\ UNCHANGED <<manager, world, path, pid>>

\* Mutant of LatestTurn: the first turn, not the last.
FirstTurn == IF turns = 0 THEN 0 ELSE 1

\* _latest_agentic_turn, under agentic_lock.
LatestTurn == turns

PostStart(h) ==
    /\ Arrive(h, "start", "consume", LatestTurn)
    /\ UNCHANGED <<manager, world, path, pid>>

PostStop(h) ==
    /\ Arrive(h, "stop", "stopCheck", 0)
    /\ UNCHANGED <<manager, world, path, pid>>

\* _handle_agentic_turn: the turn is appended under the lock, and the card is
\* updated after the lock is released.
PostTurn(h) ==
    /\ turns < MaxTurns
    /\ Arrive(h, "turn", "updateCheck", turns + 1)
    /\ turns' = turns + 1
    /\ UNCHANGED <<process, card, cardFile, world, path, pid>>

-----------------------------------------------------------------------------
(* _consume_exited_process and status *)

Consume(h) ==
    /\ Jump(h, "consume", process # None /\ ~Alive(process), "consumeTake",
            IF op[h] = "start" THEN "startCheck" ELSE "statusCheck")
    /\ UNCHANGED <<manager, world, locals>>

\* Mutant of ConsumeTake: the pid is read after the attribute is cleared.
ConsumeTakeAfter(h) ==
    /\ process # None
    /\ Goto(h, "consumeTake", "unlink")
    /\ process' = None
    /\ UNCHANGED <<card, cardFile, turns, world, locals>>

\* The pid is read again before the attribute is cleared.
ConsumeTake(h) ==
    /\ process # None
    /\ Goto(h, "consumeTake", "unlink")
    /\ pid' = [pid EXCEPT ![h] = process]
    /\ process' = None
    /\ UNCHANGED <<card, cardFile, turns, world, op, turn, path, deadBefore, lone>>

StatusCheck(h) ==
    /\ Jump(h, "statusCheck", IsRunning, "statusPid", "replyStopped")
    /\ UNCHANGED <<manager, world, locals>>

\* The reply says running, with the pid of whatever is held by now.
StatusPid(h) ==
    /\ Goto(h, "statusPid", "replyRunning")
    /\ pid' = [pid EXCEPT ![h] = process]
    /\ UNCHANGED <<manager, world, op, turn, path, deadBefore, lone>>

-----------------------------------------------------------------------------
(* _clear_agentic_card_file and what the watchdog and stop clear after it *)

AfterClear(h) == CASE op[h] = "stop" -> "replyStop"
                   [] op[h] = "start" -> "startCheck"
                   [] OTHER -> "replyExited"

\* Mutant of Unlink: the temporary file stays.
UnlinkSkipped(h) ==
    /\ Jump(h, "unlink", cardFile = None, "forgetCard", "forgetFile")
    /\ UNCHANGED <<manager, world, locals>>

\* Without a card file there is nothing to unlink or to forget.
Unlink(h) ==
    /\ Jump(h, "unlink", cardFile = None, "forgetCard", "forgetFile")
    /\ disk' = [f \in Files |-> IF f = cardFile THEN "gone" ELSE disk[f]]
    /\ UNCHANGED <<manager, os, shows, text, locals>>

ForgetFile(h) ==
    /\ Goto(h, "forgetFile", "forgetCard")
    /\ cardFile' = None
    /\ UNCHANGED <<process, card, turns, world, locals>>

ForgetCard(h) ==
    /\ Goto(h, "forgetCard", AfterClear(h))
    /\ card' = None
    /\ UNCHANGED <<process, cardFile, turns, world, locals>>

-----------------------------------------------------------------------------
(* _write_agentic_card_file, of start and of update_agentic_card *)

FileCheck(h) ==
    /\ Jump(h, "fileCheck", cardFile = None, "fileCreate", "fileWrite")
    /\ UNCHANGED <<manager, world, locals>>

FileCreate(h, f) ==
    /\ disk[f] = "unmade"
    /\ Goto(h, "fileCreate", "fileWrite")
    /\ disk' = [disk EXCEPT ![f] = "empty"]
    /\ cardFile' = f
    /\ UNCHANGED <<process, card, turns, os, shows, text, locals>>

FileWrite(h) ==
    /\ cardFile # None
    /\ Jump(h, "fileWrite", op[h] = "start", "popen", "updateReply")
    /\ disk' = [disk EXCEPT ![cardFile] = "written"]
    /\ text' = [text EXCEPT ![cardFile] = turn[h]]
    /\ path' = [path EXCEPT ![h] = cardFile]
    /\ UNCHANGED <<manager, os, shows, op, turn, pid, deadBefore, lone>>

-----------------------------------------------------------------------------
(* start *)

\* Mutant of StartCheck: a second overlay is launched beside the running one.
StartUnchecked(h) ==
    /\ Goto(h, "startCheck", "fileCheck")
    /\ UNCHANGED <<manager, world, locals>>

\* A running overlay is left alone, and the request goes on as status().
StartCheck(h) ==
    /\ Jump(h, "startCheck", IsRunning, "consume", "fileCheck")
    /\ op' = [op EXCEPT ![h] = IF IsRunning THEN "status" ELSE @]
    /\ UNCHANGED <<manager, world, turn, path, pid, deadBefore, lone>>

Popen(h, p) ==
    /\ os[p] = "unborn"
    /\ Goto(h, "popen", "assign")
    /\ os' = [os EXCEPT ![p] = "running"]
    /\ shows' = [shows EXCEPT ![p] = path[h]]
    /\ pid' = [pid EXCEPT ![h] = p]
    /\ UNCHANGED <<manager, disk, text, op, turn, path, deadBefore, lone>>

Assign(h) ==
    /\ Goto(h, "assign", "replyRunning")
    /\ process' = pid[h]
    /\ card' = turn[h]
    /\ UNCHANGED <<cardFile, turns, world, locals>>

-----------------------------------------------------------------------------
(* update_agentic_card *)

UpdateCheck(h) ==
    /\ Jump(h, "updateCheck", IsRunning, "updateCard", "consume")
    /\ UNCHANGED <<manager, world, locals>>

UpdateCard(h) ==
    /\ Goto(h, "updateCard", "fileCheck")
    /\ card' = turn[h]
    /\ UNCHANGED <<process, cardFile, turns, world, locals>>

\* The receipt says running without another poll.
UpdateReply(h) ==
    /\ Goto(h, "updateReply", "replyRunning")
    /\ pid' = [pid EXCEPT ![h] = process]
    /\ UNCHANGED <<manager, world, op, turn, path, deadBefore, lone>>

-----------------------------------------------------------------------------
(* stop *)

StopCheck(h) ==
    /\ Jump(h, "stopCheck", IsRunning, "terminate", "drop")
    /\ UNCHANGED <<manager, world, locals>>

\* Mutant of Terminate: no signal is sent.
TerminateNothing(h) ==
    /\ process # None
    /\ Goto(h, "terminate", "drop")
    /\ UNCHANGED <<manager, world, locals>>

\* SIGTERM to whatever self._process is by now; nobody waits for it to end.
Terminate(h) ==
    /\ process # None
    /\ Goto(h, "terminate", "drop")
    /\ os' = [os EXCEPT ![process] = IF @ = "running" THEN "stopping" ELSE @]
    /\ UNCHANGED <<manager, shows, disk, text, locals>>

\* stop looks once more whether there is a process, and finds none.
TerminateNone(h) ==
    /\ process = None
    /\ Goto(h, "terminate", "drop")
    /\ UNCHANGED <<manager, world, locals>>

\* Mutant of Drop: stop keeps the process it has told to end.
DropKeepsProcess(h) ==
    /\ Goto(h, "drop", "unlink")
    /\ UNCHANGED <<manager, world, locals>>

Drop(h) ==
    /\ Goto(h, "drop", "unlink")
    /\ process' = None
    /\ UNCHANGED <<card, cardFile, turns, world, locals>>

-----------------------------------------------------------------------------
(* Replies, failures and the overlay *)

Reply(h) ==
    /\ pc[h] \in Replies
    /\ Leave(h)
    /\ UNCHANGED <<manager, world>>

\* Steps that look at self._process twice.
LooksTwice == {"consume", "statusCheck", "startCheck", "updateCheck", "stopCheck"}

\* None has no poll(), pid, terminate(), unlink() or write_text().  Where the code
\* has just seen that the attribute is there, another request must have cleared it.
AttributeFails(h) ==
    /\ \/ pc[h] \in {"consumeTake", "terminate"} /\ process = None
       \/ pc[h] = "fileWrite" /\ cardFile = None
       \/ pc[h] \in LooksTwice /\ process = None /\ lone # h
       \/ pc[h] = "unlink" /\ cardFile = None /\ lone # h
    /\ Leave(h)
    /\ UNCHANGED <<manager, world>>

\* No temporary file can be made, or the launcher is not installed.
LaunchFails(h) ==
    /\ pc[h] \in {"fileCreate", "popen"}
    /\ Leave(h)
    /\ UNCHANGED <<manager, world>>

\* The overlay's duration is over, it crashed, or it obeyed SIGTERM.
OverlayExits(p) ==
    /\ Alive(p)
    /\ os' = [os EXCEPT ![p] = "exited"]
    /\ UNCHANGED <<manager, shows, disk, text, pc, locals>>

Request(h) == GetStatus(h) \/ PostStart(h) \/ PostStop(h) \/ PostTurn(h)

Work(h) ==
    \/ Consume(h) \/ ConsumeTake(h) \/ StatusCheck(h) \/ StatusPid(h) \/ Unlink(h)
    \/ ForgetFile(h) \/ ForgetCard(h)
    \/ FileCheck(h) \/ FileWrite(h) \/ StartCheck(h) \/ Assign(h)
    \/ \E f \in Files : FileCreate(h, f)
    \/ \E p \in Procs : Popen(h, p)
    \/ UpdateCheck(h) \/ UpdateCard(h) \/ UpdateReply(h)
    \/ StopCheck(h) \/ Terminate(h) \/ TerminateNone(h) \/ Drop(h)
    \/ Reply(h) \/ AttributeFails(h) \/ LaunchFails(h)

Next ==
    \/ \E h \in Handlers : Request(h) \/ Work(h)
    \/ \E p \in Procs : OverlayExits(p)

Spec == Init /\ [][Next]_vars

-----------------------------------------------------------------------------
(* Properties *)

AtRest == \A h \in Handlers : pc[h] = "idle"

\* An overlay that nobody has asked to end is the one the manager holds, or the
\* one a start request has just launched: none is out of reach of stop.
NoOrphanOverlay ==
    \A p \in Procs : os[p] = "running" =>
        \/ process = p
        \/ \E h \in Handlers : pc[h] = "assign" /\ pid[h] = p

\* When stop answers "stopped" and no other request is in progress, every overlay
\* has been told to end.
StopEndsOverlays ==
    \A h \in Handlers : pc[h] = "replyStop" /\ Alone(h) =>
        \A p \in Procs : os[p] # "running"

\* When stop answers and no other request is in progress, no card file is left on
\* the disk, as the manager's tests assert of the file start created.
StopRemovesCards ==
    \A h \in Handlers : pc[h] = "replyStop" /\ Alone(h) =>
        \A f \in Files : disk[f] \in {"unmade", "gone"}

\* Between requests a live overlay shows the card of the latest turn, and so does
\* the status receipt.
OverlayShowsLatestTurn ==
    AtRest /\ IsRunning =>
        /\ shows[process] # None
        /\ disk[shows[process]] = "written"
        /\ text[shows[process]] = turns
        /\ card = turns

\* Stale overlay state is not reported as running: a receipt that says so does
\* not name an overlay that had ended before its request began.
RunningRepliesAreFresh ==
    \A h \in Handlers : pc[h] = "replyRunning" /\ op[h] # "turn" =>
        pid[h] \notin deadBefore[h]

\* Whatever races came before, the first stop that no request overlaps puts the
\* manager back where it began, so that the next start is not taken for a second.
LoneStopResets ==
    \A h \in Handlers : pc[h] = "replyStop" /\ lone = h =>
        process = None /\ card = None /\ cardFile = None

\* Whatever races came before, the answer to a request that none overlaps is
\* about the overlay that is held: running if it had not ended when the request
\* began, exited if it had.
LoneRepliesAreTrue ==
    \A h \in Handlers : lone = h =>
        /\ pc[h] = "replyRunning" => pid[h] = process /\ pid[h] \notin deadBefore[h]
        /\ pc[h] = "replyExited" => pid[h] # None /\ os[pid[h]] = "exited"
        /\ pc[h] = "replyStopped" => ~IsRunning
=============================================================================
