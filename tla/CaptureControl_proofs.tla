------------------------ MODULE CaptureControl_proofs ------------------------
(***************************************************************************)
(* What the capture control bridge keeps for any number of request         *)
(* threads, processes, files and turns.                                    *)
(***************************************************************************)
EXTENDS CaptureControl, TLAPS

-----------------------------------------------------------------------------
(* Types *)

LEMMA InitTyped == Init => TypeOK
  BY ControlAssumption DEF Init, TypeOK, Steps, Ops, Turns

\* A request that comes in keeps the types,
LEMMA RequestTyped ==
    ASSUME TypeOK, NEW h \in Handlers, Request(h)
    PROVE  TypeOK'
<1> USE DEF TypeOK, Arrive, Goto, manager, world
<1>1. LatestTurn \in Turns /\ 0 \in Turns
  BY ControlAssumption DEF LatestTurn, Turns
<1>2. CASE GetStatus(h)
  BY <1>1, <1>2 DEF GetStatus, Steps, Ops
<1>3. CASE PostStart(h)
  BY <1>1, <1>3 DEF PostStart, Steps, Ops
<1>4. CASE PostStop(h)
  BY <1>1, <1>4 DEF PostStop, Steps, Ops
<1>5. CASE PostTurn(h)
  <2>1. turns + 1 \in Turns
    BY <1>5, ControlAssumption DEF PostTurn, Turns
  <2> QED
    BY <1>5, <2>1 DEF PostTurn, Steps, Ops
<1> QED
  BY <1>2, <1>3, <1>4, <1>5 DEF Request

\* so does one that ends,
LEMMA LeaveTyped ==
    ASSUME TypeOK, NEW h \in Handlers, Leave(h), UNCHANGED <<manager, world>>
    PROVE  TypeOK'
  BY ControlAssumption DEF TypeOK, Leave, manager, world, Steps, Turns

\* and every step in between.
LEMMA WorkTyped ==
    ASSUME TypeOK, NEW h \in Handlers, Work(h)
    PROVE  TypeOK'
<1> USE DEF TypeOK, Goto, manager, world, locals, Steps, Replies
<1>1. CASE Consume(h)
  BY <1>1 DEF Consume, Jump
<1>2. CASE ConsumeTake(h)
  BY <1>2 DEF ConsumeTake
<1>3. CASE StatusCheck(h)
  BY <1>3 DEF StatusCheck, Jump
<1>4. CASE StatusPid(h)
  BY <1>4 DEF StatusPid
<1>5. CASE Unlink(h)
  BY <1>5 DEF Unlink, Jump
<1>6. CASE ForgetCard(h)
  BY <1>6 DEF ForgetCard, AfterClear
<1>7. CASE FileCheck(h)
  BY <1>7 DEF FileCheck, Jump
<1>8. CASE FileWrite(h)
  BY <1>8 DEF FileWrite, Jump
<1>9. CASE StartCheck(h)
  BY <1>9 DEF StartCheck, Jump, Ops
<1>10. CASE Assign(h)
  BY <1>10 DEF Assign
<1>11. CASE UpdateCheck(h)
  BY <1>11 DEF UpdateCheck, Jump
<1>12. CASE UpdateCard(h)
  BY <1>12 DEF UpdateCard
<1>13. CASE UpdateReply(h)
  BY <1>13 DEF UpdateReply
<1>14. CASE StopCheck(h)
  BY <1>14 DEF StopCheck, Jump
<1>15. CASE Terminate(h)
  BY <1>15 DEF Terminate
<1>16. CASE Drop(h)
  BY <1>16 DEF Drop
<1>17. ASSUME NEW f \in Files, FileCreate(h, f) PROVE TypeOK'
  BY <1>17 DEF FileCreate
<1>18. ASSUME NEW p \in Procs, Popen(h, p) PROVE TypeOK'
  BY <1>18 DEF Popen
<1>19. CASE Reply(h)
  BY <1>19, LeaveTyped DEF Reply
<1>20. CASE AttributeFails(h)
  BY <1>20, LeaveTyped DEF AttributeFails
<1>21. CASE LaunchFails(h)
  BY <1>21, LeaveTyped DEF LaunchFails
<1>22. CASE ForgetFile(h)
  BY <1>22 DEF ForgetFile
<1>23. CASE TerminateNone(h)
  BY <1>23 DEF TerminateNone
<1> QED
  BY <1>1, <1>2, <1>3, <1>4, <1>5, <1>6, <1>7, <1>8, <1>9, <1>10, <1>11,
     <1>12, <1>13, <1>14, <1>15, <1>16, <1>17, <1>18, <1>19, <1>20, <1>21,
     <1>22, <1>23 DEF Work

\* Types are kept by every step.
LEMMA StepTyped == TypeOK /\ [Next]_vars => TypeOK'
<1> SUFFICES ASSUME TypeOK, [Next]_vars PROVE TypeOK'
  OBVIOUS
<1>1. ASSUME NEW h \in Handlers, Request(h) \/ Work(h) PROVE TypeOK'
  BY <1>1, RequestTyped, WorkTyped
<1>2. ASSUME NEW p \in Procs, OverlayExits(p) PROVE TypeOK'
  BY <1>2 DEF OverlayExits, TypeOK, manager, locals
<1>3. CASE UNCHANGED vars
  BY <1>3 DEF TypeOK, vars, manager, world, locals
<1> QED
  BY <1>1, <1>2, <1>3 DEF Next

-----------------------------------------------------------------------------
(* The invariant *)

\* What is held or about to be held has been launched, after its request began.
Launched ==
    /\ process # None => os[process] # "unborn"
    /\ \A h \in Handlers : pc[h] = "assign" =>
          pid[h] \in Procs /\ os[pid[h]] # "unborn" /\ pid[h] \notin deadBefore[h]

\* A process that has ended does not come back.
DeadStayDead == \A h \in Handlers : \A p \in deadBefore[h] : p \in Procs /\ os[p] = "exited"

\* Steps that only one route takes.
OnRoute ==
    \A h \in Handlers :
        /\ pc[h] \in {"stopCheck", "terminate", "drop"} => op[h] = "stop"
        /\ pc[h] = "startCheck" => op[h] = "start"

History == Launched /\ DeadStayDead /\ OnRoute

Exited(p) == p \in Procs /\ os[p] = "exited"

\* What a request that no other has overlapped knows at each of its steps.
LoneKnows(h) ==
    /\ pc[h] # "idle"
    /\ \A g \in Handlers \ {h} : pc[g] = "idle"
    /\ pc[h] = "consumeTake" => Exited(process)
    /\ pc[h] \in {"unlink", "forgetFile", "forgetCard"} =>
          process = None /\ (op[h] = "stop" \/ Exited(pid[h]))
    /\ pc[h] = "forgetCard" => cardFile = None
    /\ pc[h] = "replyExited" => Exited(pid[h])
    /\ pc[h] = "replyStop" => process = None /\ card = None /\ cardFile = None
    /\ pc[h] = "replyStopped" => process = None \/ Exited(process)
    /\ pc[h] \in {"statusPid", "updateCard", "updateReply"} => process \notin deadBefore[h]
    /\ pc[h] \in {"fileCheck", "fileCreate", "fileWrite"} =>
          op[h] = "start" \/ process \notin deadBefore[h]
    /\ pc[h] = "replyRunning" => pid[h] = process /\ pid[h] \notin deadBefore[h]

LoneInv == lone # None => LoneKnows(lone)

ControlInv == TypeOK /\ History /\ LoneInv

\* A manager that was just created.
LEMMA InitHeld == Init => History /\ LoneInv
  BY ControlAssumption DEF Init, History, Launched, DeadStayDead, OnRoute, LoneInv

\* A new request changes nothing of the history of processes.
LEMMA RequestHistory ==
    ASSUME TypeOK, History, NEW h \in Handlers, Request(h)
    PROVE  History'
<1> USE DEF TypeOK, History, Launched, DeadStayDead, OnRoute, Request, Arrive, Goto,
        manager, world
<1>1. Launched'
  BY DEF GetStatus, PostStart, PostStop, PostTurn
<1>2. DeadStayDead'
  BY DEF GetStatus, PostStart, PostStop, PostTurn
<1>3. OnRoute'
  BY DEF GetStatus, PostStart, PostStop, PostTurn
<1> QED
  BY <1>1, <1>2, <1>3

\* No step revives a process or leaves its route.
LEMMA WorkHistory ==
    ASSUME TypeOK, History, NEW h \in Handlers, Work(h)
    PROVE  History'
<1> USE ControlAssumption DEF TypeOK, Goto, manager, world, locals, History, Launched,
        DeadStayDead, OnRoute
<1>1. CASE Consume(h)
  BY <1>1 DEF Consume, Jump, Alive
<1>2. CASE ConsumeTake(h)
  BY <1>2 DEF ConsumeTake
<1>3. CASE StatusCheck(h)
  BY <1>3 DEF StatusCheck, Jump, IsRunning, Alive
<1>4. CASE StatusPid(h)
  BY <1>4 DEF StatusPid
<1>5. CASE Unlink(h)
  BY <1>5 DEF Unlink, Jump
<1>6. CASE ForgetCard(h)
  BY <1>6 DEF ForgetCard, AfterClear
<1>7. CASE FileCheck(h)
  BY <1>7 DEF FileCheck, Jump
<1>8. CASE FileWrite(h)
  BY <1>8 DEF FileWrite, Jump
<1>9. CASE StartCheck(h)
  BY <1>9 DEF StartCheck, Jump, IsRunning, Alive
<1>10. CASE Assign(h)
  BY <1>10 DEF Assign
<1>11. CASE UpdateCheck(h)
  BY <1>11 DEF UpdateCheck, Jump, IsRunning, Alive
<1>12. CASE UpdateCard(h)
  BY <1>12 DEF UpdateCard
<1>13. CASE UpdateReply(h)
  BY <1>13 DEF UpdateReply
<1>14. CASE StopCheck(h)
  BY <1>14 DEF StopCheck, Jump, IsRunning, Alive
<1>15. CASE Terminate(h)
  BY <1>15 DEF Terminate
<1>16. CASE Drop(h)
  BY <1>16 DEF Drop
<1>17. ASSUME NEW f \in Files, FileCreate(h, f) PROVE History'
  BY <1>17 DEF FileCreate
<1>18. ASSUME NEW p \in Procs, Popen(h, p) PROVE History'
  BY <1>18 DEF Popen
<1>19. CASE Reply(h)
  BY <1>19 DEF Reply, Leave, Replies
<1>20. CASE AttributeFails(h)
  BY <1>20 DEF AttributeFails, Leave, LooksTwice
<1>21. CASE LaunchFails(h)
  BY <1>21 DEF LaunchFails, Leave
<1>22. CASE ForgetFile(h)
  BY <1>22 DEF ForgetFile
<1>23. CASE TerminateNone(h)
  BY <1>23 DEF TerminateNone
<1> QED
  BY <1>1, <1>2, <1>3, <1>4, <1>5, <1>6, <1>7, <1>8, <1>9, <1>10, <1>11,
     <1>12, <1>13, <1>14, <1>15, <1>16, <1>17, <1>18, <1>19, <1>20, <1>21,
     <1>22, <1>23 DEF Work

\* A request that arrives while the lone one is served ends its being lone.
LEMMA RequestLone ==
    ASSUME TypeOK, LoneInv, NEW h \in Handlers, Request(h)
    PROVE  LoneInv'
<1>1. PICK first \in {"consume", "stopCheck", "updateCheck"} : pc' = [pc EXCEPT ![h] = first]
  BY DEF Request, GetStatus, PostStart, PostStop, PostTurn, Arrive, Goto
<1>2. lone' = IF Alone(h) THEN h ELSE None
  BY DEF Request, GetStatus, PostStart, PostStop, PostTurn, Arrive
<1>4. CASE Alone(h)
  BY <1>1, <1>2, <1>4 DEF TypeOK, LoneInv, LoneKnows, Alone
<1> QED
  BY <1>2, <1>4 DEF LoneInv

\* What a lone request has polled stays true until it acts on it.
LEMMA WorkLone ==
    ASSUME TypeOK, History, LoneInv, NEW h \in Handlers, Work(h)
    PROVE  LoneInv'
<1> USE ControlAssumption DEF TypeOK, Goto, manager, world, locals, History, Launched,
        DeadStayDead, OnRoute, LoneInv, LoneKnows, Exited
<1>1. CASE Consume(h)
  BY <1>1 DEF Consume, Jump, Alive
<1>2. CASE ConsumeTake(h)
  BY <1>2 DEF ConsumeTake
<1>3. CASE StatusCheck(h)
  BY <1>3 DEF StatusCheck, Jump, IsRunning, Alive
<1>4. CASE StatusPid(h)
  BY <1>4 DEF StatusPid
<1>5. CASE Unlink(h)
  BY <1>5 DEF Unlink, Jump
<1>6. CASE ForgetCard(h)
  BY <1>6 DEF ForgetCard, AfterClear
<1>7. CASE FileCheck(h)
  BY <1>7 DEF FileCheck, Jump
<1>8. CASE FileWrite(h)
  BY <1>8 DEF FileWrite, Jump
<1>9. CASE StartCheck(h)
  BY <1>9 DEF StartCheck, Jump, IsRunning, Alive
<1>10. CASE Assign(h)
  BY <1>10 DEF Assign
<1>11. CASE UpdateCheck(h)
  BY <1>11 DEF UpdateCheck, Jump, IsRunning, Alive
<1>12. CASE UpdateCard(h)
  BY <1>12 DEF UpdateCard
<1>13. CASE UpdateReply(h)
  BY <1>13 DEF UpdateReply
<1>14. CASE StopCheck(h)
  BY <1>14 DEF StopCheck, Jump, IsRunning, Alive
<1>15. CASE Terminate(h)
  BY <1>15 DEF Terminate
<1>16. CASE Drop(h)
  BY <1>16 DEF Drop
<1>17. ASSUME NEW f \in Files, FileCreate(h, f) PROVE LoneInv'
  BY <1>17 DEF FileCreate
<1>18. ASSUME NEW p \in Procs, Popen(h, p) PROVE LoneInv'
  BY <1>18 DEF Popen
<1>19. CASE Reply(h)
  BY <1>19 DEF Reply, Leave, Replies
<1>20. CASE AttributeFails(h)
  BY <1>20 DEF AttributeFails, Leave, LooksTwice
<1>21. CASE LaunchFails(h)
  BY <1>21 DEF LaunchFails, Leave
<1>22. CASE ForgetFile(h)
  BY <1>22 DEF ForgetFile
<1>23. CASE TerminateNone(h)
  BY <1>23 DEF TerminateNone
<1> QED
  BY <1>1, <1>2, <1>3, <1>4, <1>5, <1>6, <1>7, <1>8, <1>9, <1>10, <1>11,
     <1>12, <1>13, <1>14, <1>15, <1>16, <1>17, <1>18, <1>19, <1>20, <1>21,
     <1>22, <1>23 DEF Work

\* The overlay may end at any time: no lone request relies on its life.
LEMMA ExitHeld ==
    ASSUME ControlInv, NEW p \in Procs, OverlayExits(p)
    PROVE  History' /\ LoneInv'
<1> USE DEF ControlInv, TypeOK, OverlayExits, Alive, manager, locals
<1>1. History'
  BY DEF History, Launched, DeadStayDead, OnRoute
<1>2. LoneInv'
  BY DEF LoneInv, LoneKnows, Exited
<1> QED
  BY <1>1, <1>2

\* Types, history and the knowledge of lone requests hold together.
THEOREM ControlInductive == Spec => []ControlInv
<1>1. Init => ControlInv
  BY InitTyped, InitHeld DEF ControlInv
<1>2. ControlInv /\ [Next]_vars => ControlInv'
  <2> SUFFICES ASSUME ControlInv, [Next]_vars PROVE ControlInv'
    OBVIOUS
  <2>1. TypeOK'
    BY StepTyped DEF ControlInv
  <2>2. ASSUME NEW h \in Handlers, Request(h) PROVE History' /\ LoneInv'
    BY <2>2, RequestHistory, RequestLone DEF ControlInv
  <2>3. ASSUME NEW h \in Handlers, Work(h) PROVE History' /\ LoneInv'
    BY <2>3, WorkHistory, WorkLone DEF ControlInv
  <2>4. CASE UNCHANGED vars
    <3>1. History'
      BY <2>4 DEF ControlInv, History, Launched, DeadStayDead, OnRoute, vars, manager,
                  world, locals
    <3>2. /\ process' = process /\ card' = card /\ cardFile' = cardFile /\ os' = os
          /\ pc' = pc /\ op' = op /\ pid' = pid /\ deadBefore' = deadBefore /\ lone' = lone
      BY <2>4 DEF vars, manager, world, locals
    <3>3. LoneInv'
      BY <3>2 DEF ControlInv, LoneInv, LoneKnows, Exited
    <3> QED
      BY <2>1, <3>1, <3>3 DEF ControlInv
  <2> QED
    BY <2>1, <2>2, <2>3, <2>4, ExitHeld DEF Next, ControlInv
<1> QED
  BY <1>1, <1>2, PTL DEF Spec

\* The attributes and locals of the manager keep their types in every interleaving.
THEOREM ControlTypeCorrect == Spec => []TypeOK
<1>1. ControlInv => TypeOK
  BY DEF ControlInv
<1> QED
  BY <1>1, ControlInductive, PTL

\* stop(): a stop that no request overlaps leaves the manager as it was created,
\* whatever the requests before it have raced to.
THEOREM LoneStopIsClean == Spec => []LoneStopResets
<1>1. ControlInv => LoneStopResets
  BY ControlAssumption DEF ControlInv, LoneInv, LoneKnows, LoneStopResets
<1> QED
  BY <1>1, ControlInductive, PTL

\* status(), start() and update_agentic_card(): the answer to a request that none
\* overlaps is about the overlay that is held.
THEOREM LoneRepliesTrue == Spec => []LoneRepliesAreTrue
<1>1. ControlInv => LoneRepliesAreTrue
  BY ControlAssumption DEF ControlInv, LoneInv, LoneKnows, Exited,
     LoneRepliesAreTrue, IsRunning, Alive
<1> QED
  BY <1>1, ControlInductive, PTL

-----------------------------------------------------------------------------
(* One request at a time *)

\* No two requests overlap; the overlay may end whenever it likes.
OneRequest == \A g, h \in Handlers : pc[g] # "idle" /\ pc[h] # "idle" => g = h

\* Every request is the lone one that LoneKnows speaks of.
LoneServed == \A h \in Handlers : pc[h] # "idle" => lone = h

\* The overlay that is held was launched with the card file that is held.
CardHeld ==
    process # None =>
        cardFile # None /\ shows[process] = cardFile /\ disk[cardFile] = "written"

\* No card file is out of reach of stop.
OneCard == \A f \in Files : disk[f] \in {"empty", "written"} => cardFile = f

WritesCard == {"fileCheck", "fileCreate", "fileWrite"}

\* A turn has been appended whose card has yet to be written.
Updating ==
    \E h \in Handlers :
        op[h] = "turn" /\ pc[h] \in {"updateCheck", "updateCard"} \cup WritesCard

CardLatest == IsRunning => Updating \/ (text[cardFile] = turns /\ card = turns)

\* What a request knows at each of its steps when no other overlaps it.
RequestKnows ==
    \A h \in Handlers :
        /\ pc[h] # "idle" /\ op[h] \in {"start", "turn"} => turn[h] = turns
        /\ pc[h] \in {"updateCheck", "updateCard"} => op[h] = "turn"
        /\ pc[h] \in WritesCard => op[h] \in {"start", "turn"}
        /\ pc[h] \in WritesCard /\ op[h] = "turn" => card = turn[h]
        /\ op[h] = "start" /\ pc[h] \in WritesCard \cup {"popen", "assign"} => ~IsRunning
        /\ pc[h] = "fileCreate" => cardFile = None
        /\ pc[h] \in {"popen", "assign"} =>
              /\ op[h] = "start"
              /\ path[h] = cardFile
              /\ cardFile # None
              /\ disk[cardFile] = "written"
              /\ text[cardFile] = turn[h]
        /\ pc[h] = "assign" => shows[pid[h]] = cardFile
        /\ pc[h] = "drop" => process = None \/ os[process] # "running"
        /\ pc[h] \in {"forgetFile", "forgetCard"} =>
              \A f \in Files : disk[f] \in {"unmade", "gone"}

ServedInv ==
    /\ LoneServed
    /\ NoOrphanOverlay
    /\ CardHeld
    /\ OneCard
    /\ CardLatest
    /\ RequestKnows

\* A request that begins finds the manager at rest.
LEMMA RequestServed ==
    ASSUME ControlInv, ServedInv, OneRequest, OneRequest', NEW h \in Handlers, Request(h)
    PROVE  ServedInv'
<1> USE DEF ControlInv, TypeOK, Arrive, Goto, manager, world, ServedInv, LoneServed,
        NoOrphanOverlay, CardHeld, OneCard, WritesCard, Updating, CardLatest, RequestKnows,
        IsRunning, Alive
<1>0. /\ pc[h] = "idle" /\ pc'[h] # "idle"
      /\ \A g \in Handlers \ {h} : pc[g] = "idle" /\ pc'[g] = pc[g]
  BY DEF OneRequest, Request, GetStatus, PostStart, PostStop, PostTurn
<1>1. CASE GetStatus(h)
  BY <1>0, <1>1 DEF GetStatus, Alone
<1>2. CASE PostStart(h)
  BY <1>0, <1>2 DEF PostStart, Alone, LatestTurn
<1>3. CASE PostStop(h)
  BY <1>0, <1>3 DEF PostStop, Alone
<1>4. CASE PostTurn(h)
  <2>1. turns' = turns + 1 /\ op' = [op EXCEPT ![h] = "turn"]
        /\ turn' = [turn EXCEPT ![h] = turns + 1]
        /\ pc' = [pc EXCEPT ![h] = "updateCheck"] /\ lone' = h
        /\ UNCHANGED <<process, card, cardFile, os, shows, disk, text, path, pid>>
    BY <1>0, <1>4 DEF PostTurn, Alone
  <2>2. CardLatest'
    BY <1>0, <2>1
  <2>3. RequestKnows'
    BY <1>0, <2>1
  <2>4. NoOrphanOverlay' /\ CardHeld' /\ OneCard' /\ LoneServed'
    BY <1>0, <2>1
  <2> QED
    BY <2>2, <2>3, <2>4
<1> QED
  BY <1>1, <1>2, <1>3, <1>4, Request(h) DEF Request

\* Every step of the one request keeps the overlay and its card within reach.
LEMMA WorkServed ==
    ASSUME ControlInv, ServedInv, OneRequest, NEW h \in Handlers, Work(h)
    PROVE  ServedInv'
<1> USE ControlAssumption DEF TypeOK, Goto, manager, world, locals, ServedInv, LoneServed,
        NoOrphanOverlay, CardHeld, OneCard, WritesCard, Updating, CardLatest, RequestKnows,
        IsRunning, Alive, LoneKnows, Exited, History, Launched, OnRoute
<1>0. TypeOK /\ History /\ LoneKnows(h) /\ pc[h] # "idle"
      /\ \A g \in Handlers \ {h} : pc[g] = "idle"
  <2>1. pc[h] # "idle"
    BY DEF Work, Consume, ConsumeTake, StatusCheck, StatusPid, Unlink, ForgetFile, ForgetCard,
       FileCheck, FileCreate, FileWrite, StartCheck, Popen, Assign, UpdateCheck, UpdateCard,
       UpdateReply, StopCheck, Terminate, TerminateNone, Drop, Reply, Replies, AttributeFails, LaunchFails,
       Jump, LooksTwice
  <2>2. lone = h /\ lone # None
    BY <2>1
  <2> QED
    BY <2>1, <2>2 DEF ControlInv, LoneInv, LoneKnows
<1>1. CASE Consume(h)
  BY <1>0, <1>1 DEF Consume, Jump
<1>2. CASE ConsumeTake(h)
  BY <1>0, <1>2 DEF ConsumeTake
<1>3. CASE StatusCheck(h)
  BY <1>0, <1>3 DEF StatusCheck, Jump
<1>4. CASE StatusPid(h)
  BY <1>0, <1>4 DEF StatusPid
<1>5. CASE Unlink(h)
  BY <1>0, <1>5 DEF Unlink, Jump
<1>6. CASE ForgetCard(h)
  BY <1>0, <1>6 DEF ForgetCard, AfterClear
<1>7. CASE FileCheck(h)
  BY <1>0, <1>7 DEF FileCheck, Jump
<1>8. CASE FileWrite(h)
  BY <1>0, <1>8 DEF FileWrite, Jump
<1>9. CASE StartCheck(h)
  BY <1>0, <1>9 DEF StartCheck, Jump
<1>10. CASE Assign(h)
  BY <1>0, <1>10 DEF Assign
<1>11. CASE UpdateCheck(h)
  BY <1>0, <1>11 DEF UpdateCheck, Jump
<1>12. CASE UpdateCard(h)
  BY <1>0, <1>12 DEF UpdateCard
<1>13. CASE UpdateReply(h)
  BY <1>0, <1>13 DEF UpdateReply
<1>14. CASE StopCheck(h)
  BY <1>0, <1>14 DEF StopCheck, Jump
<1>15. CASE Terminate(h)
  BY <1>0, <1>15 DEF Terminate
<1>16. CASE Drop(h)
  BY <1>0, <1>16 DEF Drop
<1>17. ASSUME NEW f \in Files, FileCreate(h, f) PROVE ServedInv'
  BY <1>0, <1>17 DEF FileCreate
<1>18. ASSUME NEW p \in Procs, Popen(h, p) PROVE ServedInv'
  BY <1>0, <1>18 DEF Popen
<1>19. CASE Reply(h)
  BY <1>0, <1>19 DEF Reply, Leave, Replies
<1>20. CASE AttributeFails(h)
  BY <1>0, <1>20 DEF AttributeFails, Leave, LooksTwice
<1>21. CASE LaunchFails(h)
  BY <1>0, <1>21 DEF LaunchFails, Leave
<1>22. CASE ForgetFile(h)
  BY <1>0, <1>22 DEF ForgetFile
<1>23. CASE TerminateNone(h)
  BY <1>0, <1>23 DEF TerminateNone
<1> QED
  BY <1>1, <1>2, <1>3, <1>4, <1>5, <1>6, <1>7, <1>8, <1>9, <1>10, <1>11,
     <1>12, <1>13, <1>14, <1>15, <1>16, <1>17, <1>18, <1>19, <1>20, <1>21,
     <1>22, <1>23, Work(h) DEF Work

\* An overlay that ends on its own takes nothing out of reach.
LEMMA ExitServed ==
    ASSUME ControlInv, ServedInv, NEW p \in Procs, OverlayExits(p)
    PROVE  ServedInv'
BY DEF ControlInv, TypeOK, OverlayExits, manager, locals, ServedInv, LoneServed,
       NoOrphanOverlay, CardHeld, OneCard, WritesCard, Updating, CardLatest, RequestKnows,
       IsRunning, Alive

\* As long as no two requests overlap, the manager knows its overlay and its card,
\* whatever fails to launch and whenever the overlay ends.
THEOREM ServedInductive == Spec /\ []OneRequest => []ServedInv
<1>1. Init => ServedInv
  BY DEF Init, ServedInv, LoneServed, NoOrphanOverlay, CardHeld, OneCard, CardLatest,
         WritesCard, RequestKnows, IsRunning, Alive
<1>2. ControlInv /\ ServedInv /\ OneRequest /\ OneRequest' /\ [Next]_vars => ServedInv'
  <2> SUFFICES ASSUME ControlInv, ServedInv, OneRequest, OneRequest', [Next]_vars
               PROVE  ServedInv'
    OBVIOUS
  <2>1. ASSUME NEW h \in Handlers, Request(h) \/ Work(h) PROVE ServedInv'
    BY <2>1, RequestServed, WorkServed
  <2>2. CASE UNCHANGED vars
    BY <2>2 DEF vars, manager, world, locals, ServedInv, LoneServed, NoOrphanOverlay, CardHeld,
       OneCard, WritesCard, Updating, CardLatest, RequestKnows, IsRunning, Alive
  <2> QED
    BY <2>1, <2>2, ExitServed DEF Next
<1> QED
  BY <1>1, <1>2, ControlInductive, PTL DEF Spec

\* start(): no overlay is launched that stop() could not reach.
THEOREM ServedNoOrphan == Spec /\ []OneRequest => []NoOrphanOverlay
<1>1. ServedInv => NoOrphanOverlay
  BY DEF ServedInv
<1> QED
  BY <1>1, ServedInductive, PTL

\* stop(): when it answers, every overlay has been told to end.
THEOREM ServedStopEnds == Spec /\ []OneRequest => []StopEndsOverlays
<1>1. ControlInv /\ ServedInv => StopEndsOverlays
  BY ControlAssumption DEF ControlInv, LoneInv, LoneKnows, ServedInv, LoneServed,
     NoOrphanOverlay, StopEndsOverlays, Alone
<1> QED
  BY <1>1, ControlInductive, ServedInductive, PTL

\* stop(): when it answers, no card file is left on the disk.
THEOREM ServedStopRemoves == Spec /\ []OneRequest => []StopRemovesCards
<1>1. ControlInv /\ ServedInv => StopRemovesCards
  BY ControlAssumption DEF ControlInv, TypeOK, LoneInv, LoneKnows, ServedInv,
     LoneServed, OneCard, StopRemovesCards
<1> QED
  BY <1>1, ControlInductive, ServedInductive, PTL

\* update_agentic_card() and start(): between requests a live overlay, its file and
\* the receipt are all about the latest turn.
THEOREM ServedShowsLatest == Spec /\ []OneRequest => []OverlayShowsLatestTurn
<1>1. ServedInv => OverlayShowsLatestTurn
  BY ControlAssumption DEF ServedInv, CardHeld, CardLatest, Updating, WritesCard,
     IsRunning, Alive, AtRest, OverlayShowsLatestTurn
<1> QED
  BY <1>1, ServedInductive, PTL

\* status(): what it calls running had not ended when its request began.
THEOREM ServedRepliesFresh == Spec /\ []OneRequest => []RunningRepliesAreFresh
<1>1. ControlInv /\ ServedInv => RunningRepliesAreFresh
  BY ControlAssumption DEF ControlInv, LoneInv, LoneKnows, ServedInv, LoneServed,
     RunningRepliesAreFresh
<1> QED
  BY <1>1, ControlInductive, ServedInductive, PTL

\* The bridge with one request thread: everything above, of every number of
\* processes, files and turns.
THEOREM SequentialBridge ==
    ASSUME NEW t, Handlers = {t}
    PROVE  Spec => [](/\ NoOrphanOverlay
                     /\ StopEndsOverlays
                     /\ StopRemovesCards
                     /\ OverlayShowsLatestTurn
                     /\ RunningRepliesAreFresh)
<1>1. OneRequest
  BY DEF OneRequest
<1>2. []OneRequest
  BY <1>1, PTL
<1> QED
  BY <1>2, ServedNoOrphan, ServedStopEnds, ServedStopRemoves, ServedShowsLatest,
     ServedRepliesFresh, PTL
=============================================================================
