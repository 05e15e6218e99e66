----------------------------- MODULE HookIpc_proofs -----------------------------
(***************************************************************************)
(* Theorems about HookIpc, for any number of hooks and permits and any     *)
(* deadlines that are in the order of the code's.                          *)
(***************************************************************************)
EXTENDS HookIpc, FiniteSetTheorems, TLAPS

-----------------------------------------------------------------------------
(* Type correctness *)

(* bounded_response_timeout is a natural number inside the client's read   *)
(* deadline, whatever was configured.                                      *)
LEMMA BoundedResponseBound ==
    ASSUME NEW secs \in Configured
    PROVE  BoundedResponse(secs) \in 0 .. HookRead - 1
<1>1. secs \in Nat /\ HookRead \in Nat \ {0}
  BY TimeoutsAssumption
<1>. QED
  BY <1>1 DEF BoundedResponse

LEMMA LeaveTyped ==
    ASSUME TypeOK, NEW h \in Hooks, NEW v \in Ends, Leave(h, v)
    PROVE  /\ client' \in [Hooks -> {"idle", "done"} \cup Calling]
           /\ clientTimer' \in [Hooks -> Nat]
           /\ verdict' \in [Hooks -> {"none"} \cup Ends]
BY DEF TypeOK, Leave

LEMMA LeaveBehindTyped ==
    ASSUME TypeOK, NEW h \in Hooks, LeaveBehind(h)
    PROVE  frame' \in [Hooks -> {"none", "bad", "call"}]
BY DEF TypeOK, LeaveBehind

LEMMA ServeTyped ==
    ASSUME TypeOK, NEW h \in Hooks, NEW s \in {"closed"} \cup Timed, NEW n \in Nat, Serve(h, s, n)
    PROVE  /\ task' \in [Hooks -> {"none", "backlog", "closed"} \cup Timed]
           /\ taskTimer' \in [Hooks -> Nat]
BY DEF TypeOK, Serve

LEMMA AnswerTyped ==
    ASSUME TypeOK, NEW h \in Hooks, NEW d \in Decisions, Answer(h, d)
    PROVE  /\ task' \in [Hooks -> {"none", "backlog", "closed"} \cup Timed]
           /\ taskTimer' \in [Hooks -> Nat]
           /\ reply' \in [Hooks -> {"none"} \cup Decisions]
<1>1. "writing" \in Timed /\ BridgeWrite \in Nat
  BY TimeoutsAssumption DEF Timed
<1>2. Serve(h, "writing", BridgeWrite) /\ reply' = [reply EXCEPT ![h] = d]
  BY DEF Answer
<1>3. reply' \in [Hooks -> {"none"} \cup Decisions]
  BY <1>2 DEF TypeOK
<1>. QED
  BY <1>1, <1>2, <1>3, ServeTyped

(* An action that leaves the client alone keeps its part of the type, and  *)
(* so for the other parts.                                                 *)
LEMMA BridgeStepTyped ==
    ASSUME TypeOK, UNCHANGED <<bridgeVars, clientVars, age>>,
           task' \in [Hooks -> {"none", "backlog", "closed"} \cup Timed],
           taskTimer' \in [Hooks -> Nat],
           reply' \in [Hooks -> {"none"} \cup Decisions],
           wire' \in [Hooks -> {"none", "cut"} \cup Decisions]
    PROVE  TypeOK'
BY DEF TypeOK, bridgeVars, clientVars

LEMMA ClientLeavesTyped ==
    ASSUME TypeOK, NEW h \in Hooks, NEW v \in Ends, Leave(h, v),
           LeaveBehind(h) \/ UNCHANGED frame, UNCHANGED <<bridgeVars, age, taskVars>>
    PROVE  TypeOK'
<1>1. frame' \in [Hooks -> {"none", "bad", "call"}]
  BY LeaveBehindTyped DEF TypeOK
<1>. QED
  BY <1>1, LeaveTyped DEF TypeOK, bridgeVars, taskVars

LEMMA JudgedIsADecision == \A w : Judged(w) \in Decisions
BY DEF Judged, Decisions

LEMMA DecisionsEnd == Decisions \subseteq Ends
BY DEF Decisions, Ends

LEMMA TypeInit == Init => TypeOK
<1>1. ASSUME Init PROVE limit \in Nat
  <2>1. PICK secs \in Configured : limit = BoundedResponse(secs)
    BY <1>1 DEF Init
  <2>. QED
    BY <2>1, BoundedResponseBound, TimeoutsAssumption
<1>. QED
  BY <1>1 DEF Init, TypeOK

LEMMA ClientStepTyped ==
    ASSUME TypeOK, NEW h \in Hooks, ClientStep(h)
    PROVE  TypeOK'
<1>. "late" \in Ends /\ "deny" \in Ends
  BY DEF Ends
<1>1. CASE \E f \in {"call", "bad"} : Send(h, f)
  BY <1>1, TimeoutsAssumption DEF Send, TypeOK, Calling, bridgeVars, taskVars
<1>2. CASE SendFails(h)
  BY <1>2, ClientLeavesTyped DEF SendFails
<1>3. CASE Receive(h)
  <2>1. (IF Readable(h) THEN Judged(wire[h]) ELSE "late") \in Ends
    BY JudgedIsADecision, DecisionsEnd
  <2>2. /\ UNCHANGED frame /\ UNCHANGED <<bridgeVars, age, taskVars>>
        /\ Leave(h, IF Readable(h) THEN Judged(wire[h]) ELSE "late")
    BY <1>3 DEF Receive
  <2>. QED
    BY <2>1, <2>2, ClientLeavesTyped
<1>. QED
  BY <1>1, <1>2, <1>3 DEF ClientStep

LEMMA TaskStepTyped ==
    ASSUME TypeOK, NEW h \in Hooks, TaskStep(h)
    PROVE  TypeOK'
<1>. /\ {"reading", "deciding", "writing", "refusing"} = Timed
     /\ BridgeRead \in Nat /\ BridgeWrite \in Nat /\ limit \in Nat
     /\ reply \in [Hooks -> {"none"} \cup Decisions]
     /\ wire \in [Hooks -> {"none", "cut"} \cup Decisions]
     /\ "deny" \in Decisions
  BY TimeoutsAssumption DEF Timed, TypeOK, Decisions
<1>1. CASE Accept(h)
  <2>1. Serve(h, "reading", BridgeRead) /\ UNCHANGED <<bridgeVars, clientVars, age, reply, wire>>
    BY <1>1 DEF Accept
  <2>. QED
    BY <2>1, ServeTyped, BridgeStepTyped
<1>2. CASE AcceptSaturated(h)
  <2>1. /\ UNCHANGED <<bridgeVars, clientVars, age, wire>>
        /\ \/ Serve(h, "refusing", BridgeWrite) /\ reply' = [reply EXCEPT ![h] = "deny"]
           \/ Serve(h, "closed", 0) /\ UNCHANGED reply
    BY <1>2 DEF AcceptSaturated
  <2>2. reply' \in [Hooks -> {"none"} \cup Decisions]
    BY <2>1
  <2>3. /\ task' \in [Hooks -> {"none", "backlog", "closed"} \cup Timed]
        /\ taskTimer' \in [Hooks -> Nat]
    BY <2>1, ServeTyped
  <2>. QED
    BY <2>1, <2>2, <2>3, BridgeStepTyped
<1>3. CASE RejectFrame(h)
  BY <1>3, AnswerTyped, BridgeStepTyped DEF RejectFrame
<1>4. CASE \E d \in Decisions : DecideAlone(h, d)
  BY <1>4, AnswerTyped, BridgeStepTyped DEF DecideAlone
<1>5. CASE AskHost(h)
  <2>1. Serve(h, "deciding", limit) /\ UNCHANGED <<bridgeVars, clientVars, age, reply, wire>>
    BY <1>5 DEF AskHost
  <2>. QED
    BY <2>1, ServeTyped, BridgeStepTyped
<1>6. CASE HostTimesOut(h)
  BY <1>6, AnswerTyped, BridgeStepTyped DEF HostTimesOut
<1>7. CASE Write(h)
  <2>1. Serve(h, "closed", 0) /\ UNCHANGED <<bridgeVars, clientVars, age, reply>>
    BY <1>7 DEF Write, Close
  <2>2. wire' = [wire EXCEPT ![h] = reply[h]] /\ reply[h] \in {"none", "cut"} \cup Decisions
    BY <1>7 DEF Write
  <2>3. wire' \in [Hooks -> {"none", "cut"} \cup Decisions]
    BY <2>2
  <2>. QED
    BY <2>1, <2>3, ServeTyped, BridgeStepTyped
<1>8. CASE WriteTimesOut(h)
  <2>1. Serve(h, "closed", 0) /\ UNCHANGED <<bridgeVars, clientVars, age, reply>>
    BY <1>8 DEF WriteTimesOut, Close
  <2>2. wire' \in [Hooks -> {"none", "cut"} \cup Decisions]
    BY <1>8 DEF WriteTimesOut
  <2>. QED
    BY <2>1, <2>2, ServeTyped, BridgeStepTyped
<1>. QED
  BY <1>1, <1>2, <1>3, <1>4, <1>5, <1>6, <1>7, <1>8 DEF TaskStep

LEMMA OutsideTyped ==
    ASSUME TypeOK, NEW h \in Hooks, Outside(h)
    PROVE  TypeOK'
<1>. "killed" \in Ends /\ "aborted" \in Ends /\ "deny" \in Ends
  BY DEF Ends
<1>1. CASE Connect(h)
  BY <1>1, TimeoutsAssumption DEF Connect, TypeOK, Calling, bridgeVars
<1>2. CASE ConnectFails(h)
  <2>1. UNCHANGED frame /\ UNCHANGED <<bridgeVars, age, taskVars>> /\ Leave(h, "deny")
    BY <1>2 DEF ConnectFails
  <2>. QED
    BY <2>1, ClientLeavesTyped
<1>3. CASE Killed(h)
  BY <1>3, ClientLeavesTyped DEF Killed
<1>4. CASE \E d \in Decisions : HostAnswers(h, d)
  <2>1. wire \in [Hooks -> {"none", "cut"} \cup Decisions]
    BY DEF TypeOK
  <2>. QED
    BY <1>4, <2>1, AnswerTyped, BridgeStepTyped DEF HostAnswers
<1>. QED
  BY <1>1, <1>2, <1>3, <1>4 DEF Outside

(* A second passes only when every timer that runs has one left.           *)
LEMMA TickTyped ==
    ASSUME TypeOK, Tick
    PROVE  TypeOK'
<1>1. \A h \in Hooks : /\ client[h] \in Calling => clientTimer[h] # 0
                       /\ task[h] \in Timed => taskTimer[h] # 0
  BY DEF Tick, Due
<1>2. age' \in [Hooks -> Nat]
  BY DEF TypeOK, Tick
<1>3. clientTimer' \in [Hooks -> Nat] /\ taskTimer' \in [Hooks -> Nat]
  BY <1>1 DEF TypeOK, Tick
<1>. QED
  BY <1>2, <1>3 DEF TypeOK, Tick, bridgeVars

LEMMA StopListeningTyped ==
    ASSUME TypeOK, StopListening
    PROVE  TypeOK'
BY DEF TypeOK, StopListening, clientVars

LEMMA AdapterExitsTyped ==
    ASSUME TypeOK, AdapterExits
    PROVE  TypeOK'
BY DEF TypeOK, AdapterExits, clientVars

LEMMA TypeNext == TypeOK /\ [Next]_vars => TypeOK'
<1>. SUFFICES ASSUME TypeOK, [Next]_vars PROVE TypeOK'
  OBVIOUS
<1>1. CASE \E h \in Hooks : ClientStep(h) \/ TaskStep(h) \/ Outside(h)
  BY <1>1, ClientStepTyped, TaskStepTyped, OutsideTyped
<1>2. CASE UNCHANGED vars
  BY <1>2 DEF TypeOK, vars, bridgeVars, clientVars, taskVars
<1>3. CASE Over
  BY <1>2, <1>3 DEF Over
<1>. QED
  BY <1>1, <1>2, <1>3, TickTyped, StopListeningTyped, AdapterExitsTyped DEF Next

(* Both ends, their timers and the line between them keep their types: no  *)
(* timer runs below zero.                                                  *)
THEOREM TypeCorrect == Spec => []TypeOK
<1>. QED
  BY TypeInit, TypeNext, PTL DEF Spec

-----------------------------------------------------------------------------
(* The deadlines *)

(* Where a hook process can be, and what is left of its deadlines there.   *)
ClientInv(h) ==
    /\ client[h] = "idle" => task[h] = "none" /\ frame[h] = "none" /\ age[h] = 0
    /\ client[h] = "sending" =>
         task[h] # "none" /\ frame[h] = "none" /\ age[h] + clientTimer[h] <= HookWrite
    /\ client[h] = "waiting" =>
         /\ task[h] # "none" /\ frame[h] # "none"
         /\ clientTimer[h] > 0 /\ age[h] < AgyTimeout
         /\ task[h] \in {"backlog", "reading"} => clientTimer[h] = HookRead
    /\ verdict[h] \notin {"late", "aborted"}

(* The same of the task that serves it.  The client that waits for the     *)
(* host has more time left than the task.                                  *)
TaskInv(h) ==
    /\ task[h] = "backlog" => age[h] = 0
    /\ task[h] = "reading" => age[h] + taskTimer[h] <= BridgeRead
    /\ task[h] = "deciding" =>
         /\ frame[h] # "none"
         /\ age[h] + taskTimer[h] <= BridgeRead + limit
         /\ client[h] = "waiting" => taskTimer[h] < clientTimer[h]
    /\ task[h] = "writing" => age[h] + taskTimer[h] <= BridgeRead + limit + BridgeWrite
    /\ task[h] = "refusing" => age[h] + taskTimer[h] <= BridgeWrite

Deadlines ==
    /\ limit < HookRead
    /\ \A h \in Hooks : ClientInv(h) /\ TaskInv(h)

(* What the step of one hook leaves alone of another keeps the invariant.  *)
LEMMA OthersKept ==
    ASSUME Deadlines, NEW h \in Hooks,
           UNCHANGED limit,
           \A g \in Hooks \ {h} :
             /\ client'[g] = client[g] /\ frame'[g] = frame[g]
             /\ clientTimer'[g] = clientTimer[g] /\ verdict'[g] = verdict[g]
             /\ age'[g] = age[g] /\ task'[g] = task[g] /\ taskTimer'[g] = taskTimer[g],
           ClientInv(h)' /\ TaskInv(h)'
    PROVE  Deadlines'
BY DEF Deadlines, ClientInv, TaskInv

LEMMA DeadlinesInit == Init => Deadlines
<1>. SUFFICES ASSUME Init PROVE Deadlines
  OBVIOUS
<1>1. limit < HookRead
  <2>1. PICK secs \in Configured : limit = BoundedResponse(secs)
    BY DEF Init
  <2>. QED
    BY <2>1, BoundedResponseBound, TimeoutsAssumption
<1>2. \A h \in Hooks : ClientInv(h) /\ TaskInv(h)
  BY DEF Init, ClientInv, TaskInv
<1>. QED
  BY <1>1, <1>2 DEF Deadlines

(* A client that leaves takes nothing of the task's with it.               *)
LEMMA LeaveKeepsDeadlines ==
    ASSUME TypeOK, Deadlines, NEW h \in Hooks, NEW v \in Ends \ {"late", "aborted"}, Leave(h, v),
           LeaveBehind(h) \/ UNCHANGED frame, UNCHANGED <<bridgeVars, age, taskVars>>
    PROVE  Deadlines'
<1>1. frame[h] # "none" => frame'[h] = frame[h]
  BY DEF LeaveBehind
<1>2. \A g \in Hooks \ {h} : frame'[g] = frame[g]
  BY DEF LeaveBehind, TypeOK
<1>3. client'[h] = "done" /\ verdict'[h] = v
  BY DEF Leave, TypeOK
<1>4. ClientInv(h)' /\ TaskInv(h)'
  BY <1>1, <1>3 DEF Deadlines, ClientInv, TaskInv, bridgeVars, taskVars
<1>. QED
  BY <1>2, <1>4, OthersKept DEF Leave, TypeOK, bridgeVars, taskVars

LEMMA ClientStepKeepsDeadlines ==
    ASSUME TypeOK, Deadlines, NEW h \in Hooks, ClientStep(h)
    PROVE  Deadlines'
<1>. "deny" \in Ends \ {"late", "aborted"}
  BY DEF Ends
<1>. ClientInv(h) /\ TaskInv(h)
  BY DEF Deadlines
<1>1. CASE \E f \in {"call", "bad"} : Send(h, f)
  <2>1. PICK f \in {"call", "bad"} : Send(h, f)
    BY <1>1
  <2>2. /\ client[h] = "sending" /\ client'[h] = "waiting" /\ frame'[h] # "none"
        /\ clientTimer'[h] = HookRead
        /\ UNCHANGED <<limit, verdict, age, task, taskTimer>>
    BY <2>1 DEF Send, TypeOK, bridgeVars, taskVars
  <2>3. age[h] < AgyTimeout
    <3>1. age[h] + clientTimer[h] <= HookWrite
      BY <2>2 DEF ClientInv
    <3>. QED
      BY <3>1, TimeoutsAssumption DEF TypeOK
  <2>4. task[h] # "deciding" /\ task[h] # "none"
    BY <2>2 DEF ClientInv, TaskInv
  <2>5. ClientInv(h)'
    BY <2>2, <2>3, <2>4, TimeoutsAssumption DEF ClientInv
  <2>6. TaskInv(h)'
    BY <2>2, <2>4 DEF TaskInv
  <2>. QED
    BY <2>1, <2>2, <2>5, <2>6, OthersKept DEF Send, TypeOK
<1>2. CASE SendFails(h)
  BY <1>2, LeaveKeepsDeadlines DEF SendFails
<1>3. CASE Receive(h)
  <2>1. Readable(h)
    BY <1>3 DEF Receive, ClientInv
  <2>2. Judged(wire[h]) \in Ends \ {"late", "aborted"}
    BY JudgedIsADecision DEF Decisions, Ends
  <2>3. UNCHANGED frame /\ UNCHANGED <<bridgeVars, age, taskVars>> /\ Leave(h, Judged(wire[h]))
    BY <1>3, <2>1 DEF Receive
  <2>. QED
    BY <2>2, <2>3, LeaveKeepsDeadlines
<1>. QED
  BY <1>1, <1>2, <1>3 DEF ClientStep

(* A task that moves on: what is left to show is its new deadline, and     *)
(* that a client waiting for the host has more time.                       *)
LEMMA ServeKeepsDeadlines ==
    ASSUME TypeOK, Deadlines, NEW h \in Hooks, NEW s, NEW n \in Nat, Serve(h, s, n),
           UNCHANGED <<limit, client, frame, clientTimer, verdict, age>>,
           s \notin {"none", "backlog"}, task[h] # "none",
           s = "reading" => task[h] = "backlog",
           TaskInv(h)'
    PROVE  Deadlines'
<1>1. task'[h] = s
  BY DEF Serve, TypeOK
<1>2. ClientInv(h)'
  BY <1>1 DEF Deadlines, ClientInv
<1>. QED
  BY <1>2, OthersKept DEF Serve, TypeOK

(* Answering in time: the deadline of writing counts from the last one of  *)
(* reading or deciding.                                                    *)
LEMMA AnswerKeepsDeadlines ==
    ASSUME TypeOK, Deadlines, NEW h \in Hooks, NEW d, Answer(h, d),
           UNCHANGED <<limit, client, frame, clientTimer, verdict, age>>,
           task[h] \in {"reading", "deciding"}
    PROVE  Deadlines'
<1>1. Serve(h, "writing", BridgeWrite)
  BY DEF Answer
<1>2. task'[h] = "writing" /\ taskTimer'[h] = BridgeWrite
  BY <1>1 DEF Serve, TypeOK
<1>3. age[h] <= BridgeRead + limit
  BY TimeoutsAssumption DEF Deadlines, TaskInv, TypeOK
<1>4. TaskInv(h)'
  BY <1>2, <1>3, TimeoutsAssumption DEF TaskInv, TypeOK
<1>. QED
  BY <1>1, <1>4, ServeKeepsDeadlines, TimeoutsAssumption

LEMMA CloseKeepsDeadlines ==
    ASSUME TypeOK, Deadlines, NEW h \in Hooks, Serve(h, "closed", 0),
           UNCHANGED <<limit, client, frame, clientTimer, verdict, age>>,
           task[h] # "none"
    PROVE  Deadlines'
<1>1. task'[h] = "closed"
  BY DEF Serve, TypeOK
<1>2. TaskInv(h)'
  BY <1>1 DEF TaskInv
<1>. QED
  BY <1>2, ServeKeepsDeadlines

LEMMA TaskStepKeepsDeadlines ==
    ASSUME TypeOK, Deadlines, NEW h \in Hooks, TaskStep(h)
    PROVE  Deadlines'
<1>. TaskInv(h) /\ ClientInv(h) /\ limit < HookRead
  BY DEF Deadlines
<1>. USE DEF bridgeVars, clientVars
<1>1. CASE Accept(h)
  <2>1. Serve(h, "reading", BridgeRead) /\ task[h] = "backlog"
    BY <1>1 DEF Accept
  <2>2. task'[h] = "reading" /\ taskTimer'[h] = BridgeRead /\ age'[h] = 0
    BY <1>1, <2>1 DEF Serve, Accept, TypeOK, TaskInv
  <2>3. TaskInv(h)'
    BY <2>2, TimeoutsAssumption DEF TaskInv
  <2>. QED
    BY <1>1, <2>1, <2>3, ServeKeepsDeadlines, TimeoutsAssumption DEF Accept
<1>2. CASE AcceptSaturated(h)
  <2>1. CASE Serve(h, "refusing", BridgeWrite)
    <3>1. task'[h] = "refusing" /\ taskTimer'[h] = BridgeWrite /\ age'[h] = 0
      BY <1>2, <2>1 DEF Serve, AcceptSaturated, TypeOK, TaskInv
    <3>2. TaskInv(h)'
      BY <3>1, TimeoutsAssumption DEF TaskInv
    <3>. QED
      BY <1>2, <2>1, <3>2, ServeKeepsDeadlines, TimeoutsAssumption DEF AcceptSaturated
  <2>2. CASE Serve(h, "closed", 0)
    BY <1>2, <2>2, CloseKeepsDeadlines DEF AcceptSaturated
  <2>. QED
    BY <1>2, <2>1, <2>2 DEF AcceptSaturated
<1>3. CASE RejectFrame(h)
  BY <1>3, AnswerKeepsDeadlines DEF RejectFrame
<1>4. CASE \E d \in Decisions : DecideAlone(h, d)
  BY <1>4, AnswerKeepsDeadlines DEF DecideAlone
<1>5. CASE AskHost(h)
  <2>1. Serve(h, "deciding", limit) /\ task[h] = "reading" /\ frame[h] = "call"
    BY <1>5 DEF AskHost
  <2>2. task'[h] = "deciding" /\ taskTimer'[h] = limit
    BY <2>1 DEF Serve, TypeOK
  <2>3. age[h] <= BridgeRead
    BY <2>1, TimeoutsAssumption DEF TaskInv, TypeOK
  <2>4. client[h] = "waiting" => limit < clientTimer[h]
    BY <2>1 DEF ClientInv
  <2>5. TaskInv(h)'
    BY <1>5, <2>1, <2>2, <2>3, <2>4, TimeoutsAssumption DEF TaskInv, AskHost, TypeOK
  <2>. QED
    BY <1>5, <2>1, <2>5, ServeKeepsDeadlines DEF AskHost, TypeOK
<1>6. CASE HostTimesOut(h)
  BY <1>6, AnswerKeepsDeadlines DEF HostTimesOut
<1>7. CASE Write(h)
  BY <1>7, CloseKeepsDeadlines DEF Write, Close
<1>8. CASE WriteTimesOut(h)
  BY <1>8, CloseKeepsDeadlines DEF WriteTimesOut, Close
<1>. QED
  BY <1>1, <1>2, <1>3, <1>4, <1>5, <1>6, <1>7, <1>8 DEF TaskStep

LEMMA OutsideKeepsDeadlines ==
    ASSUME TypeOK, Deadlines, NEW h \in Hooks, Outside(h)
    PROVE  Deadlines'
<1>. ClientInv(h) /\ TaskInv(h)
  BY DEF Deadlines
<1>. "deny" \in Ends \ {"late", "aborted"} /\ "killed" \in Ends \ {"late", "aborted"}
  BY DEF Ends
<1>1. CASE Connect(h)
  <2>1. /\ client[h] = "idle" /\ client'[h] = "sending" /\ clientTimer'[h] = HookWrite
        /\ task'[h] = "backlog" /\ UNCHANGED <<limit, frame, verdict, age, taskTimer>>
    BY <1>1 DEF Connect, TypeOK, bridgeVars
  <2>2. ClientInv(h)' /\ TaskInv(h)'
    BY <2>1, TimeoutsAssumption DEF ClientInv, TaskInv
  <2>. QED
    BY <1>1, <2>1, <2>2, OthersKept DEF Connect, TypeOK
<1>2. CASE ConnectFails(h)
  <2>1. UNCHANGED frame /\ UNCHANGED <<bridgeVars, age, taskVars>> /\ Leave(h, "deny")
    BY <1>2 DEF ConnectFails
  <2>. QED
    BY <2>1, LeaveKeepsDeadlines
<1>3. CASE Killed(h)
  <2>1. age[h] < AgyTimeout
    <3>1. CASE client[h] = "sending"
      BY <3>1, TimeoutsAssumption DEF ClientInv, TypeOK
    <3>2. CASE client[h] = "waiting"
      BY <3>2 DEF ClientInv
    <3>. QED
      BY <1>3, <3>1, <3>2 DEF Killed, Calling
  <2>2. ~(age[h] >= AgyTimeout)
    BY <2>1, TimeoutsAssumption DEF TypeOK
  <2>3. Leave(h, "killed")
    BY <1>3, <2>2 DEF Killed
  <2>. QED
    BY <1>3, <2>3, LeaveKeepsDeadlines DEF Killed
<1>4. CASE \E d \in Decisions : HostAnswers(h, d)
  BY <1>4, AnswerKeepsDeadlines DEF HostAnswers, bridgeVars, clientVars
<1>. QED
  BY <1>1, <1>2, <1>3, <1>4 DEF Outside

(* Nothing that a second could break is due: a client waits through one    *)
(* only while its task waits for the host.                                 *)
LEMMA TickKeepsDeadlines ==
    ASSUME TypeOK, Deadlines, Tick
    PROVE  Deadlines'
<1>. SUFFICES ASSUME NEW h \in Hooks PROVE ClientInv(h)' /\ TaskInv(h)'
  BY DEF Deadlines, Tick, bridgeVars
<1>. ClientInv(h) /\ TaskInv(h) /\ ~Due(h) /\ limit < HookRead
  BY DEF Deadlines, Tick
<1>1. /\ UNCHANGED <<limit, client, frame, verdict, task>>
      /\ age'[h] = IF Active(h) THEN age[h] + 1 ELSE 0
      /\ client[h] \in Calling => clientTimer'[h] = clientTimer[h] - 1
      /\ task[h] \in Timed => taskTimer'[h] = taskTimer[h] - 1
  BY DEF Tick, TypeOK, bridgeVars
<1>. age[h] \in Nat /\ clientTimer[h] \in Nat /\ taskTimer[h] \in Nat /\ limit \in Nat
  BY DEF TypeOK
<1>2. client[h] = "waiting" => task[h] = "deciding"
  <2>. SUFFICES ASSUME client[h] = "waiting" PROVE task[h] = "deciding"
    OBVIOUS
  <2>1. task[h] \notin {"none", "backlog", "reading", "writing", "refusing", "closed"}
    BY DEF Due, Readable, ClientInv
  <2>. QED
    BY <2>1 DEF TypeOK, Timed
<1>3. ClientInv(h)'
  <2>1. client[h] = "idle" => age'[h] = 0
    BY <1>1 DEF ClientInv, Active, Calling
  <2>2. client[h] = "sending" => age'[h] + clientTimer'[h] <= HookWrite
    BY <1>1, TimeoutsAssumption DEF ClientInv, Active, Calling
  <2>3. client[h] = "waiting" => clientTimer'[h] > 0 /\ age'[h] < AgyTimeout
    <3>. SUFFICES ASSUME client[h] = "waiting" PROVE clientTimer'[h] > 0 /\ age'[h] < AgyTimeout
      OBVIOUS
    <3>1. /\ taskTimer[h] < clientTimer[h] /\ age[h] + taskTimer[h] <= BridgeRead + limit
          /\ taskTimer[h] # 0 /\ limit < HookRead
      BY <1>2 DEF TaskInv, Due, Timed
    <3>2. age'[h] = age[h] + 1 /\ clientTimer'[h] = clientTimer[h] - 1
      BY <1>1 DEF Active, Calling
    <3>. QED
      BY <3>1, <3>2, TimeoutsAssumption
  <2>. QED
    BY <1>1, <1>2, <2>1, <2>2, <2>3 DEF ClientInv
<1>4. TaskInv(h)'
  <2>1. task[h] = "backlog" => FALSE
    BY DEF Due
  <2>2. task[h] \in Timed => age'[h] + taskTimer'[h] = age[h] + taskTimer[h]
    BY <1>1 DEF Active, Timed
  <2>3. task[h] = "deciding" /\ client[h] = "waiting" => taskTimer'[h] < clientTimer'[h]
    BY <1>1 DEF TaskInv, Calling, Timed
  <2>. QED
    BY <1>1, <2>1, <2>2, <2>3 DEF TaskInv, Timed
<1>. QED
  BY <1>3, <1>4

LEMMA DeadlinesNext == TypeOK /\ Deadlines /\ [Next]_vars => Deadlines'
<1>. SUFFICES ASSUME TypeOK, Deadlines, [Next]_vars PROVE Deadlines'
  OBVIOUS
<1>1. CASE \E h \in Hooks : ClientStep(h) \/ TaskStep(h) \/ Outside(h)
  BY <1>1, ClientStepKeepsDeadlines, TaskStepKeepsDeadlines, OutsideKeepsDeadlines
<1>2. CASE StopListening
  BY <1>2 DEF StopListening, Deadlines, ClientInv, TaskInv, clientVars
<1>3. CASE AdapterExits
  BY <1>3 DEF AdapterExits, Deadlines, ClientInv, TaskInv, clientVars
<1>4. CASE UNCHANGED vars
  BY <1>4 DEF Deadlines, ClientInv, TaskInv, vars, bridgeVars, clientVars, taskVars
<1>5. CASE Over
  BY <1>4, <1>5 DEF Over
<1>. QED
  BY <1>1, <1>2, <1>3, <1>4, <1>5, TickKeepsDeadlines DEF Next

LEMMA DeadlinesHold == Spec => [](TypeOK /\ Deadlines)
<1>. QED
  BY TypeInit, TypeNext, DeadlinesInit, DeadlinesNext, PTL DEF Spec

(* The order of the deadlines in frame.rs and hook_root.rs is enough: no   *)
(* hook client gives up on the bridge and agy on no hook client, whatever  *)
(* the response timeout a user configures.                                 *)
THEOREM DeadlinesNest == Spec => []NobodyGivesUpFirst
<1>1. Deadlines => NobodyGivesUpFirst
  BY DEF Deadlines, ClientInv, NobodyGivesUpFirst
<1>. QED
  BY <1>1, DeadlinesHold, PTL

-----------------------------------------------------------------------------
(* The permits *)

Holders == {h \in Hooks : task[h] \in HoldsPermit}

PermitsHeld == Cardinality(Holders) <= MaxConnections

(* Any set of hooks can be counted. *)
LEMMA HooksAreFew ==
    ASSUME NEW S \in SUBSET Hooks
    PROVE  IsFiniteSet(S) /\ Cardinality(S) \in Nat
BY ConnectionsAssumption, FS_Subset, FS_CardinalityType

LEMMA NoNewHolder ==
    ASSUME PermitsHeld, Holders' \subseteq Holders
    PROVE  PermitsHeld'
<1>. Holders \in SUBSET Hooks /\ Holders' \in SUBSET Hooks
  BY DEF Holders
<1>1. Cardinality(Holders') <= Cardinality(Holders)
  BY HooksAreFew, FS_Subset
<1>2. Cardinality(Holders') \in Nat /\ Cardinality(Holders) \in Nat /\ MaxConnections \in Nat
  BY HooksAreFew, ConnectionsAssumption
<1>. QED
  BY <1>1, <1>2 DEF PermitsHeld

(* A task that moves between places gets no permit it did not have.        *)
LEMMA MovesOnly ==
    ASSUME TypeOK, NEW h \in Hooks, NEW s, NEW n, Serve(h, s, n),
           s \in HoldsPermit => task[h] \in HoldsPermit
    PROVE  Holders' \subseteq Holders
BY DEF TypeOK, Serve, Holders

(* try_acquire_owned gives a permit only if one is left. *)
LEMMA AcceptTakesAFreePermit ==
    ASSUME TypeOK, NEW h \in Hooks, Accept(h)
    PROVE  PermitsHeld'
<1>1. Cardinality(Holders) < MaxConnections
  BY DEF Accept, Busy, Holders
<1>2. Holders' \subseteq Holders \cup {h}
  BY DEF Accept, Serve, Holders, TypeOK
<1>. Holders \in SUBSET Hooks /\ Holders' \in SUBSET Hooks /\ Holders \cup {h} \in SUBSET Hooks
  BY DEF Holders
<1>3. Cardinality(Holders') <= Cardinality(Holders \cup {h})
  BY <1>2, HooksAreFew, FS_Subset
<1>4. Cardinality(Holders \cup {h}) <= Cardinality(Holders) + 1
  BY HooksAreFew, FS_AddElement
<1>5. /\ Cardinality(Holders') \in Nat /\ Cardinality(Holders) \in Nat
      /\ Cardinality(Holders \cup {h}) \in Nat /\ MaxConnections \in Nat
  BY HooksAreFew, ConnectionsAssumption
<1>. QED
  BY <1>1, <1>3, <1>4, <1>5 DEF PermitsHeld

LEMMA PermitsInit == Init => PermitsHeld
<1>. SUFFICES ASSUME Init PROVE PermitsHeld
  OBVIOUS
<1>1. Holders = {}
  BY DEF Init, Holders, HoldsPermit
<1>. QED
  BY <1>1, FS_EmptySet, ConnectionsAssumption DEF PermitsHeld

LEMMA TaskStepKeepsPermits ==
    ASSUME TypeOK, PermitsHeld, NEW h \in Hooks, TaskStep(h)
    PROVE  PermitsHeld'
<1>1. CASE Accept(h)
  BY <1>1, AcceptTakesAFreePermit
<1>2. CASE AcceptSaturated(h)
  <2>1. Serve(h, "refusing", BridgeWrite) \/ Serve(h, "closed", 0)
    BY <1>2 DEF AcceptSaturated
  <2>. QED
    BY <2>1, MovesOnly, NoNewHolder DEF HoldsPermit
<1>3. CASE RejectFrame(h) \/ (\E d \in Decisions : DecideAlone(h, d)) \/ HostTimesOut(h)
  <2>1. Serve(h, "writing", BridgeWrite) /\ task[h] \in HoldsPermit
    BY <1>3 DEF RejectFrame, DecideAlone, HostTimesOut, Answer, HoldsPermit
  <2>. QED
    BY <2>1, MovesOnly, NoNewHolder
<1>4. CASE AskHost(h)
  <2>1. Serve(h, "deciding", limit) /\ task[h] \in HoldsPermit
    BY <1>4 DEF AskHost, HoldsPermit
  <2>. QED
    BY <2>1, MovesOnly, NoNewHolder
<1>5. CASE Write(h) \/ WriteTimesOut(h)
  <2>1. Serve(h, "closed", 0)
    BY <1>5 DEF Write, WriteTimesOut, Close
  <2>. QED
    BY <2>1, MovesOnly, NoNewHolder DEF HoldsPermit
<1>. QED
  BY <1>1, <1>2, <1>3, <1>4, <1>5 DEF TaskStep

LEMMA OutsideKeepsPermits ==
    ASSUME TypeOK, PermitsHeld, NEW h \in Hooks, Outside(h)
    PROVE  PermitsHeld'
<1>1. CASE Connect(h)
  BY <1>1, NoNewHolder DEF Connect, Holders, HoldsPermit, TypeOK
<1>2. CASE ConnectFails(h) \/ Killed(h)
  BY <1>2, NoNewHolder DEF ConnectFails, Killed, Holders, taskVars
<1>3. CASE \E d \in Decisions : HostAnswers(h, d)
  <2>1. Serve(h, "writing", BridgeWrite) /\ task[h] \in HoldsPermit
    BY <1>3 DEF HostAnswers, Answer, HoldsPermit
  <2>. QED
    BY <2>1, MovesOnly, NoNewHolder
<1>. QED
  BY <1>1, <1>2, <1>3 DEF Outside

LEMMA PermitsNext == TypeOK /\ PermitsHeld /\ [Next]_vars => PermitsHeld'
<1>. SUFFICES ASSUME TypeOK, PermitsHeld, [Next]_vars PROVE PermitsHeld'
  OBVIOUS
<1>1. CASE \E h \in Hooks : ClientStep(h)
  <2>1. UNCHANGED task
    BY <1>1 DEF ClientStep, Send, SendFails, Receive, taskVars
  <2>. QED
    BY <2>1, NoNewHolder DEF Holders
<1>2. CASE \E h \in Hooks : TaskStep(h) \/ Outside(h)
  BY <1>2, TaskStepKeepsPermits, OutsideKeepsPermits
<1>3. CASE Tick \/ StopListening \/ AdapterExits
  BY <1>3, NoNewHolder DEF Tick, StopListening, AdapterExits, Holders, HoldsPermit
<1>4. CASE Over \/ UNCHANGED vars
  BY <1>4 DEF Over, vars, taskVars, PermitsHeld, Holders
<1>. QED
  BY <1>1, <1>2, <1>3, <1>4 DEF Next

(* No more calls are put to the host at once than there are permits, and   *)
(* every permit is returned within the deadlines of its task.              *)
THEOREM PermitsReturn == Spec => []PermitsComeBack
<1>1. TypeOK /\ Deadlines /\ PermitsHeld => PermitsComeBack
  <2>. SUFFICES ASSUME TypeOK, Deadlines, PermitsHeld PROVE PermitsComeBack
    OBVIOUS
  <2>1. Busy({"deciding"}) <= MaxConnections
    <3>. DEFINE Asking == {h \in Hooks : task[h] \in {"deciding"}}
    <3>1. Asking \subseteq Holders /\ Asking \in SUBSET Hooks /\ Holders \in SUBSET Hooks
      BY DEF Holders, HoldsPermit
    <3>2. Cardinality(Asking) <= Cardinality(Holders)
      BY <3>1, HooksAreFew, FS_Subset
    <3>3. Cardinality(Asking) \in Nat /\ Cardinality(Holders) \in Nat /\ MaxConnections \in Nat
      BY <3>1, HooksAreFew, ConnectionsAssumption
    <3>4. Cardinality(Asking) <= MaxConnections
      BY <3>2, <3>3 DEF PermitsHeld
    <3>. QED
      BY <3>4 DEF Busy
  <2>2. ASSUME NEW h \in Hooks
        PROVE  /\ task[h] \in HoldsPermit => age[h] <= BridgeRead + limit + BridgeWrite
               /\ task[h] = "refusing" => age[h] <= BridgeWrite
    <3>1. TaskInv(h) /\ age[h] \in Nat /\ taskTimer[h] \in Nat /\ limit \in Nat
      BY DEF Deadlines, TypeOK
    <3>. QED
      BY <3>1, TimeoutsAssumption DEF TaskInv, HoldsPermit
  <2>. QED
    BY <2>1, <2>2 DEF PermitsComeBack
<1>2. Spec => []PermitsHeld
  BY TypeInit, TypeNext, PermitsInit, PermitsNext, PTL DEF Spec
<1>. QED
  BY <1>1, <1>2, DeadlinesHold, PTL

-----------------------------------------------------------------------------
(* The implementation of HookGate *)

(* What is known of a decision by where its connection is: nothing before  *)
(* it is made, and of an allowance all of it, unless the adapter is gone.  *)
LineInv(h) ==
    /\ client[h] = "done" <=> verdict[h] # "none"
    /\ task[h] \in {"none", "backlog", "reading", "deciding"} => reply[h] = "none"
    /\ wire[h] # "none" => task[h] = "closed"
    /\ wire[h] \in Decisions => wire[h] = reply[h]
    /\ client[h] = "sending" => reply[h] # "allow"
    /\ up /\ task[h] = "closed" /\ wire[h] \notin Decisions => reply[h] # "allow"
    /\ ~up => task[h] \in {"none", "closed"}

Line ==
    /\ listening => up
    /\ \A h \in Hooks : LineInv(h)

LEMMA LineInit == Init => Line
BY DEF Init, Line, LineInv, Decisions

(* A step of one hook is about that hook only.                             *)
LEMMA OtherLinesKept ==
    ASSUME Line, NEW h \in Hooks, UNCHANGED <<up, listening>>,
           \A g \in Hooks \ {h} :
             /\ client'[g] = client[g] /\ verdict'[g] = verdict[g] /\ task'[g] = task[g]
             /\ reply'[g] = reply[g] /\ wire'[g] = wire[g],
           LineInv(h)'
    PROVE  Line'
BY DEF Line, LineInv

LEMMA LeaveKeepsLine ==
    ASSUME TypeOK, Line, NEW h \in Hooks, NEW v \in Ends, Leave(h, v),
           UNCHANGED <<up, listening, task, reply, wire>>
    PROVE  Line'
<1>1. client'[h] = "done" /\ verdict'[h] = v /\ v # "none"
  BY DEF Leave, TypeOK, Ends
<1>2. LineInv(h)'
  BY <1>1 DEF Line, LineInv
<1>. QED
  BY <1>2, OtherLinesKept DEF Leave, TypeOK

LEMMA ClientStepKeepsLine ==
    ASSUME TypeOK, Deadlines, Line, NEW h \in Hooks, ClientStep(h)
    PROVE  Line'
<1>. "late" \in Ends /\ "deny" \in Ends
  BY DEF Ends
<1>. USE DEF bridgeVars, taskVars
<1>1. CASE \E f \in {"call", "bad"} : Send(h, f)
  <2>1. /\ client[h] = "sending" /\ client'[h] = "waiting"
        /\ UNCHANGED <<up, listening, verdict, task, reply, wire>>
    BY <1>1 DEF Send, TypeOK
  <2>2. LineInv(h)'
    BY <2>1 DEF Line, LineInv
  <2>. QED
    BY <1>1, <2>1, <2>2, OtherLinesKept DEF Send, TypeOK
<1>2. CASE SendFails(h)
  BY <1>2, LeaveKeepsLine DEF SendFails
<1>3. CASE Receive(h)
  <2>1. (IF Readable(h) THEN Judged(wire[h]) ELSE "late") \in Ends
    BY JudgedIsADecision, DecisionsEnd
  <2>. QED
    BY <1>3, <2>1, LeaveKeepsLine DEF Receive
<1>. QED
  BY <1>1, <1>2, <1>3 DEF ClientStep

(* An answer is a decision where there was none; only a client whose       *)
(* request is there is told that it may.                                   *)
LEMMA AnswerKeepsLine ==
    ASSUME TypeOK, Line, NEW h \in Hooks, NEW d \in Decisions, Answer(h, d),
           UNCHANGED <<up, listening, client, verdict, wire>>,
           task[h] \in {"reading", "deciding"},
           d = "allow" => client[h] # "sending"
    PROVE  Line'
<1>1. task'[h] = "writing" /\ reply'[h] = d
  BY DEF Answer, Serve, TypeOK
<1>2. LineInv(h) /\ wire[h] = "none"
  BY DEF Line, LineInv
<1>3. LineInv(h)'
  BY <1>1, <1>2 DEF LineInv, Decisions
<1>. QED
  BY <1>3, OtherLinesKept DEF Answer, Serve, TypeOK

LEMMA TaskStepKeepsLine ==
    ASSUME TypeOK, Deadlines, Line, NEW h \in Hooks, TaskStep(h)
    PROVE  Line'
<1>1. LineInv(h) /\ ClientInv(h) /\ TaskInv(h)
  BY DEF Line, Deadlines
<1>. USE DEF bridgeVars, clientVars
<1>2. CASE Accept(h) \/ AskHost(h)
  <2>1. /\ task[h] \in {"backlog", "reading"} /\ task'[h] \in {"reading", "deciding"}
        /\ UNCHANGED <<up, listening, client, verdict, reply, wire>>
    BY <1>2 DEF Accept, AskHost, Serve, TypeOK
  <2>2. LineInv(h)'
    BY <1>1, <2>1 DEF LineInv
  <2>. QED
    BY <1>2, <2>1, <2>2, OtherLinesKept DEF Accept, AskHost, Serve, TypeOK
<1>3. CASE AcceptSaturated(h)
  <2>1. /\ task[h] = "backlog" /\ task'[h] \in {"refusing", "closed"}
        /\ reply'[h] = reply[h] \/ (reply'[h] = "deny" /\ task'[h] = "refusing")
        /\ UNCHANGED <<up, listening, client, verdict, wire>>
    BY <1>3 DEF AcceptSaturated, Serve, TypeOK
  <2>2. LineInv(h)'
    BY <1>1, <2>1 DEF LineInv, Decisions
  <2>. QED
    BY <1>3, <2>1, <2>2, OtherLinesKept DEF AcceptSaturated, Serve, TypeOK
<1>4. CASE RejectFrame(h)
  BY <1>4, AnswerKeepsLine DEF RejectFrame, Decisions
<1>5. CASE \E d \in Decisions : DecideAlone(h, d)
  BY <1>1, <1>5, AnswerKeepsLine DEF DecideAlone, ClientInv
<1>6. CASE HostTimesOut(h)
  BY <1>6, AnswerKeepsLine DEF HostTimesOut, Decisions
<1>7. CASE Write(h)
  <2>1. /\ task[h] \in {"writing", "refusing"} /\ task'[h] = "closed" /\ wire'[h] = reply[h]
        /\ UNCHANGED <<up, listening, client, verdict, reply>>
    BY <1>7 DEF Write, Close, Serve, TypeOK
  <2>2. LineInv(h)'
    BY <1>1, <2>1 DEF LineInv, Decisions
  <2>. QED
    BY <1>7, <2>1, <2>2, OtherLinesKept DEF Write, Close, Serve, TypeOK
<1>8. CASE WriteTimesOut(h)
  <2>1. /\ task[h] \in {"writing", "refusing"} /\ task'[h] = "closed" /\ wire'[h] \in {"none", "cut"}
        /\ client[h] = "sending"
        /\ UNCHANGED <<up, listening, client, verdict, reply>>
    BY <1>8 DEF WriteTimesOut, Close, Serve, TypeOK
  <2>2. LineInv(h)'
    BY <1>1, <2>1 DEF LineInv, Decisions
  <2>. QED
    BY <1>8, <2>1, <2>2, OtherLinesKept DEF WriteTimesOut, Close, Serve, TypeOK
<1>. QED
  BY <1>2, <1>3, <1>4, <1>5, <1>6, <1>7, <1>8 DEF TaskStep

LEMMA OutsideKeepsLine ==
    ASSUME TypeOK, Deadlines, Line, NEW h \in Hooks, Outside(h)
    PROVE  Line'
<1>1. LineInv(h) /\ ClientInv(h) /\ TaskInv(h)
  BY DEF Line, Deadlines
<1>. "deny" \in Ends /\ "killed" \in Ends /\ "aborted" \in Ends
  BY DEF Ends
<1>. USE DEF bridgeVars, taskVars
<1>2. CASE Connect(h)
  <2>1. /\ client[h] = "idle" /\ client'[h] = "sending" /\ task'[h] = "backlog" /\ up
        /\ UNCHANGED <<up, listening, verdict, reply, wire>>
    BY <1>2 DEF Connect, TypeOK, Line
  <2>2. LineInv(h)'
    BY <1>1, <2>1 DEF LineInv, ClientInv
  <2>. QED
    BY <1>2, <2>1, <2>2, OtherLinesKept DEF Connect, TypeOK
<1>3. CASE ConnectFails(h) \/ Killed(h)
  BY <1>3, LeaveKeepsLine DEF ConnectFails, Killed
<1>4. CASE \E d \in Decisions : HostAnswers(h, d)
  BY <1>1, <1>4, AnswerKeepsLine DEF HostAnswers, TaskInv, ClientInv, clientVars
<1>. QED
  BY <1>2, <1>3, <1>4 DEF Outside

LEMMA LineNext == TypeOK /\ Deadlines /\ Line /\ [Next]_vars => Line'
<1>. SUFFICES ASSUME TypeOK, Deadlines, Line, [Next]_vars PROVE Line'
  OBVIOUS
<1>1. CASE \E h \in Hooks : ClientStep(h) \/ TaskStep(h) \/ Outside(h)
  BY <1>1, ClientStepKeepsLine, TaskStepKeepsLine, OutsideKeepsLine
<1>2. CASE StopListening
  <2>1. /\ ~listening' /\ UNCHANGED <<up, client, verdict, reply, wire>>
        /\ task' = [h \in Hooks |-> IF task[h] = "backlog" THEN "closed" ELSE task[h]]
    BY <1>2 DEF StopListening, clientVars
  <2>2. ASSUME NEW h \in Hooks PROVE LineInv(h)'
    BY <2>1 DEF Line, LineInv
  <2>. QED
    BY <2>1, <2>2 DEF Line
<1>3. CASE AdapterExits
  <2>1. /\ ~up' /\ ~listening' /\ UNCHANGED <<client, verdict, reply>>
        /\ task' = [h \in Hooks |-> IF task[h] = "none" THEN "none" ELSE "closed"]
        /\ \A h \in Hooks : wire'[h] = wire[h] \/ (wire'[h] = "cut" /\ task[h] \in {"writing", "refusing"})
    BY <1>3 DEF AdapterExits, clientVars
  <2>2. ASSUME NEW h \in Hooks PROVE LineInv(h)'
    BY <2>1 DEF Line, LineInv, Decisions
  <2>. QED
    BY <2>1, <2>2 DEF Line
<1>4. CASE Tick \/ UNCHANGED vars \/ Over
  BY <1>4 DEF Tick, Over, Line, LineInv, vars, bridgeVars, clientVars, taskVars
<1>. QED
  BY <1>1, <1>2, <1>3, <1>4 DEF Next

IInv == TypeOK /\ Deadlines /\ Line

LEMMA IInvHolds == Spec => []IInv
<1>1. Init => IInv
  BY TypeInit, DeadlinesInit, LineInit DEF IInv
<1>2. IInv /\ [Next]_vars => IInv'
  BY TypeNext, DeadlinesNext, LineNext DEF IInv
<1>. QED
  BY <1>1, <1>2, PTL DEF Spec

(* What agy is told is the verdict: no client is late or silent.           *)
LEMMA ToldIsTheVerdict ==
    ASSUME IInv, NEW h \in Hooks
    PROVE  Told(h) = verdict[h]
BY DEF IInv, Deadlines, ClientInv, Line, LineInv, Told

Asked == [h \in Hooks |-> client[h] # "idle"]
Verdicts == [h \in Hooks |-> Told(h)]

LEMMA VerdictsTold ==
    ASSUME IInv
    PROVE  Verdicts = verdict
<1>1. verdict = [h \in Hooks |-> verdict[h]]
  BY DEF IInv, TypeOK
<1>. QED
  BY <1>1, ToldIsTheVerdict DEF Verdicts

LEMMA VerdictsStayTold ==
    ASSUME IInv'
    PROVE  Verdicts' = verdict'
<1>1. verdict' = [h \in Hooks |-> verdict'[h]]
  BY DEF IInv, TypeOK
<1>2. \A h \in Hooks : Told(h)' = verdict'[h]
  BY DEF IInv, Deadlines, ClientInv, Line, LineInv, Told
<1>. QED
  BY <1>1, <1>2 DEF Verdicts

(* A client that leaves settles its hook.                                  *)
LEMMA LeavingSettles ==
    ASSUME IInv, IInv', NEW h \in Hooks, NEW v \in {"allow", "deny", "killed"},
           Leave(h, v), UNCHANGED <<up, reply>>, client[h] \in Calling,
           v = "allow" => reply[h] = "allow",
           v = "deny" => reply[h] # "allow" \/ ~up
    PROVE  Gate!Settle(h, v)
<1>1. Verdicts = verdict /\ Verdicts' = verdict'
  BY VerdictsTold, VerdictsStayTold
<1>2. /\ client' = [client EXCEPT ![h] = "done"] /\ verdict' = [verdict EXCEPT ![h] = v]
      /\ verdict[h] = "none"
  BY DEF Leave, IInv, Line, LineInv, Calling
<1>3. Asked[h] /\ Asked' = Asked
  BY <1>2 DEF Asked, Calling, IInv, TypeOK
<1>4. Verdicts[h] = "none" /\ Verdicts' = [Verdicts EXCEPT ![h] = v]
  BY <1>1, <1>2
<1>. QED
  BY <1>3, <1>4 DEF Gate!Settle, Asked, Verdicts

LEMMA ClientStepSettles ==
    ASSUME IInv, IInv', NEW h \in Hooks, ClientStep(h)
    PROVE  Gate!Next \/ UNCHANGED Gate!vars
<1>1. LineInv(h) /\ ClientInv(h)
  BY DEF IInv, Line, Deadlines
<1>. USE DEF bridgeVars, taskVars
<1>2. CASE \E f \in {"call", "bad"} : Send(h, f)
  <2>1. /\ client[h] = "sending" /\ client' = [client EXCEPT ![h] = "waiting"]
        /\ UNCHANGED <<up, reply, verdict>>
    BY <1>2 DEF Send
  <2>2. Asked' = Asked
    BY <2>1 DEF Asked, IInv, TypeOK
  <2>3. Verdicts' = Verdicts
    BY <2>1, VerdictsTold, VerdictsStayTold
  <2>. QED
    BY <2>1, <2>2, <2>3 DEF Gate!vars, Asked, Verdicts
<1>3. CASE SendFails(h)
  <2>1. Gate!Settle(h, "deny")
    BY <1>1, <1>3, LeavingSettles DEF SendFails, LineInv, Calling
  <2>. QED
    BY <2>1 DEF Gate!Next
<1>4. CASE Receive(h)
  <2>1. Readable(h) /\ client[h] = "waiting" /\ Leave(h, Judged(wire[h])) /\ UNCHANGED <<up, reply>>
    BY <1>1, <1>4 DEF Receive, ClientInv
  <2>2. task[h] = "closed"
    BY <1>1, <2>1 DEF Readable, LineInv
  <2>3. Judged(wire[h]) = "allow" => reply[h] = "allow"
    BY <1>1 DEF Judged, Decisions, LineInv
  <2>4. Judged(wire[h]) = "deny" => reply[h] # "allow" \/ ~up
    BY <1>1, <2>2 DEF Judged, Decisions, LineInv
  <2>5. Judged(wire[h]) \in {"allow", "deny", "killed"} /\ client[h] \in Calling
    BY <2>1, JudgedIsADecision DEF Decisions, Calling
  <2>6. Gate!Settle(h, Judged(wire[h]))
    BY <2>1, <2>3, <2>4, <2>5, LeavingSettles
  <2>. QED
    BY <2>5, <2>6 DEF Gate!Next
<1>. QED
  BY <1>2, <1>3, <1>4 DEF ClientStep

(* An answer is the decision.                                              *)
LEMMA AnsweringDecides ==
    ASSUME IInv, IInv', NEW h \in Hooks, NEW d \in Decisions, Answer(h, d),
           UNCHANGED <<up, client, verdict>>, task[h] \in {"reading", "deciding"}
    PROVE  Gate!Decide(h, d)
<1>1. up /\ reply[h] = "none" /\ client[h] # "idle"
  BY DEF IInv, Line, LineInv, Deadlines, ClientInv
<1>2. reply' = [reply EXCEPT ![h] = d]
  BY DEF Answer
<1>3. Verdicts' = Verdicts
  BY VerdictsTold, VerdictsStayTold
<1>4. Asked[h] /\ Asked' = Asked
  BY <1>1 DEF Asked
<1>. QED
  BY <1>1, <1>2, <1>3, <1>4 DEF Gate!Decide, Asked, Verdicts

LEMMA TaskStepDecides ==
    ASSUME IInv, IInv', NEW h \in Hooks, TaskStep(h)
    PROVE  Gate!Next \/ UNCHANGED Gate!vars
<1>. USE DEF bridgeVars, clientVars
<1>1. ASSUME UNCHANGED <<up, client, verdict, reply>> PROVE UNCHANGED Gate!vars
  <2>1. Verdicts' = Verdicts /\ Asked' = Asked
    BY <1>1, VerdictsTold, VerdictsStayTold DEF Asked
  <2>. QED
    BY <1>1, <2>1 DEF Gate!vars, Asked, Verdicts
<1>2. ASSUME NEW d \in Decisions, Answer(h, d), UNCHANGED <<up, client, verdict>>,
             task[h] \in {"reading", "deciding"}
      PROVE  Gate!Next
  <2>1. Gate!Decide(h, d)
    BY <1>2, AnsweringDecides
  <2>. QED
    BY <2>1 DEF Gate!Next, Decisions
<1>3. CASE Accept(h) \/ AskHost(h) \/ Write(h) \/ WriteTimesOut(h)
  BY <1>1, <1>3 DEF Accept, AskHost, Write, WriteTimesOut
<1>4. CASE RejectFrame(h)
  BY <1>2, <1>4 DEF RejectFrame, Decisions
<1>5. CASE \E d \in Decisions : DecideAlone(h, d)
  BY <1>2, <1>5 DEF DecideAlone
<1>6. CASE HostTimesOut(h)
  BY <1>2, <1>6 DEF HostTimesOut, Decisions
<1>7. CASE AcceptSaturated(h)
  <2>1. CASE UNCHANGED reply
    BY <1>1, <1>7, <2>1 DEF AcceptSaturated
  <2>2. CASE reply' = [reply EXCEPT ![h] = "deny"]
    <3>1. task[h] = "backlog" /\ UNCHANGED <<up, client, verdict>>
      BY <1>7 DEF AcceptSaturated
    <3>2. up /\ reply[h] = "none" /\ client[h] # "idle"
      BY <3>1 DEF IInv, Line, LineInv, Deadlines, ClientInv
    <3>3. Verdicts' = Verdicts /\ Asked[h] /\ Asked' = Asked
      BY <3>1, <3>2, VerdictsTold, VerdictsStayTold DEF Asked
    <3>4. Gate!Decide(h, "deny")
      BY <2>2, <3>1, <3>2, <3>3 DEF Gate!Decide, Asked, Verdicts
    <3>. QED
      BY <3>4 DEF Gate!Next
  <2>. QED
    BY <1>7, <2>1, <2>2 DEF AcceptSaturated
<1>. QED
  BY <1>3, <1>4, <1>5, <1>6, <1>7 DEF TaskStep

LEMMA OutsideAsks ==
    ASSUME IInv, IInv', NEW h \in Hooks, Outside(h)
    PROVE  Gate!Next \/ UNCHANGED Gate!vars
<1>. USE DEF bridgeVars, taskVars
<1>1. Verdicts = verdict /\ Verdicts' = verdict'
  BY VerdictsTold, VerdictsStayTold
<1>2. CASE Connect(h)
  <2>1. /\ client[h] = "idle" /\ client' = [client EXCEPT ![h] = "sending"]
        /\ UNCHANGED <<up, reply, verdict>>
    BY <1>2 DEF Connect
  <2>2. ~Asked[h] /\ Asked' = [Asked EXCEPT ![h] = TRUE]
    BY <2>1 DEF Asked, IInv, TypeOK
  <2>3. Gate!Ask(h)
    BY <1>1, <2>1, <2>2 DEF Gate!Ask, Asked, Verdicts
  <2>. QED
    BY <2>3 DEF Gate!Next
<1>3. CASE ConnectFails(h)
  <2>1. /\ client[h] = "idle" /\ client' = [client EXCEPT ![h] = "done"]
        /\ verdict' = [verdict EXCEPT ![h] = "deny"] /\ UNCHANGED <<up, reply>>
    BY <1>3 DEF ConnectFails, Leave
  <2>2. ~Asked[h] /\ Asked' = [Asked EXCEPT ![h] = TRUE]
    BY <2>1 DEF Asked, IInv, TypeOK
  <2>3. Verdicts' = [Verdicts EXCEPT ![h] = "deny"]
    BY <1>1, <2>1
  <2>4. Gate!Reject(h)
    BY <2>1, <2>2, <2>3 DEF Gate!Reject, Asked, Verdicts
  <2>. QED
    BY <2>4 DEF Gate!Next
<1>4. CASE Killed(h)
  <2>1. verdict'[h] \notin {"late", "aborted"}
    BY DEF IInv, Deadlines, ClientInv
  <2>2. Leave(h, "killed") /\ client[h] \in Calling /\ UNCHANGED <<up, reply>>
    BY <1>4, <2>1 DEF Killed, Leave, IInv, TypeOK
  <2>3. Gate!Settle(h, "killed")
    BY <2>2, LeavingSettles
  <2>. QED
    BY <2>3 DEF Gate!Next
<1>5. CASE \E d \in Decisions : HostAnswers(h, d)
  <2>1. PICK d \in Decisions : HostAnswers(h, d)
    BY <1>5
  <2>2. Gate!Decide(h, d)
    BY <2>1, AnsweringDecides DEF HostAnswers, clientVars
  <2>. QED
    BY <2>2 DEF Gate!Next, Decisions
<1>. QED
  BY <1>2, <1>3, <1>4, <1>5 DEF Outside

(* Every step of the line between the hooks and the bridge is one that the *)
(* gate allows, or none that agy can see: no hook is told to allow what    *)
(* was not allowed, however lines are torn, permits run out, peers are     *)
(* killed or the adapter ends.                                             *)
THEOREM GateHolds == Spec => FailsClosed
<1>1. Init => Gate!Init
  <2>. SUFFICES ASSUME Init PROVE Gate!Init
    OBVIOUS
  <2>1. IInv
    BY TypeInit, DeadlinesInit, LineInit DEF IInv
  <2>2. Verdicts = [h \in Hooks |-> "none"]
    BY <2>1, VerdictsTold DEF Init
  <2>3. Asked = [h \in Hooks |-> FALSE]
    BY DEF Init, Asked
  <2>. QED
    BY <2>2, <2>3 DEF Gate!Init, Init, Asked, Verdicts
<1>2. IInv /\ IInv' /\ [Next]_vars => [Gate!Next]_(Gate!vars)
  <2>. SUFFICES ASSUME IInv, IInv', [Next]_vars PROVE Gate!Next \/ UNCHANGED Gate!vars
    OBVIOUS
  <2>1. ASSUME UNCHANGED <<up, client, verdict, reply>> PROVE UNCHANGED Gate!vars
    <3>1. Verdicts' = Verdicts /\ Asked' = Asked
      BY <2>1, VerdictsTold, VerdictsStayTold DEF Asked
    <3>. QED
      BY <2>1, <3>1 DEF Gate!vars, Asked, Verdicts
  <2>2. CASE \E h \in Hooks : ClientStep(h) \/ TaskStep(h) \/ Outside(h)
    BY <2>2, ClientStepSettles, TaskStepDecides, OutsideAsks
  <2>3. CASE Tick \/ StopListening \/ Over \/ UNCHANGED vars
    BY <2>1, <2>3 DEF Tick, StopListening, Over, vars, bridgeVars, clientVars, taskVars
  <2>4. CASE AdapterExits
    <3>1. up /\ ~up' /\ UNCHANGED <<client, verdict, reply>>
      BY <2>4 DEF AdapterExits, clientVars
    <3>2. Verdicts' = Verdicts /\ Asked' = Asked
      BY <3>1, VerdictsTold, VerdictsStayTold DEF Asked
    <3>3. up' = FALSE
      BY <2>4 DEF AdapterExits
    <3>4. Gate!Break
      BY <3>1, <3>2, <3>3 DEF Gate!Break, Asked, Verdicts
    <3>. QED
      BY <3>4 DEF Gate!Next
  <2>. QED
    BY <2>2, <2>3, <2>4 DEF Next
<1>. QED
  BY <1>1, <1>2, IInvHolds, PTL DEF Spec, Gate!Spec, FailsClosed
=============================================================================
