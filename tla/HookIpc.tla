-------------------------------- MODULE HookIpc --------------------------------
(***************************************************************************)
(* The line between agy's hook processes and the bridge: the accept loop   *)
(* with its permits (src/permission.rs, start), the task that serves a     *)
(* connection (src/permission/serve.rs), the hook client                   *)
(* (src/permission/hook_client.rs), and the deadlines of both ends         *)
(* (src/permission/frame.rs).  decide is one step, or a wait for the host: *)
(* its inside is the subject of PermissionBridge.                          *)
(*                                                                         *)
(* Time passes in whole seconds, all timers at once, and only when nothing *)
(* is due: a process that can go on does so before the next second.  What  *)
(* takes time is the host, a client that has not sent its request yet, and *)
(* a peer that does not take what is written to it.                        *)
(* A socket's timeout is one for each call; a request, and an answer, are  *)
(* one call here.                                                          *)
(*                                                                         *)
(* An operator named Mut... is a bug the model checker must notice: it is  *)
(* not part of the specification.                                          *)
(***************************************************************************)
EXTENDS Integers, FiniteSets

CONSTANTS
    Hooks,                  \* hook processes, each started at most once
    MaxConnections,         \* MAX_CONNECTIONS
    MaxSaturationDenies,    \* MAX_SATURATION_DENIES
    BridgeRead, BridgeWrite, HookWrite, HookRead,   \* ..._TIMEOUT
    AgyTimeout,             \* HOOK_TIMEOUT_SECS of src/hook_root.rs
    Configured              \* response timeouts a user may ask for, the default among them

ASSUME ConnectionsAssumption ==
    /\ IsFiniteSet(Hooks)
    /\ MaxConnections \in Nat
    /\ MaxSaturationDenies \in Nat

(* 10, 10, 10, 590 and 600 in the code: the sum may just reach agy's own.  *)
ASSUME TimeoutsAssumption ==
    /\ BridgeRead \in Nat /\ BridgeWrite \in Nat /\ HookWrite \in Nat
    /\ HookRead \in Nat \ {0}
    /\ AgyTimeout \in Nat
    /\ BridgeRead + HookRead <= AgyTimeout
    /\ HookWrite < AgyTimeout
    /\ Configured \subseteq Nat

VARIABLES
    up,             \* the adapter runs
    listening,      \* its accept loop does
    limit,          \* response_timeout()
    client,         \* where each hook process is
    frame,          \* what reached the bridge of its request
    clientTimer,    \* what is left of the client's present deadline
    verdict,        \* what it told agy, or how it ended
    age,            \* seconds since agy started it
    task,           \* the connection in the bridge
    reply,          \* what its task answers
    wire,           \* what of the answer the client can read
    taskTimer       \* what is left of the task's present deadline

clientVars == <<client, frame, clientTimer, verdict>>
taskVars == <<task, reply, wire, taskTimer>>
bridgeVars == <<up, listening, limit>>
vars == <<bridgeVars, clientVars, taskVars, age>>

Calling == {"sending", "waiting"}
Timed == {"reading", "deciding", "writing", "refusing"}
Decisions == {"allow", "deny"}
Ends == {"allow", "deny", "late", "aborted", "killed"}

(* bounded_response_timeout: strictly inside the client's read deadline. *)
MutUnbounded(secs) == secs
BoundedResponse(secs) == IF secs < HookRead - 1 THEN secs ELSE HookRead - 1

Init ==
    /\ up = TRUE
    /\ listening = TRUE
    /\ limit \in {BoundedResponse(secs) : secs \in Configured}
    /\ client = [h \in Hooks |-> "idle"]
    /\ frame = [h \in Hooks |-> "none"]
    /\ clientTimer = [h \in Hooks |-> 0]
    /\ verdict = [h \in Hooks |-> "none"]
    /\ age = [h \in Hooks |-> 0]
    /\ task = [h \in Hooks |-> "none"]
    /\ reply = [h \in Hooks |-> "none"]
    /\ wire = [h \in Hooks |-> "none"]
    /\ taskTimer = [h \in Hooks |-> 0]

-----------------------------------------------------------------------------
(* The hook process: run_hook and hook_roundtrip. *)

Leave(h, v) ==
    /\ client' = [client EXCEPT ![h] = "done"]
    /\ clientTimer' = [clientTimer EXCEPT ![h] = 0]
    /\ verdict' = [verdict EXCEPT ![h] = v]

(* What the bridge has of a request whose sender is gone: a torn line, or  *)
(* all of it but for the newline, which read_bounded_line_async takes.     *)
LeaveBehind(h) ==
    IF frame[h] = "none" THEN \E f \in {"bad", "call"} : frame' = [frame EXCEPT ![h] = f]
                         ELSE UNCHANGED frame

(* agy starts the hook; its payload is on stdin already. *)
Connect(h) ==
    /\ client[h] = "idle"
    /\ listening
    /\ client' = [client EXCEPT ![h] = "sending"]
    /\ clientTimer' = [clientTimer EXCEPT ![h] = HookWrite]
    /\ task' = [task EXCEPT ![h] = "backlog"]
    /\ UNCHANGED <<bridgeVars, frame, verdict, age, reply, wire, taskTimer>>

(* An empty or oversized payload, or nobody behind the socket. *)
ConnectFails(h) ==
    /\ client[h] = "idle"
    /\ Leave(h, "deny")
    /\ UNCHANGED <<bridgeVars, frame, age, taskVars>>

(* The whole line goes out; "bad" does not parse or names no tool. *)
Send(h, f) ==
    /\ client[h] = "sending"
    /\ task[h] # "closed"
    /\ client' = [client EXCEPT ![h] = "waiting"]
    /\ frame' = [frame EXCEPT ![h] = f]
    /\ clientTimer' = [clientTimer EXCEPT ![h] = HookRead]
    /\ UNCHANGED <<bridgeVars, verdict, age, taskVars>>

(* A write error or the write deadline. *)
SendFails(h) ==
    /\ client[h] = "sending"
    /\ task[h] = "closed" \/ clientTimer[h] = 0
    /\ Leave(h, "deny")
    /\ LeaveBehind(h)
    /\ UNCHANGED <<bridgeVars, age, taskVars>>

Readable(h) == wire[h] # "none" \/ task[h] = "closed"

(* No answer, a torn one, or one without a decision is a denial. *)
MutPassesOn(w) == CASE w = "none" -> "deny" [] w = "cut" -> "none" [] OTHER -> w
Judged(w) == IF w \in Decisions THEN w ELSE "deny"

(* The read returns with bytes, with the end of the stream, or late.       *)
Receive(h) ==
    /\ client[h] = "waiting"
    /\ clientTimer[h] > 0 => Readable(h)
    /\ Leave(h, IF Readable(h) THEN Judged(wire[h]) ELSE "late")
    /\ UNCHANGED <<bridgeVars, frame, age, taskVars>>

(* kill_tree takes the hook with agy; or agy ends it for its timeout, and  *)
(* fails the whole turn.                                                   *)
Killed(h) ==
    /\ client[h] \in Calling
    /\ Leave(h, IF age[h] >= AgyTimeout THEN "aborted" ELSE "killed")
    /\ LeaveBehind(h)
    /\ UNCHANGED <<bridgeVars, age, taskVars>>

-----------------------------------------------------------------------------
(* The bridge. *)

(* A permit lives as long as the task that holds it. *)
HoldsPermit == {"reading", "deciding", "writing"}
Busy(states) == Cardinality({h \in Hooks : task[h] \in states})

Serve(h, state, deadline) ==
    /\ task' = [task EXCEPT ![h] = state]
    /\ taskTimer' = [taskTimer EXCEPT ![h] = deadline]

Accept(h) ==
    /\ task[h] = "backlog"
    /\ Busy(HoldsPermit) < MaxConnections
    /\ Serve(h, "reading", BridgeRead)
    /\ UNCHANGED <<bridgeVars, clientVars, age, reply, wire>>

(* write_saturated_deny, under the permit kept for it; without one the     *)
(* stream is dropped.                                                      *)
AcceptSaturated(h) ==
    /\ task[h] = "backlog"
    /\ Busy(HoldsPermit) >= MaxConnections
    /\ IF Busy({"refusing"}) < MaxSaturationDenies
       THEN Serve(h, "refusing", BridgeWrite) /\ reply' = [reply EXCEPT ![h] = "deny"]
       ELSE Serve(h, "closed", 0) /\ UNCHANGED reply
    /\ UNCHANGED <<bridgeVars, clientVars, age, wire>>

(* accept() fails once, or shutdown() aborts the loop: the listener is     *)
(* dropped with whatever waits in its backlog.                             *)
StopListening ==
    /\ listening
    /\ listening' = FALSE
    /\ task' = [h \in Hooks |-> IF task[h] = "backlog" THEN "closed" ELSE task[h]]
    /\ UNCHANGED <<up, limit, clientVars, age, reply, wire, taskTimer>>

Answer(h, d) ==
    /\ Serve(h, "writing", BridgeWrite)
    /\ reply' = [reply EXCEPT ![h] = d]

(* serve_hook: a line that is no request, or a read deadline, is denied; a *)
(* request is decided at once or put to the host.                          *)
RejectFrame(h) ==
    /\ task[h] = "reading"
    /\ frame[h] = "bad" \/ (frame[h] = "none" /\ taskTimer[h] = 0)
    /\ Answer(h, "deny")
    /\ UNCHANGED <<bridgeVars, clientVars, age, wire>>

DecideAlone(h, d) ==
    /\ task[h] = "reading"
    /\ frame[h] = "call"
    /\ Answer(h, d)
    /\ UNCHANGED <<bridgeVars, clientVars, age, wire>>

MutAsksForTheClient(h) ==
    /\ task[h] = "reading"
    /\ frame[h] = "call"
    /\ Serve(h, "deciding", AgyTimeout)
    /\ UNCHANGED <<bridgeVars, clientVars, age, reply, wire>>
AskHost(h) ==
    /\ task[h] = "reading"
    /\ frame[h] = "call"
    /\ Serve(h, "deciding", limit)
    /\ UNCHANGED <<bridgeVars, clientVars, age, reply, wire>>

(* The host answers, or the turn's end abandons the request. *)
HostAnswers(h, d) ==
    /\ task[h] = "deciding"
    /\ Answer(h, d)
    /\ UNCHANGED <<bridgeVars, clientVars, age, wire>>

HostTimesOut(h) ==
    /\ task[h] = "deciding"
    /\ taskTimer[h] = 0
    /\ Answer(h, "deny")
    /\ UNCHANGED <<bridgeVars, clientVars, age, wire>>

Close(h) == Serve(h, "closed", 0)

Write(h) ==
    /\ task[h] \in {"writing", "refusing"}
    /\ wire' = [wire EXCEPT ![h] = reply[h]]
    /\ Close(h)
    /\ UNCHANGED <<bridgeVars, clientVars, age, reply>>

(* A peer that is still sending may leave no room to write to it. *)
WriteTimesOut(h) ==
    /\ task[h] \in {"writing", "refusing"}
    /\ client[h] = "sending" /\ taskTimer[h] = 0
    /\ \E w \in {"none", "cut"} : wire' = [wire EXCEPT ![h] = w]
    /\ Close(h)
    /\ UNCHANGED <<bridgeVars, clientVars, age, reply>>

(* The adapter ends, in the middle of any line it writes. *)
AdapterExits ==
    /\ up
    /\ up' = FALSE
    /\ listening' = FALSE
    /\ task' = [h \in Hooks |-> IF task[h] = "none" THEN "none" ELSE "closed"]
    /\ taskTimer' = [h \in Hooks |-> 0]
    /\ \E torn \in SUBSET {h \in Hooks : task[h] \in {"writing", "refusing"}} :
         wire' = [h \in Hooks |-> IF h \in torn THEN "cut" ELSE wire[h]]
    /\ UNCHANGED <<limit, clientVars, age, reply>>

-----------------------------------------------------------------------------
(* The clock. *)

Active(h) == client[h] \in Calling \/ task[h] \notin {"none", "closed"}

(* Something that happens before the next second. *)
Due(h) ==
    \/ task[h] = "backlog"
    \/ task[h] = "reading" /\ frame[h] # "none"
    \/ task[h] \in Timed /\ taskTimer[h] = 0
    \/ task[h] \in {"writing", "refusing"} /\ client[h] # "sending"
    \/ client[h] \in Calling /\ (clientTimer[h] = 0 \/ age[h] >= AgyTimeout)
    \/ client[h] = "sending" /\ task[h] = "closed"
    \/ client[h] = "waiting" /\ Readable(h)

Tick ==
    /\ \E h \in Hooks : Active(h)
    /\ \A h \in Hooks : ~Due(h)
    /\ age' = [h \in Hooks |-> IF Active(h) THEN age[h] + 1 ELSE 0]
    /\ clientTimer' = [h \in Hooks |-> IF client[h] \in Calling THEN clientTimer[h] - 1 ELSE 0]
    /\ taskTimer' = [h \in Hooks |-> IF task[h] \in Timed THEN taskTimer[h] - 1 ELSE 0]
    /\ UNCHANGED <<bridgeVars, client, frame, verdict, task, reply, wire>>

ClientStep(h) ==
    \/ \E f \in {"call", "bad"} : Send(h, f)
    \/ SendFails(h) \/ Receive(h)

TaskStep(h) ==
    \/ Accept(h) \/ AcceptSaturated(h) \/ RejectFrame(h)
    \/ \E d \in Decisions : DecideAlone(h, d)
    \/ AskHost(h) \/ HostTimesOut(h) \/ Write(h) \/ WriteTimesOut(h)

Outside(h) ==
    \/ Connect(h) \/ ConnectFails(h) \/ Killed(h)
    \/ \E d \in Decisions : HostAnswers(h, d)

(* Every hook has run: nothing more can happen. *)
Over == (\A h \in Hooks : ~Active(h) /\ client[h] = "done") /\ UNCHANGED vars

Next ==
    \/ \E h \in Hooks : ClientStep(h) \/ TaskStep(h) \/ Outside(h)
    \/ Tick \/ StopListening \/ AdapterExits \/ Over

Spec == Init /\ [][Next]_vars

-----------------------------------------------------------------------------
(* Both ends, their timers and the line between them stay in their types. *)
TypeOK ==
    /\ up \in BOOLEAN /\ listening \in BOOLEAN
    /\ limit \in Nat
    /\ client \in [Hooks -> {"idle", "done"} \cup Calling]
    /\ frame \in [Hooks -> {"none", "bad", "call"}]
    /\ clientTimer \in [Hooks -> Nat]
    /\ verdict \in [Hooks -> {"none"} \cup Ends]
    /\ age \in [Hooks -> Nat]
    /\ task \in [Hooks -> {"none", "backlog", "closed"} \cup Timed]
    /\ reply \in [Hooks -> {"none"} \cup Decisions]
    /\ wire \in [Hooks -> {"none", "cut"} \cup Decisions]
    /\ taskTimer \in [Hooks -> Nat]

(* The deadlines are in order (frame.rs: bridge wait < hook wait < agy     *)
(* timeout): whatever takes how long, the bridge's answer is there before  *)
(* the client gives up waiting for it, and before agy gives up on the      *)
(* client.                                                                 *)
NobodyGivesUpFirst == \A h \in Hooks : verdict[h] \notin {"late", "aborted"}

(* The permits bound the work, and none is kept: no more calls are put to  *)
(* the host at once than there are connections, a connection is over       *)
(* within its deadlines, and one refused for saturation within the write   *)
(* deadline alone.                                                         *)
PermitsComeBack ==
    /\ Busy({"deciding"}) <= MaxConnections
    /\ \A h \in Hooks :
        /\ task[h] \in HoldsPermit => age[h] <= BridgeRead + limit + BridgeWrite
        /\ task[h] = "refusing" => age[h] <= BridgeWrite

(* What agy sees of it: a client that has gone without a word is no        *)
(* verdict at all.                                                         *)
Told(h) ==
    CASE verdict[h] \in {"late", "aborted"} -> "killed"
      [] client[h] = "done" /\ verdict[h] = "none" -> "silence"
      [] OTHER -> verdict[h]

Gate == INSTANCE HookGate WITH
    asked <- [h \in Hooks |-> client[h] # "idle"],
    decided <- reply,
    broken <- ~up,
    verdict <- [h \in Hooks |-> Told(h)]

(* No path fails open, and none leaves agy without a decision: a hook      *)
(* comes back with an allowance only if one was decided, and with a denial *)
(* of what was allowed only if the adapter is gone.                        *)
FailsClosed == Gate!Spec
=============================================================================
