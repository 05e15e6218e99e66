------------------------------ MODULE Dispatcher ------------------------------
(***************************************************************************)
(* The main loop (src/main.rs) with the prompt tasks it spawns, the        *)
(* adapter mutex they share with it and the registry of cancel tokens      *)
(* (src/cancel.rs).  The loop is the only writer of stdout: tasks reach it *)
(* through one channel, on which a sentinel counts a prompt as finished.   *)
(*                                                                         *)
(* A turn is reduced to what the loop can see of it: the updates and the   *)
(* permission request it sends, how it may end, and that it holds the      *)
(* mutex throughout.  The request's life inside the bridge is the subject  *)
(* of PermissionBridge; here it is open or settled.                        *)
(*                                                                         *)
(* An operator named Mut... is a bug the model checker must notice: it is  *)
(* not part of the specification.                                          *)
(***************************************************************************)
EXTENDS Integers, Sequences, FiniteSets

CONSTANTS
    Sessions,       \* ACP session ids
    Prompts,        \* session/prompt requests, each sent at most once
    Inlines,        \* requests served under the mutex by the loop itself
    Cancels,        \* session/cancel messages, each sent at most once
    Notifications,  \* those of them without an id
    SessionOf,      \* [Prompts \cup Cancels -> Sessions]
    Main,           \* the loop, as a waiter of the mutex
    MaxUpdates      \* bound on the session/update notifications of a turn

ASSUME IdsAssumption ==
    /\ SessionOf \in [Prompts \cup Cancels -> Sessions]
    /\ Notifications \subseteq Cancels
    /\ Prompts \cap Inlines = {} /\ Prompts \cap Cancels = {} /\ Inlines \cap Cancels = {}
    /\ Main \notin Prompts
    /\ IsFiniteSet(Prompts)

ASSUME BoundsAssumption == MaxUpdates \in Nat

VARIABLES
    hostOpen,       \* the host has not closed our stdin
    sent,           \* messages the host has written
    inbox,          \* rx: lines read from stdin
    out,            \* out_rx: lines for stdout, and sentinels
    stdinOpen, pendingPrompts, \* main's locals of these names
    at,             \* where the loop is
    line,           \* the line it is dispatching
    answered,       \* responses on stdout, by request
    shown,          \* prompts whose permission request is on stdout
    lock,           \* the adapter mutex: its holder, then its waiters in order
    registry,       \* CancelRegistry.inner
    cancelled,      \* the tokens
    task,           \* the spawned prompt tasks
    updates,        \* notifications each turn has sent
    ask             \* the permission request of each turn

hostVars == <<hostOpen, sent>>
loopVars == <<stdinOpen, pendingPrompts, at, line, answered, shown>>
taskVars == <<lock, registry, cancelled, task, updates, ask>>
vars == <<hostVars, inbox, out, loopVars, taskVars>>

Messages == Prompts \cup Inlines \cup Cancels
Ids == Messages \ Notifications

KindOf(m) == IF m \in Prompts THEN "prompt" ELSE IF m \in Inlines THEN "inline" ELSE "cancel"
NoLine == [kind |-> "none", id |-> Main]
Lines == {[kind |-> KindOf(m), id |-> m] : m \in Messages} \cup [kind : {"answer"}, id : Prompts]
Outputs == [kind : {"update", "ask", "response", "sentinel"}, id : Prompts]

(* A task owns its token from registration until it unregisters it. *)
Registered == {"spawned", "waiting", "running", "returned"}
InFlight == Registered \cup {"unregistered", "responded"}

Init ==
    /\ hostOpen = TRUE
    /\ sent = {}
    /\ inbox = <<>>
    /\ out = <<>>
    /\ stdinOpen = TRUE
    /\ pendingPrompts = 0
    /\ at = "select"
    /\ line = NoLine
    /\ answered = [r \in Ids |-> 0]
    /\ shown = {}
    /\ lock = <<>>
    /\ registry = [s \in Sessions |-> {}]
    /\ cancelled = [p \in Prompts |-> FALSE]
    /\ task = [p \in Prompts |-> "none"]
    /\ updates = [p \in Prompts |-> 0]
    /\ ask = [p \in Prompts |-> "none"]

-----------------------------------------------------------------------------
(* The host.  It answers a permission request only once it has seen it.    *)

Sends(l) == inbox' = Append(inbox, l)

SendMessage(m) ==
    /\ hostOpen
    /\ m \notin sent
    /\ sent' = sent \cup {m}
    /\ Sends([kind |-> KindOf(m), id |-> m])
    /\ UNCHANGED <<hostOpen, out, loopVars, taskVars>>

SendAnswer(p) ==
    /\ hostOpen
    /\ p \in shown
    /\ shown' = shown \ {p}
    /\ Sends([kind |-> "answer", id |-> p])
    /\ UNCHANGED <<hostVars, out, stdinOpen, pendingPrompts, at, line, answered, taskVars>>

CloseStdin ==
    /\ hostOpen
    /\ hostOpen' = FALSE
    /\ UNCHANGED <<sent, inbox, out, loopVars, taskVars>>

-----------------------------------------------------------------------------
(* The loop. *)

AllServed == ~stdinOpen /\ pendingPrompts = 0

(* usize::saturating_sub *)
FinishedOne == IF pendingPrompts = 0 THEN 0 ELSE pendingPrompts - 1

(* Takes the next item of the channel: a line is written and flushed, a    *)
(* sentinel is counted.                                                    *)
TakeOutput ==
    /\ out # <<>>
    /\ out' = Tail(out)
    /\ LET o == Head(out) IN
         /\ pendingPrompts' = IF o.kind = "sentinel" THEN FinishedOne ELSE pendingPrompts
         /\ answered' = IF o.kind = "response" THEN [answered EXCEPT ![o.id] = @ + 1]
                                               ELSE answered
         /\ shown' = IF o.kind = "ask" THEN shown \cup {o.id} ELSE shown
    /\ UNCHANGED <<hostVars, inbox, stdinOpen, at, line, taskVars>>

Forward ==
    /\ at = "select" /\ ~AllServed
    /\ TakeOutput

TakeLine ==
    /\ at = "select"
    /\ stdinOpen
    /\ inbox # <<>>
    /\ line' = Head(inbox)
    /\ inbox' = Tail(inbox)
    /\ at' = "flush"
    /\ UNCHANGED <<hostVars, out, stdinOpen, pendingPrompts, answered, shown, taskVars>>

SeeEof ==
    /\ at = "select"
    /\ stdinOpen
    /\ inbox = <<>> /\ ~hostOpen
    /\ stdinOpen' = FALSE
    /\ UNCHANGED <<hostVars, inbox, out, pendingPrompts, at, line, answered, shown, taskVars>>

(* The `while let Ok(..) = out_rx.try_recv()` before a line is dispatched. *)
Flush ==
    /\ at = "flush"
    /\ TakeOutput

(* A line is dispatched once the channel has been seen empty. *)
Dispatches(kind) ==
    /\ at = "flush"
    /\ out = <<>>
    /\ line.kind = kind

Dispatched == at' = "select" /\ line' = NoLine

MutOneTokenPerSession(p) == [registry EXCEPT ![SessionOf[p]] = {p}]
WithToken(p) == [registry EXCEPT ![SessionOf[p]] = @ \cup {p}]

DispatchPrompt ==
    /\ Dispatches("prompt")
    /\ registry' = WithToken(line.id)
    /\ task' = [task EXCEPT ![line.id] = "spawned"]
    /\ pendingPrompts' = pendingPrompts + 1
    /\ Dispatched
    /\ UNCHANGED <<hostVars, inbox, out, stdinOpen, answered, shown, lock, cancelled, updates, ask>>

Settle(P) == ask' = [p \in Prompts |-> IF p \in P /\ ask[p] = "open" THEN "settled" ELSE ask[p]]

(* A response the loop writes by itself: it does not pass the channel. *)
MutAnswersTheTurn(m) ==
    answered' = [r \in Ids |->
                   IF r = m \/ (m \in Cancels /\ r \in registry[SessionOf[m]])
                   THEN answered[r] + 1 ELSE answered[r]]
WriteResponse(m) == answered' = IF m \in Ids THEN [answered EXCEPT ![m] = @ + 1] ELSE answered

(* Neither the cancel arms nor an answer take the mutex. *)
DispatchCancel ==
    /\ Dispatches("cancel")
    /\ LET s == SessionOf[line.id] IN
         /\ cancelled' = [p \in Prompts |-> cancelled[p] \/ p \in registry[s]]
         /\ Settle({p \in Prompts : SessionOf[p] = s})
    /\ WriteResponse(line.id)
    /\ Dispatched
    /\ UNCHANGED <<hostVars, inbox, out, stdinOpen, pendingPrompts, shown, lock, registry,
                   task, updates>>

DispatchAnswer ==
    /\ Dispatches("answer")
    /\ Settle({line.id})
    /\ Dispatched
    /\ UNCHANGED <<hostVars, inbox, out, stdinOpen, pendingPrompts, answered, shown, lock,
                   registry, cancelled, task, updates>>

(* initialize, session/new, load, resume, set_model, set_config_option:    *)
(* the loop itself waits for the mutex...                                  *)
DispatchInline ==
    /\ Dispatches("inline")
    /\ lock' = Append(lock, Main)
    /\ at' = "lock"
    /\ UNCHANGED <<hostVars, inbox, out, stdinOpen, pendingPrompts, line, answered, shown,
                   registry, cancelled, task, updates, ask>>

(* ... and writes the response itself. *)
ServeInline ==
    /\ at = "lock"
    /\ Head(lock) = Main
    /\ lock' = Tail(lock)
    /\ WriteResponse(line.id)
    /\ Dispatched
    /\ UNCHANGED <<hostVars, inbox, out, stdinOpen, pendingPrompts, shown, registry, cancelled,
                   task, updates, ask>>

Exit ==
    /\ at = "select"
    /\ AllServed
    /\ at' = "exited"
    /\ UNCHANGED <<hostVars, inbox, out, stdinOpen, pendingPrompts, line, answered, shown, taskVars>>

-----------------------------------------------------------------------------
(* A prompt task. *)

Advance(p, from, to) == task[p] = from /\ task' = [task EXCEPT ![p] = to]
Emits(p, kind) == out' = Append(out, [kind |-> kind, id |-> p])

(* First poll: the task queues on the mutex, behind whoever came before. *)
Enqueue(p) ==
    /\ Advance(p, "spawned", "waiting")
    /\ lock' = Append(lock, p)
    /\ UNCHANGED <<hostVars, inbox, out, loopVars, registry, cancelled, updates, ask>>

(* The task holds the mutex and handle_session_prompt begins. *)
Begin(p) ==
    /\ lock # <<>> /\ Head(lock) = p
    /\ Advance(p, "waiting", "running")
    /\ UNCHANGED <<hostVars, inbox, out, loopVars, lock, registry, cancelled, updates, ask>>

(* publish_stream_notifications, from the reader the turn joins before it  *)
(* ends.                                                                   *)
MutReaderOutlivesTurn(p) == task[p] \in {"running", "returned", "unregistered", "responded"}
ReaderRuns(p) == task[p] = "running"

MutSendsSentinel == "sentinel"
PublishedAs == "update"

Publish(p) ==
    /\ ReaderRuns(p)
    /\ updates[p] < MaxUpdates
    /\ updates' = [updates EXCEPT ![p] = @ + 1]
    /\ Emits(p, PublishedAs)
    /\ UNCHANGED <<hostVars, inbox, loopVars, lock, registry, cancelled, task, ask>>

(* A hook of the turn asks the host. *)
Ask(p) ==
    /\ task[p] = "running"
    /\ ask[p] = "none"
    /\ ask' = [ask EXCEPT ![p] = "open"]
    /\ Emits(p, "ask")
    /\ UNCHANGED <<hostVars, inbox, loopVars, lock, registry, cancelled, task, updates>>

(* The timer runs whether or not the loop has forwarded the request. *)
MutArmedWhenShown(p) == ask[p] = "open" /\ p \in shown
TimerRuns(p) == ask[p] = "open"

AskTimesOut(p) ==
    /\ TimerRuns(p)
    /\ Settle({p})
    /\ UNCHANGED <<hostVars, inbox, out, loopVars, lock, registry, cancelled, task, updates>>

(* handle_session_prompt returns: the mutex is released, and the teardown  *)
(* has settled the request.                                                *)
Return(p) ==
    /\ Advance(p, "running", "returned")
    /\ lock' = Tail(lock)
    /\ Settle({p})
    /\ UNCHANGED <<hostVars, inbox, out, loopVars, registry, cancelled, updates>>

(* agy finishes by itself; it waits for its hook first. *)
AgyFinishes(p) == ask[p] # "open" /\ Return(p)

(* agy fails to start or dies, whatever it was waiting for. *)
AgyDies(p) == Return(p)

(* The drain notices the token and kills the tree. *)
MutWaitsForTheHook(p) == cancelled[p] /\ ask[p] # "open" /\ Return(p)
NoticeCancel(p) == cancelled[p] /\ Return(p)

(* By identity: another turn of the session keeps its token. *)
WithoutToken(p) == [registry EXCEPT ![SessionOf[p]] = @ \ {p}]

Unregister(p) ==
    /\ Advance(p, "returned", "unregistered")
    /\ registry' = WithoutToken(p)
    /\ UNCHANGED <<hostVars, inbox, out, loopVars, lock, cancelled, updates, ask>>

SendFirst(p) == Advance(p, "unregistered", "responded") /\ Emits(p, "response")

Respond(p) ==
    /\ SendFirst(p)
    /\ UNCHANGED <<hostVars, inbox, loopVars, lock, registry, cancelled, updates, ask>>

SignalEnd(p) ==
    /\ Advance(p, "responded", "ended")
    /\ Emits(p, "sentinel")
    /\ UNCHANGED <<hostVars, inbox, loopVars, lock, registry, cancelled, updates, ask>>

-----------------------------------------------------------------------------
HostStep ==
    \/ \E m \in Messages : SendMessage(m)
    \/ \E p \in Prompts : SendAnswer(p)
    \/ CloseStdin

LoopStep ==
    \/ Forward \/ TakeLine \/ SeeEof \/ Flush \/ Exit
    \/ DispatchPrompt \/ DispatchCancel \/ DispatchAnswer \/ DispatchInline \/ ServeInline

(* The steps a task takes by itself. *)
TaskRuns(p) ==
    Enqueue(p) \/ Begin(p) \/ NoticeCancel(p) \/ Unregister(p) \/ Respond(p) \/ SignalEnd(p)

TurnStep(p) == Publish(p) \/ Ask(p) \/ AskTimesOut(p) \/ AgyFinishes(p) \/ AgyDies(p)

(* After the loop the process ends: this is the only way it may stop. *)
Ended == at = "exited" /\ UNCHANGED vars

Next ==
    \/ at # "exited" /\ (HostStep \/ LoopStep \/ \E p \in Prompts : TaskRuns(p) \/ TurnStep(p))
    \/ Ended

Spec == Init /\ [][Next]_vars

(* The runtime polls ready tasks; select! cannot starve the loop as a      *)
(* whole.  Nothing is promised of agy or of the host.                      *)
Scheduled ==
    /\ WF_vars(LoopStep)
    /\ \A p \in Prompts : WF_vars(TaskRuns(p))

FairSpec == Spec /\ Scheduled

(* An agy that finishes once its hooks are answered, and the bridge's      *)
(* response timer: for those properties only that say so.                  *)
AgyAndTimers == \A p \in Prompts : WF_vars(AgyFinishes(p)) /\ WF_vars(AskTimesOut(p))

-----------------------------------------------------------------------------
(* The loop's state, the channels and every task stay in their types. *)
TypeOK ==
    /\ hostOpen \in BOOLEAN
    /\ sent \subseteq Messages
    /\ inbox \in Seq(Lines)
    /\ out \in Seq(Outputs)
    /\ stdinOpen \in BOOLEAN
    /\ pendingPrompts \in Nat
    /\ at \in {"select", "flush", "lock", "exited"}
    /\ line \in Lines \cup {NoLine}
    /\ answered \in [Ids -> Nat]
    /\ shown \subseteq Prompts
    /\ lock \in Seq(Prompts \cup {Main})
    /\ registry \in [Sessions -> SUBSET Prompts]
    /\ cancelled \in [Prompts -> BOOLEAN]
    /\ task \in [Prompts -> {"none", "ended"} \cup InFlight]
    /\ updates \in [Prompts -> 0 .. MaxUpdates]
    /\ ask \in [Prompts -> {"none", "open", "settled"}]

Owed == {p \in Prompts : \/ task[p] \in InFlight
                         \/ \E i \in DOMAIN out : out[i] = [kind |-> "sentinel", id |-> p]}

(* The count that decides when the process may exit is exactly the number  *)
(* of prompts whose sentinel has not been seen.                            *)
PendingPromptsExact == pendingPrompts = Cardinality(Owed)

(* A client sees no update of a turn it has been told is over. *)
UpdatesPrecedeTheResponse ==
    \A i, j \in DOMAIN out :
        /\ out[i].kind = "update" => answered[out[i].id] = 0
        /\ out[i].kind = "response" /\ out[j].kind = "update" /\ i < j => out[i].id # out[j].id

(* A cancel reaches every turn of its session that has not yet returned,   *)
(* queued ones included, and no turn of another session.                   *)
CancelReachesTheSession ==
    [][at = "flush" /\ line.kind = "cancel" /\ at' = "select" =>
         \A p \in Prompts :
            IF SessionOf[p] = SessionOf[line.id]
            THEN task[p] \in Registered => cancelled'[p]
            ELSE cancelled'[p] = cancelled[p]]_vars

(* However hung its agy is, and with no timer to help, a running turn that *)
(* was cancelled hands over its response.                                  *)
CancelEndsTheTurn ==
    \A p \in Prompts : task[p] = "running" /\ cancelled[p] ~> task[p] = "ended"

(* Once stdin is closed the process ends, every turn having been waited    *)
(* for: nobody waits on a permission request nobody can answer.            *)
ExitsAfterEof == AgyAndTimers => (~hostOpen ~> at = "exited")

(* What the loop owes its client, as a service: see RpcService. *)
Status ==
    [r \in Ids |-> CASE answered[r] > 1 -> "answered again"
                     [] answered[r] = 1 -> "answered"
                     [] answered[r] = 0 /\ r \in sent -> "open"
                     [] OTHER -> "unsent"]

Service == INSTANCE RpcService WITH
    Requests <- Ids, status <- Status, closed <- ~hostOpen, exited <- (at = "exited")

(* Every request is answered once, and none is left open by the exit. *)
ServesEveryRequest == Service!Spec

-----------------------------------------------------------------------------
(* main.rs: "Draining through the adapter mutex would put every cancel     *)
(* behind a running prompt, which is why this has its own lock": a cancel  *)
(* is never behind a running prompt.  Refuted by a run of its own.         *)
CancelUnread(c) == \E i \in DOMAIN inbox : inbox[i] = [kind |-> "cancel", id |-> c]

CancelIsNotBehindAPrompt == \A c \in Cancels : CancelUnread(c) ~> ~CancelUnread(c)
=============================================================================
