-------------------------- MODULE PermissionBridge --------------------------
(***************************************************************************)
(* The permission bridge (src/permission.rs): the only gate between agy's  *)
(* tool calls and the host.  Hook tasks decide concurrently with the turn  *)
(* that owns them, with the dispatcher (host answers, cancels, forgets)    *)
(* and with the turn's own teardown; every action below is one critical    *)
(* section of the bridge mutex, or one step taken without it.              *)
(*                                                                         *)
(* A hook is one PreToolUse invocation and is used once: a behaviour has   *)
(* as many tool calls as Hooks has members.  A JSON-RPC permission request *)
(* is identified with the hook that raises it.                             *)
(*                                                                         *)
(* An operator named Mut... is a bug the model checker must notice: it is  *)
(* not part of the specification.                                          *)
(***************************************************************************)
EXTENDS Integers

CONSTANTS
    Sessions,       \* ACP session ids
    Convs,          \* agy conversation ids
    Hooks,          \* hook invocations
    Calls,          \* tool calls (name and arguments)
    Keys,           \* third components of an AlwaysKey
    AllowKey,       \* [Calls -> Keys]: where "always allow" is remembered
    FingerprintKey, \* [Calls -> Keys]: where "always reject" is remembered
    AutoAllow,      \* calls whose tool AutoAllowPolicy::allows
    Escapes,        \* calls that leave the workspace or look sensitive
    HookRootCalls,  \* calls naming the adapter's own hook directory
    None,           \* no session, no conversation
    MaxTurns        \* bound on the turns of a behaviour

ASSUME MaxTurnsAssumption == MaxTurns \in Nat

ASSUME CallsAssumption ==
    /\ AllowKey \in [Calls -> Keys]
    /\ FingerprintKey \in [Calls -> Keys]
    /\ None \notin Sessions \cup Convs

VARIABLES
    conversations,  \* BridgeState.conversations
    activeSession,  \* BridgeState.active_session
    pending,        \* BridgeState.pending: the session of each open request
    always,         \* BridgeState.always, by session and key
    refused,        \* BridgeState.refused_during_prompt
    generation,     \* BridgeState.turn_generation
    turn,           \* the running handle_session_prompt
    hook,           \* the hook tasks, each inside `decide`
    shown,          \* requests handed to the host
    outOpen         \* the output channel still has its receiver

bridgeVars == <<conversations, activeSession, pending, always, refused, generation>>
vars == <<bridgeVars, turn, hook, shown, outOpen>>

-----------------------------------------------------------------------------
(* What `decide` can conclude.  The reason it returns determines the       *)
(* decision; only some of the denials are the user's own.                  *)

Allowing == {"autoAllowed", "rememberedAllow", "approved"}
UserRefusals == {"rememberedDeny", "declined", "dismissed", "timedOut"}
BridgeDenials == {"noSession", "turnEnded", "hookRoot", "abandoned", "closed"}
Outcomes == {"undecided"} \cup Allowing \cup UserRefusals \cup BridgeDenials

(* A host reply: an option, or anything else (`kind != "selected"`).       *)
HostAnswers == {"allow_once", "allow_always", "reject_once", "reject_always", "dismissed"}
Answers == {"none", "abandoned"} \cup HostAnswers

TurnPhases == {"idle", "starting", "running", "flagRead", "registered", "cleared"}
HookPcs == {"off", "arrived", "resolved", "screened", "denyChecked", "unregistered",
            "registered", "waiting", "timedOut", "answered", "marking", "storing", "done"}

HookRecords ==
    [pc : HookPcs, call : Calls, conv : Convs \cup {None},
     session : Sessions \cup {None}, turn : Nat, answer : Answers, outcome : Outcomes]

NoTurn == [phase |-> "idle", session |-> None, conv |-> None, denied |-> FALSE]

Init ==
    /\ conversations = [c \in Convs |-> None]
    /\ activeSession = None
    /\ pending = [h \in Hooks |-> None]
    /\ always = [s \in Sessions |-> [k \in Keys |-> "None"]]
    /\ refused = FALSE
    /\ generation = 0
    /\ turn = NoTurn
    /\ \E call \in [Hooks -> Calls] :
          hook = [h \in Hooks |->
                    [pc |-> "off", call |-> call[h], conv |-> None,
                     session |-> None, turn |-> 0, answer |-> "none",
                     outcome |-> "undecided"]]
    /\ shown = {}
    /\ outOpen = TRUE

(* Moves hook h to pc, changing nothing else of its record. *)
Goto(h, pc) == hook' = [hook EXCEPT ![h].pc = pc]

(* The outcome of h is known; pc is what remains to be done about it. *)
Conclude(h, outcome, pc) == hook' = [hook EXCEPT ![h].pc = pc, ![h].outcome = outcome]

(* h returns from `decide` with this outcome. *)
Decide(h, outcome) == Conclude(h, outcome, "done")

(* Sends Abandoned to each hook of H that is still listening.  Removing    *)
(* the entry and sending are one critical section.                         *)
MutAbandonSilently(H) ==
    /\ pending' = [h \in Hooks |-> IF h \in H THEN None ELSE pending[h]]
    /\ UNCHANGED hook

Abandon(H) ==
    /\ pending' = [h \in Hooks |-> IF h \in H THEN None ELSE pending[h]]
    /\ hook' = [h \in Hooks |->
                  IF h \in H THEN [hook[h] EXCEPT !.answer = "abandoned"] ELSE hook[h]]

PendingOf(s) == {h \in Hooks : pending[h] = s}
AllPending == {h \in Hooks : pending[h] # None}

(* "The turn that asked is still running": stronger than comparing the     *)
(* active session, which also holds for a later turn of that session.      *)
MutComparesSession(h) == activeSession = hook[h].session
MutComparesNothing(h) == TRUE
StillItsTurn(h) == generation = hook[h].turn

(* The generation moves at both edges of a turn (u64, wrapping).           *)
MutCountsDown == generation - 1
NextGeneration == generation + 1

-----------------------------------------------------------------------------
(* The turn: handle_session_prompt runs under the adapter mutex, so there  *)
(* is one at a time.                                                       *)

MutKeepsFlag == refused
FlagAtStart == FALSE

(* Every request still open at the start of a turn is stale, whoever       *)
(* raised it: a turn that failed to spawn leaves its own behind.           *)
MutSessionScopedDrain(s) == PendingOf(s)
StaleAtStart(s) == AllPending

(* set_active_session(Some): both the binding and the drain of whatever an *)
(* earlier turn left behind.                                               *)
StartTurn(s) ==
    /\ turn.phase = "idle"
    /\ generation < 2 * MaxTurns
    /\ turn' = [NoTurn EXCEPT !.phase = "starting", !.session = s]
    /\ activeSession' = s
    /\ generation' = NextGeneration
    /\ refused' = FlagAtStart
    /\ Abandon(StaleAtStart(s))
    /\ UNCHANGED <<conversations, always, shown, outOpen>>

(* agy resumes the conversation of its session or opens a new one. *)
Spawn(c) ==
    /\ turn.phase = "starting"
    /\ conversations[c] \in {None, turn.session}
    /\ turn' = [turn EXCEPT !.phase = "running", !.conv = c]
    /\ UNCHANGED <<bridgeVars, hook, shown, outOpen>>

(* spawn_agy_process failed: the binding is cleared and nothing else is. *)
SpawnFails ==
    /\ turn.phase = "starting"
    /\ turn' = NoTurn
    /\ activeSession' = None
    /\ generation' = NextGeneration
    /\ UNCHANGED <<conversations, pending, always, refused, hook, shown, outOpen>>

(* agy exited, was killed or became unreadable: teardown_turn begins by    *)
(* reading the flag.                                                       *)
ReadRefused ==
    /\ turn.phase = "running"
    /\ turn' = [turn EXCEPT !.phase = "flagRead", !.denied = refused]
    /\ UNCHANGED <<bridgeVars, hook, shown, outOpen>>

(* The stream may have bound the conversation or have died before that. *)
RegisterConversation ==
    /\ turn.phase = "flagRead"
    /\ \E bound \in BOOLEAN :
          conversations' = IF bound THEN [conversations EXCEPT ![turn.conv] = turn.session]
                                    ELSE conversations
    /\ turn' = [turn EXCEPT !.phase = "registered"]
    /\ UNCHANGED <<activeSession, pending, always, refused, generation, hook, shown, outOpen>>

(* set_active_session(None) *)
ClearActive ==
    /\ turn.phase = "registered"
    /\ turn' = [turn EXCEPT !.phase = "cleared"]
    /\ activeSession' = None
    /\ generation' = NextGeneration
    /\ UNCHANGED <<conversations, pending, always, refused, hook, shown, outOpen>>

(* abandon_pending at the end of teardown_turn *)
MutForgetsRequests == {}
LeftAtTeardown == PendingOf(turn.session)

AbandonAtTeardown ==
    /\ turn.phase = "cleared"
    /\ Abandon(LeftAtTeardown)
    /\ turn' = NoTurn
    /\ UNCHANGED <<conversations, activeSession, always, refused, generation, shown, outOpen>>

-----------------------------------------------------------------------------
(* The dispatcher. *)

(* session/cancel abandons the session's requests at any moment, before,   *)
(* during or after its turn.                                               *)
Cancel(s) ==
    /\ PendingOf(s) # {}
    /\ Abandon(PendingOf(s))
    /\ UNCHANGED <<conversations, activeSession, always, refused, generation, turn, shown,
                   outOpen>>

(* forget_session, for a session evicted since the last loop iteration. *)
ForgetSession(s) ==
    /\ always' = [always EXCEPT ![s] = [k \in Keys |-> "None"]]
    /\ conversations' = [c \in Convs |-> IF conversations[c] = s THEN None ELSE conversations[c]]
    /\ UNCHANGED <<activeSession, pending, refused, generation, turn, hook, shown, outOpen>>

(* resolve_response: an answer to a request no longer pending is dropped.  *)
(* A receiver that timed out a moment ago never sees the value.            *)
HostAnswer(h, a) ==
    /\ h \in shown
    /\ pending[h] # None
    /\ pending' = [pending EXCEPT ![h] = None]
    /\ hook' = [hook EXCEPT ![h].answer = a]
    /\ UNCHANGED <<conversations, activeSession, always, refused, generation, turn, shown,
                   outOpen>>

(* main returns and drops out_rx. *)
CloseOutput ==
    /\ outOpen
    /\ outOpen' = FALSE
    /\ UNCHANGED <<bridgeVars, turn, hook, shown>>

-----------------------------------------------------------------------------
(* The hook task. *)

(* agy's hook process writes its frame.  The task serving it may not be    *)
(* polled until long after.                                                *)
Arrive(h) ==
    /\ turn.phase = "running"
    /\ hook[h].pc = "off"
    /\ hook' = [hook EXCEPT ![h].pc = "arrived", ![h].conv = turn.conv]
    /\ UNCHANGED <<bridgeVars, turn, shown, outOpen>>

(* The owner of a conversation; one not observed yet is the running turn's. *)
SessionOf(conv) ==
    IF conv \in Convs /\ conversations[conv] # None THEN conversations[conv] ELSE activeSession

(* The first critical section of `decide`. *)
Resolve(h) ==
    /\ hook[h].pc = "arrived"
    /\ LET s == SessionOf(hook[h].conv) IN
         \/ /\ s = None
            /\ Decide(h, "noSession")
         \/ /\ s # None /\ activeSession # s
            /\ Decide(h, "turnEnded")
         \/ /\ s # None /\ activeSession = s
            /\ hook' = [hook EXCEPT ![h].pc = "resolved", ![h].session = s,
                                    ![h].turn = generation]
    /\ UNCHANGED <<bridgeVars, turn, shown, outOpen>>

(* The hook-root refusal and the auto-allow policy: both read state that   *)
(* is fixed before the first turn reaches agy.                             *)
Screen(h) ==
    /\ hook[h].pc = "resolved"
    /\ LET call == hook[h].call IN
         \/ call \in HookRootCalls /\ Decide(h, "hookRoot")
         \/ call \in (AutoAllow \ Escapes) \ HookRootCalls /\ Decide(h, "autoAllowed")
         \/ call \notin (AutoAllow \ Escapes) \cup HookRootCalls /\ Goto(h, "screened")
    /\ UNCHANGED <<bridgeVars, turn, shown, outOpen>>

Remembered(h, key) == always[hook[h].session][key[hook[h].call]]

(* remembered_decision, first lookup: a deny is marked in a later section. *)
LookupDeny(h) ==
    /\ hook[h].pc = "screened"
    /\ IF Remembered(h, FingerprintKey) = "Deny"
       THEN Conclude(h, "rememberedDeny", "marking")
       ELSE Goto(h, "denyChecked")
    /\ UNCHANGED <<bridgeVars, turn, shown, outOpen>>

(* remembered_decision, second lookup: an allow is honoured only for a     *)
(* call that stays contained.                                              *)
MutIgnoresContainment(h) == Remembered(h, AllowKey) = "Allow"
Honoured(h) == Remembered(h, AllowKey) = "Allow" /\ hook[h].call \notin Escapes

LookupAllow(h) ==
    /\ hook[h].pc = "denyChecked"
    /\ IF Honoured(h)
       THEN Decide(h, "rememberedAllow")
       ELSE Goto(h, "unregistered")
    /\ UNCHANGED <<bridgeVars, turn, shown, outOpen>>

(* register_pending revalidates the turn. *)
RegisterPending(h) ==
    /\ hook[h].pc = "unregistered"
    /\ \/ /\ ~StillItsTurn(h)
          /\ Decide(h, "turnEnded")
          /\ UNCHANGED pending
       \/ /\ StillItsTurn(h)
          /\ pending' = [pending EXCEPT ![h] = hook[h].session]
          /\ Goto(h, "registered")
    /\ UNCHANGED <<conversations, activeSession, always, refused, generation, turn, shown,
                   outOpen>>

(* The request goes to the host, or the entry is withdrawn. *)
SendRequest(h) ==
    /\ hook[h].pc = "registered"
    /\ \/ /\ outOpen
          /\ shown' = shown \cup {h}
          /\ Goto(h, "waiting")
          /\ UNCHANGED pending
       \/ /\ ~outOpen
          /\ pending' = [pending EXCEPT ![h] = None]
          /\ Decide(h, "closed")
          /\ UNCHANGED shown
    /\ UNCHANGED <<conversations, activeSession, always, refused, generation, turn, outOpen>>

(* The oneshot resolved. *)
MutWaitsForTheHost(h) ==
    /\ hook[h].pc = "waiting"
    /\ hook[h].answer \in HostAnswers
    /\ Goto(h, "answered")
    /\ UNCHANGED <<bridgeVars, turn, shown, outOpen>>

Receive(h) ==
    /\ hook[h].pc = "waiting"
    /\ \/ /\ hook[h].answer = "abandoned"
          /\ Decide(h, "abandoned")
       \/ /\ hook[h].answer \in HostAnswers
          /\ Goto(h, "answered")
    /\ UNCHANGED <<bridgeVars, turn, shown, outOpen>>

(* response_timeout expired on an unresolved oneshot. *)
Timeout(h) ==
    /\ hook[h].pc = "waiting"
    /\ hook[h].answer = "none"
    /\ Goto(h, "timedOut")
    /\ UNCHANGED <<bridgeVars, turn, shown, outOpen>>

WithdrawTimedOut(h) ==
    /\ hook[h].pc = "timedOut"
    /\ pending' = [pending EXCEPT ![h] = None]
    /\ Conclude(h, "timedOut", "marking")
    /\ UNCHANGED <<conversations, activeSession, always, refused, generation, turn, shown,
                   outOpen>>

(* apply_outcome, up to its first lock. *)
ApplyOutcome(h) ==
    /\ hook[h].pc = "answered"
    /\ LET a == hook[h].answer IN
         \/ /\ a = "dismissed"
            /\ Conclude(h, "dismissed", "marking")
         \/ /\ a \in {"reject_once", "reject_always"}
            /\ Conclude(h, "declined", "marking")
         \/ /\ a = "allow_once"
            /\ Decide(h, "approved")
         \/ /\ a = "allow_always"
            /\ Conclude(h, "approved", "storing")
    /\ UNCHANGED <<bridgeVars, turn, shown, outOpen>>

(* mark_user_refusal: dropped when the turn that asked is over. *)
MarkRefusal(h) ==
    /\ hook[h].pc = "marking"
    /\ refused' = (refused \/ StillItsTurn(h))
    /\ Goto(h, IF hook[h].outcome = "declined" /\ hook[h].answer = "reject_always"
               THEN "storing" ELSE "done")
    /\ UNCHANGED <<conversations, activeSession, pending, always, generation, turn, shown,
                   outOpen>>

(* An allow is stored under the key its label named, a deny always under   *)
(* the fingerprint.                                                        *)
Allowed(h) == hook[h].outcome = "approved"
MutOneKeyForBoth(h) == AllowKey[hook[h].call]
StickyKey(h) == IF Allowed(h) THEN AllowKey[hook[h].call] ELSE FingerprintKey[hook[h].call]

(* The sticky insert of apply_outcome, for a live turn only. *)
StoreSticky(h) ==
    /\ hook[h].pc = "storing"
    /\ always' = IF StillItsTurn(h)
                 THEN [always EXCEPT ![hook[h].session][StickyKey(h)] =
                                        IF Allowed(h) THEN "Allow" ELSE "Deny"]
                 ELSE always
    /\ Goto(h, "done")
    /\ UNCHANGED <<conversations, activeSession, pending, refused, generation, turn, shown,
                   outOpen>>

-----------------------------------------------------------------------------
Teardown == ReadRefused \/ RegisterConversation \/ ClearActive \/ AbandonAtTeardown

TurnStep ==
    \/ \E s \in Sessions : StartTurn(s)
    \/ \E c \in Convs : Spawn(c)
    \/ SpawnFails
    \/ Teardown

DispatcherStep ==
    \/ \E s \in Sessions : Cancel(s) \/ ForgetSession(s)
    \/ \E h \in Hooks, a \in HostAnswers : HostAnswer(h, a)
    \/ CloseOutput

(* The steps a hook takes by itself, without waiting for anybody. *)
HookRuns(h) ==
    \/ Resolve(h) \/ Screen(h) \/ LookupDeny(h) \/ LookupAllow(h)
    \/ RegisterPending(h) \/ SendRequest(h) \/ Receive(h)
    \/ WithdrawTimedOut(h) \/ ApplyOutcome(h) \/ MarkRefusal(h) \/ StoreSticky(h)

HookStep(h) == Arrive(h) \/ HookRuns(h) \/ Timeout(h)

Next == TurnStep \/ DispatcherStep \/ \E h \in Hooks : HookStep(h)

Spec == Init /\ [][Next]_vars

(* The runtime polls every ready task; teardown, once begun, runs to its   *)
(* end.  When agy exits, and whether the host answers, is not promised.    *)
TasksRun ==
    /\ \A h \in Hooks : WF_vars(HookRuns(h))
    /\ WF_vars(RegisterConversation \/ ClearActive \/ AbandonAtTeardown)

FairSpec == Spec /\ TasksRun

(* The timer of response_timeout fires: nine minutes that only those       *)
(* properties may wait for that say so.                                    *)
TimersFire == \A h \in Hooks : WF_vars(Timeout(h))

-----------------------------------------------------------------------------
(* The bridge's state, the turn and every hook stay in their types. *)
TypeOK ==
    /\ conversations \in [Convs -> Sessions \cup {None}]
    /\ activeSession \in Sessions \cup {None}
    /\ pending \in [Hooks -> Sessions \cup {None}]
    /\ always \in [Sessions -> [Keys -> {"None", "Allow", "Deny"}]]
    /\ refused \in BOOLEAN
    /\ generation \in Nat
    /\ turn \in [phase : TurnPhases, session : Sessions \cup {None},
                 conv : Convs \cup {None}, denied : BOOLEAN]
    /\ hook \in [Hooks -> HookRecords]
    /\ shown \subseteq Hooks
    /\ outOpen \in BOOLEAN

(* A hook whose refusal by the user has been recorded, or would be. *)
HasRefused(h) == hook[h].outcome \in UserRefusals /\ hook[h].pc \in {"storing", "done"}

(* While a turn runs, the one adapter-wide flag is exactly "the user       *)
(* refused a call that this turn asked about": no refusal of an earlier    *)
(* turn, however late its task is polled, and none of this turn is lost.   *)
RefusalFlagIsExact ==
    activeSession # None =>
        (refused <=> \E h \in Hooks : HasRefused(h) /\ hook[h].turn = generation)

(* A request left open by any earlier turn never reaches a running one: it *)
(* would time out into it and be marked there.                             *)
PendingBelongsToRunningTurn ==
    activeSession # None =>
        \A h \in AllPending : pending[h] = activeSession /\ hook[h].turn = generation

(* A hook that still waits for an answer can still get one: its entry is   *)
(* there to be answered, abandoned or drained.                             *)
NoLostRequest ==
    \A h \in Hooks :
        hook[h].pc \in {"registered", "waiting"} /\ hook[h].answer = "none"
            => pending[h] = hook[h].session

(* A tool call runs only with a warrant: the policy's, the user's answer   *)
(* to this very request, or an "always allow" the user gave in the same    *)
(* session under the key this call has; and never with the last when the   *)
(* call leaves the workspace.                                              *)
AllowIsWarranted ==
    \A h \in Hooks : hook[h].outcome \in Allowing =>
        /\ hook[h].call \notin HookRootCalls
        /\ \/ hook[h].call \in AutoAllow \ Escapes
           \/ hook[h].answer \in {"allow_once", "allow_always"}
           \/ /\ hook[h].call \notin Escapes
              /\ \E g \in Hooks : /\ hook[g].answer = "allow_always"
                                  /\ hook[g].outcome = "approved"
                                  /\ hook[g].session = hook[h].session
                                  /\ AllowKey[hook[g].call] = AllowKey[hook[h].call]

(* Nothing is remembered that the user did not say: every sticky entry has *)
(* the answer behind it, in the same session and as narrow as its label.   *)
RememberedWasSaid ==
    \A s \in Sessions, k \in Keys :
        /\ always[s][k] = "Allow" =>
             \E h \in Hooks : /\ hook[h].session = s
                              /\ hook[h].answer = "allow_always"
                              /\ AllowKey[hook[h].call] = k
        /\ always[s][k] = "Deny" =>
             \E h \in Hooks : /\ hook[h].session = s
                              /\ hook[h].answer = "reject_always"
                              /\ FingerprintKey[hook[h].call] = k

(* Sticky entries appear only for the session whose turn is running: an    *)
(* answer applied between turns, or in a later turn of another session,    *)
(* configures nothing.                                                     *)
StickyOnlyFromTheRunningTurn ==
    [][\A s \in Sessions, k \in Keys :
          always'[s][k] # always[s][k] => always'[s][k] = "None" \/ s = activeSession]_vars

(* What the turn reports as "refusal" is what the user refused in it. *)
TurnReportsItsOwnRefusals ==
    [][turn.phase = "running" /\ turn'.phase = "flagRead" =>
         (turn'.denied <=> \E h \in Hooks : HasRefused(h) /\ hook[h].turn = generation)]_vars

(* Every hook is answered in the end, by its timer if by nothing else,     *)
(* whatever the host, the turn and the dispatcher do: agy is never left    *)
(* hanging on its hook.                                                    *)
EveryHookIsAnswered ==
    TimersFire => \A h \in Hooks : hook[h].pc = "arrived" ~> hook[h].pc = "done"

(* A request open when its turn is torn down is answered by the teardown,  *)
(* without its timeout.                                                    *)
TeardownAnswersRequests ==
    \A h \in Hooks :
        (hook[h].pc = "waiting" /\ turn.phase = "cleared") ~> hook[h].pc = "done"

=============================================================================
