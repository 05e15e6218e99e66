---------------------- MODULE PermissionBridge_proofs ----------------------
(***************************************************************************)
(* Theorems about PermissionBridge, for every set of sessions, hooks and   *)
(* calls and any number of turns.                                          *)
(***************************************************************************)
EXTENDS PermissionBridge, TLAPS

-----------------------------------------------------------------------------
(* Type correctness *)

(* Replacing the record of one hook by a hook record keeps the map typed.  *)
LEMMA RecordReplaced ==
    ASSUME NEW f \in [Hooks -> HookRecords], NEW h \in Hooks, NEW r \in HookRecords
    PROVE  [f EXCEPT ![h] = r] \in [Hooks -> HookRecords]
OBVIOUS

(* Moving a hook to another place keeps its record one.                    *)
LEMMA GotoTyped ==
    ASSUME TypeOK, NEW h \in Hooks, NEW pc \in HookPcs, Goto(h, pc)
    PROVE  hook' \in [Hooks -> HookRecords]
<1>1. [hook[h] EXCEPT !.pc = pc] \in HookRecords
  <2>1. hook[h] \in HookRecords
    BY DEF TypeOK
  <2>. QED
    BY <2>1 DEF HookRecords
<1>2. hook' = [hook EXCEPT ![h] = [hook[h] EXCEPT !.pc = pc]]
  BY DEF Goto
<1>. QED
  BY <1>1, <1>2, RecordReplaced DEF TypeOK

(* Recording a conclusion and moving on, as decide does at every exit.     *)
LEMMA ConcludeTyped ==
    ASSUME TypeOK, NEW h \in Hooks, NEW o \in Outcomes, NEW pc \in HookPcs, Conclude(h, o, pc)
    PROVE  hook' \in [Hooks -> HookRecords]
<1>1. [hook[h] EXCEPT !.pc = pc, !.outcome = o] \in HookRecords
  <2>1. hook[h] \in HookRecords
    BY DEF TypeOK
  <2>. QED
    BY <2>1 DEF HookRecords
<1>2. hook' = [hook EXCEPT ![h] = [hook[h] EXCEPT !.pc = pc, !.outcome = o]]
  BY DEF Conclude
<1>. QED
  BY <1>1, <1>2, RecordReplaced DEF TypeOK

(* A decision ends the hook, which is one of the places it can be.         *)
LEMMA DecideTyped ==
    ASSUME TypeOK, NEW h \in Hooks, NEW o \in Outcomes, Decide(h, o)
    PROVE  hook' \in [Hooks -> HookRecords]
<1>1. "done" \in HookPcs
  BY DEF HookPcs
<1>. QED
  BY <1>1, ConcludeTyped DEF Decide

(* Delivering an answer through the oneshot keeps a hook record one.       *)
LEMMA AnswerTyped ==
    ASSUME NEW f \in [Hooks -> HookRecords], NEW h \in Hooks, NEW a \in Answers
    PROVE  [f EXCEPT ![h].answer = a] \in [Hooks -> HookRecords]
BY DEF HookRecords

(* What a hook can conclude, and where it can be. *)
LEMMA OutcomeValues ==
    {"noSession", "turnEnded", "hookRoot", "abandoned", "closed", "autoAllowed",
     "rememberedAllow", "approved", "rememberedDeny", "declined", "dismissed", "timedOut"}
      \subseteq Outcomes
BY DEF Outcomes, Allowing, UserRefusals, BridgeDenials

(* Accepting a hook and resolving its session write values of the right    *)
(* type.                                                                   *)
LEMMA HookBindings ==
    ASSUME NEW f \in [Hooks -> HookRecords], NEW h \in Hooks, NEW pc \in HookPcs, NEW n \in Nat
    PROVE  /\ \A s \in Sessions \cup {None} :
                 [f EXCEPT ![h].pc = pc, ![h].session = s, ![h].turn = n]
                   \in [Hooks -> HookRecords]
           /\ \A c \in Convs \cup {None} :
                 [f EXCEPT ![h].pc = pc, ![h].conv = c]
                   \in [Hooks -> HookRecords]
<1>1. ASSUME NEW s \in Sessions \cup {None}
      PROVE  [f EXCEPT ![h].pc = pc, ![h].session = s, ![h].turn = n] \in [Hooks -> HookRecords]
  <2>1. [f[h] EXCEPT !.pc = pc, !.session = s, !.turn = n] \in HookRecords
    <3>1. f[h] \in HookRecords
      OBVIOUS
    <3>. QED
      BY <3>1, <1>1 DEF HookRecords
  <2>2. [f EXCEPT ![h] = [f[h] EXCEPT !.pc = pc, !.session = s, !.turn = n]]
          \in [Hooks -> HookRecords]
    BY <2>1, RecordReplaced
  <2>. QED
    BY <2>2
<1>2. ASSUME NEW c \in Convs \cup {None}
      PROVE  [f EXCEPT ![h].pc = pc, ![h].conv = c] \in [Hooks -> HookRecords]
  <2>1. [f[h] EXCEPT !.pc = pc, !.conv = c] \in HookRecords
    <3>1. f[h] \in HookRecords
      OBVIOUS
    <3>. QED
      BY <3>1, <1>2 DEF HookRecords
  <2>2. [f EXCEPT ![h] = [f[h] EXCEPT !.pc = pc, !.conv = c]]
          \in [Hooks -> HookRecords]
    BY <2>1, RecordReplaced
  <2>. QED
    BY <2>2
<1>. QED
  BY <1>1, <1>2

(* Abandoning requests touches answers and entries only. *)
LEMMA AbandonTyped ==
    ASSUME TypeOK, NEW H, Abandon(H)
    PROVE  /\ hook' \in [Hooks -> HookRecords]
           /\ pending' \in [Hooks -> Sessions \cup {None}]
<1>1. ASSUME NEW h \in Hooks PROVE [hook[h] EXCEPT !.answer = "abandoned"] \in HookRecords
  <2>1. hook[h] \in HookRecords
    BY DEF TypeOK
  <2>. QED
    BY <2>1 DEF HookRecords, Answers
<1>. QED
  BY <1>1 DEF Abandon, TypeOK

(* The bridge starts with no pending request and no remembered answer.     *)
LEMMA TypeInit == Init => TypeOK
<1>. SUFFICES ASSUME Init PROVE TypeOK
  OBVIOUS
<1>1. hook \in [Hooks -> HookRecords]
  BY DEF Init, HookRecords, HookPcs, Answers, Outcomes
<1>2. turn \in [phase : TurnPhases, session : Sessions \cup {None},
                conv : Convs \cup {None}, denied : BOOLEAN]
  BY DEF Init, NoTurn, TurnPhases
<1>. QED
  BY <1>1, <1>2 DEF TypeOK, Init

(* Every critical section of the bridge keeps its state in its types.      *)
LEMMA TypeStep == TypeOK /\ [Next]_vars => TypeOK'
<1>. SUFFICES ASSUME TypeOK, [Next]_vars PROVE TypeOK'
  OBVIOUS
<1>. USE DEF TypeOK, bridgeVars,
         StillItsTurn, NextGeneration, StaleAtStart, FlagAtStart, LeftAtTeardown, Honoured,
         Allowed, StickyKey
<1>1. ASSUME NEW s \in Sessions, StartTurn(s) PROVE TypeOK'
  <2>1. /\ hook' \in [Hooks -> HookRecords]
        /\ pending' \in [Hooks -> Sessions \cup {None}]
    BY <1>1, AbandonTyped DEF StartTurn
  <2>2. turn' \in [phase : TurnPhases, session : Sessions \cup {None},
                   conv : Convs \cup {None}, denied : BOOLEAN]
    BY <1>1 DEF StartTurn, NoTurn, TurnPhases
  <2>3. generation' \in Nat
    BY <1>1 DEF StartTurn
  <2>4. refused' \in BOOLEAN /\ activeSession' \in Sessions \cup {None}
    BY <1>1 DEF StartTurn
  <2>. QED
    BY <1>1, <2>1, <2>2, <2>3, <2>4 DEF StartTurn
<1>2. ASSUME NEW c \in Convs, Spawn(c) PROVE TypeOK'
  BY <1>2 DEF Spawn, TurnPhases
<1>3. ASSUME SpawnFails PROVE TypeOK'
  BY <1>3 DEF SpawnFails, NoTurn, TurnPhases
<1>4. ASSUME ReadRefused PROVE TypeOK'
  BY <1>4 DEF ReadRefused, TurnPhases
<1>5. ASSUME RegisterConversation PROVE TypeOK'
  BY <1>5 DEF RegisterConversation, TurnPhases
<1>6. ASSUME ClearActive PROVE TypeOK'
  BY <1>6 DEF ClearActive, TurnPhases
<1>7. ASSUME AbandonAtTeardown PROVE TypeOK'
  BY <1>7, AbandonTyped DEF AbandonAtTeardown, NoTurn, TurnPhases
<1>8. ASSUME NEW s \in Sessions, Cancel(s) PROVE TypeOK'
  BY <1>8, AbandonTyped DEF Cancel
<1>9. ASSUME NEW s \in Sessions, ForgetSession(s) PROVE TypeOK'
  BY <1>9 DEF ForgetSession
<1>10. ASSUME NEW h \in Hooks, NEW a \in HostAnswers, HostAnswer(h, a) PROVE TypeOK'
  BY <1>10, AnswerTyped DEF HostAnswer, Answers
<1>11. ASSUME CloseOutput PROVE TypeOK'
  BY <1>11 DEF CloseOutput
<1>12. ASSUME NEW h \in Hooks, Arrive(h) PROVE TypeOK'
  <2>1. /\ turn.conv \in Convs \cup {None} /\ "arrived" \in HookPcs /\ generation \in Nat
        /\ hook \in [Hooks -> HookRecords]
    BY DEF HookPcs
  <2>2. hook' \in [Hooks -> HookRecords]
    BY <1>12, <2>1, HookBindings DEF Arrive
  <2>. QED
    BY <1>12, <2>2 DEF Arrive
<1>13. ASSUME NEW h \in Hooks, Resolve(h) PROVE TypeOK'
  <2>1. /\ activeSession \in Sessions \cup {None} /\ "resolved" \in HookPcs
        /\ generation \in Nat /\ hook \in [Hooks -> HookRecords]
    BY DEF HookPcs
  <2>2. hook' \in [Hooks -> HookRecords]
    <3>1. CASE \E o \in {"noSession", "turnEnded"} : Decide(h, o)
      BY <3>1, DecideTyped, OutcomeValues
    <3>2. CASE hook' = [hook EXCEPT ![h].pc = "resolved", ![h].session = activeSession,
                                    ![h].turn = generation]
      BY <3>2, <2>1, HookBindings
    <3>. QED
      BY <1>13, <3>1, <3>2 DEF Resolve
  <2>. QED
    BY <1>13, <2>2 DEF Resolve
<1>14. ASSUME NEW h \in Hooks, Screen(h) PROVE TypeOK'
  BY <1>14, GotoTyped, DecideTyped, OutcomeValues DEF Screen, HookPcs
<1>15. ASSUME NEW h \in Hooks, LookupDeny(h) PROVE TypeOK'
  BY <1>15, GotoTyped, ConcludeTyped, OutcomeValues DEF LookupDeny, HookPcs
<1>16. ASSUME NEW h \in Hooks, LookupAllow(h) PROVE TypeOK'
  BY <1>16, GotoTyped, DecideTyped, OutcomeValues DEF LookupAllow, HookPcs
<1>17. ASSUME NEW h \in Hooks, RegisterPending(h) PROVE TypeOK'
  BY <1>17, GotoTyped, DecideTyped, OutcomeValues DEF RegisterPending, HookPcs, HookRecords
<1>18. ASSUME NEW h \in Hooks, SendRequest(h) PROVE TypeOK'
  BY <1>18, GotoTyped, DecideTyped, OutcomeValues DEF SendRequest, HookPcs
<1>19. ASSUME NEW h \in Hooks, Receive(h) PROVE TypeOK'
  BY <1>19, GotoTyped, DecideTyped, OutcomeValues DEF Receive, HookPcs
<1>20. ASSUME NEW h \in Hooks, WithdrawTimedOut(h) PROVE TypeOK'
  BY <1>20, ConcludeTyped, OutcomeValues DEF WithdrawTimedOut, HookPcs
<1>21. ASSUME NEW h \in Hooks, ApplyOutcome(h) PROVE TypeOK'
  BY <1>21, ConcludeTyped, DecideTyped, OutcomeValues DEF ApplyOutcome, HookPcs
<1>22. ASSUME NEW h \in Hooks, MarkRefusal(h) PROVE TypeOK'
  BY <1>22, GotoTyped DEF MarkRefusal, HookPcs
<1>23. ASSUME NEW h \in Hooks, StoreSticky(h) PROVE TypeOK'
  BY <1>23, GotoTyped DEF StoreSticky, HookPcs, HookRecords
<1>24. ASSUME NEW h \in Hooks, Timeout(h) PROVE TypeOK'
  BY <1>24, GotoTyped DEF Timeout, HookPcs
<1>25. CASE UNCHANGED vars
  BY <1>25 DEF vars
<1>. QED
  BY <1>1, <1>2, <1>3, <1>4, <1>5, <1>6, <1>7, <1>8, <1>9, <1>10, <1>11, <1>12, <1>13,
     <1>14, <1>15, <1>16, <1>17, <1>18, <1>19, <1>20, <1>21, <1>22, <1>23, <1>24, <1>25
     DEF Next, TurnStep, Teardown, DispatcherStep, HookStep, HookRuns

(* The bridge's state, the turn and every hook stay in their types. *)
THEOREM TypeCorrect == Spec => []TypeOK
<1>. QED
  BY TypeInit, TypeStep, PTL DEF Spec
-----------------------------------------------------------------------------
(* The inductive invariant *)

(* The binding is set exactly while a prompt is inside its turn. *)
TurnBinding ==
    /\ turn.phase # "idle" => turn.session \in Sessions
    /\ activeSession # None => activeSession = turn.session
    /\ turn.phase \in {"starting", "running", "flagRead", "registered"} <=> activeSession # None

(* A hook's turn is the running one only if its session is: the generation *)
(* moves whenever the binding does.                                        *)
HookTurn(h) ==
    /\ hook[h].turn <= generation
    /\ hook[h].session # None /\ hook[h].turn = generation => hook[h].session = activeSession

(* An open request is one its hook still waits on, and none crosses into a *)
(* later turn.                                                             *)
OpenRequest(h) ==
    pending[h] # None =>
        /\ hook[h].pc \in {"registered", "waiting", "timedOut"}
        /\ hook[h].answer = "none"
        /\ pending[h] = hook[h].session
        /\ activeSession # None => hook[h].turn = generation

Before(h) == hook[h].pc \in {"off", "arrived", "resolved", "screened", "denyChecked",
                             "unregistered"}
Concluded(h) == hook[h].pc \in {"marking", "storing", "done"}

(* Where a hook is tells what it has learned and concluded. *)
HookShape(h) ==
    /\ hook[h].pc \notin {"off", "arrived", "done"} => hook[h].session \in Sessions
    /\ hook[h].pc \notin {"off", "arrived", "resolved", "done"} => hook[h].call \notin HookRootCalls
    /\ Before(h) => hook[h].answer = "none"
    /\ ~Concluded(h) => hook[h].outcome = "undecided"
    /\ hook[h].pc = "marking" => hook[h].outcome \in UserRefusals
    /\ hook[h].pc = "storing" =>
         \/ hook[h].outcome = "approved" /\ hook[h].answer = "allow_always"
         \/ hook[h].outcome = "declined" /\ hook[h].answer = "reject_always"
    /\ hook[h].outcome = "approved" => hook[h].answer \in {"allow_once", "allow_always"}
    /\ hook[h].outcome = "autoAllowed" => hook[h].call \in AutoAllow \ Escapes
    /\ hook[h].outcome \in Allowing => hook[h].call \notin HookRootCalls

HookInv == \A h \in Hooks : HookTurn(h) /\ OpenRequest(h) /\ HookShape(h)

(* h finished with the "always" answer that key k of session s remembers. *)
Allower(h, s, k) ==
    /\ hook[h].pc = "done" /\ hook[h].outcome = "approved" /\ hook[h].session = s
    /\ hook[h].answer = "allow_always" /\ AllowKey[hook[h].call] = k
Rejecter(h, s, k) ==
    /\ hook[h].pc = "done" /\ hook[h].session = s
    /\ hook[h].answer = "reject_always" /\ FingerprintKey[hook[h].call] = k

(* Behind every remembered answer stands a finished hook. *)
RememberedInv ==
    \A s \in Sessions, k \in Keys :
        /\ always[s][k] = "Allow" => \E h \in Hooks : Allower(h, s, k)
        /\ always[s][k] = "Deny" => \E h \in Hooks : Rejecter(h, s, k)

(* A hook allowed from memory is finished, and so is the one it leans on. *)
RememberedWarrant(h) ==
    /\ hook[h].pc = "done"
    /\ hook[h].call \notin Escapes
    /\ \E g \in Hooks : Allower(g, hook[h].session, AllowKey[hook[h].call])
WarrantInv == \A h \in Hooks : hook[h].outcome = "rememberedAllow" => RememberedWarrant(h)

(* Whatever runs beside it, a turn's session stays bound as long as it     *)
(* runs.                                                                   *)
LEMMA TurnBindingStep == TypeOK /\ TurnBinding /\ [Next]_vars => TurnBinding'
<1>. SUFFICES ASSUME TypeOK, TurnBinding, [Next]_vars PROVE TurnBinding'
  OBVIOUS
<1>. USE CallsAssumption DEF TypeOK, TurnBinding, bridgeVars,
         StillItsTurn, NextGeneration, StaleAtStart, FlagAtStart, LeftAtTeardown, Honoured,
         Allowed, StickyKey
<1>1. ASSUME NEW s \in Sessions, StartTurn(s) PROVE TurnBinding'
  BY <1>1 DEF StartTurn, NoTurn
<1>2. ASSUME NEW c \in Convs, Spawn(c) PROVE TurnBinding'
  BY <1>2 DEF Spawn
<1>3. ASSUME SpawnFails PROVE TurnBinding'
  BY <1>3 DEF SpawnFails, NoTurn
<1>4. ASSUME \/ ReadRefused \/ RegisterConversation \/ CloseOutput
             \/ \E s \in Sessions : Cancel(s) \/ ForgetSession(s)
             \/ \E h \in Hooks, a \in HostAnswers : HostAnswer(h, a)
      PROVE  TurnBinding'
  BY <1>4 DEF ReadRefused, RegisterConversation, Cancel, ForgetSession, HostAnswer,
     CloseOutput
<1>5. ASSUME ClearActive PROVE TurnBinding'
  BY <1>5 DEF ClearActive
<1>6. ASSUME AbandonAtTeardown PROVE TurnBinding'
  BY <1>6 DEF AbandonAtTeardown, NoTurn
<1>7. ASSUME NEW h \in Hooks, HookStep(h) PROVE TurnBinding'
  BY <1>7 DEF Arrive, Resolve, Screen, LookupDeny, LookupAllow, RegisterPending, SendRequest,
     Receive, WithdrawTimedOut, ApplyOutcome, MarkRefusal, StoreSticky, Timeout, HookStep, HookRuns
<1>8. CASE UNCHANGED vars
  BY <1>8 DEF vars
<1>. QED
  BY <1>1, <1>2, <1>3, <1>4, <1>5, <1>6, <1>7, <1>8
     DEF Next, TurnStep, Teardown, DispatcherStep, HookStep, HookRuns

(* A step of one hook that leaves the turn alone has only that hook to     *)
(* answer for.                                                             *)
LEMMA HookFrame ==
    ASSUME HookInv, NEW h \in Hooks, UNCHANGED <<generation, activeSession>>,
           \A g \in Hooks \ {h} : hook'[g] = hook[g] /\ pending'[g] = pending[g],
           (HookTurn(h) /\ OpenRequest(h) /\ HookShape(h))'
    PROVE  HookInv'
<1>. SUFFICES ASSUME NEW g \in Hooks, g # h
              PROVE  (HookTurn(g) /\ OpenRequest(g) /\ HookShape(g))'
  BY DEF HookInv
<1>1. hook'[g] = hook[g] /\ pending'[g] = pending[g]
  OBVIOUS
<1>2. HookTurn(g) /\ OpenRequest(g) /\ HookShape(g)
  BY DEF HookInv
<1>. QED
  BY <1>1, <1>2 DEF HookTurn, OpenRequest, HookShape, Before, Concluded

(* What Goto does to the hook it moves, and to the others.                 *)
LEMMA GotoEffect ==
    ASSUME TypeOK, NEW h \in Hooks, NEW pc, Goto(h, pc)
    PROVE  /\ \A g \in Hooks \ {h} : hook'[g] = hook[g]
           /\ hook'[h].pc = pc /\ hook'[h].outcome = hook[h].outcome
           /\ hook'[h].call = hook[h].call /\ hook'[h].session = hook[h].session
           /\ hook'[h].turn = hook[h].turn /\ hook'[h].answer = hook[h].answer
<1>1. hook \in [Hooks -> HookRecords] /\ hook[h] \in HookRecords
  BY DEF TypeOK
<1>2. hook'[h] = [hook[h] EXCEPT !.pc = pc] /\ \A g \in Hooks \ {h} : hook'[g] = hook[g]
  BY <1>1 DEF Goto
<1>. QED
  BY <1>1, <1>2 DEF HookRecords

(* What Conclude does to the hook it moves, and to the others.             *)
LEMMA ConcludeEffect ==
    ASSUME TypeOK, NEW h \in Hooks, NEW o, NEW pc, Conclude(h, o, pc)
    PROVE  /\ \A g \in Hooks \ {h} : hook'[g] = hook[g]
           /\ hook'[h].pc = pc /\ hook'[h].outcome = o
           /\ hook'[h].call = hook[h].call /\ hook'[h].session = hook[h].session
           /\ hook'[h].turn = hook[h].turn /\ hook'[h].answer = hook[h].answer
<1>1. hook \in [Hooks -> HookRecords] /\ hook[h] \in HookRecords
  BY DEF TypeOK
<1>2. /\ hook'[h] = [hook[h] EXCEPT !.pc = pc, !.outcome = o]
      /\ \A g \in Hooks \ {h} : hook'[g] = hook[g]
  BY <1>1 DEF Conclude
<1>. QED
  BY <1>1, <1>2 DEF HookRecords

(* No step breaks what a hook's place says about its turn, request and     *)
(* answer.                                                                 *)
LEMMA HookInvStep == TypeOK /\ TurnBinding /\ HookInv /\ [Next]_vars => HookInv'
<1>. SUFFICES ASSUME TypeOK, TurnBinding, HookInv, [Next]_vars PROVE HookInv'
  OBVIOUS
<1>. USE CallsAssumption DEF TypeOK, HookRecords, HookInv, HookTurn, OpenRequest, HookShape, Before,
         Concluded, UserRefusals, Allowing, bridgeVars,
         StillItsTurn, NextGeneration, StaleAtStart, FlagAtStart, LeftAtTeardown, Honoured,
         Allowed, StickyKey
<1>1. ASSUME NEW s \in Sessions, StartTurn(s) PROVE HookInv'
  <2>. SUFFICES ASSUME NEW h \in Hooks PROVE (HookTurn(h) /\ OpenRequest(h) /\ HookShape(h))'
    OBVIOUS
  <2>1. pending'[h] = None
    BY <1>1 DEF StartTurn, Abandon, AllPending
  <2>2. CASE pending[h] = None
    <3>1. hook'[h] = hook[h]
      BY <1>1, <2>2 DEF StartTurn, Abandon, AllPending
    <3>. QED
      BY <1>1, <2>1, <3>1 DEF StartTurn
  <2>3. CASE pending[h] # None
    <3>1. hook'[h] = [hook[h] EXCEPT !.answer = "abandoned"]
      BY <1>1, <2>3 DEF StartTurn, Abandon, AllPending
    <3>2. hook[h] \in HookRecords /\ generation' = generation + 1
      BY <1>1 DEF StartTurn
    <3>3. /\ hook'[h].answer = "abandoned" /\ hook'[h].outcome = hook[h].outcome
          /\ hook'[h].pc = hook[h].pc /\ hook'[h].session = hook[h].session
          /\ hook'[h].turn = hook[h].turn /\ hook'[h].call = hook[h].call
      BY <3>1, <3>2
    <3>4. hook[h].pc \in {"registered", "waiting", "timedOut"} /\ hook[h].outcome = "undecided"
      BY <2>3
    <3>. QED
      BY <2>1, <3>2, <3>3, <3>4
  <2>. QED
    BY <2>2, <2>3
<1>2. ASSUME \/ \E c \in Convs : Spawn(c)
             \/ ReadRefused \/ RegisterConversation \/ CloseOutput
             \/ \E s \in Sessions : ForgetSession(s)
      PROVE  HookInv'
  <2>1. UNCHANGED <<hook, pending, generation, activeSession>>
    BY <1>2 DEF Spawn, ReadRefused, RegisterConversation, ForgetSession, CloseOutput
  <2>. QED
    BY <2>1
<1>3. ASSUME SpawnFails PROVE HookInv'
  BY <1>3 DEF SpawnFails
<1>4. ASSUME ClearActive PROVE HookInv'
  BY <1>4 DEF ClearActive
<1>5. ASSUME AbandonAtTeardown PROVE HookInv'
  BY <1>5 DEF AbandonAtTeardown, Abandon, PendingOf, TurnBinding
<1>6. ASSUME NEW s \in Sessions, Cancel(s) PROVE HookInv'
  BY <1>6 DEF Cancel, Abandon, PendingOf
<1>7. ASSUME NEW h \in Hooks, NEW a \in HostAnswers, HostAnswer(h, a) PROVE HookInv'
  BY <1>7 DEF HostAnswer, HostAnswers
<1>8. ASSUME NEW h \in Hooks, Arrive(h) PROVE HookInv'
  BY <1>8 DEF Arrive, Goto, Decide, Conclude
<1>9. ASSUME NEW h \in Hooks, Resolve(h) PROVE HookInv'
  <2>1. CASE Decide(h, "noSession")
    BY <1>9, <2>1 DEF Resolve, Goto, Decide, Conclude
  <2>2. CASE Decide(h, "turnEnded")
    BY <1>9, <2>2 DEF Resolve, Goto, Decide, Conclude
  <2>3. CASE hook' = [hook EXCEPT ![h].pc = "resolved", ![h].session = activeSession,
                                  ![h].turn = generation] /\ activeSession # None
    BY <1>9, <2>3 DEF Resolve, Goto, Decide, Conclude
  <2>. QED
    BY <1>9, <2>1, <2>2, <2>3 DEF Resolve
<1>10. ASSUME NEW h \in Hooks, Screen(h) PROVE HookInv'
  <2>1. CASE hook[h].call \in HookRootCalls /\ Decide(h, "hookRoot")
    BY <1>10, <2>1 DEF Screen, Goto, Decide, Conclude
  <2>2. CASE hook[h].call \in (AutoAllow \ Escapes) \ HookRootCalls /\ Decide(h, "autoAllowed")
    BY <1>10, <2>2 DEF Screen, Goto, Decide, Conclude
  <2>3. CASE hook[h].call \notin HookRootCalls /\ Goto(h, "screened")
    BY <1>10, <2>3 DEF Screen, Goto, Decide, Conclude
  <2>. QED
    BY <1>10, <2>1, <2>2, <2>3 DEF Screen
<1>11. ASSUME NEW h \in Hooks, LookupDeny(h) PROVE HookInv'
  <2>1. CASE Conclude(h, "rememberedDeny", "marking")
    BY <1>11, <2>1 DEF LookupDeny, Goto, Decide, Conclude
  <2>2. CASE Goto(h, "denyChecked")
    BY <1>11, <2>2 DEF LookupDeny, Goto, Decide, Conclude
  <2>. QED
    BY <1>11, <2>1, <2>2 DEF LookupDeny
<1>12. ASSUME NEW h \in Hooks, LookupAllow(h) PROVE HookInv'
  <2>1. CASE Decide(h, "rememberedAllow")
    BY <1>12, <2>1 DEF LookupAllow, Goto, Decide, Conclude
  <2>2. CASE Goto(h, "unregistered")
    BY <1>12, <2>2 DEF LookupAllow, Goto, Decide, Conclude
  <2>. QED
    BY <1>12, <2>1, <2>2 DEF LookupAllow
<1>13. ASSUME NEW h \in Hooks, RegisterPending(h) PROVE HookInv'
  <2>1. /\ hook[h].session \in Sessions /\ hook[h].call \notin HookRootCalls
        /\ hook[h].answer = "none" /\ hook[h].outcome = "undecided" /\ pending[h] = None
        /\ hook[h].turn <= generation /\ UNCHANGED <<generation, activeSession>>
        /\ hook[h].turn = generation => hook[h].session = activeSession
    BY <1>13 DEF RegisterPending
  <2>2. CASE ~StillItsTurn(h) /\ Decide(h, "turnEnded") /\ UNCHANGED pending
    <3>1. /\ \A g \in Hooks \ {h} : hook'[g] = hook[g] /\ pending'[g] = pending[g]
          /\ hook'[h].pc = "done" /\ hook'[h].outcome = "turnEnded"
          /\ hook'[h].call = hook[h].call /\ hook'[h].session = hook[h].session
          /\ hook'[h].turn = hook[h].turn /\ hook'[h].answer = hook[h].answer
      BY <2>2, ConcludeEffect DEF Decide
    <3>2. (HookTurn(h) /\ OpenRequest(h) /\ HookShape(h))'
      BY <2>1, <2>2, <3>1
    <3>. QED
      BY <2>1, <3>1, <3>2, HookFrame
  <2>3. CASE /\ StillItsTurn(h) /\ Goto(h, "registered")
             /\ pending' = [pending EXCEPT ![h] = hook[h].session]
    <3>1. /\ \A g \in Hooks \ {h} : hook'[g] = hook[g] /\ pending'[g] = pending[g]
          /\ hook'[h].pc = "registered" /\ hook'[h].outcome = hook[h].outcome
          /\ hook'[h].call = hook[h].call /\ hook'[h].session = hook[h].session
          /\ hook'[h].turn = hook[h].turn /\ hook'[h].answer = hook[h].answer
      BY <2>3, GotoEffect
    <3>2. pending'[h] = hook[h].session
      BY <2>3
    <3>3. (HookTurn(h) /\ OpenRequest(h) /\ HookShape(h))'
      BY <2>1, <2>3, <3>1, <3>2
    <3>. QED
      BY <2>1, <3>1, <3>3, HookFrame
  <2>. QED
    BY <1>13, <2>2, <2>3 DEF RegisterPending
<1>14. ASSUME NEW h \in Hooks, SendRequest(h) PROVE HookInv'
  <2>1. /\ hook[h].session \in Sessions /\ hook[h].call \notin HookRootCalls
        /\ hook[h].pc = "registered" /\ hook[h].outcome = "undecided"
        /\ UNCHANGED <<generation, activeSession>>
        /\ HookTurn(h) /\ OpenRequest(h)
    BY <1>14 DEF SendRequest
  <2>2. CASE Goto(h, "waiting") /\ UNCHANGED pending
    <3>1. /\ \A g \in Hooks \ {h} : hook'[g] = hook[g] /\ pending'[g] = pending[g]
          /\ hook'[h].pc = "waiting" /\ hook'[h].outcome = hook[h].outcome
          /\ hook'[h].call = hook[h].call /\ hook'[h].session = hook[h].session
          /\ hook'[h].turn = hook[h].turn /\ hook'[h].answer = hook[h].answer
      BY <2>2, GotoEffect
    <3>2. (HookTurn(h) /\ OpenRequest(h) /\ HookShape(h))'
      BY <2>1, <2>2, <3>1
    <3>. QED
      BY <2>1, <3>1, <3>2, HookFrame
  <2>3. CASE Decide(h, "closed") /\ pending' = [pending EXCEPT ![h] = None]
    <3>1. /\ \A g \in Hooks \ {h} : hook'[g] = hook[g] /\ pending'[g] = pending[g]
          /\ hook'[h].pc = "done" /\ hook'[h].outcome = "closed"
          /\ hook'[h].call = hook[h].call /\ hook'[h].session = hook[h].session
          /\ hook'[h].turn = hook[h].turn /\ hook'[h].answer = hook[h].answer
      BY <2>3, ConcludeEffect DEF Decide
    <3>2. pending'[h] = None
      BY <2>3
    <3>3. (HookTurn(h) /\ OpenRequest(h) /\ HookShape(h))'
      BY <2>1, <3>1, <3>2
    <3>. QED
      BY <2>1, <3>1, <3>3, HookFrame
  <2>. QED
    BY <1>14, <2>2, <2>3 DEF SendRequest
<1>15. ASSUME NEW h \in Hooks, Receive(h) PROVE HookInv'
  <2>1. CASE hook[h].answer = "abandoned" /\ Decide(h, "abandoned")
    BY <1>15, <2>1 DEF Receive, HostAnswers, Goto, Decide, Conclude
  <2>2. CASE hook[h].answer \in HostAnswers /\ Goto(h, "answered")
    BY <1>15, <2>2 DEF Receive, HostAnswers, Goto, Decide, Conclude
  <2>. QED
    BY <1>15, <2>1, <2>2 DEF Receive, HostAnswers
<1>16. ASSUME NEW h \in Hooks, WithdrawTimedOut(h) PROVE HookInv'
  BY <1>16 DEF WithdrawTimedOut, Goto, Decide, Conclude
<1>17. ASSUME NEW h \in Hooks, ApplyOutcome(h) PROVE HookInv'
  BY <1>17 DEF ApplyOutcome, Goto, Decide, Conclude, HostAnswers
<1>18. ASSUME NEW h \in Hooks, MarkRefusal(h) PROVE HookInv'
  BY <1>18 DEF MarkRefusal, Goto, Decide, Conclude
<1>19. ASSUME NEW h \in Hooks, StoreSticky(h) PROVE HookInv'
  BY <1>19 DEF StoreSticky, Goto, Decide, Conclude
<1>20. ASSUME NEW h \in Hooks, Timeout(h) PROVE HookInv'
  BY <1>20 DEF Timeout, Goto, Decide, Conclude
<1>21. CASE UNCHANGED vars
  BY <1>21 DEF vars
<1>. QED
  BY <1>1, <1>2, <1>3, <1>4, <1>5, <1>6, <1>7, <1>8, <1>9, <1>10, <1>11, <1>12, <1>13,
     <1>14, <1>15, <1>16, <1>17, <1>18, <1>19, <1>20, <1>21
     DEF Next, TurnStep, Teardown, DispatcherStep, HookStep, HookRuns

(* The inductive invariant of the bridge: types, the turn's binding, the   *)
(* hooks.                                                                  *)
LEMMA InvariantHolds == Spec => [](TypeOK /\ TurnBinding /\ HookInv)
<1>1. Init => TurnBinding /\ HookInv
  BY CallsAssumption DEF Init, NoTurn, TurnBinding, HookInv, HookTurn, OpenRequest, HookShape,
     Before, Concluded, Allowing
<1>. QED
  BY <1>1, TypeInit, TypeStep, TurnBindingStep, HookInvStep, PTL DEF Spec

(* A request left open by an earlier turn never reaches a running one. *)
THEOREM PendingBelongs == Spec => []PendingBelongsToRunningTurn
<1>1. TypeOK /\ HookInv => PendingBelongsToRunningTurn
  BY DEF TypeOK, HookInv, HookTurn, OpenRequest, PendingBelongsToRunningTurn, AllPending
<1>. QED
  BY <1>1, InvariantHolds, PTL

-----------------------------------------------------------------------------
(* No lost requests *)

(* Registration, delivery, timeout and abandonment never part a waiting    *)
(* hook from its entry.                                                    *)
LEMMA NoLostStep == TypeOK /\ HookInv /\ NoLostRequest /\ [Next]_vars => NoLostRequest'
<1>. SUFFICES ASSUME TypeOK, HookInv, NoLostRequest, [Next]_vars PROVE NoLostRequest'
  OBVIOUS
<1>. USE CallsAssumption DEF TypeOK, HookRecords, HookInv, OpenRequest, NoLostRequest, bridgeVars,
         StillItsTurn, NextGeneration, StaleAtStart, FlagAtStart, LeftAtTeardown, Honoured,
         Allowed, StickyKey
<1>1. ASSUME NEW s \in Sessions, StartTurn(s) PROVE NoLostRequest'
  BY <1>1 DEF StartTurn, Abandon, AllPending
<1>2. ASSUME \/ \E c \in Convs : Spawn(c)
             \/ SpawnFails \/ ReadRefused \/ RegisterConversation \/ ClearActive \/ CloseOutput
             \/ \E s \in Sessions : ForgetSession(s)
      PROVE  NoLostRequest'
  BY <1>2 DEF Spawn, SpawnFails, ReadRefused, RegisterConversation, ClearActive,
     ForgetSession, CloseOutput
<1>3. ASSUME AbandonAtTeardown PROVE NoLostRequest'
  BY <1>3 DEF AbandonAtTeardown, Abandon, PendingOf
<1>4. ASSUME NEW s \in Sessions, Cancel(s) PROVE NoLostRequest'
  BY <1>4 DEF Cancel, Abandon, PendingOf
<1>5. ASSUME NEW h \in Hooks, NEW a \in HostAnswers, HostAnswer(h, a) PROVE NoLostRequest'
  BY <1>5 DEF HostAnswer, HostAnswers
<1>6. ASSUME NEW h \in Hooks, Arrive(h) PROVE NoLostRequest'
  BY <1>6 DEF Arrive, Goto, Decide, Conclude
<1>7. ASSUME NEW h \in Hooks, Resolve(h) PROVE NoLostRequest'
  <2>1. CASE Decide(h, "noSession")
    BY <1>7, <2>1 DEF Resolve, Goto, Decide, Conclude
  <2>2. CASE Decide(h, "turnEnded")
    BY <1>7, <2>2 DEF Resolve, Goto, Decide, Conclude
  <2>3. CASE hook' = [hook EXCEPT ![h].pc = "resolved", ![h].session = activeSession,
                                  ![h].turn = generation] /\ activeSession # None
    BY <1>7, <2>3 DEF Resolve, Goto, Decide, Conclude
  <2>. QED
    BY <1>7, <2>1, <2>2, <2>3 DEF Resolve
<1>8. ASSUME NEW h \in Hooks, Screen(h) PROVE NoLostRequest'
  <2>1. CASE Decide(h, "hookRoot") \/ Decide(h, "autoAllowed")
    BY <1>8, <2>1, ConcludeEffect DEF Screen, Decide
  <2>2. CASE Goto(h, "screened")
    BY <1>8, <2>2, GotoEffect DEF Screen
  <2>. QED
    BY <1>8, <2>1, <2>2 DEF Screen
<1>9. ASSUME NEW h \in Hooks, LookupDeny(h) PROVE NoLostRequest'
  BY <1>9 DEF LookupDeny, Goto, Decide, Conclude
<1>10. ASSUME NEW h \in Hooks, LookupAllow(h) PROVE NoLostRequest'
  <2>1. CASE Decide(h, "rememberedAllow")
    BY <1>10, <2>1 DEF LookupAllow, Goto, Decide, Conclude
  <2>2. CASE Goto(h, "unregistered")
    BY <1>10, <2>2 DEF LookupAllow, Goto, Decide, Conclude
  <2>. QED
    BY <1>10, <2>1, <2>2 DEF LookupAllow
<1>11. ASSUME NEW h \in Hooks, RegisterPending(h) PROVE NoLostRequest'
  <2>1. CASE Decide(h, "turnEnded") /\ UNCHANGED pending
    BY <2>1, ConcludeEffect DEF Decide
  <2>2. CASE Goto(h, "registered") /\ pending' = [pending EXCEPT ![h] = hook[h].session]
    <3>1. pending'[h] = hook[h].session /\ \A g \in Hooks \ {h} : pending'[g] = pending[g]
      BY <2>2
    <3>. QED
      BY <2>2, <3>1, GotoEffect
  <2>. QED
    BY <1>11, <2>1, <2>2 DEF RegisterPending
<1>12. ASSUME NEW h \in Hooks, SendRequest(h) PROVE NoLostRequest'
  <2>1. CASE outOpen
    BY <1>12, <2>1 DEF SendRequest, Goto, Decide, Conclude
  <2>2. CASE ~outOpen
    BY <1>12, <2>2 DEF SendRequest, Goto, Decide, Conclude
  <2>. QED
    BY <1>12, <2>1, <2>2 DEF SendRequest
<1>13. ASSUME NEW h \in Hooks, Receive(h) PROVE NoLostRequest'
  <2>1. CASE hook[h].answer = "abandoned" /\ Decide(h, "abandoned")
    BY <1>13, <2>1 DEF Receive, HostAnswers, Goto, Decide, Conclude
  <2>2. CASE hook[h].answer \in HostAnswers /\ Goto(h, "answered")
    BY <1>13, <2>2 DEF Receive, HostAnswers, Goto, Decide, Conclude
  <2>. QED
    BY <1>13, <2>1, <2>2 DEF Receive, HostAnswers
<1>14. ASSUME NEW h \in Hooks, WithdrawTimedOut(h) PROVE NoLostRequest'
  BY <1>14 DEF WithdrawTimedOut, Goto, Decide, Conclude
<1>15. ASSUME NEW h \in Hooks, ApplyOutcome(h) PROVE NoLostRequest'
  <2>1. CASE hook[h].answer = "dismissed" /\ Conclude(h, "dismissed", "marking")
    BY <1>15, <2>1 DEF ApplyOutcome, Goto, Decide, Conclude
  <2>2. CASE Conclude(h, "declined", "marking")
    BY <1>15, <2>2 DEF ApplyOutcome, Goto, Decide, Conclude
  <2>3. CASE hook[h].answer = "allow_once" /\ Decide(h, "approved")
    BY <1>15, <2>3 DEF ApplyOutcome, Goto, Decide, Conclude
  <2>4. CASE hook[h].answer = "allow_always" /\ Conclude(h, "approved", "storing")
    BY <1>15, <2>4 DEF ApplyOutcome, Goto, Decide, Conclude
  <2>. QED
    BY <1>15, <2>1, <2>2, <2>3, <2>4 DEF ApplyOutcome
<1>16. ASSUME NEW h \in Hooks, MarkRefusal(h) PROVE NoLostRequest'
  BY <1>16 DEF MarkRefusal, Goto, Decide, Conclude
<1>17. ASSUME NEW h \in Hooks, StoreSticky(h) PROVE NoLostRequest'
  BY <1>17 DEF StoreSticky, Goto, Decide, Conclude
<1>18. ASSUME NEW h \in Hooks, Timeout(h) PROVE NoLostRequest'
  BY <1>18 DEF Timeout, Goto, Decide, Conclude
<1>19. CASE UNCHANGED vars
  BY <1>19 DEF vars
<1>. QED
  BY <1>1, <1>2, <1>3, <1>4, <1>5, <1>6, <1>7, <1>8, <1>9, <1>10, <1>11, <1>12, <1>13,
     <1>14, <1>15, <1>16, <1>17, <1>18, <1>19
     DEF Next, TurnStep, Teardown, DispatcherStep, HookStep, HookRuns

(* A hook that waits unanswered still has its entry, so an answer, a       *)
(* cancel or a teardown can reach it.                                      *)
THEOREM RequestsAreNotLost == Spec => []NoLostRequest
<1>1. Init => NoLostRequest
  BY DEF Init, NoLostRequest
<1>. QED
  BY <1>1, NoLostStep, InvariantHolds, PTL DEF Spec

-----------------------------------------------------------------------------
(* The refusal flag *)

(* h has refused, in the turn that is running now. *)
RefusedNow(h) == HasRefused(h) /\ hook[h].turn = generation

(* A step that changes neither turn, flag nor hooks keeps the flag exact.  *)
LEMMA RefusalFrame ==
    ASSUME RefusalFlagIsExact, UNCHANGED <<activeSession, refused>>,
           \A g \in Hooks : RefusedNow(g)' <=> RefusedNow(g)
    PROVE  RefusalFlagIsExact'
BY DEF RefusalFlagIsExact, RefusedNow, HasRefused

(* Only a new turn, its end, and mark_user_refusal change who has refused  *)
(* in the running turn.                                                    *)
LEMMA RefusalHookStep ==
    ASSUME TypeOK, HookInv, NEW h \in Hooks, HookStep(h), ~MarkRefusal(h), NEW g \in Hooks
    PROVE  RefusedNow(g)' <=> RefusedNow(g)
<1>. USE DEF TypeOK, HookRecords, HookInv, HookShape, Before, Concluded, RefusedNow, HasRefused,
         UserRefusals, bridgeVars,
         StillItsTurn, NextGeneration, StaleAtStart, FlagAtStart, LeftAtTeardown, Honoured,
         Allowed, StickyKey
<1>1. ASSUME Arrive(h) PROVE RefusedNow(g)' <=> RefusedNow(g)
  BY <1>1 DEF Arrive, Goto, Decide, Conclude
<1>2. ASSUME Resolve(h) PROVE RefusedNow(g)' <=> RefusedNow(g)
  <2>1. CASE Decide(h, "noSession")
    BY <1>2, <2>1 DEF Resolve, Goto, Decide, Conclude
  <2>2. CASE Decide(h, "turnEnded")
    BY <1>2, <2>2 DEF Resolve, Goto, Decide, Conclude
  <2>3. CASE hook' = [hook EXCEPT ![h].pc = "resolved", ![h].session = activeSession,
                                  ![h].turn = generation] /\ activeSession # None
    BY <1>2, <2>3 DEF Resolve, Goto, Decide, Conclude
  <2>. QED
    BY <1>2, <2>1, <2>2, <2>3 DEF Resolve
<1>3. ASSUME Screen(h) PROVE RefusedNow(g)' <=> RefusedNow(g)
  <2>1. CASE hook[h].call \in HookRootCalls /\ Decide(h, "hookRoot")
    BY <1>3, <2>1 DEF Screen, Goto, Decide, Conclude
  <2>2. CASE hook[h].call \in (AutoAllow \ Escapes) \ HookRootCalls /\ Decide(h, "autoAllowed")
    BY <1>3, <2>2 DEF Screen, Goto, Decide, Conclude
  <2>3. CASE hook[h].call \notin HookRootCalls /\ Goto(h, "screened")
    BY <1>3, <2>3 DEF Screen, Goto, Decide, Conclude
  <2>. QED
    BY <1>3, <2>1, <2>2, <2>3 DEF Screen
<1>4. ASSUME LookupDeny(h) PROVE RefusedNow(g)' <=> RefusedNow(g)
  <2>1. CASE Conclude(h, "rememberedDeny", "marking")
    BY <1>4, <2>1 DEF LookupDeny, Goto, Decide, Conclude
  <2>2. CASE Goto(h, "denyChecked")
    BY <1>4, <2>2 DEF LookupDeny, Goto, Decide, Conclude
  <2>. QED
    BY <1>4, <2>1, <2>2 DEF LookupDeny
<1>5. ASSUME LookupAllow(h) PROVE RefusedNow(g)' <=> RefusedNow(g)
  <2>1. CASE Decide(h, "rememberedAllow")
    BY <1>5, <2>1 DEF LookupAllow, Goto, Decide, Conclude
  <2>2. CASE Goto(h, "unregistered")
    BY <1>5, <2>2 DEF LookupAllow, Goto, Decide, Conclude
  <2>. QED
    BY <1>5, <2>1, <2>2 DEF LookupAllow
<1>6. ASSUME RegisterPending(h) PROVE RefusedNow(g)' <=> RefusedNow(g)
  <2>1. CASE generation # hook[h].turn
    BY <1>6, <2>1 DEF RegisterPending, Goto, Decide, Conclude
  <2>2. CASE generation = hook[h].turn
    BY <1>6, <2>2 DEF RegisterPending, Goto, Decide, Conclude
  <2>. QED
    BY <1>6, <2>1, <2>2 DEF RegisterPending
<1>7. ASSUME SendRequest(h) PROVE RefusedNow(g)' <=> RefusedNow(g)
  <2>1. CASE outOpen
    BY <1>7, <2>1 DEF SendRequest, Goto, Decide, Conclude
  <2>2. CASE ~outOpen
    BY <1>7, <2>2 DEF SendRequest, Goto, Decide, Conclude
  <2>. QED
    BY <1>7, <2>1, <2>2 DEF SendRequest
<1>8. ASSUME Receive(h) PROVE RefusedNow(g)' <=> RefusedNow(g)
  <2>1. CASE hook[h].answer = "abandoned" /\ Decide(h, "abandoned")
    BY <1>8, <2>1 DEF Receive, HostAnswers, Goto, Decide, Conclude
  <2>2. CASE hook[h].answer \in HostAnswers /\ Goto(h, "answered")
    BY <1>8, <2>2 DEF Receive, HostAnswers, Goto, Decide, Conclude
  <2>. QED
    BY <1>8, <2>1, <2>2 DEF Receive, HostAnswers
<1>9. ASSUME WithdrawTimedOut(h) PROVE RefusedNow(g)' <=> RefusedNow(g)
  BY <1>9 DEF WithdrawTimedOut, Goto, Decide, Conclude
<1>10. ASSUME ApplyOutcome(h) PROVE RefusedNow(g)' <=> RefusedNow(g)
  <2>1. CASE hook[h].answer = "dismissed" /\ Conclude(h, "dismissed", "marking")
    BY <1>10, <2>1 DEF ApplyOutcome, Goto, Decide, Conclude
  <2>2. CASE Conclude(h, "declined", "marking")
    BY <1>10, <2>2 DEF ApplyOutcome, Goto, Decide, Conclude
  <2>3. CASE hook[h].answer = "allow_once" /\ Decide(h, "approved")
    BY <1>10, <2>3 DEF ApplyOutcome, Goto, Decide, Conclude
  <2>4. CASE hook[h].answer = "allow_always" /\ Conclude(h, "approved", "storing")
    BY <1>10, <2>4 DEF ApplyOutcome, Goto, Decide, Conclude
  <2>. QED
    BY <1>10, <2>1, <2>2, <2>3, <2>4 DEF ApplyOutcome
<1>11. ASSUME StoreSticky(h) PROVE RefusedNow(g)' <=> RefusedNow(g)
  BY <1>11 DEF StoreSticky, Goto, Decide, Conclude
<1>12. ASSUME Timeout(h) PROVE RefusedNow(g)' <=> RefusedNow(g)
  BY <1>12 DEF Timeout, Goto, Decide, Conclude
<1>. QED
  BY <1>1, <1>2, <1>3, <1>4, <1>5, <1>6, <1>7, <1>8, <1>9, <1>10, <1>11, <1>12 DEF HookStep,
     HookRuns

(* mark_user_refusal and the edges of a turn keep the flag exact.          *)
LEMMA RefusalStep ==
    TypeOK /\ TurnBinding /\ HookInv /\ RefusalFlagIsExact /\ [Next]_vars => RefusalFlagIsExact'
<1>. SUFFICES ASSUME TypeOK, TurnBinding, HookInv, RefusalFlagIsExact, [Next]_vars
              PROVE  RefusalFlagIsExact'
  OBVIOUS
<1>. USE CallsAssumption DEF TypeOK, HookRecords, HookInv, HookTurn, OpenRequest, HookShape, Before,
         Concluded, RefusalFlagIsExact, HasRefused, UserRefusals, bridgeVars,
         StillItsTurn, NextGeneration, StaleAtStart, FlagAtStart, LeftAtTeardown, Honoured,
         Allowed, StickyKey
<1>1. ASSUME NEW s \in Sessions, StartTurn(s) PROVE RefusalFlagIsExact'
  BY <1>1 DEF StartTurn, Abandon, AllPending
<1>2. ASSUME \/ \E c \in Convs : Spawn(c)
             \/ SpawnFails \/ ReadRefused \/ RegisterConversation \/ ClearActive \/ CloseOutput
             \/ \E s \in Sessions : ForgetSession(s)
      PROVE  RefusalFlagIsExact'
  BY <1>2 DEF Spawn, SpawnFails, ReadRefused, RegisterConversation, ClearActive,
     ForgetSession, CloseOutput
<1>3. ASSUME AbandonAtTeardown PROVE RefusalFlagIsExact'
  BY <1>3 DEF AbandonAtTeardown, Abandon, PendingOf
<1>4. ASSUME NEW s \in Sessions, Cancel(s) PROVE RefusalFlagIsExact'
  BY <1>4 DEF Cancel, Abandon, PendingOf
<1>5. ASSUME NEW h \in Hooks, NEW a \in HostAnswers, HostAnswer(h, a) PROVE RefusalFlagIsExact'
  BY <1>5 DEF HostAnswer
<1>6. ASSUME NEW h \in Hooks, HookStep(h), ~MarkRefusal(h) PROVE RefusalFlagIsExact'
  <2>1. UNCHANGED <<activeSession, refused>>
    BY <1>6 DEF HookStep, HookRuns, Arrive, Resolve, Screen, LookupDeny, LookupAllow,
       RegisterPending, SendRequest, Receive, WithdrawTimedOut, ApplyOutcome, StoreSticky, Timeout
  <2>. QED
    BY <1>6, <2>1, RefusalHookStep, RefusalFrame
<1>7. ASSUME NEW h \in Hooks, MarkRefusal(h) PROVE RefusalFlagIsExact'
  <2>1. HasRefused(h)' /\ UNCHANGED <<activeSession, generation>>
    BY <1>7 DEF MarkRefusal, Goto
  <2>2. \A g \in Hooks : hook'[g].turn = hook[g].turn
    BY <1>7 DEF MarkRefusal, Goto
  <2>3. \A g \in Hooks \ {h} : hook'[g] = hook[g]
    BY <1>7 DEF MarkRefusal, Goto
  <2>4. ~HasRefused(h)
    BY <1>7 DEF MarkRefusal
  <2>5. CASE hook[h].turn = generation
    <3>1. refused' = TRUE
      BY <1>7, <2>5 DEF MarkRefusal
    <3>. QED
      BY <2>1, <2>2, <2>5, <3>1
  <2>6. CASE hook[h].turn # generation
    <3>1. refused' = refused
      BY <1>7, <2>6 DEF MarkRefusal
    <3>2. \A g \in Hooks : RefusedNow(g)' <=> RefusedNow(g)
      BY <2>1, <2>2, <2>3, <2>6 DEF RefusedNow, HasRefused
    <3>. QED
      BY <2>1, <3>1, <3>2, RefusalFrame
  <2>. QED
    BY <2>5, <2>6
<1>8. CASE UNCHANGED vars
  BY <1>8 DEF vars
<1>. QED
  BY <1>1, <1>2, <1>3, <1>4, <1>5, <1>6, <1>7, <1>8
     DEF Next, TurnStep, Teardown, DispatcherStep

(* While a turn runs, the flag says exactly whether the user refused a     *)
(* call this turn asked about.                                             *)
THEOREM RefusalFlagExact == Spec => []RefusalFlagIsExact
<1>1. Init => RefusalFlagIsExact
  BY DEF Init, RefusalFlagIsExact
<1>. QED
  BY <1>1, RefusalStep, InvariantHolds, PTL DEF Spec

-----------------------------------------------------------------------------
(* What is remembered, and what is allowed on its strength *)

(* A finished hook never changes again: the dispatcher and the turn reach  *)
(* only hooks with an open request.                                        *)
LEMMA DoneIsFinal ==
    ASSUME TypeOK, TurnBinding, HookInv, [Next]_vars, NEW g \in Hooks, hook[g].pc = "done"
    PROVE  hook'[g] = hook[g]
<1>. USE CallsAssumption DEF TypeOK, HookInv, OpenRequest, TurnBinding, bridgeVars,
         StillItsTurn, NextGeneration, StaleAtStart, FlagAtStart, LeftAtTeardown, Honoured,
         Allowed, StickyKey
<1>1. ASSUME NEW s \in Sessions, StartTurn(s) PROVE hook'[g] = hook[g]
  BY <1>1 DEF StartTurn, Abandon, AllPending
<1>2. ASSUME \/ \E c \in Convs : Spawn(c)
             \/ SpawnFails \/ ReadRefused \/ RegisterConversation \/ ClearActive \/ CloseOutput
             \/ \E s \in Sessions : ForgetSession(s)
      PROVE  hook'[g] = hook[g]
  BY <1>2 DEF Spawn, SpawnFails, ReadRefused, RegisterConversation, ClearActive,
     ForgetSession, CloseOutput
<1>3. ASSUME AbandonAtTeardown PROVE hook'[g] = hook[g]
  BY <1>3 DEF AbandonAtTeardown, Abandon, PendingOf
<1>4. ASSUME NEW s \in Sessions, Cancel(s) PROVE hook'[g] = hook[g]
  BY <1>4 DEF Cancel, Abandon, PendingOf
<1>5. ASSUME NEW h \in Hooks, NEW a \in HostAnswers, HostAnswer(h, a) PROVE hook'[g] = hook[g]
  BY <1>5 DEF HostAnswer
<1>6. ASSUME NEW h \in Hooks, HookStep(h) PROVE hook'[g] = hook[g]
  BY <1>6 DEF Arrive, Resolve, Goto, Decide, Conclude, Screen, LookupDeny, LookupAllow,
     RegisterPending, SendRequest, Receive, WithdrawTimedOut, ApplyOutcome, MarkRefusal,
     StoreSticky, Timeout, HookStep, HookRuns
<1>7. CASE UNCHANGED vars
  BY <1>7 DEF vars
<1>. QED
  BY <1>1, <1>2, <1>3, <1>4, <1>5, <1>6, <1>7
     DEF Next, TurnStep, Teardown, DispatcherStep, HookStep, HookRuns

(* Answers are remembered by StoreSticky alone. *)
LEMMA StoreOnly ==
    ASSUME TypeOK, [Next]_vars, NEW s \in Sessions, NEW k \in Keys,
           always'[s][k] # always[s][k], always'[s][k] # "None"
    PROVE  \E h \in Hooks : StoreSticky(h)
<1>. USE DEF TypeOK, bridgeVars,
         StillItsTurn, NextGeneration, StaleAtStart, FlagAtStart, LeftAtTeardown, Honoured,
         Allowed, StickyKey
<1>1. ASSUME \/ \E u \in Sessions : StartTurn(u) \/ Cancel(u)
             \/ AbandonAtTeardown
             \/ \E h \in Hooks, a \in HostAnswers : HostAnswer(h, a)
      PROVE  \E h \in Hooks : StoreSticky(h)
  BY <1>1 DEF StartTurn, AbandonAtTeardown, Cancel, HostAnswer
<1>2. ASSUME \/ \E c \in Convs : Spawn(c)
             \/ SpawnFails \/ ReadRefused \/ RegisterConversation \/ ClearActive \/ CloseOutput
      PROVE  \E h \in Hooks : StoreSticky(h)
  BY <1>2 DEF Spawn, SpawnFails, ReadRefused, RegisterConversation, ClearActive, CloseOutput
<1>3. ASSUME NEW u \in Sessions, ForgetSession(u) PROVE \E h \in Hooks : StoreSticky(h)
  BY <1>3 DEF ForgetSession
<1>4. ASSUME NEW g \in Hooks, HookStep(g) PROVE \E h \in Hooks : StoreSticky(h)
  BY <1>4 DEF Arrive, Resolve, Screen, LookupDeny, LookupAllow, RegisterPending, SendRequest,
     Receive, WithdrawTimedOut, ApplyOutcome, MarkRefusal, StoreSticky, Timeout, HookStep, HookRuns
<1>5. CASE UNCHANGED vars
  BY <1>5 DEF vars
<1>. QED
  BY <1>1, <1>2, <1>3, <1>4, <1>5
     DEF Next, TurnStep, Teardown, DispatcherStep, HookStep, HookRuns

(* A sticky answer is stored while the turn that asked is still running.   *)
LEMMA StoreBinding ==
    ASSUME TypeOK, NEW h \in Hooks, StoreSticky(h), NEW s \in Sessions, NEW k \in Keys,
           always'[s][k] # always[s][k]
    PROVE  hook[h].session = s /\ hook[h].turn = generation
BY DEF TypeOK, StoreSticky, StillItsTurn

(* Storing adds one entry, for the session and key of the call that was    *)
(* asked.                                                                  *)
LEMMA StoreEffect ==
    ASSUME TypeOK, HookInv, NEW h \in Hooks, StoreSticky(h), NEW s \in Sessions, NEW k \in Keys,
           always'[s][k] # always[s][k]
    PROVE  \/ always'[s][k] = "Allow" /\ Allower(h, s, k)'
           \/ always'[s][k] = "Deny" /\ Rejecter(h, s, k)'
<1>1. /\ hook[h].pc = "storing" /\ hook[h].session = s /\ generation = hook[h].turn
      /\ always \in [Sessions -> [Keys -> {"None", "Allow", "Deny"}]]
  BY StoreBinding DEF TypeOK, StoreSticky, StillItsTurn
<1>2. /\ hook'[h].pc = "done" /\ hook'[h].session = s /\ hook'[h].call = hook[h].call
      /\ hook'[h].outcome = hook[h].outcome /\ hook'[h].answer = hook[h].answer
  BY <1>1 DEF TypeOK, HookRecords, StoreSticky, Goto
<1>3. CASE hook[h].outcome = "approved"
  <2>1. hook[h].answer = "allow_always"
    BY <1>1, <1>3 DEF HookInv, HookShape
  <2>2. always'[s][k] = "Allow" /\ AllowKey[hook[h].call] = k
    BY <1>1, <1>3 DEF StoreSticky, StickyKey, Allowed
  <2>. QED
    BY <1>2, <1>3, <2>1, <2>2 DEF Allower
<1>4. CASE hook[h].outcome # "approved"
  <2>1. hook[h].answer = "reject_always"
    BY <1>1, <1>4 DEF HookInv, HookShape
  <2>2. always'[s][k] = "Deny" /\ FingerprintKey[hook[h].call] = k
    BY <1>1, <1>4 DEF StoreSticky, StickyKey, Allowed
  <2>. QED
    BY <1>2, <2>1, <2>2 DEF Rejecter
<1>. QED
  BY <1>3, <1>4

(* What is remembered keeps an answered hook behind it, whatever is stored *)
(* or forgotten.                                                           *)
LEMMA RememberedStep ==
    TypeOK /\ TurnBinding /\ HookInv /\ RememberedInv /\ [Next]_vars => RememberedInv'
<1>. SUFFICES ASSUME TypeOK, TurnBinding, HookInv, RememberedInv, [Next]_vars,
                     NEW s \in Sessions, NEW k \in Keys
              PROVE  /\ always'[s][k] = "Allow" => \E h \in Hooks : Allower(h, s, k)'
                     /\ always'[s][k] = "Deny" => \E h \in Hooks : Rejecter(h, s, k)'
  BY DEF RememberedInv
<1>1. CASE always'[s][k] = always[s][k]
  <2>1. \A h \in Hooks : Allower(h, s, k) => Allower(h, s, k)'
    BY DoneIsFinal DEF Allower
  <2>2. \A h \in Hooks : Rejecter(h, s, k) => Rejecter(h, s, k)'
    BY DoneIsFinal DEF Rejecter
  <2>. QED
    BY <1>1, <2>1, <2>2 DEF RememberedInv
<1>2. CASE always'[s][k] # always[s][k] /\ always'[s][k] # "None"
  <2>1. PICK h \in Hooks : StoreSticky(h)
    BY <1>2, StoreOnly
  <2>2. \/ always'[s][k] = "Allow" /\ Allower(h, s, k)'
        \/ always'[s][k] = "Deny" /\ Rejecter(h, s, k)'
    BY <1>2, <2>1, StoreEffect
  <2>. QED
    BY <2>2
<1>. QED
  BY <1>1, <1>2

(* Every remembered entry has a hook behind it that was answered with      *)
(* always.                                                                 *)
LEMMA RememberedHolds == Spec => []RememberedInv
<1>1. Init => RememberedInv
  BY DEF Init, RememberedInv
<1>. QED
  BY <1>1, RememberedStep, InvariantHolds, PTL DEF Spec

(* Every sticky entry has a user's "always" answer behind it, from the     *)
(* same session and with the key its label named.                          *)
THEOREM OnlyWhatWasSaid == Spec => []RememberedWasSaid
<1>1. RememberedInv => RememberedWasSaid
  BY DEF RememberedInv, RememberedWasSaid, Allower, Rejecter
<1>. QED
  BY <1>1, RememberedHolds, PTL

(* A sticky entry appears only for the session whose turn is running. *)
THEOREM StickyNeedsItsTurn == Spec => StickyOnlyFromTheRunningTurn
<1>1. TypeOK /\ HookInv /\ [Next]_vars =>
        [\A s \in Sessions, k \in Keys :
            always'[s][k] # always[s][k] => always'[s][k] = "None" \/ s = activeSession]_vars
  <2>. SUFFICES ASSUME TypeOK, HookInv, [Next]_vars, NEW s \in Sessions, NEW k \in Keys,
                       always'[s][k] # always[s][k], always'[s][k] # "None"
                PROVE  s = activeSession
    OBVIOUS
  <2>1. PICK h \in Hooks : StoreSticky(h)
    BY StoreOnly
  <2>2. hook[h].session = s /\ hook[h].turn = generation
    BY <2>1, StoreBinding
  <2>3. s # None
    BY CallsAssumption
  <2>. QED
    BY <2>2, <2>3 DEF HookInv, HookTurn
<1>. QED
  BY <1>1, InvariantHolds, PTL DEF Spec, StickyOnlyFromTheRunningTurn

(* Only the second lookup allows on the strength of a remembered answer. *)
LEMMA LookupOnly ==
    ASSUME TypeOK, [Next]_vars, NEW g \in Hooks, hook[g].outcome # "rememberedAllow",
           hook'[g].outcome = "rememberedAllow"
    PROVE  LookupAllow(g)
<1>. USE DEF TypeOK, HookRecords, bridgeVars,
         StillItsTurn, NextGeneration, StaleAtStart, FlagAtStart, LeftAtTeardown, Honoured,
         Allowed, StickyKey
<1>1. ASSUME NEW s \in Sessions, StartTurn(s) PROVE LookupAllow(g)
  BY <1>1 DEF StartTurn, Abandon, AllPending
<1>2. ASSUME \/ \E c \in Convs : Spawn(c)
             \/ SpawnFails \/ ReadRefused \/ RegisterConversation \/ ClearActive \/ CloseOutput
             \/ \E s \in Sessions : ForgetSession(s)
      PROVE  LookupAllow(g)
  BY <1>2 DEF Spawn, SpawnFails, ReadRefused, RegisterConversation, ClearActive,
     ForgetSession, CloseOutput
<1>3. ASSUME AbandonAtTeardown PROVE LookupAllow(g)
  BY <1>3 DEF AbandonAtTeardown, Abandon, PendingOf
<1>4. ASSUME NEW s \in Sessions, Cancel(s) PROVE LookupAllow(g)
  BY <1>4 DEF Cancel, Abandon, PendingOf
<1>5. ASSUME NEW h \in Hooks, NEW a \in HostAnswers, HostAnswer(h, a) PROVE LookupAllow(g)
  BY <1>5 DEF HostAnswer
<1>6. ASSUME NEW h \in Hooks, Arrive(h) PROVE LookupAllow(g)
  BY <1>6 DEF Arrive
<1>7. ASSUME NEW h \in Hooks, Resolve(h) PROVE LookupAllow(g)
  <2>1. CASE Decide(h, "noSession")
    BY <1>7, <2>1 DEF Resolve, Goto, Decide, Conclude
  <2>2. CASE Decide(h, "turnEnded")
    BY <1>7, <2>2 DEF Resolve, Goto, Decide, Conclude
  <2>3. CASE hook' = [hook EXCEPT ![h].pc = "resolved", ![h].session = activeSession,
                                  ![h].turn = generation]
    BY <1>7, <2>3 DEF Resolve, Goto, Decide, Conclude
  <2>. QED
    BY <1>7, <2>1, <2>2, <2>3 DEF Resolve
<1>8. ASSUME NEW h \in Hooks, Screen(h) PROVE LookupAllow(g)
  <2>1. CASE Decide(h, "hookRoot")
    BY <1>8, <2>1 DEF Screen, Goto, Decide, Conclude
  <2>2. CASE Decide(h, "autoAllowed")
    BY <1>8, <2>2 DEF Screen, Goto, Decide, Conclude
  <2>3. CASE Goto(h, "screened")
    BY <1>8, <2>3 DEF Screen, Goto, Decide, Conclude
  <2>. QED
    BY <1>8, <2>1, <2>2, <2>3 DEF Screen
<1>9. ASSUME NEW h \in Hooks, LookupDeny(h) PROVE LookupAllow(g)
  <2>1. CASE Conclude(h, "rememberedDeny", "marking")
    BY <1>9, <2>1 DEF LookupDeny, Goto, Decide, Conclude
  <2>2. CASE Goto(h, "denyChecked")
    BY <1>9, <2>2 DEF LookupDeny, Goto, Decide, Conclude
  <2>. QED
    BY <1>9, <2>1, <2>2 DEF LookupDeny
<1>10. ASSUME NEW h \in Hooks, LookupAllow(h) PROVE LookupAllow(g)
  <2>1. CASE Decide(h, "rememberedAllow")
    BY <1>10, <2>1 DEF LookupAllow, Goto, Decide, Conclude
  <2>2. CASE Goto(h, "unregistered")
    BY <1>10, <2>2 DEF LookupAllow, Goto, Decide, Conclude
  <2>. QED
    BY <1>10, <2>1, <2>2 DEF LookupAllow
<1>11. ASSUME NEW h \in Hooks, RegisterPending(h) PROVE LookupAllow(g)
  <2>1. CASE Decide(h, "turnEnded")
    BY <1>11, <2>1 DEF RegisterPending, Goto, Decide, Conclude
  <2>2. CASE Goto(h, "registered")
    BY <1>11, <2>2 DEF RegisterPending, Goto, Decide, Conclude
  <2>. QED
    BY <1>11, <2>1, <2>2 DEF RegisterPending
<1>12. ASSUME NEW h \in Hooks, SendRequest(h) PROVE LookupAllow(g)
  <2>1. CASE Goto(h, "waiting")
    BY <1>12, <2>1 DEF SendRequest, Goto, Decide, Conclude
  <2>2. CASE Decide(h, "closed")
    BY <1>12, <2>2 DEF SendRequest, Goto, Decide, Conclude
  <2>. QED
    BY <1>12, <2>1, <2>2 DEF SendRequest
<1>13. ASSUME NEW h \in Hooks, Receive(h) PROVE LookupAllow(g)
  <2>1. CASE Decide(h, "abandoned")
    BY <1>13, <2>1 DEF Receive, Goto, Decide, Conclude
  <2>2. CASE Goto(h, "answered")
    BY <1>13, <2>2 DEF Receive, Goto, Decide, Conclude
  <2>. QED
    BY <1>13, <2>1, <2>2 DEF Receive
<1>14. ASSUME NEW h \in Hooks, WithdrawTimedOut(h) PROVE LookupAllow(g)
  BY <1>14 DEF WithdrawTimedOut, Conclude
<1>15. ASSUME NEW h \in Hooks, ApplyOutcome(h) PROVE LookupAllow(g)
  <2>1. CASE Conclude(h, "dismissed", "marking")
    BY <1>15, <2>1 DEF ApplyOutcome, Goto, Decide, Conclude
  <2>2. CASE Conclude(h, "declined", "marking")
    BY <1>15, <2>2 DEF ApplyOutcome, Goto, Decide, Conclude
  <2>3. CASE Decide(h, "approved")
    BY <1>15, <2>3 DEF ApplyOutcome, Goto, Decide, Conclude
  <2>4. CASE Conclude(h, "approved", "storing")
    BY <1>15, <2>4 DEF ApplyOutcome, Goto, Decide, Conclude
  <2>. QED
    BY <1>15, <2>1, <2>2, <2>3, <2>4 DEF ApplyOutcome
<1>16. ASSUME NEW h \in Hooks, MarkRefusal(h) PROVE LookupAllow(g)
  BY <1>16 DEF MarkRefusal, Goto
<1>17. ASSUME NEW h \in Hooks, StoreSticky(h) PROVE LookupAllow(g)
  BY <1>17 DEF StoreSticky, Goto
<1>18. ASSUME NEW h \in Hooks, Timeout(h) PROVE LookupAllow(g)
  BY <1>18 DEF Timeout, Goto
<1>19. CASE UNCHANGED vars
  BY <1>19 DEF vars
<1>. QED
  BY <1>1, <1>2, <1>3, <1>4, <1>5, <1>6, <1>7, <1>8, <1>9, <1>10, <1>11, <1>12, <1>13,
     <1>14, <1>15, <1>16, <1>17, <1>18, <1>19
     DEF Next, TurnStep, Teardown, DispatcherStep, HookStep, HookRuns

(* A remembered allowance once found stays warranted by the hook that was  *)
(* answered.                                                               *)
LEMMA WarrantStep ==
    TypeOK /\ TurnBinding /\ HookInv /\ RememberedInv /\ WarrantInv /\ [Next]_vars => WarrantInv'
<1>. SUFFICES ASSUME TypeOK, TurnBinding, HookInv, RememberedInv, WarrantInv, [Next]_vars,
                     NEW h \in Hooks, hook'[h].outcome = "rememberedAllow"
              PROVE  RememberedWarrant(h)'
  BY DEF WarrantInv
<1>0. hook \in [Hooks -> HookRecords]
  BY DEF TypeOK
<1>1. CASE hook[h].outcome = "rememberedAllow"
  <2>1. PICK g \in Hooks : Allower(g, hook[h].session, AllowKey[hook[h].call])
    BY <1>1 DEF WarrantInv, RememberedWarrant, Allower
  <2>2. hook'[h] = hook[h] /\ hook'[g] = hook[g]
    BY <1>1, <2>1, DoneIsFinal DEF WarrantInv, RememberedWarrant, Allower
  <2>. QED
    BY <1>1, <2>1, <2>2 DEF WarrantInv, RememberedWarrant, Allower
<1>2. CASE hook[h].outcome # "rememberedAllow"
  <2>1. LookupAllow(h) /\ Decide(h, "rememberedAllow")
    <3>1. LookupAllow(h)
      BY <1>2, LookupOnly
    <3>2. ~Goto(h, "unregistered")
      BY <1>0, <1>2 DEF Goto, HookRecords
    <3>. QED
      BY <3>1, <3>2 DEF LookupAllow
  <2>2. Remembered(h, AllowKey) = "Allow" /\ hook[h].call \notin Escapes
    <3>1. ~Goto(h, "unregistered")
      BY <1>0, <1>2 DEF Goto, HookRecords
    <3>. QED
      BY <2>1, <3>1 DEF LookupAllow, Honoured
  <2>3. /\ hook'[h].pc = "done" /\ hook'[h].call = hook[h].call
        /\ hook'[h].session = hook[h].session
    BY <1>0, <2>1 DEF Decide, Conclude, HookRecords
  <2>4. hook[h].session \in Sessions /\ AllowKey[hook[h].call] \in Keys
    BY <1>0, <2>1, CallsAssumption DEF LookupAllow, HookInv, HookShape, HookRecords
  <2>5. PICK g \in Hooks : Allower(g, hook[h].session, AllowKey[hook[h].call])
    BY <2>2, <2>4 DEF Remembered, RememberedInv
  <2>6. hook'[g] = hook[g]
    BY <2>5, DoneIsFinal DEF Allower
  <2>. QED
    BY <2>2, <2>3, <2>5, <2>6 DEF RememberedWarrant, Allower
<1>. QED
  BY <1>1, <1>2

(* No call runs without a warrant: the policy, this request's own answer,  *)
(* or an "always allow" of the same session that covers a contained call.  *)
THEOREM AllowWarranted == Spec => []AllowIsWarranted
<1>1. Init => WarrantInv
  BY DEF Init, WarrantInv
<1>2. HookInv /\ WarrantInv => AllowIsWarranted
  BY DEF HookInv, HookShape, WarrantInv, RememberedWarrant, Allower, Allowing, AllowIsWarranted
<1>. QED
  BY <1>1, <1>2, WarrantStep, RememberedHolds, InvariantHolds, PTL DEF Spec

-----------------------------------------------------------------------------
(* What the turn reports *)

(* The flag is read in exactly one place. *)
LEMMA ReadOnly ==
    ASSUME TypeOK, [Next]_vars, turn.phase = "running", turn'.phase = "flagRead"
    PROVE  ReadRefused
<1>. USE DEF TypeOK, bridgeVars,
         StillItsTurn, NextGeneration, StaleAtStart, FlagAtStart, LeftAtTeardown, Honoured,
         Allowed, StickyKey
<1>1. ASSUME \/ \E s \in Sessions : StartTurn(s) \/ Cancel(s) \/ ForgetSession(s)
             \/ \E c \in Convs : Spawn(c)
             \/ SpawnFails \/ ReadRefused \/ RegisterConversation \/ ClearActive
             \/ AbandonAtTeardown
             \/ CloseOutput
             \/ \E h \in Hooks, a \in HostAnswers : HostAnswer(h, a)
      PROVE  ReadRefused
  BY <1>1 DEF StartTurn, NoTurn, Spawn, SpawnFails, ReadRefused, RegisterConversation,
     ClearActive, AbandonAtTeardown, Cancel, ForgetSession, HostAnswer, CloseOutput
<1>2. ASSUME NEW h \in Hooks, HookStep(h) PROVE ReadRefused
  BY <1>2 DEF Arrive, Resolve, Screen, LookupDeny, LookupAllow, RegisterPending, SendRequest,
     Receive, WithdrawTimedOut, ApplyOutcome, MarkRefusal, StoreSticky, Timeout, HookStep, HookRuns
<1>3. CASE UNCHANGED vars
  BY <1>3 DEF vars
<1>. QED
  BY <1>1, <1>2, <1>3
     DEF Next, TurnStep, Teardown, DispatcherStep, HookStep, HookRuns

(* A turn reports "refusal" exactly when the user refused a call it asked  *)
(* about.                                                                  *)
THEOREM ReportsOwnRefusals == Spec => TurnReportsItsOwnRefusals
<1>1. TypeOK /\ TurnBinding /\ RefusalFlagIsExact /\ [Next]_vars =>
        [turn.phase = "running" /\ turn'.phase = "flagRead" =>
           (turn'.denied <=> \E h \in Hooks : HasRefused(h) /\ hook[h].turn = generation)]_vars
  <2>. SUFFICES ASSUME TypeOK, TurnBinding, RefusalFlagIsExact, [Next]_vars,
                       turn.phase = "running", turn'.phase = "flagRead"
                PROVE  turn'.denied <=>
                         \E h \in Hooks : HasRefused(h) /\ hook[h].turn = generation
    OBVIOUS
  <2>1. ReadRefused
    BY ReadOnly
  <2>2. turn'.denied = refused
    BY <2>1 DEF ReadRefused, TypeOK
  <2>3. activeSession # None
    BY DEF TurnBinding
  <2>. QED
    BY <2>2, <2>3 DEF RefusalFlagIsExact
<1>. QED
  BY <1>1, InvariantHolds, RefusalFlagExact, PTL DEF Spec, TurnReportsItsOwnRefusals
=============================================================================
