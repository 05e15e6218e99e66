--------------------------- MODULE Dispatcher_proofs ---------------------------
(***************************************************************************)
(* Theorems about Dispatcher: the count the process exits by, the order of *)
(* what a client is told, and the reach of a cancel, for any sessions,     *)
(* requests and number of updates.                                         *)
(***************************************************************************)
EXTENDS Dispatcher, FiniteSetTheorems, TLAPS

-----------------------------------------------------------------------------
(* Channels *)

LEMMA Appended ==
    ASSUME NEW S, NEW s \in Seq(S), NEW e \in S
    PROVE  /\ Append(s, e) \in Seq(S)
           /\ Len(Append(s, e)) = Len(s) + 1 /\ DOMAIN Append(s, e) = 1 .. Len(s) + 1
           /\ \A i \in 1 .. Len(s) : Append(s, e)[i] = s[i]
           /\ Append(s, e)[Len(s) + 1] = e
           /\ s # <<>> => Head(Append(s, e)) = Head(s)
           /\ Append(s, e) # <<>>
OBVIOUS

LEMMA Taken ==
    ASSUME NEW S, NEW s \in Seq(S), s # <<>>
    PROVE  /\ Tail(s) \in Seq(S) /\ Head(s) \in S /\ Head(s) = s[1] /\ Len(s) >= 1
           /\ Len(Tail(s)) = Len(s) - 1 /\ DOMAIN Tail(s) = 1 .. Len(s) - 1
           /\ \A i \in 1 .. Len(s) - 1 : Tail(s)[i] = s[i + 1]
OBVIOUS

-----------------------------------------------------------------------------
(* Type correctness *)

(* A running turn holds the mutex, and the loop waits for it in the queue. *)
MutexInv ==
    /\ \A p \in Prompts : task[p] = "running" => lock # <<>> /\ Head(lock) = p
    /\ at = "lock" => /\ line.kind = "inline"
                      /\ \E i \in 1 .. Len(lock) : lock[i] = Main

TypeInv == TypeOK /\ MutexInv

LEMMA IdFacts ==
    /\ Prompts \subseteq Ids /\ Main \notin Prompts
    /\ \A m \in Prompts : m \notin Cancels /\ m \notin Inlines
    /\ \A m \in Cancels : m \notin Inlines
BY IdsAssumption DEF Ids, Messages

LEMMA LineFacts ==
    ASSUME NEW l \in Lines \cup {NoLine}
    PROVE  /\ l.kind = "prompt" => l.id \in Prompts /\ l = [kind |-> "prompt", id |-> l.id]
           /\ l.kind = "inline" => l.id \in Inlines
           /\ l.kind = "cancel" => l.id \in Cancels
           /\ l.kind = "answer" => l.id \in Prompts
BY DEF Lines, NoLine, KindOf, Messages

LEMMA TypeInit == Init => TypeInv
<1>. SUFFICES ASSUME Init PROVE TypeInv
  OBVIOUS
<1>1. /\ inbox \in Seq(Lines) /\ out \in Seq(Outputs) /\ lock \in Seq(Prompts \cup {Main})
  BY DEF Init
<1>2. /\ updates \in [Prompts -> 0 .. MaxUpdates] /\ answered \in [Ids -> Nat]
  BY BoundsAssumption DEF Init
<1>3. task \in [Prompts -> {"none", "ended"} \cup InFlight] /\ \A p \in Prompts : task[p] = "none"
  BY DEF Init
<1>. QED
  BY <1>1, <1>2, <1>3 DEF Init, TypeInv, TypeOK, MutexInv

LEMMA HostTyped ==
    ASSUME TypeInv, HostStep
    PROVE  TypeInv'
<1>. USE DEF TypeInv, TypeOK, MutexInv, loopVars, taskVars, hostVars
<1>1. CASE \E m \in Messages : SendMessage(m)
  <2>1. PICK m \in Messages : SendMessage(m)
    BY <1>1
  <2>2. [kind |-> KindOf(m), id |-> m] \in Lines
    BY DEF Lines
  <2>. QED
    BY <2>1, <2>2, Appended DEF SendMessage, Sends
<1>2. CASE \E p \in Prompts : SendAnswer(p)
  <2>1. PICK p \in Prompts : SendAnswer(p)
    BY <1>2
  <2>2. [kind |-> "answer", id |-> p] \in Lines
    BY DEF Lines
  <2>. QED
    BY <2>1, <2>2, Appended DEF SendAnswer, Sends
<1>3. CASE CloseStdin
  BY <1>3 DEF CloseStdin
<1>. QED
  BY <1>1, <1>2, <1>3 DEF HostStep

LEMMA OutputTyped ==
    ASSUME TypeInv, TakeOutput
    PROVE  TypeInv'
<1>. USE DEF TypeInv, TypeOK, MutexInv, hostVars, taskVars
<1>1. out' \in Seq(Outputs) /\ Head(out) \in Outputs
  BY Taken DEF TakeOutput
<1>2. pendingPrompts' \in Nat
  BY DEF TakeOutput, FinishedOne
<1>3. Head(out).id \in Prompts /\ Head(out).id \in Ids
  BY <1>1, IdFacts DEF Outputs
<1>4. answered' \in [Ids -> Nat] /\ shown' \subseteq Prompts
  BY <1>3 DEF TakeOutput
<1>. QED
  BY <1>1, <1>2, <1>4 DEF TakeOutput

LEMMA Written ==
    ASSUME TypeInv, NEW m \in Messages, WriteResponse(m)
    PROVE  answered' \in [Ids -> Nat] /\ (m \notin Prompts => \A p \in Prompts : answered'[p] = answered[p])
BY IdFacts DEF TypeInv, TypeOK, WriteResponse

LEMMA LoopTyped ==
    ASSUME TypeInv, LoopStep
    PROVE  TypeInv'
<1>. USE DEF TypeInv, TypeOK, MutexInv, hostVars, taskVars, Dispatches, Dispatched
<1>1. CASE Forward \/ Flush
  BY <1>1, OutputTyped DEF Forward, Flush
<1>2. CASE TakeLine
  BY <1>2, Taken DEF TakeLine
<1>3. CASE SeeEof \/ Exit
  BY <1>3 DEF SeeEof, Exit
<1>4. CASE DispatchPrompt
  <2>1. line.id \in Prompts /\ SessionOf[line.id] \in Sessions
    BY <1>4, LineFacts, IdsAssumption DEF DispatchPrompt
  <2>2. registry' \in [Sessions -> SUBSET Prompts]
    BY <1>4, <2>1 DEF DispatchPrompt, WithToken
  <2>3. /\ task' \in [Prompts -> {"none", "ended"} \cup InFlight]
        /\ \A p \in Prompts : task'[p] = "running" => task[p] = "running"
    BY <1>4, <2>1 DEF DispatchPrompt, InFlight, Registered
  <2>. QED
    BY <1>4, <2>2, <2>3 DEF DispatchPrompt
<1>5. CASE DispatchCancel
  <2>1. line.id \in Cancels /\ line.id \in Messages
    BY <1>5, LineFacts DEF DispatchCancel, Messages
  <2>2. answered' \in [Ids -> Nat]
    BY <1>5, <2>1, Written DEF DispatchCancel
  <2>3. cancelled' \in [Prompts -> BOOLEAN] /\ ask' \in [Prompts -> {"none", "open", "settled"}]
    BY <1>5 DEF DispatchCancel, Settle
  <2>. QED
    BY <1>5, <2>2, <2>3 DEF DispatchCancel
<1>6. CASE DispatchAnswer
  BY <1>6 DEF DispatchAnswer, Settle
<1>7. CASE DispatchInline
  BY <1>7, Appended DEF DispatchInline
<1>8. CASE ServeInline
  <2>1. line.id \in Messages
    BY <1>8, LineFacts DEF ServeInline, Messages
  <2>2. answered' \in [Ids -> Nat]
    BY <1>8, <2>1, Written DEF ServeInline
  <2>3. lock # <<>> /\ lock' \in Seq(Prompts \cup {Main})
    BY <1>8, Taken DEF ServeInline
  <2>4. \A p \in Prompts : task[p] # "running"
    BY <1>8, IdFacts DEF ServeInline
  <2>. QED
    BY <1>8, <2>2, <2>3, <2>4 DEF ServeInline
<1>. QED
  BY <1>1, <1>2, <1>3, <1>4, <1>5, <1>6, <1>7, <1>8 DEF LoopStep

LEMMA OutFacts ==
    ASSUME TypeInv
    PROVE  /\ DOMAIN out = 1 .. Len(out) /\ Len(out) \in Nat
           /\ \A i \in 1 .. Len(out) : out[i] \in Outputs /\ out[i].id \in Prompts /\ out[i].id \in Ids
<1>1. out \in Seq(Outputs)
  BY DEF TypeInv, TypeOK
<1>2. \A o \in Outputs : o.id \in Prompts /\ o.id \in Ids
  BY IdFacts DEF Outputs
<1>. QED
  BY <1>1, <1>2

(* A task that advances, and what it emits.                                *)
LEMMA Advances ==
    ASSUME TypeInv, NEW p \in Prompts, NEW from, NEW to \in {"none", "ended"} \cup InFlight,
           Advance(p, from, to)
    PROVE  /\ task' \in [Prompts -> {"none", "ended"} \cup InFlight]
           /\ task[p] = from /\ task'[p] = to
           /\ \A q \in Prompts : q # p => task'[q] = task[q]
BY DEF TypeInv, TypeOK, Advance

LEMMA Emitted ==
    ASSUME TypeInv, NEW p \in Prompts, NEW k \in {"update", "ask", "response", "sentinel"}, Emits(p, k)
    PROVE  /\ out' \in Seq(Outputs) /\ Len(out') = Len(out) + 1
           /\ DOMAIN out = 1 .. Len(out) /\ DOMAIN out' = 1 .. Len(out) + 1 /\ Len(out) \in Nat
           /\ \A i \in 1 .. Len(out) : out'[i] = out[i]
           /\ out'[Len(out) + 1] = [kind |-> k, id |-> p]
BY Appended DEF TypeInv, TypeOK, Emits, Outputs

LEMMA TaskTyped ==
    ASSUME TypeInv, NEW p \in Prompts, TaskRuns(p) \/ TurnStep(p)
    PROVE  TypeInv'
<1>. USE DEF hostVars, loopVars
<1>1. CASE Enqueue(p)
  <2>1. /\ Advance(p, "spawned", "waiting") /\ lock' = Append(lock, p)
        /\ UNCHANGED <<hostVars, inbox, out, loopVars, registry, cancelled, updates, ask>>
    BY <1>1 DEF Enqueue
  <2>2. \A q \in Prompts : task'[q] = "running" => task[q] = "running"
    BY <2>1, Advances DEF InFlight, Registered
  <2>3. task' \in [Prompts -> {"none", "ended"} \cup InFlight]
    BY <2>1, Advances DEF InFlight, Registered
  <2>. QED
    <3>1. lock \in Seq(Prompts \cup {Main}) /\ p \in Prompts \cup {Main}
      BY DEF TypeInv, TypeOK
    <3>2. /\ lock' \in Seq(Prompts \cup {Main}) /\ lock' # <<>>
          /\ lock # <<>> => Head(lock') = Head(lock)
          /\ Len(lock') = Len(lock) + 1 /\ \A i \in 1 .. Len(lock) : lock'[i] = lock[i]
      BY <2>1, <3>1, Appended
    <3>3. MutexInv'
      BY <2>1, <2>2, <3>1, <3>2 DEF TypeInv, MutexInv
    <3>. QED
      BY <2>1, <2>3, <3>2, <3>3 DEF TypeInv, TypeOK
<1>2. CASE Begin(p)
  <2>1. Advance(p, "waiting", "running")
    BY <1>2 DEF Begin
  <2>2. /\ task' \in [Prompts -> {"none", "ended"} \cup InFlight]
        /\ \A q \in Prompts : q # p => task'[q] = task[q]
    BY <2>1, Advances DEF InFlight, Registered
  <2>. QED
    BY <1>2, <2>2 DEF Begin, TypeInv, TypeOK, MutexInv
<1>3. CASE Return(p)
  <2>1. /\ Advance(p, "running", "returned") /\ lock' = Tail(lock)
        /\ UNCHANGED <<hostVars, inbox, out, loopVars, registry, cancelled, updates>>
    BY <1>3 DEF Return
  <2>2. /\ task' \in [Prompts -> {"none", "ended"} \cup InFlight] /\ task[p] = "running"
        /\ task'[p] = "returned" /\ \A q \in Prompts : q # p => task'[q] = task[q]
    BY <2>1, Advances DEF InFlight, Registered
  <2>3. /\ lock # <<>> /\ Head(lock) = p /\ lock' \in Seq(Prompts \cup {Main})
        /\ \A q \in Prompts : task'[q] # "running"
    BY <2>1, <2>2, Taken DEF TypeInv, TypeOK, MutexInv
  <2>4. ask' \in [Prompts -> {"none", "open", "settled"}]
    BY <1>3 DEF Return, Settle, TypeInv, TypeOK
  <2>5. ASSUME at = "lock" PROVE \E i \in 1 .. Len(lock') : lock'[i] = Main
    <3>1. PICK i \in 1 .. Len(lock) : lock[i] = Main
      BY <2>5 DEF TypeInv, MutexInv
    <3>2. i > 1
      BY <2>3, <3>1, IdFacts, Taken DEF TypeInv, TypeOK
    <3>3. i - 1 \in 1 .. Len(lock') /\ lock'[i - 1] = lock[i]
      BY <2>1, <2>3, <3>2, Taken DEF TypeInv, TypeOK
    <3>. QED
      BY <3>1, <3>3
  <2>. QED
    BY <2>1, <2>2, <2>3, <2>4, <2>5 DEF TypeInv, TypeOK, MutexInv
<1>4. CASE Unregister(p)
  <2>1. Advance(p, "returned", "unregistered") /\ registry' = WithoutToken(p)
    BY <1>4 DEF Unregister
  <2>2. /\ task' \in [Prompts -> {"none", "ended"} \cup InFlight]
        /\ \A q \in Prompts : task'[q] = "running" => task[q] = "running"
    BY <2>1, Advances DEF InFlight
  <2>3. registry' \in [Sessions -> SUBSET Prompts]
    BY <2>1 DEF WithoutToken, TypeInv, TypeOK
  <2>. QED
    BY <1>4, <2>2, <2>3 DEF Unregister, TypeInv, TypeOK, MutexInv
<1>5. CASE Respond(p) \/ SignalEnd(p)
  <2>1. /\ task' \in [Prompts -> {"none", "ended"} \cup InFlight]
        /\ \A q \in Prompts : task'[q] = "running" => task[q] = "running"
    BY <1>5, Advances DEF Respond, SendFirst, SignalEnd, InFlight
  <2>2. out' \in Seq(Outputs)
    BY <1>5, Emitted DEF Respond, SendFirst, SignalEnd
  <2>. QED
    BY <1>5, <2>1, <2>2 DEF Respond, SendFirst, SignalEnd, TypeInv, TypeOK, MutexInv
<1>6. CASE Publish(p)
  <2>1. updates' \in [Prompts -> 0 .. MaxUpdates]
    BY <1>6, BoundsAssumption DEF Publish, TypeInv, TypeOK
  <2>2. out' \in Seq(Outputs)
    BY <1>6, Emitted DEF Publish, PublishedAs
  <2>. QED
    BY <1>6, <2>1, <2>2 DEF Publish, TypeInv, TypeOK, MutexInv
<1>7. CASE Ask(p)
  <2>1. out' \in Seq(Outputs)
    BY <1>7, Emitted DEF Ask
  <2>. QED
    BY <1>7, <2>1 DEF Ask, TypeInv, TypeOK, MutexInv
<1>8. CASE AskTimesOut(p)
  BY <1>8 DEF AskTimesOut, Settle, TypeInv, TypeOK, MutexInv
<1>. QED
  BY <1>1, <1>2, <1>3, <1>4, <1>5, <1>6, <1>7, <1>8
     DEF TaskRuns, TurnStep, NoticeCancel, AgyFinishes, AgyDies

LEMMA TypeNext == TypeInv /\ [Next]_vars => TypeInv'
<1>. SUFFICES ASSUME TypeInv, [Next]_vars PROVE TypeInv'
  OBVIOUS
<1>1. CASE UNCHANGED vars
  BY <1>1 DEF vars, hostVars, loopVars, taskVars, TypeInv, TypeOK, MutexInv
<1>. QED
  BY <1>1, HostTyped, LoopTyped, TaskTyped DEF Next, Ended

(* The loop, its channels, the mutex and every task keep their types.      *)
THEOREM TypeCorrect == Spec => []TypeOK
<1>1. TypeInv => TypeOK
  BY DEF TypeInv
<1>. QED
  BY <1>1, TypeInit, TypeNext, PTL DEF Spec

-----------------------------------------------------------------------------
(* The count of pending prompts *)

(* A request is served at most once: it is written once, and until it is   *)
(* begun its line is in one place only.                                    *)
LineOf(m) == [kind |-> KindOf(m), id |-> m]
Unread(m) == {i \in 1 .. Len(inbox) : inbox[i] = LineOf(m)}
Taking(m) == line = LineOf(m)
Begun(m) == IF m \in Prompts THEN task[m] # "none" ELSE answered[m] # 0

OnceEach ==
    \A m \in Ids :
        /\ m \notin sent => Unread(m) = {} /\ ~Taking(m) /\ ~Begun(m)
        /\ m \in sent => Unread(m) # {} \/ Taking(m) \/ Begun(m)
        /\ Unread(m) # {} => ~Taking(m) /\ ~Begun(m)
        /\ Taking(m) => ~Begun(m)
        /\ \A i, j \in Unread(m) : i = j
        /\ m \notin Prompts => answered[m] \in {0, 1}

LineInv == OnceEach /\ (at \in {"select", "exited"} => line = NoLine)

(* A sentinel is the last a task emits, and it emits one.                  *)
Sentinels(p) == {i \in 1 .. Len(out) : out[i] = [kind |-> "sentinel", id |-> p]}

OneSentinel ==
    \A p \in Prompts :
        /\ Sentinels(p) # {} => task[p] = "ended"
        /\ \A i, j \in Sentinels(p) : i = j

CountInv == LineInv /\ OneSentinel /\ PendingPromptsExact

LEMMA LineOfIs ==
    /\ \A m \in Messages : LineOf(m) \in Lines /\ LineOf(m).id = m /\ LineOf(m) # NoLine
    /\ \A m \in Messages : LineOf(m).kind \in {"prompt", "inline", "cancel"}
    /\ \A l \in Lines : l.kind # "answer" => l = LineOf(l.id) /\ l.id \in Messages
BY DEF Lines, LineOf, KindOf, NoLine

(* What a step has to leave alone for LineInv to be kept.                  *)
LEMMA LineLeftAlone ==
    ASSUME LineInv, UNCHANGED <<inbox, line, sent>>, at' \in {"select", "exited"} => line = NoLine,
           \A m \in Ids : /\ Begun(m)' = Begun(m)
                          /\ m \notin Prompts => answered'[m] = answered[m]
    PROVE  LineInv'
<1>1. \A m \in Ids : Unread(m)' = Unread(m) /\ Taking(m)' = Taking(m)
  BY DEF Unread, Taking
<1>2. OnceEach'
  <2>. SUFFICES ASSUME NEW m \in Ids
                PROVE  /\ m \notin sent => Unread(m) = {} /\ ~Taking(m) /\ ~Begun(m)'
                       /\ m \in sent => Unread(m) # {} \/ Taking(m) \/ Begun(m)'
                       /\ Unread(m) # {} => ~Taking(m) /\ ~Begun(m)'
                       /\ Taking(m) => ~Begun(m)'
                       /\ \A i, j \in Unread(m) : i = j
                       /\ m \notin Prompts => answered'[m] \in {0, 1}
    BY <1>1 DEF OnceEach
  <2>1. Begun(m)' = Begun(m)
    OBVIOUS
  <2>. QED
    BY <2>1 DEF LineInv, OnceEach
<1>. QED
  BY <1>2 DEF LineInv

(* The loop is done with the line it took.                                 *)
LEMMA LineServed ==
    ASSUME TypeInv, LineInv, UNCHANGED <<inbox, sent>>, line' = NoLine,
           NEW r \in Messages, line = LineOf(r),
           r \in Ids => /\ Begun(r)'
                        /\ r \notin Prompts => answered'[r] = answered[r] + 1,
           \A m \in Ids : m # r => /\ Begun(m)' = Begun(m)
                                   /\ m \notin Prompts => answered'[m] = answered[m]
    PROVE  LineInv'
<1>1. \A m \in Ids : Unread(m)' = Unread(m) /\ ~Taking(m)' /\ (Taking(m) <=> m = r)
  BY LineOfIs DEF Unread, Taking, Ids
<1>2. ASSUME NEW m \in Ids, m \notin Prompts PROVE answered'[m] \in {0, 1}
  <2>1. CASE m = r
    <3>2. Taking(m) /\ answered'[m] = answered[m] + 1
      BY <1>1, <1>2, <2>1
    <3>3. ~Begun(m)
      BY <3>2 DEF LineInv, OnceEach
    <3>1. answered[m] = 0 /\ answered'[m] = answered[m] + 1
      BY <1>2, <3>2, <3>3 DEF Begun
    <3>. QED
      BY <3>1
  <2>2. CASE m # r
    BY <1>2, <2>2 DEF LineInv, OnceEach
  <2>. QED
    BY <2>1, <2>2
<1>3. ASSUME NEW m \in Ids
      PROVE  /\ m \notin sent => Unread(m) = {} /\ ~Begun(m)'
             /\ m \in sent => Unread(m) # {} \/ Begun(m)'
             /\ Unread(m) # {} => ~Begun(m)'
             /\ \A i, j \in Unread(m) : i = j
  <2>1. CASE m = r
    BY <1>1, <2>1 DEF LineInv, OnceEach
  <2>2. CASE m # r
    BY <1>1, <2>2 DEF LineInv, OnceEach
  <2>. QED
    BY <2>1, <2>2
<1>4. OnceEach'
  BY <1>1, <1>2, <1>3 DEF OnceEach
<1>. QED
  BY <1>4 DEF LineInv

LEMMA SendKeepsLines ==
    ASSUME TypeInv, LineInv, HostStep
    PROVE  LineInv'
<1>0. inbox \in Seq(Lines)
  BY DEF TypeInv, TypeOK
<1>1. ASSUME NEW m \in Messages, SendMessage(m) PROVE LineInv'
  <2>1. /\ m \notin sent /\ sent' = sent \cup {m} /\ inbox' = Append(inbox, LineOf(m))
        /\ UNCHANGED <<line, at, task, answered>>
    BY <1>1 DEF SendMessage, Sends, LineOf, loopVars, taskVars
  <2>2. /\ Len(inbox') = Len(inbox) + 1 /\ \A i \in 1 .. Len(inbox) : inbox'[i] = inbox[i]
        /\ inbox'[Len(inbox) + 1] = LineOf(m) /\ Len(inbox) \in Nat
    BY <1>0, <2>1, LineOfIs, Appended
  <2>3. \A q \in Ids : LineOf(m) = LineOf(q) => m = q
    BY LineOfIs DEF Ids
  <2>4. \A q \in Ids : Unread(q)' = IF q = m THEN Unread(q) \cup {Len(inbox) + 1} ELSE Unread(q)
    BY <2>2, <2>3 DEF Unread
  <2>. QED
    BY <2>1, <2>4 DEF LineInv, OnceEach, Taking, Begun
<1>2. ASSUME NEW p \in Prompts, SendAnswer(p) PROVE LineInv'
  <2>1. /\ inbox' = Append(inbox, [kind |-> "answer", id |-> p])
        /\ UNCHANGED <<sent, line, at, task, answered>>
    BY <1>2 DEF SendAnswer, Sends, hostVars, taskVars
  <2>2. [kind |-> "answer", id |-> p] \in Lines
    BY DEF Lines
  <2>3. \A q \in Ids : LineOf(q) # [kind |-> "answer", id |-> p]
    BY LineOfIs DEF Ids
  <2>4. /\ Len(inbox') = Len(inbox) + 1 /\ \A i \in 1 .. Len(inbox) : inbox'[i] = inbox[i]
        /\ inbox'[Len(inbox) + 1] = [kind |-> "answer", id |-> p] /\ Len(inbox) \in Nat
    BY <1>0, <2>1, <2>2, Appended
  <2>5. \A q \in Ids : Unread(q)' = Unread(q)
    BY <2>3, <2>4 DEF Unread
  <2>. QED
    BY <2>1, <2>5 DEF LineInv, OnceEach, Taking, Begun
<1>3. CASE CloseStdin
  BY <1>3, LineLeftAlone DEF CloseStdin, loopVars, taskVars, Begun, LineInv
<1>. QED
  BY <1>1, <1>2, <1>3 DEF HostStep

LEMMA TakeLineKeepsLines ==
    ASSUME TypeInv, LineInv, TakeLine
    PROVE  LineInv'
<1>1. /\ inbox # <<>> /\ line' = Head(inbox) /\ inbox' = Tail(inbox) /\ line = NoLine /\ at' = "flush"
      /\ UNCHANGED <<sent, task, answered>>
  BY DEF TakeLine, hostVars, taskVars, LineInv
<1>2. /\ line' = inbox[1] /\ Len(inbox) \in Nat /\ Len(inbox) >= 1
      /\ Len(inbox') = Len(inbox) - 1 /\ \A i \in 1 .. Len(inbox) - 1 : inbox'[i] = inbox[i + 1]
  BY <1>1, Taken DEF TypeInv, TypeOK
<1>3. ASSUME NEW m \in Ids
      PROVE  /\ \A i \in Unread(m)' : i + 1 \in Unread(m) /\ i \in Nat /\ i >= 1
             /\ \A i \in Unread(m) : i = 1 \/ i - 1 \in Unread(m)'
             /\ Taking(m)' <=> 1 \in Unread(m)
             /\ ~Taking(m) /\ Begun(m)' = Begun(m)
  BY <1>1, <1>2, LineOfIs DEF Unread, Taking, Begun, Ids
<1>4. ASSUME NEW m \in Ids
      PROVE  /\ Unread(m)' # {} => Unread(m) # {} /\ ~Taking(m)'
             /\ Unread(m) # {} => Unread(m)' # {} \/ Taking(m)'
             /\ \A i, j \in Unread(m)' : i = j
             /\ Taking(m)' => Unread(m) # {}
  BY <1>3 DEF LineInv, OnceEach
<1>. QED
  BY <1>1, <1>3, <1>4 DEF LineInv, OnceEach

LEMMA TaskKeepsLines ==
    ASSUME TypeInv, LineInv, NEW p \in Prompts, TaskRuns(p) \/ TurnStep(p)
    PROVE  LineInv'
<1>1. UNCHANGED <<sent, inbox, line, at, answered>>
  BY DEF TaskRuns, TurnStep, Enqueue, Begin, NoticeCancel, AgyFinishes, AgyDies, Return, Unregister,
         Respond, SignalEnd, Publish, Ask, AskTimesOut, hostVars, loopVars
<1>2. \A q \in Prompts : task[q] = "none" <=> task'[q] = "none"
  BY DEF TaskRuns, TurnStep, Enqueue, Begin, NoticeCancel, AgyFinishes, AgyDies, Return, Unregister,
         Respond, SendFirst, SignalEnd, Publish, Ask, AskTimesOut, Advance, TypeInv, TypeOK
<1>. QED
  BY <1>1, <1>2, LineLeftAlone DEF Begun, LineInv

LEMMA OnceNext == TypeInv /\ LineInv /\ [Next]_vars => LineInv'
<1>. SUFFICES ASSUME TypeInv, LineInv, [Next]_vars PROVE LineInv'
  OBVIOUS
<1>0. line \in Lines \cup {NoLine}
  BY DEF TypeInv, TypeOK
<1>1. CASE Forward \/ Flush
  <2>1. UNCHANGED <<inbox, line, sent, task, at>> /\ out # <<>>
    BY <1>1 DEF Forward, Flush, TakeOutput, hostVars, taskVars
  <2>2. Head(out).id \in Prompts
    <3>1. Head(out) = out[1] /\ 1 \in 1 .. Len(out)
      BY <2>1, Taken DEF TypeInv, TypeOK
    <3>. QED
      BY <3>1, OutFacts
  <2>3. \A m \in Ids : m \notin Prompts => answered'[m] = answered[m]
    BY <1>1, <2>2 DEF Forward, Flush, TakeOutput, TypeInv, TypeOK
  <2>. QED
    BY <2>1, <2>3, LineLeftAlone DEF Begun, LineInv
<1>2. CASE DispatchPrompt
  <2>. DEFINE r == line.id
  <2>1. /\ r \in Prompts /\ line' = NoLine /\ line = LineOf(r) /\ r \in Messages
        /\ UNCHANGED <<sent, inbox, answered>> /\ task'[r] = "spawned"
        /\ \A q \in Prompts : q # r => task'[q] = task[q]
    BY <1>0, <1>2, LineFacts, LineOfIs
       DEF DispatchPrompt, Dispatches, Dispatched, hostVars, TypeInv, TypeOK, NoLine
  <2>. QED
    <3>1. PICK m \in Prompts : m = r
      BY <2>1
    <3>2. Begun(m)'
      BY <2>1, <3>1 DEF Begun
    <3>3. \A q \in Ids : q # m => /\ Begun(q)' = Begun(q)
                                  /\ q \notin Prompts => answered'[q] = answered[q]
      BY <2>1, <3>1 DEF Begun
    <3>. QED
      BY <2>1, <3>1, <3>2, <3>3, LineServed
<1>3. CASE DispatchCancel \/ ServeInline
  <2>1. /\ line.id \in Messages /\ line.id \notin Prompts /\ line = LineOf(line.id)
        /\ WriteResponse(line.id) /\ line' = NoLine /\ UNCHANGED <<sent, inbox, task>>
    BY <1>0, <1>3, LineFacts, LineOfIs, IdFacts
       DEF DispatchCancel, ServeInline, Dispatches, Dispatched, hostVars, TypeInv, MutexInv, NoLine, Messages
  <2>2. ASSUME line.id \in Ids
        PROVE  answered'[line.id] = answered[line.id] + 1 /\ answered'[line.id] # 0
    BY <2>1, <2>2 DEF WriteResponse, TypeInv, TypeOK
  <2>3. \A m \in Ids : m # line.id => answered'[m] = answered[m]
    BY <2>1 DEF WriteResponse, TypeInv, TypeOK
  <2>. QED
    <3>1. PICK m \in Messages : m = line.id
      BY <2>1
    <3>2. m \in Ids => Begun(m)'
      BY <2>1, <2>2, <3>1 DEF Begun
    <3>3. \A q \in Ids : q # m => /\ Begun(q)' = Begun(q)
                                  /\ q \notin Prompts => answered'[q] = answered[q]
      BY <2>1, <2>3, <3>1 DEF Begun
    <3>. QED
      BY <2>1, <2>2, <3>1, <3>2, <3>3, LineServed
<1>4. CASE DispatchAnswer
  <2>1. line' = NoLine /\ UNCHANGED <<sent, inbox, task, answered>> /\ line.kind = "answer"
    BY <1>4 DEF DispatchAnswer, Dispatches, Dispatched, hostVars
  <2>2. \A m \in Ids : ~Taking(m) /\ ~Taking(m)' /\ Unread(m)' = Unread(m) /\ Begun(m)' = Begun(m)
    BY <2>1, LineOfIs DEF Taking, Unread, Begun, Ids
  <2>. QED
    BY <2>1, <2>2 DEF LineInv, OnceEach
<1>5. CASE SeeEof \/ Exit \/ DispatchInline \/ UNCHANGED vars
  BY <1>5, LineLeftAlone DEF SeeEof, Exit, DispatchInline, vars, hostVars, loopVars, taskVars, Begun,
                             LineInv
<1>. QED
  BY <1>1, <1>2, <1>3, <1>4, <1>5, SendKeepsLines, TakeLineKeepsLines, TaskKeepsLines
     DEF Next, Ended, LoopStep

(* What is owed, with the sentinels by their places.                       *)
LEMMA OwedIs == TypeInv => /\ Owed = {p \in Prompts : task[p] \in InFlight \/ Sentinels(p) # {}}
                           /\ IsFiniteSet(Owed)
<1>. SUFFICES ASSUME TypeInv
              PROVE  /\ Owed = {p \in Prompts : task[p] \in InFlight \/ Sentinels(p) # {}}
                     /\ IsFiniteSet(Owed)
  OBVIOUS
<1>1. DOMAIN out = 1 .. Len(out)
  BY DEF TypeInv, TypeOK
<1>2. Owed \subseteq Prompts
  BY DEF Owed
<1>. QED
  BY <1>1, <1>2, IdsAssumption, FS_Subset DEF Owed, Sentinels

LEMMA OwedNext == TypeInv' => Owed' = {p \in Prompts : task'[p] \in InFlight \/ Sentinels(p)' # {}}
<1>. SUFFICES ASSUME TypeInv'
              PROVE  Owed' = {p \in Prompts : task'[p] \in InFlight \/ Sentinels(p)' # {}}
  OBVIOUS
<1>1. DOMAIN out' = 1 .. Len(out')
  BY DEF TypeInv, TypeOK
<1>. QED
  BY <1>1 DEF Owed, Sentinels

Counted == OneSentinel /\ PendingPromptsExact

(* Whatever neither finishes a task nor starts one, and puts no sentinel   *)
(* on the channel, leaves the count right.                                 *)
LEMMA NothingOwedChanges ==
    ASSUME TypeInv, TypeInv', Counted, UNCHANGED pendingPrompts,
           \A p \in Prompts : /\ Sentinels(p)' = Sentinels(p)
                              /\ (task'[p] \in InFlight) = (task[p] \in InFlight)
                              /\ (task'[p] = "ended") = (task[p] = "ended")
    PROVE  Counted'
<1>1. Owed' = {p \in Prompts : task'[p] \in InFlight \/ Sentinels(p)' # {}}
  BY OwedNext
<1>2. Owed' = Owed
  BY <1>1, OwedIs
<1>. QED
  BY <1>2 DEF Counted, OneSentinel, PendingPromptsExact

LEMMA TakeCounts ==
    ASSUME TypeInv, TypeInv', Counted, TakeOutput
    PROVE  Counted'
<1>1. /\ out # <<>> /\ out' = Tail(out) /\ UNCHANGED task
      /\ pendingPrompts' = IF Head(out).kind = "sentinel" THEN FinishedOne ELSE pendingPrompts
  BY DEF TakeOutput, taskVars
<1>2. /\ Head(out) = out[1] /\ Len(out) \in Nat /\ Len(out) >= 1 /\ Head(out) \in Outputs
      /\ Len(out') = Len(out) - 1 /\ \A i \in 1 .. Len(out) - 1 : out'[i] = out[i + 1]
  BY <1>1, Taken DEF TypeInv, TypeOK
<1>3. ASSUME NEW p \in Prompts
      PROVE  /\ Sentinels(p)' = {i \in 1 .. Len(out) - 1 : i + 1 \in Sentinels(p)}
             /\ \A i \in Sentinels(p) : i = 1 \/ (i - 1) \in Sentinels(p)'
  BY <1>2 DEF Sentinels
<1>4. OneSentinel'
  <2>. SUFFICES ASSUME NEW p \in Prompts
                PROVE  /\ Sentinels(p)' # {} => task'[p] = "ended"
                       /\ \A i, j \in Sentinels(p)' : i = j
    BY DEF OneSentinel
  <2>1. \A i \in Sentinels(p)' : i \in Int /\ i + 1 \in Sentinels(p)
    BY <1>3
  <2>. QED
    BY <1>1, <2>1 DEF Counted, OneSentinel
<1>5. Owed' = {p \in Prompts : task[p] \in InFlight \/ Sentinels(p)' # {}}
  BY <1>1, OwedNext
<1>6. CASE Head(out).kind = "sentinel"
  <2>1. PICK p \in Prompts : out[1] = [kind |-> "sentinel", id |-> p]
    BY <1>2, <1>6 DEF Outputs
  <2>2. 1 \in Sentinels(p)
    BY <1>2, <2>1 DEF Sentinels
  <2>3. Sentinels(p) = {1} /\ task[p] = "ended"
    BY <2>1, <2>2 DEF Counted, OneSentinel
  <2>4. Sentinels(p)' = {} /\ task[p] \notin InFlight
    <3>1. \A i \in 1 .. Len(out) - 1 : i + 1 \notin Sentinels(p)
      BY <1>2, <2>3
    <3>2. Sentinels(p)' = {}
      BY <1>3, <2>1, <3>1
    <3>. QED
      BY <2>3, <3>2 DEF InFlight, Registered
  <2>5. ASSUME NEW q \in Prompts, q # p PROVE Sentinels(q)' # {} <=> Sentinels(q) # {}
    <3>1. 1 \notin Sentinels(q)
      BY <2>1, <2>5 DEF Sentinels
    <3>. QED
      BY <1>3, <3>1
  <2>6. Owed' = Owed \ {p} /\ p \in Owed
    <3>1. Owed = {q \in Prompts : task[q] \in InFlight \/ Sentinels(q) # {}}
      BY OwedIs
    <3>2. p \in Owed /\ p \notin Owed'
      BY <1>5, <2>1, <2>2, <2>4, <3>1
    <3>3. \A q \in Prompts : q # p => (q \in Owed' <=> q \in Owed)
      BY <1>5, <2>5, <3>1
    <3>4. Owed \subseteq Prompts /\ Owed' \subseteq Prompts
      BY <1>5, <3>1
    <3>. QED
      BY <3>2, <3>3, <3>4
  <2>7. Cardinality(Owed') = Cardinality(Owed) - 1 /\ Cardinality(Owed) # 0
    <3>1. IsFiniteSet(Owed)
      BY OwedIs
    <3>2. Cardinality(Owed \ {p}) = Cardinality(Owed) - 1
      BY <2>6, <3>1, FS_RemoveElement
    <3>3. Cardinality(Owed) # 0
      BY <2>6, <3>1, FS_EmptySet
    <3>. QED
      BY <2>6, <3>2, <3>3
  <2>. QED
    BY <1>1, <1>4, <1>6, <2>7 DEF Counted, PendingPromptsExact, FinishedOne
<1>7. CASE Head(out).kind # "sentinel"
  <2>1. ASSUME NEW q \in Prompts PROVE Sentinels(q)' # {} <=> Sentinels(q) # {}
    <3>1. 1 \notin Sentinels(q)
      BY <1>2, <1>7 DEF Sentinels
    <3>. QED
      BY <1>3, <3>1
  <2>2. Owed' = Owed
    BY <1>5, <2>1, OwedIs
  <2>. QED
    BY <1>1, <1>4, <1>7, <2>2 DEF Counted, PendingPromptsExact
<1>. QED
  BY <1>6, <1>7

(* A task that emits, other than its sentinel.                             *)
LEMMA EmittedNoSentinel ==
    ASSUME TypeInv, NEW p \in Prompts, NEW k \in {"update", "ask", "response"}, Emits(p, k)
    PROVE  \A q \in Prompts : Sentinels(q)' = Sentinels(q)
<1>1. /\ Len(out') = Len(out) + 1 /\ Len(out) \in Nat /\ \A i \in 1 .. Len(out) : out'[i] = out[i]
      /\ out'[Len(out) + 1] = [kind |-> k, id |-> p]
  BY Emitted
<1>2. [kind |-> k, id |-> p].kind # "sentinel"
  OBVIOUS
<1>. QED
  BY <1>1, <1>2 DEF Sentinels

LEMMA TaskCounts ==
    ASSUME TypeInv, TypeInv', Counted, NEW p \in Prompts, TaskRuns(p) \/ TurnStep(p)
    PROVE  Counted'
<1>1. CASE Enqueue(p) \/ Begin(p) \/ Return(p) \/ Unregister(p)
  <2>1. UNCHANGED <<out, pendingPrompts>> /\ \A q \in Prompts : Sentinels(q)' = Sentinels(q)
    BY <1>1 DEF Enqueue, Begin, Return, Unregister, loopVars, Sentinels
  <2>2. \A q \in Prompts : /\ (task'[q] \in InFlight) = (task[q] \in InFlight)
                           /\ (task'[q] = "ended") = (task[q] = "ended")
    BY <1>1, Advances DEF Enqueue, Begin, Return, Unregister, InFlight, Registered
  <2>. QED
    BY <2>1, <2>2, NothingOwedChanges
<1>2. CASE Respond(p)
  <2>1. UNCHANGED pendingPrompts /\ \A q \in Prompts : Sentinels(q)' = Sentinels(q)
    BY <1>2, EmittedNoSentinel DEF Respond, SendFirst, loopVars
  <2>2. \A q \in Prompts : /\ (task'[q] \in InFlight) = (task[q] \in InFlight)
                           /\ (task'[q] = "ended") = (task[q] = "ended")
    BY <1>2, Advances DEF Respond, SendFirst, InFlight, Registered
  <2>. QED
    BY <2>1, <2>2, NothingOwedChanges
<1>3. CASE Publish(p) \/ Ask(p) \/ AskTimesOut(p)
  <2>1. UNCHANGED <<pendingPrompts, task>>
    BY <1>3 DEF Publish, Ask, AskTimesOut, loopVars
  <2>2. \A q \in Prompts : Sentinels(q)' = Sentinels(q)
    BY <1>3, EmittedNoSentinel DEF Publish, PublishedAs, Ask, AskTimesOut, Sentinels
  <2>. QED
    BY <2>1, <2>2, NothingOwedChanges
<1>4. CASE SignalEnd(p)
  <2>1. /\ task[p] = "responded" /\ task'[p] = "ended" /\ UNCHANGED pendingPrompts
        /\ \A q \in Prompts : q # p => task'[q] = task[q]
    BY <1>4, Advances DEF SignalEnd, InFlight, loopVars
  <2>2. /\ Sentinels(p)' = Sentinels(p) \cup {Len(out) + 1}
        /\ \A q \in Prompts : q # p => Sentinels(q)' = Sentinels(q)
    <3>1. /\ Len(out') = Len(out) + 1 /\ Len(out) \in Nat
          /\ \A i \in 1 .. Len(out) : out'[i] = out[i]
          /\ out'[Len(out) + 1] = [kind |-> "sentinel", id |-> p]
      BY <1>4, Emitted DEF SignalEnd
    <3>. QED
      BY <3>1 DEF Sentinels
  <2>3. Sentinels(p) = {}
    BY <2>1 DEF Counted, OneSentinel
  <2>4. OneSentinel'
    BY <2>1, <2>2, <2>3 DEF Counted, OneSentinel
  <2>5. Owed' = {q \in Prompts : task'[q] \in InFlight \/ Sentinels(q)' # {}}
    BY OwedNext
  <2>6. Owed' = Owed
    BY <2>1, <2>2, <2>5, OwedIs DEF InFlight
  <2>. QED
    BY <2>1, <2>4, <2>6 DEF Counted, PendingPromptsExact
<1>. QED
  BY <1>1, <1>2, <1>3, <1>4 DEF TaskRuns, TurnStep, NoticeCancel, AgyFinishes, AgyDies

LEMMA DispatchCounts ==
    ASSUME TypeInv, TypeInv', LineInv, Counted, DispatchPrompt
    PROVE  Counted'
<1>. DEFINE p == line.id
<1>1. /\ p \in Prompts /\ p \in Ids /\ Taking(p) /\ out = <<>> /\ UNCHANGED out /\ task'[p] = "spawned"
      /\ pendingPrompts' = pendingPrompts + 1
      /\ \A q \in Prompts : q # p => task'[q] = task[q]
  BY LineFacts, IdFacts DEF DispatchPrompt, Dispatches, Taking, LineOf, KindOf, TypeInv, TypeOK
<1>2. \A q \in Prompts : Sentinels(q)' = {} /\ Sentinels(q) = {}
  BY <1>1 DEF Sentinels
<1>3. task[p] = "none" /\ task[p] \notin InFlight
  BY <1>1 DEF LineInv, OnceEach, Begun, InFlight, Registered
<1>4. Owed' = {q \in Prompts : task'[q] \in InFlight \/ Sentinels(q)' # {}}
  BY OwedNext
<1>5. Owed' = Owed \cup {p} /\ p \notin Owed
  BY <1>1, <1>2, <1>3, <1>4, OwedIs DEF InFlight, Registered
<1>6. Cardinality(Owed') = Cardinality(Owed) + 1
  BY <1>5, OwedIs, FS_AddElement
<1>. QED
  BY <1>1, <1>2, <1>6 DEF Counted, OneSentinel, PendingPromptsExact

LEMMA LineInit == Init => LineInv
BY LineOfIs DEF Init, LineInv, OnceEach, Unread, Taking, Begun, Ids

LEMMA CountInit == Init => CountInv
<1>. SUFFICES ASSUME Init PROVE CountInv
  OBVIOUS
<1>1. Owed = {} /\ \A p \in Prompts : Sentinels(p) = {}
  BY DEF Init, Owed, Sentinels, InFlight, Registered
<1>. QED
  BY <1>1, LineInit, FS_EmptySet DEF Init, CountInv, OneSentinel, PendingPromptsExact

LEMMA CountNext == TypeInv /\ CountInv /\ [Next]_vars => CountInv'
<1>. SUFFICES ASSUME TypeInv, TypeInv', LineInv, Counted, [Next]_vars PROVE Counted'
  BY TypeNext, OnceNext DEF CountInv, Counted
<1>1. ASSUME UNCHANGED <<out, pendingPrompts, task>> PROVE Counted'
  <2>1. \A q \in Prompts : Sentinels(q)' = Sentinels(q)
    BY <1>1 DEF Sentinels
  <2>. QED
    BY <1>1, <2>1, NothingOwedChanges
<1>2. CASE HostStep \/ TakeLine \/ SeeEof \/ Exit \/ UNCHANGED vars
  BY <1>1, <1>2 DEF HostStep, SendMessage, SendAnswer, CloseStdin, TakeLine, SeeEof, Exit, vars,
                    loopVars, taskVars
<1>3. CASE DispatchCancel \/ DispatchAnswer \/ DispatchInline \/ ServeInline
  BY <1>1, <1>3 DEF DispatchCancel, DispatchAnswer, DispatchInline, ServeInline
<1>4. CASE Forward \/ Flush
  BY <1>4, TakeCounts DEF Forward, Flush
<1>. QED
  BY <1>2, <1>3, <1>4, DispatchCounts, TaskCounts DEF Next, Ended, LoopStep

(* The process exits when, and only when, every prompt taken has been      *)
(* answered: the count misses none and counts none twice.                  *)
THEOREM CountExact == Spec => []PendingPromptsExact
<1>1. TypeInv /\ CountInv /\ [Next]_vars => TypeInv' /\ CountInv'
  BY TypeNext, CountNext
<1>2. CountInv => PendingPromptsExact
  BY DEF CountInv
<1>. QED
  BY <1>1, <1>2, TypeInit, CountInit, PTL DEF Spec

-----------------------------------------------------------------------------
(* What a client is told, and in which order *)

(* A task that has not responded has no response anywhere: every update it *)
(* still sends comes before.                                               *)
Silent == {"none", "unregistered"} \cup Registered

SilentInv ==
    \A p \in Prompts : task[p] \in Silent =>
        /\ answered[p] = 0
        /\ \A i \in 1 .. Len(out) : ~(out[i].kind = "response" /\ out[i].id = p)

OrderInv == SilentInv /\ UpdatesPrecedeTheResponse

LEMMA OrderLeftAlone ==
    ASSUME TypeInv, OrderInv, UNCHANGED out,
           \A p \in Prompts : answered'[p] = answered[p] /\ (task'[p] \in Silent => task[p] \in Silent)
    PROVE  OrderInv'
<1>1. \A i \in DOMAIN out : out[i].id \in Prompts
  BY OutFacts
<1>. QED
  BY <1>1 DEF OrderInv, SilentInv, UpdatesPrecedeTheResponse

LEMMA TakeKeepsOrder ==
    ASSUME TypeInv, OrderInv, TakeOutput
    PROVE  OrderInv'
<1>1. /\ out # <<>> /\ out' = Tail(out) /\ UNCHANGED task
      /\ answered' = IF Head(out).kind = "response" THEN [answered EXCEPT ![Head(out).id] = @ + 1]
                                                    ELSE answered
  BY DEF TakeOutput, taskVars
<1>2. /\ Head(out) = out[1] /\ Len(out) \in Nat /\ Len(out) >= 1 /\ DOMAIN out = 1 .. Len(out)
      /\ Len(out') = Len(out) - 1 /\ DOMAIN out' = 1 .. Len(out) - 1
      /\ \A i \in 1 .. Len(out) - 1 : out'[i] = out[i + 1] /\ i + 1 \in 1 .. Len(out)
  BY <1>1, Taken DEF TypeInv, TypeOK
<1>3. \A i \in 1 .. Len(out) : out[i].id \in Prompts /\ out[i].id \in Ids
  BY OutFacts
<1>4. \A p \in Prompts : answered'[p] # answered[p] => out[1].kind = "response" /\ out[1].id = p
  BY <1>1, <1>2, IdFacts DEF TypeInv, TypeOK
<1>5. SilentInv'
  BY <1>1, <1>2, <1>4 DEF OrderInv, SilentInv
<1>6. UpdatesPrecedeTheResponse'
  <2>. SUFFICES ASSUME NEW i \in DOMAIN out', NEW j \in DOMAIN out'
                PROVE  /\ out'[i].kind = "update" => answered'[out'[i].id] = 0
                       /\ out'[i].kind = "response" /\ out'[j].kind = "update" /\ i < j
                            => out'[i].id # out'[j].id
    BY DEF UpdatesPrecedeTheResponse
  <2>1. /\ i + 1 \in DOMAIN out /\ j + 1 \in DOMAIN out /\ 1 \in DOMAIN out /\ 1 < i + 1
        /\ out'[i] = out[i + 1] /\ out'[j] = out[j + 1] /\ (i < j => i + 1 < j + 1)
    BY <1>2
  <2>2. out[i + 1].kind = "update" => answered[out[i + 1].id] = 0
    BY <2>1 DEF OrderInv, UpdatesPrecedeTheResponse
  <2>3. out[1].kind = "response" /\ out[i + 1].kind = "update" => out[1].id # out[i + 1].id
    BY <2>1 DEF OrderInv, UpdatesPrecedeTheResponse
  <2>4. out[i + 1].kind = "response" /\ out[j + 1].kind = "update" /\ i + 1 < j + 1
          => out[i + 1].id # out[j + 1].id
    BY <2>1 DEF OrderInv, UpdatesPrecedeTheResponse
  <2>. QED
    BY <1>2, <1>3, <1>4, <2>1, <2>2, <2>3, <2>4
<1>. QED
  BY <1>5, <1>6 DEF OrderInv

LEMMA EmitKeepsOrder ==
    ASSUME TypeInv, OrderInv, NEW p \in Prompts, NEW k \in {"update", "ask", "response", "sentinel"},
           Emits(p, k), UNCHANGED answered,
           k = "update" => task[p] \in Silent,
           k = "response" => task'[p] \notin Silent,
           \A q \in Prompts : task'[q] \in Silent => task[q] \in Silent
    PROVE  OrderInv'
<1>1. /\ Len(out) \in Nat /\ DOMAIN out = 1 .. Len(out) /\ DOMAIN out' = 1 .. Len(out) + 1
      /\ Len(out') = Len(out) + 1 /\ \A i \in 1 .. Len(out) : out'[i] = out[i]
      /\ out'[Len(out) + 1] = [kind |-> k, id |-> p]
  BY Emitted
<1>2. out'[Len(out) + 1].kind = k /\ out'[Len(out) + 1].id = p
  BY <1>1
<1>3. SilentInv'
  BY <1>1, <1>2 DEF OrderInv, SilentInv
<1>4. UpdatesPrecedeTheResponse'
  <2>. SUFFICES ASSUME NEW i \in DOMAIN out', NEW j \in DOMAIN out'
                PROVE  /\ out'[i].kind = "update" => answered[out'[i].id] = 0
                       /\ out'[i].kind = "response" /\ out'[j].kind = "update" /\ i < j
                            => out'[i].id # out'[j].id
    BY DEF UpdatesPrecedeTheResponse
  <2>1. CASE i \in 1 .. Len(out) /\ j \in 1 .. Len(out)
    BY <1>1, <2>1 DEF OrderInv, UpdatesPrecedeTheResponse
  <2>2. CASE i = Len(out) + 1
    BY <1>1, <1>2, <2>2 DEF OrderInv, SilentInv
  <2>3. CASE i \in 1 .. Len(out) /\ j = Len(out) + 1
    BY <1>1, <1>2, <2>3 DEF OrderInv, SilentInv, UpdatesPrecedeTheResponse
  <2>. QED
    BY <1>1, <2>1, <2>2, <2>3
<1>. QED
  BY <1>3, <1>4 DEF OrderInv

LEMMA TaskKeepsOrder ==
    ASSUME TypeInv, OrderInv, NEW p \in Prompts, TaskRuns(p) \/ TurnStep(p)
    PROVE  OrderInv'
<1>1. CASE Enqueue(p) \/ Begin(p) \/ Return(p) \/ Unregister(p)
  <2>1. UNCHANGED <<out, answered>>
    BY <1>1 DEF Enqueue, Begin, Return, Unregister, loopVars
  <2>2. \A q \in Prompts : task'[q] \in Silent => task[q] \in Silent
    BY <1>1, Advances DEF Enqueue, Begin, Return, Unregister, InFlight, Registered, Silent
  <2>. QED
    BY <2>1, <2>2, OrderLeftAlone
<1>2. CASE Respond(p)
  <2>1. /\ Emits(p, "response") /\ UNCHANGED answered /\ task'[p] = "responded"
        /\ \A q \in Prompts : q # p => task'[q] = task[q]
    BY <1>2, Advances DEF Respond, SendFirst, InFlight, loopVars
  <2>2. "responded" \notin Silent
    BY DEF Silent, Registered
  <2>. QED
    BY <2>1, <2>2, EmitKeepsOrder
<1>3. CASE SignalEnd(p)
  <2>1. /\ Emits(p, "sentinel") /\ UNCHANGED answered /\ task'[p] = "ended"
        /\ \A q \in Prompts : q # p => task'[q] = task[q]
    BY <1>3, Advances DEF SignalEnd, InFlight, loopVars
  <2>2. "ended" \notin Silent
    BY DEF Silent, Registered
  <2>. QED
    BY <2>1, <2>2, EmitKeepsOrder
<1>4. CASE Publish(p)
  <2>1. Emits(p, "update") /\ UNCHANGED <<answered, task>> /\ task[p] \in Silent
    BY <1>4 DEF Publish, PublishedAs, ReaderRuns, Silent, InFlight, Registered, loopVars
  <2>. QED
    BY <2>1, EmitKeepsOrder
<1>5. CASE Ask(p)
  <2>1. Emits(p, "ask") /\ UNCHANGED <<answered, task>>
    BY <1>5 DEF Ask, loopVars
  <2>. QED
    BY <2>1, EmitKeepsOrder
<1>6. CASE AskTimesOut(p)
  BY <1>6, OrderLeftAlone DEF AskTimesOut, loopVars
<1>. QED
  BY <1>1, <1>2, <1>3, <1>4, <1>5, <1>6 DEF TaskRuns, TurnStep, NoticeCancel, AgyFinishes, AgyDies

LEMMA LoopKeepsOrder ==
    ASSUME TypeInv, LineInv, OrderInv, LoopStep
    PROVE  OrderInv'
<1>. USE DEF Dispatches
<1>1. CASE Forward \/ Flush
  BY <1>1, TakeKeepsOrder DEF Forward, Flush
<1>2. CASE TakeLine \/ SeeEof \/ Exit \/ DispatchAnswer \/ DispatchInline
  BY <1>2, OrderLeftAlone DEF TakeLine, SeeEof, Exit, DispatchAnswer, DispatchInline, taskVars
<1>3. CASE DispatchPrompt
  <2>1. line.id \in Prompts /\ line.id \in Ids /\ Taking(line.id)
    BY <1>3, LineFacts, IdFacts DEF DispatchPrompt, Taking, LineOf, KindOf, TypeInv, TypeOK
  <2>2. task[line.id] \in Silent
    BY <2>1 DEF LineInv, OnceEach, Begun, Silent
  <2>3. \A q \in Prompts : task'[q] \in Silent => task[q] \in Silent
    BY <1>3, <2>2 DEF DispatchPrompt, TypeInv, TypeOK
  <2>. QED
    BY <1>3, <2>3, OrderLeftAlone DEF DispatchPrompt
<1>4. CASE DispatchCancel
  <2>1. line.id \in Messages /\ line.id \notin Prompts
    BY <1>4, LineFacts, IdFacts DEF DispatchCancel, Messages, TypeInv, TypeOK
  <2>2. \A p \in Prompts : answered'[p] = answered[p]
    BY <1>4, <2>1, Written DEF DispatchCancel
  <2>. QED
    BY <1>4, <2>2, OrderLeftAlone DEF DispatchCancel
<1>5. CASE ServeInline
  <2>1. line.id \in Messages /\ line.id \notin Prompts
    BY <1>5, LineFacts, IdFacts DEF ServeInline, Messages, TypeInv, TypeOK, MutexInv
  <2>2. \A p \in Prompts : answered'[p] = answered[p]
    BY <1>5, <2>1, Written DEF ServeInline
  <2>. QED
    BY <1>5, <2>2, OrderLeftAlone DEF ServeInline
<1>. QED
  BY <1>1, <1>2, <1>3, <1>4, <1>5 DEF LoopStep

LEMMA OrderNext == TypeInv /\ LineInv /\ OrderInv /\ [Next]_vars => OrderInv'
<1>. SUFFICES ASSUME TypeInv, LineInv, OrderInv, [Next]_vars PROVE OrderInv'
  OBVIOUS
<1>1. CASE HostStep \/ UNCHANGED vars
  BY <1>1, OrderLeftAlone DEF HostStep, SendMessage, SendAnswer, CloseStdin, vars, loopVars, taskVars
<1>. QED
  BY <1>1, LoopKeepsOrder, TaskKeepsOrder DEF Next, Ended

LEMMA OrderInit == Init => OrderInv
BY IdFacts DEF Init, OrderInv, SilentInv, UpdatesPrecedeTheResponse

(* A client sees no update of a turn it has been told is over.             *)
THEOREM ToldInOrder == Spec => []UpdatesPrecedeTheResponse
<1>1. Init => TypeInv /\ LineInv /\ OrderInv
  BY TypeInit, LineInit, OrderInit
<1>2. TypeInv /\ LineInv /\ OrderInv /\ [Next]_vars => TypeInv' /\ LineInv' /\ OrderInv'
  BY TypeNext, OnceNext, OrderNext
<1>3. OrderInv => UpdatesPrecedeTheResponse
  BY DEF OrderInv
<1>. QED
  BY <1>1, <1>2, <1>3, PTL DEF Spec

-----------------------------------------------------------------------------
(* The reach of a cancel *)

(* The registry holds the tokens of the turns that have not returned.      *)
RegistryInv ==
    \A s \in Sessions : registry[s] = {p \in Prompts : SessionOf[p] = s /\ task[p] \in Registered}

LEMMA RegistryNext == TypeInv /\ RegistryInv /\ [Next]_vars => RegistryInv'
<1>. SUFFICES ASSUME TypeInv, RegistryInv, [Next]_vars PROVE RegistryInv'
  OBVIOUS
<1>1. ASSUME UNCHANGED registry,
             \A p \in Prompts : (task'[p] \in Registered) = (task[p] \in Registered)
      PROVE  RegistryInv'
  BY <1>1 DEF RegistryInv
<1>2. CASE DispatchPrompt
  <2>1. PICK p \in Prompts : p = line.id
    BY <1>2, LineFacts DEF DispatchPrompt, Dispatches, TypeInv, TypeOK
  <2>2. /\ registry' = [registry EXCEPT ![SessionOf[p]] = @ \cup {p}]
        /\ task' = [task EXCEPT ![p] = "spawned"]
    BY <1>2, <2>1 DEF DispatchPrompt, WithToken
  <2>3. /\ SessionOf[p] \in Sessions /\ "spawned" \in Registered
        /\ task'[p] = "spawned" /\ \A q \in Prompts : q # p => task'[q] = task[q]
        /\ \A s \in Sessions : registry'[s] = IF s = SessionOf[p] THEN registry[s] \cup {p} ELSE registry[s]
    BY <2>2, IdsAssumption DEF Registered, TypeInv, TypeOK
  <2>. QED
    <3>. SUFFICES ASSUME NEW s \in Sessions
                  PROVE  registry'[s] = {q \in Prompts : SessionOf[q] = s /\ task'[q] \in Registered}
      BY DEF RegistryInv
    <3>1. registry[s] = {q \in Prompts : SessionOf[q] = s /\ task[q] \in Registered}
      BY DEF RegistryInv
    <3>2. registry'[s] = IF s = SessionOf[p] THEN registry[s] \cup {p} ELSE registry[s]
      BY <2>3
    <3>3. ASSUME NEW q \in Prompts
          PROVE  q \in registry'[s] <=> SessionOf[q] = s /\ task'[q] \in Registered
      BY <2>3, <3>1, <3>2
    <3>4. registry'[s] \subseteq Prompts
      BY <3>1, <3>2
    <3>. QED
      BY <3>3, <3>4
<1>3. ASSUME NEW p \in Prompts, Unregister(p) PROVE RegistryInv'
  <2>1. /\ registry' = [registry EXCEPT ![SessionOf[p]] = @ \ {p}]
        /\ task'[p] = "unregistered" /\ \A q \in Prompts : q # p => task'[q] = task[q]
    BY <1>3, Advances DEF Unregister, WithoutToken, InFlight
  <2>2. /\ SessionOf[p] \in Sessions /\ "unregistered" \notin Registered
        /\ \A s \in Sessions : registry'[s] = IF s = SessionOf[p] THEN registry[s] \ {p} ELSE registry[s]
    BY <2>1, IdsAssumption DEF Registered, TypeInv, TypeOK
  <2>. QED
    BY <2>1, <2>2 DEF RegistryInv
<1>4. ASSUME NEW p \in Prompts, Enqueue(p) \/ Begin(p) \/ Return(p) PROVE RegistryInv'
  BY <1>1, <1>4, Advances DEF Enqueue, Begin, Return, InFlight, Registered
<1>5. ASSUME NEW p \in Prompts, Respond(p) \/ SignalEnd(p) PROVE RegistryInv'
  BY <1>1, <1>5, Advances DEF Respond, SendFirst, SignalEnd, InFlight, Registered
<1>6. ASSUME NEW p \in Prompts, Publish(p) \/ Ask(p) \/ AskTimesOut(p) PROVE RegistryInv'
  BY <1>1, <1>6 DEF Publish, Ask, AskTimesOut
<1>7. CASE HostStep \/ UNCHANGED vars
  BY <1>1, <1>7 DEF HostStep, SendMessage, SendAnswer, CloseStdin, vars, taskVars
<1>8. CASE Forward \/ TakeLine \/ SeeEof \/ Flush \/ Exit
  BY <1>1, <1>8 DEF Forward, TakeLine, SeeEof, Flush, Exit, TakeOutput, taskVars
<1>9. CASE DispatchCancel \/ DispatchAnswer \/ DispatchInline \/ ServeInline
  BY <1>1, <1>9 DEF DispatchCancel, DispatchAnswer, DispatchInline, ServeInline
<1>. QED
  BY <1>2, <1>3, <1>4, <1>5, <1>6, <1>7, <1>8, <1>9
     DEF Next, Ended, LoopStep, TaskRuns, TurnStep, NoticeCancel, AgyFinishes, AgyDies

(* A cancel reaches every turn of its session that has not yet returned,   *)
(* queued ones included, and no turn of another session.                   *)
THEOREM CancelReaches == Spec => CancelReachesTheSession
<1>1. Init => TypeInv /\ RegistryInv
  BY TypeInit DEF Init, RegistryInv, Registered
<1>2. TypeInv /\ RegistryInv /\ [Next]_vars => TypeInv' /\ RegistryInv'
  BY TypeNext, RegistryNext
<1>. DEFINE Reaches == at = "flush" /\ line.kind = "cancel" /\ at' = "select" =>
                         \A p \in Prompts :
                            IF SessionOf[p] = SessionOf[line.id]
                            THEN task[p] \in Registered => cancelled'[p]
                            ELSE cancelled'[p] = cancelled[p]
<1>3. TypeInv /\ RegistryInv /\ [Next]_vars => [Reaches]_vars
  <2>. SUFFICES ASSUME TypeInv, RegistryInv, Next, at = "flush", line.kind = "cancel", at' = "select",
                       NEW p \in Prompts
                PROVE  IF SessionOf[p] = SessionOf[line.id]
                       THEN task[p] \in Registered => cancelled'[p]
                       ELSE cancelled'[p] = cancelled[p]
    OBVIOUS
  <2>1. DispatchCancel
    BY DEF Next, Ended, HostStep, SendMessage, SendAnswer, CloseStdin, LoopStep, Forward, TakeLine, SeeEof,
           Flush, TakeOutput, Exit, DispatchPrompt, DispatchAnswer, DispatchInline, ServeInline,
           Dispatches, TaskRuns, TurnStep, Enqueue, Begin, NoticeCancel, AgyFinishes, AgyDies, Return,
           Unregister, Respond, SignalEnd, Publish, Ask, AskTimesOut, loopVars
  <2>2. line.id \in Cancels /\ SessionOf[line.id] \in Sessions
    BY LineFacts, IdsAssumption DEF TypeInv, TypeOK
  <2>3. cancelled'[p] = (cancelled[p] \/ p \in registry[SessionOf[line.id]])
    BY <2>1 DEF DispatchCancel
  <2>4. cancelled[p] \in BOOLEAN /\ (p \in registry[SessionOf[line.id]] <=>
                         SessionOf[p] = SessionOf[line.id] /\ task[p] \in Registered)
    BY <2>2 DEF RegistryInv, TypeInv, TypeOK
  <2>. QED
    BY <2>3, <2>4
<1>. QED
  BY <1>1, <1>2, <1>3, PTL DEF Spec, CancelReachesTheSession

-----------------------------------------------------------------------------
(* The service *)

(* A turn's one response is written or on its way, ahead of its sentinel.  *)
Responses(p) == {i \in 1 .. Len(out) : out[i] = [kind |-> "response", id |-> p]}

ResponseInv ==
    \A p \in Prompts :
        /\ answered[p] = 0 \/ (answered[p] = 1 /\ Responses(p) = {})
        /\ \A i, j \in Responses(p) : i = j
        /\ task[p] \in Silent => Responses(p) = {} /\ answered[p] = 0
        /\ task[p] \notin Silent => Responses(p) # {} \/ answered[p] = 1
        /\ \A i \in Responses(p), j \in Sentinels(p) : i < j
        /\ task[p] = "ended" /\ Sentinels(p) = {} => answered[p] = 1

(* The loop sees the end of its input only after all of it.                *)
EofInv == ~stdinOpen => inbox = <<>> /\ ~hostOpen

ServiceInv == TypeInv /\ CountInv /\ ResponseInv /\ EofInv

LEMMA ResponsesLeftAlone ==
    ASSUME ResponseInv, UNCHANGED out,
           \A p \in Prompts : /\ answered'[p] = answered[p]
                              /\ (task'[p] \in Silent) = (task[p] \in Silent)
                              /\ (task'[p] = "ended") = (task[p] = "ended")
    PROVE  ResponseInv'
<1>1. \A p \in Prompts : Responses(p)' = Responses(p) /\ Sentinels(p)' = Sentinels(p)
  BY DEF Responses, Sentinels
<1>. QED
  BY <1>1 DEF ResponseInv

LEMMA TakeKeepsResponses ==
    ASSUME TypeInv, OneSentinel, ResponseInv, TakeOutput
    PROVE  ResponseInv'
<1>1. /\ out # <<>> /\ out' = Tail(out) /\ UNCHANGED task
      /\ answered' = IF Head(out).kind = "response" THEN [answered EXCEPT ![Head(out).id] = @ + 1]
                                                    ELSE answered
  BY DEF TakeOutput, taskVars
<1>2. /\ Head(out) = out[1] /\ Len(out) \in Nat /\ Len(out) >= 1 /\ Head(out) \in Outputs
      /\ Len(out') = Len(out) - 1 /\ \A i \in 1 .. Len(out) - 1 : out'[i] = out[i + 1]
  BY <1>1, Taken DEF TypeInv, TypeOK
<1>. SUFFICES ASSUME NEW p \in Prompts
              PROVE  /\ answered'[p] = 0 \/ (answered'[p] = 1 /\ Responses(p)' = {})
                     /\ \A i, j \in Responses(p)' : i = j
                     /\ task[p] \in Silent => Responses(p)' = {} /\ answered'[p] = 0
                     /\ task[p] \notin Silent => Responses(p)' # {} \/ answered'[p] = 1
                     /\ \A i \in Responses(p)', j \in Sentinels(p)' : i < j
                     /\ task[p] = "ended" /\ Sentinels(p)' = {} => answered'[p] = 1
  BY <1>1 DEF ResponseInv
<1>3. /\ \A i \in Responses(p)' : i + 1 \in Responses(p) /\ i \in Nat /\ i >= 1
      /\ \A i \in Responses(p) : i \in Nat /\ (i = 1 \/ i - 1 \in Responses(p)')
      /\ \A i \in Sentinels(p)' : i + 1 \in Sentinels(p) /\ i \in Nat /\ i >= 1
      /\ \A i \in Sentinels(p) : i \in Nat /\ i >= 1 /\ (i = 1 \/ i - 1 \in Sentinels(p)')
  BY <1>2 DEF Responses, Sentinels
<1>4. answered'[p] = IF 1 \in Responses(p) THEN answered[p] + 1 ELSE answered[p]
  <2>1. answered[p] \in Nat /\ answered \in [Ids -> Nat] /\ p \in Ids
    BY IdFacts DEF TypeInv, TypeOK
  <2>2. Head(out).kind = "response" /\ Head(out).id = p <=> 1 \in Responses(p)
    BY <1>2 DEF Responses, Outputs
  <2>. QED
    BY <1>1, <2>1, <2>2
<1>5. /\ answered[p] = 0 \/ (answered[p] = 1 /\ Responses(p) = {})
      /\ \A i, j \in Responses(p) : i = j
      /\ task[p] \in Silent => Responses(p) = {} /\ answered[p] = 0
      /\ task[p] \notin Silent => Responses(p) # {} \/ answered[p] = 1
      /\ \A i \in Responses(p), j \in Sentinels(p) : i < j
      /\ task[p] = "ended" /\ Sentinels(p) = {} => answered[p] = 1
  BY DEF ResponseInv
<1>6. CASE 1 \in Responses(p)
  <2>1. Responses(p)' = {} /\ answered'[p] = 1 /\ task[p] \notin Silent
    BY <1>3, <1>4, <1>5, <1>6
  <2>. QED
    BY <2>1
<1>7. CASE 1 \notin Responses(p)
  <2>1. answered'[p] = answered[p] /\ (Responses(p)' # {} <=> Responses(p) # {})
    BY <1>3, <1>4, <1>7
  <2>2. \A i, j \in Responses(p)' : i = j
    BY <1>3, <1>5
  <2>3. \A i \in Responses(p)', j \in Sentinels(p)' : i < j
    BY <1>3, <1>5
  <2>4. ASSUME task[p] = "ended", Sentinels(p)' = {} PROVE answered[p] = 1
    <3>1. CASE Sentinels(p) = {}
      BY <1>5, <2>4, <3>1
    <3>2. CASE Sentinels(p) # {}
      <4>1. 1 \in Sentinels(p)
        BY <1>3, <2>4, <3>2
      <4>2. Responses(p) = {}
        BY <1>3, <1>5, <1>7, <4>1
      <4>3. "ended" \notin Silent
        BY DEF Silent, Registered
      <4>. QED
        BY <1>5, <2>4, <4>2, <4>3
    <3>. QED
      BY <3>1, <3>2
  <2>. QED
    BY <1>5, <2>1, <2>2, <2>3, <2>4
<1>. QED
  BY <1>6, <1>7

LEMMA TaskKeepsResponses ==
    ASSUME TypeInv, OneSentinel, ResponseInv, NEW p \in Prompts, TaskRuns(p) \/ TurnStep(p)
    PROVE  ResponseInv'
<1>1. CASE Enqueue(p) \/ Begin(p) \/ Return(p) \/ Unregister(p) \/ AskTimesOut(p)
  <2>1. UNCHANGED <<out, answered>>
    BY <1>1 DEF Enqueue, Begin, Return, Unregister, AskTimesOut, loopVars
  <2>2. \A q \in Prompts : /\ (task'[q] \in Silent) = (task[q] \in Silent)
                           /\ (task'[q] = "ended") = (task[q] = "ended")
    BY <1>1, Advances DEF Enqueue, Begin, Return, Unregister, AskTimesOut, InFlight, Registered, Silent
  <2>. QED
    BY <2>1, <2>2, ResponsesLeftAlone
<1>2. CASE Publish(p) \/ Ask(p)
  <2>1. UNCHANGED <<answered, task>> /\ \E k \in {"update", "ask"} : Emits(p, k)
    BY <1>2 DEF Publish, PublishedAs, Ask, loopVars
  <2>2. \A q \in Prompts : Responses(q)' = Responses(q) /\ Sentinels(q)' = Sentinels(q)
    <3>1. PICK k \in {"update", "ask"} : Emits(p, k)
      BY <2>1
    <3>2. /\ Len(out') = Len(out) + 1 /\ Len(out) \in Nat /\ \A i \in 1 .. Len(out) : out'[i] = out[i]
          /\ out'[Len(out) + 1] = [kind |-> k, id |-> p]
      BY <3>1, Emitted
    <3>3. [kind |-> k, id |-> p].kind \notin {"response", "sentinel"}
      OBVIOUS
    <3>. QED
      BY <3>2, <3>3 DEF Responses, Sentinels
  <2>. QED
    BY <2>1, <2>2 DEF ResponseInv
<1>3. CASE Respond(p)
  <2>1. /\ Emits(p, "response") /\ UNCHANGED answered /\ task[p] = "unregistered"
        /\ task'[p] = "responded" /\ \A q \in Prompts : q # p => task'[q] = task[q]
    BY <1>3, Advances DEF Respond, SendFirst, InFlight, loopVars
  <2>2. /\ Len(out') = Len(out) + 1 /\ Len(out) \in Nat /\ \A i \in 1 .. Len(out) : out'[i] = out[i]
        /\ out'[Len(out) + 1] = [kind |-> "response", id |-> p]
    BY <2>1, Emitted
  <2>3. /\ Responses(p)' = Responses(p) \cup {Len(out) + 1} /\ \A q \in Prompts : Sentinels(q)' = Sentinels(q)
        /\ \A q \in Prompts : q # p => Responses(q)' = Responses(q)
    BY <2>2 DEF Responses, Sentinels
  <2>4. "unregistered" \in Silent /\ "responded" \notin Silent
    BY DEF Silent, Registered
  <2>5. Responses(p) = {} /\ answered[p] = 0 /\ Sentinels(p) = {}
    BY <2>1, <2>4 DEF ResponseInv, OneSentinel
  <2>6. Responses(p)' = {Len(out) + 1}
    BY <2>3, <2>5
  <2>. SUFFICES ASSUME NEW q \in Prompts
                PROVE  /\ answered[q] = 0 \/ (answered[q] = 1 /\ Responses(q)' = {})
                       /\ \A k, j \in Responses(q)' : k = j
                       /\ task'[q] \in Silent => Responses(q)' = {} /\ answered[q] = 0
                       /\ task'[q] \notin Silent => Responses(q)' # {} \/ answered[q] = 1
                       /\ \A k \in Responses(q)', j \in Sentinels(q) : k < j
                       /\ task'[q] = "ended" /\ Sentinels(q) = {} => answered[q] = 1
    BY <2>1, <2>3 DEF ResponseInv
  <2>7. CASE q = p
    BY <2>1, <2>4, <2>5, <2>6, <2>7
  <2>8. CASE q # p
    BY <2>1, <2>3, <2>8 DEF ResponseInv
  <2>. QED
    BY <2>7, <2>8
<1>4. CASE SignalEnd(p)
  <2>1. /\ Emits(p, "sentinel") /\ UNCHANGED answered /\ task[p] = "responded"
        /\ task'[p] = "ended" /\ \A q \in Prompts : q # p => task'[q] = task[q]
    BY <1>4, Advances DEF SignalEnd, InFlight, loopVars
  <2>2. /\ Len(out') = Len(out) + 1 /\ Len(out) \in Nat /\ \A i \in 1 .. Len(out) : out'[i] = out[i]
        /\ out'[Len(out) + 1] = [kind |-> "sentinel", id |-> p]
    BY <2>1, Emitted
  <2>3. /\ Sentinels(p)' = Sentinels(p) \cup {Len(out) + 1} /\ \A q \in Prompts : Responses(q)' = Responses(q)
        /\ \A q \in Prompts : q # p => Sentinels(q)' = Sentinels(q)
    BY <2>2 DEF Responses, Sentinels
  <2>4. "ended" \notin Silent /\ "responded" \notin Silent
    BY DEF Silent, Registered
  <2>5. \A i \in Responses(p) : i < Len(out) + 1
    BY <2>2 DEF Responses
  <2>6. Sentinels(p)' = {Len(out) + 1}
    BY <2>1, <2>3 DEF OneSentinel
  <2>. SUFFICES ASSUME NEW q \in Prompts
                PROVE  /\ answered[q] = 0 \/ (answered[q] = 1 /\ Responses(q) = {})
                       /\ \A k, j \in Responses(q) : k = j
                       /\ task'[q] \in Silent => Responses(q) = {} /\ answered[q] = 0
                       /\ task'[q] \notin Silent => Responses(q) # {} \/ answered[q] = 1
                       /\ \A k \in Responses(q), j \in Sentinels(q)' : k < j
                       /\ task'[q] = "ended" /\ Sentinels(q)' = {} => answered[q] = 1
    BY <2>1, <2>3 DEF ResponseInv
  <2>7. CASE q = p
    BY <2>1, <2>4, <2>5, <2>6, <2>7 DEF ResponseInv
  <2>8. CASE q # p
    BY <2>1, <2>3, <2>8 DEF ResponseInv
  <2>. QED
    BY <2>7, <2>8
<1>. QED
  BY <1>1, <1>2, <1>3, <1>4 DEF TaskRuns, TurnStep, NoticeCancel, AgyFinishes, AgyDies

LEMMA ResponseNext == TypeInv /\ LineInv /\ OneSentinel /\ ResponseInv /\ [Next]_vars => ResponseInv'
<1>. SUFFICES ASSUME TypeInv, LineInv, OneSentinel, ResponseInv, [Next]_vars PROVE ResponseInv'
  OBVIOUS
<1>. USE DEF Dispatches
<1>1. CASE HostStep \/ UNCHANGED vars
  BY <1>1, ResponsesLeftAlone DEF HostStep, SendMessage, SendAnswer, CloseStdin, vars, loopVars, taskVars
<1>2. CASE Forward \/ Flush
  BY <1>2, TakeKeepsResponses DEF Forward, Flush
<1>3. CASE TakeLine \/ SeeEof \/ Exit \/ DispatchAnswer \/ DispatchInline
  BY <1>3, ResponsesLeftAlone DEF TakeLine, SeeEof, Exit, DispatchAnswer, DispatchInline, taskVars
<1>4. CASE DispatchPrompt
  <2>1. line.id \in Prompts /\ line.id \in Ids /\ Taking(line.id)
    BY <1>4, LineFacts, IdFacts DEF DispatchPrompt, Taking, LineOf, KindOf, TypeInv, TypeOK
  <2>2. task[line.id] = "none" /\ "none" \in Silent /\ "spawned" \in Silent
    BY <2>1 DEF LineInv, OnceEach, Begun, Silent, Registered
  <2>3. \A q \in Prompts : /\ (task'[q] \in Silent) = (task[q] \in Silent)
                           /\ (task'[q] = "ended") = (task[q] = "ended")
    BY <1>4, <2>2 DEF DispatchPrompt, TypeInv, TypeOK
  <2>. QED
    BY <1>4, <2>3, ResponsesLeftAlone DEF DispatchPrompt
<1>5. CASE DispatchCancel \/ ServeInline
  <2>1. line.id \in Messages /\ line.id \notin Prompts /\ UNCHANGED <<out, task>>
    BY <1>5, LineFacts, IdFacts DEF DispatchCancel, ServeInline, Messages, TypeInv, TypeOK, MutexInv
  <2>2. \A p \in Prompts : answered'[p] = answered[p]
    BY <1>5, <2>1, Written DEF DispatchCancel, ServeInline
  <2>. QED
    BY <2>1, <2>2, ResponsesLeftAlone
<1>. QED
  BY <1>1, <1>2, <1>3, <1>4, <1>5, TaskKeepsResponses DEF Next, Ended, LoopStep

LEMMA EofNext == EofInv /\ [Next]_vars => EofInv'
<1>. SUFFICES ASSUME EofInv, [Next]_vars PROVE EofInv'
  OBVIOUS
<1>. USE DEF EofInv, hostVars, loopVars
<1>1. CASE HostStep
  BY <1>1 DEF HostStep, SendMessage, SendAnswer, CloseStdin
<1>2. CASE LoopStep
  BY <1>2 DEF LoopStep, Forward, TakeLine, SeeEof, Flush, Exit, TakeOutput, DispatchPrompt,
              DispatchCancel, DispatchAnswer, DispatchInline, ServeInline
<1>3. ASSUME NEW p \in Prompts, TaskRuns(p) \/ TurnStep(p) PROVE EofInv'
  BY <1>3 DEF TaskRuns, TurnStep, Enqueue, Begin, NoticeCancel, AgyFinishes, AgyDies, Return, Unregister,
              Respond, SignalEnd, Publish, Ask, AskTimesOut
<1>4. CASE UNCHANGED vars
  BY <1>4 DEF vars
<1>. QED
  BY <1>1, <1>2, <1>3, <1>4 DEF Next, Ended

(* What the service sees of a request.                                     *)
LEMMA StatusOf ==
    ASSUME NEW r \in Ids, answered[r] \in {0, 1}
    PROVE  Status[r] = IF answered[r] = 1 THEN "answered" ELSE IF r \in sent THEN "open" ELSE "unsent"
<1>1. Status[r] = CASE answered[r] > 1 -> "answered again"
                    [] answered[r] = 1 -> "answered"
                    [] answered[r] = 0 /\ r \in sent -> "open"
                    [] OTHER -> "unsent"
  BY DEF Status
<1>2. ~(answered[r] > 1)
  OBVIOUS
<1>3. CASE answered[r] = 1
  BY <1>1, <1>2, <1>3
<1>4. CASE answered[r] = 0
  BY <1>1, <1>2, <1>4
<1>. QED
  BY <1>3, <1>4

LEMMA StatusIs ==
    ASSUME ServiceInv, NEW r \in Ids
    PROVE  /\ answered[r] \in {0, 1}
           /\ r \notin sent => answered[r] = 0
           /\ Status[r] = IF answered[r] = 1 THEN "answered" ELSE IF r \in sent THEN "open" ELSE "unsent"
<1>1. CASE r \in Prompts
  <2>1. answered[r] \in {0, 1} /\ (task[r] = "none" => answered[r] = 0)
    BY <1>1 DEF ServiceInv, ResponseInv, Silent
  <2>2. r \notin sent => answered[r] = 0
    BY <1>1, <2>1 DEF ServiceInv, CountInv, LineInv, OnceEach, Begun
  <2>. QED
    BY <2>1, <2>2, StatusOf
<1>2. CASE r \notin Prompts
  <2>1. answered[r] \in {0, 1} /\ (r \notin sent => answered[r] = 0)
    BY <1>2 DEF ServiceInv, CountInv, LineInv, OnceEach, Begun
  <2>. QED
    BY <2>1, StatusOf
<1>. QED
  BY <1>1, <1>2

LEMMA StatusNext ==
    ASSUME ServiceInv', NEW r \in Ids
    PROVE  Status'[r] = IF answered'[r] = 1 THEN "answered" ELSE IF r \in sent' THEN "open" ELSE "unsent"
<1>1. answered'[r] \in {0, 1}
  <2>1. CASE r \in Prompts
    BY <2>1 DEF ServiceInv, ResponseInv
  <2>2. CASE r \notin Prompts
    BY <2>2 DEF ServiceInv, CountInv, LineInv, OnceEach
  <2>. QED
    BY <2>1, <2>2
<1>2. Status'[r] = CASE answered'[r] > 1 -> "answered again"
                     [] answered'[r] = 1 -> "answered"
                     [] answered'[r] = 0 /\ r \in sent' -> "open"
                     [] OTHER -> "unsent"
  BY DEF Status
<1>3. CASE answered'[r] = 1
  BY <1>2, <1>3
<1>4. CASE answered'[r] = 0
  BY <1>2, <1>4
<1>. QED
  BY <1>1, <1>3, <1>4

(* A response is the service's answer to one open request...               *)
LEMMA AnswersOne ==
    ASSUME ServiceInv, ServiceInv', NEW r \in Ids, at # "exited", at' # "exited",
           UNCHANGED <<sent, hostOpen>>, answered' = [answered EXCEPT ![r] = @ + 1]
    PROVE  Service!Next
<1>1. answered[r] \in {0, 1} /\ answered'[r] \in {0, 1} /\ answered'[r] = answered[r] + 1
  <2>1. answered \in [Ids -> Nat] /\ answered[r] \in {0, 1}
    BY StatusIs DEF ServiceInv, TypeInv, TypeOK
  <2>2. answered'[r] \in {0, 1}
    <3>1. CASE r \in Prompts
      BY <3>1 DEF ServiceInv, ResponseInv
    <3>2. CASE r \notin Prompts
      BY <3>2 DEF ServiceInv, CountInv, LineInv, OnceEach
    <3>. QED
      BY <3>1, <3>2
  <2>. QED
    BY <2>1, <2>2
<1>2. answered[r] = 0 /\ answered'[r] = 1 /\ r \in sent
  <2>1. answered[r] = 0 /\ answered'[r] = 1
    BY <1>1
  <2>2. ASSUME r \notin sent PROVE FALSE
    <3>1. CASE r \in Prompts
      <4>1. task'[r] = "none"
        BY <2>2, <3>1 DEF ServiceInv, CountInv, LineInv, OnceEach, Begun
      <4>. QED
        BY <2>1, <3>1, <4>1 DEF ServiceInv, ResponseInv, Silent
    <3>2. CASE r \notin Prompts
      BY <2>1, <2>2, <3>2 DEF ServiceInv, CountInv, LineInv, OnceEach, Begun
    <3>. QED
      BY <3>1, <3>2
  <2>. QED
    BY <2>1, <2>2
<1>3. \A q \in Ids : q # r => answered'[q] = answered[q]
  BY DEF ServiceInv, TypeInv, TypeOK
<1>4. \A q \in Ids : Status'[q] = IF q = r THEN "answered" ELSE Status[q]
  BY <1>2, <1>3, StatusIs, StatusNext
<1>5. Status = [q \in Ids |-> Status[q]] /\ Status' = [q \in Ids |-> Status'[q]]
  BY DEF Status
<1>6. Status' = [Status EXCEPT ![r] = "answered"]
  BY <1>4, <1>5
<1>7. Status[r] = "open"
  BY <1>2, StatusIs
<1>8. Service!Answer(r)
  BY <1>6, <1>7 DEF Service!Answer
<1>. QED
  BY <1>8 DEF Service!Next

(* ... a step that answers nothing is none of the service's...             *)
LEMMA SeenUnchanged ==
    ASSUME UNCHANGED <<answered, sent, hostOpen>>, (at' = "exited") = (at = "exited")
    PROVE  UNCHANGED Service!vars
BY DEF Service!vars, Status

(* ... and when the loop ends nothing it was sent is open.                 *)
LEMMA ExitServed ==
    ASSUME ServiceInv, Exit
    PROVE  Service!Next
<1>1. /\ at = "select" /\ at' = "exited" /\ ~stdinOpen /\ pendingPrompts = 0 /\ UNCHANGED <<answered, sent, hostOpen>>
  BY DEF Exit, AllServed, hostVars
<1>2. inbox = <<>> /\ ~hostOpen /\ line = NoLine
  BY <1>1 DEF ServiceInv, EofInv, CountInv, LineInv
<1>3. Owed = {}
  BY <1>1, OwedIs, FS_EmptySet DEF ServiceInv, CountInv, PendingPromptsExact
<1>4. ASSUME NEW r \in Ids, r \in sent PROVE answered[r] = 1
  <2>1. Unread(r) = {} /\ ~Taking(r)
    BY <1>2, LineOfIs DEF Unread, Taking, Ids
  <2>2. Begun(r)
    BY <1>4, <2>1 DEF ServiceInv, CountInv, LineInv, OnceEach
  <2>3. CASE r \in Prompts
    <3>1. task[r] \notin InFlight /\ Sentinels(r) = {} /\ task[r] # "none"
      BY <1>3, <2>2, <2>3, OwedIs DEF ServiceInv, Begun
    <3>2. task[r] = "ended"
      BY <2>3, <3>1 DEF ServiceInv, TypeInv, TypeOK
    <3>. QED
      BY <2>3, <3>1, <3>2 DEF ServiceInv, ResponseInv
  <2>4. CASE r \notin Prompts
    BY <2>2, <2>4 DEF Begun, ServiceInv, CountInv, LineInv, OnceEach
  <2>. QED
    BY <2>3, <2>4
<1>5. \A r \in Ids : Status[r] # "open"
  BY <1>4, StatusIs
<1>6. Status' = Status
  BY <1>1 DEF Status
<1>. QED
  BY <1>1, <1>2, <1>5, <1>6 DEF Service!Next, Service!Exit

LEMMA HostServed ==
    ASSUME ServiceInv, ServiceInv', at # "exited", HostStep
    PROVE  [Service!Next]_(Service!vars)
<1>1. UNCHANGED <<answered, at>>
  BY DEF HostStep, SendMessage, SendAnswer, CloseStdin, loopVars
<1>2. ASSUME NEW m \in Messages, SendMessage(m) PROVE [Service!Next]_(Service!vars)
  <2>1. hostOpen /\ m \notin sent /\ sent' = sent \cup {m} /\ UNCHANGED hostOpen
    BY <1>2 DEF SendMessage
  <2>2. CASE m \in Ids
    <3>1. \A q \in Ids : Status'[q] = IF q = m THEN "open" ELSE Status[q]
      BY <1>1, <2>1, <2>2, StatusIs, StatusNext
    <3>2. Status = [q \in Ids |-> Status[q]] /\ Status' = [q \in Ids |-> Status'[q]]
      BY DEF Status
    <3>3. Status' = [Status EXCEPT ![m] = "open"]
      BY <3>1, <3>2
    <3>4. Status[m] = "unsent"
      BY <2>1, <2>2, StatusIs
    <3>5. Service!Send(m)
      BY <1>1, <2>1, <3>3, <3>4 DEF Service!Send
    <3>. QED
      BY <2>2, <3>5 DEF Service!Next
  <2>3. CASE m \notin Ids
    <3>1. Status' = Status
      BY <1>1, <2>1, <2>3 DEF Status
    <3>. QED
      BY <1>1, <2>1, <3>1 DEF Service!vars
  <2>. QED
    BY <2>2, <2>3
<1>3. ASSUME NEW p \in Prompts, SendAnswer(p) PROVE [Service!Next]_(Service!vars)
  BY <1>1, <1>3, SeenUnchanged DEF SendAnswer, hostVars
<1>4. CASE CloseStdin
  <2>1. Status' = Status
    BY <1>1, <1>4 DEF CloseStdin, Status
  <2>. QED
    BY <1>1, <1>4, <2>1 DEF CloseStdin, Service!Next, Service!Close
<1>. QED
  BY <1>2, <1>3, <1>4 DEF HostStep

LEMMA LoopServed ==
    ASSUME ServiceInv, ServiceInv', at # "exited", LoopStep
    PROVE  [Service!Next]_(Service!vars)
<1>1. CASE Forward \/ Flush
  <2>1. out # <<>> /\ UNCHANGED <<sent, hostOpen, at>>
    BY <1>1 DEF Forward, Flush, TakeOutput, hostVars
  <2>2. CASE Head(out).kind = "response"
    <3>1. Head(out) = out[1] /\ 1 \in 1 .. Len(out)
      BY <2>1, Taken DEF ServiceInv, TypeInv, TypeOK
    <3>2. PICK p \in Ids : p = Head(out).id
      BY <3>1, OutFacts DEF ServiceInv
    <3>3. answered' = [answered EXCEPT ![p] = @ + 1]
      BY <1>1, <2>2, <3>2 DEF Forward, Flush, TakeOutput
    <3>. QED
      BY <2>1, <3>3, AnswersOne
  <2>3. CASE Head(out).kind # "response"
    BY <1>1, <2>1, <2>3, SeenUnchanged DEF Forward, Flush, TakeOutput
  <2>. QED
    BY <2>2, <2>3
<1>2. CASE TakeLine \/ SeeEof \/ DispatchPrompt \/ DispatchAnswer \/ DispatchInline
  BY <1>2, SeenUnchanged DEF TakeLine, SeeEof, DispatchPrompt, DispatchAnswer, DispatchInline, Dispatched,
                             hostVars
<1>3. CASE DispatchCancel \/ ServeInline
  <2>1. WriteResponse(line.id) /\ UNCHANGED <<sent, hostOpen>> /\ at' = "select"
    BY <1>3 DEF DispatchCancel, ServeInline, Dispatched, hostVars
  <2>2. CASE line.id \in Ids
    <3>1. PICK m \in Ids : m = line.id
      BY <2>2
    <3>2. answered' = [answered EXCEPT ![m] = @ + 1]
      BY <2>1, <3>1 DEF WriteResponse
    <3>. QED
      BY <2>1, <3>2, AnswersOne
  <2>3. CASE line.id \notin Ids
    BY <2>1, <2>3, SeenUnchanged DEF WriteResponse
  <2>. QED
    BY <2>2, <2>3
<1>4. CASE Exit
  BY <1>4, ExitServed
<1>. QED
  BY <1>1, <1>2, <1>3, <1>4 DEF LoopStep

LEMMA TaskServed ==
    ASSUME NEW p \in Prompts, TaskRuns(p) \/ TurnStep(p)
    PROVE  UNCHANGED Service!vars
<1>1. UNCHANGED <<answered, sent, hostOpen, at>>
  BY DEF TaskRuns, TurnStep, Enqueue, Begin, NoticeCancel, AgyFinishes, AgyDies, Return, Unregister,
         Respond, SignalEnd, Publish, Ask, AskTimesOut, hostVars, loopVars
<1>. QED
  BY <1>1, SeenUnchanged

(* Dispatcher implements RpcService: every request is answered once, after *)
(* it was sent, and none is left open when the process ends.               *)
THEOREM ServiceHolds == Spec => ServesEveryRequest
<1>1. Init => ServiceInv
  <2>. SUFFICES ASSUME Init PROVE ServiceInv
    OBVIOUS
  <2>1. ResponseInv
    <3>1. \A p \in Prompts : /\ Responses(p) = {} /\ Sentinels(p) = {} /\ task[p] = "none" /\ p \in Ids
                             /\ answered[p] = 0
      BY IdFacts DEF Init, Responses, Sentinels
    <3>. QED
      BY <3>1 DEF ResponseInv, Silent
  <2>. QED
    BY <2>1, TypeInit, CountInit DEF Init, EofInv, ServiceInv
<1>2. ServiceInv /\ [Next]_vars => ServiceInv'
  BY TypeNext, CountNext, ResponseNext, EofNext DEF ServiceInv, CountInv
<1>3. Init => Service!Init
  BY DEF Init, Service!Init, Status
<1>4. ServiceInv /\ ServiceInv' /\ [Next]_vars => [Service!Next]_(Service!vars)
  <2>. SUFFICES ASSUME ServiceInv, ServiceInv', [Next]_vars PROVE [Service!Next]_(Service!vars)
    OBVIOUS
  <2>1. CASE UNCHANGED vars
    BY <2>1, SeenUnchanged DEF vars, hostVars, loopVars
  <2>. QED
    BY <2>1, HostServed, LoopServed, TaskServed DEF Next, Ended
<1>. QED
  BY <1>1, <1>2, <1>3, <1>4, PTL DEF Spec, ServesEveryRequest, Service!Spec
=============================================================================
