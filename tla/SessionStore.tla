----------------------------- MODULE SessionStore -----------------------------
(***************************************************************************)
(* The sessions of the adapter (src/adapter.rs): the bounded map each      *)
(* process keeps in memory, the file sessions.json all processes share,    *)
(* and the queue of evicted sessions whose remembered answers the bridge   *)
(* must forget.  Processes crash at any point and are started again.       *)
(*                                                                         *)
(* In a process the adapter mutex lets one operation run at a time; only   *)
(* the dispatcher's drain of the queue runs beside it.  Recency ticks are  *)
(* unique and growing, so the map is kept as the sequence of its ids, the  *)
(* least recently used first.                                              *)
(*                                                                         *)
(* An operator named Mut... is a bug the model checker must notice: it is  *)
(* not part of the specification.                                          *)
(***************************************************************************)
EXTENDS Integers, Sequences, FiniteSets

CONSTANTS
    Procs,          \* adapter processes sharing one home directory
    Ids,            \* session ids
    Unbound,        \* a session agy has not given a conversation yet
    Nobody,         \* no holder of the file lock
    MaxSessions,    \* MAX_SESSIONS of evict_if_needed
    MaxPersisted,   \* MAX_PERSISTED_SESSIONS
    Times,          \* what the system clock may show: it may tie or jump
    UnknownPrompts  \* hosts may prompt a session the adapter does not know

ASSUME StoreAssumption ==
    /\ MaxSessions \in Nat \ {0}
    /\ MaxPersisted \in Nat \ {0}
    /\ Times \subseteq Nat
    /\ UnknownPrompts \in BOOLEAN
    /\ Nobody \notin Procs
    /\ Unbound \notin Ids

VARIABLES
    live,           \* Adapter.sessions, by process, in order of last_used
    binding,        \* their conversation_id: Unbound, or agy's for that session
    forget,         \* pending_forget
    victims,        \* the ids the dispatcher has taken from it
    answers,        \* sessions with remembered answers, in each bridge
    op,             \* the operation under each adapter mutex
    flock,          \* the holder of sessions.lock
    store,          \* sessions.json: whole, and its entries
    tmp,            \* sessions.tmp
    issued          \* ids in use: session/new mints none of them again

memVars == <<live, binding, forget, victims, answers>>
diskVars == <<flock, store, tmp>>
vars == <<memVars, op, diskVars, issued>>

(* agy gives a session one conversation and resumes it: it is named after  *)
(* the session.  A stored entry is Absent or has a binding and a time.     *)
Bindings == Ids \cup {Unbound}
Absent == [conv |-> Unbound, at |-> -1]
Entries == {Absent} \cup [conv : Bindings, at : Times]
Files == [whole : BOOLEAN, entry : [Ids -> Entries]]
Empty == [whole |-> TRUE, entry |-> [s \in Ids |-> Absent]]

OpPcs == {"idle", "turn", "lock", "load", "write", "rename"}
Ops == [pc : OpPcs, session : Ids \cup {Unbound}, conv : Bindings, turn : BOOLEAN,
        next : [Ids -> Entries]]
Idle == [pc |-> "idle", session |-> Unbound, conv |-> Unbound, turn |-> FALSE,
         next |-> Empty.entry]

Init ==
    /\ live = [p \in Procs |-> <<>>]
    /\ binding = [p \in Procs |-> [s \in Ids |-> Unbound]]
    /\ forget = [p \in Procs |-> {}]
    /\ victims = [p \in Procs |-> {}]
    /\ answers = [p \in Procs |-> {}]
    /\ op = [p \in Procs |-> Idle]
    /\ flock = Nobody
    /\ store = Empty
    /\ tmp = Empty
    /\ issued = {}

-----------------------------------------------------------------------------
(* The map in memory. *)

Live(p) == {live[p][i] : i \in DOMAIN live[p]}
Without(q, s) ==
    LET i == CHOOSE i \in DOMAIN q : q[i] = s
    IN  SubSeq(q, 1, i - 1) \o SubSeq(q, i + 1, Len(q))

(* touch_session *)
Touched(p, s) == IF s \in Live(p) THEN Append(Without(live[p], s), s) ELSE live[p]

(* evict_if_needed: the least recently used go until there is room for one *)
(* more.                                                                   *)
Excess(p) == IF Len(live[p]) >= MaxSessions THEN Len(live[p]) - MaxSessions + 1 ELSE 0
Evicted(p) == {live[p][i] : i \in 1 .. Excess(p)}

(* keep_session_answers, for an id that comes back. *)
MutKeepsNothing(queue, s) == queue
MutKeepsAll(queue, s) == {}
KeepAnswers(queue, s) == queue \ {s}

(* Every insert: evict, cancel a queued forget of the id, insert. *)
Admit(p, s, conv) ==
    /\ live' = [live EXCEPT ![p] = Append(SubSeq(@, Excess(p) + 1, Len(@)), s)]
    /\ binding' = [binding EXCEPT ![p] =
                     [x \in Ids |-> CASE x = s -> conv
                                       [] x # s /\ x \in Evicted(p) -> Unbound
                                       [] OTHER -> @[x]]]
    /\ forget' = [forget EXCEPT ![p] = KeepAnswers(@ \cup Evicted(p), s)]

(* touch_session, then restore_session_state if the session is not in the  *)
(* map: it needs a binding on disk, read under the file lock.              *)
Restorable(s) == store.whole /\ store.entry[s].conv # Unbound
Known(p, s) == s \in Live(p) \/ Restorable(s)

Recall(p, s) ==
    /\ s \notin Live(p) => flock = Nobody
    /\ IF s \in Live(p) \/ ~Restorable(s)
       THEN /\ live' = [live EXCEPT ![p] = Touched(p, s)]
            /\ UNCHANGED <<binding, forget>>
       ELSE Admit(p, s, store.entry[s].conv)
    /\ UNCHANGED <<victims, answers>>

BindingAfterRecall(p, s) == IF s \in Live(p) THEN binding[p][s] ELSE store.entry[s].conv

-----------------------------------------------------------------------------
(* The operations of a process. *)

Begin(p, pc, s, conv, turn) ==
    op' = [op EXCEPT ![p] = [Idle EXCEPT !.pc = pc, !.session = s, !.conv = conv, !.turn = turn]]

(* session/new mints an id nobody has seen. *)
New(p, s) ==
    /\ op[p].pc = "idle"
    /\ s \notin issued
    /\ issued' = issued \cup {s}
    /\ Admit(p, s, Unbound)
    /\ UNCHANGED <<victims, answers, op, diskVars>>

(* session/resume, and a session/load whose conversation has no history. *)
Resume(p, s) ==
    /\ op[p].pc = "idle"
    /\ s \in issued
    /\ Recall(p, s)
    /\ UNCHANGED <<op, diskVars, issued>>

(* session/load with a history to replay persists what it read. *)
Load(p, s) ==
    /\ op[p].pc = "idle"
    /\ Known(p, s) /\ BindingAfterRecall(p, s) # Unbound
    /\ Recall(p, s)
    /\ Begin(p, "lock", s, BindingAfterRecall(p, s), FALSE)
    /\ UNCHANGED <<diskVars, issued>>

(* session/set_model, session/set_config_option *)
SetModel(p, s) ==
    /\ op[p].pc = "idle"
    /\ Known(p, s)
    /\ Recall(p, s)
    /\ Begin(p, "lock", s, BindingAfterRecall(p, s), FALSE)
    /\ UNCHANGED <<diskVars, issued>>

(* session/prompt runs for an unknown session too. *)
Prompt(p, s) ==
    /\ op[p].pc = "idle"
    /\ Known(p, s) \/ UnknownPrompts
    /\ Recall(p, s)
    /\ Begin(p, "turn", s, Unbound, TRUE)
    /\ issued' = issued \cup {s}
    /\ UNCHANGED diskVars

(* An "always" answer given in the running turn. *)
Remember(p) ==
    /\ op[p].pc = "turn"
    /\ answers' = [answers EXCEPT ![p] = @ \cup {op[p].session}]
    /\ UNCHANGED <<live, binding, forget, victims, op, diskVars, issued>>

(* teardown_turn: a conversation the stream bound is recorded and saved. *)
MutRecordsOnDiskOnly(p, s) == binding
Recorded(p, s) == IF s \in Live(p) THEN [binding EXCEPT ![p][s] = s] ELSE binding

EndTurnBound(p) ==
    /\ op[p].pc = "turn"
    /\ LET s == op[p].session IN
         /\ binding' = Recorded(p, s)
         /\ Begin(p, "lock", s, s, TRUE)
    /\ UNCHANGED <<live, forget, victims, answers, diskVars, issued>>

EndTurnUnbound(p) ==
    /\ op[p].pc = "turn"
    /\ op' = [op EXCEPT ![p] = Idle]
    /\ UNCHANGED <<memVars, diskVars, issued>>

-----------------------------------------------------------------------------
(* persist_session: read, modify and write back under the file lock. *)

MutReadsUnlocked(p) == UNCHANGED flock
TakeLock(p) == flock = Nobody /\ flock' = p

Lock(p) ==
    /\ op[p].pc = "lock"
    /\ TakeLock(p)
    /\ op' = [op EXCEPT ![p].pc = "load"]
    /\ UNCHANGED <<memVars, store, tmp, issued>>

Present(entry) == {s \in Ids : entry[s] # Absent}

(* prune_store: while over the cap, the oldest unbound entry goes, or else *)
(* the oldest; never the one just written.  Ties fall either way.          *)
Candidates(entry, s) == Present(entry) \ {s}
UnboundIn(entry, s) == {x \in Candidates(entry, s) : entry[x].conv = Unbound}
MutSparesNobody(entry, s) == Present(entry)
PruneFrom(entry, s) ==
    IF UnboundIn(entry, s) # {} THEN UnboundIn(entry, s) ELSE Candidates(entry, s)

Oldest(entry, S) == {x \in S : \A y \in S : entry[x].at <= entry[y].at}

(* A persisted file is never over the cap, so one insert prunes at most    *)
(* one entry.                                                              *)
Pruned(entry, s) ==
    IF Cardinality(Present(entry)) <= MaxPersisted \/ PruneFrom(entry, s) = {}
    THEN {entry}
    ELSE {[entry EXCEPT ![v] = Absent] : v \in Oldest(entry, PruneFrom(entry, s))}

(* An unreadable file is read as an empty one. *)
Loaded == IF store.whole THEN store.entry ELSE Empty.entry

LoadAndPrune(p) ==
    /\ op[p].pc = "load"
    /\ LET s == op[p].session IN
         \E now \in Times :
           \E next \in Pruned([Loaded EXCEPT ![s] = [conv |-> op[p].conv, at |-> now]], s) :
             op' = [op EXCEPT ![p].pc = "write", ![p].next = next]
    /\ UNCHANGED <<memVars, diskVars, issued>>

(* The file being written is not whole until the writer has finished. *)
StartWriting == tmp' = [tmp EXCEPT !.whole = FALSE] /\ UNCHANGED store

Write(p) ==
    /\ op[p].pc = "write"
    /\ StartWriting
    /\ op' = [op EXCEPT ![p].pc = "rename"]
    /\ UNCHANGED <<memVars, flock, issued>>

(* The write completes, the file is renamed and the lock is released. *)
Rename(p) ==
    /\ op[p].pc = "rename"
    /\ store' = [whole |-> TRUE, entry |-> op[p].next]
    /\ tmp' = Empty
    /\ flock' = IF flock = p THEN Nobody ELSE flock
    /\ op' = [op EXCEPT ![p] = Idle]
    /\ UNCHANGED <<memVars, issued>>

-----------------------------------------------------------------------------
(* The dispatcher drains the queue at the top of its loop, unless it is    *)
(* itself inside an operation.                                             *)

AtLoopTop(p) == op[p].pc = "idle" \/ op[p].turn

TakeForgets(p) ==
    /\ AtLoopTop(p)
    /\ victims[p] = {}
    /\ forget[p] # {}
    /\ victims' = [victims EXCEPT ![p] = forget[p]]
    /\ forget' = [forget EXCEPT ![p] = {}]
    /\ UNCHANGED <<live, binding, answers, op, diskVars, issued>>

ForgetSession(p, s) ==
    /\ AtLoopTop(p)
    /\ s \in victims[p]
    /\ victims' = [victims EXCEPT ![p] = @ \ {s}]
    /\ answers' = [answers EXCEPT ![p] = @ \ {s}]
    /\ UNCHANGED <<live, binding, forget, op, diskVars, issued>>

(* The file cannot be created, written or renamed: the save is given up    *)
(* and nobody is told.                                                     *)
WriteFails(p) ==
    /\ op[p].pc \in {"write", "rename"}
    /\ op' = [op EXCEPT ![p] = Idle]
    /\ flock' = IF flock = p THEN Nobody ELSE flock
    /\ UNCHANGED <<memVars, store, tmp, issued>>

(* The process dies and is started again: the kernel drops its lock, its   *)
(* memory is gone, the files stay as they are.                             *)
Crash(p) ==
    /\ live' = [live EXCEPT ![p] = <<>>]
    /\ binding' = [binding EXCEPT ![p] = [s \in Ids |-> Unbound]]
    /\ forget' = [forget EXCEPT ![p] = {}]
    /\ victims' = [victims EXCEPT ![p] = {}]
    /\ answers' = [answers EXCEPT ![p] = {}]
    /\ op' = [op EXCEPT ![p] = Idle]
    /\ flock' = IF flock = p THEN Nobody ELSE flock
    /\ UNCHANGED <<store, tmp, issued>>

-----------------------------------------------------------------------------
Request(p) ==
    \E s \in Ids : New(p, s) \/ Resume(p, s) \/ Load(p, s) \/ SetModel(p, s) \/ Prompt(p, s)

Turn(p) == Remember(p) \/ EndTurnBound(p) \/ EndTurnUnbound(p)
Persist(p) == Lock(p) \/ LoadAndPrune(p) \/ Write(p) \/ Rename(p) \/ WriteFails(p)
Drain(p) == TakeForgets(p) \/ \E s \in Ids : ForgetSession(p, s)

Next == \E p \in Procs : Request(p) \/ Turn(p) \/ Persist(p) \/ Drain(p) \/ Crash(p)

Spec == Init /\ [][Next]_vars

-----------------------------------------------------------------------------
(* Maps, queues, operations and files stay in their types: no session is   *)
(* in a map twice, and neither a map nor the file outgrows its cap.        *)
TypeOK ==
    /\ live \in [Procs -> Seq(Ids)]
    /\ \A p \in Procs : Cardinality(Live(p)) = Len(live[p]) /\ Len(live[p]) <= MaxSessions
    /\ binding \in [Procs -> [Ids -> Bindings]]
    /\ forget \in [Procs -> SUBSET Ids]
    /\ victims \in [Procs -> SUBSET Ids]
    /\ answers \in [Procs -> SUBSET Ids]
    /\ op \in [Procs -> Ops]
    /\ flock \in Procs \cup {Nobody}
    /\ store \in Files /\ Cardinality(Present(store.entry)) <= MaxPersisted
    /\ tmp \in Files
    /\ issued \subseteq Ids

(* A step of p in which the rename goes through. *)
Saves(p) == op[p].pc = "rename" /\ op'[p].pc = "idle" /\ ~tmp.whole /\ tmp'.whole

(* A write changes its own entry only.  Others survive it, whoever wrote   *)
(* them in between, except to the cap: then a single one goes, a bound one *)
(* only if no unbound one could, and no older one of its kind stays.  And  *)
(* only a write that goes through changes the file: not one that fails or  *)
(* dies half way, which the next process would read as an empty store.     *)
WritesKeepOtherSessions ==
    [][/\ store' # store => store'.whole /\ \E p \in Procs : Saves(p)
       /\ Cardinality(Present(store'.entry)) <= MaxPersisted
       /\ \A p \in Procs : Saves(p) =>
         LET mine == op[p].session
             lost == {s \in Ids \ {mine} : store'.entry[s] # store.entry[s]} IN
         /\ Cardinality(lost) <= 1
         /\ \A s \in lost :
              /\ store'.entry[s] = Absent
              /\ Cardinality(Present(store'.entry)) = MaxPersisted
              /\ store.entry[s].conv # Unbound => UnboundIn(store'.entry, mine) = {}
              /\ \A x \in Candidates(store'.entry, mine) :
                   (store.entry[s].conv = Unbound) = (store.entry[x].conv = Unbound)
                     => store.entry[s].at <= store.entry[x].at]_vars

(* The entry a save writes survives its own pruning, with what was saved.  *)
(* A session saved with its conversation can then be resumed from disk     *)
(* were the process to die at once.  One saved without, as set_model does  *)
(* before the first turn, cannot: restore_session refuses it               *)
(* (adapter.rs:331).                                                       *)
SavedSessionIsResumable ==
    [][\A p \in Procs : Saves(p) =>
         /\ store'.entry[op[p].session] # Absent
         /\ store'.entry[op[p].session].conv = op[p].conv
         /\ \A s \in Ids :
              s = op[p].session => (Restorable(s)' <=> op[p].conv # Unbound)]_vars

(* The conversation a session was given is never replaced by none on disk: *)
(* no process saves an older view of a session than the one saved, as long *)
(* as hosts only use sessions of theirs.                                   *)
BindingsAreNotLost ==
    [][\A s \in Ids :
         store.whole /\ store.entry[s].conv # Unbound /\ store'.entry[s] # Absent
           => store'.entry[s].conv = store.entry[s].conv]_vars

(* The map holds no more than its cap, and a session in it is never queued *)
(* to be forgotten: only an id taken by the dispatcher before it came back *)
(* can lose its answers.                                                   *)
QueueNamesOnlyTheDead ==
    \A p \in Procs : Len(live[p]) <= MaxSessions /\ forget[p] \cap Live(p) = {}

(* Remembered answers belong to a session that is live or is about to be   *)
(* forgotten: a recycled id inherits nothing.                              *)
AnswersBelongToLiveSessions ==
    \A p \in Procs : answers[p] \subseteq Live(p) \cup forget[p] \cup victims[p]

=============================================================================
