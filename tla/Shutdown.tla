------------------------------- MODULE Shutdown -------------------------------
(***************************************************************************)
(* How an adapter process starts and ends (src/main.rs, src/runtime.rs,    *)
(* src/hook_root.rs and the registry of src/proc.rs): the main thread sets *)
(* up the private runtime directory, runs turns and returns, while each    *)
(* handled signal kills the registered children, removes the directory and *)
(* exits the process under everybody else's feet.                          *)
(*                                                                         *)
(* kill_process_tree of one child is one step here; ProcessTree refines it.*)
(*                                                                         *)
(* An operator named Mut... is a bug the model checker must notice: it is  *)
(* not part of the specification.                                          *)
(***************************************************************************)
EXTENDS Integers, FiniteSets

CONSTANTS
    Signals,         \* one handler task for each
    Main,            \* the main thread
    Nobody,
    MaxTurns         \* turns the process runs: bounds the instance

ASSUME ShutdownAssumption ==
    /\ Main \notin Signals
    /\ Nobody \notin Signals \cup {Main}
    /\ MaxTurns \in Nat

VARIABLES
    pc,         \* where the main thread is
    slot,       \* shared_cleanup holds the cleanup handle
    owned,      \* RuntimeCleanup.dir: the directory is still to be removed
    dirLock,    \* the holder of that mutex
    cleaning,   \* where each thread is inside RuntimeCleanup::cleanup
    dir,        \* the directory exists
    entries,    \* what is in it
    readOnly,   \* the hook child is read-only
    reported,   \* a failed removal went to stderr
    turn,       \* the running turn
    spawned,    \* turns that have started agy
    alive,      \* their processes that run
    registry,   \* live_children
    handler,    \* where each handler is
    victims,    \* the snapshot kill_all works from
    early,      \* a signal was received before the setup was over
    exited      \* how the process has ended

setupVars == <<slot, entries, readOnly, dir>>
lockVars == <<owned, dirLock, cleaning, reported>>
turnVars == <<turn, spawned, alive, registry>>
handlerVars == <<handler, victims, early>>
vars == <<pc, setupVars, lockVars, turnVars, handlerVars, exited>>

Threads == Signals \cup {Main}
Children == 1 .. MaxTurns
MainPcs == {"create", "publish", "bind", "mkhook", "chmod", "enable", "clear", "drop", "loop",
            "kill", "clean", "return"}
CleanPcs == {"idle", "enter", "restore", "empty", "rmdir", "left"}
TurnPcs == {"idle", "spawn", "register", "run", "reaped"}
HandlerPcs == {"waiting", "kill", "slot", "clean"}

Init ==
    /\ pc = "create"
    /\ slot = FALSE /\ owned = FALSE /\ dirLock = Nobody
    /\ cleaning = [t \in Threads |-> "idle"]
    /\ dir = FALSE /\ entries = {} /\ readOnly = FALSE /\ reported = FALSE
    /\ turn = "idle" /\ spawned = 0 /\ alive = {} /\ registry = {}
    /\ handler = [s \in Signals |-> "waiting"]
    /\ victims = [s \in Signals |-> {}]
    /\ early = FALSE
    /\ exited = "no"

-----------------------------------------------------------------------------
(* start_permission_prompts *)

Create ==
    /\ pc = "create"
    /\ dir' = TRUE /\ owned' = TRUE
    /\ pc' = "publish"
    /\ UNCHANGED <<slot, entries, readOnly, dirLock, cleaning, reported, turnVars, handlerVars>>

(* Prompts are off, or no directory could be made. *)
NoDirectory ==
    /\ pc = "create"
    /\ pc' = "loop"
    /\ UNCHANGED <<setupVars, lockVars, turnVars, handlerVars>>

Publish ==
    /\ pc = "publish"
    /\ slot' = TRUE
    /\ pc' = "bind"
    /\ UNCHANGED <<entries, readOnly, dir, lockVars, turnVars, handlerVars>>

Bind ==
    /\ pc = "bind"
    /\ dir
    /\ entries' = entries \cup {"socket"}
    /\ pc' = "mkhook"
    /\ UNCHANGED <<slot, readOnly, dir, lockVars, turnVars, handlerVars>>

(* create_dir_all: it makes the missing parents too. *)
MakeHook ==
    /\ pc = "mkhook"
    /\ dir' = TRUE
    /\ entries' = entries \cup {"hook"}
    /\ pc' = "chmod"
    /\ UNCHANGED <<slot, readOnly, lockVars, turnVars, handlerVars>>

SealHook ==
    /\ pc = "chmod"
    /\ "hook" \in entries
    /\ readOnly' = TRUE
    /\ pc' = "enable"
    /\ UNCHANGED <<slot, entries, dir, lockVars, turnVars, handlerVars>>

(* Any of these fails. *)
SetupFails ==
    /\ pc \in {"bind", "mkhook", "chmod"}
    /\ pc' = "clear"
    /\ UNCHANGED <<setupVars, lockVars, turnVars, handlerVars>>

ClearShared ==
    /\ pc = "clear"
    /\ slot' = FALSE
    /\ pc' = "drop"
    /\ UNCHANGED <<entries, readOnly, dir, lockVars, turnVars, handlerVars>>

Enable ==
    /\ pc = "enable"
    /\ pc' = "loop"
    /\ UNCHANGED <<setupVars, lockVars, turnVars, handlerVars>>

-----------------------------------------------------------------------------
(* RuntimeCleanup::cleanup, under its mutex. *)

Enters(t) == cleaning' = [cleaning EXCEPT ![t] = "enter"]

(* The path stays recorded until it is removed. *)
MutTakesThePath(t) == owned' = FALSE /\ UNCHANGED dirLock
HoldThePath(t) == dirLock' = t /\ UNCHANGED owned

CleanStart(t) ==
    /\ cleaning[t] = "enter"
    /\ dirLock = Nobody
    /\ IF owned
       THEN HoldThePath(t) /\ cleaning' = [cleaning EXCEPT ![t] = "restore"]
       ELSE cleaning' = [cleaning EXCEPT ![t] = "left"] /\ UNCHANGED <<owned, dirLock>>
    /\ UNCHANGED <<pc, setupVars, reported, turnVars, handlerVars>>

Restore(t) ==
    /\ cleaning[t] = "restore"
    /\ readOnly' = FALSE
    /\ cleaning' = [cleaning EXCEPT ![t] = "empty"]
    /\ UNCHANGED <<pc, slot, entries, dir, owned, dirLock, reported, turnVars, handlerVars>>

Leave(t) ==
    /\ cleaning' = [cleaning EXCEPT ![t] = "left"]
    /\ dirLock' = IF dirLock = t THEN Nobody ELSE dirLock

CleanFails(t) == reported' = TRUE /\ Leave(t) /\ UNCHANGED <<setupVars, owned>>

Empty(t) ==
    /\ cleaning[t] = "empty"
    /\ IF dir /\ ~readOnly
       THEN /\ entries' = {}
            /\ cleaning' = [cleaning EXCEPT ![t] = "rmdir"]
            /\ UNCHANGED <<slot, readOnly, dir, owned, dirLock, reported>>
       ELSE CleanFails(t)
    /\ UNCHANGED <<pc, turnVars, handlerVars>>

RemoveDir(t) ==
    /\ cleaning[t] = "rmdir"
    /\ IF dir /\ entries = {}
       THEN /\ dir' = FALSE /\ owned' = FALSE
            /\ Leave(t)
            /\ UNCHANGED <<slot, entries, readOnly, reported>>
       ELSE CleanFails(t)
    /\ UNCHANGED <<pc, turnVars, handlerVars>>

Clean(t) == CleanStart(t) \/ Restore(t) \/ Empty(t) \/ RemoveDir(t)

(* The main thread cleans up when a failed setup drops the owner, at the   *)
(* end of the loop if the handle is published, and when main drops it.     *)
MainClean ==
    /\ cleaning[Main] = "idle"
    /\ pc \in {"drop", "clean", "return"}
    /\ pc = "clean" => slot
    /\ Enters(Main)
    /\ UNCHANGED <<pc, setupVars, owned, dirLock, reported, turnVars, handlerVars>>

MainCleaned ==
    /\ cleaning[Main] = "left" \/ (pc = "clean" /\ ~slot)
    /\ cleaning' = [cleaning EXCEPT ![Main] = "idle"]
    /\ pc' = CASE pc = "drop" -> "loop" [] pc = "clean" -> "return" [] OTHER -> pc
    /\ exited' = IF pc = "return" THEN "return" ELSE exited
    /\ UNCHANGED <<setupVars, owned, dirLock, reported, turnVars, handlerVars>>

-----------------------------------------------------------------------------
(* The session loop: the adapter mutex lets one turn run at a time. *)

BeginTurn ==
    /\ pc = "loop" /\ turn = "idle"
    /\ spawned < MaxTurns
    /\ turn' = "spawn"
    /\ UNCHANGED <<pc, setupVars, lockVars, spawned, alive, registry, handlerVars>>

Spawn ==
    /\ turn = "spawn"
    /\ spawned' = spawned + 1
    /\ alive' = alive \cup {spawned + 1}
    /\ turn' = "register"
    /\ UNCHANGED <<pc, setupVars, lockVars, registry, handlerVars>>

SpawnFails ==
    /\ turn = "spawn"
    /\ turn' = "idle"
    /\ UNCHANGED <<pc, setupVars, lockVars, spawned, alive, registry, handlerVars>>

Register ==
    /\ turn = "register"
    /\ registry' = registry \cup {spawned}
    /\ turn' = "run"
    /\ UNCHANGED <<pc, setupVars, lockVars, spawned, alive, handlerVars>>

AgyExits ==
    /\ \E k \in alive : alive' = alive \ {k}
    /\ UNCHANGED <<pc, setupVars, lockVars, turn, spawned, registry, handlerVars>>

MutStreamEnded == TRUE
Dead == spawned \notin alive

Reap ==
    /\ turn = "run"
    /\ Dead
    /\ turn' = "reaped"
    /\ UNCHANGED <<pc, setupVars, lockVars, spawned, alive, registry, handlerVars>>

Unregister ==
    /\ turn = "reaped"
    /\ registry' = registry \ {spawned}
    /\ turn' = "idle"
    /\ UNCHANGED <<pc, setupVars, lockVars, spawned, alive, handlerVars>>

(* Input has ended and no prompt is pending. *)
EndLoop ==
    /\ pc = "loop" /\ turn = "idle"
    /\ pc' = "kill"
    /\ UNCHANGED <<setupVars, lockVars, turnVars, handlerVars>>

KillAtEnd ==
    /\ pc = "kill"
    /\ alive' = alive \ registry
    /\ pc' = "clean"
    /\ UNCHANGED <<setupVars, lockVars, turn, spawned, registry, handlerVars>>

-----------------------------------------------------------------------------
(* install_shutdown_killer *)

Receive(s) ==
    /\ handler[s] = "waiting"
    /\ handler' = [handler EXCEPT ![s] = "kill"]
    /\ victims' = [victims EXCEPT ![s] = registry]
    /\ early' = (early \/ pc \notin {"loop", "kill", "clean", "return"})
    /\ UNCHANGED <<pc, setupVars, lockVars, turnVars, exited>>

KillOne(s) ==
    /\ handler[s] = "kill"
    /\ \E k \in victims[s] :
         /\ alive' = alive \ {k}
         /\ victims' = [victims EXCEPT ![s] = @ \ {k}]
    /\ UNCHANGED <<pc, setupVars, lockVars, turn, spawned, registry, handler, early, exited>>

ReadSlot(s) ==
    /\ handler[s] = "kill"
    /\ victims[s] = {}
    /\ handler' = [handler EXCEPT ![s] = "clean"]
    /\ cleaning' = [cleaning EXCEPT ![s] = IF slot THEN "enter" ELSE "left"]
    /\ UNCHANGED <<pc, setupVars, owned, dirLock, reported, turnVars, victims, early, exited>>

ExitProcess(s) ==
    /\ handler[s] = "clean" /\ cleaning[s] = "left"
    /\ exited' = "signal"
    /\ UNCHANGED <<pc, setupVars, lockVars, turnVars, handlerVars>>

-----------------------------------------------------------------------------
Setup ==
    \/ Create \/ NoDirectory \/ Publish \/ Bind \/ MakeHook \/ SealHook
    \/ SetupFails \/ ClearShared \/ Enable
Turns == BeginTurn \/ Spawn \/ SpawnFails \/ Register \/ AgyExits \/ Reap \/ Unregister
Handler(s) == Receive(s) \/ KillOne(s) \/ ReadSlot(s) \/ ExitProcess(s)

(* Nothing happens after the process has exited. *)
Next ==
    /\ exited = "no"
    /\ \/ (Setup \/ Turns \/ EndLoop \/ KillAtEnd \/ MainClean) /\ UNCHANGED exited
       \/ MainCleaned
       \/ \E t \in Threads : Clean(t) /\ UNCHANGED exited
       \/ \E s \in Signals : Handler(s)

Spec == Init /\ [][Next]_vars

-----------------------------------------------------------------------------
(* Threads, the directory and the registry stay in their types, and only a *)
(* thread inside cleanup holds its mutex.                                  *)
TypeOK ==
    /\ pc \in MainPcs
    /\ slot \in BOOLEAN /\ owned \in BOOLEAN /\ dir \in BOOLEAN
    /\ readOnly \in BOOLEAN /\ reported \in BOOLEAN
    /\ dirLock \in Threads \cup {Nobody}
    /\ cleaning \in [Threads -> CleanPcs]
    /\ dirLock # Nobody => cleaning[dirLock] \in {"restore", "empty", "rmdir"}
    /\ entries \subseteq {"socket", "hook"}
    /\ turn \in TurnPcs
    /\ spawned \in 0 .. MaxTurns
    /\ alive \subseteq Children /\ registry \subseteq Children
    /\ handler \in [Signals -> HandlerPcs]
    /\ victims \in [Signals -> SUBSET Children]
    /\ early \in BOOLEAN
    /\ exited \in {"no", "signal", "return"}

(* However the process ends once its setup is over, by signals arriving at *)
(* once or by returning from main, it does not exit with its directory     *)
(* still there, nor while another thread is half way through removing it;  *)
(* and no removal fails: nobody else changes the directory meanwhile, and  *)
(* the hook it sealed can be deleted.                                      *)
ExitRemovesTheDirectory == ~early => (exited # "no" => ~dir) /\ ~reported

(* "no path can leave a child nobody knows about": outside the instant     *)
(* between its spawn and its registration, a running agy is registered.    *)
NoUnknownChild == \A k \in alive : k \in registry \/ (turn = "register" /\ k = spawned)

-----------------------------------------------------------------------------
(* "a handled signal arriving mid-setup still removes the directory        *)
(* instead of observing None and exiting past RuntimeOwner::drop": once    *)
(* published, the handle is there for as long as there is something to     *)
(* remove; refuted by a run of its own.                                    *)
HandlerFindsTheHandle ==
    [][\A s \in Signals :
         handler[s] = "kill" /\ handler'[s] = "clean" /\ owned /\ pc # "publish" => slot]_vars
=============================================================================
