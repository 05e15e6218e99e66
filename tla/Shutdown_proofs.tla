---------------------------- MODULE Shutdown_proofs ----------------------------
(***************************************************************************)
(* Theorems about Shutdown: the registry of children and the removal of    *)
(* the runtime directory, for any number of handled signals and of turns.  *)
(***************************************************************************)
EXTENDS Shutdown, TLAPS

-----------------------------------------------------------------------------
(* Type correctness *)

Inside == {"restore", "empty", "rmdir"}

(* A turn about to spawn has a pid left, and one that has spawned has a    *)
(* child; a thread is inside cleanup only with its mutex.                  *)
Bound ==
    /\ turn = "spawn" => spawned < MaxTurns
    /\ turn = "register" => spawned \in Children
Mutex == \A t \in Threads : cleaning[t] \in Inside <=> dirLock = t

(* Who calls cleanup, and from where.                                      *)
Callers ==
    /\ \A s \in Signals : handler[s] # "clean" => cleaning[s] = "idle"
    /\ cleaning[Main] # "idle" => pc \in {"drop", "clean", "return"} /\ (pc = "clean" => slot)

TypeInv == TypeOK /\ Bound /\ Mutex /\ Callers

LEMMA TypeInit == Init => TypeInv
<1>. SUFFICES ASSUME Init PROVE TypeInv
  OBVIOUS
<1>1. cleaning = [t \in Threads |-> "idle"] /\ dirLock = Nobody /\ Nobody \notin Threads
  BY ShutdownAssumption DEF Init, Threads
<1>2. Mutex
  BY <1>1 DEF Mutex, Inside
<1>3. cleaning \in [Threads -> CleanPcs]
  BY <1>1 DEF CleanPcs
<1>. QED
  <2>1. Callers
    BY <1>1 DEF Callers, Threads
  <2>4. handler \in [Signals -> HandlerPcs] /\ victims \in [Signals -> SUBSET Children]
    BY DEF Init, HandlerPcs
  <2>5. /\ entries \subseteq {"socket", "hook"} /\ alive \subseteq Children
        /\ registry \subseteq Children /\ spawned \in 0 .. MaxTurns
    BY ShutdownAssumption DEF Init
  <2>6. /\ pc \in MainPcs /\ turn \in TurnPcs /\ exited \in {"no", "signal", "return"}
        /\ slot \in BOOLEAN /\ owned \in BOOLEAN /\ dir \in BOOLEAN
        /\ readOnly \in BOOLEAN /\ reported \in BOOLEAN /\ early \in BOOLEAN
    BY DEF Init, MainPcs, TurnPcs
  <2>2. TypeOK
    BY <1>1, <1>3, <2>4, <2>5, <2>6 DEF TypeOK
  <2>3. Bound
    BY DEF Init, Bound
  <2>. QED
    BY <1>2, <2>1, <2>2, <2>3 DEF TypeInv

LEMMA SetupTyped ==
    ASSUME TypeInv, Setup, UNCHANGED exited
    PROVE  TypeInv'
<1>. USE DEF TypeInv, TypeOK, Bound, Mutex, setupVars, lockVars, turnVars, handlerVars
<1>5. cleaning[Main] = "idle"
  BY DEF Callers, Setup, Create, NoDirectory, Publish, Bind, MakeHook, SealHook, SetupFails,
         ClearShared, Enable
<1>1. pc' \in MainPcs /\ UNCHANGED <<dirLock, cleaning, reported, turnVars, handlerVars>>
  BY DEF MainPcs, Setup, Create, NoDirectory, Publish, Bind, MakeHook, SealHook, SetupFails,
         ClearShared, Enable
<1>2. slot' \in BOOLEAN /\ owned' \in BOOLEAN
  BY DEF Setup, Create, NoDirectory, Publish, Bind, MakeHook, SealHook, SetupFails, ClearShared, Enable
<1>3. dir' \in BOOLEAN /\ readOnly' \in BOOLEAN
  BY DEF Setup, Create, NoDirectory, Publish, Bind, MakeHook, SealHook, SetupFails, ClearShared, Enable
<1>4. entries' \subseteq {"socket", "hook"}
  BY DEF Setup, Create, NoDirectory, Publish, Bind, MakeHook, SealHook, SetupFails, ClearShared, Enable
<1>. QED
  BY <1>1, <1>2, <1>3, <1>4, <1>5 DEF Callers

(* A thread in cleanup moves on, and holds the mutex if it is inside.       *)
LEMMA CleanMoves ==
    ASSUME TypeInv, NEW t \in Threads, NEW x \in CleanPcs, cleaning[t] # "idle", x # "idle",
           cleaning' = [cleaning EXCEPT ![t] = x],
           x \in Inside => dirLock \in {t, Nobody} /\ dirLock' = t,
           x \notin Inside => dirLock' = IF dirLock = t THEN Nobody ELSE dirLock,
           slot' = slot, owned' \in BOOLEAN, dir' \in BOOLEAN, readOnly' \in BOOLEAN,
           reported' \in BOOLEAN, entries' \subseteq {"socket", "hook"},
           UNCHANGED <<pc, exited, turnVars, handlerVars>>
    PROVE  TypeInv'
<1>1. Nobody \notin Threads /\ cleaning \in [Threads -> CleanPcs] /\ Mutex
  BY ShutdownAssumption DEF TypeInv, TypeOK, Threads
<1>2. /\ cleaning' \in [Threads -> CleanPcs] /\ cleaning'[t] = x
      /\ \A u \in Threads : u # t => cleaning'[u] = cleaning[u]
  BY <1>1
<1>3. dirLock' \in Threads \cup {Nobody}
  BY DEF TypeInv, TypeOK
<1>4. Mutex'
  BY <1>1, <1>2 DEF Mutex
<1>5. TypeOK'
  BY <1>2, <1>3, <1>4 DEF TypeInv, TypeOK, Mutex, Inside, turnVars, handlerVars
<1>6. Bound'
  BY DEF TypeInv, Bound, turnVars
<1>7. Callers'
  <2>1. Callers /\ handler' = handler /\ pc' = pc /\ slot' = slot
    BY DEF TypeInv, handlerVars
  <2>2. ASSUME NEW s \in Signals, handler'[s] # "clean" PROVE cleaning'[s] = "idle"
    BY <1>2, <2>1, <2>2 DEF Callers, Threads
  <2>3. ASSUME cleaning'[Main] # "idle"
        PROVE  pc' \in {"drop", "clean", "return"} /\ (pc' = "clean" => slot')
    BY <1>2, <2>1, <2>3 DEF Callers, Threads
  <2>. QED
    BY <2>2, <2>3 DEF Callers
<1>. QED
  BY <1>4, <1>5, <1>6, <1>7 DEF TypeInv

LEMMA CleanTyped ==
    ASSUME TypeInv, NEW t \in Threads, Clean(t), UNCHANGED exited
    PROVE  TypeInv'
<1>0. /\ owned \in BOOLEAN /\ dir \in BOOLEAN /\ readOnly \in BOOLEAN
      /\ reported \in BOOLEAN /\ entries \subseteq {"socket", "hook"}
      /\ cleaning[t] \in Inside <=> dirLock = t
  BY DEF TypeInv, TypeOK, Mutex
<1>. USE DEF Inside, CleanPcs, setupVars
<1>1. CASE CleanStart(t)
  <2>1. CASE owned
    BY <1>0, <1>1, <2>1, CleanMoves DEF CleanStart, HoldThePath
  <2>2. CASE ~owned
    BY <1>0, <1>1, <2>2, CleanMoves DEF CleanStart
  <2>. QED
    BY <2>1, <2>2
<1>2. CASE Restore(t)
  BY <1>0, <1>2, CleanMoves DEF Restore
<1>3. CASE Empty(t)
  <2>1. CASE dir /\ ~readOnly
    BY <1>0, <1>3, <2>1, CleanMoves DEF Empty
  <2>2. CASE ~(dir /\ ~readOnly)
    BY <1>0, <1>3, <2>2, CleanMoves DEF Empty, CleanFails, Leave
  <2>. QED
    BY <2>1, <2>2
<1>4. CASE RemoveDir(t)
  <2>1. CASE dir /\ entries = {}
    BY <1>0, <1>4, <2>1, CleanMoves DEF RemoveDir, Leave
  <2>2. CASE ~(dir /\ entries = {})
    BY <1>0, <1>4, <2>2, CleanMoves DEF RemoveDir, CleanFails, Leave
  <2>. QED
    BY <2>1, <2>2
<1>. QED
  BY <1>1, <1>2, <1>3, <1>4 DEF Clean

LEMMA MainTyped ==
    ASSUME TypeInv, ((EndLoop \/ KillAtEnd \/ MainClean) /\ UNCHANGED exited) \/ MainCleaned
    PROVE  TypeInv'
<1>. USE ShutdownAssumption
     DEF TypeInv, TypeOK, Bound, Callers, setupVars, lockVars, turnVars, handlerVars
<1>1. CASE EndLoop /\ UNCHANGED exited
  BY <1>1 DEF EndLoop, MainPcs, Mutex
<1>4. CASE KillAtEnd /\ UNCHANGED exited
  BY <1>4 DEF KillAtEnd, MainPcs, Mutex
<1>2. CASE MainClean /\ UNCHANGED exited
  BY <1>2 DEF MainClean, Enters, CleanPcs, Threads, Mutex, Inside
<1>3. CASE MainCleaned
  <2>1. cleaning[Main] \notin Inside
    BY <1>3 DEF MainCleaned, Inside
  <2>. QED
    BY <1>3, <2>1 DEF MainCleaned, CleanPcs, Threads, Mutex, Inside, MainPcs
<1>. QED
  BY <1>1, <1>2, <1>3, <1>4

LEMMA TurnsTyped ==
    ASSUME TypeInv, Turns, UNCHANGED exited
    PROVE  TypeInv'
<1>. USE ShutdownAssumption
     DEF TypeInv, TypeOK, Bound, Mutex, Callers, TurnPcs, Children, setupVars, lockVars, handlerVars
<1>1. CASE BeginTurn
  BY <1>1 DEF BeginTurn
<1>6. CASE SpawnFails
  BY <1>6 DEF SpawnFails
<1>7. CASE Reap
  BY <1>7 DEF Reap
<1>4. CASE AgyExits
  BY <1>4 DEF AgyExits
<1>5. CASE Unregister
  BY <1>5 DEF Unregister
<1>2. CASE Spawn
  BY <1>2 DEF Spawn
<1>3. CASE Register
  BY <1>3 DEF Register
<1>. QED
  BY <1>1, <1>2, <1>3, <1>4, <1>5, <1>6, <1>7 DEF Turns

LEMMA HandlerTyped ==
    ASSUME TypeInv, NEW s \in Signals, Handler(s)
    PROVE  TypeInv'
<1>. USE ShutdownAssumption 
     DEF TypeInv, TypeOK, Bound, Callers, HandlerPcs, setupVars, lockVars, turnVars, handlerVars
<1>1. CASE Receive(s)
  BY <1>1 DEF Receive, Mutex
<1>2. CASE KillOne(s)
  BY <1>2 DEF KillOne, Mutex
<1>3. CASE ReadSlot(s)
  BY <1>3 DEF ReadSlot, Mutex, Threads, CleanPcs, Inside
<1>4. CASE ExitProcess(s)
  BY <1>4 DEF ExitProcess, Mutex
<1>. QED
  BY <1>1, <1>2, <1>3, <1>4 DEF Handler

LEMMA TypeNext == TypeInv /\ [Next]_vars => TypeInv'
<1>. SUFFICES ASSUME TypeInv, [Next]_vars PROVE TypeInv'
  OBVIOUS
<1>1. CASE UNCHANGED vars
  BY <1>1 DEF vars, setupVars, lockVars, turnVars, handlerVars, TypeInv, TypeOK, Bound, Mutex,
                  Callers
<1>. QED
  BY <1>1, SetupTyped, CleanTyped, MainTyped, TurnsTyped, HandlerTyped DEF Next

(* The main thread, the handlers, the directory and the registry keep      *)
(* their types, and only a thread inside cleanup holds its mutex.          *)
THEOREM TypeCorrect == Spec => []TypeOK
<1>1. TypeInv => TypeOK
  BY DEF TypeInv
<1>. QED
  BY <1>1, TypeInit, TypeNext, PTL DEF Spec

-----------------------------------------------------------------------------
(* The registry of children *)

(* A turn leaves the registry only once its agy has died.                  *)
Known == NoUnknownChild /\ (turn = "reaped" => spawned \notin alive)

(* "no path can leave a child nobody knows about": a running agy is        *)
(* registered, unless it was spawned an instant ago.                       *)
THEOREM ChildrenAreKnown == Spec => []NoUnknownChild
<1>1. Init => Known
  BY DEF Init, Known, NoUnknownChild
<1>2. Known /\ [Next]_vars => Known'
  <2>. SUFFICES ASSUME Known, [Next]_vars PROVE Known'
    OBVIOUS
  <2>. USE DEF Known, NoUnknownChild, setupVars, lockVars, turnVars, handlerVars
  <2>1. ASSUME UNCHANGED <<turn, spawned, registry>>, alive' \subseteq alive PROVE Known'
    BY <2>1
  <2>2. CASE BeginTurn \/ SpawnFails \/ Spawn
    BY <2>2 DEF BeginTurn, SpawnFails, Spawn
  <2>3. CASE Register
    BY <2>3 DEF Register
  <2>4. CASE Reap \/ Unregister
    BY <2>4 DEF Reap, Unregister, Dead
  <2>5. CASE AgyExits \/ KillAtEnd
    BY <2>1, <2>5 DEF AgyExits, KillAtEnd
  <2>6. CASE Setup \/ EndLoop \/ MainClean \/ MainCleaned
    BY <2>1, <2>6 DEF Setup, Create, NoDirectory, Publish, Bind, MakeHook, SealHook, SetupFails,
                      ClearShared, Enable, EndLoop, MainClean, MainCleaned
  <2>7. CASE \E t \in Threads : Clean(t)
    BY <2>1, <2>7 DEF Clean, CleanStart, Restore, Empty, RemoveDir
  <2>8. CASE \E s \in Signals : Handler(s)
    BY <2>1, <2>8 DEF Handler, Receive, KillOne, ReadSlot, ExitProcess
  <2>9. CASE UNCHANGED vars
    BY <2>1, <2>9 DEF vars
  <2>. QED
    BY <2>2, <2>3, <2>4, <2>5, <2>6, <2>7, <2>8, <2>9 DEF Next, Turns
<1>3. Known => NoUnknownChild
  BY DEF Known
<1>. QED
  BY <1>1, <1>2, <1>3, PTL DEF Spec

-----------------------------------------------------------------------------
(* The runtime directory *)

SetupPcs == {"create", "publish", "bind", "mkhook", "chmod", "enable", "clear", "drop"}

(* What is known of the directory, by where the main thread is, when no    *)
(* signal came before the end of the setup...                              *)
DirByMain ==
    /\ dir = owned
    /\ pc \in SetupPcs => \A s \in Signals : handler[s] = "waiting"
    /\ pc = "create" => ~dir
    /\ pc \in {"publish", "bind", "mkhook", "chmod", "enable", "clear"} => dir
    /\ pc \in {"bind", "mkhook", "chmod", "enable", "loop", "kill", "clean", "return"} =>
         slot \/ ~dir

(* ... and by where the threads inside cleanup are.                        *)
DirByThread ==
    \A t \in Threads :
        /\ cleaning[t] \in Inside => dir
        /\ cleaning[t] = "left" => ~dir
        /\ cleaning[t] \in {"empty", "rmdir"} => ~readOnly
        /\ cleaning[t] = "rmdir" => entries = {}

DirInv == ~early => DirByMain /\ DirByThread /\ ExitRemovesTheDirectory

LEMMA DirInit == Init => DirInv
BY DEF Init, DirInv, DirByMain, DirByThread, ExitRemovesTheDirectory, Inside

LEMMA SetupKeepsDir ==
    ASSUME TypeInv, DirInv, exited = "no", Setup, UNCHANGED exited
    PROVE  DirInv'
<1>. SUFFICES ASSUME ~early PROVE DirInv'
  BY DEF DirInv, Setup, Create, NoDirectory, Publish, Bind, MakeHook, SealHook, SetupFails,
         ClearShared, Enable, handlerVars
(* Nobody is inside cleanup during the setup.                              *)
<1>1. /\ pc \in SetupPcs \ {"drop"} /\ UNCHANGED <<cleaning, handler, reported, exited>>
      /\ \A t \in Threads : cleaning[t] = "idle"
  BY DEF DirInv, DirByMain, TypeInv, Callers, Threads, SetupPcs, Setup, Create, NoDirectory, Publish,
         Bind, MakeHook, SealHook, SetupFails, ClearShared, Enable, lockVars, handlerVars
<1>2. DirByThread'
  BY <1>1 DEF DirByThread, Inside
<1>3. DirByMain /\ ExitRemovesTheDirectory
  BY DEF DirInv
<1>4. DirByMain'
  <2>. USE <1>1, <1>3 DEF DirByMain, SetupPcs, setupVars, lockVars
  <2>1. CASE Create
    BY <2>1 DEF Create
  <2>4. CASE NoDirectory
    BY <2>4 DEF NoDirectory
  <2>5. CASE Publish
    BY <2>5 DEF Publish
  <2>2. CASE Bind \/ MakeHook \/ SealHook
    BY <2>2 DEF Bind, MakeHook, SealHook
  <2>3. CASE SetupFails \/ ClearShared \/ Enable
    BY <2>3 DEF SetupFails, ClearShared, Enable
  <2>. QED
    BY <2>1, <2>2, <2>3, <2>4, <2>5 DEF Setup
<1>5. ExitRemovesTheDirectory'
  BY <1>1, <1>3 DEF ExitRemovesTheDirectory
<1>. QED
  BY <1>2, <1>4, <1>5 DEF DirInv

LEMMA CleanKeepsDir ==
    ASSUME TypeInv, DirInv, exited = "no", NEW t \in Threads, Clean(t), UNCHANGED exited
    PROVE  DirInv'
<1>. SUFFICES ASSUME ~early PROVE DirInv'
  BY DEF DirInv, Clean, CleanStart, Restore, Empty, RemoveDir, handlerVars
<1>1. DirByMain /\ DirByThread /\ ~reported
  BY DEF DirInv, ExitRemovesTheDirectory
<1>2. UNCHANGED <<pc, slot, handler, early, exited>> /\ cleaning \in [Threads -> CleanPcs]
  BY DEF Clean, CleanStart, Restore, Empty, RemoveDir, CleanFails, setupVars, handlerVars,
         TypeInv, TypeOK
(* The path is recorded throughout, so nothing fails.                      *)
<1>3. ~reported' /\ dir' = owned'
  <2>. USE <1>1 DEF DirByMain, DirByThread, Inside, setupVars
  <2>1. CASE CleanStart(t) \/ Restore(t)
    BY <2>1 DEF CleanStart, HoldThePath, Restore
  <2>2. CASE Empty(t)
    BY <2>2 DEF Empty
  <2>3. CASE RemoveDir(t)
    BY <2>3 DEF RemoveDir
  <2>. QED
    BY <2>1, <2>2, <2>3 DEF Clean
<1>4. dir' => dir
  BY DEF Clean, CleanStart, Restore, Empty, RemoveDir, CleanFails, setupVars
<1>5. pc \in {"publish", "bind", "mkhook", "chmod", "enable", "clear"} => dir' = dir
  <2>1. cleaning[t] # "idle"
    BY DEF Clean, CleanStart, Restore, Empty, RemoveDir
  <2>2. pc \in SetupPcs => t = Main
    BY <1>1, <2>1 DEF DirByMain, TypeInv, Callers, Threads
  <2>. QED
    BY <2>1, <2>2 DEF SetupPcs, TypeInv, Callers
<1>6. DirByMain'
  BY <1>1, <1>2, <1>3, <1>4, <1>5 DEF DirByMain
<1>7. DirByThread'
  <2>. USE <1>1, <1>2 DEF DirByMain, DirByThread, Inside, setupVars, TypeInv, Mutex
  <2>1. CASE CleanStart(t)
    BY <2>1 DEF CleanStart, HoldThePath
  <2>2. CASE Restore(t)
    BY <2>2 DEF Restore
  <2>3. CASE Empty(t)
    BY <2>3 DEF Empty
  <2>4. CASE RemoveDir(t)
    BY <2>4 DEF RemoveDir, Leave
  <2>. QED
    BY <2>1, <2>2, <2>3, <2>4 DEF Clean
<1>. QED
  BY <1>2, <1>3, <1>6, <1>7 DEF DirInv, ExitRemovesTheDirectory

LEMMA MainKeepsDir ==
    ASSUME TypeInv, DirInv, exited = "no",
           ((EndLoop \/ KillAtEnd \/ MainClean) /\ UNCHANGED exited) \/ MainCleaned
    PROVE  DirInv'
<1>. SUFFICES ASSUME ~early PROVE DirInv'
  BY DEF DirInv, EndLoop, KillAtEnd, MainClean, MainCleaned, handlerVars
<1>. USE DEF DirInv, ExitRemovesTheDirectory, setupVars, lockVars, turnVars, handlerVars
<1>1. DirByMain'
  BY DEF DirByMain, DirByThread, Threads, SetupPcs, EndLoop, KillAtEnd, MainClean, MainCleaned
<1>2. DirByThread'
  BY DEF DirByThread, TypeInv, TypeOK, Threads, Inside, EndLoop, KillAtEnd, MainClean, Enters, MainCleaned
<1>3. ~reported' /\ (exited' # "no" => ~dir')
  BY DEF DirByThread, Threads, EndLoop, KillAtEnd, MainClean, MainCleaned
<1>. QED
  BY <1>1, <1>2, <1>3

LEMMA HandlerKeepsDir ==
    ASSUME TypeInv, DirInv, exited = "no", NEW s \in Signals, Handler(s)
    PROVE  DirInv'
<1>. SUFFICES ASSUME ~early, ~early' PROVE DirInv'
  <2>1. early => early'
    BY DEF Handler, Receive, KillOne, ReadSlot, ExitProcess, handlerVars
  <2>. QED
    BY <2>1 DEF DirInv
<1>. USE DEF DirInv, ExitRemovesTheDirectory, setupVars, lockVars, turnVars, handlerVars
<1>0. pc \notin SetupPcs
  BY DEF DirByMain, SetupPcs, Handler, Receive, KillOne, ReadSlot, ExitProcess
<1>1. DirByMain'
  BY <1>0 DEF DirByMain, SetupPcs, Handler, Receive, KillOne, ReadSlot, ExitProcess
<1>2. DirByThread'
  <2>1. CASE ReadSlot(s)
    <3>1. slot \/ ~dir
      BY <1>0 DEF DirByMain, SetupPcs, TypeInv, TypeOK, MainPcs
    <3>. QED
      BY <2>1, <3>1 DEF ReadSlot, DirByThread, TypeInv, TypeOK, Threads, Inside
  <2>2. CASE Receive(s) \/ KillOne(s) \/ ExitProcess(s)
    BY <2>2 DEF DirByThread, Receive, KillOne, ExitProcess
  <2>. QED
    BY <2>1, <2>2 DEF Handler
<1>3. ~reported' /\ (exited' # "no" => ~dir')
  BY DEF DirByThread, Threads, Handler, Receive, KillOne, ReadSlot, ExitProcess
<1>. QED
  BY <1>1, <1>2, <1>3

(* However the process ends once its setup is over, its directory has been *)
(* removed, and no removal has failed.                                     *)
THEOREM DirectoryRemoved == Spec => []ExitRemovesTheDirectory
<1>1. Init => TypeInv /\ DirInv
  BY TypeInit, DirInit
<1>2. TypeInv /\ DirInv /\ [Next]_vars => TypeInv' /\ DirInv'
  <2>. SUFFICES ASSUME TypeInv, DirInv, [Next]_vars PROVE DirInv'
    BY TypeNext
  <2>1. CASE Turns /\ UNCHANGED exited
    <3>1. UNCHANGED <<pc, setupVars, lockVars, handlerVars, exited>>
      BY <2>1 DEF Turns, BeginTurn, Spawn, SpawnFails, Register, AgyExits, Reap, Unregister
    <3>. QED
      BY <3>1 DEF DirInv, DirByMain, DirByThread, ExitRemovesTheDirectory, setupVars, lockVars,
                  handlerVars
  <2>2. CASE UNCHANGED vars
    BY <2>2 DEF vars, DirInv, DirByMain, DirByThread, ExitRemovesTheDirectory, setupVars, lockVars,
                handlerVars
  <2>. QED
    BY <2>1, <2>2, SetupKeepsDir, CleanKeepsDir, MainKeepsDir, HandlerKeepsDir DEF Next
<1>3. DirInv => ExitRemovesTheDirectory
  BY DEF DirInv, ExitRemovesTheDirectory
<1>. QED
  BY <1>1, <1>2, <1>3, PTL DEF Spec
=============================================================================
