---------------------------- MODULE TurnLifecycle ----------------------------
(***************************************************************************)
(* One turn (src/adapter.rs, drain_agy_io to turn_response): agy and what  *)
(* it starts, the pipe it writes its stream to, the task that reads the    *)
(* pipe, and the drain that races agy's exit against the cancel token.     *)
(* The turn begins with agy spawned and registered, and ends with its      *)
(* answer.                                                                 *)
(*                                                                         *)
(* agy is external: it writes events, starts one helper process and exits  *)
(* when it likes.  A helper whose parent is gone is reparented: the walk   *)
(* of kill_tree no longer finds it.                                        *)
(*                                                                         *)
(* An operator named Mut... is a bug the model checker must notice: it is  *)
(* not part of the specification.                                          *)
(***************************************************************************)
EXTENDS Integers, Sequences, FiniteSets

CONSTANTS
    PipeSize,       \* events agy can write ahead of the reader
    MaxEvents,      \* bound on the events of a turn
    InheritsPipe    \* a helper holds agy's stdout and stderr open

ASSUME TurnAssumption ==
    /\ PipeSize \in Nat \ {0}
    /\ MaxEvents \in Nat
    /\ InheritsPipe \in BOOLEAN

VARIABLES
    agy,            \* the child: running, a zombie, or reaped
    exitOk,         \* it exited with status 0
    holdsStdout,    \* it has not closed its stdout
    helper,         \* the process it started
    stream,         \* the events it wrote
    read,           \* how many of them have been read
    reader,         \* the stdout task
    published,      \* its notifications
    result,         \* StreamProcessor: saw_result and result_status
    undrainable, cancelled, \* the flags of these names
    refused,        \* the bridge's refusal flag of this turn
    drain,          \* where the turn is
    wasCancelled,   \* DrainOutcome.was_cancelled
    guard,          \* live_children names agy's pid
    answer          \* what the request is answered with

agyVars == <<agy, exitOk, holdsStdout, helper, stream>>
readerVars == <<read, reader, published, result, undrainable>>
drainVars == <<drain, wasCancelled, guard, answer>>
flagVars == <<cancelled, refused>>
vars == <<agyVars, readerVars, drainVars, flagVars>>

Results == {"ok", "error"}
Answers == {"end_turn", "refusal", "cancelled", "error"}

Init ==
    /\ agy = "running"
    /\ exitOk = FALSE
    /\ holdsStdout = TRUE
    /\ helper = "none"
    /\ stream = <<>>
    /\ read = 0
    /\ reader = "reading"
    /\ published = 0
    /\ result = "none"
    /\ undrainable = FALSE
    /\ cancelled \in BOOLEAN       \* a queued turn may already be cancelled
    /\ refused = FALSE
    /\ drain = "select"
    /\ wasCancelled = FALSE
    /\ guard = TRUE
    /\ answer = "none"

-----------------------------------------------------------------------------
(* agy and its helper. *)

InPipe == Len(stream) - read

(* Exactly one result event ends a stream that is complete. *)
Write(e) ==
    /\ agy = "running" /\ holdsStdout
    /\ reader # "done"
    /\ InPipe < PipeSize
    /\ Len(stream) < MaxEvents
    /\ stream # <<>> => stream[Len(stream)] \notin Results
    /\ stream' = Append(stream, e)
    /\ UNCHANGED <<agy, exitOk, holdsStdout, helper, readerVars, drainVars, flagVars>>

CloseStdout ==
    /\ agy = "running" /\ holdsStdout
    /\ holdsStdout' = FALSE
    /\ UNCHANGED <<agy, exitOk, helper, stream, readerVars, drainVars, flagVars>>

StartHelper ==
    /\ agy = "running"
    /\ helper = "none"
    /\ helper' = "child"
    /\ UNCHANGED <<agy, exitOk, holdsStdout, stream, readerVars, drainVars, flagVars>>

(* The shell between agy and the helper is gone: `command &`. *)
Detach ==
    /\ helper = "child"
    /\ helper' = "orphan"
    /\ UNCHANGED <<agy, exitOk, holdsStdout, stream, readerVars, drainVars, flagVars>>

HelperExits ==
    /\ helper \in {"child", "orphan"}
    /\ helper' = "gone"
    /\ UNCHANGED <<agy, exitOk, holdsStdout, stream, readerVars, drainVars, flagVars>>

AgyExits(ok) ==
    /\ agy = "running"
    /\ agy' = "zombie"
    /\ exitOk' = ok
    /\ helper' = IF helper = "child" THEN "orphan" ELSE helper
    /\ UNCHANGED <<holdsStdout, stream, readerVars, drainVars, flagVars>>

-----------------------------------------------------------------------------
(* The stdout task. *)

NoWriter ==
    /\ ~(agy = "running" /\ holdsStdout)
    /\ ~(InheritsPipe /\ helper \in {"child", "orphan"})

ReadEvent ==
    /\ reader = "reading"
    /\ InPipe > 0
    /\ LET e == stream[read + 1] IN
         /\ read' = read + 1
         /\ published' = IF e = "text" THEN published + 1 ELSE published
         /\ result' = IF e \in Results THEN e ELSE result
    /\ UNCHANGED <<agyVars, reader, undrainable, drainVars, flagVars>>

ReadEof ==
    /\ reader \in {"reading", "sinking"}
    /\ InPipe = 0 /\ NoWriter
    /\ reader' = "done"
    /\ UNCHANGED <<agyVars, read, published, result, undrainable, drainVars, flagVars>>

(* read_until failed: the rest is copied to a sink, unparsed. *)
MutStopsReading == "done"
AfterError == "sinking"

ReadError ==
    /\ reader = "reading"
    /\ reader' = AfterError
    /\ UNCHANGED <<agyVars, read, published, result, undrainable, drainVars, flagVars>>

SunkTo == Len(stream)

Sink ==
    /\ reader = "sinking"
    /\ InPipe > 0
    /\ read' = SunkTo
    /\ UNCHANGED <<agyVars, reader, published, result, undrainable, drainVars, flagVars>>

(* The copy failed too: nothing reads the pipe any more. *)
SinkFails ==
    /\ reader = "sinking"
    /\ reader' = "done"
    /\ undrainable' = TRUE
    /\ UNCHANGED <<agyVars, read, published, result, drainVars, flagVars>>

-----------------------------------------------------------------------------
(* The drain: select! between child.wait() and the polled flags. *)

WaitReturns ==
    /\ drain = "select"
    /\ agy = "zombie"
    /\ agy' = "reaped"
    /\ drain' = "reaped"
    /\ UNCHANGED <<exitOk, holdsStdout, helper, stream, readerVars, wasCancelled, guard, answer,
                   flagVars>>

MutPollsCancelOnly == cancelled
FlagRaised == cancelled \/ undrainable

LeavePoll ==
    /\ drain = "select"
    /\ FlagRaised
    /\ drain' = "leaving"
    /\ UNCHANGED <<agyVars, readerVars, wasCancelled, guard, answer, flagVars>>

(* Leaving the poll loop is not the same as having been cancelled. *)
MutLeavingMeansCancelled == TRUE
CancelRecorded == cancelled

(* kill_tree: agy and every descendant still linked to it. *)
KillTree ==
    /\ drain = "leaving"
    /\ wasCancelled' = CancelRecorded
    /\ agy' = "zombie"
    /\ exitOk' = IF agy = "running" THEN FALSE ELSE exitOk
    /\ helper' = IF helper = "child" THEN "gone" ELSE helper
    /\ drain' = "killed"
    /\ UNCHANGED <<holdsStdout, stream, readerVars, guard, answer, flagVars>>

WaitKilled ==
    /\ drain = "killed"
    /\ agy' = "reaped"
    /\ drain' = "reaped"
    /\ UNCHANGED <<exitOk, holdsStdout, helper, stream, readerVars, wasCancelled, guard, answer,
                   flagVars>>

DropGuard ==
    /\ drain = "reaped"
    /\ guard' = FALSE
    /\ drain' = "joining"
    /\ UNCHANGED <<agyVars, readerVars, wasCancelled, answer, flagVars>>

(* stdout_reader.await, then stderr_reader.await: its pipe has the same    *)
(* writers, but for a stdout closed early.                                 *)
StderrEof == agy # "running" /\ ~(InheritsPipe /\ helper \in {"child", "orphan"})

ReadersDone == reader = "done" /\ StderrEof

JoinReaders ==
    /\ drain = "joining"
    /\ ReadersDone
    /\ drain' = "joined"
    /\ UNCHANGED <<agyVars, readerVars, wasCancelled, guard, answer, flagVars>>

(* turn_response, for the refusal flag teardown_turn has read. *)
MutTrustsExitStatus == ~exitOk \/ result = "error"
Failed == ~exitOk \/ result # "ok"

Verdict ==
    CASE wasCancelled -> "cancelled"
      [] ~wasCancelled /\ refused -> "refusal"
      [] ~wasCancelled /\ ~refused /\ Failed -> "error"
      [] OTHER -> "end_turn"

AnswerTurn ==
    /\ drain = "joined"
    /\ answer' = Verdict
    /\ drain' = "answered"
    /\ UNCHANGED <<agyVars, readerVars, wasCancelled, guard, flagVars>>

-----------------------------------------------------------------------------
(* The host's cancel and the user's refusal, at any moment of the turn. *)
Cancel ==
    /\ drain # "answered"
    /\ ~cancelled
    /\ cancelled' = TRUE
    /\ UNCHANGED <<agyVars, readerVars, drainVars, refused>>

Refuse ==
    /\ drain # "answered"
    /\ ~refused
    /\ refused' = TRUE
    /\ UNCHANGED <<agyVars, readerVars, drainVars, cancelled>>

ReaderStep == ReadEvent \/ ReadEof \/ Sink
DrainStep ==
    \/ WaitReturns \/ LeavePoll \/ KillTree \/ WaitKilled \/ DropGuard \/ JoinReaders
    \/ AnswerTurn

AgyStep ==
    \/ \E e \in {"text"} \cup Results : Write(e)
    \/ CloseStdout \/ StartHelper \/ Detach \/ HelperExits
    \/ \E ok \in BOOLEAN : AgyExits(ok)

(* The turn is over once it is answered, and nothing of it is left to run. *)
Over == drain = "answered" /\ UNCHANGED vars

Next == Over \/ AgyStep \/ ReaderStep \/ ReadError \/ SinkFails \/ DrainStep \/ Cancel \/ Refuse

Spec == Init /\ [][Next]_vars

(* The reader and the drain are polled; I/O errors, agy, the host and the  *)
(* user do as they please.                                                 *)
FairSpec == Spec /\ WF_vars(ReaderStep) /\ WF_vars(DrainStep)

(* A helper that holds agy's pipes ends some day: for those properties     *)
(* only that say so.                                                       *)
HelpersEnd == WF_vars(HelperExits)

-----------------------------------------------------------------------------
(* The processes, the pipe, the two tasks and the flags stay in their      *)
(* types, and the reader never overtakes the pipe.                         *)
TypeOK ==
    /\ agy \in {"running", "zombie", "reaped"}
    /\ exitOk \in BOOLEAN
    /\ holdsStdout \in BOOLEAN
    /\ helper \in {"none", "child", "orphan", "gone"}
    /\ stream \in Seq({"text"} \cup Results)
    /\ read \in 0 .. Len(stream)
    /\ reader \in {"reading", "sinking", "done"}
    /\ published \in Nat
    /\ result \in Results \cup {"none"}
    /\ undrainable \in BOOLEAN /\ cancelled \in BOOLEAN /\ refused \in BOOLEAN
    /\ drain \in {"select", "leaving", "killed", "reaped", "joining", "joined", "answered"}
    /\ wasCancelled \in BOOLEAN /\ guard \in BOOLEAN
    /\ answer \in Answers \cup {"none"}

Texts == {i \in DOMAIN stream : stream[i] = "text"}

(* "end_turn" is earned: agy exited cleanly after a complete stream, of    *)
(* which the client has every update.                                      *)
EndTurnIsEarned ==
    answer = "end_turn" =>
        /\ agy = "reaped" /\ exitOk
        /\ stream # <<>> /\ stream[Len(stream)] = "ok"
        /\ published = Cardinality(Texts)

(* An agy that failed, or that the drain itself had to kill for a pipe it  *)
(* could not read, is reported as an error: only the host's cancel and the *)
(* user's refusal excuse it.                                               *)
FailureIsNotHidden ==
    answer # "none" /\ ~cancelled /\ ~refused /\ ~exitOk => answer = "error"

(* agy never stays blocked on a pipe nobody reads.                         *)
PipeIsRelieved == (agy = "running" /\ InPipe = PipeSize) ~> (agy # "running" \/ InPipe < PipeSize)

(* A turn cancelled while agy runs, or whose output can no longer be read, *)
(* is answered, whatever agy does, as soon as no helper the walk could not *)
(* find holds its pipes.                                                   *)
LeavingEndsTheTurn ==
    HelpersEnd => ((cancelled /\ drain = "select") \/ undrainable ~> drain = "answered")
=============================================================================
