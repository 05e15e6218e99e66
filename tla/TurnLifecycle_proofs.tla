------------------------- MODULE TurnLifecycle_proofs -------------------------
(***************************************************************************)
(* Theorems about TurnLifecycle: what a turn is answered with tells what   *)
(* happened to agy, for any size of the pipe, any length of the stream and *)
(* helpers of either kind.                                                 *)
(***************************************************************************)
EXTENDS TurnLifecycle, FiniteSetTheorems, TLAPS

-----------------------------------------------------------------------------
(* Type correctness *)

LEMMA TypeInit == Init => TypeOK
<1>. SUFFICES ASSUME Init PROVE TypeOK
  OBVIOUS
<1>1. stream \in Seq({"text"} \cup Results) /\ Len(stream) = 0
  BY DEF Init
<1>2. read \in 0 .. Len(stream)
  BY <1>1 DEF Init
<1>. QED
  BY <1>1, <1>2 DEF Init, TypeOK

LEMMA AgyStepTyped ==
    ASSUME TypeOK, AgyStep
    PROVE  TypeOK'
<1>. USE DEF TypeOK, readerVars, drainVars, flagVars
<1>1. CASE \E e \in {"text"} \cup Results : Write(e)
  <2>1. PICK e \in {"text"} \cup Results : Write(e)
    BY <1>1
  <2>2. stream' = Append(stream, e)
    BY <2>1 DEF Write
  <2>3. stream' \in Seq({"text"} \cup Results) /\ Len(stream') = Len(stream) + 1
    BY <2>2
  <2>. QED
    BY <2>1, <2>3 DEF Write
<1>2. CASE CloseStdout
  <2>1. holdsStdout' \in BOOLEAN
    BY <1>2 DEF CloseStdout
  <2>2. UNCHANGED <<agy, exitOk, helper, stream, readerVars, drainVars, flagVars>>
    BY <1>2 DEF CloseStdout
  <2>. QED
    BY <2>1, <2>2
<1>3. CASE StartHelper
  BY <1>3 DEF StartHelper
<1>4. CASE Detach
  BY <1>4 DEF Detach
<1>5. CASE HelperExits
  BY <1>5 DEF HelperExits
<1>6. CASE \E ok \in BOOLEAN : AgyExits(ok)
  BY <1>6 DEF AgyExits
<1>. QED
  BY <1>1, <1>2, <1>3, <1>4, <1>5, <1>6 DEF AgyStep

LEMMA ReaderStepTyped ==
    ASSUME TypeOK, ReaderStep \/ ReadError \/ SinkFails
    PROVE  TypeOK'
<1>. USE DEF TypeOK, agyVars, drainVars, flagVars
<1>1. CASE ReadEvent
  BY <1>1 DEF ReadEvent, InPipe
<1>2. CASE ReadEof
  BY <1>2 DEF ReadEof
<1>3. CASE Sink
  BY <1>3 DEF Sink, SunkTo
<1>4. CASE ReadError
  BY <1>4 DEF ReadError, AfterError
<1>5. CASE SinkFails
  BY <1>5 DEF SinkFails
<1>. QED
  BY <1>1, <1>2, <1>3, <1>4, <1>5 DEF ReaderStep

LEMMA DrainStepTyped ==
    ASSUME TypeOK, DrainStep
    PROVE  TypeOK'
<1>. USE DEF TypeOK, agyVars, readerVars, flagVars
<1>1. CASE WaitReturns \/ LeavePoll \/ WaitKilled \/ DropGuard \/ JoinReaders
  BY <1>1 DEF WaitReturns, LeavePoll, WaitKilled, DropGuard, JoinReaders
<1>2. CASE KillTree
  BY <1>2 DEF KillTree, CancelRecorded
<1>3. CASE AnswerTurn
  BY <1>3 DEF AnswerTurn, Verdict, Answers
<1>. QED
  BY <1>1, <1>2, <1>3 DEF DrainStep

LEMMA TypeNext == TypeOK /\ [Next]_vars => TypeOK'
<1>. SUFFICES ASSUME TypeOK, [Next]_vars PROVE TypeOK'
  OBVIOUS
<1>1. CASE Cancel \/ Refuse
  BY <1>1 DEF Cancel, Refuse, TypeOK, agyVars, readerVars, drainVars
<1>2. CASE Over \/ UNCHANGED vars
  BY <1>2 DEF Over, vars, TypeOK, agyVars, readerVars, drainVars, flagVars
<1>. QED
  BY <1>1, <1>2, AgyStepTyped, ReaderStepTyped, DrainStepTyped DEF Next

(* agy, its pipe, the two tasks and the flags keep their types.            *)
THEOREM TypeCorrect == Spec => []TypeOK
BY TypeInit, TypeNext, PTL DEF Spec

-----------------------------------------------------------------------------
(* What the reader has of the stream *)

TextsTo(n) == {i \in 1 .. n : stream[i] = "text"}

(* A result is the last event of a stream.  Until the reader meets an      *)
(* error it has published every text it has read, and once it has the      *)
(* result it has all of them, whatever happens later.                      *)
StreamInv ==
    /\ \A i \in 1 .. Len(stream) : i # Len(stream) => stream[i] = "text"
    /\ reader = "reading" => published = Cardinality(TextsTo(read))
    /\ result # "none" =>
         /\ read = Len(stream) /\ stream # <<>> /\ stream[Len(stream)] = result
         /\ published = Cardinality(TextsTo(Len(stream)))

(* Where the drain is when agy is gone, and what it makes of it.           *)
DrainInv ==
    /\ drain \in {"reaped", "joining", "joined", "answered"} <=> agy = "reaped"
    /\ drain \in {"joined", "answered"} => reader = "done"
    /\ wasCancelled => cancelled
    /\ answer = IF drain = "answered" THEN Verdict ELSE "none"

IInv == TypeOK /\ StreamInv /\ DrainInv

LEMMA IInvInit == Init => IInv
<1>. SUFFICES ASSUME Init PROVE IInv
  OBVIOUS
<1>1. TypeOK
  BY TypeInit
<1>2. TextsTo(0) = {}
  BY DEF TextsTo
<1>3. StreamInv
  BY <1>2, FS_EmptySet DEF Init, StreamInv
<1>4. DrainInv
  BY DEF Init, DrainInv
<1>. QED
  BY <1>1, <1>3, <1>4 DEF IInv

(* One more event read is one more text, if it is one.                     *)
LEMMA OneMoreText ==
    ASSUME TypeOK, NEW n \in Nat, n < Len(stream)
    PROVE  Cardinality(TextsTo(n + 1)) =
             IF stream[n + 1] = "text" THEN Cardinality(TextsTo(n)) + 1 ELSE Cardinality(TextsTo(n))
<1>1. IsFiniteSet(TextsTo(n))
  <2>1. IsFiniteSet(1 .. n) /\ TextsTo(n) \subseteq 1 .. n
    BY FS_Interval DEF TextsTo
  <2>. QED
    BY <2>1, FS_Subset
<1>2. CASE stream[n + 1] = "text"
  <2>1. TextsTo(n + 1) = TextsTo(n) \cup {n + 1} /\ n + 1 \notin TextsTo(n)
    BY <1>2 DEF TextsTo
  <2>. QED
    BY <1>1, <1>2, <2>1, FS_AddElement
<1>3. CASE stream[n + 1] # "text"
  <2>1. TextsTo(n + 1) = TextsTo(n)
    BY <1>3 DEF TextsTo
  <2>. QED
    BY <1>3, <2>1
<1>. QED
  BY <1>2, <1>3

LEMMA WriteKeepsStream ==
    ASSUME IInv, NEW e \in {"text"} \cup Results, Write(e)
    PROVE  StreamInv'
<1>1. /\ stream \in Seq({"text"} \cup Results) /\ read \in 0 .. Len(stream)
      /\ stream' = Append(stream, e) /\ UNCHANGED <<read, reader, published, result>>
      /\ stream # <<>> => stream[Len(stream)] \notin Results
  BY DEF Write, readerVars, IInv, TypeOK
<1>2. Len(stream') = Len(stream) + 1 /\ \A i \in 1 .. Len(stream) : stream'[i] = stream[i]
  BY <1>1
<1>3. result = "none"
  BY <1>1 DEF IInv, StreamInv, TypeOK
<1>4. \A i \in 1 .. Len(stream') : i # Len(stream') => stream'[i] = "text"
  <2>. SUFFICES ASSUME NEW i \in 1 .. Len(stream) PROVE stream[i] = "text"
    BY <1>1, <1>2
  <2>1. CASE i # Len(stream)
    BY <2>1 DEF IInv, StreamInv
  <2>2. CASE i = Len(stream)
    BY <1>1, <2>2
  <2>. QED
    BY <2>1, <2>2
<1>5. TextsTo(read)' = TextsTo(read)
  BY <1>1, <1>2 DEF TextsTo
<1>. QED
  BY <1>1, <1>3, <1>4, <1>5 DEF StreamInv, IInv

LEMMA ReadKeepsStream ==
    ASSUME IInv, ReadEvent
    PROVE  StreamInv'
<1>. DEFINE e == stream[read + 1]
<1>1. /\ reader = "reading" /\ read < Len(stream) /\ read \in Nat /\ read' = read + 1
      /\ published' = IF e = "text" THEN published + 1 ELSE published
      /\ result' = IF e \in Results THEN e ELSE result
      /\ UNCHANGED <<stream, reader>>
  BY DEF ReadEvent, InPipe, IInv, TypeOK, agyVars
<1>2. published = Cardinality(TextsTo(read)) /\ published \in Nat
  BY <1>1 DEF IInv, StreamInv, TypeOK
<1>3. published' = Cardinality(TextsTo(read + 1))
  BY <1>1, <1>2, OneMoreText DEF IInv
<1>4. TextsTo(read)' = TextsTo(read + 1) /\ TextsTo(Len(stream))' = TextsTo(Len(stream))
  BY <1>1 DEF TextsTo
<1>5. result = "none"
  BY <1>1 DEF IInv, StreamInv, TypeOK
<1>6. ASSUME e \in Results PROVE read + 1 = Len(stream) /\ stream # <<>>
  BY <1>1, <1>6 DEF IInv, StreamInv, TypeOK, Results
<1>. QED
  BY <1>1, <1>3, <1>4, <1>5, <1>6 DEF StreamInv, IInv

LEMMA StreamNext == IInv /\ [Next]_vars => StreamInv'
<1>. SUFFICES ASSUME IInv, [Next]_vars PROVE StreamInv'
  OBVIOUS
<1>1. CASE \E e \in {"text"} \cup Results : Write(e)
  BY <1>1, WriteKeepsStream
<1>2. CASE ReadEvent
  BY <1>2, ReadKeepsStream
<1>3. CASE Sink
  <2>1. read' = Len(stream) /\ reader = "sinking" /\ UNCHANGED <<stream, reader, published, result>>
    BY <1>3 DEF Sink, SunkTo, agyVars
  <2>2. TextsTo(Len(stream))' = TextsTo(Len(stream))
    BY <2>1 DEF TextsTo
  <2>. QED
    BY <2>1, <2>2 DEF IInv, StreamInv
<1>4. ASSUME UNCHANGED <<stream, read, published, result>>, reader' # "reading" \/ reader' = reader
      PROVE  StreamInv'
  <2>1. TextsTo(Len(stream))' = TextsTo(Len(stream)) /\ TextsTo(read)' = TextsTo(read)
    BY <1>4 DEF TextsTo
  <2>. QED
    BY <1>4, <2>1 DEF IInv, StreamInv
<1>5. CASE ReadEof \/ ReadError \/ SinkFails
  BY <1>4, <1>5 DEF ReadEof, ReadError, AfterError, SinkFails, agyVars
<1>6. CASE CloseStdout \/ StartHelper \/ Detach \/ HelperExits \/ \E ok \in BOOLEAN : AgyExits(ok)
  BY <1>4, <1>6 DEF CloseStdout, StartHelper, Detach, HelperExits, AgyExits, readerVars
<1>7. CASE DrainStep
  BY <1>4, <1>7 DEF DrainStep, WaitReturns, LeavePoll, KillTree, WaitKilled, DropGuard, JoinReaders,
                    AnswerTurn, agyVars, readerVars
<1>8. CASE Cancel \/ Refuse \/ Over \/ UNCHANGED vars
  BY <1>4, <1>8 DEF Cancel, Refuse, Over, vars, agyVars, readerVars
<1>. QED
  BY <1>1, <1>2, <1>3, <1>5, <1>6, <1>7, <1>8 DEF Next, AgyStep, ReaderStep

-----------------------------------------------------------------------------
(* The drain *)

LEMMA DrainNext == IInv /\ [Next]_vars => DrainInv'
<1>. SUFFICES ASSUME IInv, [Next]_vars PROVE DrainInv'
  OBVIOUS
<1>. USE DEF IInv, DrainInv
(* Nothing that the verdict looks at changes once it has been given.       *)
<1>1. ASSUME UNCHANGED <<agy, drain, answer, wasCancelled, cancelled>>,
             reader = "done" => reader' = "done",
             drain = "answered" => UNCHANGED <<refused, exitOk, result>>
      PROVE  DrainInv'
  BY <1>1 DEF Verdict, Failed
<1>2. CASE AgyStep
  <2>1. CASE \E ok \in BOOLEAN : AgyExits(ok)
    BY <2>1 DEF AgyExits, readerVars, drainVars, flagVars
  <2>2. CASE ~\E ok \in BOOLEAN : AgyExits(ok)
    BY <1>1, <1>2, <2>2 DEF AgyStep, Write, CloseStdout, StartHelper, Detach, HelperExits,
                            readerVars, drainVars, flagVars
  <2>. QED
    BY <2>1, <2>2
<1>3. CASE ReaderStep \/ ReadError \/ SinkFails
  BY <1>1, <1>3 DEF ReaderStep, ReadEvent, ReadEof, Sink, ReadError, SinkFails,
                    agyVars, drainVars, flagVars
<1>4. CASE DrainStep
  <2>1. CASE WaitReturns \/ LeavePoll \/ WaitKilled \/ DropGuard
    BY <2>1 DEF WaitReturns, LeavePoll, WaitKilled, DropGuard, agyVars, readerVars, flagVars
  <2>2. CASE KillTree
    BY <2>2 DEF KillTree, CancelRecorded, readerVars, flagVars
  <2>3. CASE JoinReaders
    BY <2>3 DEF JoinReaders, ReadersDone, agyVars, readerVars, flagVars
  <2>4. CASE AnswerTurn
    <3>1. /\ drain = "joined" /\ drain' = "answered" /\ answer' = Verdict
          /\ UNCHANGED <<agy, exitOk, reader, result, wasCancelled, cancelled, refused>>
      BY <2>4 DEF AnswerTurn, agyVars, readerVars, flagVars
    <3>2. Verdict' = Verdict
      BY <3>1 DEF Verdict, Failed
    <3>. QED
      BY <3>1, <3>2
  <2>. QED
    BY <1>4, <2>1, <2>2, <2>3, <2>4 DEF DrainStep
<1>5. CASE Cancel
  BY <1>5 DEF Cancel, agyVars, readerVars, drainVars
<1>6. CASE Refuse
  BY <1>1, <1>6 DEF Refuse, agyVars, readerVars, drainVars
<1>7. CASE Over \/ UNCHANGED vars
  BY <1>1, <1>7 DEF Over, vars, agyVars, readerVars, drainVars, flagVars
<1>. QED
  BY <1>2, <1>3, <1>4, <1>5, <1>6, <1>7 DEF Next

LEMMA IInvHolds == Spec => []IInv
<1>1. IInv /\ [Next]_vars => IInv'
  BY TypeNext, StreamNext, DrainNext DEF IInv
<1>. QED
  BY <1>1, IInvInit, PTL DEF Spec

(* An answer of end_turn says that agy exited cleanly after a complete     *)
(* stream, and that every text of it has been sent to the client.          *)
THEOREM EndTurnEarned == Spec => []EndTurnIsEarned
<1>1. IInv => EndTurnIsEarned
  <2>. SUFFICES ASSUME IInv, answer = "end_turn"
                PROVE  /\ agy = "reaped" /\ exitOk
                       /\ stream # <<>> /\ stream[Len(stream)] = "ok"
                       /\ published = Cardinality(Texts)
    BY DEF EndTurnIsEarned
  <2>1. drain = "answered" /\ Verdict = "end_turn"
    BY DEF IInv, DrainInv
  <2>2. exitOk /\ result = "ok" /\ agy = "reaped"
    BY <2>1 DEF Verdict, Failed, IInv, DrainInv, TypeOK
  <2>3. Texts = TextsTo(Len(stream))
    BY DEF Texts, TextsTo, IInv, TypeOK
  <2>. QED
    BY <2>2, <2>3 DEF IInv, StreamInv
<1>. QED
  BY <1>1, IInvHolds, PTL

(* An agy that failed is reported as one, unless the host cancelled or the *)
(* user refused.                                                           *)
THEOREM FailureShown == Spec => []FailureIsNotHidden
<1>1. IInv => FailureIsNotHidden
  BY DEF IInv, DrainInv, FailureIsNotHidden, Verdict, Failed
<1>. QED
  BY <1>1, IInvHolds, PTL
=============================================================================
