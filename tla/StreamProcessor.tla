---------------------------- MODULE StreamProcessor ----------------------------
(***************************************************************************)
(* What the client is shown of a turn (src/streaming.rs): agy's stream of  *)
(* events becomes message chunks, thought chunks and tool calls.  agy      *)
(* numbers the steps of a conversation; nothing says that their events     *)
(* come in order, once, or at all.  An action is one line of the stream; a *)
(* line that does not parse, and an event of no known kind, changes        *)
(* nothing.  The id of the conversation, which the first event to name one *)
(* binds, is part of SessionStore.                                         *)
(*                                                                         *)
(* An operator named Mut... is a bug the model checker must notice: it is  *)
(* not part of the specification.                                          *)
(***************************************************************************)
EXTENDS Integers, Sequences, FiniteSets, SequencesExt

CONSTANTS
    MaxStep,        \* bounds the steps agy numbers
    Texts,          \* text deltas and responses, as sequences of pieces (see Replay)
    Thoughts,       \* thought deltas, and what a thinking tool says
    MaxEvents       \* bounds the stream in Next

VARIABLES
    skip_naration,
    proc,           \* StreamProcessor
    client,         \* what the client was sent of each step
    events          \* lines read, counted

vars == <<skip_naration, proc, client, events>>

Steps == 0 .. MaxStep

(* A step_update without an index counts as step -1. *)
Indexes == Steps \cup {-1}

OfEachStep(v) == [s \in Indexes |-> v]

Init ==
    /\ skip_naration \in BOOLEAN
    /\ proc = [last_step_idx |-> -1, saw_result |-> FALSE, had_updates |-> FALSE,
               agent_text |-> OfEachStep(<<>>), thought_text |-> OfEachStep(<<>>),
               started_tools |-> {}, emitted_agent_text |-> FALSE]
    /\ client = [text |-> OfEachStep(<<>>), thought |-> OfEachStep(<<>>), calls |-> OfEachStep(<<>>)]
    /\ events = 0

(* agy's own record of the turn: a row for each step that said something. *)
Stored == [i \in 1 .. MaxStep + 1 |-> [type |-> "agent", text |-> proc.agent_text[i - 1]]]
Db == INSTANCE Replay WITH rows <- Stored, MaxRows <- MaxStep + 1

-----------------------------------------------------------------------------
(* The parts of process_step: each takes the processor and the client and  *)
(* gives them back.                                                        *)

Send(st, field, s, what) ==
    [p |-> [st.p EXCEPT !.had_updates = TRUE],
     c |-> [st.c EXCEPT ![field][s] = what]]

(* Text that is narration so far is passed over; agent_emitted is then the *)
(* whole of what came, as it is after a chunk.                             *)
MutTakesHiddenForShown(st, s, delta) ==
    LET text == st.p.agent_text[s] \o delta
        got == [st EXCEPT !.p.agent_text[s] = text, !.p.emitted_agent_text = TRUE]
    IN  IF skip_naration /\ Db!Narration(text) THEN got
        ELSE Send(got, "text", s, st.c.text[s] \o delta)
MutJudgesTheDelta(st, s, delta) ==
    LET got == [st EXCEPT !.p.agent_text[s] = @ \o delta]
    IN  IF skip_naration /\ Db!Narration(delta) THEN got
        ELSE Send([got EXCEPT !.p.emitted_agent_text = TRUE], "text", s, st.c.text[s] \o delta)
EmitAgentDelta(st, s, delta) ==
    LET text == st.p.agent_text[s] \o delta
        got == [st EXCEPT !.p.agent_text[s] = text]
    IN  IF skip_naration /\ Db!Narration(text) THEN got
        ELSE Send([got EXCEPT !.p.emitted_agent_text = TRUE], "text", s, st.c.text[s] \o delta)

EmitThoughtDelta(st, s, delta) ==
    Send([st EXCEPT !.p.thought_text[s] = @ \o delta], "thought", s, st.c.thought[s] \o delta)

(* A thinking tool repeats its thought from the beginning in every event. *)
EmitThoughtSnapshot(st, s, text) ==
    LET already == st.p.thought_text[s]
    IN  IF IsPrefix(already, text) /\ text # already
        THEN EmitThoughtDelta(st, s, SubSeq(text, Len(already) + 1, Len(text)))
        ELSE st

Status(tool, done) ==
    IF tool.error THEN "failed" ELSE IF done THEN "completed" ELSE "in_progress"

Call(update, status) == [update |-> update, status |-> status]

EmitTool(st, s, tool, done) ==
    IF tool.think /\ tool.thought # <<>> THEN EmitThoughtSnapshot(st, s, tool.thought)
    ELSE IF (tool.think /\ ~done) \/ (s \in st.p.started_tools /\ ~done) THEN st
    ELSE LET update == IF s \in st.p.started_tools THEN "tool_call_update" ELSE "tool_call"
         IN  Send([st EXCEPT !.p.started_tools = @ \cup {s}], "calls", s,
                  Append(st.c.calls[s], Call(update, Status(tool, done))))

(* A subagent is announced as a call that is complete, unless the step has *)
(* been announced already.                                                 *)
MutAnnouncesAgain(st, s) ==
    Send([st EXCEPT !.p.started_tools = @ \cup {s}], "calls", s,
         Append(st.c.calls[s], Call("tool_call", "completed")))
EmitSubagent(st, s) ==
    IF s \in st.p.started_tools THEN st
    ELSE Send([st EXCEPT !.p.started_tools = @ \cup {s}], "calls", s,
              Append(st.c.calls[s], Call("tool_call", "completed")))

-----------------------------------------------------------------------------
(* Events.  A step_update may carry a text, a thought, a tool and a        *)
(* subagent at once; they are dealt with in this order.                    *)

NoTool == [think |-> FALSE, thought |-> <<>>, error |-> FALSE]

Tools ==
    {[NoTool EXCEPT !.error = e] : e \in BOOLEAN} \cup
    {[NoTool EXCEPT !.think = TRUE, !.thought = t] : t \in Thoughts \cup {<<>>}}

(* Types of steps: is_thought_step, should_emit_agent_text, "tool", and    *)
(* those whose text is not shown.                                          *)
StepTypes == {"agent", "thinking", "tool", "muted"}

Plain == [type |-> "agent", text |-> <<>>, thought |-> <<>>, tool |-> NoTool,
          calls |-> FALSE, subagent |-> FALSE, done |-> FALSE]

Says(type, text) == [Plain EXCEPT !.type = type, !.text = text]
Thinks(thought) == [Plain EXCEPT !.thought = thought]
Uses(tool, done) == [Plain EXCEPT !.type = "tool", !.calls = TRUE, !.tool = tool, !.done = done]
Delegates(calls) == [Plain EXCEPT !.calls = calls, !.subagent = TRUE]
SaysAndCalls(text) == [Plain EXCEPT !.calls = TRUE, !.text = text, !.done = TRUE]

(* Each kind of event on its own, and those a step is likely to combine. *)
StepUpdates ==
    {Says("agent", t) : t \in Texts} \cup
    {Says(y, t) : y \in {"thinking", "muted"}, t \in Thoughts} \cup
    {Thinks(t) : t \in Thoughts} \cup
    {Uses(t, d) : t \in Tools, d \in BOOLEAN} \cup
    {Delegates(c) : c \in BOOLEAN} \cup
    {SaysAndCalls(t) : t \in Texts}

OnText(st, s, e) ==
    CASE e.text = <<>> -> st
      [] e.text # <<>> /\ e.type = "thinking" -> EmitThoughtDelta(st, s, e.text)
      [] e.text # <<>> /\ e.type = "agent" -> EmitAgentDelta(st, s, e.text)
      [] OTHER -> st

OnThought(st, s, e) == IF e.thought = <<>> THEN st ELSE EmitThoughtDelta(st, s, e.thought)

OnTool(st, s, e) ==
    IF e.type = "tool" \/ e.calls THEN EmitTool(st, s, e.tool, e.done) ELSE st

OnSubagent(st, s, e) == IF e.subagent THEN EmitSubagent(st, s) ELSE st

Later(a, b) == IF a >= b THEN a ELSE b

Becomes(st) == proc' = st.p /\ client' = st.c

NextLine ==
    /\ events < MaxEvents
    /\ events' = events + 1
    /\ UNCHANGED skip_naration

ProcessStep(s, e) ==
    /\ NextLine
    /\ LET st == [p |-> [proc EXCEPT !.last_step_idx = Later(@, s)], c |-> client]
       IN  Becomes(OnSubagent(OnTool(OnThought(OnText(st, s, e), s, e), s, e), s, e))

(* The answer comes once more at the end; it is the fallback of a stream   *)
(* that showed none of it.                                                 *)
ProcessResult(response) ==
    /\ NextLine
    /\ LET st == [p |-> [proc EXCEPT !.saw_result = TRUE], c |-> client]
       IN  IF response = <<>> \/ proc.emitted_agent_text THEN Becomes(st)
           ELSE Becomes(EmitAgentDelta(st, Later(proc.last_step_idx, 0), response))

Next ==
    \/ \E s \in Indexes, e \in StepUpdates : ProcessStep(s, e)
    \/ \E response \in Texts \cup {<<>>} : ProcessResult(response)

Spec == Init /\ [][Next]_vars

-----------------------------------------------------------------------------
(* A call is announced once, before any update to it, and nothing sets it  *)
(* back to be in progress, whatever agy repeats or says out of order, and  *)
(* whichever of a tool and a subagent comes first for a step.              *)
ToolCallsAreWellFormed ==
    \A s \in Indexes : \A i \in DOMAIN client.calls[s] :
        /\ (client.calls[s][i].update = "tool_call") <=> (i = 1)
        /\ i > 1 => client.calls[s][i].status # "in_progress"

(* What is left of a text without the hidden pieces, once and in order.    *)
IsRest(shown, text, hidden) ==
    LET kept == (1 .. Len(text)) \ hidden
    IN  /\ Len(shown) = Cardinality(kept)
        /\ \A i \in kept : shown[Cardinality({j \in kept : j <= i})] = text[i]

(* Lines of narration before any other line may be missing, if that was    *)
(* asked for.                                                              *)
ShownOf(text, shown) ==
    \E hidden \in SUBSET (1 .. Len(text)) :
        /\ hidden # {} => skip_naration
        /\ \A i \in hidden : \A k \in Db!LineStarts(text) : k <= i => Db!OpensNarration(text, k)
        /\ IsRest(shown, text, hidden)

(* All that is ever withheld of a step's text, and only if asked for, is   *)
(* of the lines of narration that come before any other line               *)
(* (README.md:25); the rest is shown, once and in order, wherever agy cuts *)
(* it into chunks.                                                         *)
OnlyLeadingNarrationIsWithheld ==
    \A s \in Indexes : ShownOf(proc.agent_text[s], client.text[s])

HasAnswered(c) == \E s \in Indexes : c.text[s] # <<>>

LeftOpen(text) == text # <<>> /\ text[Len(text)] # "break"

(* A line that is no narration begins in the response.  When the response  *)
(* is put after a text that was left open, its first line is the rest of   *)
(* that text's last line, and does not count.                              *)
Answers(response, text) ==
    \E k \in Db!LineStarts(response) :
        (k > 1 \/ ~LeftOpen(text)) /\ ~Db!OpensNarration(response, k)

(* The result repeats the answer: a client that has seen some text of the  *)
(* turn is sent nothing.  One that has seen none, as when all that was     *)
(* streamed has been withheld, is shown the answer now if a line that is   *)
(* no narration begins in it, judged as streaming.rs:188-197 judges it:    *)
(* joined to what the last step has, with no line break between them.      *)
AnswerIsShownOnce ==
    [][\A response \in Texts : ProcessResult(response) =>
         /\ HasAnswered(client) => client' = client
         /\ ~skip_naration \/ Answers(response, proc.agent_text[Later(proc.last_step_idx, 0)])
              => HasAnswered(client')]_vars

(* Nothing but line breaks, or what was shown when all that had come of a  *)
(* line was its "I".                                                       *)
MayBeNarration(shown) == Db!Blank(shown) \/ shown[Len(shown)] = "I"

(* session/load replays a turn in the order of its steps.  The client was  *)
(* shown some of each step that is replayed, and of each that is left out  *)
(* nothing but what may have been the beginning of a narration.            *)
ReplayShowsWhatWasShown ==
    \E told \in SUBSET DOMAIN Stored :
        /\ \A i \in DOMAIN Stored :
             IF i \in told THEN client.text[i - 1] # <<>> ELSE MayBeNarration(client.text[i - 1])
        /\ Db!Tells(Db!Lines(Db!Replayed(Stored)), Stored, told)
=============================================================================
