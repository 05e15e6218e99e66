--------------------------------- MODULE Replay ---------------------------------
(***************************************************************************)
(* session/load: the transcript of agy's conversation database             *)
(* (read_replay_updates_from_db in src/db.rs, filter_narration in          *)
(* src/adapter.rs).  A row is a step of the conversation with what could   *)
(* be read of its payload.  The SQLite query, which yields the rows in the *)
(* order of their indexes, is external.                                    *)
(*                                                                         *)
(* A text is a sequence of pieces, told by what is_narration looks for:    *)
(* the "I" that may open a line of narration, the "will" that makes it     *)
(* one, the "break" of a line, and any "other" piece of a line.  A text    *)
(* may be cut between any two of them, and joining two texts adds no       *)
(* break: what follows an unfinished line is the rest of that line.        *)
(*                                                                         *)
(* A loop over a list is a function of how much of it has been taken.      *)
(*                                                                         *)
(* An operator named Mut... is a bug the model checker must notice: it is  *)
(* not part of the specification.                                          *)
(***************************************************************************)
EXTENDS Naturals, Sequences, FiniteSets

CONSTANTS
    Texts,          \* the texts a row may hold
    MaxRows         \* bounds the conversation in Next

VARIABLES
    skip_naration,
    rows

vars == <<skip_naration, rows>>

Blank(text) == \A k \in DOMAIN text : text[k] = "break"

(* Where a line that is not blank begins. *)
LineStarts(text) ==
    {k \in DOMAIN text : text[k] # "break" /\ (k = 1 \/ text[k - 1] = "break")}

OpensNarration(text, k) == text[k] = "I" /\ k < Len(text) /\ text[k + 1] = "will"

(* Every line of it begins with "I will", blank lines left out. *)
Narration(text) == ~Blank(text) /\ \A k \in LineStarts(text) : OpensNarration(text, k)

(* Step types 14, 15, those of tools, and the others; `text` is what       *)
(* extract_user_text..., extract_text... and extract_tool_update... find   *)
(* in the payload, empty if nothing.                                       *)
RowTypes == {"user", "agent", "tool", "other"}

Init ==
    /\ skip_naration \in BOOLEAN
    /\ rows = <<>>

AddRow(type, text) ==
    /\ Len(rows) < MaxRows
    /\ rows' = Append(rows, [type |-> type, text |-> text])
    /\ UNCHANGED skip_naration

Next == \E type \in RowTypes, text \in Texts : AddRow(type, text)

Spec == Init /\ [][Next]_vars

-----------------------------------------------------------------------------
(* read_replay_updates_from_db.  A message is kept as its parts, which the *)
(* code joins with line breaks.                                            *)

MutFiltersAlways(parts) == SelectSeq(parts, LAMBDA text : ~Narration(text))
Filtered(parts) ==
    LET filter[n \in 0 .. Len(parts)] ==
          IF n = 0 THEN <<>>
          ELSE IF skip_naration /\ Narration(parts[n]) THEN filter[n - 1]
          ELSE Append(filter[n - 1], parts[n])
    IN  filter[Len(parts)]

FlushAgentMessage(acc) ==
    [parts |-> <<>>,
     updates |-> IF Filtered(acc.parts) = <<>> THEN acc.updates
                 ELSE Append(acc.updates, [role |-> "agent", parts |-> Filtered(acc.parts)])]

Shown(acc, row) ==
    IF row.text = <<>> THEN acc
    ELSE [acc EXCEPT !.updates = Append(@, [role |-> row.type, parts |-> <<row.text>>])]

MutToolsDoNotFlush(acc, row) ==
    CASE row.type = "user" -> Shown(FlushAgentMessage(acc), row)
      [] row.type = "tool" -> Shown(acc, row)
      [] row.type = "agent" /\ row.text # <<>> -> [acc EXCEPT !.parts = Append(@, row.text)]
      [] OTHER -> acc
ReplayRow(acc, row) ==
    CASE row.type \in {"user", "tool"} -> Shown(FlushAgentMessage(acc), row)
      [] row.type = "agent" /\ row.text # <<>> -> [acc EXCEPT !.parts = Append(@, row.text)]
      [] OTHER -> acc

Replayed(conversation) ==
    LET read[n \in 0 .. Len(conversation)] ==
          IF n = 0 THEN [parts |-> <<>>, updates |-> <<>>]
          ELSE ReplayRow(read[n - 1], conversation[n])
    IN  FlushAgentMessage(read[Len(conversation)]).updates

-----------------------------------------------------------------------------
(* A replayed transcript as one line per part. *)
LinesOf(update) == [j \in DOMAIN update.parts |-> [role |-> update.role, text |-> update.parts[j]]]

Lines(updates) ==
    LET lines[n \in 0 .. Len(updates)] ==
          IF n = 0 THEN <<>> ELSE lines[n - 1] \o LinesOf(updates[n])
    IN  lines[Len(updates)]

(* What of a row a reader of the conversation would expect to see. *)
Visible(row) ==
    /\ row.type # "other" /\ row.text # <<>>
    /\ ~(row.type = "agent" /\ skip_naration /\ Narration(row.text))

(* The lines are those rows, each once and in order. *)
Tells(lines, conversation, positions) ==
    /\ Len(lines) = Cardinality(positions)
    /\ \A i \in positions :
         lines[Cardinality({j \in positions : j <= i})] =
             [role |-> conversation[i].type, text |-> conversation[i].text]

(* Messages are put together across rows, and are flushed by what comes    *)
(* between them: the transcript still has every row, once and in order,    *)
(* narration left out if that was asked for, and no message is empty.      *)
ReplayKeepsTheOrder ==
    /\ Tells(Lines(Replayed(rows)), rows, {i \in DOMAIN rows : Visible(rows[i])})
    /\ \A i \in DOMAIN Replayed(rows) : Replayed(rows)[i].parts # <<>>
=============================================================================
