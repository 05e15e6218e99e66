--------------------------------- MODULE Readers ---------------------------------
(***************************************************************************)
(* What reads agy's word: the rules a call is judged by (CallRules), the   *)
(* processor of its stream (StreamProcessor), the replay of its database   *)
(* (Replay) and the scanner of that database's payloads (ProtoScan), side  *)
(* by side.  They share no state but whether to skip narration; the        *)
(* properties of all four are checked and proved by the names they have    *)
(* here.                                                                   *)
(***************************************************************************)
EXTENDS CallRules

CONSTANTS
    MaxStep, MaxEvents, Thoughts,   \* those of StreamProcessor
    Deltas,                         \* its texts
    MaxRows,                        \* that of Replay
    RowTexts,                       \* its texts
    Base, LastGroup, WireTypes, Varint, Delimited, FixedSize, Bytes, Targets, MaxLength
                                    \* those of ProtoScan

(* The widths are those of bytes, groups and types, whatever their number; *)
(* a type is known by how long its fields are, or is one of the two that   *)
(* say so themselves.                                                      *)
ASSUME PayloadAssumption ==
    /\ Base \in Nat \ {0} /\ LastGroup \in Nat /\ WireTypes \in Nat \ {0}
    /\ Varint # Delimited /\ {Varint, Delimited} \cap DOMAIN FixedSize = {}
    /\ \A type \in DOMAIN FixedSize : FixedSize[type] \in Nat
    /\ Bytes \subseteq Nat

VARIABLES skip_naration, proc, client, events, rows, blob

Stream == INSTANCE StreamProcessor WITH Texts <- Deltas
Database == INSTANCE Replay WITH Texts <- RowTexts
Payload == INSTANCE ProtoScan

(* A call is announced once, before any update to it, and is never set     *)
(* back (`emit_tool`, `emit_subagent`).                                    *)
ToolCallsAreWellFormed == Stream!ToolCallsAreWellFormed

(* Of a step's text nothing but leading lines of narration is withheld     *)
(* (`emit_agent_delta`).                                                   *)
OnlyLeadingNarrationIsWithheld == Stream!OnlyLeadingNarrationIsWithheld

(* The answer is not shown again by the result, and is shown by it if no   *)
(* text has been and a line that is no narration begins in it              *)
(* (`process_result`).                                                     *)
AnswerIsShownOnce == Stream!AnswerIsShownOnce

(* A replayed conversation has each of its rows, once and in order         *)
(* (`read_replay_updates_from_db`).                                        *)
ReplayKeepsTheOrder == Database!ReplayKeepsTheOrder

(* session/load replays those steps of a turn of which its client was      *)
(* shown something (`read_replay_updates_from_db`).                        *)
ReplayShowsWhatWasShown == Stream!ReplayShowsWhatWasShown

(* The scanner finds the fields that are in a payload and no others        *)
(* (`get_proto_field`, `get_proto_fields`).                                *)
ScansByTheFormat == Payload!ScansByTheFormat
=============================================================================
