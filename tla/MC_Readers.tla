------------------------------- MODULE MC_Readers -------------------------------
(* Instances of what reads agy's word: a command line (CallRules), the       *)
(* stream of events (StreamProcessor), the rows of its database (Replay) and *)
(* their payloads (ProtoScan).  A behaviour is one of the four; the others   *)
(* stay as they began.                                                       *)
EXTENDS Readers, TLC

VARIABLE reader

MCDeltas == {<<"other">>, <<"break">>, <<"I">>, <<"will">>, <<"I", "will">>,
             <<"I", "will", "break">>}
MCThoughts == {<<"x">>, <<"x", "y">>}
MCRowTexts == {<<>>, <<"other">>, <<"I", "will">>, <<"I", "will", "break", "other">>}

(* Two groups, of three bits and of one: the overflow of the second is the *)
(* overflow of the tenth in the code.                                      *)
MCBytes == {0, 1, 2, 4, 6, 9, 10, 15}
MCFixedSize == 1 :> 2

others == <<skip_naration, proc, client, events, rows, blob>>

(* Any other string beside a command line, a url or not, leaves nothing to *)
(* remember but the call itself: one of them is enough.                    *)
ReadersInit ==
    /\ reader \in {"command", "stream", "rows", "payload"}
    /\ Init /\ Stream!Init /\ Database!Init /\ Payload!Init
    /\ verdict = "reading" => args.other # "url"
    /\ reader # "command" => tool = "view_file" /\ args = CHOOSE c \in Calls : ~c.command
    /\ reader \notin {"stream", "rows"} => ~skip_naration

ReadCommand == reader = "command" /\ Next /\ UNCHANGED <<reader, others>>
ReadStream == reader = "stream" /\ Stream!Next /\ UNCHANGED <<reader, vars, rows, blob>>
ReadRows ==
    /\ reader = "rows" /\ Database!Next
    /\ UNCHANGED <<reader, vars, proc, client, events, blob>>
ReadPayload ==
    /\ reader = "payload" /\ Payload!Next
    /\ UNCHANGED <<reader, vars, skip_naration, proc, client, events, rows>>

ReadersNext == ReadCommand \/ ReadStream \/ ReadRows \/ ReadPayload

ReadersSpec == ReadersInit /\ [][ReadersNext]_<<reader, vars, others>>
=============================================================================
