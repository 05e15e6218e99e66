-------------------------------- MODULE ProtoScan --------------------------------
(***************************************************************************)
(* The scanner of agy's step payloads (src/protobuf.rs): varints, the      *)
(* fields of a message, and the texts a step of the conversation holds.    *)
(* agy writes the blob, and nothing says that it is whole or well formed.  *)
(* Widths are parameters, and powers of two are told by what they count.   *)
(* Positions count from 1, and a scan over position i is a recursive       *)
(* function of i.                                                          *)
(*                                                                         *)
(* An operator named Mut... is a bug the model checker must notice: it is  *)
(* not part of the specification.                                          *)
(***************************************************************************)
EXTENDS Integers, Sequences, FiniteSets

CONSTANTS
    Base,                   \* the values of a group: 2^7
    LastGroup,              \* the groups before the last, which has one bit: 9
    WireTypes,              \* how many there could be: 2^3
    Varint, Delimited,      \* the wire types 0 and 2
    FixedSize,              \* bytes of the fixed ones, by wire type: 1 :> 8 @@ 5 :> 4
    Bytes,                  \* what a blob is made of
    Targets,                \* field numbers asked for
    MaxLength               \* bounds the blob in Next

VARIABLE blob

Init == blob = <<>>

Append1(byte) ==
    /\ Len(blob) < MaxLength
    /\ blob' = Append(blob, byte)

Next == \E byte \in Bytes : Append1(byte)

Spec == Init /\ [][Next]_blob

-----------------------------------------------------------------------------
None == <<>>

More(byte) == byte >= Base
Digit(byte) == byte % Base

(* The values of n groups and the last one's bit; all of them are 2^64. *)
Limit[n \in 0 .. LastGroup] == IF n = 0 THEN 2 ELSE Base * Limit[n - 1]

(* The last group has one bit left to spend. *)
MutShiftsOut(group, digit) == group > LastGroup
TooWide(group, digit) == group > LastGroup \/ (group = LastGroup /\ digit > 1)

(* What a value keeps that is shifted by so many groups. *)
Shifted(group, value) == value % Limit[LastGroup - group]

(* read_varint: <<value, position after it>> of the varint at position     *)
(* start; read[i] is what the bytes from i on add to it.                   *)
ReadVarint(buf, start) ==
    LET read[i \in start .. Len(buf) + 1] ==
          IF i > Len(buf) \/ TooWide(i - start, Digit(buf[i])) THEN None
          ELSE IF ~More(buf[i]) THEN <<Shifted(i - start, Digit(buf[i])), i + 1>>
          ELSE IF read[i + 1] = None THEN None
          ELSE <<Shifted(i - start, Digit(buf[i]) + Base * read[i + 1][1]), read[i + 1][2]>>
    IN  read[start]

(* The field at position i, by its tag: its number and wire type, where    *)
(* its payload begins and what follows it; None if it is cut short or of a *)
(* type the scanner does not know.  An end that overflows is beyond the    *)
(* blob too.                                                               *)
ReadField(buf, i) ==
    LET tag == ReadVarint(buf, i)
        type == tag[1] % WireTypes
        at == tag[2]
        len == ReadVarint(buf, at)
        Field(from, end) ==
            IF end > Len(buf) + 1 THEN None
            ELSE [number |-> tag[1] \div WireTypes, type |-> type, from |-> from, end |-> end]
    IN  IF tag = None THEN None
        ELSE IF type \in DOMAIN FixedSize THEN Field(at, at + FixedSize[type])
        ELSE IF type \notin {Varint, Delimited} \/ len = None THEN None
        ELSE IF type = Varint THEN Field(at, len[2])
        ELSE Field(len[2], len[2] + len[1])

(* get_proto_field: the first length-delimited field of that number.  It   *)
(* steps over a fixed field without a look at the end of the blob: past it *)
(* the loop ends.                                                          *)
GetProtoField(buf, target) ==
    LET scan[i \in 1 .. Len(buf) + 1] ==
          LET f == ReadField(buf, i)
          IN  IF i > Len(buf) \/ f = None THEN None
              ELSE IF f.type = Delimited /\ f.number = target
                   THEN <<SubSeq(buf, f.from, f.end - 1)>>
              ELSE scan[f.end]
    IN  scan[1]

(* get_proto_fields: the payloads of all fields of that number. *)
GetProtoFields(buf, target) ==
    LET scan[i \in 1 .. Len(buf) + 1] ==
          LET f == ReadField(buf, i)
          IN  IF i > Len(buf) \/ f = None THEN <<>>
              ELSE IF f.number = target THEN <<SubSeq(buf, f.from, f.end - 1)>> \o scan[f.end]
              ELSE scan[f.end]
    IN  scan[1]

(* get_varint_field reads the first of them, of whatever type, as a varint. *)
GetVarintField(buf, target) ==
    LET fields == GetProtoFields(buf, target)
        value == ReadVarint(fields[1], 1)
    IN  IF fields = <<>> \/ value = None THEN None ELSE <<value[1]>>

(* extract_text_from_step_payload: a message in a message. *)
Inner(buf, outer, inner) ==
    LET message == GetProtoField(buf, outer)
    IN  IF message = None THEN None ELSE GetProtoField(message[1], inner)

-----------------------------------------------------------------------------
(* The format itself, without a scan: which bytes are a varint, which are  *)
(* a field, and that a message is fields end to end.                       *)

VarintValue(buf, i, j) ==
    LET value[k \in 1 .. j] == IF k = j THEN 0 ELSE Digit(buf[k]) + Base * value[k + 1]
    IN  value[i]

(* The ends of the varint at i, of which there is at most one. *)
IsVarint(buf, i, j) ==
    /\ ~More(buf[j - 1])
    /\ \A k \in i .. j - 2 : More(buf[k])
    /\ j - 1 - i <= LastGroup
    /\ VarintValue(buf, i, j) < Limit[LastGroup]

VarintEnds(buf, i) == {j \in i + 1 .. Len(buf) + 1 : IsVarint(buf, i, j)}

(* Where a payload of that type begins and ends, if its tag ends at k. *)
Extents(buf, type, k) ==
    CASE type = Varint -> {[from |-> k, end |-> j] : j \in VarintEnds(buf, k)}
      [] type = Delimited ->
           {[from |-> m, end |-> m + VarintValue(buf, k, m)] : m \in VarintEnds(buf, k)}
      [] type \in DOMAIN FixedSize -> {[from |-> k, end |-> k + FixedSize[type]]}
      [] OTHER -> {}

(* The fields at i, of which there is at most one. *)
FieldsAt(buf, i) ==
    UNION {{[tag |-> VarintValue(buf, i, k), from |-> x.from, end |-> x.end] :
              x \in {x \in Extents(buf, VarintValue(buf, i, k) % WireTypes, k) : x.end <= Len(buf) + 1}} :
            k \in VarintEnds(buf, i)}

(* Where fields begin, up to where the blob stops to be well formed. *)
Starts(buf) ==
    LET boundary[j \in 1 .. Len(buf) + 1] ==
          j = 1 \/ \E i \in 1 .. j - 1 : boundary[i] /\ \E f \in FieldsAt(buf, i) : f.end = j
    IN  {i \in 1 .. Len(buf) : boundary[i] /\ FieldsAt(buf, i) # {}}

FieldAt(buf, i) == CHOOSE f \in FieldsAt(buf, i) : TRUE
Number(buf, i) == FieldAt(buf, i).tag \div WireTypes
Type(buf, i) == FieldAt(buf, i).tag % WireTypes
PayloadAt(buf, i) == SubSeq(buf, FieldAt(buf, i).from, FieldAt(buf, i).end - 1)

Named(buf, target) == {i \in Starts(buf) : Number(buf, i) = target}

(* All payloads of fields that begin there, in order. *)
AreAll(payloads, buf, positions) ==
    /\ Len(payloads) = Cardinality(positions)
    /\ \A i \in positions : payloads[Cardinality({j \in positions : j <= i})] = PayloadAt(buf, i)

(* The first of them.                                                      *)
Least(positions) == CHOOSE i \in positions : \A j \in positions : i <= j

FirstText(buf, target) ==
    LET texts == {i \in Named(buf, target) : Type(buf, i) = Delimited}
    IN  IF texts = {} THEN None ELSE <<PayloadAt(buf, Least(texts))>>

(* The scanner finds the fields that are there and no others, however the  *)
(* blob is torn, overlong or out of range, and the one search agrees with  *)
(* the other; a text in a message in a message is found by its path.       *)
ScansByTheFormat ==
    \A target \in Targets :
        LET named == Named(blob, target)
            bytes == PayloadAt(blob, Least(named))
            message == FirstText(blob, target)
        IN  /\ AreAll(GetProtoFields(blob, target), blob, named)
            /\ GetProtoField(blob, target) = message
            /\ named # {} /\ Type(blob, Least(named)) = Varint =>
                 GetVarintField(blob, target) = <<VarintValue(bytes, 1, Len(bytes) + 1)>>
            /\ \A inner \in Targets :
                 Inner(blob, target, inner) =
                     IF message = None THEN None ELSE FirstText(message[1], inner)
=============================================================================
