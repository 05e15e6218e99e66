------------------------------- MODULE CallRules -------------------------------
(***************************************************************************)
(* Which calls run without asking (src/permission/safe_command.rs,         *)
(* sticky_rules.rs, path_rules.rs and the checks of src/permission.rs), in *)
(* a session that has already answered "always" to every program the       *)
(* classifier knows and to every tool: what is left to stop a call is how  *)
(* wide such an answer reaches, and containment.                           *)
(*                                                                         *)
(* A string is kept as what the rules and the programs can tell of it, a   *)
(* token of a command line as its parts.  The command line is itself a     *)
(* string argument that containment sees; this can only make a call ask,   *)
(* and is left out.  The call itself has not been answered before: a scope *)
(* that is this very call matches nothing remembered.  The workspace is    *)
(* known, as it is set before agy is spawned (adapter.rs:868).             *)
(*                                                                         *)
(* An operator named Mut... is a bug the model checker must notice: it is  *)
(* not part of the specification.                                          *)
(***************************************************************************)
EXTENDS Integers, Sequences, FiniteSets

CONSTANTS
    Absent,         \* an argument or a value that is not there
    AutoTools,      \* AutoAllowPolicy.tools
    PathArgs,       \* what a path field may hold
    OtherArgs,      \* what any other field may hold
    MaxTokens       \* tokens after the program's name

VARIABLES
    tool, args,     \* the call
    program,        \* ProgramDef of the command being read
    seen,           \* the tokens read so far
    operands,       \* Parser.operands, counted
    paths,          \* Parser.paths
    sawPattern,     \* Parser.saw_pattern_flag
    verdict,        \* of `classify`
    decision        \* of `decide`

call == <<tool, args>>
parser == <<program, operands, paths, sawPattern>>
vars == <<call, parser, seen, verdict, decision>>

-----------------------------------------------------------------------------
(* Strings. *)

(* A plain name, one behind a symlink that leaves the workspace, `..` that *)
(* leaves and that stays, an absolute path inside and outside, `~`, and a  *)
(* plain name of something sensitive.                                      *)
Paths == {"name", "link", "up", "upin", "abs", "far", "home", "secret"}

ASSUME RulesAssumption ==
    /\ PathArgs \subseteq Paths
    /\ OtherArgs \subseteq Paths \cup {"url"}
    /\ MaxTokens \in Nat

(* What may follow a flag or stand alone: a path, `+format`, `a=b`, an     *)
(* option taken for a value, `-`, and what the shell would interpret.      *)
Texts == Paths \cup {"format", "assign", "option", "dash", "bad"}

(* What is not there is no string. *)
ASSUME AbsentAssumption == Absent \notin Texts

(* What the file system makes of it, seen from the workspace. *)
Inside == {"name", "upin", "abs", "secret", "format", "option"}
IsSensitive(text) == text = "secret"

(* `outside_workspace`: whatever its field, a string is judged by its      *)
(* shape; a path field is judged whatever its shape.                       *)
Shaped == {"abs", "far", "home", "up", "upin"}
MutJudgesShapes(strings, pathFields) == \E s \in strings \cap Shaped : s \notin Inside
OutsideWorkspace(strings, pathFields) ==
    \E s \in (strings \cap Shaped) \cup pathFields : s \notin Inside

-----------------------------------------------------------------------------
(* The programs: one for each shape of entry of the table, and for each    *)
(* shape of flag.  arity, value_is_path and attached_only are a flag's;    *)
(* a letter is its short form, a word its long one.                        *)
Flag(arity, path, attached) == [arity |-> arity, path |-> path, attached |-> attached]
Switch == Flag(0, FALSE, FALSE)
Valued == Flag(1, FALSE, FALSE)
PathValued == Flag(1, TRUE, FALSE)
AttachedOnly == Flag(1, FALSE, TRUE)

Flags ==
    [ls    |-> [l |-> Switch, color |-> AttachedOnly],
     cat   |-> [n |-> Switch],
     head  |-> [n |-> Valued, lines |-> Valued],
     pwd   |-> [l |-> Switch],
     date  |-> [u |-> Switch, I |-> AttachedOnly, z |-> Valued],
     which |-> [l |-> Switch],
     grep  |-> [l |-> Switch, e |-> Valued, f |-> PathValued, label |-> Valued]]

Program(policy, min, max, patternFirst) ==
    [operands |-> policy, min |-> min, max |-> max, patternFirst |-> patternFirst]

NoMax == MaxTokens
Programs ==
    [ls    |-> Program("Paths", 0, NoMax, FALSE),
     cat   |-> Program("Paths", 1, NoMax, FALSE),
     head  |-> Program("Paths", 1, NoMax, FALSE),
     pwd   |-> Program("Paths", 0, 0, FALSE),
     date  |-> Program("Formats", 0, NoMax, FALSE),
     which |-> Program("Names", 0, NoMax, FALSE),
     grep  |-> Program("Paths", 0, NoMax, TRUE)]

-----------------------------------------------------------------------------
(* Tokens of a command line. *)

Word(text) == [kind |-> "word", text |-> text]
Long(name, value) == [kind |-> "long", name |-> name, value |-> value]
Cluster(letters, rest) == [kind |-> "short", letters |-> letters, rest |-> rest]
DoubleDash == [kind |-> "dashdash", text |-> "option"]

Tokens ==
    {Word(t) : t \in {"name", "link", "far", "secret", "format", "assign", "dash", "bad"}}
    \cup {DoubleDash}
    \cup {Long(n, v) : n \in {"color", "lines", "label", "nosuch"}, v \in {Absent, "far"}}
    \cup {Cluster(ls, r) : ls \in {<<"l">>, <<"n">>, <<"e">>, <<"f">>, <<"I">>, <<"u">>,
                                   <<"l", "f">>, <<"e", "l">>},
                           r \in {Absent, "far"}}

IsFlag(token) == token.kind \in {"long", "short"}

(* A token taken whole, as the value of the flag before it. *)
TextOf(token) == IF IsFlag(token) THEN "option" ELSE token.text

ValidWord(text) == text \notin {"assign", "dash", "bad"}
ValidValue(text) == text \notin {"dash", "bad"}

Known(name) == name \in DOMAIN Flags[program]
FlagOf(name) == Flags[program][name]

(* What a flag token needs: nothing more, the value attached to it, the    *)
(* next token, or it cannot be read.                                       *)
Nothing == [needs |-> "nothing"]
Refused == [needs |-> "refused"]
Attached(name, value) == [needs |-> "attached", name |-> name, value |-> value]
NextToken(name) == [needs |-> "next", name |-> name]

MutTakesTheNext(name, value) ==
    IF value # Absent THEN Attached(name, value) ELSE NextToken(name)
TakesValue(name, value) ==
    IF value # Absent THEN Attached(name, value)
    ELSE IF FlagOf(name).attached THEN Refused
    ELSE NextToken(name)

LongFlag(token) ==
    IF ~Known(token.name) THEN Refused
    ELSE IF FlagOf(token.name).arity = 1 THEN TakesValue(token.name, token.value)
    ELSE IF token.value = Absent THEN Nothing
    ELSE Refused

(* The letters are read one by one until one takes a value: what is left   *)
(* of the token is that value.                                             *)
ShortCluster(token) ==
    LET n == Len(token.letters)
        stops == {i \in 1 .. n : ~Known(token.letters[i]) \/ FlagOf(token.letters[i]).arity = 1}
        first == CHOOSE i \in stops : \A j \in stops : i <= j
    IN  IF stops = {}
        THEN IF token.rest = Absent THEN Nothing ELSE Refused
        ELSE IF ~Known(token.letters[first]) THEN Refused
        ELSE TakesValue(token.letters[first], IF first < n THEN "option" ELSE token.rest)

ReadFlag(token) ==
    CASE token.kind = "long" -> LongFlag(token)
      [] token.kind = "short" -> ShortCluster(token)
      [] OTHER -> Refused

-----------------------------------------------------------------------------
(* The call. *)

Kind == [view_file |-> "read", read_url_content |-> "read", write_to_file |-> "edit",
         grep_search |-> "search", search_web |-> "fetch", run_command |-> "execute",
         schedule |-> "other"]

(* A path field (Cwd, for a command), some other field, and whether there  *)
(* is a CommandLine.                                                       *)
Calls ==
    [path : PathArgs \cup {Absent}, other : OtherArgs \cup {Absent}, command : BOOLEAN]

Strings == {args.path, args.other} \ {Absent, "url"}
PathFields == {args.path} \ {Absent}

Init ==
    /\ tool \in DOMAIN Kind
    /\ args \in Calls
    /\ IF Kind[tool] = "execute" /\ args.command
       THEN program \in DOMAIN Programs /\ verdict = "reading"
       ELSE program = Absent /\ verdict = "none"
    /\ seen = <<>>
    /\ operands = 0
    /\ paths = {}
    /\ sawPattern = FALSE
    /\ decision = "none"

-----------------------------------------------------------------------------
(* `classify`, token by token. *)

Reads(tokens) ==
    /\ Len(seen) + Len(tokens) <= MaxTokens
    /\ seen' = seen \o tokens
    /\ UNCHANGED <<call, program, decision>>

(* Nothing can be told of the command, and nothing of it is kept. *)
GivesUp ==
    /\ verdict' = "unclassified"
    /\ program' = Absent /\ seen' = <<>>
    /\ operands' = 0 /\ paths' = {} /\ sawPattern' = FALSE
    /\ UNCHANGED <<call, decision>>

(* flag_value: -e and -f say where the pattern comes from, -f names a file. *)
AddValue(name, value) ==
    /\ sawPattern' = (sawPattern \/ name \in {"e", "f"})
    /\ paths' = IF FlagOf(name).path THEN paths \cup {value} ELSE paths
    /\ UNCHANGED <<verdict, operands>>

SwitchToken(token) ==
    /\ IsFlag(token) /\ ReadFlag(token).needs = "nothing"
    /\ Reads(<<token>>)
    /\ UNCHANGED <<verdict, operands, paths, sawPattern>>

AttachedValue(token) ==
    /\ IsFlag(token) /\ ReadFlag(token).needs = "attached"
    /\ LET value == ReadFlag(token).value IN
         IF ValidValue(value)
         THEN Reads(<<token>>) /\ AddValue(ReadFlag(token).name, value)
         ELSE GivesUp

(* The next token is the value, whatever it looks like. *)
SeparateValue(token) ==
    /\ IsFlag(token) /\ ReadFlag(token).needs = "next"
    /\ \E next \in Tokens :
         IF ValidValue(TextOf(next))
         THEN Reads(<<token, next>>) /\ AddValue(ReadFlag(token).name, TextOf(next))
         ELSE GivesUp

(* The line ends where a value was due. *)
MissingValue(token) ==
    /\ IsFlag(token) /\ ReadFlag(token).needs = "next"
    /\ GivesUp

Refuses(token) ==
    IF IsFlag(token) THEN ReadFlag(token).needs = "refused"
    ELSE token = DoubleDash \/ ~ValidWord(token.text)

RefusedToken(token) == Refuses(token) /\ GivesUp

Operand(token) ==
    /\ token.kind = "word" /\ ValidWord(token.text)
    /\ LET policy == Programs[program].operands IN
         IF policy = "Formats" /\ token.text # "format"
         THEN GivesUp
         ELSE /\ Reads(<<token>>)
              /\ operands' = operands + 1
              /\ paths' = IF policy = "Paths" THEN paths \cup {token.text} ELSE paths
              /\ UNCHANGED <<verdict, sawPattern>>

(* finish: too many operands, or none where that means reading stdin. *)
Files == IF sawPattern THEN operands ELSE operands - 1

Countable ==
    LET p == Programs[program] IN
    /\ operands <= p.max
    /\ IF p.patternFirst THEN Files > 0 ELSE operands >= p.min

Finish ==
    IF Countable
    THEN verdict' = "safe" /\ UNCHANGED <<call, parser, seen, decision>>
    ELSE GivesUp

Classify ==
    /\ verdict = "reading"
    /\ \/ Finish
       \/ \E token \in Tokens :
             \/ SwitchToken(token) \/ AttachedValue(token) \/ SeparateValue(token)
             \/ MissingValue(token) \/ RefusedToken(token) \/ Operand(token)

-----------------------------------------------------------------------------
(* `decide`. *)

KeyedByTool == {"read", "edit", "search"}
HasUnconstrainedReach == args.command \/ args.other = "url"

(* sticky_scope: an "always" covers a program, a tool, or this very call. *)
Scope ==
    IF verdict = "safe" /\ args.other = Absent THEN "program"
    ELSE IF Kind[tool] \notin KeyedByTool \/ HasUnconstrainedReach THEN "fingerprint"
    ELSE "tool"

EscapesContainment ==
    OutsideWorkspace(Strings, PathFields) \/ \E s \in Strings : IsSensitive(s)

(* The paths of a command are judged as path fields, a relative one from   *)
(* Cwd, which is inside or the call escapes already.                       *)
ClassifiedPathsEscape ==
    /\ paths # {}
    /\ \/ args.path = Absent
       \/ OutsideWorkspace(paths, paths)
       \/ \E p \in paths : IsSensitive(p)

AutoAllowed == tool \in AutoTools /\ ~EscapesContainment
Remembered ==
    Scope # "fingerprint" /\ ~EscapesContainment /\ ~(verdict = "safe" /\ ClassifiedPathsEscape)

Decide ==
    /\ verdict # "reading" /\ decision = "none"
    /\ decision' = IF AutoAllowed \/ Remembered THEN "unasked" ELSE "ask"
    /\ UNCHANGED <<call, parser, seen, verdict>>

Next == Classify \/ Decide

Spec == Init /\ [][Next]_vars

-----------------------------------------------------------------------------
(* What a call does, by what getopt and the tools do with it.              *)

(* Where options end, and which tokens are the values of those before.     *)
TakesNext(token) ==
    LET takes(name) == Known(name) /\ FlagOf(name).arity = 1
        last(ls) == ls[Len(ls)]
    IN  CASE token.kind = "long" ->
               takes(token.name) /\ ~FlagOf(token.name).attached /\ token.value = Absent
          [] token.kind = "short" ->
               /\ takes(last(token.letters)) /\ ~FlagOf(last(token.letters)).attached
               /\ token.rest = Absent
               /\ \A i \in 1 .. Len(token.letters) - 1 : ~takes(token.letters[i])
          [] OTHER -> FALSE

IsValue ==
    LET value[i \in 0 .. Len(seen)] == i > 1 /\ ~value[i - 1] /\ TakesNext(seen[i - 1])
    IN  {i \in 1 .. Len(seen) : value[i]}

IsOperand ==
    LET ended(i) == \E j \in 1 .. i - 1 : seen[j].kind = "dashdash" /\ j \notin IsValue
    IN  {i \in (1 .. Len(seen)) \ IsValue : seen[i].kind = "word" \/ ended(i)}

Gives(i, name) ==
    /\ i \notin IsValue \cup IsOperand
    /\ seen[i].kind = "short" /\ Known(name)
    /\ \E k \in 1 .. Len(seen[i].letters) :
         /\ seen[i].letters[k] = name
         /\ \A j \in 1 .. k - 1 : FlagOf(seen[i].letters[j]).arity = 0

(* The files of -f. *)
FlagFiles ==
    {IF i + 1 \in IsValue THEN TextOf(seen[i + 1]) ELSE seen[i].rest :
       i \in {i \in 1 .. Len(seen) : Gives(i, "f") /\ FlagOf("f").path}}

(* The operands that name files: all but the pattern. *)
FileOperands ==
    IF Programs[program].operands # "Paths" THEN {}
    ELSE IF Programs[program].patternFirst /\ ~ \E i \in 1 .. Len(seen) :
                                                   Gives(i, "e") \/ Gives(i, "f")
         THEN {i \in IsOperand : \E j \in IsOperand : j < i}
         ELSE IsOperand

Opened == {TextOf(seen[i]) : i \in FileOperands} \cup FlagFiles
ReadsStdin ==
    \/ "dash" \in Opened
    \/ /\ FileOperands = {}
       /\ Programs[program].patternFirst \/ Programs[program].min > 0
SetsTheClock == program = "date" /\ \E i \in IsOperand : TextOf(seen[i]) # "format"

(* What the classifier calls safe opens no file it has not extracted, so   *)
(* that containment judges each one, reads nothing from a pipe it cannot   *)
(* see, and changes nothing: whatever the order of flags, values and       *)
(* operands (`classify`).                                                  *)
SafeMeansSeen ==
    verdict = "safe" => Opened \subseteq paths /\ ~ReadsStdin /\ ~SetsTheClock

(* The files a call touches, and whether it can do anything but touch them. *)
Touched ==
    CASE verdict = "safe" -> Opened \cup PathFields
      [] OTHER -> PathFields
Opaque ==
    CASE Kind[tool] = "execute" -> verdict # "safe"
      [] tool = "read_url_content" -> args.other = "url"
      [] OTHER -> Kind[tool] \notin KeyedByTool

(* However much has been allowed for good, what runs unasked touches files *)
(* inside the workspace only, nothing sensitive, and nothing else.         *)
UnaskedStaysInside ==
    decision = "unasked" =>
        /\ ~Opaque
        /\ \A p \in Touched : p \in Inside /\ ~IsSensitive(p)
=============================================================================
