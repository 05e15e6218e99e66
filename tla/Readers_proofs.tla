--------------------------- MODULE Readers_proofs ---------------------------
(***************************************************************************)
(* What is proved of what reads agy's word.                                *)
(*                                                                         *)
(* Of CallRules: a command the classifier calls safe opens no file it has  *)
(* not extracted, whatever its flags, values and operands and however long *)
(* the line; and what runs unasked stays inside.  The invariant is that    *)
(* what the parser has kept is what getopt's walk over the same tokens     *)
(* says (ReadsAs).                                                         *)
(*                                                                         *)
(* Of StreamProcessor, whatever the stream repeats, leaves out or says out *)
(* of order: each tool call is announced once and then only ends, the      *)
(* answer is shown once, and of a text only leading narration is withheld. *)
(* The invariant is that what the processor notes of a step is what its    *)
(* client was sent (Fine).                                                 *)
(*                                                                         *)
(* Of Replay: a conversation is replayed whole and in order, and a turn is *)
(* replayed as its client saw it.  The invariant of the loop is that what  *)
(* was sent and what is being put together tell the rows taken so far      *)
(* (ReplayTells).                                                          *)
(*                                                                         *)
(* Of ProtoScan: the scanner finds the fields that are in a blob and no    *)
(* others, whatever its bytes.  Each scan is a function of the position,   *)
(* and is compared with the format from the end of the blob backwards      *)
(* (FromTheEnd).                                                           *)
(***************************************************************************)
EXTENDS Readers, FiniteSetTheorems, WellFoundedInduction, TLAPS

-----------------------------------------------------------------------------
(* Numbers and sequences *)

(* A set of naturals that is not empty has a least element.                *)
LEMMA LeastNat ==
    ASSUME NEW T, T \subseteq Nat, T # {}
    PROVE  \E n \in T : \A m \in T : n <= m
<1>. DEFINE R == {ss \in Nat \X Nat : ss[1] < ss[2]}
<1>1. R = OpToRel(<, Nat)
  BY DEF OpToRel
<1>2. IsWellFoundedOn(R, Nat)
  BY <1>1, NatLessThanWellFounded
<1>3. PICK x \in T : \A y \in T : ~ (<<y, x>> \in R)
  BY <1>2, WFMin
<1>4. \A a, b \in Nat : a < b => <<a, b>> \in R
  <2>. TAKE a, b \in Nat
  <2>. HAVE a < b
  <2>1. <<a, b>> \in Nat \X Nat /\ <<a, b>>[1] = a /\ <<a, b>>[2] = b
    OBVIOUS
  <2>. QED
    BY <2>1
<1>. HIDE DEF R
<1>5. \A y \in T : ~(y < x)
  BY <1>3, <1>4
<1>. QED
  BY <1>3, <1>5

(* The elements of a concatenation.                                        *)
LEMMA ConcatIs ==
    ASSUME NEW S, NEW h \in Seq(S), NEW t \in Seq(S)
    PROVE  /\ h \o t \in Seq(S) /\ Len(h \o t) = Len(h) + Len(t)
           /\ \A k \in 1 .. Len(h) : (h \o t)[k] = h[k]
           /\ \A k \in 1 .. Len(t) : (h \o t)[Len(h) + k] = t[k]
<1>1. h \o t \in Seq(S) /\ Len(h \o t) = Len(h) + Len(t) /\ Len(h) \in Nat /\ Len(t) \in Nat
  OBVIOUS
<1>2. \A k \in 1 .. Len(h) + Len(t) : (h \o t)[k] = IF k <= Len(h) THEN h[k] ELSE t[k - Len(h)]
  OBVIOUS
<1>3. ASSUME NEW k \in 1 .. Len(h) PROVE (h \o t)[k] = h[k]
  BY <1>1, <1>2
<1>4. ASSUME NEW k \in 1 .. Len(t) PROVE (h \o t)[Len(h) + k] = t[k]
  <2>1. Len(h) + k \in 1 .. Len(h) + Len(t) /\ ~(Len(h) + k <= Len(h)) /\ (Len(h) + k) - Len(h) = k
    BY <1>1
  <2>. QED
    BY <1>2, <2>1
<1>. QED
  BY <1>1, <1>3, <1>4

(* One more element.                                                       *)
LEMMA AppendIs ==
    ASSUME NEW T, NEW q \in Seq(T), NEW x \in T
    PROVE  /\ Append(q, x) \in Seq(T) /\ Append(q, x) # <<>>
           /\ Len(Append(q, x)) = Len(q) + 1 /\ Len(q) \in Nat
           /\ Append(q, x)[Len(q) + 1] = x
           /\ \A i \in 1 .. Len(q) : Append(q, x)[i] = q[i]
           /\ (q = <<>>) <=> (Len(q) = 0)
<1>1. (q = <<>>) <=> (Len(q) = 0)
  OBVIOUS
<1>. QED
  BY <1>1

(* A set that holds 0 and with every number the next holds them all.       *)
LEMMA SetInduction ==
    ASSUME NEW S, 0 \in S, \A n \in Nat : n \in S => n + 1 \in S
    PROVE  Nat \subseteq S
<1>. SUFFICES ASSUME Nat \ S # {} PROVE FALSE
  OBVIOUS
<1>1. PICK n \in Nat \ S : \A m \in Nat \ S : n <= m
  BY LeastNat
<1>2. n # 0 /\ n - 1 \in Nat /\ n - 1 \in S
  BY <1>1
<1>. QED
  BY <1>1, <1>2

(* A function given by its first value, and by each from the one before    *)
(* and the next element of a sequence.                                     *)
Folds(f, G, base, X, s) ==
    /\ f \in [0 .. Len(s) -> X]
    /\ f[0] = base
    /\ \A n \in 1 .. Len(s) : f[n] = G[<<f[n - 1], s[n]>>]

(* Where it begins, and that it goes on.                                   *)
GoesOn(G, base, X, E) == base \in X /\ G \in [X \X E -> X]

LEMMA FoldExists ==
    ASSUME NEW X, NEW E, NEW base, NEW G, GoesOn(G, base, X, E), NEW s \in Seq(E)
    PROVE  \E f : Folds(f, G, base, X, s)
<1>. DEFINE Upto(f, k) == /\ f \in [0 .. k -> X] /\ f[0] = base
                          /\ \A n \in 1 .. k : f[n] = G[<<f[n - 1], s[n]>>]
            S == {k \in Nat : k <= Len(s) => \E f : Upto(f, k)}
<1>0. base \in X /\ G \in [X \X E -> X]
  BY DEF GoesOn
<1>1. 0 \in S
  <2>1. [n \in 0 .. 0 |-> base] \in [0 .. 0 -> X] /\ [n \in 0 .. 0 |-> base][0] = base
    BY <1>0
  <2>2. \A n \in 1 .. 0 : FALSE
    OBVIOUS
  <2>3. Upto([n \in 0 .. 0 |-> base], 0)
    BY <2>1, <2>2
  <2>. HIDE DEF Upto
  <2>. QED
    BY <2>3
<1>2. ASSUME NEW k \in Nat, k \in S PROVE k + 1 \in S
  <2>. SUFFICES ASSUME k + 1 <= Len(s) PROVE \E f : Upto(f, k + 1)
    OBVIOUS
  <2>1. PICK f : Upto(f, k)
    <3>. HIDE DEF Upto
    <3>1. k <= Len(s)
      OBVIOUS
    <3>. QED
      BY <1>2, <3>1
  <2>2. s[k + 1] \in E
    OBVIOUS
  <2>. DEFINE g == [n \in 0 .. k + 1 |-> IF n = k + 1 THEN G[<<f[k], s[k + 1]>>] ELSE f[n]]
  <2>3. k \in 0 .. k /\ 0 \in 0 .. k + 1 /\ 0 # k + 1 /\ \A n \in 0 .. k + 1 : n # k + 1 => n \in 0 .. k
    OBVIOUS
  <2>4. g \in [0 .. k + 1 -> X] /\ g[0] = base
    <3>1. G[<<f[k], s[k + 1]>>] \in X
      BY <1>0, <2>1, <2>2, <2>3
    <3>. QED
      BY <2>1, <2>3, <3>1
  <2>5. ASSUME NEW n \in 1 .. k + 1 PROVE g[n] = G[<<g[n - 1], s[n]>>]
    <3>1. n \in 0 .. k + 1 /\ n - 1 \in 0 .. k + 1 /\ n - 1 # k + 1 /\ (n = k + 1 => n - 1 = k)
          /\ (n # k + 1 => n \in 1 .. k)
      OBVIOUS
    <3>. QED
      BY <2>1, <3>1
  <2>6. Upto(g, k + 1)
    BY <2>4, <2>5
  <2>. HIDE DEF Upto
  <2>. QED
    BY <2>6
<1>3. Len(s) \in S
  <2>. HIDE DEF S
  <2>. QED
    BY <1>1, <1>2, SetInduction
<1>4. PICK f : Upto(f, Len(s))
  <2>1. Len(s) <= Len(s)
    OBVIOUS
  <2>. HIDE DEF Upto
  <2>. QED
    BY <1>3, <2>1
<1>. QED
  BY <1>4 DEF Folds

(* What is made of a sequence does not depend on what comes after it.      *)
LEMMA FoldAppend ==
    ASSUME NEW X, NEW E, NEW base, NEW G, NEW s \in Seq(E), NEW e \in E,
           NEW f, Folds(f, G, base, X, s), NEW g, Folds(g, G, base, X, Append(s, e))
    PROVE  g[Len(Append(s, e))] = G[<<f[Len(s)], e>>]
<1>. DEFINE S == {k \in Nat : k <= Len(s) => g[k] = f[k]}
<1>1. /\ Len(s) \in Nat /\ Len(Append(s, e)) = Len(s) + 1 /\ Append(s, e)[Len(s) + 1] = e
      /\ \A n \in 1 .. Len(s) : Append(s, e)[n] = s[n]
  BY AppendIs
<1>2. /\ f[0] = base /\ g[0] = base
      /\ \A n \in 1 .. Len(s) : f[n] = G[<<f[n - 1], s[n]>>]
      /\ \A n \in 1 .. Len(s) + 1 : g[n] = G[<<g[n - 1], Append(s, e)[n]>>]
  BY <1>1 DEF Folds
<1>3. 0 \in S
  BY <1>2
<1>4. ASSUME NEW k \in Nat, k \in S PROVE k + 1 \in S
  <2>. SUFFICES ASSUME k + 1 <= Len(s) PROVE g[k + 1] = f[k + 1]
    OBVIOUS
  <2>1. k + 1 \in 1 .. Len(s) /\ k + 1 \in 1 .. Len(s) + 1 /\ (k + 1) - 1 = k /\ k <= Len(s)
    BY <1>1
  <2>. QED
    BY <1>1, <1>2, <1>4, <2>1
<1>5. Len(s) \in S
  <2>. HIDE DEF S
  <2>. QED
    BY <1>1, <1>3, <1>4, SetInduction
<1>6. g[Len(s)] = f[Len(s)]
  BY <1>1, <1>5
<1>7. Len(s) + 1 \in 1 .. Len(s) + 1 /\ (Len(s) + 1) - 1 = Len(s)
  BY <1>1
<1>. QED
  BY <1>1, <1>2, <1>6, <1>7

-----------------------------------------------------------------------------
(* The programs and their flags, by what the proofs need of the table *)

(* Only programs that take files expect any, date's operands are formats,  *)
(* and a flag takes one value or none.                                     *)
LEMMA TableFacts ==
    ASSUME program \in DOMAIN Programs
    PROVE  /\ program \in DOMAIN Flags
           /\ Programs[program].patternFirst \/ Programs[program].min > 0
                => Programs[program].operands = "Paths"
           /\ Programs[program].min \in Nat
           /\ program = "date" => Programs[program].operands = "Formats"
           /\ \A name : Known(name) => FlagOf(name).arity \in {0, 1}
           /\ \A name \in {"e", "f"} : Known(name) => FlagOf(name).arity = 1
<1>1. CASE program = "ls"
  BY <1>1 DEF Programs, Program, Flags, Flag, Switch, Valued, PathValued, AttachedOnly, Known, FlagOf
<1>2. CASE program = "cat"
  BY <1>2 DEF Programs, Program, Flags, Flag, Switch, Valued, PathValued, AttachedOnly, Known, FlagOf
<1>3. CASE program = "head"
  BY <1>3 DEF Programs, Program, Flags, Flag, Switch, Valued, PathValued, AttachedOnly, Known, FlagOf
<1>4. CASE program = "pwd"
  BY <1>4 DEF Programs, Program, Flags, Flag, Switch, Valued, PathValued, AttachedOnly, Known, FlagOf
<1>5. CASE program = "date"
  BY <1>5 DEF Programs, Program, Flags, Flag, Switch, Valued, PathValued, AttachedOnly, Known, FlagOf
<1>6. CASE program = "which"
  BY <1>6 DEF Programs, Program, Flags, Flag, Switch, Valued, PathValued, AttachedOnly, Known, FlagOf
<1>7. CASE program = "grep"
  BY <1>7 DEF Programs, Program, Flags, Flag, Switch, Valued, PathValued, AttachedOnly, Known, FlagOf
<1>. QED
  BY <1>1, <1>2, <1>3, <1>4, <1>5, <1>6, <1>7 DEF Programs

-----------------------------------------------------------------------------
(* Tokens *)

(* A flag token of either form.                                            *)
LongShape(token) ==
    /\ token.kind = "long" /\ token.name \notin {"e", "f"}
ShortShape(token) ==
    /\ token.kind = "short"
    /\ Len(token.letters) \in Nat \ {0}
    /\ \A k \in 1 .. Len(token.letters) : token.letters[k] = "f" => k = Len(token.letters)
WordShape(token) ==
    token.kind \in {"word", "dashdash"} /\ token.text \in Texts

(* A token is of one of three shapes; the value of -f is the rest of its   *)
(* cluster or the next token.                                              *)
LEMMA TokenShape ==
    ASSUME NEW token \in Tokens
    PROVE  \/ LongShape(token) /\ IsFlag(token)
           \/ ShortShape(token) /\ IsFlag(token)
           \/ WordShape(token) /\ ~IsFlag(token)
<1>1. CASE token = DoubleDash \/ \E t \in Texts : token = Word(t)
  BY <1>1 DEF DoubleDash, Word, WordShape, IsFlag, Texts
<1>2. CASE \E n \in {"color", "lines", "label", "nosuch"}, v \in {Absent, "far"} : token = Long(n, v)
  BY <1>2 DEF Long, LongShape, IsFlag
<1>3. ASSUME NEW ls \in {<<"l">>, <<"n">>, <<"e">>, <<"f">>, <<"I">>, <<"u">>,
                         <<"l", "f">>, <<"e", "l">>},
             NEW r \in {Absent, "far"}, token = Cluster(ls, r)
      PROVE  ShortShape(token) /\ IsFlag(token)
  <2>1. token.kind = "short" /\ token.letters = ls
    BY <1>3 DEF Cluster
  <2>2. Len(ls) \in Nat \ {0} /\ \A k \in 1 .. Len(ls) : ls[k] = "f" => k = Len(ls)
    <3>1. ASSUME NEW a, ls = <<a>> PROVE Len(ls) = 1 /\ \A k \in 1 .. Len(ls) : k = Len(ls)
      BY <3>1
    <3>2. CASE ls = <<"l", "f">>
      BY <3>2
    <3>3. CASE ls = <<"e", "l">>
      BY <3>3
    <3>. QED
      BY <3>1, <3>2, <3>3
  <2>. QED
    BY <2>1, <2>2 DEF ShortShape, IsFlag
<1>. QED
  BY <1>1, <1>2, <1>3 DEF Tokens, Texts, Paths

(* Whether a token gives the flag of that name.                            *)
GivesIn(token, name) ==
    /\ token.kind = "short" /\ Known(name)
    /\ \E k \in 1 .. Len(token.letters) :
         /\ token.letters[k] = name
         /\ \A j \in 1 .. k - 1 : FlagOf(token.letters[j]).arity = 0

(* What of a value that is there or not.                                   *)
LEMMA TakesValueIs ==
    ASSUME NEW name, NEW value
    PROVE  LET r == TakesValue(name, value) IN
           /\ value # Absent => r.needs = "attached" /\ r.name = name /\ r.value = value
           /\ value = Absent /\ FlagOf(name).attached => r.needs = "refused"
           /\ value = Absent /\ ~FlagOf(name).attached => r.needs = "next" /\ r.name = name
  BY DEF TakesValue, Attached, Refused, NextToken

(* What is known of a flag token from the way it was read.                 *)
ReadsRight(token) ==
    LET r == ReadFlag(token) IN
    /\ r.needs = "nothing" =>
         ~TakesNext(token) /\ ~GivesIn(token, "e") /\ ~GivesIn(token, "f")
    /\ r.needs = "attached" =>
         /\ ~TakesNext(token)
         /\ \A name \in {"e", "f"} : GivesIn(token, name) <=> r.name = name
         /\ r.name = "f" => r.value = token.rest
    /\ r.needs = "next" =>
         /\ TakesNext(token)
         /\ \A name \in {"e", "f"} : GivesIn(token, name) <=> r.name = name

(* A long flag is read as getopt reads it.                                 *)
LEMMA LongReadsRight ==
    ASSUME program \in DOMAIN Programs, NEW token, LongShape(token)
    PROVE  ReadsRight(token)
<1>1. ReadFlag(token) = LongFlag(token)
  BY DEF ReadFlag, LongShape
<1>2. ~GivesIn(token, "e") /\ ~GivesIn(token, "f")
  BY DEF GivesIn, LongShape
<1>3. TakesNext(token) <=>
        /\ Known(token.name) /\ FlagOf(token.name).arity = 1
        /\ ~FlagOf(token.name).attached /\ token.value = Absent
  BY DEF TakesNext, LongShape
<1>4. CASE ~Known(token.name)
  BY <1>1, <1>4 DEF LongFlag, Refused, ReadsRight
<1>5. CASE Known(token.name) /\ FlagOf(token.name).arity # 1
  BY <1>1, <1>2, <1>3, <1>5 DEF LongFlag, Refused, Nothing, ReadsRight
<1>6. CASE Known(token.name) /\ FlagOf(token.name).arity = 1
  <2>1. ReadFlag(token) = TakesValue(token.name, token.value)
    BY <1>1, <1>6 DEF LongFlag
  <2>2. token.name \notin {"e", "f"}
    BY DEF LongShape
  <2>. QED
    BY <1>2, <1>3, <1>6, <2>1, <2>2, TakesValueIs DEF ReadsRight
<1>. QED
  BY <1>4, <1>5, <1>6

(* The letter that ends the reading of a cluster.                          *)
Stops(token, i) ==
    /\ i \in 1 .. Len(token.letters)
    /\ ~Known(token.letters[i]) \/ FlagOf(token.letters[i]).arity = 1

StopsFirst(token, i) == Stops(token, i) /\ \A j \in 1 .. i - 1 : ~Stops(token, j)

(* A cluster is read up to the first letter that takes a value or is not   *)
(* known.                                                                  *)
LEMMA ShortReads ==
    ASSUME NEW token, ShortShape(token)
    PROVE  \/ /\ \A i : ~Stops(token, i)
              /\ ReadFlag(token) = IF token.rest = Absent THEN Nothing ELSE Refused
           \/ \E i \in 1 .. Len(token.letters) :
                /\ StopsFirst(token, i)
                /\ ~Known(token.letters[i]) => ReadFlag(token) = Refused
                /\ Known(token.letters[i]) =>
                     ReadFlag(token) =
                       TakesValue(token.letters[i],
                                  IF i < Len(token.letters) THEN "option" ELSE token.rest)
<1>. DEFINE n == Len(token.letters)
            stops == {i \in 1 .. n : ~Known(token.letters[i]) \/ FlagOf(token.letters[i]).arity = 1}
            first == CHOOSE i \in stops : \A j \in stops : i <= j
<1>1. ReadFlag(token) = ShortCluster(token)
  BY DEF ReadFlag, ShortShape
<1>2. ShortCluster(token) =
        IF stops = {}
        THEN IF token.rest = Absent THEN Nothing ELSE Refused
        ELSE IF ~Known(token.letters[first]) THEN Refused
        ELSE TakesValue(token.letters[first], IF first < n THEN "option" ELSE token.rest)
  BY DEF ShortCluster
<1>3. n \in Nat /\ stops \subseteq 1 .. n /\ \A i : i \in stops <=> Stops(token, i)
  BY DEF ShortShape, Stops
<1>. HIDE DEF stops
<1>4. CASE stops = {}
  BY <1>1, <1>2, <1>3, <1>4
<1>5. CASE stops # {}
  <2>1. \E i \in stops : \A j \in stops : i <= j
    <3>1. stops \subseteq Nat
      BY <1>3
    <3>. QED
      BY <1>5, <3>1, LeastNat
  <2>2. first \in stops /\ \A j \in stops : first <= j
    BY <2>1
  <2>. HIDE DEF first
  <2>3. first \in 1 .. n /\ StopsFirst(token, first)
    BY <1>3, <2>2 DEF StopsFirst
  <2>. QED
    BY <1>1, <1>2, <1>5, <2>3
<1>. QED
  BY <1>4, <1>5

(* A cluster of letters is read as getopt reads it.                        *)
LEMMA ShortReadsRight ==
    ASSUME program \in DOMAIN Programs, NEW token, ShortShape(token)
    PROVE  ReadsRight(token)
<1>. DEFINE n == Len(token.letters)
            letter(i) == token.letters[i]
            takes(i) == Known(letter(i)) /\ FlagOf(letter(i)).arity = 1
<1>1. n \in Nat \ {0} /\ \A k \in 1 .. n : letter(k) = "f" => k = n
  BY DEF ShortShape
<1>2. TakesNext(token) <=>
        /\ takes(n) /\ ~FlagOf(letter(n)).attached /\ token.rest = Absent
        /\ \A i \in 1 .. n - 1 : ~takes(i)
  BY DEF TakesNext, ShortShape
<1>3. \A i : Stops(token, i) <=> i \in 1 .. n /\ (~Known(letter(i)) \/ FlagOf(letter(i)).arity = 1)
  BY DEF Stops
<1>4. \A name : GivesIn(token, name) <=>
        /\ Known(name)
        /\ \E k \in 1 .. n : letter(k) = name /\ \A j \in 1 .. k - 1 : FlagOf(letter(j)).arity = 0
  BY DEF GivesIn, ShortShape
<1>5. /\ \A name : Known(name) => FlagOf(name).arity \in {0, 1}
      /\ \A name \in {"e", "f"} : Known(name) => FlagOf(name).arity = 1
  BY TableFacts
<1>6. "option" # Absent
  BY AbsentAssumption DEF Texts
<1>. HIDE DEF n, letter
<1>7. CASE /\ \A i : ~Stops(token, i)
           /\ ReadFlag(token) = IF token.rest = Absent THEN Nothing ELSE Refused
  <2>1. ~TakesNext(token)
    BY <1>1, <1>2, <1>3, <1>7
  <2>2. \A name \in {"e", "f"} : ~GivesIn(token, name)
    BY <1>3, <1>4, <1>5, <1>7
  <2>. QED
    BY <1>7, <2>1, <2>2 DEF ReadsRight, Nothing, Refused
<1>8. ASSUME NEW i \in 1 .. n, StopsFirst(token, i), ~Known(letter(i)), ReadFlag(token) = Refused
      PROVE  ReadsRight(token)
  BY <1>8 DEF ReadsRight, Refused
<1>9. ASSUME NEW i \in 1 .. n, StopsFirst(token, i), Known(letter(i)),
             ReadFlag(token) = TakesValue(letter(i), IF i < n THEN "option" ELSE token.rest)
      PROVE  ReadsRight(token)
  <2>1. takes(i) /\ \A j \in 1 .. i - 1 : Known(letter(j)) /\ FlagOf(letter(j)).arity = 0
    BY <1>1, <1>3, <1>5, <1>9 DEF StopsFirst
  <2>2. \A name \in {"e", "f"} : GivesIn(token, name) <=> letter(i) = name
    <3>. SUFFICES ASSUME NEW name \in {"e", "f"} PROVE GivesIn(token, name) <=> letter(i) = name
      OBVIOUS
    <3>1. ASSUME letter(i) = name PROVE GivesIn(token, name)
      BY <1>4, <2>1, <3>1
    <3>2. ASSUME GivesIn(token, name) PROVE letter(i) = name
      <4>1. PICK k \in 1 .. n : letter(k) = name /\ \A j \in 1 .. k - 1 : FlagOf(letter(j)).arity = 0
        BY <1>4, <3>2
      <4>2. FlagOf(letter(k)).arity = 1
        BY <1>4, <1>5, <3>2, <4>1
      <4>3. ~(k < i)
        BY <1>1, <2>1, <4>1, <4>2
      <4>4. ~(i < k)
        BY <1>1, <2>1, <4>1
      <4>5. i = k
        BY <1>1, <4>3, <4>4
      <4>. QED
        BY <4>1, <4>5
    <3>. QED
      BY <3>1, <3>2
  <2>3. CASE i < n
    <3>1. ReadFlag(token).needs = "attached" /\ ReadFlag(token).name = letter(i)
      BY <1>6, <1>9, <2>3, TakesValueIs
    <3>2. ~TakesNext(token)
      BY <1>1, <1>2, <2>1, <2>3
    <3>3. letter(i) # "f"
      BY <1>1, <2>3
    <3>. QED
      BY <2>2, <3>1, <3>2, <3>3 DEF ReadsRight
  <2>4. CASE i = n
    <3>1. ReadFlag(token) = TakesValue(letter(n), token.rest)
      BY <1>1, <1>9, <2>4
    <3>2. TakesNext(token) <=> ~FlagOf(letter(n)).attached /\ token.rest = Absent
      BY <1>2, <2>1, <2>4
    <3>3. \A name \in {"e", "f"} : GivesIn(token, name) <=> letter(n) = name
      BY <2>2, <2>4
    <3>. QED
      BY <3>1, <3>2, <3>3, TakesValueIs DEF ReadsRight
  <2>. QED
    BY <1>1, <2>3, <2>4
<1>10. \/ /\ \A i : ~Stops(token, i)
          /\ ReadFlag(token) = IF token.rest = Absent THEN Nothing ELSE Refused
       \/ \E i \in 1 .. n :
            /\ StopsFirst(token, i)
            /\ ~Known(letter(i)) => ReadFlag(token) = Refused
            /\ Known(letter(i)) =>
                 ReadFlag(token) = TakesValue(letter(i), IF i < n THEN "option" ELSE token.rest)
  BY ShortReads DEF n, letter
<1>. QED
  BY <1>7, <1>8, <1>9, <1>10

(* Both forms of a flag are.                                               *)
LEMMA FlagsReadRight ==
    ASSUME program \in DOMAIN Programs, NEW token \in Tokens, IsFlag(token)
    PROVE  ReadsRight(token)
  BY TokenShape, LongReadsRight, ShortReadsRight

-----------------------------------------------------------------------------
(* The line as getopt walks it *)

(* The tokens whose value is the next one, those that give grep a pattern, *)
(* and those whose value is a file.                                        *)
Due == {t \in Tokens : TakesNext(t)}
Patterns == {t \in Tokens : GivesIn(t, "e") \/ GivesIn(t, "f")}
FileFlags == {t \in Tokens : GivesIn(t, "f") /\ FlagOf("f").path}

(* The texts an operand of the program may have.                           *)
Fit ==
    {t \in Texts : /\ Programs[program].operands = "Formats" => t = "format"
                   /\ Programs[program].operands = "Paths" => t \in paths}

(* V are the values among the tokens read: what is left is free, and an    *)
(* operand if it is a word.                                                *)
Free(V) == (1 .. Len(seen)) \ V
Words(V) == {i \in Free(V) : seen[i].kind = "word"}

Walk(V) ==
    /\ V \subseteq 1 .. Len(seen)
    /\ \A i \in 1 .. Len(seen) : i \in V <=> i > 1 /\ i - 1 \notin V /\ seen[i - 1] \in Due
    /\ Len(seen) # 0 => Len(seen) \in V \/ seen[Len(seen)] \notin Due
Fitting(V) ==
    \A i \in Free(V) : seen[i].kind # "dashdash" /\ (seen[i].kind = "word" => seen[i].text \in Fit)
Filed(V) ==
    \A i \in Free(V) :
        seen[i] \in FileFlags =>
          (IF i + 1 \in V THEN TextOf(seen[i + 1]) ELSE seen[i].rest) \in paths
Counted(V) == operands = Cardinality(Words(V))
Patterned(V) == sawPattern = \E i \in Free(V) : seen[i] \in Patterns

ReadsAs(V) == Walk(V) /\ Fitting(V) /\ Filed(V) /\ Counted(V) /\ Patterned(V)

(* What holds of a command while it is read, and once it is called safe:   *)
(* the parser has kept what the walk says.                                 *)
ReadInv ==
    verdict \in {"reading", "safe"} =>
        /\ program \in DOMAIN Programs
        /\ Kind[tool] = "execute"
        /\ seen \in Seq(Tokens)
        /\ "dash" \notin paths
        /\ verdict = "safe" => Countable
        /\ \E V : ReadsAs(V)

-----------------------------------------------------------------------------
(* What the walk says of a safe command *)

(* The set of values is the only one that follows the rule.                *)
LEMMA IsValueIs ==
    ASSUME seen \in Seq(Tokens), NEW V, Walk(V)
    PROVE  IsValue = V
<1>. DEFINE n == Len(seen)
            F(f) == [i \in 0 .. n |-> i > 1 /\ ~f[i - 1] /\ TakesNext(seen[i - 1])]
            f == [i \in 0 .. n |-> i \in V]
            value == CHOOSE g : g = F(g)
            Wrong == {i \in 1 .. n : value[i] # f[i]}
<1>1. /\ n \in Nat /\ V \subseteq 1 .. n
      /\ \A i \in 1 .. n : i \in V <=> i > 1 /\ i - 1 \notin V /\ seen[i - 1] \in Due
      /\ \A i \in 1 .. n : seen[i] \in Tokens
  BY DEF Walk
<1>2. \A i \in 1 .. n : i > 1 => i - 1 \in 1 .. n /\ i - 1 \in 0 .. n
  BY <1>1
<1>3. ASSUME NEW i \in 0 .. n
      PROVE  f[i] = (i > 1 /\ ~f[i - 1] /\ TakesNext(seen[i - 1]))
  <2>1. CASE i = 0
    <3>1. ~(i > 1) /\ i \notin V
      BY <1>1, <2>1
    <3>. QED
      BY <3>1
  <2>2. CASE i \in 1 .. n
    <3>1. CASE i > 1
      <4>1. i - 1 \in 1 .. n /\ i - 1 \in 0 .. n /\ seen[i - 1] \in Tokens
        BY <1>1, <1>2, <2>2, <3>1
      <4>2. seen[i - 1] \in Due <=> TakesNext(seen[i - 1])
        BY <4>1 DEF Due
      <4>3. (f[i] <=> i \in V) /\ (f[i - 1] <=> i - 1 \in V)
        BY <4>1
      <4>4. i \in V <=> i - 1 \notin V /\ TakesNext(seen[i - 1])
        BY <1>1, <2>2, <3>1, <4>2
      <4>5. f[i] \in BOOLEAN
        OBVIOUS
      <4>. HIDE DEF f
      <4>. QED
        BY <3>1, <4>3, <4>4, <4>5
    <3>2. CASE ~(i > 1)
      BY <1>1, <2>2, <3>2
    <3>. QED
      BY <3>1, <3>2
  <2>. QED
    BY <1>1, <2>1, <2>2
<1>4. f = F(f)
  BY <1>3
<1>5. value = F(value)
  BY <1>4
<1>6. IsValue = {i \in 1 .. n : value[i]}
  BY DEF IsValue
<1>7. Wrong = {}
  <2>. SUFFICES ASSUME Wrong # {} PROVE FALSE
    OBVIOUS
  <2>1. Wrong \subseteq Nat
    BY <1>1
  <2>2. PICK i \in Wrong : \A j \in Wrong : i <= j
    BY <2>1, LeastNat
  <2>3. i \in 1 .. n /\ i \in 0 .. n /\ value[i] # f[i]
    BY <1>1, <2>2
  <2>4. /\ value[i] = (i > 1 /\ ~value[i - 1] /\ TakesNext(seen[i - 1]))
        /\ f[i] = (i > 1 /\ ~f[i - 1] /\ TakesNext(seen[i - 1]))
    BY <1>3, <1>5, <2>3
  <2>5. i > 1
    BY <2>3, <2>4
  <2>6. i - 1 \in 1 .. n /\ ~(i <= i - 1)
    BY <1>1, <2>3, <2>5
  <2>7. value[i - 1] = f[i - 1]
    BY <2>2, <2>6
  <2>. QED
    BY <2>3, <2>4, <2>7
<1>8. \A i \in 1 .. n : value[i] = (i \in V)
  <2>1. \A i \in 1 .. n : f[i] = (i \in V)
    BY <1>1
  <2>. QED
    BY <1>7, <2>1
<1>. HIDE DEF value
<1>. QED
  BY <1>1, <1>6, <1>8

(* The operands are the free words, as no `--` is free.                    *)
LEMMA IsOperandIs ==
    ASSUME seen \in Seq(Tokens), NEW V, Walk(V), Fitting(V)
    PROVE  IsOperand = Words(V)
<1>1. IsValue = V
  BY IsValueIs
<1>2. \A i \in 1 .. Len(seen) : i \notin V => seen[i].kind # "dashdash"
  BY DEF Fitting, Free
<1>3. Len(seen) \in Nat
  OBVIOUS
<1>4. \A i \in 1 .. Len(seen) : ~ \E j \in 1 .. i - 1 : seen[j].kind = "dashdash" /\ j \notin V
  BY <1>2, <1>3
<1>. QED
  BY <1>1, <1>4 DEF IsOperand, Words, Free

(* A free token gives a flag if the token itself does.                     *)
LEMMA GivesIs ==
    ASSUME seen \in Seq(Tokens), NEW V, Walk(V), Fitting(V)
    PROVE  \A i \in 1 .. Len(seen) : \A name : Gives(i, name) <=> i \in Free(V) /\ GivesIn(seen[i], name)
<1>. TAKE i \in 1 .. Len(seen)
<1>. TAKE name
<1>1. IsValue = V /\ IsOperand = Words(V)
  BY IsValueIs, IsOperandIs
<1>2. seen[i].kind = "short" => seen[i].kind # "word"
  OBVIOUS
<1>3. i \notin IsValue \cup IsOperand /\ seen[i].kind = "short" <=> i \in Free(V) /\ seen[i].kind = "short"
  BY <1>1, <1>2 DEF Words, Free
<1>. QED
  BY <1>3 DEF Gives, GivesIn

(* The number of operands is the number of free words.                     *)
LEMMA WordsCounted ==
    ASSUME seen \in Seq(Tokens), NEW V
    PROVE  /\ IsFiniteSet(Words(V)) /\ Cardinality(Words(V)) \in Nat
           /\ Words(V) \subseteq Nat
           /\ Cardinality(Words(V)) > 0 => Words(V) # {}
           /\ Cardinality(Words(V)) > 1 => \E i, j \in Words(V) : j < i
<1>1. Len(seen) \in Nat /\ Words(V) \subseteq 1 .. Len(seen)
  BY DEF Words, Free
<1>2. IsFiniteSet(Words(V)) /\ Cardinality(Words(V)) \in Nat /\ Words(V) \subseteq Nat
  <2>1. IsFiniteSet(1 .. Len(seen))
    BY <1>1, FS_Interval
  <2>2. IsFiniteSet(Words(V))
    BY <1>1, <2>1, FS_Subset
  <2>3. Cardinality(Words(V)) \in Nat
    BY <2>2, FS_CardinalityType
  <2>4. Words(V) \subseteq Nat
    BY <1>1
  <2>. QED
    BY <2>2, <2>3, <2>4
<1>3. Cardinality(Words(V)) > 0 => Words(V) # {}
  <2>1. Cardinality(Words(V)) = 0 <=> Words(V) = {}
    BY <1>2, FS_EmptySet
  <2>. QED
    BY <1>2, <2>1
<1>4. ASSUME Cardinality(Words(V)) > 1 PROVE \E i, j \in Words(V) : j < i
  <2>0. Cardinality(Words(V)) > 0
    BY <1>2, <1>4
  <2>1. PICK i : i \in Words(V)
    BY <1>3, <2>0
  <2>2. /\ IsFiniteSet(Words(V) \ {i})
        /\ Cardinality(Words(V) \ {i}) = Cardinality(Words(V)) - 1
    BY <1>2, <2>1, FS_RemoveElement
  <2>3. Words(V) \ {i} # {}
    <3>1. Cardinality(Words(V) \ {i}) # 0
      BY <1>2, <1>4, <2>2
    <3>. QED
      BY <2>2, <3>1, FS_EmptySet
  <2>4. PICK j \in Words(V) : j # i
    BY <2>3
  <2>5. i \in Nat /\ j \in Nat
    BY <1>2, <2>1, <2>4
  <2>6. j < i \/ i < j
    BY <2>5, <2>4
  <2>. QED
    BY <2>1, <2>4, <2>6
<1>. QED
  BY <1>2, <1>3, <1>4

(* What the parser has kept of a safe command is all that the command      *)
(* opens.                                                                  *)
LEMMA SafeIsSeen ==
    ASSUME ReadInv, operands \in Nat
    PROVE  SafeMeansSeen
<1>. SUFFICES ASSUME verdict = "safe" PROVE Opened \subseteq paths /\ ~ReadsStdin /\ ~SetsTheClock
  BY DEF SafeMeansSeen
<1>1. /\ program \in DOMAIN Programs /\ seen \in Seq(Tokens) /\ "dash" \notin paths /\ Countable
      /\ \E V : ReadsAs(V)
  BY DEF ReadInv
<1>2. PICK V : ReadsAs(V)
  BY <1>1
<1>3. Walk(V) /\ Fitting(V) /\ Filed(V) /\ Counted(V) /\ Patterned(V)
  BY <1>2 DEF ReadsAs
<1>4. IsValue = V /\ IsOperand = Words(V)
  BY <1>1, <1>3, IsValueIs, IsOperandIs
<1>5. \A i \in 1 .. Len(seen) : \A name : Gives(i, name) <=> i \in Free(V) /\ GivesIn(seen[i], name)
  BY <1>1, <1>3, GivesIs
<1>6. \A i \in 1 .. Len(seen) : seen[i] \in Tokens
  BY <1>1
<1>7. \A i \in Words(V) : seen[i].text \in Fit /\ TextOf(seen[i]) = seen[i].text
  BY <1>3 DEF Words, Fitting, TextOf, IsFlag
<1>8. FlagFiles \subseteq paths
  <2>. SUFFICES ASSUME NEW i \in 1 .. Len(seen), Gives(i, "f"), FlagOf("f").path
                PROVE  (IF i + 1 \in IsValue THEN TextOf(seen[i + 1]) ELSE seen[i].rest) \in paths
    BY DEF FlagFiles
  <2>1. i \in Free(V) /\ seen[i] \in FileFlags
    BY <1>5, <1>6 DEF FileFlags
  <2>. QED
    BY <1>3, <1>4, <2>1 DEF Filed
<1>9. {TextOf(seen[i]) : i \in FileOperands} \subseteq paths
  <2>. SUFFICES ASSUME NEW i \in FileOperands PROVE TextOf(seen[i]) \in paths
    OBVIOUS
  <2>1. i \in Words(V) /\ Programs[program].operands = "Paths"
    BY <1>4 DEF FileOperands
  <2>. QED
    BY <1>7, <2>1 DEF Fit
<1>10. Opened \subseteq paths
  BY <1>8, <1>9 DEF Opened
<1>11. ASSUME Programs[program].patternFirst \/ Programs[program].min > 0, FileOperands = {}
       PROVE  FALSE
  <2>1. Programs[program].operands = "Paths"
    BY <1>1, <1>11, TableFacts
  <2>2. operands = Cardinality(Words(V))
    BY <1>3 DEF Counted
  <2>3. CASE Programs[program].patternFirst /\ ~sawPattern
    <3>1. operands - 1 > 0
      BY <1>1, <2>3 DEF Countable, Files
    <3>2. PICK i, j \in Words(V) : j < i
      BY <1>1, <2>2, <3>1, WordsCounted
    <3>3. i \in FileOperands
      BY <1>4, <2>1, <3>2 DEF FileOperands
    <3>. QED
      BY <1>11, <3>3
  <2>4. CASE Programs[program].patternFirst /\ sawPattern
    <3>1. operands > 0
      BY <1>1, <2>4 DEF Countable, Files
    <3>2. Words(V) # {}
      BY <1>1, <2>2, <3>1, WordsCounted
    <3>3. \E i \in Free(V) : seen[i] \in Patterns
      BY <1>3, <2>4 DEF Patterned
    <3>4. \E i \in 1 .. Len(seen) : Gives(i, "e") \/ Gives(i, "f")
      BY <1>5, <3>3 DEF Patterns, Free
    <3>5. FileOperands = IsOperand
      BY <2>1, <3>4 DEF FileOperands
    <3>. QED
      BY <1>4, <1>11, <3>2, <3>5
  <2>5. CASE ~Programs[program].patternFirst
    <3>1. operands > 0
      <4>1. operands >= Programs[program].min /\ Programs[program].min > 0
        BY <1>1, <1>11, <2>5 DEF Countable
      <4>. QED
        BY <1>1, <4>1, TableFacts
    <3>2. Words(V) # {}
      BY <1>1, <2>2, <3>1, WordsCounted
    <3>3. FileOperands = IsOperand
      BY <2>1, <2>5 DEF FileOperands
    <3>. QED
      BY <1>4, <1>11, <3>2, <3>3
  <2>. QED
    BY <2>3, <2>4, <2>5
<1>12. ~ReadsStdin
  BY <1>1, <1>10, <1>11 DEF ReadsStdin
<1>13. ~SetsTheClock
  <2>. SUFFICES ASSUME program = "date", NEW i \in IsOperand PROVE TextOf(seen[i]) = "format"
    BY DEF SetsTheClock
  <2>1. Programs[program].operands = "Formats"
    BY <1>1, TableFacts
  <2>. QED
    BY <1>4, <1>7, <2>1 DEF Fit
<1>. QED
  BY <1>10, <1>12, <1>13

-----------------------------------------------------------------------------
(* Reading a token further *)

(* One token more, and its value if it is due: the value is not free.      *)
Grows(token, V, U) ==
    /\ token \in Tokens
    /\ seen' \in Seq(Tokens)
    /\ \A i \in 1 .. Len(seen) : seen'[i] = seen[i]
    /\ seen'[Len(seen) + 1] = token
    /\ IF token \in Due
       THEN Len(seen') = Len(seen) + 2 /\ U = V \cup {Len(seen) + 2}
       ELSE Len(seen') = Len(seen) + 1 /\ U = V

(* A token that is complete on its own.                                    *)
LEMMA ReadsOne ==
    ASSUME seen \in Seq(Tokens), NEW token \in Tokens, token \notin Due, Reads(<<token>>), NEW V
    PROVE  Grows(token, V, V)
<1>1. /\ seen' = seen \o <<token>> /\ <<token>> \in Seq(Tokens)
      /\ Len(<<token>>) = 1 /\ <<token>>[1] = token /\ Len(seen) \in Nat
  BY DEF Reads
<1>2. /\ seen' \in Seq(Tokens) /\ Len(seen') = Len(seen) + 1
      /\ \A i \in 1 .. Len(seen) : seen'[i] = seen[i]
      /\ \A i \in 1 .. 1 : seen'[Len(seen) + i] = <<token>>[i]
  BY <1>1, ConcatIs
<1>. QED
  BY <1>1, <1>2 DEF Grows

(* A token and its value.                                                  *)
LEMMA ReadsTwo ==
    ASSUME seen \in Seq(Tokens), NEW token \in Tokens, token \in Due, NEW next \in Tokens,
           Reads(<<token, next>>), NEW V
    PROVE  /\ Grows(token, V, V \cup {Len(seen) + 2})
           /\ seen'[Len(seen) + 2] = next
<1>1. /\ seen' = seen \o <<token, next>> /\ <<token, next>> \in Seq(Tokens)
      /\ Len(<<token, next>>) = 2 /\ Len(seen) \in Nat
      /\ <<token, next>>[1] = token /\ <<token, next>>[2] = next
  BY DEF Reads
<1>2. /\ seen' \in Seq(Tokens) /\ Len(seen') = Len(seen) + 2
      /\ \A i \in 1 .. Len(seen) : seen'[i] = seen[i]
      /\ \A i \in 1 .. 2 : seen'[Len(seen) + i] = <<token, next>>[i]
  BY <1>1, ConcatIs
<1>. QED
  BY <1>1, <1>2 DEF Grows

(* What can be told of a token does not change while a command is read.    *)
SameCommand == program' = program

(* The program does not change, and with it the meaning of a token.        *)
LEMMA SameFlags ==
    ASSUME SameCommand
    PROVE  Due' = Due /\ Patterns' = Patterns /\ FileFlags' = FileFlags
<1>1. ASSUME NEW t PROVE TakesNext(t)' <=> TakesNext(t)
  BY DEF SameCommand, TakesNext, Known, FlagOf
<1>2. ASSUME NEW t, NEW name PROVE GivesIn(t, name)' <=> GivesIn(t, name)
  BY DEF SameCommand, GivesIn, Known, FlagOf
<1>3. FlagOf("f")' = FlagOf("f")
  BY DEF SameCommand, FlagOf
<1>4. Due' = Due
  BY <1>1 DEF Due
<1>5. Patterns' = Patterns
  BY <1>2 DEF Patterns
<1>6. FileFlags' = FileFlags
  BY <1>2, <1>3 DEF FileFlags
<1>. QED
  BY <1>4, <1>5, <1>6

(* The tokens that are free, after one more.                               *)
LEMMA FreeGrows ==
    ASSUME seen \in Seq(Tokens), NEW token, NEW V, NEW U, Walk(V), Grows(token, V, U)
    PROVE  /\ Len(seen) \in Nat /\ Len(seen') \in Nat
           /\ V \subseteq 1 .. Len(seen) /\ U \subseteq 1 .. Len(seen')
           /\ Free(U)' = Free(V) \cup {Len(seen) + 1}
           /\ Len(seen) + 1 \notin Free(V) /\ Len(seen) + 1 \notin U
           /\ \A i \in Free(V) :
                /\ i \in 1 .. Len(seen) /\ seen'[i] = seen[i]
                /\ i + 1 \in U <=> i + 1 \in V
                /\ i + 1 \in V => i + 1 \in 1 .. Len(seen) /\ seen'[i + 1] = seen[i + 1]
           /\ Len(seen) + 2 \in U <=> token \in Due
<1>. DEFINE n == Len(seen)
            m == Len(seen')
<1>1. n \in Nat /\ m \in Nat /\ V \subseteq 1 .. n /\ \A i \in 1 .. n : seen'[i] = seen[i]
  BY DEF Walk, Grows
<1>2. \/ token \in Due /\ m = n + 2 /\ U = V \cup {n + 2}
      \/ token \notin Due /\ m = n + 1 /\ U = V
  BY DEF Grows
<1>. HIDE DEF n, m
<1>3. U \subseteq 1 .. m /\ n + 1 \notin U /\ (n + 2 \in U <=> token \in Due)
  <2>1. n + 1 \notin V /\ n + 2 \notin V /\ V \subseteq 1 .. m
    BY <1>1, <1>2
  <2>2. token \in Due => n + 2 \in 1 .. m
    BY <1>1, <1>2
  <2>3. U \subseteq 1 .. m
    BY <1>2, <2>1, <2>2
  <2>4. n + 1 # n + 2
    BY <1>1
  <2>. QED
    BY <1>2, <2>1, <2>3, <2>4
<1>4. ((1 .. m) \ U) = ((1 .. n) \ V) \cup {n + 1}
  BY <1>1, <1>2
<1>5. \A i \in (1 .. n) \ V :
        /\ i + 1 \in U <=> i + 1 \in V
        /\ i + 1 \in V => i + 1 \in 1 .. n /\ seen'[i + 1] = seen[i + 1]
  BY <1>1, <1>2
<1>6. Free(V) = (1 .. n) \ V /\ Free(U)' = (1 .. m) \ U
  BY DEF Free, n, m
<1>. QED
  BY <1>1, <1>3, <1>4, <1>5, <1>6 DEF n, m

(* The walk goes on where it was: no value was due.                        *)
LEMMA WalkGrows ==
    ASSUME seen \in Seq(Tokens), NEW token, NEW V, NEW U, Walk(V), Grows(token, V, U), Due' = Due
    PROVE  Walk(U)'
<1>. DEFINE n == Len(seen)
            m == Len(seen')
<1>1. /\ n \in Nat /\ m \in Nat /\ V \subseteq 1 .. n
      /\ \A i \in 1 .. n : i \in V <=> i > 1 /\ i - 1 \notin V /\ seen[i - 1] \in Due
      /\ n # 0 => n \in V \/ seen[n] \notin Due
  BY DEF Walk, Grows
<1>2. /\ \A i \in 1 .. n : seen'[i] = seen[i]
      /\ seen'[n + 1] = token
  BY DEF Grows
<1>3. \/ token \in Due /\ m = n + 2 /\ U = V \cup {n + 2}
      \/ token \notin Due /\ m = n + 1 /\ U = V
  BY DEF Grows
<1>. HIDE DEF n, m
<1>4. U \subseteq 1 .. m
  <2>1. V \subseteq 1 .. m
    BY <1>1, <1>3
  <2>2. token \in Due => n + 2 \in 1 .. m
    BY <1>1, <1>3
  <2>. QED
    BY <1>3, <2>1, <2>2
<1>5. ASSUME NEW i \in 1 .. m
      PROVE  i \in U <=> i > 1 /\ i - 1 \notin U /\ seen'[i - 1] \in Due
  <2>1. CASE i \in 1 .. n
    <3>1. (i \in U <=> i \in V) /\ (i > 1 => (i - 1 \in U <=> i - 1 \in V) /\ i - 1 \in 1 .. n)
      BY <1>1, <1>3, <2>1
    <3>. QED
      BY <1>1, <1>2, <2>1, <3>1
  <2>2. CASE i = n + 1
    <3>1. i \notin U /\ i - 1 = n
      BY <1>1, <1>3, <2>2
    <3>2. i > 1 => n # 0 /\ n \in 1 .. n /\ (n \in U <=> n \in V)
      BY <1>1, <1>3, <2>2
    <3>. QED
      BY <1>1, <1>2, <3>1, <3>2
  <2>3. CASE i = n + 2
    <3>1. token \in Due /\ i \in U /\ i > 1 /\ i - 1 = n + 1 /\ i - 1 \notin U
      BY <1>1, <1>3, <2>3
    <3>. QED
      BY <1>2, <3>1
  <2>. QED
    BY <1>1, <1>3, <2>1, <2>2, <2>3
<1>6. m # 0 /\ (m \in U \/ seen'[m] \notin Due)
  BY <1>1, <1>2, <1>3
<1>. QED
  BY <1>4, <1>5, <1>6 DEF Walk, n, m

(* What a token must leave behind.                                         *)
Kept(token) ==
    /\ token.kind # "dashdash"
    /\ token.kind = "word" => token.text \in Fit'
    /\ token \in FileFlags =>
         (IF token \in Due THEN TextOf(seen'[Len(seen) + 2]) ELSE token.rest) \in paths'
    /\ operands' = operands + IF token.kind = "word" THEN 1 ELSE 0
    /\ sawPattern' = (sawPattern \/ token \in Patterns)
    /\ paths \subseteq paths'

(* What was kept of the tokens so far, and of one more, is kept of them    *)
(* all.                                                                    *)
LEMMA ReadsAsGrows ==
    ASSUME seen \in Seq(Tokens), NEW token, NEW V, NEW U, ReadsAs(V), SameCommand,
           Grows(token, V, U), Kept(token)
    PROVE  ReadsAs(U)'
<1>. DEFINE n == Len(seen)
<1>1. Walk(V) /\ Fitting(V) /\ Filed(V) /\ Counted(V) /\ Patterned(V)
  BY DEF ReadsAs
<1>2. Due' = Due /\ Patterns' = Patterns /\ FileFlags' = FileFlags
  BY SameFlags
<1>3. /\ n \in Nat
      /\ Free(U)' = Free(V) \cup {n + 1} /\ n + 1 \notin Free(V) /\ n + 1 \notin U
      /\ \A i \in Free(V) :
           /\ i \in 1 .. n /\ seen'[i] = seen[i]
           /\ i + 1 \in U <=> i + 1 \in V
           /\ i + 1 \in V => i + 1 \in 1 .. n /\ seen'[i + 1] = seen[i + 1]
      /\ n + 2 \in U <=> token \in Due
  BY <1>1, FreeGrows
<1>4. seen'[n + 1] = token /\ (n + 1) + 1 = n + 2
  BY <1>3 DEF Grows
<1>5. paths \subseteq paths' /\ Fit \subseteq Fit'
  BY DEF Kept, SameCommand, Fit
<1>. HIDE DEF n
<1>6. Walk(U)'
  BY <1>1, <1>2, WalkGrows
<1>7. Fitting(U)'
  <2>1. ASSUME NEW i \in Free(V)
        PROVE  seen'[i].kind # "dashdash" /\ (seen'[i].kind = "word" => seen'[i].text \in Fit')
    BY <1>1, <1>3, <1>5, <2>1 DEF Fitting
  <2>2. token.kind # "dashdash" /\ (token.kind = "word" => token.text \in Fit')
    BY DEF Kept
  <2>. QED
    BY <1>3, <1>4, <2>1, <2>2 DEF Fitting
<1>8. Filed(U)'
  <2>1. ASSUME NEW i \in Free(V), seen'[i] \in FileFlags
        PROVE  (IF i + 1 \in U THEN TextOf(seen'[i + 1]) ELSE seen'[i].rest) \in paths'
    <3>1. (IF i + 1 \in V THEN TextOf(seen[i + 1]) ELSE seen[i].rest) \in paths
      BY <1>1, <1>3, <2>1 DEF Filed
    <3>. QED
      BY <1>3, <1>5, <2>1, <3>1
  <2>2. ASSUME token \in FileFlags
        PROVE  (IF n + 2 \in U THEN TextOf(seen'[n + 2]) ELSE token.rest) \in paths'
    BY <1>3, <2>2 DEF Kept, n
  <2>3. ASSUME NEW i \in Free(U)', seen'[i] \in FileFlags
        PROVE  (IF i + 1 \in U THEN TextOf(seen'[i + 1]) ELSE seen'[i].rest) \in paths'
    <3>1. CASE i \in Free(V)
      BY <2>1, <2>3, <3>1
    <3>2. CASE i = n + 1
      BY <1>4, <2>2, <2>3, <3>2
    <3>. QED
      BY <1>3, <3>1, <3>2
  <2>. QED
    BY <1>2, <2>3 DEF Filed, TextOf, IsFlag
<1>9. Counted(U)'
  <2>1. Words(U)' = {i \in Free(U)' : seen'[i].kind = "word"}
    BY DEF Words
  <2>2. Words(U)' = IF token.kind = "word" THEN Words(V) \cup {n + 1} ELSE Words(V)
    BY <1>3, <1>4, <2>1 DEF Words
  <2>3. n + 1 \notin Words(V)
    BY <1>3 DEF Words
  <2>4. IsFiniteSet(Words(V))
    BY WordsCounted
  <2>5. Cardinality(Words(V) \cup {n + 1}) = Cardinality(Words(V)) + 1
    BY <2>3, <2>4, FS_AddElement
  <2>6. operands = Cardinality(Words(V)) /\ Cardinality(Words(V)) \in Nat
    BY <1>1, WordsCounted DEF Counted
  <2>7. operands' = Cardinality(Words(U)')
    BY <2>2, <2>5, <2>6 DEF Kept
  <2>. QED
    BY <2>7 DEF Counted
<1>10. Patterned(U)'
  <2>1. sawPattern = \E i \in Free(V) : seen[i] \in Patterns
    BY <1>1 DEF Patterned
  <2>2. (\E i \in Free(U)' : seen'[i] \in Patterns)
          <=> (\E i \in Free(V) : seen[i] \in Patterns) \/ token \in Patterns
    BY <1>3, <1>4
  <2>3. sawPattern' = \E i \in Free(U)' : seen'[i] \in Patterns
    BY <2>1, <2>2 DEF Kept
  <2>. QED
    BY <1>2, <2>3 DEF Patterned
<1>. QED
  BY <1>6, <1>7, <1>8, <1>9, <1>10 DEF ReadsAs

-----------------------------------------------------------------------------
(* The invariant *)

DecisionInv ==
    /\ verdict = "reading" => decision = "none"
    /\ decision = "unasked" => AutoAllowed \/ Remembered

CallInv ==
    /\ tool \in DOMAIN Kind
    /\ args \in Calls
    /\ operands \in Nat
    /\ sawPattern \in BOOLEAN
    /\ ReadInv
    /\ DecisionInv

(* Nothing has been read, and nothing has been decided.                    *)
LEMMA CallInit == Init => CallInv
<1>. SUFFICES ASSUME Init PROVE CallInv
  OBVIOUS
<1>1. /\ tool \in DOMAIN Kind /\ args \in Calls /\ operands = 0 /\ sawPattern = FALSE
      /\ seen = <<>> /\ paths = {} /\ decision = "none" /\ verdict \in {"reading", "none"}
      /\ verdict = "reading" => program \in DOMAIN Programs /\ Kind[tool] = "execute"
  BY DEF Init
<1>2. DecisionInv
  BY <1>1 DEF DecisionInv
<1>3. ReadInv
  <2>1. Len(seen) = 0 /\ seen \in Seq(Tokens)
    BY <1>1
  <2>2. Free({}) = {} /\ Words({}) = {}
    BY <2>1 DEF Free, Words
  <2>3. Walk({})
    BY <2>1 DEF Walk
  <2>4. Fitting({}) /\ Filed({}) /\ Patterned({})
    BY <1>1, <2>2 DEF Fitting, Filed, Patterned
  <2>5. Counted({})
    BY <1>1, <2>2, FS_EmptySet DEF Counted
  <2>6. \E V : ReadsAs(V)
    BY <2>3, <2>4, <2>5 DEF ReadsAs
  <2>. QED
    BY <1>1, <2>1, <2>6 DEF ReadInv
<1>. QED
  BY <1>1, <1>2, <1>3 DEF CallInv

(* A command is read on.                                                   *)
LEMMA KeepsReading ==
    ASSUME CallInv, verdict = "reading", verdict' = verdict, UNCHANGED <<call, program, decision>>,
           NEW token, NEW V, NEW U, ReadsAs(V), Grows(token, V, U), Kept(token), "dash" \notin paths'
    PROVE  CallInv'
<1>1. /\ program \in DOMAIN Programs /\ Kind[tool] = "execute" /\ seen \in Seq(Tokens)
      /\ decision = "none" /\ operands \in Nat
  BY DEF CallInv, ReadInv, DecisionInv
<1>2. ReadsAs(U)'
  BY <1>1, ReadsAsGrows DEF SameCommand
<1>3. seen' \in Seq(Tokens)
  BY DEF Grows
<1>4. \E X : ReadsAs(X)'
  BY <1>2
<1>5. ReadInv'
  BY <1>1, <1>3, <1>4 DEF ReadInv, call
<1>6. DecisionInv'
  BY <1>1 DEF DecisionInv
<1>7. operands' \in Nat /\ sawPattern' \in BOOLEAN
  BY <1>1 DEF Kept
<1>. QED
  BY <1>5, <1>6, <1>7 DEF CallInv, call

(* Of a command that cannot be told nothing is kept.                       *)
LEMMA GivesUpKeeps ==
    ASSUME CallInv, verdict = "reading", GivesUp
    PROVE  CallInv'
<1>1. verdict' = "unclassified" /\ decision' = decision /\ decision = "none"
  BY DEF GivesUp, CallInv, DecisionInv
<1>2. ReadInv' /\ DecisionInv'
  BY <1>1 DEF ReadInv, DecisionInv
<1>3. operands' = 0 /\ sawPattern' = FALSE /\ UNCHANGED <<tool, args>>
  BY DEF GivesUp, call
<1>. QED
  BY <1>2, <1>3 DEF CallInv

(* The value of a flag is kept if it is a file, and cannot be `-`.         *)
LEMMA ValueKept ==
    ASSUME CallInv, verdict = "reading", NEW token \in Tokens, IsFlag(token),
           ReadFlag(token).needs \in {"attached", "next"}, NEW value, ValidValue(value),
           AddValue(ReadFlag(token).name, value),
           IF token \in Due THEN value = TextOf(seen'[Len(seen) + 2]) ELSE value = ReadFlag(token).value
    PROVE  /\ Kept(token) /\ "dash" \notin paths' /\ verdict' = verdict
           /\ token \in Due <=> ReadFlag(token).needs = "next"
<1>. DEFINE name == ReadFlag(token).name
<1>1. program \in DOMAIN Programs /\ operands \in Nat /\ "dash" \notin paths
  BY DEF CallInv, ReadInv
<1>2. ReadsRight(token)
  BY <1>1, FlagsReadRight
<1>3. /\ token \in Due <=> ReadFlag(token).needs = "next"
      /\ \A x \in {"e", "f"} : GivesIn(token, x) <=> name = x
      /\ token \notin Due /\ name = "f" => ReadFlag(token).value = token.rest
  BY <1>2 DEF ReadsRight, Due
<1>4. /\ sawPattern' = (sawPattern \/ name \in {"e", "f"})
      /\ paths' = IF FlagOf(name).path THEN paths \cup {value} ELSE paths
      /\ verdict' = verdict /\ operands' = operands
  BY DEF AddValue
<1>. HIDE DEF name
<1>5. token.kind # "word" /\ token.kind # "dashdash"
  BY DEF IsFlag
<1>6. "dash" \notin paths' /\ paths \subseteq paths'
  BY <1>1, <1>4 DEF ValidValue
<1>7. token \in Patterns <=> name \in {"e", "f"}
  BY <1>3 DEF Patterns
<1>8. token \in FileFlags => name = "f" /\ value \in paths'
  BY <1>3, <1>4 DEF FileFlags
<1>9. token \in FileFlags =>
        (IF token \in Due THEN TextOf(seen'[Len(seen) + 2]) ELSE token.rest) \in paths'
  BY <1>3, <1>8
<1>10. operands' = operands + IF token.kind = "word" THEN 1 ELSE 0
  BY <1>1, <1>4, <1>5
<1>11. Kept(token)
  BY <1>4, <1>5, <1>6, <1>7, <1>9, <1>10 DEF Kept
<1>. QED
  BY <1>3, <1>4, <1>6, <1>11

(* What is known while a command is read.                                  *)
LEMMA ReadingFacts ==
    ASSUME CallInv, verdict = "reading"
    PROVE  /\ program \in DOMAIN Programs /\ seen \in Seq(Tokens) /\ "dash" \notin paths
           /\ operands \in Nat /\ sawPattern \in BOOLEAN
           /\ \E V : ReadsAs(V)
  BY DEF CallInv, ReadInv

(* A flag without a value.                                                 *)
LEMMA SwitchKeeps ==
    ASSUME CallInv, verdict = "reading", NEW token \in Tokens, SwitchToken(token)
    PROVE  CallInv'
<1>1. PICK V : ReadsAs(V)
  BY ReadingFacts
<1>2. ReadsRight(token) /\ seen \in Seq(Tokens) /\ IsFlag(token) /\ Reads(<<token>>)
  BY ReadingFacts, FlagsReadRight DEF SwitchToken
<1>3. token \notin Due /\ token \notin Patterns /\ token \notin FileFlags
  BY <1>2 DEF SwitchToken, ReadsRight, Due, Patterns, FileFlags
<1>4. Grows(token, V, V)
  BY <1>2, <1>3, ReadsOne
<1>5. UNCHANGED <<verdict, operands, paths, sawPattern>> /\ UNCHANGED <<call, program, decision>>
  BY <1>2 DEF SwitchToken, Reads
<1>6. token.kind # "word" /\ token.kind # "dashdash"
  BY <1>2 DEF IsFlag
<1>7. Kept(token) /\ "dash" \notin paths'
  BY <1>3, <1>5, <1>6, ReadingFacts DEF Kept
<1>. QED
  BY <1>1, <1>4, <1>5, <1>7, KeepsReading

(* A flag with its value.                                                  *)
LEMMA AttachedKeeps ==
    ASSUME CallInv, verdict = "reading", NEW token \in Tokens, AttachedValue(token)
    PROVE  CallInv'
<1>. DEFINE value == ReadFlag(token).value
<1>1. IsFlag(token) /\ ReadFlag(token).needs = "attached"
  BY DEF AttachedValue
<1>2. CASE ValidValue(value)
  <2>1. Reads(<<token>>) /\ AddValue(ReadFlag(token).name, value)
    BY <1>2 DEF AttachedValue
  <2>2. PICK V : ReadsAs(V)
    BY ReadingFacts
  <2>3. token \notin Due
    BY <1>1, ReadingFacts, FlagsReadRight DEF ReadsRight, Due
  <2>4. Kept(token) /\ "dash" \notin paths' /\ verdict' = verdict
    BY <1>1, <1>2, <2>1, <2>3, ValueKept
  <2>5. Grows(token, V, V)
    BY <2>1, <2>3, ReadingFacts, ReadsOne
  <2>6. UNCHANGED <<call, program, decision>>
    BY <2>1 DEF Reads
  <2>. QED
    BY <2>2, <2>4, <2>5, <2>6, KeepsReading
<1>3. CASE ~ValidValue(value)
  BY <1>3, GivesUpKeeps DEF AttachedValue
<1>. QED
  BY <1>2, <1>3

(* A flag whose value is the next token.                                   *)
LEMMA SeparateKeeps ==
    ASSUME CallInv, verdict = "reading", NEW token \in Tokens, SeparateValue(token)
    PROVE  CallInv'
<1>1. IsFlag(token) /\ ReadFlag(token).needs = "next"
  BY DEF SeparateValue
<1>2. PICK next \in Tokens :
        IF ValidValue(TextOf(next))
        THEN Reads(<<token, next>>) /\ AddValue(ReadFlag(token).name, TextOf(next))
        ELSE GivesUp
  BY DEF SeparateValue
<1>3. CASE ValidValue(TextOf(next))
  <2>1. Reads(<<token, next>>) /\ AddValue(ReadFlag(token).name, TextOf(next))
    BY <1>2, <1>3
  <2>2. PICK V : ReadsAs(V)
    BY ReadingFacts
  <2>3. token \in Due
    BY <1>1, ReadingFacts, FlagsReadRight DEF ReadsRight, Due
  <2>4. Grows(token, V, V \cup {Len(seen) + 2}) /\ seen'[Len(seen) + 2] = next
    BY <2>1, <2>3, ReadingFacts, ReadsTwo
  <2>5. Kept(token) /\ "dash" \notin paths' /\ verdict' = verdict
    BY <1>1, <1>3, <2>1, <2>3, <2>4, ValueKept
  <2>6. UNCHANGED <<call, program, decision>>
    BY <2>1 DEF Reads
  <2>. QED
    BY <2>2, <2>4, <2>5, <2>6, KeepsReading
<1>4. CASE ~ValidValue(TextOf(next))
  BY <1>2, <1>4, GivesUpKeeps
<1>. QED
  BY <1>3, <1>4

(* An operand.                                                             *)
LEMMA OperandKeeps ==
    ASSUME CallInv, verdict = "reading", NEW token \in Tokens, Operand(token)
    PROVE  CallInv'
<1>. DEFINE policy == Programs[program].operands
<1>1. token.kind = "word" /\ ValidWord(token.text)
  BY DEF Operand
<1>2. CASE policy = "Formats" /\ token.text # "format"
  BY <1>2, GivesUpKeeps DEF Operand
<1>3. CASE ~(policy = "Formats" /\ token.text # "format")
  <2>1. /\ Reads(<<token>>) /\ operands' = operands + 1
        /\ paths' = IF policy = "Paths" THEN paths \cup {token.text} ELSE paths
        /\ UNCHANGED <<verdict, sawPattern>>
    BY <1>3 DEF Operand
  <2>2. PICK V : ReadsAs(V)
    BY ReadingFacts
  <2>3. token \notin Due /\ token \notin Patterns /\ token \notin FileFlags
    BY <1>1 DEF Due, TakesNext, Patterns, FileFlags, GivesIn
  <2>4. Grows(token, V, V)
    BY <2>1, <2>3, ReadingFacts, ReadsOne
  <2>5. UNCHANGED <<call, program, decision>>
    BY <2>1 DEF Reads
  <2>6. "dash" \notin paths' /\ paths \subseteq paths'
    BY <1>1, <2>1, ReadingFacts DEF ValidWord
  <2>7. token.text \in Texts
    BY <1>1, TokenShape DEF LongShape, ShortShape, WordShape
  <2>8. token.text \in Fit'
    BY <1>3, <2>1, <2>5, <2>7 DEF Fit
  <2>9. Kept(token)
    BY <1>1, <2>1, <2>3, <2>6, <2>8, ReadingFacts DEF Kept
  <2>. QED
    BY <2>1, <2>2, <2>4, <2>5, <2>6, <2>9, KeepsReading
<1>. QED
  BY <1>2, <1>3

(* What is read stays read while the parser does nothing.                  *)
LEMMA ReadsAsStays ==
    ASSUME UNCHANGED <<program, seen, operands, paths, sawPattern>>, NEW V, ReadsAs(V)
    PROVE  ReadsAs(V)'
<1>1. UNCHANGED program /\ UNCHANGED seen /\ UNCHANGED operands /\ UNCHANGED paths /\ UNCHANGED sawPattern
  OBVIOUS
<1>2. Due' = Due /\ Patterns' = Patterns /\ FileFlags' = FileFlags /\ Fit' = Fit
  BY <1>1, SameFlags DEF Fit, SameCommand
<1>3. Free(V)' = Free(V) /\ Words(V)' = Words(V)
  BY <1>1 DEF Words, Free
<1>4. Walk(V)'
  BY <1>1, <1>2 DEF ReadsAs, Walk
<1>5. Fitting(V)'
  BY <1>1, <1>2, <1>3 DEF ReadsAs, Fitting
<1>6. Counted(V)'
  BY <1>1, <1>3 DEF ReadsAs, Counted
<1>7. Patterned(V)'
  BY <1>1, <1>2, <1>3 DEF ReadsAs, Patterned
<1>8. Filed(V)'
  BY <1>1, <1>2, <1>3 DEF ReadsAs, Filed, TextOf, IsFlag
<1>. QED
  BY <1>4, <1>5, <1>6, <1>7, <1>8 DEF ReadsAs

(* The same of the invariant.                                              *)
LEMMA ReadInvStays ==
    ASSUME ReadInv, UNCHANGED <<tool, program, seen, operands, paths, sawPattern, verdict>>
    PROVE  ReadInv'
<1>. SUFFICES ASSUME verdict \in {"reading", "safe"} PROVE ReadInv'
  BY DEF ReadInv
<1>1. PICK V : ReadsAs(V)
  BY DEF ReadInv
<1>2. \E X : ReadsAs(X)'
  BY <1>1, ReadsAsStays
<1>3. verdict = "safe" => Countable'
  BY DEF ReadInv, Countable, Files
<1>. QED
  BY <1>2, <1>3 DEF ReadInv

(* The line ends: the command is safe, or is given up.                     *)
LEMMA FinishKeeps ==
    ASSUME CallInv, verdict = "reading", Finish
    PROVE  CallInv'
<1>1. CASE Countable
  <2>1. verdict' = "safe" /\ UNCHANGED <<tool, args, program, operands, paths, sawPattern, seen, decision>>
    BY <1>1 DEF Finish, call, parser
  <2>2. PICK V : ReadsAs(V)
    BY ReadingFacts
  <2>3. \E X : ReadsAs(X)'
    BY <2>1, <2>2, ReadsAsStays
  <2>4. Countable'
    BY <1>1, <2>1 DEF Countable, Files
  <2>5. ReadInv'
    BY <2>1, <2>3, <2>4 DEF CallInv, ReadInv
  <2>6. DecisionInv'
    BY <2>1 DEF CallInv, DecisionInv
  <2>. QED
    BY <2>1, <2>5, <2>6 DEF CallInv
<1>2. CASE ~Countable
  BY <1>2, GivesUpKeeps DEF Finish
<1>. QED
  BY <1>1, <1>2

(* The decision leaves the parser alone.                                   *)
LEMMA DecideKeeps ==
    ASSUME CallInv, Decide
    PROVE  CallInv'
<1>1. /\ UNCHANGED <<tool, args, program, operands, paths, sawPattern, seen, verdict>>
      /\ verdict # "reading"
      /\ decision' = IF AutoAllowed \/ Remembered THEN "unasked" ELSE "ask"
  BY DEF Decide, call, parser
<1>2. (AutoAllowed <=> AutoAllowed') /\ (Remembered <=> Remembered')
  BY <1>1 DEF AutoAllowed, Remembered, Scope, HasUnconstrainedReach, EscapesContainment,
              ClassifiedPathsEscape, OutsideWorkspace, Strings, PathFields
<1>3. DecisionInv'
  BY <1>1, <1>2 DEF DecisionInv
<1>4. ReadInv'
  BY <1>1, ReadInvStays DEF CallInv
<1>. QED
  BY <1>1, <1>3, <1>4 DEF CallInv

(* Every step keeps the invariant.                                         *)
LEMMA CallNext == CallInv /\ [Next]_vars => CallInv'
<1>. SUFFICES ASSUME CallInv, [Next]_vars PROVE CallInv'
  OBVIOUS
<1>1. CASE Classify
  <2>1. verdict = "reading"
    BY <1>1 DEF Classify
  <2>2. CASE Finish
    BY <2>1, <2>2, FinishKeeps
  <2>3. ASSUME NEW token \in Tokens,
               \/ SwitchToken(token) \/ AttachedValue(token) \/ SeparateValue(token)
               \/ MissingValue(token) \/ RefusedToken(token) \/ Operand(token)
        PROVE  CallInv'
    <3>1. CASE SwitchToken(token)
      BY <2>1, <3>1, SwitchKeeps
    <3>2. CASE AttachedValue(token)
      BY <2>1, <3>2, AttachedKeeps
    <3>3. CASE SeparateValue(token)
      BY <2>1, <3>3, SeparateKeeps
    <3>4. CASE MissingValue(token) \/ RefusedToken(token)
      BY <2>1, <3>4, GivesUpKeeps DEF MissingValue, RefusedToken
    <3>5. CASE Operand(token)
      BY <2>1, <3>5, OperandKeeps
    <3>. QED
      BY <2>3, <3>1, <3>2, <3>3, <3>4, <3>5
  <2>. QED
    BY <1>1, <2>2, <2>3 DEF Classify
<1>2. CASE Decide
  BY <1>2, DecideKeeps
<1>3. CASE UNCHANGED vars
  <2>1. UNCHANGED <<tool, args, program, operands, paths, sawPattern, seen, verdict, decision>>
    BY <1>3 DEF vars, call, parser
  <2>2. ReadInv'
    BY <2>1, ReadInvStays DEF CallInv
  <2>3. (AutoAllowed <=> AutoAllowed') /\ (Remembered <=> Remembered')
    BY <2>1 DEF AutoAllowed, Remembered, Scope, HasUnconstrainedReach, EscapesContainment,
                ClassifiedPathsEscape, OutsideWorkspace, Strings, PathFields
  <2>4. DecisionInv'
    BY <2>1, <2>3 DEF CallInv, DecisionInv
  <2>. QED
    BY <2>1, <2>2, <2>4 DEF CallInv
<1>. QED
  BY <1>1, <1>2, <1>3 DEF Next

(* The invariant holds throughout.                                         *)
LEMMA CallAlways == Spec => []CallInv
  BY CallInit, CallNext, PTL DEF Spec

-----------------------------------------------------------------------------
(* The theorems *)

(* What the classifier calls safe opens no file it has not extracted, so   *)
(* that containment judges each one, reads nothing from a pipe it cannot   *)
(* see, and changes nothing: whatever the order of flags, values and       *)
(* operands, and however long the line (`classify`).                       *)
THEOREM SafeSeen == Spec => []SafeMeansSeen
<1>1. CallInv => SafeMeansSeen
  BY SafeIsSeen DEF CallInv
<1>. QED
  BY <1>1, CallAlways, PTL

(* The tools that run without a question work on files: what the groups    *)
(* `reads` and `searches` name does (READ_TOOLS, SEARCH_TOOLS).  A user    *)
(* may name any other tool, and has then asked for what it does.           *)
AutoToolsWorkOnFiles ==
    \A t \in AutoTools \cap DOMAIN Kind : Kind[t] \in KeyedByTool /\ t # "read_url_content"

(* The path fields of a call that does not escape are inside.              *)
LEMMA InsideIfContained ==
    ASSUME args \in Calls, ~EscapesContainment
    PROVE  \A p \in PathFields : p \in Inside /\ ~IsSensitive(p)
<1>. SUFFICES ASSUME NEW p \in PathFields PROVE p \in Inside /\ ~IsSensitive(p)
  OBVIOUS
<1>1. p \in Inside
  BY DEF EscapesContainment, OutsideWorkspace
<1>2. p \in Strings
  BY <1>1 DEF PathFields, Strings, Inside
<1>. QED
  BY <1>1, <1>2 DEF EscapesContainment

(* Whatever let the call pass, it has been judged by all it touches.       *)
LEMMA UnaskedIsInside ==
    ASSUME CallInv, AutoToolsWorkOnFiles
    PROVE  UnaskedStaysInside
<1>. SUFFICES ASSUME decision = "unasked"
              PROVE  ~Opaque /\ \A p \in Touched : p \in Inside /\ ~IsSensitive(p)
  BY DEF UnaskedStaysInside
<1>1. /\ tool \in DOMAIN Kind /\ args \in Calls /\ SafeMeansSeen
      /\ verdict = "safe" => Kind[tool] = "execute"
      /\ AutoAllowed \/ Remembered
  BY SafeIsSeen DEF CallInv, ReadInv, DecisionInv
<1>2. ~EscapesContainment
  BY <1>1 DEF AutoAllowed, Remembered
<1>3. \A p \in PathFields : p \in Inside /\ ~IsSensitive(p)
  BY <1>1, <1>2, InsideIfContained
<1>4. CASE AutoAllowed
  <2>1. Kind[tool] \in KeyedByTool /\ tool # "read_url_content"
    BY <1>1, <1>4 DEF AutoAllowed, AutoToolsWorkOnFiles
  <2>2. Kind[tool] # "execute" /\ verdict # "safe"
    BY <1>1, <2>1 DEF KeyedByTool
  <2>. QED
    BY <1>3, <2>1, <2>2 DEF Opaque, Touched
<1>5. CASE Remembered /\ verdict = "safe"
  <2>1. ~ClassifiedPathsEscape
    BY <1>5 DEF Remembered
  <2>2. \A p \in paths : p \in Inside /\ ~IsSensitive(p)
    BY <2>1 DEF ClassifiedPathsEscape, OutsideWorkspace
  <2>3. Opened \subseteq paths
    BY <1>1, <1>5 DEF SafeMeansSeen
  <2>. QED
    <3>1. Touched = Opened \cup PathFields
      BY <1>5 DEF Touched
    <3>2. ~Opaque
      <4>1. Kind[tool] = "execute"
        BY <1>1, <1>5
      <4>2. tool # "read_url_content"
        BY <4>1 DEF Kind
      <4>. QED
        BY <1>5, <4>1, <4>2 DEF Opaque
    <3>. QED
      BY <1>3, <2>2, <2>3, <3>1, <3>2
<1>6. CASE Remembered /\ verdict # "safe"
  <2>1. Kind[tool] \in KeyedByTool /\ ~HasUnconstrainedReach
    BY <1>6 DEF Remembered, Scope
  <2>2. Kind[tool] # "execute" /\ args.other # "url"
    BY <2>1 DEF KeyedByTool, HasUnconstrainedReach
  <2>. QED
    BY <1>3, <1>6, <2>1, <2>2 DEF Opaque, Touched
<1>. QED
  BY <1>1, <1>4, <1>5, <1>6

(* However much has been allowed for good, what runs unasked touches files *)
(* inside the workspace only, nothing sensitive, and nothing else          *)
(* (`decide`, `auto_allow_reason`, `remembered_decision`).                 *)
THEOREM UnaskedInside == AutoToolsWorkOnFiles => (Spec => []UnaskedStaysInside)
<1>. SUFFICES ASSUME AutoToolsWorkOnFiles PROVE Spec => []UnaskedStaysInside
  OBVIOUS
<1>1. CallInv => UnaskedStaysInside
  BY UnaskedIsInside
<1>. QED
  BY <1>1, CallAlways, PTL

-----------------------------------------------------------------------------
(* The replay of a conversation *)

(* Of a list of parts one more is kept, or left out as narration.          *)
Keeps(T) ==
    [p \in Seq(T) \X T |-> IF skip_naration /\ Database!Narration(p[2]) THEN p[1] ELSE Append(p[1], p[2])]

LEMMA KeepsIs ==
    ASSUME NEW T, NEW X, X = Seq(T)
    PROVE  GoesOn(Keeps(T), <<>>, X, T)
<1>1. ASSUME NEW p \in X, NEW x \in T
      PROVE  Append(p, x) \in X
  BY AppendIs
<1>2. Keeps(T) = [p \in X \X T |->
                    IF skip_naration /\ Database!Narration(p[2]) THEN p[1] ELSE Append(p[1], p[2])]
  BY DEF Keeps
<1>3. <<>> \in X
  OBVIOUS
<1>4. \A p \in X \X T : p[1] \in X /\ p[2] \in T
  OBVIOUS
<1>5. Keeps(T) \in [X \X T -> X]
  BY <1>1, <1>2, <1>4
<1>. QED
  BY <1>3, <1>5 DEF GoesOn

LEMMA KeepsOne ==
    ASSUME NEW T, NEW p \in Seq(T), NEW x \in T
    PROVE  Keeps(T)[<<p, x>>] = IF skip_naration /\ Database!Narration(x) THEN p ELSE Append(p, x)
<1>1. PICK X : X = Seq(T)
  OBVIOUS
<1>2. Keeps(T) = [q \in X \X T |->
                    IF skip_naration /\ Database!Narration(q[2]) THEN q[1] ELSE Append(q[1], q[2])]
  BY <1>1 DEF Keeps
<1>3. p \in X
  BY <1>1
<1>4. <<p, x>> \in X \X T /\ <<p, x>>[1] = p /\ <<p, x>>[2] = x
  BY <1>3
<1>. QED
  BY <1>2, <1>4

LEMMA FilteredFolds ==
    ASSUME NEW T, NEW parts \in Seq(T)
    PROVE  \E f : Folds(f, Keeps(T), <<>>, Seq(T), parts) /\ Database!Filtered(parts) = f[Len(parts)]
<1>. DEFINE N == Len(parts)
            F(g) == [n \in 0 .. N |->
                       IF n = 0 THEN <<>>
                       ELSE IF skip_naration /\ Database!Narration(parts[n]) THEN g[n - 1]
                       ELSE Append(g[n - 1], parts[n])]
            B == CHOOSE g : g = F(g)
<1>1. PICK f : Folds(f, Keeps(T), <<>>, Seq(T), parts)
  <2>1. PICK X : X = Seq(T)
    OBVIOUS
  <2>2. GoesOn(Keeps(T), <<>>, X, T)
    BY <2>1, KeepsIs
  <2>3. \E f : Folds(f, Keeps(T), <<>>, X, parts)
    BY <2>2, FoldExists
  <2>. QED
    BY <2>1, <2>3
<1>2. /\ f \in [0 .. N -> Seq(T)] /\ f[0] = <<>> /\ N \in Nat
      /\ \A n \in 1 .. N : f[n] = Keeps(T)[<<f[n - 1], parts[n]>>]
  BY <1>1 DEF Folds
<1>3. ASSUME NEW n \in 1 .. N
      PROVE  f[n] = IF skip_naration /\ Database!Narration(parts[n]) THEN f[n - 1] ELSE Append(f[n - 1], parts[n])
  <2>1. n - 1 \in 0 .. N /\ parts[n] \in T
    BY <1>2
  <2>2. f[n - 1] \in Seq(T)
    BY <1>2, <2>1
  <2>. QED
    BY <1>2, <2>1, <2>2, KeepsOne
<1>4. f = F(f)
  <2>1. ASSUME NEW n \in 0 .. N PROVE f[n] = F(f)[n]
    <3>1. n = 0 \/ n \in 1 .. N
      BY <1>2
    <3>. QED
      BY <1>2, <1>3, <3>1
  <2>. QED
    BY <1>2, <2>1
<1>5. B = F(B)
  BY <1>4
<1>. HIDE DEF B
<1>. DEFINE S == {k \in Nat : k <= N => B[k] = f[k]}
<1>6. 0 \in S
  <2>1. 0 \in 0 .. N
    BY <1>2
  <2>2. F(B)[0] = <<>>
    BY <2>1
  <2>. QED
    BY <1>2, <1>5, <2>2
<1>7. ASSUME NEW k \in Nat, k \in S PROVE k + 1 \in S
  <2>. SUFFICES ASSUME k + 1 <= N PROVE B[k + 1] = f[k + 1]
    OBVIOUS
  <2>0. k <= N
    BY <1>2
  <2>1. k + 1 \in 0 .. N /\ k + 1 \in 1 .. N /\ (k + 1) - 1 = k /\ B[k] = f[k] /\ k + 1 # 0
    BY <1>2, <1>7, <2>0
  <2>2. F(B)[k + 1] = IF skip_naration /\ Database!Narration(parts[k + 1]) THEN B[k]
                      ELSE Append(B[k], parts[k + 1])
    BY <2>1
  <2>. QED
    BY <1>3, <1>5, <2>1, <2>2
<1>8. B[N] = f[N]
  <2>1. N \in S
    <3>. HIDE DEF S, N
    <3>. QED
      BY <1>2, <1>6, <1>7, SetInduction
  <2>. QED
    BY <1>2, <2>1
<1>9. Database!Filtered(parts) = B[N]
  BY DEF Database!Filtered, B
<1>. QED
  BY <1>1, <1>8, <1>9

LEMMA FilteredIs ==
    ASSUME NEW T
    PROVE  /\ Database!Filtered(<<>>) = <<>>
           /\ \A parts \in Seq(T) : Database!Filtered(parts) \in Seq(T)
           /\ \A parts \in Seq(T), x \in T :
                Database!Filtered(Append(parts, x)) =
                    IF skip_naration /\ Database!Narration(x) THEN Database!Filtered(parts)
                    ELSE Append(Database!Filtered(parts), x)
<1>1. Database!Filtered(<<>>) = <<>>
  <2>1. <<>> \in Seq(T) /\ Len(<<>>) = 0
    OBVIOUS
  <2>2. PICK f : Folds(f, Keeps(T), <<>>, Seq(T), <<>>) /\ Database!Filtered(<<>>) = f[Len(<<>>)]
    BY <2>1, FilteredFolds
  <2>. QED
    BY <2>1, <2>2 DEF Folds
<1>2. ASSUME NEW parts \in Seq(T) PROVE Database!Filtered(parts) \in Seq(T)
  <2>1. PICK f : Folds(f, Keeps(T), <<>>, Seq(T), parts) /\ Database!Filtered(parts) = f[Len(parts)]
    BY FilteredFolds
  <2>2. f \in [0 .. Len(parts) -> Seq(T)] /\ Len(parts) \in 0 .. Len(parts)
    BY <2>1 DEF Folds
  <2>. QED
    BY <2>1, <2>2
<1>3. ASSUME NEW parts \in Seq(T), NEW x \in T
      PROVE  Database!Filtered(Append(parts, x)) = Keeps(T)[<<Database!Filtered(parts), x>>]
  <2>1. Append(parts, x) \in Seq(T)
    BY AppendIs
  <2>2. PICK f : Folds(f, Keeps(T), <<>>, Seq(T), parts) /\ Database!Filtered(parts) = f[Len(parts)]
    BY FilteredFolds
  <2>3. PICK g : /\ Folds(g, Keeps(T), <<>>, Seq(T), Append(parts, x))
                 /\ Database!Filtered(Append(parts, x)) = g[Len(Append(parts, x))]
    BY <2>1, FilteredFolds
  <2>4. g[Len(Append(parts, x))] = Keeps(T)[<<f[Len(parts)], x>>]
    BY <2>2, <2>3, FoldAppend
  <2>. QED
    BY <2>2, <2>3, <2>4
<1>4. ASSUME NEW parts \in Seq(T), NEW x \in T
      PROVE  Database!Filtered(Append(parts, x)) =
                 IF skip_naration /\ Database!Narration(x) THEN Database!Filtered(parts)
                 ELSE Append(Database!Filtered(parts), x)
  <2>1. PICK p : p = Database!Filtered(parts)
    OBVIOUS
  <2>2. p \in Seq(T)
    BY <1>2, <2>1
  <2>3. Keeps(T)[<<p, x>>] = IF skip_naration /\ Database!Narration(x) THEN p ELSE Append(p, x)
    BY <2>2, KeepsOne
  <2>4. Database!Filtered(Append(parts, x)) = Keeps(T)[<<p, x>>]
    BY <1>3, <2>1
  <2>. QED
    BY <2>1, <2>3, <2>4
<1>. QED
  BY <1>1, <1>2, <1>4

(* The lines of a transcript, message by message.                          *)
Joins(L, M) == [p \in Seq(L) \X M |-> p[1] \o Database!LinesOf(p[2])]

Lined(L, M) == \A m \in M : Database!LinesOf(m) \in Seq(L)

LEMMA JoinsIs ==
    ASSUME NEW L, NEW M, Lined(L, M), NEW X, X = Seq(L)
    PROVE  GoesOn(Joins(L, M), <<>>, X, M)
<1>1. ASSUME NEW p \in X, NEW m \in M PROVE p \o Database!LinesOf(m) \in X
  BY ConcatIs DEF Lined
<1>2. Joins(L, M) = [p \in X \X M |-> p[1] \o Database!LinesOf(p[2])]
  BY DEF Joins
<1>3. <<>> \in X
  OBVIOUS
<1>4. \A p \in X \X M : p[1] \in X /\ p[2] \in M
  OBVIOUS
<1>5. Joins(L, M) \in [X \X M -> X]
  BY <1>1, <1>2, <1>4
<1>. QED
  BY <1>3, <1>5 DEF GoesOn

LEMMA JoinsOne ==
    ASSUME NEW L, NEW M, NEW p \in Seq(L), NEW m \in M
    PROVE  Joins(L, M)[<<p, m>>] = p \o Database!LinesOf(m)
<1>1. PICK X : X = Seq(L)
  OBVIOUS
<1>2. Joins(L, M) = [q \in X \X M |-> q[1] \o Database!LinesOf(q[2])]
  BY <1>1 DEF Joins
<1>3. p \in X
  BY <1>1
<1>4. <<p, m>> \in X \X M /\ <<p, m>>[1] = p /\ <<p, m>>[2] = m
  BY <1>3
<1>. QED
  BY <1>2, <1>4

LEMMA LinesFold ==
    ASSUME NEW L, NEW M, Lined(L, M), NEW updates \in Seq(M)
    PROVE  \E f : Folds(f, Joins(L, M), <<>>, Seq(L), updates) /\ Database!Lines(updates) = f[Len(updates)]
<1>. DEFINE N == Len(updates)
            F(g) == [n \in 0 .. N |->
                       IF n = 0 THEN <<>> ELSE g[n - 1] \o Database!LinesOf(updates[n])]
            B == CHOOSE g : g = F(g)
<1>0. PICK X : X = Seq(L)
  OBVIOUS
<1>1. PICK f : Folds(f, Joins(L, M), <<>>, X, updates)
  <2>1. GoesOn(Joins(L, M), <<>>, X, M)
    BY <1>0, JoinsIs
  <2>. QED
    BY <2>1, FoldExists
<1>2. /\ f \in [0 .. N -> X] /\ f[0] = <<>> /\ N \in Nat
      /\ \A n \in 1 .. N : f[n] = Joins(L, M)[<<f[n - 1], updates[n]>>]
  BY <1>1 DEF Folds
<1>3. ASSUME NEW n \in 1 .. N PROVE f[n] = f[n - 1] \o Database!LinesOf(updates[n])
  <2>1. n - 1 \in 0 .. N /\ updates[n] \in M
    BY <1>2
  <2>2. f[n - 1] \in X
    BY <1>2, <2>1
  <2>3. Joins(L, M)[<<f[n - 1], updates[n]>>] = f[n - 1] \o Database!LinesOf(updates[n])
    <3>1. PICK p, m : p = f[n - 1] /\ m = updates[n]
      OBVIOUS
    <3>2. p \in Seq(L) /\ m \in M
      BY <1>0, <2>1, <2>2, <3>1
    <3>3. Joins(L, M)[<<p, m>>] = p \o Database!LinesOf(m)
      BY <3>2, JoinsOne
    <3>. QED
      BY <3>1, <3>3
  <2>. QED
    BY <1>2, <2>3
<1>4. f = F(f)
  <2>1. ASSUME NEW n \in 0 .. N PROVE f[n] = F(f)[n]
    <3>1. n = 0 \/ n \in 1 .. N
      BY <1>2
    <3>. QED
      BY <1>2, <1>3, <3>1
  <2>. QED
    BY <1>2, <2>1
<1>5. B = F(B)
  BY <1>4
<1>. HIDE DEF B
<1>. DEFINE S == {k \in Nat : k <= N => B[k] = f[k]}
<1>6. 0 \in S
  <2>1. 0 \in 0 .. N
    BY <1>2
  <2>2. F(B)[0] = <<>>
    BY <2>1
  <2>. QED
    BY <1>2, <1>5, <2>2
<1>7. ASSUME NEW k \in Nat, k \in S PROVE k + 1 \in S
  <2>. SUFFICES ASSUME k + 1 <= N PROVE B[k + 1] = f[k + 1]
    OBVIOUS
  <2>0. k <= N
    BY <1>2
  <2>1. k + 1 \in 0 .. N /\ k + 1 \in 1 .. N /\ (k + 1) - 1 = k /\ B[k] = f[k] /\ k + 1 # 0
    BY <1>2, <1>7, <2>0
  <2>2. F(B)[k + 1] = B[k] \o Database!LinesOf(updates[k + 1])
    BY <2>1
  <2>. QED
    BY <1>3, <1>5, <2>1, <2>2
<1>8. B[N] = f[N]
  <2>1. N \in S
    <3>. HIDE DEF S, N
    <3>. QED
      BY <1>2, <1>6, <1>7, SetInduction
  <2>. QED
    BY <1>2, <2>1
<1>9. Database!Lines(updates) = B[N]
  BY DEF Database!Lines, B
<1>. QED
  BY <1>0, <1>1, <1>8, <1>9

LEMMA LinesIs ==
    ASSUME NEW L, NEW M, Lined(L, M)
    PROVE  /\ Database!Lines(<<>>) = <<>>
           /\ \A updates \in Seq(M) : Database!Lines(updates) \in Seq(L)
           /\ \A updates \in Seq(M), m \in M :
                Database!Lines(Append(updates, m)) = Database!Lines(updates) \o Database!LinesOf(m)
<1>1. Database!Lines(<<>>) = <<>>
  <2>1. <<>> \in Seq(M) /\ Len(<<>>) = 0
    OBVIOUS
  <2>2. PICK f : Folds(f, Joins(L, M), <<>>, Seq(L), <<>>) /\ Database!Lines(<<>>) = f[Len(<<>>)]
    BY <2>1, LinesFold
  <2>. QED
    BY <2>1, <2>2 DEF Folds
<1>2. ASSUME NEW updates \in Seq(M) PROVE Database!Lines(updates) \in Seq(L)
  <2>1. PICK f : Folds(f, Joins(L, M), <<>>, Seq(L), updates) /\ Database!Lines(updates) = f[Len(updates)]
    BY LinesFold
  <2>2. f \in [0 .. Len(updates) -> Seq(L)] /\ Len(updates) \in 0 .. Len(updates)
    BY <2>1 DEF Folds
  <2>. QED
    BY <2>1, <2>2
<1>3. ASSUME NEW updates \in Seq(M), NEW m \in M
      PROVE  Database!Lines(Append(updates, m)) = Database!Lines(updates) \o Database!LinesOf(m)
  <2>1. Append(updates, m) \in Seq(M)
    BY AppendIs
  <2>2. PICK f : Folds(f, Joins(L, M), <<>>, Seq(L), updates) /\ Database!Lines(updates) = f[Len(updates)]
    BY LinesFold
  <2>3. PICK g : /\ Folds(g, Joins(L, M), <<>>, Seq(L), Append(updates, m))
                 /\ Database!Lines(Append(updates, m)) = g[Len(Append(updates, m))]
    BY <2>1, LinesFold
  <2>4. g[Len(Append(updates, m))] = Joins(L, M)[<<f[Len(updates)], m>>]
    BY <2>2, <2>3, FoldAppend
  <2>5. PICK p : p = Database!Lines(updates)
    OBVIOUS
  <2>6. p \in Seq(L)
    BY <1>2, <2>5
  <2>7. Joins(L, M)[<<p, m>>] = p \o Database!LinesOf(m)
    BY <2>6, JoinsOne
  <2>. QED
    BY <2>2, <2>3, <2>4, <2>5, <2>7
<1>. QED
  BY <1>1, <1>2, <1>3

(* Rows, messages that are not empty, lines, and a reader between two rows *)
(* of a conversation whose texts are of T.                                 *)
RowsOf(T) == [type : Database!RowTypes, text : T]
MessagesOf(T) == [role : Database!RowTypes, parts : Seq(T) \ {<<>>}]
LinesIn(T) == [role : Database!RowTypes, text : T]
ReadersOf(T) == [parts : Seq(T), updates : Seq(MessagesOf(T))]

Line(role, text) == [role |-> role, text |-> text]
Message(role, parts) == [role |-> role, parts |-> parts]

(* Sequences, with nothing or one more at their end.                       *)
LEMMA ConcatEnds ==
    ASSUME NEW L, NEW q \in Seq(L), NEW r \in Seq(L), NEW x \in L
    PROVE  /\ q \o <<>> = q
           /\ q \o <<x>> = Append(q, x)
           /\ q \o Append(r, x) = Append(q \o r, x)
<1>1. q \o <<>> = q
  OBVIOUS
<1>2. q \o <<x>> = Append(q, x)
  OBVIOUS
<1>3. q \o Append(r, x) = Append(q \o r, x)
  OBVIOUS
<1>. QED
  BY <1>1, <1>2, <1>3

LEMMA LinesOfIs ==
    ASSUME NEW T, NEW role \in Database!RowTypes
    PROVE  /\ Database!LinesOf(Message(role, <<>>)) = <<>>
           /\ \A x \in T : Database!LinesOf(Message(role, <<x>>)) = <<Line(role, x)>>
           /\ \A parts \in Seq(T) : Database!LinesOf(Message(role, parts)) \in Seq(LinesIn(T))
           /\ \A parts \in Seq(T), x \in T :
                Database!LinesOf(Message(role, Append(parts, x))) =
                    Append(Database!LinesOf(Message(role, parts)), Line(role, x))
<1>0. \A parts : Database!LinesOf(Message(role, parts)) = [j \in DOMAIN parts |-> Line(role, parts[j])]
  BY DEF Database!LinesOf, Message, Line
<1>1. Database!LinesOf(Message(role, <<>>)) = <<>>
  BY <1>0
<1>2. ASSUME NEW x \in T PROVE Database!LinesOf(Message(role, <<x>>)) = <<Line(role, x)>>
  BY <1>0
<1>3. ASSUME NEW parts \in Seq(T)
      PROVE  Database!LinesOf(Message(role, parts)) \in Seq(LinesIn(T))
  <2>1. \A j \in 1 .. Len(parts) : Line(role, parts[j]) \in LinesIn(T)
    BY DEF Line, LinesIn
  <2>. QED
    BY <1>0, <2>1
<1>4. ASSUME NEW parts \in Seq(T), NEW x \in T
      PROVE  Database!LinesOf(Message(role, Append(parts, x))) =
                 Append(Database!LinesOf(Message(role, parts)), Line(role, x))
  <2>. DEFINE a == [j \in 1 .. Len(parts) + 1 |-> Line(role, Append(parts, x)[j])]
              b == [j \in 1 .. Len(parts) |-> Line(role, parts[j])]
  <2>1. Database!LinesOf(Message(role, Append(parts, x))) = a /\ Database!LinesOf(Message(role, parts)) = b
    <3>1. DOMAIN Append(parts, x) = 1 .. Len(parts) + 1 /\ DOMAIN parts = 1 .. Len(parts)
      OBVIOUS
    <3>. QED
      BY <1>0, <3>1
  <2>2. b \in Seq(LinesIn(T)) /\ Len(b) = Len(parts) /\ Line(role, x) \in LinesIn(T)
    BY <1>3, <2>1 DEF Line, LinesIn
  <2>3. Len(Append(b, Line(role, x))) = Len(parts) + 1 /\ Append(b, Line(role, x)) \in Seq(LinesIn(T))
    BY <2>2, AppendIs
  <2>4. a \in Seq(LinesIn(T)) /\ Len(a) = Len(parts) + 1
    <3>1. Append(parts, x) \in Seq(T)
      BY AppendIs
    <3>2. a \in Seq(LinesIn(T))
      BY <1>3, <2>1, <3>1
    <3>. QED
      BY <3>2
  <2>5. ASSUME NEW j \in 1 .. Len(parts) + 1 PROVE a[j] = Append(b, Line(role, x))[j]
    <3>1. CASE j = Len(parts) + 1
      BY <2>2, <3>1, AppendIs
    <3>2. CASE j # Len(parts) + 1
      <4>1. j \in 1 .. Len(parts)
        BY <3>2
      <4>2. Append(parts, x)[j] = parts[j]
        BY <4>1, AppendIs
      <4>3. Append(b, Line(role, x))[j] = b[j]
        BY <2>2, <4>1, AppendIs
      <4>. QED
        BY <4>1, <4>2, <4>3
    <3>. QED
      BY <3>1, <3>2
  <2>. HIDE DEF a, b
  <2>6. a = Append(b, Line(role, x))
    BY <2>3, <2>4, <2>5
  <2>. QED
    BY <2>1, <2>6
<1>. QED
  BY <1>1, <1>2, <1>3, <1>4

LEMMA MessagesLined ==
    ASSUME NEW T
    PROVE  /\ Lined(LinesIn(T), MessagesOf(T))
           /\ \A role \in Database!RowTypes, parts \in Seq(T) \ {<<>>} : Message(role, parts) \in MessagesOf(T)
<1>1. ASSUME NEW m \in MessagesOf(T) PROVE Database!LinesOf(m) \in Seq(LinesIn(T))
  <2>1. m.role \in Database!RowTypes /\ m.parts \in Seq(T) /\ m = Message(m.role, m.parts)
    BY DEF MessagesOf, Message
  <2>. QED
    BY <2>1, LinesOfIs
<1>. QED
  BY <1>1 DEF Lined, MessagesOf, Message

(* What the reader would have shown if the conversation ended here.        *)
Transcript(acc) == Database!Lines(acc.updates) \o Database!LinesOf(Message("agent", Database!Filtered(acc.parts)))

(* Parts that are flushed are shown as the lines they would have been.     *)
LEMMA FlushTells ==
    ASSUME NEW T, NEW acc \in ReadersOf(T)
    PROVE  /\ Database!FlushAgentMessage(acc) \in ReadersOf(T)
           /\ Database!FlushAgentMessage(acc).parts = <<>>
           /\ Database!Lines(Database!FlushAgentMessage(acc).updates) = Transcript(acc)
           /\ Transcript(acc) \in Seq(LinesIn(T))
<1>. DEFINE parts == Database!Filtered(acc.parts)
            flushed == Database!FlushAgentMessage(acc)
<1>1. acc.parts \in Seq(T) /\ acc.updates \in Seq(MessagesOf(T))
  BY DEF ReadersOf
<1>2. parts \in Seq(T) /\ "agent" \in Database!RowTypes
  BY <1>1, FilteredIs DEF Database!RowTypes
<1>3. flushed = [parts |-> <<>>, updates |-> IF parts = <<>> THEN acc.updates
                                             ELSE Append(acc.updates, Message("agent", parts))]
  BY DEF Database!FlushAgentMessage, Message
<1>. HIDE DEF parts, flushed
<1>. DEFINE before == Database!Lines(acc.updates)
            last == Database!LinesOf(Message("agent", parts))
<1>4. before \in Seq(LinesIn(T)) /\ last \in Seq(LinesIn(T))
  BY <1>1, <1>2, LinesIs, LinesOfIs, MessagesLined
<1>5. Transcript(acc) = before \o last
  BY DEF Transcript, parts
<1>6. <<>> \in Seq(T)
  OBVIOUS
<1>7. CASE parts = <<>>
  <2>1. last = <<>>
    BY <1>2, <1>7, LinesOfIs
  <2>2. before \o last = before
    BY <1>4, <2>1
  <2>3. flushed = [parts |-> <<>>, updates |-> acc.updates]
    BY <1>3, <1>7
  <2>4. flushed \in ReadersOf(T)
    BY <1>1, <1>6, <2>3 DEF ReadersOf
  <2>. QED
    BY <1>4, <1>5, <2>2, <2>3, <2>4 DEF flushed
<1>8. CASE parts # <<>>
  <2>1. Message("agent", parts) \in MessagesOf(T)
    BY <1>2, <1>8, MessagesLined
  <2>2. flushed = [parts |-> <<>>, updates |-> Append(acc.updates, Message("agent", parts))]
    BY <1>3, <1>8
  <2>3. Append(acc.updates, Message("agent", parts)) \in Seq(MessagesOf(T))
    BY <1>1, <2>1, AppendIs
  <2>4. flushed \in ReadersOf(T)
    BY <1>6, <2>2, <2>3 DEF ReadersOf
  <2>5. Database!Lines(flushed.updates) = before \o last
    BY <1>1, <2>1, <2>2, LinesIs, MessagesLined
  <2>6. before \o last \in Seq(LinesIn(T))
    BY <1>4, ConcatIs
  <2>. QED
    BY <1>5, <2>2, <2>4, <2>5, <2>6 DEF flushed
<1>. QED
  BY <1>7, <1>8

(* A reader that holds no parts tells what it has shown.                   *)
LEMMA NothingHeld ==
    ASSUME NEW T, NEW acc \in ReadersOf(T), acc.parts = <<>>
    PROVE  Transcript(acc) = Database!Lines(acc.updates)
<1>1. Database!Filtered(<<>>) = <<>> /\ "agent" \in Database!RowTypes
  BY FilteredIs DEF Database!RowTypes
<1>2. Database!LinesOf(Message("agent", <<>>)) = <<>>
  BY <1>1, LinesOfIs
<1>3. Database!Lines(acc.updates) \in Seq(LinesIn(T))
  BY LinesIs, MessagesLined DEF ReadersOf
<1>. QED
  BY <1>1, <1>2, <1>3 DEF Transcript

(* What is shown of the row of a user or a tool comes after it.            *)
LEMMA ShownTells ==
    ASSUME NEW T, NEW acc \in ReadersOf(T), acc.parts = <<>>, NEW row \in RowsOf(T)
    PROVE  /\ Database!Shown(acc, row) \in ReadersOf(T)
           /\ Transcript(Database!Shown(acc, row)) =
                IF row.text = <<>> THEN Transcript(acc) ELSE Append(Transcript(acc), Line(row.type, row.text))
<1>1. CASE row.text = <<>>
  BY <1>1 DEF Database!Shown
<1>2. CASE row.text # <<>>
  <2>. DEFINE m == Message(row.type, <<row.text>>)
              next == Append(acc.updates, m)
              shown == Database!Shown(acc, row)
  <2>1. row.type \in Database!RowTypes /\ row.text \in T
    BY DEF RowsOf
  <2>2. <<row.text>> \in Seq(T) \ {<<>>}
    BY <2>1
  <2>3. m \in MessagesOf(T)
    BY <2>1, <2>2, MessagesLined
  <2>4. acc.updates \in Seq(MessagesOf(T)) /\ acc = [parts |-> <<>>, updates |-> acc.updates]
    BY DEF ReadersOf
  <2>5. shown = [parts |-> <<>>, updates |-> next]
    BY <1>2, <2>4 DEF Database!Shown, Message
  <2>6. Database!LinesOf(m) = <<Line(row.type, row.text)>>
    BY <2>1, LinesOfIs
  <2>. HIDE DEF m, shown
  <2>7. next \in Seq(MessagesOf(T))
    BY <2>3, <2>4, AppendIs
  <2>8. /\ Database!Lines(next) = Database!Lines(acc.updates) \o <<Line(row.type, row.text)>>
        /\ Database!Lines(acc.updates) \in Seq(LinesIn(T))
    <3>1. Lined(LinesIn(T), MessagesOf(T))
      BY MessagesLined
    <3>2. Database!Lines(acc.updates) \in Seq(LinesIn(T))
      BY <2>4, <3>1, LinesIs
    <3>3. Database!Lines(next) = Database!Lines(acc.updates) \o Database!LinesOf(m)
      BY <2>3, <2>4, <3>1, LinesIs
    <3>. QED
      BY <2>6, <3>2, <3>3
  <2>. HIDE DEF next
  <2>9. Line(row.type, row.text) \in LinesIn(T)
    BY <2>1 DEF Line, LinesIn
  <2>10. shown \in ReadersOf(T) /\ shown.parts = <<>> /\ shown.updates = next
    <3>1. <<>> \in Seq(T)
      OBVIOUS
    <3>. QED
      BY <2>5, <2>7, <3>1 DEF ReadersOf
  <2>11. Transcript(shown) = Database!Lines(next) /\ Transcript(acc) = Database!Lines(acc.updates)
    BY <2>10, NothingHeld
  <2>12. Database!Lines(next) = Append(Database!Lines(acc.updates), Line(row.type, row.text))
    BY <2>8, <2>9, ConcatEnds
  <2>. QED
    BY <1>2, <2>10, <2>11, <2>12 DEF shown
<1>. QED
  BY <1>1, <1>2

(* A row adds its line if it is to be seen, and nothing otherwise.         *)
LEMMA RowTells ==
    ASSUME NEW T, NEW acc \in ReadersOf(T), NEW row \in RowsOf(T)
    PROVE  /\ Database!ReplayRow(acc, row) \in ReadersOf(T)
           /\ Transcript(Database!ReplayRow(acc, row)) =
                IF Database!Visible(row) THEN Append(Transcript(acc), Line(row.type, row.text)) ELSE Transcript(acc)
<1>1. row.type \in {"user", "agent", "tool", "other"} /\ row.text \in T
  BY DEF RowsOf, Database!RowTypes
<1>2. CASE row.type \in {"user", "tool"}
  <2>1. Database!ReplayRow(acc, row) = Database!Shown(Database!FlushAgentMessage(acc), row)
    BY <1>2 DEF Database!ReplayRow
  <2>2. Database!Visible(row) <=> row.text # <<>>
    BY <1>2 DEF Database!Visible
  <2>. DEFINE flushed == Database!FlushAgentMessage(acc)
  <2>3. flushed \in ReadersOf(T) /\ flushed.parts = <<>> /\ Database!Lines(flushed.updates) = Transcript(acc)
    BY FlushTells
  <2>. HIDE DEF flushed
  <2>4. Transcript(flushed) = Transcript(acc)
    BY <2>3, NothingHeld
  <2>5. /\ Database!Shown(flushed, row) \in ReadersOf(T)
        /\ Transcript(Database!Shown(flushed, row)) =
             IF row.text = <<>> THEN Transcript(flushed) ELSE Append(Transcript(flushed), Line(row.type, row.text))
    BY <2>3, ShownTells
  <2>. QED
    BY <2>1, <2>2, <2>4, <2>5 DEF flushed
<1>3. CASE row.type = "agent" /\ row.text # <<>>
  <2>. DEFINE more == Append(acc.parts, row.text)
              next == Database!ReplayRow(acc, row)
  <2>1. acc.parts \in Seq(T) /\ acc.updates \in Seq(MessagesOf(T)) /\ "agent" \in Database!RowTypes
    BY DEF ReadersOf, Database!RowTypes
  <2>2. next = [acc EXCEPT !.parts = more]
    BY <1>3 DEF Database!ReplayRow
  <2>3. more \in Seq(T)
    BY <1>1, <2>1, AppendIs
  <2>4. /\ Database!Filtered(acc.parts) \in Seq(T)
        /\ Database!Filtered(more) =
             IF skip_naration /\ Database!Narration(row.text) THEN Database!Filtered(acc.parts)
             ELSE Append(Database!Filtered(acc.parts), row.text)
    BY <1>1, <2>1, FilteredIs
  <2>. HIDE DEF more, next
  <2>5. next \in ReadersOf(T) /\ next.parts = more /\ next.updates = acc.updates
    BY <2>2, <2>3 DEF ReadersOf
  <2>6. Database!Visible(row) <=> ~(skip_naration /\ Database!Narration(row.text))
    BY <1>3 DEF Database!Visible
  <2>7. CASE skip_naration /\ Database!Narration(row.text)
    BY <2>4, <2>5, <2>6, <2>7 DEF Transcript, next
  <2>8. CASE ~(skip_naration /\ Database!Narration(row.text))
    <3>. DEFINE before == Database!Lines(acc.updates)
                last == Database!LinesOf(Message("agent", Database!Filtered(acc.parts)))
    <3>1. before \in Seq(LinesIn(T)) /\ last \in Seq(LinesIn(T)) /\ Line("agent", row.text) \in LinesIn(T)
      BY <1>1, <2>1, <2>4, LinesIs, LinesOfIs, MessagesLined DEF Line, LinesIn
    <3>2. Database!LinesOf(Message("agent", Database!Filtered(more))) = Append(last, Line("agent", row.text))
      BY <1>1, <2>1, <2>4, <2>8, LinesOfIs
    <3>3. Transcript(next) = before \o Append(last, Line("agent", row.text)) /\ Transcript(acc) = before \o last
      BY <2>5, <3>2 DEF Transcript
    <3>. HIDE DEF before, last
    <3>4. Transcript(next) = Append(Transcript(acc), Line("agent", row.text))
      BY <3>1, <3>3, ConcatEnds
    <3>. QED
      BY <1>3, <2>5, <2>6, <2>8, <3>4 DEF next
  <2>. QED
    BY <2>7, <2>8
<1>4. CASE row.type = "other" \/ (row.type = "agent" /\ row.text = <<>>)
  BY <1>4 DEF Database!ReplayRow, Database!Visible
<1>. QED
  BY <1>1, <1>2, <1>3, <1>4

(* The reader goes from row to row.                                        *)
LEMMA ReplayReads ==
    ASSUME NEW T, NEW rs \in Seq(RowsOf(T))
    PROVE  \E f : /\ f \in [0 .. Len(rs) -> ReadersOf(T)]
                  /\ f[0] = [parts |-> <<>>, updates |-> <<>>]
                  /\ \A n \in 1 .. Len(rs) : f[n] = Database!ReplayRow(f[n - 1], rs[n])
                  /\ Database!Replayed(rs) = Database!FlushAgentMessage(f[Len(rs)]).updates
<1>. DEFINE N == Len(rs)
            start == [parts |-> <<>>, updates |-> <<>>]
            F(g) == [n \in 0 .. N |-> IF n = 0 THEN start ELSE Database!ReplayRow(g[n - 1], rs[n])]
            B == CHOOSE g : g = F(g)
            G == [p \in ReadersOf(T) \X RowsOf(T) |-> Database!ReplayRow(p[1], p[2])]
<1>1. start \in ReadersOf(T)
  <2>1. <<>> \in Seq(T) /\ <<>> \in Seq(MessagesOf(T))
    OBVIOUS
  <2>. QED
    BY <2>1 DEF ReadersOf
<1>2. PICK A, R : A = ReadersOf(T) /\ R = RowsOf(T)
  OBVIOUS
<1>3. \A a \in A, r \in R : Database!ReplayRow(a, r) \in A
  BY <1>2, RowTells
<1>4. G = [p \in A \X R |-> Database!ReplayRow(p[1], p[2])]
  BY <1>2
<1>. HIDE DEF G, start
<1>5. G \in [A \X R -> A]
  <2>1. \A p \in A \X R : p[1] \in A /\ p[2] \in R
    OBVIOUS
  <2>. QED
    BY <1>3, <1>4, <2>1
<1>6. \A a \in A, r \in R : G[<<a, r>>] = Database!ReplayRow(a, r)
  <2>. TAKE a \in A, r \in R
  <2>1. <<a, r>> \in A \X R /\ <<a, r>>[1] = a /\ <<a, r>>[2] = r
    OBVIOUS
  <2>. QED
    BY <1>4, <2>1
<1>7. PICK f : Folds(f, G, start, A, rs)
  <2>1. GoesOn(G, start, A, R)
    BY <1>1, <1>2, <1>5 DEF GoesOn
  <2>2. rs \in Seq(R)
    BY <1>2
  <2>. QED
    BY <2>1, <2>2, FoldExists
<1>8. /\ f \in [0 .. N -> A] /\ f[0] = start /\ N \in Nat
      /\ \A n \in 1 .. N : f[n] = G[<<f[n - 1], rs[n]>>]
  BY <1>7 DEF Folds
<1>9. ASSUME NEW n \in 1 .. N PROVE f[n] = Database!ReplayRow(f[n - 1], rs[n])
  <2>1. n - 1 \in 0 .. N /\ rs[n] \in R
    BY <1>2, <1>8
  <2>2. f[n - 1] \in A
    BY <1>8, <2>1
  <2>. QED
    BY <1>6, <1>8, <2>1, <2>2
<1>10. f = F(f)
  <2>1. ASSUME NEW n \in 0 .. N PROVE f[n] = F(f)[n]
    <3>1. n = 0 \/ n \in 1 .. N
      BY <1>8
    <3>. QED
      BY <1>8, <1>9, <3>1
  <2>. QED
    BY <1>8, <2>1
<1>11. B = F(B)
  BY <1>10
<1>12. Database!Replayed(rs) = Database!FlushAgentMessage(B[N]).updates
  BY DEF Database!Replayed, B, start
<1>. HIDE DEF B
<1>. DEFINE S == {k \in Nat : k <= N => B[k] = f[k]}
<1>13. 0 \in S
  <2>1. 0 \in 0 .. N
    BY <1>8
  <2>2. F(B)[0] = start
    BY <2>1
  <2>. QED
    BY <1>8, <1>11, <2>2
<1>14. ASSUME NEW k \in Nat, k \in S PROVE k + 1 \in S
  <2>. SUFFICES ASSUME k + 1 <= N PROVE B[k + 1] = f[k + 1]
    OBVIOUS
  <2>1. k <= N
    BY <1>8
  <2>2. k + 1 \in 0 .. N /\ k + 1 \in 1 .. N /\ (k + 1) - 1 = k /\ B[k] = f[k] /\ k + 1 # 0
    BY <1>8, <1>14, <2>1
  <2>3. F(B)[k + 1] = Database!ReplayRow(B[k], rs[k + 1])
    BY <2>2
  <2>. QED
    BY <1>9, <1>11, <2>2, <2>3
<1>15. B[N] = f[N]
  <2>1. N \in S
    <3>. HIDE DEF S, N
    <3>. QED
      BY <1>8, <1>13, <1>14, SetInduction
  <2>. QED
    BY <1>8, <2>1
<1>. QED
  BY <1>2, <1>8, <1>9, <1>12, <1>15 DEF start

(* The positions up to a number: one more, or none.                        *)
Upto(V, k) == {j \in V : j <= k}

LEMMA UptoGrows ==
    ASSUME NEW m \in Nat, NEW V \in SUBSET (1 .. m), NEW n \in Nat, n + 1 <= m
    PROVE  /\ Cardinality(Upto(V, n)) \in Nat
           /\ n + 1 \in V => Cardinality(Upto(V, n + 1)) = Cardinality(Upto(V, n)) + 1
           /\ n + 1 \notin V => Upto(V, n + 1) = Upto(V, n)
<1>. DEFINE upto(k) == Upto(V, k)
<1>0. \A k : upto(k) = {j \in V : j <= k}
  BY DEF Upto
<1>. HIDE DEF upto
<1>1. IsFiniteSet(1 .. m)
  BY FS_Interval
<1>2. IsFiniteSet(upto(n)) /\ n + 1 \notin upto(n)
  <2>1. upto(n) \subseteq 1 .. m
    BY <1>0
  <2>2. ~(n + 1 <= n)
    OBVIOUS
  <2>. QED
    BY <1>0, <1>1, <2>1, <2>2, FS_Subset
<1>3. Cardinality(upto(n)) \in Nat
  BY <1>2, FS_CardinalityType
<1>4. \A j \in V : j <= n + 1 <=> (j <= n \/ j = n + 1)
  OBVIOUS
<1>5. CASE n + 1 \in V
  <2>1. upto(n + 1) = upto(n) \cup {n + 1}
    BY <1>0, <1>4, <1>5
  <2>2. Cardinality(upto(n) \cup {n + 1}) = Cardinality(upto(n)) + 1
    BY <1>2, FS_AddElement
  <2>. QED
    BY <1>3, <1>5, <2>1, <2>2 DEF upto
<1>6. CASE n + 1 \notin V
  <2>1. upto(n + 1) = upto(n)
    BY <1>0, <1>4, <1>6
  <2>. QED
    BY <1>3, <1>6, <2>1 DEF upto
<1>. QED
  BY <1>5, <1>6

(* The module's own Cardinality.                                           *)
LEMMA SameRowCount ==
    \A S : Database!Cardinality(S) = Cardinality(S)
  BY DEF Database!Cardinality, Cardinality

(* Of any conversation the replay tells the rows that are to be seen.      *)
LEMMA ReplayTells ==
    ASSUME NEW T, NEW rs \in Seq(RowsOf(T))
    PROVE  /\ Database!Replayed(rs) \in Seq(MessagesOf(T))
           /\ Database!Tells(Database!Lines(Database!Replayed(rs)), rs,
                             {i \in DOMAIN rs : Database!Visible(rs[i])})
<1>. DEFINE m == Len(rs)
            V == {i \in 1 .. m : Database!Visible(rs[i])}
            upto(k) == Upto(V, k)
            line(i) == Line(rs[i].type, rs[i].text)
<1>1. PICK f : /\ f \in [0 .. m -> ReadersOf(T)]
               /\ f[0] = [parts |-> <<>>, updates |-> <<>>]
               /\ \A n \in 1 .. m : f[n] = Database!ReplayRow(f[n - 1], rs[n])
               /\ Database!Replayed(rs) = Database!FlushAgentMessage(f[m]).updates
  BY ReplayReads
<1>2. m \in Nat /\ DOMAIN rs = 1 .. m /\ \A i \in 1 .. m : rs[i] \in RowsOf(T)
  OBVIOUS
<1>. HIDE DEF m
<1>. DEFINE Good(n) ==
              /\ Len(Transcript(f[n])) = Cardinality(upto(n))
              /\ \A i \in upto(n) : /\ Cardinality(upto(i)) \in 1 .. Cardinality(upto(n))
                                    /\ Transcript(f[n])[Cardinality(upto(i))] = line(i)
            S == {n \in Nat : n <= m => Good(n)}
<1>3. 0 \in S
  <2>1. upto(0) = {}
    BY <1>2 DEF Upto
  <2>2. 0 \in 0 .. m
    BY <1>2
  <2>3. f[0] \in ReadersOf(T) /\ f[0].parts = <<>> /\ f[0].updates = <<>>
    BY <1>1, <2>2
  <2>4. Transcript(f[0]) = <<>>
    <3>1. Transcript(f[0]) = Database!Lines(f[0].updates)
      BY <2>3, NothingHeld
    <3>2. Database!Lines(<<>>) = <<>>
      BY LinesIs, MessagesLined
    <3>. QED
      BY <2>3, <3>1, <3>2
  <2>5. Cardinality({}) = 0
    BY FS_EmptySet
  <2>. QED
    BY <2>1, <2>4, <2>5
<1>. HIDE DEF Good
<1>4. ASSUME NEW n \in Nat, n \in S PROVE n + 1 \in S
  <2>. SUFFICES ASSUME n + 1 <= m PROVE Good(n + 1)
    OBVIOUS
  <2>1. n <= m /\ n \in 0 .. m /\ n + 1 \in 1 .. m /\ (n + 1) - 1 = n
    BY <1>2
  <2>2. Good(n)
    BY <1>4, <2>1
  <2>3. f[n] \in ReadersOf(T) /\ rs[n + 1] \in RowsOf(T) /\ f[n + 1] = Database!ReplayRow(f[n], rs[n + 1])
    BY <1>1, <1>2, <2>1
  <2>4. Transcript(f[n + 1]) = IF Database!Visible(rs[n + 1]) THEN Append(Transcript(f[n]), line(n + 1)) ELSE Transcript(f[n])
    BY <2>3, RowTells
  <2>5. Transcript(f[n]) \in Seq(LinesIn(T)) /\ line(n + 1) \in LinesIn(T)
    BY <2>3, FlushTells DEF Line, LinesIn, RowsOf
  <2>6. n + 1 \in V <=> Database!Visible(rs[n + 1])
    BY <2>1
  <2>. DEFINE q == Transcript(f[n])
              p == Transcript(f[n + 1])
              c(k) == Cardinality(upto(k))
  <2>. HIDE DEF V, line
  <2>7. /\ c(n) \in Nat
        /\ n + 1 \in V => c(n + 1) = c(n) + 1
        /\ n + 1 \notin V => upto(n + 1) = upto(n)
    <3>1. V \in SUBSET (1 .. m)
      BY DEF V
    <3>. QED
      BY <1>2, <3>1, UptoGrows
  <2>8. /\ Len(q) = c(n)
        /\ \A i \in upto(n) : c(i) \in 1 .. c(n) /\ q[c(i)] = line(i)
    BY <2>2 DEF Good
  <2>9. \A j \in V : j <= n + 1 <=> (j <= n \/ j = n + 1)
    BY <1>2 DEF V
  <2>10. upto(n + 1) = IF n + 1 \in V THEN upto(n) \cup {n + 1} ELSE upto(n)
    BY <2>9 DEF Upto
  <2>11. CASE n + 1 \in V
    <3>1. p = Append(q, line(n + 1)) /\ c(n + 1) = c(n) + 1 /\ upto(n + 1) = upto(n) \cup {n + 1}
      BY <2>4, <2>6, <2>7, <2>10, <2>11
    <3>. HIDE DEF p, q, upto, c
    <3>2. /\ Len(p) = c(n) + 1 /\ p[c(n) + 1] = line(n + 1)
          /\ \A k \in 1 .. c(n) : p[k] = q[k]
      <4>1. Len(Append(q, line(n + 1))) = Len(q) + 1 /\ Append(q, line(n + 1))[Len(q) + 1] = line(n + 1)
            /\ \A i \in 1 .. Len(q) : Append(q, line(n + 1))[i] = q[i]
        BY <2>5, AppendIs DEF q
      <4>. QED
        BY <2>8, <3>1, <4>1
    <3>3. \A i \in upto(n + 1) : c(i) \in 1 .. c(n + 1) /\ p[c(i)] = line(i)
      <4>. TAKE i \in upto(n + 1)
      <4>1. CASE i = n + 1
        BY <2>7, <3>1, <3>2, <4>1
      <4>2. CASE i # n + 1
        <5>1. i \in upto(n)
          BY <3>1, <4>2
        <5>. QED
          BY <2>7, <2>8, <3>1, <3>2, <5>1
      <4>. QED
        BY <4>1, <4>2
    <3>4. Len(p) = c(n + 1)
      BY <3>1, <3>2
    <3>. QED
      BY <3>3, <3>4 DEF p, c, Good
  <2>12. CASE n + 1 \notin V
    <3>1. p = q /\ upto(n + 1) = upto(n)
      BY <2>4, <2>6, <2>7, <2>12
    <3>. QED
      BY <2>8, <3>1 DEF Good
  <2>. QED
    BY <2>11, <2>12
<1>5. Good(m)
  <2>1. m \in S
    <3>. HIDE DEF S
    <3>. QED
      BY <1>2, <1>3, <1>4, SetInduction
  <2>. QED
    BY <1>2, <2>1
<1>6. upto(m) = V
  BY <1>2 DEF Upto
<1>7. /\ Database!FlushAgentMessage(f[m]) \in ReadersOf(T)
      /\ Database!Lines(Database!Replayed(rs)) = Transcript(f[m])
  <2>1. m \in 0 .. m
    BY <1>2
  <2>2. f[m] \in ReadersOf(T)
    BY <1>1, <2>1
  <2>. QED
    BY <1>1, <2>2, FlushTells
<1>8. Database!Replayed(rs) \in Seq(MessagesOf(T))
  BY <1>1, <1>7 DEF ReadersOf
<1>9. Len(Transcript(f[m])) = Cardinality(V) /\ \A i \in V : Transcript(f[m])[Cardinality(upto(i))] = line(i)
  BY <1>5, <1>6 DEF Good
<1>10. {i \in DOMAIN rs : Database!Visible(rs[i])} = V
  BY <1>2
<1>11. Database!Tells(Transcript(f[m]), rs, V)
  <2>. HIDE DEF V
  <2>. QED
    BY <1>9, SameRowCount DEF Database!Tells, Line, Upto
<1>. QED
  BY <1>7, <1>8, <1>10, <1>11

(* Whatever is read of a conversation is a row.                            *)
RowsInv == rows \in Seq(RowsOf(RowTexts))

LEMMA RowsAlways == Database!Spec => []RowsInv
<1>1. Database!Init => RowsInv
  BY DEF Database!Init, RowsInv
<1>2. RowsInv /\ [Database!Next]_(Database!vars) => RowsInv'
  <2>. SUFFICES ASSUME RowsInv, [Database!Next]_(Database!vars) PROVE RowsInv'
    OBVIOUS
  <2>1. CASE UNCHANGED Database!vars
    BY <2>1 DEF Database!vars, RowsInv
  <2>2. ASSUME NEW type \in Database!RowTypes, NEW text \in RowTexts, Database!AddRow(type, text)
        PROVE  RowsInv'
    <3>1. rows' = Append(rows, [type |-> type, text |-> text])
      BY <2>2 DEF Database!AddRow
    <3>2. [type |-> type, text |-> text] \in RowsOf(RowTexts)
      BY DEF RowsOf
    <3>. QED
      BY <3>1, <3>2, AppendIs DEF RowsInv
  <2>. QED
    BY <2>1, <2>2 DEF Database!Next
<1>. QED
  BY <1>1, <1>2, PTL DEF Database!Spec

(* Messages are put together across rows, and are flushed by what comes    *)
(* between them: the transcript still has every row, once and in order,    *)
(* narration left out if that was asked for, and no message is empty       *)
(* (`read_replay_updates_from_db`, `flush_agent_message`).                 *)
THEOREM ReplayInOrder == Database!Spec => []ReplayKeepsTheOrder
<1>1. RowsInv => ReplayKeepsTheOrder
  <2>. SUFFICES ASSUME RowsInv PROVE Database!ReplayKeepsTheOrder
    BY DEF ReplayKeepsTheOrder
  <2>1. /\ Database!Replayed(rows) \in Seq(MessagesOf(RowTexts))
        /\ Database!Tells(Database!Lines(Database!Replayed(rows)), rows,
                          {i \in DOMAIN rows : Database!Visible(rows[i])})
    BY ReplayTells DEF RowsInv
  <2>2. \A i \in DOMAIN Database!Replayed(rows) : Database!Replayed(rows)[i] \in MessagesOf(RowTexts)
    BY <2>1
  <2>3. \A message \in MessagesOf(RowTexts) : message.parts # <<>>
    BY DEF MessagesOf
  <2>. QED
    BY <2>1, <2>2, <2>3 DEF Database!ReplayKeepsTheOrder
<1>. QED
  BY <1>1, RowsAlways, PTL

-----------------------------------------------------------------------------
(* The stream of events *)

(* A chunk of text is any sequence of pieces but the empty one.            *)
Chunks == Seq(STRING) \ {<<>>}

StreamConstants ==
    /\ MaxStep \in Nat
    /\ Deltas \subseteq Chunks
    /\ Thoughts \subseteq Seq(STRING)

Updates == {"tool_call", "tool_call_update"}
Statuses == {"in_progress", "completed", "failed"}
Reports == [update : Updates, status : Statuses]

ProcType ==
    [last_step_idx : Stream!Indexes, saw_result : BOOLEAN, had_updates : BOOLEAN,
     agent_text : [Stream!Indexes -> Seq(STRING)], thought_text : [Stream!Indexes -> Seq(STRING)],
     started_tools : SUBSET Stream!Indexes, emitted_agent_text : BOOLEAN]

ClientType ==
    [text : [Stream!Indexes -> Seq(STRING)], thought : [Stream!Indexes -> Seq(STRING)],
     calls : [Stream!Indexes -> Seq(Reports)]]

(* The client was told of a step's tool if and only if the processor has   *)
(* started it, first that there is a call and then how it ended; it was    *)
(* shown some text if and only if the processor notes that it was.         *)
Told(p, c) ==
    \A s \in Stream!Indexes :
        /\ s \in p.started_tools <=> c.calls[s] # <<>>
        /\ \A i \in 1 .. Len(c.calls[s]) :
             /\ c.calls[s][i].update = "tool_call" <=> i = 1
             /\ i > 1 => c.calls[s][i].status # "in_progress"

ShowsText(p, c) == p.emitted_agent_text <=> \E s \in Stream!Indexes : c.text[s] # <<>>

(* A text is shown, if only in part, unless it is narration as a whole;    *)
(* what was shown of a narration was blank or the beginning of it, and so  *)
(* is what was shown of a text that may yet become one.                    *)
IsJudgedAsWhole(text, shown) ==
    /\ text # <<>> /\ ~(skip_naration /\ Stream!Db!Narration(text)) => shown # <<>>
    /\ skip_naration /\ Stream!Db!Narration(text) => Stream!MayBeNarration(shown)
    /\ Stream!Db!Blank(text) => Stream!Db!Blank(shown)
    /\ text # <<>> /\ text[Len(text)] = "I" => Stream!MayBeNarration(shown)

(* Of each step's text it holds all but leading narration.                 *)
HoldsText(p, c) ==
    \A s \in Stream!Indexes : /\ Stream!ShownOf(p.agent_text[s], c.text[s])
                              /\ IsJudgedAsWhole(p.agent_text[s], c.text[s])

Fine(st) ==
    /\ st \in [p : ProcType, c : ClientType]
    /\ Told(st.p, st.c)
    /\ ShowsText(st.p, st.c)
    /\ HoldsText(st.p, st.c)

(* The module's own Cardinality.                                           *)
LEMMA SameCount ==
    \A S : Stream!Cardinality(S) = Cardinality(S)
  BY DEF Stream!Cardinality, Cardinality

(* The first k of what comes, after what was kept.                         *)
LEMMA KeptGrows ==
    ASSUME NEW n \in Nat, NEW kept \in SUBSET (1 .. n), NEW k \in Nat
    PROVE  /\ IsFiniteSet(kept) /\ Cardinality(kept) \in Nat
           /\ Cardinality(kept \cup ((n + 1) .. (n + k))) = Cardinality(kept) + k
<1>1. IsFiniteSet(1 .. n)
  BY FS_Interval
<1>2. IsFiniteSet(kept)
  BY <1>1, FS_Subset
<1>3. Cardinality(kept) \in Nat
  BY <1>2, FS_CardinalityType
<1>. DEFINE more == (n + 1) .. (n + k)
<1>4. IsFiniteSet(more) /\ Cardinality(more) = k
  <2>1. n + 1 \in Int /\ n + k \in Int
    OBVIOUS
  <2>2. IsFiniteSet(more) /\ Cardinality(more) = IF n + 1 > n + k THEN 0 ELSE (n + k) - (n + 1) + 1
    BY <2>1, FS_Interval
  <2>. QED
    BY <2>2
<1>5. kept \cap more = {}
  <2>1. \A x \in kept : x \in 1 .. n
    OBVIOUS
  <2>2. \A x \in more : ~(x <= n)
    OBVIOUS
  <2>. QED
    BY <2>1, <2>2
<1>. HIDE DEF more
<1>6. Cardinality(kept \cup more) = Cardinality(kept) + Cardinality(more) - Cardinality(kept \cap more)
  BY <1>2, <1>4, FS_Union
<1>7. Cardinality(kept \cap more) = 0
  BY <1>5, FS_EmptySet
<1>8. Cardinality(kept \cup more) = Cardinality(kept) + k
  BY <1>3, <1>4, <1>6, <1>7
<1>. QED
  BY <1>2, <1>3, <1>8 DEF more

(* The lines of two texts joined are those of the first, the last of which *)
(* may go on in the second, and then those of the second.                  *)
LEMMA LinesJoined ==
    ASSUME NEW text \in Seq(STRING), NEW d \in Seq(STRING)
    PROVE  /\ \A k \in 1 .. Len(text) :
                k \in Stream!Db!LineStarts(text \o d) <=> k \in Stream!Db!LineStarts(text)
           /\ \A k \in 1 .. Len(text) :
                Stream!Db!OpensNarration(text, k) => Stream!Db!OpensNarration(text \o d, k)
           /\ \A k \in 1 .. Len(text) :
                Stream!Db!OpensNarration(text \o d, k) =>
                    Stream!Db!OpensNarration(text, k) \/ (k = Len(text) /\ text[k] = "I")
           /\ \A k \in 1 .. Len(d) :
                Stream!Db!OpensNarration(text \o d, Len(text) + k) => Stream!Db!OpensNarration(d, k)
           /\ \A k \in Stream!Db!LineStarts(d) :
                k > 1 \/ ~Stream!LeftOpen(text) => Len(text) + k \in Stream!Db!LineStarts(text \o d)
<1>. DEFINE n == Len(text)
            m == Len(d)
            whole == text \o d
<1>1. /\ n \in Nat /\ m \in Nat /\ whole \in Seq(STRING) /\ Len(whole) = n + m
      /\ \A k \in 1 .. n : whole[k] = text[k]
      /\ \A k \in 1 .. m : whole[n + k] = d[k]
  BY ConcatIs
<1>2. DOMAIN text = 1 .. n /\ DOMAIN d = 1 .. m /\ DOMAIN whole = 1 .. n + m
  BY <1>1
<1>3. n = 0 => text = <<>>
  OBVIOUS
<1>. HIDE DEF n, m, whole
<1>4. ASSUME NEW k \in 1 .. n
      PROVE  k \in Stream!Db!LineStarts(whole) <=> k \in Stream!Db!LineStarts(text)
  <2>1. k \in 1 .. n + m /\ (k # 1 => k - 1 \in 1 .. n)
    BY <1>1
  <2>. QED
    BY <1>1, <1>2, <2>1 DEF Stream!Db!LineStarts
<1>5. ASSUME NEW k \in 1 .. n
      PROVE  /\ Stream!Db!OpensNarration(text, k) => Stream!Db!OpensNarration(whole, k)
             /\ Stream!Db!OpensNarration(whole, k) =>
                    Stream!Db!OpensNarration(text, k) \/ (k = n /\ text[k] = "I")
  <2>1. k < n => k + 1 \in 1 .. n /\ k < n + m
    BY <1>1
  <2>2. whole[k] = text[k] /\ (k < n => whole[k + 1] = text[k + 1])
    BY <1>1, <2>1
  <2>3. Stream!Db!OpensNarration(text, k) <=> text[k] = "I" /\ k < n /\ text[k + 1] = "will"
    BY DEF Stream!Db!OpensNarration, n
  <2>4. Stream!Db!OpensNarration(whole, k) <=> whole[k] = "I" /\ k < n + m /\ whole[k + 1] = "will"
    BY <1>1 DEF Stream!Db!OpensNarration
  <2>5. k < n \/ k = n
    BY <1>1
  <2>. QED
    BY <2>1, <2>2, <2>3, <2>4, <2>5
<1>6. ASSUME NEW k \in 1 .. m, Stream!Db!OpensNarration(whole, n + k)
      PROVE  Stream!Db!OpensNarration(d, k)
  <2>1. whole[n + k] = "I" /\ n + k < n + m /\ whole[(n + k) + 1] = "will"
    BY <1>1, <1>6 DEF Stream!Db!OpensNarration
  <2>2. k < m /\ k + 1 \in 1 .. m /\ n + (k + 1) = (n + k) + 1
    BY <1>1, <2>1
  <2>3. d[k] = "I" /\ d[k + 1] = "will"
    BY <1>1, <2>1, <2>2
  <2>. QED
    BY <2>2, <2>3 DEF Stream!Db!OpensNarration, m
<1>7. ASSUME NEW k \in Stream!Db!LineStarts(d), k > 1 \/ ~Stream!LeftOpen(text)
      PROVE  n + k \in Stream!Db!LineStarts(whole)
  <2>1. k \in 1 .. m /\ d[k] # "break" /\ (k = 1 \/ d[k - 1] = "break")
    BY <1>2 DEF Stream!Db!LineStarts
  <2>2. n + k \in 1 .. n + m /\ whole[n + k] # "break"
    BY <1>1, <2>1
  <2>3. n + k = 1 \/ whole[(n + k) - 1] = "break"
    <3>1. CASE k = 1
      <4>1. text = <<>> \/ text[n] = "break"
        BY <1>7, <3>1 DEF Stream!LeftOpen, n
      <4>2. CASE n = 0
        BY <3>1, <4>2
      <4>3. CASE n # 0
        <5>1. n \in 1 .. n /\ text # <<>> /\ (n + k) - 1 = n
          BY <1>1, <3>1, <4>3 DEF n
        <5>. QED
          BY <1>1, <4>1, <5>1
      <4>. QED
        BY <4>2, <4>3
    <3>2. CASE k # 1
      <4>1. k - 1 \in 1 .. m /\ n + (k - 1) = (n + k) - 1 /\ d[k - 1] = "break"
        BY <1>1, <2>1, <3>2
      <4>. QED
        BY <1>1, <4>1
    <3>. QED
      BY <3>1, <3>2
  <2>. QED
    BY <1>2, <2>2, <2>3 DEF Stream!Db!LineStarts
<1>. QED
  BY <1>4, <1>5, <1>6, <1>7 DEF n, m, whole

(* What was there of a text that is narration now was blank, narration, or *)
(* ended in the first word of one.                                         *)
LEMMA EarlierOfNarration ==
    ASSUME NEW text \in Seq(STRING), NEW d \in Seq(STRING), Stream!Db!Narration(text \o d)
    PROVE  \/ Stream!Db!Blank(text)
           \/ Stream!Db!Narration(text)
           \/ text # <<>> /\ text[Len(text)] = "I"
<1>1. CASE \A k \in Stream!Db!LineStarts(text) : Stream!Db!OpensNarration(text, k)
  BY <1>1 DEF Stream!Db!Narration
<1>2. ASSUME NEW k \in Stream!Db!LineStarts(text), ~Stream!Db!OpensNarration(text, k)
      PROVE  text # <<>> /\ text[Len(text)] = "I"
  <2>1. k \in 1 .. Len(text)
    BY DEF Stream!Db!LineStarts
  <2>2. Stream!Db!OpensNarration(text \o d, k)
    <3>1. k \in Stream!Db!LineStarts(text \o d)
      BY <2>1, LinesJoined
    <3>. QED
      BY <3>1 DEF Stream!Db!Narration
  <2>3. k = Len(text) /\ text[k] = "I"
    BY <1>2, <2>1, <2>2, LinesJoined
  <2>. QED
    BY <2>1, <2>3
<1>. QED
  BY <1>1, <1>2

(* A line begins in it that is no narration: it is no narration as a whole. *)
LEMMA AnswerIsNoNarration ==
    ASSUME NEW text \in Seq(STRING), NEW response \in Seq(STRING), Stream!Answers(response, text)
    PROVE  ~Stream!Db!Narration(text \o response)
<1>1. PICK k \in Stream!Db!LineStarts(response) :
        (k > 1 \/ ~Stream!LeftOpen(text)) /\ ~Stream!Db!OpensNarration(response, k)
  BY DEF Stream!Answers
<1>2. k \in 1 .. Len(response)
  BY DEF Stream!Db!LineStarts
<1>3. Len(text) + k \in Stream!Db!LineStarts(text \o response)
  BY <1>1, LinesJoined
<1>4. ~Stream!Db!OpensNarration(text \o response, Len(text) + k)
  BY <1>1, <1>2, LinesJoined
<1>. QED
  BY <1>3, <1>4 DEF Stream!Db!Narration

(* A chunk that is shown leaves out what had been left out.                *)
LEMMA RestShown ==
    ASSUME NEW text \in Seq(STRING), NEW shown \in Seq(STRING), NEW d \in Seq(STRING),
           Stream!ShownOf(text, shown)
    PROVE  Stream!ShownOf(text \o d, shown \o d)
<1>. DEFINE n == Len(text)
            m == Len(d)
            whole == text \o d
            all == shown \o d
<1>1. PICK hidden \in SUBSET (1 .. n) :
        /\ hidden # {} => skip_naration
        /\ \A i \in hidden : \A k \in Stream!Db!LineStarts(text) :
             k <= i => Stream!Db!OpensNarration(text, k)
        /\ Stream!IsRest(shown, text, hidden)
  BY DEF Stream!ShownOf
<1>. DEFINE kept == (1 .. n) \ hidden
            now == (1 .. Len(whole)) \ hidden
<1>2. /\ n \in Nat /\ m \in Nat /\ Len(whole) = n + m
      /\ \A i \in 1 .. n : whole[i] = text[i]
      /\ \A k \in 1 .. m : whole[n + k] = d[k]
  BY ConcatIs
<1>3. /\ Len(all) = Len(shown) + m /\ Len(shown) = Cardinality(kept)
      /\ \A k \in 1 .. Len(shown) : all[k] = shown[k]
      /\ \A k \in 1 .. m : all[Len(shown) + k] = d[k]
      /\ \A i \in kept : shown[Cardinality({j \in kept : j <= i})] = text[i]
  <2>1. /\ Len(shown) = Cardinality(kept)
        /\ \A i \in kept : shown[Cardinality({j \in kept : j <= i})] = text[i]
    BY <1>1, SameCount DEF Stream!IsRest
  <2>2. /\ Len(all) = Len(shown) + m
        /\ \A k \in 1 .. Len(shown) : all[k] = shown[k]
        /\ \A k \in 1 .. m : all[Len(shown) + k] = d[k]
    BY ConcatIs
  <2>. HIDE DEF kept, m, all
  <2>. QED
    BY <2>1, <2>2
<1>. HIDE DEF n, m, whole, all
<1>4. kept \in SUBSET (1 .. n) /\ now = kept \cup ((n + 1) .. (n + m))
  BY <1>1, <1>2
<1>. HIDE DEF kept, now
<1>5. Cardinality(now) = Cardinality(kept) + m
  BY <1>2, <1>4, KeptGrows
<1>6. IsFiniteSet(kept) /\ Cardinality(kept) \in Nat
  BY <1>2, <1>4, KeptGrows
<1>7. ASSUME NEW i \in now PROVE all[Cardinality({j \in now : j <= i})] = whole[i]
  <2>1. CASE i \in kept
    <3>1. {j \in now : j <= i} = {j \in kept : j <= i}
      BY <1>2, <1>4, <2>1
    <3>. DEFINE upto == {j \in kept : j <= i}
    <3>2. upto \in SUBSET kept /\ i \in upto /\ i \in 1 .. n
      BY <1>2, <1>4, <2>1
    <3>3. shown[Cardinality(upto)] = text[i] /\ whole[i] = text[i]
      BY <1>2, <1>3, <2>1, <3>2
    <3>. HIDE DEF upto
    <3>4. IsFiniteSet(upto) /\ Cardinality(upto) <= Cardinality(kept)
      BY <1>6, <3>2, FS_Subset
    <3>5. Cardinality(upto) \in Nat /\ Cardinality(upto) # 0
      <4>1. Cardinality(upto) \in Nat
        BY <3>4, FS_CardinalityType
      <4>2. upto # {}
        BY <3>2
      <4>. QED
        BY <3>4, <4>1, <4>2, FS_EmptySet
    <3>6. Cardinality(upto) \in 1 .. Len(shown)
      BY <1>3, <1>6, <3>4, <3>5
    <3>7. all[Cardinality(upto)] = whole[i]
      BY <1>3, <3>3, <3>6
    <3>. QED
      BY <3>1, <3>7 DEF upto
  <2>2. CASE i \notin kept
    <3>1. PICK k \in 1 .. m : i = n + k
      <4>1. i \in (n + 1) .. (n + m)
        BY <1>4, <2>2
      <4>2. i - n \in 1 .. m /\ i = n + (i - n)
        BY <1>2, <4>1
      <4>. QED
        BY <4>2
    <3>2. {j \in now : j <= i} = kept \cup ((n + 1) .. (n + k))
      <4>1. ASSUME NEW j \in kept PROVE j <= i
        <5>1. j \in 1 .. n
          BY <1>4
        <5>2. n \in Int /\ k \in Int /\ 0 < k
          BY <1>2, <3>1
        <5>. QED
          BY <3>1, <5>1, <5>2
      <4>2. \A j \in (n + 1) .. (n + m) : j <= i <=> j \in (n + 1) .. (n + k)
        BY <1>2, <3>1
      <4>3. (n + 1) .. (n + k) \subseteq (n + 1) .. (n + m)
        BY <1>2, <3>1
      <4>. QED
        BY <1>4, <4>1, <4>2, <4>3
    <3>3. Cardinality({j \in now : j <= i}) = Len(shown) + k
      <4>1. Cardinality(kept \cup ((n + 1) .. (n + k))) = Cardinality(kept) + k
        <5>1. k \in Nat
          BY <1>2, <3>1
        <5>. QED
          BY <1>2, <1>4, <5>1, KeptGrows
      <4>. QED
        BY <1>3, <3>2, <4>1
    <3>. QED
      BY <1>2, <1>3, <3>1, <3>3
  <2>. QED
    BY <2>1, <2>2
<1>8. Stream!IsRest(all, whole, hidden)
  BY <1>3, <1>5, <1>7, SameCount DEF Stream!IsRest, now
<1>9. hidden \in SUBSET (1 .. Len(whole))
  BY <1>1, <1>2
<1>10. ASSUME NEW i \in hidden, NEW k \in Stream!Db!LineStarts(whole), k <= i
       PROVE  Stream!Db!OpensNarration(whole, k)
  <2>1. k \in DOMAIN whole
    BY DEF Stream!Db!LineStarts
  <2>2. k \in 1 .. n
    <3>1. DOMAIN whole = 1 .. n + m
      <4>1. whole \in Seq(STRING)
        BY ConcatIs DEF whole
      <4>. QED
        BY <1>2, <4>1
    <3>. QED
      BY <1>1, <1>2, <1>10, <2>1, <3>1
  <2>3. k \in Stream!Db!LineStarts(text)
    BY <2>2, LinesJoined DEF n, whole
  <2>4. Stream!Db!OpensNarration(text, k)
    BY <1>1, <1>10, <2>3
  <2>. QED
    BY <2>2, <2>4, LinesJoined DEF n, whole
<1>11. Stream!ShownOf(whole, all)
  BY <1>1, <1>8, <1>9, <1>10 DEF Stream!ShownOf
<1>. QED
  BY <1>11 DEF whole, all

(* When a chunk is withheld every line so far is narration.                *)
LEMMA RestHidden ==
    ASSUME NEW text \in Seq(STRING), NEW shown, NEW d \in Chunks,
           Stream!ShownOf(text, shown), skip_naration, Stream!Db!Narration(text \o d)
    PROVE  Stream!ShownOf(text \o d, shown)
<1>. DEFINE n == Len(text)
            m == Len(d)
            whole == text \o d
<1>1. PICK hidden \in SUBSET (1 .. n) :
        /\ hidden # {} => skip_naration
        /\ \A i \in hidden : \A k \in Stream!Db!LineStarts(text) :
             k <= i => Stream!Db!OpensNarration(text, k)
        /\ Stream!IsRest(shown, text, hidden)
  BY DEF Stream!ShownOf
<1>2. /\ n \in Nat /\ m \in Nat /\ whole \in Seq(STRING) /\ Len(whole) = n + m
      /\ \A i \in 1 .. n : whole[i] = text[i]
      /\ \A k \in 1 .. m : whole[n + k] = d[k]
  BY ConcatIs DEF Chunks
<1>3. \A k \in Stream!Db!LineStarts(whole) : Stream!Db!OpensNarration(whole, k)
  BY DEF Stream!Db!Narration
<1>. DEFINE next == hidden \cup ((n + 1) .. (n + m))
            kept == (1 .. n) \ hidden
<1>6. /\ Len(shown) = Cardinality(kept)
      /\ \A i \in kept : shown[Cardinality({j \in kept : j <= i})] = text[i]
  BY <1>1, SameCount DEF Stream!IsRest
<1>. HIDE DEF whole, n, m
<1>7. (1 .. Len(whole)) \ next = kept /\ next \in SUBSET (1 .. Len(whole))
  BY <1>1, <1>2
<1>9. Stream!IsRest(shown, whole, next)
  <2>1. \A i \in kept : whole[i] = text[i]
    BY <1>2
  <2>. HIDE DEF kept, next
  <2>. QED
    BY <1>6, <1>7, <2>1, SameCount DEF Stream!IsRest
<1>. HIDE DEF next
<1>10. Stream!ShownOf(whole, shown)
  BY <1>3, <1>7, <1>9 DEF Stream!ShownOf
<1>. QED
  BY <1>10 DEF whole

(* A text judged as a whole stays so, with what is withheld or shown next. *)
LEMMA JudgedHidden ==
    ASSUME NEW text \in Seq(STRING), NEW shown \in Seq(STRING), NEW d \in Chunks, IsJudgedAsWhole(text, shown),
           skip_naration, Stream!Db!Narration(text \o d)
    PROVE  IsJudgedAsWhole(text \o d, shown)
<1>1. d \in Seq(STRING) /\ ~Stream!Db!Blank(text \o d)
  BY DEF Chunks, Stream!Db!Narration
<1>2. Stream!MayBeNarration(shown)
  BY <1>1, EarlierOfNarration DEF IsJudgedAsWhole, Stream!MayBeNarration
<1>. QED
  BY <1>1, <1>2 DEF IsJudgedAsWhole

LEMMA JudgedShown ==
    ASSUME NEW text \in Seq(STRING), NEW shown \in Seq(STRING), NEW d \in Chunks,
           IsJudgedAsWhole(text, shown), ~(skip_naration /\ Stream!Db!Narration(text \o d))
    PROVE  IsJudgedAsWhole(text \o d, shown \o d)
<1>1. d \in Seq(STRING) /\ d # <<>> /\ Len(d) \in 1 .. Len(d)
  BY DEF Chunks
<1>2. /\ Len(text \o d) = Len(text) + Len(d) /\ (text \o d)[Len(text) + Len(d)] = d[Len(d)]
      /\ Len(shown \o d) = Len(shown) + Len(d) /\ (shown \o d)[Len(shown) + Len(d)] = d[Len(d)]
  BY <1>1, ConcatIs
<1>3. shown \o d # <<>>
  BY <1>1
<1>4. ASSUME Stream!Db!Blank(text \o d) PROVE Stream!Db!Blank(shown \o d)
  <2>1. \A i \in 1 .. Len(text) + Len(d) : (text \o d)[i] = "break"
    <3>1. DOMAIN (text \o d) = 1 .. Len(text) + Len(d)
      BY <1>1
    <3>. QED
      BY <1>4, <3>1 DEF Stream!Db!Blank
  <2>2. ASSUME NEW i \in 1 .. Len(text) PROVE text[i] = "break"
    <3>1. i \in 1 .. Len(text) + Len(d)
      BY <1>1
    <3>. QED
      BY <1>1, <2>1, <3>1, ConcatIs
  <2>3. ASSUME NEW i \in 1 .. Len(d) PROVE d[i] = "break"
    <3>1. Len(text) + i \in 1 .. Len(text) + Len(d)
      BY <1>1
    <3>. QED
      BY <1>1, <2>1, <3>1, ConcatIs
  <2>4. Stream!Db!Blank(text)
    BY <2>2 DEF Stream!Db!Blank
  <2>5. \A i \in 1 .. Len(shown) : shown[i] = "break"
    <3>1. Stream!Db!Blank(shown)
      BY <2>4 DEF IsJudgedAsWhole
    <3>. QED
      BY <3>1 DEF Stream!Db!Blank
  <2>. DEFINE all == shown \o d
  <2>6. /\ DOMAIN all = 1 .. Len(shown) + Len(d)
        /\ \A i \in 1 .. Len(shown) : all[i] = shown[i]
        /\ \A i \in 1 .. Len(d) : all[Len(shown) + i] = d[i]
    BY <1>1, ConcatIs
  <2>. HIDE DEF all
  <2>7. ASSUME NEW i \in 1 .. Len(shown) + Len(d) PROVE all[i] = "break"
    <3>1. CASE i \in 1 .. Len(shown)
      BY <2>5, <2>6, <3>1
    <3>2. CASE i \notin 1 .. Len(shown)
      <4>1. i - Len(shown) \in 1 .. Len(d) /\ Len(shown) + (i - Len(shown)) = i
        BY <1>1, <3>2
      <4>. QED
        BY <2>3, <2>6, <4>1
    <3>. QED
      BY <3>1, <3>2
  <2>8. Stream!Db!Blank(all)
    BY <2>6, <2>7 DEF Stream!Db!Blank
  <2>. QED
    BY <2>8 DEF all
<1>5. (text \o d)[Len(text \o d)] = "I" => Stream!MayBeNarration(shown \o d)
  BY <1>2 DEF Stream!MayBeNarration
<1>. QED
  BY <1>3, <1>4, <1>5 DEF IsJudgedAsWhole

(* What is sent of a step, field by field: a text that came is noted, and  *)
(* may be shown.                                                           *)
LEMMA TextWithheld ==
    ASSUME NEW st, Fine(st), NEW s \in Stream!Indexes, NEW d \in Chunks,
           skip_naration, Stream!Db!Narration(st.p.agent_text[s] \o d)
    PROVE  Fine([st EXCEPT !.p.agent_text[s] = st.p.agent_text[s] \o d])
<1>. DEFINE text == st.p.agent_text[s] \o d
            p1 == [st.p EXCEPT !.agent_text[s] = text]
<1>1. /\ st \in [p : ProcType, c : ClientType] /\ st.p \in ProcType /\ st.c \in ClientType
      /\ Told(st.p, st.c) /\ ShowsText(st.p, st.c) /\ HoldsText(st.p, st.c)
  BY DEF Fine
<1>2. st.p.agent_text[s] \in Seq(STRING) /\ d \in Seq(STRING) /\ text \in Seq(STRING)
  BY <1>1 DEF ProcType, Chunks
<1>3. Stream!ShownOf(text, st.c.text[s]) /\ IsJudgedAsWhole(text, st.c.text[s])
  <2>1. Stream!ShownOf(st.p.agent_text[s], st.c.text[s]) /\ IsJudgedAsWhole(st.p.agent_text[s], st.c.text[s])
    BY <1>1 DEF HoldsText
  <2>2. st.c.text[s] \in Seq(STRING)
    BY <1>1 DEF ClientType
  <2>. QED
    BY <1>2, <2>1, <2>2, RestHidden, JudgedHidden
<1>. HIDE DEF text
<1>4. /\ p1 \in ProcType /\ p1.started_tools = st.p.started_tools
      /\ p1.emitted_agent_text = st.p.emitted_agent_text
      /\ p1.agent_text[s] = text /\ \A x \in Stream!Indexes : x # s => p1.agent_text[x] = st.p.agent_text[x]
  BY <1>1, <1>2 DEF ProcType
<1>5. [st EXCEPT !.p.agent_text[s] = text] = [p |-> p1, c |-> st.c]
  BY <1>1
<1>. HIDE DEF p1
<1>6. Told(p1, st.c) /\ ShowsText(p1, st.c) /\ HoldsText(p1, st.c)
  BY <1>1, <1>3, <1>4 DEF Told, ShowsText, HoldsText
<1>7. Fine([p |-> p1, c |-> st.c])
  BY <1>1, <1>4, <1>6 DEF Fine
<1>. QED
  BY <1>5, <1>7 DEF text

LEMMA TextShown ==
    ASSUME NEW st, Fine(st), NEW s \in Stream!Indexes, NEW d \in Chunks,
           ~(skip_naration /\ Stream!Db!Narration(st.p.agent_text[s] \o d))
    PROVE  LET got == [st EXCEPT !.p.agent_text[s] = st.p.agent_text[s] \o d]
               sent == Stream!Send([got EXCEPT !.p.emitted_agent_text = TRUE], "text", s,
                                   st.c.text[s] \o d)
           IN  Fine(sent) /\ sent.c.text[s] # <<>>
<1>. DEFINE text == st.p.agent_text[s] \o d
            shown == st.c.text[s] \o d
            got == [st EXCEPT !.p.agent_text[s] = text]
            p2 == [[[st.p EXCEPT !.agent_text[s] = text] EXCEPT !.emitted_agent_text = TRUE]
                      EXCEPT !.had_updates = TRUE]
            c2 == [st.c EXCEPT !["text"][s] = shown]
            sent == Stream!Send([got EXCEPT !.p.emitted_agent_text = TRUE], "text", s, shown)
<1>1. /\ st \in [p : ProcType, c : ClientType] /\ st.p \in ProcType /\ st.c \in ClientType
      /\ Told(st.p, st.c) /\ ShowsText(st.p, st.c) /\ HoldsText(st.p, st.c)
  BY DEF Fine
<1>2. /\ st.p.agent_text[s] \in Seq(STRING) /\ d \in Seq(STRING) /\ st.c.text[s] \in Seq(STRING)
      /\ d # <<>>
  BY <1>1 DEF ProcType, ClientType, Chunks
<1>3. text \in Seq(STRING) /\ shown \in Seq(STRING) /\ shown # <<>>
  BY <1>2, ConcatIs
<1>4. Stream!ShownOf(text, shown) /\ IsJudgedAsWhole(text, shown)
  <2>1. Stream!ShownOf(st.p.agent_text[s], st.c.text[s]) /\ IsJudgedAsWhole(st.p.agent_text[s], st.c.text[s])
    BY <1>1 DEF HoldsText
  <2>. QED
    BY <1>2, <2>1, RestShown, JudgedShown
<1>5. sent = [p |-> p2, c |-> c2]
  BY <1>1 DEF Stream!Send, ProcType
<1>. HIDE DEF text, shown
<1>6. /\ p2 \in ProcType /\ p2.started_tools = st.p.started_tools /\ p2.emitted_agent_text = TRUE
      /\ p2.agent_text[s] = text /\ \A x \in Stream!Indexes : x # s => p2.agent_text[x] = st.p.agent_text[x]
  BY <1>1, <1>3 DEF ProcType
<1>7. /\ c2 \in ClientType /\ c2.calls = st.c.calls
      /\ c2.text[s] = shown /\ \A x \in Stream!Indexes : x # s => c2.text[x] = st.c.text[x]
  BY <1>1, <1>3 DEF ClientType
<1>. HIDE DEF p2, c2
<1>8. Told(p2, c2)
  BY <1>1, <1>6, <1>7 DEF Told
<1>9. ShowsText(p2, c2)
  BY <1>3, <1>6, <1>7 DEF ShowsText
<1>10. HoldsText(p2, c2)
  BY <1>1, <1>4, <1>6, <1>7 DEF HoldsText
<1>11. Fine([p |-> p2, c |-> c2])
  BY <1>6, <1>7, <1>8, <1>9, <1>10 DEF Fine
<1>12. Fine(sent) /\ sent.c.text[s] # <<>>
  BY <1>3, <1>5, <1>7, <1>11
<1>. QED
  BY <1>12 DEF text, shown

(* A thought is told to the client, and to nobody's text.                  *)
LEMMA SendThought ==
    ASSUME NEW st, Fine(st), NEW s \in Stream!Indexes, NEW delta \in Seq(STRING)
    PROVE  LET sent == Stream!EmitThoughtDelta(st, s, delta)
           IN  Fine(sent) /\ sent.c.text = st.c.text
<1>. DEFINE text == st.p.thought_text[s] \o delta
            p2 == [st.p EXCEPT !.thought_text[s] = text, !.had_updates = TRUE]
            c2 == [st.c EXCEPT !["thought"][s] = st.c.thought[s] \o delta]
            sent == Stream!EmitThoughtDelta(st, s, delta)
<1>1. /\ st \in [p : ProcType, c : ClientType] /\ st.p \in ProcType /\ st.c \in ClientType
      /\ Told(st.p, st.c) /\ ShowsText(st.p, st.c) /\ HoldsText(st.p, st.c)
  BY DEF Fine
<1>2. sent = [p |-> p2, c |-> c2]
  BY <1>1 DEF Stream!EmitThoughtDelta, Stream!Send, ProcType
<1>3. text \in Seq(STRING) /\ st.c.thought[s] \o delta \in Seq(STRING)
  BY <1>1 DEF ProcType, ClientType
<1>4. /\ p2 \in ProcType /\ p2.started_tools = st.p.started_tools
      /\ p2.emitted_agent_text = st.p.emitted_agent_text /\ p2.agent_text = st.p.agent_text
  BY <1>1, <1>3 DEF ProcType
<1>5. c2 \in ClientType /\ c2.calls = st.c.calls /\ c2.text = st.c.text
  BY <1>1, <1>3 DEF ClientType
<1>. HIDE DEF p2, c2
<1>6. Told(p2, c2) /\ ShowsText(p2, c2) /\ HoldsText(p2, c2)
  BY <1>1, <1>4, <1>5 DEF Told, ShowsText, HoldsText
<1>. QED
  BY <1>2, <1>4, <1>5, <1>6 DEF Fine

(* A report of a call: the first is the announcement, and a later one      *)
(* says how it ended.                                                      *)
LEMMA SendCall ==
    ASSUME NEW st, Fine(st), NEW s \in Stream!Indexes, NEW report \in Reports,
           report.update = "tool_call" <=> s \notin st.p.started_tools,
           s \in st.p.started_tools => report.status # "in_progress"
    PROVE  LET sent == Stream!Send([st EXCEPT !.p.started_tools = @ \cup {s}], "calls", s,
                                   Append(st.c.calls[s], report))
           IN  Fine(sent) /\ sent.c.text = st.c.text
<1>. DEFINE p2 == [st.p EXCEPT !.started_tools = @ \cup {s}, !.had_updates = TRUE]
            told == Append(st.c.calls[s], report)
            c2 == [st.c EXCEPT !["calls"][s] = told]
            sent == Stream!Send([st EXCEPT !.p.started_tools = @ \cup {s}], "calls", s, told)
<1>1. /\ st \in [p : ProcType, c : ClientType] /\ st.p \in ProcType /\ st.c \in ClientType
      /\ Told(st.p, st.c) /\ ShowsText(st.p, st.c) /\ HoldsText(st.p, st.c)
  BY DEF Fine
<1>2. sent = [p |-> p2, c |-> c2]
  BY <1>1 DEF Stream!Send, ProcType
<1>3. st.c.calls[s] \in Seq(Reports)
  BY <1>1 DEF ClientType
<1>4. /\ told \in Seq(Reports) /\ told # <<>>
      /\ Len(told) = Len(st.c.calls[s]) + 1 /\ Len(st.c.calls[s]) \in Nat
      /\ told[Len(st.c.calls[s]) + 1] = report
      /\ \A i \in 1 .. Len(st.c.calls[s]) : told[i] = st.c.calls[s][i]
      /\ (st.c.calls[s] = <<>>) <=> (Len(st.c.calls[s]) = 0)
  BY <1>3, AppendIs
<1>5. /\ p2 \in ProcType /\ p2.started_tools = st.p.started_tools \cup {s}
      /\ p2.emitted_agent_text = st.p.emitted_agent_text /\ p2.agent_text = st.p.agent_text
  <2>1. st.p.started_tools \cup {s} \in SUBSET Stream!Indexes
    BY <1>1 DEF ProcType
  <2>2. p2 = [st.p EXCEPT !.started_tools = st.p.started_tools \cup {s}, !.had_updates = TRUE]
    BY <1>1 DEF ProcType
  <2>. HIDE DEF p2
  <2>. QED
    BY <1>1, <2>1, <2>2 DEF ProcType
<1>. HIDE DEF told
<1>6. /\ c2 \in ClientType /\ c2.text = st.c.text /\ c2.calls[s] = told
      /\ \A x \in Stream!Indexes : x # s => c2.calls[x] = st.c.calls[x]
  BY <1>1, <1>4 DEF ClientType
<1>. HIDE DEF p2, c2
<1>7. Told(p2, c2)
  <2>. SUFFICES ASSUME NEW x \in Stream!Indexes
                PROVE  /\ x \in p2.started_tools <=> c2.calls[x] # <<>>
                       /\ \A i \in 1 .. Len(c2.calls[x]) :
                            /\ c2.calls[x][i].update = "tool_call" <=> i = 1
                            /\ i > 1 => c2.calls[x][i].status # "in_progress"
    BY DEF Told
  <2>1. CASE x # s
    <3>1. c2.calls[x] = st.c.calls[x] /\ (x \in p2.started_tools <=> x \in st.p.started_tools)
      BY <1>5, <1>6, <2>1
    <3>. QED
      BY <1>1, <3>1 DEF Told
  <2>2. CASE x = s
    <3>1. c2.calls[x] = told /\ x \in p2.started_tools
      BY <1>5, <1>6, <2>2
    <3>2. /\ s \in st.p.started_tools <=> st.c.calls[s] # <<>>
          /\ \A i \in 1 .. Len(st.c.calls[s]) :
               /\ st.c.calls[s][i].update = "tool_call" <=> i = 1
               /\ i > 1 => st.c.calls[s][i].status # "in_progress"
      BY <1>1 DEF Told
    <3>3. ASSUME NEW i \in 1 .. Len(told)
          PROVE  /\ told[i].update = "tool_call" <=> i = 1
                 /\ i > 1 => told[i].status # "in_progress"
      <4>1. CASE i \in 1 .. Len(st.c.calls[s])
        BY <1>4, <3>2, <4>1
      <4>2. CASE i = Len(st.c.calls[s]) + 1
        <5>1. told[i] = report /\ (i = 1 <=> s \notin st.p.started_tools)
              /\ (i > 1 => s \in st.p.started_tools)
          BY <1>4, <3>2, <4>2
        <5>. QED
          BY <5>1
      <4>3. i \in 1 .. Len(st.c.calls[s]) \/ i = Len(st.c.calls[s]) + 1
        BY <1>4
      <4>. QED
        BY <4>1, <4>2, <4>3
    <3>. QED
      BY <1>4, <3>1, <3>3
  <2>. QED
    BY <2>1, <2>2
<1>8. ShowsText(p2, c2) /\ HoldsText(p2, c2)
  BY <1>1, <1>5, <1>6 DEF ShowsText, HoldsText
<1>. QED
  BY <1>2, <1>5, <1>6, <1>7, <1>8 DEF Fine, told

-----------------------------------------------------------------------------
(* The parts of an event *)

(* A text is shown, or all of it so far is narration to be withheld.       *)
LEMMA AgentDeltaFine ==
    ASSUME NEW st, Fine(st), NEW s \in Stream!Indexes, NEW delta \in Chunks
    PROVE  /\ Fine(Stream!EmitAgentDelta(st, s, delta))
           /\ \/ Stream!EmitAgentDelta(st, s, delta).c.text[s] # <<>>
              \/ skip_naration /\ Stream!Db!Narration(st.p.agent_text[s] \o delta)
<1>1. CASE skip_naration /\ Stream!Db!Narration(st.p.agent_text[s] \o delta)
  <2>1. Stream!EmitAgentDelta(st, s, delta) = [st EXCEPT !.p.agent_text[s] = st.p.agent_text[s] \o delta]
    BY <1>1 DEF Stream!EmitAgentDelta
  <2>2. Fine([st EXCEPT !.p.agent_text[s] = st.p.agent_text[s] \o delta])
    BY <1>1, TextWithheld
  <2>. QED
    BY <1>1, <2>1, <2>2
<1>2. CASE ~(skip_naration /\ Stream!Db!Narration(st.p.agent_text[s] \o delta))
  <2>1. Stream!EmitAgentDelta(st, s, delta) =
          LET got == [st EXCEPT !.p.agent_text[s] = st.p.agent_text[s] \o delta]
          IN  Stream!Send([got EXCEPT !.p.emitted_agent_text = TRUE], "text", s,
                          st.c.text[s] \o delta)
    BY <1>2 DEF Stream!EmitAgentDelta
  <2>. QED
    BY <1>2, <2>1, TextShown
<1>. QED
  BY <1>1, <1>2

(* Of a repeated thought what is new is told.                              *)
LEMMA SnapshotFine ==
    ASSUME NEW st, Fine(st), NEW s \in Stream!Indexes, NEW text \in Seq(STRING)
    PROVE  Fine(Stream!EmitThoughtSnapshot(st, s, text))
<1>. DEFINE already == st.p.thought_text[s]
            more == SubSeq(text, Len(already) + 1, Len(text))
<1>1. already \in Seq(STRING)
  BY DEF Fine, ProcType
<1>. HIDE DEF already
<1>2. more \in Seq(STRING)
  BY <1>1
<1>3. Fine(Stream!EmitThoughtDelta(st, s, more))
  BY <1>2, SendThought
<1>4. Stream!EmitThoughtSnapshot(st, s, text) \in {st, Stream!EmitThoughtDelta(st, s, more)}
  BY DEF Stream!EmitThoughtSnapshot, already
<1>. QED
  BY <1>3, <1>4

(* What a tool_call of the stream may say.                                 *)
ToolType == [think : BOOLEAN, thought : Seq(STRING), error : BOOLEAN]

(* A tool is announced the first time, and then only ends.                 *)
LEMMA ToolFine ==
    ASSUME NEW st, Fine(st), NEW s \in Stream!Indexes, NEW t \in ToolType, NEW done \in BOOLEAN
    PROVE  Fine(Stream!EmitTool(st, s, t, done))
<1>1. CASE t.think /\ t.thought # <<>>
  <2>1. Stream!EmitTool(st, s, t, done) = Stream!EmitThoughtSnapshot(st, s, t.thought)
    BY <1>1 DEF Stream!EmitTool
  <2>. QED
    BY <2>1, SnapshotFine DEF ToolType
<1>2. CASE /\ ~(t.think /\ t.thought # <<>>)
           /\ (t.think /\ ~done) \/ (s \in st.p.started_tools /\ ~done)
  <2>1. Stream!EmitTool(st, s, t, done) = st
    BY <1>2 DEF Stream!EmitTool
  <2>. QED
    BY <2>1
<1>3. CASE /\ ~(t.think /\ t.thought # <<>>)
           /\ ~((t.think /\ ~done) \/ (s \in st.p.started_tools /\ ~done))
  <2>. DEFINE update == IF s \in st.p.started_tools THEN "tool_call_update" ELSE "tool_call"
              report == Stream!Call(update, Stream!Status(t, done))
  <2>1. Stream!EmitTool(st, s, t, done) =
          Stream!Send([st EXCEPT !.p.started_tools = @ \cup {s}], "calls", s,
                      Append(st.c.calls[s], report))
    BY <1>3 DEF Stream!EmitTool
  <2>2. report \in Reports /\ (report.update = "tool_call" <=> s \notin st.p.started_tools)
    <3>1. update \in Updates /\ (update = "tool_call" <=> s \notin st.p.started_tools)
      BY DEF Updates
    <3>2. Stream!Status(t, done) \in Statuses
      BY DEF Stream!Status, Statuses
    <3>. HIDE DEF update
    <3>. QED
      BY <3>1, <3>2 DEF Stream!Call, Reports
  <2>3. s \in st.p.started_tools => report.status # "in_progress"
    BY <1>3 DEF Stream!Call, Stream!Status
  <2>. HIDE DEF report
  <2>. QED
    BY <2>1, <2>2, <2>3, SendCall
<1>. QED
  BY <1>1, <1>2, <1>3

(* A subagent is announced unless its step was.                            *)
LEMMA SubagentFine ==
    ASSUME NEW st, Fine(st), NEW s \in Stream!Indexes
    PROVE  Fine(Stream!EmitSubagent(st, s))
<1>1. CASE s \in st.p.started_tools
  BY <1>1 DEF Stream!EmitSubagent
<1>2. CASE s \notin st.p.started_tools
  <2>. DEFINE report == Stream!Call("tool_call", "completed")
  <2>1. Stream!EmitSubagent(st, s) =
          Stream!Send([st EXCEPT !.p.started_tools = @ \cup {s}], "calls", s,
                      Append(st.c.calls[s], report))
    BY <1>2 DEF Stream!EmitSubagent
  <2>2. report = [update |-> "tool_call", status |-> "completed"]
    BY DEF Stream!Call
  <2>3. report \in Reports /\ report.update = "tool_call" /\ report.status # "in_progress"
    BY <2>2 DEF Reports, Updates, Statuses
  <2>. HIDE DEF report
  <2>. QED
    BY <1>2, <2>1, <2>3, SendCall
<1>. QED
  BY <1>1, <1>2

EventType ==
    [type : Stream!StepTypes, text : Seq(STRING), thought : Seq(STRING), tool : ToolType,
     calls : BOOLEAN, subagent : BOOLEAN, done : BOOLEAN]

(* What an event may carry.                                                *)
LEMMA EventsTyped ==
    ASSUME StreamConstants, NEW e \in Stream!StepUpdates
    PROVE  e \in EventType /\ (e.type = "agent" => e.text \in Chunks \cup {<<>>})
<1>1. /\ Deltas \subseteq Seq(STRING) /\ Thoughts \subseteq Seq(STRING) /\ <<>> \in Seq(STRING)
  BY DEF StreamConstants, Chunks
<1>2. Stream!NoTool \in ToolType
  BY <1>1 DEF Stream!NoTool, ToolType
<1>3. Stream!Tools \subseteq ToolType
  BY <1>1 DEF Stream!Tools, Stream!NoTool, ToolType
<1>4. Stream!Plain \in EventType
  <2>1. "agent" \in Stream!StepTypes
    BY DEF Stream!StepTypes
  <2>. QED
    BY <1>1, <1>2, <2>1 DEF Stream!Plain, EventType
<1>5. \A t \in Seq(STRING), y \in Stream!StepTypes : Stream!Says(y, t) \in EventType
  BY <1>4 DEF EventType, Stream!Says
<1>6. \A t \in Seq(STRING) : Stream!Thinks(t) \in EventType
  BY <1>4 DEF EventType, Stream!Thinks
<1>7. \A t \in ToolType, d \in BOOLEAN : Stream!Uses(t, d) \in EventType
  BY <1>4 DEF EventType, Stream!StepTypes, Stream!Uses
<1>8. \A c \in BOOLEAN : Stream!Delegates(c) \in EventType
  BY <1>4 DEF EventType, Stream!Delegates
<1>9. \A t \in Seq(STRING) : Stream!SaysAndCalls(t) \in EventType
  BY <1>4 DEF EventType, Stream!SaysAndCalls
<1>10. {"agent", "thinking", "muted"} \subseteq Stream!StepTypes
  BY DEF Stream!StepTypes
<1>11. Stream!StepUpdates \subseteq EventType
  BY <1>1, <1>3, <1>5, <1>6, <1>7, <1>8, <1>9, <1>10 DEF Stream!StepUpdates
<1>12. /\ \A t, y : Stream!Says(y, t).type = y /\ Stream!Says(y, t).text = t
       /\ \A t : Stream!Thinks(t).text = <<>>
       /\ \A t, d : Stream!Uses(t, d).type = "tool"
       /\ \A c : Stream!Delegates(c).text = <<>>
       /\ \A t : Stream!SaysAndCalls(t).text = t
  BY DEF Stream!Says, Stream!Thinks, Stream!Uses, Stream!Delegates, Stream!SaysAndCalls, Stream!Plain
<1>13. e.type = "agent" => e.text \in Chunks \cup {<<>>}
  <2>1. Deltas \subseteq Chunks
    BY DEF StreamConstants
  <2>. QED
    BY <1>12, <2>1 DEF Stream!StepUpdates
<1>. QED
  BY <1>11, <1>13

-----------------------------------------------------------------------------
(* The stream *)

StreamInv == Fine([p |-> proc, c |-> client])

(* A step's number, and the later of two.                                  *)
LEMMA IndexesAre ==
    ASSUME StreamConstants
    PROVE  /\ -1 \in Stream!Indexes /\ Stream!Indexes \subseteq Int
           /\ \A i \in Stream!Indexes : Stream!Later(i, 0) \in Stream!Indexes
           /\ \A i, s \in Stream!Indexes : Stream!Later(i, s) \in Stream!Indexes
  BY DEF StreamConstants, Stream!Indexes, Stream!Steps, Stream!Later

(* Nothing has been told, and nothing is noted.                            *)
LEMMA StreamStarts == StreamConstants /\ Stream!Init => StreamInv
<1>. SUFFICES ASSUME StreamConstants, Stream!Init PROVE StreamInv
  OBVIOUS
<1>. DEFINE none == Stream!OfEachStep(<<>>)
<1>1. none = [s \in Stream!Indexes |-> <<>>]
  BY DEF Stream!OfEachStep
<1>2. /\ none \in [Stream!Indexes -> Seq(STRING)] /\ none \in [Stream!Indexes -> Seq(Reports)]
      /\ \A s \in Stream!Indexes : none[s] = <<>>
  <2>1. \A T : none \in [Stream!Indexes -> Seq(T)]
    <3>. TAKE T
    <3>1. <<>> \in Seq(T)
      OBVIOUS
    <3>. QED
      BY <1>1, <3>1
  <2>. QED
    BY <1>1, <2>1
<1>3. /\ proc = [last_step_idx |-> -1, saw_result |-> FALSE, had_updates |-> FALSE,
                 agent_text |-> none, thought_text |-> none,
                 started_tools |-> {}, emitted_agent_text |-> FALSE]
      /\ client = [text |-> none, thought |-> none, calls |-> none]
  BY DEF Stream!Init
<1>. HIDE DEF none
<1>4. proc \in ProcType /\ client \in ClientType
  BY <1>2, <1>3, IndexesAre DEF ProcType, ClientType
<1>5. Told(proc, client)
  BY <1>2, <1>3 DEF Told
<1>6. ShowsText(proc, client)
  BY <1>2, <1>3 DEF ShowsText
<1>7. HoldsText(proc, client)
  <2>1. Stream!ShownOf(<<>>, <<>>)
    <3>1. (1 .. Len(<<>>)) \ {} = {} /\ Len(<<>>) = 0
      OBVIOUS
    <3>2. Cardinality({}) = 0
      BY FS_EmptySet
    <3>3. Stream!IsRest(<<>>, <<>>, {})
      BY <3>1, <3>2, SameCount DEF Stream!IsRest
    <3>. QED
      BY <3>3 DEF Stream!ShownOf
  <2>2. IsJudgedAsWhole(<<>>, <<>>)
    BY DEF IsJudgedAsWhole, Stream!MayBeNarration, Stream!Db!Blank, Stream!Db!Narration
  <2>. QED
    BY <1>2, <1>3, <2>1, <2>2 DEF HoldsText
<1>. QED
  BY <1>4, <1>5, <1>6, <1>7 DEF StreamInv, Fine

(* What is noted of an event before it is dealt with.                      *)
LEMMA LastStepFine ==
    ASSUME StreamInv, NEW i \in Stream!Indexes
    PROVE  Fine([p |-> [proc EXCEPT !.last_step_idx = i], c |-> client])
<1>. DEFINE p2 == [proc EXCEPT !.last_step_idx = i]
<1>1. /\ proc \in ProcType /\ client \in ClientType /\ Told(proc, client)
      /\ ShowsText(proc, client) /\ HoldsText(proc, client)
  BY DEF StreamInv, Fine
<1>2. /\ p2 \in ProcType /\ p2.started_tools = proc.started_tools
      /\ p2.emitted_agent_text = proc.emitted_agent_text /\ p2.agent_text = proc.agent_text
  BY <1>1 DEF ProcType
<1>. HIDE DEF p2
<1>3. Told(p2, client) /\ ShowsText(p2, client) /\ HoldsText(p2, client)
  BY <1>1, <1>2 DEF Told, ShowsText, HoldsText
<1>4. Fine([p |-> p2, c |-> client])
  BY <1>1, <1>2, <1>3 DEF Fine
<1>. QED
  BY <1>4 DEF p2

(* And of the result.                                                      *)
LEMMA SawResultFine ==
    ASSUME StreamInv
    PROVE  /\ Fine([p |-> [proc EXCEPT !.saw_result = TRUE], c |-> client])
           /\ [proc EXCEPT !.saw_result = TRUE].agent_text = proc.agent_text
<1>. DEFINE p2 == [proc EXCEPT !.saw_result = TRUE]
<1>1. /\ proc \in ProcType /\ client \in ClientType /\ Told(proc, client)
      /\ ShowsText(proc, client) /\ HoldsText(proc, client)
  BY DEF StreamInv, Fine
<1>2. /\ p2 \in ProcType /\ p2.started_tools = proc.started_tools
      /\ p2.emitted_agent_text = proc.emitted_agent_text /\ p2.agent_text = proc.agent_text
  BY <1>1 DEF ProcType
<1>. HIDE DEF p2
<1>3. Told(p2, client) /\ ShowsText(p2, client) /\ HoldsText(p2, client)
  BY <1>1, <1>2 DEF Told, ShowsText, HoldsText
<1>4. Fine([p |-> p2, c |-> client])
  BY <1>1, <1>2, <1>3 DEF Fine
<1>. QED
  BY <1>2, <1>4 DEF p2

(* The state after an event is the one its parts lead to.                  *)
LEMMA BecomesFine ==
    ASSUME NEW st, Fine(st), Stream!Becomes(st), UNCHANGED skip_naration
    PROVE  StreamInv'
<1>1. proc' = st.p /\ client' = st.c
  BY DEF Stream!Becomes
<1>2. st = [p |-> proc', c |-> client']
  BY <1>1 DEF Fine
<1>3. /\ [p |-> proc', c |-> client'] \in [p : ProcType, c : ClientType]
      /\ Told(proc', client') /\ ShowsText(proc', client') /\ HoldsText(proc', client')
  BY <1>1, <1>2 DEF Fine
<1>4. HoldsText(proc, client)'
  BY <1>3 DEF HoldsText, Stream!ShownOf, IsJudgedAsWhole
<1>5. /\ ([p |-> proc, c |-> client] \in [p : ProcType, c : ClientType])'
      /\ Told(proc, client)' /\ ShowsText(proc, client)'
  BY <1>3
<1>. QED
  BY <1>4, <1>5 DEF StreamInv, Fine

(* The four parts of a step, one after the other.                          *)
LEMMA StepFine ==
    ASSUME StreamConstants, StreamInv, NEW s \in Stream!Indexes, NEW e \in Stream!StepUpdates,
           Stream!ProcessStep(s, e)
    PROVE  StreamInv'
<1>. DEFINE st0 == [p |-> [proc EXCEPT !.last_step_idx = Stream!Later(proc.last_step_idx, s)],
                    c |-> client]
            st1 == Stream!OnText(st0, s, e)
            st2 == Stream!OnThought(st1, s, e)
            st3 == Stream!OnTool(st2, s, e)
            st4 == Stream!OnSubagent(st3, s, e)
<1>1. Stream!Becomes(st4) /\ UNCHANGED skip_naration
  BY DEF Stream!ProcessStep, Stream!NextLine
<1>2. e \in EventType /\ (e.type = "agent" => e.text \in Chunks \cup {<<>>})
  BY EventsTyped
<1>3. e.text \in Seq(STRING) /\ e.thought \in Seq(STRING) /\ e.tool \in ToolType /\ e.done \in BOOLEAN
  BY <1>2 DEF EventType
<1>4. Fine(st0)
  <2>1. proc.last_step_idx \in Stream!Indexes
    BY DEF StreamInv, Fine, ProcType
  <2>. QED
    BY <2>1, IndexesAre, LastStepFine
<1>. HIDE DEF st0
<1>5. Fine(st1)
  BY <1>2, <1>3, <1>4, AgentDeltaFine, SendThought DEF Stream!OnText
<1>. HIDE DEF st1
<1>6. Fine(st2)
  BY <1>3, <1>5, SendThought DEF Stream!OnThought
<1>. HIDE DEF st2
<1>7. Fine(st3)
  BY <1>3, <1>6, ToolFine DEF Stream!OnTool
<1>. HIDE DEF st3
<1>8. Fine(st4)
  BY <1>7, SubagentFine DEF Stream!OnSubagent
<1>. QED
  BY <1>1, <1>8, BecomesFine

(* The result is passed over if the answer was shown; if not, it is shown, *)
(* or all of it so far is narration that was to be withheld.               *)
LEMMA ResultFine ==
    ASSUME StreamConstants, StreamInv, NEW response \in Deltas \cup {<<>>}, Stream!ProcessResult(response)
    PROVE  /\ StreamInv'
           /\ Stream!HasAnswered(client) => client' = client
           /\ response # <<>> =>
                \/ \E s \in Stream!Indexes : client'.text[s] # <<>>
                \/ /\ skip_naration
                   /\ Stream!Db!Narration(
                        proc.agent_text[Stream!Later(proc.last_step_idx, 0)] \o response)
<1>. DEFINE st0 == [p |-> [proc EXCEPT !.saw_result = TRUE], c |-> client]
            s == Stream!Later(proc.last_step_idx, 0)
            st1 == Stream!EmitAgentDelta(st0, s, response)
            answered == \E x \in Stream!Indexes : client.text[x] # <<>>
<1>1. response \in Chunks \cup {<<>>}
  BY DEF StreamConstants
<1>2. Fine(st0) /\ st0.p.agent_text = proc.agent_text /\ st0.c = client
  BY SawResultFine
<1>3. proc.last_step_idx \in Stream!Indexes /\ (proc.emitted_agent_text <=> answered)
  BY DEF StreamInv, Fine, ProcType, ShowsText
<1>4. s \in Stream!Indexes
  BY <1>3, IndexesAre
<1>5. /\ IF response = <<>> \/ proc.emitted_agent_text THEN Stream!Becomes(st0) ELSE Stream!Becomes(st1)
      /\ UNCHANGED skip_naration
  BY DEF Stream!ProcessResult, Stream!NextLine
<1>6. Stream!HasAnswered(client) <=> answered
  BY DEF Stream!HasAnswered
<1>. HIDE DEF st0, s
<1>7. CASE response = <<>> \/ answered
  <2>1. Stream!Becomes(st0)
    BY <1>3, <1>5, <1>7
  <2>2. StreamInv'
    BY <1>2, <1>5, <2>1, BecomesFine
  <2>3. client' = client
    BY <1>2, <2>1 DEF Stream!Becomes
  <2>. QED
    BY <1>7, <2>2, <2>3
<1>8. CASE ~(response = <<>> \/ answered)
  <2>1. Stream!Becomes(st1)
    BY <1>3, <1>5, <1>8
  <2>2. /\ Fine(st1)
        /\ st1.c.text[s] # <<>> \/ (skip_naration /\ Stream!Db!Narration(proc.agent_text[s] \o response))
    BY <1>1, <1>2, <1>4, <1>8, AgentDeltaFine
  <2>. HIDE DEF st1
  <2>3. StreamInv' /\ client' = st1.c
    BY <1>5, <2>1, <2>2, BecomesFine DEF Stream!Becomes
  <2>. QED
    BY <1>4, <1>6, <1>8, <2>2, <2>3 DEF s
<1>. QED
  BY <1>7, <1>8

(* Every event keeps the invariant.                                        *)
LEMMA StreamGoesOn ==
    ASSUME StreamConstants, StreamInv, [Stream!Next]_(Stream!vars)
    PROVE  StreamInv'
<1>1. CASE Stream!Next
  BY <1>1, StepFine, ResultFine DEF Stream!Next
<1>2. CASE UNCHANGED Stream!vars
  <2>1. Stream!Becomes([p |-> proc, c |-> client]) /\ UNCHANGED skip_naration
    BY <1>2 DEF Stream!vars, Stream!Becomes
  <2>. QED
    BY <2>1, BecomesFine DEF StreamInv
<1>. QED
  BY <1>1, <1>2

(* The invariant holds throughout.                                         *)
LEMMA StreamAlways == StreamConstants => (Stream!Spec => []StreamInv)
<1>. SUFFICES ASSUME StreamConstants PROVE Stream!Spec => []StreamInv
  OBVIOUS
<1>1. Stream!Init => StreamInv
  BY StreamStarts
<1>2. StreamInv /\ [Stream!Next]_(Stream!vars) => StreamInv'
  BY StreamGoesOn
<1>. QED
  BY <1>1, <1>2, PTL DEF Stream!Spec

(* A call is announced once, before any update to it, and nothing sets it  *)
(* back to be in progress, whatever agy repeats or says out of order, and  *)
(* whichever of a tool and a subagent comes first for a step (`emit_tool`, *)
(* `emit_subagent`).                                                       *)
THEOREM CallsWellFormed == StreamConstants => (Stream!Spec => []ToolCallsAreWellFormed)
<1>. SUFFICES ASSUME StreamConstants PROVE Stream!Spec => []ToolCallsAreWellFormed
  OBVIOUS
<1>1. StreamInv => ToolCallsAreWellFormed
  <2>. SUFFICES ASSUME StreamInv, NEW s \in Stream!Indexes, NEW i \in DOMAIN client.calls[s]
                PROVE  /\ (client.calls[s][i].update = "tool_call") <=> (i = 1)
                       /\ i > 1 => client.calls[s][i].status # "in_progress"
    BY DEF ToolCallsAreWellFormed, Stream!ToolCallsAreWellFormed
  <2>1. client.calls[s] \in Seq(Reports) /\ Told(proc, client)
    BY DEF StreamInv, Fine, ClientType
  <2>2. i \in 1 .. Len(client.calls[s])
    BY <2>1
  <2>. QED
    BY <2>1, <2>2 DEF Told
<1>. QED
  BY <1>1, StreamAlways, PTL

(* All that is ever withheld of a step's text, and only if asked for, is   *)
(* of the lines of narration that come before any other line               *)
(* (README.md:25); the rest is shown, once and in order, wherever agy cuts *)
(* it into chunks (`emit_agent_delta`).                                    *)
THEOREM OnlyLeadingNarration == StreamConstants => (Stream!Spec => []OnlyLeadingNarrationIsWithheld)
<1>. SUFFICES ASSUME StreamConstants PROVE Stream!Spec => []OnlyLeadingNarrationIsWithheld
  OBVIOUS
<1>1. StreamInv => OnlyLeadingNarrationIsWithheld
  BY DEF StreamInv, Fine, HoldsText, OnlyLeadingNarrationIsWithheld, Stream!OnlyLeadingNarrationIsWithheld
<1>. QED
  BY <1>1, StreamAlways, PTL

(* The result repeats the answer: a client that has seen some text of the  *)
(* turn is sent nothing, and one that has seen none is shown the answer    *)
(* now if a line that is no narration begins in it, its first line being   *)
(* the rest of the last step's where that was left open (`process_result`, *)
(* `emit_agent_delta`).                                                    *)
THEOREM AnswerShownOnce == StreamConstants => (Stream!Spec => AnswerIsShownOnce)
<1>. SUFFICES ASSUME StreamConstants PROVE Stream!Spec => AnswerIsShownOnce
  OBVIOUS
<1>1. ASSUME StreamInv, NEW response \in Deltas, Stream!ProcessResult(response)
      PROVE  /\ Stream!HasAnswered(client) => client' = client
             /\ ~skip_naration
                   \/ Stream!Answers(response, proc.agent_text[Stream!Later(proc.last_step_idx, 0)])
                  => Stream!HasAnswered(client')
  <2>. DEFINE text == proc.agent_text[Stream!Later(proc.last_step_idx, 0)]
  <2>1. response # <<>> /\ response \in Seq(STRING)
    <3>1. Deltas \subseteq Seq(STRING) \ {<<>>}
      BY DEF StreamConstants, Chunks
    <3>. QED
      BY <3>1
  <2>2. Stream!Answers(response, text) => ~Stream!Db!Narration(text \o response)
    <3>1. Stream!Later(proc.last_step_idx, 0) \in Stream!Indexes
      BY <1>1, IndexesAre DEF StreamInv, Fine, ProcType
    <3>2. text \in Seq(STRING)
      BY <1>1, <3>1 DEF StreamInv, Fine, ProcType
    <3>. HIDE DEF text
    <3>. QED
      BY <2>1, <3>2, AnswerIsNoNarration
  <2>3. /\ Stream!HasAnswered(client) => client' = client
        /\ ~skip_naration \/ Stream!Answers(response, text) =>
             \E s \in Stream!Indexes : client'.text[s] # <<>>
    BY <1>1, <2>1, <2>2, ResultFine DEF text
  <2>. QED
    BY <2>3 DEF Stream!HasAnswered, text
<1>2. StreamInv =>
        [\A response \in Deltas : Stream!ProcessResult(response) =>
           /\ Stream!HasAnswered(client) => client' = client
           /\ ~skip_naration
                 \/ Stream!Answers(response, proc.agent_text[Stream!Later(proc.last_step_idx, 0)])
                => Stream!HasAnswered(client')]_(Stream!vars)
  BY <1>1
<1>. QED
  BY <1>2, StreamAlways, PTL DEF AnswerIsShownOnce, Stream!AnswerIsShownOnce

-----------------------------------------------------------------------------
(* The stream and its replay *)

(* The replay of what a turn leaves behind is the replay of any rows.      *)
LEMMA SameNarration ==
    \A text : Stream!Db!Narration(text) = Database!Narration(text)
  BY DEF Stream!Db!Narration, Database!Narration, Stream!Db!Blank, Database!Blank,
         Stream!Db!LineStarts, Database!LineStarts,
         Stream!Db!OpensNarration, Database!OpensNarration

LEMMA SameReplay ==
    /\ \A rs : Stream!Db!Replayed(rs) = Database!Replayed(rs)
    /\ \A updates : Stream!Db!Lines(updates) = Database!Lines(updates)
    /\ \A lines, rs, V : Stream!Db!Tells(lines, rs, V) = Database!Tells(lines, rs, V)
<1>1. ASSUME NEW rs PROVE Stream!Db!Replayed(rs) = Database!Replayed(rs)
  BY DEF Stream!Db!Replayed, Database!Replayed, Stream!Db!ReplayRow, Database!ReplayRow,
         Stream!Db!Shown, Database!Shown, Stream!Db!FlushAgentMessage, Database!FlushAgentMessage,
         Stream!Db!Filtered, Database!Filtered, Stream!Db!Narration, Database!Narration,
         Stream!Db!Blank, Database!Blank, Stream!Db!LineStarts, Database!LineStarts,
         Stream!Db!OpensNarration, Database!OpensNarration
<1>2. ASSUME NEW updates PROVE Stream!Db!Lines(updates) = Database!Lines(updates)
  BY DEF Stream!Db!Lines, Database!Lines, Stream!Db!LinesOf, Database!LinesOf
<1>3. ASSUME NEW lines, NEW rs, NEW V
      PROVE  Stream!Db!Tells(lines, rs, V) = Database!Tells(lines, rs, V)
  BY DEF Stream!Db!Tells, Database!Tells, Stream!Db!Cardinality, Database!Cardinality
<1>. QED
  BY <1>1, <1>2, <1>3

(* session/load replays a turn in the order of its steps.  The client was  *)
(* shown some of each step that is replayed, and of each that is left out  *)
(* nothing but what may have been the beginning of a narration             *)
(* (`emit_agent_delta`, `read_replay_updates_from_db`).                    *)
THEOREM ReplayShowsLive == StreamConstants => (Stream!Spec => []ReplayShowsWhatWasShown)
<1>. SUFFICES ASSUME StreamConstants PROVE Stream!Spec => []ReplayShowsWhatWasShown
  OBVIOUS
<1>1. StreamInv => ReplayShowsWhatWasShown
  <2>. DEFINE rs == Stream!Stored
  <2>. SUFFICES ASSUME StreamInv PROVE ReplayShowsWhatWasShown
    OBVIOUS
  <2>1. /\ MaxStep \in Nat /\ \A i \in 1 .. MaxStep + 1 : i - 1 \in Stream!Steps
        /\ Stream!Steps \subseteq Stream!Indexes
    BY DEF StreamConstants, Stream!Steps, Stream!Indexes
  <2>2. \A s \in Stream!Indexes : proc.agent_text[s] \in Seq(STRING) /\ IsJudgedAsWhole(proc.agent_text[s], client.text[s])
    BY DEF StreamInv, Fine, ProcType, HoldsText
  <2>3. rs = [i \in 1 .. MaxStep + 1 |-> [type |-> "agent", text |-> proc.agent_text[i - 1]]]
    BY DEF Stream!Stored
  <2>. HIDE DEF rs
  <2>4. PICK T : T = Seq(STRING)
    OBVIOUS
  <2>5. \A i \in 1 .. MaxStep + 1 : [type |-> "agent", text |-> proc.agent_text[i - 1]] \in RowsOf(T)
    BY <2>1, <2>2, <2>4 DEF RowsOf, Database!RowTypes
  <2>6. rs \in Seq(RowsOf(T)) /\ DOMAIN rs = 1 .. MaxStep + 1
    BY <2>1, <2>3, <2>5
  <2>. DEFINE told == {i \in DOMAIN rs : Database!Visible(rs[i])}
  <2>7. ASSUME NEW i \in DOMAIN rs
        PROVE  IF i \in told THEN client.text[i - 1] # <<>>
               ELSE Stream!MayBeNarration(client.text[i - 1])
    <3>. DEFINE s == i - 1
                text == proc.agent_text[s]
    <3>1. s \in Stream!Steps /\ s \in Stream!Indexes
      BY <2>1, <2>6
    <3>2. rs[i].type = "agent" /\ rs[i].text = text
      BY <2>3, <2>6
    <3>. HIDE DEF text, s
    <3>3. IsJudgedAsWhole(text, client.text[s])
      BY <2>2, <3>1 DEF text
    <3>4. i \in told <=> text # <<>> /\ ~(skip_naration /\ Stream!Db!Narration(text))
      BY <3>2, SameNarration DEF Database!Visible
    <3>5. text = <<>> => Stream!MayBeNarration(client.text[s])
      <4>1. Stream!Db!Blank(<<>>)
        BY DEF Stream!Db!Blank
      <4>. QED
        BY <3>3, <4>1 DEF IsJudgedAsWhole, Stream!MayBeNarration
    <3>. HIDE DEF told
    <3>. QED
      BY <3>3, <3>4, <3>5 DEF IsJudgedAsWhole, s
  <2>8. Database!Tells(Database!Lines(Database!Replayed(rs)), rs, told)
    BY <2>6, ReplayTells
  <2>9. told \in SUBSET DOMAIN rs
    OBVIOUS
  <2>. HIDE DEF told
  <2>10. Stream!Db!Tells(Stream!Db!Lines(Stream!Db!Replayed(rs)), rs, told)
    BY <2>8, SameReplay
  <2>. QED
    BY <2>7, <2>9, <2>10 DEF ReplayShowsWhatWasShown, Stream!ReplayShowsWhatWasShown, rs
<1>. QED
  BY <1>1, StreamAlways, PTL

-----------------------------------------------------------------------------
(* The scanner *)

(* An induction from the last position to the first.                       *)
LEMMA FromTheEnd ==
    ASSUME NEW a \in Nat, NEW b \in Nat, NEW S,
           \A i \in a .. b : (\A k \in i + 1 .. b : k \in S) => i \in S
    PROVE  a .. b \subseteq S
<1>. DEFINE T == {n \in Nat : n <= b - a /\ b - n \notin S}
<1>. SUFFICES ASSUME NEW i \in a .. b, i \notin S PROVE FALSE
  OBVIOUS
<1>1. b - i \in Nat /\ b - i <= b - a /\ b - (b - i) = i
  OBVIOUS
<1>2. b - i \in T
  BY <1>1
<1>3. PICK n \in T : \A m \in T : n <= m
  <2>. HIDE DEF T
  <2>1. T \subseteq Nat
    BY DEF T
  <2>. QED
    BY <1>2, <2>1, LeastNat
<1>4. b - n \in a .. b /\ b - n \notin S
  OBVIOUS
<1>5. ASSUME NEW k \in b - n + 1 .. b PROVE k \in S
  <2>1. b - k \in Nat /\ b - k <= b - a /\ b - (b - k) = k /\ ~(n <= b - k)
    BY <1>4
  <2>2. b - k \notin T
    BY <1>3, <2>1
  <2>. QED
    BY <2>1, <2>2
<1>. QED
  BY <1>4, <1>5

(* An equation for a function has a solution if each of its values takes   *)
(* only values of lower rank.                                              *)
Settles(F, D, X, rank) ==
    /\ rank \in [D -> Nat]
    /\ F \in [[D -> X] -> [D -> X]]
    /\ \A g, h \in [D -> X], d \in D :
         (\A e \in D : rank[e] < rank[d] => g[e] = h[e]) => F[g][d] = F[h][d]

LEMMA SolutionExists ==
    ASSUME NEW F, NEW D, NEW X, NEW rank, Settles(F, D, X, rank),
           NEW top \in Nat, \A d \in D : rank[d] <= top, NEW x \in X
    PROVE  \E g \in [D -> X] : g = F[g]
<1>. DEFINE Solved(g, n) == \A d \in D : rank[d] < n => g[d] = F[g][d]
            S == {n \in Nat : \E g \in [D -> X] : Solved(g, n)}
<1>0. /\ rank \in [D -> Nat]
      /\ F \in [[D -> X] -> [D -> X]]
      /\ \A g, h \in [D -> X], d \in D :
           (\A e \in D : rank[e] < rank[d] => g[e] = h[e]) => F[g][d] = F[h][d]
  BY DEF Settles
<1>1. 0 \in S
  <2>1. [d \in D |-> x] \in [D -> X]
    OBVIOUS
  <2>2. \A d \in D : ~(rank[d] < 0)
    BY <1>0
  <2>. QED
    BY <2>1, <2>2
<1>2. ASSUME NEW n \in Nat, n \in S PROVE n + 1 \in S
  <2>1. PICK g \in [D -> X] : Solved(g, n)
    BY <1>2
  <2>2. PICK h \in [D -> X] : h = F[g]
    BY <1>0
  <2>3. ASSUME NEW d \in D, rank[d] < n + 1 PROVE h[d] = F[h][d]
    <3>1. \A e \in D : rank[e] < rank[d] => g[e] = h[e]
      <4>1. \A e \in D : rank[e] \in Nat
        BY <1>0
      <4>2. \A e \in D : rank[e] < rank[d] => rank[e] < n
        BY <2>3, <4>1
      <4>. QED
        BY <2>1, <2>2, <4>2
    <3>2. F[g][d] = F[h][d]
      BY <1>0, <3>1
    <3>. QED
      BY <2>2, <3>2
  <2>4. Solved(h, n + 1)
    BY <2>3
  <2>. HIDE DEF Solved
  <2>. QED
    BY <2>4
<1>3. top + 1 \in S
  <2>. HIDE DEF S
  <2>. QED
    BY <1>1, <1>2, SetInduction
<1>4. PICK g \in [D -> X] : Solved(g, top + 1)
  <2>. HIDE DEF Solved
  <2>. QED
    BY <1>3
<1>5. \A d \in D : g[d] = F[g][d]
  <2>1. \A d \in D : rank[d] \in Nat /\ rank[d] < top + 1
    BY <1>0
  <2>. QED
    BY <1>4, <2>1
<1>6. F[g] \in [D -> X]
  BY <1>0
<1>. QED
  BY <1>5, <1>6

(* What values the groups have room for.                                   *)
LEMMA LimitIs ==
    /\ Payload!Limit[0] = 2
    /\ \A n \in 0 .. LastGroup : Payload!Limit[n] \in Nat \ {0}
    /\ \A n \in 1 .. LastGroup : Payload!Limit[n] = Base * Payload!Limit[n - 1]
<1>. DEFINE D == 0 .. LastGroup
            X == Nat \ {0}
            E(g) == [n \in D |-> IF n = 0 THEN 2 ELSE Base * g[n - 1]]
            rank == [n \in D |-> n]
<1>0. Base \in Nat \ {0} /\ LastGroup \in Nat
  BY PayloadAssumption
<1>1. \A a, b \in X : a * b \in X
  OBVIOUS
<1>2. \A n \in D : n # 0 => n - 1 \in D /\ n - 1 < n
  BY <1>0
<1>3. PICK F : F = [g \in [D -> X] |-> E(g)]
  OBVIOUS
<1>4. Settles(F, D, X, rank)
  <2>1. rank \in [D -> Nat]
    BY <1>0
  <2>2. ASSUME NEW g \in [D -> X] PROVE F[g] \in [D -> X] /\ F[g] = E(g)
    <3>. HIDE DEF X
    <3>1. ASSUME NEW n \in D PROVE (IF n = 0 THEN 2 ELSE Base * g[n - 1]) \in X
      <4>1. n # 0 => g[n - 1] \in X
        BY <1>2
      <4>2. 2 \in X /\ Base \in X
        BY <1>0 DEF X
      <4>. QED
        BY <1>1, <4>1, <4>2
    <3>. QED
      BY <1>3, <3>1
  <2>3. F \in [[D -> X] -> [D -> X]]
    BY <1>3, <2>2
  <2>4. ASSUME NEW g \in [D -> X], NEW h \in [D -> X], NEW n \in D,
               \A e \in D : rank[e] < rank[n] => g[e] = h[e]
        PROVE  F[g][n] = F[h][n]
    <3>1. n # 0 => g[n - 1] = h[n - 1]
      BY <1>2, <2>4
    <3>2. F[g][n] = (IF n = 0 THEN 2 ELSE Base * g[n - 1]) /\ F[h][n] = (IF n = 0 THEN 2 ELSE Base * h[n - 1])
      BY <2>2
    <3>. QED
      BY <3>1, <3>2
  <2>. QED
    BY <2>1, <2>3, <2>4 DEF Settles
<1>5. \E g : g = E(g)
  <2>1. \A n \in D : rank[n] <= LastGroup
    BY <1>0
  <2>2. 2 \in X
    OBVIOUS
  <2>3. PICK g \in [D -> X] : g = F[g]
    <3>. HIDE DEF D, X, rank, E
    <3>. QED
      BY <1>0, <1>4, <2>1, <2>2, SolutionExists
  <2>. QED
    BY <1>3, <2>3
<1>6. Payload!Limit = E(Payload!Limit)
  BY <1>5 DEF Payload!Limit
<1>7. Payload!Limit[0] = 2
  BY <1>0, <1>6
<1>8. ASSUME NEW n \in 1 .. LastGroup PROVE Payload!Limit[n] = Base * Payload!Limit[n - 1]
  <2>1. n \in D /\ n # 0
    OBVIOUS
  <2>. QED
    BY <1>6, <2>1
<1>. DEFINE S == {n \in Nat : n <= LastGroup => Payload!Limit[n] \in X}
<1>9. ASSUME NEW n \in Nat, n \in S PROVE n + 1 \in S
  <2>. SUFFICES ASSUME n + 1 <= LastGroup PROVE Payload!Limit[n + 1] \in X
    OBVIOUS
  <2>1. n + 1 \in 1 .. LastGroup /\ (n + 1) - 1 = n /\ Payload!Limit[n] \in X
    BY <1>0, <1>9
  <2>2. Payload!Limit[n + 1] = Base * Payload!Limit[n]
    BY <1>8, <2>1
  <2>. HIDE DEF X
  <2>3. Base \in X
    BY <1>0 DEF X
  <2>. QED
    BY <1>1, <2>1, <2>2, <2>3
<1>10. Nat \subseteq S
  <2>1. 0 \in S
    BY <1>7
  <2>. HIDE DEF S
  <2>. QED
    BY <1>9, <2>1, SetInduction
<1>. QED
  BY <1>0, <1>7, <1>8, <1>10

LEMMA DigitIs ==
    ASSUME NEW byte \in Nat
    PROVE  Payload!Digit(byte) \in 0 .. Base - 1 /\ Payload!Digit(byte) \in Nat
  BY PayloadAssumption DEF Payload!Digit

(* A value is its first group and, from there on, another value.           *)
LEMMA ValueIs ==
    ASSUME NEW buf \in Seq(Nat), NEW j \in 1 .. Len(buf) + 1
    PROVE  /\ Payload!VarintValue(buf, j, j) = 0
           /\ \A i \in 1 .. j : Payload!VarintValue(buf, i, j) \in Nat
           /\ \A i \in 1 .. j - 1 : Payload!VarintValue(buf, i, j) =
                Payload!Digit(buf[i]) + Base * Payload!VarintValue(buf, i + 1, j)
<1>. DEFINE D == 1 .. j
            E(g) == [k \in D |-> IF k = j THEN 0 ELSE Payload!Digit(buf[k]) + Base * g[k + 1]]
            B == CHOOSE g : g = E(g)
            rank == [k \in D |-> j - k]
<1>0. Base \in Nat /\ j \in Nat /\ Len(buf) \in Nat
  BY PayloadAssumption
<1>1. \A a, b, c \in Nat : a + b * c \in Nat
  OBVIOUS
<1>2. ASSUME NEW k \in D, k # j
      PROVE  k + 1 \in D /\ j - (k + 1) < j - k /\ Payload!Digit(buf[k]) \in Nat
  <2>1. k \in 1 .. Len(buf) /\ k + 1 \in D /\ j - (k + 1) < j - k
    BY <1>0, <1>2
  <2>2. buf[k] \in Nat
    BY <2>1
  <2>3. Payload!Digit(buf[k]) \in Nat
    BY <2>2, DigitIs
  <2>. QED
    BY <2>1, <2>3
<1>3. PICK F : F = [g \in [D -> Nat] |-> E(g)]
  OBVIOUS
<1>4. Settles(F, D, Nat, rank)
  <2>1. rank \in [D -> Nat]
    BY <1>0
  <2>2. ASSUME NEW g \in [D -> Nat] PROVE F[g] \in [D -> Nat] /\ F[g] = E(g)
    <3>1. ASSUME NEW k \in D PROVE (IF k = j THEN 0 ELSE Payload!Digit(buf[k]) + Base * g[k + 1]) \in Nat
      <4>1. k # j => g[k + 1] \in Nat
        BY <1>2
      <4>. QED
        BY <1>0, <1>1, <1>2, <4>1
    <3>. QED
      BY <1>3, <3>1
  <2>3. F \in [[D -> Nat] -> [D -> Nat]]
    BY <1>3, <2>2
  <2>4. ASSUME NEW g \in [D -> Nat], NEW h \in [D -> Nat], NEW k \in D,
               \A e \in D : rank[e] < rank[k] => g[e] = h[e]
        PROVE  F[g][k] = F[h][k]
    <3>1. k # j => g[k + 1] = h[k + 1]
      BY <1>2, <2>4
    <3>2. /\ F[g][k] = (IF k = j THEN 0 ELSE Payload!Digit(buf[k]) + Base * g[k + 1])
          /\ F[h][k] = (IF k = j THEN 0 ELSE Payload!Digit(buf[k]) + Base * h[k + 1])
      BY <2>2
    <3>. QED
      BY <3>1, <3>2
  <2>. QED
    BY <2>1, <2>3, <2>4 DEF Settles
<1>5. \E g : g = E(g)
  <2>1. \A k \in D : rank[k] <= j
    BY <1>0
  <2>2. PICK g \in [D -> Nat] : g = F[g]
    <3>. HIDE DEF D, rank, E
    <3>. QED
      BY <1>0, <1>4, <2>1, SolutionExists
  <2>. QED
    BY <1>3, <2>2
<1>6. B = E(B)
  BY <1>5
<1>7. \A i : Payload!VarintValue(buf, i, j) = B[i]
  BY DEF Payload!VarintValue
<1>. HIDE DEF B
<1>8. B[j] = 0
  BY <1>0, <1>6
<1>9. ASSUME NEW i \in 1 .. j - 1 PROVE B[i] = Payload!Digit(buf[i]) + Base * B[i + 1]
  <2>1. i \in D /\ i # j
    BY <1>0
  <2>. QED
    BY <1>6, <2>1
<1>. DEFINE S == {i \in D : B[i] \in Nat}
<1>10. ASSUME NEW i \in 1 .. j, \A k \in i + 1 .. j : k \in S PROVE i \in S
  <2>1. CASE i = j
    BY <1>8, <2>1
  <2>2. CASE i # j
    <3>1. i + 1 \in i + 1 .. j /\ i \in 1 .. j - 1
      BY <2>2
    <3>2. Payload!Digit(buf[i]) \in Nat
      BY <1>2, <2>2
    <3>3. B[i + 1] \in Nat
      BY <1>10, <3>1
    <3>4. Payload!Digit(buf[i]) + Base * B[i + 1] \in Nat
      BY <1>0, <1>1, <3>2, <3>3
    <3>. QED
      BY <1>9, <3>1, <3>4
  <2>. QED
    BY <2>1, <2>2
<1>11. 1 .. j \subseteq S
  <2>. HIDE DEF S
  <2>. QED
    BY <1>0, <1>10, FromTheEnd
<1>. QED
  BY <1>7, <1>8, <1>9, <1>11

(* A value has room in n groups if what follows its first has in the       *)
(* others.                                                                 *)
LEMMA RoomIs ==
    ASSUME NEW n \in 1 .. LastGroup, NEW digit \in 0 .. Base - 1, NEW v \in Nat
    PROVE  digit + Base * v < Payload!Limit[n] <=> v < Payload!Limit[n - 1]
<1>1. PICK b \in Nat \ {0} : b = Base
  BY PayloadAssumption
<1>2. n - 1 \in 0 .. LastGroup
  BY PayloadAssumption
<1>3. PICK l \in Nat \ {0} : l = Payload!Limit[n - 1]
  BY <1>2, LimitIs
<1>4. Payload!Limit[n] = b * l
  BY <1>1, <1>3, LimitIs
<1>5. digit \in 0 .. b - 1
  BY <1>1
<1>6. ASSUME v < l PROVE digit + b * v < b * l
  <2>1. PICK d \in Nat : l = v + 1 + d
    <3>1. l - (v + 1) \in Nat /\ l = v + 1 + (l - (v + 1))
      BY <1>6
    <3>. QED
      BY <3>1
  <2>2. b * (v + 1 + d) = b * v + b + b * d
    OBVIOUS
  <2>3. b * v \in Nat /\ b * d \in Nat
    OBVIOUS
  <2>. QED
    BY <1>5, <2>1, <2>2, <2>3
<1>7. ASSUME ~(v < l) PROVE ~(digit + b * v < b * l)
  <2>1. PICK d \in Nat : v = l + d
    <3>1. v - l \in Nat /\ v = l + (v - l)
      BY <1>7
    <3>. QED
      BY <3>1
  <2>2. b * (l + d) = b * l + b * d
    OBVIOUS
  <2>3. b * l \in Nat /\ b * d \in Nat
    OBVIOUS
  <2>. QED
    BY <1>5, <2>1, <2>2, <2>3
<1>. QED
  BY <1>1, <1>3, <1>4, <1>6, <1>7

LEMMA ShiftedIs ==
    ASSUME NEW group \in 0 .. LastGroup, NEW v \in Nat
    PROVE  /\ Payload!Shifted(group, v) \in Nat
           /\ v < Payload!Limit[LastGroup - group] => Payload!Shifted(group, v) = v
<1>1. LastGroup - group \in 0 .. LastGroup
  BY PayloadAssumption
<1>2. PICK l \in Nat \ {0} : l = Payload!Limit[LastGroup - group]
  BY <1>1, LimitIs
<1>3. v % l \in Nat /\ (v < l => v % l = v)
  OBVIOUS
<1>. QED
  BY <1>2, <1>3 DEF Payload!Shifted

(* What read_varint makes of the byte at i and of the rest it has read.    *)
ByteReads(buf, start, i, rest) ==
    IF i > Len(buf) \/ Payload!TooWide(i - start, Payload!Digit(buf[i])) THEN Payload!None
    ELSE IF ~Payload!More(buf[i]) THEN <<Payload!Shifted(i - start, Payload!Digit(buf[i])), i + 1>>
    ELSE IF rest = Payload!None THEN Payload!None
    ELSE <<Payload!Shifted(i - start, Payload!Digit(buf[i]) + Base * rest[1]), rest[2]>>

LEMMA ByteReadsTyped ==
    ASSUME NEW buf \in Seq(Nat), NEW start \in 1 .. Len(buf) + 1, NEW i \in start .. Len(buf) + 1,
           NEW rest, i # Len(buf) + 1 => rest \in {<<>>} \cup (Nat \X Nat)
    PROVE  ByteReads(buf, start, i, rest) \in {<<>>} \cup (Nat \X Nat)
<1>0. Base \in Nat /\ LastGroup \in Nat /\ Len(buf) \in Nat
  BY PayloadAssumption
<1>1. CASE i > Len(buf) \/ Payload!TooWide(i - start, Payload!Digit(buf[i]))
  BY <1>1 DEF ByteReads, Payload!None
<1>2. CASE ~(i > Len(buf) \/ Payload!TooWide(i - start, Payload!Digit(buf[i])))
  <2>1. i \in 1 .. Len(buf) /\ i - start \in 0 .. LastGroup /\ i + 1 \in Nat /\ i # Len(buf) + 1
    BY <1>0, <1>2 DEF Payload!TooWide
  <2>2. buf[i] \in Nat
    BY <2>1
  <2>3. PICK d \in Nat : d = Payload!Digit(buf[i])
    BY <2>2, DigitIs
  <2>4. \A v \in Nat : Payload!Shifted(i - start, v) \in Nat
    BY <2>1, ShiftedIs
  <2>5. ASSUME rest \in Nat \X Nat PROVE <<Payload!Shifted(i - start, d + Base * rest[1]), rest[2]>> \in Nat \X Nat
    <3>1. rest[1] \in Nat /\ rest[2] \in Nat
      BY <2>5
    <3>2. d + Base * rest[1] \in Nat
      <4>1. \A a, b, c \in Nat : a + b * c \in Nat
        OBVIOUS
      <4>. QED
        BY <1>0, <3>1, <4>1
    <3>. QED
      BY <2>4, <3>1, <3>2
  <2>6. <<Payload!Shifted(i - start, d), i + 1>> \in Nat \X Nat
    BY <2>1, <2>4
  <2>7. rest # <<>> => rest \in Nat \X Nat
    BY <2>1
  <2>8. ByteReads(buf, start, i, rest) =
          IF ~Payload!More(buf[i]) THEN <<Payload!Shifted(i - start, d), i + 1>>
          ELSE IF rest = <<>> THEN <<>>
          ELSE <<Payload!Shifted(i - start, d + Base * rest[1]), rest[2]>>
    BY <1>2, <2>3 DEF ByteReads, Payload!None
  <2>. QED
    BY <2>5, <2>6, <2>7, <2>8
<1>. QED
  BY <1>1, <1>2

LEMMA ReadUnfolds ==
    ASSUME NEW buf \in Seq(Nat), NEW start \in 1 .. Len(buf) + 1
    PROVE  \E read : /\ Payload!ReadVarint(buf, start) = read[start]
                     /\ \A i \in start .. Len(buf) + 1 : read[i] = ByteReads(buf, start, i, read[i + 1])
<1>. DEFINE N == Len(buf)
            D == start .. N + 1
            X == {<<>>} \cup (Nat \X Nat)
            E(g) == [i \in D |-> ByteReads(buf, start, i, g[i + 1])]
            B == CHOOSE g : g = E(g)
            rank == [i \in D |-> N + 1 - i]
<1>0. N \in Nat /\ start \in Nat /\ <<>> \in X
  OBVIOUS
<1>1. ASSUME NEW i \in D, i # N + 1 PROVE i + 1 \in D /\ N + 1 - (i + 1) < N + 1 - i
  BY <1>0, <1>1
<1>2. \A r, t : ByteReads(buf, start, N + 1, r) = ByteReads(buf, start, N + 1, t)
  BY <1>0 DEF ByteReads
<1>3. ASSUME NEW i \in D, NEW r, i # N + 1 => r \in X PROVE ByteReads(buf, start, i, r) \in X
  BY <1>3, ByteReadsTyped
<1>4. PICK F : F = [g \in [D -> X] |-> E(g)]
  OBVIOUS
<1>. HIDE DEF X
<1>5. Settles(F, D, X, rank)
  <2>1. rank \in [D -> Nat]
    BY <1>0
  <2>2. ASSUME NEW g \in [D -> X] PROVE F[g] \in [D -> X] /\ F[g] = E(g)
    <3>1. ASSUME NEW i \in D PROVE ByteReads(buf, start, i, g[i + 1]) \in X
      BY <1>1, <1>3
    <3>. QED
      BY <1>4, <3>1
  <2>3. F \in [[D -> X] -> [D -> X]]
    BY <1>4, <2>2
  <2>4. ASSUME NEW g \in [D -> X], NEW h \in [D -> X], NEW i \in D,
               \A e \in D : rank[e] < rank[i] => g[e] = h[e]
        PROVE  F[g][i] = F[h][i]
    <3>1. i # N + 1 => g[i + 1] = h[i + 1]
      BY <1>1, <2>4
    <3>2. F[g][i] = ByteReads(buf, start, i, g[i + 1]) /\ F[h][i] = ByteReads(buf, start, i, h[i + 1])
      BY <2>2
    <3>. QED
      BY <1>2, <3>1, <3>2
  <2>. QED
    BY <2>1, <2>3, <2>4 DEF Settles
<1>6. \E g : g = E(g)
  <2>1. \A i \in D : rank[i] <= N + 1
    BY <1>0
  <2>2. PICK g \in [D -> X] : g = F[g]
    <3>1. N + 1 \in Nat
      BY <1>0
    <3>. HIDE DEF D, rank, E, N
    <3>. QED
      BY <1>0, <1>5, <2>1, <3>1, SolutionExists
  <2>. QED
    BY <1>4, <2>2
<1>7. B = E(B)
  BY <1>6
<1>8. Payload!ReadVarint(buf, start) = B[start]
  BY DEF Payload!ReadVarint, ByteReads
<1>. HIDE DEF B
<1>9. \A i \in D : B[i] = ByteReads(buf, start, i, B[i + 1])
  BY <1>7
<1>. QED
  BY <1>8, <1>9

(* A varint ends with the first byte that says so, and its value has room  *)
(* in the groups that are left from the given one on.                      *)
Whole(buf, i, j) == ~Payload!More(buf[j - 1]) /\ \A k \in i .. j - 2 : Payload!More(buf[k])

HasRoom(buf, i, j, group) ==
    /\ j - 1 - i <= LastGroup - group
    /\ Payload!VarintValue(buf, i, j) < Payload!Limit[LastGroup - group]

EndsIn(buf, i, group) == {j \in i + 1 .. Len(buf) + 1 : Whole(buf, i, j) /\ HasRoom(buf, i, j, group)}

LEMMA WholeIs ==
    ASSUME NEW buf \in Seq(Nat), NEW i \in 1 .. Len(buf), NEW j \in i + 1 .. Len(buf) + 1
    PROVE  Whole(buf, i, j) <=>
             IF Payload!More(buf[i]) THEN j > i + 1 /\ Whole(buf, i + 1, j) ELSE j = i + 1
<1>1. CASE j = i + 1
  <2>1. j - 1 = i /\ i .. j - 2 = {} /\ ~(j > i + 1)
    BY <1>1
  <2>. QED
    BY <1>1, <2>1 DEF Whole
<1>2. CASE j # i + 1
  <2>1. j > i + 1 /\ i \in i .. j - 2 /\ i .. j - 2 = {i} \cup (i + 1 .. j - 2)
    BY <1>2
  <2>. QED
    BY <1>2, <2>1 DEF Whole
<1>. QED
  BY <1>1, <1>2

LEMMA RoomGrows ==
    ASSUME NEW buf \in Seq(Nat), NEW i \in 1 .. Len(buf), NEW j \in i + 1 .. Len(buf) + 1,
           NEW group \in Nat
    PROVE  HasRoom(buf, i, j, group) /\ group <= LastGroup <=>
             /\ ~Payload!TooWide(group, Payload!Digit(buf[i]))
             /\ j # i + 1 => HasRoom(buf, i + 1, j, group + 1) /\ group + 1 <= LastGroup
<1>0. LastGroup \in Nat /\ Base \in Nat
  BY PayloadAssumption
<1>1. i + 1 \in 1 .. j /\ i \in 1 .. j - 1 /\ buf[i] \in Nat /\ j \in 1 .. Len(buf) + 1
  OBVIOUS
<1>2. PICK d \in 0 .. Base - 1 : d = Payload!Digit(buf[i])
  BY <1>1, DigitIs
<1>3. PICK v \in Nat : v = Payload!VarintValue(buf, i + 1, j)
  BY <1>1, ValueIs
<1>4. Payload!VarintValue(buf, i, j) = d + Base * v
  BY <1>1, <1>2, <1>3, ValueIs
<1>5. j = i + 1 => v = 0 /\ d + Base * v = d
  <2>1. d + Base * 0 = d
    BY <1>0, <1>2
  <2>2. j = i + 1 => v = 0
    BY <1>1, <1>3, ValueIs
  <2>. QED
    BY <2>1, <2>2
<1>6. CASE group > LastGroup
  BY <1>0, <1>6 DEF Payload!TooWide
<1>7. CASE group = LastGroup
  <2>1. LastGroup - group = 0 /\ Payload!Limit[0] = 2
    BY <1>0, <1>7, LimitIs
  <2>2. Payload!TooWide(group, d) <=> d > 1
    BY <1>0, <1>7 DEF Payload!TooWide
  <2>3. j - 1 - i <= 0 <=> j = i + 1
    OBVIOUS
  <2>4. d > 1 <=> ~(d < 2)
    BY <1>2
  <2>5. ~(group + 1 <= LastGroup) /\ group <= LastGroup
    BY <1>0, <1>7
  <2>. QED
    BY <1>2, <1>4, <1>5, <2>1, <2>2, <2>3, <2>4, <2>5 DEF HasRoom
<1>8. CASE group < LastGroup
  <2>1. LastGroup - group \in 1 .. LastGroup /\ LastGroup - (group + 1) = (LastGroup - group) - 1
        /\ group + 1 <= LastGroup /\ group <= LastGroup /\ LastGroup - (group + 1) \in 0 .. LastGroup
    BY <1>0, <1>8
  <2>2. d + Base * v < Payload!Limit[LastGroup - group] <=> v < Payload!Limit[LastGroup - (group + 1)]
    BY <1>2, <1>3, <2>1, RoomIs
  <2>3. 0 < Payload!Limit[LastGroup - (group + 1)]
    BY <2>1, LimitIs
  <2>4. ~Payload!TooWide(group, d)
    BY <1>0, <1>8 DEF Payload!TooWide
  <2>5. j - 1 - i <= LastGroup - group <=> j - 1 - (i + 1) <= LastGroup - (group + 1)
    BY <1>0
  <2>6. j = i + 1 => j - 1 - i <= LastGroup - group
    BY <1>0, <1>8
  <2>. QED
    BY <1>2, <1>3, <1>4, <1>5, <2>1, <2>2, <2>3, <2>4, <2>5, <2>6 DEF HasRoom
<1>. QED
  BY <1>0, <1>6, <1>7, <1>8

(* There is nothing to be read that has no end, and what has one is read   *)
(* to it.                                                                  *)
ReadsTo(buf, i, group, found) ==
    /\ (group > LastGroup \/ EndsIn(buf, i, group) = {}) => found = <<>>
    /\ group <= LastGroup =>
         \A j \in EndsIn(buf, i, group) : found = <<Payload!VarintValue(buf, i, j), j>>

LEMMA ByteRead ==
    ASSUME NEW buf \in Seq(Nat), NEW start \in 1 .. Len(buf) + 1, NEW i \in start .. Len(buf) + 1,
           NEW rest, i # Len(buf) + 1 => ReadsTo(buf, i + 1, i + 1 - start, rest)
    PROVE  ReadsTo(buf, i, i - start, ByteReads(buf, start, i, rest))
<1>0. LastGroup \in Nat /\ Base \in Nat
  BY PayloadAssumption
<1>. DEFINE group == i - start
            found == ByteReads(buf, start, i, rest)
<1>1. group \in Nat /\ group + 1 = i + 1 - start
  OBVIOUS
<1>2. CASE i > Len(buf)
  <2>1. found = <<>>
    BY <1>2 DEF ByteReads, Payload!None
  <2>2. \A j : ~(j \in i + 1 .. Len(buf) + 1)
    BY <1>2
  <2>. QED
    BY <2>1, <2>2 DEF ReadsTo, EndsIn
<1>3. CASE i <= Len(buf)
  <2>1. i \in 1 .. Len(buf) /\ i # Len(buf) + 1 /\ ~(i > Len(buf)) /\ buf[i] \in Nat
    BY <1>3
  <2>2. PICK d \in Nat : d = Payload!Digit(buf[i])
    BY <2>1, DigitIs
  <2>. HIDE DEF group
  <2>3. CASE Payload!TooWide(group, d)
    <3>1. found = <<>>
      BY <2>2, <2>3 DEF ByteReads, Payload!None, group
    <3>2. \A j \in i + 1 .. Len(buf) + 1 : ~(HasRoom(buf, i, j, group) /\ group <= LastGroup)
      BY <1>1, <2>1, <2>2, <2>3, RoomGrows
    <3>. QED
      BY <3>1, <3>2 DEF ReadsTo, EndsIn, group
  <2>4. CASE ~Payload!TooWide(group, d)
    <3>0. group \in 0 .. LastGroup
      BY <1>0, <1>1, <2>4 DEF Payload!TooWide
    <3>1. CASE ~Payload!More(buf[i])
      <4>1. found = <<Payload!Shifted(group, d), i + 1>>
        BY <2>1, <2>2, <2>4, <3>1 DEF ByteReads, group
      <4>2. i + 1 \in i + 1 .. Len(buf) + 1
        BY <2>1
      <4>3. HasRoom(buf, i, i + 1, group)
        BY <1>1, <2>1, <2>2, <2>4, <4>2, RoomGrows
      <4>4. Payload!VarintValue(buf, i, i + 1) = d
        <5>1. i + 1 \in 1 .. Len(buf) + 1 /\ i \in 1 .. (i + 1) - 1
          BY <2>1
        <5>2. Payload!VarintValue(buf, i, i + 1) = d + Base * 0
          BY <2>2, <5>1, ValueIs
        <5>. QED
          BY <1>0, <5>2
      <4>5. Payload!Shifted(group, d) = d
        BY <3>0, <4>3, <4>4, ShiftedIs DEF HasRoom
      <4>6. EndsIn(buf, i, group) = {i + 1}
        BY <2>1, <3>1, <4>2, <4>3, WholeIs DEF EndsIn
      <4>7. ~(group > LastGroup)
        BY <1>0, <3>0
      <4>. QED
        BY <4>1, <4>4, <4>5, <4>6, <4>7 DEF ReadsTo, group
    <3>2. CASE Payload!More(buf[i])
      <4>1. found = IF rest = <<>> THEN <<>>
                    ELSE <<Payload!Shifted(group, d + Base * rest[1]), rest[2]>>
        BY <2>1, <2>2, <2>4, <3>2 DEF ByteReads, Payload!None, group
      <4>2. ReadsTo(buf, i + 1, group + 1, rest)
        BY <1>1, <2>1
      <4>3. ASSUME NEW j \in i + 1 .. Len(buf) + 1
            PROVE  j \in EndsIn(buf, i, group) <=> j \in EndsIn(buf, i + 1, group + 1) /\ group + 1 <= LastGroup
        <5>1. Whole(buf, i, j) <=> j > i + 1 /\ Whole(buf, i + 1, j)
          BY <2>1, <3>2, WholeIs
        <5>2. j > i + 1 => (HasRoom(buf, i, j, group) <=> HasRoom(buf, i + 1, j, group + 1) /\ group + 1 <= LastGroup)
          <6>1. group <= LastGroup
            BY <1>0, <3>0
          <6>2. j > i + 1 => j # i + 1
            BY <2>1
          <6>. QED
            BY <1>1, <2>1, <2>2, <2>4, <6>1, <6>2, RoomGrows
        <5>3. j > i + 1 <=> j \in (i + 1) + 1 .. Len(buf) + 1
          BY <2>1
        <5>. QED
          BY <5>1, <5>2, <5>3 DEF EndsIn
      <4>4. \A j \in EndsIn(buf, i + 1, group + 1) : j \in i + 1 .. Len(buf) + 1
        BY <2>1 DEF EndsIn
      <4>5. CASE group + 1 > LastGroup \/ EndsIn(buf, i + 1, group + 1) = {}
        <5>1. rest = <<>>
          BY <4>2, <4>5 DEF ReadsTo
        <5>2. EndsIn(buf, i, group) = {}
          <6>1. \A j \in EndsIn(buf, i, group) : j \in i + 1 .. Len(buf) + 1
            BY DEF EndsIn
          <6>2. group + 1 > LastGroup => ~(group + 1 <= LastGroup)
            BY <1>0, <1>1
          <6>. QED
            BY <4>3, <4>5, <6>1, <6>2
        <5>. QED
          BY <4>1, <5>1, <5>2 DEF ReadsTo, group
      <4>6. CASE group + 1 <= LastGroup /\ EndsIn(buf, i + 1, group + 1) # {}
        <5>1. ASSUME NEW j \in EndsIn(buf, i, group)
              PROVE  found = <<Payload!VarintValue(buf, i, j), j>>
          <6>1. j \in i + 1 .. Len(buf) + 1 /\ HasRoom(buf, i, j, group)
            BY DEF EndsIn
          <6>2. j \in EndsIn(buf, i + 1, group + 1)
            BY <4>3, <6>1
          <6>3. rest = <<Payload!VarintValue(buf, i + 1, j), j>>
            BY <4>2, <4>6, <6>2 DEF ReadsTo
          <6>4. rest # <<>> /\ rest[1] = Payload!VarintValue(buf, i + 1, j) /\ rest[2] = j
            BY <6>3
          <6>5. j \in 1 .. Len(buf) + 1 /\ i \in 1 .. j - 1 /\ i \in 1 .. j
            BY <2>1, <6>1
          <6>6. Payload!VarintValue(buf, i, j) = d + Base * rest[1] /\ Payload!VarintValue(buf, i, j) \in Nat
            BY <2>2, <6>4, <6>5, ValueIs
          <6>7. Payload!Shifted(group, d + Base * rest[1]) = d + Base * rest[1]
            BY <3>0, <6>1, <6>6, ShiftedIs DEF HasRoom
          <6>. QED
            BY <4>1, <6>4, <6>6, <6>7
        <5>2. EndsIn(buf, i, group) # {}
          BY <4>3, <4>4, <4>6
        <5>3. ~(group > LastGroup)
          BY <1>0, <3>0
        <5>. QED
          BY <5>1, <5>2, <5>3 DEF ReadsTo, group
      <4>7. group + 1 > LastGroup \/ group + 1 <= LastGroup
        BY <1>0, <1>1
      <4>. QED
        BY <4>5, <4>6, <4>7
    <3>. QED
      BY <3>1, <3>2
  <2>. QED
    BY <2>3, <2>4
<1>. QED
  BY <1>2, <1>3

(* read_varint finds the varint at a position, if there is one.            *)
LEMMA VarintRead ==
    ASSUME NEW buf \in Seq(Nat), NEW i \in 1 .. Len(buf) + 1
    PROVE  \/ Payload!VarintEnds(buf, i) = {} /\ Payload!ReadVarint(buf, i) = <<>>
           \/ \E j \in i + 1 .. Len(buf) + 1 :
                /\ Payload!VarintEnds(buf, i) = {j} /\ Payload!IsVarint(buf, i, j)
                /\ Payload!ReadVarint(buf, i) = <<Payload!VarintValue(buf, i, j), j>>
<1>0. LastGroup \in Nat
  BY PayloadAssumption
<1>1. PICK read : /\ Payload!ReadVarint(buf, i) = read[i]
                  /\ \A k \in i .. Len(buf) + 1 : read[k] = ByteReads(buf, i, k, read[k + 1])
  BY ReadUnfolds
<1>. DEFINE S == {k \in Nat : ReadsTo(buf, k, k - i, read[k])}
<1>2. ASSUME NEW k \in i .. Len(buf) + 1, \A m \in k + 1 .. Len(buf) + 1 : m \in S PROVE k \in S
  <2>1. k # Len(buf) + 1 => ReadsTo(buf, k + 1, k + 1 - i, read[k + 1])
    <3>1. k # Len(buf) + 1 => k + 1 \in k + 1 .. Len(buf) + 1
      OBVIOUS
    <3>. QED
      BY <1>2, <3>1
  <2>2. ReadsTo(buf, k, k - i, ByteReads(buf, i, k, read[k + 1]))
    BY <2>1, ByteRead
  <2>. QED
    BY <1>1, <2>2
<1>3. i .. Len(buf) + 1 \subseteq S
  <2>1. Len(buf) + 1 \in Nat /\ i \in Nat
    OBVIOUS
  <2>. HIDE DEF S
  <2>. QED
    BY <1>2, <2>1, FromTheEnd
<1>4. ReadsTo(buf, i, 0, Payload!ReadVarint(buf, i))
  <2>1. i \in i .. Len(buf) + 1 /\ i - i = 0
    OBVIOUS
  <2>. QED
    BY <1>1, <1>3, <2>1
<1>5. EndsIn(buf, i, 0) = Payload!VarintEnds(buf, i)
  <2>1. LastGroup - 0 = LastGroup
    BY <1>0
  <2>. QED
    BY <2>1 DEF EndsIn, Whole, HasRoom, Payload!VarintEnds, Payload!IsVarint
<1>6. ASSUME NEW j \in Payload!VarintEnds(buf, i), NEW k \in Payload!VarintEnds(buf, i), j < k PROVE FALSE
  <2>1. j \in i + 1 .. Len(buf) + 1 /\ k \in i + 1 .. Len(buf) + 1 /\ Payload!IsVarint(buf, i, j) /\ Payload!IsVarint(buf, i, k)
    BY DEF Payload!VarintEnds
  <2>2. j - 1 \in i .. k - 2
    BY <1>6, <2>1
  <2>. QED
    BY <2>1, <2>2 DEF Payload!IsVarint
<1>7. CASE Payload!VarintEnds(buf, i) = {}
  BY <1>4, <1>5, <1>7 DEF ReadsTo
<1>8. ASSUME NEW j \in Payload!VarintEnds(buf, i)
      PROVE  \E k \in i + 1 .. Len(buf) + 1 :
               /\ Payload!VarintEnds(buf, i) = {k} /\ Payload!IsVarint(buf, i, k)
               /\ Payload!ReadVarint(buf, i) = <<Payload!VarintValue(buf, i, k), k>>
  <2>1. j \in i + 1 .. Len(buf) + 1 /\ Payload!IsVarint(buf, i, j)
    BY DEF Payload!VarintEnds
  <2>2. \A k \in Payload!VarintEnds(buf, i) : k \in Int
    BY DEF Payload!VarintEnds
  <2>3. \A k \in Payload!VarintEnds(buf, i) : k = j
    <3>. TAKE k \in Payload!VarintEnds(buf, i)
    <3>1. ~(k < j) /\ ~(j < k)
      BY <1>6
    <3>. QED
      BY <2>2, <3>1
  <2>4. Payload!VarintEnds(buf, i) = {j}
    BY <2>3
  <2>5. Payload!ReadVarint(buf, i) = <<Payload!VarintValue(buf, i, j), j>>
    BY <1>0, <1>4, <1>5 DEF ReadsTo
  <2>. QED
    BY <2>1, <2>4, <2>5
<1>. QED
  BY <1>7, <1>8

(* The field at a position, if it has one extent, or none.                 *)
LEMMA FieldsOf ==
    ASSUME NEW buf, NEW i, NEW k, Payload!VarintEnds(buf, i) = {k},
           NEW tag, tag = Payload!VarintValue(buf, i, k),
           NEW X, X = Payload!Extents(buf, tag % WireTypes, k)
    PROVE  /\ X = {} => Payload!FieldsAt(buf, i) = {}
           /\ \A x : X = {x} =>
                Payload!FieldsAt(buf, i) =
                    IF x.end <= Len(buf) + 1 THEN {[tag |-> tag, from |-> x.from, end |-> x.end]} ELSE {}
<1>. DEFINE M(x) == [tag |-> tag, from |-> x.from, end |-> x.end]
<1>1. Payload!FieldsAt(buf, i) = {M(x) : x \in {x \in X : x.end <= Len(buf) + 1}}
  BY DEF Payload!FieldsAt
<1>. HIDE DEF M
<1>2. X = {} => Payload!FieldsAt(buf, i) = {}
  BY <1>1
<1>3. ASSUME NEW x, X = {x}
      PROVE  Payload!FieldsAt(buf, i) = IF x.end <= Len(buf) + 1 THEN {M(x)} ELSE {}
  <2>1. {y \in X : y.end <= Len(buf) + 1} = IF x.end <= Len(buf) + 1 THEN {x} ELSE {}
    BY <1>3
  <2>. QED
    BY <1>1, <2>1
<1>. QED
  BY <1>2, <1>3 DEF M

(* What the scanner is to make of a field.                                 *)
IsRead(f, found) ==
    found = [number |-> f.tag \div WireTypes, type |-> f.tag % WireTypes, from |-> f.from, end |-> f.end]

LEMMA FieldRead ==
    ASSUME NEW buf \in Seq(Nat), NEW i \in 1 .. Len(buf) + 1
    PROVE  \/ Payload!FieldsAt(buf, i) = {} /\ Payload!ReadField(buf, i) = <<>>
           \/ \E f : /\ Payload!FieldsAt(buf, i) = {f} /\ IsRead(f, Payload!ReadField(buf, i))
                     /\ f.from \in i + 1 .. Len(buf) + 1 /\ f.end \in f.from .. Len(buf) + 1
                     /\ f.tag % WireTypes = Varint =>
                          Payload!IsVarint(buf, f.from, f.end) /\ f.from < f.end
<1>. DEFINE N == Len(buf)
            Goal == \/ Payload!FieldsAt(buf, i) = {} /\ Payload!ReadField(buf, i) = <<>>
                    \/ \E f : /\ Payload!FieldsAt(buf, i) = {f} /\ IsRead(f, Payload!ReadField(buf, i))
                              /\ f.from \in i + 1 .. N + 1 /\ f.end \in f.from .. N + 1
                              /\ f.tag % WireTypes = Varint =>
                                   Payload!IsVarint(buf, f.from, f.end) /\ f.from < f.end
<1>0. /\ Varint # Delimited /\ Varint \notin DOMAIN FixedSize /\ Delimited \notin DOMAIN FixedSize
      /\ \A type \in DOMAIN FixedSize : FixedSize[type] \in Nat
      /\ N \in Nat
  BY PayloadAssumption
<1>1. CASE Payload!VarintEnds(buf, i) = {} /\ Payload!ReadVarint(buf, i) = <<>>
  <2>1. Payload!FieldsAt(buf, i) = {}
    BY <1>1 DEF Payload!FieldsAt
  <2>. QED
    BY <1>1, <2>1 DEF Payload!ReadField, Payload!None
<1>2. ASSUME NEW k \in i + 1 .. N + 1,
             Payload!VarintEnds(buf, i) = {k},
             Payload!ReadVarint(buf, i) = <<Payload!VarintValue(buf, i, k), k>>
      PROVE  Goal
  <2>1. PICK tag : tag = Payload!VarintValue(buf, i, k)
    OBVIOUS
  <2>2. PICK type : type = tag % WireTypes
    OBVIOUS
  <2>. DEFINE Field(from, end) == IF end > N + 1 THEN <<>>
                ELSE [number |-> tag \div WireTypes, type |-> type, from |-> from, end |-> end]
              len == Payload!ReadVarint(buf, k)
              X == Payload!Extents(buf, type, k)
  <2>3. Payload!ReadField(buf, i) =
          IF type \in DOMAIN FixedSize THEN Field(k, k + FixedSize[type])
          ELSE IF type \notin {Varint, Delimited} \/ len = <<>> THEN <<>>
          ELSE IF type = Varint THEN Field(k, len[2])
          ELSE Field(len[2], len[2] + len[1])
    <3>1. <<tag, k>> # <<>> /\ <<tag, k>>[1] = tag /\ <<tag, k>>[2] = k
      OBVIOUS
    <3>2. Payload!ReadVarint(buf, i) = <<tag, k>>
      BY <1>2, <2>1
    <3>. QED
      BY <2>2, <3>1, <3>2 DEF Payload!ReadField, Payload!None
  <2>4. k \in 1 .. N + 1
    BY <1>0
  <2>5. ASSUME X = {}, Payload!ReadField(buf, i) = <<>> PROVE Goal
    BY <1>2, <2>1, <2>2, <2>5, FieldsOf
  <2>6. ASSUME NEW from \in k .. N + 1, NEW end \in Nat, end >= from,
               X = {[from |-> from, end |-> end]}, Payload!ReadField(buf, i) = Field(from, end),
               type = Varint => Payload!IsVarint(buf, from, end) /\ from < end
        PROVE  Goal
    <3>. DEFINE x == [from |-> from, end |-> end]
                f == [tag |-> tag, from |-> from, end |-> end]
    <3>1. x.from = from /\ x.end = end
      OBVIOUS
    <3>2. Payload!FieldsAt(buf, i) = IF end <= N + 1 THEN {f} ELSE {}
      <4>. HIDE DEF x
      <4>1. X = {x}
        BY <2>6 DEF x
      <4>2. Payload!FieldsAt(buf, i) =
              IF x.end <= N + 1 THEN {[tag |-> tag, from |-> x.from, end |-> x.end]} ELSE {}
        BY <1>2, <2>1, <2>2, <4>1, FieldsOf
      <4>. QED
        BY <3>1, <4>2
    <3>3. CASE end <= N + 1
      <4>1. f.tag = tag /\ f.from = from /\ f.end = end
        OBVIOUS
      <4>2. Payload!FieldsAt(buf, i) = {f}
        BY <3>2, <3>3
      <4>3. ~(end > N + 1) /\ from \in i + 1 .. N + 1 /\ end \in from .. N + 1
        BY <1>0, <2>6, <3>3
      <4>. HIDE DEF f
      <4>4. IsRead(f, Payload!ReadField(buf, i))
        BY <2>2, <2>6, <4>1, <4>3 DEF IsRead
      <4>. QED
        BY <2>2, <2>6, <4>1, <4>2, <4>3, <4>4
    <3>4. CASE ~(end <= N + 1)
      <4>1. end > N + 1
        BY <1>0, <3>4
      <4>. QED
        BY <2>6, <3>2, <3>4, <4>1
    <3>. QED
      BY <3>3, <3>4
  <2>. HIDE DEF Field, Goal
  <2>7. CASE type \in DOMAIN FixedSize
    <3>1. X = {[from |-> k, end |-> k + FixedSize[type]]}
      BY <1>0, <2>7 DEF Payload!Extents
    <3>2. k + FixedSize[type] \in Nat /\ k + FixedSize[type] >= k /\ k \in k .. N + 1
      BY <1>0, <2>7
    <3>3. Payload!ReadField(buf, i) = Field(k, k + FixedSize[type]) /\ type # Varint
      BY <1>0, <2>3, <2>7
    <3>. QED
      BY <2>6, <3>1, <3>2, <3>3
  <2>8. CASE type \notin DOMAIN FixedSize /\ type \notin {Varint, Delimited}
    <3>1. X = {}
      BY <2>8 DEF Payload!Extents
    <3>. QED
      BY <2>3, <2>5, <2>8, <3>1
  <2>9. CASE type \in {Varint, Delimited}
    <3>1. type \notin DOMAIN FixedSize
      BY <1>0, <2>9
    <3>4. type = Varint => X = {[from |-> k, end |-> j] : j \in Payload!VarintEnds(buf, k)}
      <4>. SUFFICES ASSUME type = Varint
                    PROVE  X = {[from |-> k, end |-> j] : j \in Payload!VarintEnds(buf, k)}
        OBVIOUS
      <4>1. type # Delimited /\ type \notin DOMAIN FixedSize
        BY <1>0
      <4>. QED
        BY <4>1 DEF Payload!Extents
    <3>5. type = Delimited =>
            X = {[from |-> m, end |-> m + Payload!VarintValue(buf, k, m)] : m \in Payload!VarintEnds(buf, k)}
      <4>. SUFFICES ASSUME type = Delimited PROVE X =
             {[from |-> m, end |-> m + Payload!VarintValue(buf, k, m)] : m \in Payload!VarintEnds(buf, k)}
        OBVIOUS
      <4>1. type # Varint /\ type \notin DOMAIN FixedSize
        BY <1>0
      <4>. QED
        BY <4>1 DEF Payload!Extents
    <3>. HIDE DEF X
    <3>2. CASE Payload!VarintEnds(buf, k) = {} /\ len = <<>>
      <4>1. X = {}
        BY <2>9, <3>2, <3>4, <3>5
      <4>. QED
        BY <2>3, <2>5, <3>1, <3>2, <4>1
    <3>3. ASSUME NEW j \in k + 1 .. N + 1, Payload!VarintEnds(buf, k) = {j}, Payload!IsVarint(buf, k, j),
                 len = <<Payload!VarintValue(buf, k, j), j>>
          PROVE  Goal
      <4>1. PICK v \in Nat : v = Payload!VarintValue(buf, k, j)
        <5>1. j \in 1 .. N + 1 /\ k \in 1 .. j
          BY <2>4
        <5>. QED
          BY <5>1, ValueIs
      <4>2. len # <<>> /\ len[1] = v /\ len[2] = j
        BY <3>3, <4>1
      <4>3. CASE type = Varint
        <5>1. X = {[from |-> k, end |-> j]}
          BY <3>3, <3>4, <4>3
        <5>2. Payload!ReadField(buf, i) = Field(k, j)
          BY <2>3, <3>1, <4>2, <4>3
        <5>3. k \in k .. N + 1 /\ j \in Nat /\ j >= k /\ k < j
          BY <1>0
        <5>. QED
          BY <2>6, <3>3, <5>1, <5>2, <5>3
      <4>4. CASE type = Delimited
        <5>1. X = {[from |-> j, end |-> j + v]}
          BY <3>3, <3>5, <4>1, <4>4
        <5>2. Payload!ReadField(buf, i) = Field(j, j + v)
          BY <1>0, <2>3, <3>1, <4>2, <4>4
        <5>3. j \in k .. N + 1 /\ j + v \in Nat /\ j + v >= j /\ type # Varint
          BY <1>0, <4>4
        <5>. QED
          BY <2>6, <5>1, <5>2, <5>3
      <4>. QED
        BY <2>9, <4>3, <4>4
    <3>. QED
      BY <2>4, <3>2, <3>3, VarintRead
  <2>. QED
    BY <2>7, <2>8, <2>9
<1>. HIDE DEF Goal
<1>3. Goal
  <2>1. Goal <=> \/ Payload!FieldsAt(buf, i) = {} /\ Payload!ReadField(buf, i) = <<>>
                 \/ \E f : /\ Payload!FieldsAt(buf, i) = {f} /\ IsRead(f, Payload!ReadField(buf, i))
                           /\ f.from \in i + 1 .. N + 1 /\ f.end \in f.from .. N + 1
                           /\ f.tag % WireTypes = Varint =>
                                Payload!IsVarint(buf, f.from, f.end) /\ f.from < f.end
    BY DEF Goal
  <2>2. CASE Payload!VarintEnds(buf, i) = {} /\ Payload!ReadVarint(buf, i) = <<>>
    BY <1>1, <2>1, <2>2
  <2>. QED
    BY <1>2, <2>2, VarintRead
<1>. QED
  BY <1>3 DEF Goal

(* Where a message has come to the end of a field.                         *)
LEMMA BoundariesAre ==
    ASSUME NEW buf \in Seq(Nat)
    PROVE  \E b : /\ Payload!Starts(buf) = {i \in 1 .. Len(buf) : b[i] /\ Payload!FieldsAt(buf, i) # {}}
                  /\ \A j \in 1 .. Len(buf) + 1 :
                       b[j] <=> j = 1 \/ \E i \in 1 .. j - 1 : b[i] /\ \E f \in Payload!FieldsAt(buf, i) : f.end = j
<1>. DEFINE N == Len(buf)
            D == 1 .. N + 1
            EndsAt(i, j) == \E f \in Payload!FieldsAt(buf, i) : f.end = j
            E(g) == [j \in D |-> j = 1 \/ \E i \in 1 .. j - 1 : g[i] /\ EndsAt(i, j)]
            B == CHOOSE g : g = E(g)
            rank == [j \in D |-> j]
<1>0. N \in Nat
  OBVIOUS
<1>1. Payload!Starts(buf) = {i \in 1 .. N : B[i] /\ Payload!FieldsAt(buf, i) # {}}
  BY DEF Payload!Starts
<1>. HIDE DEF EndsAt
<1>2. PICK F : F = [g \in [D -> BOOLEAN] |-> E(g)]
  OBVIOUS
<1>3. Settles(F, D, BOOLEAN, rank)
  <2>1. rank \in [D -> Nat]
    BY <1>0
  <2>2. ASSUME NEW g \in [D -> BOOLEAN] PROVE F[g] \in [D -> BOOLEAN] /\ F[g] = E(g)
    BY <1>2
  <2>3. F \in [[D -> BOOLEAN] -> [D -> BOOLEAN]]
    BY <1>2, <2>2
  <2>4. ASSUME NEW g \in [D -> BOOLEAN], NEW h \in [D -> BOOLEAN], NEW j \in D,
               \A e \in D : rank[e] < rank[j] => g[e] = h[e]
        PROVE  F[g][j] = F[h][j]
    <3>1. \A i \in 1 .. j - 1 : g[i] = h[i]
      <4>1. \A i \in 1 .. j - 1 : i \in D /\ i < j
        BY <1>0
      <4>. QED
        BY <2>4, <4>1
    <3>. DEFINE Q(u) == j = 1 \/ \E i \in 1 .. j - 1 : u[i] /\ EndsAt(i, j)
    <3>2. Q(g) <=> Q(h)
      BY <3>1
    <3>3. E(g)[j] = Q(g) /\ E(h)[j] = Q(h)
      OBVIOUS
    <3>. HIDE DEF Q, E
    <3>. QED
      BY <2>2, <3>2, <3>3
  <2>. QED
    BY <2>1, <2>3, <2>4 DEF Settles
<1>4. \E g : g = E(g)
  <2>1. \A j \in D : rank[j] <= N + 1
    BY <1>0
  <2>2. PICK g \in [D -> BOOLEAN] : g = F[g]
    <3>1. N + 1 \in Nat /\ TRUE \in BOOLEAN
      BY <1>0
    <3>. HIDE DEF D, rank, E, N
    <3>. QED
      BY <1>3, <2>1, <3>1, SolutionExists
  <2>. QED
    BY <1>2, <2>2
<1>5. B = E(B)
  BY <1>4
<1>. HIDE DEF B
<1>6. \A j \in D : B[j] <=> j = 1 \/ \E i \in 1 .. j - 1 : B[i] /\ EndsAt(i, j)
  BY <1>5
<1>. QED
  BY <1>1, <1>6 DEF EndsAt

(* From one boundary on, the fields are the one that begins there and      *)
(* those from its end on.                                                  *)
StartsFrom(buf, i) == {k \in Payload!Starts(buf) : k >= i}

GoesFrom(buf, b, i) ==
    \/ i = Len(buf) + 1 /\ StartsFrom(buf, i) = {}
    \/ Payload!FieldsAt(buf, i) = {} /\ StartsFrom(buf, i) = {}
    \/ \E f : /\ i <= Len(buf) /\ Payload!FieldsAt(buf, i) = {f}
              /\ f.end \in i + 1 .. Len(buf) + 1 /\ f.end \in b
              /\ StartsFrom(buf, i) = {i} \cup StartsFrom(buf, f.end)

LEMMA FieldsGoOn ==
    ASSUME NEW buf \in Seq(Nat)
    PROVE  \E b : 1 \in b /\ \A i \in 1 .. Len(buf) + 1 : i \in b => GoesFrom(buf, b, i)
<1>. DEFINE N == Len(buf)
<1>0. N \in Nat
  OBVIOUS
<1>1. PICK c : /\ Payload!Starts(buf) = {i \in 1 .. N : c[i] /\ Payload!FieldsAt(buf, i) # {}}
               /\ \A j \in 1 .. N + 1 :
                    c[j] <=> j = 1 \/ \E i \in 1 .. j - 1 : c[i] /\ \E f \in Payload!FieldsAt(buf, i) : f.end = j
  BY BoundariesAre
<1>. DEFINE b == {i \in 1 .. N + 1 : c[i]}
<1>2. 1 \in b
  BY <1>0, <1>1
<1>3. ASSUME NEW i \in 1 .. N + 1, Payload!FieldsAt(buf, i) # {}
      PROVE  \E f : Payload!FieldsAt(buf, i) = {f} /\ f.end \in i + 1 .. N + 1
  <2>1. PICK f : /\ Payload!FieldsAt(buf, i) = {f}
                 /\ f.from \in i + 1 .. N + 1 /\ f.end \in f.from .. N + 1
    BY <1>3, FieldRead
  <2>2. f.end \in i + 1 .. N + 1
    BY <1>0, <2>1
  <2>. QED
    BY <2>1, <2>2
<1>. DEFINE T == {k \in Nat : k \in b /\ \E i \in b : i < k /\ ~\E f \in Payload!FieldsAt(buf, i) : f.end <= k}
<1>4. T = {}
  <2>. SUFFICES ASSUME T # {} PROVE FALSE
    OBVIOUS
  <2>1. PICK k \in T : \A m \in T : k <= m
    <3>. HIDE DEF b
    <3>1. T \subseteq Nat
      OBVIOUS
    <3>. HIDE DEF T
    <3>. QED
      BY <3>1, LeastNat
  <2>2. PICK i \in b : i < k /\ ~\E f \in Payload!FieldsAt(buf, i) : f.end <= k
    BY <2>1
  <2>3. k \in 1 .. N + 1 /\ k # 1 /\ c[k] /\ k \in Nat /\ i \in 1 .. N + 1
    BY <2>1, <2>2
  <2>4. PICK p \in 1 .. k - 1 : c[p] /\ \E f \in Payload!FieldsAt(buf, p) : f.end = k
    BY <1>1, <2>3
  <2>5. PICK g \in Payload!FieldsAt(buf, p) : g.end = k
    BY <2>4
  <2>6. p \in b /\ p \in 1 .. N + 1 /\ p < k
    BY <1>0, <2>3, <2>4
  <2>7. \A m \in b : m < k => \A n \in b : n < m => \E f \in Payload!FieldsAt(buf, n) : f.end <= m
    <3>. TAKE m \in b
    <3>. HAVE m < k
    <3>1. m \in Nat /\ ~(k <= m)
      BY <1>0, <2>3
    <3>. QED
      BY <2>1, <3>1
  <2>8. CASE p = i
    BY <2>2, <2>3, <2>5, <2>8
  <2>9. CASE p > i
    <3>1. PICK f \in Payload!FieldsAt(buf, i) : f.end <= p
      BY <2>6, <2>7, <2>9
    <3>2. f.end \in Nat
      <4>1. PICK h : Payload!FieldsAt(buf, i) = {h} /\ h.end \in i + 1 .. N + 1
        BY <1>3, <2>3
      <4>. QED
        BY <2>3, <4>1
    <3>3. f.end <= k
      BY <2>3, <2>6, <3>1, <3>2
    <3>. QED
      BY <2>2, <3>3
  <2>10. CASE p < i
    <3>1. PICK f \in Payload!FieldsAt(buf, p) : f.end <= i
      BY <2>2, <2>6, <2>7, <2>10
    <3>2. f = g
      BY <1>3, <2>5, <2>6
    <3>. QED
      BY <2>2, <2>3, <2>5, <3>1, <3>2
  <2>. QED
    BY <2>3, <2>4, <2>8, <2>9, <2>10
<1>5. ASSUME NEW i \in b, NEW k \in b, i < k
      PROVE  \E f \in Payload!FieldsAt(buf, i) : f.end <= k
  <2>1. k \in Nat
    BY <1>0
  <2>. QED
    BY <1>4, <1>5, <2>1
<1>6. \A k \in Payload!Starts(buf) : k \in b /\ k \in 1 .. N
  BY <1>0, <1>1
<1>7. ASSUME NEW i \in b PROVE GoesFrom(buf, b, i)
  <2>1. CASE i = N + 1
    <3>1. StartsFrom(buf, i) = {}
      BY <1>0, <1>6, <2>1 DEF StartsFrom
    <3>. QED
      BY <2>1, <3>1 DEF GoesFrom
  <2>2. CASE Payload!FieldsAt(buf, i) = {}
    <3>1. ASSUME NEW k \in StartsFrom(buf, i) PROVE FALSE
      <4>1. k \in Payload!Starts(buf) /\ k >= i
        BY DEF StartsFrom
      <4>2. k # i
        BY <1>1, <2>2, <4>1
      <4>3. i < k /\ k \in b
        BY <1>0, <1>6, <4>1, <4>2
      <4>. QED
        BY <1>5, <2>2, <4>3
    <3>. QED
      BY <2>2, <3>1 DEF GoesFrom
  <2>3. CASE i # N + 1 /\ Payload!FieldsAt(buf, i) # {}
    <3>0. i \in 1 .. N /\ c[i]
      BY <1>0, <2>3
    <3>1. PICK f : Payload!FieldsAt(buf, i) = {f} /\ f.end \in i + 1 .. N + 1
      BY <1>3, <2>3
    <3>2. f.end \in b
      <4>1. i \in 1 .. f.end - 1 /\ f.end \in 1 .. N + 1
        BY <3>0, <3>1
      <4>. QED
        BY <1>1, <3>0, <3>1, <4>1
    <3>3. i \in Payload!Starts(buf)
      BY <1>1, <2>3, <3>0
    <3>4. ASSUME NEW k \in Payload!Starts(buf) PROVE k >= i <=> k = i \/ k >= f.end
      <4>1. k \in b /\ k \in 1 .. N
        BY <1>6
      <4>2. i < k => f.end <= k
        BY <1>5, <3>1, <4>1
      <4>. QED
        BY <3>0, <3>1, <4>1, <4>2
    <3>5. StartsFrom(buf, i) = {i} \cup StartsFrom(buf, f.end)
      BY <3>3, <3>4 DEF StartsFrom
    <3>6. i <= N
      BY <3>0
    <3>. HIDE DEF b
    <3>. QED
      BY <3>1, <3>2, <3>5, <3>6 DEF GoesFrom
  <2>. QED
    BY <2>1, <2>2, <2>3
<1>. HIDE DEF b
<1>. QED
  BY <1>2, <1>7

(* A scan that stops at some positions and jumps ahead from the others.    *)
Scans(H, nxt, stop, N, X) ==
    /\ H \in [(1 .. N + 1) \X X -> X]
    /\ \A i \in 1 .. N + 1 : i \notin stop => nxt[i] \in i + 1 .. N + 1

LEMMA ScanExists ==
    ASSUME NEW N \in Nat, NEW X, NEW x \in X, NEW stop, NEW nxt, NEW H, Scans(H, nxt, stop, N, X)
    PROVE  \E g \in [1 .. N + 1 -> X] :
             \A i \in 1 .. N + 1 : g[i] = IF i \in stop THEN x ELSE H[<<i, g[nxt[i]]>>]
<1>. DEFINE D == 1 .. N + 1
            E(g) == [i \in D |-> IF i \in stop THEN x ELSE H[<<i, g[nxt[i]]>>]]
            rank == [i \in D |-> N + 1 - i]
<1>0. H \in [D \X X -> X]
  BY DEF Scans
<1>1. ASSUME NEW i \in D, i \notin stop PROVE nxt[i] \in D /\ N + 1 - nxt[i] < N + 1 - i
  <2>1. nxt[i] \in i + 1 .. N + 1
    BY <1>1 DEF Scans
  <2>. QED
    BY <2>1
<1>2. PICK F : F = [g \in [D -> X] |-> E(g)]
  OBVIOUS
<1>3. Settles(F, D, X, rank)
  <2>1. rank \in [D -> Nat]
    OBVIOUS
  <2>2. ASSUME NEW g \in [D -> X] PROVE F[g] \in [D -> X] /\ F[g] = E(g)
    <3>1. ASSUME NEW i \in D PROVE (IF i \in stop THEN x ELSE H[<<i, g[nxt[i]]>>]) \in X
      <4>1. i \notin stop => <<i, g[nxt[i]]>> \in D \X X
        BY <1>1
      <4>. QED
        BY <1>0, <4>1
    <3>. QED
      BY <1>2, <3>1
  <2>3. F \in [[D -> X] -> [D -> X]]
    BY <1>2, <2>2
  <2>4. ASSUME NEW g \in [D -> X], NEW h \in [D -> X], NEW i \in D,
               \A e \in D : rank[e] < rank[i] => g[e] = h[e]
        PROVE  F[g][i] = F[h][i]
    <3>1. i \notin stop => g[nxt[i]] = h[nxt[i]]
      BY <1>1, <2>4
    <3>2. /\ E(g)[i] = (IF i \in stop THEN x ELSE H[<<i, g[nxt[i]]>>])
          /\ E(h)[i] = (IF i \in stop THEN x ELSE H[<<i, h[nxt[i]]>>])
      OBVIOUS
    <3>3. F[g] = E(g) /\ F[h] = E(h)
      BY <2>2
    <3>. HIDE DEF E
    <3>. QED
      BY <3>1, <3>2, <3>3
  <2>. QED
    BY <2>1, <2>3, <2>4 DEF Settles
<1>4. PICK g \in [D -> X] : g = F[g]
  <2>1. N + 1 \in Nat /\ \A i \in D : rank[i] <= N + 1
    OBVIOUS
  <2>. HIDE DEF D, rank, E
  <2>. QED
    BY <1>3, <2>1, SolutionExists
<1>. QED
  BY <1>2, <1>4

LEMMA PieceIs ==
    ASSUME NEW buf \in Seq(Nat), NEW from \in 1 .. Len(buf) + 1, NEW end \in from .. Len(buf) + 1
    PROVE  /\ SubSeq(buf, from, end - 1) \in Seq(Nat)
           /\ Len(SubSeq(buf, from, end - 1)) = end - from
           /\ \A k \in 1 .. end - from : SubSeq(buf, from, end - 1)[k] = buf[from + k - 1]
<1>1. SubSeq(buf, from, end - 1) \in Seq(Nat)
  OBVIOUS
<1>2. Len(SubSeq(buf, from, end - 1)) = end - from
  OBVIOUS
<1>3. \A k \in 1 .. end - from : SubSeq(buf, from, end - 1)[k] = buf[from + k - 1]
  OBVIOUS
<1>. QED
  BY <1>1, <1>2, <1>3

(* What the scanner has read stands for the field, and is something.       *)
LEMMA FoundIs ==
    ASSUME NEW buf \in Seq(Nat), NEW i \in 1 .. Len(buf) + 1, Payload!ReadField(buf, i) # <<>>
    PROVE  LET f == Payload!ReadField(buf, i)
           IN  /\ f.end \in i + 1 .. Len(buf) + 1
               /\ SubSeq(buf, f.from, f.end - 1) \in Seq(Nat)
<1>1. PICK f : /\ IsRead(f, Payload!ReadField(buf, i))
               /\ f.from \in i + 1 .. Len(buf) + 1 /\ f.end \in f.from .. Len(buf) + 1
  BY FieldRead
<1>2. Payload!ReadField(buf, i).end = f.end /\ Payload!ReadField(buf, i).from = f.from
  BY <1>1 DEF IsRead
<1>3. f.end \in i + 1 .. Len(buf) + 1 /\ f.from \in 1 .. Len(buf) + 1
  BY <1>1
<1>4. SubSeq(buf, f.from, f.end - 1) \in Seq(Nat)
  BY <1>1, <1>3, PieceIs
<1>. QED
  BY <1>2, <1>3, <1>4

(* The loops of get_proto_field and get_proto_fields.                      *)
ScansOne(buf, target, scan) ==
    /\ Payload!GetProtoField(buf, target) = scan[1]
    /\ \A i \in 1 .. Len(buf) + 1 :
         LET f == Payload!ReadField(buf, i)
         IN  scan[i] = IF i > Len(buf) \/ f = <<>> THEN <<>>
                       ELSE IF f.type = Delimited /\ f.number = target
                            THEN <<SubSeq(buf, f.from, f.end - 1)>>
                       ELSE scan[f.end]

ScansAll(buf, target, scan) ==
    /\ Payload!GetProtoFields(buf, target) = scan[1]
    /\ \A i \in 1 .. Len(buf) + 1 :
         LET f == Payload!ReadField(buf, i)
         IN  scan[i] = IF i > Len(buf) \/ f = <<>> THEN <<>>
                       ELSE IF f.number = target
                            THEN <<SubSeq(buf, f.from, f.end - 1)>> \o scan[f.end]
                       ELSE scan[f.end]

LEMMA FirstUnfolds ==
    ASSUME NEW buf \in Seq(Nat), NEW target
    PROVE  \E scan : ScansOne(buf, target, scan)
<1>. DEFINE N == Len(buf)
            D == 1 .. N + 1
            X == {<<>>} \cup {<<s>> : s \in Seq(Nat)}
            found(i) == Payload!ReadField(buf, i)
            hit(i) == found(i).type = Delimited /\ found(i).number = target
            piece(i) == <<SubSeq(buf, found(i).from, found(i).end - 1)>>
            E(g) == [i \in D |-> IF i > N \/ found(i) = <<>> THEN <<>>
                                 ELSE IF hit(i) THEN piece(i) ELSE g[found(i).end]]
            B == CHOOSE g : g = E(g)
            stop == {i \in D : i > N \/ found(i) = <<>>}
            nxt == [i \in D |-> found(i).end]
            H == [p \in D \X X |-> IF p[1] \in stop THEN <<>> ELSE IF hit(p[1]) THEN piece(p[1]) ELSE p[2]]
<1>0. N \in Nat /\ <<>> \in X
  OBVIOUS
<1>1. ASSUME NEW i \in D, i \notin stop PROVE found(i).end \in i + 1 .. N + 1 /\ piece(i) \in X
  <2>1. found(i) # <<>>
    BY <1>1
  <2>. QED
    BY <2>1, FoundIs
<1>2. Payload!GetProtoField(buf, target) = B[1]
  BY DEF Payload!GetProtoField, Payload!None
<1>. HIDE DEF X, found, hit, piece
<1>3. Scans(H, nxt, stop, N, X)
  <2>1. ASSUME NEW p \in D \X X
        PROVE  (IF p[1] \in stop THEN <<>> ELSE IF hit(p[1]) THEN piece(p[1]) ELSE p[2]) \in X
    <3>1. p[1] \in D /\ p[2] \in X
      OBVIOUS
    <3>. QED
      BY <1>0, <1>1, <3>1
  <2>2. H \in [D \X X -> X]
    BY <2>1
  <2>. QED
    BY <1>1, <2>2 DEF Scans
<1>4. \E g : g = E(g)
  <2>1. PICK g \in [D -> X] : \A i \in D : g[i] = IF i \in stop THEN <<>> ELSE H[<<i, g[nxt[i]]>>]
    <3>. HIDE DEF H, nxt, stop, N
    <3>. QED
      BY <1>0, <1>3, ScanExists
  <2>2. ASSUME NEW i \in D PROVE g[i] = E(g)[i]
    <3>1. CASE i \in stop
      BY <2>1, <3>1
    <3>2. CASE i \notin stop
      <4>1. nxt[i] = found(i).end /\ found(i).end \in D
        BY <1>1, <3>2
      <4>2. <<i, g[nxt[i]]>> \in D \X X
        BY <4>1
      <4>3. H[<<i, g[nxt[i]]>>] = IF hit(i) THEN piece(i) ELSE g[found(i).end]
        BY <3>2, <4>1, <4>2
      <4>. QED
        BY <2>1, <3>2, <4>3
    <3>. QED
      BY <3>1, <3>2
  <2>. QED
    BY <2>2
<1>5. B = E(B)
  BY <1>4
<1>. HIDE DEF B
<1>6. \A i \in D : B[i] = IF i > N \/ found(i) = <<>> THEN <<>>
                          ELSE IF hit(i) THEN piece(i) ELSE B[found(i).end]
  BY <1>5
<1>7. ScansOne(buf, target, B)
  BY <1>2, <1>6 DEF found, hit, piece, ScansOne
<1>. QED
  BY <1>7

LEMMA AllUnfolds ==
    ASSUME NEW buf \in Seq(Nat), NEW target, NEW P, P = Seq(Nat)
    PROVE  \E scan \in [1 .. Len(buf) + 1 -> Seq(P)] : ScansAll(buf, target, scan)
<1>. DEFINE N == Len(buf)
            D == 1 .. N + 1
            found(i) == Payload!ReadField(buf, i)
            hit(i) == found(i).number = target
            piece(i) == <<SubSeq(buf, found(i).from, found(i).end - 1)>>
            E(g) == [i \in D |-> IF i > N \/ found(i) = <<>> THEN <<>>
                                 ELSE IF hit(i) THEN piece(i) \o g[found(i).end] ELSE g[found(i).end]]
            B == CHOOSE g : g = E(g)
            stop == {i \in D : i > N \/ found(i) = <<>>}
            nxt == [i \in D |-> found(i).end]
<1>b. PICK X : X = Seq(P)
  OBVIOUS
<1>. DEFINE H == [p \in D \X X |-> IF p[1] \in stop THEN <<>>
                                  ELSE IF hit(p[1]) THEN piece(p[1]) \o p[2] ELSE p[2]]
<1>0. N \in Nat /\ <<>> \in X
  BY <1>b
<1>1. ASSUME NEW i \in D, i \notin stop PROVE found(i).end \in i + 1 .. N + 1 /\ piece(i) \in X
  <2>1. found(i) # <<>>
    BY <1>1
  <2>2. found(i).end \in i + 1 .. N + 1 /\ SubSeq(buf, found(i).from, found(i).end - 1) \in P
    BY <2>1, FoundIs
  <2>3. \A s \in P : <<s>> \in X
    BY <1>b
  <2>. QED
    BY <2>2, <2>3
<1>2. Payload!GetProtoFields(buf, target) = B[1]
  BY DEF Payload!GetProtoFields, Payload!None
<1>c. \A s, t \in X : s \o t \in X
  BY <1>b, ConcatIs
<1>. HIDE DEF found, hit, piece
<1>3. Scans(H, nxt, stop, N, X)
  <2>1. ASSUME NEW p \in D \X X
        PROVE  (IF p[1] \in stop THEN <<>> ELSE IF hit(p[1]) THEN piece(p[1]) \o p[2] ELSE p[2]) \in X
    <3>1. p[1] \in D /\ p[2] \in X
      OBVIOUS
    <3>. QED
      BY <1>0, <1>1, <1>c, <3>1
  <2>2. H \in [D \X X -> X]
    BY <2>1
  <2>. QED
    BY <1>1, <2>2 DEF Scans
<1>4. PICK g \in [D -> X] : g = E(g)
  <2>1. PICK g \in [D -> X] : \A i \in D : g[i] = IF i \in stop THEN <<>> ELSE H[<<i, g[nxt[i]]>>]
    <3>. HIDE DEF H, nxt, stop, N
    <3>. QED
      BY <1>0, <1>3, ScanExists
  <2>2. ASSUME NEW i \in D PROVE g[i] = E(g)[i]
    <3>1. CASE i \in stop
      BY <2>1, <3>1
    <3>2. CASE i \notin stop
      <4>1. nxt[i] = found(i).end /\ found(i).end \in D
        BY <1>1, <3>2
      <4>2. <<i, g[nxt[i]]>> \in D \X X
        BY <4>1
      <4>3. H[<<i, g[nxt[i]]>>] = IF hit(i) THEN piece(i) \o g[found(i).end] ELSE g[found(i).end]
        BY <3>2, <4>1, <4>2
      <4>. QED
        BY <2>1, <3>2, <4>3
    <3>. QED
      BY <3>1, <3>2
  <2>. QED
    BY <2>2
<1>5. B = E(B)
  BY <1>4
<1>. HIDE DEF B
<1>6. \A i \in D : B[i] = IF i > N \/ found(i) = <<>> THEN <<>>
                          ELSE IF hit(i) THEN piece(i) \o B[found(i).end] ELSE B[found(i).end]
  BY <1>5
<1>7. \A i \in D : B[i] \in X
  <2>. DEFINE S == {i \in D : B[i] \in X}
  <2>1. ASSUME NEW i \in D, \A k \in i + 1 .. N + 1 : k \in S PROVE i \in S
    <3>1. CASE i \in stop
      BY <1>0, <1>6, <3>1
    <3>2. CASE i \notin stop
      <4>1. B[found(i).end] \in X /\ piece(i) \in X
        BY <1>1, <2>1, <3>2
      <4>2. piece(i) \o B[found(i).end] \in X
        BY <1>c, <4>1
      <4>. QED
        BY <1>6, <3>2, <4>1, <4>2
    <3>. QED
      BY <3>1, <3>2
  <2>2. D \subseteq S
    <3>1. 1 \in Nat /\ N + 1 \in Nat
      BY <1>0
    <3>. HIDE DEF S, N
    <3>. QED
      BY <2>1, <3>1, FromTheEnd
  <2>. QED
    BY <2>2
<1>8. B \in [D -> X]
  <2>1. B = [i \in D |-> B[i]]
    BY <1>5
  <2>. QED
    BY <1>7, <2>1
<1>9. ScansAll(buf, target, B)
  BY <1>2, <1>6 DEF found, hit, piece, ScansAll
<1>. QED
  BY <1>8, <1>9, <1>b

LEMMA ReadThere ==
    ASSUME NEW buf \in Seq(Nat), NEW i \in 1 .. Len(buf) + 1
    PROVE  /\ Payload!FieldsAt(buf, i) = {} => Payload!ReadField(buf, i) = <<>>
           /\ \A f : Payload!FieldsAt(buf, i) = {f} =>
                LET r == Payload!ReadField(buf, i)
                IN  /\ r # <<>> /\ r.end = f.end
                    /\ r.number = Payload!Number(buf, i) /\ r.type = Payload!Type(buf, i)
                    /\ SubSeq(buf, r.from, r.end - 1) = Payload!PayloadAt(buf, i)
<1>1. Payload!FieldsAt(buf, i) = {} => Payload!ReadField(buf, i) = <<>>
  BY FieldRead
<1>2. ASSUME NEW f, Payload!FieldsAt(buf, i) = {f}
      PROVE  LET r == Payload!ReadField(buf, i)
             IN  /\ r # <<>> /\ r.end = f.end
                 /\ r.number = Payload!Number(buf, i) /\ r.type = Payload!Type(buf, i)
                 /\ SubSeq(buf, r.from, r.end - 1) = Payload!PayloadAt(buf, i)
  <2>1. IsRead(f, Payload!ReadField(buf, i))
    BY <1>2, FieldRead
  <2>2. Payload!FieldAt(buf, i) = f
    BY <1>2 DEF Payload!FieldAt
  <2>. DEFINE R == [number |-> f.tag \div WireTypes, type |-> f.tag % WireTypes,
                    from |-> f.from, end |-> f.end]
  <2>3. Payload!ReadField(buf, i) = R
    BY <2>1 DEF IsRead
  <2>4. R.number = f.tag \div WireTypes /\ R.type = f.tag % WireTypes /\ R.from = f.from /\ R.end = f.end
    OBVIOUS
  <2>5. R # <<>>
    <3>1. "end" \in DOMAIN R /\ DOMAIN <<>> = {}
      OBVIOUS
    <3>. QED
      BY <3>1
  <2>. HIDE DEF R
  <2>. QED
    BY <2>2, <2>3, <2>4, <2>5 DEF Payload!Number, Payload!Type, Payload!PayloadAt
<1>. QED
  BY <1>1, <1>2

LEMMA StartsAre ==
    ASSUME NEW buf \in Seq(Nat)
    PROVE  Payload!Starts(buf) \subseteq 1 .. Len(buf)
  BY DEF Payload!Starts

LEMMA LeastIs ==
    ASSUME NEW T, NEW i \in Nat, i \in T, \A k \in T : k \in Nat /\ i <= k
    PROVE  Payload!Least(T) = i
<1>1. \A k \in T : (\A j \in T : k <= j) => k = i
  OBVIOUS
<1>2. i \in T /\ \A j \in T : i <= j
  OBVIOUS
<1>. QED
  BY <1>1, <1>2 DEF Payload!Least

(* The one search finds the first text of that number.                     *)
LEMMA FirstFound ==
    ASSUME NEW buf \in Seq(Nat), NEW target
    PROVE  Payload!GetProtoField(buf, target) = Payload!FirstText(buf, target)
<1>. DEFINE N == Len(buf)
            wanted(k) == Payload!Number(buf, k) = target /\ Payload!Type(buf, k) = Delimited
            from(i) == {k \in StartsFrom(buf, i) : wanted(k)}
            first(T) == IF T = {} THEN <<>> ELSE <<Payload!PayloadAt(buf, Payload!Least(T))>>
<1>0. N \in Nat
  OBVIOUS
<1>a. PICK scan : ScansOne(buf, target, scan)
  BY FirstUnfolds
<1>1. /\ Payload!GetProtoField(buf, target) = scan[1]
      /\ \A i \in 1 .. N + 1 :
           LET f == Payload!ReadField(buf, i)
           IN  scan[i] = IF i > N \/ f = <<>> THEN <<>>
                         ELSE IF f.type = Delimited /\ f.number = target
                              THEN <<SubSeq(buf, f.from, f.end - 1)>>
                         ELSE scan[f.end]
  BY <1>a DEF ScansOne
<1>2. PICK b : 1 \in b /\ \A i \in 1 .. N + 1 : i \in b => GoesFrom(buf, b, i)
  BY FieldsGoOn
<1>3. \A i : \A k \in from(i) : k \in Nat /\ k >= i
  BY StartsAre DEF StartsFrom
<1>. HIDE DEF wanted
<1>. DEFINE S == {i \in Nat : i \in b => scan[i] = first(from(i))}
<1>4. ASSUME NEW i \in 1 .. N + 1, \A k \in i + 1 .. N + 1 : k \in S PROVE i \in S
  <2>. SUFFICES ASSUME i \in b PROVE scan[i] = first(from(i))
    BY <1>0
  <2>1. CASE (i = N + 1 \/ Payload!FieldsAt(buf, i) = {}) /\ StartsFrom(buf, i) = {}
    <3>1. from(i) = {}
      BY <2>1
    <3>2. i > N \/ Payload!ReadField(buf, i) = <<>>
      BY <1>0, <2>1, ReadThere
    <3>3. scan[i] = <<>>
      BY <1>1, <3>2
    <3>. QED
      BY <3>1, <3>3
  <2>2. ASSUME NEW f, i <= N, Payload!FieldsAt(buf, i) = {f}, f.end \in i + 1 .. N + 1, f.end \in b,
               StartsFrom(buf, i) = {i} \cup StartsFrom(buf, f.end)
        PROVE  scan[i] = first(from(i))
    <3>1. scan[i] = IF wanted(i) THEN <<Payload!PayloadAt(buf, i)>> ELSE scan[f.end]
      <4>1. ~(i > N)
        BY <1>0, <2>2
      <4>. QED
        BY <1>1, <2>2, <4>1, ReadThere DEF wanted
    <3>2. scan[f.end] = first(from(f.end))
      BY <1>4, <2>2
    <3>3. CASE wanted(i)
      <4>1. from(i) = {i} \cup from(f.end)
        BY <2>2, <3>3
      <4>2. i \in from(i) /\ from(i) # {} /\ \A k \in from(i) : k \in Nat /\ i <= k
        BY <1>0, <1>3, <4>1
      <4>3. Payload!Least(from(i)) = i
        <5>. HIDE DEF from
        <5>. QED
          BY <1>0, <4>2, LeastIs
      <4>. QED
        BY <3>1, <3>3, <4>2, <4>3
    <3>4. CASE ~wanted(i)
      <4>1. from(i) = from(f.end)
        BY <2>2, <3>4
      <4>. HIDE DEF from, first
      <4>. QED
        BY <3>1, <3>2, <3>4, <4>1
    <3>. QED
      BY <3>3, <3>4
  <2>3. GoesFrom(buf, b, i)
    BY <1>2
  <2>. HIDE DEF from, first
  <2>. QED
    BY <2>1, <2>2, <2>3 DEF GoesFrom
<1>5. 1 .. N + 1 \subseteq S
  <2>1. 1 \in Nat /\ N + 1 \in Nat
    BY <1>0
  <2>. HIDE DEF S, N
  <2>. QED
    BY <1>4, <2>1, FromTheEnd
<1>6. scan[1] = first(from(1))
  <2>1. 1 \in 1 .. N + 1
    BY <1>0
  <2>. HIDE DEF first, from
  <2>. QED
    BY <1>2, <1>5, <2>1
<1>7. from(1) = {i \in Payload!Named(buf, target) : Payload!Type(buf, i) = Delimited}
  <2>1. StartsFrom(buf, 1) = Payload!Starts(buf)
    BY StartsAre DEF StartsFrom
  <2>. QED
    BY <2>1 DEF wanted, Payload!Named
<1>. QED
  BY <1>1, <1>6, <1>7 DEF Payload!FirstText, Payload!None

LEMMA SamePayloadCount ==
    \A S : Payload!Cardinality(S) = Cardinality(S)
  BY DEF Payload!Cardinality, Cardinality

(* The payloads of a set of fields, and of one before them.                *)
LEMMA OneMore ==
    ASSUME NEW buf, NEW n \in Nat, NEW T \in SUBSET (1 .. n), NEW i \in 1 .. n, \A k \in T : i < k,
           NEW P, NEW payloads \in Seq(P), Payload!AreAll(payloads, buf, T), Payload!PayloadAt(buf, i) \in P
    PROVE  Payload!AreAll(<<Payload!PayloadAt(buf, i)>> \o payloads, buf, {i} \cup T)
<1>. DEFINE piece == Payload!PayloadAt(buf, i)
            all == <<piece>> \o payloads
            upto(U, k) == {j \in U : j <= k}
<1>1. IsFiniteSet(T) /\ \A k : IsFiniteSet(upto(T, k))
  <2>1. IsFiniteSet(1 .. n)
    BY FS_Interval
  <2>2. \A k : upto(T, k) \subseteq 1 .. n
    OBVIOUS
  <2>. QED
    BY <2>1, <2>2, FS_Subset
<1>2. Len(payloads) = Cardinality(T)
  BY SamePayloadCount DEF Payload!AreAll
<1>3. \A k \in T : payloads[Cardinality(upto(T, k))] = Payload!PayloadAt(buf, k)
  BY SamePayloadCount DEF Payload!AreAll
<1>4. <<piece>> \in Seq(P) /\ Len(<<piece>>) = 1 /\ <<piece>>[1] = piece /\ 1 \in 1 .. 1
  OBVIOUS
<1>. HIDE DEF piece
<1>5. /\ Len(all) = 1 + Len(payloads) /\ all[1] = piece
      /\ \A k \in 1 .. Len(payloads) : all[1 + k] = payloads[k]
  BY <1>4, ConcatIs
<1>6. i \notin T /\ i \notin upto(T, i)
  OBVIOUS
<1>7. Cardinality({i} \cup T) = 1 + Len(payloads)
  <2>1. Cardinality(T \cup {i}) = Cardinality(T) + 1
    BY <1>1, <1>6, FS_AddElement
  <2>2. T \cup {i} = {i} \cup T
    OBVIOUS
  <2>3. Cardinality(T) \in Nat
    BY <1>1, FS_CardinalityType
  <2>4. Cardinality(T) + 1 = 1 + Cardinality(T)
    BY <2>3
  <2>. QED
    BY <1>2, <2>1, <2>2, <2>4
<1>8. Cardinality(upto({i} \cup T, i)) = 1
  <2>1. \A j \in {i} \cup T : j <= i <=> j = i
    OBVIOUS
  <2>2. upto({i} \cup T, i) = {i}
    BY <2>1
  <2>. QED
    BY <2>2, FS_Singleton
<1>9. ASSUME NEW k \in T
      PROVE  all[Cardinality(upto({i} \cup T, k))] = Payload!PayloadAt(buf, k)
  <2>1. PICK U : U = upto(T, k)
    OBVIOUS
  <2>2. upto({i} \cup T, k) = U \cup {i}
    <3>1. i <= k
      OBVIOUS
    <3>. QED
      BY <2>1, <3>1
  <2>3. IsFiniteSet(U) /\ i \notin U /\ k \in U /\ U \subseteq T
    <3>1. i \notin U /\ U \subseteq T
      BY <1>6, <2>1
    <3>2. k <= k
      OBVIOUS
    <3>. QED
      BY <1>1, <2>1, <3>1, <3>2
  <2>4. Cardinality(U \cup {i}) = Cardinality(U) + 1 /\ Cardinality(U) \in Nat
    BY <2>3, FS_AddElement, FS_CardinalityType
  <2>5. Cardinality(U) # 0 /\ Cardinality(U) <= Cardinality(T)
    BY <1>1, <2>3, FS_EmptySet, FS_Subset
  <2>6. Cardinality(T) \in Nat
    BY <1>1, FS_CardinalityType
  <2>7. Cardinality(U) \in 1 .. Len(payloads) /\ Cardinality(U) + 1 = 1 + Cardinality(U)
    BY <1>2, <2>4, <2>5, <2>6
  <2>8. payloads[Cardinality(U)] = Payload!PayloadAt(buf, k)
    BY <1>3, <2>1
  <2>. HIDE DEF all, upto
  <2>. QED
    BY <1>5, <2>2, <2>4, <2>7, <2>8
<1>. HIDE DEF all
<1>10. ASSUME NEW k \in {i} \cup T
       PROVE  all[Cardinality(upto({i} \cup T, k))] = Payload!PayloadAt(buf, k)
  <2>. HIDE DEF upto
  <2>. QED
    BY <1>5, <1>8, <1>9 DEF piece
<1>11. Payload!AreAll(all, buf, {i} \cup T)
  BY <1>5, <1>7, <1>10, SamePayloadCount DEF Payload!AreAll
<1>. QED
  BY <1>11 DEF all, piece

(* The other finds the payloads of all fields of that number.              *)
LEMMA AllFound ==
    ASSUME NEW buf \in Seq(Nat), NEW target
    PROVE  /\ Payload!GetProtoFields(buf, target) \in Seq(Seq(Nat))
           /\ Payload!AreAll(Payload!GetProtoFields(buf, target), buf, Payload!Named(buf, target))
<1>. DEFINE N == Len(buf)
            wanted(k) == Payload!Number(buf, k) = target
            from(i) == {k \in StartsFrom(buf, i) : wanted(k)}
<1>0. N \in Nat
  OBVIOUS
<1>a. PICK P : P = Seq(Nat)
  OBVIOUS
<1>b. PICK scan \in [1 .. N + 1 -> Seq(P)] : ScansAll(buf, target, scan)
  BY <1>a, AllUnfolds
<1>1. /\ Payload!GetProtoFields(buf, target) = scan[1]
      /\ \A i \in 1 .. N + 1 :
           LET f == Payload!ReadField(buf, i)
           IN  scan[i] = IF i > N \/ f = <<>> THEN <<>>
                         ELSE IF f.number = target
                              THEN <<SubSeq(buf, f.from, f.end - 1)>> \o scan[f.end]
                         ELSE scan[f.end]
  BY <1>b DEF ScansAll
<1>2. PICK b : 1 \in b /\ \A i \in 1 .. N + 1 : i \in b => GoesFrom(buf, b, i)
  BY FieldsGoOn
<1>3. \A i : \A k \in from(i) : k \in 1 .. N /\ k >= i
  BY StartsAre DEF StartsFrom
<1>. HIDE DEF wanted
<1>. DEFINE S == {i \in Nat : i \in b => Payload!AreAll(scan[i], buf, from(i))}
<1>4. ASSUME NEW i \in 1 .. N + 1, \A k \in i + 1 .. N + 1 : k \in S PROVE i \in S
  <2>. SUFFICES ASSUME i \in b PROVE Payload!AreAll(scan[i], buf, from(i))
    BY <1>0
  <2>1. CASE (i = N + 1 \/ Payload!FieldsAt(buf, i) = {}) /\ StartsFrom(buf, i) = {}
    <3>1. from(i) = {}
      BY <2>1
    <3>2. i > N \/ Payload!ReadField(buf, i) = <<>>
      BY <1>0, <2>1, ReadThere
    <3>3. scan[i] = <<>>
      BY <1>1, <3>2
    <3>4. Len(<<>>) = 0 /\ Cardinality({}) = 0
      BY FS_EmptySet
    <3>5. Payload!AreAll(<<>>, buf, {})
      BY <3>4, SamePayloadCount DEF Payload!AreAll
    <3>. QED
      BY <3>1, <3>3, <3>5
  <2>2. ASSUME NEW f, i <= N, Payload!FieldsAt(buf, i) = {f}, f.end \in i + 1 .. N + 1, f.end \in b,
               StartsFrom(buf, i) = {i} \cup StartsFrom(buf, f.end)
        PROVE  Payload!AreAll(scan[i], buf, from(i))
    <3>1. scan[i] = IF wanted(i) THEN <<Payload!PayloadAt(buf, i)>> \o scan[f.end] ELSE scan[f.end]
      <4>1. ~(i > N)
        BY <1>0, <2>2
      <4>. QED
        BY <1>1, <2>2, <4>1, ReadThere DEF wanted
    <3>2. Payload!AreAll(scan[f.end], buf, from(f.end))
      BY <1>4, <2>2
    <3>3. CASE wanted(i)
      <4>1. from(i) = {i} \cup from(f.end)
        BY <2>2, <3>3
      <4>2. from(f.end) \in SUBSET (1 .. N) /\ i \in 1 .. N /\ \A k \in from(f.end) : i < k
        BY <1>0, <1>3, <2>2
      <4>3. Payload!PayloadAt(buf, i) \in P
        <5>1. PICK g : /\ Payload!FieldsAt(buf, i) = {g}
                       /\ g.from \in i + 1 .. N + 1 /\ g.end \in g.from .. N + 1
          BY <2>2, FieldRead
        <5>2. Payload!FieldAt(buf, i) = g
          BY <5>1 DEF Payload!FieldAt
        <5>3. g.from \in 1 .. N + 1
          BY <1>0, <5>1
        <5>4. SubSeq(buf, g.from, g.end - 1) \in P
          BY <1>a, <5>1, <5>3, PieceIs
        <5>. QED
          BY <5>2, <5>4 DEF Payload!PayloadAt
      <4>4. scan[f.end] \in Seq(P)
        BY <1>0, <2>2
      <4>. HIDE DEF from
      <4>5. Payload!AreAll(<<Payload!PayloadAt(buf, i)>> \o scan[f.end], buf, {i} \cup from(f.end))
        BY <1>0, <3>2, <4>2, <4>3, <4>4, OneMore
      <4>. QED
        BY <3>1, <3>3, <4>1, <4>5
    <3>4. CASE ~wanted(i)
      <4>1. from(i) = from(f.end)
        BY <2>2, <3>4
      <4>. HIDE DEF from
      <4>. QED
        BY <3>1, <3>2, <3>4, <4>1
    <3>. QED
      BY <3>3, <3>4
  <2>3. GoesFrom(buf, b, i)
    BY <1>2
  <2>. HIDE DEF from
  <2>. QED
    BY <2>1, <2>2, <2>3 DEF GoesFrom
<1>5. 1 .. N + 1 \subseteq S
  <2>1. 1 \in Nat /\ N + 1 \in Nat
    BY <1>0
  <2>. HIDE DEF S, N
  <2>. QED
    BY <1>4, <2>1, FromTheEnd
<1>6. Payload!AreAll(scan[1], buf, from(1)) /\ scan[1] \in Seq(P)
  <2>1. 1 \in 1 .. N + 1
    BY <1>0
  <2>. HIDE DEF from
  <2>. QED
    BY <1>1, <1>2, <1>5, <2>1
<1>7. from(1) = Payload!Named(buf, target)
  <2>1. StartsFrom(buf, 1) = Payload!Starts(buf)
    BY StartsAre DEF StartsFrom
  <2>. QED
    BY <2>1 DEF wanted, Payload!Named
<1>. QED
  BY <1>1, <1>6, <1>7, <1>a

(* A varint cut out of a blob is a varint, and of the same value.          *)
LEMMA ValueInPiece ==
    ASSUME NEW buf \in Seq(Nat), NEW from \in 1 .. Len(buf) + 1, NEW end \in from .. Len(buf) + 1,
           NEW piece \in Seq(Nat), piece = SubSeq(buf, from, end - 1)
    PROVE  Payload!VarintValue(piece, 1, Len(piece) + 1) = Payload!VarintValue(buf, from, end)
<1>. DEFINE to == end - from + 1
            at(k) == k - from + 1
            S == {k \in Nat : Payload!VarintValue(piece, at(k), to) = Payload!VarintValue(buf, k, end)}
<1>1. Len(piece) = end - from /\ \A k \in 1 .. end - from : piece[k] = buf[from + k - 1]
  BY PieceIs
<1>2. Len(piece) + 1 = to /\ to \in 1 .. Len(piece) + 1 /\ end \in 1 .. Len(buf) + 1
  BY <1>1
<1>3. ASSUME NEW k \in from .. end, \A m \in k + 1 .. end : m \in S PROVE k \in S
  <2>1. CASE k = end
    <3>1. at(k) = to /\ k \in Nat
      BY <2>1
    <3>2. Payload!VarintValue(piece, to, to) = 0
      BY <1>2, ValueIs
    <3>3. Payload!VarintValue(buf, end, end) = 0
      BY <1>2, ValueIs
    <3>. QED
      BY <2>1, <3>1, <3>2, <3>3
  <2>2. CASE k # end
    <3>1. /\ k + 1 \in k + 1 .. end /\ at(k) + 1 = at(k + 1) /\ at(k) \in 1 .. to - 1
          /\ at(k) \in 1 .. end - from /\ k \in 1 .. end - 1 /\ from + at(k) - 1 = k /\ k \in Nat
      BY <2>2
    <3>2. Payload!VarintValue(piece, at(k + 1), to) = Payload!VarintValue(buf, k + 1, end)
      BY <1>3, <3>1
    <3>3. piece[at(k)] = buf[k]
      BY <1>1, <3>1
    <3>. HIDE DEF at, to
    <3>4. Payload!VarintValue(piece, at(k), to) =
            Payload!Digit(piece[at(k)]) + Base * Payload!VarintValue(piece, at(k) + 1, to)
      BY <1>2, <3>1, ValueIs
    <3>5. Payload!VarintValue(buf, k, end) =
            Payload!Digit(buf[k]) + Base * Payload!VarintValue(buf, k + 1, end)
      BY <1>2, <3>1, ValueIs
    <3>. QED
      BY <3>1, <3>2, <3>3, <3>4, <3>5
  <2>. QED
    BY <2>1, <2>2
<1>4. from .. end \subseteq S
  <2>1. from \in Nat /\ end \in Nat
    OBVIOUS
  <2>. HIDE DEF S
  <2>. QED
    BY <1>3, <2>1, FromTheEnd
<1>5. at(from) = 1 /\ from \in from .. end
  OBVIOUS
<1>. QED
  BY <1>2, <1>4, <1>5

LEMMA VarintInPiece ==
    ASSUME NEW buf \in Seq(Nat), NEW from \in 1 .. Len(buf) + 1, NEW end \in from .. Len(buf) + 1,
           from < end, Payload!IsVarint(buf, from, end),
           NEW piece \in Seq(Nat), piece = SubSeq(buf, from, end - 1)
    PROVE  /\ Payload!VarintEnds(piece, 1) # {}
           /\ Payload!ReadVarint(piece, 1) =
                <<Payload!VarintValue(piece, 1, Len(piece) + 1), Len(piece) + 1>>
<1>0. LastGroup \in Nat
  BY PayloadAssumption
<1>1. Len(piece) = end - from /\ \A k \in 1 .. end - from : piece[k] = buf[from + k - 1]
  BY PieceIs
<1>. DEFINE to == Len(piece) + 1
<1>2. to - 1 \in 1 .. end - from /\ from + (to - 1) - 1 = end - 1 /\ to - 1 = end - from
  BY <1>1
<1>3. piece[to - 1] = buf[end - 1]
  BY <1>1, <1>2
<1>4. ASSUME NEW k \in 1 .. to - 2 PROVE Payload!More(piece[k])
  <2>1. k \in 1 .. end - from /\ from + k - 1 \in from .. end - 2
    BY <1>2
  <2>. QED
    BY <1>1, <2>1 DEF Payload!IsVarint
<1>5. to - 1 - 1 <= LastGroup
  BY <1>0, <1>2 DEF Payload!IsVarint
<1>6. Payload!VarintValue(piece, 1, to) < Payload!Limit[LastGroup]
  BY ValueInPiece DEF Payload!IsVarint
<1>7. Payload!IsVarint(piece, 1, to)
  <2>. HIDE DEF to
  <2>. QED
    BY <1>3, <1>4, <1>5, <1>6 DEF Payload!IsVarint
<1>8. to \in Payload!VarintEnds(piece, 1)
  <2>1. to \in 1 + 1 .. Len(piece) + 1
    BY <1>1, <1>2
  <2>. QED
    BY <1>7, <2>1 DEF Payload!VarintEnds
<1>9. PICK j : /\ Payload!VarintEnds(piece, 1) = {j}
               /\ Payload!ReadVarint(piece, 1) = <<Payload!VarintValue(piece, 1, j), j>>
  <2>1. 1 \in 1 .. Len(piece) + 1
    BY <1>1
  <2>. QED
    BY <1>8, <2>1, VarintRead
<1>10. j = to
  BY <1>8, <1>9
<1>. QED
  BY <1>9, <1>10

(* The number in the first of these fields is read, if it is one.          *)
LEMMA NumberFound ==
    ASSUME NEW buf \in Seq(Nat), NEW target, NEW first, first = Payload!Least(Payload!Named(buf, target)),
           Payload!Named(buf, target) # {}, Payload!Type(buf, first) = Varint,
           NEW bytes, bytes = Payload!PayloadAt(buf, first)
    PROVE  Payload!GetVarintField(buf, target) = <<Payload!VarintValue(bytes, 1, Len(bytes) + 1)>>
<1>. DEFINE N == Len(buf)
            fields == Payload!GetProtoFields(buf, target)
<1>1. PICK named : named = Payload!Named(buf, target)
  OBVIOUS
<1>2. named \subseteq 1 .. N /\ named # {} /\ \A i \in named : Payload!FieldsAt(buf, i) # {}
  BY <1>1, StartsAre DEF Payload!Named, Payload!Starts
<1>3. first \in named /\ first \in 1 .. N + 1 /\ \A k \in named : first <= k
  <2>1. named \subseteq Nat
    BY <1>2
  <2>2. PICK l \in named : \A k \in named : l <= k
    BY <1>2, <2>1, LeastNat
  <2>3. Payload!Least(named) = l
    <3>1. l \in Nat /\ \A k \in named : k \in Nat /\ l <= k
      BY <2>1, <2>2
    <3>. QED
      BY <3>1, LeastIs
  <2>4. l \in 1 .. N + 1
    BY <1>2
  <2>. QED
    BY <1>1, <2>2, <2>3, <2>4
<1>4. fields # <<>> /\ fields[1] = bytes
  <2>1. /\ Len(fields) = Cardinality(named)
        /\ fields[Cardinality({j \in named : j <= first})] = bytes
    BY <1>1, <1>3, AllFound, SamePayloadCount DEF Payload!AreAll
  <2>2. {j \in named : j <= first} = {first}
    <3>1. \A j \in named : j <= first <=> j = first
      BY <1>2, <1>3
    <3>. QED
      BY <1>3, <3>1
  <2>3. Cardinality({first}) = 1
    BY FS_Singleton
  <2>4. IsFiniteSet(named)
    <3>1. IsFiniteSet(1 .. N)
      BY FS_Interval
    <3>. QED
      BY <1>2, <3>1, FS_Subset
  <2>5. Cardinality(named) # 0
    BY <1>2, <2>4, FS_EmptySet
  <2>6. Len(<<>>) = 0
    OBVIOUS
  <2>. QED
    BY <2>1, <2>2, <2>3, <2>5, <2>6
<1>5. PICK f : /\ Payload!FieldsAt(buf, first) = {f}
               /\ f.from \in first + 1 .. N + 1 /\ f.end \in f.from .. N + 1
               /\ f.tag % WireTypes = Varint => Payload!IsVarint(buf, f.from, f.end) /\ f.from < f.end
  BY <1>2, <1>3, FieldRead
<1>6. Payload!FieldAt(buf, first) = f
  BY <1>5 DEF Payload!FieldAt
<1>7. bytes = SubSeq(buf, f.from, f.end - 1) /\ f.tag % WireTypes = Varint
  BY <1>6 DEF Payload!PayloadAt, Payload!Type
<1>8. f.from \in 1 .. N + 1
  BY <1>3, <1>5
<1>9. bytes \in Seq(Nat)
  BY <1>5, <1>7, <1>8, PieceIs
<1>10. Payload!ReadVarint(bytes, 1) = <<Payload!VarintValue(bytes, 1, Len(bytes) + 1), Len(bytes) + 1>>
  BY <1>5, <1>7, <1>8, <1>9, VarintInPiece
<1>11. \A a, c : <<a, c>> # <<>> /\ <<a, c>>[1] = a
  OBVIOUS
<1>12. Payload!ReadVarint(fields[1], 1) # <<>>
       /\ Payload!ReadVarint(fields[1], 1)[1] = Payload!VarintValue(bytes, 1, Len(bytes) + 1)
  BY <1>4, <1>10, <1>11
<1>. QED
  BY <1>4, <1>12 DEF Payload!GetVarintField, Payload!None

(* What a text is made of.                                                 *)
LEMMA TextIs ==
    ASSUME NEW buf \in Seq(Nat), NEW target, Payload!FirstText(buf, target) # <<>>
    PROVE  Payload!FirstText(buf, target)[1] \in Seq(Nat)
<1>. DEFINE texts == {i \in Payload!Named(buf, target) : Payload!Type(buf, i) = Delimited}
<1>1. texts # {} /\ Payload!FirstText(buf, target) = <<Payload!PayloadAt(buf, Payload!Least(texts))>>
  BY DEF Payload!FirstText, Payload!None
<1>2. texts \subseteq 1 .. Len(buf) /\ \A i \in texts : Payload!FieldsAt(buf, i) # {}
  BY StartsAre DEF Payload!Named, Payload!Starts
<1>. HIDE DEF texts
<1>3. PICK i \in texts : Payload!Least(texts) = i
  <2>1. texts \subseteq Nat
    BY <1>2
  <2>2. PICK l \in texts : \A k \in texts : l <= k
    BY <1>1, <2>1, LeastNat
  <2>3. l \in Nat /\ \A k \in texts : k \in Nat /\ l <= k
    BY <2>1, <2>2
  <2>4. Payload!Least(texts) = l
    BY <2>3, LeastIs
  <2>. QED
    BY <2>4
<1>4. i \in 1 .. Len(buf) /\ i \in 1 .. Len(buf) + 1 /\ Payload!FieldsAt(buf, i) # {}
  BY <1>2
<1>5. PICK f : /\ Payload!FieldsAt(buf, i) = {f}
               /\ f.from \in i + 1 .. Len(buf) + 1 /\ f.end \in f.from .. Len(buf) + 1
  BY <1>4, FieldRead
<1>6. Payload!FieldAt(buf, i) = f
  BY <1>5 DEF Payload!FieldAt
<1>7. f.from \in 1 .. Len(buf) + 1
  BY <1>4, <1>5
<1>8. SubSeq(buf, f.from, f.end - 1) \in Seq(Nat)
  BY <1>5, <1>7, PieceIs
<1>. QED
  BY <1>1, <1>3, <1>6, <1>8 DEF Payload!PayloadAt

LEMMA BytesAlways == Payload!Spec => [](blob \in Seq(Nat))
<1>1. Payload!Init => blob \in Seq(Nat)
  BY DEF Payload!Init
<1>2. blob \in Seq(Nat) /\ [Payload!Next]_blob => (blob \in Seq(Nat))'
  <2>. SUFFICES ASSUME blob \in Seq(Nat), [Payload!Next]_blob PROVE blob' \in Seq(Nat)
    OBVIOUS
  <2>1. ASSUME NEW byte \in Bytes, Payload!Append1(byte) PROVE blob' \in Seq(Nat)
    <3>1. byte \in Nat /\ blob' = Append(blob, byte)
      BY <2>1, PayloadAssumption DEF Payload!Append1
    <3>. QED
      BY <3>1, AppendIs
  <2>. QED
    BY <2>1 DEF Payload!Next
<1>. QED
  BY <1>1, <1>2, PTL DEF Payload!Spec

(* The scanner finds the fields that are there and no others, of blobs of  *)
(* any length and for groups, values and types of any width                *)
(* (`get_proto_field`, `get_proto_fields`).                                *)
THEOREM ScansRight == Payload!Spec => []ScansByTheFormat
<1>1. ASSUME blob \in Seq(Nat) PROVE ScansByTheFormat
  <2>1. ASSUME NEW target \in Targets
        PROVE  LET named == Payload!Named(blob, target)
                   bytes == Payload!PayloadAt(blob, Payload!Least(named))
                   message == Payload!FirstText(blob, target)
               IN  /\ Payload!AreAll(Payload!GetProtoFields(blob, target), blob, named)
                   /\ Payload!GetProtoField(blob, target) = message
                   /\ named # {} /\ Payload!Type(blob, Payload!Least(named)) = Varint =>
                        Payload!GetVarintField(blob, target) = <<Payload!VarintValue(bytes, 1, Len(bytes) + 1)>>
                   /\ \A inner \in Targets :
                        Payload!Inner(blob, target, inner) =
                            IF message = <<>> THEN <<>> ELSE Payload!FirstText(message[1], inner)
    <3>1. PICK message : message = Payload!FirstText(blob, target)
      OBVIOUS
    <3>2. Payload!GetProtoField(blob, target) = message
      BY <1>1, <3>1, FirstFound
    <3>3. message # <<>> => message[1] \in Seq(Nat)
      BY <1>1, <3>1, TextIs
    <3>4. ASSUME NEW inner \in Targets
          PROVE  Payload!Inner(blob, target, inner) =
                   IF message = <<>> THEN <<>> ELSE Payload!FirstText(message[1], inner)
      <4>1. message # <<>> => Payload!GetProtoField(message[1], inner) = Payload!FirstText(message[1], inner)
        BY <3>3, FirstFound
      <4>. QED
        BY <3>2, <4>1 DEF Payload!Inner, Payload!None
    <3>5. Payload!AreAll(Payload!GetProtoFields(blob, target), blob, Payload!Named(blob, target))
      BY <1>1, AllFound
    <3>. QED
      BY <1>1, <3>1, <3>2, <3>4, <3>5, NumberFound
  <2>. QED
    BY <2>1 DEF ScansByTheFormat, Payload!ScansByTheFormat, Payload!None
<1>. QED
  BY <1>1, BytesAlways, PTL
=============================================================================
