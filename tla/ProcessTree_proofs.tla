-------------------------- MODULE ProcessTree_proofs --------------------------
(***************************************************************************)
(* Theorems about ProcessTree, for any number of processes and of scans:   *)
(* whatever the walk has stopped it kills, and a scan of the table that    *)
(* found nothing new has missed nobody.                                    *)
(***************************************************************************)
EXTENDS ProcessTree, FiniteSetTheorems, WellFoundedInduction, TLAPS

-----------------------------------------------------------------------------
(* Type correctness *)

LEMMA TypeInit == Init => TypeOK
<1>. SUFFICES ASSUME Init PROVE TypeOK
  OBVIOUS
<1>1. Root \in Pids /\ 1 \in 1 .. MaxPid + 1 /\ 0 \in 0 .. MaxScans
  BY TreeAssumption DEF Pids
<1>2. parent \in [Pids -> Pids \cup {NoPid}]
  BY DEF Init
<1>. QED
  BY <1>1, <1>2 DEF Init, TypeOK, Pcs

LEMMA TreeTyped ==
    ASSUME TypeOK, Tree
    PROVE  TypeOK'
<1>. USE DEF TypeOK, killerVars
<1>1. ASSUME NEW p \in Pids, Exit(p) PROVE TypeOK'
  <2>1. parent' \in [Pids -> Pids \cup {NoPid}]
    BY <1>1 DEF Exit, Orphaned
  <2>. QED
    BY <1>1, <2>1 DEF Exit, Running
<1>2. ASSUME NEW p \in Pids, NEW c \in Pids, Fork(p, c) PROVE TypeOK'
  <2>1. parent' \in [Pids -> Pids \cup {NoPid}]
    BY <1>2 DEF Fork
  <2>. QED
    BY <1>2, <2>1 DEF Fork
<1>. QED
  BY <1>1, <1>2 DEF Tree

LEMMA KillerTyped ==
    ASSUME TypeOK, Killer
    PROVE  TypeOK'
<1>. USE TreeAssumption DEF TypeOK, treeVars, Pids, Pcs
<1>1. CASE StartWalk
  BY <1>1 DEF StartWalk, Suspend
<1>2. CASE ReadEntry
  <2>1. cursor \in Pids /\ <<cursor, parent[cursor]>> \in Pids \X (Pids \cup {NoPid})
    BY <1>2 DEF ReadEntry
  <2>2. table' \subseteq Pids \X (Pids \cup {NoPid})
    BY <1>2, <2>1 DEF ReadEntry
  <2>3. cursor' \in 1 .. MaxPid + 1
    BY <1>2, <2>1 DEF ReadEntry
  <2>4. UNCHANGED <<alive, used, parent, suspended, pc, stopped, foundNew, scans>>
    BY <1>2 DEF ReadEntry
  <2>. QED
    BY <2>2, <2>3, <2>4
<1>3. CASE FinishTable \/ TableFails
  BY <1>3 DEF FinishTable, TableFails
<1>4. CASE EndScan
  <2>1. /\ scans' \in 0 .. MaxScans /\ cursor' \in 1 .. MaxPid + 1 /\ foundNew' \in BOOLEAN
        /\ pc' \in {"read", "kill"} /\ (table' = {} \/ table' = table)
    <3>1. CASE ScanAgain
      <4>1. /\ pc' = "read" /\ scans' = scans + 1 /\ foundNew' = FALSE /\ cursor' = 1 /\ table' = {}
            /\ scans < MaxScans
        BY <1>4, <3>1 DEF EndScan, ScanAgain
      <4>2. scans + 1 \in 0 .. MaxScans /\ 1 \in 1 .. MaxPid + 1
        BY <4>1
      <4>. QED
        BY <4>1, <4>2
    <3>2. CASE ~ScanAgain
      BY <1>4, <3>2 DEF EndScan
    <3>. QED
      BY <3>1, <3>2
  <2>2. UNCHANGED <<alive, used, parent, suspended, stopped>>
    BY <1>4 DEF EndScan
  <2>. QED
    BY <2>1, <2>2
<1>5. ASSUME NEW p \in Pids, StopFound(p) PROVE TypeOK'
  BY <1>5 DEF StopFound, Suspend
<1>6. ASSUME NEW p \in Pids, Kill(p) PROVE TypeOK'
  <2>1. parent' \in [Pids -> Pids \cup {NoPid}]
    BY <1>6 DEF Kill, Orphaned
  <2>2. alive' \subseteq used /\ suspended' \subseteq alive' /\ stopped' \subseteq Pids
    BY <1>6 DEF Kill
  <2>3. pc' \in Pcs /\ UNCHANGED <<used, cursor, table, foundNew, scans>>
    BY <1>6 DEF Kill
  <2>. QED
    BY <2>1, <2>2, <2>3
<1>. QED
  BY <1>1, <1>2, <1>3, <1>4, <1>5, <1>6 DEF Killer

LEMMA TypeNext == TypeOK /\ [Next]_vars => TypeOK'
<1>. SUFFICES ASSUME TypeOK, [Next]_vars PROVE TypeOK'
  OBVIOUS
<1>1. CASE UNCHANGED vars
  BY <1>1 DEF vars, treeVars, killerVars, TypeOK
<1>. QED
  BY <1>1, TreeTyped, KillerTyped DEF Next

(* The processes, the table and the killer's set keep their types.         *)
THEOREM TypeCorrect == Spec => []TypeOK
BY TypeInit, TypeNext, PTL DEF Spec

-----------------------------------------------------------------------------
(* Nobody is left suspended *)

(* Whoever is suspended is still going to be killed, and agy is the last.  *)
StoppedInv ==
    /\ suspended \subseteq stopped
    /\ Root \in used
    /\ pc = "idle" => suspended = {}
    /\ pc \in {"read", "stop", "kill"} => Root \in stopped
    /\ pc = "done" => stopped = {} /\ Root \notin alive

LEMMA StoppedNext == TypeOK /\ StoppedInv /\ [Next]_vars => StoppedInv'
<1>. SUFFICES ASSUME TypeOK, StoppedInv, [Next]_vars PROVE StoppedInv'
  OBVIOUS
<1>. USE DEF StoppedInv, treeVars, killerVars
<1>1. ASSUME NEW p \in Pids, Exit(p) \/ \E c \in Pids : Fork(p, c) PROVE StoppedInv'
  BY <1>1 DEF Exit, Fork
<1>2. CASE StartWalk
  BY <1>2 DEF StartWalk, Suspend
<1>3. CASE ReadEntry \/ FinishTable \/ TableFails
  BY <1>3 DEF ReadEntry, FinishTable, TableFails
<1>4. CASE EndScan
  BY <1>4 DEF EndScan
<1>5. ASSUME NEW p \in Pids, StopFound(p) PROVE StoppedInv'
  BY <1>5 DEF StopFound, Suspend
<1>6. ASSUME NEW p \in Pids, Kill(p) PROVE StoppedInv'
  <2>1. /\ pc = "kill" /\ Root \in stopped /\ p \in stopped /\ stopped' = stopped \ {p}
        /\ alive' = alive \ {p} /\ suspended' = suspended \ {p} /\ UNCHANGED used
        /\ pc' = IF stopped = {p} THEN "done" ELSE "kill"
    BY <1>6 DEF Kill, ToKill
  <2>2. CASE stopped = {p}
    BY <2>1, <2>2
  <2>3. CASE stopped # {p}
    <3>1. p # Root
      BY <1>6, <2>1, <2>3 DEF Kill, ToKill
    <3>. QED
      BY <2>1, <2>3, <3>1
  <2>. QED
    BY <2>2, <2>3
<1>7. CASE UNCHANGED vars
  BY <1>7 DEF vars
<1>. QED
  BY <1>1, <1>2, <1>3, <1>4, <1>5, <1>6, <1>7 DEF Next, Tree, Killer

(* "a stop that never reached its kill would leave processes suspended":   *)
(* when the walk is over nobody is, however it ended, and agy is dead.     *)
THEOREM NothingSuspended == Spec => []NobodyIsLeftSuspended
<1>1. Init => StoppedInv
  BY DEF Init, StoppedInv
<1>2. StoppedInv => NobodyIsLeftSuspended
  BY DEF StoppedInv, NobodyIsLeftSuspended
<1>. QED
  BY <1>1, <1>2, TypeInit, TypeNext, StoppedNext, PTL DEF Spec

-----------------------------------------------------------------------------
(* Induction over the levels of a table *)

(* A set of naturals that is not empty has a least element.                *)
LEMMA LeastNat ==
    ASSUME NEW T, T \subseteq Nat, T # {}
    PROVE  \E n \in T : \A m \in T : n <= m
<1>. DEFINE R == {ss \in Nat \X Nat : ss[1] < ss[2]}
<1>1. R = OpToRel(<, Nat)
  BY DEF OpToRel
<1>2. IsWellFoundedOn(R, Nat)
  BY <1>1, NatLessThanWellFounded
<1>3. PICK x \in T : \A y \in T : ~ (<<y, x>> \in R)
  BY <1>2, WFMin
<1>4. \A a, b \in Nat : a < b => <<a, b>> \in R
  <2>. TAKE a, b \in Nat
  <2>. HAVE a < b
  <2>1. <<a, b>> \in Nat \X Nat /\ <<a, b>>[1] = a /\ <<a, b>>[2] = b
    OBVIOUS
  <2>. QED
    BY <2>1
<1>. HIDE DEF R
<1>5. \A y \in T : ~(y < x)
  BY <1>3, <1>4
<1>. QED
  BY <1>3, <1>5

(* A set that holds 0 and with every number the next holds them all.       *)
LEMMA SetInduction ==
    ASSUME NEW S, 0 \in S, \A n \in Nat : n \in S => n + 1 \in S
    PROVE  Nat \subseteq S
<1>. SUFFICES ASSUME Nat \ S # {} PROVE FALSE
  OBVIOUS
<1>1. PICK n \in Nat \ S : \A m \in Nat \ S : n <= m
  BY LeastNat
<1>2. n # 0 /\ n - 1 \in Nat /\ n - 1 \in S
  BY <1>1
<1>. QED
  BY <1>1, <1>2

(* A function given by its first value and by each from the one before.    *)
Iterates(f, G, base, X, N) ==
    f \in [0 .. N -> X] /\ f[0] = base /\ \A n \in 1 .. N : f[n] = G[f[n - 1]]

LEMMA RecursionExists ==
    ASSUME NEW X, NEW base \in X, NEW G \in [X -> X], NEW N \in Nat
    PROVE  \E f : Iterates(f, G, base, X, N)
<1>. DEFINE S == {k \in Nat : \E f : Iterates(f, G, base, X, k)}
<1>1. 0 \in S
  <2>1. [n \in 0 .. 0 |-> base] \in [0 .. 0 -> X] /\ [n \in 0 .. 0 |-> base][0] = base
    OBVIOUS
  <2>2. \A n \in 1 .. 0 : FALSE
    OBVIOUS
  <2>3. Iterates([n \in 0 .. 0 |-> base], G, base, X, 0)
    BY <2>1, <2>2 DEF Iterates
  <2>. QED
    BY <2>3
<1>2. ASSUME NEW k \in Nat, k \in S PROVE k + 1 \in S
  <2>1. PICK f : Iterates(f, G, base, X, k)
    BY <1>2
  <2>2. f \in [0 .. k -> X] /\ f[0] = base /\ \A n \in 1 .. k : f[n] = G[f[n - 1]]
    BY <2>1 DEF Iterates
  <2>. DEFINE g == [n \in 0 .. k + 1 |-> IF n = k + 1 THEN G[f[k]] ELSE f[n]]
  <2>3. k \in 0 .. k /\ 0 \in 0 .. k + 1 /\ 0 # k + 1
    OBVIOUS
  <2>4. g \in [0 .. k + 1 -> X] /\ g[0] = base
    BY <2>2, <2>3
  <2>5. ASSUME NEW n \in 1 .. k + 1 PROVE g[n] = G[g[n - 1]]
    <3>1. n \in 0 .. k + 1 /\ n - 1 \in 0 .. k + 1 /\ n - 1 # k + 1 /\ (n = k + 1 => n - 1 = k)
          /\ (n # k + 1 => n \in 1 .. k)
      OBVIOUS
    <3>. QED
      BY <2>2, <3>1
  <2>6. Iterates(g, G, base, X, k + 1)
    BY <2>4, <2>5 DEF Iterates
  <2>. QED
    BY <2>6
<1>. HIDE DEF S
<1>3. N \in S
  BY <1>1, <1>2, SetInduction
<1>. QED
  BY <1>3 DEF S

-----------------------------------------------------------------------------
(* What the killer finds in a table *)

(* One more level of the table, and the levels as Descendants computes     *)
(* them.                                                                   *)
Level(A) == A \cup {e[1] : e \in {x \in table : x[2] \in A}}

Below ==
    CHOOSE f : f = [n \in 0 .. MaxPid |->
      IF n = 0 THEN {Root}
      ELSE LET above == f[n - 1] IN above \cup {e[1] : e \in {x \in table : x[2] \in above}}]

LEMMA BelowIs ==
    ASSUME TypeOK
    PROVE  /\ Descendants = Below[MaxPid] \ {Root}
           /\ Below[0] = {Root}
           /\ \A n \in 1 .. MaxPid : Below[n] = Level(Below[n - 1])
<1>. DEFINE G == [A \in SUBSET Pids |-> Level(A)]
            F(f) == [n \in 0 .. MaxPid |->
                       IF n = 0 THEN {Root}
                       ELSE LET above == f[n - 1]
                            IN  above \cup {e[1] : e \in {x \in table : x[2] \in above}}]
<1>1. G \in [SUBSET Pids -> SUBSET Pids]
  <2>1. \A e \in table : e[1] \in Pids
    BY DEF TypeOK
  <2>. QED
    BY <2>1 DEF Level
<1>2. {Root} \in SUBSET Pids /\ MaxPid \in Nat
  BY TreeAssumption DEF Pids
<1>. HIDE DEF G
<1>3. PICK f \in [0 .. MaxPid -> SUBSET Pids] :
         f[0] = {Root} /\ \A n \in 1 .. MaxPid : f[n] = G[f[n - 1]]
  <2>1. PICK X, a : X = SUBSET Pids /\ a = {Root}
    OBVIOUS
  <2>2. a \in X /\ G \in [X -> X] /\ MaxPid \in Nat
    BY <1>1, <1>2, <2>1
  <2>3. \E f : Iterates(f, G, a, X, MaxPid)
    BY <2>2, RecursionExists
  <2>. QED
    BY <2>1, <2>3 DEF Iterates
<1>4. f = F(f)
  <2>1. ASSUME NEW n \in 0 .. MaxPid PROVE f[n] = F(f)[n]
    <3>1. CASE n = 0
      BY <1>3, <3>1
    <3>2. CASE n # 0
      <4>1. n \in 1 .. MaxPid /\ n - 1 \in 0 .. MaxPid
        BY <1>2, <3>2
      <4>2. f[n] = Level(f[n - 1])
        BY <1>3, <4>1 DEF G
      <4>. QED
        BY <3>2, <4>2 DEF Level
    <3>. QED
      BY <3>1, <3>2
  <2>. QED
    BY <1>3, <2>1
<1>5. Below = F(Below)
  BY <1>4 DEF Below
<1>6. Below[0] = {Root}
  BY <1>2, <1>5
<1>7. ASSUME NEW n \in 1 .. MaxPid PROVE Below[n] = Level(Below[n - 1])
  <2>1. n \in 0 .. MaxPid /\ n # 0
    BY <1>2
  <2>2. F(Below)[n] = Level(Below[n - 1])
    BY <2>1 DEF Level
  <2>. QED
    BY <1>5, <2>2
<1>8. Descendants = Below[MaxPid] \ {Root}
  BY DEF Descendants, Below
<1>. QED
  BY <1>6, <1>7, <1>8

(* Each level holds a pid more than the one before until a level adds      *)
(* nothing: with as many levels as there are pids nothing is left out.     *)
LEMMA DescendantsAreClosed ==
    ASSUME TypeOK
    PROVE  /\ Descendants \cup {Root} \subseteq Pids
           /\ Descendants \subseteq {e[1] : e \in table}
           /\ \A e \in table : e[2] \in Descendants \cup {Root} => e[1] \in Descendants \cup {Root}
<1>. DEFINE B == Below
            Ok(n) == /\ B[n] \subseteq Pids /\ Root \in B[n]
                     /\ B[n] \subseteq {Root} \cup {e[1] : e \in table}
                     /\ Cardinality(B[n]) >= n + 1 \/ Level(B[n]) = B[n]
            S == {n \in Nat : n <= MaxPid => Ok(n)}
<1>1. MaxPid \in Nat /\ Root \in Pids /\ \A e \in table : e[1] \in Pids
  BY TreeAssumption DEF Pids, TypeOK
<1>2. B[0] = {Root} /\ \A n \in 1 .. MaxPid : B[n] = Level(B[n - 1])
  BY BelowIs
<1>. HIDE DEF B
<1>3. \A A : A \subseteq Pids => IsFiniteSet(A) /\ Cardinality(A) \in Nat /\ Cardinality(A) <= MaxPid
  <2>1. IsFiniteSet(Pids) /\ Cardinality(Pids) = MaxPid
    <3>1. IsFiniteSet(1 .. MaxPid) /\ Cardinality(1 .. MaxPid) = IF 1 > MaxPid THEN 0 ELSE MaxPid - 1 + 1
      BY <1>1, FS_Interval
    <3>. QED
      BY <1>1, <3>1 DEF Pids
  <2>. QED
    BY <2>1, FS_Subset, FS_CardinalityType
<1>4. 0 \in S
  <2>1. Cardinality(B[0]) = 1
    BY <1>2, FS_Singleton
  <2>. QED
    BY <1>1, <1>2, <2>1
<1>5. ASSUME NEW n \in Nat, n \in S PROVE n + 1 \in S
  <2>. SUFFICES ASSUME n + 1 <= MaxPid PROVE Ok(n + 1)
    OBVIOUS
  <2>1. n + 1 \in 1 .. MaxPid /\ (n + 1) - 1 = n /\ Ok(n)
    BY <1>1, <1>5
  <2>2. B[n + 1] = Level(B[n])
    BY <1>2, <2>1
  <2>3. /\ B[n] \subseteq B[n + 1] /\ B[n + 1] \subseteq Pids
        /\ B[n + 1] \subseteq {Root} \cup {e[1] : e \in table}
    BY <1>1, <2>1, <2>2 DEF Level
  <2>4. CASE Level(B[n]) = B[n]
    BY <2>1, <2>2, <2>3, <2>4
  <2>5. CASE Level(B[n]) # B[n]
    <3>1. Cardinality(B[n]) >= n + 1 /\ B[n] # B[n + 1]
      BY <2>1, <2>2, <2>5
    <3>2. IsFiniteSet(B[n + 1]) /\ Cardinality(B[n + 1]) \in Nat /\ Cardinality(B[n]) \in Nat
      BY <1>3, <2>1, <2>3
    <3>3. Cardinality(B[n]) < Cardinality(B[n + 1])
      BY <2>3, <3>1, <3>2, FS_Subset
    <3>4. Cardinality(B[n + 1]) >= (n + 1) + 1
      BY <3>1, <3>2, <3>3
    <3>. QED
      BY <2>1, <2>3, <3>4
  <2>. QED
    BY <2>4, <2>5
<1>. HIDE DEF S
<1>6. MaxPid \in S
  BY <1>1, <1>4, <1>5, SetInduction
<1>7. Ok(MaxPid)
  BY <1>1, <1>6 DEF S
<1>8. Level(B[MaxPid]) = B[MaxPid]
  BY <1>1, <1>3, <1>7
<1>9. Descendants = B[MaxPid] \ {Root} /\ Descendants \cup {Root} = B[MaxPid]
  <2>1. Descendants = B[MaxPid] \ {Root}
    BY BelowIs DEF B
  <2>. QED
    BY <1>7, <2>1
<1>10. ASSUME NEW e \in table, e[2] \in B[MaxPid] PROVE e[1] \in B[MaxPid]
  BY <1>8, <1>10 DEF Level
<1>. QED
  BY <1>7, <1>9, <1>10

(* Whoever is linked to agy is in every set that holds agy, if it lives,   *)
(* and the children of its members.                                        *)
Walled(L) == {Root} \cap alive \subseteq L /\ \A c \in alive : parent[c] \in L => c \in L

LinkedBelow ==
    CHOOSE f : f = [n \in 0 .. MaxPid |->
      IF n = 0 THEN {Root} \cap alive
      ELSE LET above == f[n - 1] IN above \cup {p \in alive : parent[p] \in above}]

LEMMA LinkedIsWalled ==
    ASSUME TypeOK, NEW L, Walled(L)
    PROVE  Linked \subseteq L \cap alive
<1>. DEFINE G == [A \in SUBSET Pids |-> A \cup {p \in alive : parent[p] \in A}]
            F(f) == [n \in 0 .. MaxPid |->
                       IF n = 0 THEN {Root} \cap alive
                       ELSE LET above == f[n - 1] IN above \cup {p \in alive : parent[p] \in above}]
            B == LinkedBelow
            S == {n \in Nat : n <= MaxPid => B[n] \subseteq L \cap alive}
<1>1. MaxPid \in Nat /\ alive \subseteq Pids
  BY TreeAssumption DEF TypeOK
<1>2. G \in [SUBSET Pids -> SUBSET Pids] /\ {Root} \cap alive \in SUBSET Pids
  BY <1>1
<1>. HIDE DEF G
<1>3. PICK f \in [0 .. MaxPid -> SUBSET Pids] :
         f[0] = {Root} \cap alive /\ \A n \in 1 .. MaxPid : f[n] = G[f[n - 1]]
  <2>1. PICK X, a : X = SUBSET Pids /\ a = {Root} \cap alive
    OBVIOUS
  <2>2. a \in X /\ G \in [X -> X] /\ MaxPid \in Nat
    BY <1>1, <1>2, <2>1
  <2>3. \E f : Iterates(f, G, a, X, MaxPid)
    BY <2>2, RecursionExists
  <2>. QED
    BY <2>1, <2>3 DEF Iterates
<1>4. f = F(f)
  <2>1. ASSUME NEW n \in 0 .. MaxPid PROVE f[n] = F(f)[n]
    <3>1. CASE n = 0
      BY <1>3, <3>1
    <3>2. CASE n # 0
      <4>1. n \in 1 .. MaxPid /\ n - 1 \in 0 .. MaxPid
        BY <1>1, <3>2
      <4>2. f[n] = f[n - 1] \cup {p \in alive : parent[p] \in f[n - 1]}
        BY <1>3, <4>1 DEF G
      <4>. QED
        BY <3>2, <4>2
    <3>. QED
      BY <3>1, <3>2
  <2>. QED
    BY <1>3, <2>1
<1>5. B = F(B)
  BY <1>4 DEF LinkedBelow
<1>. HIDE DEF B
<1>6. 0 \in S
  <2>1. 0 \in 0 .. MaxPid
    BY <1>1
  <2>2. B[0] = {Root} \cap alive
    BY <1>5, <2>1
  <2>. QED
    BY <2>2 DEF Walled
<1>7. ASSUME NEW n \in Nat, n \in S PROVE n + 1 \in S
  <2>. SUFFICES ASSUME n + 1 <= MaxPid PROVE B[n + 1] \subseteq L \cap alive
    OBVIOUS
  <2>1. n + 1 \in 0 .. MaxPid /\ n + 1 # 0 /\ (n + 1) - 1 = n /\ B[n] \subseteq L \cap alive
    BY <1>1, <1>7
  <2>2. F(B)[n + 1] = B[n] \cup {p \in alive : parent[p] \in B[n]}
    BY <2>1
  <2>. QED
    BY <1>5, <2>1, <2>2 DEF Walled
<1>. HIDE DEF S
<1>8. MaxPid \in S
  BY <1>1, <1>6, <1>7, SetInduction
<1>9. Linked = B[MaxPid]
  BY DEF Linked, LinkedBelow, B
<1>. QED
  BY <1>1, <1>8, <1>9 DEF S

-----------------------------------------------------------------------------
(* A quiet scan misses nothing *)

(* Whoever was stopped can neither fork nor leave, so the children it has  *)
(* were there before the scan began: those the reader has passed are in    *)
(* the table, unless something was stopped since.  When the scan ends the  *)
(* descendants in it wall in everything still linked to agy.               *)
QuietInv ==
    /\ Root \in used /\ stopped \subseteq used /\ \A e \in table : e[1] \in used
    /\ stopped \cap alive \subseteq suspended
    /\ pc = "idle" => cursor = 1 /\ stopped = {}
    /\ pc \in {"read", "stop", "kill"} => Root \in stopped
    /\ pc \in {"idle", "read"} => ~foundNew
    /\ pc = "stop" => cursor > MaxPid
    /\ ~foundNew =>
         \A c \in alive : parent[c] \in stopped /\ c < cursor => <<c, parent[c]>> \in table
    /\ pc = "kill" /\ ~foundNew /\ cursor > MaxPid => \E L \in SUBSET stopped : Walled(L)

LEMMA QuietInit == Init => QuietInv
  BY DEF Init, QuietInv

(* The tree forks and exits: only those not stopped do.                    *)
LEMMA QuietTree == ASSUME TypeOK, QuietInv, Tree PROVE QuietInv'
<1>. DEFINE Seen == \A c \in alive : parent[c] \in stopped /\ c < cursor => <<c, parent[c]>> \in table
<1>1. UNCHANGED killerVars /\ suspended' = suspended
  BY DEF Tree, Exit, Fork
<1>2. UNCHANGED <<pc, cursor, table, stopped, foundNew, scans>>
  BY <1>1 DEF killerVars
<1>0. stopped \subseteq Pids /\ NoPid \notin Pids /\ stopped \cap alive \subseteq suspended
      /\ stopped \subseteq used
  BY DEF TypeOK, QuietInv, Pids, NoPid
<1>3. ASSUME NEW p \in Pids, Exit(p) PROVE QuietInv'
  <2>1. /\ alive' = alive \ {p} /\ used' = used /\ p \notin suspended /\ p \in alive
        /\ \A c \in Pids : parent'[c] = parent[c] \/ parent'[c] = NoPid
    BY <1>3 DEF Exit, Orphaned, Running
  <2>2. alive \subseteq Pids
    BY DEF TypeOK
  <2>3. Seen => Seen'
    BY <1>0, <1>2, <2>1, <2>2
  <2>4. ASSUME NEW L \in SUBSET stopped, Walled(L) PROVE Walled(L)'
    BY <1>0, <2>1, <2>2, <2>4 DEF Walled
  <2>5. stopped' \cap alive' \subseteq suspended'
    BY <1>0, <1>1, <1>2, <2>1
  <2>. QED
    BY <1>2, <2>1, <2>3, <2>4, <2>5 DEF QuietInv
<1>4. ASSUME NEW p \in Pids, NEW c \in Pids, Fork(p, c) PROVE QuietInv'
  <2>1. /\ alive' = alive \cup {c} /\ used' = used \cup {c} /\ c \notin used
        /\ p \in alive /\ p \notin suspended /\ parent'[c] = p
        /\ \A x \in Pids \ {c} : parent'[x] = parent[x]
    BY <1>4 DEF Fork, Running, TypeOK
  <2>2. alive \subseteq Pids /\ alive \subseteq used
    BY DEF TypeOK
  <2>3. p \notin stopped /\ c \notin stopped /\ c \notin alive
    BY <1>0, <2>1, <2>2
  <2>4. Seen => Seen'
    BY <1>2, <2>1, <2>2, <2>3
  <2>5. ASSUME NEW L \in SUBSET stopped, Walled(L) PROVE Walled(L)'
    <3>1. c # Root
      BY <2>1 DEF QuietInv
    <3>. QED
      BY <2>1, <2>2, <2>3, <2>5, <3>1 DEF Walled
  <2>6. stopped' \cap alive' \subseteq suspended'
    BY <1>0, <1>1, <1>2, <2>1, <2>3
  <2>. QED
    BY <1>2, <2>1, <2>4, <2>5, <2>6 DEF QuietInv
<1>. QED
  BY <1>3, <1>4 DEF Tree

LEMMA QuietKiller == ASSUME TypeOK, QuietInv, Killer PROVE QuietInv'
<1>0. /\ stopped \subseteq Pids /\ NoPid \notin Pids /\ alive \subseteq Pids /\ alive \subseteq used
      /\ MaxPid \in Nat /\ MaxPid >= 1 /\ cursor \in Nat
  BY TreeAssumption DEF TypeOK, Pids, NoPid
<1>1. CASE StartWalk
  <2>1. /\ pc = "idle" /\ suspended' = (suspended \cup {Root}) \cap alive /\ stopped' = {Root}
        /\ pc' = "read" /\ UNCHANGED <<alive, used, parent, cursor, table, foundNew>>
    BY <1>1 DEF StartWalk, Suspend
  <2>2. cursor = 1 /\ ~foundNew
    BY <2>1 DEF QuietInv
  <2>3. \A c \in alive : ~(c < cursor')
    BY <1>0, <2>1, <2>2 DEF Pids
  <2>. QED
    BY <2>1, <2>2, <2>3 DEF QuietInv
<1>2. CASE ReadEntry
  <2>1. /\ pc = "read" /\ cursor' = cursor + 1
        /\ table' = IF cursor \in alive THEN table \cup {<<cursor, parent[cursor]>>} ELSE table
        /\ UNCHANGED <<alive, used, parent, suspended, pc, stopped, foundNew>>
    BY <1>2 DEF ReadEntry, treeVars
  <2>2. \A c \in alive : c < cursor' => c < cursor \/ c = cursor
    BY <1>0, <2>1 DEF Pids
  <2>3. ~foundNew' => \A c \in alive' : parent'[c] \in stopped' /\ c < cursor'
                        => <<c, parent'[c]>> \in table'
    BY <2>1, <2>2 DEF QuietInv
  <2>4. \A e \in table' : e[1] \in used'
    BY <1>0, <2>1 DEF QuietInv
  <2>. QED
    BY <2>1, <2>3, <2>4 DEF QuietInv
<1>3. CASE FinishTable
  BY <1>3 DEF FinishTable, treeVars, QuietInv
<1>4. CASE TableFails
  <2>1. /\ pc = "read" /\ cursor = 1 /\ pc' = "kill"
        /\ UNCHANGED <<alive, used, parent, suspended, cursor, table, stopped, foundNew>>
    BY <1>4 DEF TableFails, treeVars
  <2>2. ~(cursor' > MaxPid)
    BY <1>0, <2>1
  <2>. QED
    BY <2>1, <2>2 DEF QuietInv
<1>5. CASE EndScan
  <2>1. /\ pc = "stop" /\ Descendants \subseteq stopped /\ cursor > MaxPid /\ Root \in stopped
        /\ UNCHANGED <<alive, used, parent, suspended, stopped>>
    BY <1>5 DEF EndScan, treeVars, QuietInv
  <2>2. CASE ScanAgain
    <3>1. pc' = "read" /\ foundNew' = FALSE /\ cursor' = 1 /\ table' = {}
      BY <1>5, <2>2 DEF EndScan
    <3>2. \A c \in alive' : ~(c < cursor')
      BY <1>0, <2>1, <3>1 DEF Pids
    <3>. QED
      BY <2>1, <3>1, <3>2 DEF QuietInv
  <2>3. CASE ~ScanAgain
    <3>1. pc' = "kill" /\ UNCHANGED <<foundNew, cursor, table>>
      BY <1>5, <2>3 DEF EndScan
    <3>2. ASSUME ~foundNew PROVE \E L \in SUBSET stopped : Walled(L)
      <4>. DEFINE L == Descendants \cup {Root}
      <4>1. /\ L \subseteq Pids /\ \A e \in table : e[2] \in L => e[1] \in L
        BY DescendantsAreClosed
      <4>2. L \subseteq stopped /\ Root \in L
        BY <2>1
      <4>. HIDE DEF L
      <4>3. ASSUME NEW c \in alive, parent[c] \in L PROVE c \in L
        <5>1. c < cursor /\ parent[c] \in stopped
          <6>1. c \in 1 .. MaxPid
            BY <1>0 DEF Pids
          <6>2. c < cursor
            BY <1>0, <2>1, <6>1
          <6>. QED
            BY <4>2, <4>3, <6>2
        <5>2. <<c, parent[c]>> \in table
          BY <3>2, <5>1 DEF QuietInv
        <5>. QED
          BY <4>1, <4>3, <5>2
      <4>. QED
        BY <4>2, <4>3 DEF Walled
    <3>3. \A L : Walled(L)' <=> Walled(L)
      BY <2>1 DEF Walled
    <3>. QED
      BY <2>1, <3>1, <3>2, <3>3 DEF QuietInv
  <2>. QED
    BY <2>2, <2>3
<1>6. ASSUME NEW p \in Pids, StopFound(p) PROVE QuietInv'
  <2>1. /\ pc = "stop" /\ p \in Descendants /\ stopped' = stopped \cup {p} /\ foundNew' = TRUE
        /\ suspended' = (suspended \cup {p}) \cap alive
        /\ UNCHANGED <<alive, used, parent, pc, cursor, table>>
    BY <1>6 DEF StopFound, Suspend
  <2>2. p \in used
    BY <2>1, DescendantsAreClosed DEF QuietInv
  <2>. QED
    BY <2>1, <2>2 DEF QuietInv
<1>7. ASSUME NEW p \in Pids, Kill(p) PROVE QuietInv'
  <2>1. /\ pc = "kill" /\ p \in stopped /\ (p # Root \/ stopped = {p})
        /\ alive' = alive \ {p} /\ suspended' = suspended \ {p} /\ stopped' = stopped \ {p}
        /\ pc' = IF stopped = {p} THEN "done" ELSE "kill"
        /\ UNCHANGED <<used, cursor, table, foundNew>>
        /\ \A c \in Pids : parent'[c] = parent[c] \/ parent'[c] = NoPid
    BY <1>7 DEF Kill, ToKill, Orphaned, QuietInv
  <2>2. ASSUME NEW L \in SUBSET stopped, Walled(L)
        PROVE  \E K \in SUBSET stopped' : Walled(K)'
    <3>1. L \ {p} \in SUBSET stopped'
      BY <2>1
    <3>2. Root \in alive' => Root \in L \ {p}
      BY <2>1, <2>2 DEF Walled
    <3>3. ASSUME NEW c \in alive', parent'[c] \in L \ {p} PROVE c \in L \ {p}
      <4>1. c \in alive /\ c # p /\ parent[c] \in L
        BY <1>0, <2>1, <3>3
      <4>. QED
        BY <2>2, <4>1 DEF Walled
    <3>4. PICK K : K = L \ {p}
      OBVIOUS
    <3>5. Walled(K)'
      BY <3>2, <3>3, <3>4 DEF Walled
    <3>. QED
      BY <3>1, <3>4, <3>5
  <2>3. pc' = "kill" => Root \in stopped'
    BY <2>1 DEF QuietInv
  <2>4. ~foundNew' => \A c \in alive' : parent'[c] \in stopped' /\ c < cursor'
                        => <<c, parent'[c]>> \in table'
    BY <1>0, <2>1 DEF QuietInv
  <2>. QED
    BY <2>1, <2>2, <2>3, <2>4 DEF QuietInv
<1>. QED
  BY <1>1, <1>2, <1>3, <1>4, <1>5, <1>6, <1>7 DEF Killer

LEMMA QuietNext == TypeOK /\ QuietInv /\ [Next]_vars => QuietInv'
<1>. SUFFICES ASSUME TypeOK, QuietInv, [Next]_vars PROVE QuietInv'
  OBVIOUS
<1>1. CASE UNCHANGED vars
  <2>1. UNCHANGED <<alive, used, parent, suspended, pc, cursor, table, stopped, foundNew>>
    BY <1>1 DEF vars, treeVars, killerVars
  <2>2. \A L : Walled(L)' <=> Walled(L)
    BY <2>1 DEF Walled
  <2>. QED
    BY <2>1, <2>2 DEF QuietInv
<1>. QED
  BY <1>1, QuietTree, QuietKiller DEF Next

(* Once a whole table turned up nothing new, whatever is still linked to   *)
(* agy is suspended and is going to be killed, however the tree forked and *)
(* lost members while the entries were read one by one.                    *)
THEOREM QuietScan == Spec => []QuietScanMissesNothing
<1>1. ASSUME TypeOK, QuietInv PROVE QuietScanMissesNothing
  <2>. SUFFICES ASSUME pc = "kill", ~foundNew, cursor > MaxPid
                PROVE  Linked \subseteq suspended \cap stopped
    BY DEF QuietScanMissesNothing
  <2>1. PICK L \in SUBSET stopped : Walled(L)
    BY <1>1 DEF QuietInv
  <2>2. Linked \subseteq L \cap alive
    BY <1>1, <2>1, LinkedIsWalled
  <2>. QED
    BY <1>1, <2>2 DEF QuietInv
<1>. QED
  BY <1>1, QuietInit, QuietNext, TypeInit, TypeNext, PTL DEF Spec
=============================================================================
