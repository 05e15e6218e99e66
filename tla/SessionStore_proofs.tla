-------------------------- MODULE SessionStore_proofs --------------------------
(***************************************************************************)
(* Theorems about SessionStore, for any number of processes that crash,    *)
(* sessions, caps and clocks: what a save does to the file all processes   *)
(* share; that maps and queues of the processes agree; and, for hosts that *)
(* prompt sessions of theirs only (UnknownPrompts = FALSE), whose answers  *)
(* are remembered and that no conversation is lost from the file.          *)
(***************************************************************************)
EXTENDS SessionStore, FiniteSetTheorems, TLAPS

-----------------------------------------------------------------------------
(* Pruning *)

(* The file with one more entry, as it is pruned.                          *)
Saved(entry, s, conv, now) == [entry EXCEPT ![s] = [conv |-> conv, at |-> now]]

LEMMA SavedIs ==
    ASSUME NEW entry \in [Ids -> Entries], NEW s \in Ids, NEW conv \in Bindings, NEW now \in Times
    PROVE  /\ Saved(entry, s, conv, now) \in [Ids -> Entries]
           /\ Saved(entry, s, conv, now)[s] = [conv |-> conv, at |-> now]
           /\ [conv |-> conv, at |-> now] # Absent
           /\ \A x \in Ids : x # s => Saved(entry, s, conv, now)[x] = entry[x]
           /\ Present(Saved(entry, s, conv, now)) = Present(entry) \cup {s}
<1>1. [conv |-> conv, at |-> now] \in Entries
  BY DEF Entries
<1>2. [conv |-> conv, at |-> now] # Absent
  <2>1. [conv |-> conv, at |-> now].at \in Nat /\ Absent.at = -1
    BY StoreAssumption DEF Absent
  <2>. QED
    BY <2>1
<1>3. /\ Saved(entry, s, conv, now) \in [Ids -> Entries]
      /\ Saved(entry, s, conv, now)[s] = [conv |-> conv, at |-> now]
      /\ \A x \in Ids : x # s => Saved(entry, s, conv, now)[x] = entry[x]
  BY <1>1 DEF Saved
<1>4. Present(Saved(entry, s, conv, now)) = Present(entry) \cup {s}
  BY <1>2, <1>3 DEF Present
<1>. QED
  BY <1>2, <1>3, <1>4

(* Pruning leaves a file alone or takes one entry out of it.               *)
LEMMA PrunedIs ==
    ASSUME NEW e \in [Ids -> Entries], NEW s \in Ids, NEW next \in Pruned(e, s)
    PROVE  \/ /\ next = e
              /\ Cardinality(Present(e)) <= MaxPersisted \/ Candidates(e, s) = {}
           \/ \E v \in PruneFrom(e, s) :
                /\ next = [e EXCEPT ![v] = Absent]
                /\ \A y \in PruneFrom(e, s) : e[v].at <= e[y].at
                /\ ~(Cardinality(Present(e)) <= MaxPersisted)
<1>1. CASE Cardinality(Present(e)) <= MaxPersisted \/ PruneFrom(e, s) = {}
  <2>1. next = e
    BY <1>1 DEF Pruned
  <2>2. PruneFrom(e, s) = {} => Candidates(e, s) = {}
    BY DEF PruneFrom
  <2>. QED
    BY <1>1, <2>1, <2>2
<1>2. CASE ~(Cardinality(Present(e)) <= MaxPersisted \/ PruneFrom(e, s) = {})
  <2>1. PICK v \in Oldest(e, PruneFrom(e, s)) : next = [e EXCEPT ![v] = Absent]
    BY <1>2 DEF Pruned
  <2>2. v \in PruneFrom(e, s) /\ \A y \in PruneFrom(e, s) : e[v].at <= e[y].at
    BY DEF Oldest
  <2>. QED
    BY <1>2, <2>1, <2>2
<1>. QED
  BY <1>1, <1>2

(* What one save does to a file within its cap.                            *)
Lost(old, new, s) == {x \in Ids \ {s} : new[x] # old[x]}

LEMMA SaveIs ==
    ASSUME NEW old \in [Ids -> Entries], IsFiniteSet(Present(old)),
           Cardinality(Present(old)) <= MaxPersisted,
           NEW s \in Ids, NEW conv \in Bindings, NEW now \in Times,
           NEW new \in Pruned(Saved(old, s, conv, now), s)
    PROVE  /\ new \in [Ids -> Entries] /\ new[s] = [conv |-> conv, at |-> now] /\ new[s] # Absent
           /\ IsFiniteSet(Present(new)) /\ Cardinality(Present(new)) <= MaxPersisted
           /\ Cardinality(Lost(old, new, s)) <= 1
           /\ \A v \in Lost(old, new, s) :
                /\ new[v] = Absent
                /\ Cardinality(Present(new)) = MaxPersisted
                /\ old[v].conv # Unbound => UnboundIn(new, s) = {}
                /\ \A x \in Candidates(new, s) :
                     (old[v].conv = Unbound) = (old[x].conv = Unbound) => old[v].at <= old[x].at
<1>. DEFINE e == Saved(old, s, conv, now)
<1>1. /\ e \in [Ids -> Entries] /\ e[s] = [conv |-> conv, at |-> now] /\ e[s] # Absent
      /\ \A x \in Ids : x # s => e[x] = old[x]
      /\ Present(e) = Present(old) \cup {s}
  BY SavedIs
<1>2. /\ IsFiniteSet(Present(e)) /\ Cardinality(Present(e)) \in Nat
      /\ Cardinality(Present(e)) <= MaxPersisted + 1
  <2>1. IsFiniteSet(Present(e)) /\ Cardinality(Present(e)) \in Nat /\ Cardinality(Present(old)) \in Nat
    BY <1>1, FS_AddElement, FS_CardinalityType
  <2>2. Cardinality(Present(e)) <= Cardinality(Present(old)) + 1
    BY <1>1, <2>1, FS_AddElement
  <2>. QED
    BY <2>1, <2>2, StoreAssumption
<1>. HIDE DEF e
<1>3. CASE /\ new = e
           /\ Cardinality(Present(e)) <= MaxPersisted \/ Candidates(e, s) = {}
  <2>1. Lost(old, new, s) = {}
    BY <1>1, <1>3 DEF Lost
  <2>2. ASSUME Candidates(e, s) = {} PROVE Cardinality(Present(e)) <= MaxPersisted
    <3>1. Present(e) = {s}
      BY <1>1, <2>2 DEF Candidates
    <3>2. Cardinality({s}) = 1
      BY FS_Singleton
    <3>. QED
      BY <3>1, <3>2, StoreAssumption
  <2>3. Cardinality(Lost(old, new, s)) <= 1
    BY <2>1, FS_EmptySet
  <2>. QED
    BY <1>1, <1>2, <1>3, <2>1, <2>2, <2>3
<1>4. ASSUME NEW v \in PruneFrom(e, s), new = [e EXCEPT ![v] = Absent],
             \A y \in PruneFrom(e, s) : e[v].at <= e[y].at,
             ~(Cardinality(Present(e)) <= MaxPersisted)
      PROVE  /\ new \in [Ids -> Entries] /\ new[s] = e[s]
             /\ IsFiniteSet(Present(new)) /\ Cardinality(Present(new)) = MaxPersisted
             /\ Lost(old, new, s) = {v}
             /\ new[v] = Absent
             /\ old[v].conv # Unbound => UnboundIn(new, s) = {}
             /\ \A x \in Candidates(new, s) :
                  (old[v].conv = Unbound) = (old[x].conv = Unbound) => old[v].at <= old[x].at
  <2>1. v \in Present(e) /\ v # s /\ v \in Ids
    BY DEF PruneFrom, UnboundIn, Candidates, Present
  <2>2. /\ new \in [Ids -> Entries] /\ new[v] = Absent /\ \A x \in Ids : x # v => new[x] = e[x]
        /\ new[s] = e[s]
    <3>1. Absent \in Entries
      BY DEF Entries
    <3>. QED
      BY <1>1, <1>4, <2>1, <3>1
  <2>3. Present(new) = Present(e) \ {v}
    BY <2>1, <2>2 DEF Present
  <2>4. IsFiniteSet(Present(new)) /\ Cardinality(Present(new)) = MaxPersisted
    <3>1. IsFiniteSet(Present(new)) /\ Cardinality(Present(new)) = Cardinality(Present(e)) - 1
      BY <1>2, <2>1, <2>3, FS_RemoveElement
    <3>. QED
      BY <1>2, <1>4, <3>1, StoreAssumption
  <2>5. Lost(old, new, s) = {v}
    <3>1. old[v] = e[v] /\ e[v] # Absent
      BY <1>1, <2>1 DEF Present
    <3>. QED
      BY <1>1, <2>1, <2>2, <3>1 DEF Lost
  <2>6. old[v].conv # Unbound => UnboundIn(new, s) = {}
    <3>. SUFFICES ASSUME old[v].conv # Unbound, NEW x \in UnboundIn(new, s) PROVE FALSE
      OBVIOUS
    <3>1. e[v].conv # Unbound
      BY <1>1, <2>1
    <3>2. UnboundIn(e, s) = {}
      BY <1>4, <3>1 DEF PruneFrom, UnboundIn
    <3>3. x \in Present(new) /\ x # s /\ new[x].conv = Unbound
      BY DEF UnboundIn, Candidates
    <3>4. x \in UnboundIn(e, s)
      BY <2>2, <2>3, <3>3 DEF UnboundIn, Candidates, Present
    <3>. QED
      BY <3>2, <3>4
  <2>7. ASSUME NEW x \in Candidates(new, s), (old[v].conv = Unbound) = (old[x].conv = Unbound)
        PROVE  old[v].at <= old[x].at
    <3>1. x \in Candidates(e, s) /\ x \in Ids /\ x # s
      BY <2>3 DEF Candidates, Present
    <3>2. old[x] = e[x] /\ old[v] = e[v]
      BY <1>1, <2>1, <3>1
    <3>3. x \in PruneFrom(e, s)
      BY <1>4, <2>7, <3>1, <3>2 DEF PruneFrom, UnboundIn
    <3>. QED
      BY <1>4, <3>2, <3>3
  <2>. QED
    BY <2>2, <2>4, <2>5, <2>6, <2>7
<1>5. new \in Pruned(e, s)
  BY DEF e
<1>6. CASE \E v \in PruneFrom(e, s) :
             /\ new = [e EXCEPT ![v] = Absent]
             /\ \A y \in PruneFrom(e, s) : e[v].at <= e[y].at
             /\ ~(Cardinality(Present(e)) <= MaxPersisted)
  <2>1. PICK v \in PruneFrom(e, s) :
             /\ new = [e EXCEPT ![v] = Absent]
             /\ \A y \in PruneFrom(e, s) : e[v].at <= e[y].at
             /\ ~(Cardinality(Present(e)) <= MaxPersisted)
    BY <1>6
  <2>2. /\ new \in [Ids -> Entries] /\ new[s] = e[s]
        /\ IsFiniteSet(Present(new)) /\ Cardinality(Present(new)) = MaxPersisted
        /\ Lost(old, new, s) = {v}
        /\ new[v] = Absent
        /\ old[v].conv # Unbound => UnboundIn(new, s) = {}
        /\ \A x \in Candidates(new, s) :
             (old[v].conv = Unbound) = (old[x].conv = Unbound) => old[v].at <= old[x].at
    BY <1>4, <2>1
  <2>3. Cardinality({v}) = 1 /\ MaxPersisted \in Nat
    BY FS_Singleton, StoreAssumption
  <2>4. Cardinality(Lost(old, new, s)) <= 1 /\ Cardinality(Present(new)) <= MaxPersisted
    BY <2>2, <2>3
  <2>. QED
    BY <1>1, <2>2, <2>4
<1>7. CASE new = e /\ (Cardinality(Present(e)) <= MaxPersisted \/ Candidates(e, s) = {})
  BY <1>3, <1>7
<1>8. <1>6!1 \/ <1>7!1
  BY <1>1, <1>5, PrunedIs
<1>. QED
  BY <1>6, <1>7, <1>8

-----------------------------------------------------------------------------
(* The invariant *)

(* The file is whole and within its cap.                                   *)
FileInv ==
    /\ store \in Files /\ store.whole
    /\ IsFiniteSet(Present(store.entry)) /\ Cardinality(Present(store.entry)) <= MaxPersisted

(* An operation past its load holds the file lock, and what it is about to *)
(* write is the file as it still is with its own entry saved and pruned.   *)
OpOk(o, p, f, file, scratch) ==
    /\ o.pc # "idle" => o.session \in Ids
    /\ o.pc \in {"load", "write", "rename"} => f = p
    /\ o.pc \in {"write", "rename"} =>
         \E now \in Times : o.next \in Pruned(Saved(file.entry, o.session, o.conv, now), o.session)
    /\ o.pc = "rename" => ~scratch.whole

StoreInv ==
    /\ binding \in [Procs -> [Ids -> Bindings]]
    /\ op \in [Procs -> Ops]
    /\ flock \in Procs \cup {Nobody}
    /\ tmp \in Files
    /\ FileInv
    /\ \A p \in Procs : OpOk(op[p], p, flock, store, tmp)

LEMMA EmptyIs == Empty \in Files /\ Empty.whole /\ Present(Empty.entry) = {} /\ Idle \in Ops
<1>1. Empty \in Files /\ Empty.whole /\ Empty.entry = [s \in Ids |-> Absent]
  BY DEF Empty, Files, Entries
<1>2. Present(Empty.entry) = {}
  BY <1>1 DEF Present
<1>3. Idle \in Ops
  BY <1>1 DEF Idle, Ops, OpPcs, Bindings, Files
<1>. QED
  BY <1>1, <1>2, <1>3

LEMMA InitStore == Init => StoreInv
<1>. SUFFICES ASSUME Init PROVE StoreInv
  OBVIOUS
<1>1. FileInv
  BY EmptyIs, FS_EmptySet, StoreAssumption DEF Init, FileInv
<1>2. \A p \in Procs : OpOk(op[p], p, flock, store, tmp)
  BY DEF Init, OpOk, Idle
<1>. QED
  BY <1>1, <1>2, EmptyIs DEF Init, StoreInv, Bindings

(* A step of p that hands another process's lock to nobody, and touches    *)
(* the files only under the lock.                                          *)
LEMMA StepKeeps ==
    ASSUME StoreInv, NEW p \in Procs, NEW o \in Ops,
           op' = [op EXCEPT ![p] = o],
           binding' \in [Procs -> [Ids -> Bindings]],
           flock' \in Procs \cup {Nobody}, flock' = flock \/ flock \in {p, Nobody},
           tmp' \in Files, FileInv',
           flock = p \/ (store' = store /\ tmp' = tmp),
           OpOk(o, p, flock', store', tmp')
    PROVE  StoreInv'
<1>1. op' \in [Procs -> Ops]
  BY DEF StoreInv
<1>2. ASSUME NEW q \in Procs PROVE OpOk(op'[q], q, flock', store', tmp')
  <2>1. CASE q = p
    BY <2>1 DEF StoreInv
  <2>2. CASE q # p
    <3>1. op'[q] = op[q] /\ OpOk(op[q], q, flock, store, tmp)
      BY <2>2 DEF StoreInv
    <3>2. CASE op[q].pc \in {"load", "write", "rename"}
      <4>1. flock = q
        BY <3>1, <3>2 DEF OpOk
      <4>2. flock' = flock /\ store' = store /\ tmp' = tmp
        BY <2>2, <4>1, StoreAssumption
      <4>. QED
        BY <3>1, <4>2
    <3>3. CASE op[q].pc \notin {"load", "write", "rename"}
      BY <3>1, <3>3 DEF OpOk
    <3>. QED
      BY <3>2, <3>3
  <2>. QED
    BY <2>1, <2>2
<1>. QED
  BY <1>1, <1>2 DEF StoreInv

(* A step that leaves operations, lock and files alone.                    *)
LEMMA MemoryStep ==
    ASSUME StoreInv, UNCHANGED <<op, diskVars>>, binding' \in [Procs -> [Ids -> Bindings]]
    PROVE  StoreInv'
<1>1. op' = op /\ flock' = flock /\ store' = store /\ tmp' = tmp
  BY DEF diskVars
<1>2. FileInv'
  BY <1>1 DEF StoreInv, FileInv
<1>3. \A p \in Procs : OpOk(op'[p], p, flock', store', tmp')
  BY <1>1 DEF StoreInv
<1>. QED
  BY <1>1, <1>2, <1>3 DEF StoreInv

(* A step of p that starts or ends an operation away from the files.       *)
LEMMA BeginStep ==
    ASSUME StoreInv, NEW p \in Procs, NEW pc \in {"turn", "lock"}, NEW s \in Ids,
           NEW conv \in Bindings, NEW turn \in BOOLEAN, Begin(p, pc, s, conv, turn),
           UNCHANGED diskVars, binding' \in [Procs -> [Ids -> Bindings]]
    PROVE  StoreInv'
<1>. DEFINE o == [Idle EXCEPT !.pc = pc, !.session = s, !.conv = conv, !.turn = turn]
<1>1. o \in Ops /\ o.pc = pc /\ o.session = s
  BY EmptyIs DEF Idle, Ops, OpPcs
<1>2. op' = [op EXCEPT ![p] = o]
  BY DEF Begin
<1>3. flock' = flock /\ store' = store /\ tmp' = tmp
  BY DEF diskVars
<1>4. FileInv'
  BY <1>3 DEF StoreInv, FileInv
<1>. HIDE DEF o
<1>5. OpOk(o, p, flock', store', tmp')
  BY <1>1 DEF OpOk
<1>6. flock' \in Procs \cup {Nobody} /\ tmp' \in Files
  BY <1>3 DEF StoreInv
<1>. QED
  BY <1>1, <1>2, <1>3, <1>4, <1>5, <1>6, StepKeeps

(* A step of p that ends its operation without a write to the file.        *)
LEMMA EndStep ==
    ASSUME StoreInv, NEW p \in Procs, op' = [op EXCEPT ![p] = Idle],
           flock' = flock \/ flock' = (IF flock = p THEN Nobody ELSE flock),
           UNCHANGED <<store, tmp>>, binding' \in [Procs -> [Ids -> Bindings]]
    PROVE  StoreInv'
<1>1. FileInv'
  BY DEF StoreInv, FileInv
<1>2. OpOk(Idle, p, flock', store', tmp')
  BY DEF OpOk, Idle
<1>3. flock' \in Procs \cup {Nobody} /\ tmp' \in Files /\ (flock' = flock \/ flock \in {p, Nobody})
  BY DEF StoreInv
<1>. QED
  BY <1>1, <1>2, <1>3, EmptyIs, StepKeeps

LEMMA RecallBinds ==
    ASSUME StoreInv, NEW p \in Procs, NEW s \in Ids
    PROVE  /\ Recall(p, s) => binding' \in [Procs -> [Ids -> Bindings]]
           /\ BindingAfterRecall(p, s) \in Bindings
           /\ \A conv \in Bindings : Admit(p, s, conv) => binding' \in [Procs -> [Ids -> Bindings]]
<1>1. store.entry \in [Ids -> Entries]
  BY DEF StoreInv, FileInv, Files
<1>2. store.entry[s].conv \in Bindings
  BY <1>1 DEF Entries, Absent, Bindings
<1>3. ASSUME NEW conv \in Bindings, Admit(p, s, conv)
      PROVE  binding' \in [Procs -> [Ids -> Bindings]]
  <2>. DEFINE b == [x \in Ids |-> CASE x = s -> conv
                                    [] x # s /\ x \in Evicted(p) -> Unbound
                                    [] OTHER -> binding[p][x]]
  <2>1. binding' = [binding EXCEPT ![p] = b]
    BY <1>3 DEF Admit
  <2>2. b \in [Ids -> Bindings]
    BY DEF StoreInv, Bindings
  <2>. QED
    BY <2>1, <2>2 DEF StoreInv
<1>4. ASSUME Recall(p, s) PROVE binding' \in [Procs -> [Ids -> Bindings]]
  <2>1. binding' = binding \/ Admit(p, s, store.entry[s].conv)
    BY <1>4 DEF Recall
  <2>. QED
    BY <1>2, <1>3, <2>1 DEF StoreInv
<1>5. BindingAfterRecall(p, s) \in Bindings
  BY <1>2 DEF BindingAfterRecall, StoreInv
<1>. QED
  BY <1>3, <1>4, <1>5

(* What the rename makes of the file.                                      *)
Kept(old, new, s) ==
    /\ Cardinality(Lost(old, new, s)) <= 1
    /\ \A v \in Lost(old, new, s) :
         /\ new[v] = Absent
         /\ Cardinality(Present(new)) = MaxPersisted
         /\ old[v].conv # Unbound => UnboundIn(new, s) = {}
         /\ \A x \in Candidates(new, s) :
              (old[v].conv = Unbound) = (old[x].conv = Unbound) => old[v].at <= old[x].at

LEMMA RenameIs ==
    ASSUME StoreInv, NEW p \in Procs, op[p].pc = "rename"
    PROVE  /\ op[p].session \in Ids /\ op[p].next \in [Ids -> Entries]
           /\ op[p].next[op[p].session] # Absent
           /\ op[p].next[op[p].session].conv = op[p].conv
           /\ IsFiniteSet(Present(op[p].next)) /\ Cardinality(Present(op[p].next)) <= MaxPersisted
           /\ Kept(store.entry, op[p].next, op[p].session)
           /\ flock = p /\ ~tmp.whole
<1>1. OpOk(op[p], p, flock, store, tmp) /\ op[p] \in Ops
  BY DEF StoreInv
<1>2. PICK s : s = op[p].session
  OBVIOUS
<1>3. PICK conv : conv = op[p].conv
  OBVIOUS
<1>4. PICK new : new = op[p].next
  OBVIOUS
<1>5. PICK old : old = store.entry
  OBVIOUS
<1>6. s \in Ids /\ conv \in Bindings /\ flock = p /\ ~tmp.whole
  BY <1>1, <1>2, <1>3 DEF OpOk, Ops
<1>7. PICK now \in Times : new \in Pruned(Saved(old, s, conv, now), s)
  BY <1>1, <1>2, <1>3, <1>4, <1>5 DEF OpOk
<1>8. old \in [Ids -> Entries] /\ IsFiniteSet(Present(old)) /\ Cardinality(Present(old)) <= MaxPersisted
  BY <1>5 DEF StoreInv, FileInv, Files
<1>9. /\ new \in [Ids -> Entries] /\ new[s] = [conv |-> conv, at |-> now] /\ new[s] # Absent
      /\ IsFiniteSet(Present(new)) /\ Cardinality(Present(new)) <= MaxPersisted
      /\ Kept(old, new, s)
  BY <1>6, <1>7, <1>8, SaveIs DEF Kept
<1>10. new[s].conv = conv
  BY <1>9
<1>. QED
  BY <1>2, <1>3, <1>4, <1>5, <1>6, <1>9, <1>10

LEMMA PersistKeeps == ASSUME StoreInv, NEW p \in Procs, Persist(p) PROVE StoreInv'
<1>1. binding' \in [Procs -> [Ids -> Bindings]]
  BY DEF StoreInv, Persist, Lock, LoadAndPrune, Write, Rename, WriteFails, memVars
<1>2. op[p] \in Ops /\ OpOk(op[p], p, flock, store, tmp) /\ tmp \in Files
      /\ flock \in Procs \cup {Nobody} /\ FileInv
  BY DEF StoreInv
<1>3. CASE Lock(p)
  <2>. DEFINE o == [op[p] EXCEPT !.pc = "load"]
  <2>1. o \in Ops /\ o.pc = "load" /\ o.session = op[p].session
    BY <1>2 DEF Ops, OpPcs
  <2>2. op' = [op EXCEPT ![p] = o] /\ flock = Nobody /\ flock' = p /\ store' = store /\ tmp' = tmp
        /\ op[p].pc = "lock"
    BY <1>3 DEF Lock, TakeLock
  <2>3. FileInv'
    BY <1>2, <2>2 DEF FileInv
  <2>. HIDE DEF o
  <2>4. OpOk(o, p, flock', store', tmp')
    BY <1>2, <2>1, <2>2 DEF OpOk
  <2>5. flock' \in Procs \cup {Nobody} /\ tmp' \in Files
    BY <1>2, <2>2
  <2>. QED
    BY <1>1, <2>1, <2>2, <2>3, <2>4, <2>5, StepKeeps
<1>4. CASE LoadAndPrune(p)
  <2>1. store' = store /\ tmp' = tmp /\ flock' = flock /\ op[p].pc = "load"
    BY <1>4 DEF LoadAndPrune, diskVars
  <2>2. Loaded = store.entry /\ store.entry \in [Ids -> Entries]
    BY <1>2 DEF FileInv, Loaded, Files
  <2>now. PICK now \in Times :
           \E x \in Pruned(Saved(store.entry, op[p].session, op[p].conv, now), op[p].session) :
             op' = [op EXCEPT ![p].pc = "write", ![p].next = x]
    BY <1>4, <2>2 DEF LoadAndPrune, Saved
  <2>3. PICK next \in Pruned(Saved(store.entry, op[p].session, op[p].conv, now), op[p].session) :
          op' = [op EXCEPT ![p].pc = "write", ![p].next = next]
    BY <2>now
  <2>4. op[p].session \in Ids /\ op[p].conv \in Bindings /\ flock = p
    BY <1>2, <2>1 DEF OpOk, Ops
  <2>5. next \in [Ids -> Entries]
    BY <1>2, <2>2, <2>3, <2>4, SaveIs DEF FileInv
  <2>. DEFINE o == [op[p] EXCEPT !.pc = "write", !.next = next]
  <2>6. o \in Ops /\ o.pc = "write" /\ o.session = op[p].session /\ o.conv = op[p].conv /\ o.next = next
    BY <1>2, <2>5 DEF Ops, OpPcs
  <2>7. op' = [op EXCEPT ![p] = o]
    BY <2>3 DEF StoreInv
  <2>8. FileInv' /\ tmp' \in Files /\ flock' \in Procs \cup {Nobody}
    BY <1>2, <2>1 DEF FileInv
  <2>. HIDE DEF o
  <2>9. OpOk(o, p, flock', store', tmp')
    BY <2>1, <2>3, <2>4, <2>6 DEF OpOk
  <2>. QED
    BY <1>1, <2>1, <2>4, <2>6, <2>7, <2>8, <2>9, StepKeeps
<1>5. CASE Write(p)
  <2>. DEFINE o == [op[p] EXCEPT !.pc = "rename"]
  <2>1. /\ o \in Ops /\ o.pc = "rename"
        /\ o.session = op[p].session /\ o.conv = op[p].conv /\ o.next = op[p].next
    BY <1>2 DEF Ops, OpPcs
  <2>2. /\ op' = [op EXCEPT ![p] = o] /\ flock' = flock /\ store' = store
        /\ tmp' = [tmp EXCEPT !.whole = FALSE] /\ op[p].pc = "write"
    BY <1>5 DEF Write, StartWriting
  <2>3. FileInv' /\ flock = p /\ flock' \in Procs \cup {Nobody}
    BY <1>2, <2>2 DEF FileInv, OpOk
  <2>4. tmp' \in Files /\ ~tmp'.whole
    BY <1>2, <2>2 DEF Files
  <2>. HIDE DEF o
  <2>5. OpOk(o, p, flock', store', tmp')
    BY <1>2, <2>1, <2>2, <2>3, <2>4 DEF OpOk
  <2>. QED
    BY <1>1, <2>1, <2>2, <2>3, <2>4, <2>5, StepKeeps
<1>6. CASE Rename(p)
  <2>1. /\ op' = [op EXCEPT ![p] = Idle] /\ op[p].pc = "rename"
        /\ store' = [whole |-> TRUE, entry |-> op[p].next] /\ tmp' = Empty
        /\ flock' = IF flock = p THEN Nobody ELSE flock
    BY <1>6 DEF Rename
  <2>2. /\ op[p].next \in [Ids -> Entries] /\ flock = p
        /\ IsFiniteSet(Present(op[p].next)) /\ Cardinality(Present(op[p].next)) <= MaxPersisted
    BY <2>1, RenameIs
  <2>3. store' \in Files /\ store'.whole /\ store'.entry = op[p].next
    BY <2>1, <2>2 DEF Files
  <2>4. FileInv'
    <3>1. Present(store'.entry) = Present(op[p].next)
      BY <2>3 DEF Present
    <3>. QED
      BY <2>2, <2>3, <3>1 DEF FileInv
  <2>5. tmp' \in Files /\ flock' \in Procs \cup {Nobody}
    BY <2>1, <2>2, EmptyIs
  <2>6. OpOk(Idle, p, flock', store', tmp')
    BY DEF OpOk, Idle
  <2>. QED
    BY <1>1, <2>1, <2>2, <2>4, <2>5, <2>6, EmptyIs, StepKeeps
<1>7. CASE WriteFails(p)
  BY <1>1, <1>7, EndStep DEF WriteFails
<1>. QED
  BY <1>3, <1>4, <1>5, <1>6, <1>7 DEF Persist

LEMMA TurnKeeps == ASSUME StoreInv, NEW p \in Procs, Turn(p) PROVE StoreInv'
<1>1. CASE Remember(p)
  BY <1>1, MemoryStep DEF Remember, StoreInv
<1>2. CASE EndTurnBound(p)
  <2>1. PICK s : s = op[p].session
    OBVIOUS
  <2>2. s \in Ids
    BY <1>2, <2>1 DEF EndTurnBound, StoreInv, OpOk
  <2>3. binding' = Recorded(p, s) /\ Begin(p, "lock", s, s, TRUE) /\ UNCHANGED diskVars
    BY <1>2, <2>1 DEF EndTurnBound
  <2>4. binding' \in [Procs -> [Ids -> Bindings]]
    BY <2>2, <2>3 DEF StoreInv, Recorded, Bindings
  <2>. QED
    BY <2>2, <2>3, <2>4, BeginStep DEF Bindings
<1>3. CASE EndTurnUnbound(p)
  <2>1. op' = [op EXCEPT ![p] = Idle] /\ binding' = binding /\ UNCHANGED <<flock, store, tmp>>
    BY <1>3 DEF EndTurnUnbound, memVars, diskVars
  <2>. QED
    BY <2>1, EndStep DEF StoreInv
<1>. QED
  BY <1>1, <1>2, <1>3 DEF Turn

LEMMA RequestKeeps == ASSUME StoreInv, NEW p \in Procs, Request(p) PROVE StoreInv'
<1>1. PICK s \in Ids : New(p, s) \/ Resume(p, s) \/ Load(p, s) \/ SetModel(p, s) \/ Prompt(p, s)
  BY DEF Request
<1>2. Unbound \in Bindings /\ BindingAfterRecall(p, s) \in Bindings
  BY RecallBinds DEF Bindings
<1>3. CASE New(p, s)
  BY <1>2, <1>3, RecallBinds, MemoryStep DEF New
<1>4. CASE Resume(p, s)
  BY <1>4, RecallBinds, MemoryStep DEF Resume
<1>5. CASE Load(p, s)
  BY <1>2, <1>5, RecallBinds, BeginStep DEF Load
<1>6. CASE SetModel(p, s)
  BY <1>2, <1>6, RecallBinds, BeginStep DEF SetModel
<1>7. CASE Prompt(p, s)
  BY <1>2, <1>7, RecallBinds, BeginStep DEF Prompt
<1>. QED
  BY <1>1, <1>3, <1>4, <1>5, <1>6, <1>7

LEMMA OtherKeeps == ASSUME StoreInv, NEW p \in Procs, Drain(p) \/ Crash(p) PROVE StoreInv'
<1>1. CASE Drain(p)
  BY <1>1, MemoryStep DEF Drain, TakeForgets, ForgetSession, StoreInv
<1>2. CASE Crash(p)
  <2>1. binding' \in [Procs -> [Ids -> Bindings]]
    BY <1>2 DEF Crash, StoreInv, Bindings
  <2>. QED
    BY <1>2, <2>1, EndStep DEF Crash
<1>. QED
  BY <1>1, <1>2

LEMMA StepStore == ASSUME StoreInv, [Next]_vars PROVE StoreInv'
<1>1. CASE UNCHANGED vars
  BY <1>1, MemoryStep DEF vars, memVars, StoreInv
<1>2. CASE Next
  BY <1>2, RequestKeeps, TurnKeeps, PersistKeeps, OtherKeeps DEF Next
<1>. QED
  BY <1>1, <1>2

LEMMA StoreIsInvariant == Spec => []StoreInv
<1>. QED
  BY InitStore, StepStore, PTL DEF Spec

-----------------------------------------------------------------------------
(* The theorems *)

(* Only a rename puts anything in the file or makes the scratch file whole. *)
LEMMA FilesStep ==
    ASSUME StoreInv, [Next]_vars
    PROVE  (store' = store /\ (tmp' = tmp \/ ~tmp'.whole)) \/ \E p \in Procs : Rename(p)
<1>1. CASE UNCHANGED vars
  BY <1>1 DEF vars, diskVars
<1>2. ASSUME NEW p \in Procs, Request(p) \/ Turn(p) \/ Drain(p) \/ Crash(p)
      PROVE  store' = store /\ tmp' = tmp
  BY <1>2 DEF Request, New, Resume, Load, SetModel, Prompt, Turn, Remember, EndTurnBound,
              EndTurnUnbound, Drain, TakeForgets, ForgetSession, Crash, diskVars
<1>3. ASSUME NEW p \in Procs, Persist(p), ~Rename(p)
      PROVE  store' = store /\ (tmp' = tmp \/ ~tmp'.whole)
  <2>1. CASE Write(p)
    BY <2>1 DEF Write, StartWriting, StoreInv, Files
  <2>2. CASE Lock(p) \/ LoadAndPrune(p) \/ WriteFails(p)
    BY <2>2 DEF Lock, LoadAndPrune, WriteFails, diskVars
  <2>. QED
    BY <1>3, <2>1, <2>2 DEF Persist
<1>. QED
  BY <1>1, <1>2, <1>3 DEF Next

LEMMA SavesIs ==
    ASSUME StoreInv, [Next]_vars, NEW p \in Procs, Saves(p)
    PROVE  Rename(p) /\ store'.entry = op[p].next
<1>1. PICK q \in Procs : Rename(q)
  BY FilesStep DEF Saves
<1>2. q = p
  BY <1>1 DEF Saves, Rename, StoreInv
<1>. QED
  BY <1>1, <1>2 DEF Rename

(* The file never goes half written: every process finds it whole.         *)
THEOREM FileIsWhole == Spec => []FileInv
<1>1. StoreInv => FileInv
  BY DEF StoreInv
<1>. QED
  BY <1>1, StoreIsInvariant, PTL

(* The entry a save writes survives its own pruning, with what was saved:  *)
(* a session saved with its conversation can be resumed from disk, and one *)
(* saved without cannot (`persist_session`, `prune_store`,                 *)
(* `restore_session`).                                                     *)
THEOREM SavedResumes == Spec => SavedSessionIsResumable
<1>1. ASSUME StoreInv, [Next]_vars, NEW p \in Procs, Saves(p)
      PROVE  /\ store'.entry[op[p].session] # Absent
             /\ store'.entry[op[p].session].conv = op[p].conv
             /\ \A s \in Ids :
                  s = op[p].session => (Restorable(s)' <=> op[p].conv # Unbound)
  <2>1. Rename(p) /\ store'.entry = op[p].next
    BY <1>1, SavesIs
  <2>2. op[p].pc = "rename"
    BY <1>1 DEF Saves
  <2>3. /\ store'.entry[op[p].session] # Absent
        /\ store'.entry[op[p].session].conv = op[p].conv
    BY <1>1, <2>1, <2>2, RenameIs
  <2>4. store'.whole
    BY <2>1 DEF Rename
  <2>. QED
    BY <2>3, <2>4 DEF Restorable
<1>2. StoreInv /\ [Next]_vars =>
        [\A p \in Procs : Saves(p) =>
           /\ store'.entry[op[p].session] # Absent
           /\ store'.entry[op[p].session].conv = op[p].conv
           /\ \A s \in Ids :
                s = op[p].session => (Restorable(s)' <=> op[p].conv # Unbound)]_vars
  BY <1>1
<1>. QED
  BY <1>2, StoreIsInvariant, PTL DEF Spec, SavedSessionIsResumable

(* A write changes its own entry only, and of the others takes one at      *)
(* most, and only the one the cap's order of pruning allows; nothing but a *)
(* write that goes through changes the file.                               *)
THEOREM OthersSurvive == Spec => WritesKeepOtherSessions
<1>. DEFINE Allowed ==
       /\ store' # store => store'.whole /\ \E p \in Procs : Saves(p)
       /\ Cardinality(Present(store'.entry)) <= MaxPersisted
       /\ \A p \in Procs : Saves(p) =>
         LET mine == op[p].session
             lost == {s \in Ids \ {mine} : store'.entry[s] # store.entry[s]} IN
         /\ Cardinality(lost) <= 1
         /\ \A s \in lost :
              /\ store'.entry[s] = Absent
              /\ Cardinality(Present(store'.entry)) = MaxPersisted
              /\ store.entry[s].conv # Unbound => UnboundIn(store'.entry, mine) = {}
              /\ \A x \in Candidates(store'.entry, mine) :
                   (store.entry[s].conv = Unbound) = (store.entry[x].conv = Unbound)
                     => store.entry[s].at <= store.entry[x].at
<1>1. ASSUME StoreInv, [Next]_vars PROVE Allowed
  <2>1. FileInv'
    BY <1>1, StepStore DEF StoreInv
  <2>2. ASSUME store' # store PROVE store'.whole /\ \E p \in Procs : Saves(p)
    <3>1. PICK p \in Procs : Rename(p)
      BY <1>1, <2>2, FilesStep
    <3>2. op[p].pc = "rename" /\ op'[p] = Idle /\ tmp' = Empty
      BY <1>1, <3>1 DEF Rename, StoreInv
    <3>3. ~tmp.whole
      BY <1>1, <3>2, RenameIs
    <3>4. Saves(p)
      BY <3>2, <3>3, EmptyIs DEF Saves, Idle
    <3>. QED
      BY <2>1, <3>4 DEF FileInv
  <2>3. Cardinality(Present(store'.entry)) <= MaxPersisted
    BY <2>1 DEF FileInv
  <2>4. ASSUME NEW p \in Procs, Saves(p)
        PROVE  Kept(store.entry, store'.entry, op[p].session)
    <3>1. store'.entry = op[p].next /\ op[p].pc = "rename"
      BY <1>1, <2>4, SavesIs DEF Saves
    <3>. QED
      BY <1>1, <3>1, RenameIs
  <2>. QED
    BY <2>2, <2>3, <2>4 DEF Kept, Lost
<1>2. StoreInv /\ [Next]_vars => [Allowed]_vars
  BY <1>1
<1>. QED
  BY <1>2, StoreIsInvariant, PTL DEF Spec, WritesKeepOtherSessions

-----------------------------------------------------------------------------
(* Sequences without repetition: the map of a process, by recency *)

ElementsOf(q) == {q[i] : i \in DOMAIN q}
Firsts(q, k) == {q[i] : i \in 1 .. k}
Distinct(q) == \A i, j \in 1 .. Len(q) : q[i] = q[j] => i = j

(* The elements of a concatenation.                                        *)
LEMMA ConcatIs ==
    ASSUME NEW S, NEW h \in Seq(S), NEW t \in Seq(S)
    PROVE  /\ h \o t \in Seq(S) /\ Len(h \o t) = Len(h) + Len(t)
           /\ \A k \in 1 .. Len(h) : (h \o t)[k] = h[k]
           /\ \A k \in 1 .. Len(t) : (h \o t)[Len(h) + k] = t[k]
<1>1. h \o t \in Seq(S) /\ Len(h \o t) = Len(h) + Len(t) /\ Len(h) \in Nat /\ Len(t) \in Nat
  OBVIOUS
<1>2. \A k \in 1 .. Len(h) + Len(t) : (h \o t)[k] = IF k <= Len(h) THEN h[k] ELSE t[k - Len(h)]
  OBVIOUS
<1>3. ASSUME NEW k \in 1 .. Len(h) PROVE (h \o t)[k] = h[k]
  BY <1>1, <1>2
<1>4. ASSUME NEW k \in 1 .. Len(t) PROVE (h \o t)[Len(h) + k] = t[k]
  <2>1. Len(h) + k \in 1 .. Len(h) + Len(t) /\ ~(Len(h) + k <= Len(h)) /\ (Len(h) + k) - Len(h) = k
    BY <1>1
  <2>. QED
    BY <1>2, <2>1
<1>. QED
  BY <1>1, <1>3, <1>4

(* An element is at an index.                                              *)
LEMMA InElements ==
    ASSUME NEW S, NEW q \in Seq(S)
    PROVE  /\ \A x : x \in ElementsOf(q) <=> \E i \in 1 .. Len(q) : q[i] = x
           /\ \A i \in 1 .. Len(q) : q[i] \in ElementsOf(q)
           /\ ElementsOf(q) \subseteq S /\ Len(q) \in Nat
<1>1. DOMAIN q = 1 .. Len(q)
  OBVIOUS
<1>. QED
  BY <1>1 DEF ElementsOf

(* touch_session moves an id to the end: the map holds the same ids.       *)
LEMMA MovedToEnd ==
    ASSUME NEW q \in Seq(Ids), Distinct(q), NEW s \in ElementsOf(q),
           NEW r, r = Append(Without(q, s), s)
    PROVE  /\ r \in Seq(Ids) /\ Len(r) = Len(q) /\ Distinct(r)
           /\ ElementsOf(r) = ElementsOf(q)
<1>. DEFINE i == CHOOSE i \in DOMAIN q : q[i] = s
            h == SubSeq(q, 1, i - 1)
            t == SubSeq(q, i + 1, Len(q))
            n == Len(q)
<1>1. i \in 1 .. n /\ q[i] = s /\ n \in Nat
  BY InElements
<1>2. r = Append(h \o t, s)
  BY DEF Without
<1>. HIDE DEF i
<1>3. h \in Seq(Ids) /\ Len(h) = i - 1 /\ \A k \in 1 .. i - 1 : h[k] = q[k]
  BY <1>1
<1>4. t \in Seq(Ids) /\ Len(t) = n - i /\ \A k \in 1 .. n - i : t[k] = q[i + k]
  BY <1>1
<1>. HIDE DEF h, t
<1>5. h \o t \in Seq(Ids) /\ Len(h \o t) = n - 1
  <2>1. h \o t \in Seq(Ids) /\ Len(h \o t) = Len(h) + Len(t)
    BY <1>3, <1>4, ConcatIs
  <2>. QED
    BY <1>1, <1>3, <1>4, <2>1
<1>6. \A k \in 1 .. n - 1 : (h \o t)[k] = IF k < i THEN q[k] ELSE q[k + 1]
  <2>. TAKE k \in 1 .. n - 1
  <2>1. CASE k < i
    <3>1. k \in 1 .. i - 1
      BY <1>1, <2>1
    <3>. QED
      BY <1>3, <1>4, <2>1, <3>1, ConcatIs
  <2>2. CASE ~(k < i)
    <3>1. k - (i - 1) \in 1 .. n - i /\ (i - 1) + (k - (i - 1)) = k /\ i + (k - (i - 1)) = k + 1
      BY <1>1, <2>2
    <3>2. (h \o t)[(i - 1) + (k - (i - 1))] = t[k - (i - 1)]
      BY <1>3, <1>4, <3>1, ConcatIs
    <3>. QED
      BY <1>4, <2>2, <3>1, <3>2
  <2>. QED
    BY <2>1, <2>2
<1>7. r \in Seq(Ids) /\ Len(r) = n /\ r[n] = s
      /\ \A k \in 1 .. n - 1 : r[k] = IF k < i THEN q[k] ELSE q[k + 1]
  BY <1>1, <1>2, <1>5, <1>6
<1>8. Distinct(r)
  <2>. SUFFICES ASSUME NEW k \in 1 .. n, NEW l \in 1 .. n, r[k] = r[l], k < l PROVE FALSE
    BY <1>7 DEF Distinct
  <2>1. k \in 1 .. n - 1 /\ (l = n \/ l \in 1 .. n - 1)
    BY <1>1
  <2>. QED
    BY <1>1, <1>7, <2>1 DEF Distinct
<1>9. ElementsOf(r) = ElementsOf(q)
  <2>1. \A k \in 1 .. n : r[k] \in ElementsOf(q)
    <3>. TAKE k \in 1 .. n
    <3>1. CASE k = n
      BY <1>7, <3>1
    <3>2. CASE k # n
      <4>1. k \in 1 .. n - 1 /\ k + 1 \in 1 .. n
        BY <1>1, <3>2
      <4>2. r[k] = q[k] \/ r[k] = q[k + 1]
        BY <1>7, <4>1
      <4>. QED
        BY <4>1, <4>2, InElements
    <3>. QED
      BY <3>1, <3>2
  <2>2. \A k \in 1 .. n : q[k] \in ElementsOf(r)
    <3>. TAKE k \in 1 .. n
    <3>1. \A j \in 1 .. n : r[j] \in ElementsOf(r)
      BY <1>7, InElements
    <3>2. CASE k < i
      <4>1. k \in 1 .. n - 1 /\ r[k] = q[k]
        BY <1>1, <1>7, <3>2
      <4>. QED
        BY <3>1, <4>1
    <3>3. CASE k = i
      <4>1. n \in 1 .. n /\ r[n] = q[k]
        BY <1>1, <1>7, <3>3
      <4>. QED
        BY <3>1, <4>1
    <3>4. CASE k > i
      <4>1. k - 1 \in 1 .. n - 1 /\ r[k - 1] = q[k]
        BY <1>1, <1>7, <3>4
      <4>2. k - 1 \in 1 .. n
        BY <1>1, <4>1
      <4>. QED
        BY <3>1, <4>1, <4>2
    <3>. QED
      BY <1>1, <3>2, <3>3, <3>4
  <2>3. \A x : x \in ElementsOf(r) => x \in ElementsOf(q)
    <3>1. \A x : x \in ElementsOf(r) => \E k \in 1 .. Len(r) : r[k] = x
      BY <1>7, InElements
    <3>. QED
      BY <1>7, <2>1, <3>1
  <2>4. \A x : x \in ElementsOf(q) => x \in ElementsOf(r)
    BY <2>2, InElements
  <2>. QED
    BY <2>3, <2>4
<1>. QED
  BY <1>7, <1>8, <1>9

(* The insert after an eviction of k ids: they go, the new one is added.    *)
Admitted(q, k, s) == Append(SubSeq(q, k + 1, Len(q)), s)

LEMMA DroppedAndAdded ==
    ASSUME NEW q \in Seq(Ids), Distinct(q), NEW k \in 0 .. Len(q), NEW s \in Ids \ ElementsOf(q)
    PROVE  /\ Admitted(q, k, s) \in Seq(Ids) /\ Len(Admitted(q, k, s)) = Len(q) - k + 1
           /\ Distinct(Admitted(q, k, s))
           /\ ElementsOf(Admitted(q, k, s)) = (ElementsOf(q) \ Firsts(q, k)) \cup {s}
           /\ Firsts(q, k) \subseteq ElementsOf(q)
<1>. DEFINE t == SubSeq(q, k + 1, Len(q))
            r == Admitted(q, k, s)
<1>n. PICK n : n = Len(q)
  OBVIOUS
<1>1. n \in Nat /\ k \in 0 .. n
  BY <1>n
<1>2. t \in Seq(Ids) /\ Len(t) = n - k /\ \A j \in 1 .. n - k : t[j] = q[k + j]
  BY <1>n
<1>. HIDE DEF t
<1>3. r = Append(t, s)
  BY DEF t, Admitted
<1>4. Len(t) + 1 = n - k + 1
  BY <1>1, <1>2
<1>5. /\ r \in Seq(Ids) /\ Len(r) = n - k + 1 /\ r[n - k + 1] = s
      /\ \A j \in 1 .. n - k : r[j] = q[k + j]
  <2>1. r \in Seq(Ids) /\ Len(r) = Len(t) + 1 /\ r[Len(t) + 1] = s /\ \A j \in 1 .. Len(t) : r[j] = t[j]
    BY <1>2, <1>3
  <2>. QED
    BY <1>2, <1>4, <2>1
<1>. HIDE DEF r
<1>6. \A j \in 1 .. n - k : k + j \in 1 .. n
  BY <1>1
<1>7. \A j \in 1 .. n : q[j] \in ElementsOf(q) /\ q[j] # s
  BY <1>n, <1>1, InElements
<1>8. \A j \in 1 .. n - k + 1 : j = n - k + 1 \/ j \in 1 .. n - k
  BY <1>n, <1>1
<1>9. \A i, j \in 1 .. n : q[i] = q[j] => i = j
  BY <1>n, <1>1 DEF Distinct
<1>10. \A i \in 1 .. k : i \in 1 .. n
  BY <1>n, <1>1
<1>11. Distinct(r)
  <2>. SUFFICES ASSUME NEW i \in 1 .. n - k + 1, NEW j \in 1 .. n - k + 1, r[i] = r[j]
                PROVE  i = j
    BY <1>n, <1>1, <1>5 DEF Distinct
  <2>1. CASE i \in 1 .. n - k /\ j \in 1 .. n - k
    <3>1. k + i = k + j
      BY <1>n, <1>1, <1>5, <1>6, <1>9, <2>1
    <3>. QED
      BY <1>n, <1>1, <3>1
  <2>2. CASE i \in 1 .. n - k /\ j = n - k + 1
    BY <1>n, <1>1, <1>5, <1>6, <1>7, <2>2
  <2>3. CASE i = n - k + 1 /\ j \in 1 .. n - k
    BY <1>n, <1>1, <1>5, <1>6, <1>7, <2>3
  <2>. QED
    BY <1>n, <1>1, <1>8, <2>1, <2>2, <2>3
<1>12. Firsts(q, k) \subseteq ElementsOf(q)
  BY <1>n, <1>1, <1>7, <1>10 DEF Firsts
<1>13. \A x \in ElementsOf(r) : x \in (ElementsOf(q) \ Firsts(q, k)) \cup {s}
  <2>. SUFFICES ASSUME NEW j \in 1 .. n - k, r[j] = q[k + j]
                PROVE  q[k + j] \in ElementsOf(q) \ Firsts(q, k)
    <3>1. \A x : x \in ElementsOf(r) => \E j \in 1 .. Len(r) : r[j] = x
      BY <1>n, <1>1, <1>5, InElements
    <3>. QED
      BY <1>n, <1>1, <1>5, <1>8, <3>1
  <2>1. k + j \in 1 .. n /\ \A i \in 1 .. k : i # k + j
    BY <1>n, <1>1, <1>6
  <2>2. \A i \in 1 .. k : q[i] # q[k + j]
    BY <1>n, <1>1, <1>9, <1>10, <2>1
  <2>. QED
    BY <1>n, <1>1, <1>7, <2>1, <2>2 DEF Firsts
<1>14. \A j \in 1 .. n - k + 1 : r[j] \in ElementsOf(r)
  <2>1. \A j \in 1 .. Len(r) : r[j] \in ElementsOf(r)
    BY <1>n, <1>1, <1>5, InElements
  <2>. QED
    BY <1>n, <1>1, <1>5, <2>1
<1>15. s \in ElementsOf(r)
  <2>1. n - k + 1 \in 1 .. n - k + 1
    BY <1>n, <1>1
  <2>. QED
    BY <1>n, <1>1, <1>5, <1>14, <2>1
<1>16. \A x \in ElementsOf(q) \ Firsts(q, k) : x \in ElementsOf(r)
  <2>. TAKE x \in ElementsOf(q) \ Firsts(q, k)
  <2>1. PICK j \in 1 .. n : q[j] = x
    BY <1>n, <1>1, InElements
  <2>2. ~(j <= k)
    <3>1. ASSUME j <= k PROVE j \in 1 .. k
      BY <1>n, <1>1, <3>1
    <3>. QED
      BY <1>n, <1>1, <2>1, <3>1 DEF Firsts
  <2>3. j - k \in 1 .. n - k /\ k + (j - k) = j /\ j - k \in 1 .. n - k + 1
    BY <1>n, <1>1, <2>2
  <2>4. r[j - k] = x
    BY <1>n, <1>1, <1>5, <2>1, <2>3
  <2>. QED
    BY <1>n, <1>1, <1>14, <2>3, <2>4
<1>17. ElementsOf(r) = (ElementsOf(q) \ Firsts(q, k)) \cup {s}
  BY <1>n, <1>1, <1>13, <1>15, <1>16
<1>. QED
  BY <1>n, <1>5, <1>11, <1>12, <1>17 DEF r

-----------------------------------------------------------------------------
(* The map in memory *)

(* A map names nothing twice, is within its cap, and no session in it is   *)
(* queued to be forgotten.                                                 *)
MapOk(q, queue) == Distinct(q) /\ Len(q) <= MaxSessions /\ queue \cap ElementsOf(q) = {}

MapsOk ==
    /\ live \in [Procs -> Seq(Ids)]
    /\ forget \in [Procs -> SUBSET Ids]
    /\ \A p \in Procs : MapOk(live[p], forget[p])

LEMMA LiveIs ==
    \A p : Live(p) = ElementsOf(live[p]) /\ Evicted(p) = Firsts(live[p], Excess(p))
  BY DEF Live, ElementsOf, Evicted, Firsts

(* What a step may do to the map of p: nothing but its order, or let s in  *)
(* with binding c, the evicted ids making room.                            *)
OtherMaps(p) ==
    \A q \in Procs \ {p} : live'[q] = live[q] /\ binding'[q] = binding[q] /\ forget'[q] = forget[q]

Stays(p) ==
    OtherMaps(p) /\ ElementsOf(live'[p]) = Live(p) /\ UNCHANGED <<binding, forget>>

Comes(p, s, c) ==
    /\ OtherMaps(p)
    /\ ElementsOf(live'[p]) = (Live(p) \ Evicted(p)) \cup {s}
    /\ forget'[p] = (forget[p] \cup Evicted(p)) \ {s}
    /\ binding'[p][s] = c
    /\ \A x \in Ids \ {s} : binding'[p][x] = IF x \in Evicted(p) THEN Unbound ELSE binding[p][x]

LEMMA AdmitIs ==
    ASSUME StoreInv, MapsOk, NEW p \in Procs, NEW s \in Ids \ Live(p), NEW conv, Admit(p, s, conv)
    PROVE  MapsOk' /\ Comes(p, s, conv)
<1>. DEFINE k == Excess(p)
            q == live[p]
            e == Evicted(p)
<1>1. q \in Seq(Ids) /\ Distinct(q) /\ Len(q) \in Nat /\ Len(q) <= MaxSessions
  BY DEF MapsOk, MapOk
<1>2. k \in 0 .. Len(q) /\ Len(q) - k + 1 <= MaxSessions
  BY <1>1, StoreAssumption DEF Excess
<1>3. live' = [live EXCEPT ![p] = Admitted(q, k, s)]
  BY DEF Admit, Admitted, MapsOk
<1>4. live'[p] = Admitted(q, k, s)
  BY <1>3 DEF MapsOk
<1>5. s \in Ids \ ElementsOf(q) /\ Live(p) = ElementsOf(q) /\ e = Firsts(q, k)
  BY LiveIs
<1>6. forget' = [forget EXCEPT ![p] = (forget[p] \cup e) \ {s}]
  BY DEF Admit, KeepAnswers, MapsOk
<1>7. binding' = [binding EXCEPT ![p] = [x \in Ids |-> CASE x = s -> conv
                                                        [] x # s /\ x \in e -> Unbound
                                                        [] OTHER -> binding[p][x]]]
  BY DEF Admit, StoreInv
<1>. HIDE DEF k, q, e
<1>8. /\ live'[p] \in Seq(Ids) /\ Len(live'[p]) <= MaxSessions /\ Distinct(live'[p])
      /\ ElementsOf(live'[p]) = (Live(p) \ e) \cup {s} /\ e \subseteq Live(p)
  BY <1>1, <1>2, <1>4, <1>5, DroppedAndAdded
<1>9. e \subseteq Ids /\ forget[p] \subseteq Ids /\ forget[p] \cap Live(p) = {}
  <2>1. Live(p) \subseteq Ids
    BY <1>1, <1>5, InElements
  <2>. QED
    BY <1>5, <1>8, <2>1 DEF MapsOk, MapOk, q
<1>10. forget'[p] = (forget[p] \cup e) \ {s} /\ forget' \in [Procs -> SUBSET Ids]
  BY <1>6, <1>9 DEF MapsOk
<1>11. live' \in [Procs -> Seq(Ids)]
  BY <1>3, <1>4, <1>8 DEF MapsOk
<1>12. OtherMaps(p)
  BY <1>3, <1>6, <1>7 DEF OtherMaps, MapsOk, StoreInv
<1>13. MapOk(live'[p], forget'[p])
  BY <1>8, <1>9, <1>10 DEF MapOk
<1>14. MapsOk'
  BY <1>10, <1>11, <1>12, <1>13 DEF MapsOk, OtherMaps
<1>15. /\ binding'[p][s] = conv
       /\ \A x \in Ids \ {s} : binding'[p][x] = IF x \in e THEN Unbound ELSE binding[p][x]
  BY <1>7 DEF StoreInv
<1>. QED
  BY <1>8, <1>10, <1>12, <1>14, <1>15 DEF Comes, e

(* A step that changes neither map nor queue.                              *)
LEMMA SameMaps == MapsOk /\ UNCHANGED <<live, forget>> => MapsOk'
  BY DEF MapsOk

LEMMA TouchIs ==
    ASSUME StoreInv, MapsOk, NEW p \in Procs, NEW s \in Ids,
           live' = [live EXCEPT ![p] = Touched(p, s)], UNCHANGED <<binding, forget>>
    PROVE  MapsOk' /\ Stays(p)
<1>. DEFINE q == live[p]
            r == Touched(p, s)
<1>1. q \in Seq(Ids) /\ Distinct(q) /\ Len(q) \in Nat /\ Len(q) <= MaxSessions /\ Live(p) = ElementsOf(q)
  BY LiveIs DEF MapsOk, MapOk
<1>2. r \in Seq(Ids) /\ Len(r) = Len(q) /\ Distinct(r) /\ ElementsOf(r) = ElementsOf(q)
  <2>1. CASE s \in Live(p)
    <3>1. r = Append(Without(q, s), s)
      BY <2>1 DEF Touched
    <3>. HIDE DEF q, r
    <3>. QED
      BY <1>1, <2>1, <3>1, MovedToEnd
  <2>2. CASE s \notin Live(p)
    BY <1>1, <2>2 DEF Touched
  <2>. QED
    BY <2>1, <2>2
<1>. HIDE DEF r
<1>3. live' = [live EXCEPT ![p] = r]
  BY DEF r
<1>4. live'[p] = r /\ live' \in [Procs -> Seq(Ids)] /\ \A x \in Procs \ {p} : live'[x] = live[x]
  BY <1>2, <1>3 DEF MapsOk
<1>5. MapOk(live'[p], forget'[p])
  BY <1>1, <1>2, <1>4 DEF MapOk, MapsOk
<1>6. OtherMaps(p)
  BY <1>4 DEF OtherMaps
<1>7. MapsOk'
  BY <1>4, <1>5, <1>6 DEF MapsOk, OtherMaps
<1>. QED
  BY <1>1, <1>2, <1>4, <1>6, <1>7 DEF Stays

LEMMA RecallIs ==
    ASSUME StoreInv, MapsOk, NEW p \in Procs, NEW s \in Ids, Recall(p, s)
    PROVE  /\ MapsOk'
           /\ \/ Stays(p) /\ (s \in Live(p) \/ ~Restorable(s))
              \/ s \notin Live(p) /\ Restorable(s) /\ Comes(p, s, store.entry[s].conv)
<1>1. CASE s \in Live(p) \/ ~Restorable(s)
  BY <1>1, TouchIs DEF Recall
<1>2. CASE s \notin Live(p) /\ Restorable(s)
  BY <1>2, AdmitIs DEF Recall
<1>. QED
  BY <1>1, <1>2

-----------------------------------------------------------------------------
(* Ids in use, maps and queues: the invariant *)

(* What is live, under way or on disk is in use: session/new mints none of *)
(* it again.                                                               *)
MemInv ==
    /\ MapsOk
    /\ victims \in [Procs -> SUBSET Ids]
    /\ answers \in [Procs -> SUBSET Ids]
    /\ issued \subseteq Ids
    /\ Present(store.entry) \subseteq issued
    /\ \A p \in Procs : Live(p) \subseteq issued /\ (op[p].pc # "idle" => op[p].session \in issued)

LEMMA InitMem == Init => MemInv
<1>. SUFFICES ASSUME Init PROVE MemInv
  OBVIOUS
<1>1. ASSUME NEW p \in Procs PROVE live[p] = <<>> /\ ElementsOf(live[p]) = {} /\ MapOk(live[p], forget[p])
  <2>1. live[p] = <<>> /\ ElementsOf(<<>>) = {}
    BY DEF Init, ElementsOf
  <2>. QED
    BY <2>1, StoreAssumption DEF MapOk, Distinct
<1>2. MapsOk
  BY <1>1 DEF Init, MapsOk
<1>3. ASSUME NEW p \in Procs PROVE Live(p) = {} /\ op[p].pc = "idle"
  BY <1>1, LiveIs DEF Init, Idle
<1>4. Present(store.entry) = {}
  BY EmptyIs DEF Init
<1>. QED
  BY <1>2, <1>3, <1>4 DEF Init, MemInv

(* A step of p after which its map and its operation name s or what they   *)
(* named before.                                                           *)
LEMMA MemStep ==
    ASSUME MemInv, NEW p \in Procs, NEW S \in SUBSET issued', MapsOk',
           issued \subseteq issued', issued' \subseteq Ids,
           victims' \in [Procs -> SUBSET Ids], answers' \in [Procs -> SUBSET Ids],
           \A q \in Procs \ {p} : live'[q] = live[q] /\ op'[q] = op[q],
           ElementsOf(live'[p]) \subseteq Live(p) \cup S,
           op'[p].pc # "idle" => op'[p].session \in S \/ op'[p] = op[p]
                                 \/ (op[p].pc # "idle" /\ op'[p].session = op[p].session),
           Present(store'.entry) \subseteq issued
    PROVE  MemInv'
<1>1. ASSUME NEW q \in Procs
      PROVE  Live(q)' \subseteq issued' /\ (op'[q].pc # "idle" => op'[q].session \in issued')
  <2>1. Live(q)' = ElementsOf(live'[q]) /\ Live(q) = ElementsOf(live[q])
    BY LiveIs DEF Live, ElementsOf
  <2>2. CASE q = p
    BY <2>1, <2>2 DEF MemInv
  <2>3. CASE q # p
    BY <2>1, <2>3 DEF MemInv
  <2>. QED
    BY <2>2, <2>3
<1>2. Present(store.entry)' \subseteq issued'
  BY DEF Present
<1>. QED
  BY <1>1, <1>2 DEF MemInv

(* A step of p that adds no id to its map, and starts no operation.        *)
LEMMA QuietStep ==
    ASSUME MemInv, NEW p \in Procs, MapsOk', UNCHANGED issued,
           victims' \in [Procs -> SUBSET Ids], answers' \in [Procs -> SUBSET Ids],
           \A q \in Procs \ {p} : live'[q] = live[q] /\ op'[q] = op[q],
           ElementsOf(live'[p]) \subseteq Live(p),
           op'[p].pc # "idle" => op[p].pc # "idle" /\ op'[p].session = op[p].session,
           Present(store'.entry) \subseteq issued
    PROVE  MemInv'
<1>1. {} \in SUBSET issued' /\ issued \subseteq issued' /\ issued' \subseteq Ids
      /\ ElementsOf(live'[p]) \subseteq Live(p) \cup {}
  BY DEF MemInv
<1>. QED
  BY <1>1, MemStep

LEMMA RequestMem == ASSUME StoreInv, MemInv, NEW p \in Procs, Request(p) PROVE MemInv'
<1>1. PICK s \in Ids : New(p, s) \/ Resume(p, s) \/ Load(p, s) \/ SetModel(p, s) \/ Prompt(p, s)
  BY DEF Request
<1>2. MapsOk /\ victims' = victims /\ store' = store /\ Live(p) \subseteq issued /\ answers' = answers
  BY <1>1 DEF MemInv, New, Resume, Load, SetModel, Prompt, Recall, diskVars
<1>3. s \in issued' /\ issued \subseteq issued' /\ issued' \subseteq Ids
  <2>1. Known(p, s) => s \in issued
    <3>1. ASSUME Restorable(s) PROVE s \in Present(store.entry)
      BY <3>1 DEF Restorable, Present, Absent
    <3>. QED
      BY <1>2, <3>1 DEF Known, MemInv
  <2>. QED
    BY <1>1, <2>1 DEF New, Resume, Load, SetModel, Prompt, MemInv
<1>4. MapsOk' /\ (Stays(p) \/ \E c : Comes(p, s, c))
  <2>1. CASE New(p, s)
    <3>1. s \notin Live(p) /\ Admit(p, s, Unbound)
      BY <1>2, <2>1 DEF New
    <3>. QED
      BY <1>2, <3>1, AdmitIs
  <2>2. CASE ~New(p, s)
    <3>1. Recall(p, s)
      BY <1>1, <2>2 DEF Resume, Load, SetModel, Prompt
    <3>. QED
      BY <1>2, <3>1, RecallIs
  <2>. QED
    BY <2>1, <2>2
<1>5. /\ \A q \in Procs \ {p} : live'[q] = live[q]
      /\ ElementsOf(live'[p]) \subseteq Live(p) \cup {s}
  BY <1>4 DEF Stays, Comes, OtherMaps
<1>6. /\ \A q \in Procs \ {p} : op'[q] = op[q]
      /\ op'[p].session = s \/ op'[p] = op[p]
  <2>1. CASE op' = op
    BY <2>1
  <2>2. ASSUME NEW pc, NEW c, NEW t, Begin(p, pc, s, c, t)
        PROVE  op'[p].session = s /\ \A q \in Procs \ {p} : op'[q] = op[q]
    <3>. DEFINE o == [Idle EXCEPT !.pc = pc, !.session = s, !.conv = c, !.turn = t]
    <3>1. o.session = s
      BY DEF Idle
    <3>2. op' = [op EXCEPT ![p] = o]
      BY <2>2 DEF Begin
    <3>. QED
      BY <3>1, <3>2 DEF StoreInv
  <2>3. op' = op \/ \E pc, c, t : Begin(p, pc, s, c, t)
    BY <1>1 DEF New, Resume, Load, SetModel, Prompt
  <2>. QED
    BY <2>1, <2>2, <2>3
<1>7. victims' \in [Procs -> SUBSET Ids] /\ answers' \in [Procs -> SUBSET Ids]
      /\ Present(store'.entry) \subseteq issued
  BY <1>2 DEF MemInv
<1>8. {s} \in SUBSET issued'
  BY <1>3
<1>. QED
  BY <1>3, <1>4, <1>5, <1>6, <1>7, <1>8, MemStep

LEMMA PersistMem == ASSUME StoreInv, MemInv, NEW p \in Procs, Persist(p) PROVE MemInv'
<1>1. UNCHANGED <<memVars, issued>>
  BY DEF Persist, Lock, LoadAndPrune, Write, Rename, WriteFails
<1>2. MapsOk' /\ live' = live /\ issued' = issued /\ victims' = victims /\ answers' = answers
  BY <1>1, SameMaps DEF memVars, MemInv
<1>3. /\ \A q \in Procs \ {p} : op'[q] = op[q]
      /\ op'[p].pc # "idle" => op[p].pc # "idle" /\ op'[p].session = op[p].session
  <2>1. op[p] \in Ops /\ op \in [Procs -> Ops]
    BY DEF StoreInv
  <2>2. CASE Lock(p)
    BY <2>1, <2>2 DEF Lock, Ops
  <2>3. CASE LoadAndPrune(p)
    BY <2>1, <2>3 DEF LoadAndPrune, Ops
  <2>4. CASE Write(p)
    BY <2>1, <2>4 DEF Write, Ops
  <2>5. CASE Rename(p) \/ WriteFails(p)
    BY <2>1, <2>5 DEF Rename, WriteFails, Idle
  <2>. QED
    BY <2>2, <2>3, <2>4, <2>5 DEF Persist
<1>4. Present(store'.entry) \subseteq issued
  <2>1. CASE store' = store
    BY <2>1 DEF MemInv
  <2>2. CASE Rename(p)
    <3>1. PICK s, new, old : s = op[p].session /\ new = op[p].next /\ old = store.entry
      OBVIOUS
    <3>2. op[p].pc = "rename" /\ store'.entry = new
      BY <2>2, <3>1 DEF Rename
    <3>3. Kept(old, new, s) /\ s \in issued /\ Present(old) \subseteq issued
      BY <3>1, <3>2, RenameIs DEF MemInv
    <3>4. Present(new) \subseteq Present(old) \cup {s}
      BY <3>3 DEF Kept, Lost, Present
    <3>. QED
      BY <3>2, <3>3, <3>4
  <2>3. store' = store \/ Rename(p)
    BY DEF Persist, Lock, LoadAndPrune, Write, StartWriting, WriteFails, diskVars
  <2>. QED
    BY <2>1, <2>2, <2>3
<1>5. ElementsOf(live'[p]) = Live(p)
  BY <1>2, LiveIs
<1>. QED
  BY <1>2, <1>3, <1>4, <1>5, QuietStep DEF MemInv

LEMMA TurnMem == ASSUME StoreInv, MemInv, NEW p \in Procs, Turn(p) PROVE MemInv'
<1>1. /\ live' = live /\ forget' = forget /\ victims' = victims /\ issued' = issued /\ store' = store
      /\ op[p].pc = "turn" /\ op[p].session \in issued
  BY DEF Turn, Remember, EndTurnBound, EndTurnUnbound, memVars, diskVars, MemInv
<1>2. MapsOk'
  BY <1>1, SameMaps DEF MemInv
<1>3. answers' \in [Procs -> SUBSET Ids]
  BY <1>1 DEF Turn, Remember, EndTurnBound, EndTurnUnbound, memVars, MemInv
<1>4. /\ \A q \in Procs \ {p} : op'[q] = op[q]
      /\ op'[p].pc # "idle" => op'[p].session = op[p].session
  <2>1. op' \in {op, [op EXCEPT ![p] = Idle],
                 [op EXCEPT ![p] = [Idle EXCEPT !.pc = "lock", !.session = op[p].session,
                                                !.conv = op[p].session, !.turn = TRUE]]}
    BY DEF Turn, Remember, EndTurnBound, EndTurnUnbound, Begin
  <2>2. op \in [Procs -> Ops]
    BY DEF StoreInv
  <2>3. Idle.pc = "idle" /\ [Idle EXCEPT !.pc = "lock", !.session = op[p].session,
                                          !.conv = op[p].session, !.turn = TRUE].session = op[p].session
    BY DEF Idle
  <2>4. CASE op' = op
    BY <2>4
  <2>5. CASE op' = [op EXCEPT ![p] = Idle]
    BY <2>2, <2>3, <2>5
  <2>6. CASE op' # op /\ op' # [op EXCEPT ![p] = Idle]
    BY <2>1, <2>2, <2>3, <2>6
  <2>. QED
    BY <2>4, <2>5, <2>6
<1>5. ElementsOf(live'[p]) = Live(p) /\ Present(store'.entry) \subseteq issued
  BY <1>1, LiveIs DEF MemInv
<1>. QED
  BY <1>1, <1>2, <1>3, <1>4, <1>5, QuietStep DEF MemInv

LEMMA OtherMem == ASSUME StoreInv, MemInv, NEW p \in Procs, Drain(p) \/ Crash(p) PROVE MemInv'
<1>1. CASE Drain(p)
  <2>1. live' = live /\ op' = op /\ store' = store /\ issued' = issued
    BY <1>1 DEF Drain, TakeForgets, ForgetSession, diskVars
  <2>2. /\ forget' \in [Procs -> SUBSET Ids] /\ \A q \in Procs : forget'[q] \subseteq forget[q]
        /\ victims' \in [Procs -> SUBSET Ids] /\ answers' \in [Procs -> SUBSET Ids]
    BY <1>1 DEF Drain, TakeForgets, ForgetSession, MemInv, MapsOk
  <2>3. MapsOk'
    BY <2>1, <2>2 DEF MemInv, MapsOk, MapOk
  <2>4. ElementsOf(live'[p]) = Live(p) /\ Present(store'.entry) \subseteq issued
    BY <2>1, LiveIs DEF MemInv
  <2>. QED
    BY <2>1, <2>2, <2>3, <2>4, QuietStep DEF MemInv
<1>2. CASE Crash(p)
  <2>1. /\ live' = [live EXCEPT ![p] = <<>>] /\ forget' = [forget EXCEPT ![p] = {}]
        /\ op' = [op EXCEPT ![p] = Idle] /\ store' = store /\ issued' = issued
    BY <1>2 DEF Crash
  <2>2. /\ victims' \in [Procs -> SUBSET Ids] /\ answers' \in [Procs -> SUBSET Ids]
    BY <1>2 DEF Crash, MemInv
  <2>3. live'[p] = <<>> /\ ElementsOf(<<>>) = {} /\ forget'[p] = {} /\ op'[p] = Idle
    BY <2>1 DEF MemInv, MapsOk, StoreInv, ElementsOf
  <2>4. \A q \in Procs \ {p} : live'[q] = live[q] /\ forget'[q] = forget[q] /\ op'[q] = op[q]
    BY <2>1 DEF MemInv, MapsOk, StoreInv
  <2>5. MapOk(live'[p], forget'[p])
    BY <2>3, StoreAssumption DEF MapOk, Distinct
  <2>6. live' \in [Procs -> Seq(Ids)] /\ forget' \in [Procs -> SUBSET Ids]
    BY <2>1 DEF MemInv, MapsOk
  <2>7. MapsOk'
    BY <2>4, <2>5, <2>6 DEF MapsOk, MemInv
  <2>8. Present(store'.entry) \subseteq issued /\ op'[p].pc = "idle"
    BY <2>1, <2>3 DEF MemInv, Idle
  <2>. QED
    BY <2>1, <2>2, <2>3, <2>4, <2>7, <2>8, QuietStep DEF MemInv
<1>. QED
  BY <1>1, <1>2

LEMMA StepMem == ASSUME StoreInv, MemInv, [Next]_vars PROVE MemInv'
<1>1. CASE UNCHANGED vars
  <2>1. UNCHANGED <<live, forget, victims, answers, op, store, issued>>
    BY <1>1 DEF vars, memVars, diskVars
  <2>2. MapsOk'
    BY <2>1, SameMaps DEF MemInv
  <2>3. Present(store.entry)' = Present(store.entry) /\ \A p \in Procs : Live(p)' = Live(p)
    BY <2>1 DEF Present, Live
  <2>. QED
    BY <2>1, <2>2, <2>3 DEF MemInv
<1>2. CASE Next
  BY <1>2, RequestMem, TurnMem, PersistMem, OtherMem DEF Next
<1>. QED
  BY <1>1, <1>2

LEMMA MemIsInvariant == Spec => []MemInv
<1>. QED
  BY InitMem, InitStore, StepMem, StoreIsInvariant, PTL DEF Spec

(* No map outgrows its cap, and no session in a map is queued to be        *)
(* forgotten, whatever comes back while the queue is being drained.        *)
THEOREM QueueNamesTheDead == Spec => []QueueNamesOnlyTheDead
<1>1. MemInv => QueueNamesOnlyTheDead
  BY LiveIs DEF MemInv, MapsOk, MapOk, QueueNamesOnlyTheDead
<1>. QED
  BY <1>1, MemIsInvariant, PTL

(* A map is as long as the set of its ids.                                 *)
LEMMA DistinctCount ==
    ASSUME NEW q \in Seq(Ids), Distinct(q)
    PROVE  Cardinality(ElementsOf(q)) = Len(q)
<1>. DEFINE f == [i \in 1 .. Len(q) |-> q[i]]
<1>1. f \in [1 .. Len(q) -> ElementsOf(q)]
  BY InElements
<1>2. f \in Injection(1 .. Len(q), ElementsOf(q))
  <2>1. \A a, b \in 1 .. Len(q) : f[a] = f[b] => a = b
    BY DEF Distinct
  <2>. QED
    BY <1>1, <2>1 DEF Injection, IsInjective
<1>3. \A x \in ElementsOf(q) : \E i \in 1 .. Len(q) : f[i] = x
  BY InElements
<1>4. f \in Surjection(1 .. Len(q), ElementsOf(q))
  BY <1>1, <1>3 DEF Surjection
<1>5. ExistsBijection(1 .. Len(q), ElementsOf(q))
  BY <1>2, <1>4 DEF ExistsBijection, Bijection
<1>6. IsFiniteSet(1 .. Len(q)) /\ Cardinality(1 .. Len(q)) = Len(q)
  <2>1. Len(q) \in Nat /\ Len(q) \in Int /\ 1 \in Int
    OBVIOUS
  <2>2. IsFiniteSet(1 .. Len(q)) /\ Cardinality(1 .. Len(q)) = IF 1 > Len(q) THEN 0 ELSE Len(q) - 1 + 1
    BY <2>1, FS_Interval
  <2>. QED
    BY <2>1, <2>2
<1>. QED
  BY <1>5, <1>6, FS_Bijection

(* Maps, queues, operations and files keep their types, and neither a map  *)
(* nor the file outgrows its cap.                                          *)
THEOREM StoreTypes == Spec => []TypeOK
<1>1. ASSUME StoreInv, MemInv PROVE TypeOK
  <2>1. \A p \in Procs : Cardinality(Live(p)) = Len(live[p]) /\ Len(live[p]) <= MaxSessions
    BY <1>1, LiveIs, DistinctCount DEF MemInv, MapsOk, MapOk
  <2>. QED
    BY <1>1, <2>1 DEF TypeOK, MemInv, MapsOk, StoreInv, FileInv
<1>. QED
  BY <1>1, StoreIsInvariant, MemIsInvariant, PTL

-----------------------------------------------------------------------------
(* Hosts that use sessions of theirs only *)

Here(p) == ElementsOf(live[p])

LEMMA HereIs == \A p : Live(p) = Here(p) /\ Live(p)' = ElementsOf(live'[p])
  BY DEF Live, Here, ElementsOf

(* What a request of such a host does: its session is in the map when its  *)
(* operation starts, and what the operation saves is what the map says.    *)
Starts(p, s) ==
    \/ op' = op
    \/ /\ s \in ElementsOf(live'[p])
       /\ op'[p].session = s
       /\ op'[p].pc \in {"turn", "lock"}
       /\ op'[p].pc = "lock" => op'[p].conv = binding'[p][s]
       /\ \A q \in Procs \ {p} : op'[q] = op[q]

LEMMA RequestIs ==
    ASSUME UnknownPrompts = FALSE, StoreInv, MemInv, NEW p \in Procs, Request(p)
    PROVE  /\ op[p].pc = "idle" /\ UNCHANGED <<store, victims, answers>>
           /\ \E s \in Ids :
                /\ Starts(p, s)
                /\ \/ Stays(p)
                   \/ s \notin issued /\ Comes(p, s, Unbound)
                   \/ s \notin Live(p) /\ Restorable(s) /\ Comes(p, s, store.entry[s].conv)
<1>1. PICK s \in Ids : New(p, s) \/ Resume(p, s) \/ Load(p, s) \/ SetModel(p, s) \/ Prompt(p, s)
  BY DEF Request
<1>2. op[p].pc = "idle" /\ UNCHANGED <<store, victims, answers>>
  BY <1>1 DEF New, Resume, Load, SetModel, Prompt, Recall, diskVars
<1>3. CASE New(p, s)
  <2>1. s \notin Live(p) /\ s \notin issued /\ Admit(p, s, Unbound) /\ op' = op
    BY <1>3 DEF New, MemInv
  <2>2. Comes(p, s, Unbound)
    BY <2>1, AdmitIs DEF MemInv
  <2>. QED
    BY <1>2, <2>1, <2>2 DEF Starts
<1>4. CASE ~New(p, s)
  <2>1. Recall(p, s)
    BY <1>1, <1>4 DEF Resume, Load, SetModel, Prompt
  <2>2. \/ Stays(p) /\ (s \in Live(p) \/ ~Restorable(s))
        \/ s \notin Live(p) /\ Restorable(s) /\ Comes(p, s, store.entry[s].conv)
    BY <2>1, RecallIs DEF MemInv
  <2>3. Known(p, s) => s \in ElementsOf(live'[p]) /\ binding'[p][s] = BindingAfterRecall(p, s)
    BY <2>2 DEF Known, Stays, Comes, BindingAfterRecall
  <2>4. ASSUME NEW pc \in {"turn", "lock"}, NEW c, NEW t, Known(p, s), Begin(p, pc, s, c, t),
               pc = "lock" => c = BindingAfterRecall(p, s)
        PROVE  Starts(p, s)
    <3>. DEFINE o == [Idle EXCEPT !.pc = pc, !.session = s, !.conv = c, !.turn = t]
    <3>1. o.pc = pc /\ o.session = s /\ o.conv = c
      BY DEF Idle
    <3>2. op' = [op EXCEPT ![p] = o]
      BY <2>4 DEF Begin
    <3>. HIDE DEF o
    <3>3. op'[p] = o /\ \A q \in Procs \ {p} : op'[q] = op[q]
      BY <3>2 DEF StoreInv
    <3>. QED
      BY <2>3, <2>4, <3>1, <3>3 DEF Starts
  <2>5. ASSUME Resume(p, s) PROVE Starts(p, s)
    BY <2>5 DEF Resume, Starts
  <2>6. ASSUME Load(p, s) \/ SetModel(p, s) PROVE Starts(p, s)
    BY <2>4, <2>6 DEF Load, SetModel
  <2>7. ASSUME Prompt(p, s) PROVE Starts(p, s)
    BY <2>4, <2>7 DEF Prompt
  <2>8. Starts(p, s)
    BY <1>1, <1>4, <2>5, <2>6, <2>7
  <2>. QED
    BY <1>2, <2>2, <2>8
<1>. QED
  BY <1>3, <1>4

(* Everybody else's step: the map of p is as it was, or the process dies.  *)
LEMMA OpStep ==
    ASSUME StoreInv, MemInv, NEW p \in Procs, Turn(p) \/ Persist(p) \/ Drain(p)
    PROVE  /\ live' = live
           /\ \A q \in Procs \ {p} : op'[q] = op[q]
           /\ op'[p].pc # "idle" => op[p].pc # "idle" /\ op'[p].session = op[p].session
<1>1. live' = live
  BY DEF Turn, Remember, EndTurnBound, EndTurnUnbound, Persist, Lock, LoadAndPrune, Write,
         Rename, WriteFails, Drain, TakeForgets, ForgetSession, memVars
<1>2. op[p] \in Ops /\ op \in [Procs -> Ops]
  BY DEF StoreInv
<1>3. CASE op' = op
  BY <1>1, <1>3
<1>4. CASE Lock(p)
  BY <1>1, <1>2, <1>4 DEF Lock, Ops
<1>5. CASE LoadAndPrune(p)
  BY <1>1, <1>2, <1>5 DEF LoadAndPrune, Ops
<1>6. CASE Write(p)
  BY <1>1, <1>2, <1>6 DEF Write, Ops
<1>7. CASE op' = [op EXCEPT ![p] = Idle]
  BY <1>1, <1>2, <1>7 DEF Idle
<1>8. CASE EndTurnBound(p)
  <2>. DEFINE o == [Idle EXCEPT !.pc = "lock", !.session = op[p].session,
                                !.conv = op[p].session, !.turn = TRUE]
  <2>1. op' = [op EXCEPT ![p] = o] /\ op[p].pc = "turn"
    BY <1>8 DEF EndTurnBound, Begin
  <2>2. o.session = op[p].session
    BY DEF Idle
  <2>. QED
    BY <1>1, <1>2, <2>1, <2>2
<1>. QED
  BY <1>3, <1>4, <1>5, <1>6, <1>7, <1>8 DEF Turn, Remember, EndTurnUnbound, Persist, Rename,
     WriteFails, Drain, TakeForgets, ForgetSession

LEMMA CrashIs ==
    ASSUME StoreInv, MemInv, NEW p \in Procs, Crash(p)
    PROVE  /\ ElementsOf(live'[p]) = {} /\ op'[p].pc = "idle" /\ answers'[p] = {} /\ store' = store
           /\ \A s \in Ids : binding'[p][s] = Unbound
           /\ \A q \in Procs \ {p} : /\ live'[q] = live[q] /\ op'[q] = op[q] /\ forget'[q] = forget[q]
                                     /\ victims'[q] = victims[q] /\ answers'[q] = answers[q]
                                     /\ binding'[q] = binding[q]
<1>1. live'[p] = <<>> /\ ElementsOf(<<>>) = {}
  BY DEF Crash, ElementsOf, MemInv, MapsOk
<1>2. op'[p].pc = "idle" /\ answers'[p] = {} /\ store' = store
  BY DEF Crash, StoreInv, MemInv, Idle
<1>3. \A s \in Ids : binding'[p][s] = Unbound
  BY DEF Crash, StoreInv
<1>. QED
  BY <1>1, <1>2, <1>3 DEF Crash, MemInv, MapsOk, StoreInv

(* An operation is for a session in the map, and remembered answers are of *)
(* sessions in it or queued to be forgotten.                               *)
HostInv ==
    \A p \in Procs :
      /\ op[p].pc # "idle" => op[p].session \in Live(p)
      /\ answers[p] \subseteq Live(p) \cup forget[p] \cup victims[p]

LEMMA StepHost ==
    ASSUME UnknownPrompts = FALSE, StoreInv, MemInv, HostInv, [Next]_vars
    PROVE  HostInv'
<1>0. \A q \in Procs : Live(q)' = ElementsOf(live'[q]) /\ Live(q) = ElementsOf(live[q])
  BY HereIs, LiveIs
<1>1. CASE UNCHANGED vars
  <2>1. UNCHANGED <<live, op, forget, victims, answers>>
    BY <1>1 DEF vars, memVars
  <2>. QED
    BY <1>0, <2>1 DEF HostInv
<1>2. ASSUME NEW p \in Procs, Request(p) PROVE HostInv'
  <2>1. op[p].pc = "idle" /\ UNCHANGED <<store, victims, answers>>
    BY <1>2, RequestIs
  <2>2. PICK s \in Ids : Starts(p, s) /\ (Stays(p) \/ \E c : Comes(p, s, c))
    BY <1>2, RequestIs
  <2>3. \A q \in Procs \ {p} : live'[q] = live[q] /\ forget'[q] = forget[q] /\ op'[q] = op[q]
    BY <2>2 DEF Starts, Stays, Comes, OtherMaps
  <2>4. op'[p].pc # "idle" => op'[p].session \in ElementsOf(live'[p])
    BY <2>1, <2>2 DEF Starts
  <2>5. Live(p) \cup forget[p] \subseteq ElementsOf(live'[p]) \cup forget'[p]
    BY <2>2 DEF Stays, Comes
  <2>. QED
    BY <1>0, <2>1, <2>3, <2>4, <2>5 DEF HostInv
<1>3. ASSUME NEW p \in Procs, Turn(p) \/ Persist(p) \/ Drain(p) PROVE HostInv'
  <2>1. /\ live' = live /\ \A q \in Procs \ {p} : op'[q] = op[q]
        /\ op'[p].pc # "idle" => op[p].pc # "idle" /\ op'[p].session = op[p].session
    BY <1>3, OpStep
  <2>2. \A q \in Procs : Live(q)' = Live(q) /\ (op'[q].pc # "idle" => op'[q].session \in Live(q))
    BY <1>0, <2>1 DEF HostInv
  <2>3. \A q \in Procs : answers'[q] \subseteq Live(q) \cup forget'[q] \cup victims'[q]
    <3>1. CASE UNCHANGED <<answers, forget, victims>>
      BY <3>1 DEF HostInv
    <3>2. CASE Remember(p)
      BY <3>2 DEF Remember, HostInv, MemInv
    <3>3. CASE TakeForgets(p)
      BY <3>3 DEF TakeForgets, HostInv, MemInv, MapsOk
    <3>4. CASE \E s \in Ids : ForgetSession(p, s)
      BY <3>4 DEF ForgetSession, HostInv, MemInv, MapsOk
    <3>. QED
      BY <1>3, <3>1, <3>2, <3>3, <3>4 DEF Turn, EndTurnBound, EndTurnUnbound, Persist, Lock,
         LoadAndPrune, Write, Rename, WriteFails, Drain, memVars
  <2>. QED
    BY <2>2, <2>3 DEF HostInv
<1>4. ASSUME NEW p \in Procs, Crash(p) PROVE HostInv'
  BY <1>0, <1>4, CrashIs DEF HostInv
<1>. QED
  BY <1>1, <1>2, <1>3, <1>4 DEF Next

LEMMA HostIsInvariant == UnknownPrompts = FALSE => (Spec => []HostInv)
<1>. SUFFICES ASSUME UnknownPrompts = FALSE PROVE Spec => []HostInv
  OBVIOUS
<1>1. Init => HostInv
  BY DEF Init, HostInv, Idle
<1>2. StoreInv /\ MemInv /\ HostInv /\ [Next]_vars => HostInv'
  BY StepHost
<1>. QED
  BY <1>1, <1>2, StoreIsInvariant, MemIsInvariant, PTL DEF Spec

(* With hosts that prompt only sessions of theirs, remembered answers      *)
(* belong to a session that is live or about to be forgotten, whatever the *)
(* order of evictions, returns of an id, drains and deaths.                *)
THEOREM AnswersBelong ==
    UnknownPrompts = FALSE => (Spec => []AnswersBelongToLiveSessions)
<1>. SUFFICES ASSUME UnknownPrompts = FALSE PROVE Spec => []AnswersBelongToLiveSessions
  OBVIOUS
<1>1. HostInv => AnswersBelongToLiveSessions
  BY DEF HostInv, AnswersBelongToLiveSessions
<1>. QED
  BY <1>1, HostIsInvariant, PTL

(* What an operation saves is what the map says; agy names a conversation  *)
(* after its session; and a session no conversation was recorded for is in *)
(* no other map, nor bound on disk.                                        *)
BoundTo(s, c) == c \in {s, Unbound}
OnlyIn(p, s) == store.entry[s].conv = Unbound /\ \A q \in Procs \ {p} : s \notin Live(q)

BindInv ==
    /\ \A p \in Procs : op[p].pc \in {"lock", "load", "write", "rename"}
                          => op[p].conv = binding[p][op[p].session]
    /\ \A s \in Ids : BoundTo(s, store.entry[s].conv) /\ \A p \in Procs : BoundTo(s, binding[p][s])
    /\ \A p \in Procs : \A s \in Ids : s \in Live(p) /\ binding[p][s] = Unbound => OnlyIn(p, s)

LEMMA InitBind == Init => BindInv
<1>. SUFFICES ASSUME Init PROVE BindInv
  OBVIOUS
<1>1. \A p \in Procs : Live(p) = {} /\ op[p].pc = "idle"
  BY DEF Init, Live, Idle
<1>2. \A s \in Ids : store.entry[s].conv = Unbound
  BY DEF Init, Empty, Absent
<1>. QED
  BY <1>1, <1>2 DEF BindInv, BoundTo, Init

(* A rename replaces a conversation on disk by the same one only, and its  *)
(* own session's by what the map of its process says.                      *)
LEMMA RenameBinds ==
    ASSUME StoreInv, HostInv, BindInv, NEW p \in Procs, Rename(p), NEW s \in Ids
    PROVE  /\ BoundTo(s, store'.entry[s].conv)
           /\ store.entry[s].conv # Unbound /\ store'.entry[s] # Absent
                => store'.entry[s].conv = store.entry[s].conv
           /\ store'.entry[s].conv # Unbound /\ store.entry[s].conv = Unbound
                => s = op[p].session /\ s \in Live(p) /\ binding[p][s] = s
<1>1. PICK x, new, old : x = op[p].session /\ new = op[p].next /\ old = store.entry
  OBVIOUS
<1>2. op[p].pc = "rename" /\ store'.entry = new
  BY <1>1 DEF Rename
<1>3. x \in Live(p) /\ op[p].conv = binding[p][x] /\ x \in Ids
  BY <1>1, <1>2, RenameIs DEF HostInv, BindInv
<1>4. new[x].conv = binding[p][x] /\ Kept(old, new, x)
  BY <1>1, <1>2, <1>3, RenameIs
<1>5. CASE s = x
  <2>1. BoundTo(s, binding[p][s]) /\ BoundTo(s, old[s].conv)
    BY <1>1 DEF BindInv
  <2>2. binding[p][s] = Unbound => old[s].conv = Unbound
    BY <1>1, <1>3, <1>5 DEF BindInv, OnlyIn
  <2>. QED
    BY <1>1, <1>2, <1>3, <1>4, <1>5, <2>1, <2>2 DEF BoundTo
<1>6. CASE s # x
  <2>1. new[s] = old[s] \/ new[s] = Absent
    BY <1>4, <1>6 DEF Kept, Lost
  <2>2. Absent.conv = Unbound /\ BoundTo(s, old[s].conv)
    BY <1>1 DEF Absent, BindInv
  <2>. QED
    BY <1>1, <1>2, <2>1, <2>2 DEF BoundTo
<1>. QED
  BY <1>5, <1>6

LEMMA StepBind ==
    ASSUME UnknownPrompts = FALSE, StoreInv, MemInv, HostInv, BindInv, [Next]_vars
    PROVE  BindInv'
<1>0. \A q \in Procs : Live(q)' = ElementsOf(live'[q]) /\ Live(q) = ElementsOf(live[q])
  BY HereIs, LiveIs
<1>1. CASE UNCHANGED vars
  <2>1. UNCHANGED <<live, op, binding, store>>
    BY <1>1 DEF vars, memVars, diskVars
  <2>2. \A p \in Procs, s \in Ids : OnlyIn(p, s)' <=> OnlyIn(p, s)
    BY <1>0, <2>1 DEF OnlyIn
  <2>. QED
    BY <1>0, <2>1, <2>2 DEF BindInv
<1>2. ASSUME NEW p \in Procs, Request(p) PROVE BindInv'
  <2>1. op[p].pc = "idle" /\ store' = store
    BY <1>2, RequestIs
  <2>2. PICK s \in Ids :
          /\ Starts(p, s)
          /\ \/ Stays(p)
             \/ s \notin issued /\ Comes(p, s, Unbound)
             \/ s \notin Live(p) /\ Restorable(s) /\ Comes(p, s, store.entry[s].conv)
    BY <1>2, RequestIs
  <2>3. \A q \in Procs \ {p} : live'[q] = live[q] /\ op'[q] = op[q] /\ binding'[q] = binding[q]
    BY <2>2 DEF Starts, Stays, Comes, OtherMaps
  <2>4. op'[p].pc \in {"lock", "load", "write", "rename"} => op'[p].conv = binding'[p][op'[p].session]
    BY <2>1, <2>2 DEF Starts
  <2>5. \A x \in Ids : BoundTo(x, binding'[p][x])
    BY <2>2 DEF Stays, Comes, BindInv, BoundTo
  <2>6. s \notin issued => store.entry[s].conv = Unbound /\ \A q \in Procs : s \notin Live(q)
    BY DEF MemInv, Present, Absent
  <2>7. Restorable(s) => store.entry[s].conv # Unbound
    BY DEF Restorable
  <2>8. ElementsOf(live'[p]) \subseteq Live(p) \cup {s}
    BY <2>2 DEF Stays, Comes
  <2>9. ASSUME NEW x \in Ids, x \in ElementsOf(live'[p]), binding'[p][x] = Unbound
        PROVE  store.entry[x].conv = Unbound /\ \A q \in Procs \ {p} : x \notin Live(q)
    <3>1. CASE x \in Live(p) /\ binding[p][x] = Unbound
      BY <3>1 DEF BindInv, OnlyIn
    <3>2. CASE ~(x \in Live(p) /\ binding[p][x] = Unbound)
      <4>1. x = s /\ s \notin issued
        BY <2>2, <2>7, <2>9, <3>2 DEF Stays, Comes
      <4>. QED
        BY <2>6, <4>1
    <3>. QED
      BY <3>1, <3>2
  <2>10. ASSUME NEW r \in Procs \ {p}, NEW x \in Live(r), x \in Ids, binding[r][x] = Unbound
         PROVE  /\ store.entry[x].conv = Unbound /\ x \notin ElementsOf(live'[p])
                /\ \A q \in Procs \ {r} : x \notin Live(q)
    <3>1. store.entry[x].conv = Unbound /\ \A q \in Procs \ {r} : x \notin Live(q)
      BY <2>10 DEF BindInv, OnlyIn
    <3>2. x \in ElementsOf(live'[p]) => x = s /\ (s \notin issued \/ Restorable(s))
      BY <2>2, <2>8, <3>1 DEF Stays
    <3>. QED
      BY <2>6, <2>7, <3>1, <3>2
  <2>11. \A r \in Procs, x \in Ids : x \in Live(r)' /\ binding'[r][x] = Unbound => OnlyIn(r, x)'
    <3>. SUFFICES ASSUME NEW r \in Procs, NEW x \in Ids, x \in ElementsOf(live'[r]), binding'[r][x] = Unbound
                  PROVE  store.entry[x].conv = Unbound /\ \A q \in Procs \ {r} : x \notin ElementsOf(live'[q])
      BY <1>0, <2>1 DEF OnlyIn
    <3>1. CASE r = p
      BY <1>0, <2>3, <2>9, <3>1
    <3>2. CASE r # p
      BY <1>0, <2>3, <2>10, <3>2
    <3>. QED
      BY <3>1, <3>2
  <2>12. \A q \in Procs : op'[q].pc \in {"lock", "load", "write", "rename"}
                            => op'[q].conv = binding'[q][op'[q].session]
    BY <2>3, <2>4 DEF BindInv
  <2>13. \A x \in Ids : BoundTo(x, store'.entry[x].conv) /\ \A q \in Procs : BoundTo(x, binding'[q][x])
    BY <2>1, <2>3, <2>5 DEF BindInv
  <2>. QED
    BY <2>11, <2>12, <2>13 DEF BindInv
<1>3. ASSUME NEW p \in Procs, EndTurnBound(p) PROVE BindInv'
  <2>1. PICK s : s = op[p].session
    OBVIOUS
  <2>2. s \in Live(p) /\ s \in Ids
    BY <1>3, <2>1 DEF EndTurnBound, HostInv, StoreInv, OpOk
  <2>3. binding' = [binding EXCEPT ![p][s] = s] /\ live' = live /\ store' = store
    BY <1>3, <2>1, <2>2 DEF EndTurnBound, Recorded, diskVars
  <2>4. /\ \A q \in Procs \ {p} : op'[q] = op[q]
        /\ op'[p].session = s /\ op'[p].conv = s
    <3>. DEFINE o == [Idle EXCEPT !.pc = "lock", !.session = s, !.conv = s, !.turn = TRUE]
    <3>1. op' = [op EXCEPT ![p] = o]
      BY <1>3, <2>1 DEF EndTurnBound, Begin
    <3>2. o.session = s /\ o.conv = s
      BY DEF Idle
    <3>. QED
      BY <3>1, <3>2 DEF StoreInv
  <2>5. /\ binding'[p][s] = s /\ s # Unbound
        /\ \A x \in Ids \ {s} : binding'[p][x] = binding[p][x]
        /\ \A q \in Procs \ {p} : binding'[q] = binding[q]
    BY <2>2, <2>3, StoreAssumption DEF StoreInv
  <2>6. \A q \in Procs, x \in Ids : OnlyIn(q, x)' <=> OnlyIn(q, x)
    BY <1>0, <2>3 DEF OnlyIn
  <2>7. \A q \in Procs, x \in Ids : x \in Live(q)' /\ binding'[q][x] = Unbound => OnlyIn(q, x)'
    BY <1>0, <2>3, <2>5, <2>6 DEF BindInv
  <2>8. \A q \in Procs : op'[q].pc \in {"lock", "load", "write", "rename"}
                            => op'[q].conv = binding'[q][op'[q].session]
    BY <2>4, <2>5 DEF BindInv
  <2>9. \A x \in Ids : BoundTo(x, store'.entry[x].conv) /\ \A q \in Procs : BoundTo(x, binding'[q][x])
    BY <2>3, <2>5 DEF BindInv, BoundTo
  <2>. QED
    BY <2>7, <2>8, <2>9 DEF BindInv
<1>4. ASSUME NEW p \in Procs, Remember(p) \/ EndTurnUnbound(p) \/ Persist(p) \/ Drain(p)
      PROVE  BindInv'
  <2>1. /\ live' = live /\ \A q \in Procs \ {p} : op'[q] = op[q]
        /\ op'[p].pc # "idle" => op[p].pc # "idle" /\ op'[p].session = op[p].session
    BY <1>4, OpStep DEF Turn
  <2>2. binding' = binding
    BY <1>4 DEF Remember, EndTurnUnbound, Persist, Lock, LoadAndPrune, Write, Rename, WriteFails,
                Drain, TakeForgets, ForgetSession, memVars
  <2>3. op'[p].pc \in {"lock", "load", "write", "rename"} =>
          op[p].pc \in {"lock", "load", "write", "rename"} /\ op'[p].conv = op[p].conv
    <3>1. op[p] \in Ops /\ op \in [Procs -> Ops]
      BY DEF StoreInv
    <3>2. CASE op' = op
      BY <3>2
    <3>3. CASE op' = [op EXCEPT ![p] = Idle]
      BY <3>1, <3>3 DEF Idle
    <3>4. CASE Lock(p)
      BY <3>1, <3>4 DEF Lock, Ops
    <3>5. CASE LoadAndPrune(p)
      BY <3>1, <3>5 DEF LoadAndPrune, Ops
    <3>6. CASE Write(p)
      BY <3>1, <3>6 DEF Write, Ops
    <3>. QED
      BY <1>4, <3>2, <3>3, <3>4, <3>5, <3>6 DEF Remember, EndTurnUnbound, Persist, Rename,
         WriteFails, Drain, TakeForgets, ForgetSession
  <2>4. \A q \in Procs : op'[q].pc \in {"lock", "load", "write", "rename"}
                            => op'[q].conv = binding'[q][op'[q].session]
    BY <2>1, <2>2, <2>3 DEF BindInv
  <2>5. \A x \in Ids : /\ BoundTo(x, store'.entry[x].conv)
                       /\ store'.entry[x].conv # Unbound /\ store.entry[x].conv = Unbound
                            => x \in Live(p) /\ binding[p][x] = x
    <3>1. CASE store' = store
      BY <3>1 DEF BindInv
    <3>2. CASE Rename(p)
      BY <3>2, RenameBinds
    <3>. QED
      BY <1>4, <3>1, <3>2 DEF Remember, EndTurnUnbound, Persist, Lock, LoadAndPrune, Write,
         StartWriting, WriteFails, Drain, TakeForgets, ForgetSession, diskVars
  <2>6. ASSUME NEW q \in Procs, NEW x \in Ids, x \in Live(q), binding[q][x] = Unbound
        PROVE  OnlyIn(q, x)'
    <3>1. OnlyIn(q, x)
      BY <2>6 DEF BindInv
    <3>2. x # Unbound
      BY StoreAssumption
    <3>3. store'.entry[x].conv = Unbound
      BY <2>5, <2>6, <3>1, <3>2 DEF OnlyIn
    <3>. QED
      BY <1>0, <2>1, <3>1, <3>3 DEF OnlyIn
  <2>7. \A q \in Procs, x \in Ids : x \in Live(q)' /\ binding'[q][x] = Unbound => OnlyIn(q, x)'
    BY <1>0, <2>1, <2>2, <2>6
  <2>8. \A x \in Ids : BoundTo(x, store'.entry[x].conv) /\ \A q \in Procs : BoundTo(x, binding'[q][x])
    BY <2>2, <2>5 DEF BindInv
  <2>. QED
    BY <2>4, <2>7, <2>8 DEF BindInv
<1>5. ASSUME NEW p \in Procs, Crash(p) PROVE BindInv'
  <2>1. /\ ElementsOf(live'[p]) = {} /\ op'[p].pc = "idle" /\ store' = store
        /\ \A s \in Ids : binding'[p][s] = Unbound
        /\ \A q \in Procs \ {p} : live'[q] = live[q] /\ op'[q] = op[q] /\ binding'[q] = binding[q]
    BY <1>5, CrashIs
  <2>2. \A q \in Procs, x \in Ids : x \in Live(q)' /\ binding'[q][x] = Unbound => OnlyIn(q, x)'
    BY <1>0, <2>1 DEF BindInv, OnlyIn
  <2>3. \A q \in Procs : op'[q].pc \in {"lock", "load", "write", "rename"}
                            => op'[q].conv = binding'[q][op'[q].session]
    BY <2>1 DEF BindInv
  <2>4. \A x \in Ids : BoundTo(x, store'.entry[x].conv) /\ \A q \in Procs : BoundTo(x, binding'[q][x])
    BY <2>1 DEF BindInv, BoundTo
  <2>. QED
    BY <2>2, <2>3, <2>4 DEF BindInv
<1>. QED
  BY <1>1, <1>2, <1>3, <1>4, <1>5 DEF Next, Turn

LEMMA BindIsInvariant == UnknownPrompts = FALSE => (Spec => []BindInv)
<1>. SUFFICES ASSUME UnknownPrompts = FALSE PROVE Spec => []BindInv
  OBVIOUS
<1>1. StoreInv /\ MemInv /\ HostInv /\ BindInv /\ [Next]_vars => BindInv'
  BY StepBind
<1>. QED
  BY <1>1, InitBind, StoreIsInvariant, MemIsInvariant, HostIsInvariant, PTL DEF Spec

(* With such hosts no process ever saves an older view of a session than   *)
(* the one on disk: the conversation recorded there is never replaced by   *)
(* none, nor by another.                                                   *)
THEOREM BindingsSurvive == UnknownPrompts = FALSE => (Spec => BindingsAreNotLost)
<1>. SUFFICES ASSUME UnknownPrompts = FALSE PROVE Spec => BindingsAreNotLost
  OBVIOUS
<1>1. ASSUME StoreInv, HostInv, BindInv, [Next]_vars, NEW s \in Ids,
             store.entry[s].conv # Unbound, store'.entry[s] # Absent
      PROVE  store'.entry[s].conv = store.entry[s].conv
  <2>1. CASE store' = store
    BY <2>1
  <2>2. ASSUME NEW p \in Procs, Rename(p) PROVE store'.entry[s].conv = store.entry[s].conv
    BY <1>1, <2>2, RenameBinds
  <2>. QED
    BY <1>1, <2>1, <2>2, FilesStep
<1>2. StoreInv /\ HostInv /\ BindInv /\ [Next]_vars =>
        [\A s \in Ids :
           store.whole /\ store.entry[s].conv # Unbound /\ store'.entry[s] # Absent
             => store'.entry[s].conv = store.entry[s].conv]_vars
  BY <1>1
<1>. QED
  BY <1>2, StoreIsInvariant, HostIsInvariant, BindIsInvariant, PTL DEF Spec, BindingsAreNotLost
=============================================================================
