------------------------- MODULE FolderMirror_proofs -------------------------
(* The promise of FolderMirror is worth making: it is all a reader of the     *)
(* mirror needs.                                                              *)
EXTENDS FolderMirror, TLAPS

Inv ==
  /\ TypeOK
  /\ \A f \in Folders : cursor[f] <= next[f]
  /\ NothingMissing

\* Steps of the mirror keep it complete below every cursor.
LEMMA InvStep ==
  ASSUME UIDs \subseteq Nat, Inv, [Next]_vars
  PROVE  Inv'
<1>1. \A u \in UIDs : u \in Nat
  OBVIOUS
<1>2. CASE ServerChanges
  <2>1. PICK arrivals \in SUBSET Folders :
          /\ next' = [f \in Folders |-> IF f \in arrivals THEN next[f] + 1 ELSE next[f]]
          /\ \A f \in Folders :
               live'[f] \subseteq live[f] \cup (IF f \in arrivals THEN {next[f]} ELSE {})
    BY <1>2 DEF ServerChanges
  <2>2. TypeOK' /\ UNCHANGED <<mirrored, cursor>>
    BY <1>2, <2>1 DEF Inv, TypeOK, ServerChanges
  <2>3. ASSUME NEW f \in Folders PROVE cursor[f] <= next'[f] /\ Missing(f, cursor[f])' = {}
    <3>1. next[f] \in Nat /\ cursor[f] \in Nat /\ cursor[f] <= next[f] /\ Missing(f, cursor[f]) = {}
      BY DEF Inv, TypeOK, NothingMissing
    <3>2. cursor[f] <= next'[f]
      BY <2>1, <3>1
    <3>3. \A u \in live'[f] : u < cursor[f] => u \in live[f]
      BY <2>1, <3>1
    <3>4. QED
      BY <2>2, <3>1, <3>2, <3>3 DEF Missing
  <2>4. QED
    BY <2>2, <2>3 DEF Inv, NothingMissing
<1>3. ASSUME NEW f \in Folders, NEW u \in UIDs, Mirror(f, u) \/ Forget(f, u) PROVE Inv'
  <2>1. TypeOK' /\ UNCHANGED <<live, next, cursor>>
    BY <1>3 DEF Inv, TypeOK, Mirror, Forget
  <2>2. \A g \in Folders : live[g] \cap mirrored[g] \subseteq mirrored'[g]
    BY <1>3 DEF Inv, TypeOK, Mirror, Forget
  <2>3. QED
    BY <2>1, <2>2 DEF Inv, NothingMissing, Missing
<1>4. ASSUME NEW f \in Folders, NEW c \in 0 .. next[f], SetCursor(f, c) PROVE Inv'
  <2>1. \A g \in Folders : cursor'[g] = IF g = f THEN c ELSE cursor[g]
    BY <1>4 DEF Inv, TypeOK, SetCursor
  <2>2. next[f] \in Nat /\ c \in Nat /\ c <= next[f] /\ Missing(f, c) = {} /\ UNCHANGED <<live, next, mirrored>>
    BY <1>4 DEF Inv, TypeOK, SetCursor
  <2>3. TypeOK'
    BY <1>4, <2>2 DEF Inv, TypeOK, SetCursor
  <2>4. QED
    BY <2>1, <2>2, <2>3 DEF Inv, NothingMissing, Missing
<1>5. CASE UNCHANGED vars
  BY <1>5 DEF Inv, TypeOK, NothingMissing, Missing, vars
<1>6. QED
  BY <1>2, <1>3, <1>4, <1>5 DEF Next

\* Whatever implements FolderMirror - by SyncImplementsMirror the worker and
\* the engine's commands do - never has a live message below its cursor that
\* is not in the store.
THEOREM MirrorIsComplete ==
  ASSUME UIDs \subseteq Nat
  PROVE  Spec => []NothingMissing
<1>1. Init => Inv
  BY DEF Init, Inv, TypeOK, NothingMissing, Missing
<1>2. Inv /\ [Next]_vars => Inv'
  BY InvStep
<1>3. Inv => NothingMissing
  BY DEF Inv
<1>4. QED
  BY <1>1, <1>2, <1>3, PTL DEF Spec
=============================================================================
