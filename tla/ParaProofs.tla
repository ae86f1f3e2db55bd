----------------------------- MODULE ParaProofs -----------------------------
(***************************************************************************)
(* Proofs about ParaStorage, for any number of threads, fields and         *)
(* changes: what threads that share no mutex can do to the configuration.  *)
(***************************************************************************)
EXTENDS ParaStorage, TLAPS

(* A save has stored the items before the one it is at.                    *)
InOrder == \A t \in Threads : pc[t] = "save" =>
              \A i \in Fields : i < at[t] => flash[Order[i]] # Absent
(* Only a restore clears the magic number in RAM, or a rollback to flash.  *)
Cleared == ram[Magic] = 0 => raced \/ \E t \in Threads : pc[t] = "restore"

ParaInv == TypeOK /\ Covered /\ AllStored /\ Kept /\ InOrder /\ Cleared

LEMMA Places ==
  /\ Magic \in Fields /\ Seed \in Fields /\ 1 \in Fields /\ Data \subseteq Fields
  /\ Fields \subseteq Nat /\ Magic \notin Data /\ Seed \in Nat /\ Magic # Seed
  /\ \A f \in Data : f < Magic
  BY ParaAssumption DEF Magic, Seed, Fields, Data

LEMMA Steps ==
  /\ 1 \in 1..(Seed + 1) /\ Fields \subseteq 1..(Seed + 1)
  /\ \A f \in Fields : f + 1 \in 1..(Seed + 1) /\ (f # Seed => f + 1 \in Fields)
  BY Places DEF Fields

(* The control points keep their types.                                    *)
LEMMA GotoType ==
  ASSUME TypeOK, NEW t \in Threads, NEW f \in 1..(Seed + 1),
         NEW p \in {"idle", "change", "restore", "read", "update", "save"},
         p \in {"read", "save"} => f \in Fields, Goto(t, p, f)
  PROVE  /\ pc' \in [Threads -> {"idle", "change", "restore", "read", "update", "save"}]
         /\ at' \in [Threads -> 1..(Seed + 1)]
         /\ \A u \in Threads : pc'[u] \in {"read", "save"} => at'[u] \in Fields
  BY DEF TypeOK, Goto

LEMMA Identity == \A i \in Fields : Order[i] = i
  BY DEF Order

LEMMA InitPara == Init => ParaInv
<1> SUFFICES ASSUME Init PROVE ParaInv
  OBVIOUS
<1> USE ParaAssumption, Places DEF Init
<1>1. TypeOK
  <2>1. ram \in [Fields -> Nat] /\ flash \in [Fields -> Nat \cup {Absent}]
    BY DEF Default, MagicNumber
  <2>2. seedNum \in 0..MaxSeed /\ ver \in 0..MaxVer /\ own \in [Threads -> 0..MaxVer]
    OBVIOUS
  <2>3. /\ pc \in [Threads -> {"idle", "change", "restore", "read", "update", "save"}]
        /\ at \in [Threads -> 1..(Seed + 1)]
    BY Steps
  <2> QED BY <2>1, <2>2, <2>3 DEF TypeOK
<1>2. Covered /\ AllStored /\ Kept /\ InOrder /\ Cleared
  BY DEF Covered, AllStored, Kept, InOrder, Cleared, MagicNumber, Default
<1> QED BY <1>1, <1>2 DEF ParaInv

(* Steps that touch neither the structure nor the items.                   *)
LEMMA QuietPara ==
  ASSUME ParaInv, NEW t \in Threads,
         \/ StartChange(t) \/ Unlock(t) \/ Changed(t) \/ Restore(t) \/ Rollback(t) \/ Save(t)
  PROVE  ParaInv'
<1> USE ParaAssumption, Places DEF ParaInv, StartChange, Unlock, Unlocked, Changed, Restore, Rollback, Save, Goto
<1>1. TypeOK'
  <2>1. ver' \in 0..MaxVer /\ own' \in [Threads -> 0..MaxVer]
    <3>1. ver < MaxVer => ver + 1 \in 0..MaxVer
      BY DEF TypeOK
    <3> QED BY <3>1 DEF TypeOK
  <2>2. /\ pc' \in [Threads -> {"idle", "change", "restore", "read", "update", "save"}]
        /\ at' \in [Threads -> 1..(Seed + 1)]
        /\ \A u \in Threads : pc'[u] \in {"read", "save"} => at'[u] \in Fields
    BY Steps DEF TypeOK
  <2>3. /\ ram' \in [Fields -> Nat] /\ flash' \in [Fields -> Nat \cup {Absent}]
        /\ seedNum' \in 0..MaxSeed /\ lock' \in Threads \cup {Nobody}
        /\ left' \subseteq Fields /\ raced' \in BOOLEAN
    BY DEF TypeOK
  <2> QED BY <2>1, <2>2, <2>3 DEF TypeOK
<1>2. ram' = ram /\ flash' = flash /\ left' = left /\ raced' = raced
  OBVIOUS
<1>3. ASSUME NEW f \in Fields, NEW u \in Threads, Due(u, f) PROVE Due(u, f)'
  <2>1. CASE u # t
    BY <1>2, <1>3, <2>1 DEF Due, Touched, TypeOK
  <2>2. CASE u = t
    BY <1>2, <1>3, <2>2 DEF Due, Touched, TypeOK
  <2> QED BY <2>1, <2>2
<1>4. AllStored' /\ Kept'
  BY <1>2 DEF AllStored, Kept
<1>5. InOrder'
  BY <1>2 DEF InOrder, TypeOK
<1>6. Cleared'
  BY <1>2 DEF Cleared, TypeOK
<1>7. Covered'
  BY <1>2, <1>3 DEF Covered
<1> QED BY <1>1, <1>4, <1>5, <1>6, <1>7

(* A caller that does not save leaves the fields that hold its change, and *)
(* was to save no other.                                                   *)
LEMMA ProvisionedPara ==
  ASSUME ParaInv, NEW t \in Threads, Provisioned(t) PROVE ParaInv'
<1> USE ParaAssumption, Places DEF ParaInv, Provisioned, Unlocked, Goto
<1>1. TypeOK'
  BY Steps DEF TypeOK, Touched
<1>2. ram' = ram /\ flash' = flash /\ raced' = raced /\ own' = own
  OBVIOUS
<1>3. ASSUME NEW f \in Fields, f \notin left', NEW u \in Threads, Due(u, f)
      PROVE  Due(u, f)'
  BY <1>2, <1>3 DEF Due, Touched, TypeOK
<1>4. Covered'
  BY <1>2, <1>3 DEF Covered
<1>5. AllStored' /\ Kept' /\ InOrder' /\ Cleared'
  BY <1>2 DEF AllStored, Kept, InOrder, Cleared, TypeOK
<1> QED BY <1>1, <1>4, <1>5

LEMMA ChangeFieldPara ==
  ASSUME ParaInv, NEW t \in Threads, ChangeField(t) PROVE ParaInv'
<1> USE ParaAssumption, Places DEF ParaInv, ChangeField, Goto
<1>1. TypeOK'
  <2>1. own[t] \in Nat /\ at[t] \in Fields
    BY DEF TypeOK
  <2> QED BY <2>1, Steps DEF TypeOK
<1>2. pc'[t] = "change" /\ ram'[Magic] = ram[Magic]
  BY DEF TypeOK
<1>a. \A f \in Fields : ram'[f] = ram[f] \/ (f \in Data /\ ram'[f] = own[t])
  BY DEF TypeOK
<1>b. \A f \in Fields : ram'[f] # ram[f] => Due(t, f)'
  BY <1>2, <1>a DEF Due, Touched
<1>c. ASSUME NEW f \in Fields, ram'[f] = ram[f], NEW u \in Threads, Due(u, f)
      PROVE  Due(u, f)'
  BY <1>2, <1>c DEF Due, Touched, TypeOK
<1>3. Covered'
  BY <1>b, <1>c DEF Covered
<1>4. AllStored' /\ Kept' /\ InOrder' /\ Cleared'
  BY <1>2 DEF AllStored, Kept, InOrder, Cleared, TypeOK
<1> QED BY <1>1, <1>3, <1>4

LEMMA ClearFieldPara ==
  ASSUME ParaInv, NEW t \in Threads, ClearField(t) PROVE ParaInv'
<1> USE ParaAssumption, Places DEF ParaInv, ClearField, Goto
<1>1. TypeOK'
  <2>1. own[t] \in Nat /\ at[t] \in Fields
    BY DEF TypeOK
  <2> QED BY <2>1, Steps DEF TypeOK
<1>2. pc'[t] = "restore" /\ \A f \in Fields : f \notin left' => ram'[f] = ram[f]
  BY DEF TypeOK
<1>3. Covered'
  BY <1>2 DEF Covered, Due, Touched, TypeOK
<1>4. AllStored' /\ Kept' /\ InOrder' /\ Cleared'
  BY <1>2 DEF AllStored, Kept, InOrder, Cleared, TypeOK
<1> QED BY <1>1, <1>3, <1>4

LEMMA RestoredPara ==
  ASSUME ParaInv, NEW t \in Threads, Restored(t) PROVE ParaInv'
<1> USE ParaAssumption, Places DEF ParaInv, Restored, Goto
<1>1. TypeOK'
  BY DEF TypeOK, MagicNumber
<1>2. /\ ram'[Magic] = 1
      /\ \A f \in Fields : f \notin left' => ram'[f] = ram[f] /\ f \notin left
  BY DEF TypeOK, MagicNumber
<1>3. Covered'
  BY <1>2 DEF Covered, Due, Touched, TypeOK
<1>4. AllStored' /\ Kept' /\ InOrder' /\ Cleared'
  BY <1>2 DEF AllStored, Kept, InOrder, Cleared, TypeOK
<1> QED BY <1>1, <1>3, <1>4

LEMMA ReadFieldPara ==
  ASSUME ParaInv, NEW t \in Threads, ReadField(t) PROVE ParaInv'
<1> USE ParaAssumption, Places DEF ParaInv, ReadField, Goto, Loaded
<1>1. TypeOK'
  BY Steps DEF TypeOK
<1>2. \A f \in Fields : ram'[f] = ram[f] \/ ram'[f] = flash[f]
  BY DEF TypeOK
<1>3. Covered'
  BY <1>2 DEF Covered, Due, Touched, TypeOK
<1>4. AllStored' /\ Kept' /\ InOrder' /\ Cleared'
  BY <1>2 DEF AllStored, Kept, InOrder, Cleared, TypeOK
<1> QED BY <1>1, <1>3, <1>4

LEMMA UpdatePara ==
  ASSUME ParaInv, NEW t \in Threads, Update(t) PROVE ParaInv'
<1> USE ParaAssumption, Places DEF ParaInv, Update, Goto
<1>1. TypeOK'
  BY DEF TypeOK
<1>2. /\ pc'[t] = "save" /\ at'[t] = 1 /\ ram'[Magic] = ram[Magic]
      /\ \A f \in Fields : Due(t, f)'
  BY Identity DEF TypeOK, Due, Fields
<1>3. Covered'
  BY <1>2 DEF Covered
<1>4. AllStored' /\ Kept'
  BY <1>2 DEF AllStored, Kept
<1>5. InOrder'
  BY <1>2 DEF InOrder, TypeOK, Fields
<1>6. Cleared'
  BY <1>2 DEF Cleared, TypeOK
<1> QED BY <1>1, <1>3, <1>4, <1>5, <1>6

LEMMA SaveFieldPara ==
  ASSUME ParaInv, NEW t \in Threads, SaveField(t) PROVE ParaInv'
<1> USE ParaAssumption, Places DEF ParaInv, Goto
<1>0. /\ at[t] \in Fields /\ flash' = [flash EXCEPT ![at[t]] = ram[at[t]]]
      /\ left' = left \ {at[t]} /\ ram' = ram /\ pc[t] = "save"
      /\ raced' = IF at[t] # Magic THEN raced
                  ELSE ram[Magic] = 0 /\ (raced \/ \E u \in Threads : pc[u] = "restore")
  BY Identity DEF SaveField, TypeOK
<1>a. /\ at[t] = Seed => pc' = [pc EXCEPT ![t] = "idle"] /\ at' = [at EXCEPT ![t] = 1]
      /\ at[t] # Seed => pc' = pc /\ at' = [at EXCEPT ![t] = at[t] + 1]
      /\ lock' \in {lock, Unlocked(t)} /\ UNCHANGED <<seedNum, own, ver>>
  BY DEF SaveField, TypeOK
<1>b. at[t] \in Nat /\ Seed \in Nat /\ at[t] <= Seed
  BY <1>0 DEF Fields
<1>1. TypeOK'
  <2>1. lock' \in Threads \cup {Nobody} /\ ram[at[t]] \in Nat /\ raced' \in BOOLEAN
    BY <1>0, <1>a DEF TypeOK, Unlocked
  <2>2. /\ pc' \in [Threads -> {"idle", "change", "restore", "read", "update", "save"}]
        /\ at' \in [Threads -> 1..(Seed + 1)]
        /\ \A u \in Threads : pc'[u] \in {"read", "save"} => at'[u] \in Fields
    BY <1>0, <1>a, Steps DEF TypeOK
  <2>3. flash' \in [Fields -> Nat \cup {Absent}] /\ left' \subseteq Fields
    BY <1>0, <2>1 DEF TypeOK
  <2> QED BY <1>0, <1>a, <2>1, <2>2, <2>3 DEF TypeOK
<1>2. ASSUME NEW f \in Fields, f # at[t], NEW u \in Threads, Due(u, f) PROVE Due(u, f)'
  <2>1. CASE u # t
    BY <1>0, <1>a, <1>2, <2>1 DEF Due, Touched, TypeOK
  <2>2. CASE u = t
    <3>1. PICK i \in at[t]..Seed : i = f
      BY <1>0, <1>2, <2>2, Identity, Steps DEF Due, Fields
    <3>2. at[t] # Seed /\ f \in (at[t] + 1)..Seed
      BY <1>2, <1>b, <3>1
    <3> QED BY <1>0, <1>a, <2>2, <3>2, Identity DEF Due, Touched, TypeOK
  <2> QED BY <2>1, <2>2
<1>3. Covered'
  BY <1>0, <1>2 DEF Covered, TypeOK
<1>4. AllStored'
  <2>1. ASSUME at[t] = Magic, NEW f \in Data PROVE flash[f] # Absent
    BY <1>0, <2>1, Identity DEF InOrder
  <2> QED BY <1>0, <2>1 DEF AllStored, TypeOK, MagicNumber
<1>5. InOrder'
  <2>1. ASSUME NEW f \in Fields, flash[f] # Absent \/ f = at[t] PROVE flash'[f] # Absent
    BY <1>0, <2>1 DEF TypeOK
  <2>2. ASSUME NEW u \in Threads, pc'[u] = "save", NEW i \in Fields, i < at'[u]
        PROVE  flash'[i] # Absent
    <3>1. CASE u # t
      BY <1>a, <2>1, <2>2, <3>1, Identity DEF InOrder, TypeOK
    <3>2. CASE u = t
      <4>1. at'[t] = at[t] + 1
        BY <1>a, <2>2, <3>2 DEF TypeOK
      <4>2. i = at[t] \/ i < at[t]
        BY <1>b, <2>2, <3>2, <4>1 DEF Fields
      <4> QED BY <1>0, <2>1, <4>2, Identity DEF InOrder
    <3> QED BY <3>1, <3>2
  <2> QED BY <2>2, Identity DEF InOrder
<1>6. Kept'
  <2>1. CASE at[t] = Magic
    BY <1>0, <2>1 DEF Kept, Cleared, TypeOK
  <2>2. CASE at[t] # Magic
    BY <1>0, <2>2 DEF Kept, TypeOK
  <2> QED BY <2>1, <2>2
<1>7. Cleared'
  <2>1. \A u \in Threads : pc[u] = "restore" => pc'[u] = "restore"
    BY <1>0, <1>a DEF TypeOK
  <2> QED BY <1>0, <2>1 DEF Cleared
<1> QED BY <1>1, <1>3, <1>4, <1>5, <1>6, <1>7

LEMMA SaveFailsPara ==
  ASSUME ParaInv, NEW t \in Threads, SaveFails(t) PROVE ParaInv'
<1> USE ParaAssumption, Places, Identity DEF ParaInv, SaveFails, Goto
<1>0. at[t] \in Fields /\ at[t]..Seed \subseteq Fields /\ left' = left \cup at[t]..Seed
  <2>1. at[t] \in Fields /\ at[t]..Seed \subseteq Fields
    BY DEF TypeOK, Fields
  <2>2. {Order[i] : i \in at[t]..Seed} = at[t]..Seed
    BY <2>1
  <2> QED BY <2>1, <2>2
<1>1. TypeOK'
  BY <1>0, Steps DEF TypeOK, Unlocked
<1>2. ASSUME NEW f \in Fields, f \notin left', NEW u \in Threads, Due(u, f) PROVE Due(u, f)'
  BY <1>0, <1>2 DEF Due, Touched, TypeOK
<1>3. Covered'
  BY <1>0, <1>2 DEF Covered
<1>4. AllStored' /\ Kept' /\ InOrder' /\ Cleared'
  BY DEF AllStored, Kept, InOrder, Cleared, TypeOK
<1> QED BY <1>1, <1>3, <1>4

LEMMA RebootPara == ASSUME ParaInv, Reboot PROVE ParaInv'
<1> USE ParaAssumption, Places DEF ParaInv, Reboot
<1>1. TypeOK'
  BY DEF TypeOK, Loaded, Default, MagicNumber
<1>2. Covered'
  BY DEF Covered, Loaded, TypeOK
<1>3. AllStored' /\ Kept' /\ InOrder'
  BY DEF AllStored, Kept, InOrder
<1>4. Cleared'
  BY DEF Cleared, Default, MagicNumber, Loaded
<1> QED BY <1>1, <1>2, <1>3, <1>4

LEMMA InductivePara == ParaInv /\ [Next]_vars => ParaInv'
<1>1. ASSUME ParaInv, UNCHANGED vars PROVE ParaInv'
  BY <1>1 DEF ParaInv, vars, TypeOK, Covered, Due, Touched, AllStored, Kept, InOrder, Cleared
<1> QED BY <1>1, QuietPara, ProvisionedPara, ChangeFieldPara, ClearFieldPara, RestoredPara, ReadFieldPara,
           UpdatePara, SaveFieldPara, SaveFailsPara, RebootPara DEF Next, Step

(* A change that its caller means to save is never dropped silently,       *)
(* whatever the threads that change, save, restore and roll back do        *)
(* between its write and its save: mxos_system_context_update needs no     *)
(* mutex for that. What flash lacks otherwise was left: by a failed save,  *)
(* by a boot or a restore, or by a caller that does not save.              *)
THEOREM NothingForgotten == Spec => []Covered
<1>1. ParaInv => Covered
  BY DEF ParaInv
<1> QED BY <1>1, InitPara, InductivePara, PTL DEF Spec

(* The magic number in flash vouches for every data item before it.        *)
THEOREM MagicVouches == Spec => []AllStored
<1>1. ParaInv => AllStored
  BY DEF ParaInv
<1> QED BY <1>1, InitPara, InductivePara, PTL DEF Spec

(* A saved configuration is given up at a boot only if another thread      *)
(* saved in the middle of a restore.                                       *)
THEOREM ResetOnlyByRace == Spec => []Kept
<1>1. ParaInv => Kept
  BY DEF ParaInv
<1> QED BY <1>1, InitPara, InductivePara, PTL DEF Spec

(* The types of the parameters, in RAM and in flash, and of the threads    *)
(* that are among them.                                                    *)
THEOREM ParaTypeCorrect == Spec => []TypeOK
<1>1. ParaInv => TypeOK
  BY DEF ParaInv
<1> QED BY <1>1, InitPara, InductivePara, PTL DEF Spec
=============================================================================
