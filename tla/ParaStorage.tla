---------------------------- MODULE ParaStorage ----------------------------
(***************************************************************************)
(* The system configuration of mxos_system_para_storage.c: a structure in  *)
(* RAM that any thread changes, and its fields as separate items of the    *)
(* key-value store, written one mkv_item_set after the other and read back *)
(* at boot. A field is known by its place in the order in which            *)
(* internal_update_config saves it: the data, the magic number, the seed.  *)
(*                                                                         *)
(* An item is read or written at one moment (CallsAreAtomic of MkvProofs)  *)
(* and survives power failure (KvFlash). A change of a field is known by   *)
(* its number: 0 stands for a cleared or default field.                    *)
(***************************************************************************)
EXTENDS Naturals

CONSTANTS Threads, NData,   \* threads that use the configuration; data fields
          Absent,           \* no such item
          Nobody,           \* nobody holds the mutex
          MaxVer, MaxSeed   \* bounds: changes, saves between two boots

ASSUME ParaAssumption == /\ NData \in Nat \ {0} /\ {MaxVer, MaxSeed} \subseteq Nat
                         /\ Absent \notin Nat /\ Nobody \notin Threads

VARIABLES
    ram,        \* sys_context->flashContentInRam.mxos_config
    flash,      \* the items
    seedNum,
    lock,       \* who holds flashContentInRam_mutex, if anybody
    pc, at,     \* where a thread is, and at which field
    own,        \* the number of the change a thread makes
    ver,        \* history: changes so far
    raced,      \* history: the magic number was saved while it was cleared
    left        \* history: fields that a boot, a restore, a failed save or a
                \* caller that does not save left with a value flash lacks

vars == <<ram, flash, seedNum, lock, pc, at, own, ver, raced, left>>

Data   == 1..NData
Magic  == NData + 1
Seed   == NData + 2
Fields == 1..Seed
\* Mutant: the magic number is saved before the data.
MagicFirst == [i \in Fields |-> IF i = 1 THEN Magic ELSE IF i = Seed THEN i ELSE i - 1]

Order  == [i \in Fields |-> i]      \* internal_update_config, item by item
MagicNumber == 1                    \* SYS_MAGIC_NUMBR; the field is 0 without it

\* mxos_system_context_restore
Default(n) == [f \in Fields |-> IF f = Magic THEN MagicNumber
                                ELSE IF f = Seed THEN n ELSE 0]

Init == /\ flash = [f \in Fields |-> Absent] /\ ram = Default(0)
        /\ left = Fields /\ raced = FALSE
        /\ seedNum = 0 /\ lock = Nobody /\ ver = 0
        /\ pc = [t \in Threads |-> "idle"]
        /\ at = [t \in Threads |-> 1] /\ own = [t \in Threads |-> 0]

--------------------------- (* Changes in RAM *) ----------------------------
Goto(t, p, f) == pc' = [pc EXCEPT ![t] = p] /\ at' = [at EXCEPT ![t] = f]

\* The data is changed field by field. connect_ap, the config server, the
\* callbacks of EasyLink and AWS and the Wi-Fi notification hold the mutex;
\* mxos_easylink_monitor_save_result and the callbacks that set `configured'
\* when the station is up do not.
StartChange(t) ==
    /\ pc[t] = "idle" /\ ver < MaxVer
    /\ ver' = ver + 1 /\ own' = [own EXCEPT ![t] = ver + 1]
    /\ \/ lock = Nobody /\ lock' = t
       \/ lock' = lock
    /\ Goto(t, "change", 1) /\ UNCHANGED <<ram, flash, seedNum, raced, left>>

ChangeField(t) ==
    /\ pc[t] = "change" /\ at[t] \in Data
    /\ \/ ram' = [ram EXCEPT ![at[t]] = own[t]]
       \/ ram' = ram                        \* the caller keeps this field
    /\ Goto(t, "change", at[t] + 1)
    /\ UNCHANGED <<flash, seedNum, lock, own, ver, raced, left>>

\* connect_ap and the config server set `configured', the last of the data,
\* when they have released the mutex.
Unlock(t) == /\ pc[t] = "change" /\ at[t] = NData /\ lock = t /\ lock' = Nobody
             /\ UNCHANGED <<ram, flash, seedNum, pc, at, own, ver, raced, left>>

\* The fields that hold what t has put there.
Touched(t) == {f \in Data : ram[f] = own[t]}

\* Most callers release the mutex before they save; the notification handler
\* (system_misc.c) does afterwards.
Unlocked(t) == IF lock = t THEN Nobody ELSE lock
Changed(t) ==
    /\ pc[t] = "change" /\ at[t] \notin Data /\ Goto(t, "update", 1)
    /\ lock' \in {Unlocked(t), lock}
    /\ UNCHANGED <<ram, flash, seedNum, own, ver, raced, left>>

\* The network that EasyLink, AWS or the soft AP's page was given is not saved:
\* easylink_complete_cb, easylink_extra_data_cb, aws_complete_cb, save_result
\* and the config server return, and whoever learns that the station came up
\* saves (a change of its own, of `configured').
Provisioned(t) ==
    /\ pc[t] = "change" /\ at[t] \notin Data /\ Goto(t, "idle", 1)
    /\ lock' = Unlocked(t) /\ left' = left \cup Touched(t)
    /\ UNCHANGED <<ram, flash, seedNum, own, ver, raced>>

\* mxos_system_context_restore takes no mutex: memset, then the defaults of
\* the name (the first field), the magic number and the seed.
Restore(t) == /\ pc[t] = "idle" /\ ver < MaxVer
              /\ ver' = ver + 1 /\ own' = [own EXCEPT ![t] = ver + 1]
              /\ Goto(t, "restore", 1)
              /\ UNCHANGED <<ram, flash, seedNum, lock, raced, left>>

ClearField(t) ==
    /\ pc[t] = "restore" /\ at[t] \in Fields
    /\ ram' = [ram EXCEPT ![at[t]] = IF at[t] \in Data THEN own[t] ELSE 0]
    /\ left' = left \cup {at[t]} /\ Goto(t, "restore", at[t] + 1)
    /\ UNCHANGED <<flash, seedNum, lock, own, ver, raced>>

\* Mutant: the default of the magic number is forgotten.
RestoredBare(t) ==
    /\ pc[t] = "restore" /\ at[t] \notin Fields
    /\ ram' = [ram EXCEPT ![Seed] = seedNum]
    /\ left' = left \cup {1, Magic, Seed} /\ Goto(t, "idle", 1)
    /\ UNCHANGED <<flash, seedNum, lock, own, ver, raced>>

Restored(t) ==
    /\ pc[t] = "restore" /\ at[t] \notin Fields
    /\ ram' = [ram EXCEPT ![Magic] = MagicNumber, ![Seed] = seedNum]
    /\ left' = left \cup {1, Magic, Seed} /\ Goto(t, "idle", 1)
    /\ UNCHANGED <<flash, seedNum, lock, own, ver, raced>>

\* MXOSReadConfiguration: a field whose item is not found keeps its value.
Loaded(f, now) == IF flash[f] = Absent THEN now ELSE flash[f]

\* EasyLink failed and rolls back to what is stored, without the mutex.
Rollback(t) == /\ pc[t] = "idle" /\ Goto(t, "read", 1)
               /\ UNCHANGED <<ram, flash, seedNum, lock, own, ver, raced, left>>

\* Mutant: one item too many is read.
ReadTooFar(t) ==
    /\ pc[t] = "read" /\ at[t] \in Fields
    /\ ram' = [ram EXCEPT ![at[t]] = Loaded(at[t], @)]
    /\ Goto(t, IF at[t] > Seed THEN "idle" ELSE "read", at[t] + 1)
    /\ UNCHANGED <<flash, seedNum, lock, own, ver, raced, left>>

ReadField(t) ==
    /\ pc[t] = "read" /\ at[t] \in Fields
    /\ ram' = [ram EXCEPT ![at[t]] = Loaded(at[t], @)]
    /\ Goto(t, IF at[t] = Seed THEN "idle" ELSE "read", at[t] + 1)
    /\ UNCHANGED <<flash, seedNum, lock, own, ver, raced, left>>

------------------------------- (* Saving *) --------------------------------
\* Callers that changed nothing themselves save too (power daemon, TFTP OTA).
Save(t) == /\ pc[t] = "idle" /\ Goto(t, "update", 1)
           /\ UNCHANGED <<ram, flash, seedNum, lock, own, ver, raced, left>>

\* mxos_system_context_update. Neither mutex is taken here.
Update(t) == /\ pc[t] = "update" /\ seedNum < MaxSeed
             /\ seedNum' = seedNum + 1 /\ ram' = [ram EXCEPT ![Seed] = seedNum']
             /\ Goto(t, "save", 1)
             /\ UNCHANGED <<flash, lock, own, ver, raced, left>>

\* MKV_ITEM_SET: the item gets what the field holds by then.
SaveField(t) ==
    /\ pc[t] = "save"
    /\ LET f == Order[at[t]]
       IN  flash' = [flash EXCEPT ![f] = ram[f]] /\ left' = left \ {f}
           /\ raced' = IF f # Magic THEN raced
                       ELSE ram[f] = 0 /\ (raced \/ \E u \in Threads : pc[u] = "restore")
    /\ IF at[t] = Seed THEN Goto(t, "idle", 1) /\ lock' = Unlocked(t)
                       ELSE Goto(t, "save", at[t] + 1) /\ lock' = lock
    /\ UNCHANGED <<ram, seedNum, own, ver>>

\* Mutant: an item that cannot be stored is passed over.
SaveSkips(t) ==
    /\ pc[t] = "save" /\ at[t] # Seed /\ Goto(t, "save", at[t] + 1)
    /\ UNCHANGED <<ram, flash, seedNum, lock, own, ver, raced, left>>

\* The first item that cannot be stored ends the save.
SaveFails(t) ==
    /\ pc[t] = "save" /\ Goto(t, "idle", 1) /\ lock' = Unlocked(t)
    /\ left' = left \cup {Order[i] : i \in at[t]..Seed}
    /\ UNCHANGED <<ram, flash, seedNum, own, ver, raced>>

\* Power fails; system_context_init reads the items into a cleared structure
\* and, without the magic number, takes the defaults: in RAM only.
Reboot ==
    /\ LET read == [f \in Fields |-> Loaded(f, 0)]
       IN  IF read[Magic] = MagicNumber
           THEN ram' = read /\ left' = {f \in Fields : flash[f] = Absent}
           ELSE ram' = Default(0) /\ left' = Fields
    /\ seedNum' = 0 /\ lock' = Nobody
    /\ pc' = [t \in Threads |-> "idle"] /\ at' = [t \in Threads |-> 1]
    /\ UNCHANGED <<flash, own, ver, raced>>

Step(t) == \/ StartChange(t) \/ ChangeField(t) \/ Unlock(t)
           \/ Changed(t) \/ Provisioned(t) \/ Restore(t)
           \/ ClearField(t) \/ Restored(t) \/ Rollback(t) \/ ReadField(t)
           \/ Save(t) \/ Update(t) \/ SaveField(t) \/ SaveFails(t)
Next    == Reboot \/ \E t \in Threads : Step(t)

Spec == Init /\ [][Next]_vars

----------------------------- (* Properties *) ------------------------------
TypeOK == /\ ram \in [Fields -> Nat] /\ flash \in [Fields -> Nat \cup {Absent}]
          /\ seedNum \in 0..MaxSeed /\ lock \in Threads \cup {Nobody}
          /\ pc \in [Threads -> {"idle", "change", "restore", "read", "update", "save"}]
          /\ at \in [Threads -> 1..(Seed + 1)] /\ own \in [Threads -> 0..MaxVer]
          /\ \A t \in Threads : pc[t] \in {"read", "save"} => at[t] \in Fields
          /\ ver \in 0..MaxVer /\ left \subseteq Fields /\ raced \in BOOLEAN

\* t is changing field f, or is still going to save it.
Due(t, f) == \/ pc[t] = "change" /\ f \in Touched(t)
             \/ pc[t] = "update"
             \/ pc[t] = "save" /\ \E i \in at[t]..Seed : Order[i] = f

\* Whatever threads save, roll back and change without a common mutex: if flash
\* does not hold the present value of a field, the thread that put it there is
\* still at its change, or a thread will save the field, or it was left: its
\* save failed and said so, it is a default that nobody asked to save, or one
\* of the callers that do not save put it there and no save came since. So no
\* overlap of a save with changes makes one that was to be saved disappear.
Covered == \A f \in Fields : \/ flash[f] = ram[f] \/ f \in left
                             \/ \E t \in Threads : Due(t, f)

\* The magic number vouches for the data: a device that finds it finds all the
\* rest, however its saves were cut short or overlapped.
AllStored == flash[Magic] = MagicNumber => \A f \in Data : flash[f] # Absent

\* A device whose configuration was saved falls back to the defaults at a boot
\* only if a thread saved the magic number while another one's restore had it
\* cleared, and it was not saved again since. (A rollback may then bring the
\* cleared number back to RAM, from where further saves take it.)
Kept == flash[Magic] = 0 => raced
=============================================================================
