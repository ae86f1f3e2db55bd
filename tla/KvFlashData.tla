---------------------------- MODULE KvFlashData -----------------------------
(***************************************************************************)
(* What is proved of the data in the flash store: DataInv holds in every   *)
(* reachable state, hence a reader of any key sees the value of the last   *)
(* completed change, no key has two live items, and what a power failure   *)
(* can lose is what the code is known to lose. With two blocks, and power  *)
(* failing anywhere but within GC, KvFlash implements KvStore.             *)
(***************************************************************************)
EXTENDS KvFlashProofs

-----------------------------------------------------------------------------
(* Facts about items, blocks and counts. *)

(* A position names a slot; an item that is normal or good is an item.     *)
LEMMA Positions ==
    IInv => \A p \in Pos :
        /\ p[1] \in Blocks /\ p[2] \in Offsets /\ p = <<p[1], p[2]>>
        /\ p[1] \in Int /\ p[2] \in Int
        /\ At(p) = slot[p[1]][p[2]] /\ At(p) \in Item \cup {Blank, Junk}
        /\ At(p).state = "normal" => At(p) \in Item
        /\ At(p) # Blank => /\ Len(At(p)) \in ItemHdr..ItemMax /\ p[2] < fill[p[1]]
                            /\ p[2] + Len(At(p)) <= fill[p[1]]
<1> SUFFICES ASSUME IInv, NEW p \in Pos
             PROVE  /\ p[1] \in Blocks /\ p[2] \in Offsets /\ p = <<p[1], p[2]>>
                    /\ p[1] \in Int /\ p[2] \in Int
                    /\ At(p) = slot[p[1]][p[2]] /\ At(p) \in Item \cup {Blank, Junk}
                    /\ At(p).state = "normal" => At(p) \in Item
                    /\ At(p) # Blank => /\ Len(At(p)) \in ItemHdr..ItemMax
                                        /\ p[2] < fill[p[1]]
                                        /\ p[2] + Len(At(p)) <= fill[p[1]]
  OBVIOUS
<1>1. FlashType /\ Chained
  BY DEF IInv, TypeOK
<1>2. p[1] \in Blocks /\ p[2] \in Offsets /\ p = <<p[1], p[2]>>
  BY DEF Pos
<1>3. At(p) = slot[p[1]][p[2]] /\ At(p) \in Item \cup {Blank, Junk}
  BY <1>1, <1>2 DEF At, FlashType
<1>4. At(p).state = "normal" => At(p) \in Item
  BY <1>3, SlotTypes
<1>5. p[1] \in Int /\ p[2] \in Int /\ fill[p[1]] \in Int
  BY <1>1, <1>2, Numbers DEF FlashType
<1>6. ASSUME At(p) # Blank
      PROVE  /\ Len(At(p)) \in ItemHdr..ItemMax /\ p[2] < fill[p[1]]
             /\ p[2] + Len(At(p)) <= fill[p[1]]
  <2>1. Len(At(p)) \in ItemHdr..ItemMax
    BY <1>1, <1>2, <1>3, <1>6, SlotLengths
  <2>2. p[2] + Len(At(p)) <= fill[p[1]]
    BY <1>1, <1>2, <1>3, <1>6 DEF Chained
  <2> QED BY <1>5, <2>1, <2>2, Numbers
<1> QED BY <1>2, <1>3, <1>4, <1>5, <1>6

(* A block whose frontier is its header holds nothing.                     *)
LEMMA EmptyBlank ==
    IInv => \A p \in Pos : fill[p[1]] = HdrSize => At(p) = Blank
<1> SUFFICES ASSUME IInv, NEW p \in Pos, fill[p[1]] = HdrSize, At(p) # Blank PROVE FALSE
  OBVIOUS
<1>1. p[2] \in Offsets /\ p[2] < HdrSize
  BY Positions
<1> QED BY <1>1, Numbers

(* RAM and flash agree on a block's state where no scan is to come.        *)
LEMMA StateHdr ==
    IInv /\ ~Looping => \A b \in Blocks : ~(pc = "format" /\ b = blk) =>
        /\ state[b] = hdr[b] /\ hdr[b] \in {"clean", "used", "dirty"}
        /\ space[b] = BlockSize - fill[b]
<1> SUFFICES ASSUME IInv, ~Looping, NEW b \in Blocks, ~(pc = "format" /\ b = blk)
             PROVE  /\ state[b] = hdr[b] /\ hdr[b] \in {"clean", "used", "dirty"}
                    /\ space[b] = BlockSize - fill[b]
  OBVIOUS
<1>1. Measured(b)
  BY DEF Measured
<1> QED BY <1>1 DEF IInv, TypeOK, Mirrored, FlashType

(* Where some block has no header, or one is clean and empty, none is to   *)
(* be thrown away.                                                         *)
LEMMA NoShadow ==
    IInv /\ (\E b \in Blocks : hdr[b] = "none" \/ (hdr[b] = "clean" /\ fill[b] = HdrSize))
        => Shadow = {}
<1> SUFFICES ASSUME NEW b \in Blocks, hdr[b] = "none" \/ (hdr[b] = "clean" /\ fill[b] = HdrSize),
                    NEW c \in Shadow
             PROVE  FALSE
  OBVIOUS
<1>1. c # b
  BY DEF Shadow, Filled
<1> QED BY <1>1 DEF Shadow

(* Every clean block kv_mgr_t counts is erased, but for GC's destination.  *)
LEMMA CountedErased ==
    IInv => \A b \in Counted : /\ b \in Blocks /\ hdr[b] = "clean" /\ state[b] = "clean"
                               /\ fill[b] = HdrSize \/ (Collecting /\ b = dest)
<1> SUFFICES ASSUME IInv, NEW b \in Counted
             PROVE  /\ b \in Blocks /\ hdr[b] = "clean" /\ state[b] = "clean"
                    /\ fill[b] = HdrSize \/ (Collecting /\ b = dest)
  OBVIOUS
<1>1. /\ b \in Blocks /\ state[b] = "clean" /\ b \notin unclean
      /\ ~((Looping \/ pc \in {"erase", "format"}) /\ b = blk)
  BY DEF Counted
<1>2. Looping => b < blk
  <2> SUFFICES ASSUME Looping, ~(b < blk) PROVE FALSE
    OBVIOUS
  <2>1. b > blk
    BY <1>1, Numbers DEF IInv, TypeOK, LocalType
  <2> QED BY <1>1, <2>1 DEF IInv, Mirrored
<1>3. Measured(b)
  BY <1>1, <1>2 DEF Measured
<1>4. hdr[b] = "clean"
  BY <1>1, <1>3 DEF IInv, Mirrored
<1>5. fill[b] = HdrSize \/ (Collecting /\ b = dest)
  BY <1>1, <1>3 DEF IInv, CleanErased
<1> QED BY <1>1, <1>4, <1>5

(* A clean block is counted, and clean_blk_nums says how many there are.   *)
LEMMA CountOne == IInv /\ clean_blk_nums >= 1 => \E b \in Counted : TRUE
<1> SUFFICES ASSUME IInv, clean_blk_nums >= 1, Counted = {} PROVE FALSE
  OBVIOUS
<1>1. clean_blk_nums = 0
  BY FS_EmptySet DEF IInv, CleanCount
<1> QED BY <1>1

(* With a count of none no clean block is left.                            *)
LEMMA CountNone == IInv /\ clean_blk_nums = 0 => Counted = {}
<1> SUFFICES ASSUME IInv, clean_blk_nums = 0 PROVE Counted = {}
  OBVIOUS
<1>1. Counted \subseteq Blocks
  BY DEF Counted
<1>2. IsFiniteSet(Counted) /\ Cardinality(Counted) = 0
  BY <1>1, BlockCount DEF IInv, CleanCount
<1> QED BY <1>2, FS_EmptySet

(* A clean block counts.                                                   *)
LEMMA CountSome == IInv => \A b \in Counted : clean_blk_nums >= 1
<1> SUFFICES ASSUME IInv, NEW b \in Counted PROVE clean_blk_nums >= 1
  OBVIOUS
<1>1. Counted \subseteq Blocks
  BY DEF Counted
<1>2. IsFiniteSet(Counted) /\ Cardinality(Counted) \in Nat /\ Cardinality(Counted) # 0
  BY <1>1, BlockCount, FS_EmptySet, Numbers
<1> QED BY <1>2 DEF IInv, CleanCount

(* Two clean blocks make a count of two, and such a count two blocks.      *)
LEMMA CountTwo ==
    IInv => /\ \A a, b \in Counted : a # b => clean_blk_nums >= 2
            /\ clean_blk_nums >= 2 => \A a : \E b \in Counted : b # a
<1> SUFFICES ASSUME IInv PROVE /\ \A a, b \in Counted : a # b => clean_blk_nums >= 2
                               /\ clean_blk_nums >= 2 => \A a : \E b \in Counted : b # a
  OBVIOUS
<1>1. Counted \subseteq Blocks
  BY DEF Counted
<1>2. IsFiniteSet(Counted) /\ clean_blk_nums = Cardinality(Counted) /\ Cardinality(Counted) \in Int
  BY <1>1, BlockCount, Numbers DEF IInv, CleanCount
<1>3. ASSUME NEW a \in Counted, NEW b \in Counted, a # b PROVE clean_blk_nums >= 2
  <2>1. {a, b} \subseteq Counted /\ Cardinality({a, b}) = 2
    <3>1. IsFiniteSet({a}) /\ Cardinality({a}) = 1 /\ {a, b} = {a} \cup {b} /\ b \notin {a}
      BY <1>3, FS_Singleton
    <3> QED BY <1>3, <3>1, FS_AddElement
  <2>2. Cardinality({a, b}) <= Cardinality(Counted)
    BY <1>2, <2>1, FS_Subset
  <2> QED BY <1>2, <2>1, <2>2
<1>4. ASSUME clean_blk_nums >= 2, NEW a, \A b \in Counted : b = a PROVE FALSE
  <2>1. Counted \subseteq {a} /\ IsFiniteSet({a}) /\ Cardinality({a}) = 1
    BY <1>4, FS_Singleton
  <2>2. Cardinality(Counted) <= 1
    BY <2>1, FS_Subset
  <2> QED BY <1>2, <1>4, <2>2
<1> QED BY <1>3, <1>4

(* Between requests and within them nothing is to be thrown away, unless   *)
(* GC is copying.                                                          *)
LEMMA ShadowUp == IInv /\ Trigger /\ Up /\ ~Copying => Shadow = {}
<1> SUFFICES ASSUME IInv, Trigger, Up, ~Copying, NEW b \in Shadow PROVE FALSE
  OBVIOUS
<1>1. ~Looping /\ unclean = {} /\ (pc \in {"erase", "format"} => back = "use")
  BY DEF IInv, Frontier
<1>2. pc # "format"
  <2> SUFFICES ASSUME pc = "format" PROVE FALSE
    OBVIOUS
  <2>1. hdr[blk] = "none" /\ blk \in Blocks
    BY DEF IInv, Control, TypeOK, LocalType
  <2> QED BY <2>1, NoShadow
<1>3. b \in Blocks /\ hdr[b] = "clean" /\ fill[b] # HdrSize /\ state[b] = "clean"
      /\ \A c \in Blocks \ {b} : hdr[c] \in {"used", "dirty"}
  BY <1>1, <1>2, StateHdr DEF Shadow, Filled
<1>4. b \in Counted
  BY <1>1, <1>2, <1>3 DEF Counted, Copying
<1>5. pc = "use"
  BY <1>1, <1>2, <1>3, <1>4, CountedErased DEF Collecting, Copying
<1>6. clean_blk_nums >= 2
  BY <1>5 DEF Trigger, Reserved, IInv, TypeOK, RamType
<1>7. PICK c \in Counted : c # b
  BY <1>6, CountTwo
<1>8. c \in Blocks /\ hdr[c] = "clean"
  BY <1>7, CountedErased
<1> QED BY <1>3, <1>7, <1>8

(* While one block is clean and the others in use, the clean one is what   *)
(* recovery throws away, or empty: only the others' items count.           *)
LEMMA ItemsOutside ==
    IInv => \A d \in Blocks :
        hdr[d] = "clean" /\ (\A c \in Blocks \ {d} : hdr[c] \in {"used", "dirty"}) =>
            /\ Shadow \subseteq {d}
            /\ \A k : Items(k) = {p \in Pos : Good(p) /\ At(p).key = k /\ p[1] # d}
<1> SUFFICES ASSUME IInv, NEW d \in Blocks, hdr[d] = "clean",
                    \A c \in Blocks \ {d} : hdr[c] \in {"used", "dirty"}
             PROVE  /\ Shadow \subseteq {d}
                    /\ \A k : Items(k) = {p \in Pos : Good(p) /\ At(p).key = k /\ p[1] # d}
  OBVIOUS
<1>1. Shadow \subseteq {d}
  BY DEF Shadow, Filled
<1>2. fill[d] # HdrSize => d \in Shadow
  BY DEF Shadow, Filled
<1>3. fill[d] = HdrSize => \A p \in Pos : p[1] = d => ~Good(p)
  BY EmptyBlank, SlotTypes DEF Good
<1>4. ASSUME NEW k, NEW p \in Pos, Good(p) PROVE p[1] \notin Shadow <=> p[1] # d
  BY <1>1, <1>2, <1>3, <1>4
<1> QED BY <1>1, <1>4 DEF Items

(* The victim of a GC is still what counts.                                *)
LEMMA ItemsCopying ==
    IInv /\ Copies /\ Copying =>
        /\ dest \in Blocks /\ Victim \in Blocks /\ dest # Victim
        /\ hdr[dest] = "clean" /\ state[dest] = "clean" /\ Shadow \subseteq {dest}
        /\ Up /\ ~Looping /\ Collecting /\ unclean = {}
        /\ \A k : Items(k) = {p \in Pos : Good(p) /\ At(p).key = k /\ p[1] # dest}
<1> SUFFICES ASSUME IInv, Copies, Copying
             PROVE  /\ dest \in Blocks /\ Victim \in Blocks /\ dest # Victim
                    /\ hdr[dest] = "clean" /\ state[dest] = "clean" /\ Shadow \subseteq {dest}
                    /\ Up /\ ~Looping /\ Collecting /\ unclean = {}
                    /\ \A k : Items(k) = {p \in Pos : Good(p) /\ At(p).key = k /\ p[1] # dest}
  OBVIOUS
<1>1. Collecting /\ ~Looping /\ pc # "format" /\ pc # "unclean"
  BY DEF Copying, Collecting, Looping
<1>2. Up
  BY <1>1 DEF IInv, Control, Copying
<1>3. unclean = {} /\ state[dest] = "clean" /\ dest \in Blocks
  BY <1>1, <1>2 DEF IInv, Frontier, TypeOK, LocalType
<1>4. hdr[dest] = "clean"
  BY <1>1, <1>3, StateHdr
<1>5. Victim \in Blocks /\ dest # Victim
  <2>1. CASE pc = "copy"
    <3>1. at \in Pos /\ state[at[1]] = "dirty"
      BY <2>1 DEF IInv, Control, Walking, Scanning
    <3> QED BY <2>1, <3>1, <1>3 DEF Victim, Pos
  <2>2. CASE pc = "erase" /\ back = "use"
    BY <2>2, <1>1 DEF IInv, Control, Victim, TypeOK, LocalType
  <2> QED BY <2>1, <2>2 DEF Copying
<1>6. /\ Shadow \subseteq {dest}
      /\ \A k : Items(k) = {p \in Pos : Good(p) /\ At(p).key = k /\ p[1] # dest}
  BY <1>3, <1>4, ItemsOutside DEF Copies
<1> QED BY <1>1, <1>2, <1>3, <1>4, <1>5, <1>6

(* Where no clean block holds items, what kv_item_search finds is what     *)
(* counts.                                                                 *)
LEMMA LiveIsItems ==
    IInv /\ NoTorn /\ ~Looping /\ unclean = {} /\ pc \notin {"erase", "format"} /\ ~Collecting
        => Shadow = {} /\ \A k : Live(k) = Items(k)
<1> SUFFICES ASSUME IInv, NoTorn, ~Looping, unclean = {}, pc \notin {"erase", "format"},
                    ~Collecting
             PROVE  Shadow = {} /\ \A k : Live(k) = Items(k)
  OBVIOUS
<1>1. \A b \in Blocks : state[b] = hdr[b] /\ (state[b] = "clean" => fill[b] = HdrSize)
  <2> TAKE b \in Blocks
  <2>1. state[b] = hdr[b]
    BY StateHdr
  <2>2. state[b] = "clean" => b \in Counted
    BY DEF Counted
  <2> QED BY <2>1, <2>2, CountedErased
<1>2. Shadow = {}
  BY <1>1 DEF Shadow, Filled
<1>3. ASSUME NEW k, NEW p \in Live(k) PROVE p \in Items(k)
  <2>1. p \in Pos /\ At(p).state = "normal" /\ At(p).key = k
    BY <1>3 DEF Live
  <2>2. At(p).crc = "good"
    <3>1. Passed(p) /\ ~(pc = "del" /\ back = "scan")
      BY DEF Passed, Looping
    <3> QED BY <2>1, <3>1 DEF NoTorn
  <2> QED BY <2>1, <2>2, <1>2 DEF Items, Good
<1>4. ASSUME NEW k, NEW p \in Items(k) PROVE p \in Live(k)
  <2>1. p \in Pos /\ At(p).state = "normal" /\ At(p).key = k /\ p[1] \in Blocks
    BY Positions DEF Items, Good
  <2>2. At(p) # Blank
    BY <2>1, SlotTypes
  <2>3. state[p[1]] # "clean"
    BY <2>1, <2>2, <1>1, EmptyBlank
  <2> QED BY <2>1, <2>3 DEF Live
<1> QED BY <1>2, <1>3, <1>4

-----------------------------------------------------------------------------
(* Requests that change nothing, and the beginning of one that does. *)

(* What a step that writes no item leaves alone.                           *)
LEMMA ItemsSame ==
  ASSUME UNCHANGED slot
  PROVE  /\ \A p : At(p)' = At(p) /\ (Good(p)' <=> Good(p))
         /\ Disjoint => Disjoint'
         /\ Shadow' = Shadow => \A k : /\ Items(k)' = Items(k) /\ Current(k)' = Current(k)
                                       /\ Single(k)' <=> Single(k)
<1>1. \A p : At(p)' = At(p) /\ (Good(p)' <=> Good(p))
  BY DEF At, Good
<1>2. Disjoint => Disjoint'
  BY DEF Disjoint
<1>3. ASSUME Shadow' = Shadow, NEW k PROVE Items(k)' = Items(k)
  BY <1>1, <1>3 DEF Items
<1>4. ASSUME Shadow' = Shadow, NEW k PROVE Current(k)' = Current(k) /\ (Single(k)' <=> Single(k))
  <2>1. Items(k)' = Items(k)
    BY <1>3, <1>4
  <2> QED BY <1>1, <2>1 DEF Current, Single
<1> QED BY <1>1, <1>2, <1>3, <1>4

(* Which block recovery will format depends on headers and frontiers.      *)
LEMMA ShadowSame == UNCHANGED <<hdr, fill>> => Shadow' = Shadow /\ \A b : Filled(b)' <=> Filled(b)
  BY DEF Shadow, Filled

(* With a clean block counted the first part of Spare holds.               *)
LEMMA SpareCount == IInv /\ clean_blk_nums >= 1 => \E b \in Blocks : hdr[b] \in {"none", "clean"}
  BY CountOne, CountedErased

(* Between requests a power failure has no loose ends to find.             *)
LEMMA IdleUp == IInv /\ pc \in {"idle", "spin"} => Up /\ ~Looping /\ ~Collecting /\ unclean = {}
<1> SUFFICES ASSUME IInv, pc \in {"idle", "spin"}
             PROVE  Up /\ ~Looping /\ ~Collecting /\ unclean = {}
  OBVIOUS
<1>1. ~Looping /\ ~Collecting
  BY DEF Looping, Collecting
<1>2. Up
  BY <1>1 DEF IInv, Control
<1> QED BY <1>1, <1>2 DEF IInv, Frontier

(* A request that changes nothing.                                         *)
LEMMA IdleKeeps ==
  ASSUME IInv, DataInv, pc = "idle", pc' \in {"idle", "spin"},
         UNCHANGED <<flash, state, clean_blk_nums, write_pos, locals, want, exposed, lost>>,
         gc_trigger' \in {0, 1}, gc_trigger' = 1 => clean_blk_nums <= Reserved
  PROVE  DataInv'
<1> USE DEF DataInv, flash, locals
<1>1. Up /\ Up' /\ ~Looping /\ ~Looping' /\ ~Collecting /\ ~Collecting' /\ ~Copying'
  BY IdleUp DEF Up, Looping, Collecting, Copying
<1>2. Shadow' = Shadow /\ \A b : Filled(b)' <=> Filled(b)
  BY ShadowSame
<1>3. /\ \A p : At(p)' = At(p) /\ (Good(p)' <=> Good(p))
      /\ \A k : Items(k)' = Items(k) /\ Current(k)' = Current(k) /\ (Single(k)' <=> Single(k))
  BY <1>2, ItemsSame
<1>4. Spare' /\ Disjoint'
  BY <1>1, ItemsSame DEF Spare
<1>5. NoTorn' /\ UsedClean'
  BY <1>1, <1>3 DEF NoTorn, UsedClean, Passed
<1>6. Trigger' /\ Leftover' /\ Copies' /\ Chosen'
  BY <1>1, <1>2, <1>3 DEF Trigger, Leftover, Copies, Chosen
<1>7. Wanted'
  BY <1>1, <1>3 DEF Wanted
<1>8. Answering'
  BY <1>1, <1>3 DEF Answering, Pending, Sweeping, NoReq
<1> QED BY <1>4, <1>5, <1>6, <1>7, <1>8

(* Setting a key to the value it has changes nothing.                      *)
LEMMA SetSameData == ASSUME IInv, DataInv, NEW k \in Keys, NEW v \in Vals, SetSame(k, v)
                     PROVE  DataInv'
BY IdleKeeps DEF SetSame, Ready, flash, locals

(* Reading a key changes nothing.                                          *)
LEMMA GetData == ASSUME IInv, DataInv, NEW k \in Keys, Get(k) PROVE DataInv'
BY IdleKeeps DEF Get, Ready, flash, locals

(* GC without a block to collect, or one to copy to, changes nothing.      *)
LEMMA GcNothingData == ASSUME IInv, DataInv, GcNothing PROVE DataInv'
BY IdleKeeps DEF GcNothing, flash, locals, history

(* kv_calc_position that never returns changes nothing.                    *)
LEMMA SetSpinData == ASSUME IInv, DataInv, NEW k \in Keys, NEW v \in Vals, SetSpin(k, v)
                     PROVE  DataInv'
BY IdleKeeps DEF SetSpin, NoRoom, Ready, flash, locals

(* When kv_calc_position finds no room GC has no more than one clean block *)
(* left.                                                                   *)
LEMMA SetFullData == ASSUME IInv, DataInv, NEW k \in Keys, NEW v \in Vals, SetFull(k, v)
                     PROVE  DataInv'
<1>1. pc = "idle" /\ NoRoom(k, v)
  BY DEF SetFull, NoRoom, Ready
<1>2. ~Looping /\ unclean = {} /\ ~Collecting /\ Up /\ Searched(k) = space
  BY <1>1, IdleUp, SearchedSame
<1>3. clean_blk_nums <= Reserved
  <2>1. CASE Searches
    <3>1. ASSUME NEW b \in Counted PROVE FALSE
      <4>1. b \in Blocks /\ fill[b] = HdrSize
        BY <1>2, CountedErased
      <4>2. space[b] = BlockSize - HdrSize
        BY <1>1, <1>2, <4>1, StateHdr
      <4>3. Size(k, v) <= ItemMax /\ Size(k, v) \in Int
        BY SizeAssumption, Numbers
      <4>4. Fits(space, b, k, v)
        BY <4>2, <4>3, Numbers DEF Fits
      <4> QED BY <2>1, <4>1, <4>4, <1>1, <1>2 DEF NoRoom
    <3>2. ~(clean_blk_nums >= 1)
      BY <3>1, CountOne
    <3> QED BY <3>2, Numbers DEF IInv, TypeOK, RamType
  <2>2. CASE ~Searches
    <3>1. NBlocks = 2
      BY <2>2, Numbers DEF Searches
    <3>2. Counted \subseteq Blocks /\ write_pos[1] \in Blocks /\ write_pos[1] \notin Counted
      <4>1. write_pos \in Pos
        BY <1>2 DEF Up, IInv, TypeOK, RamType
      <4>2. state[write_pos[1]] \in {"used", "dirty"}
        BY <1>2 DEF IInv, Frontier
      <4> QED BY <4>1, <4>2 DEF Counted, Pos
    <3>3. clean_blk_nums # NBlocks /\ clean_blk_nums \in 0..NBlocks
      BY <3>2, BlockCount DEF IInv, CleanCount
    <3> QED BY <3>1, <3>3, Numbers
  <2> QED BY <2>1, <2>2
<1> QED BY <1>1, <1>3, IdleKeeps DEF SetFull, NoRoom, flash, locals

(* A request that changes the store begins.                                *)
LEMMA BeginKeeps ==
  ASSUME IInv, DataInv, Ready, NEW ks \in SUBSET Keys, NEW v \in Values, Begin(ks, v),
         pc' \in {"store", "del", "sweep"}, back' = "reply" \/ pc' = "sweep",
         pc' # "sweep" => \E k \in Keys : ks = {k},
         pc' = "sweep" => v = NoVal /\ ks \in Prefixes /\ at' = <<0, HdrSize>>,
         UNCHANGED <<slot, fill, dest, unclean, blk>>, IInv',
         Shadow' = {}, Spare', UsedClean', Trigger',
         \A b \in Blocks : Filled(b)' => Filled(b),
         \A k \in ks : /\ pc' = "store" => Items(k) = {old'} \ {NoPos}
                       /\ pc' = "del" => v = NoVal /\ old' \in Items(k) /\ At(old').key = k
  PROVE  DataInv'
<1> USE DEF DataInv
<1>1. Up /\ ~Looping /\ unclean = {} /\ ~Collecting /\ Shadow = {}
  <2>1. pc = "idle"
    BY DEF Ready
  <2> QED BY <2>1, IdleUp, ShadowUp DEF Copying
<1>2. /\ ~Looping' /\ ~Collecting' /\ ~Copying'
      /\ pc' \notin {"erase", "format", "unclean", "probe", "scan"}
  BY DEF Looping, Collecting, Copying
<1>3. Up'
  BY <1>2 DEF IInv, Control
<1>4. /\ \A p : At(p)' = At(p) /\ (Good(p)' <=> Good(p))
      /\ \A k : Items(k)' = Items(k) /\ Current(k)' = Current(k) /\ (Single(k)' <=> Single(k))
      /\ Disjoint'
  BY <1>1, ItemsSame
<1>5. req = NoReq /\ \A k \in Keys : Single(k) /\ want[k] = Current(k)
  BY <1>1 DEF Answering, Ready, NoReq
<1>6. /\ req'.keys = ks /\ req'.val = v /\ exposed' = {} /\ lost' = {}
      /\ \A k \in Keys : want'[k] = IF k \in ks THEN want[k] \cup {v} ELSE want[k]
  BY DEF Begin
<1>7. NoTorn'
  BY <1>1, <1>4 DEF NoTorn, Passed, Ready
<1>8. Leftover' /\ Copies' /\ Chosen'
  BY <1>1, <1>2, <1>3 DEF Leftover, Copies, Chosen
<1>9. Wanted'
  <2>1. \A k \in Keys : want[k] \subseteq want'[k]
    BY <1>6
  <2> QED BY <2>1, <1>1, <1>3, <1>4 DEF Wanted
<1>10. ASSUME NEW k \in ks PROVE Pending(k)'
  <2>1. req'.val \in want'[k]
    BY <1>6
  <2>2. (pc = "store" => Items(k) = {old} \ {NoPos})'
    BY <1>4
  <2>3. (pc = "del" /\ back = "reply" => At(old).key = k /\ Deleting(old))'
    <3> SUFFICES ASSUME pc' = "del" PROVE (At(old).key = k /\ Deleting(old))'
      OBVIOUS
    <3>1. PICK q : q = old'
      OBVIOUS
    <3>2. v = NoVal /\ q \in Items(k) /\ At(q).key = k /\ At(q)' = At(q)
      BY <3>1, <1>4
    <3>3. (At(old) = At(q))'
      BY <3>1 DEF At
    <3>4. Items(k)' = {q}
      BY <3>2, <1>4, <1>5 DEF Single
    <3> QED BY <3>1, <3>2, <3>3, <3>4, <1>6 DEF Deleting
  <2>4. (Sweeping => Single(k) /\ \A p \in Items(k) : Before(at, p) \/ (pc = "del" /\ old = p))'
    <3> SUFFICES ASSUME pc' = "sweep", NEW p \in Items(k) PROVE Before(<<0, HdrSize>>, p)
      BY <1>4, <1>5 DEF Sweeping
    <3>1. p \in Pos
      BY DEF Items
    <3>2. p[1] \in Blocks /\ p[2] \in Offsets
      BY <3>1, Positions
    <3> QED BY <3>2, Numbers DEF Before
  <2>5. ~(pc = "mark")'
    OBVIOUS
  <2> QED BY <2>1, <2>2, <2>3, <2>4, <2>5 DEF Pending
<1>11. Answering'
  <2>1. \A k \in Keys : (IF k \in req.keys THEN Pending(k) ELSE Single(k) /\ want[k] = Current(k))'
    BY <1>4, <1>5, <1>6, <1>10
  <2> QED BY <2>1, <1>2, <1>3, <1>6 DEF Answering, Sweeping
<1> QED BY <1>4, <1>7, <1>8, <1>9, <1>11

(* What kv_item_search finds between requests.                             *)
LEMMA FoundItem ==
  ASSUME IInv, DataInv, pc = "idle", NEW k \in Keys, NEW p \in Pos \cup {NoPos}, Found(k, p)
  PROVE  /\ Items(k) = {p} \ {NoPos}
         /\ p # NoPos => p \in Items(k) /\ At(p).key = k
<1>1. Live(k) = Items(k)
  BY LiveIsItems, IdleUp DEF DataInv
<1>2. Single(k)
  <2>1. Up /\ req = NoReq
    BY IdleUp DEF DataInv, Answering
  <2> QED BY <2>1 DEF DataInv, Answering, NoReq
<1>3. CASE p \in kv_item_search(k)
  <2>1. p \in Live(k) /\ p \in Pos
    BY <1>3 DEF kv_item_search, Live
  <2>2. p # NoPos
    BY <2>1, Numbers
  <2> QED BY <2>1, <2>2, <1>1, <1>2 DEF Single, Items
<1>4. CASE Live(k) = {} /\ p = NoPos
  BY <1>1, <1>4
<1> QED BY <1>3, <1>4 DEF Found

(* kv_item_set begins, in the block being written.                         *)
LEMMA SetHereData == ASSUME IInv, DataInv, NEW k \in Keys, NEW v \in Vals, SetHere(k, v)
                     PROVE  DataInv'
<1>1. /\ Ready /\ Begin({k}, v) /\ pc' = "store" /\ back' = "reply" /\ pc = "idle"
      /\ \E p \in Pos \cup {NoPos} : Found(k, p) /\ old' = p
      /\ UNCHANGED <<hdr, slot, fill, state, clean_blk_nums, write_pos, at, blk, dest, unclean>>
  BY DEF SetHere, StartStore, Ready
<1>2. gc_trigger' \in {0, 1} /\ (gc_trigger' = 1 => clean_blk_nums <= Reserved)
  BY DEF SetHere
<1>3. Up /\ Up' /\ ~Looping /\ Shadow = {} /\ Shadow' = {} /\ \A b : Filled(b)' <=> Filled(b)
  <2>1. Up /\ ~Looping /\ Shadow = {}
    BY <1>1, IdleUp, ShadowUp DEF DataInv, Copying
  <2> QED BY <1>1, <2>1, ShadowSame DEF Up
<1>4. Spare' /\ Trigger' /\ UsedClean'
  <2>1. Spare' /\ Trigger'
    BY <1>1, <1>2, <1>3 DEF DataInv, Spare, Trigger
  <2> QED BY <1>1, <1>3, <2>1 DEF DataInv, UsedClean, Passed, At
<1>5. Items(k) = {old'} \ {NoPos}
  BY <1>1, FoundItem
<1>6. IInv'
  BY SetHereStep
<1> QED BY <1>1, <1>3, <1>4, <1>5, <1>6, BeginKeeps DEF Values

(* kv_item_set begins, in another block.                                   *)
LEMMA SetOpenData == ASSUME IInv, DataInv, NEW k \in Keys, NEW v \in Vals, SetOpen(k, v)
                     PROVE  DataInv'
<1>1. /\ Ready /\ Begin({k}, v) /\ pc' = "store" /\ back' = "reply" /\ pc = "idle"
      /\ \E p \in Pos \cup {NoPos} : Found(k, p) /\ old' = p
      /\ UNCHANGED <<slot, fill, at, blk, dest, unclean>>
      /\ gc_trigger = 0 /\ gc_trigger' = 0
  BY DEF SetOpen, StartStore, Ready
<1>2. PICK i \in Blocks :
        IF state[i] = "clean"
        THEN SetBlockState(i, "used") /\ clean_blk_nums' = clean_blk_nums - 1
        ELSE KeepBlockState /\ UNCHANGED clean_blk_nums
  BY DEF SetOpen
<1>3. IInv' /\ NBlocks # Reserved + 1
  BY SetOpenStep, Numbers DEF SetOpen, Searches
<1>4. Up /\ Up' /\ ~Looping /\ ~Looping' /\ ~Collecting /\ Shadow = {}
  <2>1. Up /\ ~Looping /\ ~Collecting /\ Shadow = {}
    BY <1>1, IdleUp, ShadowUp DEF DataInv, Copying
  <2>2. ~Looping'
    BY <1>1 DEF Looping
  <2> QED BY <1>1, <1>3, <2>1, <2>2 DEF IInv, Control
<1>5. Trigger' /\ Spare'
  BY <1>1, <1>3, <1>4 DEF Trigger, Spare
<1>6. Shadow' = {}
  <2>1. (IInv /\ Trigger /\ Up /\ ~Copying => Shadow = {})'
    BY ShadowUp, PTL
  <2> QED BY <1>1, <1>3, <1>4, <1>5, <2>1 DEF Copying
<1>7. \A b \in Blocks : /\ hdr'[b] = hdr[b] \/ (state[b] = "clean" /\ hdr'[b] = "used")
                        /\ state'[b] = state[b] \/ (state[b] = "clean" /\ state'[b] = "used")
  BY <1>2 DEF SetBlockState, KeepBlockState, IInv, TypeOK, FlashType, RamType
<1>8. \A b \in Blocks : Filled(b)' => Filled(b)
  BY <1>1, <1>7 DEF Filled
<1>9. UsedClean'
  <2> SUFFICES ASSUME NEW p \in Pos, state'[p[1]] = "used"
               PROVE  At(p)' = Blank \/ At(p)'.state = "normal"
    BY DEF UsedClean
  <2>1. At(p)' = At(p) /\ p[1] \in Blocks
    BY <1>1, ItemsSame, Positions
  <2>2. CASE state[p[1]] = "clean"
    <3>1. p[1] \in Counted
      BY <1>1, <1>4, <2>1, <2>2, IdleUp DEF Counted
    <3>2. At(p) = Blank
      BY <1>4, <3>1, CountedErased, EmptyBlank
    <3> QED BY <2>1, <3>2
  <2>3. CASE state[p[1]] = "used"
    BY <1>1, <1>4, <2>1, <2>3 DEF DataInv, UsedClean, Passed
  <2> QED BY <2>1, <2>2, <2>3, <1>7
<1>10. Items(k) = {old'} \ {NoPos}
  BY <1>1, FoundItem
<1> QED BY <1>1, <1>3, <1>5, <1>6, <1>8, <1>9, <1>10, BeginKeeps DEF Values

(* kv_item_delete finds the key, or has nothing to do.                     *)
LEMMA DeleteData == ASSUME IInv, DataInv, NEW k \in Keys, Delete(k) PROVE DataInv'
<1>1. PICK p \in Pos \cup {NoPos} :
        /\ Found(k, p)
        /\ IF p = NoPos
           THEN reply' = NoVal /\ UNCHANGED <<pc, req, old, back, want, exposed, lost>>
           ELSE /\ Begin({k}, NoVal)
                /\ old' = p /\ pc' = "del" /\ back' = "reply"
  BY DEF Delete
<1>2. /\ Ready /\ pc = "idle" /\ gc_trigger = 0
      /\ UNCHANGED <<hdr, slot, fill, state, clean_blk_nums, write_pos, gc_trigger,
                     at, blk, dest, unclean>>
  BY DEF Delete, Ready, flash
<1>3. CASE p = NoPos
  BY <1>1, <1>2, <1>3, IdleKeeps DEF flash, locals
<1>4. CASE p # NoPos
  <2>1. Begin({k}, NoVal) /\ old' = p /\ pc' = "del" /\ back' = "reply"
    BY <1>1, <1>4
  <2>2. Up /\ Up' /\ ~Looping /\ Shadow = {} /\ Shadow' = {} /\ \A b : Filled(b)' <=> Filled(b)
    <3>1. Up /\ ~Looping /\ Shadow = {}
      BY <1>2, IdleUp, ShadowUp DEF DataInv, Copying
    <3> QED BY <1>2, <3>1, ShadowSame DEF Up
  <2>3. Spare' /\ Trigger' /\ UsedClean'
    <3>1. Spare' /\ Trigger'
      BY <1>2, <2>1, <2>2 DEF DataInv, Spare, Trigger
    <3> QED BY <1>2, <2>2, <3>1 DEF DataInv, UsedClean, Passed, At
  <2>4. old' \in Items(k) /\ At(old').key = k
    BY <1>1, <1>2, <1>4, <2>1, FoundItem
  <2>5. IInv'
    BY DeleteStep
  <2> QED BY <1>2, <2>1, <2>2, <2>3, <2>4, <2>5, BeginKeeps DEF Values
<1> QED BY <1>3, <1>4

(* kv_item_delete_by_prefix begins.                                        *)
LEMMA DeletePrefixData == ASSUME IInv, DataInv, NEW ks \in Prefixes, DeletePrefix(ks)
                          PROVE  DataInv'
<1>1. /\ Ready /\ Begin(ks, NoVal) /\ pc' = "sweep" /\ pc = "idle" /\ at' = <<0, HdrSize>>
      /\ UNCHANGED <<hdr, slot, fill, state, clean_blk_nums, write_pos, gc_trigger, old,
                     blk, dest, unclean, back>>
      /\ gc_trigger = 0
  BY DEF DeletePrefix, Ready, flash, ram
<1>2. Up /\ Up' /\ ~Looping /\ Shadow = {} /\ Shadow' = {} /\ \A b : Filled(b)' <=> Filled(b)
  <2>1. Up /\ ~Looping /\ Shadow = {}
    BY <1>1, IdleUp, ShadowUp DEF DataInv, Copying
  <2> QED BY <1>1, <2>1, ShadowSame DEF Up
<1>3. Spare' /\ Trigger' /\ UsedClean'
  <2>1. Spare' /\ Trigger'
    BY <1>1, <1>2 DEF DataInv, Spare, Trigger
  <2> QED BY <1>1, <1>2, <2>1 DEF DataInv, UsedClean, Passed, At
<1>4. IInv' /\ ks \in SUBSET Keys
  BY DeletePrefixStep, ValueAssumption
<1> QED BY <1>1, <1>2, <1>3, <1>4, BeginKeeps DEF Values

-----------------------------------------------------------------------------
(* kv_item_store. *)

(* An item put on erased flash at the frontier overlaps none.              *)
LEMMA ProgramDisjoint ==
  ASSUME IInv, Disjoint, NEW p \in Pos, NEW s \in Item \cup {Junk}, Program(p, s),
         p[2] = fill[p[1]], hdr[p[1]] # "none", p[2] + Len(s) < BlockSize
  PROVE  /\ Disjoint' /\ hdr' = hdr /\ At(p) = Blank /\ At(p)' = s
         /\ \A q \in Pos : q # p => At(q)' = At(q)
         /\ \A b \in Blocks : b # p[1] => fill'[b] = fill[b]
         /\ fill'[p[1]] # HdrSize
<1>1. /\ p[1] \in Blocks /\ p[2] \in Offsets /\ p[2] \in Int /\ p = <<p[1], p[2]>>
      /\ At(p) = slot[p[1]][p[2]]
  BY Positions
<1>2. /\ FlashType' /\ hdr' = hdr /\ slot[p[1]][p[2]] = Blank
      /\ fill' = [fill EXCEPT ![p[1]] = p[2] + Len(s)]
  BY ProgramKeeps
<1>3. FlashType /\ slot' = [slot EXCEPT ![p[1]][p[2]] = s]
  BY DEF Program, IInv, TypeOK
<1>4. \A b \in Blocks, o \in Offsets :
        slot'[b][o] = IF b = p[1] /\ o = p[2] THEN s ELSE slot[b][o]
  BY <1>1, <1>3 DEF FlashType
<1>5. At(p)' = s
  BY <1>1, <1>4 DEF At
<1>6. ASSUME NEW q \in Pos, q # p PROVE At(q)' = At(q)
  <2>1. q[1] \in Blocks /\ q[2] \in Offsets /\ q = <<q[1], q[2]>>
    BY Positions
  <2>2. ~(q[1] = p[1] /\ q[2] = p[2])
    BY <1>1, <1>6, <2>1
  <2> QED BY <1>4, <2>1, <2>2 DEF At
<1>7. Len(s) \in ItemHdr..ItemMax
  BY SlotTypes
<1>8. /\ \A b \in Blocks : b # p[1] => fill'[b] = fill[b]
      /\ fill'[p[1]] # HdrSize
  BY <1>1, <1>2, <1>3, <1>7, Numbers DEF FlashType
<1>9. Disjoint'
  <2> SUFFICES ASSUME NEW b \in Blocks, NEW o \in Offsets, NEW q \in Offsets,
                      slot'[b][o] # Blank, slot'[b][q] # Blank, o < q
               PROVE  o + Len(slot'[b][o]) <= q
    BY DEF Disjoint
  <2>1. ASSUME slot[p[1]][o] # Blank, b = p[1]
        PROVE  o + Len(slot[b][o]) <= p[2] /\ o < p[2]
    <3>1. Len(slot[b][o]) \in ItemHdr..ItemMax /\ o + Len(slot[b][o]) <= fill[b]
      BY <1>1, <1>3, <2>1, SlotLengths DEF IInv, Chained
    <3> QED BY <1>1, <2>1, <3>1, Numbers
  <2>2. ASSUME slot[p[1]][q] # Blank, b = p[1] PROVE q < p[2]
    <3>1. Len(slot[b][q]) \in ItemHdr..ItemMax /\ q + Len(slot[b][q]) <= fill[b]
      BY <1>1, <1>3, <2>2, SlotLengths DEF IInv, Chained
    <3> QED BY <1>1, <2>2, <3>1, Numbers
  <2>3. CASE b = p[1] /\ o = p[2]
    <3>1. slot[p[1]][q] # Blank
      BY <1>4, <2>3, Numbers
    <3>2. q < p[2]
      BY <2>2, <2>3, <3>1
    <3> QED BY <2>3, <3>2, Numbers
  <2>4. CASE b = p[1] /\ q = p[2] /\ o # p[2]
    BY <1>4, <2>1, <2>4
  <2>5. CASE ~(b = p[1] /\ (o = p[2] \/ q = p[2]))
    BY <1>4, <2>5 DEF Disjoint
  <2> QED BY <2>3, <2>4, <2>5
<1> QED BY <1>1, <1>2, <1>5, <1>6, <1>8, <1>9

(* The new item is written: with the one it replaces it is all the key has.*)
LEMMA StoreData == ASSUME IInv, DataInv, Store PROVE DataInv'
<1> USE DEF DataInv
<1>1. PICK k0 \in req.keys : Program(write_pos, NewItem(k0))
  BY DEF Store
<1>2. /\ pc = "store" /\ req.keys = {k0} /\ k0 \in Keys /\ req.val \in Vals /\ back = "reply"
      /\ IF old = NoPos THEN Finish ELSE pc' = "del" /\ UNCHANGED <<req, old, history>>
      /\ UNCHANGED <<state, clean_blk_nums, gc_trigger, at, blk, dest, unclean, back>>
  BY <1>1 DEF Store, IInv, Control
<1>3. PICK w \in Pos, y \in Item : w = write_pos /\ y = NewItem(k0)
  BY <1>1, <1>2, StoreFits
<1>4. /\ Program(w, y) /\ w[2] = fill[w[1]] /\ hdr[w[1]] # "none" /\ w[2] + Len(y) < BlockSize
      /\ y.state = "normal" /\ y.crc = "good" /\ y.key = k0 /\ y.val = req.val /\ y.origin = old
  BY <1>1, <1>2, <1>3, StoreFits DEF NewItem
<1>5. /\ Disjoint' /\ hdr' = hdr /\ At(w) = Blank /\ At(w)' = y
      /\ \A q \in Pos : q # w => At(q)' = At(q)
      /\ \A b \in Blocks : b # w[1] => fill'[b] = fill[b]
  BY <1>4, ProgramDisjoint
<1>6. IInv' /\ pc' \in {"idle", "del"}
  BY <1>2, StoreStep DEF Finish
<1>7. /\ Up /\ Up' /\ ~Looping /\ ~Looping' /\ ~Collecting /\ ~Collecting' /\ unclean = {}
      /\ ~Copying /\ ~Copying' /\ ~Sweeping' /\ pc' \notin {"use", "erase", "store"}
  <2>1. ~Looping /\ ~Looping' /\ ~Collecting /\ ~Collecting' /\ ~Copying /\ ~Copying'
    BY <1>2, <1>6 DEF Looping, Collecting, Copying
  <2>2. Up /\ Up'
    BY <1>2, <1>6, <2>1 DEF IInv, Control
  <2> QED BY <1>2, <1>6, <2>1, <2>2 DEF IInv, Frontier, Sweeping
<1>8. Trigger' /\ Spare'
  BY <1>2, <1>5, <1>6, <1>7 DEF Trigger, Spare
<1>9. Shadow = {} /\ Shadow' = {}
  <2>1. Shadow = {}
    BY <1>7, ShadowUp
  <2>2. (IInv /\ Trigger /\ Up /\ ~Copying => Shadow = {})'
    BY ShadowUp, PTL
  <2> QED BY <1>6, <1>7, <1>8, <2>1, <2>2
<1>10. ~Good(w) /\ Good(w)' /\ \A q \in Pos : q # w => (Good(q)' <=> Good(q))
  BY <1>4, <1>5, SlotTypes DEF Good
<1>11. /\ Items(k0)' = Items(k0) \cup {w} /\ w \notin Items(k0)
       /\ \A k \in Keys : k # k0 => Items(k)' = Items(k)
       /\ \A k : w \notin Items(k)
  BY <1>4, <1>5, <1>9, <1>10 DEF Items
<1>12. Items(k0) = {old} \ {NoPos}
  BY <1>2, <1>7 DEF Answering, Pending
<1>13. ASSUME NEW k \in Keys, k # k0
       PROVE  /\ Items(k)' = Items(k) /\ \A p \in Items(k) : At(p)' = At(p)
              /\ Current(k)' = Current(k) /\ (Single(k)' <=> Single(k))
              /\ Single(k) /\ want[k] = Current(k) /\ want'[k] = want[k]
  <2>1. Items(k)' = Items(k) /\ \A p \in Items(k) : At(p)' = At(p)
    BY <1>5, <1>11, <1>13 DEF Items
  <2>2. Current(k)' = Current(k) /\ (Single(k)' <=> Single(k))
    BY <2>1 DEF Current, Single
  <2>3. Single(k) /\ want[k] = Current(k)
    BY <1>2, <1>7, <1>13 DEF Answering
  <2>4. want'[k] = want[k]
    BY <1>2, <1>13 DEF Finish, history
  <2> QED BY <2>1, <2>2, <2>3, <2>4
<1>a. PICK a : a = old
  OBVIOUS
<1>14. /\ At(w)'.val = req.val /\ At(w)'.origin = a /\ a # w
       /\ a # NoPos => At(a)' = At(a) /\ a \in Items(k0)
  <2>1. a # NoPos => a \in Items(k0) /\ a \in Pos
    BY <1>a, <1>12 DEF Items
  <2>2. a # w
    <3>1. w # NoPos
      BY Numbers
    <3> QED BY <2>1, <1>11, <3>1
  <2> QED BY <1>4, <1>5, <1>a, <2>1, <2>2
<1>15. NoTorn'
  <2> SUFFICES ASSUME NEW p \in Pos, At(p)'.state = "normal" PROVE At(p)'.crc = "good"
    BY DEF NoTorn
  <2>1. CASE p = w
    BY <1>4, <1>5, <2>1
  <2>2. CASE p # w
    <3>1. At(p)' = At(p) /\ Passed(p)
      BY <1>5, <1>7, <2>2 DEF Passed
    <3> QED BY <3>1, <1>2 DEF NoTorn
  <2> QED BY <2>1, <2>2
<1>16. UsedClean'
  <2> SUFFICES ASSUME NEW p \in Pos, state'[p[1]] = "used"
               PROVE  At(p)' = Blank \/ At(p)'.state = "normal"
    BY DEF UsedClean
  <2>1. CASE p = w
    BY <1>4, <1>5, <2>1
  <2>2. CASE p # w
    <3>1. At(p)' = At(p) /\ Passed(p) /\ state[p[1]] = "used"
      BY <1>2, <1>5, <1>7, <2>2 DEF Passed
    <3> QED BY <3>1, <1>2 DEF UsedClean
  <2> QED BY <2>1, <2>2
<1>17. Leftover'
  <2>1. hdr[w[1]] # "clean"
    <3>1. w[1] \in Blocks /\ state[w[1]] \in {"used", "dirty"}
      BY <1>3, <1>7, Positions DEF IInv, Frontier
    <3> QED BY <1>2, <1>7, <3>1, StateHdr
  <2>2. \A b \in Blocks : Filled(b)' => Filled(b)
    BY <1>5, <2>1 DEF Filled
  <2> QED BY <1>2, <1>7, <2>2 DEF Leftover
<1>18. Copies' /\ Chosen'
  BY <1>7 DEF Copies, Chosen
<1>19. CASE old = NoPos
  <2>1. /\ Finish /\ req' = NoReq /\ exposed' = exposed /\ lost' = lost /\ pc' = "idle"
        /\ want' = [k \in Keys |-> IF k \in req.keys THEN {req.val} ELSE want[k]]
    BY <1>2, <1>19 DEF Finish
  <2>2. /\ Items(k0)' = {w} /\ Single(k0)' /\ Current(k0)' = {req.val}
        /\ want'[k0] = {req.val}
    <3>1. Items(k0)' = {w}
      BY <1>11, <1>12, <1>19
    <3> QED BY <1>2, <1>14, <2>1, <3>1 DEF Single, Current
  <2>3. Wanted'
    <3> SUFFICES ASSUME NEW k \in Keys
                 PROVE  /\ \A p \in Items(k)' : At(p)'.val \in want'[k]
                        /\ Items(k)' = {} => NoVal \in want'[k]
                        /\ \A p, q \in Items(k)' : p = q
      BY DEF Wanted
    <3>1. CASE k = k0
      BY <1>14, <2>2, <3>1
    <3>2. CASE k # k0
      BY <1>7, <1>13, <3>2 DEF Wanted, Single
    <3> QED BY <3>1, <3>2
  <2>4. Answering'
    <3>1. \A k \in Keys : Single(k)' /\ want'[k] = Current(k)'
      BY <1>13, <2>2
    <3>2. lost' = {}
      BY <1>2, <2>1 DEF Answering
    <3> QED BY <2>1, <3>1, <3>2, <1>7 DEF Answering, NoReq
  <2> QED BY <1>5, <1>8, <1>15, <1>16, <1>17, <1>18, <2>3, <2>4
<1>20. CASE old # NoPos
  <2>1. pc' = "del" /\ req' = req /\ old' = old /\ want' = want /\ exposed' = exposed /\ lost' = lost
    BY <1>2, <1>20 DEF history
  <2>2. Items(k0)' = {a, w} /\ a \in Items(k0) /\ req.val \in want[k0]
    BY <1>2, <1>7, <1>11, <1>12, <1>14, <1>20, <1>a DEF Answering, Pending
  <2>3. Wanted'
    <3> SUFFICES ASSUME NEW k \in Keys
                 PROVE  /\ \A p \in Items(k)' : At(p)'.val \in want'[k]
                        /\ Items(k)' = {} => NoVal \in want'[k]
                        /\ \A p, q \in Items(k)' : p = q \/ At(p)'.origin = q \/ At(q)'.origin = p
      BY DEF Wanted
    <3>1. CASE k = k0
      <4>1. At(a).val \in want[k0]
        BY <1>2, <2>2 DEF Wanted
      <4> QED BY <1>14, <1>20, <1>a, <2>1, <2>2, <3>1, <4>1
    <3>2. CASE k # k0
      BY <1>7, <1>13, <3>2 DEF Wanted, Single
    <3> QED BY <3>1, <3>2
  <2>4. Pending(k0)'
    <3>1. (At(old).key = k0 /\ Deleting(old))'
      <4>1. At(a)'.key = k0 /\ old' = a
        BY <1>14, <1>20, <1>a, <2>1 DEF Items
      <4>2. (At(old) = At(a))'
        BY <4>1 DEF At
      <4>3. At(w)'.val = req.val /\ req'.val # NoVal
        BY <1>2, <1>14, <2>1, ValueAssumption
      <4> QED BY <1>14, <2>1, <2>2, <4>1, <4>2, <4>3 DEF Deleting
    <3> QED BY <1>7, <2>1, <2>2, <3>1 DEF Pending
  <2>5. Answering'
    <3>1. \A k \in Keys \ {k0} : Single(k)' /\ want'[k] = Current(k)'
      BY <1>13
    <3>2. lost' = {}
      BY <1>2, <2>1 DEF Answering
    <3> QED BY <1>2, <1>7, <2>1, <2>4, <3>1, <3>2 DEF Answering
  <2> QED BY <1>5, <1>8, <1>15, <1>16, <1>17, <1>18, <2>3, <2>5
<1> QED BY <1>19, <1>20

-----------------------------------------------------------------------------
(* kv_item_del. *)

(* kv_item_del takes one item out, and no other.                           *)
LEMMA Deletes ==
  ASSUME IInv, Disjoint, DelItem, NEW d, d = old
  PROVE  /\ pc = "del" /\ d \in Pos /\ At(d).state = "normal" /\ At(d)'.state = "deleted"
         /\ \A p \in Pos : p # d => At(p)' = At(p)
         /\ UNCHANGED <<hdr, fill, ram, at, blk, dest, unclean, back>>
         /\ Disjoint' /\ Shadow' = Shadow /\ \A b : Filled(b)' <=> Filled(b)
         /\ \A k : Items(k)' = Items(k) \ {d}
         /\ \A k : \A p \in Items(k) : p # d => At(p)' = At(p)
<1>1. /\ pc = "del" /\ d \in Pos /\ At(d).state = "normal" /\ At(d) \in Item
      /\ d[1] \in Blocks /\ d[2] \in Offsets /\ d = <<d[1], d[2]>>
  <2>1. pc = "del"
    BY DEF DelItem
  <2>2. d \in Pos /\ At(d).state = "normal"
    BY <2>1 DEF IInv, Control
  <2> QED BY <2>1, <2>2, Positions
<1>2. /\ UNCHANGED <<hdr, fill, ram, at, blk, dest, unclean, back>>
      /\ slot' = [slot EXCEPT ![d[1]][d[2]].state = "deleted"]
  BY DEF DelItem
<1>3. slot \in [Blocks -> [Offsets -> Item \cup {Blank, Junk}]]
  BY DEF IInv, TypeOK, FlashType
<1>4. \A b \in Blocks, o \in Offsets :
        slot'[b][o] = IF b = d[1] /\ o = d[2] THEN [slot[b][o] EXCEPT !.state = "deleted"]
                      ELSE slot[b][o]
  BY <1>1, <1>2, <1>3
<1>5. /\ At(d)' = [At(d) EXCEPT !.state = "deleted"] /\ At(d)'.state = "deleted"
      /\ At(d)' \in Item
  <2>1. At(d)' = [At(d) EXCEPT !.state = "deleted"]
    BY <1>1, <1>4 DEF At
  <2> QED BY <1>1, <2>1 DEF Item
<1>6. ASSUME NEW p \in Pos, p # d PROVE At(p)' = At(p)
  <2>1. p[1] \in Blocks /\ p[2] \in Offsets /\ ~(p[1] = d[1] /\ p[2] = d[2])
    BY <1>1, <1>6, Positions
  <2> QED BY <1>4, <2>1 DEF At
<1>7. Shadow' = Shadow /\ \A b : Filled(b)' <=> Filled(b)
  BY <1>2, ShadowSame
<1>8. \A k : Items(k)' = Items(k) \ {d}
  BY <1>5, <1>6, <1>7 DEF Items, Good
<1>9. \A b \in Blocks, o \in Offsets :
        /\ slot'[b][o] = Blank <=> slot[b][o] = Blank
        /\ Len(slot'[b][o]) = Len(slot[b][o])
  <2> TAKE b \in Blocks, o \in Offsets
  <2>1. CASE b = d[1] /\ o = d[2]
    <3>1. slot[b][o] = At(d) /\ slot'[b][o] = At(d)'
      BY <1>1, <2>1 DEF At
    <3>2. Len(At(d)') = Len(At(d))
      BY <1>1, <1>5, SlotTypes DEF Item
    <3> QED BY <1>1, <1>5, <3>1, <3>2, SlotTypes
  <2>2. CASE ~(b = d[1] /\ o = d[2])
    BY <1>4, <2>2
  <2> QED BY <2>1, <2>2
<1>10. Disjoint'
  BY <1>9 DEF Disjoint
<1>11. \A k : \A p \in Items(k) : p # d => At(p)' = At(p)
  BY <1>6 DEF Items
<1> QED BY <1>1, <1>2, <1>5, <1>6, <1>7, <1>8, <1>10, <1>11

(* The item kv_item_del is at goes; what is left is what should be.        *)
LEMMA DelItemData == ASSUME IInv, DataInv, DelItem PROVE DataInv'
<1> USE DEF DataInv
<1>a. PICK d : d = old
  OBVIOUS
<1>1. /\ pc = "del" /\ d \in Pos /\ At(d).state = "normal" /\ At(d)'.state = "deleted"
      /\ \A p \in Pos : p # d => At(p)' = At(p)
      /\ UNCHANGED <<hdr, fill, ram, at, blk, dest, unclean, back>>
      /\ Disjoint' /\ Shadow' = Shadow /\ \A b : Filled(b)' <=> Filled(b)
      /\ \A k : Items(k)' = Items(k) \ {d}
      /\ \A k : \A p \in Items(k) : p # d => At(p)' = At(p)
  BY <1>a, Deletes
<1>2. /\ state' = state /\ clean_blk_nums' = clean_blk_nums /\ write_pos' = write_pos
      /\ gc_trigger' = gc_trigger
  BY <1>1 DEF ram
<1>3. IInv' /\ back \in {"reply", "sweep", "scan"}
  BY <1>1, DelItemStep DEF IInv, Control
<1>4. \/ state[d[1]] = "used" /\ pc' = "mark" /\ UNCHANGED <<req, old, history>>
      \/ state[d[1]] # "used" /\ back = "reply" /\ Finish
      \/ state[d[1]] # "used" /\ back # "reply" /\ pc' = back /\ UNCHANGED <<req, history>>
  BY <1>a DEF DelItem, Resume
<1>5. /\ pc' \in {"mark", "idle", "sweep", "scan"} /\ exposed' = exposed /\ lost' = lost
      /\ lost = {} /\ (Up' <=> Up) /\ (Looping' <=> Looping) /\ (Walking' <=> Walking)
      /\ ~Collecting' /\ ~Copying' /\ ~Collecting
      /\ \A p : Passed(p)' <=> Passed(p)
  <2>1. pc' \in {"mark", "idle", "sweep", "scan"} /\ exposed' = exposed /\ lost' = lost
    BY <1>3, <1>4 DEF Finish, history
  <2>2. (Looping' <=> Looping) /\ (Walking' <=> Walking) /\ (Up' <=> Up)
    BY <1>1, <1>2, <1>3, <1>4 DEF Looping, Walking, Scanning, Up, Finish
  <2>3. \A p : Passed(p)' <=> Passed(p)
    BY <1>1, <2>2 DEF Passed
  <2> QED BY <1>1, <2>1, <2>2, <2>3 DEF Answering, Collecting, Copying
<1>6. Spare' /\ Trigger'
  BY <1>1, <1>2, <1>5 DEF Spare, Trigger
<1>7. NoTorn'
  BY <1>a, <1>1, <1>5 DEF NoTorn
<1>8. UsedClean'
  <2> SUFFICES ASSUME NEW p \in Pos, Passed(p), state[p[1]] = "used"
               PROVE  At(p)' = Blank \/ At(p)'.state = "normal" \/ (pc' = "mark" /\ old'[1] = p[1])
    BY <1>2, <1>5 DEF UsedClean
  <2>1. CASE p = d
    BY <1>4, <1>a, <2>1
  <2>2. CASE p # d
    BY <1>1, <2>2 DEF UsedClean
  <2> QED BY <2>1, <2>2
<1>9. Leftover' /\ Copies'
  BY <1>1, <1>5 DEF Leftover, Copies
<1>10. ASSUME NEW k \in Keys
       PROVE  /\ d \in Items(k) <=> (At(d).key = k /\ Good(d) /\ d[1] \notin Shadow)
              /\ d \notin Items(k) => /\ Items(k)' = Items(k) /\ Current(k)' = Current(k)
                                      /\ Single(k) => Single(k)'
              /\ Single(k) => Single(k)'
  <2>1. d \in Items(k) <=> (At(d).key = k /\ Good(d) /\ d[1] \notin Shadow)
    BY <1>1 DEF Items
  <2>2. Single(k) => Single(k)'
    BY <1>1 DEF Single
  <2>3. ASSUME d \notin Items(k) PROVE Items(k)' = Items(k) /\ Current(k)' = Current(k)
    <3>1. Items(k)' = Items(k) /\ \A p \in Items(k) : At(p)' = At(p)
      BY <1>1, <2>3
    <3> QED BY <3>1 DEF Current
  <2> QED BY <2>1, <2>2, <2>3
<1>11. Up <=> back # "scan"
  BY <1>1, <1>3 DEF IInv, Control, Frontier, Looping
<1>12. Chosen'
  <2> SUFFICES ASSUME ~Up
               PROVE  /\ \A k \in Keys : \A p, q \in Items(k)' : Passed(p)' /\ At(p)'.origin = q => p = q
                      /\ \A k \in Keys : \A p \in Pos :
                            p[1] \in Shadow' /\ Good(p)' /\ At(p)'.key = k =>
                              (At(p)'.origin \in Items(k)' => k \in exposed')
                      /\ pc' # "del"
    BY <1>5 DEF Chosen
  <2>1. ASSUME NEW k \in Keys, NEW p \in Items(k)', NEW q \in Items(k)', Passed(p),
               At(p)'.origin = q
        PROVE  p = q
    <3>1. p \in Items(k) /\ q \in Items(k) /\ p # d /\ q # d /\ At(p)' = At(p)
      BY <1>1, <2>1
    <3> QED BY <2>1, <3>1, <1>a DEF Chosen
  <2>2. ASSUME NEW k \in Keys, NEW p \in Pos, p[1] \in Shadow, Good(p)', At(p)'.key = k,
               At(p)'.origin \in Items(k)'
        PROVE  k \in exposed
    <3>1. p # d
      BY <1>1, <2>2 DEF Good
    <3>2. At(p)' = At(p) /\ Good(p)
      BY <1>1, <2>2, <3>1 DEF Good
    <3>3. At(p).key = k /\ At(p).origin \in Items(k)
      BY <1>1, <2>2, <3>2
    <3> QED BY <2>2, <3>2, <3>3 DEF Chosen
  <2> QED BY <1>1, <1>5, <2>1, <2>2
<1>13. CASE back = "scan"
  <2>1. /\ ~Up /\ req' = req /\ want' = want /\ req = NoReq
    BY <1>4, <1>11, <1>13 DEF history, Answering
  <2>2. Wanted'
    <3> SUFFICES ASSUME NEW k \in Keys
                 PROVE  /\ \A p \in Items(k)' : At(p)'.val \in want'[k]
                        /\ Items(k)' = {} => NoVal \in want'[k] \/ k \in exposed'
                        /\ \A p, q \in Items(k)' : p = q \/ At(p)'.origin = q \/ At(q)'.origin = p
      BY <1>5, <2>1 DEF Wanted
    <3>1. ASSUME Items(k)' = {} PROVE NoVal \in want'[k] \/ k \in exposed'
      <4>1. CASE d \in Items(k)
        <5>1. k \in exposed \/ \E p \in Items(k) : p # d
          BY <1>a, <1>1, <2>1, <4>1 DEF Chosen
        <5> QED BY <1>1, <1>5, <3>1, <5>1
      <4>2. CASE d \notin Items(k)
        BY <1>1, <1>5, <2>1, <3>1, <4>2 DEF Wanted
      <4> QED BY <4>1, <4>2
    <3>2. \A p \in Items(k)' : p \in Items(k) /\ At(p)' = At(p)
      BY <1>1
    <3> QED BY <2>1, <3>1, <3>2 DEF Wanted
  <2>3. Answering'
    BY <1>4, <1>5, <1>13, <1>1, <2>1 DEF Answering, Sweeping
  <2> QED BY <1>1, <1>6, <1>7, <1>8, <1>9, <1>12, <2>2, <2>3
<1>14. CASE back = "sweep"
  <2>1. /\ Up /\ req' = req /\ want' = want /\ req.val = NoVal /\ At(d).key \in req.keys /\ Sweeping
    BY <1>a, <1>1, <1>4, <1>11, <1>14 DEF history, Answering, Sweeping
  <2>2. \A k \in Keys : IF k \in req.keys THEN Pending(k) ELSE Single(k) /\ want[k] = Current(k)
    BY <2>1 DEF Answering
  <2>3. Wanted'
    <3> SUFFICES ASSUME NEW k \in Keys
                 PROVE  /\ \A p \in Items(k)' : At(p)'.val \in want'[k]
                        /\ Items(k)' = {} => NoVal \in want'[k]
                        /\ \A p, q \in Items(k)' : p = q
      BY DEF Wanted
    <3>1. \A p \in Items(k)' : p \in Items(k) /\ At(p)' = At(p)
      BY <1>1
    <3>2. Single(k) /\ (k \in req.keys => NoVal \in want[k])
      BY <2>1, <2>2 DEF Pending
    <3>3. ASSUME Items(k)' = {} PROVE NoVal \in want[k]
      BY <1>10, <2>1, <3>2, <3>3 DEF Wanted
    <3> QED BY <2>1, <3>1, <3>2, <3>3 DEF Wanted, Single
  <2>4. Answering'
    <3>1. ASSUME NEW k \in Keys, k \in req.keys PROVE Pending(k)'
      <4>1. Pending(k)
        BY <2>2, <3>1
      <4>2. /\ req.val \in want[k] /\ Single(k)
            /\ \A p \in Items(k) : Before(at, p) \/ p = d
        BY <1>a, <2>1, <4>1 DEF Pending
      <4>3. \A p \in Items(k)' : Before(at', p)
        BY <1>1, <4>2
      <4>4. Single(k)'
        BY <1>10, <4>2
      <4>5. back' = "sweep" /\ pc' \notin {"store", "del"} /\ at' = at
        BY <1>1, <1>5, <1>14
      <4>6. (\A p \in Items(k) : Before(at, p))'
        BY <4>3
      <4> QED BY <2>1, <4>2, <4>4, <4>5, <4>6 DEF Pending
    <3>2. ASSUME NEW k \in Keys, k \notin req.keys PROVE Single(k)' /\ want'[k] = Current(k)'
      <4>1. d \notin Items(k)
        BY <1>10, <2>1, <3>2
      <4> QED BY <1>10, <2>1, <2>2, <3>2, <4>1
    <3>3. pc' \in {"mark", "sweep"}
      BY <1>4, <1>14
    <3> QED BY <1>1, <1>5, <1>14, <2>1, <3>1, <3>2, <3>3 DEF Answering, Sweeping
  <2> QED BY <1>1, <1>6, <1>7, <1>8, <1>9, <1>12, <2>3, <2>4
<1>15. CASE back = "reply"
  <2>1. /\ Up /\ ~Sweeping /\ exposed' = exposed
    BY <1>1, <1>5, <1>11, <1>15 DEF Sweeping
  <2>2. PICK k0 \in Keys : req.keys = {k0}
    BY <1>1, <1>15 DEF Answering
  <2>3. At(d).key = k0 /\ Deleting(d) /\ req.val \in want[k0]
    BY <1>a, <1>1, <1>15, <2>1, <2>2 DEF Answering, Pending
  <2>4. Single(k0)' /\ Current(k0)' = {req.val}
    <3>1. CASE req.val = NoVal
      <4>1. Items(k0)' = {}
        BY <1>1, <2>3, <3>1 DEF Deleting
      <4> QED BY <3>1, <4>1 DEF Single, Current
    <3>2. CASE req.val # NoVal
      <4>1. PICK q \in Items(k0) : q # d /\ Items(k0) = {d, q} /\ At(q).val = req.val
        BY <2>3, <3>2 DEF Deleting
      <4>2. Items(k0)' = {q} /\ At(q)' = At(q)
        BY <1>1, <4>1
      <4> QED BY <4>1, <4>2 DEF Single, Current
    <3> QED BY <3>1, <3>2
  <2>5. ASSUME NEW k \in Keys, k # k0
        PROVE  /\ Items(k)' = Items(k) /\ Single(k)' /\ Current(k)' = Current(k)
               /\ want[k] = Current(k)
    <3>1. d \notin Items(k)
      BY <1>10, <2>3, <2>5
    <3>2. Single(k) /\ want[k] = Current(k)
      BY <2>1, <2>2, <2>5 DEF Answering
    <3> QED BY <1>10, <3>1, <3>2
  <2>6. CASE pc' = "mark"
    <3>1. req' = req /\ want' = want
      BY <1>4, <2>6 DEF Finish, history
    <3>2. Wanted'
      <4> SUFFICES ASSUME NEW k \in Keys
                   PROVE  /\ \A p \in Items(k)' : At(p)'.val \in want'[k]
                          /\ Items(k)' = {} => NoVal \in want'[k]
                          /\ \A p, q \in Items(k)' : p = q
        BY DEF Wanted
      <4>1. Single(k)'
        BY <2>4, <2>5
      <4>2. \A p \in Items(k)' : p \in Items(k) /\ At(p)' = At(p)
        BY <1>1
      <4>3. ASSUME Items(k)' = {} PROVE NoVal \in want[k]
        <5>1. Current(k)' = {NoVal}
          BY <4>3 DEF Current
        <5> QED BY <2>3, <2>4, <2>5, <5>1
      <4> QED BY <3>1, <4>1, <4>2, <4>3 DEF Wanted, Single
    <3>3. \A k \in Keys : (IF k \in req.keys THEN Pending(k) ELSE Single(k) /\ want[k] = Current(k))'
      <4> TAKE k \in Keys
      <4>1. CASE k = k0
        <5>1. Pending(k0)'
          BY <1>1, <1>15, <2>3, <2>4, <2>6, <3>1 DEF Pending, Sweeping
        <5> QED BY <2>2, <3>1, <4>1, <5>1
      <4>2. CASE k # k0
        BY <2>2, <2>5, <3>1, <4>2
      <4> QED BY <4>1, <4>2
    <3>4. Answering'
      BY <1>1, <1>5, <1>15, <2>1, <2>2, <2>6, <3>1, <3>3 DEF Answering, Sweeping
    <3> QED BY <1>1, <1>6, <1>7, <1>8, <1>9, <1>12, <3>2, <3>4
  <2>7. CASE pc' # "mark"
    <3>1. /\ req' = NoReq /\ pc' = "idle"
          /\ \A k \in Keys : want'[k] = IF k = k0 THEN {req.val} ELSE want[k]
      BY <1>4, <1>15, <2>2, <2>7 DEF Finish
    <3>2. \A k \in Keys : Single(k)' /\ want'[k] = Current(k)'
      BY <2>4, <2>5, <3>1
    <3>3. Wanted'
      <4> SUFFICES ASSUME NEW k \in Keys
                   PROVE  /\ \A p \in Items(k)' : At(p)'.val \in want'[k]
                          /\ Items(k)' = {} => NoVal \in want'[k]
                          /\ \A p, q \in Items(k)' : p = q
        BY DEF Wanted
      <4>1. /\ want'[k] = Current(k)' /\ Single(k)'
            /\ Current(k)' = IF Items(k)' = {} THEN {NoVal} ELSE {At(p)'.val : p \in Items(k)'}
        BY <3>2 DEF Current
      <4> QED BY <4>1 DEF Single
    <3>4. Answering'
      BY <1>5, <3>1, <3>2 DEF Answering, NoReq, Sweeping
    <3> QED BY <1>1, <1>6, <1>7, <1>8, <1>9, <1>12, <3>3, <3>4
  <2> QED BY <2>6, <2>7
<1> QED BY <1>3, <1>13, <1>14, <1>15

(* A block in use turns dirty: recovery treats it alike.                   *)
LEMMA DirtySame ==
  ASSUME IInv, NEW b \in Blocks, hdr[b] = "used", SetBlockState(b, "dirty"), UNCHANGED fill
  PROVE  /\ Shadow' = Shadow /\ \A c \in Blocks : Filled(c)' <=> Filled(c)
         /\ \A c \in Blocks : hdr'[c] = hdr[c] \/ (hdr[c] = "used" /\ hdr'[c] = "dirty")
         /\ \A c \in Blocks : state'[c] = IF c = b THEN "dirty" ELSE state[c]
<1>1. /\ hdr' = [hdr EXCEPT ![b] = "dirty"] /\ state' = [state EXCEPT ![b] = "dirty"]
      /\ hdr \in [Blocks -> {"none", "clean", "used", "dirty"}]
      /\ state \in [Blocks -> {"unset", "clean", "used", "dirty"}]
  BY DEF SetBlockState, IInv, TypeOK, FlashType, RamType
<1>2. /\ \A c \in Blocks : hdr'[c] = IF c = b THEN "dirty" ELSE hdr[c]
      /\ \A c \in Blocks : state'[c] = IF c = b THEN "dirty" ELSE state[c]
  BY <1>1
<1>3. \A c \in Blocks : Filled(c)' <=> Filled(c)
  BY <1>2 DEF Filled
<1>4. \A c \in Blocks : hdr'[c] \in {"used", "dirty"} <=> hdr[c] \in {"used", "dirty"}
  BY <1>2
<1>5. Shadow' = Shadow
  BY <1>3, <1>4 DEF Shadow
<1> QED BY <1>2, <1>3, <1>5

(* A step that writes no item and ends no request.                         *)
LEMMA QuietKeeps ==
  ASSUME IInv, DataInv, Shadow' = Shadow, \A b \in Blocks : Filled(b)' <=> Filled(b),
         \A b \in Blocks : hdr'[b] = hdr[b] \/ (hdr[b] = "used" /\ hdr'[b] = "dirty"),
         UNCHANGED <<slot, clean_blk_nums, gc_trigger, write_pos, unclean, want, exposed>>,
         pc # "use", pc' \notin {"use", "erase"}
  PROVE  Spare' /\ Disjoint' /\ Trigger' /\ Leftover' /\ Wanted'
<1> USE DEF DataInv
<1>1. Up' <=> Up
  BY DEF Up
<1>2. Spare' /\ Trigger'
  BY <1>1 DEF Spare, Trigger
<1>3. Disjoint' /\ \A k : Items(k)' = Items(k) /\ \A p : At(p)' = At(p)
  BY ItemsSame
<1>4. Leftover'
  <2>1. \A b \in unclean : b \in Blocks
    BY DEF IInv, TypeOK, LocalType
  <2> QED BY <2>1 DEF Leftover
<1>5. Wanted'
  BY <1>1, <1>3 DEF Wanted
<1> QED BY <1>2, <1>3, <1>4, <1>5

(* The block of a deleted item is marked, and kv_item_del returns.         *)
LEMMA MarkDirtyData == ASSUME IInv, DataInv, MarkDirty PROVE DataInv'
<1> USE DEF DataInv
<1>1. /\ pc = "mark" /\ old \in Pos /\ old[1] \in Blocks /\ state[old[1]] = "used"
      /\ back \in {"reply", "sweep", "scan"} /\ SetBlockState(old[1], "dirty")
      /\ UNCHANGED <<slot, fill, space, clean_blk_nums, write_pos, gc_trigger,
                     at, blk, dest, unclean, back>>
  <2>1. pc = "mark" /\ old \in Pos
    BY DEF MarkDirty, IInv, Control
  <2> QED BY <2>1, Positions DEF MarkDirty, IInv, Control
<1>2. hdr[old[1]] = "used"
  <2>1. CASE Looping
    <3>1. back = "scan" /\ Walking
      BY <1>1, <2>1 DEF Looping, Walking, Scanning
    <3>2. state[old[1]] # "unset"
      BY <1>1
    <3>3. old[1] <= blk
      BY <1>1, <2>1, <3>2, Numbers DEF IInv, Mirrored, TypeOK, LocalType
    <3>4. CASE old[1] = blk
      BY <1>1, <2>1, <3>1, <3>4 DEF IInv, Mirrored
    <3>5. CASE old[1] < blk
      BY <1>1, <2>1, <3>5 DEF IInv, Mirrored, Measured
    <3> QED BY <1>1, <3>3, <3>4, <3>5, Numbers DEF IInv, TypeOK, LocalType
  <2>2. CASE ~Looping
    BY <1>1, <2>2, StateHdr
  <2> QED BY <2>1, <2>2
<1>3. /\ Shadow' = Shadow /\ \A c \in Blocks : Filled(c)' <=> Filled(c)
      /\ \A c \in Blocks : hdr'[c] = hdr[c] \/ (hdr[c] = "used" /\ hdr'[c] = "dirty")
      /\ \A c \in Blocks : state'[c] = IF c = old[1] THEN "dirty" ELSE state[c]
  <2>1. PICK b \in Blocks : b = old[1]
    BY <1>1
  <2> QED BY <1>1, <1>2, <2>1, DirtySame
<1>4. /\ \A p : At(p)' = At(p) /\ (Good(p)' <=> Good(p))
      /\ \A k : Items(k)' = Items(k) /\ Current(k)' = Current(k) /\ (Single(k)' <=> Single(k))
  BY <1>1, <1>3, ItemsSame
<1>5. \/ back = "reply" /\ Finish
      \/ back # "reply" /\ pc' = back /\ UNCHANGED <<req, history>>
  BY DEF MarkDirty, Resume
<1>6. /\ pc' \in {"idle", "sweep", "scan"} /\ exposed' = exposed /\ lost' = lost /\ lost = {}
      /\ (Up' <=> Up) /\ (Looping' <=> Looping) /\ (Walking' <=> Walking) /\ ~Collecting'
      /\ ~Copying' /\ \A p : Passed(p)' <=> Passed(p)
  <2>1. pc' \in {"idle", "sweep", "scan"} /\ exposed' = exposed /\ lost' = lost /\ lost = {}
    BY <1>1, <1>5 DEF Finish, history, Answering
  <2>2. (Up' <=> Up) /\ (Looping' <=> Looping) /\ (Walking' <=> Walking)
    BY <1>1, <1>5 DEF Up, Looping, Walking, Scanning, Finish
  <2> QED BY <1>1, <2>1, <2>2 DEF Collecting, Copying, Passed
<1>7. NoTorn' /\ Chosen' /\ Copies'
  <2>1. NoTorn'
    BY <1>1, <1>4, <1>6 DEF NoTorn
  <2>2. Chosen'
    BY <1>1, <1>3, <1>4, <1>6 DEF Chosen
  <2>3. Copies'
    BY <1>6 DEF Copies
  <2> QED BY <2>1, <2>2, <2>3
<1>8. UsedClean'
  <2> SUFFICES ASSUME NEW p \in Pos, Passed(p), state'[p[1]] = "used"
               PROVE  At(p) = Blank \/ At(p).state = "normal"
    BY <1>4, <1>6 DEF UsedClean
  <2>1. p[1] \in Blocks
    BY Positions
  <2>2. p[1] # old[1] /\ state[p[1]] = "used"
    BY <1>3, <2>1
  <2> QED BY <2>2 DEF UsedClean
<1>9. CASE back # "reply"
  <2>1. /\ req' = req /\ want' = want /\ pc' = back
    BY <1>5, <1>9 DEF history
  <2>2. Spare' /\ Disjoint' /\ Trigger' /\ Leftover' /\ Wanted'
    BY <1>1, <1>3, <1>6, <2>1, QuietKeeps
  <2>3. Answering'
    <3>1. \A k \in Keys : Pending(k) => Pending(k)'
      BY <1>1, <1>4, <1>6, <1>9, <2>1 DEF Pending, Sweeping
    <3> QED BY <1>1, <1>4, <1>6, <1>9, <2>1, <3>1 DEF Answering, Sweeping
  <2> QED BY <1>7, <1>8, <2>2, <2>3
<1>10. CASE back = "reply"
  <2>1. Up
    BY <1>1, <1>10 DEF IInv, Control, Looping
  <2>2. PICK k0 \in Keys : req.keys = {k0}
    BY <1>1, <1>10 DEF Answering
  <2>3. Current(k0) = {req.val} /\ Single(k0)
    BY <1>1, <1>10, <2>1, <2>2 DEF Answering, Pending
  <2>4. /\ req' = NoReq /\ pc' = "idle"
        /\ \A k \in Keys : want'[k] = IF k = k0 THEN {req.val} ELSE want[k]
    BY <1>5, <1>10, <2>2 DEF Finish
  <2>5. \A k \in Keys : Single(k)' /\ want'[k] = Current(k)'
    BY <1>4, <2>1, <2>2, <2>3, <2>4 DEF Answering
  <2>6. Wanted'
    <3> SUFFICES ASSUME NEW k \in Keys
                 PROVE  /\ \A p \in Items(k)' : At(p)'.val \in want'[k]
                        /\ Items(k)' = {} => NoVal \in want'[k]
                        /\ \A p, q \in Items(k)' : p = q
      BY DEF Wanted
    <3>1. /\ want'[k] = Current(k)' /\ Single(k)'
          /\ Current(k)' = IF Items(k)' = {} THEN {NoVal} ELSE {At(p)'.val : p \in Items(k)'}
      BY <2>5 DEF Current
    <3> QED BY <3>1 DEF Single
  <2>7. Answering'
    BY <1>6, <2>4, <2>5 DEF Answering, NoReq, Sweeping
  <2>8. Spare' /\ Trigger' /\ Disjoint' /\ Leftover'
    <3>1. Spare' /\ Trigger'
      BY <1>1, <1>3, <1>6, <2>4 DEF Spare, Trigger
    <3>2. Disjoint'
      BY <1>1, ItemsSame
    <3>3. \A b \in unclean : b \in Blocks
      BY DEF IInv, TypeOK, LocalType
    <3> QED BY <1>1, <1>3, <2>4, <3>1, <3>2, <3>3 DEF Leftover
  <2> QED BY <1>7, <1>8, <2>6, <2>7, <2>8
<1> QED BY <1>9, <1>10

(* The cursor moves past one item: of those behind it, it was the first.   *)
LEMMA PassOne ==
  ASSUME IInv, Disjoint, pc \in Scanning, ~AtEnd
  PROVE  /\ at \in Pos /\ Past \in Pos /\ Past[1] = at[1] /\ at[2] < Past[2]
         /\ At(at) \in Item \cup {Junk} /\ At(at) # Blank
         /\ \A p \in Pos : At(p) # Blank /\ p # at =>
              /\ p[1] = at[1] /\ p[2] < Past[2] => p[2] < at[2]
              /\ Before(at, p) => Before(Past, p)
<1>1. /\ at \in Pos /\ Past \in Pos /\ Past[1] = at[1] /\ Past[2] = at[2] + Len(At(at))
      /\ At(at) \in Item \cup {Junk} /\ at[1] \in Blocks /\ at[2] \in Offsets
      /\ at = <<at[1], at[2]>> /\ Len(At(at)) \in ItemHdr..ItemMax
      /\ At(at) = slot[at[1]][at[2]]
  BY CursorFacts DEF CursorOK, Cursor
<1>2. At(at) # Blank
  BY <1>1, SlotTypes
<1>3. at[2] < Past[2] /\ at[2] \in Int /\ Past[2] \in Int /\ at[1] \in Int
  BY <1>1, Numbers
<1>4. ASSUME NEW p \in Pos, At(p) # Blank, p # at
      PROVE  /\ p[1] = at[1] /\ p[2] < Past[2] => p[2] < at[2]
             /\ Before(at, p) => Before(Past, p)
  <2>1. /\ p[1] \in Blocks /\ p[2] \in Offsets /\ p[1] \in Int /\ p[2] \in Int
        /\ p = <<p[1], p[2]>> /\ At(p) = slot[p[1]][p[2]]
    BY Positions
  <2>2. p[1] = at[1] /\ at[2] < p[2] => Past[2] <= p[2]
    BY <1>1, <1>2, <1>4, <2>1 DEF Disjoint
  <2>3. p[1] = at[1] => p[2] # at[2]
    BY <1>1, <1>4, <2>1
  <2>4. p[1] = at[1] /\ p[2] < Past[2] => p[2] < at[2]
    BY <1>3, <2>1, <2>2, <2>3
  <2>5. Before(at, p) => Before(Past, p)
    BY <1>1, <1>3, <2>1, <2>2, <2>3 DEF Before
  <2> QED BY <2>4, <2>5
<1> QED BY <1>1, <1>2, <1>3, <1>4

-----------------------------------------------------------------------------
(* The scans of recovery, of a prefix and of GC. *)

(* What a scan has been over grows by the item it moves past.              *)
LEMMA Moved ==
  ASSUME IInv, Disjoint, pc \in Scanning, ~AtEnd, at' = Past, blk' = blk,
         Looping' <=> Looping, Walking'
  PROVE  \A p \in Pos : At(p) # Blank /\ p # at /\ Passed(p)' => Passed(p)
<1> SUFFICES ASSUME NEW p \in Pos, At(p) # Blank, p # at, Looping,
                    p[1] < blk \/ (p[1] = blk /\ p[2] < Past[2])
             PROVE  p[1] < blk \/ (p[1] = blk /\ p[2] < at[2])
  BY DEF Passed, Walking
<1>1. at[1] = blk
  BY DEF IInv, Control, Walking
<1> QED BY <1>1, PassOne

(* What SkipGarbage does to the blocks' states.                            *)
LEMMA SkipStates ==
  ASSUME IInv, SkipGarbage
  PROVE  /\ Shadow' = Shadow /\ \A b \in Blocks : Filled(b)' <=> Filled(b)
         /\ \A b \in Blocks : hdr'[b] = hdr[b] \/ (hdr[b] = "used" /\ hdr'[b] = "dirty")
         /\ \A b \in Blocks : state'[b] = "used" => state[b] = "used" /\ b # at[1]
<1>1. /\ pc \in Scanning /\ at[1] \in Blocks /\ UNCHANGED <<slot, fill>>
      /\ IF state[at[1]] = "used" THEN SetBlockState(at[1], "dirty") ELSE KeepBlockState
  BY CursorFacts DEF SkipGarbage, CursorOK
<1>2. CASE state[at[1]] = "used"
  <2>1. hdr[at[1]] = "used"
    <3>1. CASE Looping
      <4>1. Walking /\ at[1] = blk
        BY <1>1, <3>1 DEF Walking, IInv, Control
      <4> QED BY <1>1, <1>2, <3>1, <4>1 DEF IInv, Mirrored
    <3>2. CASE ~Looping
      BY <1>1, <1>2, <3>2, StateHdr DEF Scanning
    <3> QED BY <3>1, <3>2
  <2>2. PICK b \in Blocks : b = at[1]
    BY <1>1
  <2> QED BY <1>1, <1>2, <2>1, <2>2, DirtySame
<1>3. CASE state[at[1]] # "used"
  BY <1>1, <1>3, ShadowSame DEF KeepBlockState
<1> QED BY <1>2, <1>3

(* Garbage is passed over.                                                 *)
LEMMA SkipGarbageData == ASSUME IInv, DataInv, SkipGarbage PROVE DataInv'
<1> USE DEF DataInv
<1>a. PICK a : a = at
  OBVIOUS
<1>1. /\ pc \in Scanning /\ ~AtEnd /\ At(a).state # "normal" /\ at' = Past /\ pc' = pc
      /\ UNCHANGED <<slot, fill, space, clean_blk_nums, write_pos, gc_trigger,
                     req, old, blk, dest, unclean, back, history>>
  BY <1>a DEF SkipGarbage, Cursor
<1>2. /\ Shadow' = Shadow /\ \A b \in Blocks : Filled(b)' <=> Filled(b)
      /\ \A b \in Blocks : hdr'[b] = hdr[b] \/ (hdr[b] = "used" /\ hdr'[b] = "dirty")
      /\ \A b \in Blocks : state'[b] = "used" => state[b] = "used" /\ b # at[1]
  BY SkipStates
<1>3. /\ \A p : At(p)' = At(p) /\ (Good(p)' <=> Good(p))
      /\ \A k : Items(k)' = Items(k) /\ Current(k)' = Current(k) /\ (Single(k)' <=> Single(k))
  BY <1>1, <1>2, ItemsSame
<1>4. Spare' /\ Disjoint' /\ Trigger' /\ Leftover' /\ Wanted'
  BY <1>1, <1>2, QuietKeeps DEF Scanning, history
<1>5. /\ (Up' <=> Up) /\ (Looping' <=> Looping) /\ Walking /\ Walking'
      /\ (Collecting' <=> Collecting) /\ (Copying' <=> pc = "copy") /\ (Copying <=> pc = "copy")
      /\ pc \notin {"del", "mark", "erase", "store"} /\ (Sweeping' <=> Sweeping)
  BY <1>1 DEF Up, Looping, Walking, Collecting, Copying, Scanning, Sweeping
<1>6. \A p \in Pos : At(p) # Blank /\ p # a /\ Passed(p)' => Passed(p)
  BY <1>a, <1>1, <1>5, Moved
<1>7. /\ a \in Pos /\ Past[1] = a[1] /\ a[2] < Past[2] /\ At(a) # Blank
      /\ \A p \in Pos : At(p) # Blank /\ p # a =>
           /\ p[1] = a[1] /\ p[2] < Past[2] => p[2] < a[2]
           /\ Before(a, p) => Before(Past, p)
  BY <1>a, <1>1, PassOne
<1>8. NoTorn'
  BY <1>1, <1>3, <1>5, <1>6, SlotTypes DEF NoTorn
<1>9. UsedClean'
  <2> SUFFICES ASSUME NEW p \in Pos, Passed(p)', state'[p[1]] = "used", At(p) # Blank
               PROVE  At(p).state = "normal"
    BY <1>3 DEF UsedClean
  <2>1. p[1] \in Blocks
    BY Positions
  <2>2. p # a /\ state[p[1]] = "used"
    BY <1>a, <1>2, <2>1
  <2> QED BY <1>5, <1>6, <2>2 DEF UsedClean
<1>10. Copies'
  <2>1. (Collecting => \A o \in Offsets : slot[dest][o] = Blank \/ slot[dest][o].state = "normal")'
    BY <1>1, <1>5 DEF Copies
  <2>2. ASSUME pc = "copy"
        PROVE  \A p \in Pos : At(p).state = "normal" => (Original(p)' <=> Original(p))
    <3> SUFFICES ASSUME NEW p \in Pos, At(p).state = "normal"
                 PROVE  (p[1] = a[1] /\ p[2] < Past[2]) <=> (p[1] = a[1] /\ p[2] < a[2])
      BY <1>a, <1>1, <1>7, <2>2 DEF Original, Victim, Copied
    <3>1. At(p) # Blank /\ p # a
      BY <1>1, SlotTypes
    <3>2. Past[2] \in Int /\ a[2] \in Int /\ p[2] \in Int
      BY <1>7, <1>1, <1>a, PassOne, Positions
    <3> QED BY <1>7, <3>1, <3>2
  <2>3. pc = "copy" => Copying /\ Collecting /\ dest \in Blocks
    BY <1>5 DEF Collecting, IInv, TypeOK, LocalType
  <2>4. \A q \in Pos : q[1] = dest /\ At(q) # Blank /\ Collecting => At(q).state = "normal"
    BY <2>3, Positions DEF Copies
  <2> QED BY <1>1, <1>2, <1>3, <1>5, <2>1, <2>2, <2>3, <2>4 DEF Copies
<1>11. Chosen'
  <2> SUFFICES ASSUME ~Up
               PROVE  /\ \A k \in Keys : \A p, q \in Items(k) :
                            Passed(p)' /\ At(p).origin = q => p = q
                      /\ \A k \in Keys : \A p \in Pos : p[1] \in Shadow /\ Good(p) /\ At(p).key = k =>
                            (At(p).origin \in Items(k) => k \in exposed)
    BY <1>1, <1>2, <1>3, <1>5 DEF Chosen, history
  <2>1. ASSUME NEW k \in Keys, NEW p \in Items(k), Passed(p)' PROVE Passed(p)
    <3>1. p \in Pos /\ At(p).state = "normal"
      BY DEF Items, Good
    <3> QED BY <1>1, <1>6, <2>1, <3>1, SlotTypes
  <2> QED BY <1>5, <2>1 DEF Chosen
<1>12. Answering'
  <2>1. ASSUME NEW k \in Keys, Pending(k) PROVE Pending(k)'
    <3>1. ASSUME Sweeping, NEW p \in Items(k) PROVE Before(Past, p)
      <4>1. Before(a, p)
        BY <1>a, <1>5, <2>1, <3>1 DEF Pending
      <4>2. p \in Pos /\ At(p) # Blank /\ p # a
        BY <1>1, SlotTypes DEF Items, Good
      <4> QED BY <1>7, <4>1, <4>2
    <3>2. (Sweeping => Single(k) /\ \A p \in Items(k) : Before(at, p) \/ (pc = "del" /\ old = p))'
      BY <1>1, <1>3, <1>5, <2>1, <3>1 DEF Pending
    <3> QED BY <1>1, <1>5, <2>1, <3>2 DEF Pending, history
  <2> QED BY <1>1, <1>3, <1>5, <2>1 DEF Answering, history
<1> QED BY <1>4, <1>8, <1>9, <1>10, <1>11, <1>12

(* A scan that leaves the flash alone as it moves past an item.            *)
LEMMA MoveKeeps ==
  ASSUME IInv, DataInv, pc \in {"scan", "sweep"}, OnItem, at' = Past,
         UNCHANGED <<flash, ram, req, blk, dest, unclean, history>>,
         \/ pc' = pc
         \/ pc' = "del" /\ back' = pc
  PROVE  /\ Spare' /\ Disjoint' /\ Trigger' /\ Leftover' /\ Wanted' /\ UsedClean' /\ Copies'
         /\ Shadow' = Shadow /\ (Up' <=> Up) /\ (Up <=> pc = "sweep")
         /\ \A p : At(p)' = At(p) /\ (Good(p)' <=> Good(p))
         /\ \A k : Items(k)' = Items(k) /\ Current(k)' = Current(k) /\ (Single(k)' <=> Single(k))
         /\ \A p \in Pos : At(p) # Blank /\ p # at /\ Passed(p)' => Passed(p)
         /\ at \in Pos /\ At(at).state = "normal" /\ At(at) \in Item /\ ~AtEnd
         /\ \A p \in Pos : At(p) # Blank /\ p # at /\ Before(at, p) => Before(Past, p)
<1> USE DEF DataInv
<1>1. /\ Shadow' = Shadow /\ \A b \in Blocks : Filled(b)' <=> Filled(b)
  BY ShadowSame DEF flash
<1>2. /\ \A p : At(p)' = At(p) /\ (Good(p)' <=> Good(p))
      /\ \A k : Items(k)' = Items(k) /\ Current(k)' = Current(k) /\ (Single(k)' <=> Single(k))
  BY <1>1, ItemsSame DEF flash
<1>3. Spare' /\ Disjoint' /\ Trigger' /\ Leftover' /\ Wanted'
  BY <1>1, QuietKeeps DEF flash, ram, history
<1>4. /\ (Up' <=> Up) /\ (Looping' <=> Looping) /\ Walking /\ Walking'
      /\ ~Collecting' /\ ~Copying'
  BY DEF Up, Looping, Walking, Collecting, Copying, Scanning, ram
<1>5. at \in Pos /\ At(at).state = "normal" /\ At(at) \in Item /\ ~AtEnd /\ pc \in Scanning
  BY CursorFacts DEF CursorOK, Cursor, OnItem, Scanning
<1>6. \A p \in Pos : At(p) # Blank /\ p # at /\ Passed(p)' => Passed(p)
  BY <1>4, <1>5, Moved
<1>7. \A p \in Pos : At(p) # Blank /\ p # at /\ Before(at, p) => Before(Past, p)
  BY <1>5, PassOne
<1>8. Up <=> pc = "sweep"
  BY DEF IInv, Control, Frontier, Looping
<1>9. UsedClean'
  <2> SUFFICES ASSUME NEW p \in Pos, Passed(p)', state[p[1]] = "used", At(p) # Blank
               PROVE  At(p).state = "normal"
    BY <1>2 DEF UsedClean, ram
  <2> QED BY <1>5, <1>6 DEF UsedClean
<1>10. Copies'
  BY <1>4 DEF Copies
<1> QED BY <1>1, <1>2, <1>3, <1>4, <1>5, <1>6, <1>7, <1>8, <1>9, <1>10

(* The item stays.                                                         *)
LEMMA KeepItemData == ASSUME IInv, DataInv, KeepItem PROVE DataInv'
<1> USE DEF DataInv
<1>a. PICK a : a = at
  OBVIOUS
<1>1. /\ pc \in {"scan", "sweep"} /\ OnItem /\ ~Doomed /\ (pc = "scan" => ~Supersedes)
      /\ at' = Past /\ pc' = pc
      /\ UNCHANGED <<flash, ram, req, old, blk, dest, unclean, back, history>>
  BY DEF KeepItem
<1>2. /\ Spare' /\ Disjoint' /\ Trigger' /\ Leftover' /\ Wanted' /\ UsedClean' /\ Copies'
      /\ Shadow' = Shadow /\ (Up' <=> Up) /\ (Up <=> pc = "sweep")
      /\ \A p : At(p)' = At(p) /\ (Good(p)' <=> Good(p))
      /\ \A k : Items(k)' = Items(k) /\ Current(k)' = Current(k) /\ (Single(k)' <=> Single(k))
      /\ \A p \in Pos : At(p) # Blank /\ p # a /\ Passed(p)' => Passed(p)
      /\ a \in Pos /\ At(a).state = "normal" /\ At(a) \in Item /\ ~AtEnd
      /\ \A p \in Pos : At(p) # Blank /\ p # a /\ Before(a, p) => Before(Past, p)
  BY <1>a, <1>1, MoveKeeps
<1>3. NoTorn'
  <2> SUFFICES ASSUME NEW p \in Pos, Passed(p)', At(p).state = "normal"
               PROVE  At(p).crc = "good"
    BY <1>2 DEF NoTorn
  <2>1. CASE p = a /\ pc = "scan"
    BY <1>a, <1>1, <1>2, <2>1 DEF Doomed, Cursor, Item
  <2>2. CASE p # a \/ pc = "sweep"
    <3>1. Passed(p)
      BY <1>1, <1>2, <2>2, SlotTypes DEF Passed, Looping
    <3> QED BY <1>1, <3>1 DEF NoTorn
  <2> QED BY <1>1, <2>1, <2>2
<1>4. Chosen'
  <2> SUFFICES ASSUME pc = "scan"
               PROVE  /\ \A k \in Keys : \A p, q \in Items(k) :
                            Passed(p)' /\ At(p).origin = q => p = q
                      /\ \A k \in Keys : \A p \in Pos : p[1] \in Shadow /\ Good(p) /\ At(p).key = k =>
                            (At(p).origin \in Items(k) => k \in exposed)
    BY <1>1, <1>2 DEF Chosen, history
  <2>1. ASSUME NEW k \in Keys, NEW p \in Items(k), NEW q \in Items(k), Passed(p)', At(p).origin = q
        PROVE  p = q
    <3>1. /\ p \in Pos /\ At(p) # Blank /\ At(p).key = k
          /\ q \in Pos /\ At(q).key = k /\ At(q).state = "normal"
      BY SlotTypes DEF Items, Good
    <3>2. CASE p = a
      BY <1>a, <1>1, <2>1, <3>1, <3>2, Numbers DEF Supersedes, Cursor
    <3>3. CASE p # a
      BY <1>1, <1>2, <2>1, <3>1, <3>3 DEF Chosen
    <3> QED BY <3>2, <3>3
  <2> QED BY <1>2, <2>1 DEF Chosen
<1>5. Answering'
  <2>1. ASSUME NEW k \in req.keys, k \in Keys, Pending(k) PROVE Pending(k)'
    <3>1. ASSUME pc = "sweep", NEW p \in Items(k) PROVE Before(Past, p)
      <4>1. Before(a, p)
        BY <1>a, <2>1, <3>1 DEF Pending, Sweeping
      <4>2. p \in Pos /\ At(p) # Blank /\ At(p).key = k
        BY SlotTypes DEF Items, Good
      <4>3. p # a
        BY <1>a, <1>1, <2>1, <3>1, <4>2 DEF Doomed, Cursor
      <4> QED BY <1>2, <4>1, <4>2, <4>3
    <3>2. (Sweeping => Single(k) /\ \A p \in Items(k) : Before(at, p) \/ (pc = "del" /\ old = p))'
      BY <1>1, <1>2, <2>1, <3>1 DEF Pending, Sweeping
    <3> QED BY <1>1, <2>1, <3>2 DEF Pending, history
  <2> QED BY <1>1, <1>2, <2>1 DEF Answering, history, Sweeping, Collecting
<1> QED BY <1>2, <1>3, <1>4, <1>5

(* A torn item, or one with a deleted prefix, is to be deleted.            *)
LEMMA DropSelfData == ASSUME IInv, DataInv, DropSelf PROVE DataInv'
<1> USE DEF DataInv
<1>a. PICK a : a = at
  OBVIOUS
<1>1. /\ pc \in {"scan", "sweep"} /\ OnItem /\ Doomed /\ old' = a /\ pc' = "del" /\ back' = pc
      /\ at' = Past /\ UNCHANGED <<flash, ram, req, blk, dest, unclean, history>>
  BY <1>a DEF DropSelf, DropItem
<1>2. /\ Spare' /\ Disjoint' /\ Trigger' /\ Leftover' /\ Wanted' /\ UsedClean' /\ Copies'
      /\ Shadow' = Shadow /\ (Up' <=> Up) /\ (Up <=> pc = "sweep")
      /\ \A p : At(p)' = At(p) /\ (Good(p)' <=> Good(p))
      /\ \A k : Items(k)' = Items(k) /\ Current(k)' = Current(k) /\ (Single(k)' <=> Single(k))
      /\ \A p \in Pos : At(p) # Blank /\ p # a /\ Passed(p)' => Passed(p)
      /\ a \in Pos /\ At(a).state = "normal" /\ At(a) \in Item /\ ~AtEnd
      /\ \A p \in Pos : At(p) # Blank /\ p # a /\ Before(a, p) => Before(Past, p)
  BY <1>a, <1>1, MoveKeeps
<1>3. NoTorn'
  <2> SUFFICES ASSUME NEW p \in Pos, Passed(p)', At(p).state = "normal"
               PROVE  At(p).crc = "good" \/ (back' = "scan" /\ old' = p)
    BY <1>1, <1>2 DEF NoTorn
  <2>1. CASE p = a /\ pc = "scan"
    BY <1>1, <2>1
  <2>2. CASE p # a \/ pc = "sweep"
    <3>1. Passed(p)
      BY <1>1, <1>2, <2>2, SlotTypes DEF Passed, Looping
    <3> QED BY <1>1, <3>1 DEF NoTorn
  <2> QED BY <1>1, <2>1, <2>2
<1>4. Chosen'
  <2> SUFFICES ASSUME pc = "scan"
               PROVE  /\ \A k \in Keys : \A p, q \in Items(k) :
                            Passed(p)' /\ At(p).origin = q => p = q
                      /\ \A k \in Keys : \A p \in Pos : p[1] \in Shadow /\ Good(p) /\ At(p).key = k =>
                            (At(p).origin \in Items(k) => k \in exposed)
                      /\ \A k \in Keys : a \notin Items(k)
    BY <1>1, <1>2 DEF Chosen, history
  <2>1. At(a).crc # "good"
    BY <1>a, <1>1 DEF Doomed, Cursor
  <2>2. \A k \in Keys : a \notin Items(k)
    BY <2>1 DEF Items, Good
  <2>3. ASSUME NEW k \in Keys, NEW p \in Items(k), Passed(p)' PROVE Passed(p)
    <3>1. p \in Pos /\ At(p) # Blank
      BY SlotTypes DEF Items, Good
    <3> QED BY <1>2, <2>2, <2>3, <3>1
  <2> QED BY <1>1, <1>2, <2>2, <2>3 DEF Chosen
<1>5. Answering'
  <2>1. ASSUME NEW k \in Keys, Pending(k) PROVE Pending(k)'
    <3>1. ASSUME pc = "sweep", NEW p \in Items(k), p # a PROVE Before(Past, p)
      <4>1. Before(a, p)
        BY <1>a, <2>1, <3>1 DEF Pending, Sweeping
      <4>2. p \in Pos /\ At(p) # Blank
        BY SlotTypes DEF Items, Good
      <4> QED BY <1>2, <3>1, <4>1, <4>2
    <3>2. (Sweeping => Single(k) /\ \A p \in Items(k) : Before(at, p) \/ (pc = "del" /\ old = p))'
      <4> SUFFICES ASSUME pc = "sweep"
                   PROVE  (Single(k) /\ \A p \in Items(k) : Before(at, p) \/ (pc = "del" /\ old = p))'
        BY <1>1 DEF Sweeping
      <4>1. Single(k)
        BY <2>1 DEF Pending, Sweeping
      <4> QED BY <1>1, <1>2, <3>1, <4>1
    <3>3. pc' = "del" /\ back' # "reply" /\ req' = req /\ want' = want
      BY <1>1 DEF history
    <3>4. req.val \in want[k]
      BY <2>1 DEF Pending
    <3> QED BY <3>2, <3>3, <3>4 DEF Pending
  <2>2. At(old)' = At(a)
    BY <1>1, <1>2 DEF At
  <2>3. pc = "sweep" => At(a).key \in req.keys
    BY <1>a, <1>1 DEF Doomed, Cursor
  <2>4. (pc = "del" /\ back = "sweep" => At(old).key \in req.keys)'
    BY <1>1, <2>2, <2>3
  <2>5. \A k \in Keys : Up' => (IF k \in req.keys THEN Pending(k) ELSE Single(k) /\ want[k] = Current(k))'
    BY <1>1, <1>2, <2>1 DEF Answering, history
  <2>6. (~Up => req = NoReq)' /\ lost' = {} /\ (Sweeping' => req'.val = NoVal /\ req'.keys \in Prefixes)
    BY <1>1, <1>2 DEF Answering, Sweeping, history
  <2> QED BY <1>1, <1>2, <2>4, <2>5, <2>6 DEF Answering, Collecting
<1> QED BY <1>2, <1>3, <1>4, <1>5

(* The item a newer one replaced is to be deleted: the newer one counts,   *)
(* or is a copy whose key is known to be exposed.                          *)
LEMMA DropOriginData == ASSUME IInv, DataInv, DropOrigin PROVE DataInv'
<1> USE DEF DataInv
<1>a. PICK a, r : a = at /\ r = Cursor.origin
  OBVIOUS
<1>1. /\ pc = "scan" /\ OnItem /\ ~Doomed /\ Supersedes /\ old' = r /\ pc' = "del" /\ back' = pc
      /\ at' = Past /\ UNCHANGED <<flash, ram, req, blk, dest, unclean, history>>
  BY <1>a DEF DropOrigin, DropItem
<1>2. /\ Spare' /\ Disjoint' /\ Trigger' /\ Leftover' /\ Wanted' /\ UsedClean' /\ Copies'
      /\ Shadow' = Shadow /\ (Up' <=> Up) /\ (Up <=> pc = "sweep")
      /\ \A p : At(p)' = At(p) /\ (Good(p)' <=> Good(p))
      /\ \A k : Items(k)' = Items(k) /\ Current(k)' = Current(k) /\ (Single(k)' <=> Single(k))
      /\ \A p \in Pos : At(p) # Blank /\ p # a /\ Passed(p)' => Passed(p)
      /\ a \in Pos /\ At(a).state = "normal" /\ At(a) \in Item /\ ~AtEnd
      /\ \A p \in Pos : At(p) # Blank /\ p # a /\ Before(a, p) => Before(Past, p)
  BY <1>a, <1>1, MoveKeeps
<1>3. /\ At(a).origin = r /\ r # a /\ At(r).key = At(a).key /\ Good(a)
  BY <1>a, <1>1, <1>2 DEF Supersedes, Doomed, Cursor, Good, Item
<1>4. NoTorn'
  <2> SUFFICES ASSUME NEW p \in Pos, Passed(p)', At(p).state = "normal"
               PROVE  At(p).crc = "good"
    BY <1>2 DEF NoTorn
  <2>1. CASE p = a
    BY <1>3, <2>1 DEF Good
  <2>2. CASE p # a
    BY <1>1, <1>2, <2>2, SlotTypes DEF NoTorn
  <2> QED BY <2>1, <2>2
<1>5. Chosen'
  <2> SUFFICES ASSUME TRUE
               PROVE  /\ \A k \in Keys : \A p, q \in Items(k) :
                            Passed(p)' /\ At(p).origin = q => p = q \/ r = q
                      /\ \A k \in Keys : \A p \in Pos : p[1] \in Shadow /\ Good(p) /\ At(p).key = k =>
                            (At(p).origin \in Items(k) => k \in exposed)
                      /\ \A k \in Keys : r \in Items(k) => k \in exposed \/ \E p \in Items(k) : p # r
    BY <1>1, <1>2 DEF Chosen, history
  <2>1. ASSUME NEW k \in Keys, NEW p \in Items(k), NEW q \in Items(k), Passed(p)', At(p).origin = q
        PROVE  p = q \/ r = q
    <3>1. p \in Pos /\ At(p) # Blank
      BY SlotTypes DEF Items, Good
    <3>2. p # a => Passed(p)
      BY <1>2, <2>1, <3>1
    <3> QED BY <1>1, <1>2, <1>3, <2>1, <3>2 DEF Chosen
  <2>2. ASSUME NEW k \in Keys, r \in Items(k) PROVE k \in exposed \/ \E p \in Items(k) : p # r
    <3>1. At(a).key = k
      BY <1>3, <2>2 DEF Items
    <3>2. CASE a[1] \in Shadow
      BY <1>1, <1>2, <1>3, <2>2, <3>1, <3>2 DEF Chosen
    <3>3. CASE a[1] \notin Shadow
      <4>1. a \in Items(k)
        BY <1>2, <1>3, <3>1, <3>3 DEF Items
      <4> QED BY <1>3, <4>1
    <3> QED BY <3>2, <3>3
  <2> QED BY <1>1, <1>2, <2>1, <2>2 DEF Chosen
<1>6. Answering'
  BY <1>1, <1>2 DEF Answering, Sweeping, history
<1> QED BY <1>2, <1>4, <1>5, <1>6

(* GC copies the item under its cursor: the only one of its key.           *)
LEMMA CopyItemData == ASSUME IInv, DataInv, CopyItem PROVE DataInv'
<1> USE DEF DataInv
<1>1. /\ pc = "copy" /\ OnItem /\ Program(write_pos, Cursor) /\ at' = Past /\ pc' = pc
      /\ UNCHANGED <<state, clean_blk_nums, gc_trigger, req, old, blk, dest, unclean, back, history>>
  BY DEF CopyItem
<1>2. PICK a \in Pos, w \in Pos, y \in Item : a = at /\ w = write_pos /\ y = Cursor
  BY <1>1, CopyFits, CursorFacts DEF CursorOK, Scanning
<1>3. /\ Program(w, y) /\ w[2] = fill[w[1]] /\ hdr[w[1]] # "none" /\ w[2] + Len(y) < BlockSize
      /\ At(a) = y /\ y.state = "normal" /\ ~AtEnd
  BY <1>1, <1>2, CopyFits, CursorFacts DEF Cursor, OnItem
<1>4. /\ Disjoint' /\ hdr' = hdr /\ At(w) = Blank /\ At(w)' = y
      /\ \A q \in Pos : q # w => At(q)' = At(q)
      /\ \A b \in Blocks : b # w[1] => fill'[b] = fill[b]
  BY <1>3, ProgramDisjoint
<1>5. /\ dest \in Blocks /\ Victim = a[1] /\ dest # a[1] /\ a[1] \in Blocks
      /\ hdr[dest] = "clean" /\ state[dest] = "clean" /\ Shadow \subseteq {dest}
      /\ Up /\ ~Looping /\ Collecting /\ Copying /\ unclean = {} /\ w[1] = dest
      /\ \A k : Items(k) = {p \in Pos : Good(p) /\ At(p).key = k /\ p[1] # dest}
  <2>1. Copying
    BY <1>1 DEF Copying
  <2>2. Victim = a[1]
    BY <1>1, <1>2 DEF Victim
  <2>3. /\ dest \in Blocks /\ Victim \in Blocks /\ dest # Victim
        /\ hdr[dest] = "clean" /\ state[dest] = "clean" /\ Shadow \subseteq {dest}
        /\ Up /\ ~Looping /\ Collecting /\ unclean = {}
        /\ \A k : Items(k) = {p \in Pos : Good(p) /\ At(p).key = k /\ p[1] # dest}
    BY <2>1, ItemsCopying
  <2> QED BY <1>2, <2>1, <2>2, <2>3 DEF IInv, Frontier
<1>6. IInv' /\ Copying' /\ Collecting' /\ ~Looping' /\ Up'
  <2>1. IInv' /\ ~Looping' /\ pc' = "copy"
    BY <1>1, CopyItemStep DEF Looping
  <2> QED BY <2>1 DEF IInv, Control, Copying, Collecting
<1>7. \A b \in Blocks \ {dest} : hdr'[b] \in {"used", "dirty"}
  BY <1>4, <1>5 DEF Copies
<1>8. /\ \A k : Items(k)' = {p \in Pos : Good(p)' /\ At(p)'.key = k /\ p[1] # dest}
      /\ Shadow' \subseteq {dest}
  <2>1. (IInv => \A d \in Blocks :
           hdr[d] = "clean" /\ (\A c \in Blocks \ {d} : hdr[c] \in {"used", "dirty"}) =>
            /\ Shadow \subseteq {d}
            /\ \A k : Items(k) = {p \in Pos : Good(p) /\ At(p).key = k /\ p[1] # d})'
    BY ItemsOutside, PTL
  <2> QED BY <1>4, <1>5, <1>6, <1>7, <2>1
<1>9. \A p \in Pos : p[1] # dest => At(p)' = At(p) /\ (Good(p)' <=> Good(p))
  BY <1>4, <1>5 DEF Good
<1>10. \A k : /\ Items(k)' = Items(k) /\ \A p \in Items(k) : At(p)' = At(p)
              /\ Current(k)' = Current(k) /\ (Single(k)' <=> Single(k))
  <2> TAKE k
  <2>1. Items(k)' = Items(k) /\ \A p \in Items(k) : At(p)' = At(p)
    BY <1>5, <1>8, <1>9
  <2> QED BY <2>1 DEF Current, Single
<1>11. y.crc = "good" /\ y.key \in Keys
  <2>1. Passed(a)
    BY <1>5 DEF Passed
  <2> QED BY <1>1, <1>3, <2>1 DEF NoTorn, Item
<1>12. NoTorn'
  <2> SUFFICES ASSUME NEW p \in Pos, At(p)'.state = "normal" PROVE At(p)'.crc = "good"
    BY DEF NoTorn
  <2>1. CASE p = w
    BY <1>4, <1>11, <2>1
  <2>2. CASE p # w
    BY <1>1, <1>4, <1>5, <2>2 DEF NoTorn, Passed
  <2> QED BY <2>1, <2>2
<1>13. UsedClean'
  <2> SUFFICES ASSUME NEW p \in Pos, state[p[1]] = "used"
               PROVE  At(p)' = Blank \/ At(p)'.state = "normal"
    BY <1>1 DEF UsedClean
  <2>1. p # w
    BY <1>5
  <2> QED BY <1>1, <1>4, <1>5, <2>1 DEF UsedClean, Passed
<1>14. Trigger' /\ Spare'
  BY <1>1, <1>4, <1>5, <1>6 DEF Trigger, Spare
<1>15. Leftover'
  <2>1. \A b \in Blocks : Filled(b)' => b = dest
    BY <1>7 DEF Filled
  <2> QED BY <1>1, <1>5, <2>1 DEF Leftover
<1>16. /\ \A p \in Pos : Original(p) <=> p[1] = a[1] /\ p[2] < a[2]
       /\ \A p \in Pos : Original(p)' <=> p[1] = a[1] /\ p[2] < Past[2]
       /\ a[2] < Past[2] /\ a[2] \in Int /\ Past[2] \in Int /\ \A p \in Pos : p[2] \in Int
       /\ \A p \in Pos : At(p) # Blank /\ p # a /\ p[1] = a[1] /\ p[2] < Past[2] => p[2] < a[2]
  <2>1. /\ a[2] < Past[2] /\ Past \in Pos /\ Past[1] = a[1]
        /\ \A p \in Pos : At(p) # Blank /\ p # a /\ p[1] = a[1] /\ p[2] < Past[2] => p[2] < a[2]
    BY <1>1, <1>2, <1>3, PassOne DEF Scanning
  <2>2. \A p \in Pos : p[2] \in Int
    BY Positions
  <2> QED BY <1>1, <1>2, <2>1, <2>2 DEF Original, Victim, Copied
<1>17. Copies'
  <2>1. \A o \in Offsets : slot'[dest][o] = Blank \/ slot'[dest][o].state = "normal"
    <3> TAKE o \in Offsets
    <3>1. PICK p \in Pos : p = <<dest, o>>
      BY <1>5 DEF Pos
    <3>2. slot'[dest][o] = At(p)' /\ slot[dest][o] = At(p)
      BY <3>1 DEF At
    <3>3. CASE p = w
      BY <1>3, <1>4, <3>2, <3>3
    <3>4. CASE p # w
      BY <1>4, <1>5, <3>2, <3>4 DEF Copies
    <3> QED BY <3>3, <3>4
  <2>2. ASSUME NEW p \in Pos, Original(p)', At(p)'.state = "normal"
        PROVE  \E q \in Pos : q[1] = dest /\ At(q)' = At(p)'
    <3>1. p[1] # dest /\ At(p)' = At(p)
      BY <1>5, <1>9, <1>16, <2>2
    <3>2. CASE p = a
      BY <1>3, <1>4, <1>5, <3>1, <3>2
    <3>3. CASE p # a
      <4>1. Original(p)
        BY <1>16, <2>2, <3>1, <3>3, SlotTypes
      <4>2. PICK q \in Pos : q[1] = dest /\ At(q) = At(p)
        BY <1>5, <2>2, <3>1, <4>1 DEF Copies
      <4>3. q # w
        BY <1>4, <2>2, <3>1, <4>2, SlotTypes
      <4> QED BY <1>4, <3>1, <4>2, <4>3
    <3> QED BY <3>2, <3>3
  <2>3. ASSUME NEW q \in Pos, q[1] = dest, At(q)' # Blank
        PROVE  \E p \in Pos : Original(p)' /\ At(p)' = At(q)'
    <3>1. CASE q = w
      BY <1>3, <1>4, <1>5, <1>9, <1>16, <3>1
    <3>2. CASE q # w
      <4>1. At(q)' = At(q)
        BY <1>4, <3>2
      <4>2. PICK p \in Pos : Original(p) /\ At(p) = At(q)
        BY <1>5, <2>3, <4>1 DEF Copies
      <4>3. Original(p)' /\ At(p)' = At(p)
        BY <1>5, <1>9, <1>16, <4>2
      <4> QED BY <4>1, <4>2, <4>3
    <3> QED BY <3>1, <3>2
  <2>4. ASSUME NEW q \in Pos, q[1] = dest, q # w, At(q) # Blank PROVE At(q).key # y.key
    <3> SUFFICES ASSUME At(q).key = y.key PROVE FALSE
      OBVIOUS
    <3>1. PICK p \in Pos : Original(p) /\ At(p) = At(q)
      BY <1>5, <2>4 DEF Copies
    <3>2. Good(p)
      <4>1. At(q).state = "normal"
        BY <1>5, <2>4, Positions DEF Copies
      <4> QED BY <1>1, <1>5, <3>1, <4>1 DEF NoTorn, Passed, Good
    <3>3. p \in Items(y.key) /\ a \in Items(y.key)
      <4>1. p[1] # dest /\ a[1] # dest /\ At(p).key = y.key /\ At(a).key = y.key /\ Good(a)
        BY <1>3, <1>5, <1>11, <1>16, <3>1 DEF Good
      <4> QED BY <1>5, <3>2, <4>1
    <3>4. Single(y.key)
      BY <1>5, <1>11 DEF Answering, NoReq
    <3> QED BY <1>16, <3>1, <3>3, <3>4 DEF Single
  <2>5. ASSUME NEW p \in Pos, NEW q \in Pos, p[1] = dest, q[1] = dest, At(p)' # Blank, At(q)' # Blank,
               At(p)'.key = At(q)'.key
        PROVE  p = q
    <3>1. CASE p # w /\ q # w
      BY <1>4, <1>5, <2>5, <3>1 DEF Copies
    <3>2. CASE p = w \/ q = w
      BY <1>4, <2>4, <2>5, <3>2
    <3> QED BY <3>1, <3>2
  <2> QED BY <1>1, <1>7, <2>1, <2>2, <2>3, <2>5 DEF Copies
<1>18. Wanted'
  BY <1>1, <1>5, <1>6, <1>10 DEF Wanted, history
<1>19. Chosen'
  BY <1>6 DEF Chosen
<1>20. Answering'
  BY <1>1, <1>5, <1>6, <1>10 DEF Answering, NoReq, Sweeping, history
<1> QED BY <1>4, <1>12, <1>13, <1>14, <1>15, <1>17, <1>18, <1>19, <1>20

-----------------------------------------------------------------------------
(* The end of a scan. *)

(* At the end of a block nothing of it is left to scan.                    *)
LEMMA NoneLeft ==
  ASSUME IInv, pc \in Scanning, AtEnd
  PROVE  /\ at \in Pos /\ at[2] = fill[at[1]]
         /\ \A p \in Pos : At(p) # Blank /\ p[1] = at[1] => p[2] < at[2]
         /\ \A p \in Pos : At(p) # Blank /\ Before(at, p) => at[1] < p[1]
<1>1. at \in Pos /\ at[2] = fill[at[1]]
  BY CursorFacts DEF CursorOK
<1>2. ASSUME NEW p \in Pos, At(p) # Blank, p[1] = at[1] PROVE p[2] < at[2]
  BY <1>1, <1>2, Positions
<1>3. ASSUME NEW p \in Pos, At(p) # Blank, Before(at, p) PROVE at[1] < p[1]
  BY <1>1, <1>2, <1>3, Positions DEF Before
<1> QED BY <1>1, <1>2, <1>3

(* The sweep goes on to the next block, or has been through all.           *)
LEMMA EndSweepData == ASSUME IInv, DataInv, EndSweep PROVE DataInv'
<1> USE DEF DataInv
<1>a. PICK a : a = at
  OBVIOUS
<1>1. /\ pc = "sweep" /\ AtEnd /\ back' = "reply"
      /\ IF a[1] + 1 < NBlocks
         THEN at' = <<a[1] + 1, HdrSize>> /\ UNCHANGED <<pc, req, old, history>>
         ELSE at' = NoPos /\ Finish
      /\ UNCHANGED <<flash, state, clean_blk_nums, write_pos, gc_trigger, blk, dest, unclean>>
  BY <1>a DEF EndSweep
<1>2. /\ Up /\ Up' /\ ~Looping /\ ~Looping' /\ ~Collecting' /\ ~Copying' /\ Sweeping
      /\ pc' \in {"sweep", "idle"} /\ lost = {} /\ lost' = lost /\ exposed' = exposed
  <2>1. pc' \in {"sweep", "idle"} /\ lost' = lost /\ exposed' = exposed
    BY <1>1 DEF Finish, history
  <2>2. Up
    BY <1>1 DEF IInv, Control, Looping
  <2> QED BY <1>1, <2>1, <2>2 DEF Up, Looping, Collecting, Copying, Sweeping, Answering
<1>3. /\ Shadow' = Shadow /\ \A b : Filled(b)' <=> Filled(b)
      /\ \A p : At(p)' = At(p) /\ (Good(p)' <=> Good(p))
      /\ \A k : Items(k)' = Items(k) /\ Current(k)' = Current(k) /\ (Single(k)' <=> Single(k))
  BY <1>1, ShadowSame, ItemsSame DEF flash
<1>4. /\ a \in Pos /\ a[1] \in Int /\ a[1] \in Blocks
      /\ \A p \in Pos : At(p) # Blank /\ Before(a, p) => a[1] < p[1]
  BY <1>a, <1>1, NoneLeft, Positions DEF Scanning
<1>5. NoTorn' /\ UsedClean'
  BY <1>1, <1>2, <1>3 DEF NoTorn, UsedClean, Passed
<1>6. Copies' /\ Chosen' /\ Trigger' /\ Spare' /\ Disjoint' /\ Leftover'
  <2>1. Copies' /\ Chosen' /\ Trigger' /\ Spare'
    BY <1>1, <1>2 DEF Copies, Chosen, Trigger, Spare, flash
  <2>2. Disjoint'
    BY <1>1, ItemsSame DEF flash
  <2> QED BY <1>1, <1>2, <1>3, <2>1, <2>2 DEF Leftover
<1>7. req.val = NoVal /\ \A k \in Keys :
        IF k \in req.keys THEN Pending(k) ELSE Single(k) /\ want[k] = Current(k)
  BY <1>2 DEF Answering
<1>8. ASSUME NEW k \in Keys, k \in req.keys
      PROVE  Single(k) /\ NoVal \in want[k] /\ \A p \in Items(k) : a[1] < p[1]
  <2>1. Single(k) /\ NoVal \in want[k] /\ \A p \in Items(k) : Before(a, p)
    BY <1>a, <1>1, <1>2, <1>7, <1>8 DEF Pending
  <2>2. \A p \in Items(k) : p \in Pos /\ At(p) # Blank
    BY SlotTypes DEF Items, Good
  <2> QED BY <1>4, <2>1, <2>2
<1>9. CASE a[1] + 1 < NBlocks
  <2>1. at' = <<a[1] + 1, HdrSize>> /\ UNCHANGED <<pc, req, old, history>>
    BY <1>1, <1>9
  <2>2. Wanted'
    BY <1>2, <1>3, <2>1 DEF Wanted, history
  <2>3. ASSUME NEW k \in Keys, k \in req.keys PROVE Pending(k)'
    <3>1. ASSUME NEW p \in Items(k) PROVE Before(<<a[1] + 1, HdrSize>>, p)
      <4>1. p \in Pos /\ a[1] < p[1]
        BY <1>8, <2>3 DEF Items
      <4>2. p[1] \in Int /\ p[2] \in Offsets
        BY <4>1, Positions
      <4> QED BY <1>4, <4>1, <4>2, Numbers DEF Before
    <3>2. (Sweeping => Single(k) /\ \A p \in Items(k) : Before(at, p) \/ (pc = "del" /\ old = p))'
      BY <1>3, <1>8, <2>1, <2>3, <3>1
    <3> QED BY <1>1, <1>7, <1>8, <2>1, <2>3, <3>2 DEF Pending, history
  <2>4. Answering'
    BY <1>1, <1>2, <1>3, <1>7, <2>1, <2>3 DEF Answering, Sweeping, history
  <2> QED BY <1>5, <1>6, <2>2, <2>4
<1>10. CASE ~(a[1] + 1 < NBlocks)
  <2>1. /\ req' = NoReq /\ pc' = "idle"
        /\ \A k \in Keys : want'[k] = IF k \in req.keys THEN {NoVal} ELSE want[k]
    BY <1>1, <1>7, <1>10 DEF Finish
  <2>2. ASSUME NEW k \in Keys, k \in req.keys PROVE Items(k) = {}
    <3> SUFFICES ASSUME NEW p \in Items(k) PROVE FALSE
      OBVIOUS
    <3>1. a[1] < p[1] /\ p[1] \in Blocks
      BY <1>8, <2>2, Positions DEF Items
    <3> QED BY <1>4, <1>10, <3>1, Numbers
  <2>3. \A k \in Keys : Single(k)' /\ want'[k] = Current(k)'
    <3> TAKE k \in Keys
    <3>1. CASE k \in req.keys
      BY <1>3, <2>1, <2>2, <3>1 DEF Single, Current
    <3>2. CASE k \notin req.keys
      BY <1>3, <1>7, <2>1, <3>2
    <3> QED BY <3>1, <3>2
  <2>4. Wanted'
    <3> SUFFICES ASSUME NEW k \in Keys
                 PROVE  /\ \A p \in Items(k)' : At(p)'.val \in want'[k]
                        /\ Items(k)' = {} => NoVal \in want'[k]
                        /\ \A p, q \in Items(k)' : p = q
      BY DEF Wanted
    <3>1. /\ want'[k] = Current(k)' /\ Single(k)'
          /\ Current(k)' = IF Items(k)' = {} THEN {NoVal} ELSE {At(p)'.val : p \in Items(k)'}
      BY <2>3 DEF Current
    <3> QED BY <3>1 DEF Single
  <2>5. Answering'
    BY <1>2, <2>1, <2>3 DEF Answering, NoReq, Sweeping
  <2> QED BY <1>5, <1>6, <2>4, <2>5
<1> QED BY <1>9, <1>10

(* All of the victim is copied.                                            *)
LEMMA EndCopyData == ASSUME IInv, DataInv, EndCopy PROVE DataInv'
<1> USE DEF DataInv
<1>a. PICK a : a = at
  OBVIOUS
<1>1. /\ pc = "copy" /\ AtEnd /\ pc' = "erase" /\ blk' = a[1] /\ back' = "use" /\ at' = NoPos
      /\ UNCHANGED <<flash, state, clean_blk_nums, write_pos, gc_trigger, req, old, dest,
                     unclean, history>>
  BY <1>a DEF EndCopy, Scanned
<1>2. /\ Shadow' = Shadow /\ \A b : Filled(b)' <=> Filled(b)
      /\ \A p : At(p)' = At(p) /\ (Good(p)' <=> Good(p))
      /\ \A k : Items(k)' = Items(k) /\ Current(k)' = Current(k) /\ (Single(k)' <=> Single(k))
      /\ Disjoint'
  BY <1>1, ShadowSame, ItemsSame DEF flash
<1>3. /\ Up /\ Up' /\ ~Looping /\ ~Looping' /\ Collecting /\ Collecting' /\ Copying /\ Copying'
  <2>1. Copying /\ Copying' /\ Collecting /\ Collecting' /\ ~Looping /\ ~Looping'
    BY <1>1 DEF Copying, Collecting, Looping
  <2> QED BY <1>1, <2>1, ItemsCopying DEF Up
<1>4. NoTorn' /\ UsedClean'
  BY <1>1, <1>2, <1>3 DEF NoTorn, UsedClean, Passed
<1>5. Trigger' /\ Spare' /\ Leftover' /\ Chosen'
  BY <1>1, <1>2, <1>3 DEF Trigger, Spare, Leftover, Chosen, flash
<1>6. Wanted'
  BY <1>1, <1>2, <1>3 DEF Wanted, history
<1>7. Copies'
  <2>1. \A p \in Pos : At(p) # Blank => (Original(p)' <=> Original(p))
    <3> SUFFICES ASSUME NEW p \in Pos, At(p) # Blank
                 PROVE  (p[1] = a[1] /\ p[2] < BlockSize) <=> (p[1] = a[1] /\ p[2] < a[2])
      BY <1>a, <1>1 DEF Original, Victim, Copied
    <3> QED BY <1>a, <1>1, NoneLeft, Positions, Numbers DEF Scanning
  <2>2. \A p \in Pos : At(p).state = "normal" => At(p) # Blank
    BY SlotTypes
  <2>3. /\ \A o \in Offsets : slot'[dest'][o] = Blank \/ slot'[dest'][o].state = "normal"
        /\ \A b \in Blocks \ {dest'} : hdr'[b] \in {"used", "dirty"}
        /\ \A p, q \in Pos : p[1] = dest' /\ q[1] = dest' /\ At(p)' # Blank /\ At(q)' # Blank
                              /\ At(p)'.key = At(q)'.key => p = q
    BY <1>1, <1>2, <1>3 DEF Copies, flash
  <2>4. \A p \in Pos : Original(p)' /\ At(p)'.state = "normal" =>
                \E q \in Pos : q[1] = dest' /\ At(q)' = At(p)'
    BY <1>1, <1>2, <1>3, <2>1, <2>2 DEF Copies
  <2>5. \A q \in Pos : q[1] = dest' /\ At(q)' # Blank =>
                \E p \in Pos : Original(p)' /\ At(p)' = At(q)'
    <3> SUFFICES ASSUME NEW q \in Pos, q[1] = dest, At(q) # Blank
                 PROVE  \E p \in Pos : Original(p)' /\ At(p) = At(q)
      BY <1>1, <1>2
    <3>1. PICK p \in Pos : Original(p) /\ At(p) = At(q)
      BY <1>3 DEF Copies
    <3> QED BY <2>1, <3>1
  <2> QED BY <2>3, <2>4, <2>5 DEF Copies
<1>8. Answering'
  BY <1>1, <1>2, <1>3 DEF Answering, NoReq, Sweeping, history
<1> QED BY <1>2, <1>4, <1>5, <1>6, <1>7, <1>8

(* kv_init_internal is through with a block.                               *)
LEMMA EndRecoveryData == ASSUME IInv, DataInv, EndRecovery PROVE DataInv'
<1> USE DEF DataInv
<1>a. PICK a : a = at
  OBVIOUS
<1>1. /\ pc = "scan" /\ AtEnd /\ at' = NoPos /\ space' = [space EXCEPT ![a[1]] = Room(a[2])]
      /\ NextBlock(blk)
      /\ IF state[blk] # "clean" THEN UNCHANGED <<unclean, clean_blk_nums>>
         ELSE IF space'[blk] = BlockSize - HdrSize
         THEN clean_blk_nums' = clean_blk_nums + 1 /\ UNCHANGED unclean
         ELSE unclean' = unclean \cup {blk} /\ UNCHANGED clean_blk_nums
      /\ UNCHANGED <<flash, state, write_pos, gc_trigger, req, old, dest, back, history>>
  BY <1>a DEF EndRecovery, Scanned
<1>2. /\ Shadow' = Shadow /\ \A b : Filled(b)' <=> Filled(b)
      /\ \A p : At(p)' = At(p) /\ (Good(p)' <=> Good(p))
      /\ \A k : Items(k)' = Items(k) /\ Current(k)' = Current(k) /\ (Single(k)' <=> Single(k))
      /\ Disjoint'
  BY <1>1, ShadowSame, ItemsSame DEF flash
<1>3. /\ ~Up /\ ~Up' /\ Looping /\ Walking /\ ~Collecting' /\ ~Copying' /\ a[1] = blk
      /\ pc' \in {"probe", "unclean"} /\ ~Sweeping'
  <2>1. Looping /\ Walking /\ pc' \in {"probe", "unclean"}
    BY <1>1 DEF Looping, Walking, Scanning, NextBlock
  <2> QED BY <1>a, <1>1, <2>1 DEF IInv, Frontier, Control, Up, Collecting, Copying, Sweeping
<1>4. ASSUME NEW p \in Pos, At(p) # Blank, Passed(p)' PROVE Passed(p)
  <2>1. p[1] = blk => p[2] < a[2]
    BY <1>a, <1>1, <1>3, <1>4, NoneLeft DEF Scanning
  <2>2. p[1] \in Int /\ blk \in Int /\ p[1] \in Blocks
    BY Positions, Numbers DEF IInv, TypeOK, LocalType
  <2>3. p[1] <= blk
    <3>1. CASE blk + 1 < NBlocks
      <4>1. pc' = "probe" /\ blk' = blk + 1
        BY <1>1, <3>1 DEF NextBlock
      <4>2. p[1] < blk + 1
        BY <1>4, <4>1 DEF Passed, Looping, Walking, Scanning
      <4> QED BY <2>2, <4>2
    <3>2. CASE ~(blk + 1 < NBlocks)
      BY <2>2, <3>2, Numbers
    <3> QED BY <3>1, <3>2
  <2> QED BY <1>a, <1>3, <2>1, <2>2, <2>3 DEF Passed
<1>5. NoTorn'
  <2>1. \A p \in Pos : At(p).state = "normal" => At(p) # Blank
    BY SlotTypes
  <2> QED BY <1>1, <1>2, <1>4, <2>1 DEF NoTorn
<1>6. UsedClean'
  BY <1>1, <1>2, <1>4 DEF UsedClean
<1>7. Trigger' /\ Spare' /\ Copies'
  BY <1>1, <1>3 DEF Trigger, Spare, Copies, flash
<1>8. Leftover'
  <2>1. ASSUME NEW b \in unclean' PROVE Filled(b)
    <3>1. CASE b \in unclean
      BY <3>1 DEF Leftover
    <3>2. CASE b \notin unclean
      <4>1. b = blk /\ state[blk] = "clean" /\ space'[blk] # BlockSize - HdrSize
        BY <1>1, <2>1, <3>2
      <4>2. hdr[blk] = "clean" /\ blk \in Blocks
        BY <1>3, <4>1 DEF IInv, Mirrored, TypeOK, LocalType
      <4>3. space'[blk] = Room(fill[blk])
        BY <1>a, <1>1, <1>3, <4>2, NoneLeft DEF Scanning, IInv, TypeOK, RamType
      <4>4. fill[blk] # HdrSize
        BY <4>1, <4>2, <4>3, RoomLeft DEF IInv, TypeOK
      <4> QED BY <4>1, <4>2, <4>4 DEF Filled
    <3> QED BY <3>1, <3>2
  <2> QED BY <1>2, <1>3, <2>1 DEF Leftover
<1>9. Wanted'
  BY <1>1, <1>2, <1>3 DEF Wanted, history
<1>10. Chosen'
  <2>1. ASSUME NEW k \in Keys, NEW p \in Items(k), NEW q \in Items(k), Passed(p)', At(p).origin = q
        PROVE  p = q
    <3>1. p \in Pos /\ At(p) # Blank
      BY SlotTypes DEF Items, Good
    <3> QED BY <1>1, <1>3, <1>4, <2>1, <3>1 DEF Chosen
  <2> QED BY <1>1, <1>2, <1>3, <2>1 DEF Chosen, history
<1>11. Answering'
  BY <1>1, <1>3 DEF Answering, Sweeping, history
<1> QED BY <1>2, <1>5, <1>6, <1>7, <1>8, <1>9, <1>10, <1>11

-----------------------------------------------------------------------------
(* kv_block_format. *)

(* What an erase leaves: nothing of its block, all of the others.          *)
LEMMA Erased ==
  ASSUME IInv, Disjoint, Erase
  PROVE  /\ pc = "erase" /\ pc' = "format" /\ UNCHANGED <<ram, locals, history>> /\ blk \in Blocks
         /\ hdr'[blk] = "none" /\ fill'[blk] = HdrSize
         /\ \A b \in Blocks : b # blk => hdr'[b] = hdr[b] /\ fill'[b] = fill[b]
         /\ \A p \in Pos : At(p)' = IF p[1] = blk THEN Blank ELSE At(p)
         /\ \A p \in Pos : Good(p)' <=> p[1] # blk /\ Good(p)
         /\ Disjoint' /\ Shadow' = {} /\ \A b \in Blocks : Filled(b)' => b # blk /\ Filled(b)
<1>1. /\ pc = "erase" /\ pc' = "format" /\ UNCHANGED <<ram, locals, history>> /\ blk \in Blocks
      /\ hdr'  = [hdr EXCEPT ![blk] = "none"]
      /\ slot' = [slot EXCEPT ![blk] = [o \in Offsets |-> Blank]]
      /\ fill' = [fill EXCEPT ![blk] = HdrSize]
  BY DEF Erase, IInv, TypeOK, LocalType
<1>2. FlashType
  BY DEF IInv, TypeOK
<1>3. /\ hdr'[blk] = "none" /\ fill'[blk] = HdrSize
      /\ \A b \in Blocks : b # blk => hdr'[b] = hdr[b] /\ fill'[b] = fill[b]
  BY <1>1, <1>2 DEF FlashType
<1>4. \A b \in Blocks, o \in Offsets : slot'[b][o] = IF b = blk THEN Blank ELSE slot[b][o]
  BY <1>1, <1>2 DEF FlashType
<1>5. \A p \in Pos : At(p)' = IF p[1] = blk THEN Blank ELSE At(p)
  BY <1>4, Positions DEF At
<1>6. \A p \in Pos : Good(p)' <=> p[1] # blk /\ Good(p)
  BY <1>5, SlotTypes DEF Good
<1>7. Disjoint'
  BY <1>4 DEF Disjoint
<1>8. \A b \in Blocks : Filled(b)' => b # blk /\ Filled(b)
  BY <1>3 DEF Filled
<1>9. Shadow' = {}
  <2>1. IInv'
    BY EraseStep
  <2>2. (IInv /\ (\E b \in Blocks : hdr[b] = "none" \/ (hdr[b] = "clean" /\ fill[b] = HdrSize))
            => Shadow = {})'
    BY NoShadow, PTL
  <2> QED BY <1>1, <1>3, <2>1, <2>2
<1> QED BY <1>1, <1>3, <1>5, <1>6, <1>7, <1>8, <1>9

(* A block is erased: one without a header, the remains of a GC, or the    *)
(* victim, of which every item that counts has its copy.                   *)
LEMMA EraseData == ASSUME IInv, DataInv, Erase PROVE DataInv'
<1> USE DEF DataInv
<1>a. PICK v : v = blk
  OBVIOUS
<1>1. /\ pc = "erase" /\ pc' = "format" /\ UNCHANGED <<ram, locals, history>> /\ v \in Blocks
      /\ hdr'[v] = "none" /\ fill'[v] = HdrSize
      /\ \A b \in Blocks : b # v => hdr'[b] = hdr[b] /\ fill'[b] = fill[b]
      /\ \A p \in Pos : At(p)' = IF p[1] = v THEN Blank ELSE At(p)
      /\ \A p \in Pos : Good(p)' <=> p[1] # v /\ Good(p)
      /\ Disjoint' /\ Shadow' = {} /\ \A b \in Blocks : Filled(b)' => b # v /\ Filled(b)
  BY <1>a, Erased
<1>2. /\ UNCHANGED <<state, space, clean_blk_nums, write_pos, gc_trigger, req, at, old, blk, dest,
                     unclean, back, want, reply, exposed, lost>>
      /\ back \in {"next", "unclean", "use"} /\ lost = {} /\ req = NoReq
  <2>1. back \in {"next", "unclean", "use"}
    BY <1>1 DEF IInv, Control
  <2>2. req = NoReq
    BY <1>1, <2>1 DEF Answering, Collecting, IInv, Frontier, Looping
  <2> QED BY <1>1, <2>1, <2>2 DEF ram, locals, history, Answering
<1>3. /\ (Up' <=> Up) /\ (Looping' <=> Looping) /\ (Collecting' <=> Collecting) /\ ~Copying'
      /\ ~Sweeping' /\ \A p : Passed(p)' <=> Passed(p)
  <2>1. /\ (Up' <=> Up) /\ (Looping' <=> Looping) /\ (Collecting' <=> Collecting) /\ ~Copying'
        /\ (Walking' <=> Walking) /\ ~Sweeping'
    BY <1>1, <1>2 DEF Up, Looping, Collecting, Copying, Walking, Scanning, Sweeping
  <2> QED BY <1>2, <2>1 DEF Passed
<1>4. \A k : Items(k)' = {p \in Pos : p[1] # v /\ Good(p) /\ At(p).key = k}
  BY <1>1 DEF Items
<1>5. NoTorn'
  <2> SUFFICES ASSUME NEW p \in Pos, Passed(p), At(p)'.state = "normal" PROVE At(p)'.crc = "good"
    BY <1>3 DEF NoTorn
  <2>1. At(p)' = At(p)
    BY <1>1, SlotTypes
  <2> QED BY <1>1, <2>1 DEF NoTorn
<1>6. UsedClean'
  <2> SUFFICES ASSUME NEW p \in Pos, Passed(p), state[p[1]] = "used"
               PROVE  At(p)' = Blank \/ At(p)'.state = "normal"
    BY <1>2, <1>3 DEF UsedClean
  <2> QED BY <1>1 DEF UsedClean
<1>7. Trigger' /\ Spare'
  BY <1>1, <1>2, <1>3 DEF Trigger, Spare
<1>8. Leftover'
  <2>1. ASSUME NEW b \in unclean PROVE Filled(b)'
    <3>1. b \in Blocks /\ b # v /\ Filled(b)
      BY <1>1, <1>2, <1>a, <2>1 DEF Leftover, IInv, CleanErased, TypeOK, LocalType
    <3> QED BY <1>1, <3>1 DEF Filled
  <2> QED BY <1>1, <1>2, <2>1 DEF Leftover
<1>9. Copies'
  <2> SUFFICES ASSUME Collecting, NEW o \in Offsets
               PROVE  slot'[dest][o] = Blank \/ slot'[dest][o].state = "normal"
    BY <1>2, <1>3 DEF Copies
  <2>1. PICK p \in Pos : p = <<dest, o>>
    BY DEF Pos, IInv, TypeOK, LocalType
  <2>2. slot'[dest][o] = At(p)' /\ slot[dest][o] = At(p)
    BY <2>1 DEF At
  <2> QED BY <1>1, <2>2 DEF Copies
<1>10. /\ req' = NoReq /\ want' = want /\ exposed' = exposed /\ lost' = {}
       /\ pc' \notin {"store", "del", "mark"}
  BY <1>1, <1>2
<1>11. CASE back = "use"
  <2>1. /\ Up /\ v = Victim /\ dest # v /\ dest \in Blocks /\ Copying /\ Collecting /\ ~Looping
        /\ \A k : Items(k) = {p \in Pos : Good(p) /\ At(p).key = k /\ p[1] # dest}
        /\ \A p \in Pos : Original(p) <=> p[1] = v
    <3>1. Copying /\ v = Victim /\ Copied = BlockSize
      BY <1>a, <1>1, <1>11 DEF Copying, Victim, Copied
    <3>2. \A p \in Pos : Original(p) <=> p[1] = v
      BY <3>1, Positions, Numbers DEF Original
    <3> QED BY <3>1, <3>2, ItemsCopying
  <2>2. ASSUME NEW k \in Keys
        PROVE  /\ Single(k)' /\ Current(k)' = Current(k) /\ want[k] = Current(k)
               /\ \A p \in Items(k)' : At(p)'.val \in want[k]
               /\ Items(k)' = {} => NoVal \in want[k]
    <3>1. Single(k) /\ want[k] = Current(k)
      BY <1>2, <2>1 DEF Answering, NoReq
    <3>2. CASE \E q \in Pos : q[1] = dest /\ Good(q) /\ At(q).key = k
      <4>1. PICK q \in Pos : q[1] = dest /\ Good(q) /\ At(q).key = k
        BY <3>2
      <4>2. At(q) # Blank
        BY <4>1, SlotTypes DEF Good
      <4>3. PICK p \in Pos : p[1] = v /\ At(p) = At(q)
        BY <2>1, <4>1, <4>2 DEF Copies
      <4>4. Items(k) = {p}
        <5>1. p \in Items(k)
          BY <2>1, <4>1, <4>3 DEF Good
        <5> QED BY <3>1, <5>1 DEF Single
      <4>5. Items(k)' = {q}
        <5>1. q \in Items(k)'
          BY <1>4, <2>1, <4>1
        <5>2. ASSUME NEW r \in Items(k)' PROVE r = q
          <6>1. r \in Pos /\ r[1] # v /\ Good(r) /\ At(r).key = k /\ At(r) # Blank
            BY <1>4, <5>2, SlotTypes DEF Good
          <6>2. r[1] = dest
            <7>1. r[1] # dest => r \in Items(k)
              BY <2>1, <6>1
            <7> QED BY <4>3, <4>4, <6>1, <7>1
          <6> QED BY <2>1, <4>1, <4>2, <6>1, <6>2 DEF Copies
        <5> QED BY <5>1, <5>2
      <4>6. At(q)' = At(p)
        BY <1>1, <2>1, <4>1, <4>3
      <4>7. Single(k)' /\ Current(k)' = Current(k)
        BY <4>4, <4>5, <4>6 DEF Single, Current
      <4> QED BY <3>1, <4>4, <4>5, <4>6, <4>7 DEF Current
    <3>3. CASE ~\E q \in Pos : q[1] = dest /\ Good(q) /\ At(q).key = k
      <4>1. ASSUME NEW p \in Items(k), p[1] = v PROVE FALSE
        <5>1. p \in Pos /\ Good(p) /\ At(p).key = k
          BY DEF Items
        <5>2. PICK q \in Pos : q[1] = dest /\ At(q) = At(p)
          BY <2>1, <4>1, <5>1 DEF Copies, Good
        <5> QED BY <3>3, <5>1, <5>2 DEF Good
      <4>2. Items(k)' = Items(k)
        BY <1>4, <2>1, <3>3, <4>1
      <4>3. \A p \in Items(k) : At(p)' = At(p)
        BY <1>1, <4>1 DEF Items
      <4>4. Single(k)' /\ Current(k)' = Current(k)
        BY <3>1, <4>2, <4>3 DEF Single, Current
      <4>5. \A p \in Items(k)' : At(p)'.val \in want[k]
        BY <4>2, <4>3 DEF Wanted
      <4>6. Items(k)' = {} => NoVal \in want[k]
        BY <3>1, <4>2 DEF Current
      <4> QED BY <3>1, <4>4, <4>5, <4>6
    <3> QED BY <3>2, <3>3
  <2>3. Wanted'
    BY <1>10, <2>2 DEF Wanted, Single
  <2>4. Chosen'
    BY <1>3, <2>1 DEF Chosen
  <2>5. Answering'
    BY <1>1, <1>2, <1>3, <1>10, <2>1, <2>2 DEF Answering, NoReq
  <2> QED BY <1>1, <1>5, <1>6, <1>7, <1>8, <1>9, <2>3, <2>4, <2>5
<1>12. CASE back # "use"
  <2>1. ~Up /\ ~Up'
    BY <1>1, <1>2, <1>3, <1>12 DEF IInv, Frontier
  <2>2. ASSUME NEW k \in Keys
        PROVE  /\ Items(k)' \subseteq Items(k) /\ \A p \in Items(k)' : At(p)' = At(p)
               /\ Items(k)' = {} => Items(k) = {} \/ k \in exposed
    <3>1. CASE back = "next"
      <4>1. hdr[v] = "none" /\ Shadow = {}
        BY <1>a, <1>1, <3>1, NoShadow DEF Leftover
      <4>2. \A p \in Pos : p[1] = v => At(p) = Blank
        BY <1>1, <4>1, EmptyBlank DEF IInv, Chained
      <4>3. \A p \in Pos : p[1] = v => ~Good(p)
        BY <4>2, SlotTypes DEF Good
      <4>4. Items(k)' = Items(k)
        BY <1>4, <4>1, <4>3 DEF Items
      <4> QED BY <1>1, <4>2, <4>4 DEF Items
    <3>2. CASE back = "unclean"
      <4>1. Shadow \subseteq {v} /\ \A p \in Items(k) : p[1] = v => k \in exposed
        BY <1>a, <1>1, <3>2 DEF Leftover
      <4>2. Items(k)' = {p \in Items(k) : p[1] # v}
        BY <1>4, <4>1 DEF Items
      <4> QED BY <1>1, <4>1, <4>2 DEF Items
    <3> QED BY <1>2, <1>12, <3>1, <3>2
  <2>3. Wanted'
    BY <1>10, <2>1, <2>2 DEF Wanted
  <2>4. Chosen'
    BY <1>1, <1>3, <1>10, <2>1, <2>2 DEF Chosen
  <2>5. Answering'
    BY <1>1, <1>2, <1>3, <1>10, <2>1 DEF Answering
  <2> QED BY <1>1, <1>5, <1>6, <1>7, <1>8, <1>9, <2>3, <2>4, <2>5
<1> QED BY <1>11, <1>12

(* The header of an erased block is written.                               *)
LEMMA FormatData == ASSUME IInv, DataInv, Format PROVE DataInv'
<1> USE DEF DataInv
<1>a. PICK v : v = blk
  OBVIOUS
<1>1. /\ pc = "format" /\ v \in Blocks /\ hdr[v] = "none" /\ fill[v] = HdrSize
      /\ SetBlockState(v, "clean") /\ clean_blk_nums' = clean_blk_nums + 1
      /\ IF back = "next" THEN NextBlock(v) ELSE pc' = back /\ blk' = 0
      /\ UNCHANGED <<slot, fill, write_pos, gc_trigger, req, at, old, dest, unclean, back, history>>
      /\ back \in {"next", "unclean", "use"}
  BY <1>a DEF Format, IInv, Control, Chained, TypeOK, LocalType
<1>2. /\ \A b \in Blocks : hdr'[b] = IF b = v THEN "clean" ELSE hdr[b]
      /\ \A b \in Blocks : state'[b] = IF b = v THEN "clean" ELSE state[b]
  BY <1>1 DEF SetBlockState, IInv, TypeOK, FlashType, RamType
<1>3. Shadow = {} /\ Shadow' = {} /\ \A b \in Blocks : Filled(b)' <=> Filled(b)
  <2>1. Shadow = {}
    BY <1>1, NoShadow
  <2>2. (IInv /\ (\E b \in Blocks : hdr[b] = "none" \/ (hdr[b] = "clean" /\ fill[b] = HdrSize))
            => Shadow = {})'
    BY NoShadow, PTL
  <2>3. IInv'
    BY FormatStep
  <2>4. \A b \in Blocks : Filled(b)' <=> Filled(b)
    BY <1>1, <1>2 DEF Filled
  <2> QED BY <1>1, <1>2, <2>1, <2>2, <2>3, <2>4
<1>4. /\ \A p : At(p)' = At(p) /\ (Good(p)' <=> Good(p))
      /\ \A k : Items(k)' = Items(k) /\ Current(k)' = Current(k) /\ (Single(k)' <=> Single(k))
      /\ Disjoint'
  BY <1>1, <1>3, ItemsSame
<1>5. /\ (Up' <=> Up) /\ (Up <=> back = "use") /\ ~Copying' /\ ~Sweeping' /\ pc' \in {"probe", "unclean", "use"}
      /\ (pc' = "use" <=> back = "use") /\ (Collecting <=> back = "use")
      /\ (Collecting' <=> back = "use")
  <2>1. pc' \in {"probe", "unclean", "use"} /\ (pc' = "use" <=> back = "use")
    BY <1>1 DEF NextBlock
  <2>2. (Up <=> back = "use")
    BY <1>1 DEF IInv, Frontier, Control, Looping
  <2> QED BY <1>1, <2>1, <2>2 DEF Up, Copying, Sweeping, Collecting
<1>6. ASSUME NEW p \in Pos, At(p) # Blank, Passed(p)' PROVE Passed(p)
  <2> SUFFICES ASSUME Looping PROVE p[1] < v
    BY <1>a DEF Passed
  <2>1. back = "next"
    BY <1>1 DEF Looping
  <2>2. p[1] # v /\ p[1] \in Blocks
    BY <1>1, <1>6, EmptyBlank, Positions
  <2>3. CASE v + 1 < NBlocks
    <3>1. pc' = "probe" /\ blk' = v + 1
      BY <1>1, <2>1, <2>3 DEF NextBlock
    <3>2. p[1] < v + 1
      BY <1>6, <3>1 DEF Passed, Looping, Walking, Scanning
    <3> QED BY <1>1, <2>2, <3>2, Numbers
  <2>4. CASE ~(v + 1 < NBlocks)
    BY <1>1, <2>2, <2>4, Numbers
  <2> QED BY <2>3, <2>4
<1>7. NoTorn'
  <2>1. \A p \in Pos : At(p).state = "normal" => At(p) # Blank
    BY SlotTypes
  <2> QED BY <1>1, <1>4, <1>6, <2>1 DEF NoTorn
<1>8. UsedClean'
  <2> SUFFICES ASSUME NEW p \in Pos, Passed(p)', state'[p[1]] = "used", At(p) # Blank
               PROVE  At(p).state = "normal"
    BY <1>4 DEF UsedClean
  <2>1. p[1] \in Blocks
    BY Positions
  <2>2. state[p[1]] = "used" /\ Passed(p)
    BY <1>2, <1>6, <2>1
  <2> QED BY <1>1, <2>2 DEF UsedClean
<1>9. Trigger'
  <2>1. clean_blk_nums' \in Int /\ clean_blk_nums \in Int
    BY <1>1, Numbers DEF IInv, TypeOK, RamType
  <2>2. ASSUME back = "use" PROVE clean_blk_nums >= 1
    <3>1. dest \in Counted
      BY <1>1, <1>5, <2>2 DEF IInv, Control, Frontier, Counted, TypeOK, LocalType, Looping
    <3> QED BY <3>1, CountSome
  <2> QED BY <1>1, <1>5, <2>1, <2>2, Numbers DEF Trigger
<1>10. Spare'
  <2>1. clean_blk_nums' >= 1
    BY <1>1, Numbers DEF IInv, TypeOK, RamType
  <2> QED BY <1>1, <1>2, <2>1, Numbers DEF Spare
<1>11. Leftover'
  <2>1. \A b \in unclean : b \in Blocks
    BY DEF IInv, TypeOK, LocalType
  <2> QED BY <1>1, <1>3, <1>5, <2>1 DEF Leftover
<1>12. Copies'
  BY <1>1, <1>5 DEF Copies
<1>13. Wanted'
  BY <1>1, <1>4, <1>5 DEF Wanted, history
<1>14. Chosen'
  <2>1. ASSUME NEW k \in Keys, NEW p \in Items(k), Passed(p)' PROVE Passed(p)
    <3>1. p \in Pos /\ At(p) # Blank
      BY SlotTypes DEF Items, Good
    <3> QED BY <1>6, <2>1, <3>1
  <2> QED BY <1>1, <1>3, <1>4, <1>5, <2>1 DEF Chosen
<1>15. Answering'
  <2>1. req = NoReq /\ req' = NoReq /\ lost' = {}
    BY <1>1, <1>5 DEF Answering, history
  <2> QED BY <1>1, <1>4, <1>5, <2>1 DEF Answering, NoReq, history
<1> QED BY <1>4, <1>7, <1>8, <1>9, <1>10, <1>11, <1>12, <1>13, <1>14, <1>15

-----------------------------------------------------------------------------
(* kv_gc, and kv_init up to its return. *)

(* GC has one clean block to copy to, and has copied nothing yet.          *)
LEMMA GcBeginData == ASSUME IInv, DataInv, GcBegin PROVE DataInv'
<1> USE DEF DataInv
<1>1. /\ pc = "idle" /\ gc_trigger = 1 /\ pc' = "copy" /\ exposed' = {} /\ lost' = {}
      /\ UNCHANGED <<hdr, slot, fill, state, space, clean_blk_nums, gc_trigger,
                     req, old, blk, unclean, back, want>>
  BY DEF GcBegin, flash
<1>2. PICK d \in Blocks, v \in Blocks :
          state[d] = "clean" /\ dest' = d /\ write_pos' = <<d, HdrSize>> /\ at' = <<v, HdrSize>>
  BY DEF GcBegin, InState
<1>3. Up /\ ~Looping /\ ~Collecting /\ unclean = {} /\ Up' /\ ~Looping' /\ Collecting' /\ ~Sweeping'
  <2>1. Up'
    BY <1>2, Numbers DEF Up
  <2> QED BY <1>1, <2>1, IdleUp DEF Looping, Collecting, Sweeping
<1>4. /\ Shadow' = Shadow /\ \A b : Filled(b)' <=> Filled(b)
      /\ \A p : At(p)' = At(p) /\ (Good(p)' <=> Good(p))
      /\ \A k : Items(k)' = Items(k) /\ Current(k)' = Current(k) /\ (Single(k)' <=> Single(k))
      /\ Disjoint'
  BY <1>1, ShadowSame, ItemsSame
<1>5. hdr[d] = "clean" /\ fill[d] = HdrSize /\ \A b \in Blocks \ {d} : hdr[b] \in {"used", "dirty"}
  <2>1. \A b \in Blocks : state[b] = "clean" => b \in Counted
    BY <1>1, <1>3 DEF Counted
  <2>2. hdr[d] = "clean" /\ fill[d] = HdrSize
    BY <1>2, <1>3, <2>1, CountedErased
  <2>3. ~(clean_blk_nums >= 2)
    BY <1>1 DEF Trigger, Reserved, IInv, TypeOK, RamType
  <2>4. ASSUME NEW b \in Blocks \ {d} PROVE hdr[b] \in {"used", "dirty"}
    <3>1. state[b] # "clean"
      BY <1>2, <2>1, <2>3, CountTwo
    <3> QED BY <1>1, <1>3, <3>1, StateHdr
  <2> QED BY <2>2, <2>4
<1>6. \A p \in Pos : p[1] = d => At(p) = Blank
  BY <1>5, EmptyBlank
<1>7. \A p \in Pos : ~Original(p)'
  <2> SUFFICES ASSUME NEW p \in Pos PROVE ~(p[2] < HdrSize)
    BY <1>1, <1>2 DEF Original, Copied
  <2> QED BY Positions, Numbers
<1>8. Copies'
  <2>1. \A o \in Offsets : slot'[dest'][o] = Blank
    <3> TAKE o \in Offsets
    <3>1. <<d, o>> \in Pos
      BY DEF Pos
    <3> QED BY <1>1, <1>2, <1>6, <3>1 DEF At
  <2> QED BY <1>1, <1>2, <1>4, <1>5, <1>6, <1>7, <2>1 DEF Copies
<1>9. NoTorn' /\ UsedClean'
  BY <1>1, <1>3, <1>4 DEF NoTorn, UsedClean, Passed
<1>10. Spare' /\ Trigger' /\ Leftover' /\ Chosen'
  BY <1>1, <1>3, <1>4 DEF Spare, Trigger, Leftover, Chosen
<1>11. Wanted'
  BY <1>1, <1>3, <1>4 DEF Wanted
<1>12. Answering'
  BY <1>1, <1>3, <1>4 DEF Answering, NoReq
<1> QED BY <1>4, <1>8, <1>9, <1>10, <1>11, <1>12

(* The block GC copied to is taken into use.                               *)
LEMMA GcUseData == ASSUME IInv, DataInv, GcUse PROVE DataInv'
<1> USE DEF DataInv
<1>a. PICK d : d = dest
  OBVIOUS
<1>1. /\ pc = "use" /\ pc' = "idle" /\ SetBlockState(d, "used") /\ d \in Blocks
      /\ clean_blk_nums' = clean_blk_nums - 1 /\ gc_trigger' = 0
      /\ UNCHANGED <<slot, fill, space, write_pos, req, at, old, blk, unclean,
                     want, reply, exposed, lost>>
  BY <1>a DEF GcUse, history, IInv, TypeOK, LocalType
<1>2. /\ \A b \in Blocks : hdr'[b] = IF b = d THEN "used" ELSE hdr[b]
      /\ \A b \in Blocks : state'[b] = IF b = d THEN "used" ELSE state[b]
  BY <1>1 DEF SetBlockState, IInv, TypeOK, FlashType, RamType
<1>3. /\ Up /\ Up' /\ ~Looping /\ ~Looping' /\ Collecting /\ ~Collecting' /\ ~Copying /\ ~Copying'
      /\ ~Sweeping' /\ unclean = {}
  <2>1. /\ ~Looping /\ ~Looping' /\ Collecting /\ ~Collecting' /\ ~Copying /\ ~Copying'
        /\ ~Sweeping'
    BY <1>1 DEF Looping, Collecting, Copying, Sweeping
  <2>2. Up
    BY <1>1, <2>1 DEF IInv, Control
  <2> QED BY <1>1, <2>1, <2>2 DEF Up, IInv, Frontier
<1>4. IInv' /\ Trigger'
  BY <1>1, <1>3, GcUseStep DEF Trigger
<1>5. Shadow = {} /\ Shadow' = {} /\ \A b \in Blocks : Filled(b)' => Filled(b)
  <2>1. Shadow = {}
    BY <1>3, ShadowUp
  <2>2. (IInv /\ Trigger /\ Up /\ ~Copying => Shadow = {})'
    BY ShadowUp, PTL
  <2> QED BY <1>1, <1>2, <1>3, <1>4, <2>1, <2>2 DEF Filled
<1>6. /\ \A p : At(p)' = At(p) /\ (Good(p)' <=> Good(p))
      /\ \A k : Items(k)' = Items(k) /\ Current(k)' = Current(k) /\ (Single(k)' <=> Single(k))
      /\ Disjoint'
  BY <1>1, <1>5, ItemsSame
<1>7. Spare'
  <2>1. clean_blk_nums' >= 1
    BY <1>1 DEF Trigger, Reserved, IInv, TypeOK, RamType
  <2>2. (IInv /\ clean_blk_nums >= 1 => \E b \in Blocks : hdr[b] \in {"none", "clean"})'
    BY SpareCount, PTL
  <2> QED BY <1>4, <2>1, <2>2 DEF Spare, Reserved
<1>8. NoTorn'
  BY <1>1, <1>3, <1>6 DEF NoTorn, Passed
<1>9. UsedClean'
  <2> SUFFICES ASSUME NEW p \in Pos, state'[p[1]] = "used"
               PROVE  At(p) = Blank \/ At(p).state = "normal"
    BY <1>6 DEF UsedClean
  <2>1. p[1] \in Blocks /\ p[2] \in Offsets /\ At(p) = slot[p[1]][p[2]]
    BY Positions
  <2>2. CASE p[1] = d
    BY <1>3, <1>a, <2>1, <2>2 DEF Copies
  <2>3. CASE p[1] # d
    BY <1>1, <1>2, <1>3, <2>1, <2>3 DEF UsedClean, Passed
  <2> QED BY <2>2, <2>3
<1>10. Leftover' /\ Copies' /\ Chosen'
  BY <1>1, <1>3, <1>5 DEF Leftover, Copies, Chosen
<1>11. Wanted'
  BY <1>1, <1>3, <1>6 DEF Wanted
<1>12. Answering'
  BY <1>1, <1>3, <1>6 DEF Answering, NoReq
<1> QED BY <1>4, <1>6, <1>7, <1>8, <1>9, <1>10, <1>11, <1>12

(* A step of kv_init_internal that leaves the flash alone.                 *)
LEMMA BootKeeps ==
  ASSUME IInv, DataInv, ~Up, UNCHANGED <<flash, clean_blk_nums, write_pos, gc_trigger, req, want, lost>>,
         exposed \subseteq exposed', pc \in Booting, pc' \in {"erase", "scan"},
         pc' = "erase" => back' # "use", unclean' \subseteq unclean,
         \A p \in Pos : Passed(p)' => Passed(p),
         \A p \in Pos : Passed(p)' /\ state'[p[1]] = "used" => state[p[1]] = "used",
         pc' = "erase" /\ back' = "next" => hdr[blk'] = "none",
         pc' = "erase" /\ back' = "unclean" =>
            /\ Shadow \subseteq {blk'}
            /\ \A k \in Keys : \A p \in Items(k) : p[1] = blk' => k \in exposed'
  PROVE  DataInv'
<1> USE DEF DataInv
<1>1. /\ Shadow' = Shadow /\ \A b : Filled(b)' <=> Filled(b)
      /\ \A p : At(p)' = At(p) /\ (Good(p)' <=> Good(p))
      /\ \A k : Items(k)' = Items(k)
      /\ Disjoint'
  BY ShadowSame, ItemsSame DEF flash
<1>2. ~Up' /\ ~Collecting' /\ ~Copying' /\ ~Sweeping' /\ pc \notin {"idle", "spin", "mark", "del", "use"}
  BY DEF Up, Collecting, Copying, Sweeping, Booting
<1>3. NoTorn'
  BY <1>1, <1>2 DEF NoTorn
<1>4. UsedClean'
  BY <1>1, <1>2 DEF UsedClean
<1>5. Spare' /\ Trigger' /\ Copies'
  BY <1>2 DEF Spare, Trigger, Copies, flash
<1>6. Leftover'
  BY <1>1, <1>2 DEF Leftover, flash
<1>7. Wanted'
  BY <1>1, <1>2 DEF Wanted
<1>8. Chosen'
  <2>1. \A k \in Keys : Items(k) \subseteq Pos
    BY DEF Items
  <2> QED BY <1>1, <1>2, <2>1 DEF Chosen
<1>9. Answering'
  BY <1>2 DEF Answering
<1> QED BY <1>1, <1>3, <1>4, <1>5, <1>6, <1>7, <1>8, <1>9

(* A block with a header is scanned from its start; one without is erased. *)
LEMMA ProbeData == ASSUME IInv, DataInv, Probe PROVE DataInv'
<1>1. pc = "probe" /\ Looping /\ ~Walking /\ ~Up /\ blk \in Blocks
  BY DEF Probe, Looping, Walking, Scanning, IInv, TypeOK, LocalType, Frontier
<1>2. CASE hdr[blk] = "none"
  <2>1. /\ pc' = "erase" /\ blk' = blk /\ back' = "next" /\ Looping'
        /\ UNCHANGED <<flash, ram, req, want, lost, unclean, exposed>>
    BY <1>2 DEF Probe, StartFormat, Looping
  <2>2. ~Walking'
    BY <2>1 DEF Walking, Scanning
  <2>3. \A p \in Pos : Passed(p)' => Passed(p)
    BY <1>1, <2>1, <2>2 DEF Passed
  <2> QED BY <1>1, <1>2, <2>1, <2>3, BootKeeps DEF Booting, ram
<1>3. CASE hdr[blk] # "none"
  <2>1. /\ state' = [state EXCEPT ![blk] = hdr[blk]]
        /\ at' = <<blk, HdrSize>> /\ pc' = "scan"
        /\ UNCHANGED <<flash, space, clean_blk_nums, write_pos, gc_trigger,
                       req, old, blk, dest, unclean, back, want, reply, exposed, lost>>
    BY <1>3 DEF Probe, history
  <2>2. ASSUME NEW p \in Pos, Passed(p)' PROVE p[1] < blk /\ Passed(p)
    <3>1. Looping' /\ Walking'
      BY <2>1 DEF Looping, Walking, Scanning
    <3>2. ~(p[2] < HdrSize)
      BY Positions, Numbers
    <3> QED BY <2>1, <2>2, <3>1, <3>2, <1>1 DEF Passed
  <2>3. \A p \in Pos : Passed(p)' => state'[p[1]] = state[p[1]]
    <3> SUFFICES ASSUME NEW p \in Pos, p[1] < blk PROVE state'[p[1]] = state[p[1]]
      BY <2>2
    <3>1. p[1] # blk /\ p[1] \in Blocks
      BY <1>1, Positions, Numbers
    <3> QED BY <2>1, <3>1 DEF IInv, TypeOK, RamType
  <2> QED BY <1>1, <2>1, <2>2, <2>3, BootKeeps DEF Booting
<1> QED BY <1>2, <1>3

(* Before kv_init_internal comes to the blocks a GC has left, RAM knows the *)
(* state of every block.                                                   *)
LEMMA UncleanBlocks ==
  ASSUME IInv, DataInv, pc = "unclean"
  PROVE  /\ ~Up /\ ~Looping /\ ~Collecting
         /\ \A b \in Blocks : /\ state[b] = hdr[b] /\ hdr[b] \in {"clean", "used", "dirty"}
                              /\ hdr[b] = "clean" => b \in unclean \/ b \in Counted
<1>1. ~Up /\ ~Looping /\ ~Collecting
  BY DEF IInv, Frontier, Looping, Collecting
<1>2. \A b \in Blocks : state[b] = hdr[b] /\ hdr[b] \in {"clean", "used", "dirty"}
  BY <1>1, StateHdr
<1> QED BY <1>1, <1>2 DEF Counted

(* With no clean block left, what a GC had copied is thrown away.          *)
LEMMA UncleanFormatData == ASSUME IInv, DataInv, UncleanFormat PROVE DataInv'
<1>1. PICK b \in unclean : StartFormat(b, "unclean") /\ unclean' = unclean \ {b}
  BY DEF UncleanFormat
<1>2. /\ pc = "unclean" /\ pc' = "erase" /\ blk' = b /\ back' = "unclean" /\ clean_blk_nums < Reserved
      /\ UNCHANGED <<flash, ram, req, at, old, dest, want, reply, lost, exposed>>
  BY <1>1 DEF UncleanFormat, StartFormat
<1>3. ~Up /\ ~Looping /\ b \in Blocks /\ Filled(b)
  BY <1>1, <1>2, UncleanBlocks DEF DataInv, Leftover, IInv, TypeOK, LocalType
<1>4. Counted = {}
  BY <1>2, CountNone DEF Reserved, IInv, TypeOK, RamType
<1>5. \A c \in Blocks \ {b} : hdr[c] \in {"used", "dirty"}
  <2> TAKE c \in Blocks \ {b}
  <2>1. hdr[c] = "clean" => c \in unclean
    BY <1>2, <1>4, UncleanBlocks
  <2> QED BY <1>2, <1>3, <2>1, UncleanBlocks DEF DataInv, Leftover
<1>6. Shadow = {b}
  BY <1>3, <1>5 DEF Shadow, Filled
<1>7. \A k : \A p \in Items(k) : p[1] # b
  BY <1>6 DEF Items
<1>8. \A p \in Pos : Passed(p)' => Passed(p)
  BY <1>3 DEF Passed
<1> QED BY <1>1, <1>2, <1>3, <1>6, <1>7, <1>8, BootKeeps DEF Booting, ram

(* No block is clean, and block 0 is about to be, whatever it holds.       *)
LEMMA FormatZeroData == ASSUME IInv, DataInv, FormatZero PROVE DataInv'
<1>1. /\ pc = "unclean" /\ unclean = {} /\ unclean' = {} /\ pc' = "erase" /\ blk' = 0
      /\ back' = "unclean" /\ UNCHANGED <<flash, ram, req, at, old, dest, want, reply, lost>>
      /\ exposed' = exposed \cup {k \in Keys : \E p \in Live(k) : p[1] = 0}
  BY DEF FormatZero, StartFormat
<1>2. ~Up /\ ~Looping /\ ~Collecting
  BY <1>1, UncleanBlocks
<1>3. Shadow = {} /\ \A k : Live(k) = Items(k)
  BY <1>1, <1>2, LiveIsItems DEF DataInv
<1>4. \A p \in Pos : Passed(p)' => Passed(p)
  BY <1>2 DEF Passed
<1> QED BY <1>1, <1>2, <1>3, <1>4, BootKeeps DEF Booting, ram

(* What a GC had copied has its own place, as the victim was erased.       *)
LEMMA UncleanDirtyData == ASSUME IInv, DataInv, UncleanDirty PROVE DataInv'
<1> USE DEF DataInv
<1>a. (IInv /\ (\E b \in Blocks : hdr[b] = "none" \/ (hdr[b] = "clean" /\ fill[b] = HdrSize))
            => Shadow = {})'
  BY NoShadow, PTL
<1>1. PICK u \in unclean : SetBlockState(u, "dirty") /\ unclean' = unclean \ {u}
  BY DEF UncleanDirty
<1>2. /\ pc = "unclean" /\ pc' = pc /\ clean_blk_nums >= Reserved /\ u \in Blocks
      /\ UNCHANGED <<slot, fill, space, clean_blk_nums, write_pos, gc_trigger,
                     pc, req, at, old, blk, dest, back, want, reply, exposed, lost>>
  BY DEF UncleanDirty, history, IInv, TypeOK, LocalType
<1>3. /\ ~Up /\ ~Up' /\ ~Looping /\ ~Looping' /\ ~Collecting /\ ~Collecting' /\ ~Copying'
      /\ ~Sweeping'
  BY <1>2, UncleanBlocks DEF Up, Looping, Collecting, Copying, Sweeping
<1>4. /\ \A c \in Blocks : hdr'[c] = IF c = u THEN "dirty" ELSE hdr[c]
      /\ \A c \in Blocks : state'[c] = IF c = u THEN "dirty" ELSE state[c]
  BY <1>1, <1>2 DEF SetBlockState, IInv, TypeOK, FlashType, RamType
<1>5. PICK c \in Counted : c # u /\ c \in Blocks /\ hdr[c] = "clean" /\ fill[c] = HdrSize
  <2>1. PICK c \in Counted : TRUE
    BY <1>2, CountOne DEF Reserved
  <2>2. c # u
    BY <1>1, <2>1 DEF Counted
  <2> QED BY <1>3, <2>1, <2>2, CountedErased
<1>6. Shadow = {} /\ Shadow' = {} /\ \A b \in Blocks : Filled(b)' <=> Filled(b) /\ b # u
  <2>1. Shadow = {}
    BY <1>5, NoShadow
  <2>2. IInv' /\ hdr'[c] = "clean" /\ fill'[c] = HdrSize
    BY <1>2, <1>4, <1>5, UncleanDirtyStep
  <2>3. \A b \in Blocks : Filled(b)' <=> Filled(b) /\ b # u
    BY <1>2, <1>4 DEF Filled
  <2> QED BY <1>5, <1>a, <2>1, <2>2, <2>3
<1>7. /\ \A p : At(p)' = At(p) /\ (Good(p)' <=> Good(p))
      /\ \A k : Items(k)' = Items(k)
      /\ Disjoint'
  BY <1>2, <1>6, ItemsSame
<1>8. Spare'
  BY <1>3, <1>4, <1>5 DEF Spare
<1>9. NoTorn'
  BY <1>2, <1>3, <1>7 DEF NoTorn, Passed
<1>10. UsedClean'
  <2> SUFFICES ASSUME NEW p \in Pos, state'[p[1]] = "used"
               PROVE  At(p) = Blank \/ At(p).state = "normal"
    BY <1>7 DEF UsedClean
  <2>1. state[p[1]] = "used"
    BY <1>4, Positions
  <2> QED BY <1>2, <1>3, <2>1 DEF UsedClean, Passed
<1>11. Trigger' /\ Copies'
  BY <1>2, <1>3 DEF Trigger, Copies
<1>12. Leftover'
  <2>1. \A b \in unclean' : b \in unclean /\ b \in Blocks /\ b # u
    BY <1>1 DEF IInv, TypeOK, LocalType
  <2> QED BY <1>2, <1>6, <2>1 DEF Leftover
<1>13. Wanted'
  BY <1>2, <1>3, <1>7 DEF Wanted
<1>14. Chosen'
  BY <1>2, <1>3, <1>6, <1>7 DEF Chosen, Passed
<1>15. Answering'
  BY <1>2, <1>3 DEF Answering
<1> QED BY <1>7, <1>8, <1>9, <1>10, <1>11, <1>12, <1>13, <1>14, <1>15

-----------------------------------------------------------------------------
(* The return of kv_init. *)

(* Where a key has one item, and no clean block one, readers see it.       *)
LEMMA ReadsCurrent ==
  ASSUME IInv, NEW k, Live(k) = Items(k), Single(k) PROVE Read(k) = Current(k)
<1>1. CASE Items(k) = {}
  BY <1>1 DEF Read, Current
<1>2. CASE Items(k) # {}
  <2>1. PICK p \in Items(k) : TRUE
    BY <1>2
  <2>2. Live(k) = {p} /\ p \in Pos
    BY <2>1 DEF Single, Items
  <2>3. p[1] = p[1] /\ p[2] <= p[2]
    BY <2>2, Positions
  <2>4. kv_item_search(k) = {p}
    BY <2>2, <2>3 DEF kv_item_search, Before
  <2> QED BY <1>2, <2>2, <2>4 DEF Read, Current
<1> QED BY <1>1, <1>2

(* kv_init returns: what it found is what the clients rely on from now on. *)
LEMMA InitDoneData ==
  ASSUME IInv, DataInv, IInv', pc = "unclean", unclean = {}, InitDone, Up',
         clean_blk_nums' >= 1, Shadow' = {}, \A b \in Blocks : Filled(b)' => Filled(b),
         \A p \in Pos : state'[p[1]] = "used" => state[p[1]] = "used" \/ At(p) = Blank
  PROVE  DataInv'
<1> USE DEF DataInv
<1>1. (IInv /\ clean_blk_nums >= 1 => \E b \in Blocks : hdr[b] \in {"none", "clean"})'
  BY SpareCount, PTL
<1>2. /\ pc' = "idle" /\ lost' = {k \in Keys : ~(Read(k) \subseteq want[k])}
      /\ want' = [k \in Keys |-> Read(k)] /\ (gc_trigger' = 1 => clean_blk_nums' < Reserved + 1)
      /\ UNCHANGED <<slot, fill, space, req, at, old, blk, dest, unclean, reply, exposed>>
  BY DEF InitDone
<1>3. /\ ~Up /\ ~Looping /\ ~Looping' /\ ~Collecting /\ ~Collecting' /\ ~Copying' /\ ~Sweeping'
      /\ req = NoReq
  <2>1. ~Up /\ ~Looping /\ ~Collecting
    BY UncleanBlocks
  <2> QED BY <1>2, <2>1 DEF Looping, Collecting, Copying, Sweeping, Answering
<1>4. Shadow = {} /\ \A k : Live(k) = Items(k)
  BY <1>3, LiveIsItems
<1>5. /\ \A p : At(p)' = At(p) /\ (Good(p)' <=> Good(p))
      /\ \A k : Items(k)' = Items(k) /\ Current(k)' = Current(k) /\ (Single(k)' <=> Single(k))
      /\ Disjoint'
  BY <1>2, <1>4, ItemsSame
<1>6. \A k \in Keys : Single(k)
  <2>1. \A p \in Pos : Passed(p)
    BY <1>3 DEF Passed
  <2>2. \A k : Items(k) \subseteq Pos
    BY DEF Items
  <2> QED BY <1>3, <2>1, <2>2 DEF Wanted, Chosen, Single
<1>7. \A k \in Keys : want'[k] = Current(k)
  BY <1>2, <1>4, <1>6, ReadsCurrent
<1>8. ASSUME NEW k \in lost' PROVE k \in exposed /\ Current(k) = {NoVal}
  <2>1. k \in Keys /\ ~(Current(k) \subseteq want[k])
    BY <1>2, <1>4, <1>6, <1>8, ReadsCurrent
  <2>2. Items(k) = {}
    BY <2>1 DEF Wanted, Current
  <2> QED BY <1>3, <2>1, <2>2 DEF Wanted, Current
<1>9. Spare'
  BY <1>1 DEF Spare, Reserved
<1>10. NoTorn'
  BY <1>2, <1>3, <1>5 DEF NoTorn, Passed
<1>11. UsedClean'
  BY <1>3, <1>5 DEF UsedClean, Passed
<1>12. Trigger'
  <2>1. clean_blk_nums' \in Int
    BY Numbers DEF IInv, TypeOK, RamType
  <2> QED BY <1>2, <2>1 DEF Trigger, Reserved
<1>13. Leftover' /\ Copies' /\ Chosen'
  BY <1>2, <1>3 DEF Leftover, Copies, Chosen
<1>14. Wanted'
  <2> SUFFICES ASSUME NEW k \in Keys
               PROVE  /\ \A p \in Items(k)' : At(p)'.val \in want'[k]
                      /\ Items(k)' = {} => NoVal \in want'[k]
                      /\ \A p, q \in Items(k)' : p = q
    BY DEF Wanted
  <2>1. want'[k] = IF Items(k) = {} THEN {NoVal} ELSE {At(p).val : p \in Items(k)}
    BY <1>7 DEF Current
  <2>2. \A p, q \in Items(k) : p = q
    BY <1>6 DEF Single
  <2> QED BY <1>5, <2>1, <2>2
<1>15. Answering'
  <2>1. \A k \in Keys : Single(k)' /\ want'[k] = Current(k)'
    BY <1>5, <1>6, <1>7
  <2>2. \A k \in lost' : k \in exposed' /\ want'[k] = {NoVal}
    BY <1>2, <1>7, <1>8
  <2> QED BY <1>2, <1>3, <2>1, <2>2 DEF Answering, NoReq
<1> QED BY <1>5, <1>9, <1>10, <1>11, <1>12, <1>13, <1>14, <1>15

(* A store that was never written.                                         *)
LEMMA FirstUseData == ASSUME IInv, DataInv, FirstUse PROVE DataInv'
<1>1. /\ pc = "unclean" /\ unclean = {} /\ clean_blk_nums = NBlocks /\ write_pos' = <<0, HdrSize>>
      /\ SetBlockState(0, "used") /\ clean_blk_nums' = clean_blk_nums - 1 /\ InitDone
  BY DEF FirstUse
<1>2. UNCHANGED <<slot, fill>>
  BY <1>1 DEF InitDone
<1>3. ~Up /\ ~Looping /\ ~Collecting
  BY <1>1, UncleanBlocks
<1>4. Counted = Blocks
  BY <1>1, BlockCount DEF IInv, CleanCount, Counted
<1>5. \A b \in Blocks : fill[b] = HdrSize
  BY <1>3, <1>4, CountedErased
<1>6. \A p \in Pos : At(p) = Blank
  BY <1>5, EmptyBlank, Positions
<1>7. IInv' /\ Up' /\ clean_blk_nums' >= 1
  BY <1>1, FirstUseStep, Numbers DEF Up
<1>8. Shadow' = {} /\ \A b \in Blocks : ~Filled(b)'
  BY <1>2, <1>5 DEF Shadow, Filled
<1> QED BY <1>1, <1>6, <1>7, <1>8, InitDoneData

(* A store that was: recovery has left one item of each key.               *)
LEMMA ReopenData == ASSUME IInv, DataInv, Reopen PROVE DataInv'
<1>1. /\ pc = "unclean" /\ unclean = {} /\ clean_blk_nums \in 1..(NBlocks - 1) /\ InitDone
      /\ UNCHANGED <<hdr, state, clean_blk_nums>>
  BY DEF Reopen, KeepBlockState
<1>2. UNCHANGED <<slot, fill>>
  BY <1>1 DEF InitDone
<1>3. ~Up /\ ~Looping /\ ~Collecting
  BY <1>1, UncleanBlocks
<1>4. IInv' /\ Up'
  <2>1. IInv' /\ pc' = "idle"
    BY <1>1, ReopenStep DEF InitDone
  <2>2. ~Looping'
    BY <2>1 DEF Looping
  <2> QED BY <2>1, <2>2 DEF IInv, Control
<1>5. Shadow' = {} /\ \A b \in Blocks : Filled(b)' <=> Filled(b)
  <2>1. Shadow = {}
    BY <1>1, <1>3, LiveIsItems DEF DataInv
  <2> QED BY <1>1, <1>2, <2>1, ShadowSame
<1>6. clean_blk_nums' >= 1
  BY <1>1, Numbers
<1> QED BY <1>1, <1>4, <1>5, <1>6, InitDoneData

-----------------------------------------------------------------------------
(* Power failure, and the first start. *)

(* An item cut short does not pass its checksum.                           *)
LEMMA TornBad ==
  ASSUME NEW s \in Item, NEW t \in Torn(s)
  PROVE  t \in Item \cup {Junk} /\ ~(t.state = "normal" /\ t.crc = "good") /\ Len(t) <= Len(s)
<1>1. CASE t = Junk
  BY <1>1, SlotTypes, Numbers
<1>2. CASE t = [s EXCEPT !.crc = "bad"]
  <2>1. t \in Item /\ t.key = s.key /\ t.val = s.val /\ t.crc = "bad"
    BY <1>2 DEF Item
  <2> QED BY <2>1, SlotTypes, Numbers
<1> QED BY <1>1, <1>2 DEF Torn

(* What a write cut short leaves of the items that were there.             *)
LEMMA TornData ==
  ASSUME IInv, Disjoint, NEW w \in Pos, NEW s \in Item, NEW t \in Torn(s), Program(w, t),
         w[2] = fill[w[1]], hdr[w[1]] # "none", w[2] + Len(s) < BlockSize
  PROVE  /\ hdr' = hdr /\ Disjoint'
         /\ \A q \in Pos : (Good(q)' <=> Good(q)) /\ (Good(q) => At(q)' = At(q))
         /\ \A b \in Blocks : b # w[1] => fill'[b] = fill[b]
<1>1. t \in Item \cup {Junk} /\ ~(t.state = "normal" /\ t.crc = "good") /\ Len(t) <= Len(s)
  BY TornBad
<1>2. w[2] + Len(t) < BlockSize
  <2>1. w[2] \in Int /\ Len(t) \in Int /\ Len(s) \in Int
    BY <1>1, SlotTypes, Numbers DEF Pos
  <2> QED BY <1>1, <2>1, Numbers
<1>3. /\ Disjoint' /\ hdr' = hdr /\ At(w) = Blank /\ At(w)' = t
      /\ \A q \in Pos : q # w => At(q)' = At(q)
      /\ \A b \in Blocks : b # w[1] => fill'[b] = fill[b]
  BY <1>1, <1>2, ProgramDisjoint
<1>4. ~Good(w) /\ ~Good(w)'
  BY <1>1, <1>3, SlotTypes DEF Good
<1>5. ASSUME NEW q \in Pos PROVE (Good(q)' <=> Good(q)) /\ (Good(q) => At(q)' = At(q))
  BY <1>3, <1>4 DEF Good
<1> QED BY <1>3, <1>5

(* What a power failure leaves of the flash.                               *)
LEMMA CrashItems ==
  ASSUME IInv, Disjoint, Crash
  PROVE  /\ hdr' = hdr /\ Disjoint'
         /\ \A q \in Pos : (Good(q)' <=> Good(q)) /\ (Good(q) => At(q)' = At(q))
         /\ \A b \in Blocks : \/ fill'[b] = fill[b]
                              \/ pc = "store" /\ b = write_pos[1]
                              \/ pc = "copy" /\ b = write_pos[1]
<1>1. CASE UNCHANGED flash
  BY <1>1 DEF flash, Good, At, Disjoint
<1>2. CASE pc = "store" /\ \E k \in req.keys : \E s \in Torn(NewItem(k)) :
              Program(write_pos, s)
  <2>1. PICK k \in req.keys : \E s \in Torn(NewItem(k)) : Program(write_pos, s)
    BY <1>2
  <2>2. PICK t \in Torn(NewItem(k)) : Program(write_pos, t)
    BY <2>1
  <2>3. PICK w \in Pos, s \in Item : w = write_pos /\ s = NewItem(k)
    BY <1>2, StoreFits
  <2>4. w[2] = fill[w[1]] /\ hdr[w[1]] # "none" /\ w[2] + Len(s) < BlockSize
    BY <2>3, <1>2, StoreFits
  <2>5. /\ hdr' = hdr /\ Disjoint' /\ \A b \in Blocks : b # w[1] => fill'[b] = fill[b]
        /\ \A q \in Pos : (Good(q)' <=> Good(q)) /\ (Good(q) => At(q)' = At(q))
    BY <2>2, <2>3, <2>4, TornData
  <2> QED BY <1>2, <2>3, <2>5
<1>3. CASE pc = "copy" /\ OnItem /\ \E s \in Torn(Cursor) : Program(write_pos, s)
  <2>1. PICK t \in Torn(Cursor) : Program(write_pos, t)
    BY <1>3
  <2>2. PICK w \in Pos, s \in Item : w = write_pos /\ s = Cursor
    BY <1>3, CopyFits
  <2>3. w[2] = fill[w[1]] /\ hdr[w[1]] # "none" /\ w[2] + Len(s) < BlockSize
    BY <2>2, <1>3, CopyFits
  <2>4. /\ hdr' = hdr /\ Disjoint' /\ \A b \in Blocks : b # w[1] => fill'[b] = fill[b]
        /\ \A q \in Pos : (Good(q)' <=> Good(q)) /\ (Good(q) => At(q)' = At(q))
    BY <2>1, <2>2, <2>3, TornData
  <2> QED BY <1>3, <2>2, <2>4
<1> QED BY <1>1, <1>2, <1>3 DEF Crash

(* Power fails. Where GC was copying, the victim still has every item that *)
(* counts; an item of its copy that names an item that counts names the    *)
(* original as its own origin, and its key is exposed.                     *)
LEMMA CrashData == ASSUME IInv, DataInv, Crash PROVE DataInv'
<1> USE DEF DataInv
<1>a. (IInv => \A d \in Blocks :
        hdr[d] = "clean" /\ (\A c \in Blocks \ {d} : hdr[c] \in {"used", "dirty"}) =>
            /\ Shadow \subseteq {d}
            /\ \A k : Items(k) = {p \in Pos : Good(p) /\ At(p).key = k /\ p[1] # d})'
  BY ItemsOutside, PTL
<1>1. /\ gc_trigger' = 0 /\ pc' = "probe" /\ req' = NoReq /\ at' = NoPos /\ old' = NoPos
      /\ blk' = 0 /\ dest' = 0 /\ unclean' = {} /\ back' = "reply"
      /\ lost' = {} /\ want' = want /\ write_pos' = NoPos
  BY DEF Crash
<1>2. /\ ~Up' /\ Looping' /\ ~Walking' /\ ~Collecting' /\ ~Copying' /\ ~Sweeping'
      /\ \A p \in Pos : ~Passed(p)'
  <2>1. /\ ~Up' /\ Looping' /\ ~Walking' /\ ~Collecting' /\ ~Copying' /\ ~Sweeping'
    BY <1>1 DEF Up, Looping, Walking, Scanning, Collecting, Copying, Sweeping
  <2>2. \A p \in Pos : ~(p[1] < 0)
    BY Positions, Numbers
  <2> QED BY <1>1, <2>1, <2>2 DEF Passed
<1>3. /\ hdr' = hdr /\ Disjoint'
      /\ \A q \in Pos : (Good(q)' <=> Good(q)) /\ (Good(q) => At(q)' = At(q))
      /\ \A b \in Blocks : \/ fill'[b] = fill[b]
                           \/ pc = "store" /\ b = write_pos[1]
                           \/ pc = "copy" /\ b = write_pos[1]
  BY CrashItems
<1>4. NoTorn' /\ UsedClean' /\ Copies' /\ Answering'
  BY <1>1, <1>2 DEF NoTorn, UsedClean, Copies, Answering
<1>5. Trigger' /\ Spare'
  BY <1>1, <1>2, <1>3 DEF Trigger, Spare
<1>6. ASSUME \A k : Items(k)' = Items(k), ~Up => exposed' = exposed,
             \A b, c \in Blocks : Filled(b)' /\ Filled(c)' => b = c,
             \A k \in Keys : \A p \in Pos :
                p[1] \in Shadow' /\ Good(p) /\ At(p).key = k /\ At(p).origin \in Items(k) => k \in exposed'
      PROVE  DataInv'
  <2>1. Leftover'
    BY <1>1, <1>6 DEF Leftover
  <2>2. \A k : \A p \in Items(k) : At(p)' = At(p)
    BY <1>3 DEF Items
  <2>3. Wanted'
    <3> SUFFICES ASSUME NEW k \in Keys
                 PROVE  /\ \A p \in Items(k)' : At(p)'.val \in want[k]
                        /\ Items(k)' = {} => NoVal \in want[k] \/ k \in exposed'
                        /\ \A p, q \in Items(k)' : p = q \/ At(p)'.origin = q \/ At(q)'.origin = p
      BY <1>1, <1>2 DEF Wanted
    <3> QED BY <1>6, <2>2 DEF Wanted
  <2>4. Chosen'
    <3>1. ASSUME NEW k \in Keys, NEW p \in Pos, p[1] \in Shadow', Good(p)', At(p)'.key = k,
                 At(p)'.origin \in Items(k)'
          PROVE  k \in exposed'
      <4>1. Good(p) /\ At(p)' = At(p)
        BY <1>3, <3>1
      <4> QED BY <1>6, <3>1, <4>1
    <3>2. \A k \in Keys : \A p \in Items(k)' : p \in Pos
      BY DEF Items
    <3> QED BY <1>1, <1>2, <3>1, <3>2 DEF Chosen
  <2> QED BY <1>3, <1>4, <1>5, <2>1, <2>3, <2>4
<1>7. CASE ~Copying
  <2>1. \A b \in Blocks : Filled(b)' <=> Filled(b)
    <3>1. ASSUME pc = "store" PROVE hdr[write_pos[1]] # "clean"
      <4>1. Up /\ ~Looping /\ ~Collecting
        BY <3>1 DEF Looping, Collecting, IInv, Control
      <4>2. write_pos \in Pos /\ state[write_pos[1]] \in {"used", "dirty"}
        BY <4>1 DEF Up, IInv, TypeOK, RamType, Frontier
      <4> QED BY <3>1, <4>1, <4>2, StateHdr, Positions
    <3> QED BY <1>3, <1>7, <3>1 DEF Filled, Copying
  <2>2. Shadow' = Shadow
    BY <1>3, <2>1 DEF Shadow
  <2>3. \A k : Items(k)' = Items(k)
    BY <1>3, <2>2 DEF Items
  <2>4. exposed' = IF Up THEN {} ELSE exposed
    BY <1>7 DEF Crash, Copying, Up
  <2>5. ASSUME NEW k \in Keys, NEW p \in Pos, p[1] \in Shadow', Good(p), At(p).key = k,
               At(p).origin \in Items(k)
        PROVE  k \in exposed'
    <3>1. ~Up
      BY <1>7, <2>2, <2>5, ShadowUp
    <3> QED BY <2>2, <2>4, <2>5, <3>1 DEF Chosen
  <2>6. \A b, c \in Blocks : Filled(b)' /\ Filled(c)' => b = c
    BY <2>1 DEF Leftover
  <2> QED BY <1>6, <2>3, <2>4, <2>5, <2>6
<1>8. CASE Copying
  <2>a. PICK d : d = dest
    OBVIOUS
  <2>1. /\ d \in Blocks /\ Victim \in Blocks /\ d # Victim /\ Up /\ Collecting
        /\ hdr[d] = "clean" /\ \A b \in Blocks \ {d} : hdr[b] \in {"used", "dirty"}
        /\ \A k : Items(k) = {p \in Pos : Good(p) /\ At(p).key = k /\ p[1] # d}
    BY <1>8, <2>a, ItemsCopying DEF Copies
  <2>2. /\ Shadow' \subseteq {d}
        /\ \A k : Items(k)' = {p \in Pos : Good(p)' /\ At(p)'.key = k /\ p[1] # d}
    <3>1. hdr'[d] = "clean" /\ \A b \in Blocks \ {d} : hdr'[b] \in {"used", "dirty"}
      BY <1>3, <2>1
    <3> QED BY <1>a, <2>1, <3>1, CrashStep
  <2>3. \A k : Items(k)' = Items(k)
    BY <1>3, <2>1, <2>2
  <2>4. \A b, c \in Blocks : Filled(b)' /\ Filled(c)' => b = c
    <3>1. \A b \in Blocks : hdr'[b] = "clean" => b = d
      BY <1>3, <2>1
    <3> QED BY <3>1 DEF Filled
  <2>5. exposed' = Exposed
    <3>1. exposed' = CASE Copying -> Exposed [] write_pos = NoPos -> exposed [] OTHER -> {}
      BY DEF Crash, Copying
    <3>2. write_pos # NoPos
      BY <2>1 DEF Up
    <3> QED BY <1>8, <3>1, <3>2
  <2>6. ASSUME NEW k \in Keys, NEW p \in Pos, p[1] \in Shadow', Good(p), At(p).key = k,
               At(p).origin \in Items(k)
        PROVE  k \in exposed'
    <3>1. p[1] = d /\ At(p) # Blank
      BY <2>2, <2>6, SlotTypes DEF Good
    <3>2. PICK q \in Pos : Original(q) /\ At(q) = At(p)
      BY <1>8, <2>a, <3>1 DEF Copies
    <3>3. q[1] = Victim /\ q[2] < Copied /\ q \in Items(k)
      BY <2>1, <2>6, <3>2 DEF Original, Good
    <3>4. Single(k)
      BY <2>1 DEF Answering, NoReq
    <3>5. At(q).origin = q /\ At(q).state = "normal" /\ At(q).key = k
      BY <2>6, <3>2, <3>3, <3>4 DEF Single, Good
    <3>6. /\ q = <<Victim, q[2]>> /\ At(q) = slot[Victim][q[2]] /\ q[2] \in HdrSize..(Copied - 1)
      <4>1. Copied \in Int
        <5>1. CASE pc = "copy"
          <6>1. at \in Pos
            BY <5>1 DEF IInv, Control, Walking, Scanning
          <6> QED BY <5>1, <6>1, Positions DEF Copied
        <5>2. CASE pc # "copy"
          BY <5>2, Numbers DEF Copied
        <5> QED BY <5>1, <5>2
      <4>2. q[2] \in Offsets /\ q = <<q[1], q[2]>> /\ At(q) = slot[q[1]][q[2]]
        BY <3>2, Positions
      <4> QED BY <3>3, <4>1, <4>2, Numbers
    <3>7. k \in Exposed
      BY <3>5, <3>6 DEF Exposed, Victim, Copied
    <3> QED BY <2>5, <3>7
  <2> QED BY <1>6, <2>1, <2>3, <2>4, <2>6
<1> QED BY <1>7, <1>8

(* Flash that was never formatted.                                         *)
LEMMA InitData == Init => DataInv
<1> SUFFICES ASSUME Init PROVE DataInv
  OBVIOUS
<1>1. /\ pc = "probe" /\ req = NoReq /\ unclean = {} /\ exposed = {} /\ lost = {}
      /\ gc_trigger = 0 /\ write_pos = NoPos /\ hdr = [b \in Blocks |-> "none"]
      /\ slot = [b \in Blocks |-> [o \in Offsets |-> Blank]] /\ want = [k \in Keys |-> {NoVal}]
  BY DEF Init
<1>2. /\ ~Up /\ ~Collecting /\ ~Copying /\ ~Sweeping
  BY <1>1 DEF Up, Collecting, Copying, Sweeping
<1>3. IInv
  BY InitIInv
<1>4. \A p \in Pos : At(p) = Blank /\ ~Good(p)
  <2>1. \A p \in Pos : At(p) = Blank
    BY <1>1, <1>3, Positions DEF At
  <2> QED BY <2>1, SlotTypes DEF Good
<1>5. \A k : Items(k) = {}
  BY <1>4 DEF Items
<1>6. \A b \in Blocks : hdr[b] = "none" /\ ~Filled(b)
  BY <1>1 DEF Filled
<1>7. Spare
  BY <1>2, <1>6, Numbers DEF Spare
<1>8. Disjoint
  BY <1>1 DEF Disjoint
<1>9. NoTorn /\ UsedClean
  BY <1>4, SlotTypes DEF NoTorn, UsedClean
<1>10. Trigger /\ Leftover /\ Copies
  BY <1>1, <1>2, <1>6 DEF Trigger, Leftover, Copies
<1>11. Wanted /\ Chosen
  BY <1>1, <1>5, <1>6 DEF Wanted, Chosen, Shadow
<1>12. Answering
  BY <1>1, <1>2 DEF Answering
<1> QED BY <1>7, <1>8, <1>9, <1>10, <1>11, <1>12 DEF DataInv

-----------------------------------------------------------------------------
(* The invariant, and what follows from it between requests. *)

(* A step that changes nothing.                                            *)
LEMMA StutterData == ASSUME IInv, DataInv, UNCHANGED vars PROVE DataInv'
<1> USE DEF DataInv, vars, flash, ram, locals, history
<1>1. /\ Shadow' = Shadow /\ \A b : Filled(b)' <=> Filled(b)
      /\ \A p : At(p)' = At(p) /\ (Good(p)' <=> Good(p))
      /\ \A k : Items(k)' = Items(k) /\ Current(k)' = Current(k) /\ (Single(k)' <=> Single(k))
      /\ Disjoint'
  BY ShadowSame, ItemsSame
<1>2. /\ (Up' <=> Up) /\ (Looping' <=> Looping) /\ (Walking' <=> Walking) /\ (Sweeping' <=> Sweeping)
      /\ (Collecting' <=> Collecting) /\ (Copying' <=> Copying)
  BY DEF Up, Looping, Walking, Scanning, Sweeping, Collecting, Copying
<1>3. \A p : Passed(p)' <=> Passed(p)
  BY <1>2 DEF Passed
<1>4. Spare' /\ NoTorn' /\ UsedClean' /\ Trigger' /\ Leftover' /\ Wanted'
  BY <1>1, <1>2, <1>3 DEF Spare, NoTorn, UsedClean, Trigger, Leftover, Wanted
<1>5. Copies'
  <2>1. \A p : Original(p)' <=> Original(p)
    BY DEF Original, Victim, Copied
  <2> QED BY <1>1, <1>2, <2>1 DEF Copies
<1>6. Chosen'
  BY <1>1, <1>2, <1>3 DEF Chosen
<1>7. Answering'
  <2>1. \A k : Pending(k) => Pending(k)'
    <3>1. (Deleting(old) => Deleting(old)') /\ At(old)' = At(old)
      BY <1>1 DEF Deleting, At
    <3> QED BY <1>1, <1>2, <3>1 DEF Pending
  <2> QED BY <1>1, <1>2, <2>1 DEF Answering
<1> QED BY <1>1, <1>4, <1>5, <1>6, <1>7

(* Every step keeps both invariants.                                       *)
LEMMA NextData == IInv /\ DataInv /\ [Next]_vars => DataInv'
<1> SUFFICES ASSUME IInv, DataInv, [Next]_vars PROVE DataInv'
  OBVIOUS
<1>1. CASE Request
  <2>1. ASSUME NEW ks \in Prefixes, DeletePrefix(ks) PROVE DataInv'
    BY <2>1, DeletePrefixData
  <2> QED BY <1>1, <2>1, SetSameData, SetHereData, SetOpenData, SetFullData, SetSpinData,
             GetData, DeleteData DEF Request
<1>2. CASE Work
  <2>1. ASSUME Store \/ DelItem \/ MarkDirty PROVE DataInv'
    BY <2>1, StoreData, DelItemData, MarkDirtyData
  <2>2. ASSUME SkipGarbage \/ KeepItem \/ DropSelf \/ DropOrigin \/ CopyItem PROVE DataInv'
    BY <2>2, SkipGarbageData, KeepItemData, DropSelfData, DropOriginData, CopyItemData
  <2>3. ASSUME EndSweep \/ EndCopy \/ EndRecovery \/ Erase \/ Format PROVE DataInv'
    BY <2>3, EndSweepData, EndCopyData, EndRecoveryData, EraseData, FormatData
  <2>4. ASSUME GcNothing \/ GcBegin \/ GcUse PROVE DataInv'
    BY <2>4, GcNothingData, GcBeginData, GcUseData
  <2>5. ASSUME \/ Probe \/ UncleanDirty \/ UncleanFormat \/ FormatZero
               \/ FirstUse \/ Reopen
        PROVE  DataInv'
    BY <2>5, ProbeData, UncleanDirtyData, UncleanFormatData, FormatZeroData,
       FirstUseData, ReopenData
  <2>6. ASSUME Spin PROVE DataInv'
    BY <2>6, StutterData DEF Spin
  <2> QED BY <1>2, <2>1, <2>2, <2>3, <2>4, <2>5, <2>6 DEF Work
<1>3. CASE Crash
  BY <1>3, CrashData
<1>4. CASE UNCHANGED vars
  BY <1>4, StutterData
<1> QED BY <1>1, <1>2, <1>3, <1>4 DEF Next

(* The items that count agree with what the clients may see.               *)
LEMMA DataInvariant == Spec => []DataInv
BY InitIInv, NextIInv, InitData, NextData, PTL DEF Spec

(* What the items on the flash say of each key is, up to the request, GC   *)
(* or recovery in progress, what the clients were told, and what RAM holds *)
(* mirrors the flash: kv_item_set, kv_item_delete, kv_gc and               *)
(* kv_init_internal, with power failing between any two of their writes.   *)
THEOREM StoreInvariant == Spec => []KvInv
BY LayoutInvariant, DataInvariant, PTL DEF KvInv

(* Between requests the items readers find are those that count, one of    *)
(* each key.                                                               *)
LEMMA IdleItems ==
  ASSUME IInv, DataInv, pc = "idle", NEW k \in Keys
  PROVE  Live(k) = Items(k) /\ Single(k) /\ want[k] = Current(k)
<1>1. Up /\ ~Looping /\ ~Collecting /\ unclean = {}
  BY IdleUp
<1>2. Live(k) = Items(k)
  BY <1>1, LiveIsItems DEF DataInv
<1>3. req = NoReq
  BY DEF DataInv, Answering
<1> QED BY <1>1, <1>2, <1>3 DEF DataInv, Answering, NoReq

(* kv_item_search finds, of every key, the value of the last change the    *)
(* clients were told of, through every GC, power failure and recovery.     *)
THEOREM ReadsLatestValue == Spec => []ReadsLatest
<1>1. IInv /\ DataInv => ReadsLatest
  <2> SUFFICES ASSUME IInv, DataInv, pc = "idle", NEW k \in Keys PROVE Read(k) = want[k]
    BY DEF ReadsLatest
  <2> QED BY IdleItems, ReadsCurrent
<1> QED BY <1>1, LayoutInvariant, DataInvariant, PTL

(* Whatever was interrupted, no key is left with two live items.           *)
THEOREM OneLiveItem == Spec => []UniqueLive
<1>1. IInv /\ DataInv => UniqueLive
  BY IdleItems DEF UniqueLive, Single
<1> QED BY <1>1, LayoutInvariant, DataInvariant, PTL

(* A change is lost only in the two ways the code has, and the key then    *)
(* reads as not stored.                                                    *)
THEOREM LosesOnlyExposed == Spec => []OnlyExposedLost
<1>1. IInv /\ DataInv => OnlyExposedLost
  <2> SUFFICES ASSUME IInv, DataInv, NEW k \in lost PROVE k \in exposed /\ Read(k) = {NoVal}
    BY DEF OnlyExposedLost
  <2>1. k \in exposed /\ want[k] = {NoVal} /\ pc \in {"idle", "spin"} /\ k \in Keys
    BY DEF DataInv, Answering, IInv, TypeOK, HistoryType
  <2>2. Up /\ ~Looping /\ ~Collecting /\ unclean = {} /\ req = NoReq
    BY <2>1, IdleUp DEF DataInv, Answering
  <2>3. Live(k) = Items(k)
    BY <2>1, <2>2, LiveIsItems DEF DataInv
  <2>4. Single(k) /\ want[k] = Current(k)
    BY <2>1, <2>2 DEF DataInv, Answering, NoReq
  <2> QED BY <2>1, <2>3, <2>4, ReadsCurrent
<1> QED BY <1>1, LayoutInvariant, DataInvariant, PTL

(* A block kv_gc would not collect holds nothing to collect.               *)
THEOREM UsedBlocksLive == Spec => []UsedIsLive
<1>1. IInv /\ DataInv => UsedIsLive
  <2> SUFFICES ASSUME IInv, DataInv, pc = "idle", NEW b \in Blocks, NEW o \in Offsets,
                      state[b] = "used"
               PROVE  slot[b][o] = Blank \/ slot[b][o].state = "normal"
    BY DEF UsedIsLive
  <2>1. PICK p \in Pos : p = <<b, o>>
    BY DEF Pos
  <2>2. p[1] = b /\ At(p) = slot[b][o] /\ Passed(p)
    BY <2>1, IdleUp DEF At, Passed
  <2> QED BY <2>2 DEF DataInv, UsedClean
<1> QED BY <1>1, LayoutInvariant, DataInvariant, PTL

-----------------------------------------------------------------------------
(* No loss where power does not fail within GC. *)

(* With two blocks recovery finds one to format or to use.                 *)
LEMMA NoFormatZero == ASSUME NBlocks = Reserved + 1, IInv, DataInv PROVE ~FormatZero
<1> SUFFICES ASSUME FormatZero PROVE FALSE
  OBVIOUS
<1>1. pc = "unclean" /\ unclean = {} /\ clean_blk_nums = 0
  BY DEF FormatZero
<1>2. PICK b \in Blocks : hdr[b] \in {"none", "clean"}
  BY DEF DataInv, Spare
<1>3. b \in Counted
  BY <1>1, <1>2, UncleanBlocks
<1> QED BY <1>1, <1>3, CountNone

(* A key is put at risk by formatting block 0 or by losing power in GC.    *)
LEMMA ExposedStays ==
  ASSUME IInv, DataInv, NBlocks = Reserved + 1, CrashPoints \cap {"copy", "erase"} = {},
         exposed = {}, [Next]_vars
  PROVE  exposed' = {}
<1> USE DEF history
<1>1. CASE Request
  <2>1. ASSUME NEW k \in Keys, NEW v \in Vals,
               SetSame(k, v) \/ SetHere(k, v) \/ SetOpen(k, v) \/ SetFull(k, v) \/ SetSpin(k, v)
        PROVE  exposed' = {}
    BY <2>1 DEF SetSame, SetHere, SetOpen, SetFull, SetSpin, NoRoom, StartStore, Begin
  <2>2. ASSUME NEW k \in Keys, Get(k) \/ Delete(k) PROVE exposed' = {}
    <3>1. CASE Delete(k)
      <4>1. PICK p \in Pos \cup {NoPos} :
                IF p = NoPos THEN UNCHANGED exposed ELSE Begin({k}, NoVal)
        BY <3>1 DEF Delete
      <4> QED BY <4>1 DEF Begin
    <3> QED BY <2>2, <3>1 DEF Get
  <2>3. ASSUME NEW ks \in Prefixes, DeletePrefix(ks) PROVE exposed' = {}
    BY <2>3 DEF DeletePrefix, Begin
  <2> QED BY <1>1, <2>1, <2>2, <2>3 DEF Request
<1>2. CASE Work
  <2>1. ASSUME Store \/ DelItem \/ MarkDirty PROVE exposed' = {}
    BY <2>1 DEF Store, DelItem, MarkDirty, Resume, Finish
  <2>2. ASSUME SkipGarbage \/ KeepItem \/ DropSelf \/ DropOrigin \/ CopyItem PROVE exposed' = {}
    BY <2>2 DEF SkipGarbage, KeepItem, DropSelf, DropOrigin, DropItem, CopyItem
  <2>3. ASSUME EndSweep \/ EndCopy \/ EndRecovery \/ Erase \/ Format PROVE exposed' = {}
    BY <2>3 DEF EndSweep, Finish, EndCopy, EndRecovery, Erase, Format
  <2>4. ASSUME GcNothing \/ GcBegin \/ GcUse PROVE exposed' = {}
    BY <2>4 DEF GcNothing, GcBegin, GcUse
  <2>5. ASSUME Probe \/ UncleanDirty \/ UncleanFormat \/ FirstUse \/ Reopen PROVE exposed' = {}
    BY <2>5 DEF Probe, UncleanDirty, UncleanFormat, FirstUse, Reopen, InitDone
  <2>6. ASSUME Spin PROVE exposed' = {}
    BY <2>6 DEF Spin, vars
  <2> QED BY <1>2, <2>1, <2>2, <2>3, <2>4, <2>5, <2>6, NoFormatZero DEF Work
<1>3. CASE Crash
  <2>1. pc \notin {"copy", "erase"}
    BY <1>3 DEF Crash
  <2> QED BY <1>3, <2>1 DEF Crash
<1>4. CASE UNCHANGED vars
  BY <1>4 DEF vars
<1> QED BY <1>1, <1>2, <1>3, <1>4 DEF Next

(* Where power does not fail within GC, two blocks lose no change.         *)
THEOREM NothingExposed ==
  ASSUME NBlocks = Reserved + 1, CrashPoints \cap {"copy", "erase"} = {}
  PROVE  Spec => [](exposed = {})
<1>1. Init => exposed = {}
  BY DEF Init
<1>2. IInv /\ DataInv /\ exposed = {} /\ [Next]_vars => (exposed = {})'
  BY ExposedStays
<1> QED BY <1>1, <1>2, LayoutInvariant, DataInvariant, PTL DEF Spec

(* A power failure that does not cut a GC short loses no completed change. *)
THEOREM SurvivesPowerLoss ==
  ASSUME NBlocks = Reserved + 1, CrashPoints \cap {"copy", "erase"} = {}
  PROVE  Spec => []Durable
<1>1. DataInv /\ exposed = {} => Durable
  BY DEF DataInv, Answering, Durable
<1> QED BY <1>1, DataInvariant, NothingExposed, PTL

-----------------------------------------------------------------------------
(* The refinement of KvStore. *)

(* A key's readers see one value.                                          *)
LEMMA OneValue ==
  ASSUME NEW k, Single(k) PROVE \E v : Current(k) = {v}
<1>1. CASE Items(k) = {}
  BY <1>1 DEF Current
<1>2. CASE Items(k) # {}
  <2>1. PICK p \in Items(k) : TRUE
    BY <1>2
  <2>2. Items(k) = {p}
    BY <2>1 DEF Single
  <2>3. Current(k) = {At(p).val}
    BY <1>2, <2>2 DEF Current
  <2> QED BY <2>3
<1> QED BY <1>1, <1>2

(* Between requests the store is up and has no job.                        *)
LEMMA IdleReady == ASSUME IInv, DataInv, pc = "idle" PROVE Up /\ req = Api!NoJob /\ Api!Ready
<1>1. Up /\ req = NoReq
  BY IdleUp DEF DataInv, Answering
<1> QED BY <1>1 DEF Api!Ready, Api!NoJob, NoReq

(* Setting a key to the value it has.                                      *)
LEMMA SetSameImplements ==
  ASSUME IInv, DataInv, NEW k \in Keys, NEW v \in Vals, SetSame(k, v) PROVE Api!Next
<1>1. /\ pc = "idle" /\ ~Changes(k, v) /\ reply' = "ok"
      /\ UNCHANGED <<want, req, write_pos>>
  BY DEF SetSame, Ready, locals
<1>2. PICK p \in kv_item_search(k) : At(p).val = v
  BY <1>1 DEF Changes
<1>3. Live(k) = Items(k) /\ Single(k) /\ want[k] = Current(k)
  BY <1>1, IdleItems
<1>4. p \in Items(k)
  BY <1>2, <1>3 DEF kv_item_search
<1>5. want[k] = {v}
  BY <1>2, <1>3, <1>4 DEF Single, Current
<1>6. Api!Keep(k, v)
  BY <1>1, <1>5, IdleReady, ValueAssumption DEF Api!Keep, Up
<1> QED BY <1>6 DEF Api!Next, Api!Values

(* A read answers with the only value the key may have.                    *)
LEMMA GetImplements ==
  ASSUME IInv, DataInv, NEW k \in Keys, Get(k) PROVE Api!Next
<1>1. pc = "idle" /\ reply' \in Read(k) /\ UNCHANGED <<want, req, write_pos>>
  BY DEF Get, Ready, locals
<1>2. Live(k) = Items(k) /\ Single(k) /\ want[k] = Current(k)
  BY <1>1, IdleItems
<1>3. Read(k) = want[k]
  BY <1>2, ReadsCurrent
<1>4. PICK v : want[k] = {v}
  BY <1>2, OneValue
<1>5. {reply'} = want[k]
  BY <1>1, <1>3, <1>4
<1>6. Api!Get(k)
  BY <1>1, <1>5, IdleReady DEF Api!Get, Up
<1> QED BY <1>6 DEF Api!Next

(* An error, or GC, changes nothing a reader sees.                         *)
LEMMA RefuseImplements ==
  ASSUME IInv, DataInv, pc = "idle", reply' \in {"nospace", "none"}, UNCHANGED <<want, req>>,
         Up' = Up
  PROVE  Api!Next
BY IdleReady DEF Api!Next, Api!Refuse

(* Requests that begin a change.                                           *)
LEMMA BeginImplements ==
  ASSUME IInv, DataInv, pc = "idle", NEW ks, NEW v, Begin(ks, v), Up' = Up
  PROVE  Api!Change(ks, v)
BY IdleReady DEF Begin, Api!Change

(* Deleting a key begins a change, if the key is stored.                   *)
LEMMA DeleteImplements ==
  ASSUME IInv, DataInv, NEW k \in Keys, Delete(k) PROVE Api!Next
<1>1. pc = "idle" /\ Up' = Up
  BY DEF Delete, Ready, Up
<1>2. PICK p \in Pos \cup {NoPos} :
          /\ Found(k, p)
          /\ IF p = NoPos THEN reply' = NoVal /\ UNCHANGED <<req, want>>
                          ELSE Begin({k}, NoVal)
  BY DEF Delete
<1>3. CASE p = NoPos
  <2>1. want[k] = {NoVal}
    <3>1. Items(k) = {} /\ want[k] = Current(k)
      BY <1>1, <1>2, <1>3, FoundItem, IdleItems
    <3> QED BY <3>1 DEF Current
  <2>2. Api!Keep(k, NoVal)
    BY <1>1, <1>2, <1>3, <2>1, IdleReady DEF Api!Keep
  <2> QED BY <2>2 DEF Api!Next, Api!Values
<1>4. CASE p # NoPos
  <2>1. Api!Change({k}, NoVal)
    BY <1>1, <1>2, <1>4, BeginImplements
  <2> QED BY <2>1 DEF Api!Next
<1> QED BY <1>3, <1>4

(* Deleting by prefix begins a change of every key that has it.            *)
LEMMA DeletePrefixImplements ==
  ASSUME IInv, DataInv, NEW ks \in Prefixes, DeletePrefix(ks) PROVE Api!Next
<1>1. pc = "idle" /\ Up' = Up /\ Begin(ks, NoVal)
  BY DEF DeletePrefix, Ready, Up, ram
<1>2. Api!Change(ks, NoVal)
  BY <1>1, BeginImplements
<1> QED BY <1>2 DEF Api!Next

(* Setting a key begins a change.                                          *)
LEMMA SetImplements ==
  ASSUME IInv, DataInv, NEW k \in Keys, NEW v \in Vals, SetHere(k, v) \/ SetOpen(k, v)
  PROVE  Api!Next
<1>1. pc = "idle" /\ Begin({k}, v)
  BY DEF SetHere, SetOpen, Ready, StartStore
<1>2. Up' = Up
  <2>1. IInv' /\ pc' = "store"
    BY SetHereStep, SetOpenStep DEF SetHere, SetOpen, StartStore
  <2>2. Up /\ Up'
    BY <1>1, <2>1, IdleUp DEF IInv, Control, Looping
  <2> QED BY <2>2 DEF Up
<1>3. Api!Change({k}, v)
  BY <1>1, <1>2, BeginImplements
<1> QED BY <1>3 DEF Api!Next

(* A request ends: the change is made.                                     *)
LEMMA FinishImplements ==
  ASSUME IInv, DataInv, Up, Up', req.keys # {}, Finish PROVE Api!Next
<1>1. /\ reply' = "ok" /\ req' = Api!NoJob /\ req # Api!NoJob
      /\ want' = [k \in Keys |-> IF k \in req.keys THEN {req.val} ELSE want[k]]
  BY DEF Finish, NoReq, Api!NoJob
<1>2. Api!Done
  BY <1>1 DEF Api!Done, Up
<1> QED BY <1>2 DEF Api!Next

(* The end of the last block ends the deletion of a prefix.                *)
LEMMA SweepImplements ==
  ASSUME IInv, DataInv, EndSweep PROVE Api!Next \/ UNCHANGED Api!vars
<1>1. pc = "sweep" /\ UNCHANGED write_pos /\ (Finish \/ UNCHANGED <<req, history>>)
  BY DEF EndSweep
<1>2. Up /\ Up' /\ Up' = Up
  BY <1>1 DEF IInv, Control, Looping, Up
<1>3. CASE UNCHANGED <<req, history>>
  BY <1>2, <1>3 DEF Api!vars, history
<1>4. CASE Finish /\ req.keys # {}
  BY <1>2, <1>4, FinishImplements
<1>5. CASE Finish /\ req.keys = {}
  <2>1. req.val = NoVal /\ req.keys \in Prefixes
    BY <1>1 DEF DataInv, Answering, Sweeping
  <2>2. req = Api!NoJob /\ req' = Api!NoJob
    <3>1. req \in [keys : SUBSET Keys, val : Values]
      BY DEF IInv, TypeOK, LocalType
    <3>2. req = [keys |-> {}, val |-> NoVal]
      BY <1>5, <2>1, <3>1
    <3> QED BY <1>5, <3>2 DEF Finish, NoReq, Api!NoJob
  <2>3. want' = want /\ reply' = "ok"
    BY <1>5 DEF Finish, IInv, TypeOK, HistoryType
  <2>4. Api!KeepAll
    BY <1>2, <1>5, <2>1, <2>2, <2>3 DEF Api!KeepAll, Api!Ready
  <2> QED BY <2>4 DEF Api!Next
<1> QED BY <1>1, <1>3, <1>4, <1>5

(* kv_item_store and kv_item_del, which end a request or go on with it.    *)
LEMMA WriteImplements ==
  ASSUME IInv, DataInv, Store \/ DelItem \/ MarkDirty PROVE Api!Next \/ UNCHANGED Api!vars
<1>1. /\ pc \in {"store", "del", "mark"}
      /\ (Finish /\ back = "reply") \/ UNCHANGED <<req, history>>
  <2>1. CASE Store
    BY <2>1 DEF Store, IInv, Control
  <2>2. CASE DelItem \/ MarkDirty
    BY <2>2 DEF DelItem, MarkDirty, Resume
  <2> QED BY <2>1, <2>2
<1>2. Up' = Up
  <2>1. CASE Store
    <3>1. IInv' /\ ~Looping /\ pc' \in {"idle", "del"} /\ back' = "reply"
      BY <2>1, StoreStep DEF Looping, Store, Finish, IInv, Control
    <3>2. Up /\ Up'
      BY <2>1, <3>1 DEF Store, IInv, Control, Looping
    <3> QED BY <3>2 DEF Up
  <2>2. CASE DelItem \/ MarkDirty
    BY <2>2 DEF DelItem, MarkDirty, ram, Up
  <2> QED BY <2>1, <2>2
<1>3. CASE Finish /\ back = "reply"
  <2>1. Up
    BY <1>1, <1>3 DEF IInv, Control, Looping
  <2>2. req.keys # {}
    BY <1>1, <1>3 DEF DataInv, Answering
  <2> QED BY <1>2, <1>3, <2>1, <2>2, FinishImplements
<1>4. CASE UNCHANGED <<req, history>>
  BY <1>2, <1>4 DEF Api!vars, history
<1> QED BY <1>1, <1>3, <1>4

(* kv_init returns with a value of each key that its readers may see.      *)
LEMMA StartImplements ==
  ASSUME IInv, DataInv, exposed = {}, FirstUse \/ Reopen PROVE Api!Next
<1>1. /\ pc = "unclean" /\ unclean = {} /\ InitDone
  BY DEF FirstUse, Reopen
<1>2. /\ lost' = {k \in Keys : ~(Read(k) \subseteq want[k])} /\ want' = [k \in Keys |-> Read(k)]
      /\ UNCHANGED <<req, reply, exposed>> /\ pc' = "idle"
  BY <1>1 DEF InitDone
<1>3. IInv' /\ DataInv'
  BY FirstUseStep, ReopenStep, FirstUseData, ReopenData
<1>4. lost' = {}
  BY <1>2, <1>3 DEF DataInv, Answering
<1>5. ~Up /\ Up'
  <2>1. Up'
    BY <1>2, <1>3 DEF IInv, Control, Looping
  <2> QED BY <1>1, <2>1, UncleanBlocks
<1>6. ASSUME NEW k \in Keys PROVE \E v \in want[k] : want'[k] = {v}
  <2>1. (\A i \in Keys : Single(i) /\ want[i] = Current(i))'
    BY <1>2, <1>3, <1>5 DEF DataInv, Answering, NoReq
  <2>2. ASSUME Items(k)' = {} PROVE Current(k)' = {NoVal}
    BY <2>2 DEF Current
  <2>3. ASSUME Items(k)' # {} PROVE \E v : Current(k)' = {v}
    <3>1. PICK p \in Items(k)' : TRUE
      BY <2>3
    <3>2. Items(k)' = {p}
      BY <2>1, <3>1 DEF Single
    <3>3. Current(k)' = {At(p)'.val}
      BY <2>3, <3>2 DEF Current
    <3> QED BY <3>3
  <2>4. PICK v : want'[k] = {v}
    BY <2>1, <2>2, <2>3
  <2>5. want'[k] \subseteq want[k]
    BY <1>2, <1>4
  <2> QED BY <2>4, <2>5
<1>7. Api!Start
  <2> DEFINE f == [k \in Keys |-> CHOOSE v \in want[k] : want'[k] = {v}]
  <2>1. \A k \in Keys : f[k] \in want[k] /\ want'[k] = {f[k]}
    BY <1>6
  <2>2. f \in [Keys -> Api!Values]
    BY <2>1 DEF Api!Values, Values, IInv, TypeOK, HistoryType
  <2>3. want' = [k \in Keys |-> {f[k]}]
    <3>1. want' = [k \in Keys |-> want'[k]]
      BY <1>2
    <3> HIDE DEF f
    <3> QED BY <2>1, <3>1
  <2> HIDE DEF f
  <2> QED BY <1>2, <1>5, <2>1, <2>2, <2>3 DEF Api!Start, Up
<1> QED BY <1>7 DEF Api!Next

(* The store before kv_init.                                               *)
LEMMA InitImplements == Init => Api!Init
BY DEF Init, Api!Init, Api!NoJob, NoReq, Up

(* Every step is one of the abstract store's or leaves its state alone.    *)
LEMMA NextImplements ==
  ASSUME IInv, IInv', DataInv, exposed = {}, [Next]_vars
  PROVE  Api!Next \/ UNCHANGED Api!vars
<1>1. CASE Request
  <2>1. ASSUME NEW k \in Keys, NEW v \in Vals, SetFull(k, v) \/ SetSpin(k, v) PROVE Api!Next
    <3>1. pc = "idle" /\ reply' \in {"nospace", "none"} /\ UNCHANGED <<want, req, write_pos>>
      BY <2>1 DEF SetFull, SetSpin, NoRoom, Ready, locals
    <3> QED BY <3>1, RefuseImplements DEF Up
  <2> QED BY <1>1, <2>1, SetSameImplements, SetImplements, GetImplements, DeleteImplements,
             DeletePrefixImplements DEF Request
<1>2. CASE Work
  <2>1. ASSUME Store \/ DelItem \/ MarkDirty PROVE Api!Next \/ UNCHANGED Api!vars
    BY <2>1, WriteImplements
  <2>2. ASSUME SkipGarbage \/ KeepItem \/ DropSelf \/ DropOrigin \/ CopyItem
        PROVE  UNCHANGED Api!vars
    <3>1. UNCHANGED <<req, want, reply>>
      BY <2>2 DEF SkipGarbage, KeepItem, DropSelf, DropOrigin, DropItem, CopyItem, history
    <3>2. Up' = Up
      <4>1. CASE CopyItem
        <5>1. pc = "copy" /\ pc' = "copy"
          BY <4>1 DEF CopyItem
        <5>2. Up /\ Up'
          BY <5>1 DEF IInv, Control, Looping
        <5> QED BY <5>2 DEF Up
      <4>2. CASE ~CopyItem
        BY <2>2, <4>2 DEF SkipGarbage, KeepItem, DropSelf, DropOrigin, DropItem, ram, Up
      <4> QED BY <4>1, <4>2
    <3> QED BY <3>1, <3>2 DEF Api!vars
  <2>3. ASSUME EndCopy \/ EndRecovery \/ Erase \/ Format PROVE UNCHANGED Api!vars
    BY <2>3 DEF EndCopy, EndRecovery, Erase, Format, ram, locals, history, Api!vars, Up
  <2>4. CASE GcNothing \/ GcUse
    BY <2>4 DEF GcNothing, GcUse, locals, history, Api!vars, Up
  <2>5. CASE GcBegin
    <3>1. pc = "idle" /\ pc' = "copy" /\ reply' = "none" /\ UNCHANGED <<want, req>>
      BY <2>5 DEF GcBegin
    <3>2. Up /\ Up'
      BY <3>1 DEF IInv, Control, Looping
    <3>3. Up' = Up
      BY <3>2 DEF Up
    <3> QED BY <3>1, <3>3, RefuseImplements
  <2>6. ASSUME Probe \/ UncleanDirty \/ UncleanFormat \/ FormatZero PROVE UNCHANGED Api!vars
    BY <2>6 DEF Probe, UncleanDirty, UncleanFormat, FormatZero, StartFormat, ram, history,
                Api!vars, Up
  <2>7. CASE Spin
    BY <2>7 DEF Spin, vars, ram, locals, history, Api!vars, Up
  <2> QED BY <1>2, <2>1, <2>2, <2>3, <2>4, <2>5, <2>6, <2>7, SweepImplements, StartImplements
          DEF Work
<1>3. CASE Crash
  <2>1. reply' = "none" /\ req' = Api!NoJob /\ want' = want /\ write_pos' = NoPos
    BY <1>3 DEF Crash, NoReq, Api!NoJob
  <2>2. Api!Fail
    BY <2>1 DEF Api!Fail, Up
  <2> QED BY <2>2 DEF Api!Next
<1>4. CASE UNCHANGED vars
  BY <1>4 DEF vars, ram, locals, history, Api!vars, Up
<1> QED BY <1>1, <1>2, <1>3, <1>4 DEF Next

(* The log, its GC and its recovery implement the map of kv_api.h, as long *)
(* as power does not fail within a GC.                                     *)
THEOREM ImplementsStore ==
  ASSUME NBlocks = Reserved + 1, CrashPoints \cap {"copy", "erase"} = {}
  PROVE  Spec => RefinesStore
<1>1. Init => Api!Init
  BY InitImplements
<1>2. IInv /\ IInv' /\ DataInv /\ exposed = {} /\ [Next]_vars => [Api!Next]_(Api!vars)
  BY NextImplements
<1> QED BY <1>1, <1>2, LayoutInvariant, DataInvariant, NothingExposed, PTL
        DEF Spec, RefinesStore, Api!Spec
=============================================================================
