--------------------------- MODULE KvFlashProofs ----------------------------
(***************************************************************************)
(* What is proved of the layout of the flash store: IInv, and with it      *)
(* TypeOK, holds in every reachable state, and every write is one that NOR *)
(* flash can take. First come facts about the operators of KvFlash and     *)
(* what one write does to the parts of IInv, for any number and size of    *)
(* blocks and any items; then one lemma for each action.                   *)
(***************************************************************************)
EXTENDS KvFlash, FiniteSetTheorems, TLAPS

(* The constants are natural numbers, and a block holds an item.           *)
LEMMA Numbers ==
    /\ NBlocks \in Nat /\ NBlocks >= 2 /\ Reserved = 1
    /\ BlockSize \in Nat /\ HdrSize \in Nat /\ HdrSize >= 1
    /\ ItemHdr \in Nat /\ ItemHdr >= 1 /\ ItemMax \in Nat /\ ItemMax > ItemHdr
    /\ HdrSize + ItemMax < BlockSize
    /\ NoPos = <<0, 0>> /\ NoPos \notin Pos
    /\ Blocks = 0..(NBlocks - 1) /\ Offsets = HdrSize..(BlockSize - 1)
    /\ 0 \in Blocks /\ HdrSize \in Offsets
  BY BlocksAssumption, LayoutAssumption
     DEF Reserved, NoPos, Pos, Blocks, Offsets

(* What a slot holds, and how many bytes kv_item_traverse takes it for.    *)
LEMMA SlotTypes ==
    /\ Junk # Blank /\ Blank \notin Item /\ Junk \notin Item
    /\ Junk.state = "junk" /\ Blank.state = "blank"
    /\ Len(Junk) = ItemHdr
    /\ \A s \in Item : s.state \in {"normal", "deleted"}
    /\ \A s \in Item : Len(s) = Size(s.key, s.val)
    /\ \A s \in Item \cup {Junk} : Len(s) \in ItemHdr..ItemMax
<1>1. \A s \in Item : /\ s.state \in {"normal", "deleted"} /\ s.key \in Keys
                      /\ s.val \in Vals
  BY DEF Item
<1>2. \A s \in Item : Len(s) = Size(s.key, s.val)
  BY <1>1 DEF Len
<1>3. \A s \in Item : Len(s) \in (ItemHdr + 1)..ItemMax
  BY <1>1, <1>2, SizeAssumption
<1>4. Len(Junk) = ItemHdr /\ ItemHdr <= ItemMax
  BY LayoutAssumption DEF Len, Junk
<1> QED BY <1>1, <1>2, <1>3, <1>4, Numbers DEF Junk, Blank, Item

(* An item that begins in a block ends behind its begin, and the next one  *)
(* begins in the same block if there are bytes left.                       *)
LEMMA NextOffset ==
  ASSUME NEW o \in Offsets, NEW n \in ItemHdr..ItemMax
  PROVE  /\ o \in Int /\ n \in Int /\ o + n \in Int /\ o < o + n
         /\ o + n < BlockSize => o + n \in Offsets
         /\ \A f \in Offsets : o + n <= f => o + n \in Offsets /\ o # f
<1>1. /\ o \in Int /\ HdrSize <= o /\ o <= BlockSize - 1
      /\ n \in Int /\ 1 <= n
      /\ HdrSize \in Int /\ BlockSize \in Int
  BY Numbers
<1>2. \A f \in Offsets : f \in Int /\ f <= BlockSize - 1
  BY Numbers
<1> QED BY <1>1, <1>2 DEF Offsets

(* A slot that is not blank holds something of a length within bounds.     *)
LEMMA SlotLengths ==
  ASSUME FlashType
  PROVE  \A b \in Blocks, o \in Offsets :
            slot[b][o] # Blank => /\ slot[b][o] \in Item \cup {Junk}
                                  /\ Len(slot[b][o]) \in ItemHdr..ItemMax
<1>1. \A b \in Blocks, o \in Offsets : slot[b][o] \in Item \cup {Blank, Junk}
  BY DEF FlashType
<1> QED BY <1>1, SlotTypes

(* Between requests kv_item_search finds every block's space as it was.    *)
LEMMA SearchedSame == ASSUME IInv, pc = "idle", NEW k PROVE Searched(k) = space
<1> USE Numbers DEF IInv, TypeOK
<1>1. \A b \in Blocks : Measured(b)
  BY DEF Measured, Looping
<1>2. \A b \in Blocks : Room(fill[b]) = space[b]
  BY <1>1 DEF Mirrored, Room, FlashType
<1> QED BY <1>2 DEF Searched, RamType

\* What is programmed stays, and a scan of a block gets as far as it did.
Grows ==
    /\ \A b \in Blocks, o \in Offsets : slot[b][o] # Blank => slot'[b][o] = slot[b][o]
    /\ \A b \in Blocks, o \in Int : OnChain(b, o) =>
            o = fill'[b] \/ (o \in Offsets /\ slot'[b][o] # Blank)

(* An item programmed at the frontier of its block lies on erased flash    *)
(* and becomes the last of that block's items.                             *)
LEMMA ProgramKeeps ==
  ASSUME IInv, NEW p \in Pos, NEW s \in Item \cup {Junk}, Program(p, s),
         p[2] = fill[p[1]], hdr[p[1]] # "none", p[2] + Len(s) < BlockSize
    PROVE  /\ FlashType' /\ Chained' /\ hdr' = hdr
         /\ fill' = [fill EXCEPT ![p[1]] = p[2] + Len(s)]
         /\ slot[p[1]][p[2]] = Blank /\ Grows
<1> DEFINE b == p[1]  o == p[2]
<1>0. FlashType /\ Chained
  BY DEF IInv, TypeOK
<1>1. /\ b \in Blocks /\ o \in Offsets /\ p = <<b, o>> /\ fill[b] = o
      /\ o + Len(s) \in Offsets /\ o + Len(s) \in Int /\ o < o + Len(s)
  <2>1. b \in Blocks /\ o \in Offsets /\ p = <<b, o>>
    BY DEF Pos
  <2>2. Len(s) \in ItemHdr..ItemMax
    BY SlotTypes
  <2> QED BY <2>1, <2>2, NextOffset
<1>2. slot[b][o] = Blank
  <2> SUFFICES ASSUME slot[b][o] # Blank PROVE FALSE
    OBVIOUS
  <2>1. Len(slot[b][o]) \in ItemHdr..ItemMax
    BY <1>0, <1>1, SlotLengths
  <2>2. o + Len(slot[b][o]) <= fill[b]
    BY <1>0, <1>1 DEF Chained
  <2> QED BY <1>1, <2>1, <2>2, NextOffset
<1>3. slot' = [slot EXCEPT ![b][o] = s] /\ fill' = [fill EXCEPT ![b] = o + Len(s)]
      /\ hdr' = hdr
  BY DEF Program
<1>4. FlashType'
  BY <1>0, <1>1, <1>3 DEF FlashType
<1>5. \A c \in Blocks, n \in Offsets :
          (c = b /\ n = o) \/ slot'[c][n] = slot[c][n]
  BY <1>0, <1>1, <1>3 DEF FlashType
<1>6. slot'[b][o] = s /\ s # Blank /\ fill'[b] = o + Len(s)
  BY <1>0, <1>1, <1>3, SlotTypes DEF FlashType
<1>7. \A c \in Blocks : c # b => fill'[c] = fill[c]
  BY <1>0, <1>1, <1>3 DEF FlashType
<1>8. \A c \in Blocks : fill[c] \in Int /\ fill'[c] \in Int /\ fill[c] <= fill'[c]
  <2>1. \A c \in Blocks : fill[c] \in Int
    BY <1>0, Numbers DEF FlashType
  <2> QED BY <1>1, <1>6, <1>7, <2>1
<1>9. \A c \in Blocks, n \in Int : OnChain(c, n) =>
            n = fill'[c] \/ (n \in Offsets /\ slot'[c][n] # Blank)
  <2> SUFFICES ASSUME NEW c \in Blocks, NEW n \in Int, OnChain(c, n)
               PROVE  n = fill'[c] \/ (n \in Offsets /\ slot'[c][n] # Blank)
    OBVIOUS
  <2>1. CASE n \in Offsets /\ slot[c][n] # Blank
    BY <2>1, <1>2, <1>5
  <2>2. CASE n = fill[c] /\ c = b
    BY <2>2, <1>1, <1>6
  <2>3. CASE n = fill[c] /\ c # b
    BY <2>3, <1>7
  <2> QED BY <2>1, <2>2, <2>3 DEF OnChain
<1>10. \A c \in Blocks, n \in Int : OnChain(c, n) => OnChain(c, n)'
  BY <1>9 DEF OnChain
<1>11. Chained'
  <2> SUFFICES ASSUME NEW c \in Blocks
               PROVE  /\ OnChain(c, HdrSize)'
                      /\ (hdr[c] = "none" => fill[c] = HdrSize)'
                      /\ \A n \in Offsets : slot'[c][n] # Blank =>
                            /\ n + Len(slot'[c][n]) <= fill'[c]
                            /\ OnChain(c, n + Len(slot[c][n]))'
    BY DEF Chained
  <2>1. OnChain(c, HdrSize)'
    BY <1>0, <1>10, Numbers DEF Chained
  <2>2. (hdr[c] = "none" => fill[c] = HdrSize)'
    BY <1>0, <1>3, <1>7 DEF Chained
  <2>3. ASSUME NEW n \in Offsets, slot'[c][n] # Blank
        PROVE  /\ n + Len(slot'[c][n]) <= fill'[c]
               /\ OnChain(c, n + Len(slot[c][n]))'
    <3>1. CASE c = b /\ n = o
      BY <3>1, <1>1, <1>6 DEF OnChain
    <3>2. CASE ~(c = b /\ n = o)
      <4>1. slot'[c][n] = slot[c][n] /\ slot[c][n] # Blank
        BY <2>3, <3>2, <1>5
      <4>2. n + Len(slot[c][n]) <= fill[c] /\ OnChain(c, n + Len(slot[c][n]))
        BY <4>1, <1>0 DEF Chained
      <4>3. n + Len(slot[c][n]) \in Int
        <5>1. Len(slot[c][n]) \in ItemHdr..ItemMax
          BY <4>1, <1>0, SlotLengths
        <5> QED BY <5>1, Numbers
      <4>4. n + Len(slot[c][n]) <= fill'[c]
        BY <4>2, <4>3, <1>8
      <4>5. OnChain(c, n + Len(slot[c][n]))'
        BY <4>1, <4>2, <4>3, <1>10
      <4> QED BY <4>1, <4>4, <4>5
    <3> QED BY <3>1, <3>2
  <2> QED BY <2>1, <2>2, <2>3
<1>12. Grows
  BY <1>2, <1>5, <1>9 DEF Grows
<1> QED BY <1>2, <1>3, <1>4, <1>11, <1>12

\* What kv_item_traverse finds at its cursor.
CursorOK ==
    /\ at \in Pos /\ at[1] \in Blocks /\ at[2] \in Offsets /\ at = <<at[1], at[2]>>
    /\ Cursor = slot[at[1]][at[2]]
    /\ AtEnd => at[2] = fill[at[1]]
    /\ ~AtEnd => /\ Cursor \in Item \cup {Junk}
                 /\ Len(Cursor) \in ItemHdr..ItemMax
                 /\ at[2] + Len(Cursor) <= fill[at[1]]
                 /\ OnChain(at[1], at[2] + Len(Cursor))
                 /\ Past \in Pos /\ Past = <<at[1], at[2] + Len(Cursor)>>
                 /\ Past[1] = at[1] /\ Past[2] = at[2] + Len(Cursor)
    /\ OnItem => Cursor \in Item /\ ~AtEnd

(* A scan only ever stands on an item, on what a torn write left, or at    *)
(* the frontier of its block.                                              *)
LEMMA CursorFacts == IInv /\ pc \in Scanning => CursorOK
<1> SUFFICES ASSUME IInv, pc \in Scanning PROVE CursorOK
  OBVIOUS
<1> USE Numbers, SlotTypes DEF IInv, TypeOK
<1>1. at \in Pos /\ OnChain(at[1], at[2])
  BY DEF Control, Walking
<1>2. at[1] \in Blocks /\ at[2] \in Offsets /\ at = <<at[1], at[2]>>
  BY <1>1 DEF Pos
<1>3. Cursor = slot[at[1]][at[2]]
  BY DEF Cursor, At
<1>4. Cursor # Blank => /\ Cursor \in Item \cup {Junk}
                        /\ Len(Cursor) \in ItemHdr..ItemMax
  BY <1>2, <1>3, SlotLengths
<1>5. Cursor # Blank => /\ at[2] + Len(Cursor) <= fill[at[1]]
                        /\ OnChain(at[1], at[2] + Len(Cursor))
  BY <1>2, <1>3 DEF Chained
<1>6. fill[at[1]] \in Offsets
  BY <1>2 DEF FlashType
<1>7. AtEnd => at[2] = fill[at[1]]
  <2>1. CASE Cursor = Blank
    BY <2>1, <1>1, <1>3 DEF OnChain
  <2>2. CASE Cursor # Blank
    <3> HIDE Numbers, SlotTypes DEF IInv, TypeOK
    <3>1. at[2] + Len(Cursor) \in Offsets
      BY <2>2, <1>2, <1>4, <1>5, <1>6, NextOffset
    <3>2. ~(at[2] + ItemHdr >= BlockSize)
      <4>1. at[2] \in Int /\ Len(Cursor) \in Int /\ ItemHdr <= Len(Cursor)
        BY <2>2, <1>2, <1>4, Numbers
      <4>2. at[2] + Len(Cursor) < BlockSize /\ ItemHdr \in Int /\ BlockSize \in Int
        BY <3>1, Numbers
      <4> QED BY <4>1, <4>2
    <3> QED BY <2>2, <3>2 DEF AtEnd
  <2> QED BY <2>1, <2>2
<1>8. ~AtEnd => Cursor # Blank
  BY DEF AtEnd
<1>9. ~AtEnd => /\ Past \in Pos /\ Past = <<at[1], at[2] + Len(Cursor)>>
                /\ Past[1] = at[1] /\ Past[2] = at[2] + Len(Cursor)
  <2> SUFFICES ASSUME ~AtEnd PROVE <<at[1], at[2] + Len(Cursor)>> \in Pos
    BY DEF Past
  <2>1. at[2] + Len(Cursor) \in Offsets
    BY <1>2, <1>4, <1>5, <1>6, <1>8, NextOffset
  <2> QED BY <2>1, <1>2 DEF Pos
<1>10. OnItem => Cursor \in Item /\ ~AtEnd
  BY <1>4, <1>8 DEF OnItem
<1> QED BY <1>1, <1>2, <1>3, <1>4, <1>5, <1>7, <1>8, <1>9, <1>10 DEF CursorOK

(* kv_item_search finds a value some item has, or none.                    *)
LEMMA ReadType == ASSUME FlashType, NEW k \in Keys PROVE Read(k) \subseteq Values
<1> USE Numbers, SlotTypes
<1>1. \A p \in Live(k) : At(p) \in Item \cup {Blank, Junk} /\ At(p).state = "normal"
  BY DEF Live, Pos, At, FlashType
<1>2. \A p \in Live(k) : At(p) \in Item
  BY <1>1
<1>3. \A p \in Live(k) : At(p).val \in Vals
  BY <1>2 DEF Item
<1> QED BY <1>3 DEF Read, kv_item_search, Values

(* A request that begins asks for a set of keys and a value they may have. *)
LEMMA BeginType ==
  ASSUME HistoryType, NEW ks \in SUBSET Keys, NEW v \in Values, Begin(ks, v)
  PROVE  HistoryType' /\ req' \in [keys : SUBSET Keys, val : Values]
BY DEF Begin, HistoryType, Values

(* A request that ends leaves no request, and what it asked for is wanted. *)
LEMMA FinishType ==
  ASSUME HistoryType, req \in [keys : SUBSET Keys, val : Values], Finish
  PROVE  HistoryType' /\ req' \in [keys : SUBSET Keys, val : Values]
BY DEF Finish, HistoryType, Values, NoReq

(* A set of blocks is finite, and has NBlocks elements only if it has all. *)
LEMMA BlockCount ==
  ASSUME NEW S \in SUBSET Blocks
  PROVE  /\ IsFiniteSet(S) /\ Cardinality(S) \in 0..NBlocks
         /\ Cardinality(S) = NBlocks => S = Blocks
<1>1. IsFiniteSet(Blocks) /\ Cardinality(Blocks) = NBlocks
  BY Numbers, FS_Interval
<1>2. IsFiniteSet(S) /\ Cardinality(S) <= NBlocks /\ (Cardinality(S) = NBlocks => S = Blocks)
  BY <1>1, FS_Subset
<1> QED BY <1>2, Numbers, FS_CardinalityType

(* The free space kv_item_traverse computes at a frontier is what is left  *)
(* of the block.                                                           *)
LEMMA RoomLeft == ASSUME NEW b \in Blocks, FlashType
                  PROVE  Room(fill[b]) = BlockSize - fill[b] /\ Room(fill[b]) \in 0..BlockSize
  BY Numbers DEF Room, FlashType

(* Past the first loop of kv_init_internal a scan to the end of a block    *)
(* finds the free space kv_mgr_t has for it already.                       *)
LEMMA SpaceKept == ASSUME IInv, pc \in {"sweep", "copy"}, AtEnd
                   PROVE  [space EXCEPT ![at[1]] = Room(at[2])] = space
<1> USE Numbers DEF IInv, TypeOK
<1>1. CursorOK
  BY CursorFacts DEF Scanning
<1>2. Measured(at[1])
  BY DEF Measured, Looping
<1>3. Room(at[2]) = space[at[1]]
  BY <1>1, <1>2, RoomLeft DEF CursorOK, Mirrored
<1> QED BY <1>1, <1>3 DEF RamType

Layout == FlashType /\ Chained /\ Mirrored /\ CleanErased /\ CleanCount /\ Frontier

(* Nothing the layout is about changes.                                    *)
LEMMA LayoutSame ==
  ASSUME IInv,
         UNCHANGED <<hdr, slot, fill, state, space, clean_blk_nums, write_pos,
                     blk, dest, unclean>>,
         Looping' = Looping, (Looping /\ Walking)' = (Looping /\ Walking),
         Collecting' = Collecting,
         pc \notin {"erase", "format"}, pc' \notin {"erase", "format"},
         (pc' = "unclean") = (pc = "unclean")
  PROVE  Layout'
<1> USE DEF IInv, TypeOK
<1>1. FlashType' /\ Chained'
  BY DEF FlashType, Chained, OnChain
<1>2. Mirrored'
  BY DEF Mirrored, Measured
<1>3. CleanErased'
  BY DEF CleanErased, Measured
<1>4. CleanCount'
  <2>1. Counted' = Counted
    BY DEF Counted
  <2> QED BY <2>1 DEF CleanCount
<1>5. Frontier'
  BY DEF Frontier, Up
<1> QED BY <1>1, <1>2, <1>3, <1>4, <1>5 DEF Layout

(* A block in use is marked dirty: nothing else in the layout changes.     *)
LEMMA DirtyKeeps ==
  ASSUME IInv, NEW b \in Blocks, state[b] = "used", hdr[b] = "used",
         SetBlockState(b, "dirty"),
         UNCHANGED <<slot, fill, space, clean_blk_nums, write_pos, blk, dest, unclean>>,
         Looping' = Looping, Walking' = Walking, Collecting' = Collecting,
         pc \notin {"erase", "format"}, pc' \notin {"erase", "format"},
         (pc' = "unclean") = (pc = "unclean")
  PROVE  /\ Layout'
         /\ state' \in [Blocks -> {"unset", "clean", "used", "dirty"}]
<1> USE DEF IInv, TypeOK
<1>1. /\ hdr' = [hdr EXCEPT ![b] = "dirty"] /\ state' = [state EXCEPT ![b] = "dirty"]
  BY DEF SetBlockState
<1>2. FlashType' /\ state' \in [Blocks -> {"unset", "clean", "used", "dirty"}]
  BY <1>1 DEF FlashType, RamType
<1>3. \A c \in Blocks : /\ hdr'[c] = hdr[c] \/ (hdr[c] = "used" /\ hdr'[c] = "dirty")
                        /\ state'[c] = state[c] \/ (c = b /\ state'[c] = "dirty")
                        /\ state'[c] = "clean" <=> state[c] = "clean"
                        /\ state'[c] = "unset" <=> state[c] = "unset"
                        /\ state[c] = hdr[c] => state'[c] = hdr'[c]
  BY <1>1 DEF FlashType, RamType
<1>4. Chained'
  BY <1>3 DEF Chained, OnChain
<1>5. Mirrored'
  BY <1>3 DEF Mirrored, Measured
<1>6. CleanErased'
  BY <1>3 DEF CleanErased, Measured, LocalType
<1>7. CleanCount'
  <2>1. Counted' = Counted
    BY <1>3 DEF Counted
  <2> QED BY <2>1 DEF CleanCount
<1>8. Frontier'
  BY <1>3, Numbers DEF Frontier, Up, Pos, RamType, LocalType
<1> QED BY <1>2, <1>4, <1>5, <1>6, <1>7, <1>8 DEF Layout

(* A clean block is taken into use.                                        *)
LEMMA UseKeeps ==
  ASSUME IInv, NEW i \in Counted, SetBlockState(i, "used"),
         clean_blk_nums' = clean_blk_nums - 1, Collecting => i = dest,
         UNCHANGED <<slot, fill, space, unclean>>, unclean = {},
         pc \in {"idle", "use", "unclean"}, pc' \in {"idle", "store"}
  PROVE  /\ FlashType' /\ Chained' /\ Mirrored' /\ CleanErased' /\ CleanCount'
         /\ clean_blk_nums' \in 0..NBlocks
         /\ state' \in [Blocks -> {"unset", "clean", "used", "dirty"}]
         /\ \A c \in Blocks : state'[c] = IF c = i THEN "used" ELSE state[c]
<1> USE DEF IInv, TypeOK
<1>1. i \in Blocks /\ state[i] = "clean"
  BY DEF Counted
<1>2. hdr' = [hdr EXCEPT ![i] = "used"] /\ state' = [state EXCEPT ![i] = "used"]
  BY DEF SetBlockState
<1>3. FlashType' /\ state' \in [Blocks -> {"unset", "clean", "used", "dirty"}]
  BY <1>1, <1>2 DEF FlashType, RamType
<1>4. \A c \in Blocks : /\ state'[c] = IF c = i THEN "used" ELSE state[c]
                        /\ hdr'[c] = IF c = i THEN "used" ELSE hdr[c]
  BY <1>2 DEF FlashType, RamType
<1>5. \A c \in Blocks : Measured(c) /\ Measured(c)'
  BY DEF Measured, Looping
<1>6. ~Looping /\ ~Looping'
  BY DEF Looping
<1>7. Chained'
  <2>1. \A c \in Blocks : hdr'[c] = "none" => hdr[c] = "none"
    BY <1>4
  <2> QED BY <2>1 DEF Chained, OnChain
<1>8. Mirrored'
  BY <1>4, <1>5, <1>6 DEF Mirrored
<1>9. CleanErased'
  <2> SUFFICES ASSUME NEW c \in Blocks, state'[c] = "clean" PROVE fill'[c] = HdrSize
    BY DEF CleanErased
  <2>1. c # i /\ state[c] = "clean"
    BY <1>4
  <2> QED BY <2>1, <1>5 DEF CleanErased
<1>10. CleanCount'
  <2>1. Counted' = Counted \ {i}
    BY <1>1, <1>4, <1>6 DEF Counted
  <2>2. Cardinality(Counted') = Cardinality(Counted) - 1
    BY <2>1, BlockCount, FS_RemoveElement DEF Counted
  <2> QED BY <2>2 DEF CleanCount
<1>11. clean_blk_nums' \in 0..NBlocks
  BY <1>10, BlockCount DEF CleanCount, Counted
<1> QED BY <1>3, <1>4, <1>7, <1>8, <1>9, <1>10, <1>11

(* An item is written at write_pos, and both stay at the frontier.         *)
LEMMA AppendKeeps ==
  ASSUME IInv, Up, NEW s \in Item, Program(write_pos, s), Advance(Len(s)),
         write_pos[2] + Len(s) < BlockSize,
         UNCHANGED <<state, clean_blk_nums, blk, dest, unclean>>,
         pc \in {"store", "copy"}, pc' \in {"store", "copy", "del", "idle"},
         Looping' = Looping, Collecting' = Collecting
  PROVE  /\ Layout' /\ write_pos' \in Pos /\ space' \in [Blocks -> 0..BlockSize]
         /\ fill' = [fill EXCEPT ![write_pos[1]] = @ + Len(s)]
         /\ Grows
<1> USE Numbers DEF IInv, TypeOK
<1> DEFINE b == write_pos[1]
<1>1. write_pos \in Pos /\ b \in Blocks /\ write_pos[2] \in Offsets
      /\ write_pos = <<b, write_pos[2]>>
  BY DEF Up, RamType, Pos
<1>2. Len(s) \in ItemHdr..ItemMax
  BY SlotTypes
<1>3. ~Looping /\ unclean = {} /\ write_pos[2] = fill[b]
      /\ (Collecting => b = dest /\ state[dest] = "clean")
      /\ (~Collecting => state[b] \in {"used", "dirty"})
  BY DEF Frontier
<1>4. \A c \in Blocks : Measured(c)
  BY <1>3 DEF Measured
<1>5. \A c \in Blocks : state[c] = hdr[c] /\ hdr[c] # "none" /\ space[c] = BlockSize - fill[c]
  BY <1>4 DEF Mirrored
<1>6. /\ FlashType' /\ Chained' /\ hdr' = hdr
      /\ fill' = [fill EXCEPT ![b] = write_pos[2] + Len(s)]
      /\ Grows
  <2>1. PICK p \in Pos : p = write_pos
    BY <1>1
  <2>2. Program(p, s)
    BY <2>1
  <2>3. p[2] = fill[p[1]] /\ hdr[p[1]] # "none" /\ p[2] + Len(s) < BlockSize
    BY <1>1, <1>3, <1>5, <2>1
  <2> QED BY <2>1, <2>2, <2>3, ProgramKeeps
<1>7. /\ write_pos' = <<b, write_pos[2] + Len(s)>>
      /\ space' = [space EXCEPT ![b] = @ - Len(s)]
  <2>1. After(write_pos, Len(s)) = <<b, write_pos[2] + Len(s)>>
    BY DEF After
  <2> QED BY <2>1 DEF Advance
<1>8. write_pos' \in Pos /\ write_pos'[1] = b /\ write_pos'[2] = write_pos[2] + Len(s)
  BY <1>1, <1>2, <1>7 DEF Pos
<1>9. \A c \in Blocks : space'[c] = BlockSize - fill'[c]
  <2> TAKE c \in Blocks
  <2>1. fill[b] \in Int /\ space[b] \in Int /\ space[b] = BlockSize - fill[b]
    BY <1>1, <1>5 DEF RamType, FlashType
  <2>2. CASE c = b
    <3>1. space'[b] = space[b] - Len(s) /\ fill'[b] = fill[b] + Len(s)
      BY <1>1, <1>3, <1>6, <1>7 DEF RamType, FlashType
    <3> QED BY <2>1, <2>2, <3>1, <1>2
  <2>3. CASE c # b
    BY <2>3, <1>5, <1>6, <1>7 DEF RamType, FlashType
  <2> QED BY <2>2, <2>3
<1>10. space' \in [Blocks -> 0..BlockSize]
  <2>1. fill' \in [Blocks -> Offsets]
    BY <1>6 DEF FlashType
  <2>2. \A c \in Blocks : space'[c] \in 0..BlockSize
    BY <1>9, <2>1
  <2> QED BY <2>2, <1>7 DEF RamType
<1>11. Mirrored'
  BY <1>3, <1>5, <1>6, <1>9 DEF Mirrored
<1>12. CleanErased'
  <2> SUFFICES ASSUME NEW c \in Blocks, state[c] = "clean", ~(Collecting /\ c = dest)
               PROVE  fill'[c] = HdrSize
    BY DEF CleanErased
  <2>1. c # b
    BY <1>3
  <2> QED BY <2>1, <1>3, <1>4, <1>6 DEF CleanErased, FlashType
<1>13. CleanCount'
  <2>1. Counted' = Counted
    BY <1>3 DEF Counted
  <2> QED BY <2>1 DEF CleanCount
<1>14. Frontier'
  <2>1. write_pos'[2] = fill'[write_pos'[1]]
    BY <1>1, <1>6, <1>8 DEF FlashType
  <2> QED BY <2>1, <1>3, <1>8 DEF Frontier
<1> QED BY <1>1, <1>3, <1>6, <1>8, <1>10, <1>11, <1>12, <1>13, <1>14 DEF Layout, FlashType

(* A step that writes nothing is legal.                                    *)
LEMMA NorSame == UNCHANGED <<hdr, slot>> => NorStep
  BY DEF NorStep, Programs

(* An item at the frontier of its block is a legal write.                  *)
LEMMA ProgramLegal ==
  ASSUME IInv, NEW p \in Pos, NEW s \in Item \cup {Junk}, Program(p, s),
         p[2] = fill[p[1]], hdr[p[1]] # "none", p[2] + Len(s) < BlockSize
  PROVE  NorStep
<1>1. slot[p[1]][p[2]] = Blank /\ hdr' = hdr
  BY ProgramKeeps
<1>2. slot' = [slot EXCEPT ![p[1]][p[2]] = s] /\ p[1] \in Blocks /\ p[2] \in Offsets
  BY DEF Program, Pos
<1>3. slot \in [Blocks -> [Offsets -> Item \cup {Blank, Junk}]]
  BY DEF IInv, TypeOK, FlashType
<1>4. ASSUME NEW b \in Blocks, NEW o \in Offsets PROVE Programs(b, o)
  <2>1. CASE b = p[1] /\ o = p[2]
    <3>1. slot'[b][o] = s
      BY <2>1, <1>2, <1>3
    <3> QED BY <2>1, <3>1, <1>1 DEF Programs
  <2>2. CASE ~(b = p[1] /\ o = p[2])
    <3>1. slot'[b][o] = slot[b][o]
      BY <2>2, <1>2, <1>3
    <3> QED BY <3>1 DEF Programs
  <2> QED BY <2>1, <2>2
<1> QED BY <1>1, <1>4 DEF NorStep

(* So is a change of a block's state byte that clears bits only.           *)
LEMMA StateLegal ==
  ASSUME IInv, NEW b \in Blocks, NEW s, SetBlockState(b, s), UNCHANGED slot,
         <<hdr[b], s>> \in {<<"none", "clean">>, <<"clean", "used">>,
                            <<"clean", "dirty">>, <<"used", "dirty">>}
  PROVE  NorStep
<1>1. \A c \in Blocks : hdr'[c] = IF c = b THEN s ELSE hdr[c]
  BY DEF IInv, TypeOK, FlashType, SetBlockState
<1>2. ASSUME NEW c \in Blocks PROVE hdr'[c] = hdr[c] \/ ClearsBits(c)
  BY <1>1 DEF ClearsBits
<1> QED BY <1>2 DEF NorStep, Programs

(* The item kv_item_store writes fits in the current block.                *)
LEMMA StoreFits ==
  ASSUME IInv, pc = "store", NEW k \in req.keys
  PROVE  /\ NewItem(k) \in Item /\ Len(NewItem(k)) = Size(k, req.val)
         /\ write_pos \in Pos /\ hdr[write_pos[1]] # "none"
         /\ write_pos[2] = fill[write_pos[1]]
         /\ write_pos[2] + Len(NewItem(k)) < BlockSize
<1> USE DEF IInv, TypeOK
<1>1. /\ k \in Keys /\ req.val \in Vals /\ Size(k, req.val) < space[write_pos[1]]
  BY DEF Control
<1>2. NewItem(k) \in Item
  BY <1>1 DEF NewItem, Item, LocalType
<1>3. Len(NewItem(k)) = Size(k, req.val) /\ Len(NewItem(k)) \in ItemHdr..ItemMax
  <2>1. NewItem(k).key = k /\ NewItem(k).val = req.val
    BY DEF NewItem
  <2> QED BY <2>1, <1>2, SlotTypes
<1>4. Up /\ ~Looping
  BY DEF Looping, Control
<1>5. write_pos \in Pos /\ write_pos[1] \in Blocks /\ write_pos[2] \in Offsets
      /\ Measured(write_pos[1])
  BY <1>4, Numbers DEF Up, RamType, Pos, Measured
<1>6. /\ write_pos[2] = fill[write_pos[1]] /\ hdr[write_pos[1]] # "none"
      /\ space[write_pos[1]] = BlockSize - fill[write_pos[1]]
  BY <1>4, <1>5 DEF Frontier, Mirrored
<1>7. write_pos[2] + Len(NewItem(k)) < BlockSize
  BY <1>1, <1>3, <1>5, <1>6, Numbers
<1> QED BY <1>2, <1>3, <1>5, <1>6, <1>7

(* GC has filled its destination no further than it has read its source.   *)
LEMMA CopyFits ==
  ASSUME IInv, pc = "copy", OnItem
  PROVE  /\ Cursor \in Item /\ write_pos \in Pos /\ hdr[write_pos[1]] # "none"
         /\ write_pos[2] = fill[write_pos[1]]
         /\ write_pos[2] + Len(Cursor) < BlockSize
<1> USE DEF IInv, TypeOK
<1>1. Up /\ ~Looping /\ Collecting
  BY DEF Looping, Collecting, Control
<1>2. /\ Cursor \in Item /\ Len(Cursor) \in ItemHdr..ItemMax
      /\ at[2] + Len(Cursor) <= fill[at[1]] /\ at[2] \in Offsets /\ at[1] \in Blocks
  BY CursorFacts DEF CursorOK, Scanning
<1>3. write_pos \in Pos /\ write_pos[1] = dest /\ dest \in Blocks /\ Measured(dest)
      /\ write_pos[2] = fill[dest]
  BY <1>1 DEF Up, RamType, LocalType, Frontier, Measured
<1>4. fill[dest] <= at[2] /\ fill[dest] \in Offsets /\ fill[at[1]] \in Offsets
  BY <1>2, <1>3 DEF Control, FlashType
<1>5. hdr[dest] # "none"
  BY <1>3 DEF Mirrored
<1>6. fill[dest] + Len(Cursor) < BlockSize
  <2> HIDE DEF IInv, TypeOK
  <2>1. /\ fill[dest] + Len(Cursor) \in Int /\ at[2] + Len(Cursor) \in Int
        /\ fill[dest] \in Int /\ at[2] \in Int /\ Len(Cursor) \in Int
    BY <1>2, <1>4, NextOffset
  <2>2. fill[dest] + Len(Cursor) <= at[2] + Len(Cursor)
    BY <2>1, <1>4
  <2>3. fill[at[1]] \in Int /\ fill[at[1]] < BlockSize /\ BlockSize \in Int
    BY <1>4, Numbers
  <2> QED BY <2>1, <2>2, <2>3, <1>2
<1> QED BY <1>2, <1>3, <1>5, <1>6

(* kv_init_internal begins to format a block.                              *)
LEMMA StartFormatKeeps ==
  ASSUME IInv, NEW b \in Blocks, NEW k \in {"next", "unclean"}, StartFormat(b, k),
         ~Up, b \notin Counted, exposed' \subseteq Keys, unclean' \subseteq unclean \ {b},
         \/ pc = "probe" /\ k = "next" /\ b = blk /\ unclean' = unclean
         \/ pc = "unclean" /\ k = "unclean" /\ unclean \subseteq {b} \cup unclean'
  PROVE  IInv'
<1> USE DEF IInv, TypeOK
<1>1. /\ pc' = "erase" /\ blk' = b /\ back' = k
      /\ UNCHANGED <<hdr, slot, fill, state, space, clean_blk_nums, write_pos, gc_trigger,
                     req, at, old, dest, want, reply, lost>>
  BY DEF StartFormat, flash, ram
<1>2. /\ ~Walking /\ ~Walking' /\ ~Collecting /\ ~Collecting' /\ ~Up'
      /\ Looping <=> pc = "probe"
      /\ Looping' <=> pc = "probe"
  BY <1>1 DEF Looping, Walking, Collecting, Scanning, Up
<1>3. \A c \in Blocks : Measured(c)' <=> Measured(c)
  BY <1>1, <1>2 DEF Measured
<1>4. FlashType' /\ Chained'
  BY <1>1 DEF FlashType, Chained, OnChain
<1>5. Mirrored'
  BY <1>1, <1>2, <1>3 DEF Mirrored
<1>6. CleanErased'
  <2>1. ASSUME NEW c \in Blocks, Measured(c), state[c] = "clean"
        PROVE  fill[c] = HdrSize \/ c \in unclean' \/ c = b
    BY <2>1, <1>2 DEF CleanErased
  <2>2. \A c \in unclean' : state[c] = "clean" /\ (Looping' => c < blk') /\ c # b
    BY <1>1, <1>2 DEF CleanErased
  <2> QED BY <2>1, <2>2, <1>1, <1>2, <1>3 DEF CleanErased
<1>7. CleanCount'
  <2>1. Counted' = Counted
    <3> SUFFICES ASSUME NEW c \in Blocks, state[c] = "clean"
                 PROVE  (c \notin unclean' /\ c # b)
                            = (c \notin unclean /\ ~(Looping /\ c = blk))
      BY <1>1, <1>2 DEF Counted
    <3>1. CASE pc = "probe"
      <4>1. c \notin unclean \/ c # b
        BY <3>1, <1>2 DEF CleanErased
      <4> QED BY <4>1, <3>1, <1>2
    <3>2. CASE pc = "unclean"
      BY <3>2, <1>2 DEF Counted
    <3> QED BY <3>1, <3>2
  <2> QED BY <1>1, <2>1 DEF CleanCount
<1>8. Frontier' /\ Control'
  BY <1>1, <1>2 DEF Frontier, Control, Looping
<1>9. RamType' /\ LocalType' /\ HistoryType'
  <2>1. unclean' \subseteq Blocks
    BY DEF LocalType
  <2> QED BY <2>1, <1>1 DEF RamType, LocalType, HistoryType, Points
<1> QED BY <1>4, <1>5, <1>6, <1>7, <1>8, <1>9

(* kv_init returns with write_pos at the frontier of a block in use.       *)
LEMMA InitDoneKeeps ==
  ASSUME IInv, InitDone, pc = "unclean", unclean = {}, NEW b \in Blocks,
         write_pos' = <<b, fill[b]>>, state'[b] \in {"used", "dirty"},
         FlashType', Chained', Mirrored', CleanErased', CleanCount',
         clean_blk_nums' \in 0..NBlocks,
         state' \in [Blocks -> {"unset", "clean", "used", "dirty"}]
  PROVE  IInv'
<1> USE DEF IInv, TypeOK
<1>1. /\ pc' = "idle" /\ back' = "reply" /\ gc_trigger' \in {0, 1}
      /\ lost' \subseteq Keys /\ want' = [k \in Keys |-> Read(k)]
      /\ UNCHANGED <<slot, fill, space, req, at, old, blk, dest, unclean,
                     reply, exposed>>
  BY DEF InitDone
<1>2. /\ write_pos' \in Pos /\ write_pos' # NoPos
      /\ write_pos'[1] = b /\ write_pos'[2] = fill'[b]
  <2>1. fill[b] \in Offsets
    BY DEF FlashType
  <2> QED BY <2>1, <1>1, Numbers DEF Pos
<1>3. want' \in [Keys -> SUBSET Values]
  BY <1>1, ReadType
<1>4. RamType' /\ LocalType' /\ HistoryType'
  BY <1>1, <1>2, <1>3 DEF RamType, LocalType, HistoryType, Points
<1>5. ~Looping' /\ ~Walking' /\ ~Collecting' /\ Up'
  BY <1>1, <1>2 DEF Looping, Walking, Collecting, Scanning, Up
<1>6. Frontier' /\ Control'
  BY <1>1, <1>2, <1>5 DEF Frontier, Control
<1> QED BY <1>4, <1>6

(* A write cut short, too, goes to erased flash and leaves a walkable log. *)
LEMMA TornKeeps ==
  ASSUME IInv, NEW p \in Pos, NEW s \in Item, NEW t \in Torn(s), Program(p, t),
         p[2] = fill[p[1]], hdr[p[1]] # "none", p[2] + Len(s) < BlockSize
  PROVE  FlashType' /\ Chained' /\ NorStep
<1>1. t \in Item \cup {Junk} /\ Len(t) <= Len(s)
  <2>1. CASE t = Junk
    BY <2>1, SlotTypes, Numbers
  <2>2. CASE t = [s EXCEPT !.crc = "bad"]
    <3>1. t \in Item /\ t.key = s.key /\ t.val = s.val
      BY <2>2 DEF Item
    <3> QED BY <3>1, SlotTypes, Numbers
  <2> QED BY <2>1, <2>2 DEF Torn
<1>2. p[2] + Len(t) < BlockSize
  <2>1. p[2] \in Int /\ Len(t) \in Int /\ Len(s) \in Int
    BY <1>1, SlotTypes, Numbers DEF Pos
  <2> QED BY <2>1, <1>1, Numbers
<1> QED BY <1>1, <1>2, ProgramKeeps, ProgramLegal

(* What a power failure leaves on the flash.                               *)
LEMMA CrashFlash == ASSUME IInv, Crash
                    PROVE  UNCHANGED flash \/ (FlashType' /\ Chained' /\ NorStep)
<1>1. CASE UNCHANGED flash
  BY <1>1
<1>2. CASE pc = "store" /\ \E k \in req.keys : \E s \in Torn(NewItem(k)) :
              Program(write_pos, s)
  <2>1. PICK k \in req.keys : \E s \in Torn(NewItem(k)) : Program(write_pos, s)
    BY <1>2
  <2>2. PICK t \in Torn(NewItem(k)) : Program(write_pos, t)
    BY <2>1
  <2>3. PICK p \in Pos, s \in Item : p = write_pos /\ s = NewItem(k)
    BY <1>2, StoreFits
  <2>4. p[2] = fill[p[1]] /\ hdr[p[1]] # "none" /\ p[2] + Len(s) < BlockSize
    BY <2>3, <1>2, StoreFits
  <2> QED BY <2>2, <2>3, <2>4, TornKeeps
<1>3. CASE pc = "copy" /\ OnItem /\ \E s \in Torn(Cursor) : Program(write_pos, s)
  <2>1. PICK t \in Torn(Cursor) : Program(write_pos, t)
    BY <1>3
  <2>2. PICK p \in Pos, s \in Item : p = write_pos /\ s = Cursor
    BY <1>3, CopyFits
  <2>3. p[2] = fill[p[1]] /\ hdr[p[1]] # "none" /\ p[2] + Len(s) < BlockSize
    BY <2>2, <1>3, CopyFits
  <2> QED BY <2>1, <2>2, <2>3, TornKeeps
<1> QED BY <1>1, <1>2, <1>3 DEF Crash
-----------------------------------------------------------------------------
(* Each action preserves IInv. *)

(* SkipGarbage passes garbage, in a block it marks dirty if it has to.     *)
LEMMA SkipGarbageStep == ASSUME IInv, SkipGarbage PROVE IInv'
<1> USE DEF IInv, TypeOK
<1>1. /\ pc \in Scanning /\ at' = Past
      /\ UNCHANGED <<slot, fill, space, clean_blk_nums, write_pos, gc_trigger, pc,
                     req, old, blk, dest, unclean, back, want, reply, exposed, lost>>
  BY DEF SkipGarbage, history
<1>2. CursorOK /\ ~AtEnd
  BY <1>1, CursorFacts DEF SkipGarbage
<1>3. /\ at[1] \in Blocks /\ Past \in Pos /\ Past[1] = at[1]
      /\ OnChain(Past[1], Past[2]) /\ at[2] <= Past[2]
  BY <1>2, Numbers DEF CursorOK
<1>4. LocalType' /\ HistoryType'
  BY <1>1, <1>3 DEF LocalType, HistoryType
<1>5. /\ Looping' = Looping /\ Walking' = Walking /\ Collecting' = Collecting
      /\ pc \notin {"erase", "format"} /\ pc' \notin {"erase", "format"}
      /\ (pc' = "unclean") = (pc = "unclean")
      /\ Walking
  BY <1>1 DEF Looping, Walking, Collecting, Scanning
<1>8. Control'
  <2>1. (Walking => at \in Pos /\ OnChain(at[1], at[2]))'
    BY <1>1, <1>3 DEF OnChain
  <2>2. (Looping /\ Walking => at[1] = blk)'
    BY <1>1, <1>3 DEF Control, Looping, Walking, Collecting, Scanning
  <2>3. (pc = "copy" => state[at[1]] = "dirty" /\ fill[dest] <= at[2])'
    <3> SUFFICES ASSUME pc = "copy" PROVE state'[Past[1]] = "dirty" /\ fill[dest] <= Past[2]
      BY <1>1
    <3>1. state[at[1]] = "dirty" /\ fill[dest] <= at[2]
      BY DEF Control
    <3>2. state' = state
      BY <3>1 DEF SkipGarbage, KeepBlockState
    <3>3. fill[dest] \in Int /\ at[2] \in Int /\ Past[2] \in Int
      BY <1>2, <1>3, Numbers DEF FlashType, LocalType, CursorOK, Pos
    <3> QED BY <1>3, <3>1, <3>2, <3>3
  <2> QED BY <1>1, <2>1, <2>2, <2>3 DEF Control, Up, Looping, Walking, Collecting, Scanning
<1>6. CASE state[at[1]] = "used"
  <2>1. SetBlockState(at[1], "dirty")
    BY <1>6 DEF SkipGarbage
  <2>2. hdr[at[1]] = "used"
    BY <1>1, <1>3, <1>5, <1>6 DEF Mirrored, Measured, Scanning, Control, Looping, LocalType
  <2>3. /\ Layout'
        /\ state' \in [Blocks -> {"unset", "clean", "used", "dirty"}]
    BY <1>1, <1>3, <1>5, <1>6, <2>1, <2>2, DirtyKeeps
  <2>4. RamType'
    BY <1>1, <2>3 DEF RamType
  <2> QED BY <1>4, <1>8, <2>3, <2>4 DEF Layout
<1>7. CASE state[at[1]] # "used"
  <2>1. UNCHANGED <<hdr, state>>
    BY <1>7 DEF SkipGarbage, KeepBlockState
  <2>2. FlashType' /\ RamType'
    BY <1>1, <2>1 DEF FlashType, RamType
  <2>3. Chained'
    BY <1>1, <2>1 DEF Chained, OnChain
  <2>4. Mirrored'
    BY <1>1, <2>1 DEF Mirrored, Measured, Looping, Walking, Collecting, Scanning
  <2>5. CleanErased'
    BY <1>1, <2>1 DEF CleanErased, Measured, Looping, Walking, Collecting, Scanning
  <2>6. Frontier'
    BY <1>1, <2>1 DEF Frontier, Up, Looping, Walking, Collecting, Scanning
  <2>7. Counted' = Counted
    BY <1>1, <2>1 DEF Counted, Looping, Walking, Collecting, Scanning
  <2>8. CleanCount'
    BY <1>1, <2>7 DEF CleanCount
  <2> QED BY <1>4, <1>8, <2>2, <2>3, <2>4, <2>5, <2>6, <2>8
<1> QED BY <1>6, <1>7

(* SetSame changes nothing but the answer.                                 *)
LEMMA SetSameStep == ASSUME IInv, NEW k \in Keys, NEW v \in Vals, SetSame(k, v) PROVE IInv'
<1> USE DEF IInv, TypeOK
<1>0. Searched(k) = space
  BY SearchedSame DEF Ready, SetSame
<1>1. Layout'
  <2>1. UNCHANGED <<hdr, slot, fill, state, space, clean_blk_nums, write_pos,
                    blk, dest, unclean>>
    BY <1>0 DEF SetSame, flash, ram, locals
  <2>2. /\ Looping' = Looping /\ (Looping /\ Walking)' = (Looping /\ Walking)
        /\ Collecting' = Collecting
        /\ pc \notin {"erase", "format"} /\ pc' \notin {"erase", "format"}
        /\ (pc' = "unclean") = (pc = "unclean")
    BY <1>0 DEF SetSame, Ready, Looping, Walking, Collecting, Scanning, locals
  <2> QED BY <2>1, <2>2, LayoutSame
<1>2. RamType'
  BY <1>0 DEF RamType, SetSame, ram, locals
<1>3. LocalType'
  BY <1>0 DEF LocalType, Points, Booting, Scanning, SetSame, locals
<1>4. HistoryType'
  BY <1>0 DEF HistoryType, SetSame, history, Values
<1>5. Control'
  BY <1>0 DEF Control, OnChain, At, Up, Looping, Walking, Collecting, Scanning, SetSame, Ready, flash, ram, locals
<1> QED BY <1>1, <1>2, <1>3, <1>4, <1>5 DEF Layout

(* SetHere finds the current block has more room than the item needs.      *)
LEMMA SetHereStep == ASSUME IInv, NEW k \in Keys, NEW v \in Vals, SetHere(k, v) PROVE IInv'
<1> USE DEF IInv, TypeOK
<1>0. Searched(k) = space
  BY SearchedSame DEF Ready, SetHere
<1>1. Layout'
  <2>1. UNCHANGED <<hdr, slot, fill, state, space, clean_blk_nums, write_pos,
                    blk, dest, unclean>>
    BY <1>0 DEF SetHere, StartStore, flash, ram, locals
  <2>2. /\ Looping' = Looping /\ (Looping /\ Walking)' = (Looping /\ Walking)
        /\ Collecting' = Collecting
        /\ pc \notin {"erase", "format"} /\ pc' \notin {"erase", "format"}
        /\ (pc' = "unclean") = (pc = "unclean")
    BY <1>0 DEF SetHere, StartStore, Ready, Looping, Walking, Collecting, Scanning, locals
  <2> QED BY <2>1, <2>2, LayoutSame
<1>2. RamType'
  BY <1>0 DEF RamType, SetHere, StartStore, ram, locals
<1>3. LocalType'
  BY <1>0, BeginType, ValueAssumption DEF LocalType, Points, Booting, Scanning, SetHere, StartStore, locals, Values, Found, kv_item_search, Live
<1>4. HistoryType'
  BY <1>0, BeginType DEF HistoryType, SetHere, StartStore, history, Values
<1>5. Control'
  BY <1>0, SizeAssumption, Numbers DEF Control, OnChain, At, Up, Looping, Walking, Collecting, Scanning, SetHere, StartStore, Ready, flash, ram, locals, Begin, Fits, Found, kv_item_search, Live, RamType
<1> QED BY <1>1, <1>2, <1>3, <1>4, <1>5 DEF Layout

(* SetFull only asks for a GC.                                             *)
LEMMA SetFullStep == ASSUME IInv, NEW k \in Keys, NEW v \in Vals, SetFull(k, v) PROVE IInv'
<1> USE DEF IInv, TypeOK
<1>0. Searched(k) = space
  BY SearchedSame DEF Ready, SetFull, NoRoom
<1>1. Layout'
  <2>1. UNCHANGED <<hdr, slot, fill, state, space, clean_blk_nums, write_pos,
                    blk, dest, unclean>>
    BY <1>0 DEF SetFull, NoRoom, flash, ram, locals
  <2>2. /\ Looping' = Looping /\ (Looping /\ Walking)' = (Looping /\ Walking)
        /\ Collecting' = Collecting
        /\ pc \notin {"erase", "format"} /\ pc' \notin {"erase", "format"}
        /\ (pc' = "unclean") = (pc = "unclean")
    BY <1>0 DEF SetFull, NoRoom, Ready, Looping, Walking, Collecting, Scanning, locals
  <2> QED BY <2>1, <2>2, LayoutSame
<1>2. RamType'
  BY <1>0 DEF RamType, SetFull, NoRoom, ram, locals
<1>3. LocalType'
  BY <1>0 DEF LocalType, Points, Booting, Scanning, SetFull, NoRoom, locals
<1>4. HistoryType'
  BY <1>0 DEF HistoryType, SetFull, NoRoom, history, Values
<1>5. Control'
  BY <1>0 DEF Control, OnChain, At, Up, Looping, Walking, Collecting, Scanning, SetFull, NoRoom, Ready, flash, ram, locals
<1> QED BY <1>1, <1>2, <1>3, <1>4, <1>5 DEF Layout

(* SetSpin leaves the flash and kv_mgr_t alone.                            *)
LEMMA SetSpinStep == ASSUME IInv, NEW k \in Keys, NEW v \in Vals, SetSpin(k, v) PROVE IInv'
<1> USE DEF IInv, TypeOK
<1>0. Searched(k) = space
  BY SearchedSame DEF Ready, SetSpin, NoRoom
<1>1. Layout'
  <2>1. UNCHANGED <<hdr, slot, fill, state, space, clean_blk_nums, write_pos,
                    blk, dest, unclean>>
    BY <1>0 DEF SetSpin, NoRoom, flash, ram, locals
  <2>2. /\ Looping' = Looping /\ (Looping /\ Walking)' = (Looping /\ Walking)
        /\ Collecting' = Collecting
        /\ pc \notin {"erase", "format"} /\ pc' \notin {"erase", "format"}
        /\ (pc' = "unclean") = (pc = "unclean")
    BY <1>0 DEF SetSpin, NoRoom, Ready, Looping, Walking, Collecting, Scanning, locals
  <2> QED BY <2>1, <2>2, LayoutSame
<1>2. RamType'
  BY <1>0 DEF RamType, SetSpin, NoRoom, ram, locals
<1>3. LocalType'
  BY <1>0 DEF LocalType, Points, Booting, Scanning, SetSpin, NoRoom, locals
<1>4. HistoryType'
  BY <1>0 DEF HistoryType, SetSpin, NoRoom, history, Values
<1>5. Control'
  BY <1>0 DEF Control, OnChain, At, Up, Looping, Walking, Collecting, Scanning, SetSpin, NoRoom, Ready, flash, ram, locals
<1> QED BY <1>1, <1>2, <1>3, <1>4, <1>5 DEF Layout

(* Get changes nothing but the answer.                                     *)
LEMMA GetStep == ASSUME IInv, NEW k \in Keys, Get(k) PROVE IInv'
<1> USE DEF IInv, TypeOK
<1>0. Searched(k) = space
  BY SearchedSame DEF Ready, Get
<1>1. Layout'
  <2>1. UNCHANGED <<hdr, slot, fill, state, space, clean_blk_nums, write_pos,
                    blk, dest, unclean>>
    BY <1>0 DEF Get, flash, ram, locals
  <2>2. /\ Looping' = Looping /\ (Looping /\ Walking)' = (Looping /\ Walking)
        /\ Collecting' = Collecting
        /\ pc \notin {"erase", "format"} /\ pc' \notin {"erase", "format"}
        /\ (pc' = "unclean") = (pc = "unclean")
    BY <1>0 DEF Get, Ready, Looping, Walking, Collecting, Scanning, locals
  <2> QED BY <2>1, <2>2, LayoutSame
<1>2. RamType'
  BY <1>0 DEF RamType, Get, ram, locals
<1>3. LocalType'
  BY <1>0 DEF LocalType, Points, Booting, Scanning, Get, locals
<1>4. HistoryType'
  BY <1>0, ReadType DEF HistoryType, Get, history
<1>5. Control'
  BY <1>0 DEF Control, OnChain, At, Up, Looping, Walking, Collecting, Scanning, Get, Ready, flash, ram, locals
<1> QED BY <1>1, <1>2, <1>3, <1>4, <1>5 DEF Layout

(* Delete picks a live item.                                               *)
LEMMA DeleteStep == ASSUME IInv, NEW k \in Keys, Delete(k) PROVE IInv'
<1> USE DEF IInv, TypeOK
<1>0. Searched(k) = space
  BY SearchedSame DEF Ready, Delete
<1>1. Layout'
  <2>1. UNCHANGED <<hdr, slot, fill, state, space, clean_blk_nums, write_pos,
                    blk, dest, unclean>>
    BY <1>0 DEF Delete, flash, ram, locals
  <2>2. /\ Looping' = Looping /\ (Looping /\ Walking)' = (Looping /\ Walking)
        /\ Collecting' = Collecting
        /\ pc \notin {"erase", "format"} /\ pc' \notin {"erase", "format"}
        /\ (pc' = "unclean") = (pc = "unclean")
    BY <1>0 DEF Delete, Ready, Looping, Walking, Collecting, Scanning, locals
  <2> QED BY <2>1, <2>2, LayoutSame
<1>2. RamType'
  BY <1>0 DEF RamType, Delete, ram, locals
<1>3. LocalType'
  BY <1>0, BeginType DEF LocalType, Points, Booting, Scanning, Delete, locals, Found, kv_item_search, Live, Values
<1>4. HistoryType'
  BY <1>0, BeginType DEF HistoryType, Delete, history, Values
<1>5. Control'
  BY <1>0 DEF Control, OnChain, At, Up, Looping, Walking, Collecting, Scanning, Delete, Ready, flash, ram, locals, Begin, Found, kv_item_search, Live
<1> QED BY <1>1, <1>2, <1>3, <1>4, <1>5 DEF Layout

(* DeletePrefix starts a sweep at the first item of block 0.               *)
LEMMA DeletePrefixStep == ASSUME IInv, NEW ks \in Prefixes, DeletePrefix(ks) PROVE IInv'
<1> USE DEF IInv, TypeOK
<1>0. ks \in SUBSET Keys /\ NoVal \in Values
  BY ValueAssumption DEF Values
<1>1. Layout'
  <2>1. UNCHANGED <<hdr, slot, fill, state, space, clean_blk_nums, write_pos,
                    blk, dest, unclean>>
    BY DEF DeletePrefix, flash, ram, locals
  <2>2. /\ Looping' = Looping /\ (Looping /\ Walking)' = (Looping /\ Walking)
        /\ Collecting' = Collecting
        /\ pc \notin {"erase", "format"} /\ pc' \notin {"erase", "format"}
        /\ (pc' = "unclean") = (pc = "unclean")
    BY DEF DeletePrefix, Ready, Looping, Walking, Collecting, Scanning, locals
  <2> QED BY <2>1, <2>2, LayoutSame
<1>2. RamType'
  BY DEF RamType, DeletePrefix, ram, locals
<1>3. LocalType'
  BY <1>0, BeginType, Numbers DEF LocalType, Points, Booting, Scanning, DeletePrefix, locals, Pos
<1>4. HistoryType'
  BY <1>0, BeginType DEF HistoryType, DeletePrefix, history
<1>5. Control'
  BY <1>0, Numbers DEF Control, OnChain, At, Up, Looping, Walking, Collecting, Scanning, DeletePrefix, Ready, flash, ram, locals, Begin, Chained, Pos
<1> QED BY <1>1, <1>2, <1>3, <1>4, <1>5 DEF Layout

(* GcNothing only takes the request for a GC back.                         *)
LEMMA GcNothingStep == ASSUME IInv, GcNothing PROVE IInv'
<1> USE DEF IInv, TypeOK
<1>1. Layout'
  <2>1. UNCHANGED <<hdr, slot, fill, state, space, clean_blk_nums, write_pos,
                    blk, dest, unclean>>
    BY DEF GcNothing, flash, ram, locals
  <2>2. /\ Looping' = Looping /\ (Looping /\ Walking)' = (Looping /\ Walking)
        /\ Collecting' = Collecting
        /\ pc \notin {"erase", "format"} /\ pc' \notin {"erase", "format"}
        /\ (pc' = "unclean") = (pc = "unclean")
    BY DEF GcNothing, Ready, Looping, Walking, Collecting, Scanning, locals
  <2> QED BY <2>1, <2>2, LayoutSame
<1>2. RamType'
  BY DEF RamType, GcNothing, ram, locals
<1>3. LocalType'
  BY DEF LocalType, Points, Booting, Scanning, GcNothing, locals
<1>4. HistoryType'
  BY DEF HistoryType, GcNothing, history
<1>5. Control'
  BY DEF Control, OnChain, At, Up, Looping, Walking, Collecting, Scanning, GcNothing, Ready, flash, ram, locals
<1> QED BY <1>1, <1>2, <1>3, <1>4, <1>5 DEF Layout

(* KeepItem moves the cursor from one item to the next.                    *)
LEMMA KeepItemStep == ASSUME IInv, KeepItem PROVE IInv'
<1> USE DEF IInv, TypeOK
<1>0. CursorOK /\ pc \in Scanning
  BY CursorFacts DEF Scanning, KeepItem
<1>1. Layout'
  <2>1. UNCHANGED <<hdr, slot, fill, state, space, clean_blk_nums, write_pos,
                    blk, dest, unclean>>
    BY DEF KeepItem, flash, ram, locals
  <2>2. /\ Looping' = Looping /\ (Looping /\ Walking)' = (Looping /\ Walking)
        /\ Collecting' = Collecting
        /\ pc \notin {"erase", "format"} /\ pc' \notin {"erase", "format"}
        /\ (pc' = "unclean") = (pc = "unclean")
    BY DEF KeepItem, Ready, Looping, Walking, Collecting, Scanning, locals
  <2> QED BY <2>1, <2>2, LayoutSame
<1>2. RamType'
  BY DEF RamType, KeepItem, ram, locals
<1>3. LocalType'
  BY <1>0 DEF LocalType, Points, Booting, Scanning, KeepItem, locals, CursorOK
<1>4. HistoryType'
  BY DEF HistoryType, KeepItem, history
<1>5. Control'
  BY <1>0 DEF Control, OnChain, At, Up, Looping, Walking, Collecting, Scanning, KeepItem, Ready, flash, ram, locals, CursorOK
<1> QED BY <1>1, <1>2, <1>3, <1>4, <1>5 DEF Layout

(* DropSelf marks the live item at the cursor for deletion.                *)
LEMMA DropSelfStep == ASSUME IInv, DropSelf PROVE IInv'
<1> USE DEF IInv, TypeOK
<1>0. CursorOK /\ pc \in Scanning
  BY CursorFacts DEF Scanning, DropSelf
<1>1. Layout'
  <2>1. UNCHANGED <<hdr, slot, fill, state, space, clean_blk_nums, write_pos,
                    blk, dest, unclean>>
    BY DEF DropSelf, DropItem, flash, ram, locals
  <2>2. /\ Looping' = Looping /\ (Looping /\ Walking)' = (Looping /\ Walking)
        /\ Collecting' = Collecting
        /\ pc \notin {"erase", "format"} /\ pc' \notin {"erase", "format"}
        /\ (pc' = "unclean") = (pc = "unclean")
    BY DEF DropSelf, DropItem, Ready, Looping, Walking, Collecting, Scanning, locals
  <2> QED BY <2>1, <2>2, LayoutSame
<1>2. RamType'
  BY DEF RamType, DropSelf, DropItem, ram, locals
<1>3. LocalType'
  BY <1>0 DEF LocalType, Points, Booting, Scanning, DropSelf, DropItem, locals, CursorOK
<1>4. HistoryType'
  BY DEF HistoryType, DropSelf, DropItem, history
<1>5. Control'
  BY <1>0 DEF Control, OnChain, At, Up, Looping, Walking, Collecting, Scanning, DropSelf, DropItem, Ready, flash, ram, locals, CursorOK, OnItem, Cursor
<1> QED BY <1>1, <1>2, <1>3, <1>4, <1>5 DEF Layout

(* DropOrigin marks the live item that the one at the cursor replaces.     *)
LEMMA DropOriginStep == ASSUME IInv, DropOrigin PROVE IInv'
<1> USE DEF IInv, TypeOK
<1>0. CursorOK /\ pc \in Scanning
  BY CursorFacts DEF Scanning, DropOrigin
<1>1. Layout'
  <2>1. UNCHANGED <<hdr, slot, fill, state, space, clean_blk_nums, write_pos,
                    blk, dest, unclean>>
    BY DEF DropOrigin, DropItem, flash, ram, locals
  <2>2. /\ Looping' = Looping /\ (Looping /\ Walking)' = (Looping /\ Walking)
        /\ Collecting' = Collecting
        /\ pc \notin {"erase", "format"} /\ pc' \notin {"erase", "format"}
        /\ (pc' = "unclean") = (pc = "unclean")
    BY DEF DropOrigin, DropItem, Ready, Looping, Walking, Collecting, Scanning, locals
  <2> QED BY <2>1, <2>2, LayoutSame
<1>2. RamType'
  BY DEF RamType, DropOrigin, DropItem, ram, locals
<1>3. LocalType'
  BY <1>0 DEF LocalType, Points, Booting, Scanning, DropOrigin, DropItem, locals, CursorOK, Supersedes, Item
<1>4. HistoryType'
  BY DEF HistoryType, DropOrigin, DropItem, history
<1>5. Control'
  BY <1>0 DEF Control, OnChain, At, Up, Looping, Walking, Collecting, Scanning, DropOrigin, DropItem, Ready, flash, ram, locals, CursorOK, Supersedes, Item, OnItem
<1> QED BY <1>1, <1>2, <1>3, <1>4, <1>5 DEF Layout

(* EndSweep goes on to the first item of the next block, or finishes.      *)
LEMMA EndSweepStep == ASSUME IInv, EndSweep PROVE IInv'
<1> USE DEF IInv, TypeOK
<1>0. CursorOK /\ pc \in Scanning
  BY CursorFacts DEF Scanning, EndSweep
<1>6. space' = space
  BY SpaceKept DEF EndSweep
<1>1. Layout'
  <2>1. UNCHANGED <<hdr, slot, fill, state, space, clean_blk_nums, write_pos,
                    blk, dest, unclean>>
    BY <1>6 DEF EndSweep, Finish, flash, ram, locals
  <2>2. /\ Looping' = Looping /\ (Looping /\ Walking)' = (Looping /\ Walking)
        /\ Collecting' = Collecting
        /\ pc \notin {"erase", "format"} /\ pc' \notin {"erase", "format"}
        /\ (pc' = "unclean") = (pc = "unclean")
    BY <1>6 DEF EndSweep, Finish, Ready, Looping, Walking, Collecting, Scanning, locals
  <2> QED BY <2>1, <2>2, LayoutSame
<1>2. RamType'
  BY <1>6 DEF RamType, EndSweep, Finish, ram, locals
<1>3. LocalType'
  <2>1. CASE at[1] + 1 < NBlocks
    <3>1. at' = <<at[1] + 1, HdrSize>> /\ at[1] + 1 \in Blocks
      BY <1>0, <2>1, Numbers DEF EndSweep, CursorOK
    <3>2. at' \in Pos
      BY <3>1, Numbers DEF Pos
    <3> QED BY <2>1, <3>2 DEF LocalType, Points, EndSweep
  <2>2. CASE ~(at[1] + 1 < NBlocks)
    <3>1. Finish /\ at' = NoPos
      BY <2>2 DEF EndSweep
    <3>2. req' \in [keys : SUBSET Keys, val : Values]
      BY <3>1, FinishType DEF LocalType
    <3> QED BY <3>1, <3>2 DEF LocalType, Points, EndSweep, Finish
  <2> QED BY <2>1, <2>2
<1>4. HistoryType'
  BY FinishType DEF LocalType, HistoryType, EndSweep, history
<1>5. Control'
  <2>1. CASE at[1] + 1 < NBlocks
    <3>1. at' = <<at[1] + 1, HdrSize>> /\ at[1] + 1 \in Blocks
      BY <1>0, <2>1, Numbers DEF EndSweep, CursorOK
    <3>2. at' \in Pos /\ OnChain(at'[1], at'[2])
      BY <3>1, Numbers DEF Pos, Chained
    <3> QED BY <2>1, <3>1, <3>2 DEF Control, OnChain, Up, EndSweep, Looping, Walking, Collecting, Scanning, flash
  <2>2. CASE ~(at[1] + 1 < NBlocks)
    BY <2>2 DEF Control, Up, EndSweep, Finish, Looping, Walking, Collecting, Scanning, flash
  <2> QED BY <2>1, <2>2
<1> QED BY <1>1, <1>2, <1>3, <1>4, <1>5 DEF Layout

(* SetOpen moves write_pos to the frontier of a block with room.           *)
LEMMA SetOpenStep == ASSUME IInv, NEW k \in Keys, NEW v \in Vals, SetOpen(k, v) PROVE IInv'
<1> USE DEF IInv, TypeOK
<1>1. /\ pc = "idle" /\ gc_trigger = 0 /\ Searched(k) = space
      /\ space' = space /\ gc_trigger' = gc_trigger
      /\ Begin({k}, v) /\ pc' = "store" /\ back' = "reply"
      /\ UNCHANGED <<slot, fill, at, blk, dest, unclean>>
  BY SearchedSame DEF SetOpen, Ready, StartStore
<1>2. old' \in Pos \cup {NoPos} /\ (old' # NoPos => At(old').state = "normal")
  BY DEF SetOpen, StartStore, Found, kv_item_search, Live
<1>3. PICK i \in Blocks : /\ space[i] > Size(k, v)
                          /\ write_pos' = <<i, BlockSize - space[i]>>
                          /\ IF state[i] = "clean"
                             THEN /\ SetBlockState(i, "used")
                                  /\ clean_blk_nums' = clean_blk_nums - 1
                             ELSE KeepBlockState /\ UNCHANGED clean_blk_nums
  BY <1>1 DEF SetOpen, Fits
<1>4. /\ ~Looping /\ ~Looping' /\ ~Collecting /\ ~Collecting' /\ ~Walking /\ ~Walking'
      /\ \A c \in Blocks : Measured(c)
  BY <1>1 DEF Looping, Collecting, Walking, Scanning, Measured
<1>5. Up
  BY <1>1, <1>4 DEF Control
<1>6. unclean = {}
  BY <1>5 DEF Frontier
<1>7. \A c \in Blocks : state[c] = hdr[c] /\ hdr[c] # "none" /\ space[c] = BlockSize - fill[c]
  BY <1>4 DEF Mirrored
<1>8. write_pos' = <<i, fill[i]>> /\ write_pos' \in Pos /\ write_pos' # NoPos
  <2>1. write_pos' = <<i, fill[i]>>
    BY <1>3, <1>7, Numbers DEF FlashType
  <2>2. <<i, fill[i]>> \in Pos
    BY Numbers DEF FlashType, Pos
  <2> QED BY <2>1, <2>2, Numbers
<1>9. /\ FlashType' /\ Chained' /\ Mirrored' /\ CleanErased' /\ CleanCount'
      /\ clean_blk_nums' \in 0..NBlocks
      /\ state' \in [Blocks -> {"unset", "clean", "used", "dirty"}]
      /\ state'[i] \in {"used", "dirty"}
  <2>1. CASE state[i] = "clean"
    <3>1. i \in Counted
      BY <2>1, <1>1, <1>4, <1>6 DEF Counted
    <3> QED BY <2>1, <3>1, <1>1, <1>3, <1>4, <1>6, UseKeeps
  <2>2. CASE state[i] # "clean"
    <3>1. UNCHANGED <<hdr, slot, fill, state, space, clean_blk_nums, unclean>>
      BY <2>2, <1>1, <1>3 DEF KeepBlockState
    <3>2. FlashType' /\ Chained' /\ Mirrored'
      BY <3>1, <1>4, <1>7 DEF FlashType, Chained, OnChain, Mirrored
    <3>3. CleanErased'
      BY <3>1, <1>1, <1>4 DEF CleanErased
    <3>4. CleanCount'
      <4>1. Counted' = Counted
        BY <3>1, <1>1, <1>4 DEF Counted
      <4> QED BY <3>1, <4>1 DEF CleanCount
    <3>5. state[i] \in {"used", "dirty"}
      BY <2>2, <1>7 DEF FlashType
    <3> QED BY <3>1, <3>2, <3>3, <3>4, <3>5 DEF RamType
  <2> QED BY <2>1, <2>2
<1>10. RamType'
  BY <1>1, <1>8, <1>9 DEF RamType
<1>11. LocalType'
  <2>1. req' \in [keys : SUBSET Keys, val : Values]
    BY <1>1, BeginType DEF Values
  <2> QED BY <2>1, <1>1, <1>2 DEF LocalType, Points
<1>12. HistoryType'
  BY <1>1, BeginType DEF Values
<1>13. Frontier'
  BY <1>1, <1>4, <1>6, <1>8, <1>9, Numbers DEF Frontier
<1>14. Control'
  <2>1. req' = [keys |-> {k}, val |-> v]
    BY <1>1 DEF Begin
  <2>2. Size(k, v) < space[write_pos'[1]]
    BY <1>3, <1>8, SizeAssumption, Numbers DEF RamType
  <2>3. (old # NoPos => At(old).state = "normal")'
    BY <1>1, <1>2 DEF At
  <2>4. (pc = "store" => /\ back = "reply"
                         /\ \E c \in Keys : req.keys = {c} /\ req.val \in Vals
                              /\ Size(c, req.val) < space[write_pos[1]]
                         /\ old # NoPos => At(old).state = "normal")'
    BY <1>1, <2>1, <2>2, <2>3
  <2> QED BY <2>4, <1>1, <1>4, <1>8 DEF Control, Up
<1> QED BY <1>9, <1>10, <1>11, <1>12, <1>13, <1>14

(* Store writes the new item at write_pos, where it fits.                  *)
LEMMA StoreStep == ASSUME IInv, Store PROVE IInv'
<1> USE DEF IInv, TypeOK
<1>1. /\ pc = "store" /\ back = "reply"
      /\ UNCHANGED <<state, clean_blk_nums, gc_trigger, at, blk, dest, unclean, back>>
  BY DEF Store, Control
<1>2. PICK k \in req.keys : Program(write_pos, NewItem(k)) /\ Advance(Size(k, req.val))
  BY DEF Store
<1>3. Up /\ ~Looping /\ ~Walking /\ ~Collecting
  BY <1>1 DEF Looping, Walking, Collecting, Scanning, Control
<1>4. PICK s \in Item : s = NewItem(k)
  BY <1>1, StoreFits
<1>5. Program(write_pos, s) /\ Advance(Len(s)) /\ write_pos[2] + Len(s) < BlockSize
  BY <1>1, <1>2, <1>4, StoreFits
<1>8. \/ Finish /\ old' = NoPos /\ pc' = "idle"
      \/ pc' = "del" /\ old # NoPos /\ UNCHANGED <<req, old, history>>
  BY DEF Store, Finish
<1>9. /\ ~Looping' /\ ~Walking' /\ ~Collecting' /\ pc' \in {"del", "idle"}
  BY <1>1, <1>8 DEF Looping, Walking, Collecting, Scanning
<1>10. Looping' = Looping /\ Collecting' = Collecting
  BY <1>1, <1>9 DEF Looping, Collecting
<1>11. /\ Layout' /\ write_pos' \in Pos /\ space' \in [Blocks -> 0..BlockSize] /\ Grows
  BY <1>1, <1>3, <1>5, <1>9, <1>10, AppendKeeps
<1>12. RamType'
  BY <1>1, <1>11 DEF RamType
<1>13. LocalType' /\ HistoryType'
  <2>1. HistoryType' /\ req' \in [keys : SUBSET Keys, val : Values]
    BY <1>8, FinishType DEF LocalType, HistoryType, history
  <2> QED BY <2>1, <1>1, <1>8 DEF LocalType, Points
<1>14. Control'
  <2>1. (pc = "del" => old \in Pos /\ At(old).state = "normal")'
    <3> SUFFICES ASSUME pc' = "del" PROVE old' \in Pos /\ At(old)'.state = "normal"
      OBVIOUS
    <3>1. old' = old /\ old \in Pos /\ At(old).state = "normal"
      BY <1>1, <1>8 DEF Control, LocalType
    <3>2. At(old) # Blank /\ old[1] \in Blocks /\ old[2] \in Offsets
      BY <3>1, Numbers, SlotTypes DEF Pos
    <3>3. slot'[old[1]][old[2]] = slot[old[1]][old[2]]
      BY <3>2, <1>11 DEF Grows, At
    <3> QED BY <3>1, <3>3 DEF At
  <2>2. write_pos' # NoPos
    BY <1>11, Numbers
  <2> QED BY <2>1, <2>2, <1>1, <1>9 DEF Control, Up
<1> QED BY <1>11, <1>12, <1>13, <1>14 DEF Layout

(* CopyItem moves write_pos and the cursor on by the same item.            *)
LEMMA CopyItemStep == ASSUME IInv, CopyItem PROVE IInv'
<1> USE DEF IInv, TypeOK
<1>1. /\ pc = "copy" /\ pc' = "copy" /\ OnItem /\ at' = Past
      /\ UNCHANGED <<state, clean_blk_nums, gc_trigger, req, old, blk, dest, unclean,
                     back, want, reply, exposed, lost>>
  BY DEF CopyItem, history
<1>2. CursorOK /\ ~AtEnd /\ Cursor \in Item
  BY <1>1, CursorFacts DEF Scanning, CursorOK
<1>3. /\ Up /\ ~Looping /\ Walking /\ Collecting /\ ~Looping' /\ Walking' /\ Collecting'
  BY <1>1 DEF Looping, Walking, Collecting, Scanning, Control
<1>4. PICK s \in Item : s = Cursor
  BY <1>2
<1>5. /\ Len(s) \in ItemHdr..ItemMax /\ at[2] + Len(s) <= fill[at[1]]
      /\ Past = <<at[1], at[2] + Len(s)>> /\ Past \in Pos
      /\ Past[1] = at[1] /\ Past[2] = at[2] + Len(s)
      /\ OnChain(Past[1], Past[2])
      /\ at[1] \in Blocks /\ at[2] \in Offsets /\ fill[at[1]] \in Offsets
  BY <1>2, <1>4, Numbers DEF CursorOK, FlashType
<1>6. /\ write_pos[1] = dest /\ dest \in Blocks /\ fill[dest] \in Offsets
      /\ state[at[1]] = "dirty" /\ fill[dest] <= at[2]
  BY <1>1, <1>3 DEF Frontier, Control, FlashType, LocalType
<1>7. write_pos[2] + Len(s) < BlockSize
  BY <1>1, <1>4, CopyFits
<1>8. Program(write_pos, s) /\ Advance(Len(s))
  BY <1>4 DEF CopyItem
<1>9. Looping' = Looping /\ Collecting' = Collecting
  BY <1>1 DEF Looping, Collecting
<1>10. /\ Layout' /\ write_pos' \in Pos /\ space' \in [Blocks -> 0..BlockSize] /\ Grows
       /\ fill' = [fill EXCEPT ![write_pos[1]] = @ + Len(s)]
  BY <1>1, <1>3, <1>7, <1>8, <1>9, AppendKeeps
<1>11. RamType' /\ LocalType' /\ HistoryType'
  BY <1>1, <1>5, <1>10 DEF RamType, LocalType, HistoryType
<1>12. Control'
  <2>1. at' \in Pos /\ OnChain(at[1], at[2])'
    <3>1. Past[2] \in Int
      BY <1>5, Numbers
    <3> QED BY <1>1, <1>5, <1>10, <3>1 DEF Grows, OnChain
  <2>2. fill'[dest] <= at'[2] /\ state'[at'[1]] = "dirty"
    <3>1. fill'[dest] = fill[dest] + Len(s)
      BY <1>6, <1>10 DEF FlashType
    <3> QED BY <3>1, <1>1, <1>5, <1>6, Numbers
  <2>3. write_pos' # NoPos
    BY <1>10, Numbers
  <2> QED BY <2>1, <2>2, <2>3, <1>1, <1>3 DEF Control, Up
<1> QED BY <1>10, <1>11, <1>12 DEF Layout

(* MarkDirty marks a block in use dirty, on the flash and in RAM.          *)
LEMMA MarkDirtyStep == ASSUME IInv, MarkDirty PROVE IInv'
<1> USE DEF IInv, TypeOK
<1>1. /\ pc = "mark" /\ SetBlockState(old[1], "dirty")
      /\ UNCHANGED <<slot, fill, space, clean_blk_nums, write_pos, gc_trigger,
                     at, blk, dest, unclean, back>>
  BY DEF MarkDirty
<1>2. /\ back \in {"reply", "sweep", "scan"} /\ old \in Pos /\ old[1] \in Blocks
      /\ state[old[1]] = "used"
  BY <1>1, Numbers DEF Control, Pos
<1>3. \/ back = "reply" /\ Finish /\ pc' = "idle" /\ old' = NoPos
      \/ /\ back \in {"sweep", "scan"} /\ pc' = back /\ old' = NoPos
         /\ UNCHANGED <<req, history>>
  BY <1>1, <1>2 DEF MarkDirty, Resume, Finish
<1>4. /\ Looping' = Looping /\ Walking' = Walking /\ Collecting' = Collecting
      /\ pc' \in {"idle", "sweep", "scan"} /\ ~Collecting
  BY <1>1, <1>2, <1>3 DEF Looping, Walking, Collecting, Scanning
<1>5. hdr[old[1]] = "used"
  <2>1. CASE Measured(old[1])
    BY <2>1, <1>2 DEF Mirrored
  <2>2. CASE ~Measured(old[1])
    <3>1. Looping /\ ~(old[1] < blk)
      BY <2>2, <1>1 DEF Measured
    <3>2. old[1] \in Int /\ blk \in Int
      BY <1>2, Numbers DEF LocalType
    <3>3. old[1] = blk \/ old[1] > blk
      BY <3>1, <3>2
    <3> QED BY <3>1, <3>3, <1>2 DEF Mirrored
  <2> QED BY <2>1, <2>2
<1>6. PICK b \in Blocks : b = old[1]
  BY <1>2
<1>7. /\ Layout'
      /\ state' \in [Blocks -> {"unset", "clean", "used", "dirty"}]
  BY <1>1, <1>2, <1>4, <1>5, <1>6, DirtyKeeps
<1>8. RamType'
  BY <1>1, <1>7 DEF RamType
<1>9. LocalType' /\ HistoryType'
  <2>1. HistoryType' /\ req' \in [keys : SUBSET Keys, val : Values]
    BY <1>3, FinishType DEF LocalType, HistoryType, history
  <2> QED BY <2>1, <1>1, <1>3 DEF LocalType, Points, Booting, Scanning
<1>10. Control'
  <2>1. Walking' => at' \in Pos /\ OnChain(at[1], at[2])'
    BY <1>1, <1>4 DEF Control, OnChain
  <2>2. Looping' /\ Walking' => at'[1] = blk'
    BY <1>1, <1>4 DEF Control
  <2>3. ~Up' => Looping'
    BY <1>1, <1>4 DEF Control, Up
  <2> QED BY <2>1, <2>2, <2>3, <1>4 DEF Control
<1> QED BY <1>7, <1>8, <1>9, <1>10 DEF Layout

(* EndCopy turns from the copy to the erase of the dirty block.            *)
LEMMA EndCopyStep == ASSUME IInv, EndCopy PROVE IInv'
<1> USE DEF IInv, TypeOK
<1>1. /\ pc = "copy" /\ AtEnd /\ space' = space /\ at' = NoPos
      /\ pc' = "erase" /\ blk' = at[1] /\ back' = "use"
      /\ UNCHANGED <<hdr, slot, fill, state, clean_blk_nums, write_pos, gc_trigger,
                     req, old, dest, unclean, want, reply, exposed, lost>>
  BY SpaceKept DEF EndCopy, Scanned, flash, history
<1>2. /\ ~Looping /\ ~Looping' /\ Collecting /\ Collecting' /\ ~Walking' /\ Up /\ Walking
      /\ \A b \in Blocks : Measured(b)
  BY <1>1 DEF Looping, Walking, Collecting, Scanning, Control, Measured
<1>3. /\ at \in Pos /\ at[1] \in Blocks /\ state[at[1]] = "dirty" /\ dest \in Blocks
      /\ state[dest] = "clean" /\ write_pos[1] = dest /\ unclean = {}
  BY <1>1, <1>2, Numbers DEF Control, Frontier, LocalType, Pos
<1>4. FlashType' /\ Chained' /\ Mirrored'
  BY <1>1, <1>2 DEF FlashType, Chained, OnChain, Mirrored
<1>5. CleanErased'
  BY <1>1, <1>2, <1>3 DEF CleanErased
<1>6. CleanCount'
  <2>1. Counted' = Counted
    BY <1>1, <1>2, <1>3 DEF Counted
  <2> QED BY <1>1, <2>1 DEF CleanCount
<1>7. Frontier'
  BY <1>1, <1>2, <1>3 DEF Frontier, Up
<1>8. RamType' /\ LocalType' /\ HistoryType'
  BY <1>1, <1>3 DEF RamType, LocalType, HistoryType, Points
<1>9. Control'
  BY <1>1, <1>2, <1>3 DEF Control, Up
<1> QED BY <1>4, <1>5, <1>6, <1>7, <1>8, <1>9

(* EndRecovery measures its block, and counts it if it is clean.           *)
LEMMA EndRecoveryStep == ASSUME IInv, EndRecovery PROVE IInv'
<1> USE DEF IInv, TypeOK
<1>1. /\ pc = "scan" /\ AtEnd /\ at' = NoPos
      /\ space' = [space EXCEPT ![at[1]] = Room(at[2])]
      /\ UNCHANGED <<hdr, slot, fill, state, write_pos, gc_trigger,
                     req, old, dest, back, want, reply, exposed, lost>>
  BY DEF EndRecovery, Scanned, flash, history
<1>2. /\ Looping /\ Walking /\ ~Collecting /\ ~Up
  <2>1. Looping
    BY <1>1 DEF Looping
  <2> QED BY <1>1, <2>1 DEF Walking, Collecting, Scanning, Frontier
<1>3. /\ at[1] = blk /\ at[2] = fill[blk] /\ blk \in Blocks /\ fill[blk] \in Offsets
      /\ state[blk] = hdr[blk] /\ hdr[blk] # "none"
  BY <1>1, <1>2, CursorFacts DEF CursorOK, Scanning, Control, Mirrored, LocalType, FlashType
<1>4. /\ space' = [space EXCEPT ![blk] = BlockSize - fill[blk]]
      /\ space'[blk] = BlockSize - fill[blk]
      /\ space' \in [Blocks -> 0..BlockSize]
  BY <1>1, <1>3, RoomLeft DEF RamType
<1>5. blk \notin unclean /\ blk \notin Counted
  BY <1>2, <1>3, Numbers DEF CleanErased, Counted, LocalType
<1>6. \/ /\ state[blk] # "clean" /\ UNCHANGED <<unclean, clean_blk_nums>>
      \/ /\ state[blk] = "clean" /\ fill[blk] = HdrSize
         /\ clean_blk_nums' = clean_blk_nums + 1 /\ UNCHANGED unclean
      \/ /\ state[blk] = "clean" /\ UNCHANGED clean_blk_nums
         /\ unclean' = unclean \cup {blk}
  <2>1. space'[blk] = BlockSize - HdrSize => fill[blk] = HdrSize
    BY <1>3, <1>4, Numbers
  <2> QED BY <2>1 DEF EndRecovery
<1>7. \/ pc' = "probe" /\ blk' = blk + 1 /\ blk' \in Blocks
      \/ pc' = "unclean" /\ blk' = 0 /\ blk + 1 = NBlocks
  BY <1>3, Numbers DEF EndRecovery, NextBlock
<1>8. ~Walking' /\ ~Collecting' /\ pc' \in {"probe", "unclean"} /\ (pc' = "probe" <=> Looping')
  BY <1>7 DEF Looping, Walking, Collecting, Scanning
<1>9. \A b \in Blocks : Measured(b)' <=> b <= blk
  <2> TAKE b \in Blocks
  <2>1. b \in 0..(NBlocks - 1) /\ blk \in 0..(NBlocks - 1) /\ NBlocks \in Nat
    BY <1>3, Numbers
  <2> QED BY <2>1, <1>7, <1>8 DEF Measured
<1>10. \A b \in Blocks : b <= blk => b = blk \/ Measured(b)
  BY <1>1, <1>3, Numbers DEF Measured
<1>11. \A b \in Blocks : b # blk => space'[b] = space[b]
  BY <1>4 DEF RamType
<1>12. FlashType' /\ Chained'
  BY <1>1 DEF FlashType, Chained, OnChain
<1>13. Mirrored'
  <2> SUFFICES ASSUME NEW b \in Blocks
               PROVE  /\ b <= blk => /\ state[b] = hdr[b] /\ hdr[b] # "none"
                                     /\ space'[b] = BlockSize - fill[b]
                      /\ Looping' /\ b > blk' => state[b] = "unset"
                      /\ Looping' /\ b = blk' => state[b] = "unset"
    BY <1>1, <1>8, <1>9 DEF Mirrored
  <2>1. b <= blk => /\ state[b] = hdr[b] /\ hdr[b] # "none"
                    /\ space'[b] = BlockSize - fill[b]
    BY <1>3, <1>4, <1>10, <1>11 DEF Mirrored
  <2>2. Looping' /\ (b > blk' \/ b = blk') => b > blk
    BY <1>3, <1>7, <1>8, Numbers
  <2>3. b > blk => state[b] = "unset"
    BY <1>2 DEF Mirrored
  <2> QED BY <2>1, <2>2, <2>3
<1>14. CleanErased'
  <2>1. ASSUME NEW b \in Blocks, b <= blk, state[b] = "clean"
        PROVE  fill[b] = HdrSize \/ b \in unclean'
    <3>1. CASE b = blk
      BY <3>1, <2>1, <1>6
    <3>2. CASE b # blk
      BY <3>2, <2>1, <1>1, <1>2, <1>6, <1>10 DEF CleanErased
    <3> QED BY <3>1, <3>2
  <2>2. ASSUME NEW b \in unclean'
        PROVE  state[b] = "clean" /\ (Looping' => b < blk')
    <3>1. b \in Blocks /\ (b = blk \/ b \in unclean)
      BY <1>3, <1>6 DEF LocalType
    <3>2. state[b] = "clean" /\ b <= blk
      BY <3>1, <1>2, <1>3, <1>5, <1>6, Numbers DEF CleanErased, LocalType
    <3> QED BY <3>1, <3>2, <1>3, <1>7, <1>8, Numbers
  <2> QED BY <2>1, <2>2, <1>1, <1>8, <1>9 DEF CleanErased
<1>15. CleanCount'
  <2>1. \A b \in Blocks : b \in Counted' <=>
            b \in Counted \/ (b = blk /\ state[blk] = "clean" /\ blk \notin unclean')
    <3> TAKE b \in Blocks
    <3>1. b \in Counted' <=> /\ state[b] = "clean" /\ b \notin unclean'
                             /\ ~(Looping' /\ b = blk')
      BY <1>1, <1>8 DEF Counted
    <3>2. Looping' /\ b = blk' => state[b] = "unset"
      BY <1>2, <1>3, <1>7, <1>8, Numbers DEF Mirrored
    <3>3. b # blk => (b \in unclean' <=> b \in unclean)
      BY <1>6
    <3> QED BY <3>1, <3>2, <3>3, <1>1, <1>2, <1>5 DEF Counted
  <2>2. Counted \subseteq Blocks /\ Counted' \subseteq Blocks
    BY DEF Counted
  <2>3. CASE state[blk] = "clean" /\ blk \notin unclean'
    <3>1. Counted' = Counted \cup {blk}
      BY <2>1, <2>2, <2>3, <1>3
    <3>2. Cardinality(Counted') = Cardinality(Counted) + 1
      BY <3>1, <2>2, <1>5, BlockCount, FS_AddElement
    <3> QED BY <3>2, <2>3, <1>3, <1>6 DEF CleanCount
  <2>4. CASE ~(state[blk] = "clean" /\ blk \notin unclean')
    <3>1. Counted' = Counted
      BY <2>1, <2>2, <2>4
    <3>2. clean_blk_nums' = clean_blk_nums
      BY <2>4, <1>5, <1>6
    <3> QED BY <3>1, <3>2 DEF CleanCount
  <2> QED BY <2>3, <2>4
<1>16. RamType'
  <2>1. clean_blk_nums' \in 0..NBlocks
    BY <1>15, BlockCount DEF CleanCount, Counted
  <2> QED BY <1>1, <1>4, <2>1 DEF RamType
<1>17. LocalType' /\ HistoryType'
  BY <1>1, <1>3, <1>6, <1>7, Numbers DEF LocalType, HistoryType, Points, Booting
<1>18. Frontier' /\ Control'
  BY <1>1, <1>2, <1>7, <1>8 DEF Frontier, Control, Up
<1> QED BY <1>12, <1>13, <1>14, <1>15, <1>16, <1>17, <1>18

(* DelItem changes an item's state byte and leaves its length alone.       *)
LEMMA DelItemStep == ASSUME IInv, DelItem PROVE IInv'
<1> USE DEF IInv, TypeOK
<1>1. /\ pc = "del"
      /\ slot' = [slot EXCEPT ![old[1]][old[2]].state = "deleted"]
      /\ UNCHANGED <<hdr, fill, state, space, clean_blk_nums, write_pos, gc_trigger,
                     at, blk, dest, unclean, back>>
  BY DEF DelItem, ram
<1>2. /\ back \in {"reply", "sweep", "scan"} /\ old \in Pos
      /\ old[1] \in Blocks /\ old[2] \in Offsets
      /\ At(old) = slot[old[1]][old[2]] /\ At(old).state = "normal"
  BY <1>1, Numbers DEF Control, Pos, At
<1>3. \/ pc' = "mark" /\ state[old[1]] = "used" /\ UNCHANGED <<req, old, history>>
      \/ back = "reply" /\ Finish /\ pc' = "idle" /\ old' = NoPos
      \/ /\ back \in {"sweep", "scan"} /\ pc' = back /\ old' = NoPos
         /\ UNCHANGED <<req, history>>
  BY <1>1, <1>2 DEF DelItem, Resume, Finish
<1>4. /\ Looping' = Looping /\ Walking' = Walking /\ Collecting' = Collecting
      /\ pc' \in {"mark", "idle", "sweep", "scan"} /\ ~Collecting
  BY <1>1, <1>2, <1>3 DEF Looping, Walking, Collecting, Scanning
<1>5. At(old) \in Item
  <2>1. At(old) \in Item \cup {Blank, Junk}
    BY <1>2 DEF FlashType
  <2> QED BY <2>1, <1>2, SlotTypes
<1>6. PICK s \in Item : /\ s.state = "deleted" /\ Len(s) = Len(At(old))
                        /\ slot' = [slot EXCEPT ![old[1]][old[2]] = s]
  <2> DEFINE d == [At(old) EXCEPT !.state = "deleted"]
  <2>1. d \in Item /\ d.state = "deleted" /\ d.key = At(old).key /\ d.val = At(old).val
    BY <1>5 DEF Item
  <2>2. Len(d) = Len(At(old))
    BY <2>1, <1>5, SlotTypes
  <2>3. slot' = [slot EXCEPT ![old[1]][old[2]] = d]
    BY <1>1, <1>2
  <2> QED BY <2>1, <2>2, <2>3
<1>7. slot' \in [Blocks -> [Offsets -> Item \cup {Blank, Junk}]]
  BY <1>2, <1>6 DEF FlashType
<1>8. \A b \in Blocks, o \in Offsets :
          /\ (slot'[b][o] # Blank) = (slot[b][o] # Blank)
          /\ Len(slot'[b][o]) = Len(slot[b][o])
  <2> TAKE b \in Blocks, o \in Offsets
  <2>1. CASE <<b, o>> = old
    <3>1. slot'[b][o] \in Item /\ slot[b][o] \in Item /\ Len(slot'[b][o]) = Len(slot[b][o])
      BY <2>1, <1>2, <1>5, <1>6 DEF FlashType
    <3> QED BY <3>1, SlotTypes
  <2>2. CASE <<b, o>> # old
    <3>1. slot'[b][o] = slot[b][o]
      BY <2>2, <1>2, <1>6, Numbers DEF FlashType, Pos
    <3> QED BY <3>1
  <2> QED BY <2>1, <2>2
<1>9. Chained'
  <2> SUFFICES ASSUME NEW b \in Blocks
               PROVE  /\ OnChain(b, HdrSize)'
                      /\ \A o \in Offsets : slot'[b][o] # Blank =>
                            /\ o + Len(slot'[b][o]) <= fill[b]
                            /\ OnChain(b, o + Len(slot[b][o]))'
                      /\ hdr[b] = "none" => fill[b] = HdrSize
    BY <1>1 DEF Chained
  <2>1. \A o : OnChain(b, o) => OnChain(b, o)'
    BY <1>1, <1>8 DEF OnChain
  <2>2. OnChain(b, HdrSize)'
    BY <2>1 DEF Chained
  <2>3. ASSUME NEW o \in Offsets, slot'[b][o] # Blank
        PROVE  /\ o + Len(slot'[b][o]) <= fill[b]
               /\ OnChain(b, o + Len(slot[b][o]))'
    <3>1. slot[b][o] # Blank /\ Len(slot'[b][o]) = Len(slot[b][o])
      BY <2>3, <1>8
    <3>2. o + Len(slot[b][o]) <= fill[b] /\ OnChain(b, o + Len(slot[b][o]))
      BY <3>1 DEF Chained
    <3>3. OnChain(b, o + Len(slot[b][o]))'
      BY <3>1, <3>2, <1>1, <1>8 DEF OnChain
    <3> QED BY <3>1, <3>2, <3>3
  <2> QED BY <2>2, <2>3 DEF Chained
<1>10. Mirrored' /\ CleanErased'
  BY <1>1, <1>4 DEF Mirrored, CleanErased, Measured
<1>11. CleanCount'
  <2>1. Counted' = Counted
    BY <1>1, <1>4 DEF Counted
  <2> QED BY <2>1, <1>1 DEF CleanCount
<1>12. Frontier'
  BY <1>1, <1>4 DEF Frontier, Up
<1>13. FlashType' /\ RamType' /\ LocalType' /\ HistoryType'
  <2>1. HistoryType' /\ req' \in [keys : SUBSET Keys, val : Values]
    BY <1>3, FinishType DEF LocalType, HistoryType, history
  <2>2. old' \in Pos \cup {NoPos}
    BY <1>2, <1>3
  <2> QED BY <2>1, <2>2, <1>1, <1>4, <1>7
         DEF FlashType, RamType, LocalType, Points, Booting, Scanning
<1>14. Control'
  <2>1. Walking' => at' \in Pos /\ OnChain(at[1], at[2])'
    <3> SUFFICES ASSUME Walking PROVE at \in Pos /\ OnChain(at[1], at[2])'
      BY <1>1, <1>4
    <3>1. at \in Pos /\ at[1] \in Blocks /\ OnChain(at[1], at[2])
      BY Numbers DEF Control, Pos
    <3> QED BY <3>1, <1>1, <1>8 DEF OnChain
  <2>2. Looping' /\ Walking' => at'[1] = blk'
    BY <1>1, <1>4 DEF Control
  <2>3. ~Up' => Looping'
    BY <1>1, <1>4 DEF Control, Up
  <2>4. pc' = "mark" => /\ old' \in Pos /\ back' \in {"reply", "sweep", "scan"}
                        /\ state'[old'[1]] = "used"
    BY <1>1, <1>2, <1>3
  <2> QED BY <2>1, <2>2, <2>3, <2>4, <1>4 DEF Control
<1> QED BY <1>9, <1>10, <1>11, <1>12, <1>13, <1>14

(* Erase blanks a block RAM no longer relies on.                           *)
LEMMA EraseStep == ASSUME IInv, Erase PROVE IInv'
<1> USE DEF IInv, TypeOK
<1>1. /\ pc = "erase" /\ pc' = "format"
      /\ hdr' = [hdr EXCEPT ![blk] = "none"]
      /\ slot' = [slot EXCEPT ![blk] = [o \in Offsets |-> Blank]]
      /\ fill' = [fill EXCEPT ![blk] = HdrSize]
      /\ UNCHANGED <<state, space, clean_blk_nums, write_pos, gc_trigger,
                     req, at, old, blk, dest, unclean, back, want, reply, exposed, lost>>
  BY DEF Erase, ram, locals, history
<1>2. /\ Looping' = Looping /\ Walking' = Walking /\ Collecting' = Collecting /\ ~Walking
  BY <1>1 DEF Looping, Walking, Collecting, Scanning
<1>3. blk \in Blocks
  BY DEF LocalType
<1>4. FlashType'
  BY <1>1, <1>3, Numbers DEF FlashType
<1>5. \A b \in Blocks : \/ /\ b = blk /\ hdr'[b] = "none" /\ fill'[b] = HdrSize
                           /\ \A o \in Offsets : slot'[b][o] = Blank
                        \/ /\ b # blk /\ hdr'[b] = hdr[b] /\ fill'[b] = fill[b]
                           /\ slot'[b] = slot[b]
  BY <1>1, <1>3 DEF FlashType
<1>6. Chained'
  BY <1>5 DEF Chained, OnChain
<1>7. \A b \in Blocks : Measured(b)' => Measured(b) /\ b # blk
  BY <1>1, <1>2 DEF Measured
<1>8. Mirrored'
  <2> SUFFICES ASSUME NEW b \in Blocks
               PROVE  /\ Measured(b)' => /\ state[b] = hdr'[b] /\ hdr'[b] # "none"
                                         /\ space[b] = BlockSize - fill'[b]
                      /\ Looping /\ b > blk => state[b] = "unset"
                      /\ Looping /\ b = blk => state[b] = "unset"
    BY <1>1, <1>2 DEF Mirrored
  <2>1. Looping /\ (b > blk \/ b = blk) => state[b] = "unset"
    BY <1>2 DEF Mirrored
  <2>2. Measured(b)' => Measured(b) /\ hdr'[b] = hdr[b] /\ fill'[b] = fill[b]
    BY <1>5, <1>7
  <2> QED BY <2>1, <2>2 DEF Mirrored
<1>9. CleanErased'
  <2>1. ASSUME NEW b \in Blocks, Measured(b)', state[b] = "clean"
        PROVE  fill'[b] = HdrSize \/ b \in unclean \/ (Collecting /\ b = dest)
    <3>1. Measured(b) /\ b # blk /\ fill'[b] = fill[b]
      BY <2>1, <1>5, <1>7
    <3> QED BY <3>1, <2>1 DEF CleanErased
  <2>2. \A b \in unclean : state[b] = "clean" /\ (Looping => b < blk) /\ b # blk
    BY <1>1 DEF CleanErased
  <2> QED BY <2>1, <2>2, <1>1, <1>2 DEF CleanErased
<1>10. CleanCount'
  <2>1. Counted' = Counted
    BY <1>1, <1>2 DEF Counted
  <2> QED BY <1>1, <2>1 DEF CleanCount
<1>11. Frontier'
  <2>1. Up => Collecting
    BY <1>1 DEF Frontier, Collecting
  <2>2. Up => write_pos[1] = dest /\ dest # blk /\ dest \in Blocks
    BY <2>1, <1>1 DEF Frontier, Control, LocalType
  <2>3. Up => fill'[write_pos[1]] = fill[write_pos[1]]
    BY <2>2, <1>5
  <2> QED BY <2>3, <1>1, <1>2 DEF Frontier, Up
<1>12. RamType' /\ LocalType' /\ HistoryType'
  BY <1>1 DEF RamType, LocalType, HistoryType, Points
<1>13. Control'
  BY <1>1, <1>2, <1>3, <1>5 DEF Control, Up
<1> QED BY <1>4, <1>6, <1>8, <1>9, <1>10, <1>11, <1>12, <1>13

(* Format makes an erased block a clean one and counts it.                 *)
LEMMA FormatStep == ASSUME IInv, Format PROVE IInv'
<1> USE DEF IInv, TypeOK
<1>1. /\ pc = "format"
      /\ hdr' = [hdr EXCEPT ![blk] = "clean"] /\ state' = [state EXCEPT ![blk] = "clean"]
      /\ space' = [space EXCEPT ![blk] = BlockSize - HdrSize]
      /\ clean_blk_nums' = clean_blk_nums + 1
      /\ UNCHANGED <<slot, fill, write_pos, gc_trigger, req, at, old, dest, unclean, back,
                     want, reply, exposed, lost>>
  BY DEF Format, SetBlockState, history
<1>2. /\ blk \in Blocks /\ hdr[blk] = "none" /\ fill[blk] = HdrSize
      /\ blk \notin unclean /\ blk \notin Counted /\ back \in {"next", "unclean", "use"}
      /\ ~Walking
  <2>1. blk \in Blocks /\ hdr[blk] = "none" /\ back \in {"next", "unclean", "use"}
    BY <1>1 DEF LocalType, Control
  <2> QED BY <2>1, <1>1 DEF Chained, CleanErased, Counted, Walking, Scanning
<1>3. /\ back = "next" <=> Looping
      /\ back = "use" <=> Collecting
  BY <1>1, <1>2 DEF Looping, Collecting
<1>4. \/ /\ back = "next" /\ pc' = "probe" /\ blk' = blk + 1 /\ blk' \in Blocks
      \/ /\ back = "next" /\ pc' = "unclean" /\ blk' = 0 /\ blk + 1 = NBlocks
      \/ /\ back = "unclean" /\ pc' = "unclean" /\ blk' = 0
      \/ /\ back = "use" /\ pc' = "use" /\ blk' = 0
  BY <1>1, <1>2, Numbers DEF Format, NextBlock
<1>5. /\ ~Walking' /\ pc' \in {"probe", "unclean", "use"} /\ (Looping' <=> pc' = "probe")
      /\ (Collecting' <=> back = "use") /\ blk' \in Blocks
  BY <1>2, <1>4, Numbers DEF Looping, Walking, Collecting, Scanning
<1>6. FlashType' /\ state' \in [Blocks -> {"unset", "clean", "used", "dirty"}]
      /\ space' \in [Blocks -> 0..BlockSize]
  <2>1. FlashType' /\ state' \in [Blocks -> {"unset", "clean", "used", "dirty"}]
    BY <1>1, <1>2 DEF FlashType, RamType
  <2>2. BlockSize - HdrSize \in 0..BlockSize
    BY Numbers
  <2> QED BY <1>1, <1>2, <2>1, <2>2 DEF RamType
<1>7. \A b \in Blocks : \/ /\ b = blk /\ hdr'[b] = "clean" /\ state'[b] = "clean"
                           /\ space'[b] = BlockSize - HdrSize
                        \/ /\ b # blk /\ hdr'[b] = hdr[b] /\ state'[b] = state[b]
                           /\ space'[b] = space[b]
  BY <1>1, <1>2 DEF FlashType, RamType
<1>8. \A b \in Blocks : Measured(b)' => b = blk \/ Measured(b)
  <2> SUFFICES ASSUME NEW b \in Blocks, Measured(b)', b # blk, Looping
               PROVE  b < blk
    BY DEF Measured
  <2>1. b \in 0..(NBlocks - 1) /\ blk \in 0..(NBlocks - 1) /\ NBlocks \in Nat
    BY <1>2, Numbers
  <2>2. CASE pc' = "probe"
    BY <2>1, <2>2, <1>3, <1>4, <1>5 DEF Measured
  <2>3. CASE pc' # "probe"
    BY <2>1, <2>3, <1>3, <1>4
  <2> QED BY <2>2, <2>3
<1>9. Chained'
  BY <1>1, <1>2, <1>7 DEF Chained, OnChain
<1>10. Looping' => \A b \in Blocks : b > blk' \/ b = blk' => b # blk /\ state[b] = "unset"
  <2> SUFFICES ASSUME Looping', NEW b \in Blocks, b > blk' \/ b = blk'
               PROVE  b # blk /\ state[b] = "unset"
    OBVIOUS
  <2>1. Looping /\ b > blk
    BY <1>2, <1>3, <1>4, <1>5, Numbers
  <2> QED BY <2>1, <1>2, Numbers DEF Mirrored
<1>11. Mirrored'
  <2> SUFFICES ASSUME NEW b \in Blocks
               PROVE  /\ Measured(b)' => /\ state'[b] = hdr'[b] /\ hdr'[b] # "none"
                                         /\ space'[b] = BlockSize - fill'[b]
                      /\ Looping' /\ b > blk' => state'[b] = "unset"
                      /\ Looping' /\ b = blk' => state'[b] = "unset"
    BY <1>5 DEF Mirrored
  <2>1. Measured(b)' => /\ state'[b] = hdr'[b] /\ hdr'[b] # "none"
                        /\ space'[b] = BlockSize - fill'[b]
    BY <1>1, <1>2, <1>7, <1>8 DEF Mirrored
  <2> QED BY <2>1, <1>7, <1>10
<1>12. CleanErased'
  <2>1. ASSUME NEW b \in Blocks, Measured(b)', state'[b] = "clean"
        PROVE  fill'[b] = HdrSize \/ b \in unclean \/ (Collecting' /\ b = dest)
    <3>1. CASE b = blk
      BY <3>1, <1>1, <1>2
    <3>2. CASE b # blk
      BY <3>2, <2>1, <1>1, <1>3, <1>5, <1>7, <1>8 DEF CleanErased
    <3> QED BY <3>1, <3>2
  <2>2. ASSUME NEW b \in unclean
        PROVE  state'[b] = "clean" /\ (Looping' => b < blk')
    <3>1. b \in Blocks /\ b # blk /\ state[b] = "clean" /\ (Looping => b < blk)
      BY <2>2, <1>2 DEF CleanErased, LocalType
    <3> QED BY <3>1, <1>2, <1>3, <1>4, <1>5, <1>7, Numbers
  <2> QED BY <2>1, <2>2, <1>1, <1>5 DEF CleanErased
<1>13. CleanCount'
  <2>1. Counted' = Counted \cup {blk}
    <3>1. \A b \in Blocks : b \in Counted' <=> b \in Counted \/ b = blk
      <4> TAKE b \in Blocks
      <4>1. b \in Counted' <=> /\ state'[b] = "clean" /\ b \notin unclean
                               /\ ~(Looping' /\ b = blk')
        BY <1>1, <1>5 DEF Counted
      <4>2. b \in Counted <=> state[b] = "clean" /\ b \notin unclean /\ b # blk
        BY <1>1 DEF Counted
      <4> QED BY <4>1, <4>2, <1>2, <1>7, <1>10
    <3> QED BY <3>1, <1>2 DEF Counted
  <2>2. Cardinality(Counted') = Cardinality(Counted) + 1
    BY <2>1, <1>2, BlockCount, FS_AddElement DEF Counted
  <2> QED BY <2>2, <1>1 DEF CleanCount
<1>14. Frontier'
  <2>1. Up => Collecting /\ write_pos[1] = dest /\ dest # blk /\ dest \in Blocks
    BY <1>1, <1>3 DEF Frontier, Control, LocalType
  <2> QED BY <2>1, <1>1, <1>3, <1>4, <1>5, <1>7 DEF Frontier, Up
<1>15. RamType' /\ LocalType' /\ HistoryType'
  <2>1. clean_blk_nums' \in 0..NBlocks
    BY <1>13, BlockCount DEF CleanCount, Counted
  <2> QED BY <2>1, <1>1, <1>5, <1>6 DEF RamType, LocalType, HistoryType, Points, Booting
<1>16. Control'
  <2>1. ~Up => ~Collecting
    BY <1>1 DEF Control, Looping, Collecting
  <2> QED BY <2>1, <1>1, <1>3, <1>4, <1>5 DEF Control, Up
<1> QED BY <1>6, <1>9, <1>11, <1>12, <1>13, <1>14, <1>15, <1>16

(* GcBegin moves write_pos to an erased block.                             *)
LEMMA GcBeginStep == ASSUME IInv, GcBegin PROVE IInv'
<1> USE DEF IInv, TypeOK
<1>1. /\ pc = "idle" /\ pc' = "copy" /\ reply' = "none" /\ exposed' = {} /\ lost' = {}
      /\ UNCHANGED <<hdr, slot, fill, state, space, clean_blk_nums, gc_trigger,
                     req, old, blk, unclean, back, want>>
  BY DEF GcBegin, flash
<1>2. PICK d \in Blocks, v \in Blocks :
          /\ state[d] = "clean" /\ state[v] = "dirty" /\ dest' = d
          /\ write_pos' = <<d, HdrSize>> /\ at' = <<v, HdrSize>>
  BY DEF GcBegin, InState
<1>3. /\ ~Looping /\ ~Looping' /\ ~Collecting /\ Collecting' /\ Walking' /\ Up
      /\ \A b \in Blocks : Measured(b) /\ Measured(b)'
  BY <1>1 DEF Looping, Walking, Collecting, Scanning, Control, Measured
<1>4. unclean = {} /\ fill[d] = HdrSize
  BY <1>1, <1>2, <1>3 DEF Frontier, CleanErased
<1>5. /\ write_pos' \in Pos /\ write_pos' # NoPos /\ at' \in Pos /\ at'[1] = v
      /\ at'[2] = HdrSize
  BY <1>2, Numbers DEF Pos
<1>6. FlashType' /\ Chained' /\ Mirrored'
  BY <1>1, <1>3 DEF FlashType, Chained, OnChain, Mirrored
<1>7. CleanErased'
  BY <1>1, <1>3, <1>4 DEF CleanErased
<1>8. CleanCount'
  <2>1. Counted' = Counted
    BY <1>1, <1>3 DEF Counted
  <2> QED BY <1>1, <2>1 DEF CleanCount
<1>9. Frontier'
  BY <1>1, <1>2, <1>3, <1>4, <1>5 DEF Frontier
<1>10. RamType' /\ LocalType' /\ HistoryType'
  BY <1>1, <1>2, <1>5 DEF RamType, LocalType, HistoryType, Points, Scanning
<1>11. Control'
  <2>1. OnChain(at[1], at[2])'
    BY <1>1, <1>2, <1>5, Numbers DEF Chained, OnChain
  <2>2. state'[at'[1]] = "dirty" /\ fill'[dest'] <= at'[2]
    BY <1>1, <1>2, <1>4, <1>5, Numbers
  <2> QED BY <2>1, <2>2, <1>1, <1>3, <1>5 DEF Control, Up
<1> QED BY <1>6, <1>7, <1>8, <1>9, <1>10, <1>11

(* GcUse takes GC's destination into use, with what was copied to it.      *)
LEMMA GcUseStep == ASSUME IInv, GcUse PROVE IInv'
<1> USE DEF IInv, TypeOK
<1>1. /\ pc = "use" /\ pc' = "idle" /\ SetBlockState(dest, "used")
      /\ clean_blk_nums' = clean_blk_nums - 1
      /\ gc_trigger' = 0 /\ dest' = 0 /\ back' = "reply"
      /\ UNCHANGED <<slot, fill, space, write_pos, req, at, old, blk, unclean,
                     want, reply, exposed, lost>>
  BY DEF GcUse, history
<1>2. /\ ~Looping /\ Collecting /\ ~Looping' /\ ~Collecting' /\ ~Walking' /\ Up
  BY <1>1 DEF Looping, Walking, Collecting, Scanning, Control
<1>3. /\ write_pos[1] = dest /\ state[dest] = "clean" /\ unclean = {} /\ dest \in Blocks
      /\ dest \in Counted
  BY <1>1, <1>2 DEF Frontier, LocalType, Counted
<1>4. PICK i \in Counted : i = dest
  BY <1>3
<1>5. /\ FlashType' /\ Chained' /\ Mirrored' /\ CleanErased' /\ CleanCount'
      /\ clean_blk_nums' \in 0..NBlocks
      /\ state' \in [Blocks -> {"unset", "clean", "used", "dirty"}]
      /\ \A c \in Blocks : state'[c] = IF c = i THEN "used" ELSE state[c]
  BY <1>1, <1>3, <1>4, UseKeeps
<1>6. Frontier'
  BY <1>1, <1>2, <1>3, <1>4, <1>5 DEF Frontier, Up
<1>7. RamType' /\ LocalType' /\ HistoryType'
  BY <1>1, <1>5, Numbers DEF RamType, LocalType, HistoryType, Points
<1>8. Control'
  BY <1>1, <1>2 DEF Control, Up
<1> QED BY <1>5, <1>6, <1>7, <1>8

(* Probe takes a block's state from its header, or has it formatted.       *)
LEMMA ProbeStep == ASSUME IInv, Probe PROVE IInv'
<1> USE DEF IInv, TypeOK
<1>1. pc = "probe" /\ Looping /\ ~Walking /\ ~Up /\ ~Collecting /\ blk \in Blocks
  BY DEF Probe, Looping, Walking, Scanning, Collecting, Frontier, LocalType
<1>2. CASE hdr[blk] = "none"
  <2>1. PICK b \in Blocks : b = blk
    BY <1>1
  <2>2. StartFormat(b, "next") /\ unclean' = unclean /\ exposed' = exposed
    BY <1>2, <2>1 DEF Probe
  <2>3. b \notin unclean /\ b \notin Counted
    BY <1>1, <2>1, Numbers DEF CleanErased, Counted
  <2> QED BY <2>1, <2>2, <2>3, <1>1, StartFormatKeeps DEF Probe, HistoryType
<1>3. CASE hdr[blk] # "none"
  <2>1. /\ state' = [state EXCEPT ![blk] = hdr[blk]]
        /\ at' = <<blk, HdrSize>> /\ pc' = "scan"
        /\ UNCHANGED <<hdr, slot, fill, space, clean_blk_nums, write_pos, gc_trigger,
                       req, old, blk, dest, unclean, back, want, reply, exposed, lost>>
    BY <1>3 DEF Probe, flash, history
  <2>2. Looping' /\ Walking' /\ ~Up' /\ ~Collecting'
    BY <2>1, <1>1 DEF Looping, Walking, Collecting, Scanning, Up
  <2>3. \A b \in Blocks : /\ Measured(b)' <=> Measured(b)
                          /\ Measured(b) => b # blk
    BY <2>1, <2>2, <1>1, Numbers DEF Measured, Probe
  <2>4. \A b \in Blocks : state'[b] = IF b = blk THEN hdr[b] ELSE state[b]
    BY <2>1, <1>1 DEF RamType
  <2>5. FlashType' /\ Chained'
    BY <2>1 DEF FlashType, Chained, OnChain
  <2>6. Mirrored'
    BY <2>1, <2>2, <2>3, <2>4, <1>1, <1>3, Numbers DEF Mirrored
  <2>7. CleanErased'
    <3>1. \A b \in unclean : b \in Blocks /\ b # blk /\ state[b] = "clean" /\ b < blk
      BY <1>1, Numbers DEF CleanErased, LocalType
    <3> QED BY <3>1, <2>1, <2>2, <2>3, <2>4, <1>1 DEF CleanErased
  <2>8. CleanCount'
    <3>1. Counted' = Counted
      BY <2>1, <2>2, <2>4, <1>1 DEF Counted
    <3> QED BY <2>1, <3>1 DEF CleanCount
  <2>9. at' \in Pos /\ at'[1] = blk /\ at'[2] = HdrSize
    BY <2>1, <1>1, Numbers DEF Pos
  <2>10. Frontier' /\ Control'
    <3>1. OnChain(at[1], at[2])'
      BY <2>1, <2>9, <1>1 DEF Chained, OnChain
    <3> QED BY <3>1, <2>1, <2>2, <2>9 DEF Frontier, Control
  <2>11. RamType' /\ LocalType' /\ HistoryType'
    BY <2>1, <2>9, <1>1, <1>3 DEF FlashType, RamType, LocalType, HistoryType, Points, Scanning
  <2> QED BY <2>5, <2>6, <2>7, <2>8, <2>10, <2>11
<1> QED BY <1>2, <1>3

(* UncleanFormat formats a block that was never counted as clean.          *)
LEMMA UncleanFormatStep == ASSUME IInv, UncleanFormat PROVE IInv'
<1>1. PICK b \in unclean : StartFormat(b, "unclean") /\ unclean' = unclean \ {b}
  BY DEF UncleanFormat
<1>2. pc = "unclean" /\ exposed' = exposed /\ ~Up
  BY DEF UncleanFormat, IInv, Frontier
<1>3. b \in Blocks /\ b \notin Counted /\ exposed \subseteq Keys
  BY DEF IInv, TypeOK, LocalType, HistoryType, Counted
<1> QED BY <1>1, <1>2, <1>3, StartFormatKeeps

(* FormatZero formats block 0, which is not clean as no block is.          *)
LEMMA FormatZeroStep == ASSUME IInv, FormatZero PROVE IInv'
<1>1. /\ pc = "unclean" /\ unclean = {} /\ unclean' = {} /\ clean_blk_nums = 0 /\ ~Up
      /\ StartFormat(0, "unclean")
      /\ exposed' = exposed \cup {k \in Keys : \E p \in Live(k) : p[1] = 0}
  BY DEF FormatZero, IInv, Frontier
<1>2. exposed' \subseteq Keys
  BY <1>1 DEF IInv, TypeOK, HistoryType
<1>3. 0 \in Blocks /\ 0 \notin Counted
  <2>1. Counted \subseteq Blocks /\ IsFiniteSet(Counted)
    BY BlockCount DEF Counted
  <2>2. Counted = {}
    BY <1>1, <2>1, FS_EmptySet DEF IInv, CleanCount
  <2> QED BY <2>2, Numbers
<1> QED BY <1>1, <1>2, <1>3, StartFormatKeeps

(* UncleanDirty marks dirty a block that was never counted as clean.       *)
LEMMA UncleanDirtyStep == ASSUME IInv, UncleanDirty PROVE IInv'
<1> USE DEF IInv, TypeOK
<1>1. /\ pc = "unclean"
      /\ UNCHANGED <<slot, fill, space, clean_blk_nums, write_pos, gc_trigger,
                     pc, req, at, old, blk, dest, back, want, reply, exposed, lost>>
  BY DEF UncleanDirty, history
<1>2. PICK b \in unclean : SetBlockState(b, "dirty") /\ unclean' = unclean \ {b}
  BY DEF UncleanDirty
<1>3. /\ ~Looping /\ ~Looping' /\ ~Walking /\ ~Walking' /\ ~Collecting /\ ~Collecting'
      /\ ~Up /\ ~Up' /\ \A c \in Blocks : Measured(c)
  BY <1>1, <1>2 DEF Looping, Walking, Collecting, Scanning, Frontier, Up, Measured
<1>4. b \in Blocks /\ state[b] = "clean" /\ hdr[b] = "clean"
  BY <1>2, <1>3 DEF LocalType, CleanErased, Mirrored
<1>5. /\ FlashType' /\ state' \in [Blocks -> {"unset", "clean", "used", "dirty"}]
      /\ \A c \in Blocks : /\ state'[c] = IF c = b THEN "dirty" ELSE state[c]
                           /\ hdr'[c] = IF c = b THEN "dirty" ELSE hdr[c]
  BY <1>1, <1>2, <1>4 DEF FlashType, RamType, SetBlockState
<1>6. Chained'
  <2>1. \A c \in Blocks : hdr'[c] = "none" => hdr[c] = "none"
    BY <1>5
  <2> QED BY <2>1, <1>1 DEF Chained, OnChain
<1>7. Mirrored'
  BY <1>1, <1>3, <1>5 DEF Mirrored
<1>8. CleanErased'
  <2>1. ASSUME NEW c \in Blocks, state'[c] = "clean" PROVE fill[c] = HdrSize \/ c \in unclean'
    <3>1. c # b /\ state[c] = "clean"
      BY <2>1, <1>5
    <3> QED BY <3>1, <1>1, <1>2, <1>3 DEF CleanErased
  <2>2. \A c \in unclean' : state'[c] = "clean"
    BY <1>2, <1>5 DEF CleanErased, LocalType
  <2> QED BY <2>1, <2>2, <1>1, <1>3 DEF CleanErased
<1>9. CleanCount'
  <2>1. Counted' = Counted
    BY <1>1, <1>2, <1>3, <1>5 DEF Counted
  <2> QED BY <2>1, <1>1 DEF CleanCount
<1>10. RamType' /\ LocalType' /\ HistoryType'
  BY <1>1, <1>2, <1>5 DEF RamType, LocalType, HistoryType
<1>11. Frontier' /\ Control'
  BY <1>1, <1>3 DEF Frontier, Control
<1> QED BY <1>5, <1>6, <1>7, <1>8, <1>9, <1>10, <1>11

(* FirstUse finds every block erased, and block 0 among them.              *)
LEMMA FirstUseStep == ASSUME IInv, FirstUse PROVE IInv'
<1>1. /\ pc = "unclean" /\ unclean = {} /\ clean_blk_nums = NBlocks
      /\ write_pos' = <<0, HdrSize>> /\ SetBlockState(0, "used")
      /\ clean_blk_nums' = clean_blk_nums - 1 /\ InitDone
  BY DEF FirstUse
<1>2. UNCHANGED <<slot, fill, space, unclean>> /\ pc' = "idle"
  BY <1>1 DEF InitDone
<1>3. Counted = Blocks
  BY <1>1, BlockCount DEF IInv, CleanCount, Counted
<1>4. PICK i \in Counted : i = 0
  BY <1>3, Numbers
<1>5. ~Collecting /\ ~Looping
  BY <1>1 DEF Collecting, Looping
<1>6. fill[0] = HdrSize
  <2>1. 0 \in Blocks /\ state[0] = "clean"
    BY <1>3, Numbers DEF Counted
  <2> QED BY <2>1, <1>1, <1>5 DEF IInv, CleanErased, Measured
<1>7. /\ FlashType' /\ Chained' /\ Mirrored' /\ CleanErased' /\ CleanCount'
      /\ clean_blk_nums' \in 0..NBlocks
      /\ state' \in [Blocks -> {"unset", "clean", "used", "dirty"}]
      /\ \A c \in Blocks : state'[c] = IF c = i THEN "used" ELSE state[c]
  BY <1>1, <1>2, <1>4, <1>5, UseKeeps
<1>8. PICK b \in Blocks : b = 0
  BY Numbers
<1> QED BY <1>1, <1>4, <1>6, <1>7, <1>8, InitDoneKeeps

(* Reopen finds the frontier of a block in use.                            *)
LEMMA ReopenStep == ASSUME IInv, Reopen PROVE IInv'
<1> USE DEF IInv, TypeOK
<1>1. /\ pc = "unclean" /\ unclean = {} /\ InitDone
      /\ UNCHANGED <<hdr, state, clean_blk_nums>>
  BY DEF Reopen, KeepBlockState
<1>2. UNCHANGED <<slot, fill, space, unclean, blk, dest>> /\ pc' = "idle"
  BY <1>1 DEF InitDone
<1>3. PICK b \in Blocks : WritesTo(b) /\ write_pos' = <<b, BlockSize - space[b]>>
  BY DEF Reopen
<1>4. /\ ~Looping /\ ~Looping' /\ ~Collecting /\ ~Collecting'
      /\ \A c \in Blocks : Measured(c)
  BY <1>1, <1>2 DEF Looping, Collecting, Measured
<1>5. write_pos' = <<b, fill[b]>>
  <2>1. space[b] = BlockSize - fill[b] /\ fill[b] \in Int
    BY <1>4, Numbers DEF Mirrored, FlashType
  <2> QED BY <2>1, <1>3, Numbers
<1>6. FlashType' /\ Chained' /\ Mirrored'
  BY <1>1, <1>2, <1>4 DEF FlashType, Chained, OnChain, Mirrored
<1>7. CleanErased'
  BY <1>1, <1>2, <1>4 DEF CleanErased
<1>8. CleanCount'
  <2>1. Counted' = Counted
    BY <1>1, <1>2, <1>4 DEF Counted
  <2> QED BY <2>1, <1>1 DEF CleanCount
<1>9. /\ clean_blk_nums' \in 0..NBlocks
      /\ state' \in [Blocks -> {"unset", "clean", "used", "dirty"}]
      /\ state'[b] \in {"used", "dirty"}
  BY <1>1, <1>3 DEF RamType, WritesTo
<1> QED BY <1>1, <1>5, <1>6, <1>7, <1>8, <1>9, InitDoneKeeps

(* Crash leaves an empty kv_mgr_t and a flash whose blocks can be walked.  *)
LEMMA CrashStep == ASSUME IInv, Crash PROVE IInv'
<1> USE DEF IInv, TypeOK
<1>1. /\ state' = [b \in Blocks |-> "unset"] /\ space' = [b \in Blocks |-> 0]
      /\ clean_blk_nums' = 0 /\ write_pos' = NoPos /\ gc_trigger' = 0
      /\ pc' = "probe" /\ req' = NoReq /\ at' = NoPos /\ old' = NoPos
      /\ blk' = 0 /\ dest' = 0 /\ unclean' = {} /\ back' = "reply"
      /\ reply' = "none" /\ lost' = {} /\ want' = want
  BY DEF Crash
<1>2. FlashType' /\ Chained'
  BY CrashFlash DEF FlashType, Chained, OnChain, flash
<1>3. exposed' \subseteq Keys
  <2>1. Exposed \subseteq Keys
    BY DEF Exposed
  <2>2. exposed' \in {Exposed, exposed, {}}
    BY DEF Crash
  <2> QED BY <2>1, <2>2 DEF HistoryType
<1>4. Looping' /\ ~Walking' /\ ~Up'
  BY <1>1 DEF Looping, Walking, Scanning, Up
<1>5. Mirrored' /\ CleanErased'
  BY <1>1, <1>4, Numbers DEF Mirrored, CleanErased, Measured
<1>6. CleanCount'
  <2>1. Counted' = {}
    BY <1>1 DEF Counted
  <2> QED BY <2>1, <1>1, FS_EmptySet DEF CleanCount
<1>7. Frontier' /\ Control'
  BY <1>1, <1>4 DEF Frontier, Control, Collecting
<1>8. RamType' /\ LocalType' /\ HistoryType'
  BY <1>1, <1>3, Numbers DEF RamType, LocalType, HistoryType, NoReq, Values, Points, Booting
<1> QED BY <1>2, <1>5, <1>6, <1>7, <1>8

(* A step that changes nothing, such as Spin.                              *)
LEMMA StutterStep == ASSUME IInv, UNCHANGED vars PROVE IInv'
<1> USE DEF IInv, TypeOK, vars, flash, ram, locals, history
<1>1. FlashType' /\ RamType' /\ LocalType' /\ HistoryType'
  BY DEF FlashType, RamType, LocalType, HistoryType
<1>2. Chained' /\ Mirrored' /\ CleanErased'
  BY DEF Chained, OnChain, Mirrored, CleanErased, Measured, Looping, Walking, Collecting,
         Scanning
<1>3. CleanCount'
  <2>1. Counted' = Counted
    BY DEF Counted, Looping
  <2> QED BY <2>1 DEF CleanCount
<1>4. Frontier' /\ Control'
  BY DEF Frontier, Control, Up, OnChain, At, Looping, Walking, Collecting, Scanning
<1> QED BY <1>1, <1>2, <1>3, <1>4
-----------------------------------------------------------------------------
(* The invariant, and what follows from it. *)

(* Init: a flash no block of which has been formatted.                      *)
LEMMA InitIInv == Init => IInv
<1> SUFFICES ASSUME Init PROVE IInv
  OBVIOUS
<1> USE Numbers DEF Init
<1>1. TypeOK
  <2>1. slot \in [Blocks -> [Offsets -> Item \cup {Blank, Junk}]]
    OBVIOUS
  <2>2. req \in [keys : SUBSET Keys, val : Values]
    BY DEF NoReq, Values
  <2>3. want \in [Keys -> SUBSET Values]
    BY DEF Values
  <2>4. FlashType
    BY <2>1 DEF FlashType
  <2>5. RamType
    BY DEF RamType
  <2>6. LocalType
    BY <2>2 DEF LocalType, Points, Booting, Scanning
  <2>7. HistoryType
    BY <2>3 DEF HistoryType
  <2> QED BY <2>4, <2>5, <2>6, <2>7 DEF TypeOK
<1>2. Chained
  BY SlotTypes DEF Chained, OnChain
<1>3. Mirrored
  BY DEF Mirrored, Measured, Looping, Walking, Scanning
<1>4. CleanErased
  BY DEF CleanErased
<1>5. CleanCount
  <2>1. Counted = {}
    BY DEF Counted
  <2> QED BY <2>1, FS_EmptySet DEF CleanCount
<1>6. Frontier
  BY DEF Frontier, Up
<1>7. Control
  BY DEF Control, Up, Looping, Walking, Scanning, Collecting
<1> QED BY <1>1, <1>2, <1>3, <1>4, <1>5, <1>6, <1>7 DEF IInv

(* Every step keeps the invariant.                                         *)
LEMMA NextIInv == IInv /\ [Next]_vars => IInv'
<1> SUFFICES ASSUME IInv, [Next]_vars PROVE IInv'
  OBVIOUS
<1>1. CASE Request
  BY <1>1, SetSameStep, SetHereStep, SetOpenStep, SetFullStep, SetSpinStep,
     GetStep, DeleteStep, DeletePrefixStep DEF Request
<1>2. CASE Work
  <2>1. ASSUME Store \/ DelItem \/ MarkDirty PROVE IInv'
    BY <2>1, StoreStep, DelItemStep, MarkDirtyStep
  <2>2. ASSUME SkipGarbage \/ KeepItem \/ DropSelf \/ DropOrigin \/ CopyItem PROVE IInv'
    BY <2>2, SkipGarbageStep, KeepItemStep, DropSelfStep, DropOriginStep, CopyItemStep
  <2>3. ASSUME EndSweep \/ EndCopy \/ EndRecovery \/ Erase \/ Format PROVE IInv'
    BY <2>3, EndSweepStep, EndCopyStep, EndRecoveryStep, EraseStep, FormatStep
  <2>4. ASSUME GcNothing \/ GcBegin \/ GcUse PROVE IInv'
    BY <2>4, GcNothingStep, GcBeginStep, GcUseStep
  <2>5. ASSUME \/ Probe \/ UncleanDirty \/ UncleanFormat \/ FormatZero
               \/ FirstUse \/ Reopen
        PROVE  IInv'
    BY <2>5, ProbeStep, UncleanDirtyStep, UncleanFormatStep, FormatZeroStep,
       FirstUseStep, ReopenStep
  <2>6. ASSUME Spin PROVE IInv'
    BY <2>6, StutterStep DEF Spin
  <2> QED BY <1>2, <2>1, <2>2, <2>3, <2>4, <2>5, <2>6 DEF Work
<1>3. CASE Crash
  BY <1>3, CrashStep
<1>4. CASE UNCHANGED vars
  BY <1>4, StutterStep
<1> QED BY <1>1, <1>2, <1>3, <1>4 DEF Next

(* The layout of the flash and the copy of it in RAM stay consistent       *)
(* through every request, GC, power failure and recovery: items follow     *)
(* each other up to a frontier inside the block, space, state and          *)
(* clean_blk_nums say what the flash says, clean blocks are erased, and    *)
(* write_pos is the frontier of a block in use.                            *)
THEOREM LayoutInvariant == Spec => []IInv
BY InitIInv, NextIInv, PTL DEF Spec

(* Every variable keeps its type, in particular offsets stay inside a      *)
(* block and the counts of space and clean blocks never leave their range. *)
THEOREM TypeCorrect == Spec => []TypeOK
<1>1. IInv => TypeOK
  BY DEF IInv
<1> QED BY <1>1, LayoutInvariant, PTL

(* kv_item_store writes on erased flash.                                   *)
LEMMA StoreLegal == ASSUME IInv, Store PROVE NorStep
<1>1. pc = "store"
  BY DEF Store
<1>2. PICK k \in req.keys : Program(write_pos, NewItem(k))
  BY DEF Store
<1>3. PICK p \in Pos, s \in Item : p = write_pos /\ s = NewItem(k)
  BY <1>1, StoreFits
<1>4. Program(p, s) /\ p[2] = fill[p[1]] /\ hdr[p[1]] # "none" /\ p[2] + Len(s) < BlockSize
  BY <1>1, <1>2, <1>3, StoreFits
<1> QED BY <1>4, ProgramLegal

(* GC copies to erased flash.                                              *)
LEMMA CopyLegal == ASSUME IInv, CopyItem PROVE NorStep
<1>1. pc = "copy" /\ OnItem /\ Program(write_pos, Cursor)
  BY DEF CopyItem
<1>2. PICK p \in Pos, s \in Item : p = write_pos /\ s = Cursor
  BY <1>1, CopyFits
<1>3. Program(p, s) /\ p[2] = fill[p[1]] /\ hdr[p[1]] # "none" /\ p[2] + Len(s) < BlockSize
  BY <1>1, <1>2, CopyFits
<1> QED BY <1>3, ProgramLegal

(* kv_item_del takes an item from normal to deleted.                       *)
LEMMA DelItemLegal == ASSUME IInv, DelItem PROVE NorStep
<1>1. hdr' = hdr /\ slot' = [slot EXCEPT ![old[1]][old[2]].state = "deleted"]
  BY DEF DelItem
<1>2. old \in Pos /\ At(old).state = "normal" /\ old[1] \in Blocks /\ old[2] \in Offsets
  BY DEF DelItem, IInv, Control, Pos
<1>3. slot \in [Blocks -> [Offsets -> Item \cup {Blank, Junk}]]
  BY DEF IInv, TypeOK, FlashType
<1>4. ASSUME NEW b \in Blocks, NEW o \in Offsets PROVE Programs(b, o)
  <2>1. CASE b = old[1] /\ o = old[2]
    <3>1. slot'[b][o] = [slot[b][o] EXCEPT !.state = "deleted"]
      BY <2>1, <1>1, <1>2, <1>3
    <3> QED BY <3>1, <2>1, <1>2 DEF Programs, At
  <2>2. CASE ~(b = old[1] /\ o = old[2])
    <3>1. slot'[b][o] = slot[b][o]
      BY <2>2, <1>1, <1>2, <1>3
    <3> QED BY <3>1 DEF Programs
  <2> QED BY <2>1, <2>2
<1> QED BY <1>1, <1>4 DEF NorStep

(* Where RAM knows a block, a state byte written from it clears bits only. *)
LEMMA MarkLegal ==
  ASSUME IInv, NEW b \in Blocks, NEW s \in {"used", "dirty"}, SetBlockState(b, s),
         UNCHANGED slot, Measured(b) \/ (Looping /\ Walking /\ b = blk),
         \/ state[b] = "clean"
         \/ state[b] = "used" /\ s = "dirty"
  PROVE  NorStep
<1>1. hdr[b] = state[b]
  BY DEF IInv, Mirrored
<1> QED BY <1>1, StateLegal

(* kv_calc_position takes a clean block into use.                          *)
LEMMA SetOpenLegal == ASSUME IInv, NEW k \in Keys, NEW v \in Vals, SetOpen(k, v) PROVE NorStep
<1>1. slot' = slot /\ pc = "idle"
  BY DEF SetOpen, StartStore, Ready
<1>2. PICK i \in Blocks : IF state[i] = "clean" THEN SetBlockState(i, "used")
                                                ELSE KeepBlockState
  BY DEF SetOpen
<1>3. Measured(i)
  BY <1>1 DEF Measured, Looping
<1> QED BY <1>1, <1>2, <1>3, MarkLegal, NorSame DEF KeepBlockState

(* kv_item_del takes a block from used to dirty.                           *)
LEMMA MarkDirtyLegal == ASSUME IInv, MarkDirty PROVE NorStep
<1>1. pc = "mark" /\ SetBlockState(old[1], "dirty") /\ slot' = slot
  BY DEF MarkDirty
<1>2. PICK b \in Blocks : b = old[1]
  BY <1>1 DEF IInv, Control, Pos
<1>3. state[b] = "used" /\ blk \in Blocks
  BY <1>1, <1>2 DEF IInv, Control, TypeOK, LocalType
<1>4. Measured(b) \/ (Looping /\ Walking /\ b = blk)
  <2> SUFFICES ASSUME ~Measured(b) PROVE Looping /\ Walking /\ b = blk
    OBVIOUS
  <2>1. Looping /\ ~(b < blk)
    BY <1>1 DEF Measured
  <2>2. Walking
    BY <1>1, <2>1 DEF Looping, Walking, Scanning
  <2>3. ~(b > blk)
    BY <1>3, <2>1 DEF IInv, Mirrored
  <2> QED BY <1>3, <2>1, <2>2, <2>3, Numbers
<1> QED BY <1>1, <1>2, <1>3, <1>4, MarkLegal

(* kv_item_traverse takes a block from used to dirty.                      *)
LEMMA SkipGarbageLegal == ASSUME IInv, SkipGarbage PROVE NorStep
<1>1. slot' = slot /\ pc \in Scanning
  BY DEF SkipGarbage
<1>2. PICK b \in Blocks : b = at[1]
  BY <1>1, CursorFacts DEF CursorOK
<1>3. IF state[b] = "used" THEN SetBlockState(b, "dirty") ELSE KeepBlockState
  BY <1>2 DEF SkipGarbage
<1>4. Measured(b) \/ (Looping /\ Walking /\ b = blk)
  BY <1>1, <1>2 DEF IInv, Control, Measured, Looping, Walking, Scanning
<1> QED BY <1>1, <1>3, <1>4, MarkLegal, NorSame DEF KeepBlockState

(* kv_gc_task takes its clean destination into use.                        *)
LEMMA GcUseLegal == ASSUME IInv, GcUse PROVE NorStep
<1>1. pc = "use" /\ slot' = slot /\ SetBlockState(dest, "used")
  BY DEF GcUse
<1>2. PICK b \in Blocks : b = dest
  BY DEF IInv, TypeOK, LocalType
<1>3. Up /\ Collecting /\ Measured(b)
  BY <1>1 DEF IInv, Control, Looping, Collecting, Measured
<1>4. state[b] = "clean"
  BY <1>2, <1>3 DEF IInv, Frontier
<1> QED BY <1>1, <1>2, <1>3, <1>4, MarkLegal

(* kv_init_internal takes a clean block to dirty.                          *)
LEMMA UncleanDirtyLegal == ASSUME IInv, UncleanDirty PROVE NorStep
<1>1. pc = "unclean" /\ slot' = slot
  BY DEF UncleanDirty
<1>2. PICK b \in unclean : SetBlockState(b, "dirty")
  BY DEF UncleanDirty
<1>3. b \in Blocks /\ state[b] = "clean" /\ Measured(b)
  BY <1>1 DEF IInv, CleanErased, TypeOK, LocalType, Measured, Looping
<1> QED BY <1>1, <1>2, <1>3, MarkLegal

(* kv_init_internal takes block 0, which is clean, into use.               *)
LEMMA FirstUseLegal == ASSUME IInv, FirstUse PROVE NorStep
<1>1. pc = "unclean" /\ slot' = slot /\ SetBlockState(0, "used") /\ clean_blk_nums = NBlocks
  BY DEF FirstUse, InitDone
<1>2. 0 \in Counted
  BY <1>1, BlockCount, Numbers DEF IInv, CleanCount, Counted
<1>3. PICK b \in Blocks : b = 0
  BY Numbers
<1>4. state[b] = "clean" /\ Measured(b)
  BY <1>1, <1>2, <1>3 DEF Counted, Measured, Looping
<1> QED BY <1>1, <1>3, <1>4, MarkLegal

(* kv_block_format erases the whole block.                                 *)
LEMMA EraseLegal == ASSUME IInv, Erase PROVE NorStep
<1>1. /\ hdr' = [hdr EXCEPT ![blk] = "none"]
      /\ slot' = [slot EXCEPT ![blk] = [o \in Offsets |-> Blank]]
  BY DEF Erase
<1>2. /\ hdr \in [Blocks -> {"none", "clean", "used", "dirty"}]
      /\ slot \in [Blocks -> [Offsets -> Item \cup {Blank, Junk}]]
  BY DEF IInv, TypeOK, FlashType
<1>3. ASSUME NEW b \in Blocks
      PROVE  Erases(b) \/ (hdr'[b] = hdr[b] /\ slot'[b] = slot[b])
  BY <1>1, <1>2 DEF Erases
<1> QED BY <1>3 DEF NorStep, Programs

(* kv_block_format writes the header on erased flash.                      *)
LEMMA FormatLegal == ASSUME IInv, Format PROVE NorStep
<1>1. pc = "format" /\ slot' = slot /\ SetBlockState(blk, "clean")
  BY DEF Format
<1>2. PICK b \in Blocks : b = blk
  BY DEF IInv, TypeOK, LocalType
<1>3. hdr[b] = "none"
  BY <1>1, <1>2 DEF IInv, Control
<1> QED BY <1>1, <1>2, <1>3, StateLegal

(* kv.c never programs a flash byte that is not erased, except to clear    *)
(* bits of a state byte, and never writes an item across the end of a      *)
(* block.                                                                  *)
THEOREM NorRespected == Spec => NorLegal
<1>1. IInv /\ [Next]_vars => [NorStep]_vars
  <2> SUFFICES ASSUME IInv, Next PROVE NorStep
    OBVIOUS
  <2>1. CASE Request
    <3>1. ASSUME NEW k \in Keys, NEW v \in Vals,
                 SetSame(k, v) \/ SetHere(k, v) \/ SetFull(k, v) \/ SetSpin(k, v)
          PROVE  NorStep
      BY <3>1, NorSame DEF SetSame, SetHere, SetFull, SetSpin, StartStore, NoRoom, flash
    <3>2. ASSUME NEW k \in Keys, Get(k) \/ Delete(k) PROVE NorStep
      BY <3>2, NorSame DEF Get, Delete, flash
    <3>3. ASSUME NEW ks \in Prefixes, DeletePrefix(ks) PROVE NorStep
      BY <3>3, NorSame DEF DeletePrefix, flash
    <3> QED BY <2>1, <3>1, <3>2, <3>3, SetOpenLegal DEF Request
  <2>2. CASE Work
    <3>1. ASSUME Store \/ DelItem \/ MarkDirty \/ SkipGarbage \/ CopyItem \/ Erase \/ Format
          PROVE  NorStep
      BY <3>1, StoreLegal, DelItemLegal, MarkDirtyLegal, SkipGarbageLegal, CopyLegal,
         EraseLegal, FormatLegal
    <3>2. ASSUME GcUse \/ UncleanDirty \/ FirstUse PROVE NorStep
      BY <3>2, GcUseLegal, UncleanDirtyLegal, FirstUseLegal
    <3>3. ASSUME KeepItem \/ DropSelf \/ DropOrigin \/ EndSweep \/ EndCopy \/ EndRecovery
          PROVE  NorStep
      BY <3>3, NorSame DEF KeepItem, DropSelf, DropOrigin, DropItem, EndSweep, EndCopy,
                           EndRecovery, flash
    <3>4. ASSUME \/ GcNothing \/ GcBegin \/ Probe \/ UncleanFormat \/ FormatZero
                 \/ Reopen \/ Spin
          PROVE  NorStep
      BY <3>4, NorSame DEF GcNothing, GcBegin, Probe, UncleanFormat, FormatZero, Reopen,
                           Spin, StartFormat, KeepBlockState, InitDone, vars, flash
    <3> QED BY <2>2, <3>1, <3>2, <3>3, <3>4 DEF Work
  <2>3. CASE Crash
    BY <2>3, CrashFlash, NorSame DEF flash
  <2> QED BY <2>1, <2>2, <2>3 DEF Next
<1> QED BY <1>1, LayoutInvariant, PTL DEF Spec, NorLegal
=============================================================================
