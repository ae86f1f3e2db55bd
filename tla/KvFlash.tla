------------------------------ MODULE KvFlash ------------------------------
(***************************************************************************)
(* The key-value store of src/mxos/MXOS/system/kv/kv.c: a log of items in  *)
(* NBlocks erase blocks of NOR flash, one of which is kept clean for the   *)
(* garbage collector, with recovery after a power failure.                 *)
(*                                                                         *)
(* One thread (the mkv daemon) runs every operation, so an action is what  *)
(* that thread does up to and including its next write to the flash; power *)
(* may fail between two actions, and in the middle of an item's write.     *)
(***************************************************************************)
EXTENDS Integers, FiniteSets

CONSTANTS
    NBlocks,        \* KV_BLOCK_NUMS
    BlockSize,      \* KV_BLOCK_SIZE
    HdrSize,        \* KV_BLOCK_HDR_SIZE
    ItemHdr,        \* KV_ITEM_HDR_SIZE
    ItemMax,        \* KV_ITEM_MAX_LEN
    Keys, Vals,
    Size(_, _),     \* bytes an item of this key and value takes, KV_ALIGNed
    Prefixes,       \* the sets of keys that share a prefix some client deletes
    CrashPoints,    \* the control points at which power may fail
    NoVal           \* "this key is not stored"

Reserved == 1       \* KV_RESERVED_BLOCKS

ASSUME BlocksAssumption == NBlocks \in Nat /\ NBlocks > Reserved
ASSUME LayoutAssumption ==
    /\ {BlockSize, HdrSize, ItemHdr, ItemMax} \subseteq Nat \ {0}
    /\ ItemHdr < ItemMax /\ HdrSize + ItemMax < BlockSize
ASSUME SizeAssumption ==
    \A k \in Keys, v \in Vals : Size(k, v) \in (ItemHdr + 1)..ItemMax
ASSUME ValueAssumption == NoVal \notin Vals /\ Prefixes \subseteq SUBSET Keys

VARIABLES
    (* flash *)
    hdr,            \* hdr[b]: state byte of block b, "none" without the magic
    slot,           \* slot[b][o]: what the header at offset o of block b says
    fill,           \* fill[b]: first offset of b past everything programmed
    (* g_kv_mgr *)
    state, space, clean_blk_nums, write_pos, gc_trigger,
    (* the daemon's control point and the locals of the calls in progress *)
    pc,
    req,            \* the request: its keys and the value they get
    at,             \* pos, in kv_item_traverse
    old,            \* the item kv_item_del invalidates
    blk,            \* the block kv_init_internal is at or formats
    dest,           \* gc_idx
    unclean,        \* unclean[], in kv_init_internal
    back,           \* where to go on after kv_item_del or kv_block_format
    (* history: what the clients may rely on *)
    want,           \* want[k]: the values a reader of k may see
    reply,          \* the answer to the last request
    exposed,        \* keys whose value this recovery puts at risk: see Exposed
                    \* and FormatZero
    lost            \* keys whose value the last recovery did not preserve

flash   == <<hdr, slot, fill>>
ram     == <<state, space, clean_blk_nums, write_pos, gc_trigger>>
locals  == <<req, at, old, blk, dest, unclean, back>>
history == <<want, reply, exposed, lost>>
vars    == <<flash, ram, pc, locals, history>>

Blocks  == 0..(NBlocks - 1)
Offsets == HdrSize..(BlockSize - 1)
Pos     == Blocks \X Offsets
NoPos   == <<0, 0>>             \* position 0 is block 0's header: no item
Values  == Vals \cup {NoVal}

Blank == [state |-> "blank"]    \* erased flash
Junk  == [state |-> "junk"]     \* a header that was not completely written
Item  == [state : {"normal", "deleted"}, key : Keys, val : Vals,
          crc : {"good", "bad"}, origin : Pos \cup {NoPos}]
NoReq == [keys |-> {}, val |-> NoVal]

Booting  == {"probe", "scan", "unclean"}
Scanning == {"scan", "sweep", "copy"}
Points   == Booting \cup Scanning \cup
            {"idle", "store", "del", "mark", "erase", "format", "use", "spin"}

FlashType == /\ hdr \in [Blocks -> {"none", "clean", "used", "dirty"}]
             /\ slot \in [Blocks -> [Offsets -> Item \cup {Blank, Junk}]]
             /\ fill \in [Blocks -> Offsets]
RamType == /\ state \in [Blocks -> {"unset", "clean", "used", "dirty"}]
           /\ space \in [Blocks -> 0..BlockSize]
           /\ clean_blk_nums \in 0..NBlocks
           /\ write_pos \in Pos \cup {NoPos}
           /\ gc_trigger \in {0, 1}
LocalType == /\ pc \in Points
             /\ req \in [keys : SUBSET Keys, val : Values]
             /\ at \in Pos \cup {NoPos} /\ old \in Pos \cup {NoPos}
             /\ blk \in Blocks /\ dest \in Blocks /\ unclean \subseteq Blocks
             /\ back \in {"reply", "sweep", "scan", "next", "unclean", "use"}
HistoryType == /\ want \in [Keys -> SUBSET Values]
               /\ reply \in Values \cup {"none", "ok", "nospace"}
               /\ exposed \subseteq Keys /\ lost \subseteq Keys
TypeOK == FlashType /\ RamType /\ LocalType /\ HistoryType
-----------------------------------------------------------------------------
(* What the flash says, and how the code reads it. *)

At(p)  == slot[p[1]][p[2]]
Len(s) == IF s.state = "junk" THEN ItemHdr ELSE Size(s.key, s.val)

\* The offset n bytes after p; a full block's end is the next one's start.
After(p, n) == IF p[2] + n < BlockSize THEN <<p[1], p[2] + n>>
                                       ELSE <<p[1] + 1, p[2] + n - BlockSize>>

\* A mutant of Room: the header is subtracted from what is past it already.
RoomNoHdr(o) == BlockSize - HdrSize - o

\* The free space kv_item_traverse computes for a block whose scan ends at o.
Room(o) == IF o < BlockSize THEN BlockSize - o ELSE ItemHdr

Live(k) == {p \in Pos : /\ state[p[1]] # "clean"
                        /\ At(p).state = "normal" /\ At(p).key = k}
Before(p, q) == p[1] < q[1] \/ (p[1] = q[1] /\ p[2] <= q[2])

\* The item kv_item_search finds, if any: the first in block order.
kv_item_search(k) == {p \in Live(k) : \A q \in Live(k) : Before(p, q)}
Read(k) == IF Live(k) = {} THEN {NoVal}
                           ELSE {At(p).val : p \in kv_item_search(k)}

\* kv_item_search recomputes the space of each block it scans to the end.
Searched(k) ==
    [b \in Blocks |->
        IF state[b] # "clean" /\ \A p \in kv_item_search(k) : b < p[1]
        THEN Room(fill[b]) ELSE space[b]]
-----------------------------------------------------------------------------
(* kv_set_block_state: the header's state byte, then the copy in RAM. *)
SetBlockState(b, s) == /\ hdr'   = [hdr EXCEPT ![b] = s]
                       /\ state' = [state EXCEPT ![b] = s]
KeepBlockState == UNCHANGED <<hdr, state>>

(* One item is programmed at p, and the frontier of its block moves. *)
Program(p, s) == /\ slot' = [slot EXCEPT ![p[1]][p[2]] = s]
                 /\ fill' = [fill EXCEPT ![p[1]] = p[2] + Len(s)]
                 /\ UNCHANGED hdr

(* write_pos moves past an item, whose block loses that much space. *)
Advance(n) ==
    LET w == After(write_pos, n) IN
    /\ write_pos' = w
    /\ space' = [space EXCEPT ![w[1]] = @ - n]

(* A request ends: what it asked for is now what a reader sees. *)
Finish == /\ pc' = "idle" /\ reply' = "ok"
          /\ want' = [k \in Keys |-> IF k \in req.keys THEN {req.val} ELSE want[k]]
          /\ req' = NoReq /\ old' = NoPos
          /\ UNCHANGED <<exposed, lost>>

(* kv_item_del returns to its caller. *)
Resume == IF back = "reply"
          THEN Finish
          ELSE pc' = back /\ old' = NoPos /\ UNCHANGED <<req, history>>

(* A request that will change the store begins. *)
Begin(ks, v) == /\ req'  = [keys |-> ks, val |-> v]
                /\ want' = [k \in Keys |-> IF k \in ks THEN want[k] \cup {v}
                                                       ELSE want[k]]
                /\ reply' = "none" /\ exposed' = {} /\ lost' = {}

(* The daemon runs a pending GC before it takes the next request. *)
Ready == pc = "idle" /\ gc_trigger = 0

-----------------------------------------------------------------------------
(* kv_item_set *)

Found(k, p) == p \in kv_item_search(k) \/ (Live(k) = {} /\ p = NoPos)
Changes(k, v) == \A p \in kv_item_search(k) : At(p).val # v
StartStore(k, v) == /\ Begin({k}, v)
                    /\ \E p \in Pos \cup {NoPos} : Found(k, p) /\ old' = p
                    /\ pc' = "store" /\ back' = "reply"
                    /\ UNCHANGED <<slot, fill, at, blk, dest, unclean>>
Fits(sp, b, k, v) == sp[b] > Size(k, v)

\* kv_item_update: the key already has this value, nothing is written.
SetSame(k, v) ==
    /\ Ready /\ ~Changes(k, v)
    /\ space' = Searched(k) /\ reply' = "ok"
    /\ UNCHANGED <<flash, state, clean_blk_nums, write_pos, gc_trigger, pc,
                   locals, want, exposed, lost>>

\* kv_calc_position: the current block has room.
SetHere(k, v) ==
    LET sp == Searched(k)  b == write_pos[1] IN
    /\ Ready /\ Changes(k, v) /\ Fits(sp, b, k, v)
    /\ gc_trigger' = IF sp[b] - Size(k, v) < ItemMax /\ clean_blk_nums <= Reserved
                      THEN 1 ELSE 0
    /\ space' = sp
    /\ StartStore(k, v)
    /\ UNCHANGED <<hdr, state, clean_blk_nums, write_pos>>

\* The blocks after b, in the order kv_calc_position tries them.
Dist(b, i) == IF i > b THEN i - b ELSE i + NBlocks - b
Searches == NBlocks > Reserved + 1      \* the #if around its loop

\* kv_calc_position: another block has room, and a clean one is taken into use.
SetOpen(k, v) ==
    LET sp == Searched(k)  b == write_pos[1] IN
    /\ Ready /\ Changes(k, v) /\ ~Fits(sp, b, k, v) /\ Searches
    /\ \E i \in Blocks \ {b} :
        /\ Fits(sp, i, k, v)
        /\ \A j \in Blocks \ {b} : Fits(sp, j, k, v) => Dist(b, i) <= Dist(b, j)
        /\ write_pos' = <<i, BlockSize - sp[i]>>
        /\ IF state[i] = "clean"
           THEN /\ SetBlockState(i, "used")
                /\ clean_blk_nums' = clean_blk_nums - 1
           ELSE KeepBlockState /\ UNCHANGED clean_blk_nums
    /\ space' = sp
    /\ StartStore(k, v)
    /\ UNCHANGED gc_trigger

\* kv_calc_position: no block has room. Its loop ends when the index comes back
\* to the current block, which it never does when that block is block 0.
NoRoom(k, v) == /\ Ready /\ Changes(k, v)
                /\ ~Fits(Searched(k), write_pos[1], k, v)
                /\ Searches => \A i \in Blocks : ~Fits(Searched(k), i, k, v)
                /\ space' = Searched(k)
                /\ UNCHANGED <<flash, state, clean_blk_nums, write_pos, locals>>

SetFull(k, v) == /\ NoRoom(k, v) /\ (Searches => write_pos[1] # 0)
                 /\ gc_trigger' = 1 /\ reply' = "nospace"
                 /\ UNCHANGED <<pc, want, exposed, lost>>

SetSpin(k, v) == /\ NoRoom(k, v) /\ Searches /\ write_pos[1] = 0
                 /\ pc' = "spin" /\ reply' = "none"
                 /\ UNCHANGED <<gc_trigger, want, exposed, lost>>

Spin == pc = "spin" /\ UNCHANGED vars

NewItem(k) == [state |-> "normal", key |-> k, val |-> req.val,
               crc |-> "good", origin |-> old]

\* A mutant of Store: an update forgets the item it replaces.
StoreOnly == /\ pc = "store"
             /\ \E k \in req.keys : /\ Program(write_pos, NewItem(k))
                                    /\ Advance(Size(k, req.val))
             /\ Finish
             /\ UNCHANGED <<state, clean_blk_nums, gc_trigger,
                            at, blk, dest, unclean, back>>

\* kv_item_store: the write itself; an update then deletes the old item.
Store == /\ pc = "store"
         /\ \E k \in req.keys : /\ Program(write_pos, NewItem(k))
                                /\ Advance(Size(k, req.val))
         /\ IF old = NoPos THEN Finish
                           ELSE pc' = "del" /\ UNCHANGED <<req, old, history>>
         /\ UNCHANGED <<state, clean_blk_nums, gc_trigger,
                        at, blk, dest, unclean, back>>
-----------------------------------------------------------------------------
(* kv_item_get, kv_item_delete, kv_item_delete_by_prefix and kv_item_del *)

Get(k) == /\ Ready
          /\ reply' \in Read(k) /\ space' = Searched(k)
          /\ UNCHANGED <<flash, state, clean_blk_nums, write_pos, gc_trigger,
                         pc, locals, want, exposed, lost>>

Delete(k) ==
    /\ Ready /\ space' = Searched(k)
    /\ \E p \in Pos \cup {NoPos} :
        /\ Found(k, p)
        /\ IF p = NoPos
           THEN reply' = NoVal /\ UNCHANGED <<pc, req, old, back, want, exposed, lost>>
           ELSE /\ Begin({k}, NoVal)
                /\ old' = p /\ pc' = "del" /\ back' = "reply"
    /\ UNCHANGED <<flash, state, clean_blk_nums, write_pos, gc_trigger,
                   at, blk, dest, unclean>>

DeletePrefix(ks) ==
    /\ Ready /\ Begin(ks, NoVal)
    /\ at' = <<0, HdrSize>> /\ pc' = "sweep"
    /\ UNCHANGED <<flash, ram, old, blk, dest, unclean, back>>

\* kv_item_del: the item's state byte.
DelItem == /\ pc = "del"
           /\ slot' = [slot EXCEPT ![old[1]][old[2]].state = "deleted"]
           /\ IF state[old[1]] = "used"
              THEN pc' = "mark" /\ UNCHANGED <<req, old, history>>
              ELSE Resume
           /\ UNCHANGED <<hdr, fill, ram, at, blk, dest, unclean, back>>

\* kv_item_del: its block now holds garbage.
MarkDirty == /\ pc = "mark"
             /\ SetBlockState(old[1], "dirty")
             /\ Resume
             /\ UNCHANGED <<slot, fill, space, clean_blk_nums, write_pos,
                            gc_trigger, at, blk, dest, unclean, back>>
-----------------------------------------------------------------------------
(* kv_item_traverse, with the callback the control point names: "scan" is  *)
(* __item_recovery_cb, "sweep" __item_del_by_prefix_cb, "copy" __item_gc_cb *)

Cursor == At(at)
AtEnd  == at[2] + ItemHdr >= BlockSize \/ Cursor = Blank
OnItem == ~AtEnd /\ Cursor.state = "normal"
\* A mutant of Past: the scan does not move on.
PastNothing == at
Past   == <<at[1], at[2] + Len(Cursor)>>

\* A mutant of SkipGarbage: the block stays marked used.
SkipQuietly ==
    /\ pc \in Scanning /\ ~AtEnd /\ Cursor.state # "normal"
    /\ at' = Past /\ KeepBlockState
    /\ UNCHANGED <<slot, fill, space, clean_blk_nums, write_pos, gc_trigger, pc,
                   req, old, blk, dest, unclean, back, history>>

\* Garbage in a block still marked used makes it dirty.
SkipGarbage ==
    /\ pc \in Scanning /\ ~AtEnd /\ Cursor.state # "normal"
    /\ at' = Past
    /\ IF state[at[1]] = "used" THEN SetBlockState(at[1], "dirty") ELSE KeepBlockState
    /\ UNCHANGED <<slot, fill, space, clean_blk_nums, write_pos, gc_trigger, pc,
                   req, old, blk, dest, unclean, back, history>>

\* A mutant of Supersedes: recovery leaves the replaced item.
SupersedesNever == FALSE

\* kv_item_del with KV_UPDATE_FLAG: the item this one replaced is still there.
Supersedes == /\ Cursor.origin \notin {NoPos, at}
              /\ At(Cursor.origin).state = "normal"
              /\ At(Cursor.origin).key = Cursor.key
Doomed == \/ pc = "scan" /\ Cursor.crc = "bad"
          \/ pc = "sweep" /\ Cursor.key \in req.keys

KeepItem == /\ pc \in {"scan", "sweep"} /\ OnItem /\ ~Doomed
            /\ pc = "scan" => ~Supersedes
            /\ at' = Past
            /\ UNCHANGED <<flash, ram, pc, req, old, blk, dest, unclean, back, history>>

DropItem(p) == /\ old' = p /\ pc' = "del" /\ back' = pc /\ at' = Past
               /\ UNCHANGED <<flash, ram, req, blk, dest, unclean, history>>
DropSelf   == pc \in {"scan", "sweep"} /\ OnItem /\ Doomed /\ DropItem(at)
DropOrigin == pc = "scan" /\ OnItem /\ ~Doomed /\ Supersedes /\ DropItem(Cursor.origin)

CopyItem == /\ pc = "copy" /\ OnItem
            /\ Program(write_pos, Cursor)
            /\ Advance(Len(Cursor))
            /\ at' = Past
            /\ UNCHANGED <<state, clean_blk_nums, gc_trigger, pc,
                           req, old, blk, dest, unclean, back, history>>

Scanned == space' = [space EXCEPT ![at[1]] = Room(at[2])] /\ at' = NoPos

\* A mutant of EndSweep: only the first block is swept.
EndSweepEarly == /\ pc = "sweep" /\ AtEnd /\ Scanned /\ Finish /\ back' = "reply"
                 /\ UNCHANGED <<flash, state, clean_blk_nums, write_pos, gc_trigger,
                                blk, dest, unclean>>

\* kv_item_delete_by_prefix goes on to the next block.
EndSweep == /\ pc = "sweep" /\ AtEnd
            /\ space' = [space EXCEPT ![at[1]] = Room(at[2])]
            /\ IF at[1] + 1 < NBlocks
               THEN at' = <<at[1] + 1, HdrSize>> /\ UNCHANGED <<pc, req, old, history>>
               ELSE at' = NoPos /\ Finish
            /\ back' = "reply"
            /\ UNCHANGED <<flash, state, clean_blk_nums, write_pos, gc_trigger,
                           blk, dest, unclean>>

\* kv_gc_task has copied every live item of the victim.
EndCopy == /\ pc = "copy" /\ AtEnd
           /\ Scanned /\ pc' = "erase" /\ blk' = at[1] /\ back' = "use"
           /\ UNCHANGED <<flash, state, clean_blk_nums, write_pos, gc_trigger,
                          req, old, dest, unclean, history>>

\* kv_init_internal goes on to block b + 1.
NextBlock(b) == IF b + 1 < NBlocks THEN pc' = "probe" /\ blk' = b + 1
                                   ELSE pc' = "unclean" /\ blk' = 0

EndRecovery ==
    /\ pc = "scan" /\ AtEnd /\ Scanned
    /\ IF state[blk] # "clean" THEN UNCHANGED <<unclean, clean_blk_nums>>
       ELSE IF space'[blk] = BlockSize - HdrSize
       THEN clean_blk_nums' = clean_blk_nums + 1 /\ UNCHANGED unclean
       ELSE unclean' = unclean \cup {blk} /\ UNCHANGED clean_blk_nums
    /\ NextBlock(blk)
    /\ UNCHANGED <<flash, state, write_pos, gc_trigger, req, old, dest, back, history>>
-----------------------------------------------------------------------------
(* kv_block_format: the erase, then the header. *)

Erase == /\ pc = "erase" /\ pc' = "format"
         /\ hdr'  = [hdr EXCEPT ![blk] = "none"]
         /\ slot' = [slot EXCEPT ![blk] = [o \in Offsets |-> Blank]]
         /\ fill' = [fill EXCEPT ![blk] = HdrSize]
         /\ UNCHANGED <<ram, locals, history>>

Format == /\ pc = "format"
          /\ SetBlockState(blk, "clean")
          /\ space' = [space EXCEPT ![blk] = BlockSize - HdrSize]
          /\ clean_blk_nums' = clean_blk_nums + 1
          /\ IF back = "next" THEN NextBlock(blk) ELSE pc' = back /\ blk' = 0
          /\ UNCHANGED <<slot, fill, write_pos, gc_trigger,
                         req, at, old, dest, unclean, back, history>>

StartFormat(b, k) == /\ pc' = "erase" /\ blk' = b /\ back' = k
                     /\ UNCHANGED <<flash, ram, req, at, old, dest,
                                    want, reply, lost>>
-----------------------------------------------------------------------------
(* kv_gc_task, when kv_gc finds gc_trigger set *)

InState(s) == {b \in Blocks : state[b] = s}

\* No clean block to copy to, or no dirty one to collect.
GcNothing == /\ pc = "idle" /\ gc_trigger = 1
             /\ clean_blk_nums = 0 \/ InState("clean") = {} \/ InState("dirty") = {}
             /\ gc_trigger' = 0
             /\ UNCHANGED <<flash, state, space, clean_blk_nums, write_pos, pc,
                            locals, history>>

\* The first clean block receives the live items of the first dirty one after
\* the block being written.
GcBegin ==
    /\ pc = "idle" /\ gc_trigger = 1 /\ clean_blk_nums # 0
    /\ \E d \in InState("clean"), v \in InState("dirty") :
        /\ \A c \in InState("clean") : d <= c
        /\ \A c \in InState("dirty") : Dist(write_pos[1], v) <= Dist(write_pos[1], c)
        /\ dest' = d /\ write_pos' = <<d, HdrSize>>
        /\ at' = <<v, HdrSize>>
    /\ pc' = "copy" /\ reply' = "none" /\ exposed' = {} /\ lost' = {}
    /\ UNCHANGED <<flash, state, space, clean_blk_nums, gc_trigger,
                   req, old, blk, unclean, back, want>>

\* A mutant of GcUse: the destination still counts as clean.
GcUseUncounted == /\ pc = "use" /\ pc' = "idle"
                  /\ SetBlockState(dest, "used")
                  /\ gc_trigger' = 0 /\ dest' = 0 /\ back' = "reply"
                  /\ UNCHANGED <<slot, fill, space, write_pos, clean_blk_nums,
                                 req, at, old, blk, unclean, history>>

GcUse == /\ pc = "use" /\ pc' = "idle"
         /\ SetBlockState(dest, "used")
         /\ clean_blk_nums' = clean_blk_nums - 1
         /\ gc_trigger' = 0 /\ dest' = 0 /\ back' = "reply"
         /\ UNCHANGED <<slot, fill, space, write_pos,
                        req, at, old, blk, unclean, history>>
-----------------------------------------------------------------------------
(* kv_init and kv_init_internal *)

Probe == /\ pc = "probe"
         /\ IF hdr[blk] = "none"
            THEN StartFormat(blk, "next") /\ UNCHANGED <<unclean, exposed>>
            ELSE /\ state' = [state EXCEPT ![blk] = hdr[blk]]
                 /\ at' = <<blk, HdrSize>> /\ pc' = "scan"
                 /\ UNCHANGED <<flash, space, clean_blk_nums, write_pos, gc_trigger,
                                req, old, blk, dest, unclean, back, history>>

\* The last block found to hold items behind a clean header.
LastUnclean(b) == b \in unclean /\ \A c \in unclean : c <= b

\* A mutant of UncleanDirty: the remains of a GC are kept, even if they are copies.
UncleanDirtyAlways ==
    /\ pc = "unclean"
    /\ \E b \in unclean : /\ LastUnclean(b)
                          /\ SetBlockState(b, "dirty")
                          /\ unclean' = unclean \ {b}
    /\ UNCHANGED <<slot, fill, space, clean_blk_nums, write_pos, gc_trigger,
                   pc, req, at, old, blk, dest, back, history>>

UncleanDirty == /\ pc = "unclean" /\ clean_blk_nums >= Reserved
                /\ \E b \in unclean : /\ LastUnclean(b)
                                      /\ SetBlockState(b, "dirty")
                                      /\ unclean' = unclean \ {b}
                /\ UNCHANGED <<slot, fill, space, clean_blk_nums, write_pos, gc_trigger,
                               pc, req, at, old, blk, dest, back, history>>

UncleanFormat == /\ pc = "unclean" /\ clean_blk_nums < Reserved
                 /\ \E b \in unclean : /\ LastUnclean(b)
                                       /\ StartFormat(b, "unclean")
                                       /\ unclean' = unclean \ {b}
                 /\ UNCHANGED exposed

\* No block is clean: block 0 is formatted, whatever it holds.
FormatZero == /\ pc = "unclean" /\ unclean = {} /\ clean_blk_nums = 0
              /\ StartFormat(0, "unclean") /\ UNCHANGED unclean
              /\ exposed' = exposed \cup {k \in Keys : \E p \in Live(k) : p[1] = 0}

\* kv_init returns: what it found is what the clients now rely on.
InitDone == /\ gc_trigger' = IF /\ space[write_pos'[1]] < ItemMax
                               /\ clean_blk_nums' < Reserved + 1 THEN 1 ELSE 0
            /\ pc' = "idle" /\ back' = "reply"
            /\ lost' = {k \in Keys : ~(Read(k) \subseteq want[k])}
            /\ want' = [k \in Keys |-> Read(k)]
            /\ UNCHANGED <<slot, fill, space, req, at, old, blk, dest, unclean,
                           reply, exposed>>

FirstUse == /\ pc = "unclean" /\ unclean = {} /\ clean_blk_nums = NBlocks
            /\ write_pos' = <<0, HdrSize>>
            /\ SetBlockState(0, "used")
            /\ clean_blk_nums' = clean_blk_nums - 1
            /\ InitDone

\* Writing goes on in the first block in use that a clean one follows.
Follows(b) == IF b + 1 = NBlocks THEN 0 ELSE b + 1
WritesTo(b) == state[b] \in {"used", "dirty"} /\ state[Follows(b)] = "clean"
Reopen == /\ pc = "unclean" /\ unclean = {} /\ clean_blk_nums \in 1..(NBlocks - 1)
          /\ \E b \in Blocks : /\ WritesTo(b)
                               /\ \A c \in Blocks : WritesTo(c) => b <= c
                               /\ write_pos' = <<b, BlockSize - space[b]>>
          /\ KeepBlockState /\ UNCHANGED clean_blk_nums
          /\ InitDone
-----------------------------------------------------------------------------
(* Power fails: the flash keeps what was programmed, RAM is lost and the   *)
(* next thing to run is kv_init. An item's write may be cut short within   *)
(* its header (Junk) or after it, so that the checksum does not match.     *)

Torn(s) == {Junk, [s EXCEPT !.crc = "bad"]}

\* Keys a GC in progress has copied while their origin_off was their own position.
Exposed == LET b == IF pc = "copy" THEN at[1] ELSE blk
               n == IF pc = "copy" THEN at[2] ELSE BlockSize IN
           {k \in Keys : \E o \in HdrSize..(n - 1) :
                /\ slot[b][o].state = "normal" /\ slot[b][o].key = k
                /\ slot[b][o].origin = <<b, o>>}

Crash ==
    /\ pc \in CrashPoints
    /\ \/ UNCHANGED flash
       \/ pc = "store" /\ \E k \in req.keys : \E s \in Torn(NewItem(k)) :
              Program(write_pos, s)
       \/ pc = "copy" /\ OnItem /\ \E s \in Torn(Cursor) : Program(write_pos, s)
    /\ state' = [b \in Blocks |-> "unset"] /\ space' = [b \in Blocks |-> 0]
    /\ clean_blk_nums' = 0 /\ write_pos' = NoPos /\ gc_trigger' = 0
    /\ pc' = "probe" /\ req' = NoReq /\ at' = NoPos /\ old' = NoPos
    /\ blk' = 0 /\ dest' = 0 /\ unclean' = {} /\ back' = "reply"
    /\ reply' = "none" /\ lost' = {}
    /\ exposed' = CASE pc = "copy" \/ (pc = "erase" /\ back = "use") -> Exposed
                    [] write_pos = NoPos -> exposed    \* kv_init was interrupted
                    [] OTHER -> {}
    /\ UNCHANGED want
-----------------------------------------------------------------------------
Init == /\ hdr = [b \in Blocks |-> "none"]
        /\ slot = [b \in Blocks |-> [o \in Offsets |-> Blank]]
        /\ fill = [b \in Blocks |-> HdrSize]
        /\ state = [b \in Blocks |-> "unset"] /\ space = [b \in Blocks |-> 0]
        /\ clean_blk_nums = 0 /\ write_pos = NoPos /\ gc_trigger = 0
        /\ pc = "probe" /\ req = NoReq /\ at = NoPos /\ old = NoPos
        /\ blk = 0 /\ dest = 0 /\ unclean = {} /\ back = "reply"
        /\ want = [k \in Keys |-> {NoVal}]
        /\ reply = "none" /\ exposed = {} /\ lost = {}

Request == \/ \E k \in Keys, v \in Vals : \/ SetSame(k, v) \/ SetHere(k, v)
                                          \/ SetOpen(k, v) \/ SetFull(k, v)
                                          \/ SetSpin(k, v)
           \/ \E k \in Keys : Get(k) \/ Delete(k)
           \/ \E ks \in Prefixes : DeletePrefix(ks)

Work == \/ Store \/ DelItem \/ MarkDirty
        \/ SkipGarbage \/ KeepItem \/ DropSelf \/ DropOrigin \/ CopyItem
        \/ EndSweep \/ EndCopy \/ EndRecovery
        \/ Erase \/ Format
        \/ GcNothing \/ GcBegin \/ GcUse
        \/ Probe \/ UncleanDirty \/ UncleanFormat \/ FormatZero \/ FirstUse \/ Reopen
        \/ Spin

Next == Request \/ Work \/ Crash

Spec == Init /\ [][Next]_vars

(* The daemon is a thread of its own that is always scheduled again; no    *)
(* client has to send another request and power need not fail.             *)
FairSpec == Spec /\ WF_vars(Work)
-----------------------------------------------------------------------------
(* Properties *)

(* Between requests a reader of any key sees the value of the last change  *)
(* the clients were told of, or the one the last recovery settled on:      *)
(* kv_item_search finds the newest item whatever GC and updates moved.     *)
ReadsLatest == pc = "idle" => \A k \in Keys : Read(k) = want[k]

(* Between requests no key has two live items, of which a later delete or  *)
(* update would remove only the first: an update, a GC and a recovery each *)
(* leave one.                                                              *)
UniqueLive == pc = "idle" =>
    \A k \in Keys : \A p, q \in Live(k) : p = q

(* A power failure at any point loses no completed change and brings no    *)
(* old value back (README.md of kv: "power fail safeguard").               *)
Durable == lost = {}

(* The two ways the code loses a completed change, and no other: GC was    *)
(* copying the item and its origin_off named its own position, or kv_init  *)
(* found no clean block and formatted block 0 over it. The key then reads  *)
(* as not stored, never as a value it had before.                          *)
OnlyExposedLost == \A k \in lost : k \in exposed /\ Read(k) = {NoVal}

(* A block still marked used holds no garbage between requests, so GC,     *)
(* which collects only dirty blocks, overlooks none.                       *)
UsedIsLive == pc = "idle" =>
    \A b \in Blocks, o \in Offsets :
        state[b] = "used" => slot[b][o] = Blank \/ slot[b][o].state = "normal"

(* Programming NOR flash only clears bits: a step changes an item from     *)
(* normal to deleted, a state byte from clean to used to dirty, or puts an *)
(* item on erased bytes right behind the last one and inside its block;    *)
(* all else is an erase. This is what block_info.space and write_pos must  *)
(* get right, after every GC, update and recovery.                         *)
Programs(b, o) ==
    \/ slot'[b][o] = slot[b][o]
    \/ slot[b][o] = Blank /\ o = fill[b] /\ o + Len(slot'[b][o]) < BlockSize
    \/ slot[b][o].state = "normal" /\ slot'[b][o] = [slot[b][o] EXCEPT !.state = "deleted"]
ClearsBits(b) == <<hdr[b], hdr'[b]>> \in
    {<<"none", "clean">>, <<"clean", "used">>, <<"clean", "dirty">>, <<"used", "dirty">>}
Erases(b) == hdr'[b] = "none" /\ \A o \in Offsets : slot'[b][o] = Blank
NorStep == \A b \in Blocks : \/ Erases(b)
                             \/ /\ hdr'[b] = hdr[b] \/ ClearsBits(b)
                                /\ \A o \in Offsets : Programs(b, o)
NorLegal == [][NorStep]_vars

(* Once power stays on, kv_init, every GC and every request come to an     *)
(* end: kv_calc_position too, with 0 when "there is no space to store".    *)
Answered == <>[][~Crash]_vars => [](pc # "idle" => <>(pc = "idle"))
-----------------------------------------------------------------------------
(* The inductive invariant behind TypeOK and NorLegal *)

\* The control points of kv_init_internal's first loop.
Looping == \/ pc \in {"probe", "scan"}
           \/ pc \in {"del", "mark"} /\ back = "scan"
           \/ pc \in {"erase", "format"} /\ back = "next"
Walking == pc \in Scanning \/ (pc \in {"del", "mark"} /\ back \in Scanning)
Collecting == \/ pc \in {"copy", "use"}
              \/ pc \in {"erase", "format"} /\ back = "use"
Up == write_pos # NoPos

\* A scan of block b gets to offset o.
OnChain(b, o) == o = fill[b] \/ (o \in Offsets /\ slot[b][o] # Blank)

\* The items of a block follow each other up to its frontier.
Chained == \A b \in Blocks :
    /\ OnChain(b, HdrSize)
    /\ \A o \in Offsets : slot[b][o] # Blank =>
        /\ o + Len(slot[b][o]) <= fill[b]
        /\ OnChain(b, o + Len(slot[b][o]))
    /\ hdr[b] = "none" => fill[b] = HdrSize

\* RAM agrees with the flash on every block kv_init_internal is done with.
Measured(b) == (Looping => b < blk) /\ ~(pc = "format" /\ b = blk)
Mirrored == \A b \in Blocks :
    /\ Measured(b) => /\ state[b] = hdr[b] /\ hdr[b] # "none"
                      /\ space[b] = BlockSize - fill[b]
    /\ Looping /\ b > blk => state[b] = "unset"
    /\ Looping /\ Walking /\ b = blk => state[b] = hdr[b] /\ hdr[b] # "none"
    /\ Looping /\ ~Walking /\ b = blk => state[b] = "unset"

\* A clean block is erased, but for those a GC was or is copying to.
CleanErased ==
    /\ \A b \in Blocks : Measured(b) /\ state[b] = "clean" =>
        \/ fill[b] = HdrSize
        \/ b \in unclean
        \/ pc = "erase" /\ b = blk
        \/ Collecting /\ b = dest
    /\ \A b \in unclean : /\ state[b] = "clean"
                          /\ Looping => b < blk
                          /\ pc \in {"erase", "format"} => b # blk
Counted == {b \in Blocks : /\ state[b] = "clean" /\ b \notin unclean
                           /\ ~((Looping \/ pc \in {"erase", "format"}) /\ b = blk)}
CleanCount == clean_blk_nums = Cardinality(Counted)

\* Where the next item goes.
Frontier == Up => /\ ~Looping /\ pc # "unclean" /\ unclean = {}
                  /\ pc \in {"erase", "format"} => back = "use"
                  /\ write_pos[2] = fill[write_pos[1]]
                  /\ IF Collecting THEN write_pos[1] = dest /\ state[dest] = "clean"
                                   ELSE state[write_pos[1]] \in {"used", "dirty"}
Control ==
    /\ ~Up => Looping \/ pc = "unclean" \/ (pc \in {"erase", "format"} /\ back = "unclean")
    /\ Walking => at \in Pos /\ OnChain(at[1], at[2])
    /\ Looping /\ Walking => at[1] = blk
    /\ pc = "copy" => /\ state[at[1]] = "dirty"
                      /\ fill[dest] <= at[2]
    /\ pc \in {"erase", "format"} => back \in {"next", "unclean", "use"}
    /\ Collecting /\ pc \in {"erase", "format"} => blk # dest
    /\ pc = "format" => hdr[blk] = "none"
    /\ pc \in {"del", "mark"} => old \in Pos /\ back \in {"reply", "sweep", "scan"}
    /\ pc = "del" => At(old).state = "normal"
    /\ pc = "mark" => state[old[1]] = "used"
    /\ pc = "store" => /\ back = "reply"
                       /\ \E k \in Keys : req.keys = {k} /\ req.val \in Vals
                            /\ Size(k, req.val) < space[write_pos[1]]
                       /\ old # NoPos => At(old).state = "normal"

IInv == TypeOK /\ Chained /\ Mirrored /\ CleanErased /\ CleanCount /\ Frontier /\ Control
-----------------------------------------------------------------------------
(* The inductive invariant behind the other safety properties              *)

\* What the scan of kv_init_internal has been over.
Passed(p) == Looping => p[1] < blk \/ (Walking /\ p[1] = blk /\ p[2] < at[2])
Filled(b) == hdr[b] = "clean" /\ fill[b] # HdrSize

\* The block recovery will format: every other one is in use, so that GC was
\* copying to it and has erased nothing yet.
Shadow == {b \in Blocks : Filled(b) /\ \A c \in Blocks \ {b} : hdr[c] \in {"used", "dirty"}}

\* The items of a key that count: there is one, but for an update in progress.
Good(p)    == At(p).state = "normal" /\ At(p).crc = "good"
Items(k)   == {p \in Pos : Good(p) /\ At(p).key = k /\ p[1] \notin Shadow}
Current(k) == IF Items(k) = {} THEN {NoVal} ELSE {At(p).val : p \in Items(k)}
Single(k)  == \A p, q \in Items(k) : p = q

\* With two blocks one is always clean or about to be.
Spare == NBlocks = Reserved + 1 =>
    /\ \E b \in Blocks : hdr[b] \in {"none", "clean"}
    /\ Up => clean_blk_nums >= Reserved

\* The items of a block do not overlap.
Disjoint == \A b \in Blocks : \A o, q \in Offsets :
    slot[b][o] # Blank /\ slot[b][q] # Blank /\ o < q => o + Len(slot[b][o]) <= q

\* A scan leaves no torn item, and no garbage in a block it leaves marked used.
NoTorn == \A p \in Pos : Passed(p) /\ At(p).state = "normal" =>
    At(p).crc = "good" \/ (pc = "del" /\ back = "scan" /\ old = p)
UsedClean == \A p \in Pos : Passed(p) /\ state[p[1]] = "used" =>
    At(p) = Blank \/ At(p).state = "normal" \/ (pc = "mark" /\ old[1] = p[1])

\* GC starts only when the last clean block is left.
Trigger == /\ gc_trigger = 1 /\ pc # "use" => clean_blk_nums <= Reserved
           /\ ~Up => gc_trigger = 0
           /\ pc = "use" => clean_blk_nums > Reserved

\* What is left of a GC that was cut short: one block, formatted only if what
\* it holds is a copy or the key is known to be exposed.
Leftover ==
    /\ \A b, c \in Blocks : Filled(b) /\ Filled(c) => b = c
    /\ \A b \in unclean : Filled(b)
    /\ pc = "erase" /\ back = "next" => hdr[blk] = "none"
    /\ pc = "erase" /\ back = "unclean" =>
         /\ Shadow \subseteq {blk}
         /\ \A k \in Keys : \A p \in Items(k) : p[1] = blk => k \in exposed

\* What a running GC has copied of its victim, and nothing else, is in dest.
Copying == pc = "copy" \/ (pc = "erase" /\ back = "use")
Victim == IF pc = "copy" THEN at[1] ELSE blk
Copied == IF pc = "copy" THEN at[2] ELSE BlockSize
Original(p) == p[1] = Victim /\ p[2] < Copied
Copies ==
    /\ Collecting => \A o \in Offsets : slot[dest][o] = Blank \/ slot[dest][o].state = "normal"
    /\ Copying =>
         /\ \A b \in Blocks \ {dest} : hdr[b] \in {"used", "dirty"}
         /\ \A p \in Pos : Original(p) /\ At(p).state = "normal" =>
                \E q \in Pos : q[1] = dest /\ At(q) = At(p)
         /\ \A q \in Pos : q[1] = dest /\ At(q) # Blank =>
                \E p \in Pos : Original(p) /\ At(p) = At(q)
         /\ \A p, q \in Pos : p[1] = dest /\ q[1] = dest /\ At(p) # Blank /\ At(q) # Blank
                               /\ At(p).key = At(q).key => p = q

\* The items of a key agree with what its readers may see, and of two one
\* names the other as the item it replaced.
Wanted == \A k \in Keys :
    /\ \A p \in Items(k) : At(p).val \in want[k]
    /\ Items(k) = {} => NoVal \in want[k] \/ (~Up /\ k \in exposed)
    /\ \A p, q \in Items(k) : p = q \/ At(p).origin = q \/ At(q).origin = p

\* Recovery deletes an item only for another one of its key.
Chosen == ~Up =>
    /\ \A k \in Keys : \A p, q \in Items(k) : Passed(p) /\ At(p).origin = q =>
            p = q \/ (pc = "del" /\ old = q)
    /\ \A k \in Keys : \A p \in Pos : p[1] \in Shadow /\ Good(p) /\ At(p).key = k =>
            (At(p).origin \in Items(k) => k \in exposed)
    /\ pc = "del" => \A k \in Keys : old \in Items(k) => k \in exposed \/ \E p \in Items(k) : p # old

\* How far the request has got with a key it changes.
Deleting(p) == /\ p \in Items(At(p).key)
               /\ IF req.val = NoVal THEN Items(At(p).key) = {p}
                  ELSE \E q \in Items(At(p).key) : /\ q # p /\ Items(At(p).key) = {p, q}
                                                   /\ At(q).val = req.val
Sweeping == pc = "sweep" \/ (pc \in {"del", "mark"} /\ back = "sweep")
Pending(k) ==
    /\ req.val \in want[k]
    /\ pc = "store" => Items(k) = {old} \ {NoPos}
    /\ pc = "del" /\ back = "reply" => At(old).key = k /\ Deleting(old)
    /\ pc = "mark" /\ back = "reply" => Current(k) = {req.val} /\ Single(k)
    /\ Sweeping => /\ Single(k)
                   /\ \A p \in Items(k) : Before(at, p) \/ (pc = "del" /\ old = p)

\* What a key's items say is what the clients were told, but for the request.
Answering ==
    /\ Up => \A k \in Keys : IF k \in req.keys THEN Pending(k)
                                             ELSE Single(k) /\ want[k] = Current(k)
    /\ ~Up \/ pc \in {"idle", "spin"} \/ Collecting => req = NoReq
    /\ pc \in {"store", "del", "mark"} /\ back = "reply" => \E k \in Keys : req.keys = {k}
    /\ Sweeping => req.val = NoVal /\ req.keys \in Prefixes
    /\ pc = "del" /\ back = "sweep" => At(old).key \in req.keys
    /\ lost # {} => pc \in {"idle", "spin"}
    /\ \A k \in lost : k \in exposed /\ want[k] = {NoVal}

DataInv == /\ Spare /\ Disjoint /\ NoTorn /\ UsedClean /\ Trigger
           /\ Leftover /\ Copies /\ Wanted /\ Chosen /\ Answering

\* What RAM holds mirrors the flash, which is laid out as the scans read it,
\* and what the items there say of each key is what the clients were told, up
\* to the request, GC or recovery in progress.
KvInv == IInv /\ DataInv
-----------------------------------------------------------------------------
(* The flash, its recovery and its GC implement the map of kv_api.h: each  *)
(* step of the daemon is one of KvStore's or leaves its variables alone.   *)
Api == INSTANCE KvStore WITH may <- want, job <- req, up <- Up
RefinesStore == Api!Spec
=============================================================================
