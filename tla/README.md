# MXOS in TLA+

Specifications of the parts of MXOS whose correctness depends on the order of steps: power failing
between two flash writes, threads that share state without locks, connections that break and are
resumed, callbacks that arrive late. TLC checks them on small instances; TLAPS proves the main
invariants for every value of the constants.

Seven parts are modelled: the flash key-value store, the daemon that serves it, the system
configuration kept in it, the resumable HTTP download, the OTA server, the software timers, and the
Breeze BLE service. Source paths below are relative to `src/`.

## 1. The system

MXOS is an SDK for Wi-Fi and Bluetooth modules: an RTOS layer, drivers, a network stack, system
services (configuration, provisioning, watchdog, command line) and libraries (downloads, OTA, the
Breeze BLE protocol). Most of the tree is vendored (FreeRTOS, LwIP, CMSIS, vendor HALs, mbedTLS) or
prebuilt; its own logic is in `mxos/MXOS/system`, `mxos/MXOS/RTOS/mxos_rtos_common.c`,
`mxos/libraries/daemons` and the `lib_*` directories.

| Component | State | Operations | Interacts with | What is hard, and what makes it correct | Module |
|---|---|---|---|---|---|
| KV store, `kv/kv.c` | blocks of items in flash; `g_kv_mgr` | set, get, delete, delete by prefix, GC, boot recovery | the mkv daemon calls it; flash HAL | power failure between any two writes; GC at the limit of space. Reads see the last completed change, recovery loses and resurrects nothing, writes go to erased flash, everything ends | `KvFlash`, `KvStore` |
| mkv daemon, `kv/mkv.c` | a queue of 10 requests, a semaphore per request | a blocking call per operation; the daemon's loop | clients of any thread, KV store, KVRO | each client gets its own answer; requests take effect once, in queue order; an answer fits its buffer; nobody waits for ever | `Mkv`, `KvService` |
| KVRO, `kvro/kvro.c` | factory items in flash, never written but to delete | get, delete | mkv | which of the two stores answers | `Mkv`, as a map |
| `kv list`, `kv/kv_cli.c` | none | walks the blocks from the CLI thread | KV store, unsynchronised | does not disturb the daemon's `space` and block states | - |
| Parameter storage, `mxos_system_para_storage.c` | the configuration in RAM, 19 items in mkv | boot, read, restore, update | mkv, every thread that changes the configuration | a save is 19 independent sets; a device that finds the magic number finds a configuration; no change that was to be saved is forgotten | `ParaStorage` |
| HTTP download, `lib_http_file_download`, `utilities/HTTPUtils.c` | a context shared by the application and a thread, `control_state`, a thread count | start, pause, continue, stop; redirect, retry | application, sockets | data is delivered once and in order over retries; success is the file; the handle leads to the thread at work; the end is told once | `HttpDownload` |
| OTA server, `daemons/ota_server` | one global context, `ota_control`, one `HTTPHeader_t` | start, pause, continue, stop | application, flash, sockets | one header buffer serves all connections; the partition holds a prefix of the image; only the image is booted; a stop ends it | `OtaServer` |
| Software timers, `mxos_rtos_common.c` | an unlocked list, a semaphore | set, set unique, unset, tick | any thread | no timer is lost, freed early or slept over; an unset timer does not fire | `SoftTimers` |
| Breeze, `lib_breeze/core` | one message in transmission, the state of the authentication, two timers | post, connect, subscribe, receive, confirm, time out | callbacks of the BLE stack, application | a message goes out in one mode; TX_DONE is true; key agreement; stalled peers are disconnected | `Breeze` |
| Worker threads, `mxos_rtos_common.c` | bounded queues of events | post, timed events | any thread | a full queue drops a tick | - |
| System monitor, `mxos_system_monitor.c` | an array of deadlines | register, update, the thread's check | monitor threads | little state; its thread has the highest priority | - |
| Notifications, `mxos_system_notification.c` | a list of callbacks per event | register, remove, notify | any thread | list integrity under callbacks that register or remove | - |
| Provisioning, `config_server`, `easylink` | connection state, received credentials | start, stop, delegate callbacks | Wi-Fi driver, parameter storage | mostly sockets, JSON and prebuilt driver | - |
| RTOS wrappers, drivers, file system, CLI, power daemon, time, TFTP and Fog OTA, protocol libraries, demos | | | | thin wrappers, vendored code, I/O or examples | - |

How the models fit together: `KvFlash` implements `KvStore`, the promise of `kv_api.h` (run
`kv_refines`, theorem `ImplementsStore`). `Mkv` has its two stores as maps, as `KvStore` allows, and
implements `KvService` (`CallsAreAtomic`): every call of any thread takes effect at one moment, if
no reader's buffer is too short for a value that hides another. That is what `ParaStorage` takes for
granted of an item. The other three parts share no state with these.

`PROJECT.json` repeats the list with the sources, and lists the hazards of each at their lines with
the properties that would catch them.

Every module has the same form: constants with named assumptions, `Init`, an action for each
operation or for each stretch of code another thread may see the inside of, `Next`, `Spec`, and
where time and scheduling matter `FairSpec`; then the properties. Operators introduced as `Mutant:`
are plausible mistakes in the code (a dropped test, a missing reset); each property is known to fail
when one of them replaces the operator it stands next to. `MC*` modules hold the instances for TLC,
`*Proofs` the theorems.

Runs, in the order of the sections below (two workers; states are distinct ones):

| Run | Module | Expected | States |
|---|---|---|---|
| `kv_two`, `kv_packed`, `kv_refines` | `MCKvFlash` | pass | |
| `kv_self_origin`, `kv_spin` | `MCKvFlash` | violation | |
| `mkv` | `MCMkv` | pass | 120 thousand |
| `para` | `MCParaStorage` | pass | 1.9 million |
| `http` | `MCHttpDownload` | pass | 560 thousand |
| `ota` | `MCOtaServer` | pass | 940 thousand |
| `ota_resume` | `MCOtaServer` | violation | |
| `timers` | `MCSoftTimers` | pass | 3.1 million |
| `breeze` | `MCBreeze` | pass | 170 thousand |

## 2. The key-value store: `KvFlash`, `KvStore`

### What the code does

The flash holds `KV_BLOCK_NUMS` erase blocks. A block starts with a magic and a state byte (clean,
used, dirty: each follows from the last by clearing bits), then items one after another: header
(magic, state, CRC-8, lengths, `origin_off`), key and value, aligned to 4 bytes. To change a key the
code appends a new item whose `origin_off` is the old item's position, and then marks the old item
deleted and its block dirty. When space runs out a flag asks for GC, which the daemon runs before it
takes the next request: it copies the live items of a dirty block to a clean one, erases the dirty
block, and marks the destination used. At boot `kv_init_internal` rebuilds the RAM state by scanning
every block, deletes items whose CRC is wrong and items whose successor was written, and treats
blocks with a clean header and items in them, the destinations of a GC that power cut short.

### Modules

| Module | |
|---|---|
| `KvFlash` | the store: flash, `g_kv_mgr`, and one action for each stretch of code up to and including its next flash write; properties; the inductive invariants; `RefinesStore`; the mutated operators used to see that each property can fail |
| `KvStore` | what `kv_api.h` promises: a map whose completed changes survive power failure |
| `MCKvFlash` | instances for TLC |
| `KvFlashProofs` | `IInv` and what follows from it: arithmetic of the layout, what a write at the frontier, a state byte, an erase or a crash keeps of the invariant, one lemma for each action, the theorems |
| `KvFlashData` | `DataInv` and what follows from it: the same for the items and their history, and the refinement of `KvStore` |

### State

| Model | Code |
|---|---|
| `hdr[b]` | magic and state byte of block b; `"none"` when there is no magic or no valid state |
| `slot[b][o]` | what a read of an item header at offset o of block b finds: `Blank` (0xFF), `Junk` (a header that was not completely written), or an item |
| `fill[b]` | the first offset behind all that was programmed in b (not a variable of the code: the code finds it by scanning) |
| `state`, `space`, `clean_blk_nums`, `write_pos`, `gc_trigger` | the fields of `g_kv_mgr`; a position is a pair of block and offset |
| `pc` | where the daemon is: `idle`, in `kv_item_set` before the `store` of the new item, in `kv_item_del` before the item's state byte (`del`) and before the block's (`mark`), scanning a block for recovery (`scan`), prefix deletion (`sweep`) or GC (`copy`), before the `erase` and before the header of `kv_block_format` (`format`), before GC marks its destination (`use`), at a block of `kv_init_internal`'s first loop (`probe`) or behind that loop (`unclean`), or in the endless loop of `kv_calc_position` (`spin`) |
| `req`, `at`, `old`, `blk`, `dest`, `unclean`, `back` | arguments and locals of the calls in progress |
| `want`, `reply`, `exposed`, `lost` | history: what clients may rely on, the last answer, and what a recovery was at risk of losing and lost |

### Actions

| Code | Actions |
|---|---|
| `kv_item_set`, `kv_item_update`, `kv_calc_position`, `kv_item_store` | `SetSame`, `SetHere`, `SetOpen`, `SetFull`, `SetSpin` (by what `kv_calc_position` finds), then `Store`, then for an update `DelItem`, `MarkDirty` |
| `kv_item_get` | `Get` |
| `kv_item_delete`, `kv_item_del` | `Delete`, `DelItem`, `MarkDirty` |
| `kv_item_delete_by_prefix` | `DeletePrefix`, then over each block `KeepItem`, `SkipGarbage`, `DropSelf`, `EndSweep` |
| `kv_gc`, `kv_gc_task` | `GcNothing`, or `GcBegin`, `CopyItem`, `SkipGarbage`, `EndCopy`, `Erase`, `Format`, `GcUse` |
| `kv_init`, `kv_init_internal` | `Probe`, `KeepItem`, `SkipGarbage`, `DropSelf`, `DropOrigin`, `EndRecovery`, `UncleanDirty`, `UncleanFormat`, `FormatZero`, `Erase`, `Format`, then `FirstUse` or `Reopen` |
| power failure | `Crash`: the flash stays, but for an item being written, of which nothing, part of the header or the header without a matching body may be there; RAM is lost |

The daemon of `mkv.c` runs `kv_gc()` before each request and runs every request to its end, and
`kv_lock` and `kv_sem_*` do nothing (`mkv.c:178-226`), so requests do not interleave with each
other; `Ready` says so. What interleaves with them is power failure.

### What is abstracted

- Keys and values are model values. `Size(k, v)` is the aligned length of the item. The body of an
  item never looks like an item header to a scan, and a CRC-8 of a torn item never matches.
- A state byte and a block's erase are atomic. A block header is one write of 4 bytes, of which a
  part is no valid header.
- `kv_item_search` reads all of a key's candidates in one action: it writes nothing, because no
  block marked used holds garbage between requests (`UsedIsLive`, which is checked), so the state
  byte that `kv_item_traverse` may set is never set there. What it does to `space` is in `Searched`.
- Not modelled: errors of the flash driver and of malloc, parameter checks, the answer for a buffer
  that is too small, `kv_deinit`, and the secure variants, which are not compiled.

### Properties and runs

Safety and action properties, in `KvFlash`:

- `ReadsLatest`: between requests a reader sees the last completed change of every key.
- `UniqueLive`: no key has two live items between requests; a later delete or update would remove
  the first only and bring the other back.
- `Durable`: a recovery preserves every completed change. With two blocks it holds when power does
  not fail while GC has items in two of them (`SurvivesPowerLoss`, below; `kv_refines` shows it as
  part of `RefinesStore`, whose `Start` leaves no other value) and is violated otherwise
  (`kv_self_origin`).
- `OnlyExposedLost`: nothing is lost in any way but the two named below, and what is lost reads as
  not stored, never as an older value.
- `UsedIsLive`: GC overlooks no garbage.
- `NorLegal`: a step only clears bits: items go on erased bytes right behind the last item of their
  block and inside it, a block's state byte only loses bits, all else is an erase.
- `Answered`: if power fails no more, every boot, GC and request comes to an end.
- `RefinesStore`: every step is a step of `KvStore` or leaves its variables alone, with `may <-
  want`, `job <- req`, `up <- write_pos # NoPos`.
- `IInv`, which has `TypeOK` as its first conjunct, and `DataInv`: the inductive invariants of the
  proofs (below). `KvInv` is both.

| Run | Instance | Shows |
|---|---|---|
| `kv_two` | 2 blocks of 9, items of 3 and 4, 2 keys, 2 values, prefix deletion, power may fail anywhere | all of the above but `Durable` and `RefinesStore`, liveness included; `KvInv` is checked here, as only an instance with blocks of several items and crashes in GC reaches all of it |
| `kv_packed` | 3 blocks of 5 (one item each), prefix deletion, power may fail anywhere | `IInv` and `OnlyExposedLost` at the limit of space: another block to search, the reserve consumed, block 0 formatted, with the keys it holds and no others. A block holds one item, so GC has none to copy here: `kv_two` and `kv_refines` have it copy |
| `kv_refines` | 2 blocks of 8, power may fail anywhere but while GC has items in two blocks | `RefinesStore` |
| `kv_self_origin`, `kv_spin` | see below | a violation each |

The bounds. Two blocks are the least `kv_init` accepts (`KV_BLOCK_NUMS > KV_RESERVED_BLOCKS`): one
to write, one for GC. Three are the least for which the search loop of `kv_calc_position` is
compiled. The default build has four, which adds no code path over three. A block takes one or two
items: enough for a block with garbage and live items, for a partial copy, and for an item that
lands on the position of the item its predecessor had replaced. Two keys distinguish the key that is
lost from its neighbour, and two values old from new. Header sizes 1 and 2 keep the inequalities of
the code (`ItemHdr < ItemMax`, a header larger than the space that may be left at a block's end). No
counter is unbounded, so no run has a state constraint, and deadlock is checked in all of them.
`Symmetry` permutes keys and values and is used only in runs without liveness and with items of one
length.

Fairness. `FairSpec` adds weak fairness of `Work`, the daemon's own steps: it is an RTOS thread that
is always scheduled again and waits for nothing within a request. No fairness is assumed of clients
or of power: `Answered` speaks of behaviours in which `Crash` happens only finitely often.

### Where the code departs from what is said about it

- `kv_self_origin` (`kv.c:299`). Let an item's `origin_off` be its own position: it replaced an item
  at p, and GC later moved it to p. When GC copies it again and power fails before the victim is
  erased, recovery takes the copy for its successor and deletes the original, then formats the
  half-filled destination because no other block is clean. The key is lost though nobody was writing
  it. GC starts when one clean block is left, so the same happens with four blocks.
- With no run of its own: the search for room does not keep `KV_RESERVED_BLOCKS` back (`kv.c:188`),
  though `kv_types.h:137` says it is there for GC. With more live items than fit in the other blocks
  the last clean block is taken, and GC, which needs one, gives up from then on. (`pc = "idle" =>
  clean_blk_nums >= Reserved` is false with four blocks of two items, as many blocks as the default
  build has, and seven keys, after seven writes and no power failure. It is not stated of two blocks,
  where the search is compiled out and it holds for that reason alone.) In that state a power cycle,
  even when idle, formats block 0 with everything in it (`kv.c:603`): `FormatZero`, which `kv_packed`
  runs through.
- `kv_spin` (`kv.c:180`). The search for room does not end when the current block is block 0 and no
  block has room: the index is wrapped after the test. (`kv_spin` shows it on blocks of one item; in
  blocks of two it takes one key more and no power failure.)

The runs with two blocks are free of the last two because the search is compiled out there.

### Proofs

`KvFlashProofs` proves for every geometry, key set, value set, item length function, set of prefixes
and set of points at which power may fail:

- `LayoutInvariant`: `Spec => []IInv`
- `TypeCorrect`: `Spec => []TypeOK`
- `NorRespected`: `Spec => NorLegal`

The assumptions are those of `KvFlash`: more than one block, positive sizes, an item header shorter
than the longest item, a block longer than its header and the longest item (4096 bytes against 4 +
648), every item longer than its header (keys and values are not empty: `kv.c:864`), and a `NoVal`
that is no value.

`TypeOK` and `NorLegal` are not inductive: that a write lands on erased flash depends on `write_pos`
being the frontier of its block, hence on `space` mirroring the flash after every scan, GC and
format, hence on scans ending exactly at the frontier. `IInv` has one conjunct for each link:
`Chained` (items follow each other from the block's header to `fill`, so a scan cannot miss the
frontier), `Mirrored` (`state` and `space` agree with the flash on every block that boot is done
with), `CleanErased` (a clean block is erased, but for the destination of a GC, running or cut
short), `CleanCount` (`clean_blk_nums` counts the clean blocks), `Frontier` (`write_pos` is the
frontier of a block in use or of GC's destination), and `Control` (what holds at each control point,
such as that GC's destination holds no more than the scanned part of its victim: the reason why
copies always fit). Lemmas prove how a write, a state byte, an erase and a step that leaves the flash
alone carry each conjunct over; one lemma for each action combines them.

`KvFlashData` goes on, for all values of the same constants:

- `StoreInvariant`: `Spec => []KvInv`, that is, `DataInv` along with `IInv`
- `ReadsLatestValue`, `OneLiveItem`, `LosesOnlyExposed`, `UsedBlocksLive`: the invariants
  `ReadsLatest`, `UniqueLive`, `OnlyExposedLost` and `UsedIsLive`

and, under premises on the constants that the runs show to be needed:

- `NothingExposed`, `SurvivesPowerLoss`, `ImplementsStore`: no key is exposed, `Durable`, and
  `RefinesStore`, with two blocks and no power failure while GC has items in both
  (`CrashPoints` without `"copy"` and `"erase"`). `kv_self_origin` loses a key without the second
  premise, and with three blocks `FormatZero` loses one without the first.

These properties say what a *reader* finds between requests; none is inductive, as they say nothing
of the states in between. `DataInv` relates the items of flash to `want` at every control point. The
items of a key that count (`Items`) are the intact ones outside a block that recovery will format
anyway (`Shadow`: the destination of a GC that had erased nothing yet). `Wanted` says that they agree
with what a client may see and that of two of them one names the other in `origin_off`; `Answering`
that there is exactly one, with the right value, but for the keys of the request in progress, and how
far that has got (`Pending`). `Copies` says that GC's destination holds the copies of the part of
the victim that was scanned, and nothing else, and `Leftover` that at most one block is the remains
of a GC, formatted only if what it holds are copies or keys known to be exposed. `NoTorn`,
`UsedClean` and `Chosen` follow a recovery block by block: behind the scan there is no torn item, no
unmarked garbage, and no item whose successor is there too; it deletes an item only while another of
its key remains. `Disjoint` and `Trigger` are the facts on layout and on `gc_trigger` that these
need. The proof takes the actions one by one: each says which items it adds, removes or moves into
the shadow, and the frame lemmas do the rest. For the refinement each action is shown to be a step
of `KvStore` or to change neither `want`, `req`, `reply` nor `Up`.

Only model-checked: `Answered`, as liveness is out of the reach of the prover.

## 3. The mkv daemon: `Mkv`, `KvService`

A client of `mkv_item_set/get/delete/delete_by_prefix` puts a message with a semaphore on a queue
and waits; the daemon pops it, calls `kv.c`, for GET and DEL also `kvro.c`, and releases the
semaphore. The message lives on the client's stack.

| Model | Code |
|---|---|
| `kv`, `ro` | the writable store and the factory one, as maps |
| `pc[c]`, `req[c]`, `ans[c]`, `sem[c]` | a client's place in the call, what it filled in, what the daemon changes (`rc`, the buffer, `len`), its semaphore |
| `queue`, `dpc`, `cur` | `mkv_msg_queue`; where the daemon is (`gc`, `pop`, `kv`, `kvro`, `release`) and whose message it has |

Actions: `Call`, `Push`, `Acquire`, `Return` of a client; the daemon's GC, `Pop`, the step on each
store, `Release`; boot and power failure, at any point. The step on the second store is apart from
the first because power may fail between them. What is left out: a call that fails for want of
memory before anything happens, errors of malloc and flash, `mkv_deinit`. What a power failure
inside GC may lose (section 2) is not repeated: here `kv` survives.

`KvService` is the abstract service: a call is asked, takes effect on a two-layer map at one moment,
and is answered. A GET gets the value that is shown, the written one in front of the factory one, and
its real length; a buffer too small gets an error, as `mkv.h:46-52` says. Two things it says of the
code may surprise:

- The code's GET is that only for a reader whose buffer holds every value of a key with a factory
  value (`AmpleBuffers`), see below.
- DEL deletes in both stores, DEL_PREFIX only in the writable one: after it the factory values come
  back. A DEL cut short by power between the stores does so too; `KvService` has this as a step of
  its own.

Properties: `RequestReply` (the daemon touches a message only while its client waits; a waiting
client is queued once, or being served, or answered, never two of these; an answer that is read is
the answer to this request), `ImplementsService`, under `AmpleBuffers`, `Answered` (every call
returns or power fails). Run `mkv`: three clients, one that SETs, one that GETs, one that deletes,
two keys under one prefix, one with a factory value. The reader has a long buffer for that key and
buffers of both lengths for the other, so that a buffer too small does occur. The queue has depth 1
instead of 10, so that it is full while two clients wait for room: with three clients a deeper queue
never fills.

Fairness: weak for the daemon, for a client that has its semaphore and for its return. Strong for
`Push`: a client blocked on a full queue sees it full again whenever another was faster, and
FreeRTOS serves the waiters of one priority in turn. `Answered` is about the queue and the
semaphores: the stores' operations are single steps here, so a `kv_calc_position` that does not end
is the business of `kv_spin`.

Why `AmpleBuffers`: without it the code departs from `mkv.h`. GET asks the factory store on every
error, not only when the key is missing (`mkv.c:41`), and `kv_item_get` has by then overwritten the
length of the buffer with the one it needs (`kv.c:918`). A factory value no longer than that is
copied, past the end of the caller's buffer, and 0 is returned for a value that the written one
hides. With a long factory value and a reader with a short buffer TLC violates `ImplementsService`
that way, so the premise stands in the run's `Asks` and in the theorem, and `KvService` keeps to
`mkv.h`.

Proved (`MkvProofs`), for any clients, depth, keys, values, prefixes and requests: `MkvTypeCorrect`,
`RepliesMatch`, and, for requests that meet `AmpleBuffers`, `CallsAreAtomic`. The invariant adds to
`RequestReply` that a message nobody has served is as its client filled it in (`Untouched`), and
what is known between the two stores (`Between`). The refinement maps the moment of effect to the
daemon's last step on the message: what a DEL took from the first store counts as still there until
the second (`Written`).

## 4. System parameters: `ParaStorage`

The configuration is a structure in RAM, changed under a mutex by some threads and without it by
others (`mxos_system_context_restore` clears and refills it), and saved item by item. `ram` and
`flash` are the fields by their place in the order `internal_update_config` saves them: data, magic
number, seed. Actions: `StartChange`, with the mutex or without it
(`mxos_easylink_monitor_save_result` and the callbacks that set `configured` take none), the changes
field by field, `Unlock`; what follows a change, which is a save by the same thread (`Changed`, most
callers) or none (`Provisioned`: `easylink_complete_cb`, `easylink_extra_data_cb`,
`aws_complete_cb`, `save_result` and the config server leave that to whoever learns that the station
came up); `Restore` with its `memset`; the roll-back (`mxos_system_context_read`) and the save
(`mxos_system_context_update`), item by item; a save that fails; power failure, then boot. A change
is known by its number, 0 is a default.

- `Covered`: a field of which flash lacks the present value is still being changed by the thread
  that put it there, or will be saved by a thread at work, or was left (a failed save, a restore or a
  boot with nobody asking to save, or a change by one of the callers that do not save, with no save
  since): no interleaving drops a change that its caller means to save.
- `AllStored`: a magic number in flash vouches for all data items.
- `Kept`: the configuration is discarded at a boot only after a thread saved the magic number while
  another's restore had it cleared.

Observations: the magic number is the 18th of 19 items, so a first save cut short leaves the
defaults, but a later one a mix of old and new data (an SSID with another network's key); nothing in
the code claims otherwise. What a provisioning callback has put in RAM is lost to a power failure
before the station comes up, and may be rolled back or saved by another thread before (`left`). The
race in `Kept` is real: `restore` takes no mutex (`mxos_system_para_storage.c:147`). `seedNum`
starts at 0 again at each boot.

Run `para`: two threads (symmetric), two data fields, two changes, two saves between boots. Two
fields are the least in which one is saved and the next is not, two changes the least in which an
older one can overwrite a newer. All items beyond are like these. No fairness: nothing is claimed to
happen.

Proved (`ParaProofs`), for any number of threads, fields and changes: `NothingForgotten`,
`MagicVouches`, `ResetOnlyByRace`, and the type (`ParaTypeCorrect`). The invariant adds that a save
has stored the items before the one it is at, and that only a restore in progress, or its roll-back,
leaves the magic number cleared.

## 5. HTTP file download: `HttpDownload`

The application holds a handle (a pointer to a context), which a thread works on. Application
threads write `control_state` through the handle; a redirect clears the handle and starts a new
download under it from the old thread. Nothing is locked. A context is an address that is used
again. `pc[c]` follows `file_download_thread` from `boot` over `begin` (FILE_DOWNLOAD_START),
`ready`, `sent`, `readable`, `checked`, `body` to `exit`, `again`, `finish`, `free_it`; each of its
checks of the control state is a step. A file is a few blocks; a server honours Range or not, and
sends a length or a chunked reply, a redirect, or an error, with a page behind its header
(`ErrorReply`) or none. Connection, reads and the data callback may fail anywhere.

- `Delivered`: over retries and pauses the callback is given each block once and in order.
- `SuccessIsWhole`: SUCCESS with a known length means that the user was given each block of the file
  once and in order, if the server honours Range, or else if the callback was offered all of the last
  reply. Without the condition it is false (below).
- `Reachable`: a thread that may still fetch is the one its user's handle points to. `Told`: while a
  user waits, a context works for it. `EndsOnce`: nothing follows the last callback.
- `Ends`: a download from a server that honours Range ends unless it is left paused or the server
  goes on for ever sending error pages. Without the last condition it is false (below).

Run `http`: one user, two contexts and two threads (the least for a redirect), one retry, two blocks
(the least in which a file is resumed in its middle), one start, two calls (pause and continue, or
stop after one of them), one redirect, all three kinds of server. Contexts are interchangeable, so
the first download always gets the first (`FirstFirst`). Deadlock is not checked: a download may be
left paused, and the system ends when it has.

Fairness: weak for the wake-ups of the blocking stop, and for threads where they do not wait for a
server without a time limit: connecting, `select` and reads of a body with a known length have limits
in the code, a header over plain HTTP (only HTTPS sockets have a limit, `http_connect`) and a chunked
body have none (`AtServer`). `Ends` has as its premise that no header is waited for for ever
(`Answers`).

Where the code departs from what is said in it. Neither has a run of its own; TLC finds both as soon
as the condition is taken out of the property:

- `http_file_download_thread.c:474`. "If write data error, disconnect the socket", says
  line 644. If the data that came with a header is refused, the callback is only turned off
  (`HTTPUtils.c:100`), the rest is read unseen, and as `download_len` equals the total, which a server
  that ignores Range may have brought about by sending the first block twice, SUCCESS is told.
- `http_file_download_thread.c:607`. The body behind any header is given to
  `onReceivedData`, which resets the count of retries before it looks at the status: a server that
  answers with error pages is asked for ever, against `DOWNLOAD_FILE_MAX_RETRY`.

Proved (`HttpProofs`), for any number of users, contexts and redirects: `NoOrphan`, `SomebodyWorks`,
`ToldOnce`. The invariant says who owns a context at each point of its life, with handles left
dangling by a failed start; the wait of a redirected thread for the one it has started is its own
conjunct (`Calling`).

Of the data, for any length of the file: `DeliversInOrder`, `SuccessMeansWhole`, and with the two
invariants and a count of the threads, `HttpTypeCorrect`. `Delivered` is about `download_len` while
data comes in; what makes it true lies elsewhere, and is `DataSound`: a user's data is seen by one
live context only (`HttpInv`); `http_req`, the offset asked for, is `download_len` when an attempt
begins and never more later; within a reply, what was read from the server's position on is what
`download_len` has grown by; and `http_total` is 0 or the length of the file, so that a short reply
is not taken for a whole one. What the callback refused, or was given in chunks, is outside of it by
the premises of the properties. The proof assumes that there are finitely many contexts, as they are
addresses. `Ends` is model-checked only.

What the model shows of the code, and the properties exclude by their premises (`A` is
`http_file_download.c`, `B` `http_file_download_thread.c`, `U` `HTTPUtils.c`):

- The result of the callback is ignored for chunked replies (U:188, 207, 225, 247): a block it
  refuses is skipped and the download may still succeed.
- A stop or pause from the START or FAILED_AND_RETRY callback is overwritten (B:397). A stop that is
  taken back before START skips the START callback (`begun`).
- A server that ignores Range and breaks each time is retried for ever, as any data resets the
  count.
- A redirect is refused when the limit of threads is reached, the old thread counted; the user is
  never told (`"lost"`).
- A failed start leaves the handle pointing to freed memory (A:153), the blocking stop writes
  through a handle that may be NULL by then (A:256-258), and between B:543 and 545 the handle of a
  download that goes on is NULL.

Not modelled: `thread_num++` as more than one step, a write of the control state as more than one,
the select of a chunked reply, which has no time limit, and URL parsing, TLS and sockets.

## 6. OTA server: `OtaServer`

One thread fetches the image into the partition, reconnects after every failure with a Range, and at
the end verifies, switches and reboots. `pc` follows `ota_server_thread`; the header reader of
`HTTPUtils.c` is modelled with its buffer (`conn.hdr`: empty, part of a header, whole, or text that
is none), because one `HTTPHeader_t` serves every connection and what is left in it is found by the
next read: a reply is parsed together with a part of an earlier one (`Parses`), which gives any
length, makes the page of an error pass for the file, or makes no header (`Malformed`). The data
callback writes whatever comes, the page behind a refusal's header included (`OtherData`). The
application's calls write `ota_control` at any time.

- `InOrder`: however often the connection breaks and the application pauses, the partition holds the
  first `download_begin_pos` blocks of the image, from a server that serves ranges, until it refuses a
  request (then the thread ends) or a joined header is parsed to what neither was (`misread`).
- `SwitchGood`: the device boots the new firmware only if the partition holds the image: always with
  an MD5, else under the conditions of `InOrder`.
- `StopEnds`, `Ends`: a stop ends the thread; so does the end of the image.

Run `ota`: three blocks (a beginning, a middle where it can break twice, an end), two starts, two
calls (a pause and what ends it), three broken connections (in the body, and in the two headers that
follow), servers with and without Range and MD5. `ota_resume` is a small instance for its violation.
Deadlock is not checked: the device may be off, rebooted, or waiting for
a server. Fairness: weak for the thread. `select` has no time limit, so `StopEnds` and `Ends` have
as their premise that no wait for the server lasts for ever (`ServerAnswers`); a broken connection
is bounded by `MaxBreaks`, as the code retries without limit.

Proved (`OtaProofs`) for every length of the image and every number of breaks, starts and calls:
`OtaTypeCorrect`, `FlashIsPrefix`, `BootsTheImage`. The invariant says for each point of the thread
what is in the header's buffer, where the next reply begins, and that `download_len`, once known, is
the length of the image; and that a refusal, whose page may be in the partition, leads to the end
only.

Where code and documentation differ: `ota_server.h:103` promises "resume from break point".

- `ota_resume` (`ota_server.c:332`): a download that was resumed has status 206 at its end, and only
  200 is installed. It is dropped with no report.
- With no run of its own (`ota_server.c:298`; TLC finds `InOrder` violated without `~misread`): a
  connection that ends within a header leaves a part of it in the
  buffer, and the next reply is parsed behind it. With the old reply's status the page of an error is
  taken for the image; cut in the digits of Content-Length, the length is wrong, and after a body too
  short the text of the next header is written (`StaleHeader`).

Observations: a pause, continue or stop between the test and the write of the control state after
the first header is lost (`Flip`); one made before the length is known may leave it 0, and the
download then never completes (`odd`); an error in the first header ends the thread silently;
without MD5 and with a server that ignores Range a broken connection may end in a corrupt image
being booted. Not modelled: a start while a thread runs and calls after its end, both of which use
freed memory (`ota_server.c:450`), chunked replies, failing malloc and thread creation.

## 7. Software timers: `SoftTimers`

`SetTimer`, `SetTimer_uniq` and `UnSetTimer` change a list of one-shot timers from any thread; the
timer thread sleeps until the next is due, unlinks those that are, calls their handlers and frees
them. Nothing is locked. Callers are interleaved at every access to the list; the timer thread,
whose priority is higher than that of the callers in this repository, at each node, in a handler
(which may set timers itself) and asleep. Times are relative to now, and a freed node keeps its
content until malloc hands it out again.

- `NoneLost`: all that malloc gave out and free has not got back is in the list, about to be linked,
  or being handled, and the list holds nothing else.
- `OnTime`: the timer thread never sleeps past the time of a timer.
- `StaysRemoved`: a handler removed by `UnSetTimer` is not called until it is set again.

The first and the last hold unless two threads were at the same link of the list (`raced`): two that
append to the same end lose a timer, and one that walks while the timer thread frees the node it
stands on follows a freed pointer. The history variable is set at exactly these points and stays
set; the properties show there is no further way. `OnTime` excepts a timer that `SetTimer_uniq`
renews to an earlier time (`soon`): nobody wakes the timer thread (`mxos_rtos_common.c:310`), and it
fires late. (The comment at line 302 says such a call is ignored; the code renews.)

Run `timers`: two callers and the handlers, two handlers, three timers, delays of up to 2 ms, three
calls in all: the least for two calls that meet while a third timer is in the list. Time passes at
any moment. Safety only, so nodes may be permuted. Not modelled: two threads in `mxchip_timer_init`,
the wrap of the clock after 2^32 ms, where `timeout < mos_time()` fails, and a failing malloc in
`SetTimer`, which returns.

Proved (`TimersProofs`), for any number of threads, handlers, nodes (finitely many: the heap), calls
and every longest delay: `TimersTypeCorrect`, `NothingLost`, `RemovedForGood` and `WakesInTime`. A
linked list has no induction over its links that a state invariant could use, so the invariant
`TimersInv` says instead that, unless `raced`, there is a set `L` of nodes with a rank `r` for each
such that

- `Ordered`: the head has the least rank, and each node's `next` is the one next in rank, NULL for
  the last;
- `Own`: what malloc has given out is in `L`, or with exactly one thread that is to link it (then its
  `next` is NULL), or with the timer thread that handles it, and these exclude each other;
- `Walkers`: whoever walks, be it to append, renew or remove, is at a node of `L`, and the timer
  thread's `q` is right behind its `p`;
- `Removals`: the nodes of a removed handler are not valid, and those before the place of an
  `UnSetTimer` at work are not either.

Appending gives the new node a rank above all, unlinking removes one from `L`. That `L` is the list
as `Listed` computes it (`ListedAll`) is shown with the rank: by induction on the number of steps,
each step from the head adds one node to those of a rank no greater, so after as many steps as there
are nodes the walk has ended. The induction is the library's theorem on well-founded sets in the
form for sets (`SetInduction`), which needs no operator as a parameter.

`OnTime` needs no exception for a race, so it has an invariant that holds in every state, `Chains`
and `Watch`. Behind a race nodes may be cut off from the list, but (`Chains`) none that is out is
linked from two others, and the head, and the nodes that are still to be linked, from none. `Watch`:
unless somebody is about to wake the timer thread, or it looks again within 1 ms anyway, there is a
set of nodes that it has come past, from which and from the head no link leads to any but these and
the one it stands on, and none of them is due before the time it will wake at. Whoever changes a link
keeps this up: a caller that links a node releases the semaphore, and a timer that is unlinked makes
the timer thread look again.

## 8. Breeze: `Breeze`

The device side of the BLE service. The transmitter has one message in progress, sent one packet at
a time, each confirmed by the stack; what is left to send is watched by a timer. The authentication
advances on commands it receives and on *every* message that is through, under a timer of its own.
Handlers run in the thread of the BLE stack, so a handler is one step (a post from another thread is
not modelled any finer, though nothing is locked), written as an operator on the record `b` of the
modules' globals, because handlers call one another (TX_DONE may post again before `reset_tx`, and
`auth_tx_done` sends the next message).

- `OneMode`: a message's packets all go out in clear or under one key, unless a call was refused
  meanwhile: a refused `transport_tx` has by then changed the mode of the message in progress
  (`transport.c:270`).
- `DoneWhenSent`: TX_DONE is told when no packet of the message is in the air, unless a report for
  another message's packet was counted for it (`stray`).
- `KeyAgreed`: the device changes to its own key when both messages the peer derives it from were
  through, or the timer ended one (`cut`).
- `AuthEnds`: a connection that does not authenticate is closed or given up, unless authentication
  was begun again with no timer running (`retried`).
- `TxFrees`: the transmitter becomes free again if the stack fails no packet.

Run `breeze`: messages of the application of two packets (one that is watched by the timer, one that
is not; the authentication sends messages of one), one post, four writes of the peer per connection
(the two subscriptions and the two commands of a full authentication), one fault, two connections.
Safety was also checked with posts of one packet, two posts and five writes. Deadlock is not
checked, as the bounds end the system. Fairness: timers expire, the stack reports every packet, and
a connection that is to be closed is. The two timers have the same length, so they expire in the
order of their starts.

Observations: the last packet has no timer, so a failed report leaves the transmitter busy until the
connection ends; a post from TX_DONE is wiped by `reset_tx` though it returned success
(`transport.c:409`); a post while disconnected keeps the transmitter busy for up to 10 s, and a
connection in that time has its first message refused and stays unauthenticated with no timer;
rewriting a subscription restarts the authentication without its timer; the key survives a
disconnection. Not modelled: the header bit that `g_dn_complete` clears in the packets of a message
(`transport.c:151`), the receiver's reassembly and its timer, `breeze_post_fast` (whose
recursion at `transport.c:205` has no bound), messages of more than 16 fragments
(`transport.c:298`), the variant `BZ_AUTH_MODEL_SEC = 1`.

`BreezeProofs` proves the three safety properties and the type. `OneMode` follows from `Good`: as
long as no call is refused, the packets that are out went out in the mode the transmitter has, and
nothing is out where the mode may change, which for the key is behind `reset_tx`. `DoneWhenSent` and
`KeyAgreed` follow from `Whole`. A report does not say whose packet it is for, so the counters alone
prove nothing: unless a stray report was counted, at most one packet of the message is in the air,
and then exactly one is asked for and not confirmed (`Linked`). And while the authentication waits
for one of its messages that message is the one in progress, or is through (`Agreed`). The handlers
nest, so each operator has a lemma, with weaker forms of the invariant (`Clean`, `Through`, `Told`)
for the states inside a handler. `BreezeTypeCorrect` has an invariant of its own, `Fits`: each
packet asked for carries a part of the message (or is the one of an empty one), so no more is sent
than the message has; and a timer is stopped before it is started, so the two run once each.

## 9. What is proved and what is not

| Theorem | States |
|---|---|
| `KvFlashProofs`: `LayoutInvariant`, `TypeCorrect`, `NorRespected` | `IInv`, `TypeOK`, `NorLegal` |
| `KvFlashData`: `StoreInvariant`, `ReadsLatestValue`, `OneLiveItem`, `LosesOnlyExposed`, `UsedBlocksLive` | `KvInv`, `ReadsLatest`, `UniqueLive`, `OnlyExposedLost`, `UsedIsLive` |
| `KvFlashData`, with two blocks and no power failure in GC: `NothingExposed`, `SurvivesPowerLoss`, `ImplementsStore` | `exposed = {}`, `Durable`, `RefinesStore` |
| `MkvProofs`: `MkvTypeCorrect`, `RepliesMatch` | `TypeOK`, `RequestReply` |
| `MkvProofs`, with ample buffers: `CallsAreAtomic` | `ImplementsService` |
| `ParaProofs`: `NothingForgotten`, `MagicVouches`, `ResetOnlyByRace`, `ParaTypeCorrect` | `Covered`, `AllStored`, `Kept`, `TypeOK` |
| `HttpProofs`: `NoOrphan`, `SomebodyWorks`, `ToldOnce` | `Reachable`, `Told`, `EndsOnce` |
| `HttpProofs`: `DeliversInOrder`, `SuccessMeansWhole`, `HttpTypeCorrect` | `Delivered`, `SuccessIsWhole`, `TypeOK` |
| `OtaProofs`: `OtaTypeCorrect`, `FlashIsPrefix`, `BootsTheImage` | `TypeOK`, `InOrder`, `SwitchGood` |
| `TimersProofs`: `TimersTypeCorrect`, `NothingLost`, `RemovedForGood`, `WakesInTime` | `TypeOK`, `NoneLost`, `StaysRemoved`, `OnTime` |
| `BreezeProofs`: `MessageInOneMode`, `DoneMeansSent`, `KeyIsAgreed`, `BreezeTypeCorrect` | `OneMode`, `DoneWhenSent`, `KeyAgreed`, `TypeOK` |

Each follows from the named assumptions on the constants alone, but for the four whose premises the
table names. Every safety invariant and action property of the passing runs is stated by one of
them. With TLC alone stay: all liveness (`Answered`, `Ends`, `StopEnds`, `AuthEnds`, `TxFrees`), which
is out of the prover's reach. The properties of the runs that expect a violation do not hold and are
not proved: `Durable` with power failing in GC, `ResumeInstalls`, and `Answered` of the store with
three blocks. The conditions that make `ImplementsService` of `Mkv`, `SuccessIsWhole`, `Ends`,
`InOrder` and `SwitchGood` true are part of their statements or of the theorem's; what happens
without them is told in sections 3, 5 and 6.

## 10. Not modelled, and the plan

- Failing flash writes and failing malloc in `kv.c` (the hazard at line 679), and the
  unsynchronised walk of `kv list`: next, as a failure flag of `CopyItem` and `Store` and a second
  reader in `KvFlash`.
- The receiver of Breeze and its commands, worker threads and their timed events, the notification
  lists.
- The system monitor: its check is one pass of arithmetic in the highest-priority thread, with which
  nothing interleaves.
- Provisioning, TFTP and Fog OTA, the command line, the file system: I/O, parsing and calls of
  prebuilt libraries, with little state of their own.
- Kernel, network stack, drivers, MCU support, protocol libraries and firmware images are vendored
  or generated, and demos are examples; they make up all but about one per cent of the tree's lines.
