-------------------------------- MODULE Mkv --------------------------------
(***************************************************************************)
(* The request service of src/mxos/MXOS/system/kv/mkv.c: any thread calls  *)
(* mkv_item_*, which queues a message and waits on a semaphore of its own; *)
(* one daemon takes the messages in turn and serves them from the writable *)
(* store (kv.c) and the read-only one behind it (kvro.c).                  *)
(*                                                                         *)
(* The two stores are maps here: KvFlash shows what kv.c makes of its one. *)
(* The message, which lives on the client's stack, is split in what the    *)
(* client fills in (req) and what the daemon changes (ans).                *)
(***************************************************************************)
EXTENDS Naturals, Sequences

CONSTANTS
    Clients,    \* threads that call mkv_item_*
    Keys, Vals, NoVal,
    Length,     \* bytes of a value
    Prefixes,   \* the sets of keys that share a prefix some client deletes
    Caps,       \* buffer sizes of mkv_item_get
    Factory,    \* what the read-only store holds when the device is new
    Asks,       \* Asks[c]: the requests c makes
    Depth       \* of the queue: 10 in mkv_init

Values   == Vals \cup {NoVal}
Requests == [cmd : {"SET"}, key : Keys, val : Vals, cap : {0}]
    \cup    [cmd : {"GET"}, key : Keys, val : {NoVal}, cap : Caps]
    \cup    [cmd : {"DEL"}, key : Keys, val : {NoVal}, cap : {0}]
    \cup    [cmd : {"DEL_PREFIX"}, key : Prefixes, val : {NoVal}, cap : {0}]

ASSUME StoreAssumption == /\ NoVal \notin Vals /\ Prefixes \subseteq SUBSET Keys
                          /\ Factory \in [Keys -> Values]
                          /\ Length \in [Vals -> Nat \ {0}] /\ Caps \subseteq Nat \ {0}
ASSUME CallAssumption == /\ Asks \in [Clients -> SUBSET Requests]
                         /\ Depth \in Nat \ {0}

VARIABLES
    kv, ro,     \* the stores: key -> value, in flash
    pc,         \* pc[c]: where c is in mkv_item_*
    req,        \* req[c]: msg->cmd, key, val of a SET, and the caller's buffer
    ans,        \* ans[c]: msg->rc, what is in the buffer, msg->len
    sem,        \* sem[c]: count of msg->sem
    queue,      \* mkv_msg_queue
    dpc, cur,   \* where the daemon is, and whose message it has
    held        \* history: what the delete in progress took from kv

store == <<kv, ro>>
vars  == <<kv, ro, pc, req, ans, sem, queue, dpc, cur, held>>

NoReq    == [cmd |-> "none"]
Lens     == {0} \cup Caps \cup {Length[v] : v \in Vals}
Codes    == {"none", "ok", "nospace", "notfound"}   \* "none": not set yet
Fresh(n) == [rc |-> "none", out |-> NoVal, len |-> n]

Init == /\ kv = [k \in Keys |-> NoVal] /\ ro = Factory
        /\ pc = [c \in Clients |-> "idle"] /\ req = [c \in Clients |-> NoReq]
        /\ ans = [c \in Clients |-> Fresh(0)] /\ sem = [c \in Clients |-> 0]
        /\ queue = <<>> /\ dpc = "off" /\ cur \in Clients /\ held = NoVal

------------------------------- (* Clients *) -------------------------------
\* The calls begin alike: the message is filled in, with a new semaphore. (If
\* there is no memory for that, the call returns -1 and nothing happens.)
Call(c) ==
    /\ dpc # "off" /\ pc[c] = "idle" /\ pc' = [pc EXCEPT ![c] = "push"]
    /\ \E r \in Asks[c] : /\ req' = [req EXCEPT ![c] = r]
                          /\ ans' = [ans EXCEPT ![c] = Fresh(r.cap)]
    /\ sem' = [sem EXCEPT ![c] = 0]
    /\ UNCHANGED <<store, queue, dpc, cur, held>>

\* Mutant: the push does not wait for room.
PushAnyway(c) ==
    /\ pc[c] = "push"
    /\ queue' = Append(queue, c) /\ pc' = [pc EXCEPT ![c] = "wait"]
    /\ UNCHANGED <<store, req, ans, sem, dpc, cur, held>>

\* mkv_queue_push blocks while the queue is full.
Push(c) ==
    /\ pc[c] = "push" /\ Len(queue) < Depth
    /\ queue' = Append(queue, c) /\ pc' = [pc EXCEPT ![c] = "wait"]
    /\ UNCHANGED <<store, req, ans, sem, dpc, cur, held>>

\* mkv_sem_acquire
Acquire(c) ==
    /\ pc[c] = "wait" /\ sem[c] = 1
    /\ sem' = [sem EXCEPT ![c] = 0] /\ pc' = [pc EXCEPT ![c] = "read"]
    /\ UNCHANGED <<store, req, ans, queue, dpc, cur, held>>

\* The client copies rc and len; its stack frame and the message are gone.
Return(c) ==
    /\ pc[c] = "read" /\ pc' = [pc EXCEPT ![c] = "idle"]
    /\ ans' = [ans EXCEPT ![c] = Fresh(0)] /\ req' = [req EXCEPT ![c] = NoReq]
    /\ UNCHANGED <<store, sem, queue, dpc, cur, held>>

------------------------------- (* Daemon *) --------------------------------
At(p, cmd) == dpc = p /\ req[cur].cmd = cmd
Key        == req[cur].key
Answer(a)  == ans' = [ans EXCEPT ![cur] = a]
Code(rc)   == Answer([ans[cur] EXCEPT !.rc = rc])
Goto(p)    == dpc' = p
Idle       == UNCHANGED <<pc, req, sem, queue, cur>>

\* mkv_init: the clients start when it has returned.
Boot == dpc = "off" /\ Goto("gc") /\ Idle /\ UNCHANGED <<store, ans, held>>

\* kv_gc: moves items, and changes no value unless power fails (KvFlash).
Gc == dpc = "gc" /\ Goto("pop") /\ Idle /\ UNCHANGED <<store, ans, held>>

\* Mutant: the message is looked at but left in the queue.
Peek == /\ dpc = "pop" /\ queue # <<>>
        /\ cur' = Head(queue) /\ queue' = queue /\ Goto("kv")
        /\ UNCHANGED <<store, pc, req, ans, sem, held>>

Pop == /\ dpc = "pop" /\ queue # <<>>
       /\ cur' = Head(queue) /\ queue' = Tail(queue) /\ Goto("kv")
       /\ UNCHANGED <<store, pc, req, ans, sem, held>>

\* kv_item_set has room for the item, or not and changes nothing.
KvSet == /\ At("kv", "SET") /\ Goto("release")
         /\ \/ kv' = [kv EXCEPT ![Key] = req[cur].val] /\ Code("ok")
            \/ kv' = kv /\ Code("nospace")
         /\ Idle /\ UNCHANGED <<ro, held>>

\* kv_item_get and kvro_item_get answer alike: the value if the buffer of
\* length a.len holds it, else the length it needs.
Look(v, a) == IF v = NoVal THEN [a EXCEPT !.rc = "notfound"]
              ELSE IF a.len < Length[v]
              THEN [a EXCEPT !.rc = "nospace", !.len = Length[v]]
              ELSE [rc |-> "ok", out |-> v, len |-> Length[v]]

KvGet == /\ At("kv", "GET")
         /\ LET a == Look(kv[Key], ans[cur])
            IN  Answer(a) /\ Goto(IF a.rc = "ok" THEN "release" ELSE "kvro")
         /\ Idle /\ UNCHANGED <<store, held>>

\* On every error of the first store the second is asked, for as many bytes
\* as the first has put in msg->len.
RoGet == /\ At("kvro", "GET") /\ Goto("release")
         /\ Answer(Look(ro[Key], ans[cur]))
         /\ Idle /\ UNCHANGED <<store, held>>

\* Mutant: the factory value is forgotten.
KvDeleteOnly == /\ At("kv", "DEL") /\ Goto("release")
                /\ kv' = [kv EXCEPT ![Key] = NoVal] /\ held' = held
                /\ Code(IF kv[Key] = NoVal THEN "notfound" ELSE "ok")
                /\ Idle /\ UNCHANGED ro

\* A delete empties the key in one store ...
KvDelete == /\ At("kv", "DEL") /\ Goto("kvro")
            /\ kv' = [kv EXCEPT ![Key] = NoVal] /\ held' = kv[Key]
            /\ Code(IF kv[Key] = NoVal THEN "notfound" ELSE "ok")
            /\ Idle /\ UNCHANGED ro

\* ... and then in the other, for good: nothing writes it again.
RoDelete == /\ At("kvro", "DEL") /\ Goto("release")
            /\ ro' = [ro EXCEPT ![Key] = NoVal] /\ held' = NoVal
            /\ Code(IF ro[Key] = NoVal THEN ans[cur].rc ELSE "ok")
            /\ Idle /\ UNCHANGED kv

Without(S) == [k \in Keys |-> IF k \in S THEN NoVal ELSE kv[k]]
KvDeletePrefix ==
    /\ At("kv", "DEL_PREFIX") /\ Goto("release")
    /\ kv' = Without(Key) /\ Code("ok")
    /\ Idle /\ UNCHANGED <<ro, held>>

\* Mutant: an error leaves the loop body before the semaphore.
ReleaseOk == /\ dpc = "release" /\ Goto("gc")
             /\ sem' = IF ans[cur].rc = "ok" THEN [sem EXCEPT ![cur] = 1] ELSE sem
             /\ UNCHANGED <<store, pc, req, ans, queue, cur, held>>

\* mkv_sem_release: the daemon's last use of the message.
Release == /\ dpc = "release" /\ Goto("gc")
           /\ sem' = [sem EXCEPT ![cur] = 1]
           /\ UNCHANGED <<store, pc, req, ans, queue, cur, held>>

\* Power fails: the stores stay. A write cut short happens or not, and of the
\* keys under a prefix some may have been deleted (KvStore).
Crash == /\ dpc # "off" /\ Goto("off")
         /\ \/ kv' = kv
            \/ At("kv", "DEL_PREFIX") /\ \E S \in SUBSET Key : kv' = Without(S)
         /\ pc' = [c \in Clients |-> "idle"] /\ queue' = <<>> /\ held' = NoVal
         /\ ans' = [c \in Clients |-> Fresh(0)] /\ sem' = [c \in Clients |-> 0]
         /\ req' = [c \in Clients |-> NoReq]
         /\ UNCHANGED <<ro, cur>>

Daemon == \/ Boot \/ Gc \/ Pop \/ KvSet \/ KvGet \/ RoGet \/ KvDelete
          \/ RoDelete \/ KvDeletePrefix \/ Release
Next   == \/ Daemon \/ Crash
          \/ \E c \in Clients : Call(c) \/ Push(c) \/ Acquire(c) \/ Return(c)

Spec == Init /\ [][Next]_vars

\* The scheduler runs the daemon and the clients. FreeRTOS wakes the senders
\* of a full queue in the order in which they blocked (among equal
\* priorities), so one that keeps waiting gets a place.
FairSpec == /\ Spec /\ WF_vars(Daemon)
            /\ \A c \in Clients : /\ SF_vars(Push(c))
                                  /\ WF_vars(Acquire(c)) /\ WF_vars(Return(c))

----------------------------- (* Properties *) ------------------------------
Serving(c) == cur = c /\ dpc \in {"kv", "kvro", "release"}
Queued(c)  == \E i \in 1..Len(queue) : queue[i] = c
Served(c)  == pc[c] = "read" \/ sem[c] = 1 \/ (cur = c /\ dpc = "release")

Answers == [rc : Codes, out : Values, len : Lens]
TypeOK ==
    /\ kv \in [Keys -> Values] /\ ro \in [Keys -> Values]
    /\ pc \in [Clients -> {"idle", "push", "wait", "read"}]
    /\ req \in [Clients -> Requests \cup {NoReq}] /\ ans \in [Clients -> Answers]
    /\ sem \in [Clients -> {0, 1}]
    /\ queue \in Seq(Clients) /\ Len(queue) <= Depth
    /\ dpc \in {"off", "gc", "pop", "kv", "kvro", "release"}
    /\ cur \in Clients /\ held \in Values

\* The daemon touches a message only while its client waits for it, and a
\* client reads an answer that was given to this very request: whoever waits
\* is queued once, or being served, or has been answered, never two of these.
RequestReply ==
    /\ \A i, j \in 1..Len(queue) : queue[i] = queue[j] => i = j
    /\ \A c \in Clients :
          /\ Queued(c)  => pc[c] = "wait" /\ sem[c] = 0 /\ ~Serving(c)
          /\ Serving(c) => pc[c] = "wait" /\ sem[c] = 0
          /\ pc[c] = "wait" => Queued(c) \/ Serving(c) \/ sem[c] = 1
          /\ sem[c] = 1 => pc[c] = "wait"
          /\ Served(c) => ans[c].rc # "none"

\* A premise on the calls: whoever reads a key with a factory value has a
\* buffer for every value. Other keys may be read into buffers too small.
AmpleBuffers == \A c \in Clients : \A r \in Asks[c] :
                   r.cmd = "GET" /\ Factory[r.key] # NoVal
                   => \A v \in Vals : Length[v] <= r.cap

\* Under AmpleBuffers, without which a read may answer the factory value that
\* a written one hides and run over its buffer (RoGet), the service is mkv.h's.
\* Each call takes effect at one moment between call and return, also when
\* power fails, but for a delete cut short between the two stores: the moment
\* is the daemon's last step on the message, so what a first step took from
\* the writable store counts as still there until the second.
Written == IF dpc = "kvro" /\ req[cur].cmd = "DEL"
           THEN [kv EXCEPT ![Key] = held] ELSE kv
Stage   == [c \in Clients |-> IF pc[c] = "idle" THEN "idle"
                              ELSE IF Served(c) THEN "done" ELSE "asked"]
Given   == [c \in Clients |-> IF Served(c) THEN ans[c] ELSE Fresh(0)]
Service == INSTANCE KvService WITH kv <- Written, st <- Stage, ans <- Given
ImplementsService == Service!Spec

\* Every call returns, or power fails: nobody waits for ever on the queue, its
\* semaphore or the daemon, which never waits on a client.
Answered == \A c \in Clients : pc[c] = "push" ~> pc[c] = "idle"
=============================================================================
