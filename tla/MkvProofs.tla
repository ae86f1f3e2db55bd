----------------------------- MODULE MkvProofs -----------------------------
(***************************************************************************)
(* Proofs about Mkv, for every number of clients, depth of the queue and   *)
(* contents of the stores: an answer belongs to the request it is read     *)
(* for, and the calls are atomic (KvService).                              *)
(***************************************************************************)
EXTENDS Mkv, TLAPS

(* What a client has asked for and the answer is still to come.            *)
Asked(c) == pc[c] # "idle" => req[c] \in Requests
Unasked(c) == pc[c] = "idle" => req[c] = NoReq /\ ans[c] = Fresh(0)
(* Nobody has touched the message of a client that is not being served.    *)
Untouched(c) == /\ pc[c] = "push" => sem[c] = 0
                /\ pc[c] \in {"push", "wait"} /\ ~Served(c) /\ ~(cur = c /\ dpc = "kvro")
                   => ans[c] = Fresh(req[c].cap)
(* Between the two stores, the answer is the first one's.                  *)
Between == dpc = "kvro" =>
    \/ /\ req[cur].cmd = "GET" /\ ans[cur].rc # "ok"
       /\ ans[cur] = Look(kv[Key], Fresh(req[cur].cap))
    \/ /\ req[cur].cmd = "DEL" /\ kv[Key] = NoVal
       /\ ans[cur].rc = IF held = NoVal THEN "notfound" ELSE "ok"
Off == dpc = "off" => /\ \A c \in Clients : pc[c] = "idle" /\ sem[c] = 0
                      /\ queue = <<>>

Requested == \A c \in Clients : Asked(c) /\ Unasked(c) /\ Untouched(c)
MkvInv == TypeOK /\ RequestReply /\ Requested /\ Between /\ Off

LEMMA InitInv == Init => MkvInv
<1> SUFFICES ASSUME Init PROVE MkvInv
  OBVIOUS
<1> USE StoreAssumption, CallAssumption DEF Init
<1>1. TypeOK
  BY DEF TypeOK, Fresh, Answers, Codes, Lens, Values
<1>2. RequestReply
  BY DEF RequestReply, Queued, Serving, Served
<1>3. Requested /\ Between /\ Off
  BY DEF Requested, Asked, Unasked, Untouched, Between, Off
<1> QED BY <1>1, <1>2, <1>3 DEF MkvInv

LEMMA CallInv == ASSUME NEW c \in Clients, MkvInv, Call(c) PROVE MkvInv'
<1> USE StoreAssumption, CallAssumption DEF MkvInv, Call, store
<1>0. PICK r \in Asks[c] : req' = [req EXCEPT ![c] = r] /\ ans' = [ans EXCEPT ![c] = Fresh(r.cap)]
  OBVIOUS
<1>a. r \in Requests /\ r.cap \in Lens
  BY DEF Requests, Lens
<1>1. TypeOK'
  BY <1>0, <1>a DEF TypeOK, Fresh, Answers, Codes, Values
<1>2. RequestReply'
  BY <1>0, <1>a DEF RequestReply, Queued, Serving, Served, TypeOK
<1>3. Requested'
  BY <1>0, <1>a DEF Requested, Asked, Unasked, Untouched, TypeOK, RequestReply, Served, Serving
<1>4. Between' /\ Off'
  BY <1>0, <1>a DEF Between, Off, TypeOK, RequestReply, Serving, Key, Look, Fresh
<1> QED BY <1>1, <1>2, <1>3, <1>4

(* The queue behind a push and a pop.                                      *)
LEMMA Appended ==
  ASSUME NEW c \in Clients, TypeOK, queue' = Append(queue, c)
  PROVE  /\ Len(queue') = Len(queue) + 1 /\ queue'[Len(queue')] = c
         /\ \A i \in 1..Len(queue) : queue'[i] = queue[i]
  BY DEF TypeOK

LEMMA Popped ==
  ASSUME TypeOK, queue # <<>>, queue' = Tail(queue)
  PROVE  /\ Head(queue) = queue[1] /\ 1 \in 1..Len(queue) /\ Head(queue) \in Clients
         /\ \A i \in 1..Len(queue') : /\ i + 1 \in 1..Len(queue) /\ i + 1 # 1
                                      /\ queue'[i] = queue[i + 1]
         /\ \A i \in 2..Len(queue) : i - 1 \in 1..Len(queue') /\ queue'[i - 1] = queue[i]
  BY DEF TypeOK

LEMMA PushInv == ASSUME NEW c \in Clients, MkvInv, Push(c) PROVE MkvInv'
<1> USE StoreAssumption, CallAssumption DEF MkvInv, Push, store
<1>1. TypeOK'
  BY DEF TypeOK
<1>q. /\ Len(queue) \in Nat /\ ~Queued(c) /\ ~Serving(c)
      /\ \A d \in Clients : Queued(d)' <=> Queued(d) \/ d = c
  <2>1. Len(queue) \in Nat /\ ~Queued(c) /\ ~Serving(c)
    BY DEF RequestReply, TypeOK
  <2>2. ASSUME NEW d \in Clients, Queued(d)' PROVE Queued(d) \/ d = c
    BY <2>1, <2>2, Appended DEF Queued
  <2>3. ASSUME NEW d \in Clients, Queued(d) \/ d = c PROVE Queued(d)'
    BY <2>1, <2>3, Appended DEF Queued
  <2> QED BY <2>1, <2>2, <2>3
<1>2. RequestReply'
  <2>1. ASSUME NEW i \in 1..Len(queue'), NEW j \in 1..Len(queue'), queue'[i] = queue'[j]
        PROVE  i = j
    BY <2>1, <1>q, Appended DEF RequestReply, Queued
  <2>2. ASSUME NEW d \in Clients
        PROVE  /\ Queued(d)'  => (pc[d] = "wait" /\ sem[d] = 0 /\ ~Serving(d))'
               /\ Serving(d)' => (pc[d] = "wait" /\ sem[d] = 0)'
               /\ (pc[d] = "wait")' => Queued(d)' \/ Serving(d)' \/ sem'[d] = 1
               /\ sem'[d] = 1 => (pc[d] = "wait")'
               /\ Served(d)' => (ans[d].rc # "none")'
    BY <1>q DEF RequestReply, Serving, Served, TypeOK, Requested, Untouched
  <2> QED BY <2>1, <2>2 DEF RequestReply
<1>3. Requested'
  BY DEF Requested, Asked, Unasked, Untouched, TypeOK, RequestReply, Served, Serving
<1>4. Between' /\ Off'
  BY DEF Between, Off, TypeOK, RequestReply, Serving, Key, Look, Fresh
<1> QED BY <1>1, <1>2, <1>3, <1>4

LEMMA AcquireInv == ASSUME NEW c \in Clients, MkvInv, Acquire(c) PROVE MkvInv'
<1> USE StoreAssumption, CallAssumption DEF MkvInv, Acquire, store
<1>1. TypeOK'
  BY DEF TypeOK
<1>2. RequestReply'
  BY DEF RequestReply, Queued, Serving, Served, TypeOK, Requested, Untouched
<1>3. Requested'
  BY DEF Requested, Asked, Unasked, Untouched, TypeOK, RequestReply, Served, Serving
<1>4. Between' /\ Off'
  BY DEF Between, Off, TypeOK, RequestReply, Serving, Key, Look, Fresh
<1> QED BY <1>1, <1>2, <1>3, <1>4

LEMMA ReturnInv == ASSUME NEW c \in Clients, MkvInv, Return(c) PROVE MkvInv'
<1> USE StoreAssumption, CallAssumption DEF MkvInv, Return, store
<1>1. TypeOK'
  BY DEF TypeOK, Fresh, Answers, Codes, Values, Lens
<1>2. RequestReply'
  BY DEF RequestReply, Queued, Serving, Served, TypeOK, Requested, Untouched
<1>3. Requested'
  BY DEF Requested, Asked, Unasked, Untouched, TypeOK, RequestReply, Served, Serving
<1>4. Between' /\ Off'
  BY DEF Between, Off, TypeOK, RequestReply, Serving, Key, Look, Fresh
<1> QED BY <1>1, <1>2, <1>3, <1>4

LEMMA PopInv == ASSUME MkvInv, Pop PROVE MkvInv'
<1> USE StoreAssumption, CallAssumption DEF MkvInv, Pop, store, Goto
<1>1. TypeOK'
  BY DEF TypeOK
<1>c. PICK c \in Clients : c = cur'
  BY Popped
<1>q. /\ Queued(c) /\ ~Queued(c)'
      /\ \A d \in Clients \ {c} : Queued(d)' <=> Queued(d)
  <2>1. Queued(c) /\ c = queue[1]
    BY <1>c, Popped DEF Queued
  <2>2. ASSUME Queued(c)' PROVE FALSE
    <3>1. PICK i \in 1..Len(queue') : queue'[i] = c
      BY <2>2 DEF Queued
    <3> QED BY <3>1, <2>1, Popped DEF RequestReply
  <2>3. ASSUME NEW d \in Clients \ {c}, Queued(d)' PROVE Queued(d)
    BY <2>3, Popped DEF Queued
  <2>4. ASSUME NEW d \in Clients \ {c}, Queued(d) PROVE Queued(d)'
    <3>1. PICK i \in 1..Len(queue) : queue[i] = d
      BY <2>4 DEF Queued
    <3>2. i \in 2..Len(queue)
      BY <3>1, <2>1 DEF TypeOK
    <3> QED BY <3>1, <3>2, Popped DEF Queued
  <2> QED BY <2>1, <2>2, <2>3, <2>4
<1>2. RequestReply'
  <2>1. ASSUME NEW i \in 1..Len(queue'), NEW j \in 1..Len(queue'), queue'[i] = queue'[j]
        PROVE  i = j
    BY <2>1, Popped DEF RequestReply
  <2>2. ASSUME NEW d \in Clients
        PROVE  /\ Queued(d)'  => (pc[d] = "wait" /\ sem[d] = 0 /\ ~Serving(d))'
               /\ Serving(d)' => (pc[d] = "wait" /\ sem[d] = 0)'
               /\ (pc[d] = "wait")' => Queued(d)' \/ Serving(d)' \/ sem'[d] = 1
               /\ sem'[d] = 1 => (pc[d] = "wait")'
               /\ Served(d)' => (ans[d].rc # "none")'
    BY <1>c, <1>q DEF RequestReply, Serving, Served, TypeOK
  <2> QED BY <2>1, <2>2 DEF RequestReply
<1>3. Requested'
  BY DEF Requested, Asked, Unasked, Untouched, TypeOK, RequestReply, Served, Serving
<1>4. Between' /\ Off'
  BY DEF Between, Off, TypeOK
<1> QED BY <1>1, <1>2, <1>3, <1>4

LEMMA ReleaseInv == ASSUME MkvInv, Release PROVE MkvInv'
<1> USE StoreAssumption, CallAssumption DEF MkvInv, Release, store, Goto
<1>1. TypeOK'
  BY DEF TypeOK
<1>2. RequestReply'
  BY DEF RequestReply, Queued, Serving, Served, TypeOK, Requested, Untouched
<1>3. Requested'
  BY DEF Requested, Asked, Unasked, Untouched, TypeOK, RequestReply, Served, Serving
<1>4. Between' /\ Off'
  BY DEF Between, Off, TypeOK
<1> QED BY <1>1, <1>2, <1>3, <1>4

LEMMA CrashInv == ASSUME MkvInv, Crash PROVE MkvInv'
<1> USE StoreAssumption, CallAssumption DEF MkvInv, Crash, store, Goto
<1>1. TypeOK'
  <2>1. kv' \in [Keys -> Values]
    BY DEF TypeOK, Without, Values
  <2> QED BY <2>1 DEF TypeOK, Fresh, Answers, Codes, Values, Lens
<1>2. RequestReply'
  BY DEF RequestReply, Queued, Serving, Served, TypeOK
<1>3. Requested'
  BY DEF Requested, Asked, Unasked, Untouched
<1>4. Between' /\ Off'
  BY DEF Between, Off, TypeOK
<1> QED BY <1>1, <1>2, <1>3, <1>4

(* A step of the daemon on the message it holds.                           *)
LEMMA StepInv ==
  ASSUME MkvInv, dpc \in {"kv", "kvro"}, Idle, dpc' \in {"kvro", "release"},
         kv' \in [Keys -> Values], ro' \in [Keys -> Values], held' \in Values,
         NEW a \in Answers, a.rc # "none", Answer(a), Between'
  PROVE  MkvInv'
<1> USE DEF MkvInv, Idle, Answer
<1>1. TypeOK'
  BY DEF TypeOK
<1>2. RequestReply'
  BY DEF RequestReply, Queued, Serving, Served, TypeOK
<1>3. Requested'
  BY DEF Requested, Asked, Unasked, Untouched, TypeOK, RequestReply, Served, Serving
<1>4. Off'
  BY DEF Off
<1> QED BY <1>1, <1>2, <1>3, <1>4

(* The message the daemon holds when it comes from the queue.              *)
LEMMA InHand ==
  ASSUME MkvInv, dpc \in {"kv", "kvro"}
  PROVE  /\ cur \in Clients /\ req[cur] \in Requests /\ ans[cur] \in Answers
         /\ dpc = "kv" => ans[cur] = Fresh(req[cur].cap)
  BY DEF MkvInv, TypeOK, RequestReply, Serving, Served, Requested, Asked, Untouched

LEMMA LookType ==
  ASSUME NEW v \in Values, NEW a \in Answers
  PROVE  Look(v, a) \in Answers /\ Look(v, a).rc # "none"
<1> USE StoreAssumption DEF Look, Answers, Codes, Values, Lens
<1>1. CASE v = NoVal
  BY <1>1
<1>2. CASE v # NoVal
  BY <1>2
<1> QED BY <1>1, <1>2

LEMMA KvSetInv == ASSUME MkvInv, KvSet PROVE MkvInv'
<1> USE DEF KvSet, At, Goto, Key
<1>1. req[cur] \in Requests /\ req[cur].key \in Keys /\ req[cur].val \in Vals
  BY InHand DEF Requests
<1>2. PICK rc \in {"ok", "nospace"} : Code(rc)
  OBVIOUS
<1>3. [ans[cur] EXCEPT !.rc = rc] \in Answers /\ [ans[cur] EXCEPT !.rc = rc].rc # "none"
  BY InHand DEF Answers, Codes
<1>4. kv' \in [Keys -> Values] /\ ro' \in [Keys -> Values] /\ held' \in Values
  BY <1>1 DEF MkvInv, TypeOK, Values
<1>5. Between'
  BY DEF Between
<1> QED BY <1>2, <1>3, <1>4, <1>5, StepInv DEF Code

LEMMA KvGetInv == ASSUME MkvInv, KvGet PROVE MkvInv'
<1> USE DEF KvGet, At, Goto, Key
<1>1. req[cur] \in Requests /\ req[cur].key \in Keys /\ ans[cur] = Fresh(req[cur].cap)
  BY InHand DEF Requests
<1>2. kv[Key] \in Values /\ cur \in Clients
  BY <1>1 DEF MkvInv, TypeOK
<1>3. Look(kv[Key], ans[cur]) \in Answers /\ Look(kv[Key], ans[cur]).rc # "none"
  BY <1>2, InHand, LookType
<1>4. Answer(Look(kv[Key], ans[cur]))
  OBVIOUS
<1>5. Between'
  BY <1>1, <1>2, <1>4 DEF Between, Answer, Idle, store, MkvInv, TypeOK
<1>6. kv' \in [Keys -> Values] /\ ro' \in [Keys -> Values] /\ held' \in Values
  BY DEF MkvInv, TypeOK, store
<1> QED BY <1>3, <1>4, <1>5, <1>6, StepInv

LEMMA RoGetInv == ASSUME MkvInv, RoGet PROVE MkvInv'
<1> USE DEF RoGet, At, Goto, Key
<1>1. req[cur] \in Requests /\ req[cur].key \in Keys
  BY InHand DEF Requests
<1>2. ro[Key] \in Values
  BY <1>1 DEF MkvInv, TypeOK
<1>3. Look(ro[Key], ans[cur]) \in Answers /\ Look(ro[Key], ans[cur]).rc # "none"
  BY <1>2, InHand, LookType
<1>4. Between'
  BY DEF Between
<1>5. kv' \in [Keys -> Values] /\ ro' \in [Keys -> Values] /\ held' \in Values
  BY DEF MkvInv, TypeOK, store
<1> QED BY <1>3, <1>4, <1>5, StepInv

LEMMA KvDeleteInv == ASSUME MkvInv, KvDelete PROVE MkvInv'
<1> USE DEF KvDelete, At, Goto, Key
<1>1. req[cur] \in Requests /\ req[cur].key \in Keys
  BY InHand DEF Requests
<1> DEFINE rc == IF kv[Key] = NoVal THEN "notfound" ELSE "ok"
<1>2. [ans[cur] EXCEPT !.rc = rc] \in Answers /\ [ans[cur] EXCEPT !.rc = rc].rc # "none"
  BY InHand DEF Answers, Codes
<1>3. kv' \in [Keys -> Values] /\ ro' \in [Keys -> Values] /\ held' \in Values
  BY <1>1 DEF MkvInv, TypeOK, Values
<1>4. Between'
  BY <1>1, InHand DEF Between, Code, Answer, Idle, MkvInv, TypeOK, Answers
<1> QED BY <1>2, <1>3, <1>4, StepInv DEF Code

LEMMA RoDeleteInv == ASSUME MkvInv, RoDelete PROVE MkvInv'
<1> USE DEF RoDelete, At, Goto, Key
<1>1. req[cur] \in Requests /\ req[cur].key \in Keys
  BY InHand DEF Requests
<1> DEFINE rc == IF ro[Key] = NoVal THEN ans[cur].rc ELSE "ok"
<1>2. [ans[cur] EXCEPT !.rc = rc] \in Answers /\ [ans[cur] EXCEPT !.rc = rc].rc # "none"
  BY InHand DEF Answers, Codes, MkvInv, Between
<1>3. kv' \in [Keys -> Values] /\ ro' \in [Keys -> Values] /\ held' \in Values
  BY <1>1 DEF MkvInv, TypeOK, Values
<1>4. Between'
  BY DEF Between
<1> QED BY <1>2, <1>3, <1>4, StepInv DEF Code

LEMMA KvDeletePrefixInv == ASSUME MkvInv, KvDeletePrefix PROVE MkvInv'
<1> USE DEF KvDeletePrefix, At, Goto, Key, Without
<1>1. [ans[cur] EXCEPT !.rc = "ok"] \in Answers /\ [ans[cur] EXCEPT !.rc = "ok"].rc # "none"
  BY InHand DEF Answers, Codes
<1>2. kv' \in [Keys -> Values] /\ ro' \in [Keys -> Values] /\ held' \in Values
  BY DEF MkvInv, TypeOK, Values
<1>3. Between'
  BY DEF Between
<1> QED BY <1>1, <1>2, <1>3, StepInv DEF Code

(* Boot, GC and steps that change nothing.                                 *)
LEMMA QuietInv == ASSUME MkvInv, Boot \/ Gc \/ UNCHANGED vars PROVE MkvInv'
<1> USE DEF Boot, Gc, Goto, Idle, store, vars, MkvInv
<1>1. TypeOK'
  BY DEF TypeOK
<1>2. RequestReply'
  BY DEF RequestReply, Queued, Serving, Served
<1>3. Requested'
  BY DEF Requested, Asked, Unasked, Untouched, Served
<1>4. Between' /\ Off'
  BY DEF Between, Off, Key
<1> QED BY <1>1, <1>2, <1>3, <1>4

LEMMA Inductive == MkvInv /\ [Next]_vars => MkvInv'
  BY CallInv, PushInv, AcquireInv, ReturnInv, PopInv, ReleaseInv, CrashInv, QuietInv,
     KvSetInv, KvGetInv, RoGetInv, KvDeleteInv, RoDeleteInv, KvDeletePrefixInv
  DEF Next, Daemon

(* Whoever waits is queued once, being served or answered, and whatever    *)
(* the daemon writes, it writes into the message of a client that waits.   *)
THEOREM RepliesMatch == Spec => []RequestReply
<1>1. MkvInv => RequestReply
  BY DEF MkvInv
<1> QED BY <1>1, InitInv, Inductive, PTL DEF Spec

(* Every variable keeps its type; the queue never exceeds its depth.       *)
THEOREM MkvTypeCorrect == Spec => []TypeOK
<1>1. MkvInv => TypeOK
  BY DEF MkvInv
<1> QED BY <1>1, InitInv, Inductive, PTL DEF Spec

-----------------------------------------------------------------------------
(* The refinement. Where the service's variables do not move:              *)
LEMMA Stutter ==
  ASSUME Written' = Written, ro' = ro, Stage' = Stage, req' = req, Given' = Given
  PROVE  UNCHANGED Service!vars
  BY DEF Service!vars

LEMMA ClientMaps ==
  ASSUME MkvInv, NEW c \in Clients, Push(c) \/ Acquire(c)
  PROVE  UNCHANGED Service!vars
<1>1. \A d \in Clients : Served(d)' <=> Served(d)
  BY DEF MkvInv, TypeOK, RequestReply, Served, Push, Acquire
<1>2. Stage' = Stage
  BY <1>1 DEF Stage, Push, Acquire, MkvInv, TypeOK
<1>3. Given' = Given
  BY <1>1 DEF Given, Push, Acquire
<1>4. Written' = Written
  BY DEF Written, Key, Push, Acquire, store
<1> QED BY <1>2, <1>3, <1>4, Stutter DEF Push, Acquire, store

LEMMA CallMaps ==
  ASSUME MkvInv, NEW c \in Clients, Call(c)
  PROVE  Service!Ask(c)
<1> USE DEF Call, store
<1>1. ~Served(c) /\ ~Served(c)' /\ (cur # c \/ dpc \notin {"kv", "kvro", "release"})
  BY DEF MkvInv, TypeOK, RequestReply, Serving, Served
<1>2. ~Served(c) /\ ~Served(c)' /\ \A d \in Clients \ {c} : Served(d)' <=> Served(d)
  BY DEF MkvInv, TypeOK, RequestReply, Serving, Served
<1>3. Stage[c] = "idle" /\ Stage' = [Stage EXCEPT ![c] = "asked"]
  BY <1>2 DEF Stage, MkvInv, TypeOK
<1>4. Given' = Given
  BY <1>2 DEF Given, MkvInv, TypeOK
<1>5. Written' = Written
  BY <1>1 DEF Written, Key, MkvInv, TypeOK
<1> QED BY <1>3, <1>4, <1>5 DEF Service!Ask

LEMMA ReturnMaps ==
  ASSUME MkvInv, NEW c \in Clients, Return(c)
  PROVE  Service!Return(c)
<1> USE DEF Return, store
<1>1. Served(c) /\ ~Served(c)' /\ ~Serving(c)
  BY DEF MkvInv, TypeOK, RequestReply, Serving, Served
<1>2. \A d \in Clients \ {c} : Served(d)' <=> Served(d)
  BY DEF MkvInv, TypeOK, Served
<1>3. Stage[c] = "done" /\ Stage' = [Stage EXCEPT ![c] = "idle"]
  BY <1>1, <1>2 DEF Stage, MkvInv, TypeOK
<1>4. Given' = [Given EXCEPT ![c] = Service!Nothing]
  BY <1>1, <1>2 DEF Given, MkvInv, TypeOK, Fresh, Service!Nothing
<1>5. Written' = Written
  BY <1>1 DEF Written, Key, MkvInv, TypeOK, Serving
<1> QED BY <1>3, <1>4, <1>5 DEF Service!Return, Service!NoReq, NoReq

LEMMA QuietMaps ==
  ASSUME MkvInv, Boot \/ Gc \/ Pop \/ Release
  PROVE  UNCHANGED Service!vars
<1> USE DEF Boot, Gc, Pop, Release, Goto, Idle, store
<1>1. \A d \in Clients : Served(d)' <=> Served(d)
  BY DEF MkvInv, TypeOK, RequestReply, Serving, Served
<1>2. Stage' = Stage
  BY <1>1 DEF Stage
<1>3. Given' = Given
  BY <1>1 DEF Given
<1>4. Written' = Written
  BY DEF Written, Key
<1> QED BY <1>2, <1>3, <1>4, Stutter

(* The first of two steps: a delete's, or a get's that finds no answer.    *)
LEMMA FirstHalfMaps ==
  ASSUME MkvInv, dpc = "kv", dpc' = "kvro", Idle, ro' = ro, Written' = kv,
         NEW a, Answer(a)
  PROVE  UNCHANGED Service!vars
<1> USE DEF Idle, Answer
<1>1. \A d \in Clients : Served(d)' <=> Served(d)
  BY DEF Served
<1>2. cur \in Clients /\ ~Served(cur)
  BY DEF MkvInv, TypeOK, RequestReply, Serving, Served
<1>3. Stage' = Stage
  BY <1>1 DEF Stage
<1>4. Given' = Given
  BY <1>1, <1>2 DEF Given, MkvInv, TypeOK
<1>5. Written = kv
  BY DEF Written
<1> QED BY <1>3, <1>4, <1>5, Stutter

(* The last step on a message is the moment at which the call takes        *)
(* effect.                                                                 *)
LEMMA LastStep ==
  ASSUME MkvInv, dpc \in {"kv", "kvro"}, dpc' = "release", Idle,
         NEW a \in Answers, Answer(a)
  PROVE  /\ Stage[cur] = "asked" /\ Stage' = [Stage EXCEPT ![cur] = "done"]
         /\ Given' = [Given EXCEPT ![cur] = a] /\ Written' = kv' /\ req' = req
         /\ cur \in Clients /\ req[cur] \in Requests
<1> USE DEF Idle, Answer
<1>1. cur \in Clients /\ ~Served(cur) /\ Served(cur)' /\ pc[cur] = "wait"
  BY DEF MkvInv, TypeOK, RequestReply, Serving, Served
<1>2. \A d \in Clients \ {cur} : Served(d)' <=> Served(d)
  BY DEF Served
<1>3. Stage[cur] = "asked" /\ Stage' = [Stage EXCEPT ![cur] = "done"]
  BY <1>1, <1>2 DEF Stage, MkvInv, TypeOK
<1>4. Given' = [Given EXCEPT ![cur] = a]
  BY <1>1, <1>2 DEF Given, MkvInv, TypeOK
<1>5. Written' = kv'
  BY DEF Written
<1> QED BY <1>1, <1>3, <1>4, <1>5, InHand

LEMMA ServeMaps ==
  ASSUME MkvInv, dpc \in {"kv", "kvro"}, dpc' = "release", Idle,
         NEW a \in Answers, a.rc # "none", Answer(a),
         \/ req[cur].cmd = "SET" /\ Service!Set(req[cur], a)
         \/ req[cur].cmd = "GET" /\ Service!Get(req[cur], a)
         \/ req[cur].cmd = "DEL" /\ Service!Delete(req[cur], a)
         \/ req[cur].cmd = "DEL_PREFIX" /\ Service!DeletePrefix(req[cur], a)
  PROVE  \E c \in Clients : Service!Serve(c)
<1>1. a \in [rc : {"ok", "nospace", "notfound"}, out : Service!Values, len : Service!Lens]
  BY DEF Answers, Codes, Values, Lens, Service!Values, Service!Lens
<1>2. Service!Serve(cur)
  BY <1>1, LastStep DEF Service!Serve
<1> QED BY <1>2, LastStep

LEMMA KvSetMaps == ASSUME MkvInv, KvSet PROVE \E c \in Clients : Service!Serve(c)
<1> USE DEF KvSet, At, Goto, Key
<1>1. PICK rc \in {"ok", "nospace"} :
         /\ Code(rc)
         /\ kv' = IF rc = "ok" THEN [kv EXCEPT ![Key] = req[cur].val] ELSE kv
  OBVIOUS
<1> DEFINE a == [ans[cur] EXCEPT !.rc = rc]
<1>2. a \in Answers /\ a.rc = rc /\ Answer(a)
  BY <1>1, InHand DEF Answers, Codes, Code
<1>3. Written = kv /\ Written' = kv'
  BY DEF Written
<1>4. Service!Set(req[cur], a)
  BY <1>1, <1>2, <1>3 DEF Service!Set
<1> QED BY <1>2, <1>4, ServeMaps

(* Where requests and factory values come from.                            *)
Origin == /\ \A c \in Clients : pc[c] # "idle" => req[c] \in Asks[c]
          /\ \A k \in Keys : ro[k] \in {NoVal, Factory[k]}

LEMMA OriginInit == Init => Origin
  BY DEF Init, Origin

LEMMA OriginStep == TypeOK /\ Origin /\ [Next]_vars => Origin'
<1> SUFFICES ASSUME TypeOK, Origin, [Next]_vars PROVE Origin'
  OBVIOUS
<1> USE DEF Origin
<1>1. ASSUME NEW c \in Clients, Call(c) PROVE Origin'
  BY <1>1 DEF Call, store, TypeOK
<1>2. ASSUME NEW c \in Clients, Push(c) \/ Acquire(c) \/ Return(c) PROVE Origin'
  BY <1>2 DEF Push, Acquire, Return, store, TypeOK
<1>3. CASE RoDelete
  BY <1>3 DEF RoDelete, Idle, TypeOK
<1>4. CASE Crash
  BY <1>4 DEF Crash
<1>5. CASE Boot \/ Gc \/ Pop \/ KvGet \/ RoGet \/ Release \/ UNCHANGED vars
  BY <1>5 DEF Boot, Gc, Pop, KvGet, RoGet, Release, Idle, store, vars
<1>6. CASE KvSet \/ KvDelete \/ KvDeletePrefix
  BY <1>6 DEF KvSet, KvDelete, KvDeletePrefix, Idle
<1> QED BY <1>1, <1>2, <1>3, <1>4, <1>5, <1>6 DEF Next, Daemon

(* With ample buffers a read that finds the value shown too long for its    *)
(* buffer has no factory value behind it.                                  *)
LEMMA NothingBehind ==
  ASSUME AmpleBuffers, MkvInv, Origin, dpc \in {"kv", "kvro"}, req[cur].cmd = "GET",
         NEW v \in Vals, ~(Length[v] <= req[cur].cap)
  PROVE  ro[Key] = NoVal
<1>1. cur \in Clients /\ pc[cur] # "idle" /\ req[cur] \in Asks[cur]
  BY DEF MkvInv, TypeOK, RequestReply, Serving, Origin
<1>2. Key \in Keys
  BY InHand DEF Key, Requests
<1> QED BY <1>1, <1>2 DEF AmpleBuffers, Origin, Key

LEMMA GetLegal ==
  ASSUME MkvInv, AmpleBuffers, Origin, NEW a \in Answers, req[cur] \in Requests, req[cur].cmd = "GET",
         UNCHANGED store, dpc \in {"kv", "kvro"}, dpc' = "release",
         LET first == Look(kv[Key], Fresh(req[cur].cap))
         IN  a = IF first.rc = "ok" THEN first ELSE Look(ro[Key], first)
  PROVE  Service!Get(req[cur], a)
<1> USE DEF Key, store
<1>1. Written = kv /\ Written' = kv' /\ kv' = kv /\ ro' = ro
  BY DEF Written
<1>2. req[cur].key \in Keys /\ req[cur].cap \in Nat
  BY StoreAssumption DEF Requests
<1>3. kv[Key] \in Values /\ ro[Key] \in Values
  BY <1>2 DEF MkvInv, TypeOK
<1>4. \A v \in Vals : Length[v] \in Nat /\ v # NoVal
  BY StoreAssumption
<1>5. CASE kv[Key] = NoVal
  BY <1>1, <1>2, <1>3, <1>4, <1>5 DEF Look, Fresh, Service!Get, Service!Shown, Values
<1>6. CASE kv[Key] # NoVal /\ Length[kv[Key]] <= req[cur].cap
  BY <1>1, <1>2, <1>3, <1>4, <1>6 DEF Look, Fresh, Service!Get, Service!Shown, Values
<1>7. CASE kv[Key] # NoVal /\ ~(Length[kv[Key]] <= req[cur].cap)
  <2>1. kv[Key] \in Vals /\ ro[Key] = NoVal
    BY <1>3, <1>7, NothingBehind DEF Values
  <2> QED BY <1>1, <1>2, <1>3, <1>4, <1>7, <2>1 DEF Look, Fresh, Service!Get, Service!Shown, Values
<1> QED BY <1>5, <1>6, <1>7

LEMMA KvGetMaps ==
  ASSUME MkvInv, AmpleBuffers, Origin, KvGet
  PROVE  UNCHANGED Service!vars \/ \E c \in Clients : Service!Serve(c)
<1> USE DEF KvGet, At, Goto
<1> DEFINE a == Look(kv[Key], ans[cur])
<1>1. req[cur] \in Requests /\ req[cur].key \in Keys /\ ans[cur] = Fresh(req[cur].cap)
  BY InHand DEF Requests
<1>2. a \in Answers /\ a.rc # "none"
  BY <1>1, InHand, LookType DEF MkvInv, TypeOK, Key
<1>3. CASE a.rc = "ok"
  BY <1>1, <1>2, <1>3, GetLegal, ServeMaps
<1>4. CASE a.rc # "ok"
  <2>1. Written' = kv
    BY <1>4 DEF Written, store, Idle
  <2> QED BY <1>4, <2>1, FirstHalfMaps DEF store
<1> QED BY <1>3, <1>4

LEMMA RoGetMaps ==
  ASSUME MkvInv, AmpleBuffers, Origin, RoGet PROVE \E c \in Clients : Service!Serve(c)
<1> USE DEF RoGet, At, Goto
<1> DEFINE a == Look(ro[Key], ans[cur])
<1>1. req[cur] \in Requests /\ req[cur].key \in Keys
  BY InHand DEF Requests
<1>2. a \in Answers /\ a.rc # "none"
  BY <1>1, InHand, LookType DEF MkvInv, TypeOK, Key
<1>3. ans[cur] = Look(kv[Key], Fresh(req[cur].cap)) /\ ans[cur].rc # "ok"
  BY DEF MkvInv, Between
<1>4. Service!Get(req[cur], a)
  BY <1>1, <1>2, <1>3, GetLegal
<1> QED BY <1>2, <1>4, ServeMaps

LEMMA KvDeleteMaps == ASSUME MkvInv, KvDelete PROVE UNCHANGED Service!vars
<1> USE DEF KvDelete, At, Goto, Key
<1>1. req[cur] \in Requests /\ req[cur].key \in Keys
  BY InHand DEF Requests
<1>2. Written' = kv
  BY <1>1 DEF Written, Idle, MkvInv, TypeOK
<1> QED BY <1>2, FirstHalfMaps DEF Code

LEMMA RoDeleteMaps == ASSUME MkvInv, RoDelete PROVE \E c \in Clients : Service!Serve(c)
<1> USE DEF RoDelete, At, Goto, Key
<1> DEFINE rc == IF ro[Key] = NoVal THEN ans[cur].rc ELSE "ok"
           a  == [ans[cur] EXCEPT !.rc = rc]
<1>1. req[cur] \in Requests /\ req[cur].key \in Keys
  BY InHand DEF Requests
<1>2. kv[Key] = NoVal /\ ans[cur].rc = IF held = NoVal THEN "notfound" ELSE "ok"
  BY DEF MkvInv, Between
<1>3. a \in Answers /\ a.rc = rc /\ rc # "none" /\ Answer(a)
  BY <1>2, InHand DEF Answers, Codes, Code
<1>4. Written = [kv EXCEPT ![Key] = held] /\ Written' = kv' /\ kv' = kv
  BY DEF Written
<1>5. kv' = [Written EXCEPT ![Key] = NoVal] /\ Written[Key] = held
  BY <1>1, <1>2, <1>4 DEF MkvInv, TypeOK
<1>6. Service!Delete(req[cur], a)
  BY <1>2, <1>3, <1>4, <1>5 DEF Service!Delete, Service!Shown
<1> QED BY <1>3, <1>6, ServeMaps

LEMMA KvDeletePrefixMaps ==
  ASSUME MkvInv, KvDeletePrefix PROVE \E c \in Clients : Service!Serve(c)
<1> USE DEF KvDeletePrefix, At, Goto, Key, Without
<1> DEFINE a == [ans[cur] EXCEPT !.rc = "ok"]
<1>1. a \in Answers /\ a.rc = "ok" /\ Answer(a)
  BY InHand DEF Answers, Codes, Code
<1>2. Written = kv /\ Written' = kv'
  BY DEF Written
<1>3. Service!DeletePrefix(req[cur], a)
  BY <1>1, <1>2 DEF Service!DeletePrefix
<1> QED BY <1>1, <1>3, ServeMaps

LEMMA CrashMaps == ASSUME MkvInv, Crash PROVE Service!Fail
<1> USE DEF Crash, Goto, store
<1>1. \A d \in Clients : ~Served(d)'
  BY DEF Served
<1>2. Stage' = [d \in Clients |-> "idle"] /\ Given' = [d \in Clients |-> Service!Nothing]
  BY <1>1 DEF Stage, Given, Fresh, Service!Nothing
<1>3. Written' = kv' /\ ro' = ro /\ req' = [d \in Clients |-> Service!NoReq]
  BY DEF Written, NoReq, Service!NoReq
<1>4. CASE kv' = kv /\ ~At("kvro", "DEL")
  BY <1>2, <1>3, <1>4 DEF At, Written, Service!Fail
<1>5. CASE kv' = kv /\ At("kvro", "DEL")
  <2>1. cur \in Clients /\ Stage[cur] = "asked" /\ req[cur].key \in Keys
    BY <1>5, InHand DEF At, Stage, MkvInv, TypeOK, RequestReply, Serving, Served, Requests
  <2>2. kv[Key] = NoVal /\ Written = [kv EXCEPT ![Key] = held]
    BY <1>5 DEF At, MkvInv, Between, Written
  <2>3. kv = [Written EXCEPT ![req[cur].key] = NoVal]
    BY <2>1, <2>2 DEF Key, MkvInv, TypeOK
  <2> QED BY <1>2, <1>3, <1>5, <2>1, <2>3 DEF At, Service!Fail
<1>6. ASSUME At("kv", "DEL_PREFIX"), NEW S \in SUBSET Key, kv' = Without(S)
      PROVE  Service!Fail
  <2>1. cur \in Clients /\ Stage[cur] = "asked"
    BY <1>6, InHand DEF At, Stage, MkvInv, TypeOK, RequestReply, Serving, Served
  <2>2. Written = kv /\ kv' = [k \in Keys |-> IF k \in S THEN NoVal ELSE Written[k]]
    BY <1>6 DEF At, Written, Without
  <2> QED BY <1>2, <1>3, <1>6, <2>1, <2>2 DEF At, Key, Service!Fail
<1> QED BY <1>4, <1>5, <1>6

LEMMA InitMaps == Init => Service!Init
  BY DEF Init, Service!Init, Service!NoReq, NoReq, Service!Nothing, Fresh, Written, Stage,
         Given, Served

LEMMA NextMaps ==
  AmpleBuffers /\ MkvInv /\ Origin /\ [Next]_vars => [Service!Next]_(Service!vars)
<1> SUFFICES ASSUME AmpleBuffers, MkvInv, Origin, [Next]_vars
             PROVE Service!Next \/ UNCHANGED Service!vars
  OBVIOUS
<1>1. CASE UNCHANGED vars
  BY <1>1 DEF vars, Service!vars, Written, Key, Stage, Given, Served
<1>2. CASE Daemon
  BY <1>2, QuietMaps, KvSetMaps, KvGetMaps, RoGetMaps, KvDeleteMaps, RoDeleteMaps,
     KvDeletePrefixMaps DEF Daemon, Service!Next
<1>3. CASE Crash
  BY <1>3, CrashMaps DEF Service!Next
<1>4. ASSUME NEW c \in Clients, Call(c) \/ Push(c) \/ Acquire(c) \/ Return(c)
      PROVE  Service!Next \/ UNCHANGED Service!vars
  BY <1>4, CallMaps, ClientMaps, ReturnMaps DEF Service!Next
<1> QED BY <1>1, <1>2, <1>3, <1>4 DEF Next

(* If whoever reads a key with a factory value has room for every value    *)
(* (AmpleBuffers: without it the code does not keep mkv.h's promise),      *)
(* mkv.c is the atomic two-layer map of mkv.h: whatever the clients' calls *)
(* overlap with, each has the effect and the answer it would have had      *)
(* alone, at a moment between its call and its return, and a buffer too    *)
(* small gets an error and the length needed. Power failing in between may *)
(* undo or complete a call, and can split only a delete.                   *)
THEOREM CallsAreAtomic == ASSUME AmpleBuffers PROVE Spec => ImplementsService
<1>1. MkvInv => TypeOK
  BY DEF MkvInv
<1>2. MkvInv /\ Origin /\ [Next]_vars => [Service!Next]_(Service!vars)
  BY NextMaps
<1> QED BY <1>1, <1>2, InitInv, OriginInit, OriginStep, InitMaps, Inductive, PTL
        DEF Spec, ImplementsService, Service!Spec
=============================================================================
