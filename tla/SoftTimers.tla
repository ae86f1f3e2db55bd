----------------------------- MODULE SoftTimers -----------------------------
(***************************************************************************)
(* The software timers of mxos_rtos_common.c: a list of one-shot timers    *)
(* that SetTimer, SetTimer_uniq and UnSetTimer change from any thread, and *)
(* one thread that sleeps until the next is due, unlinks those that are,   *)
(* calls their handlers and frees them. Nothing is locked. The callers of  *)
(* this repository have a lower priority than the timer thread: they are   *)
(* interleaved at every access to the list, it is so wherever it sleeps or *)
(* calls a handler, which may block, and between two nodes.                *)
(*                                                                         *)
(* Times are counted from now: left is timeout - mos_time(), -1 for all    *)
(* that is past. A node that was freed keeps what it held until malloc     *)
(* gives it out again.                                                     *)
(***************************************************************************)
EXTENDS Integers, FiniteSets

CONSTANTS Callers, Timer,       \* threads that set timers; the timer thread
          Handlers, Nodes, NULL,
          MaxDelay, MaxCalls    \* bounds: of a delay, and of calls

ASSUME TimerAssumption == /\ Timer \notin Callers /\ NULL \notin Nodes /\ Handlers # {}
                          /\ MaxDelay \in Nat \ {0} /\ MaxCalls \in Nat
                          /\ IsFiniteSet(Nodes)     \* the heap

VARIABLES
    node, head,     \* the heap's nodes, timer_head
    sem,            \* timer_sem
    tick,           \* the timer thread
    at,             \* at[t]: where thread t is in a call
    calls,          \* history, for the bound
    gone, mixed,    \* history: handlers UnSetTimer has removed; its callers
                    \* during whose call the handler was also being set
    raced           \* history: two threads were at the same link of the list

vars == <<node, head, sem, tick, at, calls, gone, mixed, raced>>

Threads == Callers \cup {Timer}
Never   == MaxDelay + 1         \* MOS_NEVER_TIMEOUT
Links   == Nodes \cup {NULL}

\* soon (history): renewed to an earlier time since the timer thread saw it.
Fresh(h, d) == [left |-> d, h |-> h, next |-> NULL, valid |-> TRUE, used |-> TRUE, soon |-> FALSE]
NotUsed == [Fresh(CHOOSE h \in Handlers : TRUE, -1) EXCEPT !.used = FALSE]
Idle == [pc |-> "idle", p |-> NULL, new |-> NULL, h |-> CHOOSE h \in Handlers : TRUE, ms |-> 0]

Init == /\ node = [n \in Nodes |-> NotUsed] /\ head = NULL /\ sem = 0
        /\ tick = [pc |-> "sleep", wake |-> Never, p |-> NULL, q |-> NULL,
                   next |-> Never, inner |-> FALSE]
        /\ at = [t \in Threads |-> Idle] /\ calls = 0 /\ gone = {} /\ mixed = {} /\ raced = FALSE

------------------------ (* SetTimer and the others *) ----------------------
\* The thread of a handler is the timer thread.
Ready(t) == at[t].pc = "idle" /\ (t = Timer => tick.pc = "call")
Called(t) == Ready(t) /\ calls < MaxCalls /\ calls' = calls + 1
Goto(t, r) == at' = [at EXCEPT ![t] = r]
Return(t) == Goto(t, Idle)

\* malloc; if it fails the call returns -1.
Alloc(t, h, d) ==
    \E n \in Nodes : /\ ~node[n].used /\ node' = [node EXCEPT ![n] = Fresh(h, d)]
                     /\ Goto(t, [Idle EXCEPT !.pc = "link", !.new = n, !.h = h])

Walking == {"walk", "append", "uniq", "unset"}
Setting == {"link", "first", "walk", "append", "release", "uniq"}
Using(h, what) == {u \in Threads : at[u].h = h /\ at[u].pc \in what}
Sets(h) == gone' = gone \ {h} /\ mixed' = mixed \cup Using(h, {"unset"})

SetTimer(t) == /\ Called(t)
               /\ \E h \in Handlers, d \in 0..MaxDelay : Alloc(t, h, d) /\ Sets(h)
               /\ UNCHANGED <<head, sem, tick, raced>>

SetTimer_uniq(t) ==
    /\ Called(t)
    /\ \E h \in Handlers, d \in 0..MaxDelay :
          /\ Goto(t, [Idle EXCEPT !.pc = "uniq", !.p = head, !.h = h, !.ms = d])
          /\ Sets(h)
    /\ UNCHANGED <<node, head, sem, tick, raced>>

UnSetTimer(t) ==
    /\ Called(t)
    /\ \E h \in Handlers :
          /\ Goto(t, [Idle EXCEPT !.pc = "unset", !.p = head, !.h = h])
          /\ mixed' = IF Using(h, Setting) = {} THEN mixed \ {t} ELSE mixed \cup {t}
    /\ UNCHANGED <<node, head, sem, tick, gone, raced>>

Same == UNCHANGED <<tick, calls>>
Keep == UNCHANGED <<sem, gone, mixed>> /\ Same

\* SetTimer: whether the list is empty, then its last node, then the link.
Link(t) == /\ at[t].pc = "link"
           /\ IF head = NULL THEN Goto(t, [at[t] EXCEPT !.pc = "first"])
                             ELSE Goto(t, [at[t] EXCEPT !.pc = "walk", !.p = head])
           /\ UNCHANGED <<node, head, raced>> /\ Keep

Walk(t) == /\ at[t].pc = "walk"
           /\ LET n == node[at[t].p].next
              IN  IF n = NULL THEN Goto(t, [at[t] EXCEPT !.pc = "append"])
                              ELSE Goto(t, [at[t] EXCEPT !.p = n])
           /\ UNCHANGED <<node, head, raced>> /\ Keep

First(t) == /\ at[t].pc = "first" /\ head' = at[t].new
            /\ raced' = (raced \/ head # NULL)
            /\ Goto(t, [at[t] EXCEPT !.pc = "release"]) /\ UNCHANGED node /\ Keep

Append(t) == /\ at[t].pc = "append" /\ node' = [node EXCEPT ![at[t].p].next = at[t].new]
             /\ raced' = (raced \/ node[at[t].p].next # NULL)
             /\ Goto(t, [at[t] EXCEPT !.pc = "release"]) /\ UNCHANGED head /\ Keep

\* Mutants: the timer thread is not woken; the semaphore counts further.
ReleaseNot(t) == /\ at[t].pc = "release" /\ Return(t)
                 /\ UNCHANGED <<node, head, sem, gone, mixed, raced>> /\ Same
ReleaseCounts(t) == /\ at[t].pc = "release" /\ sem' = sem + 1 /\ Return(t)
                    /\ UNCHANGED <<node, head, gone, mixed, raced>> /\ Same

Release(t) == /\ at[t].pc = "release" /\ sem' = 1 /\ Return(t)
              /\ UNCHANGED <<node, head, gone, mixed, raced>> /\ Same

\* SetTimer_uniq: a timer of this handler is renewed, and nobody woken; with
\* none, SetTimer is called.
Renew(t) == /\ at[t].pc = "uniq" /\ at[t].p # NULL /\ node[at[t].p].h = at[t].h
            /\ LET n == node[at[t].p]
               IN  node' = [node EXCEPT ![at[t].p] = [n EXCEPT !.left = at[t].ms, !.valid = TRUE,
                                                               !.soon = n.soon \/ at[t].ms < n.left]]
            /\ Return(t) /\ UNCHANGED <<head, raced>> /\ Keep
Seek(t) == /\ at[t].pc = "uniq" /\ at[t].p # NULL /\ node[at[t].p].h # at[t].h
           /\ Goto(t, [at[t] EXCEPT !.p = node[@].next])
           /\ UNCHANGED <<node, head, raced>> /\ Keep
Absent(t) == /\ at[t].pc = "uniq" /\ at[t].p = NULL
             /\ (Alloc(t, at[t].h, at[t].ms) \/ (Return(t) /\ UNCHANGED node))
             /\ UNCHANGED <<head, raced>> /\ Keep

\* Mutant: only the first timer of the handler is removed.
RemoveOne(t) == /\ at[t].pc = "unset" /\ at[t].p # NULL
                /\ node' = [node EXCEPT ![at[t].p].valid = @ /\ node[at[t].p].h # at[t].h]
                /\ Goto(t, [at[t] EXCEPT !.p = IF node[@].h = at[t].h THEN NULL ELSE node[@].next])
                /\ UNCHANGED <<head, raced>> /\ Keep

\* UnSetTimer, node by node. A call that sets the same handler meanwhile may
\* have come first or last.
Remove(t) == /\ at[t].pc = "unset" /\ at[t].p # NULL
             /\ node' = [node EXCEPT ![at[t].p].valid = @ /\ node[at[t].p].h # at[t].h]
             /\ Goto(t, [at[t] EXCEPT !.p = node[@].next])
             /\ UNCHANGED <<head, raced>> /\ Keep
Removed(t) == /\ at[t].pc = "unset" /\ at[t].p = NULL /\ Return(t)
              /\ gone' = IF t \in mixed THEN gone ELSE gone \cup {at[t].h}
              /\ UNCHANGED <<node, head, sem, mixed, raced>> /\ Same

-------------------------- (* mxchip_timer_tick *) --------------------------
Others == UNCHANGED <<at, calls, gone, mixed>>

Wake == /\ tick.pc = "sleep" /\ (sem = 1 \/ tick.wake = 0) /\ sem' = 0
        /\ tick' = [tick EXCEPT !.pc = "visit", !.p = head, !.q = head, !.next = Never]
        /\ UNCHANGED <<node, head, raced>> /\ Others

Least(a, b) == IF a < b THEN a ELSE b

\* Mutant: q stays behind.
PassNoQ == /\ tick.pc = "visit" /\ tick.p # NULL /\ node[tick.p].left >= 0
           /\ tick' = [tick EXCEPT !.p = node[@].next, !.next = Least(@, node[tick.p].left)]
           /\ node' = [node EXCEPT ![tick.p].soon = FALSE]
           /\ UNCHANGED <<head, sem, raced>> /\ Others

\* A node that is not due.
Pass == /\ tick.pc = "visit" /\ tick.p # NULL /\ node[tick.p].left >= 0
        /\ tick' = [tick EXCEPT !.q = tick.p, !.p = node[@].next, !.next = Least(@, node[tick.p].left)]
        /\ node' = [node EXCEPT ![tick.p].soon = FALSE]
        /\ UNCHANGED <<head, sem, raced>> /\ Others

\* One that is: it is unlinked, and its handler called if it is valid.
Unlink == /\ tick.pc = "visit" /\ tick.p # NULL /\ node[tick.p].left < 0
          /\ tick' = [tick EXCEPT !.pc = IF node[tick.p].valid THEN "call" ELSE "free",
                                  !.next = -1, !.inner = (tick.p # head)]
          /\ IF tick.p = head THEN head' = node[head].next /\ node' = node
             ELSE node' = [node EXCEPT ![tick.q].next = node[tick.p].next] /\ head' = head
          /\ raced' = (raced \/ \E t \in Callers : at[t].p = tick.p /\ at[t].pc \in Walking)
          /\ UNCHANGED sem /\ Others

\* The handler has returned, with what it has called.
Return1 == /\ tick.pc = "call" /\ at[Timer].pc = "idle" /\ tick' = [tick EXCEPT !.pc = "free"]
           /\ UNCHANGED <<node, head, sem, raced>> /\ Others

\* Behind the head the walk ends, to be taken up again 1 ms later.
Free == /\ tick.pc = "free" /\ node' = [node EXCEPT ![tick.p].used = FALSE]
        /\ tick' = [tick EXCEPT !.pc = "visit", !.p = IF tick.inner THEN NULL ELSE head]
        /\ UNCHANGED <<head, sem, raced>> /\ Others

Sleep == /\ tick.pc = "visit" /\ tick.p = NULL
         /\ tick' = [tick EXCEPT !.pc = "sleep", !.wake = IF tick.next > 0 THEN tick.next ELSE 1]
         /\ UNCHANGED <<node, head, sem, raced>> /\ Others

\* A millisecond passes.
Sooner(x) == IF x \in {-1, Never} THEN x ELSE x - 1
Pass1ms == /\ node' = [n \in Nodes |-> [node[n] EXCEPT !.left = Sooner(@)]]
           /\ tick' = [tick EXCEPT !.next = IF tick.pc = "sleep" THEN @ ELSE Sooner(@),
                                   !.wake = IF @ = 0 \/ tick.pc # "sleep" THEN @ ELSE Sooner(@)]
           /\ UNCHANGED <<head, sem, raced>> /\ Others

Call(t) == \/ SetTimer(t) \/ SetTimer_uniq(t) \/ UnSetTimer(t) \/ Link(t) \/ Walk(t) \/ First(t)
           \/ Append(t) \/ Release(t) \/ Renew(t) \/ Seek(t) \/ Absent(t) \/ Remove(t) \/ Removed(t)
Thread  == Wake \/ Pass \/ Unlink \/ Return1 \/ Free \/ Sleep
Next    == Pass1ms \/ Thread \/ \E t \in Threads : Call(t)

Spec == Init /\ [][Next]_vars

------------------------------ (* Properties *) -----------------------------
Node == [left: -1..MaxDelay, h: Handlers, next: Links, valid: BOOLEAN, used: BOOLEAN, soon: BOOLEAN]
Pcs  == {"idle", "link", "first", "walk", "append", "release", "uniq", "unset"}

\* The type of the state: the semaphore is binary, no time is out of range, and
\* whoever is at a node is at one.
TypeOK ==
    /\ node \in [Nodes -> Node] /\ head \in Links /\ sem \in {0, 1}
    /\ tick \in [pc: {"sleep", "visit", "call", "free"}, wake: 0..Never, p: Links, q: Links,
                 next: -1..Never, inner: BOOLEAN]
    /\ tick.pc \in {"call", "free"} => tick.p # NULL
    /\ at \in [Threads -> [pc: Pcs, p: Links, new: Links, h: Handlers, ms: 0..MaxDelay]]
    /\ \A t \in Threads : at[t].pc \in {"walk", "append"} => at[t].p # NULL
    /\ calls \in 0..MaxCalls /\ gone \subseteq Handlers /\ mixed \subseteq Threads /\ raced \in BOOLEAN

\* The nodes of the list.
Listed == LET n[i \in 0..Cardinality(Nodes)] ==
                  IF i = 0 THEN head ELSE IF n[i - 1] = NULL THEN NULL ELSE node[n[i - 1]].next
          IN  {n[i] : i \in DOMAIN n} \ {NULL}
Held == {at[t].new : t \in {u \in Threads : at[u].pc # "release"}}
          \cup (IF tick.pc \in {"call", "free"} THEN {tick.p} ELSE {})

\* No timer is lost or freed early: all that malloc gave out and free did not
\* get back is in the list, or about to be linked, or is the one being handled;
\* the list holds no other; unless two threads were at the same link.
NoneLost == raced \/ {n \in Nodes : node[n].used} = Listed \cup (Held \ {NULL})

\* The timer thread never sleeps past the time of a timer, but for one that
\* SetTimer_uniq has set to an earlier time, for which nobody wakes it.
Pending == \E t \in Threads : at[t].pc = "release"
OnTime == tick.pc = "sleep" /\ sem = 0 /\ ~Pending =>
    \A n \in Listed : node[n].soon \/ (tick.wake # Never /\ tick.wake <= (IF node[n].left < 0 THEN 0 ELSE node[n].left) + 1)

\* "Remove all timers which handler is psysTimerHandler": it is not called any
\* more, until it is set again; unless two threads were at the same link.
Starts(h) == tick.pc # "call" /\ tick'.pc = "call" /\ node[tick.p].h = h
StaysRemoved == [][\A h \in gone : Starts(h) => raced']_vars
=============================================================================
