---------------------------- MODULE TimersProofs ----------------------------
(***************************************************************************)
(* Proofs about SoftTimers, for every number of threads, handlers, nodes,  *)
(* calls and every longest delay. As long as no two threads were at the    *)
(* same link of the list, there is a set of nodes L with a rank r for each *)
(* in which the list runs through them; what malloc has given out is in L, *)
(* or with the one thread that is to link it or to free it; whoever walks  *)
(* is at a node of L. So no timer is lost, and those that UnSetTimer has   *)
(* removed stay removed. Behind such a race a weaker fact is left: no node *)
(* is linked twice. It is enough for none in the list to be overslept.     *)
(***************************************************************************)
EXTENDS SoftTimers, FiniteSetTheorems, WellFoundedInduction, TLAPS

Adding == {"link", "first", "walk", "append"}
Handling == tick.pc \in {"call", "free"}
Calls  == [pc: Pcs, p: Links, new: Links, h: Handlers, ms: 0..MaxDelay]

Ticks  == [pc: {"sleep", "visit", "call", "free"}, wake: 0..Never, p: Links, q: Links,
           next: -1..Never, inner: BOOLEAN]

\* Where a thread may be in a call: a node that malloc has given out is with
\* its thread until that has linked it.
Proper(c) == /\ c \in Calls
             /\ c.pc \in Adding => c.new # NULL
             /\ c.pc \notin Adding \cup {"release"} => c.new = NULL
             /\ c.pc \in {"walk", "append"} => c.p # NULL
AtOK   == at \in [Threads -> Calls] /\ \A t \in Threads : Proper(at[t])
TickOK == tick \in Ticks /\ (Handling => tick.p # NULL /\ tick.next = -1)
HeapOK == node \in [Nodes -> Node] /\ head \in Links /\ sem \in {0, 1}
\* The handler's calls are made while the timer thread is in it.
Within == at[Timer].pc # "idle" => tick.pc = "call"
CountsOK == calls \in 0..MaxCalls /\ gone \subseteq Handlers /\ mixed \subseteq Threads /\ raced \in BOOLEAN
Base   == AtOK /\ TickOK /\ HeapOK /\ Within /\ CountsOK

\* The list runs through the nodes of L in the order of r.
Ordered(L, r) ==
    /\ L # {} => head \in L /\ \A k \in L : r[head] <= r[k]
    /\ L = {} => head = NULL
    /\ \A k, m \in L : r[k] = r[m] => k = m
    /\ \A k \in L : \/ node[k].next = NULL /\ \A m \in L : r[m] <= r[k]
                    \/ /\ node[k].next \in L /\ r[k] < r[node[k].next]
                       /\ \A m \in L : r[m] <= r[k] \/ r[node[k].next] <= r[m]

\* What malloc has given out: of the list, of one thread, or being handled.
Own(L) ==
    /\ \A t \in Threads : at[t].pc \in Adding =>
          /\ at[t].new \notin L /\ node[at[t].new].used /\ node[at[t].new].next = NULL
          /\ node[at[t].new].h = at[t].h
          /\ \A u \in Threads : at[u].pc \in Adding /\ at[u].new = at[t].new => u = t
          /\ Handling => at[t].new # tick.p
    /\ Handling => tick.p \notin L /\ node[tick.p].used
    /\ \A n \in L : node[n].used
    /\ \A n \in Nodes : node[n].used => \/ n \in L
                                        \/ \E t \in Threads : at[t].pc \in Adding /\ at[t].new = n
                                        \/ Handling /\ tick.p = n

\* Whoever walks is at a node of the list; the timer thread's q is behind p.
Walkers(L) ==
    /\ \A t \in Threads : at[t].pc \in Walking /\ at[t].p # NULL => at[t].p \in L
    /\ tick.pc = "visit" /\ tick.p # NULL =>
          tick.p \in L /\ (tick.p = head \/ (tick.q \in L /\ node[tick.q].next = tick.p))

\* What UnSetTimer has removed, or has come past, is not valid.
Removals(L, r) ==
    /\ \A h \in gone : Using(h, Setting) = {} /\ \A n \in L : node[n].h = h => ~node[n].valid
    /\ \A t \in Threads \ mixed : at[t].pc = "unset" =>
          /\ Using(at[t].h, Setting) = {}
          /\ \A n \in L : node[n].h = at[t].h /\ (at[t].p = NULL \/ r[n] < r[at[t].p]) => ~node[n].valid

Ranked(L, r) == L \in SUBSET Nodes /\ r \in [Nodes -> Nat]
Sound(L, r) == Ranked(L, r) /\ Ordered(L, r) /\ Own(L) /\ Walkers(L) /\ Removals(L, r)
TimersInv == Base /\ (raced \/ \E L, r : Sound(L, r))

(* The constants. *)
LEMMA Constants == /\ NULL \notin Nodes /\ MaxDelay \in Nat /\ MaxDelay > 0 /\ Never = MaxDelay + 1
                   /\ Timer \notin Callers /\ MaxCalls \in Nat /\ Timer \in Threads
  BY TimerAssumption DEF TimerAssumption, Never, Threads

(* A thread in no call, and a node not given out. *)
LEMMA Idles == /\ Idle \in Calls /\ Idle.pc = "idle" /\ Idle.p = NULL /\ Idle.new = NULL /\ Proper(Idle)
               /\ NotUsed \in Node /\ ~NotUsed.used
<1> DEFINE h0 == CHOOSE h \in Handlers : TRUE
<1>1. h0 \in Handlers
  BY TimerAssumption DEF TimerAssumption
<1> HIDE DEF h0
<1>2. Idle = [pc |-> "idle", p |-> NULL, new |-> NULL, h |-> h0, ms |-> 0]
  BY DEF Idle, h0
<1> DEFINE f == [left |-> -1, h |-> h0, next |-> NULL, valid |-> TRUE, used |-> TRUE, soon |-> FALSE]
<1>3. NotUsed = [f EXCEPT !.used = FALSE]
  BY Zenon DEF NotUsed, Fresh, h0
<1>4. Idle \in Calls
  BY <1>1, <1>2, Constants DEF Calls, Pcs, Links
<1>5. f \in Node
  BY <1>1, Constants DEF Node, Links
<1> HIDE DEF f
<1>6. NotUsed \in Node /\ ~NotUsed.used
  BY <1>3, <1>5 DEF Node
<1> QED BY <1>2, <1>4, <1>6 DEF Proper, Adding

(* The next place of a thread. *)
LEMMA Goes ==
  ASSUME AtOK, NEW t \in Threads, NEW c, Proper(c), Goto(t, c)
  PROVE  AtOK' /\ at'[t] = c /\ \A u \in Threads \ {t} : at'[u] = at[u]
  BY DEF AtOK, Proper, Goto

(* A node that malloc gives out. *)
LEMMA Freshly ==
  ASSUME NEW h \in Handlers, NEW d \in 0..MaxDelay
  PROVE  Fresh(h, d) \in Node
  BY Constants DEF Fresh, Node, Links

Moved(t) == \A u \in Threads \ {t} : at'[u] = at[u]
SameLinks == \A n \in Nodes : node'[n].next = node[n].next /\ node'[n].used = node[n].used /\ node'[n].h = node[n].h

(* A thread moves and changes nothing: the list stays as it is.            *)
LEMMA Moves ==
  ASSUME Base, NEW L, NEW r, Sound(L, r), NEW t \in Threads, Moved(t), UNCHANGED <<head, tick>>, SameLinks,
         at'[t].pc \in Adding <=> at[t].pc \in Adding,
         at[t].pc \in Adding => at'[t].new = at[t].new /\ at'[t].h = at[t].h,
         at'[t].pc \in Walking /\ at'[t].p # NULL => at'[t].p \in L
  PROVE  (Ranked(L, r) /\ Ordered(L, r) /\ Own(L) /\ Walkers(L))'
<1>1. L \subseteq Nodes
  BY DEF Sound, Ranked
<1>2. Ranked(L, r)' /\ Ordered(L, r)'
  BY <1>1 DEF Sound, Ranked, Ordered, SameLinks
<1>3. \A u \in Threads : at[u].pc \in Adding => at[u].new \in Nodes
  BY DEF Base, AtOK, Proper, Calls, Links
<1>4. Handling => tick.p \in Nodes
  BY DEF Base, TickOK, Ticks, Links
<1>5. Own(L)'
  BY <1>1, <1>3, <1>4 DEF Sound, Own, Handling, Moved, SameLinks
<1>6. Walkers(L)'
  BY <1>1 DEF Sound, Walkers, Moved, SameLinks
<1> QED BY <1>2, <1>5, <1>6

(* A thread moves in a call, or begins one where it may.                   *)
LEMMA Within1 ==
  ASSUME Base, NEW t \in Threads, Moved(t), UNCHANGED tick, at[t].pc # "idle" \/ Ready(t)
  PROVE  TickOK' /\ Within'
  BY Constants DEF Base, TickOK, Within, Handling, Moved, Ready

(* Where a walk goes on from a node of the list.                           *)
LEMMA Onward ==
  ASSUME Base, NEW L, NEW r, Sound(L, r), NEW p \in L
  PROVE  /\ p \in Nodes /\ p # NULL /\ node[p] \in Node
         /\ node[p].next = NULL => \A n \in L : r[n] <= r[p]
         /\ node[p].next # NULL => /\ node[p].next \in L /\ r[p] < r[node[p].next]
                                   /\ \A n \in L : r[n] <= r[p] \/ r[node[p].next] <= r[n]
  BY Constants DEF Sound, Ranked, Ordered, Base, HeapOK

(* What was removed stays so when a thread moves that sets the same handler *)
(* as before, or none.                                                      *)
LEMMA MovesRemoved ==
  ASSUME Base, NEW L, NEW r, Removals(L, r), NEW t \in Threads, Moved(t), UNCHANGED <<node, gone, mixed>>,
         at[t].pc # "unset", at'[t].pc # "unset",
         at'[t].pc \in Setting => at[t].pc \in Setting /\ at'[t].h = at[t].h
  PROVE  Removals(L, r)'
<1>1. ASSUME NEW h, Using(h, Setting) = {} PROVE Using(h, Setting)' = {}
  BY <1>1 DEF Using, Moved, Setting
<1> QED BY <1>1 DEF Removals, Moved

(* SetTimer: the first node of the list, or none. *)
LEMMA LinkInv == ASSUME TimersInv, NEW t \in Threads, Link(t) PROVE TimersInv'
<1> DEFINE c == IF head = NULL THEN [at[t] EXCEPT !.pc = "first"]
                               ELSE [at[t] EXCEPT !.pc = "walk", !.p = head]
<1>1. at[t] \in Calls /\ Proper(at[t]) /\ at[t].pc = "link" /\ head \in Links
  BY DEF TimersInv, Base, AtOK, HeapOK, Link
<1>2. /\ Proper(c) /\ c.new = at[t].new /\ c.h = at[t].h
      /\ c.pc = IF head = NULL THEN "first" ELSE "walk"
      /\ head # NULL => c.p = head
  BY <1>1 DEF Proper, Calls, Pcs, Adding
<1>3. Goto(t, c) /\ UNCHANGED <<node, head, sem, tick, calls, gone, mixed, raced>>
  BY DEF Link, Keep, Same, Goto
<1> HIDE DEF c
<1>4. AtOK' /\ at'[t] = c /\ Moved(t)
  BY <1>2, <1>3, Goes DEF TimersInv, Base, Moved
<1>5. Base'
  BY Within1, <1>1, <1>2, <1>3, <1>4 DEF TimersInv, Base, HeapOK, CountsOK
<1>6. ASSUME NEW L, NEW r, Sound(L, r) PROVE Sound(L, r)'
  <2>1. head # NULL => head \in L
    BY <1>6 DEF Sound, Ordered
  <2>2. (Ranked(L, r) /\ Ordered(L, r) /\ Own(L) /\ Walkers(L))'
    BY <1>1, <1>2, <1>3, <1>4, <1>6, <2>1, Moves DEF SameLinks, TimersInv, Adding, Walking
  <2>3. Removals(L, r)'
    BY <1>1, <1>2, <1>3, <1>4, <1>6, MovesRemoved DEF Sound, TimersInv, Setting
  <2> QED BY <2>2, <2>3 DEF Sound
<1> QED BY <1>3, <1>5, <1>6 DEF TimersInv

(* SetTimer: the next node, until there is none. *)
LEMMA WalkInv == ASSUME TimersInv, NEW t \in Threads, Walk(t) PROVE TimersInv'
<1> DEFINE n == node[at[t].p].next
           c == IF n = NULL THEN [at[t] EXCEPT !.pc = "append"] ELSE [at[t] EXCEPT !.p = n]
<1>1. at[t] \in Calls /\ Proper(at[t]) /\ at[t].pc = "walk" /\ at[t].p \in Nodes /\ n \in Links
  BY DEF TimersInv, Base, AtOK, HeapOK, Walk, Proper, Calls, Links, Node
<1>2. Goto(t, c) /\ UNCHANGED <<node, head, sem, tick, calls, gone, mixed, raced>>
  BY DEF Walk, Keep, Same, Goto
<1>3. n # NULL => n = node[at[t].p].next
  OBVIOUS
<1> HIDE DEF n
<1>4. /\ Proper(c) /\ c.new = at[t].new /\ c.h = at[t].h /\ c.pc \in {"walk", "append"}
      /\ c.p = IF n = NULL THEN at[t].p ELSE n
  BY <1>1 DEF Proper, Calls, Pcs, Adding
<1> HIDE DEF c
<1>5. AtOK' /\ at'[t] = c /\ Moved(t)
  BY <1>2, <1>4, Goes DEF TimersInv, Base, Moved
<1>6. Base'
  BY Within1, <1>1, <1>2, <1>4, <1>5 DEF TimersInv, Base, HeapOK, CountsOK
<1>7. ASSUME NEW L, NEW r, Sound(L, r) PROVE Sound(L, r)'
  <2>1. at[t].p \in L
    BY <1>1, <1>7, Constants DEF Sound, Walkers, Walking
  <2>2. c.p \in L
    BY <1>3, <1>4, <1>7, <2>1, Onward DEF TimersInv
  <2>3. (Ranked(L, r) /\ Ordered(L, r) /\ Own(L) /\ Walkers(L))'
    BY <1>1, <1>2, <1>4, <1>5, <1>7, <2>2, Moves DEF SameLinks, TimersInv, Adding
  <2>4. Removals(L, r)'
    BY <1>1, <1>2, <1>4, <1>5, <1>7, MovesRemoved DEF Sound, TimersInv, Setting
  <2> QED BY <2>3, <2>4 DEF Sound
<1> QED BY <1>2, <1>6, <1>7 DEF TimersInv

(* SetTimer_uniq: the next node, when this is not the handler's.           *)
LEMMA SeekInv == ASSUME TimersInv, NEW t \in Threads, Seek(t) PROVE TimersInv'
<1> DEFINE n == node[at[t].p].next
           c == [at[t] EXCEPT !.p = n]
<1>1. at[t] \in Calls /\ Proper(at[t]) /\ at[t].pc = "uniq" /\ at[t].p \in Nodes /\ n \in Links
  BY DEF TimersInv, Base, AtOK, HeapOK, Seek, Proper, Calls, Links, Node
<1>2. Goto(t, c) /\ UNCHANGED <<node, head, sem, tick, calls, gone, mixed, raced>>
  BY DEF Seek, Keep, Same, Goto
<1>3. n = node[at[t].p].next
  OBVIOUS
<1> HIDE DEF n
<1>4. Proper(c) /\ c.new = at[t].new /\ c.h = at[t].h /\ c.pc = "uniq" /\ c.p = n
  BY <1>1 DEF Proper, Calls, Pcs, Adding
<1> HIDE DEF c
<1>5. AtOK' /\ at'[t] = c /\ Moved(t)
  BY <1>2, <1>4, Goes DEF TimersInv, Base, Moved
<1>6. Base'
  BY Within1, <1>1, <1>2, <1>4, <1>5 DEF TimersInv, Base, HeapOK, CountsOK
<1>7. ASSUME NEW L, NEW r, Sound(L, r) PROVE Sound(L, r)'
  <2>1. at[t].p \in L
    BY <1>1, <1>7, Constants DEF Sound, Walkers, Walking
  <2>2. n = NULL \/ n \in L
    BY <1>3, <1>7, <2>1, Onward DEF TimersInv
  <2>3. (Ranked(L, r) /\ Ordered(L, r) /\ Own(L) /\ Walkers(L))'
    BY <1>1, <1>2, <1>4, <1>5, <1>7, <2>2, Moves DEF SameLinks, TimersInv, Adding
  <2>4. Removals(L, r)'
    BY <1>1, <1>2, <1>4, <1>5, <1>7, MovesRemoved DEF Sound, TimersInv, Setting
  <2> QED BY <2>3, <2>4 DEF Sound
<1> QED BY <1>2, <1>6, <1>7 DEF TimersInv


(* SetTimer_uniq and UnSetTimer begin at the first node of the list.       *)
LEMMA SetTimer_uniqInv == ASSUME TimersInv, NEW t \in Threads, SetTimer_uniq(t) PROVE TimersInv'
<1>1. PICK h \in Handlers, d \in 0..MaxDelay :
         Goto(t, [Idle EXCEPT !.pc = "uniq", !.p = head, !.h = h, !.ms = d]) /\ Sets(h)
  BY DEF SetTimer_uniq
<1> DEFINE c == [Idle EXCEPT !.pc = "uniq", !.p = head, !.h = h, !.ms = d]
<1>2. head \in Links /\ at[t].pc = "idle" /\ Ready(t) /\ calls' \in 0..MaxCalls
      /\ UNCHANGED <<node, head, sem, tick, raced>>
  BY Constants DEF TimersInv, Base, HeapOK, CountsOK, SetTimer_uniq, Called, Ready
<1>3. Proper(c) /\ c.pc = "uniq" /\ c.p = head /\ c.h = h /\ c.new = NULL
  <2>1. c \in Calls /\ c.pc = "uniq" /\ c.p = head /\ c.h = h /\ c.new = NULL
    BY <1>2, Idles DEF Calls, Pcs
  <2> QED BY <2>1, Constants DEF Proper, Adding
<1>4. Goto(t, c) /\ gone' = gone \ {h} /\ mixed' = mixed \cup Using(h, {"unset"})
  BY <1>1 DEF Sets
<1> HIDE DEF c
<1>5. AtOK' /\ at'[t] = c /\ Moved(t)
  BY <1>3, <1>4, Goes DEF TimersInv, Base, Moved
<1>6. Base'
  <2>1. gone' \subseteq Handlers /\ mixed' \subseteq Threads
    BY <1>4 DEF TimersInv, Base, CountsOK, Using
  <2> QED BY <1>2, <1>5, <2>1, Within1 DEF TimersInv, Base, HeapOK, CountsOK
<1>7. ASSUME NEW L, NEW r, Sound(L, r) PROVE Sound(L, r)'
  <2>1. head = NULL \/ head \in L
    BY <1>7 DEF Sound, Ordered
  <2>2. (Ranked(L, r) /\ Ordered(L, r) /\ Own(L) /\ Walkers(L))'
    BY <1>2, <1>3, <1>5, <1>7, <2>1, Moves DEF SameLinks, TimersInv, Adding
  <2>3. \A g : g # h /\ Using(g, Setting) = {} => Using(g, Setting)' = {}
    BY <1>3, <1>5 DEF Using, Moved
  <2>4. \A u \in Threads \ mixed' : at'[u].pc = "unset" => u # t /\ u \notin mixed /\ at[u].pc = "unset" /\ at[u].h # h
    BY <1>3, <1>4, <1>5 DEF Using, Moved
  <2>5. Removals(L, r)'
    BY <1>2, <1>4, <1>5, <1>7, <2>3, <2>4 DEF Sound, Removals, Moved
  <2> QED BY <2>2, <2>5 DEF Sound
<1> QED BY <1>2, <1>6, <1>7 DEF TimersInv

LEMMA UnSetTimerInv == ASSUME TimersInv, NEW t \in Threads, UnSetTimer(t) PROVE TimersInv'
<1>1. PICK h \in Handlers :
         /\ Goto(t, [Idle EXCEPT !.pc = "unset", !.p = head, !.h = h])
         /\ mixed' = IF Using(h, Setting) = {} THEN mixed \ {t} ELSE mixed \cup {t}
  BY DEF UnSetTimer
<1> DEFINE c == [Idle EXCEPT !.pc = "unset", !.p = head, !.h = h]
<1>2. head \in Links /\ at[t].pc = "idle" /\ Ready(t) /\ calls' \in 0..MaxCalls
      /\ UNCHANGED <<node, head, sem, tick, gone, raced>>
  BY Constants DEF TimersInv, Base, HeapOK, CountsOK, UnSetTimer, Called, Ready
<1>3. Proper(c) /\ c.pc = "unset" /\ c.p = head /\ c.h = h /\ c.new = NULL
  <2>1. c \in Calls /\ c.pc = "unset" /\ c.p = head /\ c.h = h /\ c.new = NULL
    BY <1>2, Idles DEF Calls, Pcs
  <2> QED BY <2>1, Constants DEF Proper, Adding
<1>4. Goto(t, c)
  BY <1>1
<1> HIDE DEF c
<1>5. AtOK' /\ at'[t] = c /\ Moved(t)
  BY <1>3, <1>4, Goes DEF TimersInv, Base, Moved
<1>6. Base'
  <2>1. mixed' \subseteq Threads
    BY <1>1 DEF TimersInv, Base, CountsOK
  <2> QED BY <1>2, <1>5, <2>1, Within1 DEF TimersInv, Base, HeapOK, CountsOK
<1>7. ASSUME NEW L, NEW r, Sound(L, r) PROVE Sound(L, r)'
  <2>1. head = NULL \/ head \in L
    BY <1>7 DEF Sound, Ordered
  <2>2. (Ranked(L, r) /\ Ordered(L, r) /\ Own(L) /\ Walkers(L))'
    BY <1>2, <1>3, <1>5, <1>7, <2>1, Moves DEF SameLinks, TimersInv, Adding
  <2>3. \A g : Using(g, Setting) = {} => Using(g, Setting)' = {}
    BY <1>3, <1>5 DEF Using, Moved, Setting
  <2>4. \A n \in L : ~(head = NULL \/ r[n] < r[head])
    BY <1>7, Constants DEF Sound, Ranked, Ordered
  <2>5. \A u \in Threads \ mixed' : u # t => u \notin mixed
    BY <1>1
  <2>6. t \notin mixed' => Using(h, Setting) = {}
    BY <1>1
  <2>7. Removals(L, r)'
    BY <1>2, <1>3, <1>5, <1>7, <2>3, <2>4, <2>5, <2>6 DEF Sound, Removals, Moved
  <2> QED BY <2>2, <2>7 DEF Sound
<1> QED BY <1>2, <1>6, <1>7 DEF TimersInv

(* UnSetTimer: what it comes past is no longer valid. *)
LEMMA RemoveInv == ASSUME TimersInv, NEW t \in Threads, Remove(t) PROVE TimersInv'
<1> DEFINE p == at[t].p
           n == node[p].next
           c == [at[t] EXCEPT !.p = n]
           v == node[p].valid /\ node[p].h # at[t].h
           x == [node[p] EXCEPT !.valid = v]
<1>1. at[t] \in Calls /\ Proper(at[t]) /\ at[t].pc = "unset" /\ p \in Nodes /\ node[p] \in Node
  BY DEF TimersInv, Base, AtOK, HeapOK, Remove, Proper, Calls, Links
<1>2. Goto(t, c) /\ node' = [node EXCEPT ![p] = x] /\ UNCHANGED <<head, sem, tick, calls, gone, mixed, raced>>
  BY DEF Remove, Keep, Same, Goto
<1>3. v \in BOOLEAN /\ (node[p].h = at[t].h => ~v) /\ (~node[p].valid => ~v)
  OBVIOUS
<1> HIDE DEF v
<1>4. x \in Node /\ x.next = n /\ x.used = node[p].used /\ x.h = node[p].h /\ x.left = node[p].left
      /\ x.soon = node[p].soon /\ x.valid = v /\ n \in Links
  BY <1>1, <1>3 DEF Node
<1> HIDE DEF x
<1>5. Proper(c) /\ c.new = at[t].new /\ c.h = at[t].h /\ c.pc = "unset" /\ c.p = n
  BY <1>1, <1>4 DEF Proper, Calls, Pcs, Adding
<1> HIDE DEF c
<1>6. AtOK' /\ at'[t] = c /\ Moved(t)
  BY <1>2, <1>5, Goes DEF TimersInv, Base, Moved
<1>7. /\ node' \in [Nodes -> Node] /\ SameLinks /\ node'[p] = x
      /\ \A m \in Nodes : node'[m].left = node[m].left /\ node'[m].soon = node[m].soon
      /\ \A m \in Nodes \ {p} : node'[m] = node[m]
  BY <1>1, <1>2, <1>4 DEF TimersInv, Base, HeapOK, SameLinks
<1>8. Base'
  BY <1>1, <1>2, <1>6, <1>7, Within1 DEF TimersInv, Base, HeapOK, CountsOK
<1>9. ASSUME NEW L, NEW r, Sound(L, r) PROVE Sound(L, r)'
  <2>1. p \in L /\ L \subseteq Nodes
    BY <1>1, <1>9, Constants DEF Sound, Walkers, Walking, Ranked
  <2>2. /\ n = NULL => \A m \in L : r[m] <= r[p]
        /\ n # NULL => n \in L /\ r[p] < r[n] /\ \A m \in L : r[m] <= r[p] \/ r[n] <= r[m]
    BY <1>9, <2>1, Onward DEF TimersInv
  <2>3. (Ranked(L, r) /\ Ordered(L, r) /\ Own(L) /\ Walkers(L))'
    BY <1>1, <1>2, <1>5, <1>6, <1>7, <1>9, <2>2, Moves DEF TimersInv, Adding
  <2>5. \A g : Using(g, Setting) = {} => Using(g, Setting)' = {}
    BY <1>1, <1>5, <1>6 DEF Using, Moved, Setting
  <2>6. \A m \in L : node'[m].h = node[m].h /\ (~node[m].valid => ~node'[m].valid)
    BY <1>3, <1>4, <1>7, <2>1
  <2>7. \A m \in L : (n = NULL \/ r[m] < r[n]) => m = p \/ r[m] < r[p]
    BY <2>1, <2>2, <1>9 DEF Sound, Ranked, Ordered
  <2>8. node'[p].h = at[t].h => ~node'[p].valid
    BY <1>3, <1>4, <1>7
  <2>9. Removals(L, r)'
    <3>1. ASSUME NEW g \in gone' PROVE Using(g, Setting)' = {} /\ \A m \in L : node'[m].h = g => ~node'[m].valid
      BY <1>2, <1>9, <2>5, <2>6, <3>1 DEF Sound, Removals
    <3>2. ASSUME NEW u \in Threads \ mixed', at'[u].pc = "unset"
          PROVE  /\ Using(at[u].h, Setting)' = {}
                 /\ \A m \in L : node'[m].h = at'[u].h /\ (at'[u].p = NULL \/ r[m] < r[at'[u].p]) => ~node'[m].valid
      <4>1. CASE u # t
        BY <1>2, <1>6, <1>9, <2>5, <2>6, <3>2, <4>1 DEF Sound, Removals, Moved
      <4>2. CASE u = t
        <5>1. Using(at[t].h, Setting) = {} /\ \A m \in L : node[m].h = at[t].h /\ r[m] < r[p] => ~node[m].valid
          BY <1>1, <1>2, <1>9, <3>2, <4>2 DEF Sound, Removals
        <5> QED BY <1>5, <1>6, <2>5, <2>6, <2>7, <2>8, <4>2, <5>1
      <4> QED BY <4>1, <4>2
    <3> QED BY <3>1, <3>2 DEF Removals
  <2> QED BY <2>3, <2>9 DEF Sound
<1> QED BY <1>2, <1>8, <1>9 DEF TimersInv

(* UnSetTimer: all of the list has been come past. *)
LEMMA RemovedInv == ASSUME TimersInv, NEW t \in Threads, Removed(t) PROVE TimersInv'
<1>1. at[t] \in Calls /\ Proper(at[t]) /\ at[t].pc = "unset" /\ at[t].p = NULL /\ at[t].h \in Handlers
  BY DEF TimersInv, Base, AtOK, Removed, Proper, Calls
<1>2. Goto(t, Idle) /\ gone' = (IF t \in mixed THEN gone ELSE gone \cup {at[t].h})
      /\ UNCHANGED <<node, head, sem, tick, calls, mixed, raced>>
  BY DEF Removed, Same, Return
<1>3. AtOK' /\ at'[t] = Idle /\ Moved(t)
  BY <1>2, Goes, Idles DEF TimersInv, Base, Moved
<1>4. Base'
  <2>1. gone' \subseteq Handlers
    BY <1>1, <1>2 DEF TimersInv, Base, CountsOK
  <2> QED BY <1>1, <1>2, <1>3, <2>1, Within1 DEF TimersInv, Base, HeapOK, CountsOK
<1>5. ASSUME NEW L, NEW r, Sound(L, r) PROVE Sound(L, r)'
  <2>1. (Ranked(L, r) /\ Ordered(L, r) /\ Own(L) /\ Walkers(L))'
    BY <1>1, <1>2, <1>3, <1>5, Idles, Moves DEF SameLinks, TimersInv, Adding
  <2>2. \A g : Using(g, Setting) = {} => Using(g, Setting)' = {}
    BY <1>3, Idles DEF Using, Moved, Setting
  <2>3. t \notin mixed => Using(at[t].h, Setting) = {} /\ \A n \in L : node[n].h = at[t].h => ~node[n].valid
    BY <1>1, <1>5 DEF Sound, Removals
  <2>4. Removals(L, r)'
    BY <1>2, <1>3, <1>5, <2>2, <2>3, Idles DEF Sound, Removals, Moved
  <2> QED BY <2>1, <2>4 DEF Sound
<1> QED BY <1>2, <1>4, <1>5 DEF TimersInv

(* SetTimer: the timer thread is woken. *)
LEMMA ReleaseInv == ASSUME TimersInv, NEW t \in Threads, Release(t) PROVE TimersInv'
<1>1. /\ at[t].pc = "release" /\ sem' = 1 /\ Goto(t, Idle)
      /\ UNCHANGED <<node, head, tick, calls, gone, mixed, raced>>
  BY DEF Release, Same, Return
<1>2. AtOK' /\ at'[t] = Idle /\ Moved(t)
  BY <1>1, Goes, Idles DEF TimersInv, Base, Moved
<1>3. Base'
  BY <1>1, <1>2, Within1 DEF TimersInv, Base, HeapOK, CountsOK
<1>4. ASSUME NEW L, NEW r, Sound(L, r) PROVE Sound(L, r)'
  <2>1. (Ranked(L, r) /\ Ordered(L, r) /\ Own(L) /\ Walkers(L))'
    BY <1>1, <1>2, <1>4, Idles, Moves DEF SameLinks, TimersInv, Adding
  <2>3. Removals(L, r)'
    BY <1>1, <1>2, <1>4, Idles, MovesRemoved DEF Sound, TimersInv, Setting
  <2> QED BY <2>1, <2>3 DEF Sound
<1> QED BY <1>1, <1>3, <1>4 DEF TimersInv

(* SetTimer_uniq: a timer is renewed; when to an earlier time, it is soon. *)
LEMMA RenewInv == ASSUME TimersInv, NEW t \in Threads, Renew(t) PROVE TimersInv'
<1> DEFINE p == at[t].p
           ms == at[t].ms
           s == node[p].soon \/ ms < node[p].left
           x == [node[p] EXCEPT !.left = ms, !.valid = TRUE, !.soon = s]
<1>1. /\ Proper(at[t]) /\ at[t].pc = "uniq" /\ p \in Nodes /\ node[p] \in Node /\ ms \in 0..MaxDelay
      /\ node[p].h = at[t].h
  BY DEF TimersInv, Base, AtOK, HeapOK, Renew, Proper, Calls, Links
<1>2. Goto(t, Idle) /\ node' = [node EXCEPT ![p] = x] /\ UNCHANGED <<head, sem, tick, calls, gone, mixed, raced>>
  <2>1. node' = [node EXCEPT ![p] = x]
    BY Zenon DEF Renew
  <2> QED BY <2>1 DEF Renew, Keep, Same, Return
<1>3. s \in BOOLEAN
  BY <1>1, Constants DEF Node
<1> HIDE DEF s, ms
<1>4. /\ x \in Node /\ x.next = node[p].next /\ x.used = node[p].used /\ x.h = node[p].h
      /\ x.left = ms /\ x.soon = s
  <2>1. s \in BOOLEAN /\ ms \in -1..MaxDelay
    BY <1>1, <1>3, Constants
  <2> QED BY ONLY <1>1, <2>1 DEF Node
<1> HIDE DEF x
<1>5. AtOK' /\ at'[t] = Idle /\ Moved(t)
  BY <1>2, Goes, Idles DEF TimersInv, Base, Moved
<1>6. /\ node' \in [Nodes -> Node] /\ SameLinks /\ node'[p] = x
      /\ \A m \in Nodes \ {p} : node'[m] = node[m]
  BY <1>1, <1>2, <1>4 DEF TimersInv, Base, HeapOK, SameLinks
<1>7. Base'
  BY <1>1, <1>2, <1>5, <1>6, Within1 DEF TimersInv, Base, HeapOK, CountsOK
<1>8. ASSUME NEW L, NEW r, Sound(L, r) PROVE Sound(L, r)'
  <2>1. p \in L /\ L \subseteq Nodes
    BY <1>1, <1>8, Constants DEF Sound, Walkers, Walking, Ranked
  <2>2. (Ranked(L, r) /\ Ordered(L, r) /\ Own(L) /\ Walkers(L))'
    BY <1>1, <1>2, <1>5, <1>6, <1>8, Idles, Moves DEF TimersInv, Adding
  <2>4. \A g : Using(g, Setting) = {} => Using(g, Setting)' = {} /\ g # node[p].h
    BY <1>1, <1>5, Idles DEF Using, Moved, Setting
  <2>5. ASSUME NEW g \in Handlers, NEW n \in L, Using(g, Setting) = {}, node'[n].h = g
        PROVE  node[n].h = g /\ node'[n].valid = node[n].valid
    BY <1>6, <2>1, <2>4, <2>5 DEF SameLinks
  <2>6. Removals(L, r)'
    <3>1. \A g \in gone' : Using(g, Setting)' = {} /\ \A n \in L : node'[n].h = g => ~node'[n].valid
      BY <1>2, <1>8, <2>4, <2>5 DEF Sound, Removals, TimersInv, Base, CountsOK
    <3>2. \A u \in Threads : at'[u].pc = "unset" => at'[u] = at[u] /\ at[u].h \in Handlers
      BY <1>5, Idles DEF Moved, TimersInv, Base, AtOK, Proper, Calls
    <3>3. ASSUME NEW u \in Threads \ mixed, at'[u].pc = "unset"
          PROVE  /\ (Using(at[u].h, Setting) = {})'
                 /\ \A n \in L : node'[n].h = at'[u].h /\ (at'[u].p = NULL \/ r[n] < r[at'[u].p]) => ~node'[n].valid
      <4>1. PICK k \in Handlers : k = at[u].h /\ at'[u] = at[u]
        BY <3>2, <3>3
      <4>2. Using(k, Setting) = {} /\ \A n \in L : node[n].h = k /\ (at[u].p = NULL \/ r[n] < r[at[u].p]) => ~node[n].valid
        BY <1>8, <3>3, <4>1 DEF Sound, Removals
      <4>3. Using(k, Setting)' = {}
        BY <2>4, <4>2
      <4>4. (Using(at[u].h, Setting) = {})'
        BY <4>1, <4>3 DEF Using
      <4> QED BY <2>5, <4>1, <4>2, <4>4
    <3> QED BY <1>2, <3>1, <3>3 DEF Removals
  <2> QED BY <2>2, <2>6 DEF Sound
<1> QED BY <1>2, <1>7, <1>8 DEF TimersInv

(* malloc gives out a node that nobody has.                                *)
LEMMA Allocates ==
  ASSUME TimersInv, NEW t \in Threads, NEW h \in Handlers, NEW d \in 0..MaxDelay, Alloc(t, h, d),
         at[t].pc \in {"idle", "uniq"}, UNCHANGED <<head, sem, tick>>
  PROVE  /\ AtOK' /\ Moved(t) /\ at'[t].pc = "link" /\ at'[t].h = h /\ node' \in [Nodes -> Node]
         /\ \A L, r : Sound(L, r) => /\ (Ranked(L, r) /\ Ordered(L, r) /\ Own(L) /\ Walkers(L))'
                                     /\ \A m \in L : node'[m] = node[m]
<1>1. PICK n \in Nodes : /\ ~node[n].used /\ node' = [node EXCEPT ![n] = Fresh(h, d)]
                         /\ Goto(t, [Idle EXCEPT !.pc = "link", !.new = n, !.h = h])
  BY DEF Alloc
<1> DEFINE c == [Idle EXCEPT !.pc = "link", !.new = n, !.h = h]
           x == Fresh(h, d)
<1>2. Proper(c) /\ c.pc = "link" /\ c.new = n /\ c.h = h
  <2>1. c \in Calls /\ c.pc = "link" /\ c.new = n /\ c.h = h
    BY Idles DEF Calls, Pcs, Links
  <2> QED BY <2>1, Constants DEF Proper, Adding
<1>3. x \in Node /\ x.used /\ x.next = NULL /\ x.h = h
  BY Constants DEF Fresh, Node, Links
<1>4. Goto(t, c)
  BY <1>1
<1> HIDE DEF c, x
<1>5. AtOK' /\ at'[t] = c /\ Moved(t)
  BY <1>2, <1>4, Goes DEF TimersInv, Base, Moved
<1>6. node' = [node EXCEPT ![n] = x]
  BY <1>1 DEF x
<1>7. node' \in [Nodes -> Node] /\ node'[n] = x /\ \A m \in Nodes \ {n} : node'[m] = node[m]
  BY <1>3, <1>6 DEF TimersInv, Base, HeapOK
<1>8. ASSUME NEW L, NEW r, Sound(L, r)
      PROVE  /\ (Ranked(L, r) /\ Ordered(L, r) /\ Own(L) /\ Walkers(L))'
             /\ \A m \in L : node'[m] = node[m]
  <2>1. n \notin L /\ L \subseteq Nodes /\ \A m \in L : node'[m] = node[m]
    BY <1>1, <1>7, <1>8 DEF Sound, Own, Ranked
  <2>2. \A u \in Threads : at[u].pc \in Adding => at[u].new # n /\ at[u].new \in Nodes
    BY <1>1, <1>8 DEF Sound, Own, TimersInv, Base, AtOK, Proper, Calls, Links
  <2>3. Handling => tick.p # n /\ tick.p \in Nodes
    BY <1>1, <1>8 DEF Sound, Own, TimersInv, Base, TickOK, Ticks, Links
  <2>4. Ranked(L, r)' /\ Ordered(L, r)'
    BY <1>8, <2>1 DEF Sound, Ranked, Ordered
  <2>5. \A u \in Threads : at'[u].pc \in Adding => u = t \/ (at[u].pc \in Adding /\ at'[u].new = at[u].new /\ at'[u].h = at[u].h)
    BY <1>5 DEF Moved
  <2>6. \A u \in Threads : at[u].pc \in Adding => u # t /\ at'[u] = at[u]
    BY <1>5 DEF Moved, Adding
  <2>7. at'[t].pc \in Adding /\ at'[t].new = n /\ at'[t].h = h
    BY <1>2, <1>5 DEF Adding
  <2>8. Own(L)'
    <3>1. ASSUME NEW u \in Threads, at'[u].pc \in Adding
          PROVE  /\ at'[u].new \notin L /\ node'[at'[u].new].used /\ node'[at'[u].new].next = NULL
                 /\ node'[at'[u].new].h = at'[u].h
                 /\ \A w \in Threads : at'[w].pc \in Adding /\ at'[w].new = at'[u].new => w = u
                 /\ Handling => at'[u].new # tick.p
      <4>1. CASE u = t
        BY <1>3, <1>7, <2>1, <2>2, <2>3, <2>5, <2>7, <4>1
      <4>2. CASE u # t
        BY <1>7, <1>8, <2>2, <2>5, <2>7, <3>1, <4>2 DEF Sound, Own
      <4> QED BY <4>1, <4>2
    <3>2. ASSUME NEW m \in Nodes, node'[m].used
          PROVE  \/ m \in L \/ (Handling /\ tick.p = m)
                 \/ \E u \in Threads : at'[u].pc \in Adding /\ at'[u].new = m
      <4>1. CASE m = n
        BY <2>7, <4>1
      <4>2. CASE m # n
        BY <1>7, <1>8, <2>6, <3>2, <4>2 DEF Sound, Own
      <4> QED BY <4>1, <4>2
    <3>3. Handling' = Handling /\ tick' = tick
      BY DEF Handling
    <3>4. Handling => tick.p \notin L /\ node'[tick.p].used
      BY <1>7, <1>8, <2>3 DEF Sound, Own
    <3>5. \A m \in L : node'[m].used
      BY <1>8, <2>1 DEF Sound, Own
    <3> QED BY <3>1, <3>2, <3>3, <3>4, <3>5 DEF Own
  <2>9. Walkers(L)'
    BY <1>2, <1>5, <1>8, <2>1 DEF Sound, Walkers, Walking, Moved
  <2> QED BY <2>1, <2>4, <2>8, <2>9
<1> QED BY <1>2, <1>5, <1>7, <1>8

LEMMA SetTimerInv == ASSUME TimersInv, NEW t \in Threads, SetTimer(t) PROVE TimersInv'
<1>1. PICK h \in Handlers, d \in 0..MaxDelay : Alloc(t, h, d) /\ Sets(h)
  BY DEF SetTimer
<1>2. at[t].pc = "idle" /\ Ready(t) /\ calls' \in 0..MaxCalls /\ UNCHANGED <<head, sem, tick, raced>>
      /\ gone' = gone \ {h} /\ mixed' = mixed \cup Using(h, {"unset"})
  BY <1>1, Constants DEF TimersInv, Base, CountsOK, SetTimer, Called, Ready, Sets
<1>3. /\ AtOK' /\ Moved(t) /\ at'[t].pc = "link" /\ at'[t].h = h /\ node' \in [Nodes -> Node]
      /\ \A L, r : Sound(L, r) => /\ (Ranked(L, r) /\ Ordered(L, r) /\ Own(L) /\ Walkers(L))'
                                  /\ \A m \in L : node'[m] = node[m]
  BY <1>1, <1>2, Allocates
<1>4. Base'
  <2>1. gone' \subseteq Handlers /\ mixed' \subseteq Threads
    BY <1>2 DEF TimersInv, Base, CountsOK, Using
  <2> QED BY <1>2, <1>3, <2>1, Within1 DEF TimersInv, Base, HeapOK, CountsOK
<1>5. ASSUME NEW L, NEW r, Sound(L, r) PROVE Sound(L, r)'
  <2>1. \A g : g # h /\ Using(g, Setting) = {} => Using(g, Setting)' = {}
    BY <1>3 DEF Using, Moved
  <2>2. \A u \in Threads \ mixed' : at'[u].pc = "unset" => u # t /\ u \notin mixed /\ at[u].pc = "unset" /\ at[u].h # h
    BY <1>2, <1>3 DEF Using, Moved
  <2>3. \A m \in L : node'[m] = node[m]
    BY <1>3, <1>5
  <2>4. Removals(L, r)'
    BY <1>2, <1>3, <1>5, <2>1, <2>2, <2>3 DEF Sound, Removals, Moved
  <2> QED BY <1>3, <1>5, <2>4 DEF Sound
<1> QED BY <1>2, <1>4, <1>5 DEF TimersInv

(* SetTimer_uniq found no timer of the handler. *)
LEMMA AbsentInv == ASSUME TimersInv, NEW t \in Threads, Absent(t) PROVE TimersInv'
<1>1. /\ at[t].pc = "uniq" /\ at[t].h \in Handlers /\ at[t].ms \in 0..MaxDelay
      /\ UNCHANGED <<head, sem, tick, calls, gone, mixed, raced>>
  BY DEF TimersInv, Base, AtOK, Calls, Absent, Keep, Same
<1>2. CASE Alloc(t, at[t].h, at[t].ms)
  <2> DEFINE h == at[t].h
  <2>1. /\ AtOK' /\ Moved(t) /\ at'[t].pc = "link" /\ at'[t].h = h /\ node' \in [Nodes -> Node]
        /\ \A L, r : Sound(L, r) => /\ (Ranked(L, r) /\ Ordered(L, r) /\ Own(L) /\ Walkers(L))'
                                    /\ \A m \in L : node'[m] = node[m]
    BY <1>1, <1>2, Allocates
  <2>2. Base'
    BY <1>1, <2>1, Within1 DEF TimersInv, Base, HeapOK, CountsOK
  <2>3. ASSUME NEW L, NEW r, Sound(L, r) PROVE Sound(L, r)'
    <3>1. \A g : Using(g, Setting) = {} => Using(g, Setting)' = {}
      BY <1>1, <2>1 DEF Using, Moved, Setting
    <3>2. Removals(L, r)'
      BY <1>1, <2>1, <2>3, <3>1 DEF Sound, Removals, Moved
    <3> QED BY <2>1, <2>3, <3>2 DEF Sound
  <2> QED BY <1>1, <2>2, <2>3 DEF TimersInv
<1>3. CASE Return(t) /\ UNCHANGED node
  <2>1. AtOK' /\ at'[t] = Idle /\ Moved(t)
    BY <1>3, Goes, Idles DEF TimersInv, Base, Moved, Return
  <2>2. Base'
    BY <1>1, <1>3, <2>1, Within1 DEF TimersInv, Base, HeapOK, CountsOK
  <2>3. ASSUME NEW L, NEW r, Sound(L, r) PROVE Sound(L, r)'
    <3>1. (Ranked(L, r) /\ Ordered(L, r) /\ Own(L) /\ Walkers(L))'
      BY <1>1, <1>3, <2>1, <2>3, Idles, Moves DEF SameLinks, TimersInv, Adding
    <3>2. Removals(L, r)'
      BY <1>1, <1>3, <2>1, <2>3, Idles, MovesRemoved DEF Sound, TimersInv, Setting
    <3> QED BY <3>1, <3>2 DEF Sound
  <2> QED BY <1>1, <2>2, <2>3 DEF TimersInv
<1> QED BY <1>2, <1>3 DEF Absent

SameMarks == \A n \in Nodes : /\ node'[n].used = node[n].used /\ node'[n].h = node[n].h
                              /\ node'[n].valid = node[n].valid

(* Whoever links a node has had it for itself, and is to release.          *)
LEMMA Links1 ==
  ASSUME Base, NEW L, NEW r, Sound(L, r), NEW t \in Threads, Moved(t), at[t].pc \in {"first", "append"},
         at'[t].pc = "release", at'[t].h = at[t].h, UNCHANGED tick, NEW n, n = at[t].new
  PROVE  /\ n \in Nodes /\ n \notin L /\ node[n].used /\ node[n].next = NULL
         /\ \A u \in Threads : at'[u].pc \in Adding =>
               /\ at'[u] = at[u] /\ at[u].new \in Nodes /\ at[u].new # n /\ at[u].new \notin L
         /\ \A u \in Threads : at[u].pc \in Adding => u = t \/ at'[u] = at[u]
         /\ Handling => tick.p # n /\ tick.p \in Nodes
         /\ Pending'
         /\ \A g : Using(g, Setting) = {} => Using(g, Setting)' = {} /\ g # node[n].h
<1>1. \A u \in Threads : at[u].pc \in Adding => at[u].new \in Nodes
  BY DEF Base, AtOK, Proper, Calls, Links
<1>2. at[t].pc \in Adding
  BY DEF Adding
<1>3. n \in Nodes /\ n \notin L /\ node[n].used /\ node[n].next = NULL /\ node[n].h = at[t].h
      /\ \A u \in Threads : at[u].pc \in Adding /\ at[u].new = n => u = t
      /\ (Handling => tick.p # n)
  BY <1>1, <1>2 DEF Sound, Own
<1>4. Handling => tick.p \in Nodes
  BY DEF Base, TickOK, Ticks, Links
<1>5. \A u \in Threads : at'[u].pc \in Adding => u # t /\ at'[u] = at[u]
  BY DEF Moved, Adding
<1>6. Pending'
  BY DEF Pending
<1>7. \A g : Using(g, Setting) = {} => Using(g, Setting)' = {} /\ g # at[t].h
  BY DEF Using, Moved, Setting
<1>8. \A u \in Threads : at'[u].pc \in Adding => at[u].new \notin L
  BY <1>5 DEF Sound, Own
<1>9. \A u \in Threads : at[u].pc \in Adding => u = t \/ at'[u] = at[u]
  BY DEF Moved
<1>10. \A u \in Threads : at'[u].pc \in Adding =>
          /\ at'[u] = at[u] /\ at[u].new \in Nodes /\ at[u].new # n /\ at[u].new \notin L
  <2> SUFFICES ASSUME NEW u \in Threads, at'[u].pc \in Adding
               PROVE  at'[u] = at[u] /\ at[u].new \in Nodes /\ at[u].new # n /\ at[u].new \notin L
    OBVIOUS
  <2> QED BY <1>1, <1>3, <1>5, <1>8
<1>11. \A g : Using(g, Setting) = {} => Using(g, Setting)' = {} /\ g # node[n].h
  BY <1>3, <1>7
<1>12. n \in Nodes /\ n \notin L /\ node[n].used /\ node[n].next = NULL
  BY <1>3
<1>13. Handling => tick.p # n /\ tick.p \in Nodes
  <2> SUFFICES ASSUME Handling PROVE tick.p # n /\ tick.p \in Nodes
    OBVIOUS
  <2>1. tick.p # at[t].new
    BY <1>2 DEF Sound, Own
  <2>2. tick.p \in Nodes
    BY <1>4 DEF Handling
  <2> QED BY <2>1, <2>2
<1> QED BY <1>6, <1>9, <1>10, <1>11, <1>12, <1>13

(* What is given out, when a node comes to the list.                       *)
LEMMA LinksOwn ==
  ASSUME Base, NEW L, NEW r, Sound(L, r), NEW t \in Threads, Moved(t), at[t].pc \in {"first", "append"},
         at'[t].pc = "release", at'[t].h = at[t].h, UNCHANGED tick, NEW n, n = at[t].new,
         SameMarks, \A m \in Nodes : m \notin L => node'[m].next = node[m].next
  PROVE  Own(L \cup {n})'
<1>1. L \subseteq Nodes
  BY DEF Sound, Ranked
<1>2. Handling' = Handling
  BY DEF Handling
<1>3. ASSUME NEW u \in Threads, at'[u].pc \in Adding
      PROVE  /\ at'[u].new \notin L \cup {n} /\ node'[at'[u].new].used /\ node'[at'[u].new].next = NULL
             /\ node'[at'[u].new].h = at'[u].h
             /\ \A w \in Threads : at'[w].pc \in Adding /\ at'[w].new = at'[u].new => w = u
             /\ Handling => at'[u].new # tick'.p
  BY <1>3, Links1 DEF Sound, Own, SameMarks
<1>4. Handling => tick.p \notin L \cup {n} /\ node'[tick.p].used
  BY Links1 DEF Sound, Own, SameMarks
<1>5. \A m \in L \cup {n} : node'[m].used
  BY <1>1, Links1 DEF Sound, Own, SameMarks
<1>6. ASSUME NEW m \in Nodes, node'[m].used
      PROVE  \/ m \in L \cup {n} \/ (Handling /\ tick.p = m)
             \/ \E u \in Threads : at'[u].pc \in Adding /\ at'[u].new = m
  BY <1>6, Links1 DEF Sound, Own, SameMarks
<1> QED BY <1>2, <1>3, <1>4, <1>5, <1>6 DEF Own

(* SetTimer: the first node of an empty list. *)
LEMMA FirstInv == ASSUME TimersInv, NEW t \in Threads, First(t) PROVE TimersInv'
<1> DEFINE c == [at[t] EXCEPT !.pc = "release"]
<1>1. PICK n \in Nodes : n = at[t].new
  BY DEF TimersInv, Base, AtOK, Proper, Adding, Calls, Links, First
<1>2. /\ at[t].pc = "first" /\ head' = n /\ raced' = (raced \/ head # NULL) /\ Goto(t, c)
      /\ UNCHANGED <<node, sem, tick, calls, gone, mixed>> /\ at[t] \in Calls /\ Proper(at[t])
  BY <1>1 DEF First, Keep, Same, TimersInv, Base, AtOK
<1>3. Proper(c) /\ c.new = n /\ c.h = at[t].h /\ c.pc = "release"
  BY <1>1, <1>2 DEF Proper, Calls, Pcs, Adding
<1> HIDE DEF c
<1>4. AtOK' /\ at'[t] = c /\ Moved(t)
  BY <1>2, <1>3, Goes DEF TimersInv, Base, Moved
<1>5. raced' \in BOOLEAN
  BY <1>2
<1>6. Base'
  BY <1>2, <1>4, <1>5, Within1 DEF TimersInv, Base, HeapOK, CountsOK, Links
<1>7. ASSUME NEW L, NEW r, Sound(L, r), ~raced' PROVE Sound({n}, r)'
  <2>1. head = NULL /\ L = {}
    BY <1>2, <1>7, Constants DEF Sound, Ordered, Ranked
  <2>2. /\ node[n].next = NULL /\ Pending'
        /\ \A g : Using(g, Setting) = {} => Using(g, Setting)' = {} /\ g # node[n].h
    BY <1>1, <1>2, <1>3, <1>4, <1>7, Links1 DEF TimersInv
  <2>3. r \in [Nodes -> Nat]
    BY <1>7 DEF Sound, Ranked
  <2>4. Ranked({n}, r)' /\ Ordered({n}, r)'
    BY <1>2, <2>2, <2>3 DEF Ranked, Ordered
  <2>5. Own({n})'
    <3>1. Own(L \cup {n})'
      BY <1>1, <1>2, <1>3, <1>4, <1>7, LinksOwn DEF TimersInv, SameMarks
    <3>2. L \cup {n} = {n}
      BY <2>1
    <3> QED BY <3>1, <3>2
  <2>6. Walkers({n})'
    BY <1>2, <1>3, <1>4, <1>7, <2>1 DEF Sound, Walkers, Moved, Walking
  <2>8. Removals({n}, r)'
    BY <1>2, <1>3, <1>4, <1>7, <2>2 DEF Sound, Removals, Moved
  <2> QED BY <2>4, <2>5, <2>6, <2>8 DEF Sound
<1>8. raced' \/ \E L, r : Sound(L, r)'
  BY <1>2, <1>7 DEF TimersInv
<1> QED BY <1>6, <1>8 DEF TimersInv

(* SetTimer: the last node of the list. *)
LEMMA AppendInv == ASSUME TimersInv, NEW t \in Threads, Append(t) PROVE TimersInv'
<1> DEFINE c == [at[t] EXCEPT !.pc = "release"]
<1>1. PICK n \in Nodes, p \in Nodes : n = at[t].new /\ p = at[t].p
  BY DEF TimersInv, Base, AtOK, Proper, Adding, Calls, Links, Append
<1>2. /\ at[t].pc = "append" /\ node' = [node EXCEPT ![p].next = n]
      /\ raced' = (raced \/ node[p].next # NULL) /\ Goto(t, c)
      /\ UNCHANGED <<head, sem, tick, calls, gone, mixed>> /\ at[t] \in Calls /\ Proper(at[t])
      /\ node[p] \in Node
  BY <1>1 DEF Append, Keep, Same, TimersInv, Base, AtOK, HeapOK
<1>3. Proper(c) /\ c.new = n /\ c.h = at[t].h /\ c.pc = "release"
  BY <1>1, <1>2 DEF Proper, Calls, Pcs, Adding
<1> HIDE DEF c
<1>4. AtOK' /\ at'[t] = c /\ Moved(t)
  BY <1>2, <1>3, Goes DEF TimersInv, Base, Moved
<1>5. raced' \in BOOLEAN
  BY <1>2
<1>6. /\ node' \in [Nodes -> Node] /\ SameMarks /\ node'[p].next = n
      /\ \A m \in Nodes \ {p} : node'[m] = node[m]
  BY <1>2 DEF TimersInv, Base, HeapOK, SameMarks, Node, Links
<1>7. Base'
  BY <1>2, <1>4, <1>5, <1>6, Within1 DEF TimersInv, Base, HeapOK, CountsOK
<1>8. ASSUME NEW L, NEW r, Sound(L, r), ~raced', NEW K, K = L \cup {n}, NEW s, s = [r EXCEPT ![n] = r[p] + 1]
      PROVE  Sound(K, s)'
  <2>1. /\ p \in L /\ L \subseteq Nodes /\ r \in [Nodes -> Nat] /\ head \in L /\ node[p].next = NULL
        /\ \A m \in L : r[m] <= r[p]
    <3>1. p \in L /\ L \subseteq Nodes /\ r \in [Nodes -> Nat] /\ node[p].next = NULL
      BY <1>1, <1>2, <1>8, Constants DEF Sound, Walkers, Walking, Ranked
    <3> QED BY <1>8, <3>1, Onward DEF TimersInv, Sound, Ordered
  <2>2. /\ node[n].next = NULL /\ n \notin L /\ Pending'
        /\ \A g : Using(g, Setting) = {} => Using(g, Setting)' = {} /\ g # node[n].h
    BY <1>1, <1>2, <1>3, <1>4, <1>8, Links1 DEF TimersInv
  <2>3. s \in [Nodes -> Nat] /\ s[n] = r[p] + 1 /\ \A m \in L : s[m] = r[m] /\ r[m] \in Nat
    BY <1>8, <2>1, <2>2
  <2>4. node'[n].next = NULL /\ n # p /\ \A m \in L \ {p} : node'[m].next = node[m].next
    BY <1>6, <2>1, <2>2
  <2>5. Ranked(K, s)'
    BY <1>8, <2>1, <2>3 DEF Ranked
  <2>6. Ordered(K, s)'
    <3>1. head' \in K /\ \A k \in K : s[head'] <= s[k]
      BY <1>2, <1>8, <2>1, <2>3 DEF Sound, Ordered
    <3>2. ASSUME NEW k \in K, NEW m \in K, s[k] = s[m] PROVE k = m
      BY <1>8, <2>1, <2>3, <3>2 DEF Sound, Ordered
    <3>3. ASSUME NEW k \in K
          PROVE  \/ node'[k].next = NULL /\ \A m \in K : s[m] <= s[k]
                 \/ /\ node'[k].next \in K /\ s[k] < s[node'[k].next]
                    /\ \A m \in K : s[m] <= s[k] \/ s[node'[k].next] <= s[m]
      <4>1. CASE k = n
        BY <1>8, <2>1, <2>3, <2>4, <4>1
      <4>2. CASE k = p
        BY <1>6, <1>8, <2>1, <2>3, <2>4, <4>2
      <4>3. CASE k \in L \ {p}
        <5>1. node[k].next # NULL
          BY <1>8, <2>1, <2>3, <4>3, Constants DEF Sound, Ordered
        <5>2. node[k].next \in L /\ r[k] < r[node[k].next] /\ \A m \in L : r[m] <= r[k] \/ r[node[k].next] <= r[m]
          BY <1>8, <4>3, <5>1 DEF Sound, Ordered
        <5> QED BY <1>8, <2>1, <2>3, <2>4, <4>3, <5>2
      <4> QED BY <1>8, <4>1, <4>2, <4>3
    <3> QED BY <1>8, <3>1, <3>2, <3>3 DEF Ordered
  <2>7. Own(K)'
    BY <1>1, <1>2, <1>3, <1>4, <1>6, <1>8, <2>1, LinksOwn DEF TimersInv
  <2>8. Walkers(K)'
    <3>1. \A u \in Threads : at'[u].pc \in Walking => u # t
      BY <1>3, <1>4 DEF Walking
    <3>2. tick.pc = "visit" /\ tick.p # NULL => tick.p \in L /\ (tick.p = head \/ (tick.q \in L \ {p} /\ node[tick.q].next = tick.p))
      BY <1>8, <2>1 DEF Sound, Walkers
    <3> QED BY <1>2, <1>4, <1>8, <2>4, <3>1, <3>2 DEF Sound, Walkers, Moved
  <2>10. Removals(K, s)'
    <3>1. \A m \in K : node'[m].h = node[m].h /\ node'[m].valid = node[m].valid
      BY <1>6, <1>8, <2>1 DEF SameMarks
    <3>2. ASSUME NEW g \in gone' PROVE Using(g, Setting)' = {} /\ \A m \in K : node'[m].h = g => ~node'[m].valid
      BY <1>2, <1>8, <2>2, <3>1 DEF Sound, Removals
    <3>3. ASSUME NEW u \in Threads \ mixed', at'[u].pc = "unset"
          PROVE  /\ Using(at[u].h, Setting)' = {}
                 /\ \A m \in K : node'[m].h = at'[u].h /\ (at'[u].p = NULL \/ s[m] < s[at'[u].p]) => ~node'[m].valid
      <4>1. u # t /\ at'[u] = at[u] /\ u \notin mixed
        BY <1>2, <1>3, <1>4, <3>3 DEF Moved
      <4>2. Using(at[u].h, Setting) = {} /\ \A m \in L : node[m].h = at[u].h /\ (at[u].p = NULL \/ r[m] < r[at[u].p]) => ~node[m].valid
        BY <1>8, <3>3, <4>1 DEF Sound, Removals
      <4>3. at[u].p = NULL \/ at[u].p \in L
        BY <1>8, <3>3, <4>1 DEF Sound, Walkers, Walking
      <4>4. Using(at[u].h, Setting)' = {} /\ at[u].h # node[n].h
        BY <2>2, <4>1, <4>2
      <4> QED BY <1>8, <2>3, <3>1, <4>1, <4>2, <4>3, <4>4
    <3> QED BY <3>2, <3>3 DEF Removals
  <2> QED BY <2>5, <2>6, <2>7, <2>8, <2>10 DEF Sound
<1>9. raced' \/ \E L, r : Sound(L, r)'
  BY <1>2, <1>8 DEF TimersInv
<1> QED BY <1>7, <1>9 DEF TimersInv

(* The threads that call are where they were when the timer thread moves.  *)
LEMMA Stays == ASSUME Base, Others PROVE AtOK' /\ CountsOK' = (raced' \in BOOLEAN) /\ Timer \in Threads
  BY Constants DEF Base, AtOK, CountsOK, Others

(* What was removed stays so: the nodes keep their handlers, and are not   *)
(* made valid.                                                             *)
LEMMA StaysRemoved1 ==
  ASSUME NEW L, NEW r, Removals(L, r), NEW K, K \subseteq L, Others,
         \A n \in K : node'[n].h = node[n].h /\ node'[n].valid = node[n].valid
  PROVE  Removals(K, r)'
  BY DEF Removals, Others, Using

(* The timer thread wakes. *)
LEMMA WakeInv == ASSUME TimersInv, Wake PROVE TimersInv'
<1>1. /\ tick.pc = "sleep" /\ sem' = 0 /\ UNCHANGED <<node, head, raced>> /\ Others /\ tick \in Ticks
      /\ head \in Links /\ tick' = [tick EXCEPT !.pc = "visit", !.p = head, !.q = head, !.next = Never]
  BY DEF TimersInv, Base, TickOK, HeapOK, Wake
<1>2. /\ tick' \in Ticks /\ tick'.pc = "visit" /\ tick'.p = head /\ tick'.q = head /\ tick'.next = Never
  <2>1. Never \in -1..Never
    BY Constants
  <2> QED BY <1>1, <2>1 DEF Ticks
<1>3. Base'
  BY <1>1, <1>2, Stays DEF TimersInv, Base, TickOK, HeapOK, CountsOK, Within, Handling, Others
<1>4. ASSUME NEW L, NEW r, Sound(L, r) PROVE Sound(L, r)'
  <2>1. Ranked(L, r)' /\ Ordered(L, r)'
    BY <1>1, <1>4 DEF Sound, Ranked, Ordered
  <2>2. Own(L)'
    BY <1>1, <1>2, <1>4 DEF Sound, Own, Handling, Others
  <2>3. Walkers(L)'
    BY <1>1, <1>2, <1>4, Constants DEF Sound, Walkers, Ordered, Ranked, Others
  <2>5. Removals(L, r)'
    BY <1>1, <1>4, StaysRemoved1 DEF Sound
  <2> QED BY <2>1, <2>2, <2>3, <2>5 DEF Sound
<1> QED BY <1>1, <1>3, <1>4 DEF TimersInv

(* A node that is not due is passed: it is not due before what is next. *)
LEMMA PassInv == ASSUME TimersInv, Pass PROVE TimersInv'
<1> DEFINE p == tick.p
           n == node[p].next
           l == Least(tick.next, node[p].left)
           x == [node[p] EXCEPT !.soon = FALSE]
<1>1. /\ tick.pc = "visit" /\ p \in Nodes /\ node[p].left >= 0 /\ tick \in Ticks /\ node[p] \in Node
  BY DEF TimersInv, Base, TickOK, HeapOK, Pass, Ticks, Links
<1>2. /\ tick' = [tick EXCEPT !.q = p, !.p = n, !.next = l]
      /\ node' = [node EXCEPT ![p] = x] /\ UNCHANGED <<head, sem, raced>> /\ Others
  BY DEF Pass
<1>3. l \in -1..Never /\ l <= tick.next /\ l <= node[p].left /\ node[p].left \in Int
  BY <1>1, Constants DEF Least, Ticks, Node
<1> HIDE DEF l
<1>4. x \in Node /\ x.soon = FALSE /\ x.next = n /\ x.used = node[p].used /\ x.h = node[p].h
      /\ x.left = node[p].left /\ x.valid = node[p].valid /\ n \in Links
  BY <1>1 DEF Node
<1> HIDE DEF x
<1>5. tick' \in Ticks /\ tick'.pc = "visit" /\ tick'.p = n /\ tick'.q = p /\ tick'.next = l
  BY <1>1, <1>2, <1>3, <1>4 DEF Ticks, Links
<1>6. node' \in [Nodes -> Node] /\ node'[p] = x /\ SameLinks /\ \A m \in Nodes \ {p} : node'[m] = node[m]
  BY <1>1, <1>2, <1>4 DEF TimersInv, Base, HeapOK, SameLinks
<1>7. Base'
  BY <1>1, <1>2, <1>5, <1>6, Stays DEF TimersInv, Base, TickOK, HeapOK, CountsOK, Within, Handling, Others
<1>8. ASSUME NEW L, NEW r, Sound(L, r) PROVE Sound(L, r)'
  <2>1. p \in L /\ L \subseteq Nodes /\ r \in [Nodes -> Nat]
    BY <1>1, <1>8, Constants DEF Sound, Walkers, Ranked
  <2>2. /\ n = NULL => \A m \in L : r[m] <= r[p]
        /\ n # NULL => n \in L /\ r[p] < r[n] /\ \A m \in L : r[m] <= r[p] \/ r[n] <= r[m]
    BY <1>8, <2>1, Onward DEF TimersInv
  <2>3. Ranked(L, r)' /\ Ordered(L, r)'
    BY <1>2, <1>6, <1>8, <2>1 DEF Sound, Ranked, Ordered, SameLinks
  <2>4. Own(L)'
    <3>1. \A u \in Threads : at[u].pc \in Adding => at[u].new \in Nodes
      BY DEF TimersInv, Base, AtOK, Proper, Calls, Links
    <3> QED BY <1>1, <1>2, <1>5, <1>6, <1>8, <2>1, <3>1 DEF Sound, Own, Handling, Others, SameLinks
  <2>5. Walkers(L)'
    BY <1>1, <1>2, <1>4, <1>5, <1>6, <1>8, <2>1, <2>2 DEF Sound, Walkers, Others
  <2>7. Removals(L, r)'
    BY <1>2, <1>4, <1>6, <1>8, <2>1, StaysRemoved1 DEF Sound
  <2> QED BY <2>3, <2>4, <2>5, <2>7 DEF Sound
<1> QED BY <1>2, <1>7, <1>8 DEF TimersInv

(* The list without one of its nodes. *)
LEMMA Shortened ==
  ASSUME Base, NEW L, NEW r, Sound(L, r), NEW p \in L, NEW K, K = L \ {p},
         node' \in [Nodes -> Node],
         \/ p = head /\ head' = node[p].next /\ node' = node
         \/ /\ p # head /\ head' = head
            /\ \E q \in L : /\ node[q].next = p /\ node'[q].next = node[p].next
                            /\ \A m \in Nodes \ {q} : node'[m] = node[m]
  PROVE  (Ranked(K, r) /\ Ordered(K, r))'
<1>1. L \subseteq Nodes /\ r \in [Nodes -> Nat] /\ p \in Nodes /\ \A m \in L : r[m] \in Nat
  BY DEF Sound, Ranked
<1>2. /\ node[p].next = NULL => \A m \in L : r[m] <= r[p]
      /\ node[p].next # NULL => /\ node[p].next \in K /\ r[p] < r[node[p].next]
                                /\ \A m \in L : r[m] <= r[p] \/ r[node[p].next] <= r[m]
  BY <1>1, Onward
<1>3. \A k, m \in L : r[k] = r[m] => k = m
  BY DEF Sound, Ordered
<1>4. head \in L /\ \A k \in L : r[head] <= r[k]
  BY DEF Sound, Ordered
<1>5. ASSUME NEW k \in K, node[k].next # p
      PROVE  \/ node[k].next = NULL /\ \A m \in K : r[m] <= r[k]
             \/ /\ node[k].next \in K /\ r[k] < r[node[k].next]
                /\ \A m \in K : r[m] <= r[k] \/ r[node[k].next] <= r[m]
  BY <1>5 DEF Sound, Ordered
<1>6. CASE p = head /\ head' = node[p].next /\ node' = node
  <2>1. \A k \in K : node[k].next # p
    BY <1>1, <1>4, <1>6, Constants DEF Sound, Ordered
  <2>2. K # {} => head' \in K /\ \A k \in K : r[head'] <= r[k]
    <3>1. \A k \in K : r[p] < r[k]
      BY <1>1, <1>3, <1>4, <1>6
    <3> QED BY <1>1, <1>2, <1>6, <3>1
  <2>3. K = {} => head' = NULL
    BY <1>2, <1>6
  <2> QED BY <1>1, <1>3, <1>5, <1>6, <2>1, <2>2, <2>3 DEF Ranked, Ordered
<1>7. ASSUME p # head, head' = head,
             NEW q \in L, node[q].next = p, node'[q].next = node[p].next,
             \A m \in Nodes \ {q} : node'[m] = node[m]
      PROVE  (Ranked(K, r) /\ Ordered(K, r))'
  <2>1. p # NULL /\ q \in K /\ r[q] < r[p] /\ \A m \in L : r[m] <= r[q] \/ r[p] <= r[m]
    BY <1>1, <1>7, Constants DEF Sound, Ordered
  <2>2. \A k \in K \ {q} : node[k].next # p /\ node'[k] = node[k]
    <3> SUFFICES ASSUME NEW k \in K \ {q}, node[k].next = p PROVE FALSE
      BY <1>1, <1>7
    <3>1. r[k] < r[p] /\ \A m \in L : r[m] <= r[k] \/ r[p] <= r[m]
      BY <1>1, <2>1 DEF Sound, Ordered
    <3>2. r[q] <= r[k] /\ r[k] <= r[q]
      BY <1>1, <2>1, <3>1
    <3> QED BY <1>1, <1>3, <3>2
  <2>3. \/ node'[q].next = NULL /\ \A m \in K : r[m] <= r[q]
        \/ /\ node'[q].next \in K /\ r[q] < r[node'[q].next]
           /\ \A m \in K : r[m] <= r[q] \/ r[node'[q].next] <= r[m]
    <3>1. \A m \in K : r[m] <= r[q] \/ r[p] < r[m]
      BY <1>1, <1>3, <2>1
    <3>2. CASE node[p].next = NULL
      BY <1>1, <1>2, <1>7, <3>1, <3>2
    <3>3. CASE node[p].next # NULL
      BY <1>1, <1>2, <1>7, <2>1, <3>1, <3>3
    <3> QED BY <3>2, <3>3
  <2>4. head' \in K /\ \A k \in K : r[head'] <= r[k]
    BY <1>4, <1>7
  <2>5. Ordered(K, r)'
    BY <1>3, <1>5, <2>2, <2>3, <2>4 DEF Ordered
  <2> QED BY <1>1, <2>5 DEF Ranked
<1> QED BY <1>6, <1>7

(* A node that is due leaves the list and is handled. *)
LEMMA UnlinkInv == ASSUME TimersInv, Unlink PROVE TimersInv'
<1>1. PICK p \in Nodes : p = tick.p
  BY DEF TimersInv, Base, TickOK, Unlink, Ticks, Links
<1> DEFINE pc == IF node[p].valid THEN "call" ELSE "free"
           i  == (p # head)
<1>2. /\ tick.pc = "visit" /\ tick \in Ticks /\ node[p] \in Node /\ node[p].next \in Links /\ i \in BOOLEAN
      /\ UNCHANGED sem /\ Others /\ at[Timer].pc = "idle" /\ node \in [Nodes -> Node]
  BY <1>1 DEF TimersInv, Base, TickOK, HeapOK, Within, Unlink, Node
<1>3. tick' = [tick EXCEPT !.pc = pc, !.next = -1, !.inner = i]
  BY <1>1 DEF Unlink
<1>4. IF p = head THEN head' = node[p].next /\ node' = node
      ELSE node' = [node EXCEPT ![tick.q].next = node[p].next] /\ head' = head
  BY <1>1 DEF Unlink
<1>5. raced' = (raced \/ \E t \in Callers : at[t].p = p /\ at[t].pc \in Walking)
  BY <1>1 DEF Unlink
<1>6. pc \in {"call", "free"}
  OBVIOUS
<1> HIDE DEF pc, i
<1>7. tick' \in Ticks /\ tick'.pc = pc /\ tick'.p = p /\ tick'.next = -1
  <2>1. -1 \in -1..Never
    BY Constants
  <2> QED BY <1>1, <1>2, <1>3, <1>6, <2>1 DEF Ticks
<1>8. /\ node' \in [Nodes -> Node] /\ head' \in Links /\ SameMarks
      /\ \A m \in Nodes : node'[m].left = node[m].left /\ node'[m].soon = node[m].soon
      /\ \A m \in Nodes \ {tick.q} : node'[m] = node[m]
  BY <1>2, <1>4 DEF TimersInv, Base, HeapOK, Node, SameMarks
<1>9. raced' \in BOOLEAN
  BY <1>5
<1>10. Base'
  BY <1>1, <1>2, <1>6, <1>7, <1>8, <1>9, Stays, Constants DEF TimersInv, Base, TickOK, HeapOK, CountsOK, Within, Handling, Others
<1>11. ASSUME NEW L, NEW r, Sound(L, r), ~raced', NEW K, K = L \ {p} PROVE Sound(K, r)'
  <2>1. p \in L /\ L \subseteq Nodes /\ p # NULL
    BY <1>1, <1>2, <1>11, Constants DEF Sound, Walkers, Ranked
  <2>2. p # head => tick.q \in L /\ node[tick.q].next = p
    BY <1>1, <1>2, <1>11, <2>1 DEF Sound, Walkers
  <2>3. p # head => /\ node'[tick.q].next = node[p].next
                    /\ \A m \in Nodes \ {tick.q} : node'[m] = node[m]
    BY <1>2, <1>4, <1>8, <2>1, <2>2 DEF Node
  <2>4. (Ranked(K, r) /\ Ordered(K, r))'
    <3>1. CASE p = head
      BY <1>4, <1>8, <1>11, <2>1, <3>1, Shortened DEF TimersInv
    <3>2. CASE p # head
      BY <1>4, <1>8, <1>11, <2>1, <2>2, <2>3, <3>2, Shortened DEF TimersInv
    <3> QED BY <3>1, <3>2
  <2>5. \A u \in Threads : at[u].pc \in Adding =>
            at[u].new \in Nodes \ L /\ node'[at[u].new] = node[at[u].new]
    <3>1. \A u \in Threads : at[u].pc \in Adding => at[u].new \in Nodes \ L
      BY <1>11 DEF Sound, Own, TimersInv, Base, AtOK, Proper, Calls, Links
    <3>2. ASSUME NEW u \in Threads, at[u].pc \in Adding PROVE node'[at[u].new] = node[at[u].new]
      <4>1. CASE p = head
        BY <1>4, <4>1
      <4>2. CASE p # head
        BY <1>8, <2>2, <3>1, <3>2, <4>2
      <4> QED BY <4>1, <4>2
    <3> QED BY <3>1, <3>2
  <2>6. Own(K)'
    BY <1>1, <1>2, <1>6, <1>7, <1>8, <1>11, <2>1, <2>5 DEF Sound, Own, Handling, Others, SameMarks
  <2>7. Walkers(K)'
    <3>1. ASSUME NEW u \in Threads, at[u].pc \in Walking PROVE at[u].p # p
      BY <1>2, <1>5, <1>11, <3>1 DEF Threads, Walking
    <3>2. tick'.pc # "visit"
      BY <1>6, <1>7
    <3> QED BY <1>2, <1>11, <3>1, <3>2 DEF Sound, Walkers, Others
  <2>9. Removals(K, r)'
    BY <1>2, <1>8, <1>11, <2>1, StaysRemoved1 DEF Sound, SameMarks
  <2> QED BY <2>4, <2>6, <2>7, <2>9 DEF Sound
<1>12. raced' \/ \E L, r : Sound(L, r)'
  BY <1>5, <1>11 DEF TimersInv
<1> QED BY <1>10, <1>12 DEF TimersInv

(* The handler has returned. *)
LEMMA Return1Inv == ASSUME TimersInv, Return1 PROVE TimersInv'
<1>1. /\ tick.pc = "call" /\ at[Timer].pc = "idle" /\ tick' = [tick EXCEPT !.pc = "free"] /\ tick \in Ticks
      /\ UNCHANGED <<node, head, sem, raced>> /\ Others
  BY DEF Return1, TimersInv, Base, TickOK
<1>2. tick' \in Ticks /\ tick'.pc = "free" /\ tick'.p = tick.p /\ tick'.next = tick.next /\ Handling
  BY <1>1 DEF Ticks, Handling
<1>3. Base'
  BY <1>1, <1>2, Stays DEF TimersInv, Base, TickOK, HeapOK, CountsOK, Within, Handling, Others
<1>4. ASSUME NEW L, NEW r, Sound(L, r) PROVE Sound(L, r)'
  <2>1. Ranked(L, r)' /\ Ordered(L, r)'
    BY <1>1, <1>4 DEF Sound, Ranked, Ordered
  <2>2. Own(L)'
    BY <1>1, <1>2, <1>4 DEF Sound, Own, Handling, Others
  <2>3. Walkers(L)'
    BY <1>1, <1>2, <1>4 DEF Sound, Walkers, Others
  <2>5. Removals(L, r)'
    BY <1>1, <1>4, StaysRemoved1 DEF Sound
  <2> QED BY <2>1, <2>2, <2>3, <2>5 DEF Sound
<1> QED BY <1>1, <1>3, <1>4 DEF TimersInv

(* The node that was handled is freed, and the walk goes on at the head or ends. *)
LEMMA FreeInv == ASSUME TimersInv, Free PROVE TimersInv'
<1>1. PICK p \in Nodes : p = tick.p
  BY DEF TimersInv, Base, TickOK, Free, Ticks, Links, Handling
<1> DEFINE x == [node[p] EXCEPT !.used = FALSE]
           n == IF tick.inner THEN NULL ELSE head
<1>2. /\ tick.pc = "free" /\ tick \in Ticks /\ node[p] \in Node /\ head \in Links /\ tick.next = -1 /\ Handling
      /\ node' = [node EXCEPT ![p] = x] /\ tick' = [tick EXCEPT !.pc = "visit", !.p = n]
      /\ UNCHANGED <<head, sem, raced>> /\ Others
  BY <1>1 DEF TimersInv, Base, TickOK, HeapOK, Free, Handling
<1>3. n \in Links /\ n \in {NULL, head}
  BY <1>2 DEF Links
<1> HIDE DEF n
<1>4. x \in Node /\ x.used = FALSE
  BY <1>2 DEF Node
<1> HIDE DEF x
<1>5. tick' \in Ticks /\ tick'.pc = "visit" /\ tick'.p = n /\ tick'.next = -1
  BY <1>2, <1>3 DEF Ticks
<1>6. node' \in [Nodes -> Node] /\ node'[p].used = FALSE /\ \A m \in Nodes \ {p} : node'[m] = node[m]
  BY <1>1, <1>2, <1>4 DEF TimersInv, Base, HeapOK
<1>7. Base'
  BY <1>2, <1>5, <1>6, Stays DEF TimersInv, Base, TickOK, HeapOK, CountsOK, Within, Handling, Others
<1>8. ASSUME NEW L, NEW r, Sound(L, r) PROVE Sound(L, r)'
  <2>1. p \notin L /\ L \subseteq Nodes /\ \A m \in L : node'[m] = node[m]
    BY <1>1, <1>2, <1>6, <1>8 DEF Sound, Own, Ranked
  <2>2. Ranked(L, r)' /\ Ordered(L, r)'
    BY <1>2, <1>8, <2>1 DEF Sound, Ranked, Ordered
  <2>3. \A u \in Threads : at[u].pc \in Adding => at[u].new \in Nodes \ {p}
    BY <1>1, <1>2, <1>8 DEF Sound, Own, TimersInv, Base, AtOK, Proper, Calls, Links
  <2>4. ~Handling'
    BY <1>5 DEF Handling
  <2>5. Own(L)'
    BY <1>1, <1>2, <1>6, <1>8, <2>1, <2>3, <2>4 DEF Sound, Own, Others
  <2>6. Walkers(L)'
    <3>1. n # NULL => n = head /\ n \in L
      BY <1>3, <1>8, Constants DEF Sound, Ordered
    <3> QED BY <1>2, <1>5, <1>8, <3>1 DEF Sound, Walkers, Others
  <2>8. Removals(L, r)'
    BY <1>2, <1>8, <2>1, StaysRemoved1 DEF Sound
  <2> QED BY <2>2, <2>5, <2>6, <2>8 DEF Sound
<1> QED BY <1>2, <1>7, <1>8 DEF TimersInv

(* The timer thread sleeps until what is next, or for a millisecond. *)
LEMMA SleepInv == ASSUME TimersInv, Sleep PROVE TimersInv'
<1> DEFINE w == IF tick.next > 0 THEN tick.next ELSE 1
<1>1. /\ tick.pc = "visit" /\ tick.p = NULL /\ tick' = [tick EXCEPT !.pc = "sleep", !.wake = w] /\ tick \in Ticks
      /\ UNCHANGED <<node, head, sem, raced>> /\ Others
  BY DEF Sleep, TimersInv, Base, TickOK
<1>2. w \in 0..Never /\ tick.next \in -1..Never /\ w = (IF tick.next > 0 THEN tick.next ELSE 1)
  BY <1>1, Constants DEF Ticks
<1> HIDE DEF w
<1>3. tick' \in Ticks /\ tick'.pc = "sleep" /\ tick'.wake = w /\ tick'.p = NULL
  BY <1>1, <1>2 DEF Ticks
<1>4. Base'
  BY <1>1, <1>3, Stays DEF TimersInv, Base, TickOK, HeapOK, CountsOK, Within, Handling, Others
<1>5. ASSUME NEW L, NEW r, Sound(L, r) PROVE Sound(L, r)'
  <2>1. Ranked(L, r)' /\ Ordered(L, r)'
    BY <1>1, <1>5 DEF Sound, Ranked, Ordered
  <2>2. Own(L)'
    BY <1>1, <1>3, <1>5 DEF Sound, Own, Handling, Others
  <2>3. Walkers(L)'
    BY <1>1, <1>3, <1>5 DEF Sound, Walkers, Others
  <2>5. Removals(L, r)'
    BY <1>1, <1>5, StaysRemoved1 DEF Sound
  <2> QED BY <2>1, <2>2, <2>3, <2>5 DEF Sound
<1> QED BY <1>1, <1>4, <1>5 DEF TimersInv

(* A millisecond passes: what is due, and what the thread waits for, come
   nearer alike.                                                           *)
LEMMA Pass1msInv == ASSUME TimersInv, Pass1ms PROVE TimersInv'
<1> DEFINE x == IF tick.pc = "sleep" THEN tick.next ELSE Sooner(tick.next)
           w == IF tick.wake = 0 \/ tick.pc # "sleep" THEN tick.wake ELSE Sooner(tick.wake)
<1>1. /\ node' = [n \in Nodes |-> [node[n] EXCEPT !.left = Sooner(@)]] /\ tick' = [tick EXCEPT !.next = x, !.wake = w]
      /\ UNCHANGED <<head, sem, raced>> /\ Others /\ tick \in Ticks
  BY DEF Pass1ms, TimersInv, Base, TickOK
<1>2. x \in -1..Never /\ w \in 0..Never /\ tick.next \in -1..Never /\ tick.wake \in 0..Never
      /\ (tick.next = -1 => x = -1)
  BY <1>1, Constants DEF Ticks, Sooner
<1> HIDE DEF x, w
<1>4. tick' \in Ticks /\ tick'.pc = tick.pc /\ tick'.wake = w /\ tick'.p = tick.p /\ tick'.q = tick.q /\ tick'.next = x
  BY <1>1, <1>2 DEF Ticks
<1>5. ASSUME NEW n \in Nodes
      PROVE  /\ node[n].left \in -1..MaxDelay /\ node'[n] \in Node
             /\ node'[n].left = IF node[n].left = -1 THEN -1 ELSE node[n].left - 1
             /\ node'[n].next = node[n].next /\ node'[n].used = node[n].used /\ node'[n].h = node[n].h
             /\ node'[n].valid = node[n].valid /\ node'[n].soon = node[n].soon
  <2> DEFINE l == Sooner(node[n].left)
  <2>1. node[n] \in Node /\ node[n].left \in -1..MaxDelay
    BY DEF TimersInv, Base, HeapOK, Node
  <2>2. l \in -1..MaxDelay /\ l = IF node[n].left = -1 THEN -1 ELSE node[n].left - 1
    BY <2>1, Constants DEF Sooner
  <2>3. node'[n] = [node[n] EXCEPT !.left = l]
    BY <1>1
  <2> HIDE DEF l
  <2> QED BY <2>1, <2>2, <2>3 DEF Node
<1>6. node' \in [Nodes -> Node] /\ SameLinks
  <2>1. node' = [n \in Nodes |-> node'[n]]
    BY <1>1
  <2> QED BY <1>5, <2>1 DEF SameLinks
<1>7. Base'
  BY <1>1, <1>2, <1>4, <1>6, Stays DEF TimersInv, Base, TickOK, HeapOK, CountsOK, Within, Handling, Others
<1>8. ASSUME NEW L, NEW r, Sound(L, r) PROVE Sound(L, r)'
  <2>1. L \subseteq Nodes
    BY <1>8 DEF Sound, Ranked
  <2>2. Ranked(L, r)' /\ Ordered(L, r)'
    BY <1>1, <1>6, <1>8, <2>1 DEF Sound, Ranked, Ordered, SameLinks
  <2>3. Own(L)'
    <3>1. \A u \in Threads : at[u].pc \in Adding => at[u].new \in Nodes
      BY DEF TimersInv, Base, AtOK, Proper, Calls, Links
    <3>2. Handling => tick.p \in Nodes
      BY DEF TimersInv, Base, TickOK, Ticks, Links
    <3>3. Handling' = Handling /\ tick'.p = tick.p /\ at' = at
      BY <1>1, <1>4 DEF Handling, Others
    <3>4. \A n \in Nodes : node'[n].used = node[n].used /\ node'[n].next = node[n].next /\ node'[n].h = node[n].h
      BY <1>5
    <3>5. ASSUME NEW u \in Threads, at[u].pc \in Adding
          PROVE  /\ at[u].new \notin L /\ node'[at[u].new].used /\ node'[at[u].new].next = NULL
                 /\ node'[at[u].new].h = at[u].h
                 /\ \A w1 \in Threads : at[w1].pc \in Adding /\ at[w1].new = at[u].new => w1 = u
                 /\ Handling => at[u].new # tick.p
      BY <1>8, <3>1, <3>4, <3>5 DEF Sound, Own
    <3>6. Handling => tick.p \notin L /\ node'[tick.p].used
      BY <1>8, <3>2, <3>4 DEF Sound, Own
    <3>7. \A n \in L : node'[n].used
      BY <1>8, <2>1, <3>4 DEF Sound, Own
    <3>8. \A n \in Nodes : node'[n].used => \/ n \in L \/ (Handling /\ tick.p = n)
                                            \/ \E u \in Threads : at[u].pc \in Adding /\ at[u].new = n
      BY <1>8, <3>4 DEF Sound, Own
    <3> QED BY <3>3, <3>5, <3>6, <3>7, <3>8 DEF Own
  <2>4. Walkers(L)'
    BY <1>1, <1>4, <1>6, <1>8, <2>1 DEF Sound, Walkers, Others, SameLinks
  <2>6. Removals(L, r)'
    BY <1>1, <1>5, <1>8, <2>1, StaysRemoved1 DEF Sound
  <2> QED BY <2>2, <2>3, <2>4, <2>6 DEF Sound
<1> QED BY <1>1, <1>7, <1>8 DEF TimersInv


(* Nothing is given out at first, and the list is empty. *)
LEMMA TimersInit == ASSUME Init PROVE TimersInv
<1> DEFINE r == [n \in Nodes |-> 0]
<1>1. /\ \A n \in Nodes : node[n] = NotUsed /\ ~node[n].used
      /\ \A t \in Threads : at[t] = Idle
      /\ head = NULL /\ sem = 0 /\ tick.pc = "sleep" /\ gone = {} /\ raced = FALSE
  BY Idles DEF Init
<1>2. Base
  <2>1. AtOK
    BY Idles DEF Init, AtOK
  <2>2. TickOK
    <3>1. Never \in 0..Never /\ Never \in -1..Never
      BY Constants
    <3> QED BY <3>1 DEF Init, TickOK, Ticks, Handling, Links
  <2>3. HeapOK
    BY Idles DEF Init, HeapOK, Links
  <2>4. Within
    BY <1>1, Idles, Constants DEF Within
  <2>5. CountsOK
    <3>1. calls = 0 /\ mixed = {}
      BY DEF Init
    <3>2. calls \in 0..MaxCalls
      BY <3>1, Constants
    <3>3. raced \in BOOLEAN
      BY <1>1
    <3> QED BY <1>1, <3>1, <3>2, <3>3 DEF CountsOK
  <2> QED BY <2>1, <2>2, <2>3, <2>4, <2>5 DEF Base
<1>3. Sound({}, r)
  <2> DEFINE s == r
  <2>1. r \in [Nodes -> Nat]
    OBVIOUS
  <2> HIDE DEF r
  <2>2. Ranked({}, r) /\ Ordered({}, r)
    BY <1>1, <2>1 DEF Ranked, Ordered
  <2>3. Own({})
    BY <1>1, Idles DEF Own, Adding, Handling
  <2>4. Walkers({})
    BY <1>1, Idles DEF Walkers, Walking
  <2>6. Removals({}, r)
    BY <1>1, Idles DEF Removals
  <2> QED BY <2>2, <2>3, <2>4, <2>6 DEF Sound
<1> QED BY <1>2, <1>3 DEF TimersInv

(* A step that changes nothing. *)
LEMMA TimersStutter == ASSUME TimersInv, UNCHANGED vars PROVE TimersInv'
<1>1. UNCHANGED <<node, head, sem, tick, at, gone, mixed, raced>>
  BY DEF vars
<1>2. ASSUME NEW L, NEW r, Sound(L, r) PROVE Sound(L, r)'
  <2>1. Ranked(L, r)' /\ Ordered(L, r)'
    BY <1>1, <1>2 DEF Sound, Ranked, Ordered
  <2>2. Own(L)' /\ Walkers(L)'
    BY <1>1, <1>2 DEF Sound, Own, Walkers, Handling
  <2>4. Removals(L, r)'
    BY <1>1, <1>2 DEF Sound, Removals, Using
  <2> QED BY <2>1, <2>2, <2>4 DEF Sound
<1>3. Base'
  BY DEF vars, TimersInv, Base, AtOK, TickOK, HeapOK, Within, CountsOK, Handling
<1> QED BY <1>1, <1>2, <1>3 DEF TimersInv

(* Every step keeps the invariant. *)
LEMMA TimersNext == ASSUME TimersInv, [Next]_vars PROVE TimersInv'
<1>1. CASE Pass1ms
  BY <1>1, Pass1msInv
<1>2. CASE Thread
  BY <1>2, WakeInv, PassInv, UnlinkInv, Return1Inv, FreeInv, SleepInv DEF Thread
<1>3. ASSUME NEW t \in Threads, Call(t) PROVE TimersInv'
  <2>1. \/ SetTimer(t) \/ SetTimer_uniq(t) \/ UnSetTimer(t) \/ Link(t) \/ Walk(t) \/ First(t)
        \/ Append(t) \/ Release(t) \/ Renew(t) \/ Seek(t) \/ Absent(t) \/ Remove(t) \/ Removed(t)
    BY <1>3 DEF Call
  <2> QED BY <2>1, SetTimerInv, SetTimer_uniqInv, UnSetTimerInv, LinkInv, WalkInv, FirstInv, AppendInv,
             ReleaseInv, RenewInv, SeekInv, AbsentInv, RemoveInv, RemovedInv
<1>4. CASE UNCHANGED vars
  BY <1>4, TimersStutter
<1> QED BY <1>1, <1>2, <1>3, <1>4 DEF Next

(* So it holds of every reachable state.                                   *)
LEMMA TimersInductive == Spec => []TimersInv
<1>1. Init => TimersInv
  BY TimersInit
<1>2. TimersInv /\ [Next]_vars => TimersInv'
  BY TimersNext
<1> QED BY <1>1, <1>2, PTL DEF Spec

(* The semaphore is binary, no time is out of range, and whoever is at a   *)
(* node, or handles one, is at one: mxos_rtos_common.c SetTimer,           *)
(* UnSetTimer and mxchip_timer_tick, whatever they are interleaved with.   *)
THEOREM TimersTypeCorrect == Spec => []TypeOK
<1>1. TimersInv => TypeOK
  <2> SUFFICES ASSUME Base PROVE TypeOK
    BY DEF TimersInv
  <2>1. tick \in Ticks /\ (tick.pc \in {"call", "free"} => tick.p # NULL)
    BY DEF Base, TickOK, Handling
  <2>2. at \in [Threads -> Calls] /\ \A t \in Threads : at[t].pc \in {"walk", "append"} => at[t].p # NULL
    BY DEF Base, AtOK, Proper
  <2> QED BY <2>1, <2>2 DEF Base, HeapOK, CountsOK, TypeOK, Ticks, Calls
<1> QED BY <1>1, TimersInductive, PTL

(* Induction over the naturals, for sets.                                  *)
LEMMA SetInduction ==
  ASSUME NEW S, 0 \in S, \A n \in Nat : n \in S => n + 1 \in S
  PROVE  Nat \subseteq S
<1> DEFINE T == Nat \ S
           R == {p \in Nat \X Nat : p[1] < p[2]}
<1> SUFFICES ASSUME T # {} PROVE FALSE
  OBVIOUS
<1>1. IsWellFoundedOn(R, Nat)
  BY NatLessThanWellFounded DEF OpToRel
<1>2. T \subseteq Nat
  OBVIOUS
<1>3. PICK x \in T : \A y \in T : <<y, x>> \notin R
  <2> HIDE DEF R, T
  <2> QED BY <1>1, <1>2, WFMin
<1>4. x \in Nat /\ x # 0 /\ x - 1 \in Nat /\ x = (x - 1) + 1
  OBVIOUS
<1>5. x - 1 \in T /\ <<x - 1, x>> \in R
  BY <1>4
<1> QED BY <1>3, <1>5

(* The list, from its head on, as Listed goes through it. *)
After(n) == IF n = NULL THEN NULL ELSE node[n].next
Follows(f, k) == f = [i \in 0..k |-> IF i = 0 THEN head ELSE IF f[i - 1] = NULL THEN NULL ELSE node[f[i - 1]].next]

(* There is such a walk of every length. *)
LEMMA Followed == \A k \in Nat : \E f : Follows(f, k)
<1> DEFINE S == {k \in Nat : \E f : Follows(f, k)}
<1>1. 0 \in S
  <2> DEFINE f == [i \in 0..0 |-> head]
  <2>1. Follows(f, 0)
    BY DEF Follows
  <2> QED BY <2>1
<1>2. ASSUME NEW k \in Nat, k \in S PROVE k + 1 \in S
  <2>1. PICK f : Follows(f, k)
    BY <1>2
  <2> DEFINE g == [i \in 0..k + 1 |-> IF i <= k THEN f[i] ELSE After(f[k])]
  <2>2. \A i \in 0..k : f[i] = IF i = 0 THEN head ELSE After(f[i - 1])
    BY <2>1 DEF Follows, After
  <2>3. \A i \in 0..k + 1 : g[i] = IF i = 0 THEN head ELSE After(g[i - 1])
    <3> SUFFICES ASSUME NEW i \in 0..k + 1 PROVE g[i] = IF i = 0 THEN head ELSE After(g[i - 1])
      OBVIOUS
    <3>1. CASE i = 0
      BY <2>2, <3>1
    <3>2. CASE i \in 1..k
      BY <2>2, <3>2
    <3>3. CASE i = k + 1
      BY <3>3
    <3> QED BY <3>1, <3>2, <3>3
  <2>4. g = [i \in 0..k + 1 |-> g[i]]
    OBVIOUS
  <2> HIDE DEF g
  <2>5. Follows(g, k + 1)
    BY <2>3, <2>4 DEF Follows, After
  <2> QED BY <2>5
<1> HIDE DEF S
<1>3. Nat \subseteq S
  BY <1>1, <1>2, SetInduction
<1> QED BY <1>3 DEF S

LEMMA ListedBy == \E f : Follows(f, Cardinality(Nodes)) /\ Listed = {f[i] : i \in DOMAIN f} \ {NULL}
<1> DEFINE n[i \in 0..Cardinality(Nodes)] ==
             IF i = 0 THEN head ELSE IF n[i - 1] = NULL THEN NULL ELSE node[n[i - 1]].next
<1>1. n = CHOOSE f : Follows(f, Cardinality(Nodes))
  BY DEF Follows
<1>2. Listed = {n[i] : i \in DOMAIN n} \ {NULL}
  BY DEF Listed
<1>3. Cardinality(Nodes) \in Nat
  BY TimerAssumption, FS_CardinalityType DEF TimerAssumption
<1> HIDE DEF n
<1>4. Follows(n, Cardinality(Nodes))
  BY <1>1, <1>3, Followed
<1> QED BY <1>2, <1>4

(* What is linked from the head on is the whole of the list: the walk of   *)
(* as many steps as there are nodes comes to its end.                      *)
LEMMA ListedAll ==
  ASSUME Base, NEW L, NEW r, Ranked(L, r), Ordered(L, r)
  PROVE  Listed = L
<1> DEFINE N == Cardinality(Nodes)
           Below(x) == {m \in L : r[m] <= r[x]}
<1>1. N \in Nat /\ IsFiniteSet(Nodes)
  BY TimerAssumption, FS_CardinalityType DEF TimerAssumption
<1>2. L \subseteq Nodes /\ NULL \notin L /\ \A m \in L : r[m] \in Nat
  BY Constants DEF Ranked
<1> HIDE DEF N
<1>3. PICK f : Follows(f, N) /\ Listed = {f[i] : i \in DOMAIN f} \ {NULL}
  BY ListedBy DEF N
<1>4. /\ DOMAIN f = 0..N /\ f[0] = head
      /\ \A i \in 0..N : i # 0 => f[i] = After(f[i - 1])
  BY <1>1, <1>3 DEF Follows, After
<1> DEFINE Got(i) == {f[j] : j \in 0..i}
           At(i) == \/ f[i] = NULL /\ L \subseteq Got(i)
                    \/ /\ f[i] \in L /\ Below(f[i]) \subseteq Got(i)
                       /\ i < Cardinality(Below(f[i]))
           S == {i \in Nat : i <= N => At(i)}
<1>5. \A x \in L : IsFiniteSet(Below(x)) /\ Cardinality(Below(x)) \in Nat /\ Cardinality(Below(x)) <= N
  <2> SUFFICES ASSUME NEW x \in L
               PROVE  IsFiniteSet(Below(x)) /\ Cardinality(Below(x)) \in Nat /\ Cardinality(Below(x)) <= N
    OBVIOUS
  <2>1. Below(x) \in SUBSET Nodes
    BY <1>2
  <2> HIDE DEF Below
  <2> QED BY <1>1, <2>1, FS_Subset, FS_CardinalityType DEF N
<1>6. 0 \in S
  <2>1. CASE L = {}
    BY <1>4, <2>1 DEF Ordered
  <2>2. CASE L # {}
    <3>1. head \in L /\ Below(head) = {head}
      BY <1>2, <2>2 DEF Ordered
    <3>2. Cardinality({head}) = 1
      BY FS_Singleton
    <3>3. f[0] = head /\ head \in Got(0)
      BY <1>4
    <3> HIDE DEF Below, Got
    <3>4. At(0)
      BY <3>1, <3>2, <3>3
    <3> QED BY <3>4
  <2> QED BY <2>1, <2>2
<1>7. ASSUME NEW i \in Nat, i \in S PROVE i + 1 \in S
  <2> SUFFICES ASSUME i + 1 <= N PROVE At(i + 1)
    OBVIOUS
  <2>1. At(i) /\ f[i + 1] = After(f[i]) /\ Got(i) \subseteq Got(i + 1) /\ f[i + 1] \in Got(i + 1)
    <3>1. i <= N /\ i + 1 \in 0..N /\ i + 1 # 0 /\ (i + 1) - 1 = i
      BY <1>1
    <3> QED BY <1>4, <1>7, <3>1
  <2>2. CASE f[i] = NULL /\ L \subseteq Got(i)
    BY <2>1, <2>2 DEF After
  <2>3. CASE f[i] \in L /\ Below(f[i]) \subseteq Got(i) /\ i < Cardinality(Below(f[i]))
    <3> DEFINE k == f[i]
               x == node[k].next
    <3>1. f[i + 1] = x
      BY <1>2, <2>1, <2>3 DEF After
    <3>2. CASE x = NULL
      <4>1. L \subseteq Below(k)
        BY <1>2, <2>3, <3>2 DEF Ordered
      <4> QED BY <2>1, <2>3, <3>1, <3>2, <4>1
    <3>3. CASE x # NULL
      <4>1. x \in L /\ r[k] < r[x] /\ \A m \in L : r[m] <= r[k] \/ r[x] <= r[m]
        BY <1>2, <2>3, <3>3 DEF Ordered
      <4>2. Below(x) = Below(k) \cup {x} /\ x \notin Below(k)
        BY <1>2, <2>3, <4>1 DEF Ordered
      <4>3. Cardinality(Below(x)) = Cardinality(Below(k)) + 1
        <5>1. IsFiniteSet(Below(k)) /\ Cardinality(Below(k)) \in Nat
          BY <1>5, <2>3
        <5> HIDE DEF Below, x, k
        <5>2. Cardinality(Below(k) \cup {x}) = Cardinality(Below(k)) + 1
          BY <4>2, <5>1, FS_AddElement
        <5> QED BY <4>2, <5>2
      <4>4. i + 1 < Cardinality(Below(x))
        <5>1. Cardinality(Below(k)) \in Nat /\ i < Cardinality(Below(k))
          BY <1>5, <2>3
        <5> HIDE DEF Below, x, k
        <5> QED BY <4>3, <5>1
      <4>5. Below(x) \subseteq Got(i + 1)
        BY <2>1, <2>3, <3>1, <4>2
      <4> QED BY <3>1, <4>1, <4>4, <4>5
    <3> QED BY <3>2, <3>3
  <2> QED BY <2>1, <2>2, <2>3
<1>8. \A i \in 0..N : At(i)
  <2> HIDE DEF At
  <2>1. Nat \subseteq S
    <3> HIDE DEF S
    <3> QED BY <1>6, <1>7, SetInduction
  <2> QED BY <2>1
<1>9. L \subseteq Got(N)
  <2>1. At(N)
    BY <1>1, <1>8
  <2> QED BY <1>1, <1>5, <2>1
<1>10. Got(N) \subseteq L \cup {NULL}
  BY <1>8
<1> QED BY <1>2, <1>3, <1>4, <1>9, <1>10

(* No timer is lost or freed early: SetTimer, SetTimer_uniq, UnSetTimer    *)
(* and mxchip_timer_tick, from any number of threads; unless two threads   *)
(* were at the same link of the list.                                      *)
THEOREM NothingLost == Spec => []NoneLost
<1>1. TimersInv => NoneLost
  <2> SUFFICES ASSUME Base, NEW L, NEW r, Sound(L, r)
               PROVE  {n \in Nodes : node[n].used} = Listed \cup (Held \ {NULL})
    BY DEF TimersInv, NoneLost
  <2>1. Listed = L /\ L \subseteq Nodes
    BY ListedAll DEF Sound, Ranked
  <2>2. /\ \A t \in Threads : at[t].pc \in Adding => at[t].new \in Nodes /\ node[at[t].new].used
        /\ \A t \in Threads : at[t].pc # "release" /\ at[t].new # NULL => at[t].pc \in Adding
    BY DEF Base, AtOK, Proper, Calls, Links, Sound, Own
  <2>3. Handling => tick.p \in Nodes /\ node[tick.p].used
    BY DEF Base, TickOK, Ticks, Links, Sound, Own
  <2>4. Held \ {NULL} = {at[t].new : t \in {u \in Threads : at[u].pc \in Adding}}
                          \cup (IF Handling THEN {tick.p} ELSE {})
    <3>1. ASSUME NEW n, n \in Held, n # NULL
          PROVE  \/ \E t \in Threads : at[t].pc \in Adding /\ at[t].new = n
                 \/ Handling /\ n = tick.p
      BY <2>2, <3>1 DEF Held, Handling
    <3>2. ASSUME NEW t \in Threads, at[t].pc \in Adding PROVE at[t].new \in Held \ {NULL}
      BY <2>2, <3>2, Constants DEF Held, Adding
    <3>3. Handling => tick.p \in Held \ {NULL}
      BY <2>3, Constants DEF Held, Handling
    <3> QED BY <3>1, <3>2, <3>3
  <2>5. ASSUME NEW n \in Nodes, node[n].used PROVE n \in L \cup (Held \ {NULL})
    BY <2>4, <2>5 DEF Sound, Own
  <2>6. ASSUME NEW n \in L \cup (Held \ {NULL}) PROVE n \in Nodes /\ node[n].used
    BY <2>1, <2>2, <2>3, <2>4 DEF Sound, Own
  <2> QED BY <2>1, <2>5, <2>6
<1> QED BY <1>1, TimersInductive, PTL

(* "Remove all timers which handler is psysTimerHandler": the handler that *)
(* UnSetTimer has removed is not called by mxchip_timer_tick any more,     *)
(* until it is set again; unless two threads were at the same link.        *)
THEOREM RemovedForGood == Spec => StaysRemoved
<1>1. TimersInv /\ [Next]_vars => [\A h \in gone : Starts(h) => raced']_vars
  <2> SUFFICES ASSUME TimersInv, Next, NEW h \in gone, Starts(h), ~raced' PROVE FALSE
    BY DEF vars
  <2>1. tick.pc # "call" /\ tick'.pc = "call" /\ node[tick.p].h = h
    BY DEF Starts
  <2>2. tick \in Ticks
    BY DEF TimersInv, Base, TickOK
  <2>3. ASSUME NEW t \in Threads, Call(t) PROVE tick' = tick
    BY <2>3 DEF Call, SetTimer, SetTimer_uniq, UnSetTimer, Link, Walk, First, Append, Release, Renew, Seek,
                Absent, Remove, Removed, Keep, Same
  <2>4. ~Pass1ms
    BY <2>1, <2>2 DEF Pass1ms, Ticks
  <2>5. ~Wake /\ ~Return1 /\ ~Free /\ ~Sleep
    BY <2>1, <2>2 DEF Wake, Return1, Free, Sleep, Ticks
  <2>6. ~Pass
    BY <2>1, <2>2 DEF Pass, Ticks
  <2>7. Unlink
    BY <2>1, <2>3, <2>4, <2>5, <2>6 DEF Next, Thread
  <2>8. node[tick.p].valid /\ ~raced /\ tick.p # NULL /\ tick.pc = "visit"
    BY <2>1, <2>2, <2>7 DEF Unlink, Ticks
  <2>9. PICK L, r : Sound(L, r)
    BY <2>8 DEF TimersInv
  <2>10. tick.p \in L
    BY <2>8, <2>9 DEF Sound, Walkers
  <2> QED BY <2>1, <2>8, <2>9, <2>10 DEF Sound, Removals
<1> QED BY <1>1, TimersInductive, PTL DEF Spec, StaysRemoved
-----------------------------------------------------------------------------
(* Behind a race the list need not hold all the nodes, and nodes that are  *)
(* not in it may be linked. But no node is linked twice, or when it is     *)
(* free, and the nodes that the timer thread has not come past are not     *)
(* linked from those it has.                                               *)

\* What malloc has given out, but for the node that is being handled.
Out == {n \in Nodes : node[n].used /\ ~(Handling /\ tick.p = n)}

\* No node that is out is linked from two others; the first of the list, and
\* those that are to be linked, from none.
Chains ==
    /\ head \in Out \cup {NULL}
    /\ \A n \in Out : node[n].next # NULL => node[n].next \in Out /\ node[n].next # head
    /\ \A m, n \in Out : node[m].next = node[n].next => m = n \/ node[n].next = NULL
    /\ \A t \in Threads : at[t].pc \in Adding =>
          /\ at[t].new \in Out /\ at[t].new # head /\ \A n \in Out : node[n].next # at[t].new
          /\ \A u \in Threads : at[u].pc \in Adding /\ at[u].new = at[t].new => u = t
          /\ tick.pc = "visit" => tick.p # at[t].new
    /\ tick.pc = "visit" /\ tick.p # NULL => tick.p \in Out /\ \A n \in Out : node[n].next = tick.p => n = tick.q
    /\ Handling => tick.p \in Nodes /\ node[tick.p].used

\* The nodes of S, and p, are all that can be come to from the head and from S.
Watched(S, p) ==
    /\ S \subseteq Out /\ head \in S \cup {p} /\ \A n \in S : node[n].next \in S \cup {p}
    /\ \A t \in Threads : at[t].pc \in Adding => at[t].new \notin S

Late(n) == IF node[n].left < 0 THEN 1 ELSE node[n].left + 1
\* If nobody is to wake the timer thread, what it has come past is not due
\* before the time it will wake at, or it has unlinked a node.
Watch ==
    \/ sem = 1 \/ Pending
    \/ /\ tick.pc = "sleep" => \/ tick.wake <= 1
                               \/ \E S : Watched(S, NULL) /\ \A n \in S :
                                     node[n].soon \/ (tick.wake # Never /\ tick.wake <= Late(n))
       /\ tick.pc # "sleep" => \/ tick.next = -1
                               \/ \E S : Watched(S, tick.p) /\ \A n \in S :
                                     node[n].soon \/ tick.next <= node[n].left

\* No link changes, and no node is given out or freed.
Steady == /\ \A n \in Nodes : node'[n].next = node[n].next /\ node'[n].used = node[n].used
          /\ head' = head /\ Out' = Out
          /\ \A u \in Threads : at'[u].pc \in Adding => at[u].pc \in Adding /\ at'[u].new = at[u].new
\* Nor does a time come nearer, unless it is marked so.
Later == \A n \in Nodes : node'[n].soon \/ (~node[n].soon /\ node'[n].left >= node[n].left)

(* Nothing is linked, given out or freed, and no thread begins to add. *)
LEMMA ChainsSteady ==
  ASSUME Chains, Steady,
         tick'.pc = "visit" => tick.pc = "visit" /\ tick'.p = tick.p /\ tick'.q = tick.q,
         Handling' => Handling /\ tick'.p = tick.p
  PROVE  Chains'
<1>1. Out \subseteq Nodes
  BY DEF Out
<1>2. /\ head' = head /\ Out' = Out /\ \A n \in Out : node'[n].next = node[n].next
  BY <1>1 DEF Steady
<1>3. head' \in Out' \cup {NULL}
  BY <1>2 DEF Chains
<1>4. \A n \in Out' : node'[n].next # NULL => node'[n].next \in Out' /\ node'[n].next # head'
  BY <1>2 DEF Chains
<1>5. \A m, n \in Out' : node'[m].next = node'[n].next => m = n \/ node'[n].next = NULL
  BY <1>2 DEF Chains
<1>6. ASSUME NEW t \in Threads, at'[t].pc \in Adding
      PROVE  /\ at'[t].new \in Out' /\ at'[t].new # head' /\ \A n \in Out' : node'[n].next # at'[t].new
             /\ \A u \in Threads : at'[u].pc \in Adding /\ at'[u].new = at'[t].new => u = t
             /\ tick'.pc = "visit" => tick'.p # at'[t].new
  <2>1. at[t].pc \in Adding /\ at'[t].new = at[t].new
    BY <1>6 DEF Steady
  <2>2. ASSUME NEW u \in Threads, at'[u].pc \in Adding, at'[u].new = at'[t].new PROVE u = t
    BY <2>1, <2>2 DEF Steady, Chains
  <2>3. /\ at[t].new \in Out /\ at[t].new # head /\ \A n \in Out : node[n].next # at[t].new
        /\ tick.pc = "visit" => tick.p # at[t].new
    BY <2>1 DEF Chains
  <2> QED BY <1>2, <2>1, <2>2, <2>3
<1>7. tick'.pc = "visit" /\ tick'.p # NULL =>
         tick'.p \in Out' /\ \A n \in Out' : node'[n].next = tick'.p => n = tick'.q
  BY <1>2 DEF Chains
<1>8. Handling' => tick'.p \in Nodes /\ node'[tick'.p].used
  BY DEF Steady, Chains
<1> QED BY <1>3, <1>4, <1>5, <1>6, <1>7, <1>8 DEF Chains

(* What is linked from where stays so. *)
LEMMA WatchedSteady == ASSUME Steady, NEW S, NEW p, Watched(S, p) PROVE Watched(S, p)'
<1>1. S \subseteq Nodes
  BY DEF Watched, Out
<1> QED BY <1>1 DEF Watched, Steady

(* A thread moves, and does not come back from a link.                     *)
LEMMA WatchSteady ==
  ASSUME Base, Base', Watch, Steady, Later, NEW t \in Threads, Moved(t), UNCHANGED <<sem, tick>>, at[t].pc # "release"
  PROVE  Watch'
<1>1. CASE sem = 1 \/ Pending
  <2>1. Pending => Pending'
    BY DEF Pending, Moved
  <2> QED BY <1>1, <2>1 DEF Watch
<1>2. CASE ~(sem = 1 \/ Pending)
  <2>1. ASSUME NEW n \in Nodes
        PROVE  /\ node[n].left \in -1..MaxDelay /\ node'[n].left \in -1..MaxDelay
               /\ node'[n].soon \/ (~node[n].soon /\ node'[n].left >= node[n].left)
    BY DEF Base, HeapOK, Node, Later
  <2>2. tick.next \in -1..Never /\ tick.wake \in 0..Never /\ Never \in Nat
    BY Constants DEF Base, TickOK, Ticks
  <2>3. ASSUME NEW S, Watched(S, NULL),
               \A n \in S : node[n].soon \/ (tick.wake # Never /\ tick.wake <= Late(n))
        PROVE  Watched(S, NULL)' /\ \A n \in S : node'[n].soon \/ (tick.wake # Never /\ tick.wake <= (Late(n))')
    <3>1. S \subseteq Nodes
      BY <2>3 DEF Watched, Out
    <3> QED BY <2>1, <2>2, <2>3, <3>1, WatchedSteady, Constants DEF Late
  <2>4. ASSUME NEW S, Watched(S, tick.p), \A n \in S : node[n].soon \/ tick.next <= node[n].left
        PROVE  (Watched(S, tick.p))' /\ \A n \in S : node'[n].soon \/ tick.next <= node'[n].left
    <3>1. S \subseteq Nodes
      BY <2>4 DEF Watched, Out
    <3>2. tick'.p = tick.p
      OBVIOUS
    <3>3. Watched(S, tick.p)'
      BY <2>4, <3>2, WatchedSteady DEF Watched
    <3>4. \A n \in S : node'[n].soon \/ tick.next <= node'[n].left
      BY <2>1, <2>2, <2>4, <3>1, Constants
    <3> QED BY <3>3, <3>4
  <2>5. tick.pc = "sleep" => \/ tick.wake <= 1
                             \/ \E S : Watched(S, NULL)' /\ \A n \in S :
                                   node'[n].soon \/ (tick.wake # Never /\ tick.wake <= (Late(n))')
    BY <1>2, <2>3 DEF Watch
  <2>6. tick.pc # "sleep" => \/ tick.next = -1
                             \/ \E S : (Watched(S, tick.p))' /\ \A n \in S :
                                   node'[n].soon \/ tick.next <= node'[n].left
    BY <1>2, <2>4 DEF Watch
  <2> QED BY <2>5, <2>6 DEF Watch
<1> QED BY <1>1, <1>2

(* Whoever changes nothing that is linked: SetTimer and SetTimer_uniq on    *)
(* their way, UnSetTimer, and the release.                                 *)
LEMMA QuietChains ==
  ASSUME Base, Base', Chains, Watch, NEW t \in Threads,
         \/ SetTimer_uniq(t) \/ UnSetTimer(t) \/ Link(t) \/ Walk(t) \/ Seek(t) \/ Remove(t) \/ Removed(t)
         \/ Renew(t) \/ Release(t) \/ (at[t].pc = "uniq" /\ Return(t) /\ UNCHANGED <<node, head, sem, tick>>)
  PROVE  Chains' /\ Watch'
<1>1. node \in [Nodes -> Node] /\ at \in [Threads -> Calls]
  BY DEF Base, HeapOK, AtOK
<1>2. UNCHANGED <<head, tick>> /\ Moved(t)
  BY <1>1 DEF SetTimer_uniq, UnSetTimer, Link, Walk, Seek, Remove, Removed, Renew, Release, Goto, Return, Keep, Same, Moved
<1>3. at'[t].pc \in Adding => at[t].pc \in Adding /\ at'[t].new = at[t].new
  <2>1. CASE Link(t) \/ Walk(t)
    BY <1>1, <2>1 DEF Link, Walk, Goto, Adding, Calls
  <2>2. CASE Seek(t) \/ Remove(t)
    BY <1>1, <2>2 DEF Seek, Remove, Goto, Adding, Calls
  <2>3. ASSUME Goto(t, Idle) PROVE at'[t].pc \notin Adding
    BY <1>1, <2>3, Idles DEF Goto, Adding
  <2>4. CASE Removed(t) \/ Renew(t) \/ Release(t) \/ Return(t)
    BY <2>3, <2>4 DEF Removed, Renew, Release, Return
  <2>5. CASE SetTimer_uniq(t)
    BY <1>1, <2>5 DEF SetTimer_uniq, Goto, Adding, Idle
  <2>6. CASE UnSetTimer(t)
    BY <1>1, <2>6 DEF UnSetTimer, Goto, Adding, Idle
  <2> QED BY <2>1, <2>2, <2>4, <2>5, <2>6
<1>4. /\ \A n \in Nodes : node'[n].next = node[n].next /\ node'[n].used = node[n].used
      /\ Later
  <2>1. \A n \in Nodes : node[n].left \in Int /\ node[n].soon \in BOOLEAN
    BY <1>1 DEF Node
  <2>2. CASE Renew(t)
    <3> DEFINE p == at[t].p
               s == node[p].soon \/ at[t].ms < node[p].left
               x == [node[p] EXCEPT !.left = at[t].ms, !.valid = TRUE, !.soon = s]
    <3>1. p \in Nodes /\ at[t].ms \in Int /\ node' = [node EXCEPT ![p] = x] /\ s \in BOOLEAN
      BY <1>1, <2>2 DEF Renew, Calls, Links
    <3> HIDE DEF s
    <3>2. x.next = node[p].next /\ x.used = node[p].used /\ x.left = at[t].ms /\ x.soon = s
      BY <1>1, <3>1 DEF Node
    <3> HIDE DEF x
    <3>3. s \/ (~node[p].soon /\ at[t].ms >= node[p].left)
      BY <2>1, <3>1 DEF s
    <3> HIDE DEF p
    <3>4. \A n \in Nodes : node'[n] = IF n = p THEN x ELSE node[n]
      BY <1>1, <3>1
    <3>5. \A n \in Nodes : node'[n].soon \/ (~node[n].soon /\ node'[n].left >= node[n].left)
      BY <2>1, <3>1, <3>2, <3>3, <3>4 DEF p
    <3> QED BY <3>2, <3>4, <3>5 DEF Later
  <2>3. CASE Remove(t)
    <3> DEFINE v == node[at[t].p].valid /\ node[at[t].p].h # at[t].h
    <3>1. at[t].p \in Nodes /\ node' = [node EXCEPT ![at[t].p].valid = v]
      BY <1>1, <2>3 DEF Remove, Calls, Links
    <3> HIDE DEF v
    <3>2. \A n \in Nodes : /\ node'[n].next = node[n].next /\ node'[n].used = node[n].used
                           /\ node'[n].left = node[n].left /\ node'[n].soon = node[n].soon
      BY <1>1, <3>1 DEF Node
    <3> QED BY <2>1, <3>2 DEF Later
  <2>4. CASE node' = node
    BY <2>1, <2>4 DEF Later
  <2> QED BY <2>2, <2>3, <2>4 DEF SetTimer_uniq, UnSetTimer, Link, Walk, Seek, Removed, Release
<1>5. Steady
  <2>1. Out' = Out
    BY <1>2, <1>4 DEF Out, Handling
  <2> QED BY <1>2, <1>3, <1>4, <2>1 DEF Steady, Moved
<1>6. Chains'
  BY <1>2, <1>5, ChainsSteady DEF Handling
<1>7. CASE Release(t)
  BY <1>6, <1>7 DEF Release, Watch
<1>8. CASE ~Release(t)
  <2>1. at[t].pc # "release" /\ sem' = sem
    BY <1>8 DEF SetTimer_uniq, UnSetTimer, Link, Walk, Seek, Remove, Removed, Renew, Called, Ready, Keep
  <2> QED BY <1>2, <1>4, <1>5, <1>6, <2>1, WatchSteady
<1> QED BY <1>7, <1>8

(* malloc gives out a node that is linked from none.                       *)
LEMMA AllocChains ==
  ASSUME Base, Base', Chains, Watch, NEW t \in Threads, NEW h, NEW d, Alloc(t, h, d),
         at[t].pc \in {"idle", "uniq"}, UNCHANGED <<head, sem, tick>>
  PROVE  Chains' /\ Watch'
<1>1. PICK n \in Nodes : /\ ~node[n].used /\ node' = [node EXCEPT ![n] = Fresh(h, d)]
                         /\ Goto(t, [Idle EXCEPT !.pc = "link", !.new = n, !.h = h])
  BY DEF Alloc
<1>2. node \in [Nodes -> Node] /\ at \in [Threads -> Calls] /\ NULL \notin Nodes
  BY Constants DEF Base, HeapOK, AtOK
<1>3. /\ node'[n].used /\ node'[n].next = NULL
      /\ \A m \in Nodes \ {n} : node'[m] = node[m]
  BY <1>1, <1>2 DEF Fresh
<1>4. at'[t].pc = "link" /\ at'[t].new = n /\ \A u \in Threads \ {t} : at'[u] = at[u]
  BY <1>1, <1>2 DEF Goto, Idle
<1>5. n \notin Out /\ Out' = Out \cup {n} /\ Out \subseteq Nodes
  <2>1. n \notin Out /\ Out \subseteq Nodes
    BY <1>1 DEF Out
  <2>2. Handling => tick.p # n
    BY <1>1 DEF Chains
  <2> QED BY <1>3, <2>1, <2>2 DEF Out, Handling
<1>6. \A m \in Out : node'[m] = node[m] /\ node[m].next # n
  BY <1>2, <1>3, <1>5 DEF Chains
<1>7. Chains'
  <2>1. head' \in Out' \cup {NULL} /\ head' # n
    BY <1>2, <1>5 DEF Chains
  <2>2. \A m \in Out' : node'[m].next # NULL => node'[m].next \in Out' /\ node'[m].next # head'
    BY <1>3, <1>5, <1>6 DEF Chains
  <2>3. \A k, m \in Out' : node'[k].next = node'[m].next => k = m \/ node'[m].next = NULL
    BY <1>3, <1>5, <1>6 DEF Chains
  <2>4. ASSUME NEW u \in Threads, at'[u].pc \in Adding
        PROVE  /\ at'[u].new \in Out' /\ at'[u].new # head' /\ \A m \in Out' : node'[m].next # at'[u].new
               /\ \A w \in Threads : at'[w].pc \in Adding /\ at'[w].new = at'[u].new => w = u
               /\ tick'.pc = "visit" => tick'.p # at'[u].new
    <3>1. \A w \in Threads \ {t} : at'[w].pc \in Adding => at[w].new \in Out /\ at'[w].new = at[w].new
      BY <1>4 DEF Chains
    <3>2. CASE u = t
      <4>1. \A w \in Threads : at'[w].pc \in Adding /\ at'[w].new = at'[u].new => w = u
        BY <1>4, <1>5, <3>1, <3>2
      <4>2. \A m \in Out' : node'[m].next # n
        BY <1>2, <1>3, <1>5, <1>6
      <4>3. tick'.pc = "visit" => tick'.p # n
        <5>1. tick.pc = "visit" /\ tick.p # NULL => tick.p \in Out
          BY DEF Chains
        <5> QED BY <1>2, <1>5, <5>1
      <4> QED BY <1>4, <1>5, <2>1, <3>2, <4>1, <4>2, <4>3
    <3>3. CASE u # t
      <4>1. at'[u] = at[u] /\ at[u].pc \in Adding
        BY <1>4, <2>4, <3>3
      <4>2. /\ at[u].new \in Out /\ at[u].new # head /\ \A m \in Out : node[m].next # at[u].new
            /\ tick.pc = "visit" => tick.p # at[u].new
        BY <4>1 DEF Chains
      <4>3. \A w \in Threads : at'[w].pc \in Adding /\ at'[w].new = at'[u].new => w = u
        BY <1>4, <1>5, <4>1, <4>2 DEF Chains
      <4>4. \A m \in Out' : node'[m].next # at[u].new
        BY <1>2, <1>3, <1>5, <1>6, <4>2
      <4> QED BY <1>5, <4>1, <4>2, <4>3, <4>4
    <3> QED BY <3>2, <3>3
  <2>5. tick'.pc = "visit" /\ tick'.p # NULL =>
           tick'.p \in Out' /\ \A m \in Out' : node'[m].next = tick'.p => m = tick'.q
    BY <1>3, <1>5, <1>6 DEF Chains
  <2>6. Handling' => tick'.p \in Nodes /\ node'[tick'.p].used
    BY <1>3 DEF Chains, Handling
  <2> QED BY <2>1, <2>2, <2>3, <2>4, <2>5, <2>6 DEF Chains
<1>8. ASSUME NEW S, NEW p, Watched(S, p) PROVE Watched(S, p)' /\ \A m \in S : node'[m] = node[m]
  <2>1. S \subseteq Out /\ n \notin S
    BY <1>5, <1>8 DEF Watched
  <2>2. \A m \in S : node'[m] = node[m]
    BY <1>6, <2>1
  <2>3. \A u \in Threads : at'[u].pc \in Adding => at'[u].new \notin S
    BY <1>4, <1>8, <2>1 DEF Watched
  <2> QED BY <1>5, <1>8, <2>1, <2>2, <2>3 DEF Watched
<1>9. Watch'
  <2>1. CASE sem = 1 \/ Pending
    <3>1. Pending => Pending'
      BY <1>4 DEF Pending
    <3> QED BY <2>1, <3>1 DEF Watch
  <2>2. CASE ~(sem = 1 \/ Pending)
    <3>1. ASSUME NEW S, Watched(S, NULL),
                 \A m \in S : node[m].soon \/ (tick.wake # Never /\ tick.wake <= Late(m))
          PROVE  Watched(S, NULL)' /\ \A m \in S : node'[m].soon \/ (tick.wake # Never /\ tick.wake <= (Late(m))')
      BY <1>8, <3>1 DEF Late
    <3>2. ASSUME NEW S, Watched(S, tick.p), \A m \in S : node[m].soon \/ tick.next <= node[m].left
          PROVE  (Watched(S, tick.p))' /\ \A m \in S : node'[m].soon \/ tick.next <= node'[m].left
      <4>1. Watched(S, tick.p)' /\ \A m \in S : node'[m] = node[m]
        BY <1>8, <3>2
      <4> QED BY <3>2, <4>1 DEF Watched
    <3>3. tick.pc = "sleep" => \/ tick.wake <= 1
                               \/ \E S : Watched(S, NULL)' /\ \A m \in S :
                                     node'[m].soon \/ (tick.wake # Never /\ tick.wake <= (Late(m))')
      BY <2>2, <3>1 DEF Watch
    <3>4. tick.pc # "sleep" => \/ tick.next = -1
                               \/ \E S : (Watched(S, tick.p))' /\ \A m \in S :
                                     node'[m].soon \/ tick.next <= node'[m].left
      BY <2>2, <3>2 DEF Watch
    <3> QED BY <3>3, <3>4 DEF Watch
  <2> QED BY <2>1, <2>2
<1> QED BY <1>7, <1>9

(* A node is linked: it is linked from nowhere else, and what was linked    *)
(* there before is lost. Whoever has done it is to release.                *)
LEMMA LinkedChains ==
  ASSUME Base, Base', Chains, Watch, NEW t \in Threads, First(t) \/ Append(t)
  PROVE  Chains' /\ Watch'
<1> DEFINE n == at[t].new
<1>1. node \in [Nodes -> Node] /\ at \in [Threads -> Calls] /\ NULL \notin Nodes
  BY Constants DEF Base, HeapOK, AtOK
<1>2. /\ at'[t].pc = "release" /\ at[t].pc \in Adding /\ \A u \in Threads \ {t} : at'[u] = at[u]
      /\ UNCHANGED tick
  BY <1>1 DEF First, Append, Goto, Adding, Calls, Keep, Same
<1>3. /\ n \in Out /\ n # head /\ \A m \in Out : node[m].next # n
      /\ tick.pc = "visit" => tick.p # n
      /\ \A u \in Threads : at[u].pc \in Adding /\ at[u].new = n => u = t
  BY <1>2 DEF Chains
<1>4. Out \subseteq Nodes /\ n \in Nodes /\ n # NULL
  BY <1>1, <1>3 DEF Out
<1> HIDE DEF n
<1>5. \/ head' = n /\ node' = node
      \/ head' = head /\ \E p \in Nodes : node' = [node EXCEPT ![p].next = n]
  <2>1. CASE First(t)
    BY <2>1 DEF First, n
  <2>2. CASE Append(t)
    <3>1. at[t].p \in Nodes
      BY <1>1, <2>2 DEF Base, AtOK, Proper, Calls, Links, Append
    <3> QED BY <2>2, <3>1 DEF Append, n
  <2> QED BY <2>1, <2>2
<1>6. /\ \A m \in Nodes : node'[m].used = node[m].used /\ (node'[m].next = node[m].next \/ (node'[m].next = n /\ head' = head))
      /\ \A k, m \in Nodes : node'[k].next = n /\ node'[m].next = n /\ node[k].next # n /\ node[m].next # n => k = m
  BY <1>1, <1>5 DEF Node
<1>7. Out' = Out
  BY <1>2, <1>6 DEF Out, Handling
<1>8. Chains'
  <2>1. head' \in Out \cup {NULL}
    BY <1>3, <1>5 DEF Chains
  <2>2. \A m \in Out : node'[m].next # NULL => node'[m].next \in Out /\ node'[m].next # head'
    BY <1>3, <1>4, <1>5, <1>6 DEF Chains
  <2>3. \A k, m \in Out : node'[k].next = node'[m].next => k = m \/ node'[m].next = NULL
    BY <1>3, <1>4, <1>6 DEF Chains
  <2>4. ASSUME NEW u \in Threads, at'[u].pc \in Adding
        PROVE  /\ at'[u].new \in Out /\ at'[u].new # head' /\ \A m \in Out : node'[m].next # at'[u].new
               /\ \A w \in Threads : at'[w].pc \in Adding /\ at'[w].new = at'[u].new => w = u
               /\ tick.pc = "visit" => tick.p # at'[u].new
    <3>1. u # t /\ at'[u] = at[u] /\ at[u].pc \in Adding
      BY <1>2, <2>4 DEF Adding
    <3>2. /\ at[u].new \in Out /\ at[u].new # head /\ \A m \in Out : node[m].next # at[u].new
          /\ tick.pc = "visit" => tick.p # at[u].new
      BY <3>1 DEF Chains
    <3>3. at[u].new # n
      BY <1>3, <3>1
    <3>4. \A w \in Threads : at'[w].pc \in Adding /\ at'[w].new = at[u].new => w = u
      BY <1>2, <3>1 DEF Chains, Adding
    <3>5. at[u].new # head' /\ \A m \in Out : node'[m].next # at[u].new
      BY <1>4, <1>5, <1>6, <3>2, <3>3
    <3> QED BY <3>1, <3>2, <3>4, <3>5
  <2>5. tick.pc = "visit" /\ tick.p # NULL =>
           tick.p \in Out /\ \A m \in Out : node'[m].next = tick.p => m = tick.q
    BY <1>3, <1>4, <1>6 DEF Chains
  <2>6. Handling => tick.p \in Nodes /\ node'[tick.p].used
    BY <1>6 DEF Chains
  <2> QED BY <1>2, <1>7, <2>1, <2>2, <2>3, <2>4, <2>5, <2>6 DEF Chains, Handling
<1>9. Pending'
  BY <1>2 DEF Pending
<1> QED BY <1>8, <1>9 DEF Watch

(* The timer thread sets out from the head, of which it has seen nothing.  *)
LEMMA WakeChains == ASSUME Base, Base', Chains, Watch, Wake PROVE Chains' /\ Watch'
<1>1. /\ tick.pc = "sleep" /\ UNCHANGED <<node, head, at>> /\ tick \in Ticks
      /\ tick' = [tick EXCEPT !.pc = "visit", !.p = head, !.q = head, !.next = Never]
  BY DEF Wake, Others, Base, TickOK
<1>2. tick'.pc = "visit" /\ tick'.p = head
  BY <1>1 DEF Ticks
<1>3. Out' = Out /\ ~Handling'
  BY <1>1, <1>2 DEF Out, Handling
<1>4. Chains'
  BY <1>1, <1>2, <1>3 DEF Chains
<1>5. (Watched({}, tick.p))'
  BY <1>1, <1>2 DEF Watched
<1> QED BY <1>2, <1>4, <1>5 DEF Watch

(* It passes a node, which it has then seen. *)
LEMMA PassChains == ASSUME Base, Base', Chains, Watch, Pass PROVE Chains' /\ Watch'
<1>0. PICK p, n, l, x : /\ p = tick.p /\ n = node[p].next /\ l = Least(tick.next, node[p].left)
                        /\ x = [node[p] EXCEPT !.soon = FALSE]
  OBVIOUS
<1>1. /\ tick.pc = "visit" /\ p # NULL /\ node[p].left >= 0 /\ UNCHANGED <<head, sem, at>>
      /\ tick \in Ticks /\ tick' = [tick EXCEPT !.q = p, !.p = n, !.next = l]
      /\ node' = [node EXCEPT ![p] = x] /\ node \in [Nodes -> Node] /\ NULL \notin Nodes
  BY <1>0, Constants DEF Pass, Others, Base, TickOK, HeapOK
<1>2. p \in Out /\ p \in Nodes /\ Out \subseteq Nodes
  BY <1>0, <1>1 DEF Chains, Out
<1>3. /\ tick'.pc = "visit" /\ tick'.p = n /\ tick'.q = p /\ tick'.next = l
  BY <1>0, <1>1 DEF Ticks
<1>4. /\ \A m \in Nodes : /\ node'[m].next = node[m].next /\ node'[m].used = node[m].used
                          /\ node'[m].left = node[m].left /\ node[m].left \in Int
      /\ \A m \in Nodes \ {p} : node'[m] = node[m]
  BY <1>0, <1>1, <1>2 DEF Node
<1>5. tick.next \in Int /\ l \in Int /\ l <= tick.next /\ l <= node[p].left /\ (tick.next = -1 => l = -1)
  BY <1>0, <1>1, <1>2, <1>4 DEF Ticks, Least
<1>6. Out' = Out /\ ~Handling'
  BY <1>1, <1>3, <1>4 DEF Out, Handling
<1>7. Chains'
  <2>1. n # NULL => n \in Out /\ \A m \in Out : node[m].next = n => m = p
    BY <1>0, <1>2 DEF Chains
  <2>2. \A t \in Threads : at[t].pc \in Adding => n # at[t].new
    BY <1>0, <1>2 DEF Chains
  <2> QED BY <1>0, <1>1, <1>2, <1>3, <1>4, <1>6, <2>1, <2>2 DEF Chains
<1>8. Watch'
  <2>1. CASE sem = 1 \/ Pending
    BY <1>1, <2>1 DEF Watch, Pending
  <2>2. CASE tick.next = -1
    BY <1>3, <1>5, <2>2 DEF Watch
  <2>3. CASE ~(sem = 1 \/ Pending) /\ tick.next # -1
    <3>1. PICK S : Watched(S, p) /\ \A m \in S : node[m].soon \/ tick.next <= node[m].left
      BY <1>0, <1>1, <2>3 DEF Watch
    <3> DEFINE T == S \cup {p}
    <3>2. S \subseteq Nodes /\ T \subseteq Out
      BY <1>2, <3>1 DEF Watched
    <3>3. Watched(T, n)'
      BY <1>0, <1>1, <1>2, <1>4, <1>6, <3>1, <3>2 DEF Watched, Chains
    <3>4. (Watched(T, tick.p))'
      BY <1>3, <3>3 DEF Watched
    <3>5. \A m \in T : node'[m].soon \/ tick'.next <= node'[m].left
      BY <1>2, <1>3, <1>4, <1>5, <3>1, <3>2
    <3> HIDE DEF T
    <3> QED BY <1>3, <3>4, <3>5 DEF Watch
  <2> QED BY <2>1, <2>2, <2>3
<1> QED BY <1>7, <1>8

(* It unlinks a node, from the one that links it if there is one. *)
LEMMA UnlinkChains == ASSUME Base, Base', Chains, Watch, Unlink PROVE Chains' /\ Watch'
<1> DEFINE p == tick.p
           n == node[p].next
<1>1. /\ tick.pc = "visit" /\ p # NULL /\ UNCHANGED at /\ node \in [Nodes -> Node] /\ NULL \notin Nodes
      /\ IF p = head THEN head' = n /\ node' = node
         ELSE node' = [node EXCEPT ![tick.q].next = n] /\ head' = head
  BY Constants DEF Unlink, Others, Base, HeapOK
<1>2. tick'.pc \in {"call", "free"} /\ tick'.p = p /\ tick'.next = -1
  BY DEF Unlink, Base, TickOK, Ticks
<1>3. p \in Out /\ Out \subseteq Nodes /\ ~Handling /\ Handling' /\ (n # NULL => n \in Out /\ n # head)
  BY <1>1, <1>2 DEF Chains, Out, Handling
<1>4. /\ \A m \in Nodes : node'[m].used = node[m].used
      /\ \A m \in Nodes : node'[m].next = node[m].next \/ (m = tick.q /\ p # head /\ node'[m].next = n)
      /\ p # head /\ tick.q \in Nodes => node'[tick.q].next = n
  BY <1>1 DEF Node
<1>5. Out' = Out \ {p}
  BY <1>2, <1>3, <1>4 DEF Out, Handling
<1>6. \A m \in Out : node[m].next = p => m = tick.q /\ p # head
  BY <1>1, <1>3 DEF Chains
<1>7. /\ n # NULL => \A m \in Out : node[m].next = n => m = p
      /\ \A t \in Threads : at[t].pc \in Adding => n # at[t].new /\ p # at[t].new
  BY <1>1, <1>3 DEF Chains
<1>8. head' \in Out' \cup {NULL}
  <2>1. CASE p = head
    <3>1. n # p
      BY <1>1, <1>3, <2>1
    <3> QED BY <1>1, <1>3, <1>5, <2>1, <3>1
  <2>2. CASE p # head
    BY <1>1, <1>5, <2>2 DEF Chains
  <2> QED BY <2>1, <2>2
<1>9. \A m \in Out' : node'[m].next # NULL => node'[m].next \in Out' /\ node'[m].next # head'
  <2> SUFFICES ASSUME NEW m \in Out', node'[m].next # NULL
               PROVE  node'[m].next \in Out' /\ node'[m].next # head'
    OBVIOUS
  <2>1. m \in Out /\ m # p /\ m \in Nodes
    BY <1>3, <1>5
  <2>2. CASE p = head
    <3>1. node'[m].next = node[m].next /\ node[m].next # NULL
      BY <1>1, <2>2
    <3>2. node[m].next \in Out /\ node[m].next # p /\ node[m].next # n
      BY <1>6, <1>7, <2>1, <2>2, <3>1 DEF Chains
    <3> QED BY <1>1, <1>5, <2>2, <3>1, <3>2
  <2>3. CASE p # head /\ m = tick.q
    <3>1. node'[m].next = n /\ n # NULL /\ head' = head
      BY <1>1, <1>4, <2>1, <2>3
    <3>2. n # p
      BY <1>6, <1>7, <1>3, <2>1, <2>3
    <3> QED BY <1>3, <1>5, <3>1, <3>2
  <2>4. CASE p # head /\ m # tick.q
    <3>1. node'[m].next = node[m].next /\ head' = head
      BY <1>1, <1>4, <2>1, <2>4
    <3>2. node[m].next \in Out /\ node[m].next # head /\ node[m].next # p
      BY <1>6, <2>1, <2>4, <3>1 DEF Chains
    <3> QED BY <1>5, <3>1, <3>2
  <2> QED BY <2>2, <2>3, <2>4
<1>10. \A k, m \in Out' : node'[k].next = node'[m].next => k = m \/ node'[m].next = NULL
  <2> SUFFICES ASSUME NEW k \in Out', NEW m \in Out', node'[k].next = node'[m].next, node'[m].next # NULL
               PROVE  k = m
    OBVIOUS
  <2>1. k \in Out /\ m \in Out /\ k # p /\ m # p /\ k \in Nodes /\ m \in Nodes
    BY <1>3, <1>5
  <2>2. CASE node'[k].next = node[k].next /\ node'[m].next = node[m].next
    BY <2>1, <2>2 DEF Chains
  <2>3. CASE k = tick.q /\ m = tick.q
    BY <2>3
  <2>4. CASE node'[k].next = n /\ node'[m].next = node[m].next
    BY <1>7, <2>1, <2>4
  <2>5. CASE node'[m].next = n /\ node'[k].next = node[k].next
    BY <1>7, <2>1, <2>5
  <2> QED BY <1>4, <2>1, <2>2, <2>3, <2>4, <2>5
<1>11. ASSUME NEW u \in Threads, at'[u].pc \in Adding
       PROVE  /\ at'[u].new \in Out' /\ at'[u].new # head' /\ \A m \in Out' : node'[m].next # at'[u].new
              /\ \A w \in Threads : at'[w].pc \in Adding /\ at'[w].new = at'[u].new => w = u
              /\ tick'.pc # "visit"
  <2>1. at' = at /\ at[u].pc \in Adding
    BY <1>1, <1>11
  <2>2. /\ at[u].new \in Out /\ at[u].new # head /\ \A m \in Out : node[m].next # at[u].new
        /\ \A w \in Threads : at[w].pc \in Adding /\ at[w].new = at[u].new => w = u
    BY <2>1 DEF Chains
  <2>3. at[u].new # n /\ at[u].new # p
    BY <1>7, <2>1
  <2>4. \A m \in Out' : node'[m].next # at[u].new
    BY <1>3, <1>4, <1>5, <2>2, <2>3
  <2>5. at[u].new # head'
    BY <1>1, <2>2, <2>3
  <2> QED BY <1>2, <1>5, <2>1, <2>2, <2>3, <2>4, <2>5
<1>12. Handling' => tick'.p \in Nodes /\ node'[tick'.p].used
  BY <1>2, <1>3, <1>4 DEF Out
<1>13. Chains'
  BY <1>2, <1>8, <1>9, <1>10, <1>11, <1>12 DEF Chains
<1> QED BY <1>2, <1>13 DEF Watch

(* The handler returns, and the node is freed, which nothing links.        *)
LEMMA Return1Chains == ASSUME Base, Base', Chains, Watch, Return1 PROVE Chains' /\ Watch'
<1>1. /\ tick.pc = "call" /\ tick'.pc = "free" /\ tick'.p = tick.p /\ UNCHANGED <<node, head, at>>
  BY DEF Return1, Others, Base, TickOK, Ticks
<1>2. Out' = Out /\ Handling /\ Handling'
  BY <1>1 DEF Out, Handling
<1>3. Steady
  BY <1>1, <1>2 DEF Steady
<1>4. tick'.next = -1
  BY <1>2 DEF Base, TickOK
<1> QED BY <1>1, <1>2, <1>3, <1>4, ChainsSteady DEF Watch

LEMMA FreeChains == ASSUME Base, Base', Chains, Watch, Free PROVE Chains' /\ Watch'
<1>1. PICK p \in Nodes : p = tick.p
  BY DEF Chains, Free, Handling
<1>2. /\ tick.pc = "free" /\ tick.next = -1 /\ tick \in Ticks /\ node \in [Nodes -> Node]
      /\ UNCHANGED <<head, at>> /\ node' = [node EXCEPT ![p].used = FALSE]
      /\ tick' = [tick EXCEPT !.pc = "visit", !.p = IF tick.inner THEN NULL ELSE head]
  BY <1>1 DEF Free, Others, Base, TickOK, HeapOK, Handling
<1>3. tick'.pc = "visit" /\ tick'.p \in {NULL, head} /\ tick'.next = -1 /\ Handling /\ ~Handling'
  BY <1>2 DEF Ticks, Handling
<1>4. /\ \A m \in Nodes : node'[m].next = node[m].next
      /\ \A m \in Nodes \ {p} : node'[m].used = node[m].used
      /\ ~node'[p].used
  BY <1>2 DEF Node
<1>5. Out' = Out
  BY <1>1, <1>3, <1>4 DEF Out
<1>6. \A m \in Out : m \in Nodes
  BY DEF Out
<1>7. tick'.p # NULL => tick'.p \in Out /\ \A m \in Out : node[m].next # tick'.p
  BY <1>3, <1>6, Constants DEF Chains
<1>8. Chains'
  <2>1. head' \in Out' \cup {NULL}
    BY <1>2, <1>5 DEF Chains
  <2>2. \A m \in Out' : node'[m].next # NULL => node'[m].next \in Out' /\ node'[m].next # head'
    BY <1>2, <1>4, <1>5, <1>6 DEF Chains
  <2>3. \A k, m \in Out' : node'[k].next = node'[m].next => k = m \/ node'[m].next = NULL
    BY <1>4, <1>5, <1>6 DEF Chains
  <2>4. ASSUME NEW u \in Threads, at'[u].pc \in Adding
        PROVE  /\ at'[u].new \in Out' /\ at'[u].new # head' /\ \A m \in Out' : node'[m].next # at'[u].new
               /\ \A w \in Threads : at'[w].pc \in Adding /\ at'[w].new = at'[u].new => w = u
               /\ tick'.p # at'[u].new
    <3>1. at' = at /\ at[u].pc \in Adding
      BY <1>2, <2>4
    <3>2. /\ at[u].new \in Out /\ at[u].new # head /\ \A m \in Out : node[m].next # at[u].new
          /\ \A w \in Threads : at[w].pc \in Adding /\ at[w].new = at[u].new => w = u
      BY <3>1 DEF Chains
    <3>3. at[u].new # NULL
      BY <1>6, <3>2, Constants
    <3> QED BY <1>2, <1>3, <1>4, <1>5, <1>6, <3>1, <3>2, <3>3
  <2>5. tick'.p # NULL => tick'.p \in Out' /\ \A m \in Out' : node'[m].next = tick'.p => m = tick'.q
    BY <1>4, <1>5, <1>6, <1>7
  <2> QED BY <1>3, <2>1, <2>2, <2>3, <2>4, <2>5 DEF Chains
<1> QED BY <1>3, <1>8 DEF Watch

(* It sleeps no longer than until the first of what it has seen is due.    *)
LEMMA SleepChains == ASSUME Base, Base', Chains, Watch, Sleep PROVE Chains' /\ Watch'
<1> DEFINE w == IF tick.next > 0 THEN tick.next ELSE 1
<1>1. /\ tick.pc = "visit" /\ tick.p = NULL /\ tick'.pc = "sleep" /\ tick'.wake = w
      /\ UNCHANGED <<node, head, sem, at>> /\ node \in [Nodes -> Node] /\ tick.next \in -1..Never
  BY DEF Sleep, Others, Base, TickOK, HeapOK, Ticks
<1>2. Out' = Out /\ ~Handling /\ ~Handling'
  BY <1>1 DEF Out, Handling
<1>3. Chains'
  BY <1>1, <1>2, ChainsSteady DEF Steady
<1>4. CASE sem = 1 \/ Pending
  BY <1>1, <1>3, <1>4 DEF Watch, Pending
<1>5. CASE tick.next = -1
  BY <1>1, <1>3, <1>5 DEF Watch
<1>6. CASE ~(sem = 1 \/ Pending) /\ tick.next # -1
  <2>1. PICK S : Watched(S, NULL) /\ \A n \in S : node[n].soon \/ tick.next <= node[n].left
    BY <1>1, <1>6 DEF Watch
  <2>2. Watched(S, NULL)'
    BY <1>1, <1>2, <2>1 DEF Watched
  <2>3. \A n \in S : node[n].left \in -1..MaxDelay
    BY <1>1, <2>1 DEF Watched, Out, Node
  <2>4. \A n \in S : node'[n].soon \/ (tick'.wake # Never /\ tick'.wake <= (Late(n))')
    BY <1>1, <2>1, <2>3, Constants DEF Late
  <2> QED BY <1>1, <1>3, <2>2, <2>4 DEF Watch
<1> QED BY <1>4, <1>5, <1>6

(* Time passes for all alike. *)
LEMMA Pass1msChains == ASSUME Base, Base', Chains, Watch, Pass1ms PROVE Chains' /\ Watch'
<1> DEFINE x == IF tick.pc = "sleep" THEN tick.next ELSE Sooner(tick.next)
           w == IF tick.wake = 0 \/ tick.pc # "sleep" THEN tick.wake ELSE Sooner(tick.wake)
<1>1. /\ tick'.pc = tick.pc /\ tick'.wake = w /\ tick'.p = tick.p /\ tick'.q = tick.q /\ tick'.next = x
      /\ tick.next \in -1..Never /\ tick.wake \in 0..Never /\ UNCHANGED <<head, sem, at>>
      /\ node' = [n \in Nodes |-> [node[n] EXCEPT !.left = Sooner(@)]] /\ node \in [Nodes -> Node]
  BY DEF Pass1ms, Others, Base, TickOK, HeapOK, Ticks
<1>2. ASSUME NEW n \in Nodes
      PROVE  /\ node[n].left \in -1..MaxDelay
             /\ node'[n].left = IF node[n].left = -1 THEN -1 ELSE node[n].left - 1
             /\ node'[n].next = node[n].next /\ node'[n].used = node[n].used /\ node'[n].soon = node[n].soon
  <2> DEFINE l == Sooner(node[n].left)
  <2>1. node[n] \in Node /\ node[n].left \in -1..MaxDelay
    BY <1>1 DEF Node
  <2>2. l = IF node[n].left = -1 THEN -1 ELSE node[n].left - 1
    BY <2>1, Constants DEF Sooner
  <2>3. node'[n] = [node[n] EXCEPT !.left = l]
    BY <1>1
  <2> HIDE DEF l
  <2> QED BY <2>1, <2>2, <2>3 DEF Node
<1>3. /\ x = IF tick.pc = "sleep" \/ tick.next \in {-1, Never} THEN tick.next ELSE tick.next - 1
      /\ w = IF tick.pc # "sleep" \/ tick.wake \in {0, Never} THEN tick.wake ELSE tick.wake - 1
  BY <1>1, Constants DEF Sooner
<1> HIDE DEF x, w
<1>4. Out' = Out
  BY <1>1, <1>2 DEF Out, Handling
<1>5. Steady
  BY <1>1, <1>2, <1>4 DEF Steady
<1>6. Chains'
  BY <1>1, <1>5, ChainsSteady DEF Handling
<1>7. CASE sem = 1 \/ Pending
  BY <1>1, <1>6, <1>7 DEF Watch, Pending
<1>8. CASE ~(sem = 1 \/ Pending) /\ tick.pc = "sleep"
  <2>1. CASE tick.wake <= 1
    <3>1. w <= 1
      BY <1>1, <1>3, <2>1, Constants
    <3> QED BY <1>1, <1>6, <1>8, <3>1 DEF Watch
  <2>2. ASSUME NEW S, Watched(S, NULL),
               \A n \in S : node[n].soon \/ (tick.wake # Never /\ tick.wake <= Late(n))
        PROVE  Watch'
    <3>1. S \subseteq Nodes
      BY <2>2 DEF Watched, Out
    <3>2. Watched(S, NULL)'
      BY <1>5, <2>2, WatchedSteady
    <3>3. \A n \in S : node'[n].soon \/ (w # Never /\ w <= (Late(n))')
      <4> SUFFICES ASSUME NEW n \in S, ~node'[n].soon PROVE w # Never /\ w <= (Late(n))'
        OBVIOUS
      <4>1. /\ node[n].left \in -1..MaxDelay /\ ~node[n].soon
            /\ node'[n].left = IF node[n].left = -1 THEN -1 ELSE node[n].left - 1
        BY <1>2, <3>1
      <4>2. tick.wake \in 0..Never /\ tick.wake # Never /\ tick.wake <= Late(n)
        BY <1>1, <2>2, <4>1
      <4>3. w = IF tick.wake = 0 THEN 0 ELSE tick.wake - 1
        BY <1>3, <1>8, <4>2
      <4> QED BY <4>1, <4>2, <4>3, Constants DEF Late
    <3> QED BY <1>1, <1>8, <3>2, <3>3 DEF Watch
  <2> QED BY <1>6, <1>8, <2>1, <2>2 DEF Watch
<1>9. CASE ~(sem = 1 \/ Pending) /\ tick.pc # "sleep"
  <2>1. CASE tick.next = -1
    BY <1>1, <1>3, <1>6, <1>9, <2>1 DEF Watch
  <2>2. ASSUME NEW S, Watched(S, tick.p), \A n \in S : node[n].soon \/ tick.next <= node[n].left
        PROVE  Watch'
    <3>1. S \subseteq Nodes
      BY <2>2 DEF Watched, Out
    <3>2. PICK p : p = tick.p
      OBVIOUS
    <3>3. Watched(S, p)'
      BY <1>5, <2>2, <3>2, WatchedSteady
    <3>4. (Watched(S, tick.p))'
      BY <1>1, <3>2, <3>3 DEF Watched
    <3>5. \A n \in S : node'[n].soon \/ x <= node'[n].left
      <4> SUFFICES ASSUME NEW n \in S, ~node'[n].soon PROVE x <= node'[n].left
        OBVIOUS
      <4>1. /\ node[n].left \in -1..MaxDelay /\ ~node[n].soon
            /\ node'[n].left = IF node[n].left = -1 THEN -1 ELSE node[n].left - 1
        BY <1>2, <3>1
      <4>2. tick.next \in -1..Never /\ tick.next <= node[n].left
        BY <1>1, <2>2, <4>1
      <4>3. x = IF tick.next = -1 THEN -1 ELSE tick.next - 1
        BY <1>3, <1>9, <4>1, <4>2, Constants
      <4> QED BY <4>1, <4>2, <4>3, Constants
    <3> QED BY <1>1, <1>9, <3>4, <3>5 DEF Watch
  <2> QED BY <1>6, <1>9, <2>1, <2>2 DEF Watch
<1> QED BY <1>7, <1>8, <1>9

LEMMA ChainsInit == ASSUME Init PROVE Chains /\ Watch
<1>1. /\ \A n \in Nodes : ~node[n].used /\ \A t \in Threads : at[t] = Idle
      /\ head = NULL /\ tick.pc = "sleep" /\ ~Handling
  BY Idles DEF Init, Handling
<1>2. Out = {}
  BY <1>1 DEF Out
<1>3. \A t \in Threads : at[t].pc \notin Adding
  BY Idles DEF Init, Adding
<1>4. Watched({}, NULL)
  BY <1>1, <1>3 DEF Watched
<1> QED BY <1>1, <1>2, <1>3, <1>4 DEF Chains, Watch

LEMMA ChainsNext == ASSUME Base, Base', Chains, Watch, [Next]_vars PROVE Chains' /\ Watch'
<1>1. CASE Pass1ms
  BY <1>1, Pass1msChains
<1>2. CASE Thread
  BY <1>2, WakeChains, PassChains, UnlinkChains, Return1Chains, FreeChains, SleepChains DEF Thread
<1>3. ASSUME NEW t \in Threads, Call(t) PROVE Chains' /\ Watch'
  <2>1. CASE SetTimer(t)
    <3>1. at[t].pc = "idle" /\ UNCHANGED <<head, sem, tick>> /\ \E h, d : Alloc(t, h, d)
      BY <2>1 DEF SetTimer, Called, Ready
    <3> QED BY <3>1, AllocChains
  <2>2. CASE Absent(t)
    <3>1. /\ at[t].pc = "uniq" /\ UNCHANGED <<head, sem, tick>>
          /\ Alloc(t, at[t].h, at[t].ms) \/ (Return(t) /\ UNCHANGED node)
      BY <2>2 DEF Absent, Keep, Same
    <3>2. CASE Alloc(t, at[t].h, at[t].ms)
      BY <3>1, <3>2, AllocChains
    <3>3. CASE Return(t) /\ UNCHANGED node
      BY <3>1, <3>3, QuietChains
    <3> QED BY <3>1, <3>2, <3>3
  <2>3. CASE First(t) \/ Append(t)
    BY <2>3, LinkedChains
  <2>4. CASE \/ SetTimer_uniq(t) \/ UnSetTimer(t) \/ Link(t) \/ Walk(t) \/ Seek(t) \/ Remove(t) \/ Removed(t)
             \/ Renew(t) \/ Release(t)
    BY <2>4, QuietChains
  <2> QED BY <1>3, <2>1, <2>2, <2>3, <2>4 DEF Call
<1>4. CASE UNCHANGED vars
  <2>1. UNCHANGED <<node, head, sem, tick, at>>
    BY <1>4 DEF vars
  <2>2. Chains'
    BY <2>1 DEF Chains, Out, Handling
  <2>3. Watch'
    BY <2>1 DEF Watch, Pending, Watched, Late, Out, Handling
  <2> QED BY <2>2, <2>3
<1> QED BY <1>1, <1>2, <1>3, <1>4 DEF Next

(* A set that cannot be left from the head holds all of the list.          *)
LEMMA ListedWithin == ASSUME NEW S, NULL \notin S, head \in S \cup {NULL}, \A n \in S : node[n].next \in S \cup {NULL}
                      PROVE  Listed \subseteq S
<1>1. Cardinality(Nodes) \in Nat
  BY TimerAssumption, FS_CardinalityType DEF TimerAssumption
<1>2. PICK f : Follows(f, Cardinality(Nodes)) /\ Listed = {f[i] : i \in DOMAIN f} \ {NULL}
  BY ListedBy
<1> DEFINE N == Cardinality(Nodes)
           T == {i \in Nat : i <= N => f[i] \in S \cup {NULL}}
<1> HIDE DEF N
<1>3. /\ DOMAIN f = 0..N /\ f[0] = head /\ N \in Nat
      /\ \A i \in 0..N : i # 0 => f[i] = After(f[i - 1])
  BY <1>1, <1>2 DEF Follows, After, N
<1>4. 0 \in T
  BY <1>3
<1>5. ASSUME NEW i \in Nat, i \in T PROVE i + 1 \in T
  <2> SUFFICES ASSUME i + 1 <= N PROVE f[i + 1] \in S \cup {NULL}
    OBVIOUS
  <2>1. f[i] \in S \cup {NULL} /\ f[i + 1] = After(f[i])
    <3>1. i <= N /\ i + 1 \in 0..N /\ i + 1 # 0 /\ (i + 1) - 1 = i
      BY <1>3
    <3> QED BY <1>3, <1>5, <3>1
  <2> QED BY <2>1 DEF After
<1>6. Nat \subseteq T
  <2> HIDE DEF T
  <2> QED BY <1>4, <1>5, SetInduction
<1> QED BY <1>2, <1>3, <1>6

(* The timer thread never sleeps past the time of a timer in its list, but *)
(* for one that SetTimer_uniq has set to an earlier time, whatever threads *)
(* were at the same link: mxchip_timer_tick waits for the least of what is *)
(* left, whoever links a timer wakes it (SetTimer), and when it has        *)
(* unlinked one it looks again 1 ms later.                                 *)
THEOREM WakesInTime == Spec => []OnTime
<1>1. Init => Base /\ Chains /\ Watch
  BY TimersInit, ChainsInit DEF TimersInv
<1>2. TimersInv /\ TimersInv' /\ Chains /\ Watch /\ [Next]_vars => Chains' /\ Watch'
  BY ChainsNext DEF TimersInv
<1>3. Spec => [](Chains /\ Watch)
  BY <1>1, <1>2, TimersInductive, PTL DEF Spec
<1>4. TimersInv /\ Chains /\ Watch => OnTime
  <2> SUFFICES ASSUME Base, Chains, Watch, tick.pc = "sleep", sem = 0, ~Pending, NEW n \in Listed, ~node[n].soon
               PROVE  /\ tick.wake # Never
                      /\ tick.wake <= (IF node[n].left < 0 THEN 0 ELSE node[n].left) + 1
    BY DEF TimersInv, OnTime
  <2>1. node \in [Nodes -> Node] /\ tick.wake \in 0..Never
    BY DEF Base, HeapOK, TickOK, Ticks
  <2>2. Listed \subseteq Out
    <3>1. NULL \notin Out
      BY Constants DEF Out
    <3>2. head \in Out \cup {NULL} /\ \A m \in Out : node[m].next \in Out \cup {NULL}
      BY DEF Chains
    <3> QED BY <3>1, <3>2, ListedWithin
  <2>3. node[n].left \in -1..MaxDelay
    BY <2>1, <2>2 DEF Out, Node
  <2>4. CASE tick.wake <= 1
    BY <2>1, <2>3, <2>4, Constants
  <2>5. ASSUME NEW S, Watched(S, NULL), \A m \in S : node[m].soon \/ (tick.wake # Never /\ tick.wake <= Late(m))
        PROVE  tick.wake # Never /\ tick.wake <= (IF node[n].left < 0 THEN 0 ELSE node[n].left) + 1
    <3>1. NULL \notin S
      BY <2>5, Constants DEF Watched, Out
    <3>2. n \in S
      BY <2>5, <3>1, ListedWithin DEF Watched
    <3>3. Late(n) = (IF node[n].left < 0 THEN 0 ELSE node[n].left) + 1
      BY <2>3, Constants DEF Late
    <3> QED BY <2>5, <3>2, <3>3
  <2> QED BY <2>4, <2>5 DEF Watch
<1> QED BY <1>3, <1>4, TimersInductive, PTL
=============================================================================
