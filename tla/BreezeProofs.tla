---------------------------- MODULE BreezeProofs ----------------------------
(***************************************************************************)
(* Proofs about Breeze, for every length of messages and number of posts,  *)
(* writes, faults and connections. The packets of a message go out in one  *)
(* mode, TX_DONE means that they are through, and the key of the device is *)
(* agreed. There are three invariants of the record b: Good and Whole for  *)
(* these, Fits for its type. One lemma per operator of Breeze says that it *)
(* keeps them, and one step per action puts the lemmas together.           *)
(***************************************************************************)
EXTENDS Breeze, FiniteSetTheorems, SequenceTheorems, TLAPS

Fields == {"conn", "ind", "ntf", "auth", "key", "cmd", "len", "sent", "enc", "req", "cfm",
           "timers", "cb", "air", "modes", "refused", "stray", "early", "cut", "done", "retried"}
Shape(s) == Fields \subseteq DOMAIN s

\* What has gone out of the message went out as the rest will, and nothing
\* goes out without a connection.
One(s) == /\ s.refused \/ s.modes \subseteq {<<s.enc, s.key>>}
          /\ s.conn = "no" => s.modes = {} /\ s.ind = FALSE
Good(s) == Shape(s) /\ One(s)

(* Good survives the timers of transport.c and auth.c, which touch no mode. *)
LEMMA Timers ==
  ASSUME NEW s, Good(s), NEW t
  PROVE  Good(StopTimer(s, t)) /\ Good(StartTimer(s, t))
         /\ StopTimer(s, t).modes = s.modes /\ StartTimer(s, t).modes = s.modes
  BY DEF Good, Shape, Fields, One, StopTimer, StartTimer

(* reset_tx forgets the message: nothing of it has gone out. *)
LEMMA Reset ==
  ASSUME NEW s, Good(s)
  PROVE  Good(ResetTx(s)) /\ ResetTx(s).modes = {}
  BY DEF Good, Shape, Fields, One, StopTimer, ResetTx

(* Noting that the timer ended a message changes no mode. *)
LEMMA Cuts == ASSUME NEW s, Good(s) PROVE Good([s EXCEPT !.cut = TRUE])
BY DEF Good, Shape, Fields, One

(* send_fragment sends in the mode the message has. *)
LEMMA Fragment ==
  ASSUME NEW s, Good(s), NEW ok
  PROVE  Good(SendFragment(s, ok))
  BY DEF Good, Shape, Fields, One, SendFragment, StartTimer, Accepts, Usable

(* transport_tx, refused or begun: it sets the mode before it is refused. *)
LEMMA Transmits ==
  ASSUME NEW s, Good(s), NEW cmd, NEW n, NEW ok
  PROVE  Good(Tx(s, cmd, n, ok)) /\ Good(Refuse(s, cmd)) /\ Good(Begin(s, cmd, n))
<1>1. Good(Refuse(s, cmd)) /\ Good(Begin(s, cmd, n))
  BY DEF Good, Shape, Fields, One, Refuse, Begin
<1>2. Good(SendFragment(Begin(s, cmd, n), ok))
  BY <1>1, Fragment
<1> QED BY <1>1, <1>2 DEF Tx

(* auth_reset stops a timer and goes back to IDLE. *)
LEMMA AuthResets == ASSUME NEW s, Good(s) PROVE Good(AuthReset(s))
<1>1. Good([s EXCEPT !.auth = "IDLE"])
  BY DEF Good, Shape, Fields, One
<1> QED BY <1>1, Timers DEF AuthReset

(* A transmission of the authentication, or its failure. *)
LEMMA AuthTransmits ==
  ASSUME NEW s, Good(s), NEW cmd, NEW n, NEW ok
  PROVE  Good(AuthTx(s, cmd, n, ok))
  BY Transmits, AuthResets DEF AuthTx

(* The key only changes behind reset_tx, when nothing of a message is out. *)
LEMMA AuthAdvances ==
  ASSUME NEW s, Good(s), s.modes = {}, NEW ok
  PROVE  Good(AuthTxDone(s, ok))
<1>1. Good([s EXCEPT !.auth = "RAND_SENT"]) /\ Good([s EXCEPT !.key = "device"])
  BY DEF Good, Shape, Fields, One
<1> QED BY <1>1, AuthTransmits DEF AuthTxDone

(* The end of a message: the application posts again, or not, before reset_tx,
   and the authentication advances behind it. *)
LEMMA Dones ==
  ASSUME NEW s, Good(s), NEW n, NEW ok
  PROVE  Good(Done(s, n, ok))
<1> DEFINE t == [s EXCEPT !.early = @ \/ \E i \in DOMAIN s.air : s.air[i] = [how |-> "ind", own |-> TRUE],
                          !.done = @ \cup {s.cmd}]
           u == IF n = 0 THEN t ELSE Tx(t, "STATUS", n, ok)
<1>1. Good(t)
  BY DEF Good, Shape, Fields, One
<1>2. Good(u)
  BY <1>1, Transmits
<1>3. Good(ResetTx(u)) /\ ResetTx(u).modes = {}
  BY <1>2, Reset
<1>4. Good(AuthTxDone(ResetTx(u), ok))
  BY <1>3, AuthAdvances
<1> QED BY <1>4 DEF Done

(* A confirmation sends the next packet or ends the message. *)
LEMMA TxDones ==
  ASSUME NEW s, Good(s), NEW k, NEW n, NEW ok
  PROVE  Good(TxDone(s, k, n, ok))
<1>1. Good([s EXCEPT !.cfm = @ + k])
  BY DEF Good, Shape, Fields, One
<1> QED BY <1>1, Fragment, Dones, Reset DEF TxDone

(* The error notification is a message of one packet, done at once. *)
LEMMA Notifies ==
  ASSUME NEW s, Good(s), NEW ok
  PROVE  Good(Notify(s, ok))
<1> DEFINE t == Begin(s, "ERR", 0)
           u == [t EXCEPT !.req = 1, !.air = Append(@, [how |-> "ntf", own |-> TRUE])]
<1>1. Good(t) /\ Good(Refuse(s, "ERR"))
  BY Transmits
<1>2. Good(u)
  BY <1>1 DEF Good, Shape, Fields, One
<1>3. Good(TxDone(u, 1, 0, ok))
  BY <1>2, TxDones
<1> QED BY <1>1, <1>3 DEF Notify

(* Asking for a disconnection changes no mode. *)
LEMMA Disconnects == ASSUME NEW s, Good(s) PROVE Good(Disconnect(s))
  BY DEF Good, Shape, Fields, One, Disconnect

(* What auth_rx_command makes of a command of the peer. *)
LEMMA Commands ==
  ASSUME NEW s, Good(s), NEW good, NEW ok
  PROVE  Good(AuthRx(s, good, ok))
<1>1. \A a : Good([s EXCEPT !.auth = a])
  BY DEF Good, Shape, Fields, One
<1>2. PICK t : /\ Good(t)
               /\ AuthRx(s, good, ok) = IF t.auth = "DONE" THEN StopTimer(t, "auth")
                                        ELSE IF t.auth = "FAILED" THEN Disconnect(StopTimer(t, "auth"))
                                        ELSE t
  <2>1. \A cmd, m : Good(AuthTx([s EXCEPT !.auth = "REQ_RECVD"], cmd, m, ok)) /\ Good(AuthTx(s, cmd, m, ok))
    BY <1>1, AuthTransmits
  <2>2. Good(StartTimer(AuthTx([s EXCEPT !.auth = "REQ_RECVD"], "RSP", 1, ok), "auth"))
    BY <2>1, Timers
  <2> QED BY <1>1, <2>1, <2>2 DEF AuthRx
<1> QED BY <1>2, Timers, Disconnects

(* A subscription begins the authentication, which sends its random number. *)
LEMMA Enables ==
  ASSUME NEW s, Good(s), NEW ok
  PROVE  Good(Enabled(s, ok))
<1> DEFINE t == [s EXCEPT !.auth = "SVC_ENABLED",
                          !.retried = @ \/ \A i \in DOMAIN s.timers : s.timers[i] # "auth"]
<1>1. Good(t)
  BY DEF Good, Shape, Fields, One
<1>2. Good(AuthTx(t, "RAND", 1, ok))
  BY <1>1, AuthTransmits
<1> QED BY <1>2 DEF Enabled

(* The inductive invariant: that of b. *)
Uniform == Good(b)

(* Every step of the program keeps Good. *)
LEMMA UniformStep == Uniform /\ [Next]_vars => Uniform'
<1> SUFFICES ASSUME Good(b), [Next]_vars PROVE Good(b')
  BY DEF Uniform
<1>1. CASE Post
  BY <1>1, Transmits DEF Post
<1>2. CASE Connected
  <2>1. Good([b EXCEPT !.conn = "yes", !.ind = FALSE, !.ntf = FALSE, !.auth = "CONNECTED",
                       !.key = "product", !.cut = FALSE, !.done = {}, !.retried = FALSE])
    BY <1>2 DEF Connected, Good, Shape, Fields, One
  <2> QED BY <1>2, <2>1, Timers DEF Connected
<1>3. CASE Disconnected
  <2>1. Good(ResetTx(AuthReset(b))) /\ ResetTx(AuthReset(b)).modes = {}
    BY AuthResets, Reset
  <2> DEFINE s == ResetTx(AuthReset(b))
  <2>2. Good([s EXCEPT !.conn = "no", !.ind = FALSE, !.ntf = FALSE, !.air = <<>>])
    <3>1. Good(s) /\ s.modes = {}
      BY <2>1
    <3> HIDE DEF s
    <3> QED BY <3>1 DEF Good, Shape, Fields, One
  <2> QED BY <1>3, <2>2 DEF Disconnected
<1>4. CASE Subscribe
  <2>1. ASSUME NEW on PROVE Good([b EXCEPT !.ind = on]) /\ Good([b EXCEPT !.ntf = on])
    BY <1>4 DEF Subscribe, Write, Good, Shape, Fields, One
  <2> QED BY <1>4, <2>1, Enables DEF Subscribe
<1>5. CASE Completes
  <2>1. PICK i \in DOMAIN b.air, n \in {0} \cup Sizes, ok \in BOOLEAN :
          LET s == [Drop(b, i) EXCEPT !.stray = @ \/ (b.cb /\ ~b.air[i].own)]
          IN  b' = IF b.cb THEN TxDone(s, 1, n, ok) ELSE s
    BY <1>5 DEF Completes
  <2> DEFINE s == [Drop(b, i) EXCEPT !.stray = @ \/ (b.cb /\ ~b.air[i].own)]
  <2>2. Good(s)
    BY DEF Drop, Good, Shape, Fields, One
  <2>3. Good(TxDone(s, 1, n, ok))
    BY <2>2, TxDones
  <2> QED BY <2>1, <2>2, <2>3
<1>6. CASE Fails
  <2>1. ASSUME NEW i PROVE Good(Drop(b, i))
    BY DEF Drop, Good, Shape, Fields, One
  <2> QED BY <1>6, <2>1 DEF Fails
<1>7. CASE Receives
  BY <1>7, Commands DEF Receives
<1>8. CASE Garbled
  BY <1>8, Notifies DEF Garbled
<1>9. CASE Expires
  <2> DEFINE s == [b EXCEPT !.timers = Tail(@)]
  <2>1. Good(s)
    BY DEF Good, Shape, Fields, One
  <2>2. Good(Disconnect(AuthReset(s))) /\ Good(ResetTx(s))
    BY <2>1, AuthResets, Disconnects, Reset
  <2>3. Good([ResetTx(s) EXCEPT !.cut = TRUE])
    BY <2>2, Cuts
  <2> QED BY <1>9, <2>2, <2>3 DEF Expires
<1>10. CASE UNCHANGED vars
  BY <1>10 DEF vars
<1> QED BY <1>1, <1>2, <1>3, <1>4, <1>5, <1>6, <1>7, <1>8, <1>9, <1>10 DEF Next

(* For every value of the constants: whatever connects, authenticates, times
   out or fails meanwhile, the packets of a message go out in clear, or all
   under one key, unless transport_tx was called and refused (it then has set
   the mode already, transport.c:270). The proof rests on the order of
   transport_txdone, where reset_tx precedes auth_tx_done, which changes
   the key (transport.c:410).                                              *)
THEOREM MessageInOneMode == Spec => []OneMode
<1>1. Init => Uniform
  BY DEF Uniform, Init, Globals, Good, Shape, Fields, One
<1>2. Uniform => OneMode
  <2> SUFFICES ASSUME Good(b), ~b.refused PROVE Cardinality(b.modes) <= 1
    BY DEF OneMode, Uniform
  <2>1. b.modes \subseteq {<<b.enc, b.key>>}
    BY DEF Good, One
  <2>2. IsFiniteSet({<<b.enc, b.key>>}) /\ Cardinality({<<b.enc, b.key>>}) = 1
    BY FS_Singleton
  <2> QED BY <2>1, <2>2, FS_Subset
<1> QED BY <1>1, <1>2, UniformStep, PTL DEF Spec

------------------ (* Reports, TX_DONE and the authentication *) --------------
Packets == [how : {"ind", "ntf"}, own : BOOLEAN]
Typed(s) == /\ Shape(s) /\ s.air \in Seq(Packets)
            /\ s.req \in Nat /\ s.cfm \in Nat /\ s.len \in Nat /\ s.sent \in Nat

\* Unless a stray report was counted: the message in progress has at most one
\* packet in the air, which is the one asked for and not confirmed.
Linked(s) == /\ s.req \in {s.cfm, s.cfm + 1}
             /\ \A i \in DOMAIN s.air : s.air[i].own =>
                  /\ s.air[i].how = "ind" /\ s.cb /\ s.req = s.cfm + 1
                  /\ \A j \in DOMAIN s.air : s.air[j].own => j = i

\* Apart: with that, TX_DONE was never told early. Clean: and nothing of the
\* message in progress is in the air.
Apart(s) == /\ Typed(s)
            /\ s.stray \/ (~s.early /\ Linked(s))
Clean(s) == /\ Typed(s)
            /\ s.stray \/ (~s.early /\ s.req = s.cfm /\ \A i \in DOMAIN s.air : ~s.air[i].own)

\* s and t are at the same point of the authentication.
Same(s, t) == /\ t.auth = s.auth /\ t.key = s.key /\ t.done = s.done /\ t.cut = s.cut
              /\ t.stray = s.stray /\ t.early = s.early

(* The packets of a message that is over are nobody's. *)
LEMMA Orphans ==
  ASSUME NEW q \in Seq(Packets)
  PROVE  Orphan(q) \in Seq(Packets) /\ DOMAIN Orphan(q) = DOMAIN q
         /\ \A i \in DOMAIN q : ~Orphan(q)[i].own
<1>1. DOMAIN Orphan(q) = 1 .. Len(q) /\ Len(q) \in Nat
  BY DEF Orphan
<1>2. \A i \in 1 .. Len(q) : Orphan(q)[i] \in Packets /\ ~Orphan(q)[i].own
  <2> SUFFICES ASSUME NEW i \in 1 .. Len(q) PROVE Orphan(q)[i] \in Packets /\ ~Orphan(q)[i].own
    OBVIOUS
  <2>1. q[i] \in Packets /\ i \in DOMAIN q
    OBVIOUS
  <2>2. Orphan(q)[i] = [q[i] EXCEPT !.own = FALSE]
    BY <2>1 DEF Orphan
  <2> QED BY <2>1, <2>2 DEF Packets
<1>3. Orphan(q) = [i \in 1 .. Len(q) |-> Orphan(q)[i]]
  BY DEF Orphan
<1>4. Orphan(q) \in [1 .. Len(q) -> Packets]
  BY <1>2, <1>3
<1> QED BY <1>1, <1>2, <1>4

(* The timers have no part in what is sent. *)
LEMMA TimersApart ==
  ASSUME NEW s, Typed(s), NEW t
  PROVE  /\ Typed(StopTimer(s, t)) /\ Typed(StartTimer(s, t))
         /\ Same(s, StopTimer(s, t)) /\ Same(s, StartTimer(s, t))
         /\ Busy(StopTimer(s, t)) = Busy(s) /\ Busy(StartTimer(s, t)) = Busy(s)
         /\ StopTimer(s, t).cmd = s.cmd /\ StartTimer(s, t).cmd = s.cmd
         /\ Linked(StopTimer(s, t)) = Linked(s) /\ Linked(StartTimer(s, t)) = Linked(s)
  BY DEF Typed, Shape, Fields, Same, Busy, StopTimer, StartTimer, Linked

(* reset_tx leaves the transmitter free, with no packet of its own in the air. *)
LEMMA ResetApart ==
  ASSUME NEW s, Typed(s), s.stray \/ ~s.early
  PROVE  Clean(ResetTx(s)) /\ Same(s, ResetTx(s)) /\ ~Busy(ResetTx(s))
<1> DEFINE t == [s EXCEPT !.cmd = "none", !.len = 0, !.sent = 0, !.req = 0, !.cfm = 0,
                          !.modes = {}, !.refused = FALSE, !.air = Orphan(@)]
           q == Orphan(s.air)
<1>1. q \in Seq(Packets) /\ \A i \in DOMAIN q : ~q[i].own
  BY Orphans DEF Typed
<1>2. Clean(t) /\ Same(s, t) /\ ~Busy(t)
  <2> HIDE DEF q
  <2>1. t = [s EXCEPT !.cmd = "none", !.len = 0, !.sent = 0, !.req = 0, !.cfm = 0,
                          !.modes = {}, !.refused = FALSE, !.air = q]
    BY DEF q
  <2> HIDE DEF t
  <2> QED BY <1>1, <2>1 DEF Clean, Typed, Shape, Fields, Same, Busy
<1> HIDE DEF t
<1>3. Clean(StopTimer(t, "tx")) /\ Same(t, StopTimer(t, "tx")) /\ ~Busy(StopTimer(t, "tx"))
  BY <1>2 DEF StopTimer, Clean, Typed, Shape, Fields, Same, Busy
<1> QED BY <1>2, <1>3 DEF ResetTx, Same, t

(* So does the beginning of a message, before its first packet. *)
LEMMA BeginApart ==
  ASSUME NEW s, Typed(s), s.stray \/ ~s.early, NEW cmd, NEW n \in Nat
  PROVE  /\ Clean(Begin(s, cmd, n)) /\ Same(s, Begin(s, cmd, n)) /\ Begin(s, cmd, n).cmd = cmd
         /\ Begin(s, cmd, n).len = n /\ Begin(s, cmd, n).sent = 0 /\ Begin(s, cmd, n).req = 0
         /\ Begin(s, cmd, n).cfm = 0 /\ \A i \in DOMAIN Begin(s, cmd, n).air : ~Begin(s, cmd, n).air[i].own
<1> DEFINE q == Orphan(s.air)
<1>1. q \in Seq(Packets) /\ \A i \in DOMAIN q : ~q[i].own
  BY Orphans DEF Typed
<1>2. Begin(s, cmd, n) = [s EXCEPT !.enc = Encrypts(s, cmd), !.cmd = cmd, !.len = n, !.sent = 0,
                              !.req = 0, !.cfm = 0, !.modes = {}, !.refused = FALSE, !.air = q]
  BY DEF Begin
<1> HIDE DEF q
<1> QED BY <1>1, <1>2 DEF Clean, Typed, Shape, Fields, Same

(* send_fragment keeps the link between what is in the air and what is counted;
   a message of which some is left stays in progress. *)
LEMMA FragmentApart ==
  ASSUME NEW s, Clean(s), NEW ok
  PROVE  /\ Apart(SendFragment(s, ok)) /\ Same(s, SendFragment(s, ok))
         /\ SendFragment(s, ok).cmd = s.cmd
         /\ s.sent < s.len /\ ~s.stray => Busy(SendFragment(s, ok))
<1> DEFINE t == [s EXCEPT !.cb = @ \/ Usable(s)]
           p == [how |-> "ind", own |-> TRUE]
           v == [t EXCEPT !.req = @ + 1, !.sent = IF @ < s.len THEN @ + 1 ELSE @,
                          !.air = Append(@, p), !.modes = @ \cup {<<s.enc, s.key>>}]
           u == IF ~Accepts(s, ok) THEN t ELSE v
<1>1. Clean(t) /\ Same(s, t) /\ t.cmd = s.cmd /\ t.sent = s.sent /\ t.len = s.len
      /\ (Usable(s) => t.cb) /\ t.req = s.req /\ t.cfm = s.cfm /\ t.air = s.air
  BY DEF Clean, Typed, Shape, Fields, Same
<1>2. Apart(t)
  BY <1>1 DEF Apart, Clean, Linked, Typed
<1>3. ASSUME Usable(s) PROVE /\ Apart(v) /\ Same(s, v) /\ v.cmd = s.cmd
                             /\ ~s.stray => Busy(v)
  <2> DEFINE q == Append(t.air, p)
  <2> HIDE DEF t
  <2>1. p \in Packets /\ p.own /\ p.how = "ind"
    BY DEF Packets
  <2>2. q \in Seq(Packets) /\ DOMAIN q = 1 .. Len(t.air) + 1 /\ q[Len(t.air) + 1] = p
        /\ (\A i \in DOMAIN t.air : q[i] = t.air[i]) /\ DOMAIN t.air = 1 .. Len(t.air)
        /\ Len(t.air) \in Nat
    BY <1>1, <2>1 DEF Clean, Typed
  <2> HIDE DEF p, q
  <2>3. v = [t EXCEPT !.req = @ + 1, !.sent = IF @ < s.len THEN @ + 1 ELSE @,
                      !.air = q, !.modes = @ \cup {<<s.enc, s.key>>}]
    BY DEF q
  <2> HIDE DEF v
  <2>4. Typed(v) /\ Same(s, v) /\ v.cmd = s.cmd /\ v.req = t.req + 1 /\ v.cfm = t.cfm /\ v.cb = t.cb /\ v.air = q
    BY <1>1, <2>2, <2>3 DEF Clean, Typed, Shape, Fields, Same
  <2>5. ~s.stray => Linked(v) /\ Busy(v)
    <3> SUFFICES ASSUME ~s.stray PROVE Linked(v) /\ Busy(v)
      OBVIOUS
    <3>1. \A i \in DOMAIN q : q[i].own => i = Len(t.air) + 1
      BY <1>1, <2>2 DEF Clean, Same
    <3>2. t.req = t.cfm /\ t.req \in Nat
      BY <1>1 DEF Clean, Typed, Same
    <3> QED BY <1>1, <1>3, <2>1, <2>2, <2>4, <3>1, <3>2 DEF Linked, Busy
  <2> QED BY <2>4, <2>5, <1>1 DEF Apart, Clean, Same
<1>4. Apart(u) /\ Same(s, u) /\ u.cmd = s.cmd /\ (s.sent < s.len /\ ~s.stray => Busy(u))
  <2>1. CASE ~Accepts(s, ok)
    BY <2>1, <1>1, <1>2 DEF Busy
  <2>2. CASE Accepts(s, ok)
    BY <2>2, <1>3 DEF Accepts
  <2> QED BY <2>1, <2>2
<1>5. SendFragment(s, ok) = IF u.sent < u.len THEN StartTimer(u, "tx") ELSE u
  BY DEF SendFragment
<1> HIDE DEF u
<1>6. /\ Apart(StartTimer(u, "tx")) /\ Same(u, StartTimer(u, "tx")) /\ StartTimer(u, "tx").cmd = u.cmd
      /\ Busy(StartTimer(u, "tx")) = Busy(u)
  BY <1>4, TimersApart DEF Apart, Same
<1> QED BY <1>4, <1>5, <1>6 DEF Same

\* What the authentication knows: of the message in progress, or of those that
\* are through.
Agreed(s) == /\ s.auth = "SVC_ENABLED" => s.cmd = "RAND" /\ Busy(s)
             /\ s.auth = "RAND_SENT" => "RAND" \in s.done /\ ((s.cmd = "KEY" /\ Busy(s)) \/ "KEY" \in s.done)
             /\ s.key = "device" => {"RAND", "KEY"} \subseteq s.done
\* The same where a message is through, and where the transmitter is free.
Through(s) == /\ s.auth = "SVC_ENABLED" => s.cmd = "RAND"
              /\ s.auth = "RAND_SENT" => "RAND" \in s.done /\ (s.cmd = "KEY" \/ "KEY" \in s.done)
              /\ s.key = "device" => {"RAND", "KEY"} \subseteq s.done
Told(s) == /\ s.auth = "SVC_ENABLED" => "RAND" \in s.done
           /\ s.auth = "RAND_SENT" \/ s.key = "device" => {"RAND", "KEY"} \subseteq s.done
Free(s) == s.stray \/ s.cut
Whole(s) == Apart(s) /\ (Free(s) \/ Agreed(s))

(* transport_tx leaves a message in progress, unless there is nothing to send. *)
LEMMA TxApart ==
  ASSUME NEW s, Apart(s), NEW cmd, NEW n \in Nat, NEW ok
  PROVE  /\ Apart(Tx(s, cmd, n, ok)) /\ Same(s, Tx(s, cmd, n, ok))
         /\ Busy(s) => Busy(Tx(s, cmd, n, ok)) /\ Tx(s, cmd, n, ok).cmd = s.cmd
         /\ ~Busy(s) => Tx(s, cmd, n, ok).cmd = cmd /\ (n > 0 /\ ~s.stray => Busy(Tx(s, cmd, n, ok)))
<1>1. /\ Apart(Refuse(s, cmd)) /\ Same(s, Refuse(s, cmd)) /\ Busy(Refuse(s, cmd)) = Busy(s)
      /\ Refuse(s, cmd).cmd = s.cmd
  BY DEF Refuse, Apart, Linked, Typed, Shape, Fields, Same, Busy
<1> DEFINE t == Begin(s, cmd, n)
<1>2. Clean(t) /\ Same(s, t) /\ t.cmd = cmd /\ t.len = n /\ t.sent = 0
  BY BeginApart DEF Apart
<1> HIDE DEF t
<1>3. /\ Apart(SendFragment(t, ok)) /\ Same(t, SendFragment(t, ok)) /\ SendFragment(t, ok).cmd = cmd
      /\ n > 0 /\ ~t.stray => Busy(SendFragment(t, ok))
  BY <1>2, FragmentApart
<1>4. Tx(s, cmd, n, ok) = IF Busy(s) THEN Refuse(s, cmd) ELSE SendFragment(t, ok)
  BY DEF Tx, t
<1> QED BY <1>1, <1>2, <1>3, <1>4 DEF Same

(* auth_reset gives the authentication up. *)
LEMMA AuthResetWhole == ASSUME NEW s, Whole(s) PROVE Whole(AuthReset(s)) /\ AuthReset(s).auth = "IDLE"
                        /\ AuthReset(s).stray = s.stray /\ AuthReset(s).early = s.early
                        /\ AuthReset(s).cut = s.cut
  BY DEF Whole, Apart, Free, Agreed, AuthReset, StopTimer, Linked, Typed, Shape, Fields, Busy

(* A transmission of the authentication, in a state it entered before the
   message it is to send there.                                            *)
LEMMA AuthTxWhole ==
  ASSUME NEW s, Apart(s), NEW cmd, NEW n \in Nat, NEW ok,
         Free(s) \/ /\ s.auth = "SVC_ENABLED" => cmd = "RAND" /\ n > 0
                    /\ s.auth = "RAND_SENT" => "RAND" \in s.done /\ ((cmd = "KEY" /\ n > 0) \/ "KEY" \in s.done)
                    /\ s.key = "device" => {"RAND", "KEY"} \subseteq s.done
  PROVE  Whole(AuthTx(s, cmd, n, ok))
<1> DEFINE t == Tx(s, cmd, n, ok)
<1>1. /\ Apart(t) /\ Same(s, t)
      /\ ~Busy(s) => t.cmd = cmd /\ (n > 0 /\ ~s.stray => Busy(t))
  BY TxApart
<1> HIDE DEF t
<1>2. CASE ~Busy(s)
  BY <1>1, <1>2 DEF AuthTx, t, Whole, Agreed, Same, Free
<1>3. CASE Busy(s)
  <2>1. Whole(AuthReset(t))
    BY <1>1 DEF Whole, Apart, Free, Agreed, AuthReset, StopTimer, Linked, Typed, Shape, Fields, Busy, Same
  <2> QED BY <1>3, <2>1 DEF AuthTx, t
<1> QED BY <1>2, <1>3

(* auth_tx_done, when the transmitter is free: the message that is through need
   not be the authentication's. *)
LEMMA AuthTxDoneWhole ==
  ASSUME NEW s, Clean(s), Free(s) \/ Told(s), NEW ok
  PROVE  Whole(AuthTxDone(s, ok))
<1>1. Apart(s)
  BY DEF Clean, Apart, Linked, Typed
<1>2. CASE s.auth = "SVC_ENABLED"
  <2> DEFINE t == [s EXCEPT !.auth = "RAND_SENT"]
  <2>1. Apart(t) /\ t.auth = "RAND_SENT" /\ t.key = s.key /\ t.done = s.done /\ Free(t) = Free(s)
    BY <1>1 DEF Apart, Linked, Typed, Shape, Fields, Free
  <2> HIDE DEF t
  <2>2. Whole(AuthTx(t, "KEY", 2, ok))
    BY <1>2, <2>1, AuthTxWhole DEF Told
  <2> QED BY <1>2, <2>2 DEF AuthTxDone, t
<1>3. CASE s.auth = "RAND_SENT"
  BY <1>1, <1>3 DEF AuthTxDone, Whole, Apart, Linked, Typed, Shape, Fields, Free, Agreed, Told, Busy
<1>4. CASE s.auth \notin {"SVC_ENABLED", "RAND_SENT"}
  BY <1>1, <1>4 DEF AuthTxDone, Whole, Agreed, Told
<1> QED BY <1>2, <1>3, <1>4

(* TX_DONE, with what the application posts from it: no indication of the
   message is in the air.                                                  *)
LEMMA DoneWhole ==
  ASSUME NEW s, Typed(s), NEW n \in Nat, NEW ok, Free(s) \/ Through(s),
         s.stray \/ (~s.early /\ \A i \in DOMAIN s.air : s.air[i].own => s.air[i].how # "ind"),
         s.stray \/ ~Busy(s)
  PROVE  Whole(Done(s, n, ok))
<1> DEFINE t == [s EXCEPT !.early = @ \/ \E i \in DOMAIN s.air : s.air[i] = [how |-> "ind", own |-> TRUE],
                          !.done = @ \cup {s.cmd}]
           u == IF n = 0 THEN t ELSE Tx(t, "STATUS", n, ok)
<1>1. /\ Typed(t) /\ t.auth = s.auth /\ t.key = s.key /\ t.done = s.done \cup {s.cmd} /\ t.cut = s.cut
      /\ t.stray = s.stray /\ Busy(t) = Busy(s)
  BY DEF Typed, Shape, Fields, Busy
<1>2. t.stray \/ ~t.early
  <2>1. s.stray \/ ~\E i \in DOMAIN s.air : s.air[i] = [how |-> "ind", own |-> TRUE]
    OBVIOUS
  <2>2. t.early = (s.early \/ \E i \in DOMAIN s.air : s.air[i] = [how |-> "ind", own |-> TRUE])
    BY DEF Typed, Shape, Fields
  <2> QED BY <1>1, <2>1, <2>2
<1> HIDE DEF t
<1>3. Typed(u) /\ Same(t, u)
  <2>1. CASE n = 0
    BY <1>1, <2>1 DEF Same
  <2>2. CASE n # 0
    <3> DEFINE v == Begin(t, "STATUS", n)
    <3>1. Clean(v) /\ Same(t, v)
      BY <1>1, <1>2, BeginApart
    <3> HIDE DEF v
    <3>2. Apart(SendFragment(v, ok)) /\ Same(v, SendFragment(v, ok))
      BY <3>1, FragmentApart
    <3>3. Typed(Refuse(t, "STATUS")) /\ Same(t, Refuse(t, "STATUS"))
      BY <1>1 DEF Refuse, Typed, Shape, Fields, Same
    <3> QED BY <2>2, <3>1, <3>2, <3>3 DEF Tx, v, Apart, Same
  <2> QED BY <2>1, <2>2
<1> HIDE DEF u
<1>4. Clean(ResetTx(u)) /\ Same(u, ResetTx(u))
  BY <1>2, <1>3, ResetApart DEF Same
<1>5. Free(ResetTx(u)) \/ Told(ResetTx(u))
  BY <1>1, <1>3, <1>4 DEF Same, Free, Told, Through
<1>6. Whole(AuthTxDone(ResetTx(u), ok))
  BY <1>4, <1>5, AuthTxDoneWhole
<1> QED BY <1>6 DEF Done, t, u

(* A report that is counted for the message in progress: none of its
   indications is in the air any more.                                     *)
LEMMA TxDoneWhole ==
  ASSUME NEW s, Typed(s), NEW n \in Nat, NEW ok,
         Free(s) \/ Through(s),
         s.stray \/ /\ ~s.early /\ s.req = s.cfm + 1
                    /\ \A i \in DOMAIN s.air : s.air[i].own => s.air[i].how # "ind" /\ s.sent >= s.len
  PROVE  Whole(TxDone(s, 1, n, ok))
<1> DEFINE t == [s EXCEPT !.cfm = @ + 1]
<1>1. /\ Typed(t) /\ Same(s, t) /\ t.cmd = s.cmd /\ t.sent = s.sent /\ t.len = s.len /\ t.air = s.air
      /\ t.req = s.req /\ t.cfm = s.cfm + 1
  BY DEF Typed, Shape, Fields, Same
<1> HIDE DEF t
<1>2. Free(t) \/ Through(t)
  BY <1>1 DEF Same, Free, Through
<1>3. CASE t.sent < t.len
  <2>1. Clean(t)
    BY <1>1, <1>3 DEF Clean, Same, Typed
  <2>2. /\ Apart(SendFragment(t, ok)) /\ Same(t, SendFragment(t, ok))
        /\ SendFragment(t, ok).cmd = t.cmd
        /\ ~t.stray => Busy(SendFragment(t, ok))
    BY <1>3, <2>1, FragmentApart
  <2>3. Whole(SendFragment(t, ok))
    BY <1>2, <2>2 DEF Whole, Same, Free, Through, Agreed
  <2> QED BY <1>3, <2>3 DEF TxDone, t
<1>4. CASE ~(t.sent < t.len) /\ t.req = t.cfm /\ t.req # 0
  <2>1. ~Busy(t)
    BY <1>4 DEF Busy
  <2>2. t.stray \/ (~t.early /\ \A i \in DOMAIN t.air : t.air[i].own => t.air[i].how # "ind")
    BY <1>1 DEF Same
  <2>3. Whole(Done(t, n, ok))
    BY <1>1, <1>2, <2>1, <2>2, DoneWhole
  <2> QED BY <1>4, <2>3 DEF TxDone, t
<1>5. CASE ~(t.sent < t.len) /\ ~(t.req = t.cfm /\ t.req # 0)
  <2>1. t.stray
    BY <1>1, <1>5 DEF Same, Typed
  <2>2. Clean(ResetTx(t)) /\ Same(t, ResetTx(t))
    BY <1>1, <2>1, ResetApart
  <2>3. Whole(ResetTx(t)) /\ Whole(t)
    BY <1>1, <2>1, <2>2 DEF Whole, Apart, Clean, Same, Free
  <2> QED BY <1>5, <2>3 DEF TxDone, t
<1> QED BY <1>3, <1>4, <1>5

(* A post of the application. *)
LEMMA TxWhole ==
  ASSUME NEW s, Whole(s), NEW n \in Nat, NEW ok, NEW cmd
  PROVE  Whole(Tx(s, cmd, n, ok))
  BY TxApart DEF Whole, Same, Free, Agreed

(* The error notification: one packet, done at once. *)
LEMMA NotifyWhole ==
  ASSUME NEW s, Whole(s), NEW ok
  PROVE  Whole(Notify(s, ok))
<1> DEFINE t == Begin(s, "ERR", 0)
           p == [how |-> "ntf", own |-> TRUE]
           u == [t EXCEPT !.req = 1, !.air = Append(@, p)]
<1>1. CASE Busy(s)
  <2>1. Whole(Refuse(s, "ERR"))
    BY DEF Refuse, Whole, Apart, Free, Agreed, Linked, Typed, Shape, Fields, Busy
  <2> QED BY <1>1, <2>1 DEF Notify
<1>2. CASE ~Busy(s)
  <2>1. /\ Clean(t) /\ Same(s, t) /\ t.sent = 0 /\ t.len = 0 /\ t.cfm = 0
        /\ \A i \in DOMAIN t.air : ~t.air[i].own
    BY BeginApart DEF Whole, Apart
  <2> HIDE DEF t
  <2>2. Free(t) \/ (t.auth # "SVC_ENABLED" /\ Told(t))
    <3>1. Free(s) \/ (s.auth # "SVC_ENABLED" /\ Told(s))
      BY <1>2 DEF Whole, Agreed, Told
    <3> QED BY <2>1, <3>1 DEF Same, Free, Told
  <2>3. Whole(t)
    BY <2>1, <2>2 DEF Clean, Whole, Apart, Linked, Typed, Agreed, Told
  <2>4. Typed(u) /\ Same(t, u) /\ u.sent = 0 /\ u.len = 0 /\ u.cfm = 0 /\ u.req = 1
        /\ \A i \in DOMAIN u.air : u.air[i].own => u.air[i].how = "ntf"
    <3> DEFINE q == Append(t.air, p)
    <3>1. p \in Packets /\ p.how = "ntf"
      BY DEF Packets
    <3>2. q \in Seq(Packets) /\ DOMAIN q = 1 .. Len(t.air) + 1 /\ q[Len(t.air) + 1] = p
          /\ (\A i \in DOMAIN t.air : q[i] = t.air[i]) /\ DOMAIN t.air = 1 .. Len(t.air)
          /\ Len(t.air) \in Nat
      BY <2>1, <3>1 DEF Clean, Typed
    <3>3. \A i \in DOMAIN q : q[i].own => q[i].how = "ntf"
      BY <2>1, <3>1, <3>2
    <3>4. u = [t EXCEPT !.req = 1, !.air = q]
      OBVIOUS
    <3> HIDE DEF q, u
    <3> QED BY <2>1, <3>2, <3>3, <3>4 DEF Clean, Typed, Shape, Fields, Same
  <2> HIDE DEF u
  <2>5. Whole(TxDone(u, 1, 0, ok))
    <3>1. u.stray \/ ~u.early
      BY <2>1, <2>4 DEF Clean, Same
    <3>2. Free(u) \/ Through(u)
      BY <2>2, <2>4 DEF Same, Free, Told, Through
    <3> QED BY <2>4, <3>1, <3>2, TxDoneWhole
  <2> QED BY <1>2, <2>3, <2>5 DEF Notify, t, u
<1> QED BY <1>1, <1>2

(* The states of the authentication that say nothing of the transmitter. *)
LEMMA Sets ==
  ASSUME NEW s, Whole(s), NEW a, a \notin {"SVC_ENABLED", "RAND_SENT"}
  PROVE  Whole([s EXCEPT !.auth = a]) /\ [s EXCEPT !.auth = a].auth = a
         /\ Busy([s EXCEPT !.auth = a]) = Busy(s)
  BY DEF Whole, Apart, Free, Agreed, Linked, Typed, Shape, Fields, Busy

(* Timers are started and stopped. *)
LEMMA TimersWhole ==
  ASSUME NEW s, Whole(s), NEW t
  PROVE  Whole(StopTimer(s, t)) /\ Whole(StartTimer(s, t))
  BY TimersApart DEF Whole, Apart, Same, Free, Agreed

(* A disconnection is asked for. *)
LEMMA DisconnectWhole == ASSUME NEW s, Whole(s) PROVE Whole(Disconnect(s))
  BY DEF Whole, Apart, Free, Agreed, Linked, Typed, Shape, Fields, Busy, Disconnect

(* A command of the peer. *)
LEMMA CommandsWhole ==
  ASSUME NEW s, Whole(s), NEW good, NEW ok
  PROVE  Whole(AuthRx(s, good, ok))
<1>1. PICK t : /\ Whole(t)
               /\ AuthRx(s, good, ok) = IF t.auth = "DONE" THEN StopTimer(t, "auth")
                                        ELSE IF t.auth = "FAILED" THEN Disconnect(StopTimer(t, "auth"))
                                        ELSE t
  <2> DEFINE r == [s EXCEPT !.auth = "REQ_RECVD"]
  <2>1. Whole(AuthTx(r, "RSP", 1, ok)) /\ Whole(StartTimer(AuthTx(r, "RSP", 1, ok), "auth"))
    <3>1. Whole(r) /\ r.auth = "REQ_RECVD"
      BY Sets
    <3> HIDE DEF r
    <3>2. Whole(AuthTx(r, "RSP", 1, ok))
      BY <3>1, AuthTxWhole DEF Whole, Agreed
    <3> QED BY <3>2, TimersWhole
  <2>2. \A a \in {"FAILED", "DONE"} : Whole([s EXCEPT !.auth = a])
    BY Sets
  <2>3. CASE s.auth = "RAND_SENT"
    BY <2>1, <2>2, <2>3 DEF AuthRx
  <2>4. CASE s.auth = "REQ_RECVD"
    <3> DEFINE a == IF good THEN "DONE" ELSE "FAILED"
    <3>1. Whole([s EXCEPT !.auth = a])
      <4>1. CASE good
        BY <2>2, <4>1
      <4>2. CASE ~good
        BY <2>2, <4>2
      <4> QED BY <4>1, <4>2
    <3> DEFINE t == [s EXCEPT !.auth = a]
    <3>2. AuthRx(s, good, ok) = IF t.auth = "DONE" THEN StopTimer(t, "auth")
                               ELSE IF t.auth = "FAILED" THEN Disconnect(StopTimer(t, "auth"))
                               ELSE t
      BY <2>4 DEF AuthRx
    <3>3. Whole(t)
      BY <3>1
    <3> HIDE DEF t
    <3> QED BY <3>2, <3>3
  <2>5. CASE s.auth \notin {"RAND_SENT", "REQ_RECVD"}
    <3>1. Whole(AuthTx(s, "ERR", 0, ok))
      <4> DEFINE v == Tx(s, "ERR", 0, ok)
      <4>1. CASE Busy(s)
        <5>1. Whole(v)
          BY TxWhole
        <5> QED BY <4>1, <5>1, AuthResetWhole DEF AuthTx
      <4>2. CASE ~Busy(s)
        BY <4>2, <2>5, TxWhole DEF AuthTx
      <4> QED BY <4>1, <4>2
    <3> QED BY <2>5, <3>1 DEF AuthRx
  <2> QED BY <2>3, <2>4, <2>5
<1> QED BY <1>1, TimersWhole, DisconnectWhole

(* A subscription begins the authentication. *)
LEMMA EnablesWhole ==
  ASSUME NEW s, Whole(s), NEW ok
  PROVE  Whole(Enabled(s, ok))
<1> DEFINE t == [s EXCEPT !.auth = "SVC_ENABLED",
                          !.retried = @ \/ \A i \in DOMAIN s.timers : s.timers[i] # "auth"]
<1>1. Apart(t) /\ t.auth = "SVC_ENABLED" /\ t.key = s.key /\ t.done = s.done /\ Free(t) = Free(s)
  BY DEF Whole, Apart, Linked, Typed, Shape, Fields, Free
<1> HIDE DEF t
<1>2. Whole(AuthTx(t, "RAND", 1, ok))
  BY <1>1, AuthTxWhole DEF Whole, Agreed
<1> QED BY <1>2 DEF Enabled, t

(* What is left of a sequence when one element is taken out. *)
LEMMA Withouts ==
  ASSUME NEW S, NEW q \in Seq(S), NEW i \in DOMAIN q
  PROVE  /\ Without(q, i) \in Seq(S) /\ Len(Without(q, i)) = Len(q) - 1
         /\ DOMAIN Without(q, i) = 1 .. Len(q) - 1
         /\ \A j \in DOMAIN Without(q, i) : Without(q, i)[j] = IF j < i THEN q[j] ELSE q[j + 1]
<1> DEFINE x == SubSeq(q, 1, i - 1)
           y == SubSeq(q, i + 1, Len(q))
<1>1. x \in Seq(S) /\ Len(x) = i - 1 /\ \A j \in 1 .. i - 1 : x[j] = q[j]
  OBVIOUS
<1>2. y \in Seq(S) /\ Len(y) = Len(q) - i /\ \A j \in 1 .. Len(q) - i : y[j] = q[i + j]
  OBVIOUS
<1> HIDE DEF x, y, Without
<1>3. /\ x \o y \in Seq(S) /\ Len(x \o y) = Len(x) + Len(y) /\ DOMAIN (x \o y) = 1 .. Len(x) + Len(y)
      /\ \A j \in 1 .. Len(x) + Len(y) : (x \o y)[j] = IF j <= Len(x) THEN x[j] ELSE y[j - Len(x)]
  <2>1. x \o y \in Seq(S) /\ Len(x \o y) = Len(x) + Len(y)
    BY <1>1, <1>2, ConcatProperties
  <2>2. DOMAIN (x \o y) = 1 .. Len(x) + Len(y)
    BY <2>1
  <2> QED BY <1>1, <1>2, <2>1, <2>2, ConcatProperties
<1>4. Len(x) + Len(y) = Len(q) - 1
  BY <1>1, <1>2
<1>5. ASSUME NEW j \in 1 .. Len(q) - 1
      PROVE  (x \o y)[j] = IF j < i THEN q[j] ELSE q[j + 1]
  <2>1. CASE j < i
    BY <1>1, <1>3, <1>4, <2>1
  <2>2. CASE ~(j < i)
    <3>1. j - (i - 1) \in 1 .. Len(q) - i /\ i + (j - (i - 1)) = j + 1
      BY <2>2
    <3>2. (x \o y)[j] = y[j - (i - 1)]
      BY <1>1, <1>3, <1>4, <2>2
    <3> QED BY <1>2, <2>2, <3>1, <3>2
  <2> QED BY <2>1, <2>2
<1> QED BY <1>3, <1>4, <1>5 DEF x, y, Without

(* What is left in the air when a packet is taken out.                     *)
LEMMA Drops ==
  ASSUME NEW s, Apart(s), NEW i \in DOMAIN s.air
  PROVE  /\ Apart(Drop(s, i)) /\ Same(s, Drop(s, i)) /\ Busy(Drop(s, i)) = Busy(s)
         /\ Drop(s, i).cmd = s.cmd /\ Drop(s, i).sent = s.sent /\ Drop(s, i).len = s.len
         /\ Drop(s, i).req = s.req /\ Drop(s, i).cfm = s.cfm
         /\ ~s.stray /\ s.air[i].own => \A j \in DOMAIN Drop(s, i).air : ~Drop(s, i).air[j].own
<1> DEFINE q == Without(s.air, i)
<1>1. s.air \in Seq(Packets) /\ Len(s.air) \in Nat /\ i \in 1 .. Len(s.air) /\ DOMAIN s.air = 1 .. Len(s.air)
  BY DEF Apart, Typed
<1>2. /\ q \in Seq(Packets) /\ Len(q) = Len(s.air) - 1 /\ DOMAIN q = 1 .. Len(s.air) - 1
      /\ \A j \in DOMAIN q : q[j] = IF j < i THEN s.air[j] ELSE s.air[j + 1]
  BY <1>1, Withouts
<1>4. Drop(s, i) = [s EXCEPT !.air = q]
  BY DEF Drop
<1> HIDE DEF q
<1>5. /\ Typed(Drop(s, i)) /\ Same(s, Drop(s, i)) /\ Busy(Drop(s, i)) = Busy(s)
      /\ Drop(s, i).cmd = s.cmd /\ Drop(s, i).sent = s.sent /\ Drop(s, i).len = s.len
      /\ Drop(s, i).req = s.req /\ Drop(s, i).cfm = s.cfm /\ Drop(s, i).air = q /\ Drop(s, i).cb = s.cb
  BY <1>2, <1>4 DEF Apart, Typed, Shape, Fields, Same, Busy
<1>6. ASSUME ~s.stray
      PROVE  Linked(Drop(s, i)) /\ (s.air[i].own => \A j \in DOMAIN q : ~q[j].own)
  <2> DEFINE k(j) == IF j < i THEN j ELSE j + 1
  <2>1. \A j \in DOMAIN q : k(j) \in DOMAIN s.air /\ k(j) # i /\ q[j] = s.air[k(j)]
    BY <1>1, <1>2
  <2>2. \A j, m \in DOMAIN q : k(j) = k(m) => j = m
    BY <1>1, <1>2
  <2>3. Linked(s)
    BY <1>6 DEF Apart
  <2> HIDE DEF k
  <2> QED BY <1>1, <1>5, <2>1, <2>2, <2>3 DEF Linked
<1> QED BY <1>5, <1>6 DEF Apart, Same

(* The inductive invariant: that of b.                                     *)
AllWhole == Whole(b)

(* Every step of the program keeps it. *)
LEMMA WholeStep == AllWhole /\ [Next]_vars => AllWhole'
<1> SUFFICES ASSUME Whole(b), [Next]_vars PROVE Whole(b')
  BY DEF AllWhole
<1> USE BreezeAssumption
<1>1. CASE Post
  <2>1. PICK n \in Sizes, ok \in BOOLEAN : b' = Tx(b, "STATUS", n, ok)
    BY <1>1 DEF Post
  <2> QED BY <2>1, TxWhole DEF BreezeAssumption
<1>2. CASE Connected
  <2> DEFINE s == [b EXCEPT !.conn = "yes", !.ind = FALSE, !.ntf = FALSE, !.auth = "CONNECTED",
                            !.key = "product", !.cut = FALSE, !.done = {}, !.retried = FALSE]
  <2>1. Whole(s)
    BY DEF Whole, Apart, Linked, Typed, Shape, Fields, Agreed
  <2> HIDE DEF s
  <2>2. b' = StartTimer(s, "auth")
    BY <1>2 DEF Connected, s
  <2> QED BY <2>1, <2>2, TimersWhole
<1>3. CASE Disconnected
  <2> DEFINE r == AuthReset(b)
             s == ResetTx(r)
  <2>1. Whole(r) /\ r.auth = "IDLE"
    BY AuthResetWhole
  <2> HIDE DEF r
  <2>2. Clean(s) /\ Same(r, s)
    BY <2>1, ResetApart DEF Whole, Apart
  <2> HIDE DEF s
  <2>3. Whole([s EXCEPT !.conn = "no", !.ind = FALSE, !.ntf = FALSE, !.air = <<>>])
    BY <2>1, <2>2 DEF Same, Whole, Free, Agreed, Clean, Apart, Linked, Typed, Shape, Fields
  <2> QED BY <1>3, <2>3 DEF Disconnected, r, s
<1>4. CASE Subscribe
  <2>1. ASSUME NEW on PROVE Whole([b EXCEPT !.ind = on]) /\ Whole([b EXCEPT !.ntf = on])
    BY DEF Whole, Apart, Linked, Typed, Shape, Fields, Agreed, Free, Busy
  <2> QED BY <1>4, <2>1, EnablesWhole DEF Subscribe
<1>5. CASE Completes
  <2>1. PICK i \in DOMAIN b.air, n \in {0} \cup Sizes, ok \in BOOLEAN :
          LET s == [Drop(b, i) EXCEPT !.stray = @ \/ (b.cb /\ ~b.air[i].own)]
          IN  b' = IF b.cb THEN TxDone(s, 1, n, ok) ELSE s
    BY <1>5 DEF Completes
  <2> DEFINE d == Drop(b, i)
             s == [d EXCEPT !.stray = @ \/ (b.cb /\ ~b.air[i].own)]
  <2>2. Apart(d) /\ Same(b, d) /\ Busy(d) = Busy(b) /\ d.cmd = b.cmd /\ d.sent = b.sent /\ d.len = b.len
        /\ d.req = b.req /\ d.cfm = b.cfm
        /\ (~b.stray /\ b.air[i].own => \A j \in DOMAIN d.air : ~d.air[j].own)
    BY Drops DEF Whole
  <2> HIDE DEF d
  <2>3. CASE ~b.cb
    <3>1. Whole(s)
      BY <2>2, <2>3 DEF Whole, Apart, Linked, Typed, Shape, Fields, Agreed, Free, Same, Busy
    <3> QED BY <2>1, <2>3, <3>1 DEF d
  <2>4. CASE b.cb
    <3>1. /\ Typed(s) /\ s.auth = b.auth /\ s.key = b.key /\ s.done = b.done /\ s.cut = b.cut /\ s.early = b.early
          /\ s.stray = (b.stray \/ ~b.air[i].own) /\ s.cmd = b.cmd /\ s.sent = b.sent /\ s.len = b.len
          /\ s.req = b.req /\ s.cfm = b.cfm /\ s.air = d.air
      BY <2>2, <2>4 DEF Apart, Typed, Shape, Fields, Same
    <3> HIDE DEF s
    <3>2. Free(s) \/ Through(s)
      BY <3>1 DEF Whole, Agreed, Free, Through
    <3>3. s.stray \/ (~s.early /\ s.req = s.cfm + 1 /\ \A j \in DOMAIN s.air : ~s.air[j].own)
      BY <2>2, <3>1 DEF Whole, Apart, Linked
    <3>4. n \in Nat
      BY DEF BreezeAssumption
    <3>5. Whole(TxDone(s, 1, n, ok))
      BY <3>1, <3>2, <3>3, <3>4, TxDoneWhole
    <3> QED BY <2>1, <2>4, <3>5 DEF d, s
  <2> QED BY <2>3, <2>4
<1>6. CASE Fails
  <2>1. ASSUME NEW i \in DOMAIN b.air PROVE Whole(Drop(b, i))
    BY Drops DEF Whole, Same, Free, Agreed
  <2> QED BY <1>6, <2>1 DEF Fails
<1>7. CASE Receives
  BY <1>7, CommandsWhole DEF Receives
<1>8. CASE Garbled
  BY <1>8, NotifyWhole DEF Garbled
<1>9. CASE Expires
  <2> DEFINE s == [b EXCEPT !.timers = Tail(@)]
  <2>1. Whole(s)
    BY DEF Whole, Apart, Linked, Typed, Shape, Fields, Agreed, Free, Busy
  <2>2. b' = IF Head(b.timers) = "auth" THEN Disconnect(AuthReset(s)) ELSE [ResetTx(s) EXCEPT !.cut = TRUE]
    BY <1>9 DEF Expires
  <2> HIDE DEF s
  <2>3. Whole(Disconnect(AuthReset(s)))
    BY <2>1, AuthResetWhole, DisconnectWhole
  <2> DEFINE r == ResetTx(s)
  <2>4. Clean(r)
    BY <2>1, ResetApart DEF Whole, Apart
  <2> HIDE DEF r
  <2>5. Whole([r EXCEPT !.cut = TRUE])
    BY <2>4 DEF Clean, Whole, Apart, Linked, Typed, Shape, Fields, Free
  <2> QED BY <2>2, <2>3, <2>5 DEF r
<1>10. CASE UNCHANGED vars
  BY <1>10 DEF vars
<1> QED BY <1>1, <1>2, <1>3, <1>4, <1>5, <1>6, <1>7, <1>8, <1>9, <1>10 DEF Next

(* It holds when the device starts. *)
LEMMA WholeInit == Init => AllWhole
BY DEF Init, Globals, AllWhole, Whole, Apart, Linked, Typed, Shape, Fields, Agreed

(* For every value of the constants: the application is told TX_DONE only
   when no indication of the message is in the air, unless a report for
   another message's packet was counted for it. transport_txdone cannot tell
   whose packet a report is for; but with at most one of its own in the air
   (ble_ais_send_indication refuses a second), the counters agree with the
   air as long as no stray report is counted (transport.c:400).            *)
THEOREM DoneMeansSent == Spec => []DoneWhenSent
<1>1. AllWhole => DoneWhenSent
  BY DEF AllWhole, Whole, Apart, DoneWhenSent
<1> QED BY <1>1, WholeInit, WholeStep, PTL DEF Spec

(* For every value of the constants: the device changes to its own key only
   when the peer was sent the random number and the name it derives the key
   from, although auth_tx_done is called for messages of the application too
   (transport.c:412, auth.c:192): while the authentication waits for one of
   its messages, that message is the one in progress, so that no other can
   be through; unless the timer ended a message, or a stray report counted. *)
THEOREM KeyIsAgreed == Spec => []KeyAgreed
<1>1. AllWhole => KeyAgreed
  BY DEF AllWhole, Whole, Free, Agreed, KeyAgreed
<1> QED BY <1>1, WholeInit, WholeStep, PTL DEF Spec

---------------------------- (* Types of the record *) -------------------------
Kinds == {"auth", "tx"}
Lens  == Sizes \cup 0..2
Cmds  == {"none", "STATUS", "RAND", "KEY", "RSP", "ERR"}
Auths == {"IDLE", "CONNECTED", "SVC_ENABLED", "RAND_SENT", "REQ_RECVD", "DONE", "FAILED"}

\* A timer runs once at most.
Apiece(q) == q \in Seq(Kinds) /\ \A i, j \in DOMAIN q : q[i] = q[j] => i = j

\* Every packet asked for carries a part of the message, or is the one of an
\* empty message.
Counted(s) == /\ s.len \in Lens /\ s.sent \in 0..s.len /\ s.cfm \in Nat
              /\ s.req = s.sent \/ (s.len = 0 /\ s.req = 1)
Modes(s) == /\ s.conn \in {"no", "yes", "closing"} /\ s.auth \in Auths
            /\ s.key \in {"none", "product", "device"} /\ s.cmd \in Cmds
            /\ s.ind \in BOOLEAN /\ s.ntf \in BOOLEAN /\ s.enc \in BOOLEAN /\ s.cb \in BOOLEAN
Fits(s) == Shape(s) /\ Modes(s) /\ Counted(s) /\ Apiece(s.timers)

(* The lengths of messages. *)
LEMMA LensNat == Lens \subseteq Nat /\ {0, 1, 2} \subseteq Lens
BY BreezeAssumption DEF Lens, BreezeAssumption

(* A timer that is stopped does not run, and the others do. *)
LEMMA StoppedApiece ==
  ASSUME NEW q, Apiece(q), NEW t
  PROVE  Apiece(Stopped(q, t)) /\ \A i \in DOMAIN Stopped(q, t) : Stopped(q, t)[i] # t
<1>1. CASE ~\E i \in DOMAIN q : q[i] = t
  BY <1>1 DEF Stopped
<1>2. CASE \E i \in DOMAIN q : q[i] = t
  <2>1. PICK k \in DOMAIN q : q[k] = t /\ k = CHOOSE i \in DOMAIN q : q[i] = t
    BY <1>2
  <2>2. Stopped(q, t) = Without(q, k)
    BY <1>2, <2>1 DEF Stopped
  <2> DEFINE p == Without(q, k)
  <2>3. /\ p \in Seq(Kinds) /\ DOMAIN p = 1 .. Len(q) - 1 /\ Len(q) \in Nat
        /\ DOMAIN q = 1 .. Len(q) /\ k \in 1 .. Len(q)
        /\ \A j \in DOMAIN p : p[j] = IF j < k THEN q[j] ELSE q[j + 1]
    BY <2>1, Withouts DEF Apiece
  <2> HIDE DEF p
  <2> DEFINE f(j) == IF j < k THEN j ELSE j + 1
  <2>4. \A j \in DOMAIN p : f(j) \in DOMAIN q /\ f(j) # k /\ p[j] = q[f(j)]
    BY <2>3
  <2>5. \A i, j \in DOMAIN p : f(i) = f(j) => i = j
    BY <2>3
  <2> HIDE DEF f
  <2>6. Apiece(p) /\ \A i \in DOMAIN p : p[i] # t
    BY <2>1, <2>3, <2>4, <2>5 DEF Apiece
  <2> QED BY <2>2, <2>6 DEF p
<1> QED BY <1>1, <1>2

(* A timer that is added where it does not run. *)
LEMMA AddedApiece ==
  ASSUME NEW q, Apiece(q), NEW t \in Kinds, \A i \in DOMAIN q : q[i] # t
  PROVE  Apiece(Append(q, t))
<1>1. /\ Append(q, t) \in Seq(Kinds) /\ DOMAIN Append(q, t) = 1 .. Len(q) + 1 /\ Len(q) \in Nat
      /\ DOMAIN q = 1 .. Len(q)
      /\ \A i \in DOMAIN q : Append(q, t)[i] = q[i]
      /\ Append(q, t)[Len(q) + 1] = t
  BY DEF Apiece
<1> DEFINE p == Append(q, t)
<1> HIDE DEF p
<1> QED BY <1>1 DEF Apiece, p

(* There are two of them. *)
LEMMA FewTimers == ASSUME NEW q, Apiece(q) PROVE Len(q) <= 2
<1>1. q \in Seq(Kinds) /\ Len(q) \in Nat /\ DOMAIN q = 1 .. Len(q)
  BY DEF Apiece
<1> SUFFICES ASSUME Len(q) >= 3 PROVE FALSE
  BY <1>1
<1>2. {1, 2, 3} \subseteq DOMAIN q
  BY <1>1
<1>3. q[1] \in Kinds /\ q[2] \in Kinds /\ q[3] \in Kinds
  BY <1>1, <1>2
<1> QED BY <1>2, <1>3 DEF Apiece, Kinds

(* The timers are started and stopped. *)
LEMMA TimersFit ==
  ASSUME NEW s, Fits(s), NEW t \in Kinds
  PROVE  Fits(StopTimer(s, t)) /\ Fits(StartTimer(s, t))
<1> DEFINE p == Stopped(s.timers, t)
           r == Append(p, t)
<1>1. Apiece(p) /\ Apiece(r)
  BY StoppedApiece, AddedApiece DEF Fits
<1>2. StopTimer(s, t) = [s EXCEPT !.timers = p] /\ StartTimer(s, t) = [s EXCEPT !.timers = r]
  BY DEF StopTimer, StartTimer
<1> HIDE DEF p, r
<1> QED BY <1>1, <1>2 DEF Fits, Shape, Fields, Modes, Counted

(* reset_tx. *)
LEMMA ResetFits == ASSUME NEW s, Fits(s) PROVE Fits(ResetTx(s))
<1> DEFINE t == [s EXCEPT !.cmd = "none", !.len = 0, !.sent = 0, !.req = 0, !.cfm = 0,
                          !.modes = {}, !.refused = FALSE, !.air = Orphan(@)]
<1>1. Fits(t)
  BY LensNat DEF Fits, Shape, Fields, Modes, Counted, Cmds
<1> HIDE DEF t
<1>2. Fits(StopTimer(t, "tx"))
  BY <1>1, TimersFit DEF Kinds
<1> QED BY <1>2 DEF ResetTx, t

(* send_fragment is called when a part of the message is left, or for an
   empty one.                                                              *)
LEMMA FragmentFits ==
  ASSUME NEW s, Fits(s), s.sent < s.len \/ s.req = 0, NEW ok
  PROVE  Fits(SendFragment(s, ok))
<1> DEFINE t == [s EXCEPT !.cb = @ \/ Usable(s)]
           sent == IF s.sent < s.len THEN s.sent + 1 ELSE s.sent
           req == s.req + 1
           v == [t EXCEPT !.req = @ + 1, !.sent = IF @ < s.len THEN @ + 1 ELSE @,
                          !.air = Append(@, [how |-> "ind", own |-> TRUE]), !.modes = @ \cup {<<s.enc, s.key>>}]
           u == IF ~Accepts(s, ok) THEN t ELSE v
<1>1. (s.cb \/ Usable(s)) \in BOOLEAN
  OBVIOUS
<1>2. Fits(t) /\ t.sent = s.sent /\ t.req = s.req /\ t.len = s.len /\ t.cfm = s.cfm
  BY <1>1 DEF Fits, Shape, Fields, Modes, Counted
<1> HIDE DEF t
<1>3. s.len \in Nat /\ s.sent \in 0..s.len /\ s.req \in Nat /\ (s.req = s.sent \/ s.len = 0)
  <2>1. s.len \in Nat /\ s.sent \in 0..s.len /\ (s.req = s.sent \/ (s.len = 0 /\ s.req = 1))
    BY LensNat DEF Fits, Counted
  <2> QED BY <2>1
<1>4. sent \in 0..s.len /\ (req = sent \/ (s.len = 0 /\ req = 1))
  BY <1>3 DEF Fits, Counted
<1>5. v.sent = sent /\ v.req = req /\ v.len = s.len /\ v.cfm = s.cfm
  BY <1>2 DEF Fits, Shape, Fields
<1> HIDE DEF sent, req
<1>6. Fits(v)
  <2>1. Shape(v) /\ Modes(v) /\ Apiece(v.timers)
    BY <1>2 DEF Fits, Shape, Fields, Modes
  <2>2. Counted(v)
    BY <1>4, <1>5 DEF Fits, Counted
  <2> QED BY <2>1, <2>2 DEF Fits
<1>7. Fits(u)
  BY <1>2, <1>6
<1>8. SendFragment(s, ok) = IF u.sent < u.len THEN StartTimer(u, "tx") ELSE u
  BY DEF SendFragment, t
<1> HIDE DEF u
<1> QED BY <1>7, <1>8, TimersFit DEF Kinds

(* transport_tx, before the first packet. *)
LEMMA BeginFits ==
  ASSUME NEW s, Fits(s), NEW cmd \in Cmds, NEW n \in Lens
  PROVE  /\ Fits(Begin(s, cmd, n)) /\ Begin(s, cmd, n).req = 0 /\ Begin(s, cmd, n).len = n
         /\ Begin(s, cmd, n).sent = 0
         /\ Fits(Refuse(s, cmd))
<1>1. Encrypts(s, cmd) \in BOOLEAN
  BY DEF Encrypts
<1>2. n \in Nat
  BY LensNat
<1> QED BY <1>1, <1>2 DEF Begin, Refuse, Fits, Shape, Fields, Modes, Counted

(* transport_tx: refused, or begun with its first packet. *)
LEMMA TxFits ==
  ASSUME NEW s, Fits(s), NEW cmd \in Cmds, NEW n \in Lens, NEW ok
  PROVE  Fits(Tx(s, cmd, n, ok))
BY BeginFits, FragmentFits DEF Tx

(* Changes of the authentication, and its timer. *)
LEMMA AuthFits ==
  ASSUME NEW s, Fits(s), NEW a \in Auths
  PROVE  Fits([s EXCEPT !.auth = a]) /\ [s EXCEPT !.auth = a].auth = a
BY DEF Fits, Shape, Fields, Modes, Counted

(* auth_reset. *)
LEMMA AuthResetFits == ASSUME NEW s, Fits(s) PROVE Fits(AuthReset(s))
BY AuthFits, TimersFit DEF AuthReset, Auths, Kinds

(* What the authentication sends. *)
LEMMA AuthTxFits ==
  ASSUME NEW s, Fits(s), NEW cmd \in Cmds, NEW n \in Lens, NEW ok
  PROVE  Fits(AuthTx(s, cmd, n, ok))
BY TxFits, AuthResetFits DEF AuthTx

(* auth_tx_done. *)
LEMMA AuthTxDoneFits == ASSUME NEW s, Fits(s), NEW ok PROVE Fits(AuthTxDone(s, ok))
<1>1. CASE s.auth = "SVC_ENABLED"
  <2> DEFINE t == [s EXCEPT !.auth = "RAND_SENT"]
  <2>1. Fits(t)
    BY AuthFits DEF Auths
  <2> HIDE DEF t
  <2>2. Fits(AuthTx(t, "KEY", 2, ok))
    BY <2>1, AuthTxFits, LensNat DEF Cmds
  <2> QED BY <1>1, <2>2 DEF AuthTxDone, t
<1>2. CASE s.auth # "SVC_ENABLED"
  BY <1>2 DEF AuthTxDone, Fits, Shape, Fields, Modes, Counted
<1> QED BY <1>1, <1>2

(* TX_DONE, with what is posted from it. *)
LEMMA DoneFits == ASSUME NEW s, Fits(s), NEW n \in Lens, NEW ok PROVE Fits(Done(s, n, ok))
<1> DEFINE e == \E i \in DOMAIN s.air : s.air[i] = [how |-> "ind", own |-> TRUE]
           t == [s EXCEPT !.early = @ \/ e, !.done = @ \cup {s.cmd}]
           u == IF n = 0 THEN t ELSE Tx(t, "STATUS", n, ok)
<1> HIDE DEF e
<1>1. Fits(t)
  BY DEF Fits, Shape, Fields, Modes, Counted
<1> HIDE DEF t
<1>2. Fits(u)
  BY <1>1, TxFits DEF Cmds
<1> HIDE DEF u
<1>3. Fits(AuthTxDone(ResetTx(u), ok))
  BY <1>2, ResetFits, AuthTxDoneFits
<1> QED BY <1>3 DEF Done, e, t, u

(* transport_txdone. *)
LEMMA TxDoneFits ==
  ASSUME NEW s, Fits(s), NEW n \in Lens, NEW ok
  PROVE  Fits(TxDone(s, 1, n, ok))
<1> DEFINE c == s.cfm + 1
           t == [s EXCEPT !.cfm = c]
<1>1. c \in Nat
  BY DEF Fits, Counted
<1> HIDE DEF c
<1>2. Fits(t)
  BY <1>1 DEF Fits, Shape, Fields, Modes, Counted
<1>3. t = [s EXCEPT !.cfm = @ + 1]
  BY DEF c
<1> HIDE DEF t
<1>4. Fits(ResetTx(t)) /\ Fits(Done(t, n, ok)) /\ (t.sent < t.len => Fits(SendFragment(t, ok)))
  BY <1>2, ResetFits, DoneFits, FragmentFits
<1> QED BY <1>2, <1>3, <1>4 DEF TxDone

(* The error notification. *)
LEMMA NotifyFits == ASSUME NEW s, Fits(s), NEW ok PROVE Fits(Notify(s, ok))
<1> DEFINE t == Begin(s, "ERR", 0)
           u == [t EXCEPT !.req = 1, !.air = Append(@, [how |-> "ntf", own |-> TRUE])]
<1>1. Fits(t) /\ t.len = 0 /\ t.sent = 0 /\ Fits(Refuse(s, "ERR"))
  BY BeginFits, LensNat DEF Cmds
<1> HIDE DEF t
<1>2. Fits(u)
  BY <1>1 DEF Fits, Shape, Fields, Modes, Counted
<1> HIDE DEF u
<1>3. Fits(TxDone(u, 1, 0, ok))
  BY <1>2, TxDoneFits, LensNat
<1> QED BY <1>1, <1>3 DEF Notify, t, u

(* A disconnection is asked for. *)
LEMMA DisconnectFits == ASSUME NEW s, Fits(s) PROVE Fits(Disconnect(s))
BY DEF Disconnect, Fits, Shape, Fields, Modes, Counted

(* A command of the peer. *)
LEMMA CommandsFit == ASSUME NEW s, Fits(s), NEW good, NEW ok PROVE Fits(AuthRx(s, good, ok))
<1> DEFINE r == [s EXCEPT !.auth = "REQ_RECVD"]
           a == IF good THEN "DONE" ELSE "FAILED"
           t == IF s.auth = "RAND_SENT"
                THEN IF ~good THEN [s EXCEPT !.auth = "FAILED"]
                     ELSE IF Busy(r) THEN AuthTx(r, "RSP", 1, ok)
                          ELSE StartTimer(AuthTx(r, "RSP", 1, ok), "auth")
                ELSE IF s.auth = "REQ_RECVD" THEN [s EXCEPT !.auth = a]
                ELSE AuthTx(s, "ERR", 0, ok)
<1>1. Fits(r) /\ Fits([s EXCEPT !.auth = "FAILED"]) /\ Fits([s EXCEPT !.auth = a])
  <2> a \in Auths /\ {"REQ_RECVD", "FAILED"} \subseteq Auths
    BY DEF Auths
  <2> HIDE DEF a
  <2> QED BY AuthFits
<1>2. Fits(AuthTx(r, "RSP", 1, ok)) /\ Fits(StartTimer(AuthTx(r, "RSP", 1, ok), "auth"))
  <2> HIDE DEF r
  <2> QED BY <1>1, AuthTxFits, TimersFit, LensNat DEF Cmds, Kinds
<1>3. Fits(AuthTx(s, "ERR", 0, ok))
  BY AuthTxFits, LensNat DEF Cmds
<1>4. AuthRx(s, good, ok) = IF t.auth = "DONE" THEN StopTimer(t, "auth")
                            ELSE IF t.auth = "FAILED" THEN Disconnect(StopTimer(t, "auth"))
                            ELSE t
  BY DEF AuthRx
<1> HIDE DEF r, a
<1>5. Fits(t)
  BY <1>1, <1>2, <1>3
<1> HIDE DEF t
<1> QED BY <1>4, <1>5, TimersFit, DisconnectFits DEF Kinds

(* A subscription. *)
LEMMA EnablesFit == ASSUME NEW s, Fits(s), NEW ok PROVE Fits(Enabled(s, ok))
<1> DEFINE e == s.retried \/ \A i \in DOMAIN s.timers : s.timers[i] # "auth"
           t == [s EXCEPT !.auth = "SVC_ENABLED", !.retried = e]
<1> HIDE DEF e
<1>1. Fits(t)
  BY DEF Fits, Shape, Fields, Modes, Counted, Auths
<1> HIDE DEF t
<1>2. Fits(AuthTx(t, "RAND", 1, ok))
  BY <1>1, AuthTxFits, LensNat DEF Cmds
<1> QED BY <1>2 DEF Enabled, e, t

(* The timer that expires no longer runs. *)
LEMMA ExpiresApiece == ASSUME NEW q, Apiece(q), q # <<>> PROVE Apiece(Tail(q)) /\ Head(q) \in Kinds
<1>1. /\ Tail(q) \in Seq(Kinds) /\ Len(q) \in Nat \ {0} /\ DOMAIN q = 1 .. Len(q)
      /\ DOMAIN Tail(q) = 1 .. Len(q) - 1 /\ \A i \in 1 .. Len(q) - 1 : Tail(q)[i] = q[i + 1]
      /\ Head(q) \in Kinds
  BY DEF Apiece
<1> DEFINE p == Tail(q)
<1> HIDE DEF p
<1> QED BY <1>1 DEF Apiece, p

\* The invariant: the types of the record b.
FitsB == Fits(b)

(* Every step of the program keeps the types. *)
LEMMA FitsStep == FitsB /\ [Next]_vars => FitsB'
<1> SUFFICES ASSUME Fits(b), [Next]_vars PROVE Fits(b')
  BY DEF FitsB
<1>0. {0} \cup Sizes \subseteq Lens
  BY DEF Lens
<1>1. CASE Post
  <2>1. PICK n \in Sizes, ok \in BOOLEAN : b' = Tx(b, "STATUS", n, ok)
    BY <1>1 DEF Post
  <2> QED BY <1>0, <2>1, TxFits DEF Cmds
<1>2. CASE Connected
  <2> DEFINE s == [b EXCEPT !.conn = "yes", !.ind = FALSE, !.ntf = FALSE, !.auth = "CONNECTED",
                            !.key = "product", !.cut = FALSE, !.done = {}, !.retried = FALSE]
  <2>1. Fits(s)
    BY DEF Fits, Shape, Fields, Modes, Counted, Auths
  <2> HIDE DEF s
  <2>2. b' = StartTimer(s, "auth")
    BY <1>2 DEF Connected, s
  <2> QED BY <2>1, <2>2, TimersFit DEF Kinds
<1>3. CASE Disconnected
  <2> DEFINE s == ResetTx(AuthReset(b))
  <2>1. Fits(s)
    BY AuthResetFits, ResetFits
  <2> HIDE DEF s
  <2>2. Fits([s EXCEPT !.conn = "no", !.ind = FALSE, !.ntf = FALSE, !.air = <<>>])
    BY <2>1 DEF Fits, Shape, Fields, Modes, Counted
  <2> QED BY <1>3, <2>2 DEF Disconnected, s
<1>4. CASE Subscribe
  <2>1. PICK on \in BOOLEAN, ok \in BOOLEAN : \/ b' = Enabled([b EXCEPT !.ind = on], ok)
                                              \/ b' = Enabled([b EXCEPT !.ntf = on], ok)
    BY <1>4 DEF Subscribe
  <2>2. Fits([b EXCEPT !.ind = on]) /\ Fits([b EXCEPT !.ntf = on])
    BY DEF Fits, Shape, Fields, Modes, Counted
  <2> QED BY <2>1, <2>2, EnablesFit
<1>5. CASE Completes
  <2>1. PICK i \in DOMAIN b.air, n \in {0} \cup Sizes, ok \in BOOLEAN :
          LET s == [Drop(b, i) EXCEPT !.stray = @ \/ (b.cb /\ ~b.air[i].own)]
          IN  b' = IF b.cb THEN TxDone(s, 1, n, ok) ELSE s
    BY <1>5 DEF Completes
  <2> DEFINE s == [Drop(b, i) EXCEPT !.stray = @ \/ (b.cb /\ ~b.air[i].own)]
  <2>2. Fits(s)
    BY DEF Drop, Fits, Shape, Fields, Modes, Counted
  <2>3. b' = IF b.cb THEN TxDone(s, 1, n, ok) ELSE s
    BY <2>1
  <2> HIDE DEF s
  <2> QED BY <1>0, <2>2, <2>3, TxDoneFits
<1>6. CASE Fails
  <2>1. ASSUME NEW i PROVE Fits(Drop(b, i))
    BY DEF Drop, Fits, Shape, Fields, Modes, Counted
  <2> QED BY <1>6, <2>1 DEF Fails
<1>7. CASE Receives
  BY <1>7, CommandsFit DEF Receives
<1>8. CASE Garbled
  BY <1>8, NotifyFits DEF Garbled
<1>9. CASE Expires
  <2> DEFINE s == [b EXCEPT !.timers = Tail(@)]
  <2>1. Fits(s)
    <3>1. Apiece(Tail(b.timers))
      BY <1>9, ExpiresApiece DEF Expires, Fits
    <3> QED BY <3>1 DEF Fits, Shape, Fields, Modes, Counted
  <2>2. b' = IF Head(b.timers) = "auth" THEN Disconnect(AuthReset(s)) ELSE [ResetTx(s) EXCEPT !.cut = TRUE]
    BY <1>9 DEF Expires
  <2> HIDE DEF s
  <2>3. Fits(Disconnect(AuthReset(s)))
    BY <2>1, AuthResetFits, DisconnectFits
  <2> DEFINE r == ResetTx(s)
  <2>4. Fits(r)
    BY <2>1, ResetFits
  <2> HIDE DEF r
  <2>5. Fits([r EXCEPT !.cut = TRUE])
    BY <2>4 DEF Fits, Shape, Fields, Modes, Counted
  <2> QED BY <2>2, <2>3, <2>5 DEF r
<1>10. CASE UNCHANGED vars
  BY <1>10 DEF vars
<1> QED BY <1>1, <1>2, <1>3, <1>4, <1>5, <1>6, <1>7, <1>8, <1>9, <1>10 DEF Next

(* For every value of the constants: the counters of packets agree with the
   message, whatever was reset, refused and posted from a callback in
   between, and each of the two timers runs once at most, wherever it was
   started again (transport.c:202, auth.c:107).                            *)
THEOREM BreezeTypeCorrect == Spec => []TypeOK
<1>1. Init => FitsB
  BY LensNat DEF Init, Globals, FitsB, Fits, Shape, Fields, Modes, Counted, Apiece, Auths, Cmds
<1>2. FitsB => TypeOK
  <2> SUFFICES ASSUME Fits(b) PROVE TypeOK
    BY DEF FitsB
  <2>1. Len(b.timers) <= 2
    BY FewTimers DEF Fits
  <2> QED BY <2>1 DEF Fits, TypeOK, Modes, Counted, Apiece, Auths, Cmds, Lens
<1> QED BY <1>1, <1>2, FitsStep, PTL DEF Spec
=============================================================================
