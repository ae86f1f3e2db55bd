------------------------------- MODULE Breeze -------------------------------
(***************************************************************************)
(* The Breeze BLE service of a device: the transmitter of transport.c,     *)
(* which sends one message at a time as indications of at most one packet  *)
(* each, the authentication of auth.c that is driven by what it sends and  *)
(* receives, and the callbacks of the BLE stack. A handler is one step and *)
(* is written as an operator on the record b of the modules' globals, for  *)
(* handlers call one another: transport_txdone reports TX_DONE to the      *)
(* application, which may post again from there, and to auth_tx_done,      *)
(* which sends the next message.                                           *)
(*                                                                         *)
(* A message is measured in packets. The two timers both run for 10 s      *)
(* (BZ_AUTH_TIMEOUT, BZ_TRANSPORT_TIMEOUT): they expire in the order in    *)
(* which they were started.                                                *)
(***************************************************************************)
EXTENDS Integers, Sequences, FiniteSets

CONSTANTS Sizes,                                    \* of what is posted
          MaxPosts, MaxWrites, MaxFaults, MaxConns  \* bounds; writes of the peer
                                                    \* are counted per connection

ASSUME BreezeAssumption ==
    /\ Sizes \subseteq Nat \ {0} /\ {MaxPosts, MaxWrites, MaxFaults, MaxConns} \subseteq Nat

VARIABLES b, posts, writes, faults, conns

vars == <<b, posts, writes, faults, conns>>

\* conn, ind, ntf: g_ais, "closing" from le_disconnect to the event;
\* auth, key: g_auth.state, and the key in p_key; cmd to cfm: g_transport.tx;
\* timers: those running, the one to expire first at the head; cb: txdone_cb
\* is set; air: packets the stack has taken and not reported, own (history) if
\* their message is still the one in progress. History: modes, how the packets
\* of the message went out; refused, whether a call was refused meanwhile;
\* stray, whether a report was ever taken for one of another message's packet;
\* early, whether TX_DONE was told with an indication of the message in the air;
\* since the device connected: cut, whether the timer ended a message; done, the
\* commands TX_DONE was told for; retried, whether auth_service_enabled was called with no timer running.
Globals == [conn |-> "no", ind |-> FALSE, ntf |-> FALSE, auth |-> "IDLE", key |-> "none",
            cmd |-> "none", len |-> 0, sent |-> 0, enc |-> FALSE, req |-> 0, cfm |-> 0,
            timers |-> <<>>, cb |-> FALSE, air |-> <<>>, modes |-> {}, refused |-> FALSE,
            stray |-> FALSE, early |-> FALSE, cut |-> FALSE, done |-> {}, retried |-> FALSE]

Init == b = Globals /\ posts = 0 /\ writes = 0 /\ faults = 0 /\ conns = 0

---------------------------- (* transport.c, tx *) --------------------------
Without(q, i) == SubSeq(q, 1, i - 1) \o SubSeq(q, i + 1, Len(q))
Stopped(q, t) == IF \E i \in DOMAIN q : q[i] = t THEN Without(q, CHOOSE i \in DOMAIN q : q[i] = t) ELSE q
StopTimer(s, t) == [s EXCEPT !.timers = Stopped(@, t)]
\* Mutant: a timer that runs is started once more.
StartAgain(s, t) == [s EXCEPT !.timers = Append(@, t)]

StartTimer(s, t) == [s EXCEPT !.timers = Append(Stopped(@, t), t)]

\* The packets in the air now belong to a message that is over.
Orphan(air) == [i \in DOMAIN air |-> [air[i] EXCEPT !.own = FALSE]]

\* Mutant: the packets that were asked for and confirmed are still counted.
ResetKeepsCount(s) == StopTimer([s EXCEPT !.cmd = "none", !.len = 0, !.sent = 0, !.modes = {},
                                          !.refused = FALSE, !.air = Orphan(@)], "tx")

\* reset_tx.
ResetTx(s) == StopTimer([s EXCEPT !.cmd = "none", !.len = 0, !.sent = 0, !.req = 0, !.cfm = 0,
                                  !.modes = {}, !.refused = FALSE, !.air = Orphan(@)], "tx")

Busy(s) == s.sent < s.len \/ s.req # s.cfm

\* send_fragment and ble_ais_send_indication: one packet, which the stack
\* refuses while another indication is not confirmed, and when ok is false.
\* What is left to send is watched by the timer.
Usable(s) == s.conn # "no" /\ s.ind
Accepts(s, ok) == ok /\ Usable(s) /\ \A i \in DOMAIN s.air : s.air[i].how # "ind"
SendFragment(s, ok) ==
    LET t == [s EXCEPT !.cb = @ \/ Usable(s)]
        u == IF ~Accepts(s, ok) THEN t
             ELSE [t EXCEPT !.req = @ + 1, !.sent = IF @ < s.len THEN @ + 1 ELSE @,
                            !.air = Append(@, [how |-> "ind", own |-> TRUE]),
                            !.modes = @ \cup {<<s.enc, s.key>>}]
    IN  IF u.sent < u.len THEN StartTimer(u, "tx") ELSE u

\* transport_tx: whether it encrypts is decided before it is known to be free.
Encrypts(s, cmd) == s.key # "none" /\ cmd \in {"STATUS", "KEY", "RSP"}
Refuse(s, cmd) == [s EXCEPT !.enc = Encrypts(s, cmd), !.refused = TRUE]
Begin(s, cmd, n) == [s EXCEPT !.enc = Encrypts(s, cmd), !.cmd = cmd, !.len = n, !.sent = 0,
                              !.req = 0, !.cfm = 0, !.modes = {}, !.refused = FALSE, !.air = Orphan(@)]
Tx(s, cmd, n, ok) == IF Busy(s) THEN Refuse(s, cmd) ELSE SendFragment(Begin(s, cmd, n), ok)

-------------------------------- (* auth.c *) -------------------------------
\* auth_reset, and ble_disconnect.
AuthReset(s) == StopTimer([s EXCEPT !.auth = "IDLE"], "auth")
\* Mutant: the connection is kept.
KeepConnection(s) == s
Disconnect(s) == [s EXCEPT !.conn = IF @ = "yes" THEN "closing" ELSE @]

\* Mutant: the error of transport_tx is ignored.
AuthTxIgnores(s, cmd, n, ok) == Tx(s, cmd, n, ok)

\* g_auth.tx_func; its error goes to core_handle_err.
AuthTx(s, cmd, n, ok) == IF Busy(s) THEN AuthReset(Tx(s, cmd, n, ok)) ELSE Tx(s, cmd, n, ok)

\* auth_tx_done, called for every message; the key of the device takes two packets.
AuthTxDone(s, ok) ==
    IF s.auth = "SVC_ENABLED" THEN AuthTx([s EXCEPT !.auth = "RAND_SENT"], "KEY", 2, ok)
    ELSE IF s.auth = "RAND_SENT" THEN [s EXCEPT !.key = "device"]
    ELSE s

\* Mutant: reset_tx comes before the callback, so that what it posts is kept.
ResetThenDone(s, n, ok) ==
    LET t == ResetTx(s)
    IN  AuthTxDone(IF n = 0 THEN t ELSE Tx(t, "STATUS", n, ok), ok)

\* TX_DONE; the application may post a message of n packets from the callback
\* (if n is not 0), before reset_tx.
Done(s, n, ok) ==
    LET t == [s EXCEPT !.early = @ \/ \E i \in DOMAIN s.air : s.air[i] = [how |-> "ind", own |-> TRUE],
                          !.done = @ \cup {s.cmd}]
    IN  AuthTxDone(ResetTx(IF n = 0 THEN t ELSE Tx(t, "STATUS", n, ok)), ok)

\* Mutant: done when the last packet has been asked for.
TellsEarly(s, k, n, ok) ==
    LET t == [s EXCEPT !.cfm = @ + k]
    IN  IF t.sent < t.len THEN LET u == SendFragment(t, ok) IN IF u.sent = u.len THEN Done(u, n, ok) ELSE u
        ELSE IF t.req = t.cfm /\ t.req # 0 THEN Done(t, n, ok)
        ELSE t

\* transport_txdone(k).
TxDone(s, k, n, ok) ==
    LET t == [s EXCEPT !.cfm = @ + k]
    IN  IF t.sent < t.len THEN SendFragment(t, ok)
        ELSE IF t.req = t.cfm /\ t.req # 0 THEN Done(t, n, ok)
        ELSE IF t.req < t.cfm THEN ResetTx(t)
        ELSE t

\* Whether TxDone(s, k, ...) tells the application.
Tells(s, k) == s.sent >= s.len /\ s.req = s.cfm + k /\ s.req # 0

\* core_handle_err for a frame that cannot be: an empty notification, which is
\* done as soon as the stack has taken it.
Notify(s, ok) ==
    IF Busy(s) THEN Refuse(s, "ERR")
    ELSE LET t == Begin(s, "ERR", 0)
         IN  IF ~(ok /\ s.conn # "no" /\ s.ntf) THEN t
             ELSE TxDone([t EXCEPT !.req = 1, !.air = Append(@, [how |-> "ntf", own |-> TRUE])], 1, 0, ok)

\* auth_rx_command; good: the command is the expected one with its text.
AuthRx(s, good, ok) ==
    LET t == IF s.auth = "RAND_SENT"
             THEN IF ~good THEN [s EXCEPT !.auth = "FAILED"]
                  ELSE LET r == [s EXCEPT !.auth = "REQ_RECVD"]
                       IN  IF Busy(r) THEN AuthTx(r, "RSP", 1, ok)
                           ELSE StartTimer(AuthTx(r, "RSP", 1, ok), "auth")
             ELSE IF s.auth = "REQ_RECVD" THEN [s EXCEPT !.auth = IF good THEN "DONE" ELSE "FAILED"]
             ELSE AuthTx(s, "ERR", 0, ok)
    IN  IF t.auth = "DONE" THEN StopTimer(t, "auth")
        ELSE IF t.auth = "FAILED" THEN Disconnect(StopTimer(t, "auth"))
        ELSE t

-------------------------- (* What happens to a device *) -------------------
Counts == UNCHANGED <<posts, writes, faults, conns>>
Write == b.conn # "no" /\ writes < MaxWrites /\ writes' = writes + 1 /\ UNCHANGED <<posts, conns>>
Fault(ok) == faults' = faults + (IF ok THEN 0 ELSE 1) /\ faults' <= MaxFaults

\* breeze_post and breeze_post_ext, at any time.
Post == /\ posts < MaxPosts /\ posts' = posts + 1
        /\ \E n \in Sizes, ok \in BOOLEAN : b' = Tx(b, "STATUS", n, ok) /\ Fault(ok)
        /\ UNCHANGED <<writes, conns>>

\* on_connected, with auth_connected; on_disconnected, with core_reset.
Connected == /\ b.conn = "no" /\ conns < MaxConns /\ conns' = conns + 1 /\ writes' = 0
             /\ b' = StartTimer([b EXCEPT !.conn = "yes", !.ind = FALSE, !.ntf = FALSE,
                                          !.auth = "CONNECTED", !.key = "product", !.cut = FALSE, !.done = {},
                                          !.retried = FALSE], "auth")
             /\ UNCHANGED <<posts, faults>>

Disconnected == /\ b.conn # "no"
                /\ b' = [ResetTx(AuthReset(b)) EXCEPT !.conn = "no", !.ind = FALSE, !.ntf = FALSE,
                                                      !.air = <<>>]
                /\ Counts

\* ic_ccc_handler, nc_ccc_handler, service_enabled and auth_service_enabled.
Enabled(s, ok) ==
    IF ~(s.ind /\ s.ntf) THEN s
    ELSE AuthTx([s EXCEPT !.auth = "SVC_ENABLED",
                          !.retried = @ \/ \A i \in DOMAIN s.timers : s.timers[i] # "auth"], "RAND", 1, ok)
Subscribe == /\ Write
             /\ \E on, ok \in BOOLEAN :
                  /\ \/ b' = Enabled([b EXCEPT !.ind = on], ok)
                     \/ b' = Enabled([b EXCEPT !.ntf = on], ok)
                  /\ Fault(ok)

\* PROFILE_EVT_SEND_DATA_COMPLETE, for an indication that was confirmed or a
\* notification that was sent. Both call txdone_cb, once there has been one.
Drop(s, i) == [s EXCEPT !.air = Without(@, i)]
Completes ==
    /\ \E i \in DOMAIN b.air, n \in {0} \cup Sizes, ok \in BOOLEAN :
         LET s == [Drop(b, i) EXCEPT !.stray = @ \/ (b.cb /\ ~b.air[i].own)]
         IN  /\ b' = IF b.cb THEN TxDone(s, 1, n, ok) ELSE s
             /\ n # 0 => b.cb /\ Tells(s, 1) /\ posts < MaxPosts
             /\ posts' = IF n = 0 THEN posts ELSE posts + 1
             /\ Fault(ok)
    /\ UNCHANGED <<writes, conns>>

\* The same event with another cause than GAP_SUCCESS.
Fails == /\ \E i \in DOMAIN b.air : b' = Drop(b, i)
         /\ Fault(FALSE) /\ UNCHANGED <<posts, writes, conns>>

\* transport_rx: a command of the authentication, or a frame it refuses.
Receives == /\ Write
            /\ \E good, ok \in BOOLEAN : b' = AuthRx(b, good, ok) /\ Fault(ok)
Garbled == /\ Write
           /\ \E ok \in BOOLEAN : b' = Notify(b, ok) /\ Fault(ok)

\* on_timeout of auth.c, by way of core_handle_err; on_tx_timeout.
Expires == /\ b.timers # <<>>
           /\ LET s == [b EXCEPT !.timers = Tail(@)]
              IN  b' = IF Head(b.timers) = "auth" THEN Disconnect(AuthReset(s))
                     ELSE [ResetTx(s) EXCEPT !.cut = TRUE]
           /\ Counts

Next == \/ Post \/ Connected \/ Disconnected \/ Subscribe \/ Completes \/ Fails
        \/ Receives \/ Garbled \/ Expires

Spec == Init /\ [][Next]_vars

\* Timers expire, and the stack reports every packet and ends a connection
\* that it was told to end.
FairSpec == Spec /\ WF_vars(Expires) /\ WF_vars(Completes)
                 /\ WF_vars(b.conn = "closing" /\ Disconnected)

------------------------------ (* Properties *) -----------------------------
\* The type of the state. Every packet asked for carries a part of the message
\* or is the one of an empty message; a timer runs once at most.
TypeOK ==
    /\ b.conn \in {"no", "yes", "closing"} /\ {b.ind, b.ntf, b.enc, b.cb} \subseteq BOOLEAN
    /\ b.auth \in {"IDLE", "CONNECTED", "SVC_ENABLED", "RAND_SENT", "REQ_RECVD", "DONE", "FAILED"}
    /\ b.key \in {"none", "product", "device"}
    /\ b.cmd \in {"none", "STATUS", "RAND", "KEY", "RSP", "ERR"}
    /\ b.len \in Sizes \cup 0..2 /\ b.sent \in 0..b.len /\ b.cfm \in Nat
    /\ b.req = b.sent \/ (b.len = 0 /\ b.req = 1)
    /\ Len(b.timers) <= 2 /\ \A i, j \in DOMAIN b.timers : b.timers[i] = b.timers[j] => i = j

\* The packets of a message all go out in one way, in clear or under one key,
\* whatever connects, disconnects and authenticates meanwhile; unless
\* transport_tx was called and refused, which leaves its choice behind.
OneMode == b.refused \/ Cardinality(b.modes) <= 1

\* "TX_DONE, // send data complete": it is told when no packet of the message
\* is in the air, unless another message's packet was counted for one of it.
DoneWhenSent == b.early => b.stray

\* The device goes over to its own key when the peer has been sent the random
\* number and its name, the two the peer derives the key from: auth_tx_done is
\* called for messages of the application as well. Not so after a message of
\* the connection was ended by the timer, when any other counts for it.
KeyAgreed == b.key = "device" => {"RAND", "KEY"} \subseteq b.done \/ b.cut \/ b.stray

\* A connection that does not authenticate is closed, or the authentication
\* was given up, on an error; or it was begun again without the timer.
AuthEnds == (b.conn = "yes" /\ b.auth \notin {"IDLE", "DONE"})
                ~> (b.conn # "yes" \/ b.auth \in {"IDLE", "DONE"} \/ b.retried)

\* The transmitter becomes free again, if the stack fails no packet.
TxFrees == Busy(b) ~> (~Busy(b) \/ faults > 0)
=============================================================================
