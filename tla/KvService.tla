----------------------------- MODULE KvService -----------------------------
(***************************************************************************)
(* What mkv.h promises the threads that call it: two layers of keys, the   *)
(* writable one in front of the factory one, and calls that take effect    *)
(* at one moment between call and return.                                  *)
(***************************************************************************)
EXTENDS Naturals

CONSTANTS Clients, Keys, Vals, NoVal, Length, Prefixes, Caps, Factory,
          Asks

VARIABLES
    kv, ro,     \* the layers: key -> value
    st,         \* st[c]: c is "idle", has "asked" or its call is "done"
    req,        \* req[c]: what c asks
    ans         \* ans[c]: what the call answered

vars == <<kv, ro, st, req, ans>>

Requests == [cmd : {"SET"}, key : Keys, val : Vals, cap : {0}]
    \cup    [cmd : {"GET"}, key : Keys, val : {NoVal}, cap : Caps]
    \cup    [cmd : {"DEL"}, key : Keys, val : {NoVal}, cap : {0}]
    \cup    [cmd : {"DEL_PREFIX"}, key : Prefixes, val : {NoVal}, cap : {0}]
Values   == Vals \cup {NoVal}
Lens     == {0} \cup Caps \cup {Length[v] : v \in Vals}
NoReq    == [cmd |-> "none"]
Nothing  == [rc |-> "none", out |-> NoVal, len |-> 0]

Init == /\ kv = [k \in Keys |-> NoVal] /\ ro = Factory
        /\ st = [c \in Clients |-> "idle"]
        /\ req = [c \in Clients |-> NoReq] /\ ans = [c \in Clients |-> Nothing]

Ask(c) == /\ st[c] = "idle" /\ st' = [st EXCEPT ![c] = "asked"]
          /\ \E r \in Asks[c] : req' = [req EXCEPT ![c] = r]
          /\ UNCHANGED <<kv, ro, ans>>

\* A written value hides the factory one.
Shown(k) == IF kv[k] # NoVal THEN kv[k] ELSE ro[k]

Set(r, a) == \/ a.rc = "ok" /\ kv' = [kv EXCEPT ![r.key] = r.val] /\ ro' = ro
             \/ a.rc = "nospace" /\ UNCHANGED <<kv, ro>>

\* The value shown and its real length. A buffer that is too small gets an
\* error and nothing else, and the length that is needed.
Get(r, a) == /\ UNCHANGED <<kv, ro>>
             /\ IF Shown(r.key) = NoVal THEN a.rc = "notfound" /\ a.out = NoVal
                ELSE /\ a.len = Length[Shown(r.key)]
                     /\ IF Length[Shown(r.key)] <= r.cap
                        THEN a.rc = "ok" /\ a.out = Shown(r.key)
                        ELSE a.rc # "ok" /\ a.out = NoVal

Delete(r, a) == /\ a.rc = IF Shown(r.key) = NoVal THEN "notfound" ELSE "ok"
                /\ kv' = [kv EXCEPT ![r.key] = NoVal]
                /\ ro' = [ro EXCEPT ![r.key] = NoVal]

\* Keys written under the prefix fall back to their factory values.
DeletePrefix(r, a) == /\ a.rc = "ok" /\ ro' = ro
                      /\ kv' = [k \in Keys |-> IF k \in r.key THEN NoVal ELSE kv[k]]

Serve(c) == /\ st[c] = "asked" /\ st' = [st EXCEPT ![c] = "done"]
            /\ \E a \in [rc : {"ok", "nospace", "notfound"}, out : Values, len : Lens] :
                  /\ ans' = [ans EXCEPT ![c] = a]
                  /\ \/ req[c].cmd = "SET" /\ Set(req[c], a)
                     \/ req[c].cmd = "GET" /\ Get(req[c], a)
                     \/ req[c].cmd = "DEL" /\ Delete(req[c], a)
                     \/ req[c].cmd = "DEL_PREFIX" /\ DeletePrefix(req[c], a)
            /\ UNCHANGED req

Return(c) == /\ st[c] = "done" /\ st' = [st EXCEPT ![c] = "idle"]
             /\ ans' = [ans EXCEPT ![c] = Nothing]
             /\ req' = [req EXCEPT ![c] = NoReq]
             /\ UNCHANGED <<kv, ro>>

\* Power fails: what took effect stays. Of the deletes asked for, one may have
\* emptied the writable layer only, so that the key has its factory value again,
\* or some of the keys under its prefix.
Fail == /\ st' = [c \in Clients |-> "idle"] /\ ans' = [c \in Clients |-> Nothing]
        /\ \/ kv' = kv
           \/ \E c \in Clients : /\ st[c] = "asked" /\ req[c].cmd = "DEL"
                                 /\ kv' = [kv EXCEPT ![req[c].key] = NoVal]
           \/ \E c \in Clients : /\ st[c] = "asked" /\ req[c].cmd = "DEL_PREFIX"
                                 /\ \E S \in SUBSET req[c].key :
                                       kv' = [k \in Keys |-> IF k \in S THEN NoVal ELSE kv[k]]
        /\ req' = [c \in Clients |-> NoReq] /\ ro' = ro

Next == Fail \/ \E c \in Clients : Ask(c) \/ Serve(c) \/ Return(c)

Spec == Init /\ [][Next]_vars
=============================================================================
