----------------------------- MODULE HttpProofs -----------------------------
(***************************************************************************)
(* Proofs about HttpDownload, for every number of users and contexts, with *)
(* addresses that are used again and handles that are left dangling: a     *)
(* thread that fetches data can be reached through its user's handle, a    *)
(* user that waits has a context that works for it, and is told the end of *)
(* its download once. Of the data: it is given out in order over retries,  *)
(* and all of it before SUCCESS is told.                                   *)
(***************************************************************************)
EXTENDS HttpDownload, FiniteSetTheorems, TLAPS

Records == [user: Users, server: [ranged: BOOLEAN, chunked: BOOLEAN], by: Ctxs \cup {NULL},
            control: {"RUN", "PAUSE", "STOP"}, retry: Nat, total: Int, len: Nat, req: Nat,
            pos: Nat, result: {"none", "redirect", "success"}, cb: BOOLEAN, begun: BOOLEAN]
Typed == /\ handle \in [Users -> Ctxs \cup {NULL}] /\ ctx \in [Ctxs -> Records]
         /\ pc \in [Ctxs -> PCs]
         /\ heard \in [Users -> {"nothing", "waiting", "refused", "lost", "FAILED", "SUCCESS"}]

(* A live context is its user's, and the user waits for it.                *)
Owned == \A c \in Ctxs : pc[c] \in Live => handle[User(c)] = c /\ heard[User(c)] = "waiting"
(* A redirected thread waits for the one context it has started.           *)
Calling == \A c \in Ctxs : pc[c] = "new" /\ ctx[c].by # NULL
             => pc[ctx[c].by] = "starting" /\ User(ctx[c].by) = User(c)
Redirecting == \A c \in Ctxs : pc[c] \in {"restart", "starting"} => ctx[c].result = "redirect"
(* Between the last callback and the end the handle is still the thread's. *)
Ending == \A c \in Ctxs : pc[c] = "free_it" /\ ctx[c].result # "redirect"
            => handle[User(c)] = c /\ heard[User(c)] # "waiting"
Waiting == \A u \in Users : heard[u] = "waiting" =>
    IF handle[u] = NULL THEN \E c \in Ctxs : pc[c] = "restart" /\ User(c) = u
    ELSE pc[handle[u]] \in Live /\ User(handle[u]) = u

HttpInv == Typed /\ Owned /\ Calling /\ Redirecting /\ Ending /\ Waiting

LEMMA NoCtxTyped == NoCtx \in Records
BY HttpAssumption DEF Records, NoCtx, Fresh, AnyServer

LEMMA InitInv == Init => HttpInv
<1> SUFFICES ASSUME Init PROVE HttpInv
  OBVIOUS
<1>1. Typed
  BY NoCtxTyped DEF Init, Typed, PCs
<1>2. /\ \A c \in Ctxs : pc[c] = "free"
      /\ \A u \in Users : heard[u] = "nothing"
  BY DEF Init
<1> QED BY <1>1, <1>2 DEF HttpInv, Owned, Calling, Redirecting, Ending, Waiting, Live, Fetching

(* A step of a thread between its first callback and its last.             *)
LEMMA Works ==
  ASSUME HttpInv, NEW c \in Ctxs, pc[c] \in Live \ {"new"},
         NEW p \in Live \ {"new"}, NEW r \in Records,
         r.user = User(c), Goto(c, p), Update(c, r), UNCHANGED <<handle, heard>>
  PROVE  HttpInv'
<1> USE HttpAssumption DEF HttpInv, Goto, Update, User
<1>1. Typed'
  BY DEF Typed, Live, Fetching, PCs
<1>2. /\ pc' = [pc EXCEPT ![c] = p] /\ ctx' = [ctx EXCEPT ![c] = r] /\ Typed
      /\ \A d \in Ctxs : ctx'[d].user = ctx[d].user
      /\ \A d \in Ctxs \ {c} : pc'[d] = pc[d] /\ ctx'[d] = ctx[d]
      /\ pc'[c] = p /\ p \notin {"new", "restart", "starting", "free_it"}
  BY DEF Typed, Live, Fetching
<1>3. Owned' /\ Redirecting' /\ Ending'
  BY <1>2 DEF Owned, Redirecting, Ending
<1>4. Calling'
  BY <1>2 DEF Calling, Typed, Records, Live, Fetching
<1>5. Waiting'
  <2> SUFFICES ASSUME NEW v \in Users, heard[v] = "waiting"
               PROVE  IF handle[v] = NULL THEN \E d \in Ctxs : pc'[d] = "restart" /\ ctx'[d].user = v
                      ELSE pc'[handle[v]] \in Live /\ ctx'[handle[v]].user = v
    BY DEF Waiting
  <2>1. CASE handle[v] = NULL
    BY <2>1, <1>2 DEF Waiting, Live, Fetching
  <2>2. CASE handle[v] # NULL
    BY <2>2, <1>2 DEF Waiting, Typed
  <2> QED BY <2>1, <2>2
<1> QED BY <1>1, <1>3, <1>4, <1>5

(* The steps in which the context is left as it is.                        *)
LEMMA Moves ==
  ASSUME HttpInv, NEW c \in Ctxs, pc[c] \in Live \ {"new"}, NEW p \in Live \ {"new"},
         Goto(c, p), UNCHANGED <<handle, heard, ctx>>
  PROVE  HttpInv'
<1>1. ctx[c] \in Records /\ Update(c, ctx[c])
  BY DEF HttpInv, Typed, Update
<1> QED BY <1>1, Works DEF User

LEMMA CountedTyped ==
  ASSUME NEW r \in Records
  PROVE  Counted(r) \in Records /\ Counted(r).user = r.user
<1> DEFINE t == IF ~r.server.chunked /\ r.control = "RUN" /\ r.total = 0 THEN Length(r) ELSE r.total
<1>1. t \in Int
  BY HttpAssumption DEF Records, Length, From
<1>2. Counted(r) = [r EXCEPT !.retry = 0, !.pos = r.pos + 1, !.total = t]
  BY DEF Counted, Records
<1>3. r.pos + 1 \in Nat
  BY DEF Records
<1> HIDE DEF t
<1>4. [r EXCEPT !.retry = 0, !.pos = r.pos + 1, !.total = t] \in Records
      /\ [r EXCEPT !.retry = 0, !.pos = r.pos + 1, !.total = t].user = r.user
  BY <1>1, <1>3 DEF Records
<1> QED BY <1>2, <1>4

LEMMA ReceiveInv ==
  ASSUME HttpInv, NEW c \in Ctxs, pc[c] \in {"checked", "body"}, NEW r \in Records,
         r.user = User(c), NEW p \in {"body", "exit"}, UNCHANGED <<handle, heard>>,
         Receive(c, r, Same, p) \/ Receive(c, r, Unsupported, p)
  PROVE  HttpInv'
<1> DEFINE k == Counted(r)
<1>1. k \in Records /\ k.user = User(c) /\ pc[c] \in Live \ {"new"}
      /\ {"body", "exit"} \subseteq Live \ {"new"}
  BY CountedTyped DEF Live, Fetching
<1> HIDE DEF k
<1>2. /\ [k EXCEPT !.len = @ + 1] \in Records /\ [k EXCEPT !.len = @ + 1].user = User(c)
      /\ [k EXCEPT !.control = "STOP"] \in Records /\ [k EXCEPT !.control = "STOP"].user = User(c)
  BY <1>1 DEF Records
<1>3. \A x \in Records : x.user = User(c) =>
        Unsupported(x) \in Records /\ Unsupported(x).user = User(c)
  BY DEF Records, Unsupported
<1>4. \E x \in Records, q \in {"body", "exit"} :
         x.user = User(c) /\ Update(c, x) /\ Goto(c, q)
  BY <1>1, <1>2, <1>3 DEF Receive, Same, k
<1> QED BY <1>1, <1>4, Works

LEMMA WorkInv ==
  ASSUME HttpInv, NEW c \in Ctxs,
         \/ Boot(c) \/ Begin(c) \/ Connect(c) \/ Select(c) \/ Check(c) \/ PauseSeen(c)
         \/ ReadHeader(c) \/ Redirected(c) \/ ErrorReply(c) \/ Broken(c) \/ ReadBody(c)
         \/ Complete(c) \/ Exit(c) \/ Again(c)
  PROVE  HttpInv'
<1> USE HttpAssumption DEF Keep, Quiet
<1>1. /\ ctx[c] \in Records /\ pc[c] \in PCs
      /\ {"boot", "begin", "ready", "sent", "readable", "checked", "body", "exit", "again",
          "finish"} = Live \ {"new"}
  BY DEF HttpInv, Typed, Live, Fetching
<1>2. CASE Connect(c) \/ Select(c) \/ Check(c) \/ PauseSeen(c) \/ Broken(c) \/ Again(c)
  BY <1>1, <1>2, Moves DEF Connect, Select, Check, PauseSeen, Broken, Again
<1>3. CASE Boot(c)
  <2>1. CASE Runs(c) /\ Goto(c, "begin") /\ Update(c, [ctx[c] EXCEPT !.begun = TRUE])
    <3>1. [ctx[c] EXCEPT !.begun = TRUE] \in Records
          /\ [ctx[c] EXCEPT !.begun = TRUE].user = User(c)
      BY <1>1 DEF Records, User
    <3> QED BY <1>1, <1>3, <2>1, <3>1, Works DEF Boot
  <2>2. CASE Goto(c, "exit") /\ UNCHANGED ctx
    BY <1>1, <1>3, <2>2, Moves DEF Boot
  <2> QED BY <1>3, <2>1, <2>2 DEF Boot
<1>4. CASE Begin(c)
  <2> DEFINE r == [ctx[c] EXCEPT !.result = "none", !.control = "RUN", !.req = ctx[c].len]
  <2>1. r \in Records /\ r.user = User(c)
    BY <1>1 DEF Records, User
  <2> QED BY <1>1, <1>4, <2>1, Works DEF Begin
<1>5. CASE Redirected(c)
  <2> DEFINE r == [ctx[c] EXCEPT !.result = "redirect"]
  <2>1. r \in Records /\ r.user = User(c)
    BY <1>1 DEF Records, User
  <2> QED BY <1>1, <1>5, <2>1, Works DEF Redirected
<1>6. CASE Complete(c)
  <2> DEFINE r == [ctx[c] EXCEPT !.result = IF Whole(ctx[c]) THEN "success" ELSE @]
  <2>1. r \in Records /\ r.user = User(c)
    BY <1>1 DEF Records, User
  <2> QED BY <1>1, <1>6, <2>1, Works DEF Complete
<1>7. CASE Exit(c)
  <2> DEFINE n == ctx[c].retry + (IF ctx[c].result = "none" /\ ctx[c].control # "PAUSE" THEN 1 ELSE 0)
             r == [ctx[c] EXCEPT !.retry = n]
  <2>1. r \in Records /\ r.user = User(c)
    BY <1>1 DEF Records, User
  <2>2. pc[c] = "exit" /\ Update(c, r) /\ (Goto(c, "again") \/ Goto(c, "finish"))
    BY <1>7 DEF Exit
  <2> HIDE DEF r
  <2> QED BY <1>1, <1>7, <2>1, <2>2, Works DEF Exit
<1>8. CASE ReadHeader(c)
  <2> DEFINE r == [ctx[c] EXCEPT !.pos = From(ctx[c]), !.cb = TRUE]
  <2>1. r \in Records /\ r.user = User(c)
    BY <1>1 DEF Records, User, From
  <2>2. /\ pc[c] = "checked"
        /\ (Update(c, r) /\ Goto(c, "body")) \/ Receive(c, r, Unsupported, "body")
    BY <1>8 DEF ReadHeader
  <2> HIDE DEF r
  <2> QED BY <1>1, <1>8, <2>1, <2>2, Works, ReceiveInv DEF ReadHeader
<1>9. CASE ReadBody(c)
  <2>1. CASE ctx[c].cb
    BY <1>1, <1>9, <2>1, ReceiveInv DEF ReadBody, User
  <2>2. CASE ~ctx[c].cb
    <3> DEFINE r == [ctx[c] EXCEPT !.pos = @ + 1]
    <3>1. r \in Records /\ r.user = User(c)
      BY <1>1 DEF Records, User
    <3>2. Goto(c, "body")
      BY <1>9, <2>2 DEF ReadBody, HttpInv, Typed, Goto
    <3> QED BY <1>1, <1>9, <2>2, <3>1, <3>2, Works DEF ReadBody
  <2> QED BY <2>1, <2>2
<1>a. CASE ErrorReply(c)
  <2> DEFINE r == [ctx[c] EXCEPT !.retry = 0]
  <2>1. r \in Records /\ r.user = User(c)
    BY <1>1 DEF Records, User
  <2> QED BY <1>1, <1>a, <2>1, Works DEF ErrorReply
<1> QED BY <1>2, <1>3, <1>4, <1>5, <1>6, <1>7, <1>8, <1>9, <1>a

(* The application's calls write only control states.                      *)
LEMMA ControlInv ==
  ASSUME HttpInv, NEW u \in Users, handle[u] # NULL,
         NEW s \in {"RUN", "PAUSE", "STOP"}, Control(u, s), UNCHANGED <<handle, pc, heard>>
  PROVE  HttpInv'
<1>1. /\ Typed' /\ \A d \in Ctxs : /\ ctx'[d].user = ctx[d].user /\ ctx'[d].by = ctx[d].by
                                   /\ ctx'[d].result = ctx[d].result
  BY DEF Control, HttpInv, Typed, Update, Records
<1> QED BY <1>1 DEF HttpInv, Typed, Owned, Calling, Redirecting, Ending, Waiting, User, Records

LEMMA AppInv ==
  ASSUME HttpInv, NEW u \in Users, Pause(u) \/ Continue(u) \/ Stop(u) \/ StopWakes(u)
  PROVE  HttpInv'
<1>1. UNCHANGED <<handle, pc, heard>>
  BY DEF Pause, Continue, Stop, StopWakes, Others
<1>2. CASE UNCHANGED ctx
  BY <1>1, <1>2 DEF HttpInv, Typed, Owned, Calling, Redirecting, Ending, Waiting, User
<1>3. CASE handle[u] # NULL /\ \E s \in {"RUN", "PAUSE", "STOP"} : Control(u, s)
  BY <1>1, <1>3, ControlInv
<1> QED BY <1>2, <1>3 DEF Pause, Continue, Stop, StopWakes, Call

(* The beginning of a download.                                            *)
LEMMA PublishInv ==
  ASSUME HttpInv, NEW u \in Users, NEW b \in Ctxs \cup {NULL}, Publish(u, b),
         b # NULL => pc[b] = "restart" /\ User(b) = u
  PROVE  HttpInv'
<1> USE HttpAssumption
<1>1. PICK c \in Ctxs, s \in Servers :
         /\ pc[c] = "free" /\ Update(c, Fresh(u, s, b)) /\ handle' = [handle EXCEPT ![u] = c]
         /\ pc' = [d \in Ctxs |-> IF d = c THEN "new" ELSE IF d = b THEN "starting" ELSE pc[d]]
  BY DEF Publish
<1>2. handle[u] = NULL /\ heard' = [heard EXCEPT ![u] = "waiting"] /\ b # c
  BY <1>1 DEF Publish, Tell
<1>3. Fresh(u, s, b) \in Records /\ Fresh(u, s, b).user = u /\ Fresh(u, s, b).by = b
  BY DEF Fresh, Records
<1>4. Typed'
  <2>1. ctx' \in [Ctxs -> Records] /\ handle' \in [Users -> Ctxs \cup {NULL}]
    BY <1>1, <1>3 DEF HttpInv, Typed, Update
  <2>2. pc' \in [Ctxs -> PCs]
    BY <1>1 DEF HttpInv, Typed, PCs
  <2> QED BY <2>1, <2>2, <1>2 DEF HttpInv, Typed
<1>5. /\ pc'[c] = "new" /\ ctx'[c].user = u /\ ctx'[c].by = b /\ handle'[u] = c
      /\ \A d \in Ctxs \ {c} : ctx'[d] = ctx[d] /\ (d # b => pc'[d] = pc[d])
      /\ b # NULL => pc'[b] = "starting"
      /\ \A v \in Users \ {u} : handle'[v] = handle[v] /\ heard'[v] = heard[v]
      /\ heard'[u] = "waiting"
  BY <1>1, <1>2, <1>3 DEF HttpInv, Typed, Update
<1>6. \A d \in Ctxs : pc[d] \in Live => User(d) # u
  BY <1>2 DEF HttpInv, Owned
<1>7. \A d \in Ctxs : pc[d] = "free_it" /\ ctx[d].result # "redirect" => User(d) # u
  BY <1>2 DEF HttpInv, Ending
<1>8. Owned' /\ Ending' /\ Redirecting'
  BY <1>5, <1>6, <1>7 DEF HttpInv, Owned, Ending, Redirecting, User, Typed, Records, Live, Fetching
<1>9. Calling'
  BY <1>1, <1>5 DEF HttpInv, Calling, User, Typed, Records
<1>10. Waiting'
  <2> SUFFICES ASSUME NEW v \in Users, heard'[v] = "waiting"
               PROVE  IF handle'[v] = NULL THEN \E d \in Ctxs : pc'[d] = "restart" /\ ctx'[d].user = v
                      ELSE pc'[handle'[v]] \in Live /\ ctx'[handle'[v]].user = v
    BY DEF Waiting, User
  <2>1. CASE v = u
    BY <2>1, <1>5 DEF Live
  <2>2. CASE v # u
    <3>1. heard[v] = "waiting" /\ handle'[v] = handle[v]
      BY <2>2, <1>5
    <3>2. CASE handle[v] = NULL
      <4>1. PICK d \in Ctxs : pc[d] = "restart" /\ User(d) = v
        BY <3>1, <3>2 DEF HttpInv, Waiting
      <4> QED BY <4>1, <3>1, <3>2, <2>2, <1>1, <1>5 DEF User
    <3>3. CASE handle[v] # NULL
      <4>1. pc[handle[v]] \in Live /\ User(handle[v]) = v /\ handle[v] \in Ctxs
        BY <3>1, <3>3 DEF HttpInv, Waiting, Typed
      <4> QED BY <4>1, <3>1, <3>3, <2>2, <1>1, <1>5 DEF User, Live, Fetching
    <3> QED BY <3>2, <3>3
  <2> QED BY <2>1, <2>2
<1> QED BY <1>4, <1>8, <1>9, <1>10 DEF HttpInv

LEMMA StartInv ==
  ASSUME HttpInv, (\E u \in Users : Start(u)) \/ (\E c \in Ctxs : Restart(c))
  PROVE  HttpInv'
<1>1. ASSUME NEW u \in Users, Start(u) PROVE HttpInv'
  BY <1>1, PublishInv DEF Start
<1>2. ASSUME NEW c \in Ctxs, Restart(c) PROVE HttpInv'
  <2>1. User(c) \in Users
    BY DEF HttpInv, Typed, User, Records
  <2> QED BY <1>2, <2>1, PublishInv, HttpAssumption DEF Restart
<1> QED BY <1>1, <1>2

LEMMA NewThreadInv == ASSUME HttpInv, NEW c \in Ctxs, NewThread(c) PROVE HttpInv'
<1> DEFINE b == ctx[c].by
<1> USE HttpAssumption DEF HttpInv
<1>1. /\ pc[c] = "new" /\ UNCHANGED <<handle, ctx, heard>> /\ b \in Ctxs \cup {NULL}
      /\ pc' = Resume([pc EXCEPT ![c] = "boot"], b)
  BY DEF NewThread, history, Typed, Records
<1>2. b # NULL => pc[b] = "starting" /\ User(b) = User(c) /\ b # c /\ ctx[b].result = "redirect"
  BY <1>1 DEF Calling, Redirecting
<1>3. /\ pc'[c] = "boot" /\ (b # NULL => pc'[b] = "free_it")
      /\ \A d \in Ctxs \ {c} : d # b => pc'[d] = pc[d]
  BY <1>1, <1>2 DEF Resume, Typed
<1>4. Typed'
  BY <1>1 DEF Typed, Resume, PCs
<1>5. Owned'
  <2>1. \A d \in Ctxs : pc'[d] \in Live => pc[d] \in Live
    BY <1>1, <1>2, <1>3 DEF Live, Fetching
  <2> QED BY <2>1, <1>1 DEF Owned, User
<1>a. Redirecting' /\ Ending'
  <2>1. \A d \in Ctxs : pc'[d] = pc[d] \/ pc'[d] = "boot" \/ (d = b /\ pc'[d] = "free_it" /\ b # NULL)
    BY <1>1, <1>3
  <2>2. /\ \A d \in Ctxs : pc'[d] \in {"restart", "starting"} => pc[d] = pc'[d]
        /\ \A d \in Ctxs : pc'[d] = "free_it" => pc[d] = "free_it" \/ ctx[d].result = "redirect"
    BY <2>1, <1>2
  <2>3. Redirecting'
    BY <2>2, <1>1 DEF Redirecting
  <2>4. Ending'
    BY <2>2, <1>1 DEF Ending, User
  <2> QED BY <2>3, <2>4
<1>6. Calling'
  <2> SUFFICES ASSUME NEW d \in Ctxs, pc'[d] = "new", ctx[d].by # NULL
               PROVE  pc'[ctx[d].by] = "starting" /\ User(ctx[d].by) = User(d)
    BY <1>1 DEF Calling, User
  <2>1. d # c /\ pc[d] = "new" /\ pc[ctx[d].by] = "starting" /\ User(ctx[d].by) = User(d)
    BY <1>1, <1>2, <1>3 DEF Calling
  <2>2. ctx[d].by # b
    BY <2>1, <1>1, <1>2 DEF Owned, Live
  <2>3. ctx[d].by \in Ctxs
    BY DEF Typed, Records
  <2> QED BY <2>1, <2>2, <2>3, <1>1, <1>3
<1>7. Waiting'
  <2> SUFFICES ASSUME NEW v \in Users, heard[v] = "waiting"
               PROVE  IF handle[v] = NULL THEN \E d \in Ctxs : pc'[d] = "restart" /\ User(d) = v
                      ELSE pc'[handle[v]] \in Live /\ User(handle[v]) = v
    BY <1>1 DEF Waiting, User
  <2>1. CASE handle[v] = NULL
    <3>1. PICK d \in Ctxs : pc[d] = "restart" /\ User(d) = v
      BY <2>1 DEF Waiting
    <3> QED BY <3>1, <2>1, <1>1, <1>2, <1>3
  <2>2. CASE handle[v] # NULL
    <3>1. pc[handle[v]] \in Live /\ User(handle[v]) = v /\ handle[v] \in Ctxs
      BY <2>2 DEF Waiting, Typed
    <3> QED BY <3>1, <2>2, <1>1, <1>2, <1>3 DEF Live, Fetching
  <2> QED BY <2>1, <2>2
<1> QED BY <1>4, <1>5, <1>a, <1>6, <1>7

LEMMA NoThreadInv == ASSUME HttpInv, NEW c \in Ctxs, NoThread(c) PROVE HttpInv'
<1> DEFINE b == ctx[c].by
<1> USE HttpAssumption DEF HttpInv
<1>1. /\ pc[c] = "new" /\ UNCHANGED handle /\ b \in Ctxs \cup {NULL} /\ User(c) \in Users
      /\ pc' = Resume([pc EXCEPT ![c] = "free"], b) /\ ctx' = [ctx EXCEPT ![c] = NoCtx]
      /\ heard' = [heard EXCEPT ![User(c)] = IF b = NULL THEN "refused" ELSE "lost"]
  BY DEF NoThread, Free, Update, Tell, Typed, Records, User
<1>2. b # NULL => pc[b] = "starting" /\ User(b) = User(c) /\ b # c /\ ctx[b].result = "redirect"
  BY <1>1 DEF Calling, Redirecting
<1>3. /\ pc'[c] = "free" /\ (b # NULL => pc'[b] = "free_it")
      /\ \A d \in Ctxs \ {c} : ctx'[d] = ctx[d] /\ (d # b => pc'[d] = pc[d])
      /\ heard'[User(c)] # "waiting"
      /\ \A u \in Users \ {User(c)} : heard'[u] = heard[u]
  BY <1>1, <1>2 DEF Resume, Typed
<1>4. Typed'
  BY <1>1, NoCtxTyped DEF Typed, Resume, PCs
<1>5. \A d \in Ctxs \ {c} : pc[d] \in Live => User(d) # User(c)
  BY <1>1 DEF Owned, Live
<1>6. /\ \A d \in Ctxs \ {c} : pc[d] = "free_it" /\ ctx[d].result # "redirect" => User(d) # User(c)
      /\ \A d \in Ctxs : User(d) \in Users
  BY <1>1 DEF Owned, Ending, Live, Typed, Records, User
<1>a. Owned'
  <2>1. \A d \in Ctxs : pc'[d] \in Live => d # c /\ pc[d] \in Live /\ ctx'[d] = ctx[d]
    BY <1>1, <1>2, <1>3 DEF Live, Fetching
  <2>2. \A d \in Ctxs : pc'[d] \in Live => heard'[User(d)] = heard[User(d)]
    BY <2>1, <1>3, <1>5, <1>6
  <2> QED BY <2>1, <2>2, <1>1 DEF Owned, User
<1>b. Redirecting' /\ Ending'
  <2>1. Redirecting'
    BY <1>2, <1>3 DEF Redirecting
  <2>2. \A d \in Ctxs : pc'[d] = "free_it" /\ ctx'[d].result # "redirect"
          => d # c /\ pc[d] = "free_it" /\ ctx'[d] = ctx[d] /\ heard'[User(d)] = heard[User(d)]
    BY <1>2, <1>3, <1>6
  <2>3. Ending'
    BY <2>2, <1>1 DEF Ending, User
  <2> QED BY <2>1, <2>3
<1>7. Calling'
  <2> SUFFICES ASSUME NEW d \in Ctxs, pc'[d] = "new", ctx'[d].by # NULL
               PROVE  pc'[ctx'[d].by] = "starting" /\ ctx'[ctx'[d].by].user = ctx'[d].user
    BY DEF Calling, User
  <2>1. /\ d # c /\ pc[d] = "new" /\ ctx'[d] = ctx[d]
        /\ pc[ctx[d].by] = "starting" /\ User(ctx[d].by) = User(d)
    BY <1>1, <1>2, <1>3 DEF Calling
  <2>2. ctx[d].by # b /\ ctx[d].by # c
    BY <2>1, <1>1, <1>2 DEF Owned, Live
  <2>3. ctx[d].by \in Ctxs
    BY <2>1 DEF Typed, Records
  <2>4. pc'[ctx[d].by] = pc[ctx[d].by] /\ ctx'[ctx[d].by] = ctx[ctx[d].by]
    BY <2>2, <2>3, <1>3
  <2> QED BY <2>1, <2>4 DEF User
<1>8. Waiting'
  <2> SUFFICES ASSUME NEW v \in Users, heard'[v] = "waiting"
               PROVE  IF handle[v] = NULL THEN \E d \in Ctxs : pc'[d] = "restart" /\ ctx'[d].user = v
                      ELSE pc'[handle[v]] \in Live /\ ctx'[handle[v]].user = v
    BY <1>1 DEF Waiting, User
  <2>1. v # User(c) /\ heard[v] = "waiting"
    BY <1>1, <1>3
  <2>2. CASE handle[v] = NULL
    <3>1. PICK d \in Ctxs : pc[d] = "restart" /\ User(d) = v
      BY <2>1, <2>2 DEF Waiting
    <3> QED BY <3>1, <2>2, <1>1, <1>2, <1>3 DEF User
  <2>3. CASE handle[v] # NULL
    <3>1. pc[handle[v]] \in Live /\ User(handle[v]) = v /\ handle[v] \in Ctxs
      BY <2>1, <2>3 DEF Waiting, Typed
    <3> QED BY <3>1, <2>1, <2>3, <1>1, <1>2, <1>3 DEF User, Live, Fetching
  <2> QED BY <2>2, <2>3
<1> QED BY <1>4, <1>a, <1>b, <1>7, <1>8

(* The end of a thread.                                                    *)
LEMMA EndInv ==
  ASSUME HttpInv, NEW c \in Ctxs,
         Finish(c) \/ Detach(c) \/ RestartFails(c) \/ FreeIt(c)
  PROVE  HttpInv'
<1> USE HttpAssumption DEF HttpInv, Goto, Tell, Quiet
<1>0. User(c) \in Users /\ ctx[c] \in Records
  BY DEF Typed, Records, User
<1>1. CASE Finish(c)
  <2>1. /\ pc[c] = "finish" /\ ctx[c].result # "redirect" /\ UNCHANGED <<handle, ctx>>
        /\ pc' = [pc EXCEPT ![c] = "free_it"]
        /\ heard' = [heard EXCEPT ![User(c)] = IF ctx[c].result = "success" THEN "SUCCESS" ELSE "FAILED"]
    BY <1>1 DEF Finish
  <2>2. handle[User(c)] = c
    BY <2>1 DEF Owned, Live
  <2>3. /\ pc'[c] = "free_it" /\ heard'[User(c)] # "waiting"
        /\ \A d \in Ctxs \ {c} : pc'[d] = pc[d] /\ (pc[d] \in Live => User(d) # User(c))
        /\ \A u \in Users \ {User(c)} : heard'[u] = heard[u]
    BY <1>0, <2>1, <2>2 DEF Owned, Typed
  <2>4. Typed'
    BY <2>1 DEF Typed, PCs
  <2>5. Owned' /\ Redirecting' /\ Ending'
    BY <2>1, <2>2, <2>3 DEF Owned, Redirecting, Ending, User, Live, Fetching, Typed, Records
  <2>6. Calling'
    BY <2>1, <2>3 DEF Calling, User, Typed, Records
  <2>7. Waiting'
    BY <2>1, <2>2, <2>3 DEF Waiting, User, Typed, Live, Fetching
  <2> QED BY <2>4, <2>5, <2>6, <2>7
<1>2. CASE Detach(c)
  <2>1. /\ pc[c] = "finish" /\ ctx[c].result = "redirect" /\ UNCHANGED <<heard, ctx>>
        /\ pc' = [pc EXCEPT ![c] = "restart"] /\ handle' = [handle EXCEPT ![User(c)] = NULL]
    BY <1>2 DEF Detach
  <2>2. handle[User(c)] = c /\ heard[User(c)] = "waiting"
    BY <2>1 DEF Owned, Live
  <2>3. /\ pc'[c] = "restart" /\ handle'[User(c)] = NULL
        /\ \A d \in Ctxs \ {c} : pc'[d] = pc[d] /\ (pc[d] \in Live => User(d) # User(c))
        /\ \A u \in Users \ {User(c)} : handle'[u] = handle[u]
    BY <1>0, <2>1, <2>2 DEF Owned, Typed
  <2>4. Typed'
    BY <2>1 DEF Typed, PCs
  <2>5. Owned' /\ Redirecting' /\ Ending'
    BY <2>1, <2>2, <2>3 DEF Owned, Redirecting, Ending, User, Live, Fetching, Typed, Records
  <2>6. Calling'
    BY <2>1, <2>3 DEF Calling, User, Typed, Records
  <2>7. Waiting'
    BY <2>1, <2>2, <2>3 DEF Waiting, User, Typed, Live, Fetching
  <2> QED BY <2>4, <2>5, <2>6, <2>7
<1>3. CASE RestartFails(c)
  <2>1. /\ pc[c] = "restart" /\ UNCHANGED <<handle, ctx>> /\ pc' = [pc EXCEPT ![c] = "free_it"]
        /\ IF handle[User(c)] = NULL /\ heard[User(c)] = "waiting"
           THEN heard' = [heard EXCEPT ![User(c)] = "lost"] ELSE heard' = heard
    BY <1>3 DEF RestartFails
  <2>2. /\ pc'[c] = "free_it" /\ \A d \in Ctxs \ {c} : pc'[d] = pc[d]
        /\ ctx[c].result = "redirect"
        /\ \A u \in Users : heard'[u] = heard[u]
                         \/ (u = User(c) /\ handle[u] = NULL /\ heard'[u] = "lost")
        /\ handle[User(c)] = NULL => heard'[User(c)] # "waiting"
    BY <1>0, <2>1 DEF Redirecting, Typed
  <2>3. Typed'
    BY <2>1 DEF Typed, PCs
  <2>4. Owned' /\ Redirecting' /\ Ending' /\ Calling'
    BY <2>1, <2>2 DEF Owned, Redirecting, Ending, Calling, User, Live, Fetching, Typed, Records
  <2>5. Waiting'
    BY <2>1, <2>2 DEF Waiting, User, Typed, Live, Fetching
  <2> QED BY <2>3, <2>4, <2>5
<1>4. CASE FreeIt(c)
  <2>1. /\ pc[c] = "free_it" /\ UNCHANGED heard /\ pc' = [pc EXCEPT ![c] = "free"]
        /\ ctx' = [ctx EXCEPT ![c] = NoCtx]
        /\ handle' = IF ctx[c].result = "redirect" THEN handle
                     ELSE [handle EXCEPT ![User(c)] = NULL]
    BY <1>4 DEF FreeIt, Free, Update
  <2>2. /\ pc'[c] = "free" /\ \A d \in Ctxs \ {c} : pc'[d] = pc[d] /\ ctx'[d] = ctx[d]
        /\ \A u \in Users : handle'[u] = handle[u]
                         \/ (u = User(c) /\ handle[u] = c /\ heard[u] # "waiting")
    BY <1>0, <2>1 DEF Typed, Ending
  <2>3. Typed'
    BY <2>1, NoCtxTyped DEF Typed, PCs
  <2>4. Owned' /\ Redirecting' /\ Ending'
    BY <2>1, <2>2 DEF Owned, Redirecting, Ending, User, Live, Fetching, Typed, Records
  <2>5. Calling'
    BY <2>1, <2>2 DEF Calling, User, Typed, Records
  <2>6. Waiting'
    BY <2>1, <2>2 DEF Waiting, User, Typed, Live, Fetching
  <2> QED BY <2>3, <2>4, <2>5, <2>6
<1> QED BY <1>1, <1>2, <1>3, <1>4

LEMMA StepInv == HttpInv /\ [Next]_vars => HttpInv'
<1> SUFFICES ASSUME HttpInv, [Next]_vars PROVE HttpInv'
  OBVIOUS
<1>1. ASSUME NEW c \in Ctxs, Caller(c) PROVE HttpInv'
  BY <1>1, NewThreadInv, NoThreadInv DEF Caller
<1>2. ASSUME NEW c \in Ctxs, Thread(c) PROVE HttpInv'
  BY <1>2, WorkInv, EndInv, StartInv DEF Thread
<1>3. ASSUME NEW u \in Users, App(u) PROVE HttpInv'
  BY <1>3, AppInv, StartInv DEF App
<1>4. CASE UNCHANGED vars
  BY <1>4 DEF vars, HttpInv, Typed, Owned, Calling, Redirecting, Ending, Waiting, User
<1> QED BY <1>1, <1>2, <1>3, <1>4 DEF Next

LEMMA Invariant == Spec => []HttpInv
BY InitInv, StepInv, PTL DEF Spec

(* Every thread that may fetch data can be paused and stopped: it works on *)
(* the context its user's handle points to, whatever redirections, failed  *)
(* starts and freed contexts came before (http_file_download_thread.c).    *)
THEOREM NoOrphan == Spec => []Reachable
<1>1. HttpInv => Reachable
  BY DEF HttpInv, Owned, Reachable
<1> QED BY <1>1, Invariant, PTL

(* A user that was told neither the end nor a refusal has a context whose  *)
(* thread is at work or is about to be redirected; only a redirection that *)
(* start refuses leaves the user without an answer.                        *)
THEOREM SomebodyWorks == Spec => []Told
<1>1. HttpInv => Told
  BY HttpAssumption DEF HttpInv, Waiting, Told, Typed, Live, Fetching
<1> QED BY <1>1, Invariant, PTL

GotTyped == DOMAIN got = Users

LEMMA GotOfUsers == Spec => []GotTyped
<1>1. Init => GotTyped
  BY DEF Init, GotTyped
<1>2. GotTyped /\ [Next]_vars => GotTyped'
  BY DEF GotTyped, Next, vars, Caller, Thread, App, NewThread, NoThread, history, Start, Pause, Continue,
         Stop, StopWakes, Others, Boot, Begin, Connect, Select, Check, PauseSeen, ReadHeader,
         Receive, Redirected, ErrorReply, Broken, ReadBody, Complete, Exit, Again, Finish, Detach, Restart,
         RestartFails, FreeIt, Keep
<1> QED BY <1>1, <1>2, PTL DEF Spec

(* SUCCESS or FAILED is the last a user hears of a download.               *)
THEOREM ToldOnce == Spec => EndsOnce
<1>1. ASSUME HttpInv, GotTyped, [Next]_vars, NEW u \in Users,
             heard[u] \in {"SUCCESS", "FAILED"}, heard'[u] # "waiting"
      PROVE  heard'[u] = heard[u] /\ got'[u] = got[u]
  <2> USE <1>1, HttpAssumption DEF HttpInv
  <2>1. \A c \in Ctxs : pc[c] \in Live => User(c) # u
    BY DEF Owned
  <2>2. ASSUME NEW c \in Ctxs, Caller(c) PROVE heard'[u] = heard[u] /\ got'[u] = got[u]
    BY <2>1, <2>2 DEF Caller, NewThread, NoThread, history, Tell, Live, Typed
  <2>3. ASSUME NEW c \in Ctxs, Boot(c) \/ ReadHeader(c) \/ ReadBody(c)
        PROVE  heard'[u] = heard[u] /\ got'[u] = got[u]
    <3>1. User(c) # u
      BY <2>1, <2>3 DEF Boot, ReadHeader, ReadBody, Live, Fetching
    <3>2. heard' = heard /\ (got' = got \/ \E x : got' = [got EXCEPT ![User(c)] = x])
      BY <2>3 DEF Boot, ReadHeader, ReadBody, Receive
    <3> QED BY <1>1, <3>1, <3>2 DEF GotTyped
  <2>4. ASSUME NEW c \in Ctxs,
               \/ Begin(c) \/ Connect(c) \/ Select(c) \/ Check(c) \/ PauseSeen(c)
               \/ Redirected(c) \/ ErrorReply(c) \/ Broken(c) \/ Complete(c) \/ Exit(c)
               \/ Again(c) \/ Detach(c) \/ FreeIt(c)
        PROVE  heard'[u] = heard[u] /\ got'[u] = got[u]
    BY <2>4 DEF Begin, Connect, Select, Check, PauseSeen, Redirected, ErrorReply, Broken, Complete, Exit,
                Again, Detach, FreeIt, Keep
  <2>5. ASSUME NEW c \in Ctxs, Finish(c) \/ RestartFails(c)
        PROVE  heard'[u] = heard[u] /\ got'[u] = got[u]
    BY <2>1, <2>5 DEF Finish, RestartFails, Tell, Live, Typed
  <2>6. ASSUME NEW v \in Users, NEW b, Publish(v, b) PROVE heard'[u] = heard[u]
    BY <2>6 DEF Publish, Tell, Typed
  <2>7. ASSUME NEW c \in Ctxs, Thread(c) PROVE heard'[u] = heard[u] /\ got'[u] = got[u]
    <3>1. User(c) \in Users
      BY DEF Typed, Records, User
    <3>2. CASE Restart(c)
      BY <3>1, <3>2, <2>6 DEF Restart
    <3> QED BY <2>7, <2>3, <2>4, <2>5, <3>2 DEF Thread
  <2>8. ASSUME NEW v \in Users, App(v) PROVE heard'[u] = heard[u] /\ got'[u] = got[u]
    BY <2>8, <2>6 DEF App, Start, Pause, Continue, Stop, StopWakes, Others
  <2>9. CASE UNCHANGED vars
    BY <2>9 DEF vars
  <2> QED BY <2>2, <2>7, <2>8, <2>9 DEF Next
<1>2. HttpInv /\ GotTyped /\ [Next]_vars
        => [\A u \in Users : heard[u] \in {"SUCCESS", "FAILED"} /\ heard'[u] # "waiting"
              => heard'[u] = heard[u] /\ got'[u] = got[u]]_vars
  BY <1>1
<1> QED BY <1>2, Invariant, GotOfUsers, PTL DEF Spec, EndsOnce
-----------------------------------------------------------------------------
(* What a thread knows of its file: g is what the user was given.          *)
Begun   == Live \ {"new", "boot"}
Attempt == {"ready", "sent", "readable", "checked"}

(* The reply is of known length and begins where the last one broke off,   *)
(* or at the beginning of the file before anything came.                   *)
Continues(r) == ~r.server.chunked /\ (r.server.ranged \/ r.req = 0)

Sound(p, r, g) ==
    /\ p \in {"new", "boot"} => r.len = 0 /\ ~r.begun
    /\ p \in {"new", "boot", "again"} \cup Fetching => r.result = "none"
    /\ r.retry <= MaxRetry + 1 /\ (p \in Live \ {"finish"} => r.retry <= MaxRetry)
    /\ r.total \in {0, FileLen} /\ (~r.server.chunked /\ r.total = 0 => r.len = 0)
    /\ r.req <= r.len /\ (p \in Attempt => r.req = r.len)
    /\ r.pos <= FileLen
    /\ p = "body" /\ r.cb /\ ~r.server.chunked => r.pos - From(r) = r.len - r.req
    /\ p \in Begun /\ r.begun /\ Continues(r) => g = Prefix(r.len)
    /\ p \in {"exit", "finish", "free_it"} /\ r.result = "success" /\ r.begun
         /\ ~r.server.chunked /\ (r.server.ranged \/ r.cb) => g = Prefix(FileLen)

DataSound == /\ got \in [Users -> Seq(Blocks)]
             /\ \A c \in Ctxs : Sound(pc[c], ctx[c], got[User(c)])

Running == {c \in Ctxs : pc[c] \notin {"free", "new", "boot"}}
Counts == /\ threadNum = Cardinality(Running) /\ stopping \subseteq Users
          /\ starts \in 0..MaxStarts /\ calls \in 0..MaxCalls /\ redirects \in 0..MaxRedirects

LEMMA PrefixEmpty == Prefix(0) = <<>>
BY DEF Prefix

LEMMA SeqEqual ==
  ASSUME NEW s \in Seq(Nat), NEW t \in Seq(Nat), Len(s) = Len(t),
         \A i \in 1..Len(s) : s[i] = t[i]
  PROVE  s = t
OBVIOUS

LEMMA PrefixAppend ==
  ASSUME NEW n \in Nat PROVE Append(Prefix(n), n) = Prefix(n + 1)
<1>1. Prefix(n) \in Seq(Nat) /\ Len(Prefix(n)) = n
  BY DEF Prefix
<1>2. Prefix(n + 1) \in Seq(Nat) /\ Len(Prefix(n + 1)) = n + 1
  BY DEF Prefix
<1>3. \A i \in 1..(n + 1) : Append(Prefix(n), n)[i] = Prefix(n + 1)[i]
  BY <1>1 DEF Prefix
<1>4. Append(Prefix(n), n) \in Seq(Nat) /\ Len(Append(Prefix(n), n)) = n + 1
  BY <1>1
<1> QED BY <1>2, <1>3, <1>4, SeqEqual

(* No other context looks at what c's user was given while c lives.        *)
LEMMA Alone ==
  ASSUME HttpInv, NEW c \in Ctxs, pc[c] \in Live, NEW d \in Ctxs \ {c}, User(d) = User(c)
  PROVE  pc[d] \notin Live /\ (pc[d] = "free_it" => ctx[d].result = "redirect")
BY DEF HttpInv, Owned, Ending

LEMMA GotBy ==
  ASSUME NEW p, NEW r, NEW g, NEW h, Sound(p, r, g),
         p \notin Live, p = "free_it" => r.result = "redirect"
  PROVE  Sound(p, r, h)
<1>1. p \notin Begun /\ p \notin {"exit", "finish"}
  BY DEF Begun, Live
<1> QED BY <1>1 DEF Sound

(* A step of the thread of c, which may give its user data.                *)
LEMMA SoundStep ==
  ASSUME HttpInv, DataSound, NEW c \in Ctxs, pc[c] \in Live,
         NEW p \in PCs, NEW r \in Records, r.user = User(c), Goto(c, p), Update(c, r),
         NEW g \in Seq(Blocks), got' = [got EXCEPT ![User(c)] = g],
         Sound(p, r, g)
  PROVE  DataSound'
<1>1. /\ User(c) \in Users /\ \A d \in Ctxs : User(d) \in Users
      /\ pc' = [pc EXCEPT ![c] = p] /\ ctx' = [ctx EXCEPT ![c] = r]
  BY DEF HttpInv, Typed, Records, User, Goto, Update
<1>2. got' \in [Users -> Seq(Blocks)] /\ got'[User(c)] = g
  BY <1>1 DEF DataSound
<1>3. ASSUME NEW d \in Ctxs PROVE Sound(pc'[d], ctx'[d], got'[ctx'[d].user])
  <2>1. CASE d = c
    BY <2>1, <1>1, <1>2 DEF HttpInv, Typed
  <2>2. CASE d # c
    <3>1. pc'[d] = pc[d] /\ ctx'[d] = ctx[d] /\ Sound(pc[d], ctx[d], got[User(d)])
      BY <2>2, <1>1 DEF HttpInv, Typed, DataSound
    <3>2. CASE User(d) # User(c)
      BY <3>1, <3>2, <1>1 DEF DataSound, User
    <3>3. CASE User(d) = User(c)
      BY <3>1, <3>3, <2>2, Alone, GotBy DEF User
    <3> QED BY <3>2, <3>3
  <2> QED BY <2>1, <2>2
<1> QED BY <1>2, <1>3 DEF DataSound, User

(* The same without data.                                                  *)
LEMMA SoundWork ==
  ASSUME HttpInv, DataSound, NEW c \in Ctxs, pc[c] \in Live,
         NEW p \in PCs, NEW r \in Records, r.user = User(c), Goto(c, p), Update(c, r),
         UNCHANGED got, Sound(p, r, got[User(c)])
  PROVE  DataSound'
<1>1. User(c) \in Users
  BY DEF HttpInv, Typed, Records, User
<1>2. got[User(c)] \in Seq(Blocks) /\ got' = [got EXCEPT ![User(c)] = got[User(c)]]
  BY <1>1 DEF DataSound
<1> QED BY <1>2, SoundStep

(* onReceivedData counts the block before it decides.                      *)
LEMMA CountedSound ==
  ASSUME NEW r \in Records, NEW g, Sound("body", r, g), r.cb, r.pos < FileLen,
         NEW y \in Records, \E s \in {"RUN", "PAUSE", "STOP"} : y = [Counted(r) EXCEPT !.control = s]
  PROVE  Sound("exit", y, g) /\ Sound("body", Unsupported(y), g)
         /\ (r.server.chunked => Sound("body", y, g))
<1> USE HttpAssumption
<1> DEFINE t == IF ~r.server.chunked /\ r.control = "RUN" /\ r.total = 0 THEN Length(r) ELSE r.total
<1>1. /\ r.retry \in Nat /\ r.len \in Nat /\ r.req \in Nat /\ r.pos \in Nat /\ r.total \in Int
      /\ r.begun \in BOOLEAN /\ r.cb \in BOOLEAN
  BY DEF Records
<1>2. /\ y.server = r.server /\ y.retry = 0 /\ y.pos = r.pos + 1 /\ y.total = t /\ y.len = r.len
      /\ y.req = r.req /\ y.result = r.result /\ y.cb = r.cb /\ y.begun = r.begun
  BY DEF Counted, Records
<1>3. r.total = 0 /\ ~r.server.chunked => r.len = 0 /\ r.req = 0
  BY <1>1 DEF Sound
<1>4. t \in {0, FileLen} /\ (~r.server.chunked /\ t = 0 => r.len = 0)
  BY <1>1, <1>3 DEF Sound, Length, From
<1>5. r.result = "none" /\ (r.begun /\ Continues(r) => g = Prefix(r.len)) /\ r.req <= r.len
  BY DEF Sound, Begun, Live, Fetching
<1> HIDE DEF t
<1>6. Sound("exit", y, g)
  BY <1>1, <1>2, <1>4, <1>5 DEF Sound, Fetching, Attempt, Live, Begun, Continues
<1>7. Sound("body", Unsupported(y), g)
  <2>1. /\ Unsupported(y).server = r.server /\ Unsupported(y).retry = 0
        /\ Unsupported(y).pos = r.pos + 1 /\ Unsupported(y).total = t
        /\ Unsupported(y).len = r.len /\ Unsupported(y).req = r.req
        /\ Unsupported(y).result = r.result /\ Unsupported(y).cb = FALSE
        /\ Unsupported(y).begun = r.begun
    BY <1>2 DEF Unsupported, Records
  <2> QED BY <2>1, <1>1, <1>4, <1>5 DEF Sound, Fetching, Attempt, Live, Begun, Continues
<1>8. r.server.chunked => Sound("body", y, g)
  BY <1>1, <1>2, <1>4, <1>5 DEF Sound, Fetching, Attempt, Live, Begun, Continues
<1> QED BY <1>6, <1>7, <1>8

LEMMA BothNext ==
  ASSUME NEW r, r.pos \in Nat, r.len \in Nat, r.req \in Nat, From(r) \in Nat,
         NEW y, y.pos = r.pos + 1, y.len = r.len + 1, y.req = r.req, From(y) = From(r),
         r.pos - From(r) = r.len - r.req
  PROVE  y.pos - From(y) = y.len - y.req
<1>1. PICK f \in Nat : f = From(r)
  OBVIOUS
<1>2. r.pos - f = r.len - r.req
  BY <1>1, Zenon
<1>3. (r.pos + 1) - f = (r.len + 1) - r.req
  BY <1>2
<1> QED BY <1>1, <1>3, Zenon

(* A block that is given out is the next one.                              *)
LEMMA GivenSound ==
  ASSUME NEW r \in Records, NEW g \in Seq(Blocks), Sound("body", r, g), r.cb, r.pos < FileLen, Accepts(r)
  PROVE  Sound("body", [Counted(r) EXCEPT !.len = @ + 1], Append(g, r.pos))
<1> USE HttpAssumption
<1> DEFINE t == IF ~r.server.chunked /\ r.total = 0 THEN Length(r) ELSE r.total
           y == [Counted(r) EXCEPT !.len = @ + 1]
<1>1. /\ r.retry \in Nat /\ r.len \in Nat /\ r.req \in Nat /\ r.pos \in Nat /\ r.total \in Int
      /\ r.begun \in BOOLEAN /\ r.cb \in BOOLEAN /\ r.control = "RUN"
  BY DEF Records, Accepts
<1>2. /\ y.server = r.server /\ y.retry = 0 /\ y.pos = r.pos + 1 /\ y.total = t /\ y.len = r.len + 1
      /\ y.req = r.req /\ y.result = r.result /\ y.cb = r.cb /\ y.begun = r.begun
  BY <1>1 DEF Counted, Records
<1>3. r.total = 0 /\ ~r.server.chunked => r.len = 0 /\ r.req = 0
  BY <1>1 DEF Sound
<1>4. t \in {0, FileLen} /\ (~r.server.chunked => t = FileLen)
  BY <1>1, <1>3 DEF Sound, Length, From
<1>5. r.result = "none" /\ r.req <= r.len
      /\ (~r.server.chunked => r.pos - From(r) = r.len - r.req)
  BY DEF Sound, Fetching
<1>6. r.begun /\ Continues(r) => Append(g, r.pos) = Prefix(r.len + 1)
  <2> SUFFICES ASSUME r.begun, Continues(r) PROVE Append(g, r.pos) = Prefix(r.len + 1)
    OBVIOUS
  <2>1. g = Prefix(r.len)
    BY DEF Sound, Begun, Live, Fetching
  <2>2. r.pos = r.len
    BY <1>1, <1>5 DEF Continues, From
  <2> QED BY <2>1, <2>2, <1>1, PrefixAppend
<1> HIDE DEF t, y
<1>7. From(y) = From(r)
  BY <1>2 DEF From
<1>8. From(r) \in Nat
  BY <1>1 DEF From
<1>a. Continues(y) <=> Continues(r)
  BY <1>2 DEF Continues
<1> DEFINE h == Append(g, r.pos)
<1> HIDE DEF h
<1>b. y.begun /\ Continues(y) => h = Prefix(y.len)
  BY <1>2, <1>6, <1>a DEF h
<1>c. /\ y.result = "none" /\ y.retry <= MaxRetry + 1 /\ y.retry <= MaxRetry
      /\ y.total \in {0, FileLen} /\ (~y.server.chunked /\ y.total = 0 => y.len = 0)
      /\ y.req <= y.len /\ y.pos <= FileLen
  BY <1>1, <1>2, <1>4, <1>5
<1>d. ~y.server.chunked => y.pos - From(y) = y.len - y.req
  BY <1>1, <1>2, <1>5, <1>7, <1>8, BothNext
<1>9. Sound("body", y, h)
  BY <1>b, <1>c, <1>d DEF Sound, Attempt
<1> QED BY <1>9 DEF y, h

LEMMA ReceiveSound ==
  ASSUME HttpInv, DataSound, NEW c \in Ctxs, pc[c] \in Live, NEW r \in Records, r.user = User(c),
         Sound("body", r, got[User(c)]), r.cb, r.pos < FileLen,
         \/ Receive(c, r, Same, IF r.server.chunked THEN "body" ELSE "exit")
         \/ Receive(c, r, Unsupported, "body")
  PROVE  DataSound'
<1> DEFINE k == Counted(r)
           g == got[User(c)]
<1>1. k \in Records /\ k.user = User(c) /\ User(c) \in Users /\ g \in Seq(Blocks)
      /\ {"body", "exit"} \subseteq PCs
  BY CountedTyped DEF HttpInv, Typed, DataSound, Records, User, PCs
<1>2. /\ k = [k EXCEPT !.control = k.control] /\ k.control \in {"RUN", "PAUSE", "STOP"}
  BY <1>1 DEF Records
<1> HIDE DEF k
<1>3. /\ [k EXCEPT !.len = @ + 1] \in Records /\ [k EXCEPT !.len = @ + 1].user = User(c)
      /\ [k EXCEPT !.control = "STOP"] \in Records /\ [k EXCEPT !.control = "STOP"].user = User(c)
  <2>1. k.len + 1 \in Nat
    BY <1>1 DEF Records
  <2>2. [k EXCEPT !.len = k.len + 1] \in Records /\ [k EXCEPT !.len = k.len + 1].user = User(c)
    BY <1>1, <2>1 DEF Records
  <2> QED BY <1>1, <2>2 DEF Records
<1>4. \A x \in Records : x.user = User(c) =>
        Unsupported(x) \in Records /\ Unsupported(x).user = User(c)
  BY DEF Records, Unsupported
<1>5. CASE /\ Accepts(r) /\ Update(c, [k EXCEPT !.len = @ + 1]) /\ Goto(c, "body")
           /\ got' = [got EXCEPT ![User(c)] = Append(@, r.pos)]
  <2>1. r.pos \in Blocks
    BY HttpAssumption DEF Blocks, Records
  <2>2. Append(g, r.pos) \in Seq(Blocks)
    BY <1>1, <2>1
  <2>3. Sound("body", [k EXCEPT !.len = @ + 1], Append(g, r.pos))
    BY <1>1, <1>5, GivenSound DEF k
  <2>4. got' = [got EXCEPT ![User(c)] = Append(g, r.pos)]
    BY <1>5
  <2> QED BY <1>1, <1>3, <1>5, <2>2, <2>3, <2>4, SoundStep
<1>6. \A y \in {k, [k EXCEPT !.control = "STOP"]} :
        /\ y \in Records /\ y.user = User(c)
        /\ Sound("exit", y, g) /\ Sound("body", Unsupported(y), g)
        /\ r.server.chunked => Sound("body", y, g)
  BY <1>1, <1>2, <1>3, CountedSound DEF k
<1>7. CASE /\ \E y \in {k, [k EXCEPT !.control = "STOP"]} :
                 \/ Update(c, y) /\ Goto(c, IF r.server.chunked THEN "body" ELSE "exit")
                 \/ Update(c, Unsupported(y)) /\ Goto(c, "body")
           /\ UNCHANGED got
  <2>1. PICK y \in {k, [k EXCEPT !.control = "STOP"]} :
                 \/ Update(c, y) /\ Goto(c, IF r.server.chunked THEN "body" ELSE "exit")
                 \/ Update(c, Unsupported(y)) /\ Goto(c, "body")
    BY <1>7
  <2>2. CASE Update(c, y) /\ Goto(c, "exit") /\ ~r.server.chunked
    BY <1>1, <1>6, <1>7, <2>2, SoundWork
  <2>3. CASE Update(c, y) /\ Goto(c, "body") /\ r.server.chunked
    BY <1>1, <1>6, <1>7, <2>3, SoundWork
  <2>4. CASE Update(c, Unsupported(y)) /\ Goto(c, "body")
    BY <1>1, <1>4, <1>6, <1>7, <2>4, SoundWork
  <2> QED BY <2>1, <2>2, <2>3, <2>4
<1>8. \/ /\ Accepts(r) /\ Update(c, [k EXCEPT !.len = @ + 1]) /\ Goto(c, "body")
         /\ got' = [got EXCEPT ![User(c)] = Append(@, r.pos)]
      \/ /\ \E y \in {k, [k EXCEPT !.control = "STOP"]} :
                 \/ Update(c, y) /\ Goto(c, IF r.server.chunked THEN "body" ELSE "exit")
                 \/ Update(c, Unsupported(y)) /\ Goto(c, "body")
         /\ UNCHANGED got
  BY DEF Receive, Same, k
<1> QED BY <1>5, <1>7, <1>8

LEMMA WorkSound ==
  ASSUME HttpInv, DataSound, NEW c \in Ctxs,
         \/ Boot(c) \/ Begin(c) \/ Connect(c) \/ Select(c) \/ Check(c) \/ PauseSeen(c)
         \/ ReadHeader(c) \/ Redirected(c) \/ ErrorReply(c) \/ Broken(c) \/ ReadBody(c)
         \/ Complete(c) \/ Exit(c) \/ Again(c) \/ Finish(c)
  PROVE  DataSound'
<1> USE HttpAssumption DEF Keep, Quiet
<1> DEFINE g == got[User(c)]
           r0 == ctx[c]
<1>1. /\ r0 \in Records /\ r0.user = User(c) /\ User(c) \in Users /\ Sound(pc[c], r0, g)
      /\ g \in Seq(Blocks) /\ pc[c] \in PCs
  BY DEF HttpInv, Typed, DataSound, Records, User
<1>2. {"new", "boot", "begin", "ready", "sent", "readable", "checked", "body", "exit", "again",
       "finish"} = Live /\ Live \subseteq PCs /\ "free_it" \in PCs
  BY DEF Live, Fetching, PCs
<1>3. /\ r0.retry \in Nat /\ r0.len \in Nat /\ r0.req \in Nat /\ r0.pos \in Nat /\ r0.total \in Int
      /\ r0.begun \in BOOLEAN /\ r0.cb \in BOOLEAN
  BY <1>1 DEF Records
<1>4. CASE Connect(c) \/ Select(c) \/ Check(c) \/ PauseSeen(c) \/ Broken(c) \/ Again(c) \/ Finish(c)
  <2>1. UNCHANGED <<ctx, got>> /\ Update(c, r0)
    BY <1>4 DEF Connect, Select, Check, PauseSeen, Broken, Again, Finish, Update, HttpInv, Typed
  <2>2. \E p \in {"sent", "readable", "checked", "exit", "begin", "finish", "free_it"} :
          /\ Goto(c, p)
          /\ p \in Attempt => pc[c] \in Attempt
          /\ p = "exit" => pc[c] \in Fetching
          /\ p = "begin" => pc[c] = "again"
          /\ p = "finish" => pc[c] = "again"
          /\ p = "free_it" => pc[c] = "finish"
    BY <1>4 DEF Connect, Select, Check, PauseSeen, Broken, Again, Finish, Attempt, Fetching
  <2>3. PICK p \in {"sent", "readable", "checked", "exit", "begin", "finish", "free_it"} :
          /\ Goto(c, p)
          /\ p \in Attempt => pc[c] \in Attempt
          /\ p = "exit" => pc[c] \in Fetching
          /\ p = "begin" => pc[c] = "again"
          /\ p = "finish" => pc[c] = "again"
          /\ p = "free_it" => pc[c] = "finish"
    BY <2>2
  <2>4. pc[c] \in Live
    BY <1>2, <1>4 DEF Connect, Select, Check, PauseSeen, Broken, Again, Finish
  <2>5. Sound(p, r0, g)
    BY <1>1, <1>3, <2>3 DEF Sound, Attempt, Fetching, Live, Begun
  <2> QED BY <1>1, <1>2, <2>1, <2>3, <2>4, <2>5, SoundWork DEF PCs
<1>5. CASE Boot(c)
  <2>1. CASE Runs(c) /\ Goto(c, "begin") /\ Update(c, [ctx[c] EXCEPT !.begun = TRUE])
             /\ got' = [got EXCEPT ![User(c)] = <<>>]
    <3> DEFINE r == [r0 EXCEPT !.begun = TRUE]
    <3>1. /\ r \in Records /\ r.user = User(c) /\ r.server = r0.server /\ r.len = r0.len
          /\ r.req = r0.req /\ r.pos = r0.pos /\ r.total = r0.total /\ r.retry = r0.retry
          /\ r.result = r0.result
      BY <1>1 DEF Records
    <3>2. pc[c] = "boot" /\ r0.len = 0
      BY <1>1, <1>5 DEF Boot, Sound
    <3> HIDE DEF r
    <3>3. Sound("begin", r, <<>>)
      BY <1>1, <1>3, <3>1, <3>2, PrefixEmpty DEF Sound, Attempt, Fetching, Live, Begun
    <3>4. Goto(c, "begin") /\ Update(c, r) /\ <<>> \in Seq(Blocks)
      BY <2>1 DEF r
    <3> QED BY <1>1, <1>2, <2>1, <3>1, <3>2, <3>3, <3>4, SoundStep
  <2>2. CASE Goto(c, "exit") /\ UNCHANGED <<ctx, got>>
    <3>1. Update(c, r0) /\ pc[c] = "boot"
      BY <1>5, <2>2 DEF Boot, Update, HttpInv, Typed
    <3>2. Sound("exit", r0, g)
      BY <1>1, <1>3, <3>1 DEF Sound, Attempt, Fetching, Live, Begun
    <3> QED BY <1>1, <1>2, <2>2, <3>1, <3>2, SoundWork
  <2> QED BY <1>5, <2>1, <2>2 DEF Boot
<1>6. CASE Begin(c)
  <2> DEFINE r == [r0 EXCEPT !.result = "none", !.control = "RUN", !.req = r0.len]
  <2>1. /\ r \in Records /\ r.user = User(c) /\ r.server = r0.server /\ r.len = r0.len
        /\ r.req = r0.len /\ r.pos = r0.pos /\ r.total = r0.total /\ r.retry = r0.retry
        /\ r.result = "none" /\ r.begun = r0.begun
    BY <1>1 DEF Records
  <2>2. pc[c] = "begin" /\ Goto(c, "ready") /\ Update(c, r) /\ UNCHANGED got
    BY <1>6 DEF Begin
  <2> HIDE DEF r
  <2>3. r.begun /\ Continues(r) => g = Prefix(r.len)
    <3>1. Continues(r) => Continues(r0)
      BY <1>1, <1>3, <2>1 DEF Continues, Sound
    <3> QED BY <1>1, <2>1, <2>2, <3>1 DEF Sound, Begun, Live, Fetching
  <2>4. Sound("ready", r, g)
    BY <1>1, <1>3, <2>1, <2>2, <2>3 DEF Sound, Attempt, Fetching, Live, Begun
  <2> QED BY <1>1, <1>2, <2>1, <2>2, <2>4, SoundWork
<1>7. CASE Redirected(c)
  <2> DEFINE r == [r0 EXCEPT !.result = "redirect"]
  <2>1. /\ r \in Records /\ r.user = User(c) /\ r.server = r0.server /\ r.len = r0.len
        /\ r.req = r0.req /\ r.pos = r0.pos /\ r.total = r0.total /\ r.retry = r0.retry
        /\ r.result = "redirect" /\ r.begun = r0.begun
    BY <1>1 DEF Records
  <2>2. pc[c] = "checked" /\ Goto(c, "exit") /\ Update(c, r) /\ UNCHANGED got
    BY <1>7 DEF Redirected
  <2> HIDE DEF r
  <2>3. Sound("exit", r, g)
    BY <1>1, <1>3, <2>1, <2>2 DEF Sound, Attempt, Fetching, Live, Begun, Continues
  <2> QED BY <1>1, <1>2, <2>1, <2>2, <2>3, SoundWork
<1>a. CASE ErrorReply(c)
  <2> DEFINE r == [r0 EXCEPT !.retry = 0]
  <2>1. /\ r \in Records /\ r.user = User(c) /\ r.server = r0.server /\ r.len = r0.len
        /\ r.req = r0.req /\ r.pos = r0.pos /\ r.total = r0.total /\ r.retry = 0
        /\ r.result = r0.result /\ r.begun = r0.begun /\ r.cb = r0.cb
    BY <1>1 DEF Records
  <2>2. pc[c] = "checked" /\ Goto(c, "exit") /\ Update(c, r) /\ UNCHANGED got
    BY <1>a DEF ErrorReply
  <2> HIDE DEF r
  <2>3. Sound("exit", r, g)
    BY <1>1, <1>3, <2>1, <2>2 DEF Sound, Attempt, Fetching, Live, Begun, Continues
  <2> QED BY <1>1, <1>2, <2>1, <2>2, <2>3, SoundWork
<1>8. CASE Exit(c)
  <2> DEFINE failed == r0.result = "none"
             n == r0.retry + (IF failed /\ r0.control # "PAUSE" THEN 1 ELSE 0)
             r == [r0 EXCEPT !.retry = n]
             p == IF failed /\ n <= MaxRetry THEN "again" ELSE "finish"
  <2>0. n \in Nat
    BY <1>3
  <2>1. /\ r \in Records /\ r.user = User(c) /\ r.server = r0.server /\ r.len = r0.len
        /\ r.req = r0.req /\ r.pos = r0.pos /\ r.total = r0.total /\ r.retry = n
        /\ r.result = r0.result /\ r.begun = r0.begun /\ r.cb = r0.cb
    <3> HIDE DEF n
    <3> QED BY <1>1, <2>0 DEF Records
  <2>2. pc[c] = "exit" /\ Goto(c, p) /\ Update(c, r) /\ UNCHANGED got
    BY <1>8 DEF Exit
  <2>3. n \in Nat /\ n <= MaxRetry + 1 /\ (p = "again" => n <= MaxRetry /\ r0.result = "none")
        /\ p \in {"again", "finish"}
    BY <1>1, <1>3, <2>2 DEF Sound, Live
  <2> HIDE DEF r, n, p
  <2>4. Sound(p, r, g)
    BY <1>1, <1>3, <2>1, <2>2, <2>3 DEF Sound, Attempt, Fetching, Live, Begun, Continues
  <2> QED BY <1>1, <1>2, <2>1, <2>2, <2>3, <2>4, SoundWork
<1>9. CASE Complete(c)
  <2> DEFINE x == IF Whole(r0) THEN "success" ELSE r0.result
             r == [r0 EXCEPT !.result = x]
  <2>1. /\ r \in Records /\ r.user = User(c) /\ r.server = r0.server /\ r.len = r0.len
        /\ r.req = r0.req /\ r.pos = r0.pos /\ r.total = r0.total /\ r.retry = r0.retry
        /\ r.result = x /\ r.begun = r0.begun /\ r.cb = r0.cb
    BY <1>1, <1>3 DEF Records
  <2>2. pc[c] = "body" /\ r0.pos = FileLen /\ Goto(c, "exit") /\ Update(c, r) /\ UNCHANGED got
    BY <1>9 DEF Complete
  <2>3. x = "success" /\ r0.begun /\ ~r0.server.chunked /\ (r0.server.ranged \/ r0.cb)
          => g = Prefix(FileLen)
    <3> SUFFICES ASSUME x = "success", r0.begun, ~r0.server.chunked, r0.server.ranged \/ r0.cb
                 PROVE  g = Prefix(FileLen)
      OBVIOUS
    <3>1. Whole(r0)
      BY <1>1, <2>2 DEF Sound, Fetching
    <3>2. r0.len = FileLen
      BY <1>1, <3>1 DEF Whole, Sound
    <3>3. r0.server.ranged \/ r0.req = 0
      <4>1. CASE ~r0.server.ranged
        <5>1. r0.pos - From(r0) = r0.len - r0.req /\ From(r0) = 0
          BY <1>1, <2>2, <4>1 DEF Sound, From
        <5> QED BY <1>3, <2>2, <3>2, <5>1
      <4> QED BY <4>1
    <3> QED BY <1>1, <2>2, <3>2, <3>3 DEF Sound, Continues, Begun, Live, Fetching
  <2> HIDE DEF r, x
  <2>4. Sound("exit", r, g)
    BY <1>1, <1>3, <2>1, <2>2, <2>3 DEF Sound, Attempt, Fetching, Live, Begun, Continues
  <2> QED BY <1>1, <1>2, <2>1, <2>2, <2>4, SoundWork
<1>10. CASE ReadHeader(c)
  <2> DEFINE r == [r0 EXCEPT !.pos = From(r0), !.cb = TRUE]
  <2>1. /\ pc[c] = "checked" /\ Length(r) > 0
        /\ \/ Update(c, r) /\ Goto(c, "body") /\ UNCHANGED got
           \/ Receive(c, r, Unsupported, "body")
    BY <1>10 DEF ReadHeader
  <2>2. /\ r \in Records /\ r.user = User(c) /\ r.server = r0.server /\ r.len = r0.len
        /\ r.req = r0.req /\ r.pos = From(r0) /\ r.total = r0.total /\ r.retry = r0.retry
        /\ r.result = r0.result /\ r.begun = r0.begun /\ r.cb = TRUE
    BY <1>1, <1>3 DEF Records, From
  <2>3. From(r) = From(r0) /\ From(r0) \in Nat /\ r.pos < FileLen /\ r0.req = r0.len
    BY <1>1, <1>3, <2>1, <2>2 DEF From, Length, Sound, Attempt
  <2> HIDE DEF r
  <2>4. Sound("body", r, g)
    <3>1. r.pos - From(r) = r.len - r.req
      <4>1. r.pos - From(r) = 0
        BY <2>2, <2>3
      <4>2. r.len - r.req = 0
        BY <1>3, <2>2, <2>3
      <4> QED BY <4>1, <4>2
    <3> QED BY <1>1, <1>3, <2>1, <2>2, <2>3, <3>1 DEF Sound, Attempt, Fetching, Live, Begun, Continues
  <2>5. CASE Receive(c, r, Unsupported, "body")
    BY <1>1, <1>2, <2>1, <2>2, <2>3, <2>4, <2>5, ReceiveSound
  <2>6. CASE Update(c, r) /\ Goto(c, "body") /\ UNCHANGED got
    BY <1>1, <1>2, <2>1, <2>2, <2>4, <2>6, SoundWork
  <2> QED BY <2>1, <2>5, <2>6
<1>11. CASE ReadBody(c)
  <2>1. pc[c] = "body" /\ r0.pos < FileLen
    BY <1>11 DEF ReadBody
  <2>2. CASE r0.cb
    BY <1>1, <1>2, <1>11, <2>1, <2>2, ReceiveSound DEF ReadBody
  <2>3. CASE ~r0.cb
    <3> DEFINE r == [r0 EXCEPT !.pos = @ + 1]
    <3>1. /\ r \in Records /\ r.user = User(c) /\ r.server = r0.server /\ r.len = r0.len
          /\ r.req = r0.req /\ r.pos = r0.pos + 1 /\ r.total = r0.total /\ r.retry = r0.retry
          /\ r.result = r0.result /\ r.begun = r0.begun /\ r.cb = FALSE
      <4> DEFINE q == r0.pos + 1
      <4>1. q \in Nat
        BY <1>3
      <4> HIDE DEF q
      <4>2. /\ [r0 EXCEPT !.pos = q] \in Records /\ [r0 EXCEPT !.pos = q].user = User(c)
            /\ [r0 EXCEPT !.pos = q].pos = q
        BY <1>1, <4>1 DEF Records
      <4> QED BY <1>1, <2>3, <4>2 DEF q, Records
    <3>2. Goto(c, "body") /\ Update(c, r) /\ UNCHANGED got
      BY <1>11, <2>1, <2>3 DEF ReadBody, HttpInv, Typed, Goto
    <3> HIDE DEF r
    <3>3. Sound("body", r, g)
      BY <1>1, <1>3, <2>1, <3>1 DEF Sound, Attempt, Fetching, Live, Begun, Continues
    <3> QED BY <1>1, <1>2, <2>1, <3>1, <3>2, <3>3, SoundWork
  <2> QED BY <2>2, <2>3
<1> QED BY <1>4, <1>5, <1>6, <1>7, <1>8, <1>9, <1>10, <1>11, <1>a

(* The application's calls write only control states.                      *)
LEMMA ControlSound ==
  ASSUME HttpInv, DataSound, UNCHANGED <<pc, got>>,
         \A d \in Ctxs : \E s \in {"RUN", "PAUSE", "STOP"} :
             ctx'[d] = ctx[d] \/ ctx'[d] = [ctx[d] EXCEPT !.control = s]
  PROVE  DataSound'
<1>1. ASSUME NEW d \in Ctxs PROVE Sound(pc'[d], ctx'[d], got'[ctx'[d].user])
  <2>1. ctx[d] \in Records /\ Sound(pc[d], ctx[d], got[ctx[d].user])
    BY DEF HttpInv, Typed, DataSound, User
  <2>2. /\ ctx'[d].user = ctx[d].user /\ ctx'[d].server = ctx[d].server /\ ctx'[d].len = ctx[d].len
        /\ ctx'[d].req = ctx[d].req /\ ctx'[d].pos = ctx[d].pos /\ ctx'[d].total = ctx[d].total
        /\ ctx'[d].retry = ctx[d].retry /\ ctx'[d].result = ctx[d].result
        /\ ctx'[d].begun = ctx[d].begun /\ ctx'[d].cb = ctx[d].cb
    BY <2>1 DEF Records
  <2> QED BY <2>1, <2>2 DEF Sound, Continues, From
<1> QED BY <1>1 DEF DataSound, User

LEMMA AppSound ==
  ASSUME HttpInv, DataSound, NEW u \in Users, Pause(u) \/ Continue(u) \/ Stop(u) \/ StopWakes(u)
  PROVE  DataSound'
<1>1. UNCHANGED <<pc, got>>
  BY DEF Pause, Continue, Stop, StopWakes, Others
<1>2. CASE UNCHANGED ctx
  BY <1>1, <1>2, ControlSound
<1>3. CASE handle[u] # NULL /\ \E s \in {"RUN", "PAUSE", "STOP"} : Control(u, s)
  <2>1. handle[u] \in Ctxs
    BY <1>3 DEF HttpInv, Typed
  <2> QED BY <1>1, <1>3, <2>1, ControlSound DEF Control, Update, HttpInv, Typed
<1> QED BY <1>2, <1>3 DEF Pause, Continue, Stop, StopWakes, Call

(* What holds of a context that is not fetching whatever its user has.     *)
LEMMA SoundOutside ==
  /\ \A h : Sound("free", NoCtx, h)
  /\ \A h, b : \A u \in Users, s \in Servers : Sound("new", Fresh(u, s, b), h)
  /\ \A p, r, g, h : Sound(p, r, g) /\ p = "new" => Sound("boot", r, h)
  /\ \A p, r, g, h : Sound(p, r, g) /\ r.result = "redirect"
       => \A q \in {"restart", "starting", "free_it"} : Sound(q, r, h)
<1> USE HttpAssumption DEF Sound, Attempt, Fetching, Live, Begun
<1>1. \A h : \A u, s, b : Sound("free", Fresh(u, s, b), h) /\ Sound("new", Fresh(u, s, b), h)
  <2> TAKE h, u, s, b
  <2>1. LET r == Fresh(u, s, b) IN
        /\ r.len = 0 /\ r.begun = FALSE /\ r.result = "none" /\ r.retry = 0 /\ r.total = 0
        /\ r.req = 0 /\ r.pos = 0
    BY DEF Fresh
  <2> QED BY <2>1
<1>2. \A p, r, g, h : Sound(p, r, g) /\ p = "new" => Sound("boot", r, h)
  OBVIOUS
<1>3. \A p, r, g, h : Sound(p, r, g) /\ r.result = "redirect"
       => \A q \in {"restart", "starting", "free_it"} : Sound(q, r, h)
  OBVIOUS
<1> QED BY <1>1, <1>2, <1>3 DEF NoCtx

LEMMA StartSound ==
  ASSUME HttpInv, DataSound, NEW u \in Users, NEW b \in Ctxs \cup {NULL}, Publish(u, b),
         b # NULL => pc[b] = "restart" /\ User(b) = u, UNCHANGED got
  PROVE  DataSound'
<1>1. PICK c \in Ctxs, s \in Servers :
         /\ pc[c] = "free" /\ Update(c, Fresh(u, s, b))
         /\ pc' = [d \in Ctxs |-> IF d = c THEN "new" ELSE IF d = b THEN "starting" ELSE pc[d]]
  BY DEF Publish
<1>2. ASSUME NEW d \in Ctxs PROVE Sound(pc'[d], ctx'[d], got'[ctx'[d].user])
  <2>1. CASE d = c
    <3>1. ctx'[c] = Fresh(u, s, b) /\ pc'[c] = "new"
      BY <1>1 DEF Update, HttpInv, Typed
    <3> QED BY <2>1, <3>1, SoundOutside
  <2>2. CASE d # c /\ d = b
    <3>1. ctx'[d] = ctx[d] /\ pc'[d] = "starting" /\ ctx[d].result = "redirect"
      BY <1>1, <2>2, HttpAssumption DEF Update, HttpInv, Typed, Redirecting
    <3>2. Sound(pc[d], ctx[d], got[User(d)])
      BY DEF DataSound
    <3> QED BY <3>1, <3>2, SoundOutside
  <2>3. CASE d # c /\ d # b
    BY <1>1, <2>3 DEF Update, HttpInv, Typed, DataSound, User
  <2> QED BY <2>1, <2>2, <2>3
<1> QED BY <1>2 DEF DataSound, User

LEMMA CallerSound ==
  ASSUME HttpInv, DataSound, NEW c \in Ctxs, NewThread(c) \/ NoThread(c)
  PROVE  DataSound'
<1> DEFINE b == ctx[c].by
<1>1. pc[c] = "new" /\ UNCHANGED got /\ b \in Ctxs \cup {NULL}
  BY DEF NewThread, NoThread, history, HttpInv, Typed, Records
<1>2. b # NULL => pc[b] = "starting" /\ ctx[b].result = "redirect" /\ b # c /\ b \in Ctxs
  BY <1>1 DEF HttpInv, Calling, Redirecting
<1>3. PICK p \in {"boot", "free"} :
        /\ pc' = Resume([pc EXCEPT ![c] = p], b)
        /\ ctx' = IF p = "boot" THEN ctx ELSE [ctx EXCEPT ![c] = NoCtx]
  BY DEF NewThread, NoThread, Free, Update
<1>4. ASSUME NEW d \in Ctxs PROVE Sound(pc'[d], ctx'[d], got'[ctx'[d].user])
  <2>0. Sound(pc[d], ctx[d], got[ctx[d].user])
    BY DEF DataSound, User
  <2>1. CASE d = c
    <3>1. pc'[c] = p /\ ctx'[c] = IF p = "boot" THEN ctx[c] ELSE NoCtx
      BY <1>2, <1>3 DEF Resume, HttpInv, Typed
    <3> QED BY <1>1, <2>0, <2>1, <3>1, SoundOutside
  <2>2. CASE d # c /\ d = b
    <3>1. ctx'[d] = ctx[d] /\ pc'[d] = "free_it" /\ ctx[d].result = "redirect"
      BY <1>2, <1>3, <2>2, HttpAssumption DEF Resume, HttpInv, Typed
    <3> QED BY <2>0, <3>1, SoundOutside
  <2>3. CASE d # c /\ d # b
    <3>1. pc'[d] = pc[d] /\ ctx'[d] = ctx[d]
      BY <1>2, <1>3, <2>3 DEF Resume, HttpInv, Typed
    <3> QED BY <1>1, <2>0, <3>1
  <2> QED BY <2>1, <2>2, <2>3
<1> QED BY <1>1, <1>4 DEF DataSound, User

LEMMA EndSound ==
  ASSUME HttpInv, DataSound, NEW c \in Ctxs, Detach(c) \/ RestartFails(c) \/ FreeIt(c)
  PROVE  DataSound'
<1> DEFINE q == IF pc[c] = "finish" THEN "restart" ELSE IF pc[c] = "restart" THEN "free_it" ELSE "free"
<1>1. /\ UNCHANGED got /\ pc' = [pc EXCEPT ![c] = q]
      /\ \/ ctx' = ctx /\ q \in {"restart", "free_it"} /\ ctx[c].result = "redirect"
         \/ ctx' = [ctx EXCEPT ![c] = NoCtx] /\ q = "free"
  BY DEF Detach, RestartFails, FreeIt, Free, Update, Goto, HttpInv, Redirecting
<1> HIDE DEF q
<1>2. ASSUME NEW d \in Ctxs PROVE Sound(pc'[d], ctx'[d], got'[ctx'[d].user])
  <2>0. Sound(pc[d], ctx[d], got[ctx[d].user])
    BY DEF DataSound, User
  <2>1. CASE d = c
    <3>1. pc'[c] = q /\ ctx'[c] = IF q = "free" THEN NoCtx ELSE ctx[c]
      BY <1>1 DEF HttpInv, Typed
    <3> QED BY <1>1, <2>0, <2>1, <3>1, SoundOutside
  <2>2. CASE d # c
    <3>1. pc'[d] = pc[d] /\ ctx'[d] = ctx[d]
      BY <1>1, <2>2 DEF HttpInv, Typed
    <3> QED BY <1>1, <2>0, <3>1
  <2> QED BY <2>1, <2>2
<1> QED BY <1>1, <1>2 DEF DataSound, User

LEMMA InitSound == Init => DataSound
<1> SUFFICES ASSUME Init PROVE DataSound
  OBVIOUS
<1>1. got \in [Users -> Seq(Blocks)]
  BY DEF Init
<1>2. \A c \in Ctxs : pc[c] = "free" /\ ctx[c] = NoCtx
  BY DEF Init
<1> QED BY <1>1, <1>2, SoundOutside DEF DataSound

LEMMA StepSound == HttpInv /\ DataSound /\ [Next]_vars => DataSound'
<1> SUFFICES ASSUME HttpInv, DataSound, [Next]_vars PROVE DataSound'
  OBVIOUS
<1>1. ASSUME NEW c \in Ctxs, Caller(c) PROVE DataSound'
  BY <1>1, CallerSound DEF Caller
<1>2. ASSUME NEW c \in Ctxs, Thread(c) PROVE DataSound'
  <2>1. CASE Restart(c)
    <3>1. User(c) \in Users
      BY DEF HttpInv, Typed, User, Records
    <3> QED BY <2>1, <3>1, StartSound, HttpAssumption DEF Restart
  <2> QED BY <1>2, <2>1, WorkSound, EndSound DEF Thread
<1>3. ASSUME NEW u \in Users, App(u) PROVE DataSound'
  BY <1>3, AppSound, StartSound DEF App, Start
<1>4. CASE UNCHANGED vars
  BY <1>4 DEF vars, DataSound, User
<1> QED BY <1>1, <1>2, <1>3, <1>4 DEF Next

LEMMA DataInvariant == Spec => []DataSound
BY InitSound, StepSound, Invariant, PTL DEF Spec

(* Over retries, pauses and resumptions the data callback is given each    *)
(* block of the file once and in order, if the server honours Range and    *)
(* sends a length: http_req begins where download_len ended.               *)
THEOREM DeliversInOrder == Spec => []Delivered
<1>1. DataSound => Delivered
  BY DEF DataSound, Delivered, Sound, Resumable, Continues, Begun, Live, Fetching
<1> QED BY <1>1, DataInvariant, PTL

(* A user that is told SUCCESS for a reply of known length was given the   *)
(* whole file, each block once and in order, if the server honours Range;  *)
(* by one that ignores it and sends all again from the start, if the data  *)
(* callback was offered all of the last reply (lines 474-480, 607-644).    *)
THEOREM SuccessMeansWhole == Spec => []SuccessIsWhole
<1>1. DataSound => SuccessIsWhole
  BY DEF DataSound, SuccessIsWhole, Succeeds, Sound
<1> QED BY <1>1, DataInvariant, PTL

(* download_file_thread_num counts the threads between their start and     *)
(* their end, and the bounds are kept.                                     *)
LEMMA CountsInvariant == Spec => []Counts
<1>0. ASSUME NEW S \in SUBSET Ctxs PROVE IsFiniteSet(S) /\ Cardinality(S) \in 0..Cardinality(Ctxs)
  BY FS_Subset, FS_CardinalityType, HttpAssumption
<1>1. Init => Counts
  <2> SUFFICES ASSUME Init PROVE Counts
    OBVIOUS
  <2>1. Running = {}
    BY DEF Init, Running
  <2> QED BY <2>1, FS_EmptySet, HttpAssumption DEF Init, Counts
<1>2. ASSUME HttpInv, Counts, [Next]_vars PROVE Counts'
  <2> USE <1>2, HttpAssumption
  <2>1. /\ stopping' \subseteq Users /\ starts' \in 0..MaxStarts
        /\ calls' \in 0..MaxCalls /\ redirects' \in 0..MaxRedirects
    <3>1. /\ stopping' = stopping \/ \E u \in Users : stopping' \in {stopping \cup {u}, stopping \ {u}}
          /\ starts' = starts \/ (starts < MaxStarts /\ starts' = starts + 1)
          /\ calls' = calls \/ (calls < MaxCalls /\ calls' = calls + 1)
          /\ redirects' = redirects \/ (redirects < MaxRedirects /\ redirects' = redirects + 1)
      <4>1. ASSUME NEW c \in Ctxs, Caller(c) PROVE UNCHANGED <<stopping, starts, calls, redirects>>
        BY <4>1 DEF Caller, NewThread, NoThread, history
      <4>2. ASSUME NEW c \in Ctxs, Thread(c)
            PROVE  /\ UNCHANGED <<stopping, starts, calls>>
                   /\ redirects' = redirects \/ (redirects < MaxRedirects /\ redirects' = redirects + 1)
        BY <4>2 DEF Thread, Boot, Begin, Connect, Select, Check, PauseSeen, ReadHeader, Redirected,
                    ErrorReply, Broken, ReadBody, Complete, Exit, Again, Finish, Detach, Restart, RestartFails,
                    FreeIt, Keep, Quiet
      <4>3. ASSUME NEW u \in Users, App(u)
            PROVE  /\ UNCHANGED redirects /\ stopping' \in {stopping, stopping \cup {u}, stopping \ {u}}
                   /\ starts' = starts \/ (starts < MaxStarts /\ starts' = starts + 1)
                   /\ calls' = calls \/ (calls < MaxCalls /\ calls' = calls + 1)
        BY <4>3 DEF App, Start, Call, Pause, Continue, Stop, StopWakes, Others
      <4>4. CASE UNCHANGED vars
        BY <4>4 DEF vars
      <4> QED BY <4>1, <4>2, <4>3, <4>4 DEF Next
    <3> QED BY <3>1 DEF Counts
  <2>2. Running \in SUBSET Ctxs /\ IsFiniteSet(Running)
    BY <1>0 DEF Running
  <2>0. ASSUME UNCHANGED <<threadNum, pc>> PROVE threadNum' = Cardinality(Running')
    BY <2>0 DEF Counts, Running
  <2>3. ASSUME NEW c \in Ctxs, Boot(c) PROVE threadNum' = Cardinality(Running')
    <3>1. Running' = Running \cup {c} /\ c \notin Running
      BY <2>3 DEF Boot, Goto, Running, HttpInv, Typed
    <3> QED BY <2>2, <2>3, <3>1, FS_AddElement DEF Boot, Counts
  <2>4. ASSUME NEW c \in Ctxs, FreeIt(c) PROVE threadNum' = Cardinality(Running')
    <3>1. Running' = Running \ {c} /\ c \in Running
      BY <2>4 DEF FreeIt, Goto, Running, HttpInv, Typed
    <3> QED BY <2>2, <2>4, <3>1, FS_RemoveElement DEF FreeIt, Counts
  <2>5. ASSUME UNCHANGED threadNum, \A c \in Ctxs : c \in Running <=> pc'[c] \notin {"free", "new", "boot"}
        PROVE  threadNum' = Cardinality(Running')
    <3>1. Running' = Running
      BY <2>5 DEF Running
    <3> QED BY <2>5, <3>1 DEF Counts
  <2>6. ASSUME NEW c \in Ctxs, Caller(c) PROVE threadNum' = Cardinality(Running')
    <3>1. UNCHANGED threadNum /\ pc[c] = "new" /\ ctx[c].by \in Ctxs \cup {NULL}
          /\ \E p \in {"boot", "free"} : pc' = Resume([pc EXCEPT ![c] = p], ctx[c].by)
      BY <2>6 DEF Caller, NewThread, NoThread, HttpInv, Typed, Records
    <3>2. ctx[c].by # NULL => pc[ctx[c].by] = "starting"
      BY <3>1 DEF HttpInv, Calling
    <3>3. \A d \in Ctxs : d \in Running <=> pc'[d] \notin {"free", "new", "boot"}
      BY <3>1, <3>2 DEF Running, Resume, HttpInv, Typed
    <3> QED BY <2>5, <3>1, <3>3
  <2>7. ASSUME NEW u \in Users, NEW b \in Ctxs \cup {NULL}, Publish(u, b), UNCHANGED threadNum,
               b # NULL => pc[b] = "restart"
        PROVE  threadNum' = Cardinality(Running')
    <3>1. \A d \in Ctxs : d \in Running <=> pc'[d] \notin {"free", "new", "boot"}
      BY <2>7 DEF Publish, Running
    <3> QED BY <2>5, <2>7, <3>1
  <2>8. ASSUME NEW c \in Ctxs, Thread(c) PROVE threadNum' = Cardinality(Running')
    <3>1. CASE Restart(c)
      <4>1. User(c) \in Users
        BY DEF HttpInv, Typed, User, Records
      <4> QED BY <3>1, <4>1, <2>7 DEF Restart
    <3>2. CASE \/ Begin(c) \/ Connect(c) \/ Select(c) \/ Check(c) \/ PauseSeen(c)
               \/ ReadHeader(c) \/ Redirected(c) \/ ErrorReply(c) \/ Broken(c) \/ ReadBody(c)
               \/ Complete(c) \/ Exit(c) \/ Again(c) \/ Finish(c) \/ Detach(c) \/ RestartFails(c)
      <4>1. /\ UNCHANGED threadNum /\ pc[c] \notin {"free", "new", "boot"}
            /\ pc' = pc \/ \E p : p \notin {"free", "new", "boot"} /\ Goto(c, p)
        BY <3>2 DEF Begin, Connect, Select, Check, PauseSeen, ReadHeader, Redirected, ErrorReply, Broken,
                    ReadBody, Complete, Exit, Again, Finish, Detach, RestartFails, Keep, Receive
      <4>2. \A d \in Ctxs : d \in Running <=> pc'[d] \notin {"free", "new", "boot"}
        BY <4>1 DEF Running, Goto, HttpInv, Typed
      <4> QED BY <2>5, <4>1, <4>2
    <3> QED BY <2>8, <2>3, <2>4, <3>1, <3>2 DEF Thread
  <2>9. ASSUME NEW u \in Users, App(u) PROVE threadNum' = Cardinality(Running')
    <3>1. CASE Start(u)
      BY <3>1, <2>7 DEF Start
    <3>2. CASE Pause(u) \/ Continue(u) \/ Stop(u) \/ StopWakes(u)
      <4>1. UNCHANGED <<threadNum, pc>>
        BY <3>2 DEF Pause, Continue, Stop, StopWakes, Others
      <4> QED BY <2>0, <4>1
    <3> QED BY <2>9, <3>1, <3>2 DEF App
  <2>a. ASSUME UNCHANGED vars PROVE threadNum' = Cardinality(Running')
    BY <2>a, <2>0 DEF vars
  <2>b. threadNum' = Cardinality(Running')
    BY <2>6, <2>8, <2>9, <2>a DEF Next
  <2> QED BY <2>1, <2>b DEF Counts
<1>3. HttpInv /\ Counts /\ [Next]_vars => Counts'
  BY <1>2
<1> QED BY <1>1, <1>3, Invariant, PTL DEF Spec

(* No count, offset or length leaves its range, however often a download   *)
(* is retried, resumed, redirected or refused.                             *)
THEOREM HttpTypeCorrect == Spec => []TypeOK
<1>1. HttpInv /\ DataSound /\ Counts => TypeOK
  <2> SUFFICES ASSUME HttpInv, DataSound, Counts PROVE TypeOK
    OBVIOUS
  <2>1. threadNum \in 0..Cardinality(Ctxs)
    BY FS_Subset, FS_CardinalityType, HttpAssumption DEF Counts, Running
  <2>2. ASSUME NEW c \in Ctxs PROVE ctx[c] \in Context
    <3>1. ctx[c] \in Records /\ Sound(pc[c], ctx[c], got[User(c)])
      BY DEF HttpInv, Typed, DataSound
    <3>2. /\ ctx[c].retry \in 0..(MaxRetry + 1) /\ ctx[c].total \in 0..FileLen
          /\ ctx[c].pos \in 0..FileLen
      BY <3>1, HttpAssumption DEF Sound, Records
    <3> QED BY <3>1, <3>2 DEF Records, Context
  <2>3. ctx \in [Ctxs -> Context]
    BY <2>2 DEF HttpInv, Typed
  <2> QED BY <2>1, <2>3 DEF HttpInv, Typed, DataSound, Counts, TypeOK
<1> QED BY <1>1, Invariant, DataInvariant, CountsInvariant, PTL
=============================================================================
