---------------------------- MODULE HttpDownload ----------------------------
(***************************************************************************)
(* The resumable file download of lib_http_file_download and the body      *)
(* reader of HTTPUtils.c it runs on. A user's variable (its handle) points *)
(* to the context of its download; a thread works on each context, goes    *)
(* back to FILE_DOWNLOAD_START after a failure, asks the server for the    *)
(* rest of the file, and starts a new download under the same handle when  *)
(* it is redirected. Threads of the application pause, continue and stop a *)
(* download by writing the control state of the context the handle points  *)
(* to; nothing is locked.                                                  *)
(*                                                                         *)
(* A file is FileLen blocks, each as large as one callback; a context is   *)
(* known by its address, and its thread by its context.                    *)
(***************************************************************************)
EXTENDS Integers, Sequences, FiniteSets

CONSTANTS Users, Ctxs, NULL,
          MaxThreads,           \* HTTP_DOWNLOAD_FILE_MAX_THREAD_NUM
          MaxRetry,             \* DOWNLOAD_FILE_MAX_RETRY
          FileLen,
          Servers,              \* [ranged, chunked: BOOLEAN]: what may answer
          MaxStarts, MaxCalls, MaxRedirects     \* bounds

ASSUME HttpAssumption ==
    /\ NULL \notin Ctxs /\ IsFiniteSet(Ctxs) /\ Users # {}
    /\ MaxThreads \in Nat \ {0} /\ MaxRetry \in Nat /\ FileLen \in Nat \ {0}
    /\ Servers \subseteq [ranged: BOOLEAN, chunked: BOOLEAN]
    /\ {MaxStarts, MaxCalls, MaxRedirects} \subseteq Nat

VARIABLES
    handle,     \* *file_download_context_user
    ctx, pc,    \* what malloc gave out, and where its thread is
    threadNum,  \* download_file_thread_num
    stopping,   \* users with a thread in a blocking stop
    heard,      \* history: the last a user was told of the download it started
    got,        \* history: blocks given to the data callback since START
    starts, calls, redirects    \* history, for the bounds

vars == <<handle, ctx, pc, threadNum, stopping, heard, got, starts, calls, redirects>>

Blocks == 0..(FileLen - 1)
AnyServer == [ranged |-> TRUE, chunked |-> FALSE]

\* The context, without the strings and sockets. user: the thread's argument;
\* by: the redirected thread that runs http_file_download_start, or NULL;
\* req: the offset in http_req; pos: the block the server sends next;
\* cb: isCallbackSupported; begun (history): START has been reported.
Fresh(u, s, b) == [user |-> u, server |-> s, by |-> b, control |-> "RUN", retry |-> 0,
                   total |-> 0, len |-> 0, req |-> 0, pos |-> 0, result |-> "none", cb |-> TRUE,
                   begun |-> FALSE]
NoCtx == Fresh(CHOOSE u \in Users : TRUE, AnyServer, NULL)

Init == /\ handle = [u \in Users |-> NULL] /\ ctx = [c \in Ctxs |-> NoCtx]
        /\ pc = [c \in Ctxs |-> "free"] /\ threadNum = 0 /\ stopping = {}
        /\ heard = [u \in Users |-> "nothing"] /\ got = [u \in Users |-> <<>>]
        /\ starts = 0 /\ calls = 0 /\ redirects = 0

history == <<heard, got, starts, calls, redirects>>
Goto(c, p)   == pc' = [pc EXCEPT ![c] = p]
Update(c, r) == ctx' = [ctx EXCEPT ![c] = r]
Free(c)      == Update(c, NoCtx)
User(c)      == ctx[c].user
Tell(u, m)   == heard' = [heard EXCEPT ![u] = m]

\* file_download_check_control_state: waits while paused.
Runs(c)  == ctx[c].control = "RUN"
Stops(c) == ctx[c].control = "STOP"

------------------------ (* http_file_download_start *) ---------------------
\* The checks and the allocation; b is the redirected thread that calls.
\* malloc, the Wi-Fi state or the URL may make it fail with nothing done.
Publish(u, b) ==
    /\ handle[u] = NULL /\ threadNum < MaxThreads /\ Tell(u, "waiting")
    /\ \E c \in Ctxs, s \in Servers :
         /\ pc[c] = "free" /\ Update(c, Fresh(u, s, b)) /\ handle' = [handle EXCEPT ![u] = c]
         /\ pc' = [d \in Ctxs |-> IF d = c THEN "new" ELSE IF d = b THEN "starting" ELSE pc[d]]

Start(u) == /\ starts < MaxStarts /\ starts' = starts + 1
            /\ Publish(u, NULL)
            /\ UNCHANGED <<threadNum, stopping, got, calls, redirects>>

\* The caller, a redirected thread, goes on to free its own context.
Resume(p, b) == IF b = NULL THEN p ELSE [p EXCEPT ![b] = "free_it"]

NewThread(c) == /\ pc[c] = "new" /\ Runs(c)
                /\ pc' = Resume([pc EXCEPT ![c] = "boot"], ctx[c].by)
                /\ UNCHANGED <<handle, ctx, threadNum, stopping, history>>

\* Stopped while it was checked, or no thread: what was allocated is freed,
\* the handle still points to it. The application is told by the return value
\* when it has called start itself.
NoThread(c) == /\ pc[c] = "new" /\ ctx[c].control # "PAUSE"
               /\ pc' = Resume([pc EXCEPT ![c] = "free"], ctx[c].by) /\ Free(c)
               /\ Tell(User(c), IF ctx[c].by = NULL THEN "refused" ELSE "lost")
               /\ UNCHANGED <<handle, threadNum, stopping, got, starts, calls, redirects>>

------------------------- (* The application's calls *) ---------------------
\* A write through the handle; once its context is freed it hits memory that
\* belongs to nobody, or to the context now at that address.
Control(u, s) == LET c == handle[u] IN
    IF pc[c] = "free" THEN UNCHANGED ctx ELSE Update(c, [ctx[c] EXCEPT !.control = s])

Call(u) == handle[u] # NULL /\ calls < MaxCalls /\ calls' = calls + 1
Others  == UNCHANGED <<handle, pc, threadNum, heard, got, starts, redirects>>

Pause(u)    == Call(u) /\ Control(u, "PAUSE") /\ Others /\ UNCHANGED stopping
Continue(u) == Call(u) /\ Control(u, "RUN")   /\ Others /\ UNCHANGED stopping
Stop(u)     == Call(u) /\ Control(u, "STOP")  /\ Others
               /\ stopping' \in {stopping, stopping \cup {u}}

\* The blocking stop, every 20 ms: it writes STOP again, before it looks
\* whether the handle is NULL (the write then goes to address 0).
StopWakes(u) == /\ u \in stopping
                /\ IF handle[u] = NULL THEN UNCHANGED ctx ELSE Control(u, "STOP")
                /\ stopping' = IF handle[u] = NULL THEN stopping \ {u} ELSE stopping
                /\ UNCHANGED calls /\ Others

-------------------------- (* The download thread *) ------------------------
Quiet == UNCHANGED <<stopping, starts, calls>>
Keep  == UNCHANGED <<handle, threadNum, heard, got, redirects>> /\ Quiet

\* The START callback begins the file anew. What a callback does to the
\* control state is lost: Begin overwrites it.
Boot(c) == /\ pc[c] = "boot" /\ ctx[c].control # "PAUSE" /\ threadNum' = threadNum + 1
           /\ \/ /\ Runs(c) /\ Goto(c, "begin") /\ Update(c, [ctx[c] EXCEPT !.begun = TRUE])
                 /\ got' = [got EXCEPT ![User(c)] = <<>>]
              \/ Stops(c) /\ Goto(c, "exit") /\ UNCHANGED <<ctx, got>>
           /\ UNCHANGED <<handle, heard, redirects>> /\ Quiet

\* Mutants: the request is not generated again; every attempt counts anew.
BeginStale(c) == /\ pc[c] = "begin" /\ Goto(c, "ready")
                 /\ Update(c, [ctx[c] EXCEPT !.result = "none", !.control = "RUN"]) /\ Keep
BeginAnew(c) == /\ pc[c] = "begin" /\ Goto(c, "ready")
                /\ Update(c, [ctx[c] EXCEPT !.result = "none", !.control = "RUN", !.req = ctx[c].len,
                                            !.retry = 0])
                /\ Keep

\* FILE_DOWNLOAD_START, http_generate_request.
Begin(c) == /\ pc[c] = "begin" /\ Goto(c, "ready")
            /\ Update(c, [ctx[c] EXCEPT !.result = "none", !.control = "RUN", !.req = ctx[c].len])
            /\ Keep

\* The address, the connection, the request; then select. Each may fail.
Connect(c) == /\ pc[c] = "ready" /\ ctx[c].control # "PAUSE"
              /\ (Runs(c) /\ Goto(c, "sent")) \/ Goto(c, "exit")
              /\ UNCHANGED ctx /\ Keep

Select(c) == /\ pc[c] = "sent" /\ ctx[c].control # "PAUSE"
             /\ (Runs(c) /\ Goto(c, "readable")) \/ Goto(c, "exit")
             /\ UNCHANGED ctx /\ Keep

\* The two checks after select wait while paused; the test that follows each
\* leaves if a pause has come after the check.
Check(c) == /\ pc[c] = "readable"
            /\ \/ Runs(c) /\ Goto(c, "checked")
               \/ Stops(c) /\ Goto(c, "exit")
            /\ UNCHANGED ctx /\ Keep

PauseSeen(c) == /\ pc[c] = "checked" /\ ctx[c].control = "PAUSE" /\ Goto(c, "exit")
                /\ UNCHANGED ctx /\ Keep

From(r)   == IF r.server.ranged THEN r.req ELSE 0       \* where the reply starts
Length(r) == FileLen - From(r)                          \* contentLength

\* onReceivedData, first the bookkeeping, then what the data callback decides.
Counted(r) == LET known == ~r.server.chunked /\ r.control = "RUN" IN
    [r EXCEPT !.retry = 0, !.pos = @ + 1,
              !.total = IF known /\ @ = 0 THEN Length(r) ELSE @]
Accepts(r) == r.control = "RUN" /\ (r.server.chunked \/ Counted(r).total >= r.len)

\* A block of r arrives. On an error the reader is left as bad says.
Receive(c, r, bad(_), p) ==
    \/ /\ Accepts(r) /\ Update(c, [Counted(r) EXCEPT !.len = @ + 1]) /\ Goto(c, "body")
       /\ got' = [got EXCEPT ![User(c)] = Append(@, r.pos)]
    \/ /\ Accepts(r) /\ Update(c, bad([Counted(r) EXCEPT !.control = "STOP"])) /\ Goto(c, p)
       /\ UNCHANGED got
    \/ /\ ~Accepts(r) /\ Update(c, bad(Counted(r))) /\ Goto(c, p) /\ UNCHANGED got

\* SocketReadHTTPHeader with a 200 or 206. Data that came with the header is
\* given out at once; if that fails the rest is read into a buffer unseen.
Unsupported(r) == [r EXCEPT !.cb = FALSE]
ReadHeader(c) ==
    LET r == [ctx[c] EXCEPT !.pos = From(ctx[c]), !.cb = TRUE] IN
    /\ pc[c] = "checked" /\ Length(r) > 0
    /\ \/ Update(c, r) /\ Goto(c, "body") /\ UNCHANGED got
       \/ (~r.server.chunked /\ Receive(c, r, Unsupported, "body"))
    /\ UNCHANGED <<handle, threadNum, heard, redirects>> /\ Quiet

\* A 301 or 302: http_process_redirect. (What its body does to the retries is
\* of no account: a redirected thread makes no further attempt.)
Redirected(c) == /\ pc[c] = "checked" /\ redirects < MaxRedirects /\ redirects' = redirects + 1
                 /\ Update(c, [ctx[c] EXCEPT !.result = "redirect"]) /\ Goto(c, "exit")
                 /\ UNCHANGED <<handle, threadNum, heard, got>> /\ Quiet

\* Another status, 404 or 503 say, whose body came with the header: the reader
\* gives it to onReceivedData, which counts the attempts anew before it looks
\* at the status. A status with no such body is Broken.
ErrorReply(c) == /\ pc[c] = "checked" /\ Goto(c, "exit")
                 /\ Update(c, [ctx[c] EXCEPT !.retry = 0]) /\ Keep

\* No or another answer; the connection breaks; a read times out.
Broken(c) == /\ pc[c] \in {"checked", "body"} /\ Goto(c, "exit")
             /\ UNCHANGED ctx /\ Keep

\* SocketReadHTTPBody. Of a chunked reply it ignores what the callback returns.
Same(r) == r
ReadBody(c) ==
    /\ pc[c] = "body" /\ ctx[c].pos < FileLen
    /\ IF ctx[c].cb THEN Receive(c, ctx[c], Same, IF ctx[c].server.chunked THEN "body" ELSE "exit")
                    ELSE /\ Update(c, [ctx[c] EXCEPT !.pos = @ + 1])
                         /\ UNCHANGED <<pc, got>>
    /\ UNCHANGED <<handle, threadNum, heard, redirects>> /\ Quiet

\* Mutant: a body read to its end is a success.
Read(r) == r.total # 0

Whole(r) == r.server.chunked \/ (r.len = r.total /\ r.total # 0)
Complete(c) == /\ pc[c] = "body" /\ ctx[c].pos = FileLen /\ Goto(c, "exit")
               /\ Update(c, [ctx[c] EXCEPT !.result = IF Whole(ctx[c]) THEN "success" ELSE @])
               /\ Keep

\* Mutant: a failure is always retried.
ExitRetries(c) ==
    LET failed == ctx[c].result = "none" IN
    /\ pc[c] = "exit" /\ Goto(c, IF failed THEN "again" ELSE "finish")
    /\ Update(c, [ctx[c] EXCEPT !.retry = IF failed /\ ctx[c].control # "PAUSE" THEN @ + 1 ELSE @])
    /\ Keep

\* The label exit: after a failure the next attempt is counted, unless paused.
Exit(c) ==
    LET failed == ctx[c].result = "none"
        retry  == ctx[c].retry + (IF failed /\ ctx[c].control # "PAUSE" THEN 1 ELSE 0)
    IN  /\ pc[c] = "exit" /\ Update(c, [ctx[c] EXCEPT !.retry = retry])
        /\ Goto(c, IF failed /\ retry <= MaxRetry THEN "again" ELSE "finish")
        /\ Keep

\* Mutants: a stopped download is freed without a callback; FAILED is reported
\* for an attempt.
AgainSilent(c) == /\ pc[c] = "again"
                  /\ \/ Runs(c) /\ Goto(c, "begin")
                     \/ Stops(c) /\ Goto(c, "free_it")
                  /\ UNCHANGED ctx /\ Keep
AgainFails(c) == /\ pc[c] = "again" /\ Tell(User(c), "FAILED")
                 /\ \/ Runs(c) /\ Goto(c, "begin")
                    \/ Stops(c) /\ Goto(c, "finish")
                 /\ UNCHANGED <<handle, ctx, threadNum, got, redirects>> /\ Quiet

\* FAILED_AND_RETRY is reported, or a stop is obeyed.
Again(c) == /\ pc[c] = "again"
            /\ \/ Runs(c) /\ Goto(c, "begin")
               \/ Stops(c) /\ Goto(c, "finish")
            /\ UNCHANGED ctx /\ Keep

\* EXIT_THREAD: the last callback, or the redirection.
Finish(c) == /\ pc[c] = "finish" /\ ctx[c].result # "redirect" /\ Goto(c, "free_it")
             /\ Tell(User(c), IF ctx[c].result = "success" THEN "SUCCESS" ELSE "FAILED")
             /\ UNCHANGED <<handle, ctx, threadNum, got, redirects>> /\ Quiet

Detach(c) == /\ pc[c] = "finish" /\ ctx[c].result = "redirect" /\ Goto(c, "restart")
             /\ handle' = [handle EXCEPT ![User(c)] = NULL]
             /\ UNCHANGED <<ctx, threadNum, heard, got, redirects>> /\ Quiet

Restart(c) == /\ pc[c] = "restart" /\ Publish(User(c), c)
              /\ UNCHANGED <<threadNum, got, redirects>> /\ Quiet

\* start refuses the new URL, for one as the handle is taken or the threads
\* are at their limit, this one among them. Only a log line says so.
RestartFails(c) == /\ pc[c] = "restart" /\ Goto(c, "free_it")
                   /\ IF handle[User(c)] = NULL /\ heard[User(c)] = "waiting"
                      THEN Tell(User(c), "lost") ELSE UNCHANGED heard
                   /\ UNCHANGED <<handle, ctx, threadNum, got, redirects>> /\ Quiet

\* Mutant: a redirected thread, too, clears the handle.
FreeAll(c) == /\ pc[c] = "free_it" /\ Goto(c, "free") /\ Free(c) /\ threadNum' = threadNum - 1
              /\ handle' = [handle EXCEPT ![User(c)] = NULL]
              /\ UNCHANGED <<heard, got, redirects>> /\ Quiet

FreeIt(c) == /\ pc[c] = "free_it" /\ Goto(c, "free") /\ Free(c) /\ threadNum' = threadNum - 1
             /\ handle' = IF ctx[c].result = "redirect" THEN handle
                          ELSE [handle EXCEPT ![User(c)] = NULL]
             /\ UNCHANGED <<heard, got, redirects>> /\ Quiet

Thread(c) == \/ Boot(c) \/ Begin(c) \/ Connect(c) \/ Select(c) \/ Check(c) \/ PauseSeen(c)
             \/ ReadHeader(c) \/ Redirected(c) \/ ErrorReply(c) \/ Broken(c) \/ ReadBody(c)
             \/ Complete(c) \/ Exit(c) \/ Again(c) \/ Finish(c) \/ Detach(c) \/ Restart(c)
             \/ RestartFails(c) \/ FreeIt(c)
Caller(c) == NewThread(c) \/ NoThread(c)
App(u)    == Start(u) \/ Pause(u) \/ Continue(u) \/ Stop(u) \/ StopWakes(u)

Next == (\E c \in Ctxs : Caller(c) \/ Thread(c)) \/ (\E u \in Users : App(u))
Spec == Init /\ [][Next]_vars

\* Nothing limits how long a header, over plain HTTP, or a chunked body takes.
AtServer(c) == pc[c] = "checked" \/ (pc[c] = "body" /\ ctx[c].server.chunked)

\* Threads are scheduled; a connection, select and each read of a body of
\* known length has a time limit.
FairSpec == /\ Spec
            /\ \A c \in Ctxs : WF_vars(~AtServer(c) /\ Thread(c)) /\ WF_vars(Caller(c))
            /\ \A u \in Users : WF_vars(StopWakes(u))
------------------------------ (* Properties *) -----------------------------
PCs == {"free", "new", "boot", "begin", "ready", "sent", "readable", "checked", "body",
        "exit", "again", "finish", "restart", "starting", "free_it"}
Context == [user: Users, server: [ranged: BOOLEAN, chunked: BOOLEAN], by: Ctxs \cup {NULL},
            control: {"RUN", "PAUSE", "STOP"}, retry: 0..(MaxRetry + 1), total: 0..FileLen,
            len: Nat, req: Nat, pos: 0..FileLen,
            result: {"none", "redirect", "success"}, cb: BOOLEAN, begun: BOOLEAN]
TypeOK == /\ handle \in [Users -> Ctxs \cup {NULL}] /\ ctx \in [Ctxs -> Context]
          /\ pc \in [Ctxs -> PCs] /\ threadNum \in 0..Cardinality(Ctxs)
          /\ stopping \subseteq Users
          /\ heard \in [Users -> {"nothing", "waiting", "refused", "lost", "FAILED", "SUCCESS"}]
          /\ got \in [Users -> Seq(Blocks)]
          /\ starts \in 0..MaxStarts /\ calls \in 0..MaxCalls /\ redirects \in 0..MaxRedirects

Fetching  == {"begin", "ready", "sent", "readable", "checked", "body"}
Live      == {"new", "boot", "exit", "again", "finish"} \cup Fetching
Prefix(n) == [i \in 1..n |-> i - 1]

Resumable(c) == ctx[c].server.ranged /\ ~ctx[c].server.chunked

\* A download that resumes neither repeats a block nor leaves one out: since
\* START the data callback has been given the file up to download_len, however
\* often the connection broke and the user paused, if the server answers a
\* Range with that range and with a length (lines 239, 675; 607-617).
Delivered ==
    \A c \in Ctxs : pc[c] \in Fetching /\ Resumable(c) /\ ctx[c].begun
        => got[User(c)] = Prefix(ctx[c].len)

Succeeds(c) == /\ pc[c] \in {"exit", "finish", "free_it"} /\ ctx[c].result = "success"
               /\ ~ctx[c].server.chunked /\ ctx[c].begun

\* SUCCESS means the file, where download_len stands for what the user was
\* given (lines 474-480): told of a reply of known length, it means that each
\* block was given once and in order, if the server honours Range; if it does
\* not and sends everything again, only if the data callback was offered all
\* of the last reply. (Data refused with the header has the rest read unseen,
\* and SUCCESS is decided by the length that repeated blocks had reached.)
SuccessIsWhole ==
    \A c \in Ctxs : Succeeds(c) /\ (ctx[c].server.ranged \/ ctx[c].cb)
        => got[User(c)] = Prefix(FileLen)

\* Every download can be controlled: a thread that may still fetch data is on
\* the context its user's handle points to, so a redirection and the end of
\* the redirected thread never orphan the new one (lines 541-580).
Reachable == \A c \in Ctxs : pc[c] \in Live => handle[User(c)] = c

\* While the user waits for the end of its download, a context works on it.
Told == \A u \in Users : heard[u] = "waiting" => \E c \in Ctxs : pc[c] # "free" /\ User(c) = u

\* The end is told once: no callback follows SUCCESS or FAILED.
EndsOnce == [][\A u \in Users : heard[u] \in {"SUCCESS", "FAILED"} /\ heard'[u] # "waiting"
                 => heard'[u] = heard[u] /\ got'[u] = got[u]]_vars

\* Three attempts without data are the end: a download from a server that
\* honours Range and keeps no one waiting for ever ends, unless the user leaves
\* it paused or the server always has another error page to send: line 607
\* counts anew for the text of an error, too.
Paused(c)  == ctx[c].control = "PAUSE"
Over(c)    == pc[c] \in {"free", "starting"}
Answers(c) == []<>(pc[c] # "checked")
Ends == \A c \in Ctxs :
    Answers(c) /\ <>[][~ErrorReply(c)]_vars
        => (pc[c] = "boot" /\ Resumable(c) ~> Over(c) \/ Paused(c))
=============================================================================
