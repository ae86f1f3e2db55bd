------------------------------ MODULE OtaServer -----------------------------
(***************************************************************************)
(* The firmware download of ota_server.c: one thread fetches the image     *)
(* over HTTP into the OTA partition, connects again after every failure    *)
(* and asks for the rest, and switches to the new firmware when all of it  *)
(* has arrived and its MD5, if one was given, agrees. The application      *)
(* pauses, continues and stops it by writing ota_control, with no lock.    *)
(* One HTTPHeader_t serves every connection: what is left in its buffer is *)
(* found again by the next header read.                                    *)
(*                                                                         *)
(* The image is the blocks 1..ImgLen, each as large as one callback; 0 is  *)
(* text that is none of it, a reply's header or the page of an error,      *)
(* should it be read as the body. More than ImgLen + 1 blocks received are *)
(* as good as ImgLen + 1, a length of more than ImgLen as ImgLen.          *)
(***************************************************************************)
EXTENDS Integers, Sequences

CONSTANTS ImgLen,
          Servers,                          \* [ranged, md5: BOOLEAN]
          MaxStarts, MaxCalls, MaxBreaks    \* bounds

ASSUME OtaAssumption ==
    /\ ImgLen \in Nat \ {0} /\ Servers \subseteq [ranged: BOOLEAN, md5: BOOLEAN]
    /\ Servers # {} /\ {MaxStarts, MaxCalls, MaxBreaks} \subseteq Nat

VARIABLES
    pc, ctl,            \* the thread; ota_control
    srv,                \* whether the server serves ranges, and MD5 is given
    len, begin,         \* download_len, download_begin_pos
    flash,              \* the blocks in the OTA partition
    conn,               \* httpHeader and its connection
    told,               \* history: what ota_server_cb has last reported
    odd,                \* history: a call came before download_len was known,
                        \* or took a stop back
    misread,            \* history: pieces of headers were parsed as one, wrongly
    starts, calls, breaks   \* history, for the bounds

vars == <<pc, ctl, srv, len, begin, flash, conn, told, odd, misread, starts, calls, breaks>>

\* hdr: what the buffer holds, nothing, part of a header, a whole one, or text
\* that is none; clen: contentLength; cb: isCallbackSupported; err: what the
\* read of the header returned; want: blocks of the body still to be read;
\* text, pos: what the server sends next, text that is none of the image, or
\* the block after pos.
NoConn == [hdr |-> "empty", status |-> "none", clen |-> 0, err |-> FALSE,
           cb |-> TRUE, want |-> 0, text |-> FALSE, pos |-> 0]

Init == /\ pc = "off" /\ ctl = "IDLE" /\ srv \in Servers /\ len = 0 /\ begin = 0
        /\ flash = <<>> /\ conn = NoConn /\ told = "none" /\ odd = FALSE /\ misread = FALSE
        /\ starts = 0 /\ calls = 0 /\ breaks = 0

bounds == <<starts, calls, breaks>>
Running == pc \notin {"off", "rebooted"}
Goto(p, q) == pc = p /\ pc' = q

------------------------- (* The application's calls *) ---------------------
\* ota_server_start, called while no thread is running.
Start == /\ Goto("off", "new") /\ starts < MaxStarts /\ starts' = starts + 1
         /\ ctl' = "IDLE" /\ srv' \in Servers /\ len' = 0 /\ begin' = 0
         /\ told' = "none" /\ odd' = FALSE /\ misread' = FALSE
         /\ UNCHANGED <<flash, conn, calls, breaks>>

Call(s) == /\ Running /\ pc # "delete" /\ calls < MaxCalls /\ calls' = calls + 1
           /\ ctl' = s /\ odd' = (odd \/ len = 0 \/ (ctl = "STOP" /\ s # "STOP"))
           /\ UNCHANGED <<pc, srv, len, begin, flash, conn, told, misread, starts, breaks>>

Pause    == Call("PAUSE")
Continue == Call("CONTINUE")
Stop     == Call("STOP")

---------------------------- (* ota_server_thread *) ------------------------
Others == UNCHANGED <<srv, odd, bounds>>
Local == Others /\ UNCHANGED misread
Steps == UNCHANGED <<ctl, len, begin, flash, conn, told>> /\ Local

\* Whatever was called before is overwritten.
Boot == Goto("new", "dns") /\ ctl' = "START" /\ UNCHANGED <<len, begin, flash, conn, told>> /\ Local

Resolve == /\ Goto("dns", "loop") /\ flash' = <<>> /\ conn' = NoConn
           /\ UNCHANGED <<ctl, len, begin, told>> /\ Local

\* No address, or no memory for the header.
NoName == /\ Goto("dns", "delete") /\ told' = "fail" /\ flash' \in {flash, <<>>}
          /\ UNCHANGED <<ctl, len, begin, conn>> /\ Local

\* Mutant: only a pause is looked at here.
LoopOn == ctl # "PAUSE" /\ Goto("loop", "connect") /\ Steps

\* The top of the loop, which waits while paused.
Loop == ctl \notin {"PAUSE", "STOP"} /\ Goto("loop", "connect") /\ Steps
Quit == ctl = "STOP" /\ Goto("loop", "delete") /\ Steps

Break == breaks < MaxBreaks /\ breaks' = breaks + 1 /\ UNCHANGED <<srv, odd, misread, starts, calls>>

\* Mutant: the request has no Range.
FromStart == 0

\* ota_server_send_header: with a Range once something has been received.
From == IF srv.ranged THEN begin ELSE 0
Connect == /\ Goto("connect", "sent") /\ conn' = [conn EXCEPT !.pos = From]
           /\ UNCHANGED <<ctl, len, begin, flash, told>> /\ Local

NoConnect == /\ Goto("connect", "loop") /\ told' = "fail" /\ Break
             /\ UNCHANGED <<ctl, len, begin, flash, conn>>

---------------------- (* select and SocketReadHTTPHeader *) ----------------
Written(b) == /\ begin' = IF begin > ImgLen THEN begin ELSE begin + 1
              /\ flash' = IF begin > ImgLen THEN flash ELSE Append(flash, b)
              /\ told' = "loading"

Answered == pc = "sent" /\ conn.hdr \in {"empty", "part"}

\* A header that announces n blocks of the file, or the page of an error (of
\* one block). The statuses of one request's replies, 200 or 206, agree.
Reply(n, page) == [conn EXCEPT !.hdr = "whole", !.status = IF conn.pos = 0 THEN "200" ELSE "206",
                               !.clen = n, !.want = n, !.err = FALSE, !.cb = TRUE, !.text = page,
                               !.pos = IF page THEN ImgLen ELSE @]

\* What is parsed is the header of the reply to this request. With a part of
\* an earlier one in front of it, cut in the number after Content-Length or
\* behind it, the length is any, and the reply may even be that of an error.
Parses(n, page) ==
    LET rest == ImgLen - conn.pos IN
    /\ Answered /\ (page \/ rest > 0) /\ (conn.hdr = "part" \/ (n = rest /\ ~page))
    /\ misread' = (misread \/ page \/ n # rest)

\* What one read of a body does to r, and the block that it reads.
Taken(r) == [r EXCEPT !.want = @ - 1, !.text = FALSE, !.pos = IF r.text THEN @ ELSE @ + 1]
Next1(r) == IF r.text THEN 0 ELSE r.pos + 1

\* The header arrives alone, or with the first block of its body.
Header == \E n \in 0..ImgLen, page \in BOOLEAN :
    /\ Parses(n, page) /\ Goto("sent", "held") /\ conn' = Reply(n, page)
    /\ UNCHANGED <<ctl, len, begin, flash, told>> /\ Others

HeaderData == \E n \in 1..ImgLen, page \in BOOLEAN :
    /\ Parses(n, page) /\ Goto("sent", "cb_header") /\ conn' = Taken(Reply(n, page))
    /\ Written(Next1(Reply(n, page))) /\ UNCHANGED <<ctl, len>> /\ Others

\* Another status, 416 if there is nothing left to send. The data callback
\* does not ask for the status: a page that comes with its header is written.
Error(n) == [conn EXCEPT !.hdr = "whole", !.status = "other", !.clen = n, !.err = FALSE]
OtherStatus == /\ Answered /\ Goto("sent", "held") /\ \E n \in {0, 1} : conn' = Error(n)
               /\ UNCHANGED <<ctl, len, begin, flash, told>> /\ Local
OtherData   == /\ Answered /\ Goto("sent", "cb_header") /\ conn' = Error(1)
               /\ Written(0) /\ UNCHANGED <<ctl, len>> /\ Local

\* A whole header is still there: nothing is read, its fields count again, and
\* the new header comes first in the body.
StaleHeader == /\ conn.hdr = "whole" /\ Goto("sent", "held")
               /\ conn' = [conn EXCEPT !.err = FALSE, !.cb = TRUE, !.want = conn.clen, !.text = TRUE]
               /\ UNCHANGED <<ctl, len, begin, flash, told>> /\ Local

\* The connection ends before or within the header.
HeaderBreaks == /\ Answered /\ Goto("sent", "held") /\ Break
                /\ \E h \in {conn.hdr, "part"} : conn' = [conn EXCEPT !.hdr = h, !.err = TRUE]
                /\ UNCHANGED <<ctl, len, begin, flash, told>>

\* Two pieces of headers make no header, or are too long for the buffer, now
\* and for ever. The parser has reset its fields, if it came to that.
Malformed == /\ conn.hdr \in {"part", "bad"} /\ Goto("sent", "held")
             /\ \/ conn' = [conn EXCEPT !.hdr = "bad", !.err = TRUE]
                \/ conn' = [conn EXCEPT !.hdr = "bad", !.err = TRUE, !.status = "none", !.clen = 0]
             /\ UNCHANGED <<ctl, len, begin, flash, told>> /\ Local

\* onReceivedData returns, once it is not paused; stopped, with an error. In
\* the header the rest of the body is then read unseen, in the body it ends.
HeaderReturns == /\ ctl # "PAUSE" /\ Goto("cb_header", "held")
                 /\ conn' = [conn EXCEPT !.cb = (ctl # "STOP")]
                 /\ UNCHANGED <<ctl, len, begin, flash, told>> /\ Local

------------------- (* The rest of the loop's body *) -----------------------
\* The test and the assignments are apart: a call in between is lost.
SeesStart == ctl = "START" /\ Goto("held", "flip") /\ Steps
SeesOther == ctl # "START" /\ Goto("held", "switch") /\ Steps
Flip == /\ Goto("flip", "switch") /\ len' = conn.clen /\ ctl' = "CONTINUE"
        /\ UNCHANGED <<begin, flash, conn, told>> /\ Local

Refuses   == ~conn.err /\ conn.status = "other"
ReadsBody == ~conn.err /\ ~Refuses /\ Goto("switch", "body") /\ Steps
Refused   == /\ Refuses /\ Goto("switch", "delete") /\ told' = "fail"
             /\ UNCHANGED <<ctl, len, begin, flash, conn>> /\ Local
Falls     == conn.err /\ Goto("switch", "verify") /\ Steps

\* Mutants: one read too many; an error leaves the buffer as it is.
SendsMore == conn.want >= 0 /\ (conn.text \/ conn.pos < ImgLen)
BodyErrorKeeps == UNCHANGED <<ctl, len, begin, flash, conn, told>>

\* SocketReadHTTPBody; an error empties the header's buffer.
Sends == conn.want > 0 /\ (conn.text \/ conn.pos < ImgLen)

Block == /\ Sends /\ conn.cb /\ Goto("body", "cb_body") /\ conn' = Taken(conn)
         /\ Written(Next1(conn)) /\ UNCHANGED <<ctl, len>> /\ Local
Unseen == /\ Sends /\ ~conn.cb /\ Goto("body", "body") /\ conn' = Taken(conn)
          /\ UNCHANGED <<ctl, len, begin, flash, told>> /\ Local

BodyError == conn' = [conn EXCEPT !.hdr = "empty"] /\ UNCHANGED <<ctl, len, begin, flash, told>>
BlockReturns == /\ ctl \notin {"PAUSE", "STOP"} /\ Goto("cb_body", "body") /\ Steps
BlockStops   == /\ ctl = "STOP" /\ Goto("cb_body", "loop") /\ BodyError /\ Local
BodyBreaks   == /\ Goto("body", "loop") /\ conn.want > 0 /\ Break /\ BodyError
BodyShort    == /\ Goto("body", "loop") /\ conn.want > 0 /\ ~Sends /\ BodyError /\ Local
BodyEnds     == /\ conn.want = 0 /\ Goto("body", "verify") /\ Steps

\* The MD5 is of what was written; with none given two empty strings agree.
Agrees == ~srv.md5 \/ (flash = [i \in 1..ImgLen |-> i])

\* Mutant: whatever the status of the last reply.
SwitchAny == /\ len = begin /\ Agrees /\ Goto("verify", "rebooted")
             /\ told' = "success" /\ UNCHANGED <<ctl, len, begin, flash, conn>> /\ Local

Again  == len # begin /\ Goto("verify", "loop") /\ Steps
Gives  == len = begin /\ conn.status # "200" /\ Goto("verify", "delete") /\ Steps
Switch == /\ len = begin /\ conn.status = "200" /\ Agrees /\ Goto("verify", "rebooted")
          /\ told' = "success" /\ UNCHANGED <<ctl, len, begin, flash, conn>> /\ Local
Differs == /\ len = begin /\ conn.status = "200" /\ ~Agrees /\ Goto("verify", "delete")
           /\ told' = "fail" /\ UNCHANGED <<ctl, len, begin, flash, conn>> /\ Local

\* The context is freed, and the thread deletes itself.
Delete == Goto("delete", "off") /\ Steps

Thread == \/ Boot \/ Resolve \/ NoName \/ Loop \/ Quit \/ Connect \/ NoConnect
          \/ HeaderReturns \/ SeesStart \/ SeesOther \/ Flip \/ ReadsBody \/ Refused \/ Falls
          \/ Block \/ Unseen \/ BlockReturns \/ BlockStops \/ BodyBreaks \/ BodyShort \/ BodyEnds
          \/ Again \/ Gives \/ Switch \/ Differs \/ Delete
Network == \/ Header \/ HeaderData \/ OtherStatus \/ OtherData \/ StaleHeader
           \/ HeaderBreaks \/ Malformed
Next == Start \/ Pause \/ Continue \/ Stop \/ Thread \/ Network

Spec == Init /\ [][Next]_vars

\* The thread is scheduled; the reads of a body time out. The select before
\* the header does not: the server may leave it waiting for ever.
FairSpec == Spec /\ WF_vars(Thread)

------------------------------ (* Properties *) -----------------------------
Image == [i \in 1..ImgLen |-> i]
Pcs == {"off", "new", "dns", "loop", "connect", "sent", "held", "cb_header", "flip", "switch",
        "body", "cb_body", "verify", "delete", "rebooted"}

Conns == [hdr: {"empty", "part", "whole", "bad"}, status: {"none", "200", "206", "other"},
          clen: 0..ImgLen, err: BOOLEAN, cb: BOOLEAN, want: 0..ImgLen, text: BOOLEAN,
          pos: 0..(ImgLen + 1)]

\* The type of the state.
TypeOK ==
    /\ pc \in Pcs /\ ctl \in {"IDLE", "START", "PAUSE", "CONTINUE", "STOP"} /\ srv \in Servers
    /\ len \in 0..ImgLen /\ begin \in 0..(ImgLen + 1)
    /\ flash \in Seq(0..ImgLen)
    /\ conn \in Conns
    /\ told \in {"none", "loading", "fail", "success"} /\ odd \in BOOLEAN /\ misread \in BOOLEAN
    /\ starts \in 0..MaxStarts /\ calls \in 0..MaxCalls /\ breaks \in 0..MaxBreaks

\* Past the erase and before the context is freed.
Loading == pc \notin {"off", "new", "dns", "delete"}

\* However often the connection breaks, in the header or the body, and however
\* the application pauses and continues once the length is known, what is in
\* the partition is the beginning of the image, as far as begin says; unless
\* the server refuses, whose page may be behind it until the download ends, or
\* the pieces of two headers have been read as one that is neither's.
InOrder == Loading /\ srv.ranged /\ ~odd /\ ~Refuses /\ ~misread =>
    /\ Len(flash) = begin /\ begin <= ImgLen
    /\ \A i \in 1..begin : flash[i] = i

\* The device only boots the new firmware when the partition holds the image:
\* by the MD5 whatever the server and the application do, and without one if
\* the server serves ranges and its headers were read as they were sent.
SwitchGood == pc = "rebooted" /\ (srv.md5 \/ (srv.ranged /\ ~odd /\ ~misread)) => flash = Image

\* No wait for the server lasts for ever.
ServerAnswers == []<>(pc # "sent")

\* A stop ends the download, unless it is taken back (or lost in Flip).
StopEnds == ServerAnswers => ((Running /\ ctl = "STOP") ~> (~Running \/ ctl # "STOP"))

\* A download from a server that serves ranges ends, if it is not left paused
\* and the pieces of its headers made the right ones.
Ends == ServerAnswers /\ []<>(ctl # "PAUSE")
            => ((Running /\ srv.ranged) ~> (~Running \/ odd \/ misread \/ conn.hdr = "bad"))

\* A download that was resumed and is complete and correct is installed:
\* ota_server.h says "Support resume from break point, MD5 check".
ResumeInstalls == pc = "delete" /\ ctl # "STOP" /\ len = begin /\ flash = Image => told = "success"
=============================================================================
