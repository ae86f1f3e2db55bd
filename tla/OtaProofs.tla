------------------------------ MODULE OtaProofs -----------------------------
(***************************************************************************)
(* What the firmware download promises, proved for every size of the       *)
(* image, every number of broken connections and every sequence of calls:  *)
(* unless the server refuses, or pieces of two headers were taken for one, *)
(* the partition holds the beginning of the image, and a device that boots *)
(* the new firmware boots the image.                                       *)
(*                                                                         *)
(* The invariant follows the download of a server that serves ranges, over *)
(* connections that cut no header in a way that joins to a wrong one, and  *)
(* of an application that has called nothing odd: what is in the header's  *)
(* buffer between two connections, what the next reply starts with, and    *)
(* that download_len is either not known yet or the length of the image.   *)
(* A refusal's page may be in the partition from the callback of its       *)
(* header on, and the thread then goes nowhere but to the end.             *)
(***************************************************************************)
EXTENDS OtaServer, TLAPS

Calm == srv.ranged /\ ~odd /\ ~misread

\* Before the first header has been looked at, and afterwards.
First == ctl = "START" /\ len = 0
Known == ctl # "START" /\ len = ImgLen

\* The reply is being read, and the reader has not lost its place.
Fine == /\ ~conn.err /\ conn.status # "other" /\ ~conn.text
        /\ conn.pos <= ImgLen /\ conn.want = ImgLen - conn.pos
        /\ (conn.cb /\ conn.pos = begin) \/ (~conn.cb /\ ctl = "STOP")
\* There was no reply.
Nothing == conn.err /\ conn.hdr # "whole"
\* The connection broke before the first header: the download ends.
Lost == len = 0 /\ begin = 0 /\ conn.status = "none"

Between == pc \in {"loop", "connect", "sent"} =>
    /\ ~Refuses /\ (conn.hdr # "whole" \/ (pc = "loop" /\ ctl = "STOP"))
    /\ Known \/ (First /\ Lost /\ conn.hdr = "empty" /\ conn.clen = 0)
    /\ pc = "sent" => conn.pos = begin
InHeader == pc \in {"cb_header", "held", "flip"} =>
    /\ Known \/ (First /\ (Fine => conn.clen = ImgLen) /\ (Nothing => Lost /\ conn.clen = 0))
    /\ Fine \/ Refuses \/ (pc # "cb_header" /\ Nothing)
    /\ pc = "flip" => First
InBody == /\ pc = "switch" => ctl # "START" /\ ((len = ImgLen /\ (Fine \/ Nothing)) \/ (Nothing /\ Lost) \/ Refuses)
          /\ pc \in {"body", "cb_body"} => Known /\ Fine
          /\ pc = "verify" => ~Refuses
          /\ pc = "verify" => \/ Known /\ (conn.hdr # "whole" \/ begin = ImgLen \/ ctl = "STOP")
                              \/ Lost
Starting == /\ pc \in {"new", "dns"} => len = 0 /\ begin = 0
            /\ pc = "dns" => First

Follows == Calm => InOrder /\ Between /\ InHeader /\ InBody /\ Starting
IInv == TypeOK /\ Follows /\ SwitchGood

LEMMA Bounds == MaxStarts \in Nat /\ MaxCalls \in Nat /\ MaxBreaks \in Nat /\ ImgLen \in Nat
  BY OtaAssumption

(* What a reply sets in the header, and what reading a body sets.          *)
LEMMA ReplyType ==
  ASSUME conn \in Conns, NEW n \in 0..ImgLen, NEW page \in BOOLEAN
  PROVE  Reply(n, page) \in Conns /\ Reply(n, page).want = n /\ Reply(n, page).text = page
         /\ Reply(n, page).pos = IF page THEN ImgLen ELSE conn.pos
<1>1. \A s \in {"none", "200", "206", "other"}, p \in 0..(ImgLen + 1) :
        [conn EXCEPT !.hdr = "whole", !.status = s, !.clen = n, !.want = n, !.err = FALSE,
                     !.cb = TRUE, !.text = page, !.pos = p] \in Conns
  BY DEF Conns
<1>2. PICK s \in {"none", "200", "206", "other"} : s = IF conn.pos = 0 THEN "200" ELSE "206"
  OBVIOUS
<1>3. PICK p \in 0..(ImgLen + 1) : p = IF page THEN ImgLen ELSE conn.pos
  BY Bounds DEF Conns
<1>4. Reply(n, page) = [conn EXCEPT !.hdr = "whole", !.status = s, !.clen = n, !.want = n,
                        !.err = FALSE, !.cb = TRUE, !.text = page, !.pos = p]
  BY <1>2, <1>3 DEF Reply, Conns
<1>5. Reply(n, page) \in Conns
  BY <1>1, <1>4
<1>6. Reply(n, page).want = n /\ Reply(n, page).text = page /\ Reply(n, page).pos = p
  BY <1>4 DEF Conns
<1> QED BY <1>3, <1>5, <1>6

LEMMA TakenType ==
  ASSUME NEW r \in Conns, r.want > 0, r.text \/ r.pos < ImgLen
  PROVE  Taken(r) \in Conns /\ Next1(r) \in 0..ImgLen
<1>1. r.want - 1 \in 0..ImgLen
  BY Bounds DEF Conns
<1>2. (IF r.text THEN r.pos ELSE r.pos + 1) \in 0..(ImgLen + 1)
  BY Bounds DEF Conns
<1>3. \A w \in 0..ImgLen, p \in 0..(ImgLen + 1) :
         [r EXCEPT !.want = w, !.text = FALSE, !.pos = p] \in Conns
  BY DEF Conns
<1>4. Next1(r) \in 0..ImgLen
  BY Bounds DEF Conns, Next1
<1> QED BY <1>1, <1>2, <1>3, <1>4 DEF Taken

(* A block more in the partition.                                          *)
LEMMA WrittenType ==
  ASSUME TypeOK, NEW b \in 0..ImgLen, Written(b)
  PROVE  /\ begin' \in 0..(ImgLen + 1) /\ flash' \in Seq(0..ImgLen)
         /\ told' \in {"none", "loading", "fail", "success"}
<1>1. CASE begin > ImgLen
  BY <1>1 DEF TypeOK, Written
<1>2. CASE ~(begin > ImgLen)
  <2>1. begin + 1 \in 0..(ImgLen + 1)
    BY <1>2, Bounds DEF TypeOK
  <2> QED BY <1>2, <2>1 DEF TypeOK, Written
<1> QED BY <1>1, <1>2

LEMMA WrittenInOrder ==
  ASSUME TypeOK, begin < ImgLen, Len(flash) = begin, \A i \in 1..begin : flash[i] = i,
         Written(begin + 1)
  PROVE  /\ begin' = begin + 1 /\ Len(flash') = begin'
         /\ \A i \in 1..begin' : flash'[i] = i
<1>1. flash' = Append(flash, begin + 1) /\ begin' = begin + 1 /\ begin \in Nat
  BY Bounds DEF TypeOK, Written
<1>2. flash \in Seq(0..ImgLen) /\ begin + 1 \in 0..ImgLen
  BY Bounds, <1>1 DEF TypeOK
<1>3. Len(flash') = begin + 1 /\ flash'[begin + 1] = begin + 1
  BY <1>1, <1>2
<1>4. \A i \in 1..begin : flash'[i] = flash[i]
  BY <1>1, <1>2
<1>5. \A i \in 1..(begin + 1) : i \in 1..begin \/ i = begin + 1
  BY <1>1
<1> QED BY <1>1, <1>3, <1>4, <1>5

LEMMA InitOta == Init => IInv
<1> SUFFICES ASSUME Init PROVE IInv
  OBVIOUS
<1>1. NoConn \in Conns
  BY Bounds DEF NoConn, Conns
<1>2. TypeOK
  <2>1. pc \in Pcs /\ srv \in Servers /\ flash \in Seq(0..ImgLen) /\ conn \in Conns
    BY <1>1 DEF Init, Pcs
  <2>2. ctl \in {"IDLE", "START", "PAUSE", "CONTINUE", "STOP"}
    BY DEF Init
  <2>3. told \in {"none", "loading", "fail", "success"} /\ odd \in BOOLEAN /\ misread \in BOOLEAN
    BY DEF Init
  <2>4. len \in 0..ImgLen /\ begin \in 0..(ImgLen + 1)
    BY Bounds DEF Init
  <2>5. starts \in 0..MaxStarts /\ calls \in 0..MaxCalls /\ breaks \in 0..MaxBreaks
    BY Bounds DEF Init
  <2> QED BY <2>1, <2>2, <2>3, <2>4, <2>5 DEF TypeOK
<1>3. Follows /\ SwitchGood
  BY DEF Init, Follows, InOrder, Loading, Between, InHeader, InBody, Starting, SwitchGood
<1> QED BY <1>2, <1>3 DEF IInv

(* The application's calls.                                                  *)
LEMMA CallStep ==
  ASSUME IInv, Start \/ Pause \/ Continue \/ Stop
  PROVE  TypeOK' /\ Follows'
<1> USE OtaAssumption, Bounds DEF IInv, TypeOK, Pcs, Conns
<1>1. CASE Start
  <2>1. TypeOK'
    <3>1. pc' \in Pcs /\ starts' \in 0..MaxStarts /\ len' \in 0..ImgLen /\ begin' \in 0..(ImgLen + 1)
      BY <1>1 DEF Start, Goto
    <3>2. srv' \in Servers /\ ctl' \in {"IDLE", "START", "PAUSE", "CONTINUE", "STOP"}
      BY <1>1 DEF Start
    <3>3. told' \in {"none", "loading", "fail", "success"} /\ odd' \in BOOLEAN /\ misread' \in BOOLEAN
      BY <1>1 DEF Start
    <3>4. UNCHANGED <<flash, conn, calls, breaks>>
      BY <1>1 DEF Start
    <3> QED BY <3>1, <3>2, <3>3, <3>4
  <2>2. Follows'
    BY <1>1 DEF Start, Goto, bounds,
       Follows, Calm, InOrder, Loading, Between, InHeader, InBody, Starting,
       First, Known, Fine, Nothing, Refuses, Lost
  <2> QED BY <2>1, <2>2
<1>2. CASE Pause
  <2>1. TypeOK'
    BY <1>2 DEF Pause, Call, bounds, Running
  <2>2. Follows'
    BY <1>2 DEF Pause, Call, bounds, Running,
       Follows, Calm, InOrder, Loading, Between, InHeader, InBody, Starting,
       First, Known, Fine, Nothing, Refuses, Lost
  <2> QED BY <2>1, <2>2
<1>3. CASE Continue
  <2>1. TypeOK'
    BY <1>3 DEF Continue, Call, bounds, Running
  <2>2. Follows'
    BY <1>3 DEF Continue, Call, bounds, Running,
       Follows, Calm, InOrder, Loading, Between, InHeader, InBody, Starting,
       First, Known, Fine, Nothing, Refuses, Lost
  <2> QED BY <2>1, <2>2
<1>4. CASE Stop
  <2>1. TypeOK'
    BY <1>4 DEF Stop, Call, bounds, Running
  <2>2. Follows'
    BY <1>4 DEF Stop, Call, bounds, Running,
       Follows, Calm, InOrder, Loading, Between, InHeader, InBody, Starting,
       First, Known, Fine, Nothing, Refuses, Lost
  <2> QED BY <2>1, <2>2
<1> QED BY <1>1, <1>2, <1>3, <1>4

(* The thread begins, and the top of its loop.                               *)
LEMMA BootStep ==
  ASSUME IInv, Boot \/ Resolve \/ NoName \/ Loop \/ Quit \/ Connect \/ NoConnect
  PROVE  TypeOK' /\ Follows'
<1> USE OtaAssumption, Bounds DEF IInv, TypeOK, Pcs, Conns
<1>1. CASE Boot
  <2>1. TypeOK'
    BY <1>1 DEF Boot, Goto, bounds, Local, Others
  <2>2. Follows'
    BY <1>1 DEF Boot, Goto, bounds, Local, Others,
       Follows, Calm, InOrder, Loading, Between, InHeader, InBody, Starting,
       First, Known, Fine, Nothing, Refuses, Lost
  <2> QED BY <2>1, <2>2
<1>2. CASE Resolve
  <2>1. TypeOK'
    BY <1>2 DEF Resolve, NoConn, Goto, bounds, Local, Others
  <2>2. Follows'
    BY <1>2 DEF Resolve, NoConn, Goto, bounds, Local, Others,
       Follows, Calm, InOrder, Loading, Between, InHeader, InBody, Starting,
       First, Known, Fine, Nothing, Refuses, Lost
  <2> QED BY <2>1, <2>2
<1>3. CASE NoName
  <2>1. TypeOK'
    <3>1. flash' \in Seq(0..ImgLen)
      <4>1. CASE flash' = flash
        BY <4>1
      <4>2. CASE flash' = <<>>
        BY <4>2
      <4> QED BY <1>3, <4>1, <4>2 DEF NoName
    <3> QED BY <1>3, <3>1 DEF NoName, Goto, bounds, Local, Others
  <2>2. Follows'
    BY <1>3 DEF NoName, Goto, bounds, Local, Others,
       Follows, Calm, InOrder, Loading, Between, InHeader, InBody, Starting,
       First, Known, Fine, Nothing, Refuses, Lost
  <2> QED BY <2>1, <2>2
<1>4. CASE Loop
  <2>1. TypeOK'
    BY <1>4 DEF Loop, Goto, bounds, Steps, Local, Others
  <2>2. Follows'
    BY <1>4 DEF Loop, Goto, bounds, Steps, Local, Others,
       Follows, Calm, InOrder, Loading, Between, InHeader, InBody, Starting,
       First, Known, Fine, Nothing, Refuses, Lost
  <2> QED BY <2>1, <2>2
<1>5. CASE Quit
  <2>1. TypeOK'
    BY <1>5 DEF Quit, Goto, bounds, Steps, Local, Others
  <2>2. Follows'
    BY <1>5 DEF Quit, Goto, bounds, Steps, Local, Others,
       Follows, Calm, InOrder, Loading, Between, InHeader, InBody, Starting,
       First, Known, Fine, Nothing, Refuses, Lost
  <2> QED BY <2>1, <2>2
<1>6. CASE Connect
  <2>1. TypeOK'
    <3>1. From \in 0..(ImgLen + 1)
      BY DEF From
    <3>2. conn' \in Conns
      BY <1>6, <3>1 DEF Connect
    <3> QED BY <1>6, <3>2 DEF Connect, Goto, bounds, Local, Others
  <2>2. Follows'
    BY <1>6 DEF Connect, From, Goto, bounds, Local, Others,
       Follows, Calm, InOrder, Loading, Between, InHeader, InBody, Starting,
       First, Known, Fine, Nothing, Refuses, Lost
  <2> QED BY <2>1, <2>2
<1>7. CASE NoConnect
  <2>1. TypeOK'
    BY <1>7 DEF NoConnect, Break, Goto, bounds
  <2>2. Follows'
    BY <1>7 DEF NoConnect, Break, Goto, bounds,
       Follows, Calm, InOrder, Loading, Between, InHeader, InBody, Starting,
       First, Known, Fine, Nothing, Refuses, Lost
  <2> QED BY <2>1, <2>2
<1> QED BY <1>1, <1>2, <1>3, <1>4, <1>5, <1>6, <1>7

(* Whatever the server answers, or does not.                                 *)
LEMMA HeaderStep ==
  ASSUME IInv, \/ Header \/ HeaderData \/ OtherStatus \/ OtherData \/ StaleHeader
               \/ HeaderBreaks \/ Malformed
  PROVE  TypeOK' /\ Follows'
<1> USE OtaAssumption, Bounds DEF IInv, TypeOK, Pcs, Conns
<1>1. CASE Header
  <2> PICK n \in 0..ImgLen, page \in BOOLEAN :
           /\ Parses(n, page) /\ Goto("sent", "held") /\ conn' = Reply(n, page)
           /\ UNCHANGED <<ctl, len, begin, flash, told>> /\ Others
    BY <1>1 DEF Header
  <2>1. TypeOK'
    <3>1. conn' \in Conns
      BY ReplyType
    <3>2. pc' \in Pcs /\ misread' \in BOOLEAN
      BY DEF Parses, Goto
    <3> QED BY <3>1, <3>2 DEF Others, bounds
  <2>2. Follows'
    <3> SUFFICES ASSUME Calm' PROVE (InOrder /\ Between /\ InHeader /\ InBody /\ Starting)'
      BY DEF Follows
    <3>1. Calm /\ pc = "sent" /\ pc' = "held" /\ UNCHANGED <<ctl, len, begin, flash>>
      BY DEF Goto, Others, Calm, Parses
    <3>2. ~page /\ n = ImgLen - conn.pos
      <4>1. misread' = (misread \/ page \/ n # ImgLen - conn.pos) /\ ~misread'
        BY DEF Parses, Calm
      <4> QED BY <4>1
    <3>3. conn.pos = begin /\ ~Refuses /\ InOrder /\ (Known \/ (First /\ begin = 0))
      BY <3>1 DEF Follows, Between, Lost
    <3>4. conn.pos < ImgLen
      BY <3>2 DEF Parses
    <3>5. /\ ~conn'.err /\ conn'.status # "other" /\ ~conn'.text /\ conn'.cb
          /\ conn'.pos = begin /\ conn'.want = ImgLen - begin /\ conn'.clen = ImgLen - begin
      BY <3>2, <3>3 DEF Reply
    <3>6. Fine'
      BY <3>1, <3>3, <3>4, <3>5 DEF Fine
    <3>7. InOrder'
      BY <3>1, <3>3 DEF InOrder, Loading, Calm
    <3>8. InHeader'
      BY <3>1, <3>3, <3>5, <3>6 DEF InHeader, Known, First, Nothing
    <3> QED BY <3>1, <3>7, <3>8 DEF Between, InBody, Starting
  <2> QED BY <2>1, <2>2
<1>2. CASE HeaderData
  <2> PICK n \in 1..ImgLen, page \in BOOLEAN :
           /\ Parses(n, page) /\ Goto("sent", "cb_header") /\ conn' = Taken(Reply(n, page))
           /\ Written(Next1(Reply(n, page))) /\ UNCHANGED <<ctl, len>> /\ Others
    BY <1>2 DEF HeaderData
  <2>1. TypeOK'
    <3>1. /\ Reply(n, page) \in Conns /\ Reply(n, page).want > 0
          /\ Reply(n, page).text \/ Reply(n, page).pos < ImgLen
      <4>1. n \in 0..ImgLen /\ n > 0 /\ (page \/ ImgLen - conn.pos > 0)
        BY DEF Parses
      <4>2. /\ Reply(n, page) \in Conns /\ Reply(n, page).want = n /\ Reply(n, page).text = page
            /\ Reply(n, page).pos = IF page THEN ImgLen ELSE conn.pos
        BY <4>1, ReplyType
      <4>3. CASE page
        BY <4>1, <4>2, <4>3
      <4>4. CASE ~page
        BY <4>1, <4>2, <4>4
      <4> QED BY <4>3, <4>4
    <3>2. conn' \in Conns /\ Next1(Reply(n, page)) \in 0..ImgLen
      BY <3>1, TakenType
    <3>3. /\ begin' \in 0..(ImgLen + 1) /\ flash' \in Seq(0..ImgLen)
          /\ told' \in {"none", "loading", "fail", "success"}
      BY <3>2, WrittenType
    <3>4. pc' \in Pcs /\ misread' \in BOOLEAN /\ UNCHANGED <<ctl, len, srv, odd, starts, calls, breaks>>
      BY DEF Parses, Goto, Others, bounds
    <3> QED BY <3>2, <3>3, <3>4
  <2>2. Follows'
    <3> SUFFICES ASSUME Calm' PROVE (InOrder /\ Between /\ InHeader /\ InBody /\ Starting)'
      BY DEF Follows
    <3>1. Calm /\ pc = "sent" /\ pc' = "cb_header" /\ UNCHANGED <<ctl, len>>
      BY DEF Goto, Others, Calm, Parses
    <3>2. ~page /\ n = ImgLen - conn.pos /\ conn.pos < ImgLen
      <4>1. misread' = (misread \/ page \/ n # ImgLen - conn.pos) /\ ~misread'
        BY DEF Parses, Calm
      <4>2. ~page /\ n = ImgLen - conn.pos
        BY <4>1
      <4> QED BY <4>2 DEF Parses
    <3>3. /\ conn.pos = begin /\ begin < ImgLen /\ Len(flash) = begin
          /\ \A i \in 1..begin : flash[i] = i
          /\ Known \/ (First /\ begin = 0)
      BY <3>1, <3>2 DEF Follows, InOrder, Loading, Calm, Between, Lost
    <3>4. Written(begin + 1)
      BY <3>2, <3>3 DEF Next1, Reply
    <3>5. /\ begin' = begin + 1 /\ Len(flash') = begin'
          /\ \A i \in 1..begin' : flash'[i] = i
      BY <3>3, <3>4, WrittenInOrder
    <3>6. InOrder'
      BY <3>3, <3>5 DEF InOrder
    <3>7. /\ ~conn'.err /\ conn'.status # "other" /\ ~conn'.text /\ conn'.cb
          /\ conn'.pos = begin + 1 /\ conn'.want = ImgLen - (begin + 1)
          /\ conn'.clen = ImgLen - begin
      BY <3>2, <3>3 DEF Taken, Reply
    <3>8. Fine'
      BY <3>3, <3>5, <3>7 DEF Fine
    <3>9. InHeader'
      BY <3>1, <3>3, <3>7, <3>8 DEF InHeader, Known, First, Nothing
    <3> QED BY <3>1, <3>6, <3>9 DEF Between, InBody, Starting
  <2> QED BY <2>1, <2>2
<1>3. CASE OtherStatus
  <2> PICK n \in {0, 1} : conn' = Error(n)
    BY <1>3 DEF OtherStatus
  <2>1. TypeOK'
    <3>1. n \in 0..ImgLen
      OBVIOUS
    <3>2. conn' \in Conns
      BY <3>1 DEF Error
    <3> QED BY <1>3, <3>2 DEF OtherStatus, Goto, bounds, Local, Others
  <2>2. Follows'
    BY <1>3 DEF OtherStatus, Error, Answered, Goto, bounds, Local, Others,
       Follows, Calm, InOrder, Loading, Between, InHeader, InBody, Starting,
       First, Known, Fine, Nothing, Refuses, Lost
  <2> QED BY <2>1, <2>2
<1>7. CASE OtherData
  <2>1. TypeOK'
    <3>1. 1 \in 0..ImgLen /\ 0 \in 0..ImgLen
      OBVIOUS
    <3>2. conn' \in Conns
      BY <1>7, <3>1 DEF OtherData, Error
    <3>3. /\ begin' \in 0..(ImgLen + 1) /\ flash' \in Seq(0..ImgLen)
          /\ told' \in {"none", "loading", "fail", "success"}
      BY <1>7, <3>1, WrittenType DEF OtherData
    <3>4. pc' \in Pcs /\ UNCHANGED <<ctl, len, srv, odd, misread, starts, calls, breaks>>
      BY <1>7 DEF OtherData, Goto, Local, Others, bounds
    <3> QED BY <3>2, <3>3, <3>4
  <2>2. Follows'
    <3> SUFFICES ASSUME Calm' PROVE (InOrder /\ Between /\ InHeader /\ InBody /\ Starting)'
      BY DEF Follows
    <3>1. Calm /\ pc = "sent" /\ pc' = "cb_header" /\ UNCHANGED <<ctl, len>>
      BY <1>7 DEF OtherData, Goto, Local, Others, Calm
    <3>2. ~conn'.err /\ conn'.status = "other"
      BY <1>7 DEF OtherData, Error
    <3>3. Known \/ First
      BY <3>1 DEF Follows, Between
    <3> QED BY <3>1, <3>2, <3>3 DEF InOrder, Between, InHeader, InBody, Starting, Refuses, Fine, Nothing,
            Known, First
  <2> QED BY <2>1, <2>2
<1>4. CASE StaleHeader
  <2>1. TypeOK'
    BY <1>4 DEF StaleHeader, Goto, bounds, Local, Others
  <2>2. Follows'
    BY <1>4 DEF StaleHeader, Goto, bounds, Local, Others,
       Follows, Calm, InOrder, Loading, Between, InHeader, InBody, Starting,
       First, Known, Fine, Nothing, Refuses, Lost
  <2> QED BY <2>1, <2>2
<1>5. CASE HeaderBreaks
  <2>1. TypeOK'
    <3>1. conn' \in Conns
      BY <1>5 DEF HeaderBreaks, Answered, Break, Goto, bounds
    <3>2. begin' \in 0..(ImgLen + 1) /\ flash' \in Seq(0..ImgLen)
      BY <1>5 DEF HeaderBreaks, Answered, Break, Goto, bounds
    <3>3. pc' \in Pcs /\ starts' \in 0..MaxStarts /\ calls' \in 0..MaxCalls /\ breaks' \in 0..MaxBreaks
      BY <1>5 DEF HeaderBreaks, Answered, Break, Goto, bounds
    <3> QED BY <1>5, <3>1, <3>2, <3>3 DEF HeaderBreaks, Answered, Break, Goto, bounds
  <2>2. Follows'
    BY <1>5 DEF HeaderBreaks, Answered, Break, Goto, bounds,
       Follows, Calm, InOrder, Loading, Between, InHeader, InBody, Starting,
       First, Known, Fine, Nothing, Refuses, Lost
  <2> QED BY <2>1, <2>2
<1>6. CASE Malformed
  <2>1. PICK s \in {"none", "200", "206", "other"}, c \in 0..ImgLen :
           conn' = [conn EXCEPT !.hdr = "bad", !.err = TRUE, !.status = s, !.clen = c]
    <3>1. CASE conn' = [conn EXCEPT !.hdr = "bad", !.err = TRUE]
      <4>1. conn' = [conn EXCEPT !.hdr = "bad", !.err = TRUE, !.status = conn.status, !.clen = conn.clen]
        BY <3>1
      <4> QED BY <4>1
    <3>2. CASE conn' = [conn EXCEPT !.hdr = "bad", !.err = TRUE, !.status = "none", !.clen = 0]
      <4>1. 0 \in 0..ImgLen
        OBVIOUS
      <4> QED BY <3>2, <4>1
    <3> QED BY <1>6, <3>1, <3>2 DEF Malformed
  <2>2. TypeOK'
    <3>1. conn' \in Conns
      BY <2>1
    <3>2. pc' \in Pcs
      BY <1>6 DEF Malformed, Goto
    <3>3. UNCHANGED <<ctl, len, begin, flash, told, srv, odd, misread, starts, calls, breaks>>
      BY <1>6 DEF Malformed, bounds, Local, Others
    <3> QED BY <3>1, <3>2, <3>3
  <2>3. Follows'
    <3> SUFFICES ASSUME Calm' PROVE (InOrder /\ Between /\ InHeader /\ InBody /\ Starting)'
      BY DEF Follows
    <3>1. /\ Calm /\ pc = "sent" /\ pc' = "held" /\ conn.hdr \in {"part", "bad"}
          /\ UNCHANGED <<ctl, len, begin, flash>>
      BY <1>6 DEF Malformed, Goto, Local, Others, Calm
    <3>2. Known /\ ~Refuses /\ InOrder
      BY <3>1 DEF Follows, Between
    <3>3. conn'.err /\ conn'.hdr = "bad"
      BY <2>1
    <3> QED BY <3>1, <3>2, <3>3
        DEF InOrder, Loading, Calm, Between, InHeader, InBody, Starting, Known, First, Nothing, Refuses
  <2> QED BY <2>2, <2>3
<1> QED BY <1>1, <1>2, <1>3, <1>4, <1>5, <1>6, <1>7

(* After the header.                                                         *)
LEMMA HeldStep ==
  ASSUME IInv, HeaderReturns \/ SeesStart \/ SeesOther \/ Flip \/ ReadsBody \/ Refused \/ Falls
  PROVE  TypeOK' /\ Follows'
<1> USE OtaAssumption, Bounds DEF IInv, TypeOK, Pcs, Conns
<1>1. CASE HeaderReturns
  <2>1. TypeOK'
    BY <1>1 DEF HeaderReturns, Goto, bounds, Local, Others
  <2>2. Follows'
    BY <1>1 DEF HeaderReturns, Goto, bounds, Local, Others,
       Follows, Calm, InOrder, Loading, Between, InHeader, InBody, Starting,
       First, Known, Fine, Nothing, Refuses, Lost
  <2> QED BY <2>1, <2>2
<1>2. CASE SeesStart
  <2>1. TypeOK'
    BY <1>2 DEF SeesStart, Goto, bounds, Steps, Local, Others
  <2>2. Follows'
    BY <1>2 DEF SeesStart, Goto, bounds, Steps, Local, Others,
       Follows, Calm, InOrder, Loading, Between, InHeader, InBody, Starting,
       First, Known, Fine, Nothing, Refuses, Lost
  <2> QED BY <2>1, <2>2
<1>3. CASE SeesOther
  <2>1. TypeOK'
    BY <1>3 DEF SeesOther, Goto, bounds, Steps, Local, Others
  <2>2. Follows'
    BY <1>3 DEF SeesOther, Goto, bounds, Steps, Local, Others,
       Follows, Calm, InOrder, Loading, Between, InHeader, InBody, Starting,
       First, Known, Fine, Nothing, Refuses, Lost
  <2> QED BY <2>1, <2>2
<1>4. CASE Flip
  <2>1. TypeOK'
    BY <1>4 DEF Flip, Goto, bounds, Local, Others
  <2>2. Follows'
    <3> SUFFICES ASSUME Calm' PROVE (InOrder /\ Between /\ InHeader /\ InBody /\ Starting)'
      BY DEF Follows
    <3>1. /\ Calm /\ pc = "flip" /\ pc' = "switch" /\ len' = conn.clen /\ ctl' = "CONTINUE"
          /\ UNCHANGED <<begin, flash, conn>>
      BY <1>4 DEF Flip, Goto, Local, Others, Calm
    <3>2. InOrder'
      BY <3>1 DEF Follows, InOrder, Loading, Calm, Refuses
    <3>3. InHeader
      BY <3>1 DEF Follows
    <3>5. InBody'
      BY <3>1, <3>3 DEF InBody, InHeader, Known, First, Fine, Nothing, Refuses, Lost
    <3> QED BY <3>1, <3>2, <3>5 DEF Between, InHeader, Starting
  <2> QED BY <2>1, <2>2
<1>5. CASE ReadsBody
  <2>1. TypeOK'
    BY <1>5 DEF ReadsBody, Goto, bounds, Steps, Local, Others
  <2>2. Follows'
    BY <1>5 DEF ReadsBody, Goto, bounds, Steps, Local, Others,
       Follows, Calm, InOrder, Loading, Between, InHeader, InBody, Starting,
       First, Known, Fine, Nothing, Refuses, Lost
  <2> QED BY <2>1, <2>2
<1>6. CASE Refused
  <2>1. TypeOK'
    BY <1>6 DEF Refused, Goto, bounds, Local, Others
  <2>2. Follows'
    BY <1>6 DEF Refused, Goto, bounds, Local, Others,
       Follows, Calm, InOrder, Loading, Between, InHeader, InBody, Starting,
       First, Known, Fine, Nothing, Refuses, Lost
  <2> QED BY <2>1, <2>2
<1>7. CASE Falls
  <2>1. TypeOK'
    BY <1>7 DEF Falls, Goto, bounds, Steps, Local, Others
  <2>2. Follows'
    BY <1>7 DEF Falls, Goto, bounds, Steps, Local, Others,
       Follows, Calm, InOrder, Loading, Between, InHeader, InBody, Starting,
       First, Known, Fine, Nothing, Refuses, Lost
  <2> QED BY <2>1, <2>2
<1> QED BY <1>1, <1>2, <1>3, <1>4, <1>5, <1>6, <1>7

(* The body.                                                                 *)
LEMMA BodyStep ==
  ASSUME IInv, Block \/ Unseen \/ BlockReturns \/ BlockStops \/ BodyBreaks \/ BodyShort \/ BodyEnds
  PROVE  TypeOK' /\ Follows'
<1> USE OtaAssumption, Bounds DEF IInv, TypeOK, Pcs, Conns
<1>1. CASE Block
  <2>1. TypeOK'
    <3>1. conn' \in Conns /\ Next1(conn) \in 0..ImgLen
      BY <1>1, TakenType DEF Block, Sends
    <3>2. /\ begin' \in 0..(ImgLen + 1) /\ flash' \in Seq(0..ImgLen)
          /\ told' \in {"none", "loading", "fail", "success"}
      BY <1>1, <3>1, WrittenType DEF Block
    <3>3. pc' \in Pcs /\ UNCHANGED <<ctl, len, srv, odd, misread, starts, calls, breaks>>
      BY <1>1 DEF Block, Goto, Local, Others, bounds
    <3> QED BY <3>1, <3>2, <3>3
  <2>2. Follows'
    <3> SUFFICES ASSUME Calm' PROVE (InOrder /\ Between /\ InHeader /\ InBody /\ Starting)'
      BY DEF Follows
    <3>1. /\ Calm /\ pc = "body" /\ pc' = "cb_body" /\ UNCHANGED <<ctl, len>>
          /\ conn.cb /\ Sends /\ conn' = Taken(conn) /\ Written(Next1(conn))
      BY <1>1 DEF Block, Goto, Local, Others, Calm
    <3>2. /\ Known /\ Fine /\ Len(flash) = begin
          /\ \A i \in 1..begin : flash[i] = i
      BY <3>1 DEF Follows, InOrder, Loading, Calm, InBody, Fine, Refuses
    <3>3. conn.pos = begin /\ begin < ImgLen /\ Next1(conn) = begin + 1
      BY <3>1, <3>2 DEF Fine, Sends, Next1
    <3>4. /\ begin' = begin + 1 /\ Len(flash') = begin'
          /\ \A i \in 1..begin' : flash'[i] = i
      BY <3>1, <3>2, <3>3, WrittenInOrder
    <3>5. InOrder'
      BY <3>3, <3>4 DEF InOrder
    <3>6. Fine' /\ Known'
      BY <3>1, <3>2, <3>3, <3>4 DEF Fine, Known, Taken
    <3> QED BY <3>1, <3>5, <3>6 DEF Between, InHeader, InBody, Starting
  <2> QED BY <2>1, <2>2
<1>2. CASE Unseen
  <2>1. TypeOK'
    <3>1. conn' \in Conns
      BY <1>2, TakenType DEF Unseen, Sends
    <3> QED BY <1>2, <3>1 DEF Unseen, Goto, bounds, Local, Others
  <2>2. Follows'
    BY <1>2 DEF Unseen, Sends, Taken, Goto, bounds, Local, Others,
       Follows, Calm, InOrder, Loading, Between, InHeader, InBody, Starting,
       First, Known, Fine, Nothing, Refuses, Lost
  <2> QED BY <2>1, <2>2
<1>3. CASE BlockReturns
  <2>1. TypeOK'
    BY <1>3 DEF BlockReturns, Goto, bounds, Steps, Local, Others
  <2>2. Follows'
    BY <1>3 DEF BlockReturns, Goto, bounds, Steps, Local, Others,
       Follows, Calm, InOrder, Loading, Between, InHeader, InBody, Starting,
       First, Known, Fine, Nothing, Refuses, Lost
  <2> QED BY <2>1, <2>2
<1>4. CASE BlockStops
  <2>1. TypeOK'
    BY <1>4 DEF BlockStops, BodyError, Goto, bounds, Local, Others
  <2>2. Follows'
    BY <1>4 DEF BlockStops, BodyError, Goto, bounds, Local, Others,
       Follows, Calm, InOrder, Loading, Between, InHeader, InBody, Starting,
       First, Known, Fine, Nothing, Refuses, Lost
  <2> QED BY <2>1, <2>2
<1>5. CASE BodyBreaks
  <2>1. TypeOK'
    <3>1. conn' \in Conns
      BY <1>5 DEF BodyBreaks, BodyError, Break, Sends, Goto, bounds
    <3>2. begin' \in 0..(ImgLen + 1) /\ flash' \in Seq(0..ImgLen)
      BY <1>5 DEF BodyBreaks, BodyError, Break, Sends, Goto, bounds
    <3>3. pc' \in Pcs /\ starts' \in 0..MaxStarts /\ calls' \in 0..MaxCalls /\ breaks' \in 0..MaxBreaks
      BY <1>5 DEF BodyBreaks, BodyError, Break, Sends, Goto, bounds
    <3> QED BY <1>5, <3>1, <3>2, <3>3 DEF BodyBreaks, BodyError, Break, Sends, Goto, bounds
  <2>2. Follows'
    BY <1>5 DEF BodyBreaks, BodyError, Break, Sends, Goto, bounds,
       Follows, Calm, InOrder, Loading, Between, InHeader, InBody, Starting,
       First, Known, Fine, Nothing, Refuses, Lost
  <2> QED BY <2>1, <2>2
<1>6. CASE BodyShort
  <2>1. TypeOK'
    BY <1>6 DEF BodyShort, BodyError, Sends, Goto, bounds, Local, Others
  <2>2. Follows'
    BY <1>6 DEF BodyShort, BodyError, Sends, Goto, bounds, Local, Others,
       Follows, Calm, InOrder, Loading, Between, InHeader, InBody, Starting,
       First, Known, Fine, Nothing, Refuses, Lost
  <2> QED BY <2>1, <2>2
<1>7. CASE BodyEnds
  <2>1. TypeOK'
    BY <1>7 DEF BodyEnds, Goto, bounds, Steps, Local, Others
  <2>2. Follows'
    BY <1>7 DEF BodyEnds, Goto, bounds, Steps, Local, Others,
       Follows, Calm, InOrder, Loading, Between, InHeader, InBody, Starting,
       First, Known, Fine, Nothing, Refuses, Lost
  <2> QED BY <2>1, <2>2
<1> QED BY <1>1, <1>2, <1>3, <1>4, <1>5, <1>6, <1>7

(* The end of the download.                                                  *)
LEMMA EndStep ==
  ASSUME IInv, Again \/ Gives \/ Switch \/ Differs \/ Delete
  PROVE  TypeOK' /\ Follows'
<1> USE OtaAssumption, Bounds DEF IInv, TypeOK, Pcs, Conns
<1>1. CASE Again
  <2>1. TypeOK'
    BY <1>1 DEF Again, Goto, bounds, Steps, Local, Others
  <2>2. Follows'
    BY <1>1 DEF Again, Goto, bounds, Steps, Local, Others,
       Follows, Calm, InOrder, Loading, Between, InHeader, InBody, Starting,
       First, Known, Fine, Nothing, Refuses, Lost
  <2> QED BY <2>1, <2>2
<1>2. CASE Gives
  <2>1. TypeOK'
    BY <1>2 DEF Gives, Goto, bounds, Steps, Local, Others
  <2>2. Follows'
    BY <1>2 DEF Gives, Goto, bounds, Steps, Local, Others,
       Follows, Calm, InOrder, Loading, Between, InHeader, InBody, Starting,
       First, Known, Fine, Nothing, Refuses, Lost
  <2> QED BY <2>1, <2>2
<1>3. CASE Switch
  <2>1. TypeOK'
    BY <1>3 DEF Switch, Agrees, Goto, bounds, Local, Others
  <2>2. Follows'
    BY <1>3 DEF Switch, Agrees, Goto, bounds, Local, Others,
       Follows, Calm, InOrder, Loading, Between, InHeader, InBody, Starting,
       First, Known, Fine, Nothing, Refuses, Lost
  <2> QED BY <2>1, <2>2
<1>4. CASE Differs
  <2>1. TypeOK'
    BY <1>4 DEF Differs, Agrees, Goto, bounds, Local, Others
  <2>2. Follows'
    BY <1>4 DEF Differs, Agrees, Goto, bounds, Local, Others,
       Follows, Calm, InOrder, Loading, Between, InHeader, InBody, Starting,
       First, Known, Fine, Nothing, Refuses, Lost
  <2> QED BY <2>1, <2>2
<1>5. CASE Delete
  <2>1. TypeOK'
    BY <1>5 DEF Delete, Goto, bounds, Steps, Local, Others
  <2>2. Follows'
    BY <1>5 DEF Delete, Goto, bounds, Steps, Local, Others,
       Follows, Calm, InOrder, Loading, Between, InHeader, InBody, Starting,
       First, Known, Fine, Nothing, Refuses, Lost
  <2> QED BY <2>1, <2>2
<1> QED BY <1>1, <1>2, <1>3, <1>4, <1>5

(* A device that has rebooted takes no step; it reboots with the image.    *)
LEMMA SwitchStep ==
  ASSUME IInv, Next
  PROVE  SwitchGood'
<1> SUFFICES ASSUME pc' = "rebooted", srv'.md5 \/ (srv'.ranged /\ ~odd' /\ ~misread') PROVE flash' = Image
  BY DEF SwitchGood
<1>1. pc = "verify" /\ Switch
  BY DEF Next, Thread, Network, Start, Pause, Continue, Stop, Call, Running, Boot, Resolve, NoName, Loop,
     Quit, Connect, NoConnect, HeaderReturns, SeesStart, SeesOther, Flip, ReadsBody, Refused, Falls,
     Block, Unseen, BlockReturns, BlockStops, BodyBreaks, BodyShort, BodyEnds, Again, Gives, Switch,
     Differs, Delete, Header, HeaderData, OtherStatus, OtherData, StaleHeader, HeaderBreaks, Malformed, Goto
<1>2. UNCHANGED <<flash, srv, odd, misread>> /\ Agrees /\ len = begin /\ conn.status = "200"
  BY <1>1 DEF Switch, Local, Others
<1>3. CASE srv.md5
  BY <1>2, <1>3 DEF Agrees, Image
<1>4. CASE Calm
  <2>1. len = ImgLen
    BY <1>1, <1>2, <1>4 DEF IInv, Follows, InBody, Known, Lost
  <2>2. Len(flash) = ImgLen /\ \A i \in 1..ImgLen : flash[i] = i
    BY <1>1, <1>2, <1>4, <2>1 DEF IInv, Follows, InBody, InOrder, Loading, Calm
  <2>3. flash \in Seq(0..ImgLen)
    BY DEF IInv, TypeOK
  <2> QED BY <1>2, <2>2, <2>3, Bounds DEF Image
<1> QED BY <1>2, <1>3, <1>4 DEF Calm

LEMMA StutterOta ==
  ASSUME IInv, UNCHANGED vars
  PROVE  IInv'
  BY DEF vars, bounds, IInv, TypeOK, SwitchGood, Follows, Calm, InOrder, Loading, Between, InHeader,
     InBody, Starting, First, Known, Fine, Nothing, Refuses, Lost

LEMMA NextOta == IInv /\ [Next]_vars => IInv'
<1> SUFFICES ASSUME IInv, [Next]_vars PROVE IInv'
  OBVIOUS
<1>1. CASE Next
  <2>1. TypeOK' /\ Follows'
    BY <1>1, CallStep, BootStep, HeaderStep, HeldStep, BodyStep, EndStep DEF Next, Thread, Network
  <2> QED BY <1>1, <2>1, SwitchStep DEF IInv
<1>2. CASE UNCHANGED vars
  BY <1>2, StutterOta
<1> QED BY <1>1, <1>2

(* The state keeps its type.                                               *)
THEOREM OtaTypeCorrect == Spec => []TypeOK
<1>1. IInv => TypeOK
  BY DEF IInv
<1> QED BY <1>1, InitOta, NextOta, PTL DEF Spec

(* Through every break of the connection, pause and continuation the       *)
(* partition holds the beginning of the image, if the server serves ranges *)
(* and has not refused the last request, and no piece of an old header has *)
(* changed the meaning of a new one.                                       *)
THEOREM FlashIsPrefix == Spec => []InOrder
<1>1. IInv => InOrder
  BY DEF IInv, Follows, Calm, InOrder
<1> QED BY <1>1, InitOta, NextOta, PTL DEF Spec

(* What is booted is the image: by its MD5, or, without one, by the way it *)
(* was fetched, under the same conditions on server and headers.           *)
THEOREM BootsTheImage == Spec => []SwitchGood
<1>1. IInv => SwitchGood
  BY DEF IInv
<1> QED BY <1>1, InitOta, NextOta, PTL DEF Spec
=============================================================================
