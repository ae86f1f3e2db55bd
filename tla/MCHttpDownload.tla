--------------------------- MODULE MCHttpDownload ---------------------------
(***************************************************************************)
(* An instance of HttpDownload for TLC: servers that honour Range, that    *)
(* ignore it, and that send a chunked reply.                               *)
(***************************************************************************)
EXTENDS HttpDownload

AllServers == {[ranged |-> TRUE, chunked |-> FALSE], [ranged |-> FALSE, chunked |-> FALSE],
               [ranged |-> TRUE, chunked |-> TRUE]}

\* Contexts are interchangeable: the first download gets the first of them.
FirstFirst == pc'[CHOOSE c \in Ctxs : TRUE] # "free" \/ starts' # 1 \/ starts = 1
=============================================================================
