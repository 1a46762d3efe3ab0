------------------------------ MODULE MCClient ------------------------------
(***************************************************************************)
(* Instances of Client.  A buffer of four units; answers of one (errors),  *)
(* one, three, and one that does not fit.                                  *)
(***************************************************************************)
EXTENDS Client

Req(kind, keep, head, body) == [kind |-> kind, keep |-> keep, head |-> head, body |-> body]

\* Kept requests and their successors (pipelined if they arrive at once), an unroutable one, one that does
\* not parse, headers longer than the buffer, an upload over the limit.
ApiScripts ==
    {<<Req("api", TRUE, 1, 1), Req("api", TRUE, 1, 0), Req("api", FALSE, 2, 0)>>,
     <<Req("noroute", TRUE, 1, 0)>>,
     <<Req("bad", TRUE, 1, 0)>>,
     <<Req("api", TRUE, 5, 0)>>,
     <<Req("post", TRUE, 1, 4)>>}

\* An upload, on a connection already used, whose body comes with the headers, after them or in part; one
\* with bytes behind it; a chunk; a folder.
StreamScripts ==
    {<<Req("api", TRUE, 1, 0), Req("post", TRUE, 1, 3)>>,
     <<Req("post", TRUE, 1, 1), Req("api", TRUE, 1, 0)>>,
     <<Req("put", TRUE, 1, 1), Req("api", TRUE, 1, 0)>>,
     <<Req("get", TRUE, 1, 0)>>}

AllScripts == ApiScripts \cup StreamScripts
\* One upload, for the operator path.
UploadScripts == {<<Req("post", TRUE, 1, 2)>>}

\* Uploads are refused by upload workers; on an operator only a folder link is.
RefusedByWorkers == [m \in BOOLEAN |-> IF m THEN {"get"} ELSE {"post", "put", "get"}]
RefusedAnywhere  == [m \in BOOLEAN |-> {"post", "put", "get"}]

SomeFolders == {<<>>, <<[nl |-> 3, sz |-> 2], [nl |-> 4, sz |-> 0]>>}
=============================================================================
