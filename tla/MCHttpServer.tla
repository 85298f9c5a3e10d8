---------------------------- MODULE MCHttpServer ----------------------------
(***************************************************************************)
(* Streams with every kind of request line, the headers that decide        *)
(* whether the connection stays, lines that are neither, and requests that *)
(* may come together.                                                      *)
(***************************************************************************)
EXTENDS HttpServer

Get(version, path) == Request("kGet", version, path)
Connection(value) == Header("Connection", value)
Host == Header("Host", "rabbit")

AllWords ==
  {"/a", "/b", "/c", "/none", "Host", "rabbit", "Connection", "close", "Keep-Alive"}

OneRequest == <<Get("kHttp11", "/a"), Host, Connection("close"), Blank>>

KeepThenClose ==
  <<Get("kHttp10", "/a"), Connection("Keep-Alive"), Blank,
    Get("kHttp10", "/b"), Host, Blank,
    Get("kHttp11", "/c"), Blank>>

NotFound ==
  <<Get("kHttp11", "/a"), Blank, Get("kHttp11", "/none"), Blank,
    Get("kHttp11", "/c"), Blank>>

UnknownMethod ==
  <<Get("kHttp11", "/a"), Blank, Request("kInvalid", "kHttp11", "/b"), Blank,
    Get("kHttp11", "/c"), Blank>>

UnknownVersion ==
  <<Get("kHttp11", "/a"), Blank, Get("kUnknown", "/b"), Blank,
    Get("kHttp11", "/c"), Blank>>

NoColon == <<Get("kHttp11", "/a"), Text, Host, Blank>>

(* The second reply fills the capacity the first one made, and the third   *)
(* finds none.                                                             *)
Kept ==
  <<Get("kHttp11", "/a"), Blank, Get("kHttp11", "/b"), Blank,
    Get("kHttp10", "/c"), Blank>>

(* A body in pieces and one that is empty.                                 *)
AllPages == [path \in {"/a", "/b", "/c"} |-> IF path = "/b" THEN 0 ELSE 4]

AllStreams ==
  {OneRequest, KeepThenClose, NotFound, UnknownMethod, UnknownVersion, NoColon,
   Kept}
=============================================================================
