------------------------------ MODULE MCPipeline ------------------------------
(* A small instance of Pipeline: an asset, the upload path, and requests of every *)
(* kind the routes and the authentication tell apart.                         *)
EXTENDS Pipeline

CONSTANTS r1, r2

UploadBytes == <<Slash, 117>>
AssetBytes == <<<<Slash, 115>>, <<Slash, 117, 46>>>>

Ask(method, path, credentials) == [method |-> method, path |-> path, credentials |-> credentials]

AllInputs ==
    {Ask("GET", Root, "none"), Ask("GET", <<Slash, 117, 46>>, "none"), Ask("GET", <<Star>>, "none"),
     Ask("POST", Root, "right")}
    \cup {Ask("POST", UploadBytes, c) : c \in Credentials}
    \cup {Ask("OPTIONS", UploadBytes, c) : c \in {"right", "none", "no colon"}}
    \cup {Ask("OPTIONS", Root, "right"), Ask("HEAD", <<Slash, 120>>, "right"),
          Ask("HEAD", Root, "none")}
=============================================================================
