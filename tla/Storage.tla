------------------------------- MODULE Storage -------------------------------
(* The S3 service as package goamz/s3 sees it, external to this repository:    *)
(* PutReader sends one PUT on a connection of its own (Close: true, so neither  *)
(* goamz nor net/http sends it again), and http.DefaultClient has no timeout.  *)
(* A PUT can be stored or dropped at any time after it was sent, also after its *)
(* sender gave up or died.  S3 stores whole bodies only: Content-Length is sent *)
(* first.  Bucket names are the ones S3.Bucket yields (lowercased where the     *)
(* region asks for it).                                                       *)

VARIABLES
    wire,     \* the PUTs that are under way
    objects,  \* the objects in all buckets: the last PUT stored at each address
    stored    \* history: every PUT ever stored

storage == <<wire, objects, stored>>

Address(put) == <<put.bucket, put.key>>

StorageInit ==
    /\ wire = {}
    /\ objects = {}
    /\ stored = {}

(* PutReader: prepare and start to run the request. *)
Send(put) ==
    /\ wire' = wire \cup {put}
    /\ UNCHANGED <<objects, stored>>

(* S3 takes the whole body and replaces what was at the address. *)
Store(put) ==
    /\ put \in wire
    /\ put.whole
    /\ wire' = wire \ {put}
    /\ objects' = {o \in objects : Address(o) # Address(put)} \cup {put}
    /\ stored' = stored \cup {put}

(* The request is refused, or the connection breaks before the body is through. *)
Drop(put) ==
    /\ put \in wire
    /\ wire' = wire \ {put}
    /\ UNCHANGED <<objects, stored>>
=============================================================================
