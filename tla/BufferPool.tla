------------------------------ MODULE BufferPool ------------------------------
(* Requests for the index page rendering through the shared pool of buffers:    *)
(* Index, renderTemplate, and Get and Put of bpool.BufferPool, whose channel is *)
(* the sequence "pool".  A buffer is named after the request that allocated it  *)
(* (a request allocates at most one); its content is abstracted to the set of   *)
(* requests whose page, or a part of it, is in it.                            *)
EXTENDS Naturals, Sequences, FiniteSets

CONSTANTS
    Requests,  \* the requests for the index page
    Size,      \* the capacity of the channel, NewBufferPool(20)
    NoBuffer

ASSUME SizeAssumption == Size \in Nat
ASSUME NoBufferAssumption == NoBuffer \notin Requests

VARIABLES
    pool,     \* bp.c
    content,  \* what each buffer holds
    pc,       \* where the request is in renderTemplate
    buf,      \* the buffer the request holds, NoBuffer without one
    page      \* what the client was sent

vars == <<pool, content, pc, buf, page>>

Holding == {"execute", "write", "put"}

Init ==
    /\ pool = <<>>
    /\ content = [b \in Requests |-> {}]
    /\ pc = [r \in Requests |-> "idle"]
    /\ buf = [r \in Requests |-> NoBuffer]
    /\ page = [r \in Requests |-> {}]

Goto(r, step) == pc' = [pc EXCEPT ![r] = step]

Hold(r, b) == buf' = [buf EXCEPT ![r] = b]

(* A request arrives and Get finds a buffer in the channel ... *)
GetPooled(r) ==
    /\ pc[r] = "idle"
    /\ pool # <<>>
    /\ Hold(r, Head(pool))
    /\ pool' = Tail(pool)
    /\ Goto(r, "execute")
    /\ UNCHANGED <<content, page>>

(* ... or the channel is empty, and it makes one. *)
GetNew(r) ==
    /\ pc[r] = "idle"
    /\ pool = <<>>
    /\ Hold(r, r)
    /\ Goto(r, "execute")
    /\ UNCHANGED <<pool, content, page>>

(* ExecuteTemplate appends the page to the buffer, or a part of it and fails;   *)
(* then nothing is written to the client.                                     *)
Execute(r) ==
    /\ pc[r] = "execute"
    /\ content' = [content EXCEPT ![buf[r]] = @ \cup {r}]
    /\ \/ Goto(r, "write")
       \/ Goto(r, "put")
    /\ UNCHANGED <<pool, buf, page>>

(* buf.WriteTo(w) sends what the buffer holds and drains it; a client that goes *)
(* away leaves the rest in the buffer.                                        *)
Write(r) ==
    /\ pc[r] = "write"
    /\ page' = [page EXCEPT ![r] = content[buf[r]]]
    /\ \/ content' = [content EXCEPT ![buf[r]] = {}]
       \/ UNCHANGED content
    /\ Goto(r, "put")
    /\ UNCHANGED <<pool, buf>>

\* Wrong: the channel takes any number of buffers.
PutUnbounded(r) ==
    /\ pc[r] = "put"
    /\ content' = [content EXCEPT ![buf[r]] = {}]
    /\ pool' = Append(pool, buf[r])
    /\ buf' = [buf EXCEPT ![r] = NoBuffer]
    /\ Goto(r, "done")
    /\ UNCHANGED page

\* Wrong: the buffer is put back once more by hand.
PutTwice(r) ==
    /\ pc[r] = "put"
    /\ Len(pool) + 1 < Size
    /\ content' = [content EXCEPT ![buf[r]] = {}]
    /\ pool' = pool \o <<buf[r], buf[r]>>
    /\ buf' = [buf EXCEPT ![r] = NoBuffer]
    /\ Goto(r, "done")
    /\ UNCHANGED page

\* Wrong: no Reset.
PutUnreset(r) ==
    /\ pc[r] = "put"
    /\ Len(pool) < Size
    /\ pool' = Append(pool, buf[r])
    /\ buf' = [buf EXCEPT ![r] = NoBuffer]
    /\ Goto(r, "done")
    /\ UNCHANGED <<content, page>>

\* Wrong: the last slot is never used.
PutOneShort(r) ==
    /\ pc[r] = "put"
    /\ Len(pool) + 1 < Size
    /\ content' = [content EXCEPT ![buf[r]] = {}]
    /\ pool' = Append(pool, buf[r])
    /\ buf' = [buf EXCEPT ![r] = NoBuffer]
    /\ Goto(r, "done")
    /\ UNCHANGED page

(* The deferred Put: reset the buffer, then send it into the channel, which     *)
(* waits for room.                                                            *)
Put(r) ==
    /\ pc[r] = "put"
    /\ Len(pool) < Size
    /\ content' = [content EXCEPT ![buf[r]] = {}]
    /\ pool' = Append(pool, buf[r])
    /\ buf' = [buf EXCEPT ![r] = NoBuffer]
    /\ Goto(r, "done")
    /\ UNCHANGED page

Render(r) == Execute(r) \/ Write(r) \/ Put(r)

Next == \E r \in Requests : GetPooled(r) \/ GetNew(r) \/ Render(r)

(* Goroutines that can run do, and clients read what they are sent; nothing     *)
(* makes a request arrive.                                                    *)
Spec == Init /\ [][Next]_vars /\ \A r \in Requests : WF_vars(Render(r))

-----------------------------------------------------------------------------
(* Properties.                                                                *)

\* The shape of the variables of templates.go:58-78 and bufferpool.go:28-45.
TypeOK ==
    /\ pool \in Seq(Requests)
    /\ Len(pool) <= Size
    /\ content \in [Requests -> SUBSET Requests]
    /\ pc \in [Requests -> Holding \cup {"idle", "done"}]
    /\ buf \in [Requests -> Requests \cup {NoBuffer}]
    /\ page \in [Requests -> SUBSET Requests]

\* A buffer is in one place: with one request, or once in the channel, so no two
\* renders ever write into the same one (the deferred Put of templates.go:67 is
\* the last use of the buffer).
BufferExclusive ==
    /\ \A r, s \in Requests : buf[r] = buf[s] /\ buf[r] # NoBuffer => r = s
    /\ \A i \in 1..Len(pool) : \A r \in Requests : pool[i] # buf[r]
    /\ \A i, j \in 1..Len(pool) : pool[i] = pool[j] => i = j

\* A client is sent its own page and nothing left over in the buffer by a render
\* that failed or by a client that went away (bufferpool.go:43).
OwnPage == \A r \in Requests : page[r] \subseteq {r}

\* A render that has begun ends: "leaky pools" (bpool.go:2) says that a full one
\* drops the buffer.  (The code waits for room instead, at bufferpool.go:44.)
RendersEnd == \A r \in Requests : pc[r] \in Holding ~> pc[r] = "done"

\* What does hold: renders end as long as there are never more of them at once than
\* slots, however many requests have reused the buffers before, because Get makes
\* a new buffer only if all that exist are in use (bufferpool.go:28-37).
UncrowdedRendersEnd ==
    [](Cardinality({r \in Requests : pc[r] \in Holding}) <= Size)
    => \A r \in Requests : pc[r] \in Holding ~> pc[r] = "done"

-----------------------------------------------------------------------------
(* The inductive invariant behind BufferExclusive and OwnPage.                 *)

RequestInv(r) ==
    /\ buf[r] # NoBuffer <=> pc[r] \in Holding
    /\ pc[r] = "execute" => content[buf[r]] = {}
    /\ pc[r] = "write" => content[buf[r]] = {r}
    \* a buffer that was never allocated is nowhere
    /\ pc[r] = "idle" => /\ content[r] = {}
                         /\ \A s \in Requests : buf[s] # r
                         /\ \A i \in 1..Len(pool) : pool[i] # r

PoolInv ==
    /\ TypeOK
    /\ BufferExclusive
    /\ OwnPage
    /\ \A r \in Requests : RequestInv(r)
    /\ \A i \in 1..Len(pool) : content[pool[i]] = {}
=============================================================================
