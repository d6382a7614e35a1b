------------------------------- MODULE Pipeline -------------------------------
(* What happens to a request around its handler: the outer mux that main builds, *)
(* with its middleware (request id, log, recover, automatic OPTIONS, injection), *)
(* the inner mux behind authentication, and their pools of middleware stacks.   *)
(* Requests run concurrently; a stack closes over one context C, so it must not  *)
(* be used by two of them.  A stack is named after the request it was built for, *)
(* and an Env map after the request that made it.                             *)
EXTENDS Routes

CONSTANTS
    Requests,
    Inputs,      \* what a client can ask: method, path, credentials
    Assets,      \* the paths of the static assets, in the order of AssetDescriptors
    UploadPath,  \* "/upload"
    Nobody

ASSUME NobodyAssumption == Nobody \notin Requests
\* A path that is no pattern, as "/" and the name of a file is none.
IsLiteral(path) == path # <<>> /\ path[1] = Slash /\ \A i \in DOMAIN path : path[i] \notin {Colon, Star}

ASSUME AssetsAssumption ==
    /\ Assets \in Seq(Seq(Nat)) /\ UploadPath \in Seq(Nat)
    /\ \A path \in Range(Assets) \cup {UploadPath} : IsLiteral(path)

Credentials == {"none", "undecodable", "no colon", "wrong", "right"}

ASSUME InputsAssumption ==
    \A in \in Inputs : /\ in.method \in Methods
                       /\ in.path \in Seq(Nat)
                       /\ in.credentials \in Credentials

VARIABLES
    pc,       \* where the request is
    input,
    outer,    \* the stack of the outer mux the request runs through
    inner,    \* the one of the inner mux
    outerC,   \* C.Env of each stack of the outer mux: the map's name
    innerC,
    pools,    \* the idle stacks of both muxes
    env,      \* the Env maps: request id, injected?, valid methods
    reqid,    \* the counter of request ids
    writer,   \* the response: the basicWriter and what net/http made of its calls
    proxy,    \* autoOptionsProxy.state, "off" if the method is another
    ran,      \* history: the handlers that ran, and the map they were given
    logged    \* history: the line "request finished"

vars == <<pc, input, outer, inner, outerC, innerC, pools, env, reqid, writer, proxy, ran, logged>>

-----------------------------------------------------------------------------
(* The routes of main.                                                        *)

Root == <<Slash>>

OuterRoutes ==
    <<Get(Root, "index")>> \o [i \in DOMAIN Assets |-> Get(Assets[i], "asset")]
    \o <<Handle(<<Slash, Star>>, "inner")>>

InnerRoutes == <<Post(UploadPath, "upload")>>

-----------------------------------------------------------------------------
(* The response.                                                              *)

\* wrote, code and bytes are the basicWriter's; sent, body and allow are what net/http sends,
\* as long as the connection is not broken.
NoWriter == [wrote |-> FALSE, code |-> 0, bytes |-> 0,
             sent |-> 0, body |-> <<>>, allow |-> {}, broken |-> FALSE]

\* basicWriter.WriteHeader passes the first status on; net/http takes one only.
WriteHeader(w, code) ==
    IF w.wrote THEN w
    ELSE [w EXCEPT !.wrote = TRUE, !.code = code, !.sent = IF @ = 0 THEN code ELSE @]

maybeWriteHeader(w) == WriteHeader(w, 200)

(* basicWriter.Write counts the piece before it is written; net/http sends none   *)
(* of it if the request is a HEAD, or if the connection breaks.                *)
Write(w, method, piece, breaks) ==
    LET v == maybeWriteHeader(w)
        broken == v.broken \/ breaks
    IN  [v EXCEPT !.bytes = @ + 1,
                  !.broken = broken,
                  !.body = IF broken \/ method = "HEAD" THEN @ ELSE Append(@, piece)]

\* getValidMethods, {} for nil.
ValidMethods(r) == IF outerC[outer[r]] = Nobody THEN {} ELSE env[outerC[outer[r]]].methods

(* WriteHeader of what a handler writes to: the 404 of an OPTIONS request for a   *)
(* path with methods becomes a 200 that lists them.                           *)
Proxies(r, code) == proxy[r] = "init" /\ ValidMethods(r) # {} /\ code = 404

\* A handler that answers with a status and one piece of body.
Answer(r, code, piece) ==
    IF Proxies(r, code)
    THEN /\ writer' = [writer EXCEPT ![r] =
                          [WriteHeader(@, 200) EXCEPT !.allow = ValidMethods(r) \cup {"OPTIONS"}]]
         /\ proxy' = [proxy EXCEPT ![r] = "proxying"]
    ELSE /\ \E breaks \in BOOLEAN :
                writer' = [writer EXCEPT ![r] =
                              Write(WriteHeader(@, code), input[r].method, piece, breaks)]
         /\ proxy' = [proxy EXCEPT ![r] = IF @ = "init" THEN "header written" ELSE @]

-----------------------------------------------------------------------------
(* The way in.                                                                *)

NoInput == [method |-> "GET", path |-> <<>>, credentials |-> "none"]
NoEnv == [id |-> 0, injected |-> FALSE, methods |-> {}]
NotRun == [handler |-> "none", env |-> Nobody]
NotLogged == [id |-> 0, status |-> 0, size |-> 0]

Init ==
    /\ pc = [r \in Requests |-> "idle"]
    /\ input = [r \in Requests |-> NoInput]
    /\ outer = [r \in Requests |-> Nobody]
    /\ inner = [r \in Requests |-> Nobody]
    /\ outerC = [s \in Requests |-> Nobody]
    /\ innerC = [s \in Requests |-> Nobody]
    /\ pools = [outer |-> {}, inner |-> {}]
    /\ env = [r \in Requests |-> NoEnv]
    /\ reqid = 0
    /\ writer = [r \in Requests |-> NoWriter]
    /\ proxy = [r \in Requests |-> "off"]
    /\ ran = [r \in Requests |-> NotRun]
    /\ logged = [r \in Requests |-> NotLogged]

Goto(r, step) == pc' = [pc EXCEPT ![r] = step]

\* mStack.alloc: a stack of the pool, or a new one; sync.Pool may always say it is
\* empty.
Allocatable(r, pool) == pool \cup {r}

\* Wrong: the stack stays in the pool while it is in use.
BeginShared(r) ==
    /\ pc[r] = "idle"
    /\ \E in \in Inputs : input' = [input EXCEPT ![r] = in]
    /\ \E s \in Allocatable(r, pools.outer) :
          /\ outer' = [outer EXCEPT ![r] = s]
          /\ outerC' = [outerC EXCEPT ![s] = Nobody]
          /\ pools' = [pools EXCEPT !.outer = @ \cup {s}]
    /\ Goto(r, "identify")
    /\ UNCHANGED <<inner, innerC, env, reqid, writer, proxy, ran, logged>>

(* Mux.ServeHTTP: take a stack and clear its context. *)
Begin(r) ==
    /\ pc[r] = "idle"
    /\ \E in \in Inputs : input' = [input EXCEPT ![r] = in]
    /\ \E s \in Allocatable(r, pools.outer) :
          /\ outer' = [outer EXCEPT ![r] = s]
          /\ outerC' = [outerC EXCEPT ![s] = Nobody]
          /\ pools' = [pools EXCEPT !.outer = @ \ {s}]
    /\ Goto(r, "identify")
    /\ UNCHANGED <<inner, innerC, env, reqid, writer, proxy, ran, logged>>

(* RequestID, the first line of the log with the wrapping of the writer, the     *)
(* deferred recover, and AutomaticOptions.                                    *)
Identify(r) ==
    /\ pc[r] = "identify"
    /\ reqid' = reqid + 1
    /\ LET map == IF outerC[outer[r]] = Nobody THEN r ELSE outerC[outer[r]]
       IN  /\ outerC' = [outerC EXCEPT ![outer[r]] = map]
           /\ env' = [env EXCEPT ![map].id = reqid + 1]
    /\ proxy' = [proxy EXCEPT ![r] = IF input[r].method = "OPTIONS" THEN "init" ELSE "off"]
    /\ Goto(r, "inject")
    /\ UNCHANGED <<input, outer, inner, innerC, pools, writer, ran, logged>>

(* The function main adds last: client and config. *)
Inject(r) ==
    /\ pc[r] = "inject"
    /\ env' = [env EXCEPT ![outerC[outer[r]]].injected = TRUE]
    /\ Goto(r, "route")
    /\ UNCHANGED <<input, outer, inner, outerC, innerC, pools, reqid, writer, proxy, ran, logged>>

\* The router leaves the methods of the routes that match the path in the context.
Note(map, found) ==
    env' = [env EXCEPT ![map].methods = IF found.methods = {} THEN @ ELSE found.methods]

(* router.route of the outer mux. *)
RouteOuter(r) ==
    /\ pc[r] = "route"
    /\ LET found == FirstMatch(OuterRoutes, input[r].path, input[r].method)
       IN  /\ Goto(r, IF found.route = NoRoute THEN "not found"
                      ELSE OuterRoutes[found.route].handler)
           /\ Note(outerC[outer[r]], found)
    /\ UNCHANGED <<input, outer, inner, outerC, innerC, pools, reqid, writer, proxy, ran, logged>>

(* Mux.ServeHTTPC of the inner mux: its context is a copy, with the same Env. *)
EnterInner(r) ==
    /\ pc[r] = "inner"
    /\ \E s \in Allocatable(r, pools.inner) :
          /\ inner' = [inner EXCEPT ![r] = s]
          /\ innerC' = [innerC EXCEPT ![s] = outerC[outer[r]]]
          /\ pools' = [pools EXCEPT !.inner = @ \ {s}]
    /\ Goto(r, "authenticate")
    /\ UNCHANGED <<input, outer, outerC, env, reqid, writer, proxy, ran, logged>>

\* Wrong: any decodable credentials do.
AuthenticateAny(r) ==
    /\ pc[r] = "authenticate"
    /\ input[r].credentials \in {"right", "wrong"}
    /\ Goto(r, "route inner")
    /\ UNCHANGED <<input, outer, inner, outerC, innerC, pools, env, reqid, writer, proxy, ran, logged>>

(* basicAuth.ServeHTTP: go on, or 401; credentials without a colon are indexed    *)
(* out of range before their number is checked.                               *)
Authenticate(r) ==
    /\ pc[r] = "authenticate"
    /\ \/ /\ input[r].credentials = "right"
          /\ Goto(r, "route inner")
          /\ UNCHANGED <<writer, proxy>>
       \/ /\ input[r].credentials = "no colon"
          /\ Goto(r, "panic")
          /\ UNCHANGED <<writer, proxy>>
       \/ /\ input[r].credentials \in {"none", "undecodable", "wrong"}
          /\ Answer(r, 401, "unauthorized")
          /\ Goto(r, "leave inner")
    /\ UNCHANGED <<input, outer, inner, outerC, innerC, pools, env, reqid, ran, logged>>

(* router.route of the inner mux, which notes the methods that would have matched. *)
RouteInner(r) ==
    /\ pc[r] = "route inner"
    /\ LET found == FirstMatch(InnerRoutes, input[r].path, input[r].method)
       IN  IF found.route # NoRoute
           THEN Goto(r, InnerRoutes[found.route].handler) /\ UNCHANGED env
           ELSE /\ Goto(r, "not found")
                /\ Note(innerC[inner[r]], found)
    /\ UNCHANGED <<input, outer, inner, outerC, innerC, pools, reqid, writer, proxy, ran, logged>>

-----------------------------------------------------------------------------
(* The handlers.                                                              *)

\* Where a request goes from a handler.
Leave(r) == Goto(r, IF inner[r] = Nobody THEN "finish" ELSE "leave inner")

\* The map a handler is given with its copy of C.
Given(r) == IF inner[r] = Nobody THEN outerC[outer[r]] ELSE innerC[inner[r]]

Runs(r, handler) == ran' = [ran EXCEPT ![r] = [handler |-> handler, env |-> Given(r)]]

(* http.NotFound *)
ServeNotFound(r) ==
    /\ pc[r] = "not found"
    /\ Answer(r, 404, "not found")
    /\ Leave(r)
    /\ UNCHANGED <<input, outer, inner, outerC, innerC, pools, env, reqid, ran, logged>>

(* Index: a template that fails leaves the response empty. *)
ServeIndex(r) ==
    /\ pc[r] = "index"
    /\ Runs(r, "index")
    /\ IF ~env[Given(r)].injected THEN Goto(r, "panic") /\ UNCHANGED <<writer, proxy>>
       ELSE /\ Leave(r)
            /\ \/ Answer(r, 200, "page")
               \/ UNCHANGED <<writer, proxy>>
    /\ UNCHANGED <<input, outer, inner, outerC, innerC, pools, env, reqid, logged>>

(* ServeAsset *)
ServeAsset(r) ==
    /\ pc[r] = "asset"
    /\ Runs(r, "asset")
    /\ Answer(r, 200, "asset")
    /\ Leave(r)
    /\ UNCHANGED <<input, outer, inner, outerC, innerC, pools, env, reqid, logged>>

(* Upload, as module Upload has it: an answer in JSON, or a panic before one. *)
ServeUpload(r) ==
    /\ pc[r] = "upload"
    /\ Runs(r, "upload")
    /\ \/ Goto(r, "panic") /\ UNCHANGED <<writer, proxy>>
       \/ /\ env[Given(r)].injected
          /\ \E code \in {200, 400, 500} : Answer(r, code, "json")
          /\ Leave(r)
    /\ UNCHANGED <<input, outer, inner, outerC, innerC, pools, env, reqid, logged>>

-----------------------------------------------------------------------------
(* The way out.                                                               *)

(* mStack.release: clear the context and give the stack back. *)
LeaveInner(r) ==
    /\ pc[r] = "leave inner"
    /\ innerC' = [innerC EXCEPT ![inner[r]] = Nobody]
    /\ pools' = [pools EXCEPT !.inner = @ \cup {inner[r]}]
    /\ inner' = [inner EXCEPT ![r] = Nobody]
    /\ Goto(r, "finish")
    /\ UNCHANGED <<input, outer, outerC, env, reqid, writer, proxy, ran, logged>>

\* The 500 goes to the writer outside of the OPTIONS proxy.
AnswerPanic(r) ==
    \E breaks \in BOOLEAN :
        writer' = [writer EXCEPT ![r] =
                      Write(WriteHeader(@, 500), input[r].method, "internal server error", breaks)]

\* Wrong: the panic is logged and the client left with what there is.
RecoverSilently(r) ==
    /\ pc[r] = "panic"
    /\ inner' = [inner EXCEPT ![r] = Nobody]
    /\ Goto(r, "finish")
    /\ UNCHANGED <<input, outer, outerC, innerC, pools, env, reqid, writer, proxy, ran, logged>>

\* Wrong: only panics of the outer mux's own handlers are recovered.
RecoverOuter(r) ==
    /\ pc[r] = "panic" /\ inner[r] = Nobody
    /\ AnswerPanic(r)
    /\ inner' = [inner EXCEPT ![r] = Nobody]
    /\ Goto(r, "finish")
    /\ UNCHANGED <<input, outer, outerC, innerC, pools, env, reqid, proxy, ran, logged>>

(* recoverMiddleware: the panic passed the release of the inner stack, which is   *)
(* lost.                                                                      *)
Recover(r) ==
    /\ pc[r] = "panic"
    /\ AnswerPanic(r)
    /\ inner' = [inner EXCEPT ![r] = Nobody]
    /\ Goto(r, "finish")
    /\ UNCHANGED <<input, outer, outerC, innerC, pools, env, reqid, proxy, ran, logged>>

\* Wrong: the status is taken before there is one.
FinishUnwritten(r) ==
    /\ pc[r] = "finish"
    /\ logged' = [logged EXCEPT ![r] = [id |-> env[outerC[outer[r]]].id,
                                        status |-> writer[r].code, size |-> writer[r].bytes]]
    /\ writer' = [writer EXCEPT ![r] = maybeWriteHeader(@)]
    /\ Goto(r, "release")
    /\ UNCHANGED <<input, outer, inner, outerC, innerC, pools, env, reqid, proxy, ran>>

(* The second half of logMiddleware. *)
Finish(r) ==
    /\ pc[r] = "finish"
    /\ LET w == maybeWriteHeader(writer[r])
       IN  /\ writer' = [writer EXCEPT ![r] = w]
           /\ logged' = [logged EXCEPT ![r] = [id |-> env[outerC[outer[r]]].id,
                                               status |-> w.code, size |-> w.bytes]]
    /\ Goto(r, "release")
    /\ UNCHANGED <<input, outer, inner, outerC, innerC, pools, env, reqid, proxy, ran>>

\* Wrong: the stack of the other mux is given back.
ReleaseInner(r) ==
    /\ pc[r] = "release"
    /\ outerC' = [outerC EXCEPT ![outer[r]] = Nobody]
    /\ pools' = [pools EXCEPT !.outer = @ \cup {inner[r]}]
    /\ outer' = [outer EXCEPT ![r] = Nobody]
    /\ Goto(r, "done")
    /\ UNCHANGED <<input, inner, innerC, env, reqid, writer, proxy, ran, logged>>

(* mStack.release of the outer mux. *)
Release(r) ==
    /\ pc[r] = "release"
    /\ outerC' = [outerC EXCEPT ![outer[r]] = Nobody]
    /\ pools' = [pools EXCEPT !.outer = @ \cup {outer[r]}]
    /\ outer' = [outer EXCEPT ![r] = Nobody]
    /\ Goto(r, "done")
    /\ UNCHANGED <<input, inner, innerC, env, reqid, writer, proxy, ran, logged>>

\* What the muxes and the middleware do: it waits for nobody, as the few bytes they write stay in
\* the buffer of net/http.
Serve(r) ==
    \/ Identify(r) \/ Inject(r) \/ RouteOuter(r)
    \/ EnterInner(r) \/ Authenticate(r) \/ RouteInner(r)
    \/ ServeNotFound(r)
    \/ LeaveInner(r) \/ Recover(r) \/ Finish(r) \/ Release(r)

\* What a handler does, which may wait for its client, for S3 or for room in the pool of buffers.
RunHandler(r) == ServeIndex(r) \/ ServeAsset(r) \/ ServeUpload(r)

Next == \E r \in Requests : Begin(r) \/ Serve(r) \/ RunHandler(r)

(* Goroutines run.  Nothing makes a client send a request, and nothing bounds the  *)
(* time of a handler: graceful.Run sets no timeout, nor does the client of S3.    *)
Spec == Init /\ [][Next]_vars /\ \A r \in Requests : WF_vars(Serve(r))

-----------------------------------------------------------------------------
(* Properties.                                                                *)

Steps == {"idle", "identify", "inject", "route", "inner", "authenticate", "route inner",
          "not found", "index", "asset", "upload", "panic", "leave inner", "finish",
          "release", "done"}

Envs == [id : Nat, injected : BOOLEAN, methods : SUBSET AllMethods]
Pieces == {"unauthorized", "not found", "page", "asset", "json", "internal server error"}
Codes == {0, 200, 400, 401, 404, 500}
Writers == [wrote : BOOLEAN, code : Codes, bytes : Nat, sent : Codes, body : Seq(Pieces),
            allow : SUBSET AllMethods, broken : BOOLEAN]

\* The type invariant of mux, middleware and response.
TypeOK ==
    /\ pc \in [Requests -> Steps]
    /\ input \in [Requests -> Inputs \cup {NoInput}]
    /\ outer \in [Requests -> Requests \cup {Nobody}]
    /\ inner \in [Requests -> Requests \cup {Nobody}]
    /\ outerC \in [Requests -> Requests \cup {Nobody}]
    /\ innerC \in [Requests -> Requests \cup {Nobody}]
    /\ pools \in [outer : SUBSET Requests, inner : SUBSET Requests]
    /\ env \in [Requests -> Envs]
    /\ reqid \in Nat
    /\ writer \in [Requests -> Writers]
    /\ proxy \in [Requests -> {"off", "init", "header written", "proxying"}]
    /\ ran \in [Requests -> [handler : {"none", "index", "asset", "upload"},
                             env : Requests \cup {Nobody}]]
    /\ logged \in [Requests -> [id : Nat, status : Codes, size : Nat]]

BeforeIdentified == {"idle", "identify", "done"}
Identified(r) == pc[r] \notin BeforeIdentified

(* A middleware reads and writes the environment of the request it serves and of  *)
(* no other: requests reuse stacks (cpool.go), and a stack holds one context.    *)
OwnEnvironment ==
    \A r \in Requests :
        /\ Identified(r) => outerC[outer[r]] = r
        /\ inner[r] # Nobody => innerC[inner[r]] = r
        /\ ran[r].handler # "none" => ran[r].env = r

\* The request may upload.
Authorized(r) ==
    /\ input[r].credentials = "right"
    /\ input[r].method = "POST"
    /\ Matches(parseStringPattern(UploadPath), input[r].path)

(* "Preventing unauthorized clients from uploading files": a request whose upload *)
(* handler ran was a POST for the upload path with the right credentials.        *)
UploadIsAuthorized == \A r \in Requests : ran[r].handler = "upload" => Authorized(r)

\* The client gets no body, whatever is written: it asked for none, or the connection broke.
Bodiless(r) == input[r].method = "HEAD" \/ writer[r].broken

(* The line "request finished" has a status, and the one net/http was given to    *)
(* send, also if no handler set any; its size is that of the body the client was  *)
(* sent, or more where the client gets none; and its id is no other request's.    *)
LoggedIsSent ==
    \A r \in Requests : pc[r] \in {"release", "done"} =>
        /\ logged[r].status = writer[r].sent /\ logged[r].status # 0
        /\ IF Bodiless(r) THEN logged[r].size >= Len(writer[r].body)
           ELSE logged[r].size = Len(writer[r].body)
        /\ \A q \in Requests \ {r} : pc[q] \in {"release", "done"} =>
               logged[q].id # logged[r].id

\* What a client is sent: status, body, and the methods of the header Allow.
Sent(code, body, allow) == [code |-> code, body |-> body, allow |-> allow]

ErrorPage == Sent(500, <<"internal server error">>, {})

\* The answers a request may be given, by what it asks.
Reads(in) == in.method \in {"GET", "HEAD"}

Promised(in) ==
    IF Reads(in) /\ in.path = Root THEN {Sent(200, <<"page">>, {}), Sent(200, <<>>, {})}
    ELSE IF Reads(in) /\ in.path \in Range(Assets) THEN {Sent(200, <<"asset">>, {})}
    ELSE IF ~IsPrefix(Root, in.path) THEN {Sent(404, <<"not found">>, {})}
    ELSE IF in.credentials = "no colon" THEN {ErrorPage}
    ELSE IF in.credentials # "right" THEN {Sent(401, <<"unauthorized">>, {})}
    ELSE IF in.path = UploadPath /\ in.method = "POST"
    THEN {Sent(code, <<"json">>, {}) : code \in {200, 400, 500}} \cup {ErrorPage}
    ELSE IF in.path = UploadPath /\ in.method = "OPTIONS" THEN {Sent(200, <<>>, {"POST", "OPTIONS"})}
    ELSE {Sent(404, <<"not found">>, {})}

\* What is left of an answer where the client gets no body.
Reaching(answer, bodiless) == IF bodiless THEN [answer EXCEPT !.body = <<>>] ELSE answer

\* Writer w sends what a request that asks for in was promised.
AsPromised(w, in) ==
    \E answer \in Promised(in) :
        Sent(w.sent, w.body, w.allow) = Reaching(answer, in.method = "HEAD" \/ w.broken)

(* Every request that ends was sent one of the answers promised for it, without   *)
(* its body for HEAD or where the connection broke, whatever other requests ran   *)
(* beside it: panics are answered, OPTIONS lists the methods of the path it asks   *)
(* for, and paths are not confused.                                           *)
AnswersAsPromised == \A r \in Requests : pc[r] = "done" => AsPromised(writer[r], input[r])

InHandler(r) == pc[r] \in {"index", "asset", "upload"}

(* A request that was begun is answered and logged, also one that panics in a      *)
(* middleware or a handler, if its handler does not stay for ever.              *)
RequestsEnd ==
    \A r \in Requests : []<>~InHandler(r) => (pc[r] = "identify" ~> pc[r] = "done")

-----------------------------------------------------------------------------
(* The inductive invariant behind them.                                       *)

Started(r) == pc[r] \notin {"idle", "done"}
BeforeInner == {"idle", "identify", "inject", "route", "inner"}
WithInner == {"authenticate", "route inner", "upload", "leave inner"}

\* Stacks in use are not idle, and no two requests use the same.
StacksExclusive ==
    /\ \A r \in Requests : Started(r) <=> outer[r] # Nobody
    /\ \A r, q \in Requests : outer[r] = outer[q] /\ outer[r] # Nobody => r = q
    /\ \A r, q \in Requests : inner[r] = inner[q] /\ inner[r] # Nobody => r = q
    /\ \A r \in Requests : outer[r] \notin pools.outer /\ inner[r] \notin pools.inner

\* A stack that bears the name of a request exists after that request needed one.
StacksToBuild ==
    /\ \A r \in Requests : pc[r] = "idle" =>
           r \notin pools.outer /\ \A q \in Requests : outer[q] # r
    /\ \A r \in Requests : pc[r] \in BeforeInner =>
           r \notin pools.inner /\ \A q \in Requests : inner[q] # r

\* A request begins with a context that was cleared.
ContextCleared == \A r \in Requests : pc[r] = "identify" => outerC[outer[r]] = Nobody

InnerInv(r) ==
    /\ pc[r] \in WithInner => inner[r] # Nobody
    /\ inner[r] # Nobody => pc[r] \in WithInner \cup {"not found", "panic"}

AuthorizationInv(r) ==
    /\ pc[r] \in {"idle", "identify"} => ran[r] = NotRun
    /\ pc[r] = "route inner" => input[r].credentials = "right"
    /\ pc[r] = "upload" => Authorized(r)

HasId(r) == pc[r] \notin {"idle", "identify"}

\* What the basicWriter believes is what it passed on, and what is sent if the client gets a body.
WriterInv(w, method) ==
    /\ w.wrote => w.code = w.sent /\ w.sent # 0
    /\ ~w.wrote => w.sent = 0
    /\ w.bytes >= Len(w.body)
    /\ ~w.broken /\ method # "HEAD" => w.bytes = Len(w.body)

LogInv ==
    /\ \A r \in Requests : WriterInv(writer[r], input[r].method)
    /\ \A r \in Requests : pc[r] = "idle" => writer[r] = NoWriter
    /\ \A r \in Requests : HasId(r) => env[r].id <= reqid
    /\ \A r, q \in Requests : HasId(r) /\ HasId(q) /\ env[r].id = env[q].id => r = q
    /\ \A r \in Requests : pc[r] \in {"release", "done"} =>
           /\ logged[r].id = env[r].id
           /\ writer[r].wrote
           /\ logged[r].status = writer[r].code /\ logged[r].size = writer[r].bytes

\* Where the outer mux and the inner one send a request.
OuterHandler(in) ==
    IF Reads(in) /\ in.path = Root THEN "index"
    ELSE IF Reads(in) /\ in.path \in Range(Assets) THEN "asset"
    ELSE IF IsPrefix(Root, in.path) THEN "inner"
    ELSE "not found"

Uploads(in) == in.path = UploadPath /\ in.method = "POST"

\* The methods that the muxes leave for the automatic OPTIONS of a request not found.
NotedMethods(in) == IF OuterHandler(in) = "inner" /\ in.path = UploadPath THEN {"POST"} ELSE {}

\* A request is on the way that its method, path and credentials tell.
RouteInv(r) ==
    LET in == input[r]
    IN  /\ pc[r] # "idle" => in \in Inputs
        /\ pc[r] \in {"index", "asset"} => OuterHandler(in) = pc[r]
        /\ pc[r] \in {"inner", "authenticate", "route inner", "upload"} => OuterHandler(in) = "inner"
        /\ pc[r] = "upload" => Uploads(in)
        /\ pc[r] \in {"route inner", "upload"} => in.credentials = "right"
        /\ pc[r] = "not found" => \/ OuterHandler(in) = "not found"
                                  \/ OuterHandler(in) = "inner" /\ ~Uploads(in) /\ in.credentials = "right"
        /\ pc[r] = "panic" => ErrorPage \in Promised(in)

\* Steps at which nothing has been written; on the way in no route has been missed.
Unrouted == {"idle", "identify", "inject", "route", "inner", "authenticate", "route inner",
             "index", "asset", "upload"}
Unanswered == Unrouted \cup {"not found", "panic"}
Uninjected == {"idle", "identify", "inject"}

\* What the response, the OPTIONS proxy and the environment hold until there is an answer, and
\* that the answer is one that was promised.
ResponseInv(r) ==
    LET w == writer[r]
    IN  /\ pc[r] \in Unanswered => w = NoWriter
        /\ pc[r] \in Unanswered \ {"idle", "identify"} =>
               proxy[r] = IF input[r].method = "OPTIONS" THEN "init" ELSE "off"
        /\ pc[r] \in Unrouted => env[r].methods = {}
        /\ pc[r] = "not found" => env[r].methods = NotedMethods(input[r])
        /\ pc[r] \notin Uninjected => env[r].injected
        /\ pc[r] \in {"leave inner", "finish"} => AsPromised(maybeWriteHeader(w), input[r])
        /\ pc[r] \in {"release", "done"} => AsPromised(w, input[r])

AnswersInv == \A r \in Requests : RouteInv(r) /\ ResponseInv(r)

PipelineInv ==
    /\ TypeOK
    /\ StacksExclusive
    /\ StacksToBuild
    /\ ContextCleared
    /\ OwnEnvironment
    /\ UploadIsAuthorized
    /\ \A r \in Requests : InnerInv(r) /\ AuthorizationInv(r)
    /\ LogInv
=============================================================================
