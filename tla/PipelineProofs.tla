---------------------------- MODULE PipelineProofs ----------------------------
(* PipelineInv is an inductive invariant of Pipeline, for any number of requests, *)
(* any inputs, assets and upload path; so is AnswersInv, relative to it, which     *)
(* needs to know what the two muxes find for a path.                          *)
EXTENDS Pipeline, RoutesProofs

-----------------------------------------------------------------------------
(* The handlers of the routes.                                                *)

LEMMA OuterRoutesType ==
    /\ \E n \in Nat : DOMAIN OuterRoutes = 1..n
    /\ \A i \in DOMAIN OuterRoutes : /\ OuterRoutes[i].handler \in {"index", "asset", "inner"}
                                     /\ OuterRoutes[i].methods \subseteq AllMethods
  <1> DEFINE a == [i \in DOMAIN Assets |-> Get(Assets[i], "asset")]
             R == {x \in {OuterRoutes[i] : i \in DOMAIN OuterRoutes} : TRUE}
  <1>1. Len(Assets) \in Nat /\ DOMAIN Assets = 1..Len(Assets)
    BY AssetsAssumption
  <1>2. \A raw, handler : /\ Get(raw, handler).handler = handler
                          /\ Get(raw, handler).methods \subseteq AllMethods
                          /\ Handle(raw, handler).handler = handler
                          /\ Handle(raw, handler).methods \subseteq AllMethods
    BY DEF Get, Handle, Route, AllMethods, Methods
  <1> DEFINE first == Get(Root, "index")
             last == Handle(<<Slash, Star>>, "inner")
             T == {first, last} \cup {a[i] : i \in DOMAIN Assets}
  <1>3. a \in Seq(T) /\ <<first>> \in Seq(T) /\ <<last>> \in Seq(T)
    <2>1. a \in [1..Len(Assets) -> T]
      BY <1>1
    <2> QED
      BY <1>1, <2>1
  <1>4. OuterRoutes = <<first>> \o a \o <<last>>
    BY DEF OuterRoutes
  <1> HIDE DEF first, last, a, T
  <1>5. OuterRoutes \in Seq(T)
    BY <1>3, <1>4
  <1>6. \A i \in DOMAIN OuterRoutes : OuterRoutes[i] \in T
    BY <1>5
  <1>7. \A x \in T : x.handler \in {"index", "asset", "inner"} /\ x.methods \subseteq AllMethods
    BY <1>2 DEF T, first, last, a
  <1> QED
    BY <1>5, <1>6, <1>7

LEMMA InnerRoutesType ==
    /\ DOMAIN InnerRoutes = 1..1
    /\ InnerRoutes[1].handler = "upload"
    /\ InnerRoutes[1].methods = {"POST"}
    /\ InnerRoutes[1].pattern = parseStringPattern(UploadPath)
  BY DEF InnerRoutes, Post, Route

-----------------------------------------------------------------------------
(* The response.                                                              *)

LEMMA NoWriterType == NoWriter \in Writers /\ \A method : WriterInv(NoWriter, method)
  <1>1. <<>> \in Seq(Pieces) /\ Len(<<>>) = 0
    OBVIOUS
  <1> QED
    BY <1>1 DEF NoWriter, Writers, WriterInv, Codes

LEMMA WriteHeaderType ==
    ASSUME NEW w \in Writers, NEW method, WriterInv(w, method), NEW code \in Codes \ {0}
    PROVE  /\ WriteHeader(w, code) \in Writers /\ WriterInv(WriteHeader(w, code), method)
           /\ WriteHeader(w, code).wrote
  <1>1. CASE w.wrote
    BY <1>1 DEF WriteHeader
  <1>2. CASE ~w.wrote
    <2> DEFINE x == [wrote |-> TRUE, code |-> code, bytes |-> w.bytes, sent |-> code,
                     body |-> w.body, allow |-> w.allow, broken |-> w.broken]
    <2>1. WriteHeader(w, code) = x
      BY <1>2 DEF WriteHeader, Writers, WriterInv
    <2>2. x \in Writers
      BY DEF Writers
    <2>3. WriterInv(x, method) /\ x.wrote
      BY DEF WriterInv
    <2> QED
      BY <2>1, <2>2, <2>3
  <1> QED
    BY <1>1, <1>2

LEMMA WriteType ==
    ASSUME NEW w \in Writers, NEW method, WriterInv(w, method), NEW piece \in Pieces,
           NEW breaks \in BOOLEAN
    PROVE  /\ maybeWriteHeader(w) \in Writers /\ WriterInv(maybeWriteHeader(w), method)
           /\ maybeWriteHeader(w).wrote
           /\ Write(w, method, piece, breaks) \in Writers
           /\ WriterInv(Write(w, method, piece, breaks), method)
  <1>1. /\ maybeWriteHeader(w) \in Writers /\ WriterInv(maybeWriteHeader(w), method)
        /\ maybeWriteHeader(w).wrote
    <2>1. 200 \in Codes \ {0}
      BY DEF Codes
    <2> QED
      BY <2>1, WriteHeaderType DEF maybeWriteHeader
  <1>2. PICK m \in Writers : m = maybeWriteHeader(w) /\ WriterInv(m, method)
    BY <1>1
  <1> DEFINE broken == m.broken \/ breaks
             body == IF broken \/ method = "HEAD" THEN m.body ELSE Append(m.body, piece)
             x == [wrote |-> m.wrote, code |-> m.code, bytes |-> m.bytes + 1, sent |-> m.sent,
                   body |-> body, allow |-> m.allow, broken |-> broken]
  <1>3. Write(w, method, piece, breaks) = x
    <2>1. Write(w, method, piece, breaks) =
              [m EXCEPT !.bytes = m.bytes + 1, !.broken = broken, !.body = body]
      BY <1>2 DEF Write
    <2> HIDE DEF body, broken
    <2> QED
      BY <2>1 DEF Writers
  <1>4. /\ m.body \in Seq(Pieces) /\ m.bytes \in Nat /\ m.bytes >= Len(m.body)
        /\ ~m.broken /\ method # "HEAD" => m.bytes = Len(m.body)
    BY <1>2 DEF Writers, WriterInv
  <1>5. Append(m.body, piece) \in Seq(Pieces) /\ Len(Append(m.body, piece)) = Len(m.body) + 1
    BY <1>4
  <1>6. /\ body \in Seq(Pieces) /\ m.bytes + 1 >= Len(body)
        /\ ~broken /\ method # "HEAD" => m.bytes + 1 = Len(body)
    BY <1>4, <1>5
  <1>7. broken \in BOOLEAN
    OBVIOUS
  <1> HIDE DEF body, broken
  <1>8. x \in Writers
    BY <1>4, <1>6, <1>7 DEF Writers
  <1>9. WriterInv(x, method)
    BY <1>2, <1>6 DEF WriterInv
  <1> QED
    BY <1>1, <1>3, <1>8, <1>9

\* An answer keeps the types, and the writers of the other requests.
LEMMA AnswerType ==
    ASSUME PipelineInv, NEW r \in Requests, Started(r),
           NEW code \in Codes \ {0}, NEW piece \in Pieces, Answer(r, code, piece)
    PROVE  /\ writer' \in [Requests -> Writers]
           /\ \A q \in Requests : WriterInv(writer[q]', input[q].method)
           /\ proxy' \in [Requests -> {"off", "init", "header written", "proxying"}]
           /\ \A q \in Requests \ {r} : writer[q]' = writer[q]
  <1>1. /\ writer \in [Requests -> Writers] /\ \A q \in Requests : WriterInv(writer[q], input[q].method)
        /\ proxy \in [Requests -> {"off", "init", "header written", "proxying"}]
        /\ outerC[outer[r]] \in Requests \cup {Nobody} /\ env \in [Requests -> Envs]
    BY ZenonT(40) DEF PipelineInv, TypeOK, StacksExclusive, LogInv
  <1>2. CASE Proxies(r, code)
    <2> DEFINE allow == ValidMethods(r) \cup {"OPTIONS"}
    <2>0. 200 \in Codes \ {0}
      BY DEF Codes
    <2>1. PICK w \in Writers : w = WriteHeader(writer[r], 200) /\ WriterInv(w, input[r].method)
      BY <2>0, <1>1, WriteHeaderType
    <2>2. writer' = [writer EXCEPT ![r] = [w EXCEPT !.allow = allow]]
      BY <1>2, <2>1 DEF Answer
    <2>3. allow \in SUBSET AllMethods
      BY <1>1 DEF ValidMethods, Envs, AllMethods, Methods
    <2>4. /\ [w EXCEPT !.allow = allow] \in Writers
          /\ WriterInv([w EXCEPT !.allow = allow], input[r].method)
      BY <2>1, <2>3 DEF Writers, WriterInv
    <2>5. proxy' = [proxy EXCEPT ![r] = "proxying"]
      BY <1>2 DEF Answer
    <2> HIDE DEF allow
    <2> QED
      BY <1>1, <2>2, <2>4, <2>5
  <1>3. CASE ~Proxies(r, code)
    <2>1. /\ WriteHeader(writer[r], code) \in Writers
          /\ WriterInv(WriteHeader(writer[r], code), input[r].method)
      BY <1>1, WriteHeaderType
    <2>4. PICK breaks \in BOOLEAN :
              writer' = [writer EXCEPT ![r] =
                            Write(WriteHeader(writer[r], code), input[r].method, piece, breaks)]
      BY <1>3 DEF Answer
    <2>2. PICK w \in Writers :
              /\ w = Write(WriteHeader(writer[r], code), input[r].method, piece, breaks)
              /\ WriterInv(w, input[r].method)
      BY <2>1, WriteType
    <2>3. /\ writer' = [writer EXCEPT ![r] = w]
          /\ proxy' = [proxy EXCEPT ![r] = IF @ = "init" THEN "header written" ELSE @]
      BY <1>3, <2>2, <2>4 DEF Answer
    <2> QED
      BY <1>1, <2>2, <2>3
  <1> QED
    BY <1>2, <1>3

-----------------------------------------------------------------------------
(* What a step of one request leaves alone.                                   *)

\* The stacks stay where they are while a request goes from step to step.
LEMMA StacksKept ==
    ASSUME PipelineInv, NEW r \in Requests, Started(r), NEW step \in Steps \ {"idle", "done"},
           pc' = [pc EXCEPT ![r] = step], UNCHANGED <<outer, inner, pools>>,
           step \in BeforeInner => pc[r] \in BeforeInner,
           step \in WithInner => inner[r] # Nobody,
           inner[r] # Nobody => step \in WithInner \cup {"not found", "panic"}
    PROVE  StacksExclusive' /\ StacksToBuild' /\ \A q \in Requests : InnerInv(q)'
  <1>1. pc'[r] = step /\ \A q \in Requests \ {r} : pc'[q] = pc[q]
    BY DEF PipelineInv, TypeOK
  <1>2. pc[r] # "idle" /\ pc[r] # "done" /\ step # "idle" /\ step # "done"
    BY DEF Started
  <1>3. StacksExclusive'
    BY <1>1, <1>2 DEF PipelineInv, StacksExclusive, Started
  <1>4. StacksToBuild'
    BY <1>1, <1>2 DEF PipelineInv, StacksToBuild
  <1>5. \A q \in Requests : InnerInv(q)'
    BY <1>1 DEF PipelineInv, InnerInv
  <1> QED
    BY <1>3, <1>4, <1>5

\* So do the environments, when a handler is given that of its own request.
LEMMA EnvironmentKept ==
    ASSUME PipelineInv, NEW r \in Requests, Identified(r), NEW step \in Steps,
           pc' = [pc EXCEPT ![r] = step], UNCHANGED <<outer, inner, outerC, innerC>>,
           \A q \in Requests : ran'[q] = ran[q] \/ ran'[q].env = q
    PROVE  OwnEnvironment' /\ (step # "identify" => ContextCleared')
  <1>1. pc'[r] = step /\ \A q \in Requests \ {r} : pc'[q] = pc[q]
    BY DEF PipelineInv, TypeOK
  <1>2. \A q \in Requests : Identified(q)' => Identified(q)
    BY <1>1 DEF Identified
  <1>3. OwnEnvironment'
    BY <1>2 DEF PipelineInv, OwnEnvironment
  <1>4. step # "identify" => ContextCleared'
    BY <1>1 DEF PipelineInv, ContextCleared
  <1> QED
    BY <1>3, <1>4

\* Nothing that was authorized, and nothing logged, changes by a step of another.
LEMMA AuthorizationKept ==
    ASSUME PipelineInv, NEW r \in Requests, Started(r), NEW step \in Steps,
           pc' = [pc EXCEPT ![r] = step], UNCHANGED input,
           \A q \in Requests : ran'[q] = ran[q] \/ (q = r /\ ran'[q].handler = pc[r]),
           step \in {"idle", "identify"} => UNCHANGED ran /\ pc[r] \in {"idle", "identify"},
           step = "route inner" => input[r].credentials = "right",
           step = "upload" => Authorized(r)
    PROVE  UploadIsAuthorized' /\ \A q \in Requests : AuthorizationInv(q)'
  <1>1. pc'[r] = step /\ \A q \in Requests \ {r} : pc'[q] = pc[q]
    BY DEF PipelineInv, TypeOK
  <1>2. \A q \in Requests : Authorized(q)' <=> Authorized(q)
    BY DEF Authorized
  <1>3. UploadIsAuthorized'
    BY <1>2 DEF PipelineInv, UploadIsAuthorized, AuthorizationInv
  <1>4. \A q \in Requests : AuthorizationInv(q)'
    BY <1>1, <1>2 DEF PipelineInv, AuthorizationInv
  <1> QED
    BY <1>3, <1>4

LEMMA LogKept ==
    ASSUME PipelineInv, NEW r \in Requests, HasId(r), pc[r] \notin {"release", "done"},
           NEW step \in Steps \ {"release", "done", "idle", "identify"},
           pc' = [pc EXCEPT ![r] = step], UNCHANGED <<input, reqid, logged>>,
           \A q \in Requests : env'[q].id = env[q].id,
           \A q \in Requests : WriterInv(writer[q]', input[q].method),
           \A q \in Requests \ {r} : writer[q]' = writer[q]
    PROVE  LogInv'
  <1>1. pc'[r] = step /\ \A q \in Requests \ {r} : pc'[q] = pc[q]
    BY DEF PipelineInv, TypeOK
  <1>2. \A q \in Requests : HasId(q)' <=> HasId(q)
    BY <1>1 DEF HasId
  <1>3. \A q \in Requests : pc'[q] \in {"release", "done"} =>
            /\ q # r /\ writer[q]' = writer[q]
            /\ pc[q] \in {"release", "done"}
    BY <1>1
  <1>4. \A q \in Requests : pc'[q] = "idle" => q # r /\ writer[q]' = writer[q] /\ pc[q] = "idle"
    BY <1>1
  <1> QED
    BY <1>2, <1>3, <1>4 DEF PipelineInv, LogInv

-----------------------------------------------------------------------------
(* The steps.                                                                 *)

LEMMA PipelineInit == Init => PipelineInv
  <1> SUFFICES ASSUME Init PROVE PipelineInv
    OBVIOUS
  <1>2. NoEnv \in Envs
    BY DEF NoEnv, Envs
  <1>3. TypeOK
    BY NoWriterType, <1>2 DEF Init, TypeOK, Steps, NotRun, NotLogged, Codes
  <1>4. StacksExclusive /\ StacksToBuild /\ ContextCleared
    BY NobodyAssumption DEF Init, StacksExclusive, StacksToBuild, Started, ContextCleared
  <1>5. OwnEnvironment /\ UploadIsAuthorized
    BY DEF Init, OwnEnvironment, UploadIsAuthorized, Identified, BeforeIdentified, NotRun
  <1>6. \A q \in Requests : InnerInv(q) /\ AuthorizationInv(q)
    BY DEF Init, InnerInv, AuthorizationInv, WithInner
  <1>7. LogInv
    BY NoWriterType DEF Init, LogInv, HasId
  <1> QED
    BY <1>3, <1>4, <1>5, <1>6, <1>7 DEF PipelineInv

LEMMA BeginStep ==
    ASSUME PipelineInv, NEW r \in Requests, Begin(r)
    PROVE  PipelineInv'
  <1>1. PICK in \in Inputs : input' = [input EXCEPT ![r] = in]
    BY DEF Begin
  <1>2. PICK s \in pools.outer \cup {r} :
            /\ outer' = [outer EXCEPT ![r] = s]
            /\ outerC' = [outerC EXCEPT ![s] = Nobody]
            /\ pools' = [pools EXCEPT !.outer = @ \ {s}]
    BY DEF Begin, Allocatable
  <1>3. /\ pc[r] = "idle" /\ pc' = [pc EXCEPT ![r] = "identify"]
        /\ UNCHANGED <<inner, innerC, env, reqid, writer, proxy, ran, logged>>
    BY DEF Begin, Goto
  <1>4. TypeOK /\ s \in Requests
    BY <1>2 DEF PipelineInv, TypeOK
  <1>5. \A q \in Requests : outer[q] # s
    BY <1>2, <1>3 DEF PipelineInv, StacksExclusive, StacksToBuild
  <1>6. /\ pc'[r] = "identify" /\ outer'[r] = s /\ outerC'[s] = Nobody /\ input'[r] = in
        /\ \A q \in Requests \ {r} : pc'[q] = pc[q] /\ outer'[q] = outer[q] /\ input'[q] = input[q]
        /\ \A t \in Requests \ {s} : outerC'[t] = outerC[t]
        /\ pools'.outer = pools.outer \ {s} /\ pools'.inner = pools.inner
    BY <1>1, <1>2, <1>3, <1>4 DEF TypeOK
  <1>7. TypeOK'
    <2>1. pools' \in [outer : SUBSET Requests, inner : SUBSET Requests]
      BY <1>2, <1>4 DEF TypeOK
    <2>2. outer' \in [Requests -> Requests \cup {Nobody}]
      BY <1>2, <1>4 DEF TypeOK
    <2>3. outerC' \in [Requests -> Requests \cup {Nobody}]
      BY <1>2, <1>4 DEF TypeOK
    <2>4. pc' \in [Requests -> Steps]
      BY <1>3, <1>4 DEF TypeOK, Steps
    <2>5. input' \in [Requests -> Inputs \cup {NoInput}]
      BY <1>1, <1>4 DEF TypeOK
    <2> QED
      BY <1>3, <1>4, <2>1, <2>2, <2>3, <2>4, <2>5 DEF TypeOK
  <1>8. StacksExclusive'
    BY <1>3, <1>4, <1>5, <1>6, NobodyAssumption DEF PipelineInv, StacksExclusive, Started
  <1>9. StacksToBuild'
    <2>1. s = r \/ pc[s] # "idle"
      BY <1>2, <1>4 DEF PipelineInv, StacksToBuild
    <2>2. \A q \in Requests : pc'[q] \in BeforeInner => pc[q] \in BeforeInner
      BY <1>3, <1>6 DEF BeforeInner
    <2>3. \A q \in Requests : pc'[q] = "idle" => q # s /\ q # r /\ pc[q] = "idle"
      BY <1>6, <2>1
    <2> QED
      BY <1>3, <1>6, <2>2, <2>3 DEF PipelineInv, StacksToBuild
  <1>15. \A q \in Requests : Started(q) => outer[q] \in Requests \ {s}
    <2>1. outer \in [Requests -> Requests \cup {Nobody}]
      BY <1>4 DEF TypeOK
    <2>2. \A q \in Requests : Started(q) => outer[q] # Nobody
      BY DEF PipelineInv, StacksExclusive
    <2> QED
      BY <1>5, <2>1, <2>2
  <1>10. ContextCleared'
    <2>1. ASSUME NEW q \in Requests, pc'[q] = "identify" PROVE outerC'[outer'[q]] = Nobody
      <3>1. CASE q = r
        BY <1>6, <3>1
      <3>2. CASE q # r
        <4>1. pc[q] = "identify" /\ outer'[q] = outer[q] /\ outer[q] \in Requests \ {s}
          BY <1>6, <1>15, <2>1, <3>2 DEF Started
        <4>2. outerC[outer[q]] = Nobody
          BY <4>1 DEF PipelineInv, ContextCleared
        <4> QED
          BY <1>6, <4>1, <4>2
      <3> QED
        BY <3>1, <3>2
    <2> QED
      BY <2>1 DEF ContextCleared
  <1>11. OwnEnvironment'
    <2>1. \A q \in Requests : Identified(q)' =>
              /\ Identified(q) /\ q # r /\ outer[q] \in Requests \ {s}
      BY <1>6, <1>15 DEF Identified, BeforeIdentified, Started
    <2> QED
      BY <1>3, <1>6, <2>1 DEF PipelineInv, OwnEnvironment
  <1>12. \A q \in Requests : InnerInv(q)'
    BY <1>3, <1>6 DEF PipelineInv, InnerInv, WithInner
  <1>13. UploadIsAuthorized' /\ \A q \in Requests : AuthorizationInv(q)'
    <2>1. ran[r].handler # "upload"
      <3>1. AuthorizationInv(r)
        BY DEF PipelineInv
      <3> QED
        BY <1>3, <3>1 DEF AuthorizationInv, NotRun
    <2>2. \A q \in Requests \ {r} : Authorized(q)' <=> Authorized(q)
      BY <1>6 DEF Authorized
    <2> QED
      BY <1>3, <1>6, <2>1, <2>2 DEF PipelineInv, UploadIsAuthorized, AuthorizationInv
  <1>14. LogInv'
    <2>1. writer[r] = NoWriter /\ \A q \in Requests : pc'[q] = "idle" => q # r
      BY <1>3, <1>6 DEF PipelineInv, LogInv
    <2>2. \A q \in Requests : WriterInv(writer[q], input'[q].method)
      BY <1>6, <2>1, NoWriterType DEF PipelineInv, LogInv
    <2> QED
      BY <1>3, <1>6, <2>1, <2>2 DEF PipelineInv, LogInv, HasId
  <1> QED
    BY <1>7, <1>8, <1>9, <1>10, <1>11, <1>12, <1>13, <1>14 DEF PipelineInv

LEMMA IdentifyStep ==
    ASSUME PipelineInv, NEW r \in Requests, Identify(r)
    PROVE  PipelineInv'
  <1>1. /\ pc[r] = "identify" /\ pc' = [pc EXCEPT ![r] = "inject"] /\ Started(r)
        /\ UNCHANGED <<input, outer, inner, innerC, pools, writer, ran, logged>>
        /\ reqid' = reqid + 1
    BY DEF Identify, Goto, Started
  <1>2. outerC[outer[r]] = Nobody /\ outer[r] \in Requests
    BY <1>1 DEF PipelineInv, ContextCleared, StacksExclusive, TypeOK
  <1>3. /\ outerC' = [outerC EXCEPT ![outer[r]] = r]
        /\ env' = [env EXCEPT ![r].id = reqid + 1]
    BY <1>2 DEF Identify
  <1>4. /\ pc'[r] = "inject" /\ outerC'[outer[r]] = r /\ env'[r].id = reqid + 1
        /\ \A q \in Requests \ {r} : pc'[q] = pc[q] /\ env'[q] = env[q]
        /\ \A t \in Requests \ {outer[r]} : outerC'[t] = outerC[t]
    <2>1. /\ pc \in [Requests -> Steps] /\ outerC \in [Requests -> Requests \cup {Nobody}]
          /\ env \in [Requests -> Envs]
      BY DEF PipelineInv, TypeOK
    <2>2. env'[r].id = reqid + 1
      BY <1>3, <2>1 DEF Envs
    <2> QED
      BY <1>1, <1>2, <1>3, <2>1, <2>2
  <1>5. TypeOK'
    <2>1. pc' \in [Requests -> Steps]
      BY <1>1 DEF PipelineInv, TypeOK, Steps
    <2>2. outerC' \in [Requests -> Requests \cup {Nobody}]
      BY <1>2, <1>3 DEF PipelineInv, TypeOK
    <2>3. reqid' \in Nat /\ env' \in [Requests -> Envs]
      <3>1. reqid \in Nat /\ env \in [Requests -> Envs]
        BY DEF PipelineInv, TypeOK
      <3>2. reqid + 1 \in Nat
        BY <3>1
      <3>3. [env[r] EXCEPT !.id = reqid + 1] \in Envs
        BY <3>1, <3>2 DEF Envs
      <3> QED
        BY <1>1, <1>3, <3>1, <3>2, <3>3
    <2>4. proxy' \in [Requests -> {"off", "init", "header written", "proxying"}]
      BY DEF PipelineInv, TypeOK, Identify
    <2> QED
      BY <1>1, <2>1, <2>2, <2>3, <2>4 DEF PipelineInv, TypeOK
  <1>6. StacksExclusive' /\ StacksToBuild' /\ \A q \in Requests : InnerInv(q)'
    <2>1. "inject" \in Steps \ {"idle", "done"} /\ "inject" \notin WithInner
          /\ "identify" \in BeforeInner
      BY DEF Steps, WithInner, BeforeInner
    <2>2. inner[r] = Nobody
      BY <1>1 DEF PipelineInv, InnerInv, WithInner
    <2> QED
      BY <1>1, <2>1, <2>2, StacksKept
  <1>7. \A q \in Requests \ {r} : Started(q) => outer[q] \in Requests /\ outer[q] # outer[r]
    BY <1>1, ZenonT(40) DEF PipelineInv, TypeOK, StacksExclusive
  <1>8. ContextCleared'
    BY <1>1, <1>4, <1>7 DEF PipelineInv, ContextCleared, Started
  <1>9. OwnEnvironment'
    BY <1>1, <1>4, <1>7 DEF PipelineInv, OwnEnvironment, Identified, BeforeIdentified, Started
  <1>10. UploadIsAuthorized' /\ \A q \in Requests : AuthorizationInv(q)'
    <2>1. "inject" \in Steps
      BY DEF Steps
    <2> QED
      BY <1>1, <2>1, AuthorizationKept
  <1>11. LogInv'
    <2>1. \A q \in Requests : HasId(q)' <=> q = r \/ HasId(q)
      BY <1>1, <1>4 DEF HasId
    <2>5. /\ reqid \in Nat /\ \A q \in Requests : env[q].id \in Nat
          /\ \A q \in Requests : HasId(q) => env[q].id <= reqid
      BY DEF PipelineInv, LogInv, TypeOK, Envs
    <2>2. \A q \in Requests \ {r} : HasId(q) => env'[q].id < env'[r].id
      BY <1>4, <2>5
    <2>3. \A q \in Requests : HasId(q)' => env'[q].id <= reqid'
      BY <1>1, <1>4, <2>1, <2>5
    <2>4. \A p, q \in Requests : HasId(p)' /\ HasId(q)' /\ env'[p].id = env'[q].id => p = q
      <3>1. \A q \in Requests : env'[q].id \in Nat
        BY <1>5 DEF TypeOK, Envs
      <3> QED
        BY <1>4, <2>1, <2>2, <3>1 DEF PipelineInv, LogInv
    <2> QED
      BY <1>1, <1>4, <2>3, <2>4 DEF PipelineInv, LogInv
  <1> QED
    BY <1>5, <1>6, <1>8, <1>9, <1>10, <1>11 DEF PipelineInv

LEMMA InjectStep ==
    ASSUME PipelineInv, NEW r \in Requests, Inject(r)
    PROVE  PipelineInv'
  <1>1. /\ pc[r] = "inject" /\ pc' = [pc EXCEPT ![r] = "route"]
        /\ Started(r) /\ Identified(r) /\ HasId(r)
        /\ UNCHANGED <<input, outer, inner, outerC, innerC, pools, reqid, writer, proxy, ran, logged>>
    BY DEF Inject, Goto, Started, Identified, BeforeIdentified, HasId
  <1>2. env' = [env EXCEPT ![r].injected = TRUE]
    BY <1>1 DEF Inject, PipelineInv, OwnEnvironment
  <1>3. "route" \in Steps /\ "route" \notin WithInner /\ "inject" \in BeforeInner
    BY DEF Steps, WithInner, BeforeInner
  <1>4. env' \in [Requests -> Envs] /\ \A q \in Requests : env'[q].id = env[q].id
    <2>1. env \in [Requests -> Envs]
      BY DEF PipelineInv, TypeOK
    <2>2. [env[r] EXCEPT !.injected = TRUE] \in Envs
          /\ [env[r] EXCEPT !.injected = TRUE].id = env[r].id
      BY <2>1 DEF Envs
    <2> QED
      BY <1>2, <2>1, <2>2
  <1>5. TypeOK'
    BY <1>1, <1>3, <1>4 DEF PipelineInv, TypeOK
  <1>6. StacksExclusive' /\ StacksToBuild' /\ \A q \in Requests : InnerInv(q)'
    BY <1>1, <1>3, StacksKept DEF PipelineInv, InnerInv, WithInner
  <1>7. OwnEnvironment' /\ ContextCleared'
    BY <1>1, <1>3, EnvironmentKept
  <1>8. UploadIsAuthorized' /\ \A q \in Requests : AuthorizationInv(q)'
    BY <1>1, <1>3, AuthorizationKept
  <1>9. LogInv'
    BY <1>1, <1>3, <1>4, LogKept DEF PipelineInv, LogInv
  <1> QED
    BY <1>5, <1>6, <1>7, <1>8, <1>9 DEF PipelineInv

\* What a router notes are methods, and in the environment of its request.
LEMMA NoteType ==
    ASSUME PipelineInv, NEW r \in Requests, NEW found, found.methods \subseteq AllMethods,
           Note(r, found)
    PROVE  env' \in [Requests -> Envs] /\ \A q \in Requests : env'[q].id = env[q].id
  <1>1. env \in [Requests -> Envs]
    BY DEF PipelineInv, TypeOK
  <1>2. PICK m \in SUBSET AllMethods : env' = [env EXCEPT ![r] = [@ EXCEPT !.methods = m]]
    BY <1>1 DEF Note, Envs
  <1>3. [env[r] EXCEPT !.methods = m] \in Envs /\ [env[r] EXCEPT !.methods = m].id = env[r].id
    BY <1>1, <1>2 DEF Envs
  <1> QED
    BY <1>1, <1>2, <1>3

LEMMA RouteOuterStep ==
    ASSUME PipelineInv, NEW r \in Requests, RouteOuter(r)
    PROVE  PipelineInv'
  <1> DEFINE found == FirstMatch(OuterRoutes, input[r].path, input[r].method)
             step == IF found.route = NoRoute THEN "not found"
                     ELSE OuterRoutes[found.route].handler
  <1>1. /\ pc[r] = "route" /\ pc' = [pc EXCEPT ![r] = step]
        /\ Started(r) /\ Identified(r) /\ HasId(r)
        /\ Note(outerC[outer[r]], found)
        /\ UNCHANGED <<input, outer, inner, outerC, innerC, pools, reqid, writer, proxy, ran, logged>>
    BY DEF RouteOuter, Goto, Started, Identified, BeforeIdentified, HasId
  <1>2. outerC[outer[r]] = r
    BY <1>1 DEF PipelineInv, OwnEnvironment
  <1>3. step \in {"not found", "index", "asset", "inner"}
    <2>1. PICK n \in Nat : DOMAIN OuterRoutes = 1..n
      BY OuterRoutesType
    <2>2. found.route # NoRoute => found.route \in DOMAIN OuterRoutes
      BY <2>1, FoundMatches
    <2> QED
      BY <2>2, OuterRoutesType
  <1>4. found.methods \subseteq AllMethods
    BY OuterRoutesType, NotedAreMethods
  <1> HIDE DEF found, step
  <1>5. env' \in [Requests -> Envs] /\ \A q \in Requests : env'[q].id = env[q].id
    BY <1>1, <1>2, <1>4, NoteType
  <1>6. /\ step \in Steps \ {"idle", "done", "identify", "release", "route inner", "upload"}
        /\ step \notin WithInner /\ "route" \in BeforeInner
    BY <1>3 DEF Steps, WithInner, BeforeInner
  <1>7. TypeOK'
    BY <1>1, <1>5, <1>6 DEF PipelineInv, TypeOK
  <1>8. StacksExclusive' /\ StacksToBuild' /\ \A q \in Requests : InnerInv(q)'
    BY <1>1, <1>6, StacksKept DEF PipelineInv, InnerInv, WithInner
  <1>9. OwnEnvironment' /\ ContextCleared'
    BY <1>1, <1>6, EnvironmentKept
  <1>10. UploadIsAuthorized' /\ \A q \in Requests : AuthorizationInv(q)'
    BY <1>1, <1>6, AuthorizationKept
  <1>11. LogInv'
    BY <1>1, <1>5, <1>6, LogKept DEF PipelineInv, LogInv
  <1> QED
    BY <1>7, <1>8, <1>9, <1>10, <1>11 DEF PipelineInv

LEMMA EnterInnerStep ==
    ASSUME PipelineInv, NEW r \in Requests, EnterInner(r)
    PROVE  PipelineInv'
  <1>1. PICK s \in pools.inner \cup {r} :
            /\ inner' = [inner EXCEPT ![r] = s]
            /\ innerC' = [innerC EXCEPT ![s] = outerC[outer[r]]]
            /\ pools' = [pools EXCEPT !.inner = @ \ {s}]
    BY DEF EnterInner, Allocatable
  <1>2. /\ pc[r] = "inner" /\ pc' = [pc EXCEPT ![r] = "authenticate"]
        /\ Started(r) /\ Identified(r) /\ HasId(r)
        /\ UNCHANGED <<input, outer, outerC, env, reqid, writer, proxy, ran, logged>>
    BY DEF EnterInner, Goto, Started, Identified, BeforeIdentified, HasId
  <1>3. outerC[outer[r]] = r
    BY <1>2 DEF PipelineInv, OwnEnvironment
  <1>4. TypeOK /\ s \in Requests /\ "authenticate" \in Steps
        /\ "authenticate" \notin BeforeInner /\ "inner" \in BeforeInner
    BY <1>1 DEF PipelineInv, TypeOK, Steps, BeforeInner
  <1>5. \A q \in Requests : inner[q] # s
    BY <1>1, <1>2, <1>4 DEF PipelineInv, StacksExclusive, StacksToBuild
  <1>6. /\ pc'[r] = "authenticate" /\ inner'[r] = s /\ innerC'[s] = r
        /\ \A q \in Requests \ {r} : pc'[q] = pc[q] /\ inner'[q] = inner[q]
        /\ \A t \in Requests \ {s} : innerC'[t] = innerC[t]
        /\ pools'.inner = pools.inner \ {s} /\ pools'.outer = pools.outer
    BY <1>1, <1>2, <1>3, <1>4 DEF TypeOK
  <1>7. TypeOK'
    <2>1. pools' \in [outer : SUBSET Requests, inner : SUBSET Requests]
      BY <1>1, <1>4 DEF TypeOK
    <2>2. inner' \in [Requests -> Requests \cup {Nobody}]
      BY <1>1, <1>4 DEF TypeOK
    <2>3. innerC' \in [Requests -> Requests \cup {Nobody}]
      BY <1>1, <1>3, <1>4 DEF TypeOK
    <2>4. pc' \in [Requests -> Steps]
      BY <1>2, <1>4 DEF TypeOK
    <2> QED
      BY <1>2, <1>4, <2>1, <2>2, <2>3, <2>4 DEF TypeOK
  <1>8. StacksExclusive'
    BY <1>2, <1>4, <1>5, <1>6, NobodyAssumption DEF PipelineInv, StacksExclusive, Started
  <1>9. StacksToBuild'
    <2>1. s = r \/ pc[s] \notin BeforeInner
      BY <1>1, <1>4 DEF PipelineInv, StacksToBuild
    <2>2. \A q \in Requests : pc'[q] \in BeforeInner => q # s /\ q # r /\ pc[q] \in BeforeInner
      BY <1>4, <1>6, <2>1
    <2>3. \A q \in Requests : pc'[q] = "idle" => pc[q] = "idle"
      BY <1>6
    <2> QED
      BY <1>2, <1>6, <2>2, <2>3 DEF PipelineInv, StacksToBuild
  <1>10. OwnEnvironment' /\ ContextCleared'
    <2>1. \A q \in Requests : Identified(q)' => Identified(q)
      BY <1>2, <1>6 DEF Identified
    <2>2. \A q \in Requests : inner'[q] # Nobody => innerC'[inner'[q]] = q
      <3>1. \A q \in Requests \ {r} : inner[q] # Nobody => inner[q] \in Requests \ {s}
        BY <1>4, <1>5 DEF TypeOK
      <3> QED
        BY <1>6, <3>1 DEF PipelineInv, OwnEnvironment
    <2> QED
      BY <1>2, <1>6, <2>1, <2>2 DEF PipelineInv, OwnEnvironment, ContextCleared
  <1>11. \A q \in Requests : InnerInv(q)'
    BY <1>4, <1>6, NobodyAssumption, ZenonT(40) DEF PipelineInv, InnerInv, WithInner
  <1>12. UploadIsAuthorized' /\ \A q \in Requests : AuthorizationInv(q)'
    BY <1>2, <1>4, AuthorizationKept
  <1>13. LogInv'
    BY <1>2, <1>4, LogKept DEF PipelineInv, LogInv
  <1> QED
    BY <1>7, <1>8, <1>9, <1>10, <1>11, <1>12, <1>13 DEF PipelineInv

\* A handler, or the authentication, keeps to its own request.
LEMMA HandlerStep ==
    ASSUME PipelineInv, NEW r \in Requests,
           pc[r] \in {"authenticate", "not found", "index", "asset", "upload"},
           NEW step \in {"finish", "leave inner", "panic", "route inner"},
           pc' = [pc EXCEPT ![r] = step],
           UNCHANGED <<input, outer, inner, outerC, innerC, pools, env, reqid, logged>>,
           step = "finish" => inner[r] = Nobody,
           step \in {"leave inner", "route inner"} => inner[r] # Nobody,
           step = "route inner" => input[r].credentials = "right",
           writer' \in [Requests -> Writers],
           \A q \in Requests : WriterInv(writer[q]', input[q].method),
           \A q \in Requests \ {r} : writer[q]' = writer[q],
           proxy' \in [Requests -> {"off", "init", "header written", "proxying"}],
           \/ UNCHANGED ran
           \/ /\ pc[r] \in {"index", "asset", "upload"}
              /\ ran' = [ran EXCEPT ![r] = [handler |-> pc[r], env |-> r]]
    PROVE  PipelineInv'
  <1>1. /\ step \in Steps \ {"idle", "done", "identify", "release", "inject", "upload"}
        /\ step \notin BeforeInner /\ step # "upload" /\ Started(r) /\ Identified(r) /\ HasId(r)
        /\ pc[r] \notin {"idle", "identify", "release", "done"}
    BY DEF Steps, BeforeInner, Started, Identified, BeforeIdentified, HasId
  <1>2. ran \in [Requests -> [handler : {"none", "index", "asset", "upload"},
                              env : Requests \cup {Nobody}]]
    BY DEF PipelineInv, TypeOK
  <1> DEFINE given == [handler |-> pc[r], env |-> r]
  <1>11. given.handler = pc[r] /\ given.env = r
    OBVIOUS
  <1>12. pc[r] \in {"index", "asset", "upload"} =>
            given \in [handler : {"none", "index", "asset", "upload"}, env : Requests \cup {Nobody}]
    <2>1. \A h \in {"index", "asset", "upload"}, q \in Requests :
              [handler |-> h, env |-> q] \in [handler : {"none", "index", "asset", "upload"},
                                              env : Requests \cup {Nobody}]
      OBVIOUS
    <2> QED
      BY <2>1
  <1>13. \/ UNCHANGED ran
         \/ pc[r] \in {"index", "asset", "upload"} /\ ran' = [ran EXCEPT ![r] = given]
    OBVIOUS
  <1> HIDE DEF given
  <1>3. ran' \in [Requests -> [handler : {"none", "index", "asset", "upload"},
                               env : Requests \cup {Nobody}]]
    BY <1>2, <1>12, <1>13
  <1>14. \A q \in Requests : ran'[q] = ran[q] \/ (q = r /\ ran'[q] = given)
    BY <1>2, <1>13
  <1>4. \A q \in Requests : \/ ran'[q] = ran[q]
                            \/ q = r /\ ran'[q].handler = pc[r] /\ ran'[q].env = q
    BY <1>11, <1>14
  <1>5. pc' \in [Requests -> Steps]
    BY <1>1 DEF PipelineInv, TypeOK
  <1>6. TypeOK'
    BY <1>3, <1>5 DEF PipelineInv, TypeOK
  <1>7. StacksExclusive' /\ StacksToBuild' /\ \A q \in Requests : InnerInv(q)'
    <2>1. /\ step \in WithInner => inner[r] # Nobody
          /\ inner[r] # Nobody => step \in WithInner \cup {"not found", "panic"}
      BY DEF WithInner
    <2> QED
      BY <1>1, <2>1, StacksKept
  <1>8. OwnEnvironment' /\ ContextCleared'
    BY <1>1, <1>4, EnvironmentKept
  <1>9. UploadIsAuthorized' /\ \A q \in Requests : AuthorizationInv(q)'
    BY <1>1, <1>4, AuthorizationKept
  <1>10. LogInv'
    BY <1>1, LogKept
  <1> QED
    BY <1>6, <1>7, <1>8, <1>9, <1>10 DEF PipelineInv

\* What HandlerStep asks of a writer and proxy that are left alone.
LEMMA SilentType ==
    ASSUME PipelineInv, UNCHANGED <<writer, proxy>>
    PROVE  /\ writer' \in [Requests -> Writers]
           /\ \A q \in Requests : WriterInv(writer[q]', input[q].method) /\ writer[q]' = writer[q]
           /\ proxy' \in [Requests -> {"off", "init", "header written", "proxying"}]
  BY DEF PipelineInv, TypeOK, LogInv

LEMMA AuthenticateStep ==
    ASSUME PipelineInv, NEW r \in Requests, Authenticate(r)
    PROVE  PipelineInv'
  <1>1. /\ pc[r] = "authenticate" /\ Started(r) /\ inner[r] # Nobody
        /\ UNCHANGED <<input, outer, inner, outerC, innerC, pools, env, reqid, ran, logged>>
    BY DEF Authenticate, Started, PipelineInv, InnerInv, WithInner
  <1>2. CASE /\ input[r].credentials = "right" /\ pc' = [pc EXCEPT ![r] = "route inner"]
             /\ UNCHANGED <<writer, proxy>>
    BY <1>1, <1>2, SilentType, HandlerStep
  <1>3. CASE pc' = [pc EXCEPT ![r] = "panic"] /\ UNCHANGED <<writer, proxy>>
    BY <1>1, <1>3, SilentType, HandlerStep
  <1>4. CASE Answer(r, 401, "unauthorized") /\ pc' = [pc EXCEPT ![r] = "leave inner"]
    <2>1. 401 \in Codes \ {0} /\ "unauthorized" \in Pieces
      BY DEF Codes, Pieces
    <2> QED
      BY <1>1, <1>4, <2>1, AnswerType, HandlerStep, ZenonT(40)
  <1> QED
    BY <1>2, <1>3, <1>4 DEF Authenticate, Goto

LEMMA RouteInnerStep ==
    ASSUME PipelineInv, NEW r \in Requests, RouteInner(r)
    PROVE  PipelineInv'
  <1> DEFINE found == FirstMatch(InnerRoutes, input[r].path, input[r].method)
             step == IF found.route # NoRoute THEN InnerRoutes[found.route].handler
                     ELSE "not found"
  <1>1. /\ pc[r] = "route inner" /\ pc' = [pc EXCEPT ![r] = step]
        /\ Started(r) /\ Identified(r) /\ HasId(r)
        /\ Note(innerC[inner[r]], found) \/ UNCHANGED env
        /\ UNCHANGED <<input, outer, inner, outerC, innerC, pools, reqid, writer, proxy, ran, logged>>
    BY DEF RouteInner, Goto, Started, Identified, BeforeIdentified, HasId
  <1>2. inner[r] # Nobody /\ innerC[inner[r]] = r /\ input[r].credentials = "right"
    BY <1>1 DEF PipelineInv, InnerInv, WithInner, OwnEnvironment, AuthorizationInv
  <1>3. \/ step = "not found"
        \/ step = "upload" /\ Authorized(r)
    <2>1. CASE found.route # NoRoute
      <3>1. /\ found.route \in 1..1
            /\ Matches(InnerRoutes[found.route].pattern, input[r].path)
            /\ input[r].method \in InnerRoutes[found.route].methods
        BY <2>1, InnerRoutesType, FoundMatches
      <3>2. found.route = 1
        BY <3>1
      <3> QED
        BY <1>2, <2>1, <3>1, <3>2, InnerRoutesType DEF Authorized
    <2> QED
      BY <2>1
  <1>4. found.methods \subseteq AllMethods
    <2>1. \A i \in DOMAIN InnerRoutes : InnerRoutes[i].methods \subseteq AllMethods
      BY InnerRoutesType DEF AllMethods, Methods
    <2> QED
      BY <2>1, NotedAreMethods
  <1> HIDE DEF found, step
  <1>5. env' \in [Requests -> Envs] /\ \A q \in Requests : env'[q].id = env[q].id
    <2>1. CASE UNCHANGED env
      BY <2>1 DEF PipelineInv, TypeOK
    <2>2. CASE Note(innerC[inner[r]], found)
      BY <1>2, <1>4, <2>2, NoteType
    <2> QED
      BY <1>1, <2>1, <2>2
  <1>6. /\ step \in Steps \ {"idle", "done", "identify", "release", "route inner"}
        /\ step \notin BeforeInner /\ step \in WithInner \cup {"not found", "panic"}
    BY <1>3 DEF Steps, WithInner, BeforeInner
  <1>7. TypeOK'
    BY <1>1, <1>5, <1>6 DEF PipelineInv, TypeOK
  <1>8. StacksExclusive' /\ StacksToBuild' /\ \A q \in Requests : InnerInv(q)'
    BY <1>1, <1>2, <1>6, StacksKept
  <1>9. OwnEnvironment' /\ ContextCleared'
    BY <1>1, <1>6, EnvironmentKept
  <1>10. UploadIsAuthorized' /\ \A q \in Requests : AuthorizationInv(q)'
    BY <1>1, <1>3, <1>6, AuthorizationKept
  <1>11. LogInv'
    BY <1>1, <1>5, <1>6, LogKept DEF PipelineInv, LogInv
  <1> QED
    BY <1>7, <1>8, <1>9, <1>10, <1>11 DEF PipelineInv

\* A handler leaves for the inner mux if that is where it was called from.
LEMMA LeaveType ==
    ASSUME PipelineInv, NEW r \in Requests, Leave(r)
    PROVE  \E step \in {"finish", "leave inner"} :
               /\ pc' = [pc EXCEPT ![r] = step]
               /\ step = "finish" <=> inner[r] = Nobody
  BY DEF Leave, Goto

\* It is given the environment of its request.
LEMMA GivenOwn ==
    ASSUME PipelineInv, NEW r \in Requests, Identified(r)
    PROVE  Given(r) = r
  BY DEF PipelineInv, OwnEnvironment, Given

LEMMA ServeNotFoundStep ==
    ASSUME PipelineInv, NEW r \in Requests, ServeNotFound(r)
    PROVE  PipelineInv'
  <1>1. /\ pc[r] = "not found" /\ Started(r) /\ Answer(r, 404, "not found") /\ Leave(r)
        /\ UNCHANGED <<input, outer, inner, outerC, innerC, pools, env, reqid, ran, logged>>
    BY DEF ServeNotFound, Started
  <1>2. 404 \in Codes \ {0} /\ "not found" \in Pieces
    BY DEF Codes, Pieces
  <1>3. PICK step \in {"finish", "leave inner"} :
            pc' = [pc EXCEPT ![r] = step] /\ (step = "finish" <=> inner[r] = Nobody)
    BY <1>1, LeaveType
  <1> QED
    BY <1>1, <1>2, <1>3, AnswerType, HandlerStep, ZenonT(40)

LEMMA ServeIndexStep ==
    ASSUME PipelineInv, NEW r \in Requests, ServeIndex(r)
    PROVE  PipelineInv'
  <1>1. /\ pc[r] = "index" /\ Started(r) /\ Identified(r)
        /\ UNCHANGED <<input, outer, inner, outerC, innerC, pools, env, reqid, logged>>
    BY DEF ServeIndex, Started, Identified, BeforeIdentified
  <1>2. ran' = [ran EXCEPT ![r] = [handler |-> pc[r], env |-> r]]
    BY <1>1, GivenOwn DEF ServeIndex, Runs
  <1>3. 200 \in Codes \ {0} /\ "page" \in Pieces
    BY DEF Codes, Pieces
  <1>4. CASE pc' = [pc EXCEPT ![r] = "panic"] /\ UNCHANGED <<writer, proxy>>
    BY <1>1, <1>2, <1>4, SilentType, HandlerStep
  <1>5. CASE Leave(r) /\ Answer(r, 200, "page")
    <2>1. PICK step \in {"finish", "leave inner"} :
              pc' = [pc EXCEPT ![r] = step] /\ (step = "finish" <=> inner[r] = Nobody)
      BY <1>5, LeaveType
    <2> QED
      BY <1>1, <1>2, <1>3, <1>5, <2>1, AnswerType, HandlerStep
  <1>6. CASE Leave(r) /\ UNCHANGED <<writer, proxy>>
    <2>1. PICK step \in {"finish", "leave inner"} :
              pc' = [pc EXCEPT ![r] = step] /\ (step = "finish" <=> inner[r] = Nobody)
      BY <1>6, LeaveType
    <2> QED
      BY <1>1, <1>2, <1>6, <2>1, SilentType, HandlerStep
  <1> QED
    BY <1>4, <1>5, <1>6 DEF ServeIndex, Goto

LEMMA ServeAssetStep ==
    ASSUME PipelineInv, NEW r \in Requests, ServeAsset(r)
    PROVE  PipelineInv'
  <1>1. /\ pc[r] = "asset" /\ Started(r) /\ Identified(r) /\ Answer(r, 200, "asset") /\ Leave(r)
        /\ UNCHANGED <<input, outer, inner, outerC, innerC, pools, env, reqid, logged>>
    BY DEF ServeAsset, Started, Identified, BeforeIdentified
  <1>2. ran' = [ran EXCEPT ![r] = [handler |-> pc[r], env |-> r]]
    BY <1>1, GivenOwn DEF ServeAsset, Runs
  <1>3. 200 \in Codes \ {0} /\ "asset" \in Pieces
    BY DEF Codes, Pieces
  <1>4. PICK step \in {"finish", "leave inner"} :
            pc' = [pc EXCEPT ![r] = step] /\ (step = "finish" <=> inner[r] = Nobody)
    BY <1>1, LeaveType
  <1> QED
    BY <1>1, <1>2, <1>3, <1>4, AnswerType, HandlerStep

LEMMA ServeUploadStep ==
    ASSUME PipelineInv, NEW r \in Requests, ServeUpload(r)
    PROVE  PipelineInv'
  <1>1. /\ pc[r] = "upload" /\ Started(r) /\ Identified(r)
        /\ UNCHANGED <<input, outer, inner, outerC, innerC, pools, env, reqid, logged>>
    BY DEF ServeUpload, Started, Identified, BeforeIdentified
  <1>2. ran' = [ran EXCEPT ![r] = [handler |-> pc[r], env |-> r]]
    BY <1>1, GivenOwn DEF ServeUpload, Runs
  <1>3. CASE pc' = [pc EXCEPT ![r] = "panic"] /\ UNCHANGED <<writer, proxy>>
    BY <1>1, <1>2, <1>3, SilentType, HandlerStep
  <1>4. ASSUME NEW c \in Codes \ {0}, Answer(r, c, "json"), Leave(r)
        PROVE  PipelineInv'
    <2>1. "json" \in Pieces
      BY DEF Pieces
    <2>2. /\ writer' \in [Requests -> Writers]
          /\ \A q \in Requests : WriterInv(writer[q]', input[q].method)
          /\ proxy' \in [Requests -> {"off", "init", "header written", "proxying"}]
          /\ \A q \in Requests \ {r} : writer[q]' = writer[q]
      BY <1>1, <1>4, <2>1, AnswerType
    <2>3. PICK step \in {"finish", "leave inner"} :
              pc' = [pc EXCEPT ![r] = step] /\ (step = "finish" <=> inner[r] = Nobody)
      BY <1>4, LeaveType
    <2> QED
      BY <1>1, <1>2, <2>2, <2>3, HandlerStep
  <1>5. {200, 400, 500} \subseteq Codes \ {0}
    BY DEF Codes
  <1> QED
    BY <1>3, <1>4, <1>5 DEF ServeUpload, Goto

LEMMA LeaveInnerStep ==
    ASSUME PipelineInv, NEW r \in Requests, LeaveInner(r)
    PROVE  PipelineInv'
  <1>1. /\ pc[r] = "leave inner" /\ pc' = [pc EXCEPT ![r] = "finish"]
        /\ Started(r) /\ Identified(r) /\ HasId(r) /\ inner[r] # Nobody
        /\ UNCHANGED <<input, outer, outerC, env, reqid, writer, proxy, ran, logged>>
    BY DEF LeaveInner, Goto, Started, Identified, BeforeIdentified, HasId, PipelineInv,
           InnerInv, WithInner
  <1>2. TypeOK /\ inner[r] \in Requests /\ "finish" \in Steps
        /\ "finish" \notin BeforeInner /\ "leave inner" \notin BeforeInner
    BY <1>1 DEF PipelineInv, TypeOK, Steps, BeforeInner
  <1>3. /\ innerC' = [innerC EXCEPT ![inner[r]] = Nobody]
        /\ pools' = [pools EXCEPT !.inner = @ \cup {inner[r]}]
        /\ inner' = [inner EXCEPT ![r] = Nobody]
    BY DEF LeaveInner
  <1>4. /\ pc'[r] = "finish" /\ inner'[r] = Nobody
        /\ \A q \in Requests \ {r} : pc'[q] = pc[q] /\ inner'[q] = inner[q]
        /\ \A t \in Requests \ {inner[r]} : innerC'[t] = innerC[t]
        /\ pools'.inner = pools.inner \cup {inner[r]} /\ pools'.outer = pools.outer
    BY <1>1, <1>2, <1>3 DEF TypeOK
  <1>5. \A q \in Requests \ {r} : inner[q] # Nobody => inner[q] \in Requests \ {inner[r]}
    <2>1. inner \in [Requests -> Requests \cup {Nobody}]
      BY <1>2 DEF TypeOK
    <2> QED
      BY <1>1, <2>1 DEF PipelineInv, StacksExclusive
  <1>6. TypeOK'
    <2>1. pools' \in [outer : SUBSET Requests, inner : SUBSET Requests]
      BY <1>2, <1>3 DEF TypeOK
    <2>2. inner' \in [Requests -> Requests \cup {Nobody}]
      BY <1>2, <1>3 DEF TypeOK
    <2>3. innerC' \in [Requests -> Requests \cup {Nobody}]
      BY <1>2, <1>3 DEF TypeOK
    <2>4. pc' \in [Requests -> Steps]
      BY <1>1, <1>2 DEF TypeOK
    <2> QED
      BY <1>1, <1>2, <2>1, <2>2, <2>3, <2>4 DEF TypeOK
  <1>7. StacksExclusive'
    <2>1. \A q \in Requests : Started(q)' <=> Started(q)
      BY <1>1, <1>4 DEF Started
    <2>4. Nobody \notin pools.inner /\ Nobody # inner[r]
      BY <1>2, NobodyAssumption DEF TypeOK
    <2>2. \A q \in Requests : inner'[q] \notin pools'.inner
      <3>1. inner'[r] \notin pools'.inner
        BY <1>4, <2>4
      <3>2. \A q \in Requests \ {r} : inner[q] \notin pools.inner
        BY DEF PipelineInv, StacksExclusive
      <3>3. \A q \in Requests \ {r} : inner[q] # inner[r]
        BY <1>5, <2>4
      <3> QED
        BY <1>4, <3>1, <3>2, <3>3
    <2>3. \A p, q \in Requests : inner'[p] = inner'[q] /\ inner'[p] # Nobody => p = q
      <3>1. \A p, q \in Requests : inner[p] = inner[q] /\ inner[p] # Nobody => p = q
        BY DEF PipelineInv, StacksExclusive
      <3> QED
        BY <1>4, <3>1
    <2> QED
      BY <1>1, <1>4, <2>1, <2>2, <2>3 DEF PipelineInv, StacksExclusive
  <1>8. StacksToBuild'
    <2>1. \A q \in Requests : pc'[q] \in BeforeInner => pc[q] \in BeforeInner /\ inner[r] # q
      <3>1. \A q \in Requests : pc[q] \in BeforeInner => inner[r] # q
        BY DEF PipelineInv, StacksToBuild
      <3> QED
        BY <1>2, <1>4, <3>1
    <2>2. \A q \in Requests : pc'[q] = "idle" => pc[q] = "idle"
      BY <1>4
    <2>3. \A p, q \in Requests : inner[p] # q => inner'[p] # q
      BY <1>4, NobodyAssumption
    <2>4. ASSUME NEW q \in Requests, pc'[q] = "idle"
          PROVE  q \notin pools'.outer /\ \A p \in Requests : outer'[p] # q
      <3>1. q \notin pools.outer /\ \A p \in Requests : outer[p] # q
        BY <2>2, <2>4 DEF PipelineInv, StacksToBuild
      <3> QED
        BY <1>1, <1>4, <3>1
    <2>5. ASSUME NEW q \in Requests, pc'[q] \in BeforeInner
          PROVE  q \notin pools'.inner /\ \A p \in Requests : inner'[p] # q
      <3>1. q \notin pools.inner /\ \A p \in Requests : inner[p] # q
        BY <2>1, <2>5 DEF PipelineInv, StacksToBuild
      <3> QED
        BY <1>4, <2>1, <2>3, <2>5, <3>1
    <2> QED
      BY <2>4, <2>5 DEF StacksToBuild
  <1>9. OwnEnvironment' /\ ContextCleared'
    <2>1. \A q \in Requests : Identified(q)' => Identified(q)
      BY <1>1, <1>4 DEF Identified
    <2>2. \A q \in Requests : inner'[q] # Nobody => innerC'[inner'[q]] = q
      <3>1. \A q \in Requests : inner[q] # Nobody => innerC[inner[q]] = q
        BY DEF PipelineInv, OwnEnvironment
      <3> QED
        BY <1>4, <1>5, <3>1
    <2>3. OwnEnvironment'
      BY <1>1, <2>1, <2>2 DEF PipelineInv, OwnEnvironment
    <2>4. ContextCleared'
      BY <1>1, <1>4 DEF PipelineInv, ContextCleared
    <2> QED
      BY <2>3, <2>4
  <1>10. \A q \in Requests : InnerInv(q)'
    BY <1>4 DEF PipelineInv, InnerInv, WithInner
  <1>11. UploadIsAuthorized' /\ \A q \in Requests : AuthorizationInv(q)'
    BY <1>1, <1>2, AuthorizationKept
  <1>12. LogInv'
    BY <1>1, <1>2, LogKept DEF PipelineInv, LogInv
  <1> QED
    BY <1>6, <1>7, <1>8, <1>9, <1>10, <1>11, <1>12 DEF PipelineInv

LEMMA RecoverStep ==
    ASSUME PipelineInv, NEW r \in Requests, Recover(r)
    PROVE  PipelineInv'
  <1>1. /\ pc[r] = "panic" /\ pc' = [pc EXCEPT ![r] = "finish"]
        /\ Started(r) /\ Identified(r) /\ HasId(r)
        /\ UNCHANGED <<input, outer, outerC, innerC, pools, env, reqid, proxy, ran, logged>>
        /\ inner' = [inner EXCEPT ![r] = Nobody]
    BY DEF Recover, Goto, Started, Identified, BeforeIdentified, HasId
  <1>2. /\ inner \in [Requests -> Requests \cup {Nobody}] /\ pc \in [Requests -> Steps]
        /\ writer \in [Requests -> Writers] /\ "finish" \in Steps
        /\ "finish" \notin BeforeInner /\ "panic" \notin BeforeInner
        /\ pools \in [outer : SUBSET Requests, inner : SUBSET Requests]
    BY DEF PipelineInv, TypeOK, Steps, BeforeInner
  <1>3. /\ pc'[r] = "finish" /\ inner'[r] = Nobody
        /\ \A q \in Requests \ {r} : pc'[q] = pc[q] /\ inner'[q] = inner[q]
    BY <1>1, <1>2
  <1>4. PICK w \in Writers : writer' = [writer EXCEPT ![r] = w] /\ WriterInv(w, input[r].method)
    <2>1. 500 \in Codes \ {0} /\ "internal server error" \in Pieces
      BY DEF Codes, Pieces
    <2>2. writer[r] \in Writers /\ WriterInv(writer[r], input[r].method)
      BY <1>2 DEF PipelineInv, LogInv
    <2>3. /\ WriteHeader(writer[r], 500) \in Writers
          /\ WriterInv(WriteHeader(writer[r], 500), input[r].method)
      BY <2>1, <2>2, WriteHeaderType, ZenonT(40)
    <2>4. PICK breaks \in BOOLEAN :
              writer' = [writer EXCEPT ![r] = Write(WriteHeader(writer[r], 500), input[r].method,
                                                    "internal server error", breaks)]
      BY DEF Recover, AnswerPanic
    <2> DEFINE w == Write(WriteHeader(writer[r], 500), input[r].method, "internal server error", breaks)
    <2>5. w \in Writers /\ WriterInv(w, input[r].method)
      BY <2>1, <2>3, WriteType, ZenonT(40)
    <2> HIDE DEF w
    <2>6. writer' = [writer EXCEPT ![r] = w]
      BY <2>4 DEF w
    <2> QED
      BY <2>5, <2>6
  <1>5. /\ writer' \in [Requests -> Writers]
          /\ \A q \in Requests : WriterInv(writer[q]', input[q].method)
        /\ \A q \in Requests \ {r} : writer[q]' = writer[q]
    BY <1>2, <1>4 DEF PipelineInv, LogInv
  <1>6. TypeOK'
    <2>1. inner' \in [Requests -> Requests \cup {Nobody}]
      BY <1>1, <1>2
    <2>2. pc' \in [Requests -> Steps]
      BY <1>1, <1>2
    <2> QED
      BY <1>1, <1>5, <2>1, <2>2 DEF PipelineInv, TypeOK
  <1>7. StacksExclusive'
    <2>1. \A q \in Requests : Started(q)' <=> Started(q)
      BY <1>1, <1>3 DEF Started
    <2>2. \A q \in Requests : inner'[q] \notin pools'.inner
      <3>1. Nobody \notin pools.inner
        BY <1>2, NobodyAssumption
      <3> QED
        BY <1>1, <1>3, <3>1 DEF PipelineInv, StacksExclusive
    <2>3. \A p, q \in Requests : inner'[p] = inner'[q] /\ inner'[p] # Nobody => p = q
      BY <1>3 DEF PipelineInv, StacksExclusive
    <2> QED
      BY <1>1, <2>1, <2>2, <2>3 DEF PipelineInv, StacksExclusive
  <1>8. StacksToBuild'
    <2>1. \A q \in Requests : pc'[q] \in BeforeInner => pc[q] \in BeforeInner
      BY <1>2, <1>3
    <2>2. \A q \in Requests : pc'[q] = "idle" => pc[q] = "idle"
      BY <1>3
    <2>3. \A p, q \in Requests : inner[p] # q => inner'[p] # q
      BY <1>3, NobodyAssumption
    <2> QED
      BY <1>1, <2>1, <2>2, <2>3 DEF PipelineInv, StacksToBuild
  <1>9. OwnEnvironment' /\ ContextCleared'
    <2>1. \A q \in Requests : Identified(q)' => Identified(q)
      BY <1>1, <1>3 DEF Identified
    <2>2. \A q \in Requests : inner'[q] # Nobody => innerC'[inner'[q]] = q
      BY <1>1, <1>3 DEF PipelineInv, OwnEnvironment
    <2> QED
      BY <1>1, <1>3, <2>1, <2>2 DEF PipelineInv, OwnEnvironment, ContextCleared
  <1>10. \A q \in Requests : InnerInv(q)'
    BY <1>3 DEF PipelineInv, InnerInv, WithInner
  <1>11. UploadIsAuthorized' /\ \A q \in Requests : AuthorizationInv(q)'
    BY <1>1, <1>2, AuthorizationKept
  <1>12. LogInv'
    BY <1>1, <1>2, <1>5, LogKept
  <1> QED
    BY <1>6, <1>7, <1>8, <1>9, <1>10, <1>11, <1>12 DEF PipelineInv

LEMMA FinishStep ==
    ASSUME PipelineInv, NEW r \in Requests, Finish(r)
    PROVE  PipelineInv'
  <1>1. /\ pc[r] = "finish" /\ pc' = [pc EXCEPT ![r] = "release"]
        /\ Started(r) /\ Identified(r) /\ HasId(r)
        /\ UNCHANGED <<input, outer, inner, outerC, innerC, pools, env, reqid, proxy, ran>>
    BY DEF Finish, Goto, Started, Identified, BeforeIdentified, HasId
  <1>2. outerC[outer[r]] = r /\ inner[r] = Nobody
    BY <1>1 DEF PipelineInv, OwnEnvironment, InnerInv, WithInner
  <1>3. /\ pc \in [Requests -> Steps] /\ writer \in [Requests -> Writers]
        /\ env \in [Requests -> Envs]
        /\ logged \in [Requests -> [id : Nat, status : Codes, size : Nat]]
        /\ \A q \in Requests : WriterInv(writer[q], input[q].method)
    BY DEF PipelineInv, TypeOK, LogInv
  <1>4. PICK w \in Writers :
            w = maybeWriteHeader(writer[r]) /\ WriterInv(w, input[r].method) /\ w.wrote
    BY <1>3, WriteType DEF Pieces
  <1> DEFINE line == [id |-> env[r].id, status |-> w.code, size |-> w.bytes]
  <1>5. writer' = [writer EXCEPT ![r] = w] /\ logged' = [logged EXCEPT ![r] = line]
    BY <1>2, <1>4 DEF Finish
  <1>6. line \in [id : Nat, status : Codes, size : Nat]
    BY <1>3, <1>4 DEF Envs, Writers
  <1>7. line.id = env[r].id /\ line.status = w.code /\ line.size = w.bytes
    OBVIOUS
  <1> HIDE DEF line
  <1>8. /\ writer' \in [Requests -> Writers] /\ writer'[r] = w
        /\ logged' \in [Requests -> [id : Nat, status : Codes, size : Nat]] /\ logged'[r] = line
        /\ pc' \in [Requests -> Steps] /\ pc'[r] = "release"
        /\ \A q \in Requests \ {r} : /\ pc'[q] = pc[q] /\ writer'[q] = writer[q]
                                     /\ logged'[q] = logged[q]
    BY <1>1, <1>3, <1>5, <1>6 DEF Steps
  <1>9. TypeOK'
    BY <1>1, <1>8 DEF PipelineInv, TypeOK
  <1>10. "release" \in Steps \ {"idle", "done"} /\ "release" \notin BeforeInner
         /\ "release" \notin WithInner
    BY DEF Steps, BeforeInner, WithInner
  <1>11. StacksExclusive' /\ StacksToBuild' /\ \A q \in Requests : InnerInv(q)'
    BY <1>1, <1>2, <1>10, StacksKept
  <1>12. OwnEnvironment' /\ ContextCleared'
    BY <1>1, <1>10, EnvironmentKept
  <1>13. UploadIsAuthorized' /\ \A q \in Requests : AuthorizationInv(q)'
    BY <1>1, <1>10, AuthorizationKept
  <1>14. LogInv'
    <2>1. \A q \in Requests : HasId(q)' <=> HasId(q)
      BY <1>1, <1>8 DEF HasId
    <2>2. \A q \in Requests : WriterInv(writer'[q], input[q].method)
      BY <1>3, <1>4, <1>8
    <2>3. \A q \in Requests : pc'[q] \in {"release", "done"} =>
              /\ logged'[q].id = env[q].id /\ writer'[q].wrote
              /\ logged'[q].status = writer'[q].code /\ logged'[q].size = writer'[q].bytes
      BY <1>4, <1>7, <1>8 DEF PipelineInv, LogInv
    <2>4. \A q \in Requests : pc'[q] = "idle" => writer'[q] = NoWriter
      BY <1>8 DEF PipelineInv, LogInv
    <2> QED
      BY <1>1, <2>1, <2>2, <2>3, <2>4 DEF PipelineInv, LogInv
  <1> QED
    BY <1>9, <1>11, <1>12, <1>13, <1>14 DEF PipelineInv

LEMMA ReleaseStep ==
    ASSUME PipelineInv, NEW r \in Requests, Release(r)
    PROVE  PipelineInv'
  <1>1. /\ pc[r] = "release" /\ pc' = [pc EXCEPT ![r] = "done"]
        /\ Started(r) /\ Identified(r) /\ HasId(r)
        /\ UNCHANGED <<input, inner, innerC, env, reqid, writer, proxy, ran, logged>>
    BY DEF Release, Goto, Started, Identified, BeforeIdentified, HasId
  <1>2. /\ outerC' = [outerC EXCEPT ![outer[r]] = Nobody]
        /\ pools' = [pools EXCEPT !.outer = @ \cup {outer[r]}]
        /\ outer' = [outer EXCEPT ![r] = Nobody]
    BY DEF Release
  <1>3. /\ outer \in [Requests -> Requests \cup {Nobody}] /\ pc \in [Requests -> Steps]
        /\ outerC \in [Requests -> Requests \cup {Nobody}]
        /\ pools \in [outer : SUBSET Requests, inner : SUBSET Requests]
        /\ "done" \in Steps /\ "done" \notin BeforeInner /\ "release" \notin BeforeInner
    BY DEF PipelineInv, TypeOK, Steps, BeforeInner
  <1>4. outer[r] \in Requests /\ outer[r] # Nobody
    BY <1>1, <1>3, NobodyAssumption DEF PipelineInv, StacksExclusive
  <1>5. /\ pc'[r] = "done" /\ outer'[r] = Nobody
        /\ \A q \in Requests \ {r} : pc'[q] = pc[q] /\ outer'[q] = outer[q]
        /\ \A t \in Requests \ {outer[r]} : outerC'[t] = outerC[t]
        /\ pools'.outer = pools.outer \cup {outer[r]} /\ pools'.inner = pools.inner
    BY <1>1, <1>2, <1>3, <1>4
  <1>6. \A q \in Requests \ {r} : outer[q] # Nobody => outer[q] \in Requests \ {outer[r]}
    BY <1>3, <1>4 DEF PipelineInv, StacksExclusive
  <1>7. TypeOK'
    <2>1. pools' \in [outer : SUBSET Requests, inner : SUBSET Requests]
      BY <1>2, <1>3, <1>4
    <2>2. outer' \in [Requests -> Requests \cup {Nobody}]
      BY <1>2, <1>3
    <2>3. outerC' \in [Requests -> Requests \cup {Nobody}]
      BY <1>2, <1>3
    <2>4. pc' \in [Requests -> Steps]
      BY <1>1, <1>3
    <2> QED
      BY <1>1, <2>1, <2>2, <2>3, <2>4 DEF PipelineInv, TypeOK
  <1>8. \A q \in Requests \ {r} : Started(q)' <=> Started(q)
    BY <1>5 DEF Started
  <1>9. StacksExclusive'
    <2>1. ~Started(r)'
      BY <1>5 DEF Started
    <2>2. \A q \in Requests : Started(q)' <=> outer'[q] # Nobody
      BY <1>5, <1>8, <2>1 DEF PipelineInv, StacksExclusive
    <2>3. \A q \in Requests : outer'[q] \notin pools'.outer
      <3>1. Nobody \notin pools.outer
        BY <1>3, NobodyAssumption
      <3> QED
        BY <1>4, <1>5, <1>6, <3>1 DEF PipelineInv, StacksExclusive
    <2>4. \A p, q \in Requests : outer'[p] = outer'[q] /\ outer'[p] # Nobody => p = q
      BY <1>5 DEF PipelineInv, StacksExclusive
    <2> QED
      BY <1>1, <1>5, <2>2, <2>3, <2>4 DEF PipelineInv, StacksExclusive
  <1>10. StacksToBuild'
    <2>1. \A q \in Requests : pc'[q] \in BeforeInner => pc[q] \in BeforeInner
      BY <1>3, <1>5
    <2>2. \A q \in Requests : pc'[q] = "idle" => pc[q] = "idle" /\ outer[r] # q
      BY <1>5 DEF PipelineInv, StacksToBuild
    <2>3. \A p, q \in Requests : outer[p] # q => outer'[p] # q
      BY <1>5, NobodyAssumption
    <2> QED
      BY <1>1, <1>5, <2>1, <2>2, <2>3 DEF PipelineInv, StacksToBuild
  <1>11. ContextCleared' /\ OwnEnvironment'
    <2>1. \A q \in Requests : Started(q) => outer[q] # Nobody
      BY DEF PipelineInv, StacksExclusive
    <2>2. \A q \in Requests : Identified(q)' =>
              q # r /\ Identified(q) /\ outer'[q] = outer[q] /\ outer[q] \in Requests \ {outer[r]}
      BY <1>5, <1>6, <2>1 DEF Identified, BeforeIdentified, Started
    <2>3. \A q \in Requests : pc'[q] = "identify" =>
              /\ q # r /\ pc[q] = "identify" /\ outer'[q] = outer[q]
              /\ outer[q] \in Requests \ {outer[r]}
      BY <1>5, <1>6, <2>1 DEF Started
    <2>4. ContextCleared'
      BY <1>5, <2>3 DEF PipelineInv, ContextCleared
    <2>5. OwnEnvironment'
      BY <1>1, <1>5, <2>2 DEF PipelineInv, OwnEnvironment
    <2> QED
      BY <2>4, <2>5
  <1>12. \A q \in Requests : InnerInv(q)'
    BY <1>1, <1>5 DEF PipelineInv, InnerInv, WithInner
  <1>13. UploadIsAuthorized' /\ \A q \in Requests : AuthorizationInv(q)'
    BY <1>1, <1>3, AuthorizationKept
  <1>14. LogInv'
    <2>1. \A q \in Requests : HasId(q)' <=> HasId(q)
      BY <1>1, <1>5 DEF HasId
    <2>2. \A q \in Requests : pc'[q] \in {"release", "done"} => pc[q] \in {"release", "done"}
      BY <1>1, <1>5
    <2> QED
      BY <1>1, <2>1, <2>2 DEF PipelineInv, LogInv
  <1> QED
    BY <1>7, <1>9, <1>10, <1>11, <1>12, <1>13, <1>14 DEF PipelineInv

LEMMA PipelineNext == PipelineInv /\ [Next]_vars => PipelineInv'
  <1> SUFFICES ASSUME PipelineInv, [Next]_vars PROVE PipelineInv'
    OBVIOUS
  <1>1. CASE UNCHANGED vars
    <2>1. TypeOK'
      BY <1>1 DEF vars, PipelineInv, TypeOK
    <2>2. StacksExclusive' /\ StacksToBuild' /\ ContextCleared'
      BY <1>1 DEF vars, PipelineInv, StacksExclusive, StacksToBuild, ContextCleared, Started
    <2>3. OwnEnvironment' /\ UploadIsAuthorized'
      BY <1>1 DEF vars, PipelineInv, OwnEnvironment, UploadIsAuthorized, Authorized, Identified
    <2>4. \A q \in Requests : InnerInv(q)' /\ AuthorizationInv(q)'
      BY <1>1 DEF vars, PipelineInv, InnerInv, AuthorizationInv, Authorized
    <2>5. LogInv'
      BY <1>1 DEF vars, PipelineInv, LogInv, HasId
    <2> QED
      BY <2>1, <2>2, <2>3, <2>4, <2>5 DEF PipelineInv
  <1>2. ASSUME NEW r \in Requests, Begin(r) \/ Serve(r) \/ RunHandler(r) PROVE PipelineInv'
    BY <1>2, BeginStep, IdentifyStep, InjectStep, RouteOuterStep, EnterInnerStep,
       AuthenticateStep, RouteInnerStep, ServeNotFoundStep, ServeIndexStep, ServeAssetStep,
       ServeUploadStep, LeaveInnerStep, RecoverStep, FinishStep, ReleaseStep DEF Serve, RunHandler
  <1> QED
    BY <1>1, <1>2 DEF Next

-----------------------------------------------------------------------------
(* Patterns without parameters.                                               *)

\* A literal path and "/*" as patterns.
LEMMA LiteralPath ==
    ASSUME NEW raw \in Seq(Nat), IsLiteral(raw), NEW path
    PROVE  Matches(parseStringPattern(raw), path) <=> path = raw
  <1>1. ~IsSuffix(<<Slash, Star>>, raw)
    <2>1. Len(raw) \in Nat /\ DOMAIN raw = 1..Len(raw) /\ \A i \in 1..Len(raw) : raw[i] # Star
      BY DEF IsLiteral
    <2>2. ASSUME IsSuffix(<<Slash, Star>>, raw) PROVE FALSE
      <3>1. /\ Len(Reverse(<<Slash, Star>>)) = 2 /\ Reverse(<<Slash, Star>>)[1] = Star
            /\ Len(Reverse(raw)) = Len(raw) /\ (Len(raw) >= 1 => Reverse(raw)[1] = raw[Len(raw)])
        BY <2>1 DEF Reverse
      <3>2. 2 <= Len(raw) /\ SubSeq(Reverse(<<Slash, Star>>), 1, 2)[1] = SubSeq(Reverse(raw), 1, 2)[1]
        BY <2>2, <3>1 DEF IsSuffix, IsPrefix
      <3> QED
        BY <2>1, <3>1, <3>2
    <2> QED
      BY <2>2
  <1>2. \A i \in DOMAIN raw : raw[i] # Colon
    BY DEF IsLiteral
  <1> DEFINE p == parseStringPattern(raw)
  <1>3. IsSuffix(<<Slash, Star>>, raw) = FALSE
    <2>1. IsSuffix(<<Slash, Star>>, raw) \in BOOLEAN
      BY DEF IsSuffix, IsPrefix
    <2> QED
      BY <1>1, <2>1
  <1>4. p.wildcard = FALSE /\ p.pats = <<>> /\ p.literals = <<raw>>
    BY <1>2, <1>3, NoParameters
  <1> QED
    BY <1>4, LiteralMatches

LEMMA EveryPath ==
    ASSUME NEW path
    PROVE  Matches(parseStringPattern(<<Slash, Star>>), path) <=> IsPrefix(Root, path)
  <1>1. IsSuffix(<<Slash, Star>>, <<Slash, Star>>)
    BY DEF IsSuffix, IsPrefix
  <1>2. Front(<<Slash, Star>>) = Root
    <2> DEFINE pattern == <<Slash, Star>>
               front == SubSeq(pattern, 1, 1)
    <2>1. pattern \in Seq({Slash, Star}) /\ Len(pattern) = 2 /\ pattern[1] = Slash
      OBVIOUS
    <2>2. Front(pattern) = front
      BY <2>1 DEF Front
    <2> HIDE DEF pattern
    <2>3. front \in Seq({Slash, Star}) /\ Len(front) = 1 /\ front[1] = Slash
      BY <2>1
    <2> HIDE DEF front
    <2>4. front = <<Slash>>
      BY <2>3
    <2> QED
      BY <2>2, <2>4 DEF pattern, Root
  <1>3. Root \in Seq(Nat) /\ \A i \in DOMAIN Root : Root[i] # Colon
    BY DEF Root, Slash, Colon
  <1> DEFINE p == parseStringPattern(<<Slash, Star>>)
  <1>4. IsSuffix(<<Slash, Star>>, <<Slash, Star>>) = TRUE
    <2>1. IsSuffix(<<Slash, Star>>, <<Slash, Star>>) \in BOOLEAN
      BY DEF IsSuffix, IsPrefix
    <2> QED
      BY <1>1, <2>1
  <1>5. p.wildcard = TRUE /\ p.pats = <<>> /\ p.literals = <<Root>>
    BY <1>2, <1>3, <1>4, NoParameters
  <1> QED
    BY <1>5, LiteralMatches

-----------------------------------------------------------------------------
(* What the muxes find.                                                       *)

\* RouteOuter and RouteInner take the first match in the list of the routes.  The sorted and
\* compiled tables of both muxes, for whatever assets, find no other, whatever is asked.
THEOREM MuxesAreFirstMatch ==
    ASSUME NEW paths, paths = {in.path : in \in Inputs}
    PROVE  /\ RoutesAgree(OuterRoutes, TableOf(OuterRoutes), compile(TableOf(OuterRoutes)), paths)
           /\ RoutesAgree(InnerRoutes, TableOf(InnerRoutes), compile(TableOf(InnerRoutes)), paths)
  <1> DEFINE raws == {Root, <<Slash, Star>>, UploadPath} \cup {Assets[i] : i \in DOMAIN Assets}
             of(raw) == {Get(raw, "index"), Get(raw, "asset"), Handle(raw, "inner"), Post(raw, "upload")}
             R == UNION {of(raw) : raw \in raws}
             a == [i \in DOMAIN Assets |-> Get(Assets[i], "asset")]
             first == Get(Root, "index")
             last == Handle(<<Slash, Star>>, "inner")
             only == Post(UploadPath, "upload")
  <1>1. paths \in SUBSET Seq(Nat)
    BY InputsAssumption
  <1>2. Len(Assets) \in Nat /\ DOMAIN Assets = 1..Len(Assets)
    BY AssetsAssumption
  <1>3. \A raw \in raws : raw \in Seq(Nat)
    <2>1. Root \in Seq(Nat) /\ <<Slash, Star>> \in Seq(Nat)
      <3>1. Slash \in Nat /\ Star \in Nat
        BY DEF Slash, Star
      <3> QED
        BY <3>1 DEF Root
    <2>2. \A i \in DOMAIN Assets : Assets[i] \in Seq(Nat)
      BY <1>2, AssetsAssumption
    <2> QED
      BY <2>1, <2>2, AssetsAssumption
  <1>4. Parsed(R)
    <2>1. \A raw \in raws : \A r \in of(raw) : r.pattern = parseStringPattern(raw)
      BY DEF Get, Handle, Post, Route
    <2> HIDE DEF raws, of
    <2> QED
      BY <1>3, <2>1 DEF Parsed
  <1>5. first \in R /\ last \in R /\ only \in R /\ \A i \in DOMAIN Assets : a[i] \in R
    <2>1. Root \in raws /\ <<Slash, Star>> \in raws /\ UploadPath \in raws
          /\ \A i \in DOMAIN Assets : Assets[i] \in raws
      OBVIOUS
    <2>2. \A raw \in raws : of(raw) \subseteq R
      OBVIOUS
    <2>3. first \in of(Root) /\ last \in of(<<Slash, Star>>) /\ only \in of(UploadPath)
          /\ \A i \in DOMAIN Assets : a[i] \in of(Assets[i])
      OBVIOUS
    <2> HIDE DEF raws, of, R, a, first, last, only
    <2> QED
      BY <2>1, <2>2, <2>3
  <1>6. OuterRoutes = <<first>> \o a \o <<last>> /\ InnerRoutes = <<only>>
    BY DEF OuterRoutes, InnerRoutes
  <1> HIDE DEF R, first, last, only
  <1>7. a \in Seq(R)
    <2>1. a \in [1..Len(Assets) -> R]
      BY <1>2, <1>5
    <2> QED
      BY <1>2, <2>1
  <1> HIDE DEF a
  <1>8. OuterRoutes \in Seq(R) /\ InnerRoutes \in Seq(R)
    BY <1>5, <1>6, <1>7
  <1> QED
    BY <1>1, <1>4, <1>8, RouterIsFirstMatch

\* The outer mux's table, route by route.
LEMMA OuterTable ==
    ASSUME NEW n, n = Len(Assets)
    PROVE  /\ n \in Nat /\ DOMAIN OuterRoutes = 1..n + 2
           /\ OuterRoutes[1] = Get(Root, "index")
           /\ \A i \in 1..n : OuterRoutes[i + 1] = Get(Assets[i], "asset")
           /\ OuterRoutes[n + 2] = Handle(<<Slash, Star>>, "inner")
  <1> DEFINE a == [i \in DOMAIN Assets |-> Get(Assets[i], "asset")]
             first == Get(Root, "index")
             last == Handle(<<Slash, Star>>, "inner")
             T == {first, last} \cup {a[i] : i \in DOMAIN Assets}
  <1>1. n \in Nat /\ DOMAIN Assets = 1..n
    BY AssetsAssumption
  <1>2. \A i \in 1..n : a[i] = Get(Assets[i], "asset")
    BY <1>1
  <1>3. a \in Seq(T) /\ Len(a) = n /\ first \in T /\ last \in T
    <2>1. a \in [1..n -> T]
      BY <1>1
    <2> QED
      BY <1>1, <2>1
  <1>4. OuterRoutes = <<first>> \o a \o <<last>>
    BY DEF OuterRoutes
  <1> HIDE DEF first, last, a, T
  <1>5. <<first>> \o a \in Seq(T) /\ Len(<<first>> \o a) = n + 1
    BY <1>1, <1>3
  <1>6. Len(OuterRoutes) = n + 2 /\ OuterRoutes \in Seq(T)
    BY <1>1, <1>3, <1>4, <1>5
  <1>7. OuterRoutes[n + 2] = last
    BY <1>1, <1>3, <1>4, <1>5
  <1>8. \A i \in 1..n + 1 : OuterRoutes[i] = (<<first>> \o a)[i]
    BY <1>1, <1>3, <1>4, <1>5
  <1>9. OuterRoutes[1] = first /\ \A i \in 1..n : OuterRoutes[i + 1] = a[i]
    <2>1. (<<first>> \o a)[1] = first
      BY <1>1, <1>3
    <2>2. ASSUME NEW i \in 1..n PROVE i + 1 \in 1..n + 1 /\ (<<first>> \o a)[i + 1] = a[i]
      BY <1>1, <1>3
    <2>3. 1 \in 1..n + 1
      BY <1>1
    <2> DEFINE head == <<first>> \o a
    <2> HIDE DEF head
    <2>4. \A i \in 1..n + 1 : OuterRoutes[i] = head[i]
      BY <1>8 DEF head
    <2>5. head[1] = first /\ \A i \in 1..n : i + 1 \in 1..n + 1 /\ head[i + 1] = a[i]
      BY <2>1, <2>2 DEF head
    <2> QED
      BY ONLY <2>3, <2>4, <2>5
  <1> QED
    BY <1>1, <1>2, <1>6, <1>7, <1>9 DEF first, last

\* A literal path begins with a slash.
LEMMA FirstOf ==
    ASSUME NEW path \in Seq(Nat), path # <<>>, path[1] = Slash
    PROVE  SubSeq(path, 1, 1) = <<Slash>>
  <1> DEFINE first == SubSeq(path, 1, 1)
  <1>1. Slash \in Nat /\ Len(path) \in Nat /\ 1 <= Len(path)
    BY DEF Slash
  <1>2. first \in Seq(Nat) /\ Len(first) = 1 /\ first[1] = Slash
    BY <1>1
  <1> HIDE DEF first
  <1>3. first = <<Slash>>
    BY <1>1, <1>2
  <1> QED
    BY <1>3 DEF first

LEMMA LiteralIsAbsolute ==
    ASSUME NEW path \in Seq(Nat), IsLiteral(path)
    PROVE  IsPrefix(Root, path)
  <1>1. Len(path) \in Nat /\ 1 <= Len(path) /\ path[1] = Slash /\ path # <<>>
    BY DEF IsLiteral
  <1>2. Root \in Seq(Nat) /\ Root # <<>> /\ Root[1] = Slash /\ Len(Root) = 1
    BY DEF Root, Slash
  <1>3. SubSeq(path, 1, 1) = <<Slash>> /\ SubSeq(Root, 1, 1) = <<Slash>>
    BY <1>1, <1>2, FirstOf
  <1> QED
    BY <1>1, <1>2, <1>3 DEF IsPrefix

LEMMA RootIsLiteral == Root \in Seq(Nat) /\ IsLiteral(Root)
  BY DEF Root, IsLiteral, Slash, Colon, Star

\* Which routes of the outer mux match a request.
LEMMA OuterMatches ==
    ASSUME NEW n, n = Len(Assets), NEW path
    PROVE  /\ Matches(OuterRoutes[1].pattern, path) <=> path = Root
           /\ \A i \in 1..n : Matches(OuterRoutes[i + 1].pattern, path) <=> path = Assets[i]
           /\ Matches(OuterRoutes[n + 2].pattern, path) <=> IsPrefix(Root, path)
           /\ OuterRoutes[1].methods = {"GET", "HEAD"} /\ OuterRoutes[1].handler = "index"
           /\ \A i \in 1..n : /\ OuterRoutes[i + 1].methods = {"GET", "HEAD"}
                              /\ OuterRoutes[i + 1].handler = "asset"
           /\ OuterRoutes[n + 2].methods = AllMethods /\ OuterRoutes[n + 2].handler = "inner"
  <1>1. \A raw, handler : /\ Get(raw, handler).pattern = parseStringPattern(raw)
                          /\ Get(raw, handler).methods = {"GET", "HEAD"}
                          /\ Get(raw, handler).handler = handler
                          /\ Handle(raw, handler).pattern = parseStringPattern(raw)
                          /\ Handle(raw, handler).methods = AllMethods
                          /\ Handle(raw, handler).handler = handler
    BY DEF Get, Handle, Route
  <1>2. \A i \in 1..n : Assets[i] \in Seq(Nat) /\ IsLiteral(Assets[i])
    BY AssetsAssumption DEF Range
  <1>3. \A i \in 1..n : Matches(parseStringPattern(Assets[i]), path) <=> path = Assets[i]
    BY <1>2, LiteralPath
  <1>4. Matches(parseStringPattern(Root), path) <=> path = Root
    BY RootIsLiteral, LiteralPath
  <1>5. Matches(parseStringPattern(<<Slash, Star>>), path) <=> IsPrefix(Root, path)
    BY EveryPath
  <1> QED
    BY <1>1, <1>3, <1>4, <1>5, OuterTable

\* The outer mux sends a request where its method and path tell, and notes no methods.
LEMMA OuterRouting ==
    ASSUME NEW in \in Inputs, NEW found, found = FirstMatch(OuterRoutes, in.path, in.method)
    PROVE  /\ found.methods = {}
           /\ OuterHandler(in) = IF found.route = NoRoute THEN "not found"
                                 ELSE OuterRoutes[found.route].handler
  <1> DEFINE n == Len(Assets)
             path == in.path
             usable == {i \in {i \in DOMAIN OuterRoutes : Matches(OuterRoutes[i].pattern, path)} :
                           in.method \in OuterRoutes[i].methods}
             matching == {i \in DOMAIN OuterRoutes : Matches(OuterRoutes[i].pattern, path)}
  <1>1. n \in Nat /\ DOMAIN OuterRoutes = 1..n + 2 /\ DOMAIN Assets = 1..n
    <2>1. n \in Nat /\ DOMAIN Assets = 1..n
      BY AssetsAssumption
    <2> QED
      BY <2>1, OuterTable
  <1>2. in.method \in AllMethods
    BY InputsAssumption DEF AllMethods
  <1>3. /\ path = Root => IsPrefix(Root, path)
        /\ \A i \in 1..n : path = Assets[i] => IsPrefix(Root, path)
    <2>1. \A i \in 1..n : Assets[i] \in Seq(Nat) /\ IsLiteral(Assets[i])
      BY AssetsAssumption DEF Range
    <2> QED
      BY <2>1, RootIsLiteral, LiteralIsAbsolute
  <1>4. path \in Range(Assets) <=> \E i \in 1..n : path = Assets[i]
    BY <1>1 DEF Range
  <1> HIDE DEF n
  <1>5. CASE ~IsPrefix(Root, path)
    <2>1. \A k \in 1..n + 2 : ~Matches(OuterRoutes[k].pattern, path)
      <3> SUFFICES ASSUME NEW k \in 1..n + 2 PROVE ~Matches(OuterRoutes[k].pattern, path)
        OBVIOUS
      <3>1. k = 1 \/ k = n + 2 \/ k - 1 \in 1..n
        BY <1>1
      <3>2. CASE k - 1 \in 1..n
        <4>1. (k - 1) + 1 = k
          BY <1>1
        <4> QED
          BY <1>3, <1>5, <3>2, <4>1, OuterMatches DEF n
      <3> QED
        BY <1>3, <1>5, <3>1, <3>2, OuterMatches DEF n
    <2>2. matching = {} /\ usable = {}
      BY <1>1, <2>1
    <2>3. found = NotFound(UNION {OuterRoutes[i].methods : i \in matching})
      BY <2>2 DEF FirstMatch
    <2>4. found.route = NoRoute /\ found.methods = {}
      BY <2>2, <2>3 DEF NotFound
    <2> QED
      BY <1>3, <1>4, <1>5, <2>4 DEF OuterHandler
  <1>6. CASE IsPrefix(Root, path)
    <2>1. n + 2 \in usable
      BY <1>1, <1>2, <1>6, OuterMatches DEF n
    <2>2. found = Found(CHOOSE i \in usable : \A j \in usable : i <= j)
      BY <2>1 DEF FirstMatch
    <2>3. usable \in SUBSET Nat
      BY <1>1
    <2> HIDE DEF usable
    <2>4. \E i \in usable : \A j \in usable : i <= j
      BY <2>1, <2>3, FirstExists
    <2>5. found.methods = {} /\ found.route \in usable /\ \A j \in usable : found.route <= j
      BY <2>2, <2>4 DEF Found
    <2> DEFINE f == found.route
    <2>6. f \in 1..n + 2 /\ f # NoRoute
      BY <1>1, <2>5 DEF usable, NoRoute
    <2>7. f = 1 => path = Root /\ Reads(in) /\ OuterRoutes[f].handler = "index"
      BY <2>5, OuterMatches DEF usable, Reads
    <2>8. ASSUME NEW i \in 1..n, f = i + 1
          PROVE  path = Assets[i] /\ Reads(in) /\ OuterRoutes[f].handler = "asset"
      BY <2>5, <2>8, OuterMatches DEF usable, Reads, n
    <2>9. f = n + 2 => OuterRoutes[f].handler = "inner"
      BY OuterMatches DEF n
    <2>10. Reads(in) /\ path = Root => f <= 1
      <3>1. Reads(in) /\ path = Root => 1 \in usable
        BY <1>1, OuterMatches DEF usable, Reads
      <3> QED
        BY <2>5, <3>1
    <2>11. ASSUME Reads(in), NEW i \in 1..n, path = Assets[i]
           PROVE  f <= i + 1
      <3>1. i + 1 \in usable
        <4>1. i + 1 \in DOMAIN OuterRoutes
          BY <1>1
        <4> QED
          BY <2>11, <4>1, OuterMatches DEF usable, Reads, n
      <3> QED
        BY <2>5, <3>1
    <2> HIDE DEF f
    <2>12. CASE f = 1
      BY <2>5, <2>6, <2>7, <2>12 DEF OuterHandler, f
    <2>13. CASE f = n + 2
      <3>1. ~(Reads(in) /\ path = Root)
        BY <1>1, <2>10, <2>13
      <3>2. ~(Reads(in) /\ path \in Range(Assets))
        BY <1>1, <1>4, <2>11, <2>13
      <3> QED
        BY <1>6, <2>5, <2>6, <2>9, <2>13, <3>1, <3>2 DEF OuterHandler, f
    <2>14. ASSUME NEW i \in 1..n, f = i + 1
           PROVE  OuterHandler(in) = "asset" /\ OuterRoutes[f].handler = "asset"
      <3>1. Reads(in) /\ path \in Range(Assets) /\ OuterRoutes[f].handler = "asset"
        BY <1>4, <2>8, <2>14
      <3>2. path # Root
        BY <1>1, <2>10, <2>14, <3>1
      <3> QED
        BY <3>1, <3>2 DEF OuterHandler
    <2>15. f = 1 \/ f = n + 2 \/ \E i \in 1..n : f = i + 1
      <3>1. f = 1 \/ f = n + 2 \/ (f - 1 \in 1..n /\ f = (f - 1) + 1)
        BY <1>1, <2>6
      <3> QED
        BY <3>1
    <2> QED
      BY <2>5, <2>6, <2>12, <2>13, <2>14, <2>15 DEF f
  <1> QED
    BY <1>5, <1>6

\* The inner mux has a route for uploads alone, and notes its method for other requests of
\* its path.
LEMMA InnerRouting ==
    ASSUME NEW in \in Inputs, OuterHandler(in) = "inner",
           NEW found, found = FirstMatch(InnerRoutes, in.path, in.method)
    PROVE  /\ found.route # NoRoute <=> Uploads(in)
           /\ found.route # NoRoute => InnerRoutes[found.route].handler = "upload"
           /\ found.route = NoRoute => found.methods = NotedMethods(in)
  <1> DEFINE matching == {i \in DOMAIN InnerRoutes : Matches(InnerRoutes[i].pattern, in.path)}
             usable == {i \in matching : in.method \in InnerRoutes[i].methods}
  <1>1. UploadPath \in Seq(Nat) /\ IsLiteral(UploadPath)
    BY AssetsAssumption
  <1>2. \A i \in DOMAIN InnerRoutes : /\ i = 1 /\ InnerRoutes[i].methods = {"POST"}
                                      /\ Matches(InnerRoutes[i].pattern, in.path) <=> in.path = UploadPath
    BY <1>1, LiteralPath, InnerRoutesType
  <1>3. 1 \in DOMAIN InnerRoutes
    BY InnerRoutesType
  <1>4. CASE Uploads(in)
    <2>1. usable = {1}
      BY <1>2, <1>3, <1>4 DEF Uploads
    <2>2. found = Found(CHOOSE i \in usable : \A j \in usable : i <= j)
      BY <2>1 DEF FirstMatch
    <2> HIDE DEF usable
    <2>3. found = Found(1)
      BY <2>1, <2>2
    <2> QED
      BY <1>4, <2>3, InnerRoutesType DEF Found, NoRoute
  <1>5. CASE ~Uploads(in)
    <2>1. usable = {}
      BY <1>2, <1>5 DEF Uploads
    <2>2. found = NotFound(UNION {InnerRoutes[i].methods : i \in matching})
      BY <2>1 DEF FirstMatch
    <2>3. found.route = NoRoute /\ found.methods = UNION {InnerRoutes[i].methods : i \in matching}
      BY <2>2 DEF NotFound
    <2>4. CASE in.path = UploadPath
      <3>1. matching = {1}
        BY <1>2, <1>3, <2>4
      <3>2. found.methods = {"POST"}
        BY <1>2, <1>3, <2>3, <3>1
      <3> QED
        BY <1>5, <2>3, <2>4, <3>2 DEF NotedMethods
    <2>5. CASE in.path # UploadPath
      <3>1. matching = {}
        BY <1>2, <2>5
      <3>2. found.methods = {}
        BY <2>3, <3>1
      <3> QED
        BY <1>5, <2>3, <2>5, <3>2 DEF NotedMethods
    <2> QED
      BY <2>4, <2>5
  <1> QED
    BY <1>4, <1>5

-----------------------------------------------------------------------------
(* What a request is answered.                                                *)

\* The first status of a response.
LEMMA FirstStatus ==
    ASSUME NEW code \in Codes \ {0}
    PROVE  WriteHeader(NoWriter, code) =
               [wrote |-> TRUE, code |-> code, bytes |-> 0,
                sent |-> code, body |-> <<>>, allow |-> {}, broken |-> FALSE]
  BY DEF WriteHeader, NoWriter

\* What a client was sent by way of a writer.
SentBy(w) == Sent(w.sent, w.body, w.allow)

\* Whether a client that asked with a method gets no body from it.
NoBody(w, method) == method = "HEAD" \/ w.broken

LEMMA ReachingSent ==
    ASSUME NEW code, NEW body, NEW allow, NEW bodiless \in BOOLEAN
    PROVE  /\ bodiless => Reaching(Sent(code, body, allow), bodiless) = Sent(code, <<>>, allow)
           /\ ~bodiless => Reaching(Sent(code, body, allow), bodiless) = Sent(code, body, allow)
           /\ Reaching(Sent(code, <<>>, allow), bodiless) = Sent(code, <<>>, allow)
  BY DEF Reaching, Sent

\* A writer that sends a promised answer, without its body where the client gets none, keeps the promise.
LEMMA PromiseKept ==
    ASSUME NEW w, NEW in, NEW answer \in Promised(in),
           SentBy(w) = Reaching(answer, NoBody(w, in.method))
    PROVE  AsPromised(w, in)
  BY DEF AsPromised, SentBy, NoBody

LEMMA HeaderOnce ==
    ASSUME NEW w, w.wrote = TRUE
    PROVE  maybeWriteHeader(w) = w
  BY DEF maybeWriteHeader, WriteHeader

\* The first thing a handler writes reaches the client, if it is one that gets it.
LEMMA FirstWritten ==
    ASSUME NEW code \in Codes \ {0}, NEW piece, NEW method, NEW breaks \in BOOLEAN,
           NEW w, w = Write(WriteHeader(NoWriter, code), method, piece, breaks)
    PROVE  /\ maybeWriteHeader(w) = w
           /\ SentBy(w) = Reaching(Sent(code, <<piece>>, {}), NoBody(w, method))
  <1> DEFINE h == [wrote |-> TRUE, code |-> code, bytes |-> 0,
                   sent |-> code, body |-> <<>>, allow |-> {}, broken |-> FALSE]
             none == breaks \/ method = "HEAD"
             body == IF none THEN <<>> ELSE <<piece>>
  <1>1. WriteHeader(NoWriter, code) = h
    BY FirstStatus
  <1>2. maybeWriteHeader(h) = h
    BY DEF maybeWriteHeader, WriteHeader
  <1>3. /\ h.wrote = TRUE /\ h.sent = code /\ h.allow = {} /\ h.body = <<>>
        /\ (h.broken \/ breaks) = breaks /\ Append(h.body, piece) = <<piece>>
        /\ DOMAIN h = {"wrote", "code", "bytes", "sent", "body", "allow", "broken"}
    OBVIOUS
  <1> HIDE DEF h
  <1>4. w = [h EXCEPT !.bytes = h.bytes + 1, !.broken = breaks, !.body = body]
    BY <1>1, <1>2, <1>3 DEF Write
  <1> HIDE DEF body
  <1>5. /\ w.wrote = TRUE /\ w.sent = code /\ w.allow = {} /\ w.body = body
        /\ w.broken = breaks
    BY <1>3, <1>4
  <1>6. maybeWriteHeader(w) = w
    BY <1>5, HeaderOnce
  <1>7. NoBody(w, method) = none
    BY <1>5 DEF NoBody
  <1>8. CASE none
    <2>1. body = <<>>
      BY <1>8 DEF body
    <2>2. SentBy(w) = Sent(code, <<>>, {})
      BY <1>5, <2>1 DEF SentBy
    <2> QED
      BY <1>6, <1>7, <1>8, <2>2, ReachingSent
  <1>9. CASE ~none
    <2>1. body = <<piece>>
      BY <1>9 DEF body
    <2>2. SentBy(w) = Sent(code, <<piece>>, {})
      BY <1>5, <2>1 DEF SentBy
    <2> QED
      BY <1>6, <1>7, <1>9, <2>2, ReachingSent
  <1> QED
    BY <1>8, <1>9

\* What an answer is to a client, be it passed on or turned into one for OPTIONS.
LEMMA AnswerSent ==
    ASSUME PipelineInv, AnswersInv, NEW r \in Requests,
           pc[r] \in Unanswered \ {"idle", "identify"},
           NEW code \in Codes \ {0}, NEW piece, Answer(r, code, piece)
    PROVE  /\ \A q \in Requests \ {r} : writer'[q] = writer[q] /\ proxy'[q] = proxy[q]
           /\ \E w : /\ w = maybeWriteHeader(writer'[r])
                     /\ SentBy(w) = Reaching(
                            IF code = 404 /\ input[r].method = "OPTIONS" /\ env[r].methods # {}
                            THEN Sent(200, <<>>, env[r].methods \cup {"OPTIONS"})
                            ELSE Sent(code, <<piece>>, {}), NoBody(w, input[r].method))
  <1>1. /\ writer \in [Requests -> Writers]
        /\ proxy \in [Requests -> {"off", "init", "header written", "proxying"}]
    BY DEF PipelineInv, TypeOK
  <1>2. /\ writer[r] = NoWriter
        /\ proxy[r] = IF input[r].method = "OPTIONS" THEN "init" ELSE "off"
    BY DEF AnswersInv, ResponseInv
  <1>3. ValidMethods(r) = env[r].methods
    <2>1. outerC[outer[r]] = r
      BY DEF PipelineInv, OwnEnvironment, Identified, BeforeIdentified, Unanswered, Unrouted
    <2> QED
      BY <2>1, NobodyAssumption DEF ValidMethods
  <1>4. Proxies(r, code) <=> code = 404 /\ input[r].method = "OPTIONS" /\ env[r].methods # {}
    BY <1>2, <1>3 DEF Proxies
  <1>5. CASE Proxies(r, code)
    <2> DEFINE allow == env[r].methods \cup {"OPTIONS"}
               w == [wrote |-> TRUE, code |-> 200, bytes |-> 0,
                     sent |-> 200, body |-> <<>>, allow |-> allow, broken |-> FALSE]
    <2>1. /\ writer' = [writer EXCEPT ![r] = [WriteHeader(writer[r], 200) EXCEPT !.allow = allow]]
          /\ proxy' = [proxy EXCEPT ![r] = "proxying"]
      BY <1>3, <1>5 DEF Answer
    <2>2. 200 \in Codes \ {0}
      BY DEF Codes
    <2>3. WriteHeader(writer[r], 200) =
              [wrote |-> TRUE, code |-> 200, bytes |-> 0,
               sent |-> 200, body |-> <<>>, allow |-> {}, broken |-> FALSE]
      BY <1>2, <2>2, FirstStatus
    <2>4. [WriteHeader(writer[r], 200) EXCEPT !.allow = allow] = w
      <3> HIDE DEF allow
      <3> DEFINE yes == TRUE
                 no == FALSE
                 v == [wrote |-> yes, code |-> 200, bytes |-> 0,
                       sent |-> 200, body |-> <<>>, allow |-> allow, broken |-> no]
      <3>1. WriteHeader(writer[r], 200) =
                [wrote |-> yes, code |-> 200, bytes |-> 0,
                 sent |-> 200, body |-> <<>>, allow |-> {}, broken |-> no]
        BY <2>3
      <3>2. v = w
        OBVIOUS
      <3> HIDE DEF yes, no
      <3>3. [WriteHeader(writer[r], 200) EXCEPT !.allow = allow] = v
        BY ONLY <3>1
      <3> QED
        BY <3>2, <3>3
    <2>5. w.wrote = TRUE /\ SentBy(w) = Sent(200, <<>>, allow)
      BY DEF SentBy
    <2> HIDE DEF w, allow
    <2>6. writer'[r] = w
      BY <1>1, <2>1, <2>4
    <2>7. maybeWriteHeader(w) = w
      BY <2>5, HeaderOnce
    <2>8. NoBody(w, input[r].method) \in BOOLEAN
      BY DEF NoBody
    <2>10. SentBy(w) = Reaching(Sent(200, <<>>, allow), NoBody(w, input[r].method))
      BY <2>5, <2>8, ReachingSent
    <2>9. \A q \in Requests \ {r} : writer'[q] = writer[q] /\ proxy'[q] = proxy[q]
      BY <1>1, <2>1
    <2> QED
      BY <1>4, <1>5, <2>6, <2>7, <2>9, <2>10 DEF allow
  <1>6. CASE ~Proxies(r, code)
    <2>1. PICK breaks \in BOOLEAN :
              /\ writer' = [writer EXCEPT ![r] =
                                Write(WriteHeader(writer[r], code), input[r].method, piece, breaks)]
              /\ proxy' = [proxy EXCEPT ![r] = IF proxy[r] = "init" THEN "header written"
                                               ELSE proxy[r]]
      BY <1>6 DEF Answer
    <2>2. PICK w : w = Write(WriteHeader(NoWriter, code), input[r].method, piece, breaks)
      OBVIOUS
    <2>3. writer'[r] = w
      BY <1>1, <1>2, <2>1, <2>2
    <2>4. /\ maybeWriteHeader(w) = w
          /\ SentBy(w) = Reaching(Sent(code, <<piece>>, {}), NoBody(w, input[r].method))
      BY <2>2, FirstWritten
    <2>5. \A q \in Requests \ {r} : writer'[q] = writer[q] /\ proxy'[q] = proxy[q]
      BY <1>1, <2>1
    <2> QED
      BY <1>4, <1>6, <2>3, <2>4, <2>5
  <1> QED
    BY <1>5, <1>6

\* A step of one request keeps what holds of the others.
LEMMA AnswersKept ==
    ASSUME PipelineInv, AnswersInv, NEW r \in Requests, NEW step, pc' = [pc EXCEPT ![r] = step],
           \A q \in Requests \ {r} : /\ input'[q] = input[q] /\ writer'[q] = writer[q]
                                     /\ proxy'[q] = proxy[q] /\ env'[q] = env[q],
           RouteInv(r)', ResponseInv(r)'
    PROVE  AnswersInv'
  <1>1. \A q \in Requests \ {r} : pc'[q] = pc[q]
    BY DEF PipelineInv, TypeOK
  <1>2. ASSUME NEW q \in Requests \ {r} PROVE RouteInv(q)'
    <2>1. pc'[q] = pc[q] /\ input'[q] = input[q] /\ RouteInv(q)
      BY <1>1 DEF AnswersInv
    <2> QED
      BY <2>1 DEF RouteInv
  <1>3. ASSUME NEW q \in Requests \ {r} PROVE ResponseInv(q)'
    <2>1. /\ pc'[q] = pc[q] /\ input'[q] = input[q] /\ writer'[q] = writer[q]
          /\ proxy'[q] = proxy[q] /\ env'[q] = env[q]
      BY <1>1
    <2>2. ResponseInv(q)
      BY DEF AnswersInv
    <2> QED
      BY <2>1, <2>2 DEF ResponseInv
  <1> QED
    BY <1>2, <1>3 DEF AnswersInv

\* Where requests are answered.
Answering == {"authenticate", "not found", "index", "asset", "upload"}

\* A request that is answered as promised may finish.
LEMMA Answered ==
    ASSUME PipelineInv, AnswersInv, NEW r \in Requests,
           pc[r] \in Answering,
           NEW code \in Codes \ {0}, NEW piece, Answer(r, code, piece),
           NEW step \in {"finish", "leave inner"}, pc' = [pc EXCEPT ![r] = step],
           UNCHANGED <<input, env>>,
           IF code = 404 /\ input[r].method = "OPTIONS" /\ env[r].methods # {}
           THEN Sent(200, <<>>, env[r].methods \cup {"OPTIONS"}) \in Promised(input[r])
           ELSE Sent(code, <<piece>>, {}) \in Promised(input[r])
    PROVE  AnswersInv'
  <1>1. pc[r] \in Unanswered \ {"idle", "identify"} /\ pc[r] \notin Uninjected /\ pc[r] # "idle"
    BY DEF Answering, Unanswered, Unrouted, Uninjected
  <1>2. /\ \A q \in Requests \ {r} : writer'[q] = writer[q] /\ proxy'[q] = proxy[q]
        /\ AsPromised(maybeWriteHeader(writer'[r]), input[r])
    <2> DEFINE proxied == code = 404 /\ input[r].method = "OPTIONS" /\ env[r].methods # {}
               listed == Sent(200, <<>>, env[r].methods \cup {"OPTIONS"})
               passed == Sent(code, <<piece>>, {})
               answer == IF proxied THEN listed ELSE passed
    <2>1. /\ \A q \in Requests \ {r} : writer'[q] = writer[q] /\ proxy'[q] = proxy[q]
          /\ \E w : /\ w = maybeWriteHeader(writer'[r])
                    /\ SentBy(w) = Reaching(answer, NoBody(w, input[r].method))
      BY <1>1, AnswerSent
    <2>2. IF proxied THEN listed \in Promised(input[r]) ELSE passed \in Promised(input[r])
      OBVIOUS
    <2> HIDE DEF proxied, listed, passed
    <2>3. answer \in Promised(input[r])
      BY <2>2
    <2> HIDE DEF answer
    <2> QED
      BY <2>1, <2>3, PromiseKept
  <1>3. pc'[r] = step
    BY DEF PipelineInv, TypeOK
  <1>4. RouteInv(r)'
    BY <1>1, <1>3 DEF AnswersInv, RouteInv
  <1>5. ResponseInv(r)'
    <2>1. step \notin Unanswered /\ step \notin Unrouted /\ step # "not found"
      BY DEF Unanswered, Unrouted
    <2>2. env[r].injected
      BY <1>1 DEF AnswersInv, ResponseInv
    <2> QED
      BY <1>2, <1>3, <2>1, <2>2 DEF ResponseInv
  <1> QED
    BY <1>2, <1>4, <1>5, AnswersKept

\* The statuses that are never turned into another.
PlainCodes == Codes \ {0, 404}

\* The same for an answer that is never turned into one for OPTIONS.
LEMMA AnsweredPlainly ==
    ASSUME PipelineInv, AnswersInv, NEW r \in Requests,
           pc[r] \in Answering,
           NEW code \in PlainCodes, NEW piece, Answer(r, code, piece),
           NEW step \in {"finish", "leave inner"}, pc' = [pc EXCEPT ![r] = step],
           UNCHANGED <<input, env>>, Sent(code, <<piece>>, {}) \in Promised(input[r])
    PROVE  AnswersInv'
  <1>1. code \in Codes \ {0} /\ code # 404
    BY ZenonT(40) DEF PlainCodes, Codes
  <1> DEFINE proxied == code = 404 /\ input[r].method = "OPTIONS" /\ env[r].methods # {}
             listed == Sent(200, <<>>, env[r].methods \cup {"OPTIONS"})
             passed == Sent(code, <<piece>>, {})
  <1>2. ~proxied /\ passed \in Promised(input[r])
    BY <1>1
  <1> HIDE DEF proxied, listed, passed
  <1>3. IF proxied THEN listed \in Promised(input[r]) ELSE passed \in Promised(input[r])
    BY ONLY <1>2
  <1> QED
    BY <1>1, <1>3, Answered DEF proxied, listed, passed

\* So may one whose handler panics, if it may be told so.
LEMMA Panicked ==
    ASSUME PipelineInv, AnswersInv, NEW r \in Requests,
           pc[r] \in {"authenticate", "index", "upload"}, pc' = [pc EXCEPT ![r] = "panic"],
           UNCHANGED <<input, env, writer, proxy>>, ErrorPage \in Promised(input[r])
    PROVE  AnswersInv'
  <1>1. pc'[r] = "panic"
    BY DEF PipelineInv, TypeOK
  <1>2. RouteInv(r)'
    BY <1>1 DEF AnswersInv, RouteInv
  <1>3. ResponseInv(r)'
    BY <1>1 DEF AnswersInv, ResponseInv, Unanswered, Unrouted, Uninjected
  <1> QED
    BY <1>2, <1>3, AnswersKept

\* What is promised, by the handler a request is on the way to.
LEMMA PromisedOutside ==
    ASSUME NEW in
    PROVE  /\ OuterHandler(in) = "index" => /\ Sent(200, <<"page">>, {}) \in Promised(in)
                                            /\ Sent(200, <<>>, {}) \in Promised(in)
           /\ OuterHandler(in) = "asset" => Sent(200, <<"asset">>, {}) \in Promised(in)
           /\ OuterHandler(in) = "not found" => Sent(404, <<"not found">>, {}) \in Promised(in)
  <1>1. OuterHandler(in) = "index" => Promised(in) = {Sent(200, <<"page">>, {}), Sent(200, <<>>, {})}
    BY DEF OuterHandler, Promised
  <1>2. OuterHandler(in) = "asset" => Promised(in) = {Sent(200, <<"asset">>, {})}
    BY DEF OuterHandler, Promised
  <1>3. OuterHandler(in) = "not found" => Promised(in) = {Sent(404, <<"not found">>, {})}
    BY DEF OuterHandler, Promised
  <1> QED
    BY <1>1, <1>2, <1>3

LEMMA PromisedInside ==
    ASSUME NEW in, OuterHandler(in) = "inner"
    PROVE  /\ in.credentials = "no colon" => ErrorPage \in Promised(in)
           /\ in.credentials \in {"none", "undecodable", "wrong"} =>
                  Sent(401, <<"unauthorized">>, {}) \in Promised(in)
           /\ in.credentials = "right" /\ Uploads(in) => ErrorPage \in Promised(in)
           /\ in.credentials = "right" /\ ~Uploads(in) =>
                  IF in.path = UploadPath /\ in.method = "OPTIONS"
                  THEN Sent(200, <<>>, {"POST", "OPTIONS"}) \in Promised(in)
                  ELSE Sent(404, <<"not found">>, {}) \in Promised(in)
  <1> DEFINE answers == {Sent(code, <<"json">>, {}) : code \in {200, 400, 500}} \cup {ErrorPage}
  <1>1. Promised(in) =
            IF in.credentials = "no colon" THEN {ErrorPage}
            ELSE IF in.credentials # "right" THEN {Sent(401, <<"unauthorized">>, {})}
            ELSE IF Uploads(in) THEN answers
            ELSE IF in.path = UploadPath /\ in.method = "OPTIONS"
            THEN {Sent(200, <<>>, {"POST", "OPTIONS"})}
            ELSE {Sent(404, <<"not found">>, {})}
    BY DEF OuterHandler, Promised, Uploads
  <1>2. ErrorPage \in answers
    OBVIOUS
  <1> HIDE DEF answers
  <1>3. in.credentials = "no colon" => ErrorPage \in Promised(in)
    BY <1>1
  <1>4. in.credentials \in {"none", "undecodable", "wrong"} =>
            Sent(401, <<"unauthorized">>, {}) \in Promised(in)
    BY <1>1
  <1>5. in.credentials = "right" /\ Uploads(in) => Promised(in) = answers
    BY <1>1
  <1>6. in.credentials = "right" /\ ~Uploads(in) =>
            IF in.path = UploadPath /\ in.method = "OPTIONS"
            THEN Sent(200, <<>>, {"POST", "OPTIONS"}) \in Promised(in)
            ELSE Sent(404, <<"not found">>, {}) \in Promised(in)
    BY <1>1
  <1> QED
    BY <1>2, <1>3, <1>4, <1>5, <1>6

LEMMA PromisedUpload ==
    ASSUME NEW in, OuterHandler(in) = "inner", in.credentials = "right", Uploads(in),
           NEW code \in {200, 400, 500}
    PROVE  Sent(code, <<"json">>, {}) \in Promised(in)
  <1> DEFINE answers == {Sent(c, <<"json">>, {}) : c \in {200, 400, 500}} \cup {ErrorPage}
  <1>1. Sent(code, <<"json">>, {}) \in answers
    OBVIOUS
  <1>2. Promised(in) = IF Uploads(in) THEN answers ELSE Promised(in)
    <2> HIDE DEF answers
    <2>1. /\ ~(Reads(in) /\ in.path = Root) /\ ~(Reads(in) /\ in.path \in Range(Assets))
          /\ IsPrefix(Root, in.path) /\ in.credentials # "no colon"
      BY DEF OuterHandler
    <2> QED
      BY <2>1 DEF Promised, Uploads, answers
  <1> QED
    BY <1>1, <1>2

-----------------------------------------------------------------------------
(* The steps of AnswersInv.                                                   *)

LEMMA AnswersInit == Init => AnswersInv
  <1> SUFFICES ASSUME Init, NEW r \in Requests PROVE RouteInv(r) /\ ResponseInv(r)
    BY DEF AnswersInv
  <1>1. pc[r] = "idle" /\ writer[r] = NoWriter /\ env[r] = NoEnv
    BY DEF Init
  <1>2. RouteInv(r)
    BY <1>1 DEF RouteInv
  <1>3. NoEnv.methods = {}
    BY DEF NoEnv
  <1>4. ResponseInv(r)
    BY <1>1, <1>3 DEF ResponseInv, Uninjected
  <1> QED
    BY <1>2, <1>4

LEMMA BeginAnswers ==
    ASSUME PipelineInv, AnswersInv, NEW r \in Requests, Begin(r)
    PROVE  AnswersInv'
  <1>1. PICK in \in Inputs : input' = [input EXCEPT ![r] = in]
    BY DEF Begin
  <1>2. /\ pc[r] = "idle" /\ pc' = [pc EXCEPT ![r] = "identify"]
        /\ UNCHANGED <<env, writer, proxy>>
    BY DEF Begin, Goto
  <1>3. /\ pc'[r] = "identify" /\ input'[r] = in
        /\ \A q \in Requests \ {r} : input'[q] = input[q]
    BY <1>1, <1>2 DEF PipelineInv, TypeOK
  <1>4. writer[r] = NoWriter /\ env[r].methods = {}
    BY <1>2 DEF AnswersInv, ResponseInv, Unanswered, Unrouted
  <1>5. RouteInv(r)'
    BY <1>3 DEF RouteInv
  <1>6. ResponseInv(r)'
    BY <1>2, <1>3, <1>4 DEF ResponseInv, Uninjected
  <1> QED
    BY <1>2, <1>3, <1>5, <1>6, AnswersKept

LEMMA IdentifyAnswers ==
    ASSUME PipelineInv, AnswersInv, NEW r \in Requests, Identify(r)
    PROVE  AnswersInv'
  <1>1. /\ pc[r] = "identify" /\ pc' = [pc EXCEPT ![r] = "inject"]
        /\ UNCHANGED <<input, writer>>
        /\ proxy' = [proxy EXCEPT ![r] = IF input[r].method = "OPTIONS" THEN "init" ELSE "off"]
    BY DEF Identify, Goto
  <1>2. env' = [env EXCEPT ![r].id = reqid + 1]
    <2>1. outerC[outer[r]] = Nobody
      BY <1>1 DEF PipelineInv, ContextCleared
    <2> QED
      BY <2>1 DEF Identify
  <1>3. /\ pc \in [Requests -> Steps] /\ env \in [Requests -> Envs]
        /\ proxy \in [Requests -> {"off", "init", "header written", "proxying"}]
    BY DEF PipelineInv, TypeOK
  <1>4. /\ pc'[r] = "inject"
        /\ proxy'[r] = IF input[r].method = "OPTIONS" THEN "init" ELSE "off"
        /\ \A q \in Requests \ {r} : proxy'[q] = proxy[q] /\ env'[q] = env[q]
    BY <1>1, <1>2, <1>3
  <1>5. env'[r].methods = env[r].methods
    BY <1>2, <1>3 DEF Envs
  <1>6. writer[r] = NoWriter /\ env[r].methods = {} /\ input[r] \in Inputs
    BY <1>1 DEF AnswersInv, RouteInv, ResponseInv, Unanswered, Unrouted
  <1>7. RouteInv(r)'
    BY <1>1, <1>4, <1>6 DEF RouteInv
  <1>8. ResponseInv(r)'
    BY <1>1, <1>4, <1>5, <1>6 DEF ResponseInv, Uninjected
  <1> QED
    BY <1>1, <1>4, <1>7, <1>8, AnswersKept

\* What a request has before it is answered.
LEMMA BeforeAnswer ==
    ASSUME PipelineInv, AnswersInv, NEW r \in Requests, pc[r] \in Unanswered \ {"idle", "identify"}
    PROVE  /\ writer[r] = NoWriter /\ input[r] \in Inputs
           /\ proxy[r] = IF input[r].method = "OPTIONS" THEN "init" ELSE "off"
           /\ outerC[outer[r]] = r
  <1>1. pc[r] # "idle"
    OBVIOUS
  <1>2. Identified(r)
    BY DEF Identified, BeforeIdentified, Unanswered, Unrouted
  <1> QED
    BY <1>1, <1>2 DEF AnswersInv, RouteInv, ResponseInv, PipelineInv, OwnEnvironment

LEMMA InjectAnswers ==
    ASSUME PipelineInv, AnswersInv, NEW r \in Requests, Inject(r)
    PROVE  AnswersInv'
  <1>1. /\ pc[r] = "inject" /\ pc' = [pc EXCEPT ![r] = "route"]
        /\ UNCHANGED <<input, writer, proxy>>
    BY DEF Inject, Goto
  <1>2. pc[r] \in Unanswered \ {"idle", "identify"} /\ pc[r] \in Unrouted
    BY <1>1 DEF Unanswered, Unrouted
  <1>3. env' = [env EXCEPT ![r].injected = TRUE]
    BY <1>2, BeforeAnswer DEF Inject
  <1>4. pc \in [Requests -> Steps] /\ env \in [Requests -> Envs]
    BY DEF PipelineInv, TypeOK
  <1>5. pc'[r] = "route" /\ \A q \in Requests \ {r} : env'[q] = env[q]
    BY <1>1, <1>3, <1>4
  <1>6. env'[r].methods = env[r].methods /\ env'[r].injected
    BY <1>3, <1>4 DEF Envs
  <1>7. env[r].methods = {}
    BY <1>2 DEF AnswersInv, ResponseInv
  <1>8. RouteInv(r)'
    BY <1>1, <1>2, <1>5, BeforeAnswer DEF RouteInv
  <1>9. ResponseInv(r)'
    BY <1>1, <1>2, <1>5, <1>6, <1>7, BeforeAnswer DEF ResponseInv
  <1> QED
    BY <1>1, <1>5, <1>8, <1>9, AnswersKept

LEMMA RouteOuterAnswers ==
    ASSUME PipelineInv, AnswersInv, NEW r \in Requests, RouteOuter(r)
    PROVE  AnswersInv'
  <1> DEFINE step == OuterHandler(input[r])
  <1>1. /\ pc[r] = "route"
        /\ UNCHANGED <<input, writer, proxy>>
    BY DEF RouteOuter
  <1>2. pc[r] \in Unanswered \ {"idle", "identify"} /\ pc[r] \in Unrouted /\ pc[r] \notin Uninjected
    BY <1>1 DEF Unanswered, Unrouted, Uninjected
  <1>3. /\ writer[r] = NoWriter /\ input[r] \in Inputs /\ outerC[outer[r]] = r
        /\ proxy[r] = IF input[r].method = "OPTIONS" THEN "init" ELSE "off"
    BY <1>2, BeforeAnswer
  <1>4. PICK found : found = FirstMatch(OuterRoutes, input[r].path, input[r].method)
    OBVIOUS
  <1>5. /\ found.methods = {}
        /\ step = IF found.route = NoRoute THEN "not found" ELSE OuterRoutes[found.route].handler
    BY <1>3, <1>4, OuterRouting
  <1>6. pc' = [pc EXCEPT ![r] = step] /\ env' = [env EXCEPT ![r].methods = env[r].methods]
    BY <1>3, <1>4, <1>5 DEF RouteOuter, Goto, Note
  <1>7. pc \in [Requests -> Steps] /\ env \in [Requests -> Envs]
    BY DEF PipelineInv, TypeOK
  <1>8. pc'[r] = step /\ env'[r] = env[r] /\ \A q \in Requests \ {r} : env'[q] = env[q]
    <2>1. env[r] \in Envs
      BY <1>7
    <2>2. [env[r] EXCEPT !.methods = env[r].methods] = env[r]
      BY <2>1 DEF Envs
    <2> HIDE DEF step
    <2> QED
      BY <1>6, <1>7, <2>2
  <1>9. env[r].methods = {} /\ env[r].injected
    BY <1>2 DEF AnswersInv, ResponseInv
  <1>10. step \in {"index", "asset", "inner", "not found"}
    BY DEF OuterHandler
  <1>11. step = "not found" => NotedMethods(input[r]) = {}
    BY DEF NotedMethods
  <1> HIDE DEF step
  <1>12. RouteInv(r)'
    BY <1>1, <1>3, <1>8, <1>10 DEF RouteInv, step
  <1>13. ResponseInv(r)'
    BY <1>1, <1>3, <1>8, <1>9, <1>10, <1>11 DEF ResponseInv
  <1> QED
    BY <1>1, <1>6, <1>8, <1>12, <1>13, AnswersKept

LEMMA EnterInnerAnswers ==
    ASSUME PipelineInv, AnswersInv, NEW r \in Requests, EnterInner(r)
    PROVE  AnswersInv'
  <1>1. /\ pc[r] = "inner" /\ pc' = [pc EXCEPT ![r] = "authenticate"]
        /\ UNCHANGED <<input, env, writer, proxy>>
    BY DEF EnterInner, Goto
  <1>2. pc'[r] = "authenticate"
    BY <1>1 DEF PipelineInv, TypeOK
  <1>3. RouteInv(r)'
    BY <1>1, <1>2 DEF AnswersInv, RouteInv
  <1>4. ResponseInv(r)'
    BY <1>1, <1>2 DEF AnswersInv, ResponseInv, Unanswered, Unrouted, Uninjected
  <1> QED
    BY <1>1, <1>3, <1>4, AnswersKept

LEMMA AuthenticateAnswers ==
    ASSUME PipelineInv, AnswersInv, NEW r \in Requests, Authenticate(r)
    PROVE  AnswersInv'
  <1>1. pc[r] = "authenticate" /\ pc[r] \in Answering /\ UNCHANGED <<input, env>>
    BY DEF Authenticate, Answering
  <1>2. OuterHandler(input[r]) = "inner"
    BY <1>1 DEF AnswersInv, RouteInv
  <1>3. CASE /\ input[r].credentials = "right" /\ Goto(r, "route inner")
             /\ UNCHANGED <<writer, proxy>>
    <2>1. pc' = [pc EXCEPT ![r] = "route inner"]
      BY <1>3 DEF Goto
    <2>2. pc'[r] = "route inner"
      BY <2>1 DEF PipelineInv, TypeOK
    <2>3. RouteInv(r)'
      BY <1>1, <1>3, <2>2 DEF AnswersInv, RouteInv
    <2>4. ResponseInv(r)'
      BY <1>1, <1>3, <2>2 DEF AnswersInv, ResponseInv, Unanswered, Unrouted, Uninjected
    <2> QED
      BY <1>1, <1>3, <2>1, <2>3, <2>4, AnswersKept
  <1>4. CASE /\ input[r].credentials = "no colon" /\ Goto(r, "panic")
             /\ UNCHANGED <<writer, proxy>>
    <2>1. ErrorPage \in Promised(input[r])
      BY <1>2, <1>4, PromisedInside, PromisedOutside
    <2> QED
      BY <1>1, <1>4, <2>1, Panicked DEF Goto
  <1>5. CASE /\ input[r].credentials \in {"none", "undecodable", "wrong"}
             /\ Answer(r, 401, "unauthorized") /\ Goto(r, "leave inner")
    <2>1. Sent(401, <<"unauthorized">>, {}) \in Promised(input[r])
      BY <1>2, <1>5, PromisedInside, PromisedOutside
    <2>2. 401 \in PlainCodes
      BY DEF PlainCodes, Codes
    <2>3. pc' = [pc EXCEPT ![r] = "leave inner"]
      BY <1>5 DEF Goto
    <2>4. "leave inner" \in {"finish", "leave inner"} /\ Answer(r, 401, "unauthorized")
      BY <1>5
    <2> QED
      BY ONLY PipelineInv, AnswersInv, r \in Requests, <1>1, <2>1, <2>2, <2>3, <2>4, AnsweredPlainly, Zenon
  <1> QED
    BY <1>3, <1>4, <1>5 DEF Authenticate

LEMMA RouteInnerAnswers ==
    ASSUME PipelineInv, AnswersInv, NEW r \in Requests, RouteInner(r)
    PROVE  AnswersInv'
  <1>1. pc[r] = "route inner" /\ UNCHANGED <<input, writer, proxy>>
    BY DEF RouteInner
  <1>2. /\ input[r] \in Inputs /\ OuterHandler(input[r]) = "inner" /\ input[r].credentials = "right"
        /\ writer[r] = NoWriter /\ env[r].methods = {} /\ env[r].injected
        /\ proxy[r] = IF input[r].method = "OPTIONS" THEN "init" ELSE "off"
    BY <1>1 DEF AnswersInv, RouteInv, ResponseInv, Unanswered, Unrouted, Uninjected
  <1>3. innerC[inner[r]] = r
    BY <1>1 DEF PipelineInv, InnerInv, WithInner, OwnEnvironment
  <1>4. PICK found : found = FirstMatch(InnerRoutes, input[r].path, input[r].method)
    OBVIOUS
  <1>5. /\ found.route # NoRoute <=> Uploads(input[r])
        /\ found.route # NoRoute => InnerRoutes[found.route].handler = "upload"
        /\ found.route = NoRoute => found.methods = NotedMethods(input[r])
    BY <1>2, <1>4, InnerRouting
  <1>6. pc \in [Requests -> Steps] /\ env \in [Requests -> Envs]
    BY DEF PipelineInv, TypeOK
  <1>7. CASE found.route # NoRoute
    <2>1. pc' = [pc EXCEPT ![r] = "upload"] /\ UNCHANGED env
      BY <1>4, <1>5, <1>7 DEF RouteInner, Goto
    <2>2. pc'[r] = "upload"
      BY <1>6, <2>1
    <2>3. RouteInv(r)'
      BY <1>1, <1>2, <1>5, <1>7, <2>2 DEF RouteInv
    <2>4. ResponseInv(r)'
      BY <1>1, <1>2, <2>1, <2>2 DEF ResponseInv
    <2> QED
      BY <1>1, <2>1, <2>3, <2>4, AnswersKept
  <1>8. CASE found.route = NoRoute
    <2> DEFINE m == IF found.methods = {} THEN env[r].methods ELSE found.methods
    <2>1. pc' = [pc EXCEPT ![r] = "not found"] /\ env' = [env EXCEPT ![r].methods = m]
      BY <1>3, <1>4, <1>8 DEF RouteInner, Goto, Note
    <2>2. m = NotedMethods(input[r])
      BY <1>2, <1>5, <1>8
    <2> HIDE DEF m
    <2>3. pc'[r] = "not found" /\ \A q \in Requests \ {r} : env'[q] = env[q]
      BY <1>6, <2>1
    <2>4. env'[r].methods = m /\ env'[r].injected
      <3>1. env'[r] = [env[r] EXCEPT !.methods = m] /\ env[r] \in Envs /\ env[r].injected
        BY <1>2, <1>6, <2>1
      <3> QED
        BY ONLY <3>1 DEF Envs
    <2>5. RouteInv(r)'
      BY <1>1, <1>2, <1>5, <1>8, <2>3 DEF RouteInv
    <2>6. ResponseInv(r)'
      BY <1>1, <1>2, <2>2, <2>3, <2>4 DEF ResponseInv, Unrouted
    <2> QED
      BY <1>1, <2>1, <2>3, <2>5, <2>6, AnswersKept
  <1> QED
    BY <1>7, <1>8

LEMMA ServeNotFoundAnswers ==
    ASSUME PipelineInv, AnswersInv, NEW r \in Requests, ServeNotFound(r)
    PROVE  AnswersInv'
  <1> DEFINE in == input[r]
             step == IF inner[r] = Nobody THEN "finish" ELSE "leave inner"
  <1>1. /\ pc[r] = "not found" /\ pc[r] \in Answering /\ Answer(r, 404, "not found")
        /\ pc' = [pc EXCEPT ![r] = step] /\ UNCHANGED <<input, env>>
    BY DEF ServeNotFound, Leave, Goto, Answering
  <1>2. /\ env[r].methods = NotedMethods(in)
        /\ \/ OuterHandler(in) = "not found"
           \/ OuterHandler(in) = "inner" /\ ~Uploads(in) /\ in.credentials = "right"
    BY <1>1 DEF AnswersInv, RouteInv, ResponseInv
  <1>3. IF in.method = "OPTIONS" /\ env[r].methods # {}
        THEN Sent(200, <<>>, env[r].methods \cup {"OPTIONS"}) \in Promised(in)
        ELSE Sent(404, <<"not found">>, {}) \in Promised(in)
    <2>1. CASE OuterHandler(in) = "not found"
      <3>1. env[r].methods = {}
        BY <1>2, <2>1 DEF NotedMethods
      <3> QED
        BY <2>1, <3>1, PromisedInside, PromisedOutside
    <2>2. CASE OuterHandler(in) = "inner" /\ ~Uploads(in) /\ in.credentials = "right"
      <3>1. IF in.path = UploadPath /\ in.method = "OPTIONS"
            THEN Sent(200, <<>>, {"POST", "OPTIONS"}) \in Promised(in)
            ELSE Sent(404, <<"not found">>, {}) \in Promised(in)
        BY <2>2, PromisedInside, PromisedOutside
      <3>2. CASE in.path = UploadPath
        <4>1. env[r].methods = {"POST"}
          BY <1>2, <2>2, <3>2 DEF NotedMethods
        <4>2. env[r].methods \cup {"OPTIONS"} = {"POST", "OPTIONS"} /\ env[r].methods # {}
          BY <4>1
        <4> QED
          BY <3>1, <3>2, <4>2
      <3>3. CASE in.path # UploadPath
        <4>1. env[r].methods = {}
          BY <1>2, <2>2, <3>3 DEF NotedMethods
        <4> QED
          BY <3>1, <3>3, <4>1
      <3> QED
        BY <3>2, <3>3
    <2> QED
      BY <1>2, <2>1, <2>2
  <1>4. step \in {"finish", "leave inner"}
    OBVIOUS
  <1>5. 404 \in Codes \ {0}
    BY DEF Codes
  <1> HIDE DEF step
  <1>6. IF 404 = 404 /\ in.method = "OPTIONS" /\ env[r].methods # {}
        THEN Sent(200, <<>>, env[r].methods \cup {"OPTIONS"}) \in Promised(in)
        ELSE Sent(404, <<"not found">>, {}) \in Promised(in)
    BY <1>3
  <1> QED
    BY ONLY PipelineInv, AnswersInv, r \in Requests, <1>1, <1>4, <1>5, <1>6, Answered, ZenonT(40)

LEMMA ServeIndexAnswers ==
    ASSUME PipelineInv, AnswersInv, NEW r \in Requests, ServeIndex(r)
    PROVE  AnswersInv'
  <1>1. pc[r] = "index" /\ pc[r] \in Answering /\ UNCHANGED <<input, env>>
    BY DEF ServeIndex, Answering
  <1>2. /\ OuterHandler(input[r]) = "index" /\ env[r].injected /\ writer[r] = NoWriter
        /\ input[r] \in Inputs
    BY <1>1 DEF AnswersInv, RouteInv, ResponseInv, Unanswered, Unrouted, Uninjected
  <1>3. inner[r] = Nobody
    BY <1>1 DEF PipelineInv, InnerInv, WithInner
  <1>4. Given(r) = r
    BY <1>1, <1>3 DEF Given, PipelineInv, OwnEnvironment, Identified, BeforeIdentified
  <1>5. /\ pc' = [pc EXCEPT ![r] = "finish"]
        /\ Answer(r, 200, "page") \/ UNCHANGED <<writer, proxy>>
    BY <1>2, <1>3, <1>4 DEF ServeIndex, Leave, Goto
  <1>6. /\ Sent(200, <<"page">>, {}) \in Promised(input[r])
        /\ Sent(200, <<>>, {}) \in Promised(input[r])
    BY <1>2, PromisedInside, PromisedOutside
  <1>7. 200 \in PlainCodes
    BY DEF PlainCodes, Codes
  <1>8. CASE Answer(r, 200, "page")
    <2>1. "finish" \in {"finish", "leave inner"}
      OBVIOUS
    <2> QED
      BY ONLY PipelineInv, AnswersInv, r \in Requests, <1>1, <1>5, <1>6, <1>7, <1>8, <2>1, AnsweredPlainly, Zenon
  <1>9. CASE UNCHANGED <<writer, proxy>>
    <2>1. pc'[r] = "finish"
      BY <1>5 DEF PipelineInv, TypeOK
    <2>2. AsPromised(maybeWriteHeader(NoWriter), input[r])
      <3>1. 200 \in Codes \ {0}
        BY DEF Codes
      <3>2. PICK w : w = maybeWriteHeader(NoWriter)
        OBVIOUS
      <3>3. w = [wrote |-> TRUE, code |-> 200, bytes |-> 0,
                 sent |-> 200, body |-> <<>>, allow |-> {}, broken |-> FALSE]
        BY <3>1, <3>2, FirstStatus DEF maybeWriteHeader
      <3>4. SentBy(w) = Sent(200, <<>>, {})
        BY <3>3 DEF SentBy
      <3>5. NoBody(w, input[r].method) \in BOOLEAN
        BY DEF NoBody
      <3>6. SentBy(w) = Reaching(Sent(200, <<>>, {}), NoBody(w, input[r].method))
        BY <3>4, <3>5, ReachingSent
      <3> QED
        BY <1>6, <3>2, <3>6, PromiseKept
    <2>3. RouteInv(r)'
      BY <1>1, <1>2, <2>1 DEF RouteInv
    <2>4. ResponseInv(r)'
      BY <1>1, <1>2, <1>9, <2>1, <2>2 DEF ResponseInv, Unanswered, Unrouted
    <2> QED
      BY <1>1, <1>5, <1>9, <2>3, <2>4, AnswersKept
  <1> QED
    BY <1>5, <1>8, <1>9

LEMMA ServeAssetAnswers ==
    ASSUME PipelineInv, AnswersInv, NEW r \in Requests, ServeAsset(r)
    PROVE  AnswersInv'
  <1> DEFINE step == IF inner[r] = Nobody THEN "finish" ELSE "leave inner"
  <1>1. /\ pc[r] = "asset" /\ pc[r] \in Answering /\ Answer(r, 200, "asset")
        /\ pc' = [pc EXCEPT ![r] = step] /\ UNCHANGED <<input, env>>
    BY DEF ServeAsset, Leave, Goto, Answering
  <1>2. OuterHandler(input[r]) = "asset"
    BY <1>1 DEF AnswersInv, RouteInv
  <1>3. Sent(200, <<"asset">>, {}) \in Promised(input[r])
    BY <1>2, PromisedInside, PromisedOutside
  <1>4. step \in {"finish", "leave inner"} /\ 200 \in PlainCodes
    BY DEF PlainCodes, Codes
  <1> HIDE DEF step
  <1> QED
    BY ONLY PipelineInv, AnswersInv, r \in Requests, <1>1, <1>3, <1>4, AnsweredPlainly, Zenon

LEMMA ServeUploadAnswers ==
    ASSUME PipelineInv, AnswersInv, NEW r \in Requests, ServeUpload(r)
    PROVE  AnswersInv'
  <1> DEFINE step == IF inner[r] = Nobody THEN "finish" ELSE "leave inner"
  <1>1. pc[r] = "upload" /\ pc[r] \in Answering /\ UNCHANGED <<input, env>>
    BY DEF ServeUpload, Answering
  <1>2. OuterHandler(input[r]) = "inner" /\ input[r].credentials = "right" /\ Uploads(input[r])
    BY <1>1 DEF AnswersInv, RouteInv
  <1>3. ErrorPage \in Promised(input[r])
    BY <1>2, PromisedInside
  <1>4. CASE Goto(r, "panic") /\ UNCHANGED <<writer, proxy>>
    BY <1>1, <1>3, <1>4, Panicked DEF Goto
  <1>5. ASSUME NEW code \in {200, 400, 500}, Answer(r, code, "json"), Leave(r)
        PROVE  AnswersInv'
    <2>1. pc' = [pc EXCEPT ![r] = step]
      BY <1>5 DEF Leave, Goto
    <2>2. code \in PlainCodes
      BY DEF PlainCodes, Codes
    <2>3. Sent(code, <<"json">>, {}) \in Promised(input[r])
      BY <1>2, PromisedUpload
    <2>4. Answer(r, code, "json")
      BY <1>5
    <2>5. step \in {"finish", "leave inner"}
      OBVIOUS
    <2> HIDE DEF step
    <2>6. pc[r] \in Answering /\ UNCHANGED <<input, env>>
      BY <1>1
    <2> QED
      BY ONLY PipelineInv, AnswersInv, r \in Requests, <2>1, <2>2, <2>3, <2>4, <2>5, <2>6, AnsweredPlainly, Zenon
  <1> QED
    BY <1>4, <1>5 DEF ServeUpload

LEMMA LeaveInnerAnswers ==
    ASSUME PipelineInv, AnswersInv, NEW r \in Requests, LeaveInner(r)
    PROVE  AnswersInv'
  <1>1. /\ pc[r] = "leave inner" /\ pc' = [pc EXCEPT ![r] = "finish"]
        /\ UNCHANGED <<input, env, writer, proxy>>
    BY DEF LeaveInner, Goto
  <1>2. pc'[r] = "finish"
    BY <1>1 DEF PipelineInv, TypeOK
  <1>3. RouteInv(r)'
    BY <1>1, <1>2 DEF AnswersInv, RouteInv
  <1>4. ResponseInv(r)'
    BY <1>1, <1>2 DEF AnswersInv, ResponseInv, Unanswered, Unrouted, Uninjected
  <1> QED
    BY <1>1, <1>3, <1>4, AnswersKept

LEMMA RecoverAnswers ==
    ASSUME PipelineInv, AnswersInv, NEW r \in Requests, Recover(r)
    PROVE  AnswersInv'
  <1>1. /\ pc[r] = "panic" /\ pc' = [pc EXCEPT ![r] = "finish"]
        /\ UNCHANGED <<input, env, proxy>>
    BY DEF Recover, Goto
  <1>2. /\ ErrorPage \in Promised(input[r]) /\ env[r].injected /\ writer[r] = NoWriter
        /\ input[r] \in Inputs
    BY <1>1 DEF AnswersInv, RouteInv, ResponseInv, Unanswered, Uninjected
  <1>3. PICK breaks \in BOOLEAN :
            writer' = [writer EXCEPT ![r] = Write(WriteHeader(NoWriter, 500), input[r].method,
                                                  "internal server error", breaks)]
    BY <1>2 DEF Recover, AnswerPanic
  <1>4. PICK w : w = Write(WriteHeader(NoWriter, 500), input[r].method, "internal server error", breaks)
    OBVIOUS
  <1>5. AsPromised(maybeWriteHeader(w), input[r])
    <2>1. PICK code \in Codes \ {0} : code = 500
      BY DEF Codes
    <2>3. PICK piece : piece = "internal server error"
      OBVIOUS
    <2>4. w = Write(WriteHeader(NoWriter, code), input[r].method, piece, breaks)
      BY <1>4, <2>1, <2>3
    <2>5. /\ maybeWriteHeader(w) = w
          /\ SentBy(w) = Reaching(Sent(code, <<piece>>, {}), NoBody(w, input[r].method))
      BY <2>4, FirstWritten
    <2>2. /\ maybeWriteHeader(w) = w
          /\ SentBy(w) = Reaching(Sent(500, <<"internal server error">>, {}),
                                  NoBody(w, input[r].method))
      BY <2>1, <2>3, <2>5
    <2> QED
      BY <1>2, <2>2, PromiseKept DEF ErrorPage
  <1>6. pc'[r] = "finish" /\ writer'[r] = w /\ \A q \in Requests \ {r} : writer'[q] = writer[q]
    BY <1>1, <1>3, <1>4 DEF PipelineInv, TypeOK
  <1>7. RouteInv(r)'
    BY <1>1, <1>2, <1>6 DEF RouteInv
  <1>8. ResponseInv(r)'
    BY <1>1, <1>2, <1>5, <1>6 DEF ResponseInv, Unanswered, Unrouted
  <1> QED
    BY <1>1, <1>6, <1>7, <1>8, AnswersKept

LEMMA FinishAnswers ==
    ASSUME PipelineInv, AnswersInv, NEW r \in Requests, Finish(r)
    PROVE  AnswersInv'
  <1> DEFINE w == maybeWriteHeader(writer[r])
  <1>1. /\ pc[r] = "finish" /\ pc' = [pc EXCEPT ![r] = "release"]
        /\ writer' = [writer EXCEPT ![r] = w] /\ UNCHANGED <<input, env, proxy>>
    BY DEF Finish, Goto
  <1>2. AsPromised(w, input[r]) /\ env[r].injected /\ input[r] \in Inputs
    BY <1>1 DEF AnswersInv, RouteInv, ResponseInv, Uninjected
  <1> HIDE DEF w
  <1>3. pc'[r] = "release" /\ writer'[r] = w /\ \A q \in Requests \ {r} : writer'[q] = writer[q]
    BY <1>1 DEF PipelineInv, TypeOK
  <1>4. RouteInv(r)'
    BY <1>1, <1>2, <1>3 DEF RouteInv
  <1>5. ResponseInv(r)'
    BY <1>1, <1>2, <1>3 DEF ResponseInv, Unanswered, Unrouted
  <1> QED
    BY <1>1, <1>3, <1>4, <1>5, AnswersKept

LEMMA ReleaseAnswers ==
    ASSUME PipelineInv, AnswersInv, NEW r \in Requests, Release(r)
    PROVE  AnswersInv'
  <1>1. /\ pc[r] = "release" /\ pc' = [pc EXCEPT ![r] = "done"]
        /\ UNCHANGED <<input, env, writer, proxy>>
    BY DEF Release, Goto
  <1>2. pc'[r] = "done"
    BY <1>1 DEF PipelineInv, TypeOK
  <1>3. RouteInv(r)'
    BY <1>1, <1>2 DEF AnswersInv, RouteInv
  <1>4. ResponseInv(r)'
    BY <1>1, <1>2 DEF AnswersInv, ResponseInv, Unanswered, Unrouted, Uninjected
  <1> QED
    BY <1>1, <1>3, <1>4, AnswersKept

LEMMA AnswersNext == PipelineInv /\ AnswersInv /\ [Next]_vars => AnswersInv'
  <1> SUFFICES ASSUME PipelineInv, AnswersInv, [Next]_vars PROVE AnswersInv'
    OBVIOUS
  <1>1. CASE UNCHANGED vars
    <2> SUFFICES ASSUME NEW r \in Requests PROVE RouteInv(r)' /\ ResponseInv(r)'
      BY DEF AnswersInv
    <2>1. RouteInv(r) /\ ResponseInv(r)
      BY DEF AnswersInv
    <2>2. UNCHANGED <<pc, input, writer, proxy, env>>
      BY <1>1 DEF vars
    <2>3. RouteInv(r)'
      BY <2>1, <2>2 DEF RouteInv
    <2>4. ResponseInv(r)'
      BY <2>1, <2>2 DEF ResponseInv
    <2> QED
      BY <2>3, <2>4
  <1>2. ASSUME NEW r \in Requests, Begin(r) \/ Serve(r) \/ RunHandler(r) PROVE AnswersInv'
    BY <1>2, BeginAnswers, IdentifyAnswers, InjectAnswers, RouteOuterAnswers, EnterInnerAnswers,
       AuthenticateAnswers, RouteInnerAnswers, ServeNotFoundAnswers, ServeIndexAnswers,
       ServeAssetAnswers, ServeUploadAnswers, LeaveInnerAnswers, RecoverAnswers, FinishAnswers,
       ReleaseAnswers DEF Serve, RunHandler
  <1> QED
    BY <1>1, <1>2 DEF Next

-----------------------------------------------------------------------------
(* The theorems.                                                              *)

\* The inductive invariant: types, stacks in use by one request at a time, and what
\* each request has been given.
THEOREM PipelineInvariant == Spec => []PipelineInv
  <1> QED
    BY PipelineInit, PipelineNext, PTL DEF Spec

\* The type invariant of mux, middleware and response.
THEOREM PipelineTypeOK == Spec => []TypeOK
  <1>1. PipelineInv => TypeOK
    BY DEF PipelineInv
  <1> QED
    BY <1>1, PipelineInvariant, PTL

\* However many requests reuse the stacks of middleware, each works in its own
\* environment (middleware.go, cpool.go).
THEOREM EveryRequestHasItsEnvironment == Spec => []OwnEnvironment
  <1>1. PipelineInv => OwnEnvironment
    BY DEF PipelineInv
  <1> QED
    BY <1>1, PipelineInvariant, PTL

\* The upload handler runs for authorized POST requests of its path alone (main.go).
THEOREM NoUploadUnauthorized == Spec => []UploadIsAuthorized
  <1>1. PipelineInv => UploadIsAuthorized
    BY DEF PipelineInv
  <1> QED
    BY <1>1, PipelineInvariant, PTL

\* The log has the status net/http was given to send, and the size of the body the client was
\* sent or, where it gets none, of what was written (logMiddleware, writer_proxy.go).
THEOREM LogTellsTheAnswer == Spec => []LoggedIsSent
  <1>1. PipelineInv => LoggedIsSent
    BY DEF PipelineInv, LogInv, LoggedIsSent, Bodiless, WriterInv, HasId
  <1> QED
    BY <1>1, PipelineInvariant, PTL

\* Every request that ends was sent an answer promised for what it asked, less a body that does
\* not reach it: the table of main.go, the authentication behind it, the automatic OPTIONS,
\* recover and the index that fails.
THEOREM RequestsAnsweredAsPromised == Spec => []AnswersAsPromised
  <1>1. AnswersInv => AnswersAsPromised
    <2> SUFFICES ASSUME AnswersInv, NEW r \in Requests, pc[r] = "done"
                 PROVE  AsPromised(writer[r], input[r])
      BY DEF AnswersAsPromised
    <2> QED
      BY DEF AnswersInv, ResponseInv
  <1>2. Spec => [](PipelineInv /\ AnswersInv)
    BY PipelineInit, PipelineNext, AnswersInit, AnswersNext, PTL DEF Spec
  <1> QED
    BY <1>1, <1>2, PTL
=============================================================================
