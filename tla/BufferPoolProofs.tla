--------------------------- MODULE BufferPoolProofs ---------------------------
(* PoolInv is an inductive invariant of BufferPool: no buffer is shared and no  *)
(* page leaks, for any number of requests and any size of the pool.            *)
EXTENDS BufferPool, SequenceTheorems, TLAPS

USE SizeAssumption, NoBufferAssumption DEF Holding

LEMMA PoolInit == Init => PoolInv
  <1> SUFFICES ASSUME Init PROVE PoolInv
    OBVIOUS
  <1>1. pool \in Seq(Requests) /\ Len(pool) = 0
    BY DEF Init
  <1>2. TypeOK
    BY <1>1 DEF Init, TypeOK
  <1>3. BufferExclusive /\ OwnPage
    BY <1>1 DEF Init, BufferExclusive, OwnPage
  <1>4. ASSUME NEW r \in Requests PROVE RequestInv(r)
    <2>1. /\ pc[r] = "idle"
          /\ content[r] = {}
          /\ \A s \in Requests : buf[s] = NoBuffer
      BY DEF Init
    <2> QED
      BY <1>1, <2>1 DEF RequestInv
  <1> QED
    BY <1>1, <1>2, <1>3, <1>4 DEF PoolInv

LEMMA GetPooledStep ==
    ASSUME PoolInv, NEW r \in Requests, GetPooled(r)
    PROVE  PoolInv'
  <1> USE DEF GetPooled, Hold, Goto
  <1>1. /\ pool \in Seq(Requests) /\ pool # <<>>
        /\ Head(pool) = pool[1] /\ Head(pool) \in Requests
        /\ pool' \in Seq(Requests) /\ Len(pool') = Len(pool) - 1
        /\ \A i \in 1..Len(pool') : i + 1 \in 1..Len(pool) /\ pool'[i] = pool[i + 1]
        /\ 1 \in 1..Len(pool)
    BY DEF PoolInv, TypeOK
  <1>2. TypeOK'
    BY <1>1 DEF PoolInv, TypeOK
  <1>3. /\ buf'[r] = pool[1]
        /\ pc'[r] = "execute"
        /\ \A s \in Requests \ {r} : buf'[s] = buf[s] /\ pc'[s] = pc[s]
        /\ buf[r] = NoBuffer
    BY <1>1 DEF PoolInv, TypeOK, RequestInv
  <1>4. BufferExclusive'
    BY <1>1, <1>3 DEF PoolInv, BufferExclusive
  <1>5. OwnPage'
    BY DEF PoolInv, OwnPage
  <1>6. ASSUME NEW s \in Requests PROVE RequestInv(s)'
    <2>1. CASE s = r
      BY <1>1, <1>3, <2>1 DEF PoolInv, RequestInv
    <2>2. CASE s # r
      <3>1. RequestInv(s) /\ content' = content /\ buf'[s] = buf[s] /\ pc'[s] = pc[s]
        BY <1>3, <2>2 DEF PoolInv
      <3>2. ASSUME pc[s] = "idle"
            PROVE  /\ \A t \in Requests : buf'[t] # s
                   /\ \A i \in 1..Len(pool') : pool'[i] # s
        BY <1>1, <1>3, <3>1, <3>2 DEF RequestInv
      <3> QED
        BY <3>1, <3>2 DEF RequestInv
    <2> QED
      BY <2>1, <2>2
  <1>7. \A i \in 1..Len(pool') : content'[pool'[i]] = {}
    BY <1>1 DEF PoolInv
  <1> QED
    BY <1>2, <1>4, <1>5, <1>6, <1>7 DEF PoolInv

LEMMA GetNewStep ==
    ASSUME PoolInv, NEW r \in Requests, GetNew(r)
    PROVE  PoolInv'
  <1> USE DEF GetNew, Hold, Goto
  <1>1. TypeOK'
    BY DEF PoolInv, TypeOK
  <1>2. /\ buf'[r] = r
        /\ pc'[r] = "execute"
        /\ \A s \in Requests \ {r} : buf'[s] = buf[s] /\ pc'[s] = pc[s]
        /\ Len(pool) = 0
    BY DEF PoolInv, TypeOK
  <1>3. BufferExclusive'
    BY <1>2 DEF PoolInv, BufferExclusive, RequestInv
  <1>4. OwnPage'
    BY DEF PoolInv, OwnPage
  <1>5. ASSUME NEW s \in Requests PROVE RequestInv(s)'
    <2>1. CASE s = r
      <3>1. content[r] = {} /\ r # NoBuffer
        BY NoBufferAssumption DEF PoolInv, RequestInv
      <3> QED
        BY <1>2, <2>1, <3>1 DEF RequestInv, Holding
    <2>2. CASE s # r
      <3>1. /\ RequestInv(s) /\ buf'[s] = buf[s] /\ pc'[s] = pc[s]
            /\ UNCHANGED <<content, pool>>
        BY <1>2, <2>2 DEF PoolInv
      <3>2. (\A t \in Requests : buf[t] # s) => \A t \in Requests : buf'[t] # s
        BY <1>2, <2>2
      <3> QED
        BY <3>1, <3>2 DEF RequestInv
    <2> QED
      BY <2>1, <2>2
  <1> QED
    BY <1>1, <1>2, <1>3, <1>4, <1>5 DEF PoolInv

LEMMA ExecuteStep ==
    ASSUME PoolInv, NEW r \in Requests, Execute(r)
    PROVE  PoolInv'
  <1> USE DEF Execute, Goto
  <1>1. /\ buf[r] \in Requests /\ content[buf[r]] = {}
        /\ TypeOK /\ pc[r] = "execute"
    BY DEF PoolInv, TypeOK, RequestInv
  <1>2. TypeOK'
    BY <1>1 DEF TypeOK
  <1>3. /\ content'[buf[r]] = {r}
        /\ \A b \in Requests \ {buf[r]} : content'[b] = content[b]
        /\ pc'[r] \in {"write", "put"}
        /\ \A s \in Requests \ {r} : pc'[s] = pc[s]
        /\ UNCHANGED <<pool, buf, page>>
    BY <1>1 DEF TypeOK
  <1>4. \A s \in Requests \ {r} : buf[s] # buf[r]
    BY <1>1 DEF PoolInv, BufferExclusive
  <1>5. BufferExclusive' /\ OwnPage'
    BY <1>3 DEF PoolInv, BufferExclusive, OwnPage
  <1>6. ASSUME NEW s \in Requests PROVE RequestInv(s)'
    <2>1. CASE s = r
      BY <1>1, <1>3, <2>1 DEF PoolInv, RequestInv
    <2>2. CASE s # r
      <3>1. buf[s] = NoBuffer \/ buf[s] \in Requests \ {buf[r]}
        BY <1>1, <1>4, <2>2 DEF TypeOK
      <3> QED
        BY <1>1, <1>3, <2>2, <3>1 DEF PoolInv, RequestInv
    <2> QED
      BY <2>1, <2>2
  <1>7. \A i \in 1..Len(pool) : pool[i] \in Requests \ {buf[r]}
    BY <1>1 DEF PoolInv, BufferExclusive, TypeOK
  <1>8. (\A i \in 1..Len(pool) : content[pool[i]] = {})'
    BY <1>3, <1>7 DEF PoolInv
  <1> QED
    BY <1>2, <1>5, <1>6, <1>8 DEF PoolInv

LEMMA WriteStep ==
    ASSUME PoolInv, NEW r \in Requests, Write(r)
    PROVE  PoolInv'
  <1> USE DEF Write, Goto
  <1>1. /\ buf[r] \in Requests /\ content[buf[r]] = {r}
        /\ TypeOK /\ pc[r] = "write"
    BY DEF PoolInv, TypeOK, RequestInv
  <1>2. TypeOK'
    BY <1>1 DEF TypeOK
  <1>3. /\ \A b \in Requests \ {buf[r]} : content'[b] = content[b]
        /\ page'[r] = {r}
        /\ \A s \in Requests \ {r} : pc'[s] = pc[s] /\ page'[s] = page[s]
        /\ pc'[r] = "put"
        /\ UNCHANGED <<pool, buf>>
    BY <1>1 DEF TypeOK
  <1>4. \A s \in Requests \ {r} : buf[s] # buf[r]
    BY <1>1 DEF PoolInv, BufferExclusive
  <1>5. BufferExclusive' /\ OwnPage'
    BY <1>3 DEF PoolInv, BufferExclusive, OwnPage
  <1>6. ASSUME NEW s \in Requests PROVE RequestInv(s)'
    <2>1. CASE s = r
      BY <1>1, <1>3, <2>1 DEF PoolInv, RequestInv
    <2>2. CASE s # r
      <3>1. buf[s] = NoBuffer \/ buf[s] \in Requests \ {buf[r]}
        BY <1>1, <1>4, <2>2 DEF TypeOK
      <3> QED
        BY <1>1, <1>3, <2>2, <3>1 DEF PoolInv, RequestInv
    <2> QED
      BY <2>1, <2>2
  <1>7. \A i \in 1..Len(pool) : pool[i] \in Requests \ {buf[r]}
    BY <1>1 DEF PoolInv, BufferExclusive, TypeOK
  <1>8. (\A i \in 1..Len(pool) : content[pool[i]] = {})'
    BY <1>3, <1>7 DEF PoolInv
  <1> QED
    BY <1>2, <1>5, <1>6, <1>8 DEF PoolInv

LEMMA PutStep ==
    ASSUME PoolInv, NEW r \in Requests, Put(r)
    PROVE  PoolInv'
  <1> USE DEF Put, Goto
  <1>1. buf[r] \in Requests /\ TypeOK /\ pc[r] = "put"
    BY DEF PoolInv, TypeOK, RequestInv
  <1>2. /\ pool' \in Seq(Requests)
        /\ Len(pool') = Len(pool) + 1
        /\ Len(pool) \in Nat
        /\ \A i \in 1..Len(pool) : pool'[i] = pool[i]
        /\ pool'[Len(pool')] = buf[r]
    BY <1>1 DEF TypeOK
  <1>3. TypeOK'
    BY <1>1, <1>2 DEF TypeOK
  <1>4. /\ content'[buf[r]] = {}
        /\ \A b \in Requests \ {buf[r]} : content'[b] = content[b]
        /\ \A s \in Requests \ {r} : pc'[s] = pc[s] /\ buf'[s] = buf[s]
        /\ pc'[r] = "done" /\ buf'[r] = NoBuffer
        /\ UNCHANGED page
    BY <1>1 DEF TypeOK
  <1>5. \A i \in 1..Len(pool') : i \in 1..Len(pool) \/ i = Len(pool')
    BY <1>2
  <1>6. \A s \in Requests \ {r} : buf[s] # buf[r]
    BY <1>1 DEF PoolInv, BufferExclusive
  <1>7. \A i \in 1..Len(pool) : pool[i] \in Requests \ {buf[r]}
    BY <1>1 DEF PoolInv, BufferExclusive, TypeOK
  <1>8. BufferExclusive'
    <2>1. ASSUME NEW s \in Requests, NEW t \in Requests,
                 buf'[s] = buf'[t], buf'[s] # NoBuffer
          PROVE  s = t
      BY <1>4, <2>1 DEF PoolInv, BufferExclusive
    <2>2. ASSUME NEW i \in 1..Len(pool'), NEW s \in Requests
          PROVE  pool'[i] # buf'[s]
      BY <1>1, <1>2, <1>4, <1>5, <1>6, <1>7 DEF PoolInv, BufferExclusive
    <2>3. ASSUME NEW i \in 1..Len(pool'), NEW j \in 1..Len(pool'), pool'[i] = pool'[j]
          PROVE  i = j
      BY <1>2, <1>5, <1>7, <2>3 DEF PoolInv, BufferExclusive
    <2> QED
      BY <2>1, <2>2, <2>3 DEF BufferExclusive
  <1>9. OwnPage'
    BY <1>4 DEF PoolInv, OwnPage
  <1>10. ASSUME NEW s \in Requests PROVE RequestInv(s)'
    <2>1. CASE s = r
      BY <1>4, <2>1 DEF RequestInv
    <2>2. CASE s # r
      <3>1. buf[s] = NoBuffer \/ buf[s] \in Requests \ {buf[r]}
        BY <1>1, <1>6, <2>2 DEF TypeOK
      <3>2. pc[s] = "idle" => s # buf[r] /\ \A t \in Requests : buf'[t] # s
        BY <1>4, <2>2 DEF PoolInv, RequestInv
      <3>3. pc[s] = "idle" => \A i \in 1..Len(pool') : pool'[i] # s
        BY <1>2, <1>5, <3>2 DEF PoolInv, RequestInv
      <3> QED
        BY <1>1, <1>4, <2>2, <3>1, <3>2, <3>3 DEF PoolInv, RequestInv
    <2> QED
      BY <2>1, <2>2
  <1>11. \A i \in 1..Len(pool') : content'[pool'[i]] = {}
    BY <1>2, <1>4, <1>5, <1>7 DEF PoolInv
  <1> QED
    BY <1>3, <1>8, <1>9, <1>10, <1>11 DEF PoolInv

\* No request and no channel slot ever shares a buffer, and pages stay apart.
THEOREM PoolInvariant == Spec => []PoolInv
  <1>1. PoolInv /\ [Next]_vars => PoolInv'
    <2> SUFFICES ASSUME PoolInv, [Next]_vars PROVE PoolInv'
      OBVIOUS
    <2>1. CASE Next
      BY <2>1, GetPooledStep, GetNewStep, ExecuteStep, WriteStep, PutStep
         DEF Next, Render
    <2>2. CASE UNCHANGED vars
      BY <2>2 DEF vars, PoolInv, TypeOK, BufferExclusive, OwnPage, RequestInv
    <2> QED
      BY <2>1, <2>2
  <1> QED
    BY <1>1, PoolInit, PTL DEF Spec

\* Every variable of pool and renders keeps its type.
THEOREM PoolTypeCorrect == Spec => []TypeOK
  <1>1. PoolInv => TypeOK
    BY DEF PoolInv
  <1> QED
    BY <1>1, PoolInvariant, PTL

\* Renders never share a buffer.
THEOREM BuffersExclusive == Spec => []BufferExclusive
  <1>1. PoolInv => BufferExclusive
    BY DEF PoolInv
  <1> QED
    BY <1>1, PoolInvariant, PTL

\* A client is only ever sent its own page.
THEOREM PagesStayApart == Spec => []OwnPage
  <1>1. PoolInv => OwnPage
    BY DEF PoolInv
  <1> QED
    BY <1>1, PoolInvariant, PTL
=============================================================================
