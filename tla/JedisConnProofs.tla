-------------------------- MODULE JedisConnProofs --------------------------
(***************************************************************************)
(* Type correctness of JedisConn and its safety, for tables with and       *)
(* without a timeout, any number of calls that can be told apart and any   *)
(* bound on the buffer.                                                    *)
(***************************************************************************)
EXTENDS JedisConn, SequenceTheorems, FiniteSetTheorems, TLAPS

(* While the context has seen no error there is at most one request        *)
(* between the caller and its answer, and it is the one asked for.  After  *)
(* an error what is left of it may still be executed, but is not waited    *)
(* for.                                                                    *)
Empty == out = <<>> /\ in = <<>>

Answered(types) == \E type \in types : in = <<[to |-> asked, type |-> type]>>

Pipeline ==
    /\ out # <<>> => \E request \in Request : out = <<request>>
    /\ ~err /\ pc \in {"idle", "append", "crashed"} => obuf = <<>> /\ Empty
    /\ ~err /\ pc = "flush" => obuf = <<asked>> /\ Empty
    /\ pc = "wait" =>
          /\ ~err
          /\ obuf = <<>>
          /\ \/ out = <<asked>> /\ in = <<>>
             \/ out = <<>> /\ (in = <<>> \/ Answered({"result", "other", "error"}))

(* What the request at a place of the call may look like.                  *)
Matches(op, i) ==
    op = Requests(kind)[i] \/ (op = "garbled" /\ Requests(kind)[i] = "again")

(* The request under way is the next one of those of the call.             *)
Asked ==
    pc \in {"flush", "wait"} =>
        /\ asked \in Request
        /\ asked.id = call
        /\ asked.step = step
        /\ Matches(asked.op, step)

(* How many of its requests the call has behind it.                        *)
Completed == IF pc = "idle" THEN step ELSE step - 1

(* The server has got the requests of the call in their order; while the   *)
(* connection lasts, those that the call has behind it.                    *)
Order ==
    /\ Len(served) <= step
    /\ \A i \in DOMAIN served : Matches(served[i].op, i)
    /\ out # <<>> /\ Head(out).id = call =>
          /\ Head(out).step = Len(served) + 1
          /\ Head(out).step <= step
          /\ Matches(Head(out).op, Head(out).step)
    /\ ~err /\ pc = "idle" => served = <<>> \/ Len(served) = Len(Requests(kind))
    /\ ~err /\ pc \in {"append", "flush"} => Len(served) = step - 1
    /\ pc = "wait" /\ in # <<>> => Len(served) = step

(* What execute returns was decided by the last command that the call has  *)
(* behind it, and the reply by what the server has done.                   *)
Returned ==
    /\ pc = "wait" /\ Answered({"result", "other"}) =>
          step \in DOMAIN served /\ served[step].done
    /\ ret => \E i \in 1 .. Completed :
          /\ i \in DOMAIN served /\ served[i].done
          /\ Requests(kind)[i] # "expire"
          /\ \A j \in 1 .. Completed : j > i => Requests(kind)[j] = "expire"

JedisInv == TypeOK /\ Pipeline /\ Asked /\ Order /\ Returned /\ ReplyIsOwn

(* The requests of each kind.                                              *)
LEMMA RequestsOfKinds ==
    ASSUME NEW k \in Kinds
    PROVE  /\ Len(Requests(k)) \in 1 .. 3
           /\ \A i \in 1 .. Len(Requests(k)) : Requests(k)[i] \in Ops
           /\ k \in {"read", "expire"} => Len(Requests(k)) = 1 /\ Requests(k)[1] = k
           /\ k = "write" => /\ Len(Requests(k)) = IF Timed THEN 2 ELSE 1
                             /\ Requests(k)[1] = "write"
                             /\ Timed => Requests(k)[2] = "expire"
           /\ k = "moved" => /\ Len(Requests(k)) = IF Timed THEN 3 ELSE 2
                             /\ Requests(k)[1] = "write"
                             /\ Requests(k)[2] = IF Timed THEN "expire" ELSE "write"
                             /\ Timed => Requests(k)[3] = "write"
           /\ k = "status" => /\ Len(Requests(k)) = 2
                              /\ Requests(k)[1] = "status"
                              /\ Requests(k)[2] = "again"
<1>1. CASE k \in {"read", "expire"}
  BY <1>1 DEF Requests, Ops
<1>2. CASE k = "write"
  <2>1. CASE Timed
    BY <1>2, <2>1 DEF Requests, Ops
  <2>2. CASE ~Timed
    BY <1>2, <2>2 DEF Requests, Ops
  <2> QED BY <1>2, <2>1, <2>2
<1>3. CASE k = "moved"
  <2>1. CASE Timed
    BY <1>3, <2>1 DEF Requests, Ops
  <2>2. CASE ~Timed
    BY <1>3, <2>2 DEF Requests, Ops
  <2> QED BY <1>3, <2>1, <2>2
<1>4. CASE k = "status"
  BY <1>4 DEF Requests, Ops
<1> QED BY <1>1, <1>2, <1>3, <1>4 DEF Kinds

(* What the model does to sequences of at most one element.                *)
LEMMA ShortSequences ==
    ASSUME NEW x
    PROVE  /\ <<x>> # <<>>
           /\ Head(<<x>>) = x /\ Tail(<<x>>) = <<>>
           /\ Append(<<>>, x) = <<x>>
           /\ <<>> \o <<x>> = <<x>>
           /\ Len(<<>>) = 0
           /\ \A n \in 0 .. Len(<<x>>) : SubSeq(<<x>>, 1, n) \in {<<>>, <<x>>}
           /\ \A n \in 0 .. Len(<<>>) : SubSeq(<<>>, 1, n) = <<>>
<1>1. <<x>> # <<>>
  OBVIOUS
<1>2. Head(<<x>>) = x /\ Tail(<<x>>) = <<>>
  OBVIOUS
<1>3. Append(<<>>, x) = <<x>>
  OBVIOUS
<1>4. <<>> \o <<x>> = <<x>>
  OBVIOUS
<1>5. Len(<<>>) = 0 /\ Len(<<x>>) = 1
  OBVIOUS
<1>6. \A n \in 0 .. Len(<<x>>) : SubSeq(<<x>>, 1, n) \in {<<>>, <<x>>}
  <2>1. SubSeq(<<x>>, 1, 0) = <<>>
    OBVIOUS
  <2>2. SubSeq(<<x>>, 1, 1) = <<x>>
    <3>1. <<x>> \in Seq({x})
      OBVIOUS
    <3> QED BY <1>5, <3>1, SubSeqFull
  <2>3. \A n \in 0 .. 1 : n = 0 \/ n = 1
    OBVIOUS
  <2> QED BY <1>5, <2>1, <2>2, <2>3
<1>7. \A n \in 0 .. Len(<<>>) : SubSeq(<<>>, 1, n) = <<>>
  OBVIOUS
<1> QED BY <1>1, <1>2, <1>3, <1>4, <1>5, <1>6, <1>7

(* Initially nothing is under way.                                         *)
LEMMA InitInv == Init => JedisInv
<1> SUFFICES ASSUME Init PROVE JedisInv
  OBVIOUS
<1>1. TypeOK
  <2>1. 0 \in Ids /\ kind \in Kinds
    BY JedisAssumption DEF Init, Ids, Kinds
  <2>2. step \in 1 .. Len(Requests(kind))
    BY <2>1, RequestsOfKinds DEF Init
  <2>3. /\ obuf \in Seq(Request) /\ out \in Seq(Request) /\ in \in Seq(Reply)
        /\ served \in Seq([op : Ops, done : BOOLEAN])
    BY DEF Init
  <2>4. err \in BOOLEAN /\ _is_connect \in BOOLEAN /\ peer \in BOOLEAN /\ ret \in BOOLEAN
    BY DEF Init
  <2>5. /\ pc \in {"idle", "append", "flush", "wait", "crashed"}
        /\ call \in Ids
        /\ asked \in Request \cup {NoRequest}
        /\ answer \in Request \cup {NoRequest}
    BY <2>1 DEF Init
  <2> QED BY <2>1, <2>2, <2>3, <2>4, <2>5 DEF TypeOK
<1>2. Pipeline /\ Asked
  BY DEF Init, Pipeline, Asked, Empty
<1>3. Order /\ Returned
  BY ShortSequences DEF Init, Order, Returned, Answered
<1>4. ReplyIsOwn
  BY DEF Init, ReplyIsOwn
<1> QED BY <1>1, <1>2, <1>3, <1>4 DEF JedisInv

(* A new call begins on an empty pipeline, or on a context that is lost,   *)
(* and has a number of its own.                                            *)
LEMMA CallInv ==
    ASSUME JedisInv, NEW k \in Kinds, Call(k)
    PROVE  JedisInv'
<1> USE DEF JedisInv, Call, context, network
<1>1. TypeOK'
  <2>1. call' \in Ids
    OBVIOUS
  <2>2. step' \in 1 .. Len(Requests(kind'))
    BY RequestsOfKinds
  <2>3. /\ ret' \in BOOLEAN /\ _is_connect' \in BOOLEAN /\ err' \in BOOLEAN /\ peer' \in BOOLEAN
    BY DEF TypeOK
  <2>4. served' \in Seq([op : Ops, done : BOOLEAN])
    OBVIOUS
  <2> QED BY <2>1, <2>2, <2>3, <2>4 DEF TypeOK
<1>2. Pipeline' /\ Asked'
  BY DEF Pipeline, Asked, Empty
<1>3. Order'
  <2>1. out # <<>> => Head(out).id # call'
    <3> SUFFICES ASSUME out # <<>> PROVE Head(out).id # call'
      OBVIOUS
    <3>1. PICK request \in Request : out = <<request>>
      BY DEF Pipeline
    <3>2. 1 \in DOMAIN out /\ Head(out) = out[1]
      BY <3>1, ShortSequences
    <3> QED BY <3>2 DEF InUse
  <2>2. served' = <<>> /\ step' = 1 /\ pc' \in {"idle", "append"} /\ out' = out
    OBVIOUS
  <2> QED BY <2>1, <2>2, ShortSequences DEF Order
<1>4. Returned'
  BY DEF Returned
<1>5. ReplyIsOwn'
  BY DEF ReplyIsOwn
<1> QED BY <1>1, <1>2, <1>3, <1>4, <1>5

(* The request that is appended is the only one, unless the context is     *)
(* lost.                                                                   *)
LEMMA AppendCommandInv ==
    ASSUME JedisInv, AppendCommand
    PROVE  JedisInv'
<1> USE DEF JedisInv, network
<1>k. kind \in Kinds /\ step \in 1 .. Len(Requests(kind)) /\ step \in 1 .. 3
  <2>1. kind \in Kinds /\ step \in 1 .. Len(Requests(kind))
    BY DEF TypeOK
  <2>2. Len(Requests(kind)) \in 1 .. 3
    BY <2>1, RequestsOfKinds
  <2>3. step \in Nat /\ 1 <= step /\ step <= Len(Requests(kind)) /\ Len(Requests(kind)) <= 3
    BY <2>1, <2>2
  <2>4. step \in 1 .. 3
    BY <2>3
  <2> QED BY <2>1, <2>4
<1>1. PICK op \in Ops :
         /\ Matches(op, step)
         /\ asked' = [id |-> call, step |-> step, op |-> op]
         /\ obuf' = IF Len(obuf) < MaxBuf
                    THEN Append(obuf, [id |-> call, step |-> step, op |-> op]) ELSE obuf
  <2>1. Requests(kind)[step] \in Ops
    BY <1>k, RequestsOfKinds
  <2> QED BY <2>1 DEF AppendCommand, Ops, Matches
<1>2. /\ pc = "append" /\ pc' = "flush" /\ answer' = NoRequest
      /\ UNCHANGED <<_is_connect, err, peer, out, in, call, kind, step, ret, served>>
  BY DEF AppendCommand
<1>3. asked' \in Request
  BY <1>1, <1>k DEF TypeOK, Request
<1>4. TypeOK'
  <2>1. obuf' \in Seq(Request)
    BY <1>1, <1>3, AppendProperties DEF TypeOK
  <2> QED BY <1>2, <1>3, <2>1 DEF TypeOK
<1>5. Pipeline'
  <2>1. ~err => obuf' = <<asked'>>
    <3>1. ~err => obuf = <<>>
      BY <1>2 DEF Pipeline
    <3>2. Len(<<>>) < MaxBuf
      BY JedisAssumption, ShortSequences
    <3> QED BY <1>1, <3>1, <3>2, ShortSequences
  <2> QED BY <1>2, <2>1 DEF Pipeline, Empty
<1>6. Asked'
  <2>1. asked'.id = call /\ asked'.step = step /\ Matches(asked'.op, step)
    BY <1>1
  <2> QED BY <1>2, <1>3, <2>1 DEF Asked, Matches
<1>7. Order'
  BY <1>2 DEF Order, Matches
<1>8. Returned'
  BY <1>2 DEF Returned, Completed
<1>9. ReplyIsOwn'
  BY <1>2 DEF ReplyIsOwn
<1> QED BY <1>4, <1>5, <1>6, <1>7, <1>8, <1>9

(* Nothing was sent when a call ends with the process.                     *)
LEMMA FormatCrashInv ==
    ASSUME JedisInv, FormatCrash
    PROVE  JedisInv'
<1> USE DEF JedisInv, FormatCrash, context, network
<1>1. TypeOK' /\ ReplyIsOwn'
  BY DEF TypeOK, ReplyIsOwn
<1>2. Pipeline' /\ Asked'
  BY DEF Pipeline, Asked, Empty
<1>3. Order' /\ Returned'
  BY DEF Order, Returned, Completed, Matches
<1> QED BY <1>1, <1>2, <1>3

(* The buffer that is written holds the request that was asked.            *)
LEMMA FlushInv ==
    ASSUME JedisInv, Flush
    PROVE  JedisInv'
<1> USE DEF JedisInv
<1>1. /\ pc = "flush" /\ pc' = "wait" /\ ~err /\ obuf' = <<>>
      /\ UNCHANGED <<_is_connect, err, peer, in, call, kind, step, ret, asked, answer,
                     served>>
  BY DEF Flush
<1>2. out' = <<asked>> /\ out = <<>> /\ in = <<>>
  <2>1. obuf = <<asked>> /\ out = <<>> /\ in = <<>>
    BY <1>1 DEF Pipeline, Empty
  <2> QED BY <2>1, ShortSequences DEF Flush
<1>3. asked \in Request
  BY <1>1 DEF Asked
<1>4. TypeOK'
  <2>1. out' \in Seq(Request) /\ obuf' \in Seq(Request)
    BY <1>1, <1>2, <1>3
  <2> QED BY <1>1, <2>1 DEF TypeOK
<1>5. Pipeline'
  BY <1>1, <1>2, <1>3 DEF Pipeline
<1>6. Asked'
  BY <1>1 DEF Asked, Matches
<1>7. Order'
  <2>1. Head(out') = asked /\ asked.step = step /\ Matches(asked.op, step)
    BY <1>1, <1>2, ShortSequences DEF Asked
  <2>2. Len(served) = step - 1 /\ step \in Nat
    BY <1>1 DEF Order, TypeOK
  <2>3. Head(out').step = Len(served') + 1 /\ Head(out').step <= step'
    BY <1>1, <2>1, <2>2
  <2>4. Matches(Head(out).op, Head(out).step)'
    BY <1>1, <2>1 DEF Matches
  <2>5. Len(served') <= step' /\ (\A i \in DOMAIN served : Matches(served[i].op, i))'
    BY <1>1 DEF Order, Matches
  <2> QED BY <1>1, <1>2, <2>3, <2>4, <2>5 DEF Order
<1>8. Returned'
  <2>1. ~Answered({"result", "other"})'
    BY <1>1, <1>2 DEF Answered
  <2>2. Completed' = Completed
    BY <1>1 DEF Completed
  <2> QED BY <1>1, <2>1, <2>2 DEF Returned
<1>9. ReplyIsOwn'
  BY <1>1 DEF ReplyIsOwn
<1> QED BY <1>4, <1>5, <1>6, <1>7, <1>8, <1>9

(* Where the next request of the call starts from, and what decides the    *)
(* value that execute returns.                                             *)
LEMMA EndRequestFacts ==
    ASSUME TypeOK, Asked, pc \in {"flush", "wait"},
           NEW ok \in BOOLEAN, NEW got \in Request \cup {NoRequest}, EndRequest(ok, got)
    PROVE  /\ \/ pc' = "append" /\ step' = step + 1 /\ step < Len(Requests(kind))
              \/ pc' = "idle" /\ step' = step /\ step = Len(Requests(kind))
           /\ step \in Nat \ {0} /\ step' \in 1 .. Len(Requests(kind))
           /\ Completed = step - 1 /\ Completed' = step
           /\ ret' \in BOOLEAN
           /\ ret' = IF Requests(kind)[step] = "expire" THEN ret ELSE ok
           /\ answer' = got
           /\ UNCHANGED <<call, kind, asked>>
<1>1. /\ kind \in Kinds /\ step \in 1 .. Len(Requests(kind)) /\ ret \in BOOLEAN
      /\ Len(Requests(kind)) \in Nat
  BY RequestsOfKinds DEF TypeOK
<1>2. /\ answer' = got
      /\ ret' = IF asked.op = "expire" THEN ret ELSE ok
      /\ UNCHANGED <<call, kind, asked>>
  BY DEF EndRequest
<1>3. \/ pc' = "append" /\ step' = step + 1 /\ step < Len(Requests(kind))
      \/ pc' = "idle" /\ step' = step /\ step = Len(Requests(kind))
  BY <1>1 DEF EndRequest
<1>4. asked.op = "expire" <=> Requests(kind)[step] = "expire"
  BY DEF Asked, Matches
<1>5. Completed = step - 1 /\ Completed' = step
  BY <1>1, <1>3 DEF Completed
<1> QED BY <1>1, <1>2, <1>3, <1>4, <1>5

(* The reply that is taken is the one to the request asked.                *)
LEMMA GetReplyInv ==
    ASSUME JedisInv, GetReply
    PROVE  JedisInv'
<1> USE DEF JedisInv, context
<1>1. /\ pc = "wait" /\ in # <<>>
      /\ UNCHANGED <<_is_connect, err, obuf, peer, out, served>>
  BY DEF GetReply
<1>2. PICK type \in {"result", "other", "error"} : in = <<[to |-> asked, type |-> type]>>
  BY <1>1 DEF Pipeline, Answered
<1>3. ~err /\ obuf = <<>> /\ out = <<>> /\ in' = <<>>
  BY <1>1, <1>2, ShortSequences DEF Pipeline, GetReply
<1>4. asked \in Request
  BY <1>1 DEF Asked
<1>5. PICK got \in {asked, NoRequest} : EndRequest(type # "error", got)
  BY <1>2, ShortSequences DEF GetReply
<1>6. /\ \/ pc' = "append" /\ step' = step + 1 /\ step < Len(Requests(kind))
         \/ pc' = "idle" /\ step' = step /\ step = Len(Requests(kind))
      /\ step \in Nat \ {0} /\ step' \in 1 .. Len(Requests(kind))
      /\ Completed = step - 1 /\ Completed' = step
      /\ ret' \in BOOLEAN
      /\ ret' = IF Requests(kind)[step] = "expire" THEN ret ELSE type # "error"
      /\ answer' = got
      /\ UNCHANGED <<call, kind, asked>>
  BY <1>1, <1>4, <1>5, EndRequestFacts
<1>7. TypeOK'
  <2>1. in' \in Seq(Reply)
    BY <1>3
  <2> QED BY <1>1, <1>4, <1>6, <2>1 DEF TypeOK
<1>8. Pipeline' /\ Asked'
  BY <1>1, <1>3, <1>6 DEF Pipeline, Asked, Empty
<1>9. Order'
  <2>1. Len(served) = step
    BY <1>1 DEF Order
  <2>2. (\A i \in DOMAIN served : Matches(served[i].op, i))'
    <3>1. served' = served /\ kind' = kind
      BY <1>1, <1>6
    <3>2. \A i \in DOMAIN served : Matches(served[i].op, i)
      BY DEF Order
    <3> HIDE DEF JedisInv
    <3> QED BY <3>1, <3>2 DEF Matches
  <2>3. /\ out' = <<>> /\ in' = <<>> /\ served' = served /\ kind' = kind
        /\ \/ pc' = "append" /\ step' = step + 1
           \/ pc' = "idle" /\ step' = step
        /\ pc' = "idle" => step = Len(Requests(kind))
        /\ step \in Nat
    BY <1>1, <1>3, <1>6
  <2> HIDE DEF JedisInv
  <2> QED BY <2>1, <2>2, <2>3 DEF Order
<1>10. Returned'
  <2> SUFFICES ASSUME ret'
               PROVE  \E i \in 1 .. step :
                        /\ i \in DOMAIN served /\ served[i].done
                        /\ Requests(kind)[i] # "expire"
                        /\ \A j \in 1 .. step : j > i => Requests(kind)[j] = "expire"
    BY <1>1, <1>6 DEF Returned
  <2>1. CASE Requests(kind)[step] = "expire"
    BY <1>6, <2>1 DEF Returned
  <2>2. CASE Requests(kind)[step] # "expire"
    <3>1. step \in DOMAIN served /\ served[step].done
      BY <1>1, <1>2, <1>6, <2>2 DEF Returned, Answered
    <3> QED BY <1>6, <2>2, <3>1
  <2> QED BY <2>1, <2>2
<1>11. ReplyIsOwn'
  BY <1>5, <1>6 DEF ReplyIsOwn
<1> QED BY <1>7, <1>8, <1>9, <1>10, <1>11

(* A request that fails leaves a context that is lost.                     *)
LEMMA FailInv ==
    ASSUME JedisInv, Fail
    PROVE  JedisInv'
<1> USE DEF JedisInv, network
<1>1. /\ pc \in {"flush", "wait"} /\ err' = TRUE
      /\ UNCHANGED <<_is_connect, obuf, peer, out, in, served>>
      /\ EndRequest(FALSE, NoRequest)
  BY DEF Fail
<1>2. /\ \/ pc' = "append" /\ step' = step + 1 /\ step < Len(Requests(kind))
         \/ pc' = "idle" /\ step' = step /\ step = Len(Requests(kind))
      /\ step \in Nat \ {0} /\ step' \in 1 .. Len(Requests(kind))
      /\ Completed = step - 1 /\ Completed' = step
      /\ ret' \in BOOLEAN
      /\ ret' = IF Requests(kind)[step] = "expire" THEN ret ELSE FALSE
      /\ answer' = NoRequest
      /\ UNCHANGED <<call, kind, asked>>
  BY <1>1, EndRequestFacts
<1>3. TypeOK'
  BY <1>1, <1>2 DEF TypeOK
<1>4. Pipeline' /\ Asked'
  BY <1>1, <1>2 DEF Pipeline, Asked
<1>5. Order'
  <2>1. step <= step'
    BY <1>2
  <2>2. (\A i \in DOMAIN served : Matches(served[i].op, i))'
    BY <1>1, <1>2 DEF Order, Matches
  <2>3. Len(served) \in Nat
    BY DEF TypeOK
  <2>4. Len(served') <= step'
    BY <1>1, <1>2, <2>1, <2>3 DEF Order
  <2>5. out # <<>> /\ Head(out).id = call =>
          /\ Head(out).step = Len(served) + 1
          /\ Head(out).step <= step'
          /\ Matches(Head(out).op, Head(out).step)
    BY <1>2, <2>1, <2>3 DEF Order
  <2> QED BY <1>1, <1>2, <2>2, <2>4, <2>5 DEF Order, Matches
<1>6. Returned'
  BY <1>1, <1>2 DEF Returned
<1>7. ReplyIsOwn'
  BY <1>1, <1>2 DEF ReplyIsOwn
<1> QED BY <1>3, <1>4, <1>5, <1>6, <1>7

(* The server does the request that is waited for, or one that nobody      *)
(* waits for any more.                                                     *)
LEMMA ServeInv ==
    ASSUME JedisInv, Serve
    PROVE  JedisInv'
<1> USE DEF JedisInv, context, caller
<1>1. PICK request \in Request : out = <<request>>
  BY DEF Serve, Pipeline
<1>2. PICK type \in {"result", "other", "error"}, done \in BOOLEAN :
         /\ in' = Append(in, [to |-> request, type |-> type])
         /\ type # "error" => done = TRUE
         /\ served' = Recorded(request, done)
  <2>1. CASE Refused(request)
    BY <2>1 DEF Refused
  <2>2. CASE Executed(request)
    BY <2>2 DEF Executed
  <2> QED BY <1>1, <2>1, <2>2, ShortSequences DEF Serve
<1>3. /\ out' = <<>>
      /\ UNCHANGED <<_is_connect, err, obuf, peer, pc, call, kind, step, ret, asked, answer>>
  BY <1>1, ShortSequences DEF Serve
<1>4. ~err => pc = "wait" /\ request = asked /\ in = <<>>
                /\ in' = <<[to |-> asked, type |-> type]>>
  <2>1. out # <<>> /\ Head(out) = request
    BY <1>1, ShortSequences
  <2>2. ~err => pc = "wait"
    BY <2>1 DEF Pipeline, Empty, TypeOK
  <2>3. ~err => out = <<asked>> /\ in = <<>>
    BY <2>1, <2>2 DEF Pipeline
  <2>4. ~err => request = asked
    BY <2>1, <2>3, ShortSequences
  <2> QED BY <1>2, <2>2, <2>3, <2>4, ShortSequences
<1>5. /\ served \in Seq([op : Ops, done : BOOLEAN]) /\ Len(served) \in Nat
      /\ [op |-> request.op, done |-> done] \in [op : Ops, done : BOOLEAN]
  <2>1. request.op \in Ops
    BY DEF Request
  <2> QED BY <2>1 DEF TypeOK
<1>6. \/ request.id # call /\ served' = served
      \/ /\ request.id = call
         /\ served' = Append(served, [op |-> request.op, done |-> done])
         /\ Len(served') = Len(served) + 1
         /\ served'[Len(served) + 1] = [op |-> request.op, done |-> done]
         /\ \A i \in DOMAIN served : i \in DOMAIN served' /\ served'[i] = served[i]
         /\ \A i \in DOMAIN served' : i \in DOMAIN served \/ i = Len(served) + 1
  BY <1>2, <1>5, AppendProperties DEF Recorded
<1>7. request.id = call =>
         /\ request.step = Len(served) + 1 /\ request.step <= step
         /\ Matches(request.op, request.step)
  <2>1. out # <<>> /\ Head(out) = request
    BY <1>1, ShortSequences
  <2> QED BY <2>1 DEF Order
<1>8. TypeOK'
  <2>1. [to |-> request, type |-> type] \in Reply
    BY DEF Reply
  <2>2. in' \in Seq(Reply) /\ out' \in Seq(Request)
    BY <1>2, <1>3, <2>1, AppendProperties DEF TypeOK
  <2>3. served' \in Seq([op : Ops, done : BOOLEAN])
    <3> DEFINE Record == [op : Ops, done : BOOLEAN]
               record == [op |-> request.op, done |-> done]
    <3>1. served \in Seq(Record) /\ record \in Record
      BY <1>5
    <3>2. served' = served \/ served' = Append(served, record)
      BY <1>6
    <3> HIDE DEF Record, record
    <3>3. served' \in Seq(Record)
      BY <3>1, <3>2, AppendProperties
    <3> QED BY <3>3 DEF Record
  <2> QED BY <1>3, <2>2, <2>3 DEF TypeOK
<1>9. Pipeline' /\ Asked'
  <2>1. pc = "wait" => ~err /\ obuf = <<>>
    BY DEF Pipeline
  <2> QED BY <1>3, <1>4, <2>1 DEF Pipeline, Asked, Answered, Matches
<1>10. pc = "wait" => request.id = call /\ request.step = step /\ Len(served') = step
  <2>1. pc = "wait" => request = asked
    BY <1>4 DEF Pipeline
  <2> QED BY <1>6, <1>7, <2>1 DEF Asked
<1>11. Order'
  <2>1. Len(served') <= step
    BY <1>5, <1>6, <1>7 DEF Order
  <2>2. \A i \in DOMAIN served' : Matches(served'[i].op, i)
    BY <1>6, <1>7 DEF Order
  <2>3. (\A i \in DOMAIN served : Matches(served[i].op, i))'
    BY <1>3, <2>2 DEF Matches
  <2> QED BY <1>3, <1>4, <1>10, <2>1, <2>3 DEF Order
<1>12. Returned'
  <2>1. pc = "wait" /\ Answered({"result", "other"})' =>
           step \in DOMAIN served' /\ served'[step].done
    <3> SUFFICES ASSUME pc = "wait", Answered({"result", "other"})'
                 PROVE  step \in DOMAIN served' /\ served'[step].done
      OBVIOUS
    <3>1. in' = <<[to |-> asked, type |-> type]>>
      BY <1>4 DEF Pipeline
    <3>2. type # "error"
      <4>1. PICK other \in {"result", "other"} : in' = <<[to |-> asked, type |-> other]>>
        BY <1>3 DEF Answered
      <4>2. Head(in') = [to |-> asked, type |-> type] /\ Head(in') = [to |-> asked, type |-> other]
        BY <3>1, <4>1, ShortSequences
      <4> QED BY <4>2
    <3>3. step = Len(served) + 1 /\ request.id = call
      BY <1>7, <1>10
    <3>4. served'[step] = [op |-> request.op, done |-> TRUE]
      BY <1>2, <1>6, <3>2, <3>3
    <3>5. step \in DOMAIN served'
      BY <1>5, <1>6, <3>3
    <3> QED BY <3>4, <3>5
  <2>2. \A i \in DOMAIN served : i \in DOMAIN served' /\ served'[i] = served[i]
    BY <1>6
  <2>3. Completed' = Completed
    BY <1>3 DEF Completed
  <2> QED BY <1>3, <2>1, <2>2, <2>3 DEF Returned
<1>13. ReplyIsOwn'
  BY <1>3 DEF ReplyIsOwn
<1> QED BY <1>8, <1>9, <1>11, <1>12, <1>13

(* What the network loses was waited for, and its loss is noticed.         *)
LEMMA DisconnectInv ==
    ASSUME JedisInv, Disconnect
    PROVE  JedisInv'
<1> USE DEF JedisInv, context, caller
<1>1. /\ peer' = FALSE /\ out' = <<>>
      /\ UNCHANGED <<_is_connect, err, obuf, pc, call, kind, step, ret, asked, answer, served>>
  BY DEF Disconnect
<1>2. PICK n \in 0 .. Len(in) : in' = SubSeq(in, 1, n)
  BY DEF Disconnect
<1>3. in' \in Seq(Reply)
  <2>1. in \in Seq(Reply)
    BY DEF TypeOK
  <2>2. \A i \in 1 .. n : in[i] \in Reply
    BY <1>2, <2>1, ElementOfSeq
  <2> QED BY <1>2, <2>2, SubSeqProperties
<1>4. TypeOK'
  <2>1. peer' \in BOOLEAN
    BY <1>1, Zenon
  <2>2. out' \in Seq(Request)
    BY <1>1
  <2> QED BY <1>1, <1>3, <2>1, <2>2 DEF TypeOK
<1>5. ~err => in' \in {<<>>, in}
  <2>1. ~err => in = <<>> \/ \E x \in Reply : in = <<x>>
    <3>1. ~err /\ pc # "wait" => in = <<>>
      BY DEF Pipeline, Empty, TypeOK
    <3>2. pc = "wait" => in = <<>> \/ \E x \in Reply : in = <<x>>
      <4>1. pc = "wait" => asked \in Request
        BY DEF Asked
      <4>2. \A type \in {"result", "other", "error"} :
              asked \in Request => [to |-> asked, type |-> type] \in Reply
        BY DEF Reply
      <4> QED BY <4>1, <4>2 DEF Pipeline, Answered
    <3> QED BY <3>1, <3>2
  <2> QED BY <1>2, <2>1, ShortSequences
<1>6. pc = "wait" => in' \in {<<>>, in}
  BY <1>5 DEF Pipeline
<1>7. Pipeline' /\ Asked'
  BY <1>1, <1>5 DEF Pipeline, Asked, Empty, Answered, Matches
<1>8. Order'
  BY <1>1, <1>6 DEF Order, Matches
<1>9. Returned'
  <2>1. pc = "wait" /\ Answered({"result", "other"})' => Answered({"result", "other"})
    BY <1>1, <1>6, ShortSequences DEF Answered
  <2>2. Completed' = Completed
    BY <1>1 DEF Completed
  <2> QED BY <1>1, <2>1, <2>2 DEF Returned
<1>10. ReplyIsOwn'
  BY <1>1 DEF ReplyIsOwn
<1> QED BY <1>4, <1>7, <1>8, <1>9, <1>10

(* Every step keeps the invariant.                                         *)
LEMMA NextInv == JedisInv /\ [Next]_vars => JedisInv'
<1> SUFFICES ASSUME JedisInv, [Next]_vars PROVE JedisInv'
  OBVIOUS
<1>1. CASE UNCHANGED vars
  BY <1>1 DEF vars, context, network, caller, JedisInv, TypeOK, Pipeline, Empty,
              Answered, Asked, Order, Returned, Completed, Matches, ReplyIsOwn
<1>2. CASE \E k \in Kinds : Call(k)
  BY <1>2, CallInv
<1>3. CASE CallerStep
  BY <1>3, AppendCommandInv, FormatCrashInv, FlushInv, GetReplyInv, FailInv DEF CallerStep
<1>4. CASE Serve
  BY <1>4, ServeInv
<1>5. CASE Disconnect
  BY <1>5, DisconnectInv
<1> QED BY <1>1, <1>2, <1>3, <1>4, <1>5 DEF Next, Terminated

(* JedisInv is an invariant.                                               *)
LEMMA Invariance == Spec => []JedisInv
  BY InitInv, NextInv, PTL DEF Spec

-----------------------------------------------------------------------------
(* The variables of JedisConn always hold values of their types.           *)
THEOREM JedisTypeCorrect == Spec => []TypeOK
<1>1. JedisInv => TypeOK
  BY DEF JedisInv
<1> QED BY <1>1, Invariance, PTL

(* A result comes from the reply to its own request, whatever was late or  *)
(* lost before.                                                            *)
THEOREM RepliesAreOwn == Spec => []ReplyIsOwn
<1>1. JedisInv => ReplyIsOwn
  BY DEF JedisInv
<1> QED BY <1>1, Invariance, PTL

(* A set of one or two elements has at most as many.                       *)
LEMMA SmallSets ==
    ASSUME NEW S, NEW a, NEW b
    PROVE  /\ S \subseteq {a} => Cardinality(S) <= 1
           /\ S \subseteq {a, b} => Cardinality(S) <= 2
<1>1. IsFiniteSet({}) /\ Cardinality({}) = 0
  BY FS_EmptySet
<1>2. IsFiniteSet({a}) /\ Cardinality({a}) = 1
  BY FS_Singleton
<1>3. IsFiniteSet({a, b}) /\ Cardinality({a, b}) <= 2
  <2>1. {a, b} = {a} \cup {b}
    OBVIOUS
  <2> QED BY <1>2, <2>1, FS_AddElement
<1>4. S \subseteq {a} => Cardinality(S) <= 1
  BY <1>2, FS_Subset
<1>5. S \subseteq {a, b} => Cardinality(S) <= 2
  <2> SUFFICES ASSUME S \subseteq {a, b} PROVE Cardinality(S) <= 2
    OBVIOUS
  <2>1. Cardinality(S) <= Cardinality({a, b}) /\ IsFiniteSet(S)
    BY <1>3, FS_Subset
  <2>2. Cardinality(S) \in Nat /\ Cardinality({a, b}) \in Nat
    BY <1>3, <2>1, FS_CardinalityType
  <2> QED BY <1>3, <2>1, <2>2
<1> QED BY <1>4, <1>5

(* The places of the requests of one kind in what the server did.          *)
LEMMA PlacesOf ==
    ASSUME JedisInv, NEW op \in Ops
    PROVE  LET places == {i \in DOMAIN served : served[i].op = op}
           IN  \/ \E a \in 1 .. 3 : places \subseteq {a}
               \/ kind = "moved" /\ op = "write" /\ \E a, b \in 1 .. 3 : places \subseteq {a, b}
<1> DEFINE places == {i \in DOMAIN served : served[i].op = op}
<1>1. kind \in Kinds /\ Len(Requests(kind)) \in 1 .. 3
  BY RequestsOfKinds DEF JedisInv, TypeOK
<1>2. DOMAIN served = 1 .. Len(served) /\ Len(served) \in Nat /\ Len(served) <= Len(Requests(kind))
  BY <1>1 DEF JedisInv, TypeOK, Order
<1>3. \A i \in places : i \in 1 .. Len(Requests(kind)) /\ Matches(op, i)
  BY <1>1, <1>2 DEF JedisInv, Order
<1>4. CASE kind \in {"read", "expire"}
  BY <1>3, <1>4, RequestsOfKinds DEF Kinds
<1>5. CASE kind = "write"
  <2>1. \A i \in places : i = IF op = "write" THEN 1 ELSE 2
    BY <1>1, <1>3, <1>5, RequestsOfKinds DEF Matches
  <2> QED BY <2>1
<1>6. CASE kind = "status"
  <2>1. \A i \in places : i = IF op = "status" THEN 1 ELSE 2
    BY <1>1, <1>3, <1>6, RequestsOfKinds DEF Matches
  <2> QED BY <2>1
<1>7. CASE kind = "moved"
  <2>1. CASE op = "write"
    <3>1. places \subseteq {1, Len(Requests(kind))}
      BY <1>1, <1>3, <1>7, <2>1, RequestsOfKinds DEF Matches
    <3>2. 1 \in 1 .. 3
      OBVIOUS
    <3> HIDE DEF places
    <3>3. \E a, b \in 1 .. 3 : places \subseteq {a, b}
      BY <1>1, <3>1, <3>2
    <3> QED BY <1>7, <2>1, <3>3 DEF places
  <2>2. CASE op # "write"
    <3>1. \A i \in places : i = 2
      BY <1>1, <1>3, <1>7, <2>2, RequestsOfKinds DEF Matches
    <3> QED BY <3>1
  <2> QED BY <2>1, <2>2
<1> QED BY <1>1, <1>4, <1>5, <1>6, <1>7 DEF Kinds

(* No request of a call is done twice, but for the write that a            *)
(* re-sharding moves, and true is returned only if the last command was    *)
(* done.                                                                   *)
THEOREM CommandsApplyAsAsked == Spec => []AppliedAsAsked
<1>1. JedisInv => AppliedAsAsked
  <2> SUFFICES ASSUME JedisInv PROVE AppliedAsAsked
    OBVIOUS
  <2>1. ASSUME NEW op \in Ops
        PROVE  Times(op) <= IF kind = "moved" /\ op = "write" THEN 2 ELSE 1
    <3> DEFINE places == {i \in DOMAIN served : served[i].op = op}
    <3>1. CASE \E a \in 1 .. 3 : places \subseteq {a}
      <4>1. PICK a \in 1 .. 3 : places \subseteq {a}
        BY <3>1
      <4>2. Cardinality(places) <= 1 /\ IsFiniteSet(places)
        BY <4>1, SmallSets, FS_Singleton, FS_Subset
      <4>3. Cardinality(places) \in Nat
        BY <4>2, FS_CardinalityType
      <4> QED BY <4>2, <4>3 DEF Times
    <3>2. CASE kind = "moved" /\ op = "write" /\ \E a, b \in 1 .. 3 : places \subseteq {a, b}
      BY <3>2, SmallSets DEF Times
    <3> QED BY <3>1, <3>2, PlacesOf
  <2>2. pc = "idle" /\ ret => LastDone
    <3> SUFFICES ASSUME pc = "idle", ret PROVE LastDone
      OBVIOUS
    <3>1. PICK i \in 1 .. step :
            /\ i \in DOMAIN served /\ served[i].done
            /\ Requests(kind)[i] # "expire"
            /\ \A j \in 1 .. step : j > i => Requests(kind)[j] = "expire"
      BY DEF JedisInv, Returned, Completed
    <3>2. /\ DOMAIN served = 1 .. Len(served) /\ Len(served) \in Nat /\ Len(served) <= step
          /\ step \in Nat
      BY DEF JedisInv, TypeOK, Order
    <3>3. served[i].op # "expire"
      BY <3>1 DEF JedisInv, Order, Matches
    <3>4. ASSUME NEW j \in DOMAIN served, j > i
          PROVE  served[j].op = "expire"
      <4>1. Requests(kind)[j] = "expire"
        BY <3>1, <3>2, <3>4
      <4> QED BY <4>1 DEF JedisInv, Order, Matches
    <3> QED BY <3>1, <3>3, <3>4 DEF LastDone
  <2> QED BY <2>1, <2>2 DEF AppliedAsAsked
<1> QED BY <1>1, Invariance, PTL

(* While the connection lasts, a value of a table with a timeout keeps no  *)
(* expiry only if its EXPIRE was refused, or if a re-sharding has the      *)
(* write executed again.                                                   *)
THEOREM WritesExpire == Spec => []StaysIfRefusedOrMoved
<1>1. JedisInv => StaysIfRefusedOrMoved
  <2> SUFFICES ASSUME JedisInv, pc = "idle", ~err, Timed,
                      NEW i \in DOMAIN served, served[i].op = "write", served[i].done,
                      \A j \in DOMAIN served :
                         j > i => ~(served[j].op = "expire" /\ served[j].done)
               PROVE  \E j \in DOMAIN served :
                         served[j].op = "expire" /\ (~served[j].done \/ kind = "moved")
    BY DEF StaysIfRefusedOrMoved, Stays
  <2>1. kind \in Kinds /\ Len(Requests(kind)) \in 1 .. 3
    BY RequestsOfKinds DEF JedisInv, TypeOK
  <2>2. DOMAIN served = 1 .. Len(served) /\ Len(served) = Len(Requests(kind))
    BY DEF JedisInv, TypeOK, Order
  <2>3. \A j \in DOMAIN served : Matches(served[j].op, j)
    BY DEF JedisInv, Order
  <2>4. kind \in {"write", "moved"}
    BY <2>1, <2>2, <2>3, RequestsOfKinds DEF Kinds, Matches
  <2>5. 2 \in DOMAIN served /\ served[2].op = "expire"
    BY <2>1, <2>2, <2>3, <2>4, RequestsOfKinds DEF Matches
  <2>6. kind = "write" => i = 1
    BY <2>1, <2>2, <2>3, RequestsOfKinds DEF Matches
  <2> QED BY <2>4, <2>5, <2>6
<1> QED BY <1>1, Invariance, PTL
=============================================================================
