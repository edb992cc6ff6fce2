----------------------------- MODULE JedisConn -----------------------------
(***************************************************************************)
(* One Jedis: a blocking hiredis connection, the calls that one thread     *)
(* after the other makes on it, and the Redis server at its other end,     *)
(* which may answer late, refuse, or go away.                              *)
(*                                                                         *)
(* A call is one of                                                        *)
(*   "read", "write"  RedisTable::execute, which ends up in an overload of *)
(*                    Jedis::execute that takes a va_list; a write to a    *)
(*                    table with a timeout is followed by an EXPIRE        *)
(*   "moved"          such a write during a re-sharding, of a key that the *)
(*                    second ring gives to another host, on the connection *)
(*                    of the old owner: the write is executed there once   *)
(*                    more, after the EXPIRE                               *)
(*   "expire"         the same on the connection of the new owner, which   *)
(*                    gets an EXPIRE only                                  *)
(*   "status"         Jedis::execute with variable arguments and no        *)
(*                    result, which has its request executed twice with    *)
(*                    the same va_list.                                    *)
(* Two calls at the same time on one context are beyond what hiredis       *)
(* defines; they are not followed here.                                    *)
(***************************************************************************)
EXTENDS Naturals, Sequences, FiniteSets

CONSTANTS
    Timed,          \* RedisTable::_timeout > 0
    Calls,          \* bound: calls whose requests can be told apart
    MaxBuf          \* bound: requests followed in a buffer that is never sent

ASSUME JedisAssumption ==
    /\ Timed \in BOOLEAN
    /\ Calls \in Nat \ {0}
    /\ MaxBuf \in Nat \ {0}

Ids == 0 .. (Calls - 1)

(* Faulty variant of Requests: RedisTable::execute, too, has every write   *)
(* executed twice.                                                         *)
RequestsDoubled(k) ==
    CASE k = "read"   -> <<"read">>
      [] k \in {"write", "moved"} ->
            IF Timed THEN <<"write", "write", "expire">> ELSE <<"write", "write">>
      [] k = "expire" -> <<"expire">>
      [] k = "status" -> <<"status", "again">>

(* The requests of a call.                                                 *)
Requests(k) ==
    CASE k = "read"   -> <<"read">>
      [] k = "write"  -> IF Timed THEN <<"write", "expire">> ELSE <<"write">>
      [] k = "moved"  -> IF Timed THEN <<"write", "expire", "write">>
                         ELSE <<"write", "write">>
      [] k = "expire" -> <<"expire">>
      [] k = "status" -> <<"status", "again">>

Kinds == {"read", "write", "moved", "expire", "status"}
Ops == {"read", "write", "expire", "status", "again", "garbled"}
Request == [id : Ids, step : 1 .. 3, op : Ops]
Reply == [to : Request, type : {"result", "other", "error"}]
NoRequest == [id |-> 0, step |-> 0, op |-> "none"]

VARIABLES
    _is_connect,    \* the only thing a call looks at before it starts
    err,            \* redisContext::err is set
    obuf,           \* redisContext::obuf: requests not yet written
    peer,           \* the server is there
    out,            \* requests written, not yet executed
    in,             \* replies on the way and in redisContext::reader
    pc,             \* control of the call
    call,           \* its number
    kind,           \* its kind
    step,           \* which of its requests is under way
    ret,            \* what execute returned, or is about to
    asked,          \* history: the request last appended
    answer,         \* history: the request whose reply it got, or none
    served          \* history: what the server did of the call's requests

context == <<_is_connect, err, obuf>>
network == <<peer, out, in>>
caller  == <<pc, call, kind, step, ret, asked, answer>>
vars == <<context, network, caller, served>>

InUse == {out[i].id : i \in DOMAIN out} \cup {in[i].to.id : i \in DOMAIN in}

(* init_obj: without a connection the object stays unconnected for good.   *)
Init ==
    /\ _is_connect \in BOOLEAN
    /\ err = FALSE
    /\ obuf = <<>>
    /\ peer = _is_connect
    /\ out = <<>>
    /\ in = <<>>
    /\ pc = "idle"
    /\ call = 0
    /\ kind = "read"
    /\ step = 1
    /\ ret = FALSE
    /\ asked = NoRequest
    /\ answer = NoRequest
    /\ served = <<>>

-----------------------------------------------------------------------------
(* The caller.                                                             *)

(* Only a table with a timeout sends an EXPIRE.  The number of a call that *)
(* has left nothing behind is free again.                                  *)
Call(k) ==
    /\ pc = "idle"
    /\ k = "expire" => Timed
    /\ pc' = IF _is_connect THEN "append" ELSE "idle"
    /\ call' \in Ids \ InUse
    /\ kind' = k
    /\ step' = 1
    /\ ret' = FALSE
    /\ asked' = NoRequest
    /\ answer' = NoRequest
    /\ served' = <<>>
    /\ UNCHANGED <<context, network>>

(* The first half of redisvCommand.  The second use of a va_list finds the *)
(* same arguments (there are none, or the ABI copies it), or others.       *)
AppendCommand ==
    /\ pc = "append"
    /\ \E op \in {Requests(kind)[step]}
              \cup IF Requests(kind)[step] = "again" THEN {"garbled"} ELSE {} :
          LET request == [id |-> call, step |-> step, op |-> op]
          IN  /\ asked' = request
              /\ answer' = NoRequest
              /\ obuf' = IF Len(obuf) < MaxBuf
                         THEN Append(obuf, request) ELSE obuf
    /\ pc' = "flush"
    /\ UNCHANGED <<_is_connect, err, network, call, kind, step, ret, served>>

(* ... or the process fails on them.                                       *)
FormatCrash ==
    /\ pc = "append"
    /\ Requests(kind)[step] = "again"
    /\ pc' = "crashed"
    /\ UNCHANGED <<context, network, served>>
    /\ UNCHANGED <<call, kind, step, ret, asked, answer>>

(* The second half, redisGetReply: the buffer is written ...               *)
Flush ==
    /\ pc = "flush"
    /\ ~err
    /\ peer
    /\ out' = out \o obuf
    /\ obuf' = <<>>
    /\ pc' = "wait"
    /\ UNCHANGED <<_is_connect, err, peer, in, served>>
    /\ UNCHANGED <<call, kind, step, ret, asked, answer>>

(* Faulty variant of EndRequest: after an error there is no EXPIRE, nor    *)
(* after a reply of another type than the result.                          *)
EndRequestChecked(ok, got) ==
    /\ answer' = got
    /\ ret' = IF asked.op = "expire" THEN ret ELSE ok
    /\ IF step < Len(Requests(kind)) /\ got # NoRequest
       THEN step' = step + 1 /\ pc' = "append"
       ELSE step' = step /\ pc' = "idle"
    /\ UNCHANGED <<call, kind, asked>>

(* Faulty variant of EndRequest: one request too many.                     *)
EndRequestOffByOne(ok, got) ==
    /\ answer' = got
    /\ ret' = IF asked.op = "expire" THEN ret ELSE ok
    /\ IF step <= Len(Requests(kind))
       THEN step' = step + 1 /\ pc' = "append"
       ELSE step' = step /\ pc' = "idle"
    /\ UNCHANGED <<call, kind, asked>>

(* execute returns; what EXPIRE returns is not looked at, and it is sent   *)
(* whatever the write returned.                                            *)
EndRequest(ok, got) ==
    /\ answer' = got
    /\ ret' = IF asked.op = "expire" THEN ret ELSE ok
    /\ IF step < Len(Requests(kind))
       THEN step' = step + 1 /\ pc' = "append"
       ELSE step' = step /\ pc' = "idle"
    /\ UNCHANGED <<call, kind, asked>>

(* ... and the first reply that is not consumed is the answer.  Of a reply *)
(* of another type than the result, nil for one, execute leaves the result *)
(* alone and returns true.                                                 *)
GetReply ==
    /\ pc = "wait"
    /\ in # <<>>
    /\ in' = Tail(in)
    /\ EndRequest(Head(in).type # "error",
                  IF Head(in).type = "result" THEN Head(in).to ELSE NoRequest)
    /\ UNCHANGED <<context, peer, out, served>>

(* Faulty variant of Fail: the context is used again.                      *)
FailAndForget ==
    /\ \/ pc = "flush" /\ err
       \/ pc = "flush" /\ ~err
       \/ pc = "wait" /\ in = <<>>
    /\ EndRequest(FALSE, NoRequest)
    /\ UNCHANGED <<context, network, served>>

(* Faulty variant of Fail: the connection has no timeout.                  *)
FailOnEOF ==
    /\ \/ pc = "flush" /\ err
       \/ pc = "flush" /\ ~err
       \/ pc = "wait" /\ in = <<>> /\ ~peer
    /\ err' = TRUE
    /\ EndRequest(FALSE, NoRequest)
    /\ UNCHANGED <<_is_connect, obuf, network, served>>

(* The context has seen an error before, or it sees one: the write fails,  *)
(* the server has closed the connection, or is silent for the 10 seconds   *)
(* of set_timeout.  The reply is NULL.  check_error of the context is       *)
(* always false and nobody connects again.                                 *)
Fail ==
    /\ \/ pc = "flush"
       \/ pc = "wait" /\ in = <<>>
    /\ err' = TRUE
    /\ EndRequest(FALSE, NoRequest)
    /\ UNCHANGED <<_is_connect, obuf, network, served>>

CallerStep == AppendCommand \/ FormatCrash \/ Flush \/ GetReply \/ Fail

-----------------------------------------------------------------------------
(* The server.                                                             *)

Recorded(request, done) ==
    IF request.id = call THEN Append(served, [op |-> request.op, done |-> done])
    ELSE served

Refused(request) ==
    /\ in' = Append(in, [to |-> request, type |-> "error"])
    /\ served' = Recorded(request, FALSE)

Executed(request) ==
    /\ \E type \in {"result", "other"} :
          in' = Append(in, [to |-> request, type |-> type])
    /\ served' = Recorded(request, TRUE)

Serve ==
    /\ peer
    /\ out # <<>>
    /\ out' = Tail(out)
    /\ Refused(Head(out)) \/ Executed(Head(out))
    /\ UNCHANGED <<context, peer, caller>>

(* The connection is lost; replies on the way may be lost with it.         *)
Disconnect ==
    /\ peer
    /\ peer' = FALSE
    /\ out' = <<>>
    /\ in' \in {SubSeq(in, 1, n) : n \in 0 .. Len(in)}
    /\ UNCHANGED <<context, caller, served>>

Terminated == pc = "crashed" /\ UNCHANGED vars

Next ==
    \/ \E k \in Kinds : Call(k)
    \/ CallerStep
    \/ Serve
    \/ Disconnect
    \/ Terminated

Spec == Init /\ [][Next]_vars

(* The calling thread runs, and a wait that has a timeout ends.            *)
FairSpec == Spec /\ WF_vars(CallerStep)

(* In addition calls keep coming, and the server answers while it is there. *)
BusySpec ==
    /\ FairSpec
    /\ WF_vars(\E k \in Kinds : Call(k))
    /\ WF_vars(Serve)

-----------------------------------------------------------------------------
(* Every variable holds a value of its type.                               *)
TypeOK ==
    /\ _is_connect \in BOOLEAN
    /\ err \in BOOLEAN
    /\ obuf \in Seq(Request)
    /\ peer \in BOOLEAN
    /\ out \in Seq(Request)
    /\ in \in Seq(Reply)
    /\ pc \in {"idle", "append", "flush", "wait", "crashed"}
    /\ call \in Ids
    /\ kind \in Kinds
    /\ step \in 1 .. Len(Requests(kind))
    /\ ret \in BOOLEAN
    /\ asked \in Request \cup {NoRequest}
    /\ answer \in Request \cup {NoRequest}
    /\ served \in Seq([op : Ops, done : BOOLEAN])

(* A result never comes from the reply to another request.  A reply that   *)
(* arrives after its call has timed out (jedis.cpp:46) is not taken for    *)
(* the answer to a later one.                                              *)
ReplyIsOwn == answer # NoRequest => answer = asked

Times(op) == Cardinality({i \in DOMAIN served : served[i].op = op})

LastDone ==
    \E i \in DOMAIN served :
        /\ served[i].op # "expire" /\ served[i].done
        /\ \A j \in DOMAIN served : j > i => served[j].op = "expire"

(* The server gets no request of a call twice, in spite of timeouts and    *)
(* lost connections: only a write that a re-sharding moves is executed     *)
(* twice, as the code has it (DataCenter.cpp:323).  If the call returns    *)
(* true, the last execution of its command was not refused, whatever       *)
(* became of the EXPIRE or of the execution before it.                     *)
AppliedAsAsked ==
    /\ \A op \in Ops : Times(op) <= IF kind = "moved" /\ op = "write" THEN 2 ELSE 1
    /\ pc = "idle" /\ ret => LastDone

Stays ==
    \E i \in DOMAIN served :
        /\ served[i].op = "write" /\ served[i].done
        /\ \A j \in DOMAIN served : j > i => ~(served[j].op = "expire" /\ served[j].done)

(* As long as the connection lasts, a value written to a table with a      *)
(* timeout keeps no expiry only if its EXPIRE was sent and refused, which  *)
(* nobody looks at (DataCenter.cpp:312), or was sent before the write was  *)
(* executed once more for a re-sharding (DataCenter.cpp:323).              *)
StaysIfRefusedOrMoved ==
    pc = "idle" /\ ~err /\ Timed /\ Stays =>
        \E j \in DOMAIN served :
            served[j].op = "expire" /\ (~served[j].done \/ kind = "moved")

(* Every call returns, even if the server is silent.                       *)
CallReturns == pc # "idle" ~> pc \in {"idle", "crashed"}

-----------------------------------------------------------------------------
(* What a comment says and the code does not do: refuted by a run of its   *)
(* own.                                                                    *)

(* jedis.h:5: a command that finds a network error connects again, or a    *)
(* later command does, if the server is still there.                       *)
Reconnects == err ~> ~err \/ ~peer \/ pc = "crashed"
=============================================================================
