# Verification of jedis-cpp

jedis-cpp is a C++ client of a cluster of redis servers. Keys are spread over
the servers by a consistent hash; a configuration server tells the clients
which servers there are, and announces on a channel when that changes. This
directory holds TLA+ specifications of the library, TLC configurations that
check them on small instances, and proofs of their main properties for TLAPS.

`src/cppredis/` is the library; paths below are relative to it.

## 1. Inventory

| component | source | state | operations |
|---|---|---|---|
| DataCenter: configuration follower | `DataCenter.cpp` 13-176 | `_state`, `_sharded`, `_sharded_new`, `_wrlock`, connections `_jedis`, `_subs_jedis` | `init`, `run_thread`, `handle_subs`, `init_sharded`, `init_sharded_state`, destructor |
| RedisTable: routing | `DataCenter.cpp` 234-475 | none of its own: table name and `_timeout` | five `execute`, `get_jedis_addr`, `set_expire` |
| RedisDB, counters, metadata | `DataCenter.cpp` 178-268 | none | `incr`..., `existdb`, `get_table_names`... on `_jedis` |
| Sharded: hash ring | `sharded.cpp` | `_nodes`, `_resources` | `init`, `destroy`, `getShard` |
| Hash | `hash.h` | none | `hash` |
| ShardInfo | `shardinfo.h` | address, name, weight of a host | `createResource` |
| Jedis: a connection | `jedis.cpp` | `_redis_context`, `_name`, `_is_connect` | `init_obj`, `subscribe`, `subscribe_get_reply`, `execute` |
| JedisCommand: command table | `jedis_interface.cpp` | none | about 90 wrappers with an `iswrite` flag |
| CRWLock | `vos_lock.h` 73-243 | pthread rwlock, or four counters and two events on Windows | `lock_read`, `lock_write`, `unlock_*` |
| Event | `vos_event.cpp` | `_set_event_count`, mutex, condition | `set_event`, `wait_event` |
| Thread, ThreadPool | `vos_thread.cpp` | `_state`, `_exit`, `_tid` of each thread | `start`, `stop`, `exit`, `the_thread` |
| utility | `utility.cpp` | none | `split2vec`, which takes an address apart |
| Mutex, CSemaphore, CLogger | `vos_lock.h`, `log.cpp` | | |
| configuration server, operator | not in the repository | keys `shardchannelstatus`, `address`, `oldaddress` | writes the keys, publishes on `shardchannel` |

How they interact. The application thread that creates a DataCenter runs
`init`: it connects to the configuration server, reads the status, builds one
ring or (during a re-sharding) two, and starts one thread of the pool. That
thread subscribes to the channel and, for every message, takes the write lock
and changes the rings: *start* builds a second ring from the current addresses,
*normal* frees the ring in use and swaps the other one in, *change* rebuilds
the ring in use. The message only says what to do; the addresses are read from
the configuration server at that moment. Application threads take the read
lock for a command, ask the ring for the owner of the key, execute, and during
a re-sharding repeat a write for the new owner. The destructor stops the pool
and frees the rings.

What is hard about it, and the properties that make each part correct:

* Commands against the subscriber: a command keeps a pointer that the
  subscriber may free, and reads the rings and the state more than once
  (`CommandSeesLiveJedis`, `OneViewPerCommand`).
* The phases of a re-sharding as seen by a client that starts in the middle,
  lags behind, or cannot reach every host (`FollowsConfig`, `AlwaysHasOwner`,
  `NoNullDereference`, `ConvertKeepsHosts`).
* Building a ring from several requests while the operator writes the addresses
  (`LooksAtomic`), and getting right again after a ring of two configurations, a
  missed message or hosts that could not be reached (`RepairsItself`).
* Several clients, each in its own phase, that crash and start again: they must
  agree on the owner of a key, and the commands and expiries they send to it
  interleave request by request (`OneOwner`, `RepeatsOnlyInResharding`,
  `OnlyTheseStay`).
* Waiting: a subscriber that waits for the lock, a stop that waits for a
  thread, threads that hand a lock over through events (`MessagesHandled`,
  `StopReturns`, `FinishedIsNotKilled`, `NoLostWakeup`, `WriterGetsIn`).
* Timeouts on a connection that is used again and again: a reply that arrives
  late, a write that is executed although its call failed, an EXPIRE that is a
  request of its own and may be refused, a write that a re-sharding repeats
  (`ReplyIsOwn`, `AppliedAsAsked`, `StaysIfRefusedOrMoved`, `CallReturns`).
* Arithmetic of the ring: sign extension, wrap-around, collisions, hosts that
  could not be connected (`LookupIsNearest`, `RingIsReference`,
  `LookupHasResource`, `MinimalDisruption`).

`PROJECT.json` lists every component, and under "hazards" every place where one
of these can go wrong, with the property that would notice.

## 2. Modules

| module | models | composed of |
|---|---|---|
| `RWLock` | the abstract readers-writer lock, and the pthread branch of CRWLock | |
| `CRWLockWin` | the Windows branch of CRWLock, refines `RWLock` | `RWLock` |
| `ConfigCenter` | configuration server and operator (external) | |
| `HashRing` | hash, look-up and insertion, with reference definitions | |
| `Sharded` | one hash ring as a state machine | `HashRing` |
| `DataCenter` | one client process: subscriber and application threads | `ConfigCenter`, `RWLock` |
| `Split2Vec` | `split2vec`, with a reference definition | |
| `RingRequests` | the client again, `init_sharded` request by request | `DataCenter`, `Split2Vec` |
| `CommandTable` | every command: its `iswrite` flag and its effect on the key | |
| `Resharding` | several clients, the servers and a key during re-shardings | `ConfigCenter`, `CommandTable` |
| `ThreadPool` | pool, threads, the event they end with, destruction | |
| `JedisConn` | one connection: calls, server, timeouts, disconnection | |
| `MCDataCenter`, `MCRingRequests`, `MCResharding` | values of the constants, and what is assumed of them | `DataCenter` with `HashRing`, `RingRequests`, `Resharding` |
| `ShardedProofs`, `DataCenterProofs`, `RingRequestsProofs`, `ReshardingProofs`, `CRWLockWinProofs`, `ThreadPoolProofs`, `JedisConnProofs` | theorems about the module of that name | `RingRequestsProofs` extends `DataCenterProofs` |
| `FollowerProofs` | lemmas about a client and the messages it has yet to handle | used by `DataCenterProofs` and `ReshardingProofs` |

Definitions named "Faulty variant of ..." are not part of any specification:
each is a plausible mistake in a definition that follows it, kept because a
property detects it; `PROJECT.json` ("mutants") says which.

### DataCenter

`pc` is the control point of the one sequential activity that is first `init`
and then `run_thread`; `tpc[t]` is the control point of application thread `t`.
The variables `state`, `ring`, `sharded`, `sharded_new` and `lock` are the
members of the class; `stream` is what the server has sent on the subscription
and nobody has read. A step is what no other party can tell apart:

| actions | code |
|---|---|
| `Connect`, `InitShardedState`, `InitNewRing`, `InitRing`, `ConnectSubs` | the calls of `DataCenter::init`, in order, each with its failure |
| `Subscribe`, `SubscribeAgain` | `Jedis::subscribe`: the variadic `execute` sends the command twice and reads two replies, the second of which may be a message; `run_thread` starts over when that reply is an error |
| `Receive`, `LockWrite`, `HandleStart`/`HandleNormal`/`HandleChange`, `UnlockWrite` | one iteration of `run_thread` and `handle_subs` |
| `SubsBreak` | the subscription connection fails, or is silent for the 10 seconds of `jedis.cpp` 104; there is no reconnection |
| `BeginExecute`, `ExecuteOnOwner`, `Mirror`, `EndExecute` | `RedisTable::execute` under the read lock |
| `ResolveAddr`, `ReadAddr` | `get_jedis_addr`, which takes no lock |
| `OperatorStep`, `Publish` | the operator writes the keys, then publishes |

Abstractions. A connection is the address it leads to, the ring that owns it
and how often that ring was freed before, so that a dangling pointer is visible
(`Live`). `init_sharded` is one step whose result is any of `InitOutcomes`: no
answer, nothing usable (the ring stays as it is), or the ring over any subset
of the usable hosts, possibly none. `RingRequests` takes its requests apart.
Undefined behaviour is a choice: `ResolveAddr` and `ReadAddr` may crash when
they touch memory that is being changed or was freed.

`excuse` is a history variable: the first reason for which this client cannot
be expected to follow the configuration. The code makes no promise to such a
client, and the properties about following the configuration exempt it:

* `degraded`: a connection or a request failed;
* `raced`: the operator acted between the moment the client read the status
  and the moment its subscription was in place;
* `late`: the client started in the state *toconvert*;
* `overtaken`: the operator changed the addresses before the client read the
  ones it was told of.

The exempted behaviours stay in the model; safety against the lock holds for
them too, and `RepairsItself` says when such a client is right again. A start that
never gets its SUBSCRIBE accepted is `Settled` for `MessagesHandled`, as a deaf client
is: the code does no more for either than to go on trying or waiting.

### RingRequests and Split2Vec

`RingRequests` replaces the steps of `DataCenter` that build a ring by those of
`init_sharded`: `ListHosts` is HKEYS, `AskHost` the HGET of the next name and
`split2vec` of its answer, `FinishBuild` the destruction and the construction of
the ring and what `init` or `handle_subs` does with the result. `adds` and
`infos` are the local variables of the function (`vec_infos`), `listed` and
`asked` say how far it is. `OperatorBetween` may come between any two of them.
There are no application threads in this module. `LooksAtomic` says that
each step is one of `DataCenter!Next` or changes nothing there, for a client
without an excuse; this is what entitles `DataCenter` to build a ring in one step.

`RepairsItself` is about the others. `repaired` is history: the last build that a
*message* asked for found every name, every address that can be read and every
host. Of a client for which it is true, and which has no message left to handle,
the property says that its hosts are those of the configuration, whatever it raced
with, missed or mixed up before. This is not evident, because the build read the
hash request by request and perhaps long after its message was sent. What it
cannot have seen was written later, and is announced later; so a message that
makes it build again is still to come. It does not hold for the builds of `init`, for
which a message may have been published before the subscription; nor for an
incomplete build, after which nothing in the code tries again before the next message.

Addresses are strings here. `Split` follows the loop of `split2vec` and the
count of the rest; its reference `IsAddress` says which strings are a host and a
port. The two are compared on all strings of at most six characters
(`SplitIsReference`, an assumption of `MCRingRequests` that TLC evaluates).
`Atoi` is `atoi` on strings of digits and other characters: without a leading digit
the port is 0, and nothing can be connected there. `Port` is what is left of it in the
`unsigned short` of `init_obj`, and `Address` what the connection is called.
Blanks and signs before the digits, and numbers that no `int` holds, are left out;
two ways to write one address (`a:1` and `a:01`) are not told apart by the code
either, and `AddressAssumption` admits the way that a connection prints.

### CommandTable and Resharding

`CommandTable` has an entry for each method of `JedisCommand`, with the flag it
passes to `execute` and one of eight effects on a key. The effects are those of
the redis server and external.

In `Resharding` there are several client processes. `Start`, `InitNew`, `InitRing`
and `Subscribe` are the beginning of one: the status is read, one or two rings are
built, and some time after `init` has returned, while commands run already, the
subscription is in place. The operator may act between any two of these steps, as he
may in `DataCenter`. `Crash` is the end of a process; after a crash nothing but the
servers' data and the configuration is left. `HandleStart`, `HandleNormal`, `HandleChange` and
`HandleEnd` are the cases of `handle_subs` for one key: a ring is the owner it
gives that key. `Execute`, `Expire`, `ExecuteAgain` and `ExpireNew` are the
requests of one `RedisTable::execute`: the command, its EXPIRE, the repetition
(on the old owner, as in the code) and the EXPIRE for the new one. Between them
other clients send theirs, the operator acts and keys expire (`Vanish`).

Abstractions. Of a stored value the model keeps whether it expires, and if not,
which command left it so; `Abandoned` stands for a value that no EXPIRE of its
own follows because its client crashed first or the command was a repetition.
Hosts can be reached and connections hold: what happens otherwise is in
`DataCenter` and `JedisConn`. One thread of a client runs commands, and messages
are handled between commands, which `CommandSeesLiveJedis` and
`OneViewPerCommand` justify. The look-up and the first request are one step,
because a look-up sends nothing and the rings stay as they are until the
command is over. A client whose start a step of the operator falls into, or its
publication, that starts in *toconvert*, or that is overtaken, has an `excuse`, as
in `DataCenter`, but which one is not told. The four counters of `RedisTable` go to the
configuration server and are left out. The run takes one command for all that share
its flag and do no more to a key than it may do (`UsedIsComplete`); the theorems are
about all commands.

### Sharded and HashRing

A host is a number (the order of the names in `std::set`), and its 160 virtual
nodes are an arbitrary non-empty set of hash values, so every collision
happens. `HashValue` is the conversion of the code: the top byte is shifted as
an `int`, so values from 2^31 on become negative. `Lookup` is `find`, else
`upper_bound`, else `begin` of the map. The reference definitions know neither
signs nor maps: `IsNearest` is the clockwise nearest virtual node on the circle
of unsigned numbers, `RingNodes` the set of nodes that a set of hosts
determines.

### CRWLockWin

A pass through the critical section is a step; a thread waits for an event
between two of them. Timeouts are included (`Timed`), although the repository
itself always waits for ever. `SetEvent` leaves the event signaled until a
waiter takes it: this adds behaviours and removes none.

### ThreadPool

The owner starts the threads, and at some time destroys the object: it stops
the threads one after another, and frees the rings. A worker alternates between
calls that block, where a deferred cancellation takes effect, and code that does
not. `WaitEvent` computes the deadline as the code does, from the clock in whole
seconds. A spurious wake-up is possible at any time, and no fairness makes it
happen. What a worker does after the rings were freed is not followed.

### JedisConn

One `Jedis` and what is at the other end of it. `_is_connect` is what a call
looks at before it starts; `err` and `obuf` are the fields of the hiredis context
that the calls depend on; `out` and `in` are the requests and the replies on the
way. hiredis, the network and the server are external and modelled from how
`jedis.cpp` uses them.

| actions | code |
|---|---|
| `Call` | the entry of an `execute`: nothing happens if not connected. Its `kind` says which requests the caller makes on this connection (`Requests`) |
| `AppendCommand`, `Flush`, `GetReply` | `redisvCommand` and the reading of its reply |
| `Fail` | its reply is NULL: the write failed, the server is gone, or 10 seconds passed |
| `EndRequest` (in `GetReply` and `Fail`) | `execute` returns, or the next request of the call begins: the EXPIRE of `set_expire`, the repetition of a write, or that by the variadic `execute` |
| `FormatCrash` | the second use of a consumed `va_list` |
| `Serve`, `Disconnect` | the server executes or refuses a request; the connection is lost with any part of what was on the way |

The kinds of calls are those of `RedisTable::execute`, as one connection sees them: a
read; a write and its EXPIRE; a write that a re-sharding moves, which the connection
of the *old* owner gets a second time after the EXPIRE (`DataCenter.cpp:323`), while that
of the new owner gets an EXPIRE only (`:326`); and the variadic `execute`. `served` is
history: what the server did of the requests of the present call, done or refused, in
order. Two properties are about it. `AppliedAsAsked`: nothing is done twice but the
moved write, and a call that returns true had its last execution done. The other,
`StaysIfRefusedOrMoved`, names the two ways in which a value stays in a table with a timeout
although its connection holds: a refused EXPIRE, whose result is not looked at, and
the repetition after the EXPIRE. A connection that is lost between the two requests is
a third way, and the code has no answer to it.

Calls on one connection follow each other in this module. In the program several
threads may use one connection at a time, because the read lock is shared;
hiredis does not define what that does, and `PROJECT.json` lists it as a hazard
that no property can cover.

## 3. Runs

| run | instance | shows |
|---|---|---|
| `commands` | 1 host that moves between 2 addresses, 2 threads, 2 operator steps | no command holds a freed connection, sees two configurations, or compares the name of an owner it has not; every message is handled if commands pause |
| `config` | `RingRequests`: 2 hosts, 3 address tables (one with an unreadable address), an address without a port number, 3 operator steps, no application threads | the types; a client without an excuse uses the right hosts once it has caught up, always has an owner, and builds rings as if in one step; any other client is right again after a build for a message that left nothing out |
| `reshard` | 2 clients started 3 times in all, 2 servers, 4 commands that stand for all, 3 operator steps | clients without an excuse agree on the owner of the key, repeat writes only during a re-sharding, and leave no key without expiry but by the listed commands |
| `sharded` | 4 hash values, 3 hosts, all virtual nodes | five properties of the ring |
| `winlock` | 5 threads, one reads and writes, 2 with timeouts | counters, wake-ups, refinement of `RWLock`; while a writer waits somebody gets to write |
| `pool` | 2 threads that may return, 4 ticks a second, timeout 2 | an end in time is not lost; `stop` returns |
| `conn` | a table with a timeout, 2 numbers for calls, 2 requests in a buffer that is never sent | a result belongs to its call, only a moved write is executed twice, a value stays only if its EXPIRE was refused or the write moved, every call returns |
| `mirror`, `lookup`, `late`, `poolkill`, `reconnect` | small | comments of the code that the code does not keep; see section 6 |

Why the bounds are enough. A re-sharding is three operator steps, so three steps
(`config`, `reshard`) contain a whole one, and a client may start before it, in
any of its phases or after it; a host may be replaced before or between two of
its steps. A fourth step in `config` was tried and finds nothing either, but
takes several minutes. Two hosts suffice
for a ring that is partly connected, and for one host that joins or leaves;
three tables make the old and the new ring equal, overlapping and different; both
hosts may move at once, so a build that is overtaken does mix configurations. The
builds of two rings take at most three requests each, and the operator fits
between any two.
Runs about commands need rings that differ for a key, and one host with two
addresses gives that; two threads make the lock shared. `config` has no
application threads: they change no variable that its properties mention,
except by crashing in `get_jedis_addr`. There a client that failed or lost its
subscription, and an operator that has used up its steps, leave nothing to do,
so deadlock is not an error in this run; nor is it in `reshard`, where clients
may be down and no start is left. It is checked in all others. In
`reshard` the third start is the restart of a crashed client while the other goes on; one key
and two servers make the owner move and return; the clients, and the servers, are
interchangeable (`Symmetry`), and no property there is temporal. `MCSpec`, and
`MCFairSpec` of `commands`, leave
out initial states that differ from others in nothing a client looks at: the status
"change", and old addresses outside of a re-sharding; in `commands` also those where the two
addresses have changed places. In `sharded` four hash values contain both signs, wrap-around and all collisions of
three hosts. A timeout shorter than a second and a clock that starts at any
phase of a second make the deadline pass before and after the wait begins.

In `conn` a call takes a number that no request or reply on the way has, so two numbers
let a late reply meet every later call, and the reply is never mistaken for one of
that call; a connection that has
failed is not used again, so more pending requests do not arise, and a buffer
that is never sent need not be followed beyond two requests.

Bounds: `MaxPublish` (operator steps), `MaxStarts` (starts of clients), `MaxTime`
(clock, which runs on whenever somebody waits for it), `Calls` and `MaxBuf`. The
generation counter `freed` is not bounded by a constant: it grows with the
operator steps only.

Fairness. `DataCenter!FairSpec` assumes that the subscriber and the calls in
progress are scheduled (weak fairness); it does not assume that calls are made,
that the operator acts or that connections fail or hold. `MessagesHandled` in
addition supposes that commands pause from some time on, because a pthread
rwlock with default attributes lets new readers pass a waiting writer.
`CRWLockWin!FairSpec` assumes that a thread which has asked for the lock or
holds it goes on, so a holder gives it back: the guards `CAutoGuardRD` and
`CAutoGuardWR` do. There, writers need no such supposition. `ThreadPool!FairSpec`
assumes that time passes and the owner is scheduled, and nothing of the workers.
`JedisConn!FairSpec` assumes that the calling thread runs and that a wait with a
timeout ends (`jedis.cpp:46` sets 10 seconds); the server owes nothing. `BusySpec`, which
only `reconnect` uses, adds that calls keep coming and that a server which is
there answers: even then the connection stays dead.

## 4. Proofs

All theorems are about every value of the constants that satisfies the named
assumptions; only `SANY`'s and the prover's libraries are used besides.

`ShardedProofs` (`HalfAssumption`, `NamesAssumption`). The invariant `RingInv`
adds to `RingIsReference` the types and that the hosts still to visit come after
the connected ones: `Insert` keeps the first of two colliding nodes, so the ring
is the reference ring only because hosts are visited in order. The look-up is
then a fact about arithmetic: sign extension rotates the circle by half
(`HashValueIsRotation`), rotation keeps the clockwise order, so the least key
above, or else the least key of all, is the nearest (`LookupClockwise`,
`PlaceIsNearest`), and nearest is unique (`NearestUnique`). `PlaceMovesLittle`
follows: a host that is nearest among more hosts is nearest among fewer.
Theorems: `RingTypeCorrect`, `RingCorrect`, `LookupCorrect`,
`LookupFindsResource`, `DisruptionIsMinimal`.

`PlacementIsAnOwner` shows that this placement is one that `DataCenter` may take for
its constant `Owner`.

`FollowerProofs` is the argument by which a client keeps up with the operator,
without the client: `Follows(q, status, now, old, syn, use, new)` relates the
messages `q` that have yet to change the rings (one that the operator has written
but not published included) to the configuration and the rings. `Path` says that
the messages are the way the operator went, up to the present status; `InStep`
that the client is where that way begins; `RingsFit` what the rings are, which is
the point of the matter: a message does not carry the addresses, so while a
"syning" is unread the ring in use is the *old* one only if no other unread message
is about to read the addresses, and when two are, the operator has not changed
them in between (a client for which this fails is overtaken). One lemma for each
event: `FollowsFromStart`, `FollowsOperator`, `FollowsToconvert`, `FollowsNormal`,
`FollowsRead`; and what the invariant is good for: `FollowsToEnd`,
`FollowsToNormal`, `FollowsInUse`. The rest are facts about queues.

`DataCenterProofs` (`ConfigAssumption`, `ClientAssumption`). `CommandSeesLiveJedis`
is not inductive alone: it needs that a thread in a command is among the readers
of the lock, that the subscriber holds the write lock while it handles a
message, and that the lock keeps the two apart (`LockHeld`). While rings
are built without the lock, in `init`, no command is in progress. With
`LockInv == TypeOK /\ LockHeld /\ CommandSeesLiveJedis` the theorems are
`TypeCorrect`, `CommandsAreSafe` and `CommandsSeeOneView`.

`PhaseInv` is the invariant for a client without an excuse. It says for each
control point of `init` and of `run_thread` what has been received (`Messages`) and
what is built (`Built`); from `ConnectSubs` on, that the client `Follows` the
configuration with its `Queue`: the stream, the message in hand before its
handler has run, and what is about to be published. `SubscribeAgain`, which reads
one message too many, is harmless exactly because the client would have raced
with the operator had anything been published by then. `ClientFollowsConfig` is
`Follows` with an empty queue; `ClientHasOwner` is `HasHosts`, a part of `PhaseInv` (every
complete ring has a host, and "normal" arrives only in the state "syning");
`OwnersAreThere` adds that a command keeps the owner it got.

`RingRequestsProofs` (the assumptions above and `AddressAssumption`; what `split2vec`
computes is not unfolded). `BuildInv`: as long as there is no excuse, what was found
since HKEYS is part of the hash as it is *now*, because an operator step that
leaves no excuse does not touch the hash that is being read
(`OperatorKeepsHash`). So the outcome is one of `InitOutcomes` and the end of the
requests is one of the steps of `DataCenter` (`BuildsLookAtomic`), and `PhaseInv` carries
over (`RequestsFollowConfig`, `RequestsHaveOwner`).
`RequestsTypeCorrect` also says that no address that `split2vec` refuses gets into a ring.

`ClientsRepairThemselves` is `RepairsItself`, for every client, whatever its excuse. It
needs to know what is still to come without `Follows`, which such a client may have lost.
`OrderInv` says of each unread message, if none after it makes the client build, how far
the status can have gone on since (`Ends`): after a "normal" or a "change" not at all, and
after a "syning" out of the re-sharding only with a "normal" that is still to come, so
each build is followed by the right number of swaps. `RepairInv`: if the last complete
build is not followed by a message that reads the addresses again, what it has read
(`FoundAll`) *is* the configuration, because the operator who changes the addresses
publishes such a message; so the client is `Right`, or will be when the "normal" that
is under way has been handled.

`ReshardingProofs` (`ReshardingAssumption`), for any number of
clients, servers, starts and crashes. `FollowInv` gives each client without an
excuse its own `Follows`, for the owner of the key instead of the rings, once they are
built; before that, and until the client has subscribed, the operator has not moved
(`Begun`). It also
keeps the commands that are repeated inside the state "syning" (`Repeats`).
`OwnersAgree`: if neither of two clients has a switch or a moved host in its queue, the
owner of each is what the status asks for, however far each is (`FollowsInUse`).
`RepetitionsEnd` is `FollowsToNormal`. `OnlyTheseKeysStay` is inductive with the
types: a command that leaves a key without an expiry is a write, or one of the four
(`TableIsGuarded`, from the entries of `CommandTable`), and a write keeps its client at
"expire"; nobody moves the owner of a client that is there, because messages are
handled between commands.

`ThreadPoolProofs` (`PoolAssumption`). `SetOnce` bounds the count of an event: it is set
by a worker that is then done. `NoEventIsLost` needs `Told`: until the owner has
stopped a worker that told of its end in time, the event of this worker is set; if
the owner waits for it, the owner has been signaled, so the wait does not time out;
and the owner is not past the wait. Only a worker that is `Stopped` is cancelled. The
proof found a mistake in the history variable of the model: `intime` was also set for a worker
that ended after the owner was through with all of them, since `cur` is 1 again then. With
one thread that returns the runs could not see it; both may return now.

`CRWLockWinProofs` (`ProcsAssumption`). `CountersFollow` says that a step which
changes each counter by what the two places of the moving thread say keeps all
four counters right; each action is an instance. `WakeInv` strengthens
`NoLostWakeup`: a waiting writer has its event, or a holder of the lock, or
another writer on its way; a waiting reader has its event, a holder, another
reader on its way, or a waiting writer. An event is reset only by a thread that
finds one of these. `WindowsBranchCorrect` maps the lock to the sets of threads
at "reading" and "writing".

`JedisConnProofs` (`JedisAssumption`). `ReplyIsOwn` holds because, until the context has
seen an error, there is at most one request between a caller and its answer; and that
is so because `Fail` marks the context and `Flush` refuses a marked one. `JedisInv` says
it: `Pipeline` (what the buffer and both directions hold at each control point),
`Asked` (the request under way is one of the call), `Order` (the server has
got the requests of the call in their order, and all that are behind it while the
connection lasts) and `Returned` (what `execute` returns is what became of the last
command). The theorems are `JedisTypeCorrect`, `RepliesAreOwn`,
`CommandsApplyAsAsked` and `WritesExpire`, with and without a timeout of the table.

The invariants `PhaseInv`, `BuildInv`, `OrderInv`, `RepairInv`, `FollowInv`, `JedisInv` and `EventInv` were
checked with TLC on the instances of section 3 before they were proved.

Every safety property that a passing run checks is thus a theorem. Model-checked only:
the liveness properties `MessagesHandled`, `WriterGetsIn`, `StopReturns`, `CallReturns`
(fairness and ENABLED are out of the prover's reach), and what `split2vec` computes,
on short strings (its loop is a recursive function, and the prover has no induction
over its values). That the handlers of `Resharding` are those of `DataCenter` for one key
is argued in section 2 and not proved.

## 5. Plan

Done: the modules of section 2, in the order `RWLock`, `ConfigCenter`,
`DataCenter`, `HashRing`, `Sharded`, `CRWLockWin`, `ThreadPool`, `JedisConn`,
`Split2Vec`, `RingRequests`, `CommandTable`, `Resharding`.

Then the proofs, in the order `ShardedProofs`, `DataCenterProofs`, `CRWLockWinProofs`,
`JedisConnProofs`, `FollowerProofs`, `ReshardingProofs`, `ThreadPoolProofs`,
`RingRequestsProofs`.

Next, in this order:

1. An abstract specification of a client that follows the configuration: a state
   that alternates between "normal" and "syning", a ring that is replaced as a
   whole, and a second ring that is complete before it is swapped in. `DataCenter`
   without an excuse and each client of `Resharding` are to implement it; most steps
   of the two refinements are in `PhaseInv` and `FollowInv`.
2. What the waits of `ThreadPool` need for their deadline: the part of `StopReturns`
   that is a safety property.
3. The four commands of `OnlyTheseStay` are needed: no smaller set is an invariant.

## 6. Where the code disagrees with its comments

* `mirror`: the write that is repeated during a re-sharding goes to the old
  owner again (`DataCenter.cpp:323`); only its expiry reaches the new one. After
  the conversion the write is lost.
* `lookup`: `get_jedis_addr` (`DataCenter.cpp:237`) does not take the lock of
  which `DataCenter.cpp:104` says that it blocks look-ups.
* `late`: a client that starts in *toconvert* builds one ring only
  (`DataCenter.cpp:45`), and the conversion swaps in the empty other one.
* `poolkill`: `ThreadPool::stop` returns while its thread is at work
  (`vos_thread.cpp:92`), and the rings it works on are freed.
* `reconnect`: `jedis.h:5` describes when a connection is made again;
  `check_error` (`jedis_interface.cpp:23`) is always false and nothing connects
  again, so one timeout ends a connection for good.

## 7. Not modelled

* MD5, the formatting of commands and the parsing of replies: data that no
  property tells apart.
* Counters and metadata (`DataCenter.cpp` 178-268): each is a call on the connection
  to the configuration server, hence a call of `JedisConn`. The subscriber uses
  the same connection at the same time without a lock; what hiredis does then is
  not defined, and there is nothing to state about it. The same holds for two
  commands that share a connection.
* A counter and a value of the same key live on different servers. This is visible
  in single calls and needs no model.
* The members of `Event` that nothing in the repository uses (`pulse_event`,
  `reset_event`, `wait_event_always`) and its Windows branch. The length of the wait
  of `stop`, which `vos_event.cpp:118` cuts down to whole seconds of the clock, is in
  `ThreadPool`, but no property is about it.
* `Mutex` (a library call) and `CSemaphore` (not used).
* `CLogger`: it writes lines to a file and renames the file when it is large. Its
  state is shared by all threads without a lock, which is undefined behaviour;
  nothing else in the library depends on it.
* The hosts of different clients when some clients cannot reach a host: they do
  disagree then, and nothing in the code prevents it.
* hiredis, tests and build files.
