# Verification of the DNS server

TLA+ modules for the program in `src/`: a simulated authoritative DNS service.
One process holds a test generator, a software router that spreads requests
over several DNS servers, the servers, and a scoreboard that collects their
answers. `Router.tla` is the router with its threads and sessions, `HostSync.tla`
the protocol that keeps the servers' tables alike, and `Trial.tla` one test from
end to end: requests, answers and teardown.

Paths below are relative to `src/`.

## The system

| component | source | state | operations |
|---|---|---|---|
| router | `src/router.c` | `servers`, `server_cnt`, `curr_server`, `mode`, two mutexes, a UDP and a TCP socket | `add_dns_server`, `forward_request`; thread `check_servers` (`query_response_time`, `remove_server`); thread `check_ip_list_requests` (`check_tcp_connections`) |
| DNS server | `src/dns_server.c` | sockets, `coms`, `pause`, `id` | thread `query_handler` (`recieve_request`); `update_and_online`; create, destroy |
| coms | `src/coms.cc` | `ip_hash`, `version_num`, `hosts<id>.txt` | thread `check_hosts_requests` (`send_entire_file`, `recieve_update`); `update_hosts`, `request_hosts`, `translate_ip` |
| scoreboard | `src/scoreboard.cc` | a queue of results with a lock, the results file | `recieve_generated_req`; thread `dns_response_handler`; create, destroy |
| generator | `src/generator.c` | the router, the scoreboard, the servers | `run_test`: requests, pausing, starting a server, updates; teardown |
| DNS messages | `src/dns.c` | none | `craft_message`, `parse_message` |
| hosts file, command line | `src/file_utils.cc`, `src/cli_parser.c` | none | parsing |
| sockets | `src/server.c` | none | wrappers of system calls |
| rate limiting, old structures | `include/rrl.h`, `include/dns_temp.h` | - | declared only |

How they interact:

- the generator calls `forward_request` and then the scoreboard, and writes a
  server's `pause`; the router sends requests and probes to the servers by UDP;
- a server answers requests to the scoreboard and probes to the router, by UDP;
- a server that comes online, and every update of the hosts, opens a TCP
  session with the router, which sends it the list of servers and serves one
  client at a time. In the session it opens one TCP connection after another
  to the servers on the list. The new server ends its session by sending its
  own address, which the router adds to the rotation; an update sends zeroes.

So the router's `tcp_mutex` and its single acceptor are what orders updates,
new servers and removals. This is why the router is modelled first.

What is hard: three threads on the rotation, one of which takes no lock; two
locks taken in opposite orders; early returns with a lock held; a monitor that
judges on late answers; counts read twice; updates without locks on the tables,
acknowledged by closing a connection; list positions that shift; lookups that
insert. `PROJECT.json` lists each hazard at its line with the properties that
would catch it.

What makes each part correct:

- **router**: a session's list is a snapshot; requests never meet a half-made
  change; the locks come back; only silent servers are removed, and a silent
  one is; requests are spread; threads do not wait in a circle;
- **coms**: an update that ends is in every table it was sent to; servers agree
  between sessions; tables are not written behind their listener's back;
  lookups answer from the table; every update ends;
- **scoreboard**: a line that says answered is true, an answer that is heard
  counts, results come out in the order of the requests and are final, nothing
  is lost at the end;
- **DNS server, generator**: a server is used only when it is complete, a paused
  one falls silent, the test ends, and no thread uses what teardown has freed;
- **messages**: what is crafted is parsed back, whatever else a socket delivers.

## Modules

| module | models | notes |
|---|---|---|
| `Directory` | what the router promises its clients: a rotation of distinct servers and sessions that hold a snapshot of it | abstract |
| `Router` | `router.c`, with the generator, the servers and the clients as far as the router sees them | implements `Directory` |
| `HostSync` | `coms.cc` and `update_and_online` | extends `Directory` |
| `Messages` | `craft_message` and `parse_message` of `dns.c` | operators |
| `ResultsFile` | what the scoreboard promises the reader of its file | abstract |
| `Scoreboard` | `scoreboard.cc` | implements `ResultsFile` |
| `Trial` | `generator.c` and `dns_server.c` around the scoreboard, creation to teardown | extends `Scoreboard` and `Messages`, implements `ResultsFile` |
| `MCRouter`, `MCHostSync`, `MCTrial` | instances for TLC | |
| `RotationLemmas` | lemmas on sequences without repetition | proofs |
| `RouterProofs`, `HostSyncProofs`, `MessagesProofs`, `ScoreboardProofs`, `TrialProofs` | theorems about the modules they are named after | proofs |
| `RouterServiceProofs` | more theorems about `Router`: whom the monitor removes, how requests are spread | proofs |
| `HostOutcomeProofs` | more theorems about `HostSync`: what comes of the updates | proofs |

An operator whose comment begins with `mutant:` is a wrong variant of the
definition that follows it. No module uses it; putting it in that definition's
place shows that the property named in `PROJECT.json` notices.

### Router

The steps are the code between two points where another thread matters. The
monitor reads the rotation without a lock, so `add_dns_server` is two steps,
the count (`GrowCount`) and the array (`StoreServer`), while a request or a
removal, made with the lock held, is one. A thread's position is `storing` for
main, `mon_pc` for the monitor, `acc_pc` for the acceptor; a lock is a variable
that holds its owner.

- main: `MainAddLock`, `MainAddStore` (`create_generator`); `Forward`,
  `ForwardTraps`, `ForwardNoServers` (`forward_request`). On an empty rotation
  the code takes a remainder modulo zero: either the process traps (`fault`)
  or it goes on to the test for an empty rotation and returns with the lock.
- monitor: `Round`, `Probe`, `Alloc`, `Fill`, `DrainPong`, `Verdict`,
  `RemoveLock`, `RemoveDelete`, `RoundDone` (`query_response_time` and
  `remove_server`). The sleep between probes and answers is the interleaving
  of other steps. A read past the end of an array sets `fault`, after which
  nothing happens. The loop over the probes is one step: between two of its
  iterations the rotation may grow, but the newcomer's probe changes nothing,
  since the round is void.
- acceptor: `Accept`, `LockTcp`, `SendCount`, `SendPort`, `PortsSent`,
  `SessionFails`, `ReadReply`, `JoinLock`, `JoinStore`, `EndSession`
  (`check_tcp_connections`). A client acknowledges every port at once, so that
  an acknowledgement and the port that follows are one step.
- clients: `Register` and `GiveUp` (`update_and_online`), `Finish` and
  `Abandon` (`update_hosts`), `Reset` (a broken connection). Here they only
  decide how the session ends; `HostSync` says why.
- servers: `Respond`, with the loss of the probe or of its answer; `Pause`.
  A paused server's thread may already wait for a message, which it then
  still handles (`"last"`).

`recent`, `asked`, `answered` and `spared` are history, read by properties only.

The mutexes are allocated by `create_router` and never initialised. What locking
them does depends on the platform: `MutexesWork` says whether they exclude. What
is said of the locks below is said of a platform where they do, and the run
`router_no_mutex` shows one where they do not (macOS refuses a mutex it does
not know, and `get_ip` looks for `en0`, the interface of a Mac).

### HostSync

The router is the `Directory`: opening a session hands the client the list.
Since one client at a time is in session, the locals of `update_hosts` and
`request_hosts` are plain variables (`pos`, `idx`, `some_fresh`, ...), and so is
its connection to the server it talks to (`reply`, `open`). Each server has a
listener (`lis`) with what it was sent (`mail`), and a query thread (`lookup`).

- update: `BeginUpdate`, `Enter`, then for every port `SkipServer` or
  `ContactServer`, `AckFresh` or `AckStale`, `AckApplied`; `UpdateOwn` and
  `FinishUpdate`; `UpdateFails` for a receive that fails.
- new server: `BeginJoin`, `Enter`, `RequestHosts`, `CopyEntry`, `CopyVersion`,
  `GoOnline`, `FinishJoin`; `ListFails`, `VersionLost` and `NoHosts` for what
  may go wrong.
- listener: `SendCount`, `SendVersion`, `TakeEntry`, `Apply`, `GiveUpEntry`,
  `EntryLate` (the two-second timeout).
- queries: `Count` and `Fetch`, the two map operations of `translate_ip`.
- `DropServer`: the monitor removes a server that was paused, or one of
  `Unlucky`, whose answer was lost.

The second acknowledgement that `update_hosts` waits for is never sent; the wait
ends when the listener closes the connection, which `AckApplied` reads from
`open`. Tables map domains to addresses, `Absent`, or the `Empty` address that
`translate_ip` inserts. Which calls of `update_hosts` happen is the constant
`Plans`, with the two scenarios of the generator: `-x`, an addition and a
removal by server 0, and `-f`, an addition that passes over one server and its
repair by server 1.

### Messages

A datagram is a header and the bytes after it. Of the header there are the
fields that somebody reads (`id`, `qr`, `rcode`), with the identifier in network
order as it stands in the datagram. `craft_message` writes only every other byte
of type and class, so that the ones between are `Junk`, what the buffer held.
`parse_message` finds the end of the name and checks that four bytes follow,
where the terminator, type and class are five.

### Scoreboard and ResultsFile

The lock makes `recieve_generated_req` (`Record`) and `recieve_dns_answer`
(`Score`) one step each: an answer marks every entry with its identifier, and
then the front of the queue is written while it is answered or the queue is too
long (`Due`). `destroy_scoreboard` is `CancelHandler`, then the end of the thread
(`HandlerDies`, where it waits for a message; `Score`, after one more answer;
`ScoreCut`, while it writes), then `Drain`. When it ends while it writes, its
entry is still queued and may already be in the file, in whole or in part:
`stub` is the place of that copy. `ResultsFile` knows one list of requests, how
much of it is in the file, and whether the test is over.

### Trial

- creation: `CreateServer` starts the query thread before `pause` is set and
  before there is a table; `ServerCreated` is the return of `create_dns_server`;
  `GoOnline` gives the server to the router (`add_dns_server`, or the end of
  `update_and_online` for a server that joins).
- requests: `ForwardRequest` sends to any server that is online, which is all
  that is used of the router's choice; `RecordRequest` comes after it, so that
  the answer may come first. `Pause` is for good. `ProbeServer` is the monitor's
  probe; the answers to probes go to the router and are in `Router`.
- query thread: `CheckPause` (the flag), `RecieveRequest` (the message and the
  lookup), `SendAnswer`, `ThreadDies` (cancelled where it can be), `FreedPause`
  (a read of the freed flag).
- scoreboard thread: `HearAnswer`. It scores whatever it received, parsed or not.
- teardown, in the order of `destroy_generator`: `DestroyScoreboard`,
  `DestroyRouter`, and for each server `CancelServer` and `FreeServer`.

Datagrams are sets, so UDP reorders; one that is never taken is lost. `Take`
leaves a datagram in place up to `MaxRepeats` times: the network duplicated it,
or the next `recvfrom` failed, whose -1 `recieve_message` returns as a length of
255, and the buffer still holds the message that was handled last.

## Runs

All are run with `tlc -config <run>.cfg <module>`. None of the systems ends (the
threads loop), but a lost process or an abandoned session stops them, and so do
the model's bounds; the runs do not check deadlock and the properties about
progress are stated as such.

| run | shows |
|---|---|
| `router_safety` | one initial server, one that joins, one update, one paused server, connections that break: `SessionViewStable`, `RequestsSeeWholeRotation`, `RemoveAlwaysFinds`, `LocksReturned`, `OnlySilentServersRemoved`, that the router implements `Directory`, and `SessionsEnd` (liveness) |
| `router_spread` | both modes, a history of four requests, two datagrams per socket, a server that joins: `RequestsSpread`, `StalePongBuysOneRound`, and `PausedServerRemoved` (liveness) |
| `hosts_sync` | three servers, one that joins, an addition and a removal in either order, queries, a server removed at any time, every fault: `UpdateReachesRotation`, `Agreement`, `ClientsFinish` (liveness) |
| `hosts_repair` | the `-f` scenario for every server that may be passed over, with the paused server in the rotation or gone: `RepairDiagnosis`, `WriterAlone` |
| `trial` | two servers, one of which joins and the other may be paused, two requests, probes, a datagram taken twice, any loss and order: `RecievedIsTrue`, `AnswersCount`, `WireIsReadable`, `PausedAnswersOnce`, `NoEarlyLookup`, that the scoreboard implements the results file, and `TestEnds` (liveness) |

A test ends, so `trial` does not check deadlock either; `TestEnds` says that it
ends only when it is over. And seven where TLC finds what the documentation denies:

| run | found |
|---|---|
| `router_robust` | the monitor probes the place of a server that is counted and not yet stored, already while `create_generator` adds the first one |
| `router_join_deadlock` | a join meets a removal: `remove_server` holds `mutex` and waits for `tcp_mutex`, the session holds `tcp_mutex` and waits for `mutex` |
| `router_silent_client` | a client closes without sending eight bytes, as `update_and_online` does when it found no hosts: the acceptor loops on `recv` for ever with `tcp_mutex` held |
| `router_no_mutex` | without working mutexes a server is removed during a session |
| `hosts_skip` | server 0 has been removed; its update passes over position 0, now another server, takes the close of a listener that timed out for an acknowledgement, and returns 0 (either alone suffices) |
| `hosts_lookup` | a query straddles a removal and puts the domain back, with an empty address |
| `trial_teardown` | a paused server's thread spins where it cannot be cancelled, and goes on reading the server that is freed two seconds later |

### Progress and what stops it

The router stops serving in ways that its code has, and that `Stopped` names: the
acceptor reads for ever from a client that is silent or closed (`Spins`); a session
breaks while its list is sent, and `tcp_mutex` is never unlocked (`TcpMutexLost`); a
request on an empty rotation returns with `mutex` (`MutexLost`); a join meets a
removal (`CircularWait`); or the process is lost (`fault`). `SessionsEnd` and
`PausedServerRemoved` say that nothing else keeps a client from being served or a
silent server in the rotation; both are checked where all of these happen except,
for `PausedServerRemoved`, broken connections. `KeepsServing` is the promise without
exceptions, which `router_robust` refutes. TLC stops at the shortest trace, of four
states; each of the seven causes (an array read before the store, or one
sized before an addition and filled after it, the remainder modulo zero, and
the four others) was reached in the same instance when asked for by itself.

### Bounds

`MaxPending` bounds the datagrams of a server that wait in a socket and `Window`
the requests remembered; the counters of the code itself need no bound, as every
client has one session and every server joins once. Two servers suffice for an
entry to be removed in front of or behind another, one joining server for an
addition to meet each step of a round and of a session, one update for the
zeroes and for a second client in the queue. With two initial servers,
`router_safety` has 2.4 million states, and its invariants hold there too; the smaller instance
is kept for its speed. `MaxPending = 2` is what a stale answer needs to sit
behind a fresh one. `RequestsSpread` speaks of 2n requests: a history of four
decides it for up to two servers.

In `hosts_sync` three servers let an update reach one and miss another, and leave
a list with a position to shift when the first is gone; `Garbage` has the initial
version and that of the later update, the two that matter. One domain changes,
one does not.

In `trial` two requests put one behind another in the queue and at the two ends of
a repeated datagram; `Limit = 1`, which is 0xFFFF in the code, makes an
unanswered request be written out for want of room. (The code's identifiers stay
below 2550, so that its limit is never reached; the run shows what it would do,
the theorems hold for every limit.) `MaxRepeats = 1` is one repeat at either end.
`s0` is the server that is there from the start and may be paused, `s1` the one
that joins; probes go to `s0` only (`Probed`), since a probe differs for the
servers in nothing.

### Fairness

`Router`: the monitor's and the acceptor's threads loop for ever (weak fairness of
all their steps together), and the client in session, the only
one that has a list, goes on (weak fairness of `EndStep`). Nothing is assumed of the generator, of the servers' answers, of
the network or of resets. `HostSync`: the router accepts somebody who waits, the
client in session goes on, and each listener does. Queries, removals and faults
need not happen. `Trial`: the generator's thread goes on, and each query thread
tests its flag, sends its answer and ends when it can; nothing is assumed of the
network, of what a thread receives, of the scoreboard's thread or of the router.
That `forward_request` returns at all is assumed (its early return with the lock
held is in `Router`), as is that the two seconds of `kill_response_thread`
suffice for a thread that can end.

## Proofs

`tlapm <module>` for each of the eight. They hold for every value of the constants
that the named assumptions allow: in `Router` (`ConstantsOK`) the initial servers
are distinct, and servers, updates and `NoClient` differ; in `HostSync` the same,
and finitely many servers (`HostSyncConstants`), and updates run on initial
servers, with a real address, under the identifiers 1 to 255, two of one
identifier being the same update (`PlansOK`: the generator repeats an update under
its identifier and never uses one for two), and are of one domain (`OneDomain`); in `Scoreboard`
(`ScoreboardConstants`) the limit is a number; in `Trial` (`TrialConstants`) the
requests are numbered from 0, at most 32768 of them, so that no number is that of
a probe, and every domain fits a message and has no zero byte.

`RouterProofs`:

1. `MembershipInvariant`: an inductive invariant that holds whether or not the
   mutexes work. Its parts: the types; `Counted`, the count is the array's
   length, plus one while an addition is half-made; `Startup`, what main has
   added so far; `Clientele`, each client has one session and one last word;
   `Distinct`, every entry got into the rotation by its own turn, so none is
   there twice; `Silent`, the monitor's list is repetition-free and part of the
   rotation. `TypeOK` needs the last two (`offline` would not be a sequence of
   servers to be found), and `RemovalsFind` is read off `Silent`: only the
   monitor takes servers out, and each once.
2. `ExclusionInvariant`, assuming `MutexesWork`: who holds a lock follows from
   the program counters (`Holders`), and what a session has sent is a prefix of
   the rotation (`Snapshot`). From it `SessionsAreStable`, `LocksAreReturned` and
   `RequestsAreSafe`.
3. `RouterImplementsDirectory`, from the same invariant: every step of the router
   is a step of `Directory` or a stutter, with the session's holder and the
   announced part of the rotation as the abstract state.

`RouterServiceProofs`, whether or not the mutexes work: `OnlySilentAreRemoved` and
`StalePongsSpareOnce`, from the invariant `Judgement`. The count is written before
the array, so that a round that ends with the count it began with has probed the
whole rotation (`Begun`, `Probed`); an answer of this round waits in the socket
until it strikes its server off the list (`Waiting`), and what is left on the list
gave none (`Condemned`); a paused server that was spared has no answer left
(`Spent`).

The same module, assuming `MutexesWork`: `RequestsAreSpread`. In round robin the
request j places back went to the server j places back from `curr_server`, modulo
the rotation's length n (`Turns`). The overloading mode counts up to 2n, and the
places 1 and n + 1 to 2n are the first server's (`FirstTurns`). This says less than
that the request had the server of its place, which is not invariant: a removal
can leave `curr_server` at 2n or more, with no server of that place, until the next
request brings it back. That the first server had at least n + 1 of the last 2n
requests is an injection of 0..n into the positions it won. The lemmas are about
remainders and the history's end.

`HostSyncProofs`, from the inductive invariant `Sync`, with every fault:

1. `Newcomers`: a server that comes later is not in the rotation, is asked nothing
   and has no version before its session is at its end. `Session`: one client is
   in session, and its list is the rotation. `Lines`: every listener is idle but
   that of the server in contact, for which both ends agree on how far the
   connection has come; or one that still applies the update of a client that
   gave up. `UpdaterWritesAlone` is read off `Lines`: when the update thread
   writes its own server's table, the list is done and every listener is idle.
2. `Copied`: what a newcomer has so far is what its peer has. `AllMarked`: a
   server whose version is an update's has that update's change, whether it was
   sent it or copied it with a table. `Progress`: every server before the place
   in the list was passed over, is `astray`, or has the update's version.
   Together they are `UpdatesReachRotation`: that the connection was closed, the
   only acknowledgement there is, means that the change is in the table.

`HostOutcomeProofs`:

1. `ServersAgree`: between sessions the servers of the rotation that were not left
   behind agree. `Sync` is not enough, since it relates a table only to the update
   whose version it has. `Accord` adds, for every server whose table is complete:
   a domain that no update changes is as in `hosts.txt`, and so is all of a table at
   a version that is no update's (`Baselines`); the file is the table, but for
   entries that a lookup revived (`Written`); and outside an update's session all
   servers not left behind are at one version (`Common`). Equal versions then make
   equal tables, because all updates are of one domain (`OneDomain`: the generator's are all of
   "new_domain"). With two domains it would be false: a server that missed an
   update of one and is sent an update of the other stops being `astray`.
2. `TestFindsMissedServer`: the diagnosis of the test `-f` is right. `RepairInvariant`
   follows the two calls: the order in which they run (`Calls`); the rotation, which
   begins with the initial servers, or with all but the first once that one was
   paused (`Shape`); who has the update before the first call, after it and during
   it (`NoneYet`, `AllButOne`, `FirstCall`); what the second has learnt from the
   versions that it was told (`SecondCall`); and what it returned (`Verdict`). For
   any number of servers, newcomers, queries and failed receives. Its hypotheses
   are those of the test: the plan is the test's (`IsRepair`), where the
   choice 1 needs a third server, because with two there is no other server to
   tell the second that the update had reached it; and (`Undisturbed`) no receive
   times out between an answer and its update, no version is lost, and the monitor
   removes nobody but the server that was paused.
3. Two claims of the source that TLC refutes hold under a condition that the theorem
   names. `SteadyUpdatesReachAll`: an update that ends is everywhere (`hosts_skip`)
   as long as no server leaves the rotation and no receive times out, for the
   updates of the test `-x` (`Steady`); then the position that is passed over stays
   the caller's (`InPlace`). `AdditionsNeverMislead`: no query is answered from an
   entry that is not there (`hosts_lookup`) as long as no update removes a domain and
   every line of `hosts.txt` has an address (`Additions`); what a thread has counted
   then stays until it is fetched (`Kept`).

`MessagesProofs`: `ParseOfCraft`, for every identifier of two bytes and every
domain. The byte swap is its own inverse, and the name ends at its terminator.

`ScoreboardProofs`: `ScoreboardImplementsResultsFile`. An invariant on types, and
one lemma for each way the queue gets shorter: what leaves is a prefix, so that
the file and the queue together are one list whose written part only grows.

`TrialProofs`:

1. `ServersInvariant`: nothing reaches a server that is not complete, and a
   server that has answered since its pause has a thread that spins, is dead, or
   whose server is freed. `PausedServersFallSilent` and `ServersAreComplete`
   are read off it.
2. `SoundInvariant`: the i-th line is request i - 1 (`Numbered`), at most one
   request is between forwarding and recording and it is the next (`Forwarding`),
   every datagram, job and answer is about a request given to that server
   (`Network`), and lines are true and written in time (`RecievedIsTrue`,
   `Timely`). None of these is inductive alone. The heart is `Given`: a request is
   given to one server for good, so that a line and an answer with the same
   number name the same server, even if the answer is older than the line. What
   a message says comes from `ParseOfCraft`.
3. `ResultsAreTrue`, `AnswersAreCounted`, `MessagesAreReadable`, `TrialTypes`, and
   `TrialImplementsResultsFile`, which composes the scoreboard's own theorem
   with the fact that a step of the test is a step of the scoreboard or leaves
   it alone.

Only model-checked: liveness (`PausedServerRemoved`, `SessionsEnd`,
`ClientsFinish`, `TestEnds`), which is out of the prover's reach; the first two on the
condition that no named stop has happened. Every invariant and
action property of the runs that pass is a theorem.

## Abstractions and what is left out

- Connections either work or break at both ends at once; a send to a closed
  connection is lost. Signals for such sends are not modelled, nor short reads.
- `Router` lets a client's connection break at any time. In `HostSync` the session
  with the router does not break under a running `update_hosts`; only those with
  other servers do.
- A failed update keeps its session for ever, so that what `HostSync` says of the
  time between sessions does not speak of it.
- A timed-out connection is closed twice (`coms.cc`, `recieve_update` and its
  caller). Descriptors are not modelled, nor that the number may be in use again.
- `parse_message` is given datagrams that have a whole header. Shorter ones, which
  nobody in the program sends, and the buffer of a thread whose first receive
  fails, which nothing has written yet, are not modelled.
- A UDP socket keeps or loses datagrams; only in `Trial` does it duplicate them.
- A `send` never fails in `Trial`; the times and `rrl_removed` of a result, which
  nothing decides on, are left out, and so is the spread of requests over time.
- `Trial` sends requests one after the other until all are sent; which scenario
  the options choose appears as servers that may be paused or may join.
- The threads of updates and of a joining server are never joined by
  `run_test`; that they outlive the teardown is not modelled.
- Data races on words are interleavings of reads and writes; what a race inside
  the unordered map or a reallocated array may do beyond that is `fault` in
  `Router` and left out in `HostSync`.
- The transfer of a table reads the entries that were there when it began.
- Widths: `server_cnt`, `version_num` and the entry count are bytes in the code.
  The generator has at most six servers; the version is kept in 0..255; a table
  never has the 256 entries that would be counted as none.

Not modelled: option parsing and the hosts file's format (pure input, read once
before any thread runs); the system calls' wrappers of `server.c`, except through
what they deliver, and the error codes of `create_tcp_connections`, which only a
socket that was closed returns; `destroy_coms`; `rrl.h` and `dns_temp.h`, for
which there is no code.

## Plan

Done: `Directory`, `Router`, `HostSync`, `Messages`, `Scoreboard`, `Trial` and their
proofs. What is left:

1. The one-byte entry count of the transfer (`src/coms.cc`, `send_entire_file`)
   with a table at its limit, and the map's rehashing under a lookup.
2. Update threads that outlive the test, with a server's table freed under them.
