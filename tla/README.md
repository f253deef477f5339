# Verification of psdns

psdns is a local DNS server and a pair of local proxies (HTTP and SOCKS5) for a
desktop.  It resolves names over DoH, writes the first TLS record of every
tunnel in two pieces so that the server name is in neither, and points the
operating system's proxy setting at itself while it runs.  This directory holds
TLA+ modules of that program, the TLC configurations that check them on small
instances, and TLAPS proofs of the safety properties of eight components for
instances of any size.  Paths below are relative to the repository's root.

    tlc -config MCResolver.cfg MCResolver       # every run has a .cfg
    tlapm ResolverProofs.tla                    # every *Proofs module

`PROJECT.json` lists the runs, the lines every definition stands for, a
mutation for every property that makes it fail, the hazards and the theorems.

## 1. Inventory

| Component | State | Operations | Works with |
|---|---|---|---|
| resolver cache, `internal/resolver` | cache and in-flight map under one mutex; per lookup an `inflightCall` with a `done` channel | `Resolve`, inside it `lookup` and `storeLocked` | called by every proxy handler; calls the DoH client |
| proxy servers, `internal/proxy` http.go, socks5.go, proxy.go | the adopted listener, the `closed` flag, `connTracker` (set of sockets, closing flag, WaitGroup) | `Serve`, `Close`, the handlers | resolver, relay; started and closed by the supervisor |
| relay and first record, `internal/proxy/proxy.go` | two sockets, a buffered reader, a read deadline | `relay`, `readFirstRecord` | handlers, fragmentation |
| fragmentation, `internal/frag` | none | `WriteFirst` | relay |
| supervisor, `internal/supervisor` | mode, configuration, running servers and their status under a mutex | `Start`, `Stop`, `SetConfig`, `Status`, `WaitSettled` | proxies, DNS server; called by the app |
| DNS server, `internal/dnssrv` | two `dns.Server`s, the queries they have taken | `ListenAndServe`, `Shutdown`, the handler | supervisor, command line, DoH client |
| system proxy, `internal/sysproxy` | the OS setting, a backup file | `Apply`, `Restore`, `Recover` | the app |
| desktop app, `internal/gui/app.go` | `sysproxyOn` under `sysproxyMu`, `quitting` | `Startup`, `Start`, `Stop`, `Quit`, `Shutdown`, update and restart | supervisor, system proxy, self-update |
| self-update, `internal/selfupdate`, `cmd/psdns/update.go` | one cached answer, the executable on disk | `Check`, `Apply`, `runUpdate`, the app's `restart` | app, command line; GitHub |
| command line, `cmd/psdns` | a channel that each server reports its end to, a signal handler | `resolve`, `proxy`, `run`; `update` | all servers |
| configuration, `internal/uiconfig`, `internal/config` | none | `ToConfig`, `FromConfig`, the defaults | app, supervisor, DoH client |
| DoH client, `internal/doh` | a dial target and an `http.Client` | `New`, `Exchange` | resolver, DNS server |
| tray and window, front end, scripts | little or none | | |

What is hard here, and what would make each component right:

* **Resolver.** Many handlers ask for the same name at once; one of them looks
  it up and the others share the answer through a channel, while answers expire
  and the cache is at its cap.  Right means: one lookup per name, nobody reads
  a half-written answer, nobody is given an answer that had expired when he
  asked, everybody returns, the cap holds.
* **Proxy servers.** `Close` may come before, during or after `Serve`, twice,
  and while a connection is between `Accept` and the tracker; handlers block in
  a dozen places.  Right means: no connection is served after `closeAll`, no
  path leaks a socket, a drained `Close` leaves nothing behind, every `Close`
  releases the port, every tunnel ends.
* **Relay.** The client sends in pieces, stalls, dies; the deadline of the first
  read races its last byte.  Right means: the first record is handed over whole,
  nothing is lost or reordered, stalls end, idle tunnels do not.
* **Fragmentation.** Arithmetic on nested lengths that the client chose.
* **Supervisor and DNS server.** Goroutines of a stopped set outlive the next
  `Start`; sockets are bound by goroutines after `Start` has returned; the end
  of one of the two DNS servers has to be the end of the other.  Right means: of
  all sets only the running one accepts, its status is its own, what runs is what
  the user is shown, and ports come free.
* **Command line.** Whoever returns first ends the process: a server that fails,
  one that was told to stop, or the signal handler.  Right means: a process never
  goes on with some of its servers, every query it took is answered, and a signal
  cuts nothing short.
* **Self-update.** Releases change between a check and the download, and between
  the downloads of one release; the executable is replaced while it runs, and the
  app starts its own successor.  Right means: only what was verified is installed,
  the version never goes back, and after a restart somebody runs.
* **Configuration.** Texts of the user become durations and addresses and back:
  what is shown has to mean what is in use.
* **System proxy.** A change to somebody else's setting, in several writes with no
  transaction, that has to be undone through failures, crashes and overlapping
  clicks.  Right means: the user's setting is never lost, and the OS is not left
  pointing at a port where nobody listens.

## 2. Modules and how they correspond to the code

### Resolver, ResolveContract

One process per call of `Resolve` (`Callers`); `pc` is where it is.  A critical
section of the code is one action: `Hit`, `Join` and `Lead` are the three ways
through the first one (resolver.go:64-88, `now` being read before it, in
`Begin`), `Store` is the second (97-99).  `Publish` and `CloseDone` are kept
apart because followers read the answer without the lock.  A lookup is the set
of queries still pending, the addresses found and the smallest TTL;
`Query(c, q)` ends a query with addresses, without, or in an error.  `outcomes`
is a history of what lookups produced; it exists for the refinement only.

`ResolveContract` is what a caller may rely on: he is given an outcome for the
name he asked, produced after he asked or still good when he asked, or nothing
because his context is done.  `ContractSpec` says that Resolver implements it
(`phase` and the contract's other variables are defined from Resolver's state).
A follower inherits a failure caused by the *leader's* context: the contract
allows it, because a failed lookup is an outcome produced after he asked.

### ProxyServer

One accept loop, any number of connections and of concurrent calls of `Close`.
For a connection: the client's socket, the upstream socket, the place of its
handler (`h`) and of the relay's goroutine (`g`).  The three kinds of requests
share their steps where the code does.  The tracker is the set of sockets, the
closing flag and the WaitGroup's counter; `add`, `remove` and `closeAll` are
one action each because each is one critical section.  The drain in `Close`
ends by `Drained` or, at any moment, by `DrainTimeout`.  Parsing of requests is
reduced to "a good request" and "a bad one".

### Relay

The same tunnel on the level of bytes, one connection.  Bytes are positions in
the client's stream, of whose contents only the record header counts.  The read
deadline is state: set before the first record (`Arm`), taken away when
`readFirstRecord` has returned (`Disarm`), and passed at any moment in between
(`Expire`); every read of the client, those of the copy included, fails when it
is set and has passed (`ReadFails`).  `WriteFirst` is one write or two, cut
anywhere; where it cuts is the business of the next module.

### Frag

`sniSplitOffset`, both strategies and `makeRecord` on real bytes, as pure
operators (the walk over the extensions is a recursive function), and a small
state machine for the two writes, each of which may fail having sent a part.

An input is the data given to `WriteFirst` together with the ClientHello that it
begins and where the extensions of that begin, both empty for any other data.
`HelloAssumption` says what a ClientHello is (`IsClientHello`: the layout of
clienthello.go:11-19, lengths that agree, the extensions last, at most one server
name extension, with one name) and that the data is the record header and then as
much of the hello as the record and the end of the stream allow (`Begins`).  That
defines, without the parser, where the name is (`Host`), which is what `FindsName`
compares the parser with.  `HidesName` asks that no segment, and of a record
nothing behind its header, holds the name.  It speaks of names of two bytes or
more that occur once in the data: one byte has no inside, and nothing in the code
prevents a random or a session id from repeating the name.

`MCFrag` builds the inputs from the RFC 8446 layout: twelve ClientHellos with
two settings of the vectors before the extensions, cut short at every byte,
spread over two records, or with one byte overwritten, and then read as
`readFirstRecord` reads them, so that only what `relay` can pass is passed.

### UiConfig, Supervisor

`UiConfig` holds the pure part: what `ToConfig` makes of a text that is empty,
malformed or good, what it refuses, what `doh.New` refuses, and what
`FromConfig` writes back, with durations in milliseconds and their texts in
parts.  Supervisor uses it for `SetConfig`, of which the check is the app's
(app.go:244-257) and the assignment its own, and for the check in `Start`.

Sets of servers are numbered; the goroutines of an old set go on in its own
entries of `serve`, `dns` and `sock`, as they do in the code, where they hold
pointers to listeners of their own.  `Start` is one action (it holds the mutex
throughout), `Stop` is one per call that it makes while it holds the mutex,
because the goroutines run between them.  `ListenAndServe` of the DNS server is
bind UDP, bind TCP, two activations, first exit, the other's shutdown.  That
`Shutdown` of a `dns.Server` that was not activated does nothing is how
miekg/dns behaves (external).

### DnsServer, Cli

`DnsServer` is the same `ListenAndServe` for one set only, but with the queries:
each is taken by an active server, is in exchange with the DoH server, and is
answered by `Message`, which puts the query's Id on whatever came back.  A server
that is told to stop returns when its handlers are done.  `Shutdown` waits for
that if it is the first to ask and returns at once otherwise (external), so the
caller of the second one goes on while queries are in flight: that is the race
between `ListenAndServe` and its owner.

`Cli` EXTENDS it with the process around it: `main`, which blocks on the first
end of a server; the goroutines of the proxies; `onSignal`, which is `Shutdown`
of both DNS servers and then, for each proxy, the closing of its listener, of its
tunnels, and the drain.  `After` is the order of the subcommand.  `Next` has
`Running` as a conjunct, because the end of `main` is the end of everybody.

### SelfUpdate

GitHub is the release that is called the latest, and for every release the build
of its archive and the build its list of checksums is of: publishing,
uploading and listing are actions of their own, at any time.  A caller goes
through `Check` (`CheckCached`, `Answered`, `Store`) or `Apply` (`Answered`,
`Sums`, `Archive`, `Verify`, `MoveAway`, `MoveIn`); `psdns update` is one after
the other, each with its own answer.  The process is `app`, its lock and its
successor `child`; `Exit` may come between any two steps.  `Above` is
`semver.Compare` on a version's core and its prerelease; a tag that is no version
is `valid = FALSE`.  `listed` is a history variable: all that lists of checksums
have ever been of.

Assumed: no two commands `psdns update` at once, and none while the app updates
(nothing in the code prevents either); in the app, the window of an update is
modal.

### SystemProxy

Calls of the UI and the recovery at startup are processes (`start`, `stop`,
`quit`, `recover`); the state is the OS setting (in use or not, host, port), the
backup file, whether the app runs, `sysproxyOn`, the mutex and the supervisor's
answer.  Recovery takes no mutex, as in app.go:84, and nothing keeps the other
calls waiting for it.  Every group of fields is read (`Reads`) and written
(`ApplyNext`, `RestoreNext`) in the order of the platform, each write is a step
and may fail, and the process may be killed between any two.  What a platform
does not write back (`Owed`), or writes back as "off" (`Target`), is taken from
its `restore`.  The port is one of `Ports`, as the supervisor may fall back to
another.

Failures are the code's, and some of them go unseen: a read that fails is taken
for an absent value (`CaptureMisreads`), a backup that `Stat` cannot see for no
backup (`SaveUnseen`), and on Windows a value that cannot be deleted for a deleted
one (`RestoreFails`).  `lapses` is a history variable that records which of these
have happened, and whether a call has used the backup while recovery did.  `Sound`
says that none has, and that the user's setting is one that the platform writes
back whole.  Without it the user's setting can be lost or psdns's host stay
(section 5); the properties about the setting say what holds short of that, and
`RestoreOwed` holds in any case.  `calm` is a history variable too: in this
session no call has overlapped another and nothing failed.

### How they fit

SystemProxy takes the supervisor as a running flag and a port; Supervisor takes
a proxy as a listener that is adopted, closed or failing, which is what
ProxyServer's accept loop does; ProxyServer takes a relay as two copies that end
when a socket closes, which is Relay; Relay takes `WriteFirst` as a write in one
piece or two, which is Frag.  Proxies ask Resolver; ResolveContract is all that
`Dialed` and `DialFails` of ProxyServer rely on.  Cli is DnsServer and the part
of a proxy's `Close` that the process may end in the middle of; Supervisor is
UiConfig and everything that one process starts one after the other.

## 3. Runs

Bounds are the smallest at which every action fires and each property can fail
(each has a mutation of the code that makes it fail in the same run).

| Run | Shows | Bounds |
|---|---|---|
| `resolver` | SingleFlight, FollowerGetsAnswer, CacheBounded, ContractSpec, EvictsLiveOnlyWhenFull, EveryCallReturns | 3 calls, of which one asks for x, one for X (the same in another spelling) or y, one for x or z; a cache of 2, time 0..1 with answers good for 1 |
| `proxy` | NoDoomedConnServed, NoSocketLeaks, DrainedIsQuiet, NoAddDuringWait, ListenerReleased, TunnelsEnd | 1 connection that makes a request of any kind and 1 that makes none that is good, 2 calls of Close |
| `sysproxy` | NeverLost, RestoreOwed, NotLeftAtDeadListener, StopRestoresFirst, CrashRepaired | 3 platforms, 2 ports, 5 settings of the user (a proxy in use, one in use without an http host, one not in use with or without a port, no values at all), 2 calls in flight at a time, 1 failing read or write, 1 crash and any number of orderly ends and launches |
| `sysproxy_overlap` | *violated:* NeverAtDeadListener | the same, no failure, no crash |
| `supervisor` | ShownIsLive, StatusIsOfThisSet, OnlyThisSetAccepts, BindFailureLeavesNothing, StopIsNoFailure, ProxyPortsReleased, FirstExitStopsBoth | 2 successive sets, proxy and DNS modes, 1 proxy, 1 failure; settings that give nothing, everything (a delay at its limit, a negative timeout), or everything with one of 9 faults |
| `supervisor_orphan` | *violated:* StopTearsDownAll | 1 set, DNS only |
| `cli` | UDPDrained, EndsAsAWhole, QueriesAnswered | 3 subcommands, a query over UDP and one over TCP with Ids of their own, a tunnel per proxy, 1 server that cannot bind or fails later, a signal at any time |
| `cli_signal` | *violated:* TunnelsClosedAtExit | `psdns proxy` |
| `update` | InstalledVerified, NeverBackwards | 4 releases (the shipped one, a candidate and its final release, the next), any of them the latest at any time; the files of one uploaded twice; 2 callers |
| `update_restart` | *violated:* NotIntoNothing | the same, no uploads |
| `relay` | TypeOK, InOrder, WholeRecord, IdleTunnelStays, FirstReadEnds, BothEnd | a stream of 9 bytes: header, a record of up to 3, and one more, or a length beyond the limit; 1 piece of reply |
| `frag` | PayloadPreserved, HidesName, FindsName | 94304 states: every input that `MCFrag` builds, 3 strategies, both writes and their failures |

Why they are enough: in Resolver a third call is what can arrive between a
leader's store and its publication, and what fills a cache of two beyond its
cap; that one of the calls has a name in common with each of the others lets
every two of them lead and follow.  In ProxyServer the second connection need
only reach the tracker and leave it: that makes one before `closeAll` and one
after, and a counter that comes back to zero while the other is served; two
closers make one that drains while the other has timed out.  In SystemProxy the
mutex lets one call at a time at the setting and recovery takes none, so that two
calls in flight are any two that can get into each other's way there, and any two
that overlap in the supervisor; one failure is enough for every lapse, and one
crash for a backup that is found at startup.  Two sets in
Supervisor are an old and a new one.  One failure in Cli is the one that ends the
process; a second can only change which of two ends wins.  Two builds of one
release are a list of checksums that is older than the archive, or newer.  What
holds for more calls, connections, sets, releases or ports is in the proofs.

Where deadlock is not checked the system may really stop: all calls have
returned, the app is closed, the process has ended, both pieces are written.

### Fairness

* *Resolver:* goroutines that can run do; every DoH query ends, since `doh.New`
  gives its `http.Client` a timeout.  No context need expire, the clock need not
  advance.
* *ProxyServer:* goroutines run; operations on a closed socket fail; dialing and
  the first read are bounded by `cfg.Timeout`.  Nobody obliges a client to send,
  or an upstream to take what it is sent, to answer or to go on with the body of
  its answer: a write to upstream (proxy.go:71, 80; http.go:181) and the response
  of a plain request (http.go:186, 191, 192, the last of which drains the body)
  have no deadline.  `TunnelsEnd` therefore leaves out a handler that waits for
  ever for an upstream that neither moves nor goes away (`AwaitsUpstream`), and
  only that.
* *Relay:* the two goroutines run, and a deadline that is set passes.
* *Supervisor:* goroutines run, and a `Stop` that holds the mutex goes on.
* *Cli:* goroutines run for as long as the process does, and every exchange with
  the DoH server ends, since its client has a timeout.  Nobody has to send a query
  or a signal, and no server to fail.
* *SystemProxy:* recovery at startup goes on while the process runs.  Nobody is
  obliged to launch the app again: `CrashRepaired` says what happens once he has,
  unless the process ends before.

## 4. Proofs

Checked by TLAPS, for any number of callers, connections, closers and ports, any
TTLs and caps, and any number of failures and crashes.  The only assumptions are
the named ones on the constants (finite sets where a cardinality is taken,
natural numbers for the bounds, distinct markers).

* **ResolverProofs.** `TypeCorrect`, `SingleFlightHolds`,
  `FollowerGetsAnswerHolds`, `CacheBoundedHolds`, and `ContractHolds`: the
  resolver implements the contract.  The inductive invariant adds to
  SingleFlight that a closed `done` means a written answer (`AnswerInv`), that a
  follower waits for a leader of its own key (`FollowInv`), and that everything
  a caller may be given was produced by a lookup of its key (`OutcomeInv`):
  without the last, the step in which a follower returns maps to no step of the
  contract.  The cap needs a counting argument on `StoreLocked`: it evicts before
  it inserts, and inserts one key.
  `EvictsLiveOnlyWhenFullHolds` adds that the key of a leader stays missing or
  expired until the leader stores it (`LeaderInv`): two leaders have different
  keys.  With a second counting argument, a store that drops a good entry then
  finds a cache full of good entries of other names.
* **ProxyServerProofs.** `TypeCorrect`, `CountsHandlersHolds`,
  `NoDoomedConnServedHolds`, `NoSocketLeaksHolds`, `DrainedIsQuietHolds`,
  `NoAddDuringWaitHolds`.  The invariant adds what the accept loop holds between
  `Accept` and `add` (`AcceptInv`) and that a closer waits only after `closeAll`
  (`CloseInv`).  That a drained `Close` stays quiet follows from the counter
  being zero, the counter being the number of handlers, and `add` refusing.
* **SystemProxyProofs.** `TypeCorrect`, `NeverLostHolds`, `RestoreOwedHolds`,
  `NotLeftAtDeadListenerHolds`, `StopRestoresFirstHolds`, for all three platforms,
  any settings of the user, any number of failures and crashes and all calls at
  once. The invariant adds who may be where while the mutex is held, and that with
  no lapse recovery runs only while nobody holds it (`MutexInv`); that the setting
  is captured while it is the user's, and written only with a backup on disk and a
  restore owed (`ApplyInv`); that a backup which is not owed is being recovered or
  could not be (`OwedInv`); and that a restore that has not failed has written back
  all it is done with (`RestoreInv`): that is why deleting the backup does not lose
  the setting. The parts about the setting presuppose `Sound`, those about who
  holds what do not. The two that presuppose calm rest on `CalmInv`: while calls
  do not overlap and nothing fails, every call hands over to the next an OS that
  points at the listener or not at psdns at all.
* **SupervisorProofs.** `TypeCorrect`, `StatusIsOfThisSetHolds`,
  `OnlyThisSetAcceptsHolds`, `BindFailureLeavesNothingHolds`,
  `StopIsNoFailureHolds`, for any number of sets. The invariant adds that a set
  which was not started has done nothing (`FreshInv`), that whoever holds the
  mutex is a `Stop` of a running set (`StopInv`), and, the heart of it, that a
  proxy which `Stop` has come past, in this set or in any before, either has its
  `closed` flag up before its goroutine looks at it or has its listener closed
  (`ClosedInv`). `DnsInv` says which sockets a DNS goroutine has at each of its
  steps. That `Stop` is no failure follows from `StopInv`: while the mutex is
  held, `stopping` is up.
  `ShownIsLiveHolds` is about the configuration, and rests on an invariant of its
  own (`ConfigInv`): the configuration is the default or what `ToConfig` made of
  settings that passed the check, and it stays while servers run that were built
  with it.  It also needs that `FromConfig` and then `ToConfig` give back the
  configuration (`RoundTrip`), hence that the text which `time.Duration.String`
  writes for a duration is read as that duration (`ParseOfString`).  It holds for
  any texts of settings, under `SettingsAssumption` and `UiConfigAssumption`.
* **SelfUpdateProofs.** `TypeCorrect`, `InstalledVerifiedHolds`,
  `NeverBackwardsHolds`, for any set of releases with any versions, and any number
  of callers.  `CallInv` says that a call which has got to the downloads holds a
  release newer than the process, and one that has got to the replacement data
  that was listed for it; it also says that no call outlives its process, without
  which an old call could install against a newer version.  `DiskInv` says that
  the executable on disk is never older than the process: `Startup` is then never
  a step back.
* **CliProofs.** `TypeCorrect` and `UDPDrainedHolds`, for any number of queries and
  failures.  UDPDrained relates three moments: a query is in flight when the
  signal handler comes to the server over UDP, and the process ends later.  The
  proof follows one such query with `Drains`, which holds at the first moment, is
  kept by every step and implies what is claimed at the last.  That needs to know
  that until then nothing that `main` waits for has returned (`FirstInv`), which
  in turn is because the subcommand stops that server first.
* **RelayProofs.** `TypeCorrect`, `InOrderHolds`, `WholeRecordHolds`,
  `IdleTunnelStaysHolds`, for streams, records and replies of any length.  `DataInv` says what upstream has been given at each step of the
  goroutine, always the bytes from the first to the last written, so that what is
  written next joins it; the lemma about ranges of bytes is where the sequences
  are, the rest is arithmetic.  `EndInv` says that a deadline is set only while the
  first record is read, and that a direction which is about to close the tunnel has
  a reason other than time, or an unfinished record: without the first a copy could
  be cut by a deadline that was left behind.
* **FragProofs.** `PayloadPreservedHolds`, for every payload up to the length that
  `readFirstRecord` can return (the assumption on `Inputs`; makeRecord's two bytes
  of length need it) and wherever `sniSplitOffset` points: both writers check the
  offset before they use it, so nothing about the parser is needed.
  `FindsNameHolds` is about the parser, for hellos of any length with any number
  of extensions.  It takes what the recursive function `WalkExtensions` computes,
  so an induction.  The induction theorems of the library have an operator as a
  parameter and cannot be used; the principle that a set of naturals which is not
  empty has a least element can (`Least`, from `WFMin` and
  `NatLessThanWellFounded`), applied to the set of counterexamples.  In this way
  `Recursion` shows that the function exists, being a recursion over offsets that
  grow and end with the block; `WalkBounds` that no turn reads behind the block;
  `ExtsGrow` that the extensions of a hello follow one another; and `WalkOfHello`
  that the walk comes to the first of them that is cut short or names the server.
  `OffsetOfHello` adds the three vectors that are skipped before it.
  `HidesNameHolds` follows: the cut is strictly inside the name, so each piece, and
  whatever a failed write sent of one, is a range of the data that lacks the first
  byte of the name or its last (`Short`), and cannot hold a name that occurs once.
  `IInv` says which pieces, or which part of one, were written at each step.

Only model-checked is what fairness is needed for, which is out of the prover's
reach with ENABLED: `EveryCallReturns`, `ListenerReleased`, `TunnelsEnd`,
`CrashRepaired`, `ProxyPortsReleased`, `FirstExitStopsBoth`, `FirstReadEnds`,
`BothEnd`, `EndsAsAWhole` and `QueriesAnswered`.  Every safety property of a
passing run is a theorem.

## 5. Where the code and its comments disagree

1. *A quick Stop during Start* (`sysproxy_overlap`).  `Start` asks the supervisor
   how it settled and applies the system proxy afterwards; a `Stop` in between
   finds nothing to restore.  The OS then points at a closed listener until the
   user stops again, quits or relaunches (app.go:57-59, 168-169).
2. *Stop before the DNS server is up* (`supervisor_orphan`).  The shutdown is
   lost and the server stays (supervisor.go:154).
3. *Restart after an update* (`update_restart`).  The copy is started while the
   old process holds the single-instance lock: it wakes the old one and exits,
   and then the old one quits (app.go:283-297).
4. *A signal to the command* (`cli_signal`).  Closing the listener of a proxy is
   the first thing its `Close` does, and makes `main` end the process, with
   status 1, before the tunnels are closed (http.go:72-74; main.go:186, 217).

Smaller ones, for which there is no run:

* closing the clients does not free a handler that waits for a silent upstream, be
  it for a response, for the rest of its body, which `Body.Close` may drain, or for
  room to write: none of these has a deadline (http.go:181, 186, 191-192; proxy.go:71,
  80), although closing them "is what makes the handlers return"
  (proxy.go:175-176);
* on Linux a host that was empty when captured is not written back: a user whose
  mode is manual for a SOCKS proxy alone keeps psdns's host as his http proxy, with
  a port that is 8080 by default in both (sysproxy_linux.go:60, 64), although
  "Restore puts the OS proxy back to the snapshot" (sysproxy.go:79);
* a read that fails while the setting is captured counts as an absent value, and
  Apply goes on with that backup (sysproxy_linux.go:84-98, sysproxy_darwin.go:138-156,
  sysproxy_windows.go:29-40);
* any error of `Stat` counts as "no backup", so a good one may be overwritten with
  psdns's own values (backup.go:71-78; sysproxy.go:56-58);
* on Windows an error of `DeleteValue` other than "not found" is ignored too, and
  the backup deleted (sysproxy_windows.go:86, 106);
* `RecoverStale` takes no mutex, although `sysproxyMu` is there to guard the backup
  (app.go:84; 57-60): a Start that comes while it runs may find its backup deleted
  after it has decided to keep it;
* on Windows, `ProxyEnable` is restored before `ProxyServer`: for a user who had
  a proxy, the failure that the comment excludes is possible
  (sysproxy_windows.go:81-82);
* `readFirstRecord` drops fewer than five bytes, although its comment says that it
  returns whatever was read (proxy.go:101-108);
* for a server name of one byte `sniSplitOffset` returns the offset in front of
  it, which is not strictly inside (clienthello.go:5-6, 82-85);
* a client that half-closes after its request ends the tunnel, and the response is
  cut (proxy.go:64, 80-83);
* answers over UDP are sent without truncation, whatever the client's buffer
  (server.go:47);
* at the end of a process queries over TCP are cut: by then `ListenAndServe` may
  have returned, or its second `Shutdown` does not wait (server.go:72-73);
* a timeout of zero or less is accepted (uiconfig.go:98), as is a bootstrap
  address whose port is empty;
* `psdns update` prints the release that the check found, although `Apply` asks
  again and may install another (update.go; apply.go:57-58);
* a process that ends between the two moves of a replacement leaves no executable
  in its place, which the word "atomically" excludes (apply.go:46-48).

## 6. Not modelled

The tray's menu, the window, the front end and the release scripts are
presentation and I/O.  Parsing of HTTP and SOCKS requests, the wire formats of DNS
and DoH, the layout of archives and the JSON of the backup are reduced to their
outcomes.  `MaxConnsPerHost` and the like are inside net/http.  A backup file that
somebody else has damaged is not modelled: `readBackup` deletes it and reports an
error (backup.go:113-116), but the app itself renames a complete file into place.  Which port `listenTCPFallback` falls back to is
reduced to "another one" (listen.go).  Events for the front end, among them the
one of `backgroundCheck`, and the text of messages are left out, and so is the
delay between the pieces of the first record.

## 7. Plan

Done: Resolver with its contract, ProxyServer, Relay, Frag, SystemProxy,
Supervisor with UiConfig, SelfUpdate, Cli with DnsServer, all checked and with
proofs.

Next, in this order:

1. **Composition**: Supervisor with the accept loop of ProxyServer in place of
   its reduced proxies, shown to implement them; Relay's two writes implemented
   by Frag.
2. **Proofs**: the invariants that the composition needs.
3. **Fallback ports**: the candidates of `listenTCPFallback` one by one.
