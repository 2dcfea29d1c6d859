# SimpleTwitter: a verification project

SimpleTwitter is a small distributed service in Go: storage servers that form a
consistent-hashing ring and hand out leases, a client library with a lease-guarded
cache (libstore), application servers that keep users, subscriptions and posts in the
storage, and a web server in front. This directory holds TLA+ models of all of these, the
TLC runs that check them on small instances, and TLAPS proofs. Paths below are relative
to the repository's `src/` directory unless they name a document.

## 1. The system

| Component | State | Operations | Interacts with |
|---|---|---|---|
| Storage server `storageserver/storageserver_impl.go` | `storage` (key → list), `tenants` (key → lease records `host~time`), `conns` to app servers, one `lock` | `Get`, `GetList`, `Put`, `Delete`, `AppendToList`, `RemoveFromList`; inside: `recordLease`, `revokeLease`, `getAppServer` | called by libstores; calls back `LeaseCallbacks.RevokeLease` while holding the lock |
| Ring `NewStorageServer`, `RegisterServer`, `GetServers`, `keyRangeContains` | `ring` (sorted node IDs), `nodes`, `numNodes` | slaves dial and register at the master until all have joined, then insert the nodes of the reply one by one | `GetServers` and `keyRangeContains` read `ring` and `nodes` without the lock |
| Libstore `libstore/libstore_impl.go` | `cache`, `records` (lease flag and query history per key), `ring`, `conns`, one `lock` | `Get`, `GetList`, updates, `RevokeLease`, goroutine `cacheRecycler` | lock released during RPCs; record pointers kept across them |
| Utilities `util/common.go`, `util/keyFormatter.go` | – | binary searches, `SearchHashRing`, lease record and post key formats | used by all |
| App server `stwserver/stwserver_impl.go` | none of its own for users and posts | `CreateUser`, `Subscribe`, `Unsubscribe`, `Post`, `DeletePost`, `Timeline`, `HomeTimeline`: two to some two hundred storage calls each | many goroutines, several servers, no locks |
| App server cluster `NewStwServer`, `RegisterServer`, `GetServers` | `nodes` (a sorted slice), `numNodes` | slaves register at the master until all have joined | no lock at all; the web server reads the list once |
| Web server `webserver/webserver_impl.go` | `stwConns` | five HTTP handlers of one to three RPCs each; `getStwConn` | app servers; all handlers share `stwConns` without a lock |
| Gate of the web server `ddosProtectionWrapper`, `servePuzzle` | `avgLatency`, `underHighLoad`, `zombieFilter` | measures requests, shows a puzzle under high load | runs around every handler, without a lock |
| Clients `httpclient`, `stwclient` | – | one request each | web server, app servers |
| RPC wrappers, runners | – | – | – |

What is hard about it, and what makes each part correct:

* **Leases.** A value leaves the server under a lease and is cached; an update must reach
  every copy, or wait for the lease to end, before it changes the value. Replies,
  revocations, timeouts, expiry, the recycler, crashes and restarts interleave. Correct:
  a copy the server has not given up on equals the stored value (`GuardedCopiesCurrent`);
  the libstore's maps agree (`GrantedIsCached`); no lease record outlives its key
  (`LeaseOnlyOnStoredKey`); an update is atomic although it waits in the middle
  (`IsAtomic`); every call is answered (`EveryCallAnswered`).
* **Lists.** Index arithmetic without bounds checks. Correct: the list is a sorted set
  (`Inv`, `ActsAsSet`), the search ends (`CallReturns`).
* **Ring.** Servers answer while they join, retry and restart. Correct: ready servers
  partition the keys (`ReadyServersPartitionKeys`), a key is stored away from its owner only
  if a libstore with an incomplete ring meets a slave that is still joining
  (`StoredAtOwner`), the ring forms (`RingForms`).
* **Posts.** Every operation is several storage calls that other handlers interleave with, and
  that can fail or stop half way. Correct: what a list names can be read (`ListedPostStored`),
  nothing is left behind unseen (`NoStrayPosts`), a timeline lacks a post only for a reason that
  is named (`TimelinesMissNothing`), and all calls of all handlers come to the single steps of
  an abstract feed (`IsFeed`).
* **App server cluster.** Handlers of `RegisterServer` replace a slice that others have copied
  or write to. Correct: slices stay within their arrays (`TypeOK`); nobody gets a list with
  gaps and the cluster forms as long as no two handlers are between `append` and the
  assignment at once (`WholeUnlessMixed`, `FormsUnlessMixed`). The cluster need not form
  otherwise (`ClusterForms`, which fails).
* **Web server.** A page is several RPCs, of which any may fail; the web server itself dies of
  `log.Fatal` or its unlocked map while its RPCs go on. Correct: `/home` shows the user's own
  posts too (part of `TimelinesMissNothing`), pages sign their user up (`PagesSignUp`), and
  the properties of posts hold through all of it.
* **Gate.** Only requests that get past the gate are measured, and the average and the flag
  are written from what was read before. Correct: high load ends (`LoadEnds`).

`PROJECT.json` lists the hazards line by line.

## 2. Modules and how they correspond to the code

**LeaseRpc** – keys, values, lease constants, the RPC calls in flight, time. A call of
goroutine `p` is `req[p]`, its answer `reply[p]`. `callee`/`done` are the one `RevokeLease`
the server waits for; `late` counts those it gave up on, which still run some time.

**StorageServer** – `storage`, `tenants`, `lock`, `todo` (holders `revokeLease` has still to
visit), `conns`. A handler that does not revoke is one step, because it holds `ss.lock`
throughout. One that does is: the step that passes the checks and starts `revokeLease`
(`Put`, `Delete`, `AppendToList`, `RemoveFromList`), per holder `SkipExpired`, `CallRevoke`
and `RevokeDone` or `RevokeTimeout`, `CallBroken` or `DialFatal`, and `FinishUpdate`, which
drops the key's lease records, writes, answers and unlocks.

**Libstore** – `history`, `granted` (the records), `cache`, and `held[p]`, what the record
pointer of a read in flight points to: nothing, the current record, or an orphan that
the recycler has removed from the map. `ReadCached`, `ReadRemote`, `ReturnRead`,
`ReturnStatus`, `SendUpdate`, `DropLease` (the body of `RevokeLease`), `RecyclePick` and
`Recycle` are its critical sections.

**LeaseSystem** – the composition, with crash, restart and the clock. Two history variables
(`replyMark`, `cacheMark`) follow the copies that are out under a lease; a copy is *guarded*
until the server gives it up although it still exists, and then the mark says why: `expired`,
`overtaken`, `emptyAppend`, `deadConn`. **AtomicStore** is the abstract specification: each call
takes effect and is answered in one step; LeaseSystem implements it with the identity as
refinement mapping.

**SortedList** – one stored list, index by index: the loop of `BinarySearchString`, the
early cases of `AppendToList` and `RemoveFromList`, the slice copies.

**RingFormation** – storage servers as node IDs, keys as hashes. The two assignments of
`RegisterServer` and the insertions of a slave are separate steps, because other
goroutines read between them. `Write` and `EmptyRingPanic` are what `keyRangeContains` makes
of a request at a server in any phase (a refusal changes nothing).

**StwServer** – the handlers of the app servers, with a program counter and one step per
storage call. Updates act on the store; `seenSubs`, `seenLists` and `oldPosts` are what the
libstore of each app server answers to reads. An update may leave the earlier value in any
libstore (`SubsSeen`, `ListSeen`, `GoneSeen`), until the copy goes (`Forget`: it expires, is
revoked or recycled) or the server is started anew (`Forgotten`). StwServer has no
next-state relation of its own: WebServer makes its calls.

**WebServer** – the composition of the web server, the clients' requests and StwServer.
`web[h]` is a request and the RPCs it has still to make; `Rpcs` is what the five handlers call,
`Route`, `Dial`, `DialFatal` and `MapRace` are `getStwConn`, `CallRpc`, `CallFails` and `Answer`
the rest of every handler, `Serve` a step of the app server's handler. `AppDies` kills the
handlers of an app server and breaks the connections to it; `AppRestart` does not mend
them; `CopyGoes` is `Forget`. History variables: `due`, the posts a timeline owes its reader
since the request came in, less those that were unlisted or whose user was unsubscribed
from meanwhile and those that an out-of-date copy hid from it (`Overlooks`), and `failed`,
the handlers that had a storage call fail.

**Feed** is the abstract specification of StwServer and WebServer: signing up, following,
drafting, publishing and retracting in one step each. WebServer implements it with the
posts of `Post` handlers between their two writes as the drafts (`IsFeed`).

**StwCluster** – `NewStwServer`, `RegisterServer`, `GetServers`, and the start of the web server. A
slice of the master, `ts.nodes` or the `temp` of a handler, names an array of `arrays` and a
length, since `append` writes in place when there is room. A handler of `RegisterServer`
takes a step per line: `RegisterSearch` (106), `RegisterCompare` (107), `RegisterAppend` (108),
`RegisterCopy` (109), `RegisterStore` (110), `RegisterAssign` (111), `RegisterReply` (113-122), and
each reads `ts.nodes` as it is by then.

**WebGate** – `ddosProtectionWrapper` and `servePuzzle`: per client a request that is checked,
served, averaged, tested and recorded in separate steps.

**MCLease, MCList, MCRing, MCCluster, MCWeb, MCGate** give constants their values.
**LeaseProofs, SortedListProofs, FeedProofs, WebProofs, TimelineProofs, RingProofs, ClusterProofs,
GateProofs** hold the proofs. Definitions marked "Mutant" in the
modules are deliberately wrong variants: replaced for the right one, they must make a
property fail.

### Abstractions

* *Time* is in whole seconds, as in the code (`time.Now().Unix()`); stamps are kept as ages,
  capped one above the lease term since no comparison looks further.
* *A stored list is the set of its items* outside SortedList, which shows that the list is
  determined by the set. Both sides copy lists before they hand them out, so replies and
  cache do not share memory with the store.
* *A ring search* is given by its result; the loop is the one of SortedList.
* *Keys hold either one value or a list* (`KeyUseAssumption`), as the formats of
  `util/keyFormatter.go` ensure.
* *Unlocked access* to maps and slices: outcomes are either a read in the middle (RingFormation:
  `Moving`, `MapRace`) or an end of the process by the Go runtime (`MapRace`, `Crash`).
* *A restart* of an app server waits until the calls of its former life have been dealt
  with; a storage server that has died stays dead in LeaseSystem; the master of the ring is
  not restarted (a ring without its master is lost: the slaves call `log.Fatal`).
* *StwServer* updates the atomic store that LeaseSystem implements, and reads it through its
  libstore, whose copies may outlast an update, as the findings below show. The model does
  not say when: any update may leave copies of the value before it, for any time. That is
  more than the code allows: a libstore does not keep the absence of a list, so it has no
  empty copy of a list that was never made. One thing is less: a copy that arrives late,
  after the same libstore has answered with a newer value, is in the model there all the
  time, so two handlers of one app server do not see an old value after a new one without
  an update between. No property compares what two handlers saw. Users are never
  deleted and their entries are empty, so a copy of an entry is always right.
* *Failing storage calls* in StwServer may have been carried out or not. They and deaths of app
  servers count against one bound, `MaxFaults`.
* *A handler of WebServer* is an HTTP handler and the app server's goroutine that serves its RPC
  in one, as one waits for the other. A direct call of `stwclient` goes to the app server
  of its user; since app servers keep nothing of users and posts, only the server's death
  would tell another one apart.
* *Replies of the web server* are the status of the last RPC. A failed RPC is answered 500
  or 400, or, by `/users` and `/subscriptions`, 200 with status 0; none of this changes state.
* *A restart of the web server* waits until all app servers are up (it asks for their list).
* *`RegisterServer`*: a line is one step. So the comparison reads `ts.nodes` once for its two
  uses, `copy` moves its strings at once, the loop that fills the reply (and that of
  `GetServers`) runs on one state of the array, and a slice or string that is read while it
  is written is not torn. Capacity doubles when an array is full.
* *A slave* is started without `-N`, so its `numNodes` never exceeds its list.
* *Latencies* are whole units of 10 ms and the average is rounded down, so it reaches 0; in
  the code it falls below any positive bound. The check of cookie, filter and flag is one
  step; what the handlers behind the gate do is WebServer's matter.

## 3. Runs

| Run | Checks | Instance |
|---|---|---|
| `lease_shared` | `TypeOK`, `GuardedCopiesCurrent`, `GrantedIsCached`, `IsAtomic` | two app servers, each adds an item of its own to one list, one removes it again and the other reads the list under leases; appends to the empty list, to one with the item and to one with the other item; late revocations |
| `lease_live` | `LeaseOnlyOnStoredKey`, `IndInv`, `EveryCallAnswered` | a key that is put and deleted (by its lease holder too), another out of the server's range; one crash and restart, revocations that may never be answered, a server that dies because it cannot dial a holder |
| `sorted_list` | `Inv`, `ActsAsSet`, `CallReturns` | five items |
| `ring` | `TypeOK`, `ReadyServersPartitionKeys`, `StoredAtOwner`, `RingForms` | three nodes, hashes between and above them, one libstore, one crash |
| `cluster` | `TypeOK`, `WholeUnlessMixed`, `FormsUnlessMixed` | a master and two slaves, two dials each, a web server that asks twice, one crash |
| `web` | `TypeOK`, `TimelinesMissNothing`, `PagesSignUp`, `ListedPostStored`, `NoStrayPosts`, `IsFeed` | two handlers, two users on two app servers, two posts, timelines of one; one failing call, dying app server or out-of-date copy |
| `gate` | `TypeOK`, `LoadEnds` | two browsers, a client without cookies that shares a bit with one of them, two slow requests |

Bounds. A lease term of one second has all the cases of one of twelve: before, at and after the
end; the runs about leases that end have a guard second too. A threshold of one query has a read
that does not ask for a lease, the next that does, and after the recycler one that does not
again; the proofs cover all thresholds. One key suffices where handlers of different keys share
nothing but the lock; `lease_live` has two. `MaxLate` bounds revocations that run after the
server gave up on them: they may pile up in reality, each does what one does. In `lease_shared`
the update of one app server finds the lease of the other or its own, and the other's update
comes while it waits for the revocation. Several lease holders of one key, and several
goroutines that read in one app server while two others update, are left to the proofs, which
cover any number. A dial to an app server that does not answer is assumed to end, in a
connection or an error. Three ring nodes give a node a predecessor, a successor and a
wrap-around. Two slaves let two handlers of `RegisterServer` be anywhere between each other's
lines, and share an array. A third slave adds what is under "Seen while modelling" below, and
makes the run too long. A timeline limit of 1 makes the cut, and the second cut after merging,
happen with two posts. In `web` one handler takes what a user looks at (`/home`, `/timeline`)
and the other what changes it (posts of another user, unsubscribing from oneself), and both take
deletions, of the same post; `MaxTrouble` bounds faults and out-of-date copies together, so that
one of them meets everything else, and the proofs cover any number of both; of the latter,
unsubscribing and deleting are direct calls of `stwclient`, the rest comes over HTTP. A slow
request of 200 ms moves an idle average to the threshold, so two of them raise it, let it fall
and raise it again. The runs with `CHECK_DEADLOCK FALSE` have states in which the system really
stops: all servers of a ring or cluster dead or up, or the clock of StwServer at its bound and
every handler about to post.

Fairness. `lease_live`: a goroutine that waits for `ss.lock` gets it in the end although others
take it meanwhile (strong fairness: Go mutexes hand over to a waiter that starves), the handler
that has the lock goes on, time passes, a call to a dead process fails. Nothing is assumed of
app servers. `ring`: every server is started and its main goroutine goes on. `cluster` and
`cluster_stalls`: the same, and so do handlers of `RegisterServer`; web server, crashes and
restarts are free. `sorted_list`: a handler that has begun goes on. `gate`: requests go on, and
of browsers, not of the server, it is assumed that they answer the puzzle at some time and that
one with a passcode makes a request before the passcode ends (strong fairness, since both can be
interrupted); without such clients nobody would be measured and the load would stay high.

### Where code and documents disagree

Each is a run that TLC must find violated; `PROJECT.json` quotes the lines.

| Run | Property | What the run shows |
|---|---|---|
| `host_panics` | `HostsStayUp` | `RevokeLease` on a cached key without record panics |
| `overtaken` | `RevocationSticks` | a revocation that overtakes the reply leaves a stale value in the cache |
| `lease_slides` | `ExpiredLeaseNotServed` | server and libstore count a lease from different moments, and a value is served after the server has given it up |
| `empty_append` | `AppendRevokes` | an append to an empty, leased list does not revoke |
| `cluster_stalls` | `ClusterForms` | a handler of `RegisterServer` fills its `temp` from the list another has just assigned and assigns it over that: the master's own entry is lost, the slaves are in the list and add nothing, and all are told NotReady for ever |

Seen while modelling, in the models, but without a run of their own:

* `getAppServer` calls `log.Fatal` when a lease holder cannot be dialled, which ends the
  storage server (action `ServerDies`).
* All handlers share `ss.lock`, so the revocation of one key holds up calls on the others.
* A slave that is still inserting nodes may refuse keys of its own range (`Moving`), and panics
  while its ring is empty (`EmptyRingPanic`).
* `GetServers` of a storage server says OK with a node missing when it runs between the two
  assignments of `RegisterServer` (`RegisterRing`, `RegisterNode`). A libstore that was given such
  a ring keeps it, and what it sends astray is refused for good, except by a slave that is
  still inserting nodes, which may store it where nobody looks for it (`StoredAtOwner`).
* Two handlers of `RegisterServer` between `append` and the assignment: a slave may be told OK
  with a list that has an address twice and the master's not at all. With three slaves
  (an instance tried by hand) an empty address is handed out in an OK reply, and the
  slice expression of line 109 panics on a list that has become shorter, which ends the
  master.
* `/home` does not show the user's own posts if they unsubscribe from themselves, which the
  page in the browser offers, between the `Subscribe` and the `HomeTimeline` of the request
  (`webserver_impl.go:232-238`); src/README.md:22-23 says "(including the user itself)".
  `TimelinesMissNothing` exempts it as it does any unsubscription during the request.
* A slave app server opens gaps in its list and never fills them (`Learn`); only a web server
  that asked a slave would notice.
* The web server never replaces a broken connection: the users of an app server that was
  restarted get errors until the web server is restarted too (`CallFails`).
* `log.Fatal` in `getStwConn`, and concurrent use of `stwConns`, end the web server for all users.
* `DeletePost` of the HTTP client sends its arguments where `postsHandler` does not look.
* Under high load requests other than GET and POST are dropped without an answer
  (`ShowPuzzle`), and a client without cookies that was shown the puzzle gets it until it
  POSTs, also when the load is over. A bit of the filter may stand for several clients.
* `Timeline` and `HomeTimeline` fail as a whole when one post is deleted between `GetList` and
  `Get` (`Fetch`), and `Timeline` answers OK with nothing when `GetList` fails (`ReadList`).
* A timeline may lack posts that were listed long ago, and show deleted ones, when its
  libstore answers from a copy that outlasted an update (`Overlooks`, `oldPosts`).
* `Post` and `CreateUser` do not look at what their writes return; two concurrent `CreateUser`
  of one user both answer OK.
* Two posts of a user within one nanosecond would share a key; the model assumes that
  times differ.

## 4. Proofs

**LeaseProofs** proves, for every set of hosts, goroutines, keys and items, every workload
and all constants that satisfy the named assumptions of LeaseRpc
(`ConstantAssumption`, `TimeAssumption`), that `IndInv` is an invariant of
LeaseSystem, and from it `TypeCorrect`, `LeaseCoherence`, `CacheConsistent` and
`NoLeaseOnAbsentKey`. `GuardedCopiesCurrent` is not inductive by itself. That a guarded copy is
protected after `FinishUpdate` needs that the update has gone through every holder, that
is the third part of `Protected`; that a leased reply carries a value that is then cached
needs `ReadReplies`; that the locked goroutine still waits, with a request on a key of the
range, needs `UpdateChecked` and `CalleeOfUpdate`. The proof has one lemma per group of
actions for types (`ServeType` … `TickType`), for the small parts (`LockStep`, `ReplyStep`,
`LeaseStep`, `CacheStep`) and for copies (`ServeCopies` … `QuietCopies`): a step either leaves
copies and their protection alone (`KeepsProtection`), creates one that is protected
(`Grant`), moves one from a reply into the cache (`ReturnRead`), or removes the guard with
the protection (`Unguarded`).

Its last part proves from `IndInv` that LeaseSystem implements AtomicStore (`ServerAtomic`,
property `IsAtomic`). Calls, answers and refusals map to single steps; the one that needs the
invariant is `FinishUpdate`, which writes and answers after the revocations what was decided
before them: `UpdateChecked` says that the decision still holds.

**SortedListProofs** proves `Spec => []Inv` and `Spec => ActsAsSet` for any set of integers.
`Sorted` alone is not inductive: it needs the loop invariant `SearchBounds`, what the loop
leaves behind (`FoundPlace`) and, for the unchecked `values[i]` of `AppendToList`,
`SearchedInside`.

**FeedProofs** proves of the abstract feed, for any set of users and any number of posts, that
relations are among users and lists hold their own users' posts (`FeedInvariance`), and that
a post that was retracted or given up is not listed again (`PostsStayGone`), from `FeedInv`,
which keeps drafts and listed posts apart and both behind the clock.

**WebProofs** proves, for any users, handlers, app servers, requests (`StwAssumption`,
`WebAssumption`), times and number of faults, that WebServer implements Feed
(`WebImplementsFeed`, property `IsFeed`), so what FeedProofs shows holds of the app servers, and
the action properties `ListedPostStored` and `NoStrayPosts`. All three rest on `WebInv`: what a
handler looked up before stays true until it writes (`JobsChecked`), a post that is about to be
listed has a key of its own (`DraftsOwn`), a listed one stands in its user's list only
(`ListsOld`), and one whose contents are about to be deleted is neither listed nor about to be
(`DeletedUnlisted`). What libstores answer only has to have its type (`SeenType`): the reads
decide nothing that is written. `Kept` says what a step must do; a step is quiet (`QuietKept`:
it leaves the store and the handlers that are between two writes alone) or one of the seven
writes or the death of an app server, which have a lemma each.

**TimelineProofs** extends WebProofs to what pages answer, under the same assumptions (one of
`WebAssumption` says that the target of a `/home` request is its user, which is what
`homeHandler` puts into its `Subscribe`): `WebTypeSafe` (`TypeOK`), `PagesFindTheirUser`
(`PagesSignUp`), `TimelinesComplete` (`TimelinesMissNothing`). None of them is inductive. They
need `TimelineInv`, added to `WebInv`: a handler's RPC is one of its request's and those left
are the last ones (`RequestInv`); after `CreateUser` has returned over a connection that lives,
the user is there (`SignedUp`), and after `Subscribe` of `/home` the user's own posts are
subscribed to as long as they are owed (`SelfSubscribed`); what is owed is still listed by
somebody whose posts are shown (`DueInv`); a handler that gathers posts has, for every post
owed, either the post, or its author's list still to read, or `Limit` newer ones (`GatherInv`),
which survives the cut of each list before merging because no two posts have the same time,
those in libstores' copies included (`PoolInv`, `Copied`). Where a read would break `GatherInv`
because its list is out of date, `Overlooks` has taken the post from `due`. What a storage call
does to its handler is said once (`Turn`, `PlainTurn`, and the `…Reads` lemmas for the calls
that gather posts) and used for all parts (`ServeInv`); the steps of the web server have a lemma
each (`AcceptInv` … `AppDiesInv`). The proof found that `CASE` guards of `Rpcs` and of the posts
owed overlapped, which leaves their value open in TLA+ though TLC takes the first; they no
longer do.

**RingProofs** proves, for any finite set of node IDs and any hashes, `TypeSafe` (`TypeOK`),
`ReadyServersServeTheirKeys` (`ReadyServersPartitionKeys`) and `KeysStoredAtOwners`
(`StoredAtOwner`). `RingInv` says that rings are ascending (`RingsAscending`), that the master's
ring and its map of nodes differ by the registration between its two assignments only
(`MasterInv`), that what a slave has and has still to learn are disjoint and make up all servers
(`SlaveInv`), hence a ready server has them all (`ReadyInv`). From there it is data: an
ascending sequence is determined by its elements (`AscendingUnique`), inserting at the place
found keeps it ascending (`InsertAscending`), the fold of a libstore over the reply enumerates
it (`FoldEnumerates`), and searching the full ring finds the owner (`FullRingFindsOwner`).
`StoredAtOwner` is about single steps: only `Write` stores (`OnlyWritesStore`), and a `Write`
lands at the owner if the ring of the server, which checks, or of the libstore, which routes, is
whole (`WriteLands`). When a libstore has a ring at all the master's is whole (`FullOnceGiven`).

**ClusterProofs** proves, for any app servers, dials, asks and crashes, `ClusterTypeSafe`
(`TypeOK`) and `ListsWholeUnlessMixed` (`WholeUnlessMixed`). The invariant `ClusterInv` says of
every slice, shared, replaced or written to by others, that it fits its array (`SlicesFit`), and
that an index is in `temp` when it is stored to, since `RegisterCopy` has panicked otherwise.
There is always an array for the next `append` (`UnusedExists`). It says nothing of what the
slices hold: with two handlers between `append` and the assignment that can be anything. With
one at most, `WholeInv` is kept (`WholeNext`): `ts.nodes` has no gap, a handler that has a temp
has one that is one longer than `ts.nodes` with its only gap where the address goes
(`HandlerWhole`), and what `append` writes in place is beyond `ts.nodes` (`AppendWhole`).
`SearchEnds` shows that `BinarySearchString` ends on any list, sorted or not: handlers do search
lists that are not.

**GateProofs** proves `GateTypeSafe` (`TypeOK`): the average, written from an old one, stays
between 0 and the slowest latency (`AverageFits`).

Induction over data. The library's induction theorems take an operator, which these provers
cannot instantiate. Where a proof needs induction it takes the least counterexample instead:
`LeastNat`, from the well-foundedness of strict inclusion of finite sets, which the library
states without an operator. `FoldEnumerates`, `EnumerationExists` and `LoopDefined` (a loop
whose states get smaller computes a function) are proved so. RingProofs and ClusterProofs each
have their `LeastNat`, since they extend unrelated modules.

Only model-checked: liveness (`EveryCallAnswered`, `RingForms`, `CallReturns`, `FormsUnlessMixed`,
`LoadEnds`), which is out of this prover's reach. Every other property that a passing run checks is
also a theorem.

## 5. Not modelled

RPC wrappers and runners (no logic of their own); the page in the browser, which sends the
requests that WebServer has; static files; the strings of keys and lease records, hence
user names that contain `:`; the contents of posts; what net/rpc, net/http and the Bloom
filter library do inside.

## 6. Plan

Done, in this order: lease protocol (LeaseRpc, StorageServer, Libstore, LeaseSystem,
AtomicStore) with proofs; SortedList with proofs; RingFormation; StwServer; StwCluster;
WebServer over StwServer with Feed and proofs; WebGate; proofs of the timelines, the ring, the
cluster and the gate; the lines of `RegisterServer` on shared arrays; reads of StwServer through
the libstores.

Next:

1. Proofs: the safety half of the liveness results, that is which states a waiting goroutine can
   be in (no handler of LeaseSystem waits for a call that nobody will answer).
2. Libstore copies in StwServer with the times that LeaseSystem gives them, so that it can be
   said how long a timeline may overlook a post.
