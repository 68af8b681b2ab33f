# TLA+ models of the MinIO Console file share

The repository is a fork of MinIO Console in which the members of a club share
files: a Go server (`src/console/api`, `src/console/pkg`, `src/console/cmd`) in
front of an S3 store, and a React application (`src/console/web-app`) that
browses buckets, uploads, downloads and deletes. This directory holds
specifications of the parts of it whose behaviour depends on order, failure and
concurrency, the configurations that check them with TLC, and proofs for TLAPS.

Reading order: `TransferManager`, `ObjectsSocket`, `BrowserSocket`,
`ObjectDetails`, `DeletePipeline`, `SessionPermissions`, then `Session`,
`ServerLifecycle`, `LogTargets`, `ZipStream`, `Download`, `UploadForm`,
`ErasureSets`; each module opens with a comment that says what it stands for and
what it leaves out. The modules `MC...` are instances for TLC, those ending in
`Proofs` hold the theorems.

    tlc -config Socket.cfg MCObjectsSocket.tla      # one run
    tlapm ObjectsSocketProofs.tla                   # the proofs of one module

## 1. The system

| part | where | state it keeps | operations | what is hard about it |
|---|---|---|---|---|
| Object manager | `web-app/.../ObjectBrowser/objectBrowserSlice.ts`, `transferManager.ts`, `Common/ObjectManager/*`, `Objects/utils.ts`, `ListObjects.tsx` | the list of transfers, the transfers holding a slot, the request objects, one promise per upload | create, render/effect of `TrafficMonitor`, request callbacks, cancel, dismiss, clean, reload after a batch | effects act on what an earlier render selected; callbacks run inside `send()`; reducers meet items that are gone |
| Objects websocket | `api/ws_objects.go`, `api/admin_objects.go` | a map of cancel functions, an unbuffered channel, a `done` channel | read a message, list, hand over, write, close, sweep | two goroutines that stop each other; cancellation of a listing; ends that must mean "complete" |
| Object listing in the browser | `websockets/objectBrowserWSMiddleware.ts`, `BrowserHandler.tsx`, `objectBrowserSlice.ts` | the socket in use, the current request id, the records, timers | connect, request, receive, retry, reconnect, navigate, reload, leave | late answers, several sockets, two timers, effects that depend on what they change |
| Deleting | `api/user_objects.go:709-915` | the files of the request, a lister and a remover over a channel | start a file, list, offer, remove, report, give up | failure half way, a goroutine left offering, the client that goes away |
| Session permissions | `api/user_session.go` | the map from resources to actions, what is denied | fold Allow and Deny statements | the iteration order of Go maps |
| Sessions | `api/user_login.go`, `user_logout.go`, `pkg/auth/token.go`, `LoginPage`, `ProtectedRoutes.tsx`, `LogoutPage.tsx` | a cookie, `loggedIn`, the session call's state, two notes in the local storage | login, session call, logout, anonymous fallback | state that one call leaves for the next page; several tabs on one cookie |
| Request pipeline | `api/configure_console.go` | none | the order of the middlewares | which requests reach which of them |
| Log targets | `pkg/logger` | a bounded queue and a worker per HTTP target | init, send, post, clean up | full queue; failures that are logged to what failed |
| Server lifecycle | `api/custom-server.go` | listeners, the channel of signals, the grace | listen, serve, signal, shut down | several servers reporting over one channel |
| Details and versions of an object | `ListObjects/ObjectDetailPanel.tsx`, `ObjectDetails/VersionsNavigator.tsx`, the dialogs | the panel's and the list's state, flags of the store that ask for a fetch | select, fetch, list versions, pick, delete, restore, tag | answers after the selection changed; path and version changed by different events |
| Downloads, archives, uploads | `api/user_objects.go:308-706, 917-975` | a pipe and its writer | range requests, zip of a folder, of a selection, form uploads | failure after the headers are sent; arithmetic of ranges |
| Erasure sets | `pkg/utils/parity.go` | none | ellipses to set sizes to parities | arithmetic |
| Buckets, clients, configuration, CLI, views, generated code | see `PROJECT.json` | | | |

How they interact. A click in the browser becomes a store action; the listing
goes over one websocket per page (`BrowserSocket` to `ObjectsSocket`), transfers
and deletions over HTTP requests of their own (`TransferManager`,
`DeletePipeline`). A finished batch of uploads and every deletion set
`reloadObjectsList`, which `BrowserSocket` turns into a new listing. Which
buttons there are at all is decided by the map of `SessionPermissions`.

What makes each part correct:

* object manager: never more transfers at a time than configured, in order of
  arrival, nothing sent twice or after it was dismissed; every slot and every
  promise is given back, or lost in one of the known ways; the queue moves;
* websocket: answers request by request, an end only after everything, contexts
  released, both goroutines end when the connection does;
* listing: the list holds the answers to one request, the one for the path on
  the screen, whatever sockets, retries and late answers there are;
* deleting: nothing but what was asked for, everything on success, file by
  file, and no goroutine left behind;
* permissions: what the policy grants and does not deny, in any order;
* sessions: a page that waits has something to wait for, and comes to an end;
* details: what is shown and what is deleted belong to one object;
* logs: the log of failures does not feed on itself;
* shutdown: every goroutine that reports is heard, the hook runs last;
* archives and downloads: an answer that looks complete is complete, and carries
  the bytes it announces; their goroutines end;
* sets: every drive is in a set of one size, and the size is one of the allowed.

`PROJECT.json` lists every hazard at its line with the properties that cover it.

## 2. The modules and the code

### TransferManager (with SlotQueue)

One action per reducer, callback or click. A transfer is a number given in the
order of creation, which is the order of `objectsToManage`; flags of an item are
sets of transfers. `TrafficMonitor` is two actions: `Render` decides what the
effect will start (`due`), `Effect` starts it later, on whatever the store has
become, since this is where a stale closure would bite. `Effect` also carries
out the stand-in for very large files, whose `send()` completes the item before
its slot is registered. `completeObject`, `failObject` and `cancelObjectInList`
are operators used by the callbacks, with what happens when the item is gone:
`failObject` throws, and the statements after it are skipped.

`SlotQueue` is what one type of transfer promises: N slots, given in order of
arrival, given up at most once. `GivesSlotsInOrder` says that `TransferManager`
implements it twice, for downloads and for uploads.

### ObjectsSocket

`objectManager` and its goroutines, `reader` and `writer`, each with a program
counter; the unbuffered channel is the joint action `HandOver`, enabled when
both are there. `cancels` is `cancelContexts`, `cancelled` the contexts that
are. Both goroutines go through the map entry by entry, and what they do to it is
never one step: the reader before a listing (`CancelPrevious`, then `Visit`, `Call`
and `Delete` for an entry, `RangeOver`), the writer when it closes (`Sweep`,
`SweepVisit`, `SweepCall`, `SweepDelete`, `SweepOver`); after a listing and for a
"cancel" the reader loads, calls and deletes (`Finish`, `Cancel`). Each step may
fall between two of the other goroutine. A `Range` visits what stays in the map
while it lasts, each key once at most, in any order; whether it visits what is
stored or deleted meanwhile is open, as the library has it (`Ranged`). The listing
is external: any of `Contents`, delivered one item at a time, cut short when its
context is cancelled.

### BrowserSocket

The middleware, the store it fills and the two effects of `BrowserHandler`.
JavaScript runs one handler at a time; React commits and runs its effects
(`Commit`, `RunEffect`) before the next handler, which is `Settled`. The server
is what `ObjectsSocket` shows of it: the requests of a socket are answered one
after the other, batches and then an end. The two timers are actions (`Retry`,
`OBConnect`) that may run at any time after they were set: their order is not
fixed by their lengths once several are pending.

### DeletePipeline

`deleteObjects` and its two endpoints: `Start` chooses how a file is deleted,
`List`, `ListingOver`, `ListingBreaksOff` and `GiveUp` are the lister's
goroutine, `HandOver` the channel, `Receive` and `FileDone` the handler reading
results. The mc client is external: it lists in any order, may break off, may
fail to remove, reports each target, and stops when its context ends. The
relations of names (`HasPrefix`, `HasSuffix`, the slash) are constants.

### SessionPermissions

The fold over the policy's statements, one statement and resource per step, so
that every order of a Go map is a behaviour. Actions match only themselves.

### ObjectDetails

The panel and the list of versions fetch when an effect sees a flag set; a call
carries what its closure holds and is addressed to a component that is the
`last` one mounted, a `late` one whose newer call is also out, or `gone`. Calls
form a bag, since two may be alike; answers are taken in any order and find what
there is then. One action per click of the dialogs that act on one object
(`Confirm`, `Deleted`, `Changed`, `CancelDelete`, `RefreshVersions`), and one for
the listing that ends the list of versions (`LeaveVersions`).

### Session

One record per tab: the page, what its store says of the session, the calls it
has under way. The cookie and two notes in the local storage are shared by the
tabs. `Effect` is what a mounted page does next, `CallEnds` an answer or a
failure of a call, the rest are the user and MinIO (which may take back
credentials). `Principal` is who the authentication middleware takes a request
for.

### ServerLifecycle

`Serve` up to its return: a server per scheme, goroutines per listener, the
channel of signals with its capacity of one, the graceful shutdown with a
goroutine per server reporting over an unbuffered channel, the grace that ends,
and the hook that is called when all reported. `net/http` is external:
`Shutdown` closes the listeners, then waits for requests or its context.

### LogTargets

Per target a bounded queue (a full one refuses), a worker that posts one entry
at a time, and the logging of a failed post, once per error text, to the system
targets. Endpoints change how they answer a bounded number of times.

### ZipStream, Download, UploadForm

`ZipStream`: the goroutine that fills an archive, the pipe that holds nothing,
the handler that copies it, the client that leaves, a store whose calls may fail
or hang. `Download`: the parsing of a range header and the copy, on integers of
a given width that wrap (`Wrap`), with the seek that refuses what is outside.
`UploadForm`: the loop over a form's parts.

### ErasureSets

The functions from ellipses to set sizes and parities. The loops of the code are
recursive functions, so that they can be checked on bounded arguments and proved
about for all; an argument without ellipses has one drive, so every length is
positive (`Counts`).

### How they are composed

`SlotQueue` is the abstract specification of each half of `TransferManager`.
`ConsoleProcess` puts `ServerLifecycle`, `LogTargets` and `Session` side by side,
`ObjectStreams` the four about single requests, `MCBrowserSocket` the list and the
details. What is put together there shares no state in the code (or, for the
last, only what one action stands for), so in their instances `MCConsoleProcess`,
`MCObjectStreams` and `MCBrowserSocket` a behaviour runs one part with the others
at rest, chosen by the variable `part`: interleaving them would multiply states
and show nothing new. Fairness of a part is stated for the behaviours that run it.

## 3. What is checked

| run | question | bounds | distinct states |
|---|---|---|---|
| `transfer` | slots, promises and starts under every interleaving; SlotQueue implemented; the queue moves and batches end in a reload | 3 transfers of any kind, 1 download slot, 2 upload slots, batches of 1 or 2 | 208,590 |
| `socket` | order and completeness of answers, release of contexts with two goroutines on one map, termination | 2 messages of any mode and id, batches of 2, listings with 0, 2 and 3 entries, one error, the prefix itself | 427,087 |
| `socket_cancel` | finding 1 | 2 messages | violated |
| `browser` | one request in the list, in order; truncated lists are replaced; the path is shown and requests complete; details and deletions are of one object | 2 paths, 2 batches, 1 loss, 2 clicks, 4 sockets; 2 objects, one name beginning the other, 4 steps of the user | 295,084 |
| `browser_reload` | finding 2 | 1 click, no loss | violated |
| `policy` | permissions are exact beyond the defaults, nothing withheld | 3 statements, 2 actions, 2 resources | 1,791,235 |
| `delete` | only and all of what was asked, file by file, termination | 2 files, 3 objects one of which has an older version, a folder | 195,480 |
| `delete_selected` | finding 3 | 1 file | violated |
| `console` | the hook runs last, the exit is graceful and comes; queues drain; pages that load have a call and settle | 2 servers with 3 listeners, 2 requests, 2 signals; 2 targets with queues of 1, 2 errors, 2 changes; 2 tabs, 2 users, 3 moves | 132,323 |
| `streams` | an archive with a directory is complete and its goroutine ends; ranges are served as named; forms; sets | 5 selections; 3-bit integers and headers of up to 2 ranges; 3 parts; 2 arguments of 2 ellipses | 31,679 |
| `streams_cut` | finding 4 | 5 selections | violated |
| `session_render` | finding 5 | 1 tab, 1 user | violated |

Why the bounds are enough. Three transfers over one slot give a transfer that
holds a slot, one that waits for it and one that must not overtake; two upload
slots give a batch larger than what is free. In `socket` a second message is
what it takes for a cancel, a reused request id, a listing behind a listing and
a close behind a listing; batches of two over three entries give a full batch and
a remainder. In `browser` a lost connection can make two new sockets (the retry
and the reconnection) beside the first and one of a second visit; two batches
let a list be cleared in the middle. Two objects of which one name begins the
other are what it takes to list versions of the wrong one; four steps of the
user are select, leave or delete, select again and one more. Two files are what
"the files behind an error" needs. Three statements give an Allow before and
after a Deny. Two servers make an order of reports, two signals one that finds
the channel full or the handler gone. A queue of one is full with one entry.
Integers of three bits have every case of the comparison between ranges, sizes
and the largest integer. For the properties with theorems the bounds do not
matter.

Deadlock is not checked in any run: each of these parts may come to rest (the
user idle, the goroutines ended, the request answered); that they do not rest
too early is what the liveness properties say.

Fairness, always weak, and why the code justifies it:

* React runs a pending render and its effects, promise reactions and timers run,
  a request in flight is answered or broken off (`TransferManager`, `Session`);
* in the browser's listing: renders, effects, timers, and per socket its opening
  and its messages (`BrowserSocket`; the server behind it answers, which is what
  `ObjectsSocket` shows under its own fairness);
* the Go scheduler runs a goroutine that can go on: each of two goroutines and
  their hand-over (`ObjectsSocket`), each worker (`LogTargets`), and "some
  goroutine goes on" where every step brings the end nearer (`DeletePipeline`,
  `ServerLifecycle`);
* the store ends a call once the request's context is done, and then the pipe
  and the goroutines go on (`ZipStream`): before that a call may hang.

Nothing is assumed of the user, of the network's faults, of when signals come or
of which way a request ends.

## 4. What the runs found

1. `socket_cancel`: every message stores its own cancel function under its
   request id before it is dispatched, and messages are only read between
   listings: a "cancel" cancels the context made for itself (`ws_objects.go:87`).
2. `browser_reload`: a reload asked for before the first batch of a listing is
   never made, as the batch makes the list non-empty (`BrowserHandler.tsx:137`).
3. `delete_selected`: all versions of "a" include those of "aba", and the older
   versions of "a" those of every key that starts with it
   (`user_objects.go:837, 895`).
4. `streams_cut`: an archive that breaks off is answered like a complete one: in
   the trace a selected folder cannot be listed, the pipe is closed with the error
   (`user_objects.go:624`), and the handler returns normally, without the archive's
   directory (`user_objects.go:698-704`). An object that fails (lines 541, 648, 681)
   ends in the same way.
5. `session_render`: a protected route that is left and mounted again is rendered
   while its session is being asked for, on the `Done` of the check before
   (`ProtectedRoutes.tsx:55`): in the trace the user opens a bucket, the check
   succeeds, and the user goes to the login page and back.

Met while modelling and written into the properties rather than given a run: a
download too large for the browser's memory completes inside `send()`, then its
slot is registered and never given back; "Clean Completed Objects" removes an
upload at 100 percent that is still in flight, whose slot is then lost; a refused
download whose answer is JSON is never done (all `SlotAccounting`); an aborted
upload settles no promise, so that its batch never reloads the list
(`PromiseAccounting`, `BatchReloads`); a reconnection may replace a socket that a
retry has already opened (`BrowserSocket`); a listing that breaks off while
deleting is passed over and answered as success (`SuccessIsComplete`); the
default actions are joined unfiltered, so that one denied before is listed
(`ExactBeyondDefaults`); a call of the panel that fails leaves another object's
details beside the buttons that act on this one (`DetailsOfSelection`).

## 5. What is proved

Every safety invariant that a passing run checks is the property of a theorem,
which holds for every value of the constants that satisfies the assumptions
stated in the modules: bounds that are natural numbers, `ItemsPerBatch` and
batches of uploads positive, what is said of request ids, paths and versions; the
names of objects differ from a folder's and from no name (`NamesAssumption`), an
argument of drives is never empty (`SetsAssumption`), integers hold at least 1
(`DownloadAssumption`). TLC evaluates each of them in a run. Two theorems need
finite sets besides, and say so: `AlwaysNearer` of `DeletePipelineProofs` (a
bucket has finitely many objects) and `ServerAlwaysNearer` (a server listens on
finitely many addresses). The invariants behind the theorems are conjunctions of
named parts.

`TransferManagerProofs`: `TypeCorrect`, `LimitRespected` (`ConcurrencyLimit`),
`StartsOnlyFresh`, `SlotsGivenInOrder`, `SlotsAccounted`, `PromisesAccounted`. The
limit is not inductive: requests in flight are counted through the slots they
hold (`SlotsHeld`), and what the effect is about to start counts already
(`SlotBound` bounds holders and due together). That nothing is started twice
needs that opened requests are queued (`OpenedIsQueued`) and that what is due is
still opened (`DueOpened`), which no callback can change since it acts on sent
requests only. The refinement of `SlotQueue` adds that what is due is the oldest
of what waits (`DueOldest`): transfers created between render and effect are
younger, and those that were dismissed in between were done and so not waiting.
The two accounts need one more fact, that a request in flight is listed or was
cleaned at 100 percent (`SentIsListed`): then an item that a callback does not
find is one of the leaks the properties name.

`ObjectsSocketProofs`: `TypeCorrect`, `AnswersOrdered`, `ContextsAreReleased`,
`EndsAreComplete`. The order of answers on the wire is extended to the response
being written and the one being handed over: each belongs to the message being
handled or to an older one, and follows everything on the wire (`OrderInv`).
Two facts carry the contexts through every interleaving on the map. It holds at
most the function of the last message, and a writer on its way through the map has
closed the connection, so that no message comes after it (`Alone`). Of the
messages before the last one every context is cancelled (`OlderReleased`); that of
the last one is open only while its function is about to be stored or in the map,
and once the reader has ended only behind a close or a refused rewind
(`OpenIsFound`); and as long as the client is there the writer goes through the
map after the reader has ended and still has that entry before it (`SweepFinds`).
What escapes is a function stored when the writer, stopped by a failing write, had
gone by. Completeness is about `Flow`, the wire with what
is being written and handed over appended, which the writer's steps and the
hand-over leave as it is: while the client can still be told (`Live`), the
positions in `Flow` and in the buffer are those of the listing so far, in order,
with as many errors (`Partial`), and the listing is through before an end is
said (`FlowInv`). That no end is said early needs that nobody cancels the listing
being answered while the client is there (`Uncancelled`), which follows from
`Alone`.

`BrowserSocketProofs`: `BrowserTypeCorrect`, `OneRequestListed`,
`CutListReplaced`. Besides types (`TypeInv`), the invariant says where the
current request is: waiting on one socket at most, behind older ones, and for
the path shown (`Places`); that nothing of it is listed before its turn, and then
as far as it has come (`Turns`); and that a list cleared in the middle has a
reload or a retry due (`Replaced`).

`ObjectDetailsProofs`: `DetailsAreOfSelection`, `OwnVersionDeleted`. Both are about
calls that were sent under one selection and answered under another, so the
invariant says which calls can still reach which component, and about what. An
answer finds nothing of a component that is not shown (`Unmounted`). If the
panel's effect saw its flag set, it asked about what it saw selected
(`AskedAsSeen`), and while the flag stays set nothing was answered
(`FlagUnanswered`); so the last call, and its answer, are about the selection
unless the effects are about to ask again (`LastOfSelection`,
`AnswerOfSelection`). With versions the element shown was looked up in the list
that the effect saw last (`LookedUp`). The list of versions cannot outlive the
selection it was fetched for (`OwnVersions`), which is what a deletion rests on.

`DeletePipelineProofs`: every safety property of the module. A target is only
on its way if it was asked for (`OnlyAsked`, with `ListsCurrent` for what is
being listed and `VersionKept` for the variable that survives from one file to
the next). Conversely, what was asked of the current file is removed, on its
way, or answered by an error not yet received (`Accounted`); the file is left
only when nothing is on its way (`OverIsOver`), so the files behind are complete
(`FilesBehind`).

`SessionPermissionsProofs`: `TypeCorrect`, `PermissionsExact`, `GrantsListed`.
The fold is characterised by the pairs handled so far: what is denied is what
they ban (`DeniedIsBanned`), a resource without an entry has no grant
(`NoEntryNoGrant`), and the two properties themselves are then inductive.

`ConsoleProcessProofs`, of the three parts of `ConsoleProcess`.

* The server: `TypeCorrect`, `HookIsLast`, `GracefulExit`. A server that reported
  success has no request (`SuccessIsDrained`); a failure to drain has a cause, the
  end of the grace or a listener that did not close (`FailureHasCause`); and
  nobody shuts down before a signal was handled (`NotYet`).
* The pages: `SessionTypeCorrect`, `LoadingIsWaiting` (`LoadingHasCall`). The steps
  of different tabs touch each other only through the cookie, so the invariant is
  one predicate on tabs (`Good`).
* The logs: `LogTypeCorrect`, `LogDoesNotFeedItself`. A failed post is an entry for
  the very target that failed. `FailuresLoggedOnce` counts the reports of one
  target's failures in a queue and in its worker's hands, and one that is about
  to be made: they are never more than the changes of endpoints and the clean-ups
  of the memory of errors, as only these make an error new. It is inductive with
  the types, and is why `QueuesDrain`, which TLC checks, is true.

`StreamsProofs`, of the four parts of `ObjectStreams`.

* Archives: `ZipTypeCorrect`, `ArchiveIsComplete` (`WholeHasAll`). What was asked for
  is in the archive, was skipped, or is still to be looked at (`Covered`), and
  nothing is left when the directory is written (`NothingLeft`).
* Downloads: `RangeIsWithin`, no byte outside the object is announced or read, and
  `ServedExactly` (`ServedAsNamed`), for every width of integers and every header.
  A range that is served is served from its start and as long as it is, whichever
  of the two notations it has (`RangeIsNamed`); one that is refused names nothing
  (`RefusedIsEmpty`), which is where integers that wrap have to be looked at case
  by case; the two are carried to the answer by `Exact`.
* Forms: `SuccessIsOfWholeForm` (`SuccessIsWhole`), for any number of parts: stored
  are the parts read so far, in order, unless an error was answered.
* Sets: `SetsAlwaysFit` (`SetsFit`), for any number and length of arguments. The
  loops are recursive functions, so the proof is by induction over what they
  count. The provers cannot use the library's principle of induction, whose
  parameter is an operator; it is proved here for sets of numbers (`Induction`),
  from the library's theorem that they are well-founded. It shows that such a
  function exists (`Recursion`), that the divisors of the greatest common divisor
  are the common divisors of all totals, and that the largest symmetric count is
  taken.

### Nothing is stuck, nothing goes on for ever

Liveness under fairness is out of the prover's reach: the last step, from
fairness to the leads-to, is TLC's. What makes it true is safety, and is proved,
for five modules, in two theorems each.

| module | never stuck | always nearer | temporal properties that rest on them |
|---|---|---|---|
| `ObjectsSocket` | `NoOneStuck` | `AlwaysNearer` | `GoroutinesEnd`, `RequestsAnswered` |
| `DeletePipeline` | `NoOneStuck` | `AlwaysNearer` | `RequestEnds` |
| `ZipStream` | `ProducerNotStuck` | `ArchiveAlwaysNearer` | `ProducerEnds` |
| `ServerLifecycle` | `ServerNotStuck` | `ServerAlwaysNearer` | `ShutdownEnds` |
| `TransferManager` | `QueueGoesOn`, `BatchGoesOn` | `AlwaysNearer` | `QueueMoves`, `BatchReloads` |

The first of each says that in every reachable state the goal is reached, the
program waits for its user (for the client, a signal), or the guard of a fair
action holds: no two goroutines wait for each other. `ENABLED` cannot be proved
about either, so the guards are written out (`CanGoOn`); TLC confirmed on the
runs' instances that they are the enabledness of the fair actions. The invariants
added for them say who closed what by when (`Closed`, `Called`, `Begun`), and that
a remover that stopped left an error to be received (`Going`).

The second gives a measure, of natural numbers in lexicographic order, that every
step decreases (`NearerToEnd`), with the exceptions the theorem names: requests
that come and go while a server serves, and in the object manager what changes
the display only. An entry of a listing, say, weighs four while it is to be
listed, three when it is offered, two when accepted and one as a result.
`QueueGoesOn` also needs that what waits can always be taken from the front
(`OldestExists`): a render with a free slot and something waiting chooses
something.

### Only model-checked

The temporal properties of the runs, in full: those in the table for the step
from fairness, and without such theorems `PathIsShown`, `ListingCompletes`
(retries and reconnections begin anew what was under way, so the measure would
count the connections that are still to be lost), `PagesSettle` and `QueuesDrain`.

## 6. What is not modelled

The store, the policy language, the mc and minio-go clients, `net/http`, TLS and
the browser's own network stack are external. Names are related, not spelled.
The contents of objects, progress percentages other than "all bytes moved" and
what is only displayed are left out. Another client that changes the bucket
while a listing or a deletion runs is not modelled.

Of modelled parts:

* listing: rewind's dialog, searching, sorting and selecting rows; connections
  slower than the one second of a retry, several times over, can make sockets
  without end: the bound on sockets cuts these behaviours off;
* details: sharing, previews, metadata, rewind, deleting a selection of versions;
* sessions: the encryption of the token, refreshing of credentials, STS;
* request pipeline: only authentication; the other middlewares pass a request on
  or answer it by themselves, without state;
* logging: what is still queued when the process exits is lost, and a target that
  cannot be initialised ends the process; websockets are never audited;
* permissions: the two endpoints ask for them with a bucket's versioning, whose
  error is answered as a zero value.

Components without a module, with the reason in `PROJECT.json`: buckets (handlers
of one or a few requests each, without state), access control in the browser
(`hasPermission` is a lookup by patterns in the map that `SessionPermissions`
computes, and the server decides again), identity providers, certificates,
configuration, clients, the command line, views, and code that only tests reach
(`user_watch.go`, `wsReadClientCtx`). Four fifths of the implementation's lines
are a vendored PDF reader (`public/scripts/pdf.worker.min.mjs`); most of the rest
are views and generated clients. The modules stand for what has state and order.

## 7. What could come next

In this order:

1. Another client of the bucket, in `DeletePipeline` and `ZipStream`: versions
   that are no longer current when they are removed, objects that disappear
   between listing and reading.
2. An abstract listing specification (requests answered in order, batches and an
   end) that `ObjectsSocket` implements and `BrowserSocket` uses.
3. The middlewares' order as a module, with the requests that reach the handlers.
4. Measures for `BrowserSocket` and `Session`, as for the five modules of the table
   in section 5.
