# Verification of java_learning

The repository is a collection of study programs: css and html exercises, one of them a
browser game about css selectors, notes, and Java projects on redis, NIO and netty, Spring,
Spring Boot caching and proxies.  Seven parts have state that several actors, callbacks or
timeouts change; this directory specifies those in TLA+, checks them with TLC and proves their main
properties with TLAPS.  Paths below are relative to `src/`; `R/` stands for
`redis/source/src/main/java/cn/szyrm/redis/cache/`, `N/` for
`netty/src/main/java/cn/szyrm/`, `B/` for `spring_boot/src/main/java/cn/szyrm/cache/`, `C/` for
`html/html_css/source_02/练习/练习2/选择器-餐厅练习/`.

## The parts of the system

| part | code | state | operations | what is hard | what makes it correct |
|---|---|---|---|---|---|
| distributed lock | `R/DistributedLock.java` | a redis key with a time to live; per JVM a static map from key to value | `lock`, `releaseLock` | expiry while holding, lost replies, several threads and one map, crash between SET and put, restart between scriptLoad and evalsha | a release hits only its own lease; a holder can release; no key stays for ever |
| visit limit | `R/JedisTest.java` `testVisitLimit` | a redis counter that lives 60 s | one call: GET, then INCR or SETEX | the read and the write are two commands | the limit is passed by a bounded amount, nobody is refused early, the limit is lifted again |
| visit window | `R/JedisTest.java` `testVisitLimit2` | a redis list of times | LLEN, RPUSH, LINDEX, LTRIM | as above, plus a LTRIM that is skipped | no more than max visits per minute |
| connection pool | `R/JedisPoolUtil.java` | one pool of 1000 connections | create once, borrow, return | double-checked creation, leaks, waiting callers | one pool; what is borrowed returns |
| employee cache | `B/service/impl/EmployeeServiceImpl.java`, `EmployeeMapper.xml` | table row and cache entry per id | `getEmpById`, `updateEmp`, `deleteEmp` | cache and table are accessed one after the other by many threads | an entry equals its row, or there is a reason why not |
| nio group chat | `N/nio/groupChat/` | selector keys, selected keys, socket buffers | select, accept, read, forward, close | peers break at any moment, one exception handler for two channels, full sockets, streams without boundaries | order, no duplicates, the right client is closed |
| netty group chat | `N/netty/groupChat/` | the static channel group | handlerAdded, channelRead0, handlerRemoved, close | handlers on several event loops share the group | members hear of each other, in order, without gaps |
| framed protocol | `N/netty/protocoltcp/` | bytes under way, bytes a decoder holds | encode, decode, reply | the stream cuts frames anywhere | each message once, whole, in order, one reply each |
| css diner game | `C/restaurant.js`, `C/index.html` | level number, level, localStorage, classes on the table, pending timeouts | submit a rule or number, click the menu, timeouts, reload | timeouts of one table fire after the next was loaded; a second win before the first one's timeout | number, page and storage agree; the right answer wins, another does not; the game can be finished |
| css diner levels and boards | `C/levels.js`, `loadBoard` and the tooltips in `C/restaurant.js` | none, data and its translation | `loadBoard`, `showTooltip` | table and viewer are built by different tags and paired by index | the selector selects what the level asks for; a tooltip shows the element hovered over |
| other netty and nio examples | `N/netty/{tcp,nboundhandlerandoutboundhandler,simple,http,websocket,codec}`, `N/nio`, `N/bio` | little or none between calls | | sticking packets, buffers never cleared, end of stream ignored | |
| spring examples, proxies, notes, css exercises | `spring/`, `设计模式/`, `html/` ... | none of their own | | | |
| libraries | `C/jquery.js`, `DD_belatedPNG` in `html/html_css/source_08` to `source_10` | third-party code | | | |

The programs do not call each other.  Inside a part the actors meet through shared state:
the lock's threads through redis and the static map, the visit limit's callers through
one counter, the request threads through the cache and the table, the chat clients
through the server's key set or channel group, the two ends of the framed protocol
through a byte stream, the handlers and timeouts of the game through the page.

## The modules

| module | models |
|---|---|
| `LeaseLock` | abstract: what a lock with an expiring key promises |
| `DistributedLock`, `MCDistributedLock`, `DistributedLockProofs` | the lock; implements `LeaseLock` |
| `VisitLimit`, `VisitLimitProofs` | `testVisitLimit` |
| `EmployeeCache`, `MCEmployeeCache`, `EmployeeCacheProofs` | the service, its cache and its table |
| `LossyForward` | abstract: what a group chat still promises when reads cut, sockets fill and connections break |
| `NioGroupChat`, `MCNioGroupChat`, `NioGroupChatProofs` | selector server and clients; implements `LossyForward` |
| `GroupBroadcast` | abstract: what a group chat promises its members |
| `NettyGroupChat`, `MCNettyGroupChat`, `NettyGroupChatProofs` | handlers on event loops; implements `GroupBroadcast` |
| `MessageLink` | abstract: requests and replies without bytes |
| `FramedLink`, `MCFramedLink`, `FramedLinkProofs` | encoder, decoder, handlers; implements `MessageLink` |
| `DinerLevels`, `DinerLevelsProofs` | the 26 levels, `loadBoard`, what css selectors select, tooltips |
| `CssDiner`, `CssDinerProofs` | the game, over any levels and rules |
| `MCCssDiner` | the game on the boards and selectors of `DinerLevels` |

Definitions that start with the comment "Fault:" are faulty variants of the definition
below them.  They are part of no specification; putting one in place of the original makes
a property fail, which shows that the property depends on that piece of the code.

### DistributedLock

`redis[k]` is the value under key k, `volatile` the keys with a time to live, `values` the
static map per JVM, `pc` and `found` the place and the local `value` of each thread.  A
value is the pair of a thread and the number of UUIDs it has drawn.  `CallLock`, `SetNx`
and `Put` are lines 28, 30 and 32; `CallRelease`, `ScriptLoad`, `EvalSha` and `Remove` are
lines 54-55, 63 (two calls) and 65.  `SetThrows`, `LoadThrows` and `EvalThrows` are the
ways an exception leaves the method: the command was not executed, or it was and only its
reply is lost.  A lost command is taken to be executed no later than its exception;
a command delivered after the client has given up is not modelled.  `Expire`, `RedisRestart`
(which loses the script cache and any set of keys) and `JvmCrash` are the environment.
`CheckedCallers` are threads that release only after `lock` returned true; the others
behave like `main`, which releases in any case.  A holder that locks the same key again
without releasing is left out.

`LeaseLock` has holders, what each of them asks the server (`asked`: a lease of a key or the end
of one) and the leases, and no map, no script and no JVM.  A `Grant` answers a request for a free key under a
token never used; a `Release` answers a request to end a lease, made in the client that was
given it; `Void` is a request refused, lost or given up, which changes no lease; `Lapse` is the server's
own expiry or restart, which answers no request.  `Asked` maps a thread that has a SET or the script
under way to its request.  A deletion by the script therefore has to be a `Release`: one that
hits another JVM's lock is none, and no `Lapse` either, because it ends the request as well.

### VisitLimit

`count` is the counter (0 for no key), `ttl` whether it will expire, `pc` what each caller
sends next.  `made` is a ghost: the visits counted since the key was last absent.

### EmployeeCache

`row` and `cache` per id, `hand` the result a thread is about to store.  The columns are
any set; the statement's `<set>` copies the properties that are not null.  `UpdateThrows`
is an update that takes effect although the call fails.  Rows never appear or vanish: the
delete in `deleteEmp` is commented out (line 32).  `tainted` is a ghost that collects the ids
for which an event happened that can make the entry wrong.

### NioGroupChat

`net[c]` is the server's end of a connection (`fin`: the client closed, `rst`: it was
reset).  A connection is a stream of bytes: `stream[c]` what the client's socket took of its lines,
byte p of line l as `<<l, p>>`, `got` how much of it the server has read, `delivered` the bytes the
socket to a client took, `unread` how full that socket is.  The server thread is the round `Select`, then per key
`Accept`, `ReadData`, `ReadEof` or `ReadThrows`; `ReadData` is followed by one write per
registered channel (`WriteOpen`, `WriteFin`, `WriteThrows`) and `Forwarded`.  Clients act
between any two of these.

Nothing keeps lines apart.  `ReadData` takes any number of bytes that have arrived, up to the
buffer (75-76), so that a read holds a part of a line, or the end of one and the beginning of the
next; a read that ends because no more has arrived and one that the buffer cuts are the same.
`Text` is lines 78 and 109: the whole buffer is decoded and encoded again, so that a character the read has cut is lost, and the
unused rest of the buffer is sent along.  A non-blocking write takes what fits (`Fitting`) and nothing
writes the rest, in the server (111) and in the client (34, `SendInfo` takes any beginning of the
line).  A client reads up to its own buffer (`ReadInfo`).
What is forwarded is known by where it comes from: byte k of the stream of c is
`<<c, k>>`, and `<<c, 0>>` is a byte that is none of c's: a NUL of the buffer, or what stands for a byte of a cut
character.  The last is an abstraction: in the code one replacement character of three bytes may
stand for one or more bytes that could not be decoded; in the model each such byte keeps a room of one.  The texts
`上线` and `离线了`, which are printed only, are left out.

`LossyForward` has neither keys nor rounds nor sockets: a client sends the beginning of a line, and
another is given the beginning of a piece of its stream that is newer than all it was given of that
stream before, decoded by itself.  It does not promise that pieces are whole, that lines stay together,
or that anything arrives.  `given` is `delivered`; a write that puts something into a socket is a `Forward`, a line sent a `Send`,
and everything else the server and its clients do is a stutter.

### NettyGroupChat

Each channel has an event loop (`LoopOf`).  A handler that tells the group of something
(`Say`) walks through the group (`Write`, then `Add` or `Said`); channels added by other
loops meanwhile are met or not.  A handler begins only when no other handler of its loop
is under way.  What the server says about one channel is numbered: 1 is the joining, the
last is the leaving.  `since` is a ghost: the numbers when a channel was added.  A write by
another loop is a task of the target's loop; tasks of one sender keep their order, which is
all the properties look at, so a write is taken to happen at once.

`GroupBroadcast` has members who are told what is said from their joining on, in order.
`members` is `group`, `heard` is `written`, and `passed[d][c]` is the last notice about c that d need
not be told any more (`Passed`): all that was said if the handler of c is not on its way to d, all but
the last while d is still to be visited.  A write to a member is a
`Tell`, `Add` a `Join` (notices whose iteration will meet the newcomer are its `late` ones), a `Say` a
`Speak`, and the closing of a channel, by itself or by a failed write, a `Depart`.

### FramedLink

Bytes are numbers 0..255, a frame is four bytes of length and the content.  `ServerRead`
and `ClientRead` take any non-empty piece of what is under way, and only when the decoder
cannot complete another message, as the ReplayingDecoder does.  The message contents are
constants, no longer than a Java array can be.  (The comment in `MyClientHandler.java:15` speaks of 10 messages; the loop, like
`netty.md:1420`, sends 5.)

### DinerLevels

`levelsByTypeAndPlace`, `levelsByRelation` and `levelsByCount` are `levels.js` in its order, of each
level the board and the selector.  `Turns` is the loop of `loadBoard`, a recursive
function that gives what is there after each turn (`ReadChar`); `loadBoard` is its last value.  It builds two trees: the table, whose end tags are read by the html parser
(`CloseElement`: an end tag closes up to the nearest open element of its type, so `{` may be
closed by `)`), and the viewer, where all tags are divs.  A board is `WellNested` when every end tag
closes the element that was opened last; that the 26 boards are is `BoardsAssumption` of
`MCCssDiner`, which TLC evaluates before the run.  `Select` is what jQuery's `find` returns
for the selectors the levels use.  `ShowTooltip` and `HoverMarkup` are the pairing by index (lines
44-59, 106-111).  `doThis` states, level by level, what the sentence above the table asks for; it
is not derived from the selectors but written from the sentences as a reference.
The selector semantics, the html parser and jQuery 1.11 are external to the repository's own code.

### CssDiner

`currentLevel` is the number the game goes by, `level` the level object (by index, `LevelCount`
for undefined), `saved` the entry in localStorage, `shown` what the table holds, `strobe`,
`shake` and `clean` the elements with these classes, `timers` the pending timeouts.
`EnterNumber`, `ClickMenu`, `RuleWins`, `RuleFails` and `RuleThrows` are `handleInput`, the level
menu and the ways `fireRule` ends (216-294); `FireLoad` and `FireShake` are its timeouts (273,
285) and the one of `document.ready` (80); `Reload` loads the page again.  Javascript runs
each of them to its end, so each is one action.

`checkResults` compares the html of the table with that of a clone in which the rule's elements
strobe.  `addClass` puts the class last, so the two are equal if and only if the same elements
strobe; the model compares those sets.  What the rule finds in the clone is not what it finds in the
table: the clone has lost its strobes (303), but `removeClass` leaves an empty `class` attribute behind, and the
class `clean` stays.  `classed` is therefore part of the state: the elements with the attribute, be it empty,
which only ever grow until the table is replaced.  A rule is a record.  `takes` says of each element, whose type, id, place and
class `small` are fixed, under which of its `Marks` (the attribute, strobe, clean) the rule takes it, which covers
`[class]`, `apple.strobe`, `:not(.clean)` and their combinations; `rooted` says that the
rule names the table as an ancestor and so finds nothing in the clone, which is not inside a `.table`.
A rule that makes one element depend on the marks of another, as `.strobe + apple` does, is not
modelled, and `OnlyAnswersWin` says nothing about it.
A timeout fires when none set earlier is due earlier (`Due`).  That allows every order a
clock allows and some more: a 50 ms timeout may be late and a 1000 ms timeout may be overtaken by
500 ms ones set much later.  `wiped` is a ghost: a timeout that remembered elements of
an earlier table has taken the strobes from this one.  `MaxTimers` bounds the timeouts a
player may have pending.  Left out: help, notes, the counter of fails, animations and
the text of tooltips; none is read by the code that is modelled.

Seen while modelling, and allowed by the properties as they stand:
- the 500 ms timeout of a failed rule outlives its table.  It takes the strobes of
  the next one (line 287), and the right answer is refused there once;
- line 219 ("prevent cheating") stops the rule `.strobe` and no other rule about classes.  Because the
  clone keeps `class=""`, `[class]` finds there what it finds in the table, and wins level 1
  without a word about plates.  `.clean` can win in the second after a win, once
  a failed rule's timeout has put the strobes back.  What such rules select when they win is the answer
  (`OnlyAnswersWin`): they win by what they find, not by what strobes;
- an answer that starts with `.table` is refused although line 234 lets it through; when part of the
  table has stopped strobing, it can win by the number of elements alone.
  `OnlyAnswersWin` is about the rules that do not name the table;
- the same answer, submitted again within the second before the next table, fails at first, because the win has
  taken the strobes; when the 500 ms timeout of a failed rule has put them back in between, it wins
  twice and skips a level (269-274, 288);
- a timeout that fires after the last win saves `levels.length`.  `loadLevel` then throws and the
  page is blank, after a reload too, until another level is chosen (397).

## Runs

| run | instance | result |
|---|---|---|
| `lock` | 2 threads in one JVM, 1 in another, one key, 2 attempts each | holds; 355,128 states |
| `lock_pair` | 2 threads in one JVM | `ReleaseLockReleases` fails |
| `visit_limit` | 4 callers, Max 2 | holds; 6,208 states |
| `visit_lifted` | 2 callers, Max 2, fairness | `LimitIsLifted` fails |
| `cache` | 2 threads, 2 ids (one without a row), 2 columns, 2 values | holds; 226,518 states up to symmetry |
| `cache_put` | 1 thread, 1 id | `UpdateRefreshes` fails |
| `nio_chat` | 3 clients, one sends a character of two bytes, one a single byte, one nothing; buffers of 2 bytes, sockets of 3; fairness | holds; 588,024 states |
| `nio_chat_offline` | the same | `OfflineMeansLeft` fails |
| `netty_chat` | 3 channels on 2 loops, two of them send | holds; 173,943 states |
| `netty_chat_joins` | the same | `JoinsTold` fails |
| `framed` | 3 messages: empty, looking like a length, 256 bytes | holds; 6,944 states |
| `css_diner` | all 26 levels, at each the answer, `*`, the selectors of the first seven levels and 14 rules about classes or the table, 4 timeouts, fairness | holds; 73,766 states |

Bounds.  `lock`: a second thread of a JVM is needed for everything about the shared map, a
second JVM for foreign releases, a second attempt for values drawn later; one key is
enough because keys meet only in the uniqueness of values, which is proved for any number.
`visit_limit`: with 4 callers and Max 2 both bounds are reached exactly.  `cache`: two
threads give every order of cache and table access for an id; the id without a row caches
null and updates nothing; threads, columns and values are interchangeable and the run checks
invariants only, so symmetry is sound.  `nio_chat`: a sender, a victim and a third client are needed for the misdirected close
and for the closes that follow it.  A character as long as the buffer is read whole, or cut by any earlier end
of what has arrived, and the client's own write may cut it too; a socket of one and a half buffers takes a string whole, in
part and not at all.  What more lines add, reads that merge them, is in the theorems, which are for any lines
and sizes.
`netty_chat`: two channels on one loop and one on another give both kinds of neighbours.
`framed`: 0, 4 and 256 bytes exercise the empty frame, a content that could be taken for a
length, and a length that needs two bytes.
`css_diner`: the levels are the program's own.  Two pending timeouts of each kind are what it takes
for a second win and a second failure to overlap with the first.  At each level the player tries
the answer, the selectors of the first seven levels, `*` and the empty result; `*` and the answer also with and
without each of the three marks, and through the table.

`lock` asks whether the lock is a lease that no other JVM releases, and is free again in the end;
`visit_limit` how far concurrent callers pass the limit; `cache` what the causes are by which an entry may differ from its
row (`StaleNeedsCause` names three and permits them, as the code does); `nio_chat` and `netty_chat` who gets which messages, and who is closed, while clients come and
go, and whether the servers implement `LossyForward` and `GroupBroadcast`; `framed` whether byte streams implement messages; `css_diner` whether the boards mean what
the levels say and whether the game keeps its state together through the timeouts.

`nio_chat`, `netty_chat` and `framed` may stop: all clients have left, or the exchange is
over.  The other passing runs check deadlock.

Fairness.  Redis expires volatile keys (`WF(Expire)`), which is its own active expiry cycle
and the check on access.  A call of `testVisitLimit` that has read the counter ends, because
a Jedis command is answered or times out.  The selector thread runs (`WF(ServerStep)`), as
it does nothing but loop.  Each event loop serves its tasks (`WF` per loop).  The framed
link's event loops run while the connection stands.  The browser runs timeouts that are due
(`WF(FireTimer(1))`).  The game obliges the player to nothing; `PersistenceWins` supposes, in its
antecedent, one who stops jumping and reloading and keeps submitting the answer to tables at
rest.  No caller, client or request is ever
obliged to begin anything, and a holder need not release.

### What the failing runs show

* `lock_pair`: `values.remove(key)` (line 65) runs after the key is free.  Another thread may
  have taken the lock and put its value by then; the remove erases it, and that holder's
  `releaseLock` returns at line 55 with the key still in redis until its time to live ends.
* `visit_lifted`: the key expires between GET (69) and INCR (73).  INCR makes a key without a
  time to live; after Max visits every further one is refused for good.
* `cache_put`: `updateEmp` returns its argument, so an update of one column caches nulls for
  the others.
* `nio_chat_offline`: a write to a reset client throws into the catch block of the reading
  side (85-91): the sender is reported offline and closed.
* `netty_chat_joins`: two channels registered on two loops both announce (26) before either is
  added (27); neither is ever told of the other.

## What is proved

The theorems hold for every value of the constants that satisfies the ASSUMEs of the modules.

* Lock: `TypeCorrect`; `OnlyOwnValues` and `FreshValues` are the two invariants everything
  rests on: a map entry or a release in progress carries a value of its own JVM, and a value in
  redis was drawn by a call that has sent its SET and is under one key only.  The first gives
  `ForeignLocksSafe` (a deletion compares with an own value, so what it deletes is own).
  For a JVM with one thread `SoleHolders` is inductive with them and gives `SoleDeletesOwn`
  and `SoleReleaseWorks`.  `ImplementsLease` maps every step to a request, its grant, release or voiding, a
  lapse or a stutter of `LeaseLock`; freshness of values is what makes a token new, and that releases
  work with own values what makes a deletion a release.
  `MutualExclusion` is about all JVMs together: no two threads are between the "OK" of the SET and the
  call of `releaseLock` for one name.  It has two hypotheses, and TLC finds the exclusion violated
  when either is dropped.  `HeldLeasesLast`: redis neither expires nor loses a key while a thread holds
  its lock; the code has no renewal, so the work must be shorter than the time to live.
  `CallersGuarded`: a thread that calls `releaseLock` whatever `lock` returned is alone in its
  JVM; otherwise it finds its neighbour's value in the static map and deletes the neighbour's lock.  The
  invariants are `HoldersStored` (redis holds the value of whoever holds a lock) and `FindsOwn` (what
  a release works with was drawn by its own thread).  Crashes, exceptions and lost
  replies need no hypothesis.
  `NoKeyStays` is the part of `KeyEventuallyFree` that needs no fairness: no key is without a time
  to live.
* Visit limit: `Overshoot` strengthens the bound by the callers between read and write;
  `MadeIsBounded` needs in addition how many of them will reset the counter; `RefusalsAreDue`
  follows because the counter never exceeds the visits made.
  Two theorems say where the code errs and where it does not.  `CountersExpire`: as long as
  the 60 seconds do not end between the GET and the INCR of a call (`ExpiryWaits`), every counter has a
  time to live (inductive with `IncrFindsCounter`); so what `visit_lifted` finds is the only way to a
  counter that stays.  `SerialCallersKeepTheLimit`: when calls do not overlap (`OneAtATime`), the limit
  is exact, whatever throws or expires (`Exact`).
* Cache: `OnlyNamedCauses` is inductive together with the types and the ids of pending
  results.  `CarefulUpdatesCohere` is the other side of `cache_put`: if every update sets all columns of a
  row that exists, does not fail after its statement, and overlaps no other request that holds a result for its id
  (`CarefulUpdates`), then a cached employee is its row except while a @CachePut is under
  way, and `updateEmp` does refresh the cache.  Readers and deletions may interleave as they like.
* nio chat: the bookkeeping of a round (`RoundOK`: what is selected is registered and not
  cancelled, the loop visits other keys than the sender's) is inductive with the types; it
  gives `ClosesOnlyOnFailure`, and with the fact that connections fail only when a client
  ends, `NoFailureNoClose`.  `OrderKept` adds where the bytes of a sender are: those delivered to
  d are older than those being forwarded while d is still to be visited, and nothing is delivered that was not read.
  `ImplementsForwarding` adds that what is being forwarded are the last bytes read of the sender, decoded by
  themselves, and that bytes keep their place in a stream that grows, so that whatever a socket takes of the string is the
  beginning of a piece.  `CalmReachesAll` says what the losses come from: while no client has ended and every socket
  has room for the string, the loop leaves every channel it has passed with all of it.
  `SelectorNeverStalls` is the part of `ResetDetected` and `AllRead` that needs no fairness: whatever
  clients and earlier keys of the round do, each selected key can still be handled when its turn
  comes (`RoundGoesOn`), and the key set holds closed channels only until the next select (`ClosedOK`).
* netty chat: `OrderKept` from the invariant that what is written to d about c is not newer than
  the last thing said about c, and older while d is still to be visited.  `NothingMissed` adds that
  what has been said since d was added is written to d, except for what is being said while
  d is still to be visited, and that `since` is never ahead of what was said.
  `LoopsAreSerial` and `NeighboursMet` (of two members on one loop the second was not yet spoken of when the
  first was added) give `NeighboursHearOfJoining`: what `netty_chat_joins` refutes for two
  loops holds on each of them.  `MembersHearOfLeaving` is the part of `LeavingTold` that
  needs no fairness.
  `ImplementsBroadcast` follows from the first two: with `Passed` as above, each step of a handler is a
  step of `GroupBroadcast` or none.
* framed protocol: `StreamsAreFrames` is the invariant: what the server's decoder holds,
  followed by what is under way to it, is exactly the frames of the messages sent and not yet
  served, and so for the replies.  "Exactly the frames" is stated without recursion, by the
  existence of a function that gives the place where each frame ends (`Cuts`).  Cutting the stream
  elsewhere changes nothing (`ReadKeepsStream`), a write adds a frame at the end
  (`CarriesOneMore`), and what a decoder takes is the oldest frame (`CarriesFirst`, which rests on
  `IntRoundTrip`: readInt reads what writeInt wrote).  `ImplementsLink` follows for any requests and
  replies up to the length of a Java array.
  `StaysInStep` says it in bytes, by the sum of the frames (`FrameEnd`, a recursive function): the
  places of `Cuts` are those sums.  That is an induction, and the library's induction theorems, which
  take an operator as a parameter, cannot be instantiated for the installed provers; it is done
  by the least number for which the equation fails.  `NobodyWaits` is the part of `AllAnswered`
  that needs no fairness: while a reply is missing there is a message to send, a whole one to decode, or
  bytes to read (`NeverStuck`).  With only a part of a message held, the rest is on its way.
  `ReceivedAsSent` reads the link off in terms of the two handlers: what they were called with is a prefix
  of what was written, also after the connection broke.
* css diner: for any levels, rules and bound on timeouts, `IInv` is inductive.  `ShownIsSaved`
  needs to know that a level number ahead of the page has a loading timeout; the
  settled table that what is marked shaking or clean has a timeout which will remove it;
  the blank page that it was sent past the end or is about to be loaded; `NoCheating` that in all
  states the strobes are among the answer's elements.  An element that does not strobe looks the same in
  the clone, so what a winning rule finds in the table and does not strobe it finds in the clone too, where it finds
  just what strobes in the table.  So all it finds strobes, is among the answer's elements, and being as many is all of them.
  `SkipsAreBounded`: each skipped level has a win behind it whose timeout is pending (a count of the "load"
  timeouts, kept through every append and removal).  `AnswersAreAccepted` is the part of
  `PersistenceWins` that needs no fairness.
* css diner boards: `BoardsLoadParallel`, for every well-nested board: the viewer is the table with
  a div around it, so that the element n of the table is the element n + 1 of the viewer, with the
  same label (`Parallel`, kept by each turn of the loop; `WellNested` is needed because an end tag closes up
  to its own type in the table, but one div in the viewer).  Ancestors and descendants then shift by one
  (`AncestorsShift`, `DescendantsShift`), and `NestedBoardsMatch` follows: hovering pairs an element
  with its own markup.  `LevelsPair` is that for the levels of the game, from `BoardsAssumption`.
  These inductions, too, are by the least counterexample.
  `BoardsLoadTables` needs no nesting: on any board at all, every element of the table stands on an earlier one or on the table
  itself, and only plates are fancy.  On such tables the selectors of the levels in
  `PlainLevels` (1-5, 7-11, 13, 14, 25, 26) select what the sentence asks for (`SelectorsSelect`), so
  `PlainLevelsSayWhatTheySelect` holds for whatever board is drawn for them.

Of the five failing runs each has a theorem that says when the property does hold: `SoleReleaseWorks`
for `lock_pair`, `CountersExpire` for `visit_lifted`, `CarefulUpdatesCohere` for `cache_put`,
`NoFailureNoClose` for `nio_chat_offline`, `NeighboursHearOfJoining` for `netty_chat_joins`.

Only model-checked: liveness (`KeyEventuallyFree`, `ResetDetected`, `AllRead`,
`LeavingTold`, `AllAnswered`, `WonLevelIsLeft`, `PersistenceWins`), which is out of the
prover's reach, but for the parts named above that need no fairness; and of `AnswerIsTheOrder`
that each answer selects something, and the other twelve levels (6, 12, 15-24).  Their sentences are true
to the selector only on the board they were written for (level 6 asks for the small apples and selects all that is
small; "the 3rd plate" is `:nth-child(3)`), so there is nothing general to prove: TLC evaluates
them on the 26 boards, which are all there are.

## Plan

Done, in this order: the lock and its lease, the visit limit, the employee cache, both chats, the
framed protocol and its abstract link, then the game with its levels, and the abstract
chats above the two servers; each with its run,
and with proofs of its safety properties and its refinement, except for what is named above
as only model-checked.  What could follow: the times of the visit window with a bounded clock, and above it the pool it
borrows from.

## Not modelled

* `testVisitLimit2` (the window of times): it compares wall-clock times, so a model needs a clock of
  its own; the counter variant stands for the race of read and write.
* The connection pool: what the repository adds to commons-pool is a double-checked creation of one
  object; a failing `getResource` appears in the lock as an exception.
* NIO buffers, file copies, `NIOServer`, `BIOServer`: short sequential programs over java.nio, which
  would be models of the library.
* The unframed tcp example, which promises nothing about boundaries, and the codec of eight-byte
  longs, a simpler case of `FramedLink`.
* The request-reply handlers (`simple`, `http`, `websocket`, `codec`), which keep no state between
  calls, and generated code (`StudentPOJO`).
* Spring transactions, aspects, bean registration and life cycle: the container decides.
* The proxies, which are stateless; the department mapper, one insert.
* jquery and DD_belatedPNG: third-party libraries.  The latter draws transparent images with a
  vector language of Internet Explorer 6, and what it does is decided by that browser.
* Help, notes, animations and the text of tooltips of the game: display that nothing reads.
* Notes and the css exercises without script.
