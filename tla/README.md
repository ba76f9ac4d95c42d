# TLA+ models of Starfall

Starfall is a small online game: a C++ server (`src/Server`, `src/Common`), a
game client made with Unity (`src/Client`), a native client in C++
(`src/Native Client`) and a web page served by the game server
(`src/Server/Plugins/Web`). This directory holds TLA+ modules for the parts of
it where several threads, processes and connections meet, the configurations
that check them with TLC, and proofs checked with TLAPS. Paths below are
relative to the repository; line numbers are those of the sources beside this
directory.

## The system

| part | state it keeps | operations | hard behaviour |
|---|---|---|---|
| game server connections (`LoginServer.cpp`, `Receive.cpp`, `Send.cpp`) | a handler and a player per connection, the player's queues | accept, read a packet and handle it (`LoginData`, `ConsoleData`, `TransformData`, `ObjectsData`), end | one reactor thread, any number of peers that come, go and die at any step; packets queue in both directions |
| entities and ids (`Entity.cpp`, `Player.cpp`, `IDGenerator.cpp`) | the map of entities, positions, paths, the last id | create and remove with the player, look up, clip by distance | a client's view of the map is always late |
| game client network (`Network.js`) | queues, one mutex each, `checkObjectsState` | connect, login, receive thread, send queue | two threads, one mutex section per queue element |
| game client world (`WorldScript.js`) | `World.objects`, the controlled entity, timers, remote paths | the parts of a frame | drains queues while the receive thread fills them; arrays changed inside loops over them |
| console table and its requests (`Database.cpp`, `LoginServer.cpp`) | rows with ascending ids | insert, greatest id, a page of rows | several statements per request, threads of the HTTP server, inserts in between |
| console page (`app.js`) | `db.max`, `nextData`, the queue of `more`, two buttons | login, first page, More, New, poll | answers of overlapping requests in any order, buttons bound and unbound by callbacks, requests that fail |
| packets on a stream (`LoginServer.cpp`, `Network.js`, `Client.cpp`) | what has been sent, what has arrived, whether a head or a body comes next | write a packet, read a head, read a body | TCP delivers in pieces, and one receive is asked for each part |
| packet codec (`BufferImpl.h`, `BufferBase.cpp`) | a byte buffer and a read position | write and read of each struct | both ends must agree |
| isolates (`Isolates.cpp`) | reference counts per V8 isolate | acquire, release | per-thread ownership |
| item form (`items.js`, `components.appearance.js`) and its requests | two menus in one place, the list of types, the inputs, toggles and sliders | open, close, select, New, add a property, create a type, Ok; store and select on the server | an answer opens the items menu whatever is open; several requests for the types under way, answered in any order |
| inventory (`inventory.js`, `appearance.js` of the scripts) | items, which of them are equipped | load the default items, equip slot by slot | what is equipped is asked again after every slot |
| native client (`Client.cpp`, `LoginScene.cpp`, `WorldScene.cpp`, `Assets.cpp`) | a socket, a player, a thread, two kinds of mutexes, a pool that loads assets | connect, login, send and receive, load | nested locks, a send loop under a lock |
| HTTP files and login; configuration; rendering, input and GUI; vendored code | | | no interaction between steps |

How they interact: a player's `LoginData` makes the server answer with
`LoginReply` and `CreateEntityData` for the player's own entity. From then on
the client *polls*: `ObjectsData` carries the ids it has in its world, and the
server answers with `ObjectsReply` (entities to create and to destroy) and
`TransformEntityData`. `TransformData` carries the player's own path. Every
packet the server logs becomes a row of the CONSOLE table, which the web page
reads.

What makes each of them correct: a world shows what the server has, late but
never wrong (nothing live is taken away, nothing dead stays, the player controls
the entity of his own connection, a poll is never doubled and never lost); the
page shows every row of the table, asks for none twice and announces news only
when there is some; an item is stored with the properties of the type it names; and
the handlers of each end get the packets of the other, whole and in order.

## The modules

| module | what it is |
|---|---|
| `WorldView` | abstract: the server issues and retires ids, each client present shows a set of issued ids, and never stops showing a live one |
| `WorldSync` | detailed: server, connections, receive thread and main thread of each game client |
| `MCWorldSync` | `WorldSync` for TLC |
| `WorldSyncProofs` | the type invariant, one poll at most and none lost, the player's own entity, and the bound on copies, proved |
| `WorldSyncRefinement` | the soundness invariant, and from it `DestroysAreDead`, `LiveStaysShown` and that `WorldSync` implements `WorldView`, proved |
| `RemotePath` | a player's path from his client through the server to the controllers of his avatar in another world |
| `RemotePathProofs` | its types and its three safety properties, proved |
| `ConsoleFeed` | the console page, the threads that answer it and the table |
| `MCConsoleFeed` | `ConsoleFeed` for TLC |
| `ConsoleFeedProofs` | its safety properties, proved; that paging leaves no gap for tables that grow slowly |
| `AppearanceForm` | toggles, sliders, and the appearance of a new item that is computed from them |
| `ItemForm` | the two menus, their requests, and the tables of items and types; it extends `AppearanceForm` |
| `MCItemForm` | `ItemForm` for TLC |
| `ItemFormProofs` | its types, three properties of the form, and that what an appearance says resolves, proved |
| `PacketChannel` | abstract: the handlers of one end get the packets of the other, each once and in order, until the connection tears |
| `Framing` | detailed: packets written to and read from a stream of words, by each of the three programs |
| `MCFraming` | `Framing` for TLC |
| `FramingProofs` | that nothing tears unless it is cut, and that `Framing` implements `PacketChannel`, proved |
| `Inventory`, `MCInventory` | loading the default items and equipping them |
| `InventoryProofs` | what the code does keep of its promise about equipment, and for which files it keeps all of it, proved |
| `LoginSession` | abstract: the server lets in one user at most, and the client learns once who that is |
| `NativeLogin` | the native client: main thread, network thread, their mutexes, and the login with the server |
| `NativeLoginProofs` | its types, who holds which mutex, no circular wait, agreement on the user, and that `NativeLogin` implements `LoginSession`, proved |

### WorldSync

A step is one handler of the reactor, one mutex section of a receive thread, or
one part of a frame. The correspondence, operation by operation, is in the
`map` of `PROJECT.json`; in outline:

* **Server.** `Accept` is the constructor of `LoginConnectionHandler` with
  `Player::Create`; `ReadClosed` and `ReadFails` are `onSocketReadable` with a
  closed or failed socket, both through `end` and `~Player`; `LoginData`,
  `TransformData` and `ObjectsData` are the handlers of `Receive.cpp` with
  everything they send. `handler[c]`, `sid[c]`, `live`, `pos` and `lastId` are the
  connection handlers, the session ids, `Entity::Map` with its positions, and
  `IDGenerator::id`.
* **`ObjectsData`** keeps the code's double loop: with any stale id in the list,
  no key gets state 0 and nothing is created; each stale id is destroyed once
  per key.
* **Receive thread.** `ObjectsReply` sets `checkObjectsState` in one mutex
  section; `EnqueueCreate` and `EnqueueDestroy` then append one element each. `rx`
  is what is left of the packet.
* **Main thread.** `stage` says which part of `World.Update` is next:
  `UpdateDestroyEntities`, `UpdateCreateEntities`, then the timers, where the
  session timer fires (`UpdateSession`: poll, then send) or not (`NoSession`).
  `Survivors` is what `RemoveAt` inside the loop leaves of equal neighbours.
* **End.** `OnDestroy` is leaving or dying at any point; `Logout` is what a
  failing send does.

Abstractions: packets are whole (that they are is `Framing`); queues and arrays of ids are counted rather than
ordered, since the order of `Entity::Keys` is a hash table's and no drain depends
on it except which create becomes the player's own and how many of several
copies survive a pass, where every outcome is allowed; positions lie on a line;
what transforms carry is the subject of `RemotePath`, and console packets are left
out.

### RemotePath

What `WorldSync` leaves out of `TransformData` and `TransformEntityData`: the nodes. The
walker's `UpdatePath` is a tick of his path timer; `served` is `Entity::path`, which
`TransformData` replaces and `ObjectsData` copies into every reply, once for each copy
of the avatar the observer lists. `down` is the observer's connection,
`ObjectsReply` and `EnqueueTransform` its receive thread, `waiting` is
`transformEntityQueue`. `UpdateRemoteControls(done)` is the whole of that function:
every copy moves (`done` are those whose node timer has run out), then the queue is
popped empty. `targets[k]`, `target[k]` and `at[k]` belong to the `RemoteController`
of copy `k`. Positions are numbered in the order they are walked, which is all that
order and place need; the time between two nodes, leaning and jets only delay
`Next` and are left out.

### ConsoleFeed

`req[s]` is one request of the page and how far the server is with it: `ReadBounds`
is the first statement of `LoginHTTPRequest::Console`, `ReadMax` and `SelectRows`
the two of `Select::TryConsole`, `MaxConsoleID` the other request. `Insert` happens
between any two of them. On the page, `OnConsole`, `OnMore`, `OnMax` and `OnNew` are
the callbacks of the answers, `ClickMore` and `ClickNew` the buttons, `Poll` the
timeout of two seconds, `Fails` a request without a usable answer. One page and
one login are modelled. The rows New puts on top are examined where the server
selects them.

### ItemForm and AppearanceForm

`menu` is what is in the place that both menus share, `anchor` what a click on the link
above it does. `Open`, `Close`, `SelectChange`, `New`, `AddProperty`, `Back`,
`CreateItemType` and `Ok` are the player's; `Update` is `update` of the items menu with the
rendering it does, which both `OnClose` of the types menu and an answer
(`OnItemTypes`) call. `asked`, `answers`, `creating` and `posting` are the requests and
answers under way; `SelectItemTypes`, `TryItemType` and `TryNewItem` are the server's
threads, `Fails` a request or an answer that is lost. `Selection` takes the last row
of a name, as `getSelection` does; `NewItem` copies the inputs last, as `registerOkButton`
does. `Data` in `AppearanceForm` is the computation of the style and of the colour
numbers, part by part: the materials of a part are compared with the style before any
of them is added to it. The style is a set of numbered colours: the code's array is in the
order of the numbers, so the first entry of a colour, where `_.every` stops, is the one with the least.
A part is told from another by its place in `Parts`; the code compares the parts themselves, as JSON
text. No two parts of `appearance.xml` have the same text, so the two agree; with two equal ones, the
component of either would be taken for both.

### Framing

A packet is a head of four words and a body. `Send` is a whole packet, `SendPartly` the
native client's `send` that gets rid of a part and is then repeated from the start.
`Arrive` is TCP: any number of words, in order. `ReadHead` and `ReadBody` are the two
receives of each reader, with what each of them does when fewer words are there than
it asked for: the game client goes on to the body, the other two start
again; the native client does not wait for a body of which nothing has arrived.
`torn` says that a receive came up short or a packet was written in part, `cut` that a
piece ended inside a packet. `handled` holds the packets the handlers were called with.

### Inventory

The constructor of `Inventory`, an item or a slot a step: `Load`, `Equip`, `NextItem`.

### NativeLogin and LoginSession

The main thread goes through `frame` (events and the user interface, where `OnConnect` is the
button), then `ConnectLock`, `Connect`, `Get`, `TryLogin` for a press of the button, then
`Get` and `Check` for the end of every frame; with the window closed it goes to
`Disconnect` and `Join`, the destructor of the client. The network thread is one turn
of `Client::run` after another: `Turn` takes `Client::mutex`, `Receive` reads a packet or
none, `FindClient` and `OnLoginReply` are the handler under `ClientsMutex`, `Flush`, `Send`
and `Sent` the send loop under the player's mutex. A step takes one mutex; a use of a
mutex that takes no other is one step (`Uses`). `owner` says who holds what. The server's
side is `OnLoginData`, the same handler as in `WorldSync`, here with its user ids:
`served` is its player. `ServerCloses` is its end of the connection.

`LoginSession` is what the two ends owe each other once threads, queues and repeated forms
are taken away: `admitted` is the server's `served.userid`, `believed` the client's `user.userid`.

Abstractions: packets are whole (see `Framing`); a `connect` that times out counts as made, as the
code has it (`Client.cpp:128`); the mutexes of `ClientSender` and `ClientReceiver` are used
by one thread each; passwords go with their accounts. The scene that loads assets
comes before and is not part of it. In the world scene a frame ends with the
player's mutex as well (`WorldScene.cpp:109-123`), which is the same `Check`; with no entities
ever in its queue the rest of that function takes no mutex (`Client.cpp:225-237`).

## The runs

| run | result | what it shows | bounds |
|---|---|---|---|
| `world_three` | holds | `TypeOK`, `OnePoll`, `PollNotLost`, `OwnIsSession`, `DestroysAreDead`, `ThreeCopies`, `LiveStaysShown`, `ImplementsWorldView` | three connections; one runs a world and stays, two connect and leave at any time; ids 1..3 |
| `world_live` | holds | `GhostsLeave`, `NeighboursAppear` | three clients, three ids; the observer moves between two places, one in and one out of the clip distance, and may leave; a neighbour comes and goes, and when it has gone and the observer stands still another comes and stays |
| `world_unregistered` | violated | `UnregisteredAreCreated`, the promise in `Network.js:462` | as `world_three` |
| `remote_path` | holds | `TypeOK`, `InOrder`, `ThreePaths`, `BackToTheStart`, `ComesToRest` | three nodes to a path, two steps walked, two copies of the avatar, one path of the walker under way |
| `console_feed` | holds | `TypeOK`, `MoreLeavesNoGap`, `OneMore`, `NewIsNews`, `NothingHangs`, `NewLoadsNews`, `AllOlderShown`, `PollCatchesUp` | up to four rows, any number of them before the login and two after it, pages of one row, two New requests at once, one failure |
| `console_new` | violated | `NewLoadsToUpper`, the comment in `LoginServer.cpp:312` | up to four rows |
| `console_wrap` | violated | `HiddenAtEnd`, the comment in `app.js:604` | 11 rows growing to 22, the code's page of 10 |
| `item_form` | holds | `TypeOK`, `ItemOfType`, `PropertiesAsShown`, `CloseHasMenu`, `DataResolves`, `NewTypeIsListed` | two types, the first without properties and the second with one, called `type`; at most one request for the types when the player makes another, besides those that follow a creation; one failure; one creation and one item under way at a time; a part of one material and one of two |
| `framing` | holds | `TypeOK`, `TornByCut`, `ImplementsChannel`, `AllHandled` | three packets with bodies of one or two words, each of the four pairs of writer and reader |
| `inventory` | violated | `ConflictsStayOff`, the comment at `inventory.js:49` | up to three items of up to two slots |
| `native_login` | holds | `TypeOK`, `NoCircularWait`, `UserAgrees`, `UserStays`, `ImplementsLoginSession`, `LoginAnswered`, `Exits` | two accounts of the table, one that is not in it, the button pressed three times |
| `native_runs` | violated | `MainRuns`, the comment in `Client.h:36` | one account of each kind, the button pressed twice |

Why these bounds are enough. What one world can see of other connections is
their entities coming and going, so one observer with two others meets each
combination: a stale id together with a new one, an entity that leaves before it
was created, a reply made old by a departure. Three ids let one entity leave
while another stays. An observer's own departure and movement, and liveness, have a
run of their own, where a newcomer comes after a departure, so that its creation is
first held back by the stale id. In the MC module the login
packet of a client that only stands by is not handled, and fairness is asked of
it only for what it may do there (`MCFairSpec`): fairness of a step that `MCNext`
forbids would rule out the clients that stay. The console's arithmetic depends on differences of ids
only: a page of one row makes page boundaries frequent, four rows allow an insert
at every one of the statements of two requests. Only two of the rows come in after the login, which
is enough for one while a request is under way and one between two polls. In
`console_feed` at most a page of rows may come in between the last two statements of one
request (`MCNext`); beyond that the offset wraps around, which is what
`console_wrap` shows.

Three nodes are the fewest that have a start, a middle and an end; three positions
let two paths differ in each of them and a path be flat (the walker stands). Polls and
replies bound themselves (`ThreePaths`).

In `item_form` every setting of the toggles and sliders is reached before the form is
first opened, and `DataResolves` is about those; the form, which reads the appearance
only when it posts, is then opened with one of them. Two types are the fewest of which
one can be asked for before and listed after another is stored; the property called `type`
takes the place of the item's own type (`NewItem`). The guards of `Open`, `Back` and
`CreateItemType` (`MayAsk`) let the player ask for the types when fewer than `MaxAsked` = 1
requests and answers are under way; the request that follows a creation (`OnNewType`) is not bounded, so
two can be. At most one new type (`creating = None`) and one new item (`posting = None`) are under way at a
time, and at most `MaxTypes` = 2 types are stored: the page itself has no such limits. Two creations
under way would let the table receive them in either order, which no property of the run tells
apart; two items would leave the later one in the table, and each is checked there. In `framing` nothing is sent after a
tear (`MCNext`): what is read then is whatever the words happen to say, and the two words a
body may have are enough for a receive that comes up short inside it. A third packet
lets two arrive together behind one that is being read.

Three presses with three accounts let two logins succeed with a failed one before,
between or after them, or none; the number of logins under way and of replies bounds
itself by the presses (`MaxTries`). Deadlock is checked in both runs of `NativeLogin`:
the client's end is a step of its own (`Stopped`).

`CHECK_DEADLOCK` is off in the runs of the other modules that may stop: all clients gone and
all ids issued, the page idle with a full table, every packet handled, the form as often
used as the bounds allow, the inventory found.

### What the violated runs say

* `world_unregistered`: `Network.js:460-464` promises that the server sends what is
  needed to create the entities a client has not registered. With one stale id in
  the list, `Receive.cpp:147-149` creates none. It is made up for by a later poll:
  `NeighboursAppear` holds.
* `console_new`: `LoginServer.cpp:312` says New loads "from maxID to upperID". The
  number of rows is computed before the rows are selected; an insert in between
  shifts the oldest out, and no later request asks for it.
* `console_wrap`: `Database.cpp:97` subtracts unsigned numbers. When more rows than
  a page come in between the greatest id and the page, the difference wraps
  around, and `app.js:604` takes the page for the last one.
* `inventory`: `inventory.js:49` says that conflicting items will not equip. `equip`
  asks for each slot of an item anew and equips it for the first that is free: a hat and
  a helmet that covers a second slot are both on.
* `native_runs`: `Client.h:36` says the thread separates the network traffic from the
  rest of the application. When the server closes the connection with a login
  unsent, `Client.cpp:102-107` tries to send it for ever, with the player's mutex
  held; the main thread waits for that mutex in its next frame. `Exits` and
  `LoginAnswered` are therefore stated for a server that stays.

## Fairness

`WorldSync.Fairness`: weak fairness of the reactor for each connection
(`Poco::Net::SocketReactor` serves every readable socket in turn), of the receive
thread (a loop that blocks only on the socket) and of the main thread (a frame
after another), and strong fairness of `UpdateSession`: the session timer counts
frame time down, so it fires in infinitely many frames although it does not fire in
most. Nobody has to connect, leave or move, and the properties are about clients
that stay.

`RemotePath.Fairness` is the same for its threads, with strong fairness of the session
timer and of the node timer of the first copy, for the same reason: both count frame
time. `ComesToRest` is about that copy. The walker's path timer ticks whether he moves or not. Nobody has to walk.

`ConsoleFeed.Fairness`: the HTTP server answers, the callbacks and the page's
timeout run, and a player logs in and presses More as long as the button works.
Nobody has to press New. Nothing is assumed about inserts, nor about failures: one
failed answer stops the poller or More for good (`app.js:479`, `app.js:598`), so both properties
speak of a page none of whose requests fails.

`ItemForm.Fairness`: the HTTP server answers and the answers are handled. The player has
to do nothing. `Framing.Fairness`: the network delivers what was sent and the reader
reads; nobody has to send.

`NativeLogin.Fairness`: both threads run. The network thread gives its mutexes back at
the end of a turn and takes them again at once, so each is free infinitely often
but not for good: the steps of the main thread that take one have strong fairness,
which is what the operating system's scheduling of contended mutexes amounts to.
A packet that has arrived is read in some turn (strong fairness of `Receive` with a
packet), since the socket does not block and TCP delivers. The server handles what it
is sent. A send succeeds in the end while the server is up, since `SendFails` leaves
everything as it is and `Send` stays enabled under the weak fairness of `Net`. Nobody has to
press the button or close the window.

## What is proved

For any number of clients, ids, places and paths, from `WorldAssumption` only
(natural numbers, `Origin \in Places`; places are integers; `Clients` is any set):

* `TypeCorrect`: `Spec => []TypeOK`. `TypeOK` alone is inductive but for one fact: the
  handlers use `sid[c]` as an id, so an open connection must have one. `TypeInv` adds
  this (`HasSession`); there is one lemma per action and `TypeStep` joins them.
* `OnePollCorrect`: `Spec => []OnePoll`. `PollInv` says for each client where its poll is: at
  most one request on the way to the server, at most one reply on the way back, never
  both, and while there is either the session timer waits (`check` is 0).
* `PollNotLostCorrect`: `Spec => []PollNotLost`. Between the poll and its reply the flag is off, so
  what turns it on again is the state inside the packets. `RoundInv` follows that state: every poll
  and every reply under way carries 1 (`Asking`), and for a connection that is open the flag is
  on or a poll or a reply is under way (`Somewhere`). `PollNotLost` is the second half and is not inductive
  without the first: a reply with state 0 would leave the flag off. With `OnePoll` it says that
  for as long as a connection lasts its next poll is due or under way, and never two of them.
* `OwnIsSessionCorrect`: `Spec => []OwnIsSession`. `OwnInv` follows a client through its login:
  the reply not yet taken (`AtLogin`), the reply taken and the create behind it on its way
  (`AtLoading`), that create on its way, in the thread's hands or in the queue, with
  nothing else at the client (`AtFirst`), the entity made (`HasOwn`). No poll is sent
  before the player has an entity, so no other create can come first.
* `ThreeCopiesCorrect`: `Spec => []ThreeCopies`. `CopyInv` bounds, for each id, the copies in the
  array, the queue, the thread's hands and the packets together, and more tightly
  when the array has none of it at the time of a poll: one poll lists what is in the
  array only, so what is on the way can be sent once more.
* `DestroysDeadCorrect`: `Spec => []DestroysAreDead`.
* `LiveStaysShownCorrect`: `Spec => LiveStaysShown`.
* `WorldViewImplemented`: `Spec => ImplementsWorldView`.

`DestroysDeadCorrect`, `LiveStaysShownCorrect` and `WorldViewImplemented` rest on the invariant
`SoundInv`: every id that is counted anywhere at
a client (in a create or destroy of a packet, in `rx`, in a queue, in its objects,
in a poll) has been issued, and every id it is to destroy is, besides, no longer
live. It is inductive because ids are never issued twice: what is dead stays dead
(`lastId` only grows, and `live` gains only `lastId + 1`), so a destroy that was right
when the server decided it is right whenever the client gets to it.
`DestroysAreDead` alone is not inductive: the ids in `objects` and in polls have to be
known as issued, or an `ObjectsData` could doom an id that a later `Accept` makes
live. The refinement maps `Accept` to `Issue`, the ends of connections to `Retire`, a
frame's parts to `Show` and `Hide`, and everything else to stuttering; `Hide` is allowed
because what it removes is dead.

For `RemotePath`, from `RemotePathAssumption` only (positive numbers of nodes, of copies
and of paths under way): `TypeCorrect`, `InOrderCorrect`, `BackToTheStartCorrect` and
`ThreePathsCorrect`. The first three rest on `PathInv`: every path anywhere between the walker and a frame ascends, and what is left of
a path lies ahead of the target, the target ahead of the avatar once the start of
the path is behind it. `InOrder` alone is not inductive, since it speaks of the receiver's
targets only, and `BackToTheStart` needs to know where a target is relative to
the avatar. `TargetsOf` is the fact about the two reversals. `ThreePathsCorrect` rests on
`WaitInv`: a poll, its reply and the paths behind the reply are one turn (`TurnInv`), and
the paths on the way, waiting and to come are at most three a copy, two when the frame
has come to its timers (`LoadInv`).

For `Framing`, from `FramingAssumption` only (bodies are not empty): `TypeCorrect`,
`TornByCutCorrect` and `ChannelImplemented`. The invariant `FrameInv` says of the words on their
way, until it tears, that from each word of a packet the packet runs on to its end and
the next one follows (`StreamInv`), that the first word is what the reader is about to ask for
(`FirstInv`), and, until something is cut, that what has arrived ends with a packet
(`CutInv`). `TornByCut` alone says nothing of where the reader is in the stream.

For `ConsoleFeed`, from `ConsoleAssumption`, for tables and pages of any size and any number of
New requests and failures: `TypeCorrect`, `OneMoreCorrect`, `NewIsNewsCorrect`, `NothingHangsCorrect`
and `NewLoadsNewsCorrect`, all for `Spec`, however fast the table grows. `Control` says which request
is under way for each state of the button and the poller; where `NothingHangs` has an
implication it has an equivalence, since a button that is not busy must have no request either.
`Bounds` says that no bound of a request is above the table's. `Alive` is what a run without a
failure keeps. `NewsAsked` says what a request of New asks for between its first two statements and
the last: as many rows as lie between its bound and the table's end when it was counted. It needs
`NewIsNews`, since a bound of 0 would make the server treat the request as one for a first page.
`MoreLeavesNoGapCorrect` is for `SlowSpec`, the specification with the one condition that the table
does not grow by more than a page between the last two statements of one request (without it
the offset wraps, see `console_wrap`). It adds `Recent`, that no offset wraps, and `Gap`, that the
page a request of More will get follows what is shown, at every stage of that request.
`HiddenAtEndWhenSlow` follows from the same: the comment that `console_wrap` refutes is true under
that condition, for a page that found a row at its login.

For `ItemForm`, from `ItemAssumption` (the bounds are numbers) and `AppearanceAssumption`: `TypeCorrect`, `ItemOfTypeCorrect`,
`PropertiesAsShownCorrect`, `CloseHasMenuCorrect`, `DataResolvesCorrect`. `MenuInv` says that the inputs are those of the
option shown; it needs that answers under way are no longer than the table
(`AnswersOld`) and that a type being created has room in it (`Room`). `ItemsInv` carries it
to the item under way and to the stored one: rows are only added, so the type an item was
made from is still there.

`DataResolvesCorrect` is about a computation and not about steps: it holds in every state, for any
parts, toggles and sliders. `Data` is a fold of `AddPart` over the parts. The fold of the community
modules is a recursive function chosen by its equation, so its value has first to be shown to
exist (`FoldsTo`); then `DataUnfolds` gives the chain from `Empty` to `Data`, one `AddPart` a
part, and `DataInv(d, k)` is carried along it: the appearance `d` of the first `k` parts gives
numbers below `next`, no two colours one number, and each material of a part that is on the number of
its own colour. `DataResolves` alone does not carry over: that new numbers are not in use already
needs the bound by `next`, and that the materials of one part do not collide needs `Ranks`, a fact about
cardinalities. The induction along the chain is `NatInduct`, proved from well-founded minima for a set of numbers
rather than for a predicate, which is the form that the provers can instantiate.

For `Inventory`, for any items: `FirstIsEquippedCorrect`, the first half of the
comment the run `inventory` refutes (the first item for each slot is on), and
`EquippedFillsSlotCorrect` (nothing is on for no reason). They rest on `TurnInv` and `FirstInv`, which
say what the loops have done with the items and slots behind them.
`NestedConflictsStayOff` says for which files the other half holds as well: those where, of two items that
share a slot, the later has no slot besides the earlier's (and every slot is one of
`appearance.xml`), as in `src/Server/Data/Entity/inventory.json`, whose items have a slot each. `NestedInv` says
that what is loaded is nested, in itself and with what is still to be loaded: then an item
with one free slot has no slot that is taken.

For `NativeLogin`, from `NativeLoginAssumption` only (some account, known and unknown ones
disjoint, user id 0 is nobody's): `NoCircularWaitCorrect`, `UserAgreesCorrect`,
`UserStaysCorrect`, `LoginSessionImplemented` and `TypeCorrect`. The first rests on `HeldInv`: which mutexes a thread holds follows from
where it is, and the main thread holds one only between the two of `connect`, the one
the network thread takes first. The next two rest on `LoginInv`: every login between the form
and the server is for user id 0, and the last reply under way, or, with none under
way, the client's own user, is what the server has. So once the server's player
has an id, no login that is under way is expected (`Receive.cpp:53`), and none replaces
the user. `LoginSessionImplemented` (`Spec => ImplementsLoginSession`) needs `SessionInv` besides: replies say nobody
or the user who was let in, only the last can say the user, and a client that is somebody has no reply to
come. `UserAgrees` is silent while replies are under way, and `SessionInv` is about just these. The
refinement maps an `OnLoginData` that succeeds to `Admit`, the `OnLoginReply` that tells of it to
`Learn`, and everything else, failed logins and repeated forms included, to stuttering.
`TypeCorrect` puts both together with the types of the rest (`SceneInv`).

Only model-checked: the liveness properties (`GhostsLeave`, `NeighboursAppear`, `ComesToRest`,
`AllOlderShown`, `PollCatchesUp`, `NewTypeIsListed`, `AllHandled`, `LoginAnswered`, `Exits`), since the prover does not treat
fairness, and that there is no deadlock, since it does not treat `ENABLED`. Every invariant, action property
and refinement that a run shows to hold has a theorem.

Two of the claims that runs refute have theorems that say when they are true:
`HiddenAtEndWhenSlow` and `NestedConflictsStayOff`. For `NewLoadsToUpper` that is the second half of
`NewLoadsNews`: New gets every row above its bound when none is inserted between its statements. `MainRuns`
is liveness. For `UnregisteredAreCreated` it is the definition of `Creates`: with no stale id in the poll.

## Not modelled

* Rendering, input and GUI of both clients, the filters and templates of the page:
  single-threaded output.
* HTTP login and files: one statement or one file per request.
* The native client's world: `ClientSender::ObjectsData` builds its packet and drops
  it (`Client.cpp:225-237`), so the server never sends it entities. Two things wait there
  for the day it polls: `Client.cpp:268-269` takes opcode 4 for `ObjectsReply` and 6 for
  `TransformEntityData`, which `Send.cpp:44-46` sends the other way round, and
  `WorldScene.cpp:133-136` takes `ClientsMutex` under the player's mutex, the reverse of
  the network thread's order.
* The codec, field by field (`BufferImpl.h`): straight lines without steps between them, and
  no struct whose ends disagree on a field is ever read.
* Isolates (`Isolates.cpp`): every isolate is acquired and released by one object on one
  thread, so the counts of two threads never meet.
* The native client's pool of assets (`Assets.cpp`): it loads one model and one technique, and
  the loading scene asks for a flag of each.
* A failed login that leaves the player's entity, and a peer that vanishes without
  closing: nothing in the sources says what should become of them (the second is a
  TODO of `LoginServer.cpp:155`). `WorldSync` has both kinds of connection.
* Two logins of one page, and several pages at once, which share only the table.
* Vendored code: Poco::JSON, jQuery, jQuery Mobile, underscore, sax. They are most of the
  repository's JavaScript, some 35,000 of 38,700 lines, which is why the share of the
  lines that the `map` covers is small: of the project's own code it
  is the parts with state that several actors change.

## Plan

Done: the world synchronisation and its abstract view, remote paths, the console page and
its table, the native client's login, packets on a stream and the abstract channel, the
item form with its requests, the inventory; a proof of every safety property of these.

What could follow, in this order:

1. `WorldSync` over `PacketChannel`: connections that tear, with what each end does then.
2. Several console pages on one table, each with its login.
3. The native client's world scene, once it polls (`Client.cpp:225-237`).
