# Bubble Royale: specifications

TLA+ models of Bubble Royale (`src/`), model-checked with TLC, and proofs about them checked
with TLAPS. Line numbers refer to the files under `src/`.

## The system

Bubble Royale is a battle royale for up to 24 players: people place water bubbles, blasts trap
other players, and the map is flooded sector by sector until one is left. One Windows process
(`Server/src`) runs one room. A Node bridge (`web/bridge.js`) serves the page, starts room
processes on request and translates WebSocket frames to TCP. The browser client (`web/*.js`)
predicts its own movement and replays the server's events.

| Part | State it keeps | Operations | Talks to |
|---|---|---|---|
| Session, session list (`Session.h`, `SessionManager.h`) | `ref_count`, `closing`, `g_sessions` | AddRef, Release, AddSession, RemoveSession, CloseSession, CloseAllSessions | everything |
| `main` (`main.cpp`) | listen socket, port, thread handles | accept, associate, Enter, first recv; shutdown | list, job queue, workers |
| Workers (`main.cpp`, 4 threads) | none | handle completions, ProcessPackets | buffers, job queue, CloseSession |
| Send path (`SendBuffer.h`, `Network.h`) | ring, `sending`, `send_io` | SendPacket, StartSend, OnSent | tick thread, workers, the system |
| Receive path (`RecvBuffer.h`, `Network.h`) | buffer, `recv_io` | PostRecv, Clean, OnWrite, OnRead | workers, the system |
| Job queue (`JobQueue.h`) | two pairs of buffers, `g_write` | PushJob, SwapJobs | main, workers -> tick thread |
| Tick loop (`main.cpp`) | `g_viewers` | HandleJob, SeatViewers, SendWelcome, SendSnapshot, FlushEvents | job queue, game, AOI |
| Rounds and seats (`Game.h`, `GameTick.h`) | `players`, `spawn_used`, `phase`, `winner` | AddPlayer, RemovePlayer, FillBots, DropOneBot, RestartGame, GameTick | tick loop |
| Bubbles, blasts, items, traps (`Bubble.h`) | `bubbles`, `blast`, `item` | PlaceBubble, UpdateBubbles, Explode, ResolveHits, ... | tiles, players, events |
| Boxes (`Game.h`) | `slides`, tiles | TryPushBox, StepSlidingBoxes | tiles |
| Movement (`Movement.h`) | positions | pure functions on one axis | tiles |
| Flood (`Flood.h`) | `sector_state`, ring, `flood_ticks` | UpdateFlood, UpdateRing | players |
| AOI (`Aoi.h`) | none | who watches which sector, RouteEvent | sessions, events |
| Map (`GameMap.h`, `SectorTemplates.h`) | tiles, spawns | Generate | InitGame |
| Bots (`Bot.h`) | goals | BotThinkAll | SetInput, PlaceBubble |
| Bridge (`web/bridge.js`) | rooms, ports, clients, sockets | createRoom, stopRoom, attach, sweep, shutdown | room processes, pages |
| Page: link and prediction (`net.js`, `predict.js`) | `G`, `px`, `py`, `errX`, `errY` | onPacket, tick, reconcile, view | bridge, view |
| Page: game view (`game.js`) | keys held, camera, `roundStats`, `floodAt`, slides | Hooks, frame, drawWorld, drawHUD | link, art, sound |
| Page: lobby and settings (`lobby.js`) | profile, draft, awaited key | openProfile ... saveProfile, createRoom, joinRoom | bridge, sound |
| Page: sound (`audio.js`) | audio device, clips, song, live voices | wake, preload, startBgm, play, toggle | lobby, view |
| Page: art (`art.js`) | picture sheets, caches, floor sheet | bake..., draw..., buildFloor, setScale | view |

What is hard about it. Three kinds of threads share every `Session`; its life is governed by a
reference count, an interlocked flag and the order in which a close queues the Leave and frees
the list entry. The tick thread owns the game without any lock and follows raw pointers whose
sessions are only kept alive by a Leave it has not handled yet. The system sends out of the ring
while it is being filled. Completions may be partial, late, or lost. Rounds restart by re-seating
everybody, with the seat number kept in two places. The bridge is single-threaded, but a request,
a child process, a timer, two sockets and a signal all call it back about one room. The page
holds copies of what the server decides (tiles, rules of movement, clocks, places in the table)
and has to bring them together from snapshots and events that do not arrive in the order a reader
expects, across lost connections. Its caches are keyed by hand.

`PROJECT.json` lists the hazards with their lines and the properties that cover them.

What makes each part correct: a session is freed once, after the last use, and leaves nothing on
the board; bytes and jobs are queues; a room knows where everybody is and gives everybody his
turn; a chain of bubbles explodes in a fixed rhythm whatever the array order; a page shows what
the server decides; a room process is started, answered for and stopped once; what is painted
from a cache is what would be painted afresh.

## Modules

| Module | Models | Checked by |
|---|---|---|
| `SessionLifecycle` | who holds, closes and frees a session, on `main`, workers and tick thread | `MCSessionLifecycle`, two cfgs |
| `Fifo` | abstract queue: what is handed in comes out once, in order | refined by the next three |
| `SendRing` | send ring, SendPacket, StartSend, completions | `SendRing.cfg` |
| `RecvFraming` | receive buffer, PostRecv, ProcessPackets | `RecvFraming.cfg` |
| `JobQueue` | double job buffers, both limits | `JobQueue.cfg` |
| `Round` | seats, viewers, bots, phases, Enter/Leave/restart | `Round.cfg` |
| `Board` | bubbles, blasts, boxes, items on the tiles; the browser's copy of the tiles | `MCBoard`, `Board.cfg` |
| `Movement` | one tick of a body: the server's rules, functions only | through `Play` |
| `Predict` | the page's copy of these rules, the correction and its fading | through `Play` |
| `Play` | keys, moves sent, server tick, snapshots, prediction: composes the two | `MCPlay`, `Play.cfg` |
| `Flood` | the flood, the ring, who drowns, and what a page is sent of it | through `Page` |
| `Page` | extends `Flood`: what the page draws, whom it watches, its table | `MCFlood`, `Flood.cfg` |
| `Bridge` | rooms, processes, ports, relays; the lobby pages that ask for them | `Bridge.cfg` |
| `Sound` | audio device, clips, song, voices | through `Settings` |
| `Settings` | extends `Sound`: the profile and the dialog that edits it | `MCSettings`, `Settings.cfg` |
| `Art` | the floor's sheet, picture sheets, caches and their keys | `MCArt`, `Art.cfg` |
| `SessionLifecycleProofs`, `RecvFramingProofs`, `QueueProofs` (send ring, job queue), `BoardProofs`, `RoundProofs`, `FloodProofs` (flood, page), `BridgeProofs`, `WebProofs` (settings, sound, play, art) | theorems for all constants | TLAPS |

They meet at their interfaces. `SessionLifecycle` keeps the jobs and the packets of a session as
counts and sequences, and that they behave as queues is what `SendRing`, `RecvFraming` and
`JobQueue` show of the arrays. `Round` takes Enter and Leave in any order in which every session
enters before it leaves, which `ComesAndGoes` and `JobsImplement` give it. `Round` leaves open who
dies in a tick; `Flood` decides it for the water and the touches, and leaves open where the
players are; `Movement` and `Play` say where one can be. `Play`, `Board` and `Flood` rely on a
link that keeps the order, which the three queue modules and TCP give.

### SessionLifecycle

One `pc` per thread; each interlocked operation and each locked section is one action, named for
the function it belongs to (`CloseExchange` ... `CloseUnref` are the five steps of CloseSession,
`RecvRef`, `RecvPosted`, `RecvFailed` those of PostRecv). `cur[t]` is the session a thread has in
hand and `ret[t]` where CloseSession returns to. A value of `Session` is a heap address, allocated
again after it is freed. Orders with the system are `recvIO` and `sendIO`; a completion may be a
success, a failure or a disconnect, and arrives when it likes. A send begun before the socket is
bound to the port may be lost (`CompletionLost`). The constant `EarlyClose` says whether a send may
fail while main is still between AddSession and PushJob(Enter); the runs use FALSE, so that they
show what holds apart from that (see "Where code and documents disagree", 1). `Deadline` says
whether the bounded waits of the shutdown path may expire.

### SendRing, RecvFraming, JobQueue

Each is a component with two ghost variables, what the last step put in and what came out: `handed`
and `arrived`, in `JobQueue` `accepted` and `handled`. The refinement mapping to `Fifo` computes the queue from the arrays, so
`Implements` says that whatever the cursors do, the data is a queue. In `SendRing` the system
reads the ordered cells at some moment between order and completion (`KernelReads`), and may send
only a part; `Push` is free to run in between. In `RecvFraming` a byte carries the size its header
claims and its offset, so that cutting in the wrong place shows. In `JobQueue` one step handles one
job of the batch the tick thread reads without the lock; `JobsImplement` refines two queues, one of
lives and one of packets, and says that the Enter of a session is handled before its packets.

### Board

The tick thread handles PlaceBubble as a job; then UpdateBubbles burns all fuses (`BurnFuses`),
looks at one entry of the array after the other (`UpdateBubble`, with the whole of Explode in one
step), and StepSlidingBoxes, the pushes, the items and FadeBlasts follow. Where the players are is
left open: a push or a pick-up may happen wherever somebody could stand. Items, ranges and numbers
of bubbles are the same for everybody and of the place in a chain only `chain > 0` is kept: the
code's number has no bound, since a bubble can be placed in reach of a chain for ever. A browser
gets the tiles with WELCOME, also in the middle of a slide, and then the events that change them
(`OnBlock`, `OnPush`, `OnItem`, ...); it ends a slide when it thinks fit (`EndSlide`). `late` says
that the server has ended a slide before the browser, and `missed` the cells of a slide the browser
has come into: in these two cases the copy is known to go wrong, and `BoardsAgree` speaks of the
rest of the board.

### Round

The tick thread is sequential: `pc` follows it through the jobs, the loop of RestartGame
(`Reseat`), the loop of FillBots, GameTick by phase, and the loop of SeatViewers. The board is
abstract: a tick of play kills some of the living, and by `PlayLimit` the flood has killed all.
Which free spawn point is the farthest is a CHOOSE, since the code picks it as a function of the
map and of the taken ones. `told` records what the last WELCOME for the present map told a session.

### Movement, Predict, Play

`Movement` translates Movement.h and MovePlayer, `Predict` translates predict.js, each from its own
file; C++ rounds a quotient towards zero and JavaScript's `Math.floor` down, and both are modelled
as they are. `Play` joins them: the keys that are held (`held`), the
direction last sent (`sent`: a direction is sent only when it changes), the packets on the way, a
server tick that moves the body and may trap it, snapshots, and frames that predict. A bubble may
come to lie under the body or beside it, which is what gives the body its odd places. `missed`
records that the server has dropped a direction the page still believes in. `PlayAssumption` says
what the proofs need of the constants: a body is narrower than a tile, no speed is a tile a tick
(GameConstants.h), and the board has walls all around (GameMap.h, Generate).

### Flood, Page

`Flood` is the schedule of stages, warning and filling, the ring that closes in on the middle
sector, and the count `floodTicks` of everybody in it; a tick also may pop somebody by touch. Where
the players are is left open, up to what the tiles allow. A tick sends one snapshot and then its
events. `wetFor`, `fell` and `popped` are history variables: the time in the water without a break,
the tick of a death, and the kills. `Page` receives the messages one by one and draws a frame; of the screen it keeps what it says:
which tiles are water, where the foam runs, which sectors pulse, what the small map shows, which
gauge is over the own player, whom a dead player watches and what the table, its head and its
places say. A page may come at any time, lose the link and come back. Bounds of the model: the page
has drawn what it received before the next tick, and a countdown is one snapshot.

### Bridge

Every callback of bridge.js is one action: a request let in (`CreateRoom`) and read (`ReadBody`), the
first line, the time-out, the error and the exit of the process, a WebSocket attached, either end
closed, the sweep every minute, the shutdown and the end. A process is external: it may listen, fail or
die, and its end is reported later. `asks` are the requests of the lobby pages whose answer is
still on the way; bound: one look-up of a code at a time. Codes of rooms are fresh; the draw from 32^6 never repeats in the model.

### Sound, Settings

`Sound` has the device, which only a key or a click may wake, the files that arrive when they do,
and two sets of voices: `live`, by which the code turns a voice away, and `heard`, what the device
really plays; a voice has a number that tells it from others of its kind. A sound plays its one to
three layers one after another (`playLayers`). `Settings` has the profile, with the repair of
whatever the storage holds (`Copy`; each key is repaired in the light of those before it, so
`CopyKeys` names the one result), the dialog (`shown` while it is on the screen), the draft of the dialog, the key that is awaited and the volume that is tried. A failed save throws
out of the handler in the middle.

### Art

A picture is the tuple of all that painting it reads: two pictures are equal exactly if the same
would be painted, and a cache goes wrong exactly if it gives a tuple other than the one made now.
The board is one row of cells. The floor's sheet is painted when it is marked dirty; the caches are
emptied as a whole when they are full; the picture sheets arrive in two halves (image and map) in
any order.

## Runs

| Run | Shows | Bounds |
|---|---|---|
| `lifecycle_one_session` | references balance, no use after free, one owner per OVERLAPPED, no ghost, one Enter and one Leave in that order | one address (reused for ever), two workers, room for two packets in the ring, one job |
| `lifecycle_progress` | closed sessions are freed, shutdown ends | one address, one worker, fair threads |
| `send_ring` | the ring is a queue of bytes, orders in flight are never overwritten | ring of 5, packets of up to 3, two byte values |
| `recv_framing` | the jobs are the packets sent, orders have room for one, whole packets get through | packets of 2 and 3, nonsense sizes 1 and 4, buffer of 6, 4 bytes on the wire |
| `job_queue` | both kinds of jobs are queues; Enter first | two sessions, two entries per buffer |
| `round` | seats, slots, spawns and WELCOMEs agree; rounds start with all alive and nobody revives; everybody on a seat gets to play | five connections, three seats, two bots |
| `board` | tiles, bubbles and slides agree; chains in rhythm; the browser's tiles follow | two players with a bubble each of range 2, one box, one block, 4 x 2 cells, fuse 2, chain step 2, one item |
| `play` | the two copies of the rules agree; the body stays out of walls; keys are obeyed; the picture comes to rest | a corner of three free tiles of 6 units, a body of 5, two levels of speed, four keys (letter, arrow, touch), one packet each way, one predicted tick between two of the server |
| `flood` | dry land is connected; the whole time to escape; the round ends; screen and table are true | three players, sectors of 3 x 3 tiles, two stages (3 and 5 sectors), escape 2 |
| `bridge` | one answer per request, no orphan process, nobody kicked, idle rooms end | two requests, two ports, limit one, one page with two sockets |
| `settings` | one song, caps hold, settings undone or kept, keys apart | two actions, four keys (one reserved), two levels, three sounds of two clips, total cap two |
| `art` | floor and cached pictures are what would be painted now | four cells, two boards (pictures / dots and marks), two sizes, caches of one or two entries |

Why the bounds are enough. The races of a session are between its holders, not between sessions:
one address that is used again and again, with two workers, reaches every pair of closers. The ring
of 5 with packets of 1 to 3 wraps at every offset, is exactly full and exactly empty at every
cursor. The receive buffer of 6 with packets of 3 is the smallest the code's assumption allows
(`Size >= 2 * MaxPacket`; the code has 4), so it has to move the rest more often than the real one.
The job buffers of two entries are full, empty, and dropped from. Five connections for three seats
allow two viewers, who are swapped in the viewers' array. On the yard of `board` a bubble can reach
another one, the box and the block; the box can be pushed to two cells and broken on either of the
two it occupies. A fuse and a step of two ticks are long enough for a bubble caught early
(prolonged) and late (shortened). Only one box moves at a time: that two slides never share a cell
is checked only for pushes of the same box. The countdown, the pause and the round are two ticks or
fewer: only that they end matters, not after how many. In `play` 6 units and a half width of 2 keep the
proportions of 256 and 102: the body is narrower than a tile and stands on two of them for most
of its places; from a wall's edge, speeds of 1, 2 and 3 reach every offset. Three players in `flood`
are the fewest for which one dead player has two others to watch, and two can die in one tick
while one is left; sectors of 3 x 3 let the ring end on one tile. Two requests compete for one
place and two ports in `bridge`, and the page's second socket is the one it opens when it is
reloaded. The caches of `art` are emptied at nearly every bake; sizes 24 and 32 have the same number of
pixels per dot and differ elsewhere, which is what a careless key would miss.

Fairness. A thread that can take a step takes it: nothing in the server waits without being woken
except `accept` (main), the port (workers) and the clock (tick). Loops with a varying number of
turns (the sends of a tick, the packets of a chunk) end: strong fairness of their last step. The
completion port is a queue, so a completion of a socket that is shut down is taken in the end. In
`Round` liveness holds provided the jobs end (`JobsEnd`): a player who joins and leaves for ever
can keep a room in its countdown, and PKT_RESTART can restart it for ever. In `Bridge` the interval
timer fires, ten minutes pass, and a process that has been killed ends. In `Play` snapshots keep
coming while the socket is open (the server sends one every tick), the browser handles what it has received and
goes on drawing.

Deadlock is checked except in `SendRing`, `RecvFraming`, `JobQueue` and `Bridge`, which stop when
the session is closed, the wire is at its bound, all sessions are gone, or the bridge has exited.
`SessionLifecycle` may stutter at its end (`Terminated`).

## Where code and documents disagree

Met while modelling. The properties above are stated so that they hold beside these.

1. main lists a session (main.cpp:1033) before it queues its Enter (1052). A send of the tick
   thread that fails in between queues the Leave first; the Enter then seats a session that is gone,
   the ghost of JobQueue.h:16-18. (With `EarlyClose = TRUE` TLC shows it.)
2. A seat that falls free without a new map is not given to a viewer: SeatViewers needs
   `map_changed` (main.cpp:690), and a countdown that falls back to WAITING deals none. A room of one
   player and one viewer waits for ever (SPEC.md:55).
3. RestartGame drops the bots (Game.h:613) and FillBots only runs in WAITING, so from the second round
   on a room with two humans or more has none (main.cpp:678-679).
4. The winner's seat is still announced when he has left, also when somebody else has sat down on it
   (Game.h:506 against Game.h:190).
5. The last two living may die in one tick. `winner` is then none and the page plays the
   losing sound, but its table puts the one sorted last on place 1 and writes that he has won
   (game.js:202-229).
6. A viewer without a player (`myId` 255) gets an entry in `roundStats` when the HUD asks for his
   own, is listed, is place 1, and makes the number of players one too large.
7. A page that reconnects while its player is in the water starts its gauge anew and shows too much
   time; game.js:1352 says the value is the server's.
8. A snapshot is sent before the events of its tick (main.cpp:727-728), and a bubble that has
   exploded is already out of it: the page looks for the bubble of a BLAST where there is none, and
   takes one that is not burst yet for the centre (game.js:2400).
9. A box on the move is drawn in dots although the resting one has a picture (art.js:1069-1072), and is drawn
   at its origin and its destination as well. A page that enters during a slide keeps the box at its
   origin for ever.
10. The server zeroes the direction of a player who is trapped (Bubble.h:411), seated again or
    reconnected, and the page sends only changes: a key held all the while does nothing until it
    is pressed again. A touch between WELCOME and the first snapshot is ignored.
11. The limit of 8 rooms (README.md:170) is checked before the request is read: requests that
    arrive together pass it. A second SIGINT ends the bridge without its exit handler.
12. If the storage refuses to save, the settings in use have already changed, the dialog stays open
    and the next visit finds the old ones.

## Proofs

`SessionLifecycleProofs!TypeCorrect`: `Spec => []TypeInv`, for every set of addresses and workers
and all capacities, from `ConstantsAssumption` only. `TypeOK` is not inductive: that `cur[t]` is a
session when a step uses it depends on where the thread is and how it came there, and that
`Head(lives)` exists when a job is given back depends on the tick thread having found it. `StepsOK`
says that; `TypeInv == TypeOK /\ StepsOK` is inductive. The lemmas at the top say what a jump, a
call, a reference and PushJob do; there is then one lemma per part of the program, one step per
action.

The five invariants of the lifetime of a session follow from one inductive invariant, `Inv`. It says
where each thread may be and where it returns to (`PlaceInv`, `TickInv`); that a session is listed
until the one thread that won the exchange of `closing` takes it off (`ListInv`); that nobody knows
a session main is still setting up (`SetupInv`); that the receive buffer and the order to send have
one owner each (`OwnInv`); that the count is the number of holders and 0 only when deleted
(`RefInv`); and that the jobs of a session are an Enter and then a Leave, a Leave waits only for a
closed one, and whoever is in the room, or waits to be, is open or has a Leave on the way
(`QueueInv`). Types, places and the tick thread stand by themselves; the other parts lean on each
other: an address is allocated again only when nobody has it (`RefInv`), so the new session is
unknown (`SetupInv`) and its order has one owner (`OwnInv`); a second Leave is excluded because only
the winner of the exchange queues one (`ListInv`), and without it the counts would not come out.

- `CountsAlways` (`RefsBalance`). `Holders` is a sum over threads, queues, lists and orders. A step
  is one thread's, so before and after it differ by three terms only: whether the list has the
  session, what is stored (queues, orders, targets) and what this thread carries. `RefBalanced` says
  that once, for any step whose change of these three is the change of `ref`; each step of the
  program is then a case of `RefMoved` and its variants. The count of a queue that grows, or loses
  its head, is a cardinality (`LifeTimes`, `Times`), so no induction is needed.
- `InUseAlways` (`NoUseAfterFree`): a holder makes the count positive, and a positive count is a
  session that is not deleted. Who works on a session is a holder by `PlaceInv`, and who is in the
  room by `QueueInv`.
- `GhostAlways` (`NoGhost`) is the last part of `QueueInv`.
- `OwnedAlways` (`BuffersOwned`) adds that no session goes deaf (`HearInv`: it is being set up,
  closed, or its receive order is posted or in somebody's hand) or dumb (`TalkInv`: while the flag
  is up somebody has the order to send, and while packets are queued the flag is up).
- `ComesAlways` (`ComesAndGoes`) adds that each Enter, when its turn comes, finds the room not full.
  The server has no answer to a full room (`AddViewer` returns silently, main.cpp:43), and none is
  needed because of the order of two queues: those in the room when an Enter is handled, less those
  whose Leave is ahead of it, were on the list together with the newcomer, and the list has
  `MaxSession` places. `AdmitInv` says so of every Enter in line at once; `PlacedInv` and `SeenInv`
  follow the newcomer from the list into the room.

They are proved for `EarlyClose = FALSE`, the setting of the runs ("Where code and documents
disagree", 1, is what it leaves out), and for behaviours in which PushJob has an entry for each
Leave (`[]RoomToLeave`; `ComesAlways` needs one for each Enter, `RoomToEnter`). The hypothesis
cannot be dropped: a Leave that PushJob drops leaves a deleted session in the room, which is the
ghost of JobQueue.h:16-18. `RoomyAlways` shows when it holds: if the buffer has two entries for
every session there is (`Roomy`), by counting (`RoomLeft`: the jobs of one kind name different
sessions, and one is missing). `RoomyHolds` puts the two together: all five, with no hypothesis on
the behaviour. The instances of TLC satisfy `Roomy`. In the server it means 512 `Session` structs at
most between two ticks, with `MAX_LIFE` 1024 and 256 of them listed at a time; that the rest cannot
grow so far within 33 ms is the comment's claim (ServerConfig.h:13), and is about speed.
`FiniteAssumption` (finitely many workers and addresses) makes the counts meaningful.

`RecvFramingProofs!FramingCorrect`: `Spec => []FramingInv`, for all sizes with `Size >= 2 *
MaxPacket` and `MaxPacket >= Header`. `FramingInv` is `CursorInv /\ Aligned`. The cursors:
ProcessPackets waits only for a header or for a body whose size it has checked, so it leaves less
than `MaxPacket` bytes; then either there is room behind them, or they are moved to the front and
`Size - MaxPacket >= MaxPacket` is free. `Aligned`: what is buffered and what is still on the wire,
one behind the other (`Stream`), is a row of whole packets, so the bytes taken for a header are one.
No step but a write of the peer and the cut of a packet changes the stream: an order copies from its
far part to its near part, and Clean moves the near part as a whole.

`RecvFramingProofs!FramingImplements`: `Spec => Implements`, the refinement of `Fifo`. The packets
under way are read off the stream by cutting it at its borders, which are the same after each step;
a packet that is handed in is behind all of them and the one that is cut off is the first.

`QueueProofs!RingAlways`: `Spec => []RingInv`, for every ring and packets no longer than it. What
carries it is `ModStep`: two steps along the ring are one, so a push moves `tail` and a completion
moves `head` without disturbing `tail = (head + size) % Size`. An order starts at `head` and ends at
the seam or at `size`; a push only lengthens `size`, and only its completion shortens it.

`QueueProofs!RingImplements`: `Spec => Implements`. The bytes that wait are the cells from `head +
done` on, `size - done` of them, around the seam if need be (`WaitingShape`). A push writes behind
them only (no cell that waits is written, since `size + len <= Size`), in two pieces that are one; a
read of the system takes the front; a completion moves `head` by what `done` gives back.

`QueueProofs!JobsInOrder`: `JobSpec => JobsImplement`, for any sessions and sizes. `QueueInv` says
that the buffer being filled and the one being emptied are never the same (`BuffersOK`), that what
counts as filled is (`FilledOK`), and that a session that has entered has its Enter handled, in the
batch or in the buffer that comes with the same swap as its packets (`EnterBefore`). The queue is
what is left of the batch followed by what has been pushed since: a swap changes neither, as the
batch is empty then.

`FloodProofs!EscapeAlways`: `Spec => []EscapeTime`, for any players, map and schedule. That the
clock stands at 0 only for those who are dry follows from nobody alive having been wet for longer
than `Escape` ticks, which `EscapeInv` adds; and what a tick does to the clocks depends on the
phase.

`WebProofs!OneSongAlways` and `SettingsHoldAlways`: for any clips, caps, keys and levels. The song:
`SongInv` adds that whoever begins it remembers its source, that there is a source exactly when the
file is decoded, and that the file is not asked for before there is a device. The settings:
`HoldInv` adds that the mixer is always at the level it was last given, also while the dialog tries
one out, and that whatever closes the dialog gives it the level of the profile.

`WebProofs!VoicesAlways`: `Spec => []VoicesCounted`, for any caps (`SoundAssumption`)
and the code's sounds, of one to three layers each (`LayersAre`). `VoicesInv` says that what is heard is what `reap` leaves of the voices in the
list, and is within the caps. A tick only takes voices away or shortens them, and an image of a set
is no larger than the set. A new voice finds a number no other of its kind has, by the pigeonhole
principle. `playLayers` is unfolded for the three cases of its length.

`WebProofs!KeysApartAlways`: `Spec => []KeysApart`, for any number of actions. That two actions
never share a key holds of the profile and of the draft (`FitInv`): a key another action has is
refused, and what the storage holds is repaired. The repair goes through the actions in their order,
and the next key depends on all before it. That `CopyKeys` exists and is unique is induction over
the list, which is done as a least counter-example (`Least`): at each place either the raw key will
do, or the action's own default, or another default is left, as fewer keys are taken than there are
defaults.

`WebProofs!KeysAlways`, `WallsAlways` and `StepsAgree`: `PlaySpec => []KeysObeyed`, `[]OutOfWalls`
and `[]SameStep`, for any board with walls all around and any sizes and speeds that `PlayAssumption`
allows. `KeysInv` says that the direction sent is that of the keys held and that, unless the server
dropped it (`missed`), the last one on the way, or the server's own, is it. `BodyInv` says that no
tile the body touches is a wall, on either axis; the tiles it touches are one or two each way since
it is narrower than a tile. A step along one axis is followed through the rules: `StepAxis` stops at
the edge of what is taken, `CenterAxis` and `ClampAxis` move towards the middle of a tile the body
stands on; the body afterwards touches only tiles it touched before, or one that is free. From that
`SameStep` follows: inside the walls no coordinate is negative, so the C++ quotient, rounded towards
zero, and `Math.floor` are one, and the rest of the two copies is compared rule by rule.

`WebProofs!FloorAlways` and `PicturesAlways`: `ArtSpec => []FloorTrue` and `ArtSpec =>
[]PicturesTrue`, for any row, sizes and caps of the caches. The content of a cache is right if each
key determines the picture (`PictureOf`, for every kind of sheet), and `ArtInv` says that every
cache holds just that, and a clean floor is the one that would be painted now. It does not matter
which keys a cache has at the moment, so neither does when it is emptied. Every drawing operator is
shown to be `Steady`: called with any two such caches it leaves such a cache and paints the same.
Lists of things are painted by `InTurn`, a recursive function; that it exists and has a value at
each place is again a least counter-example (`Turns`).

`FloodProofs!ConnectedAlways` and `RoundEndsAlways`: for any schedule with the properties of the
code's table (`FloodAssumption`: the stages warn and fill in order and take all but the middle,
GameConstants.h:281-291). What is left is connected since the order takes the corners before the
edges, in whatever order within each: `FlowInv` says of each stage that it is corners only or that
no corner is left (`StageInv`), and when its sectors are under water (`SectorInv`). That a round
ends adds `RingInv` (after the k-th line of the ring the land has shrunk by k, and the next line has
a time) and `AllWet` (once no land is left, all who live have been in the water ever since), so
`EscapeInv` lets nobody live longer.

`FloodProofs!ScreenAlways` and `TableAlways`: `Spec => []ScreenTrue` and `Spec => []TableTrue`, from
`FloodAssumption` and `PageAssumption`. `PageInv` speaks of the page whatever is still on the link.
`LinkInv`: a message says what is the case now, and they come in one order: WELCOME, SNAPSHOT, a
pop, then deaths and the water. `HeardInv`: with no snapshot on the way, what the page has heard
last is what the server has. `ClockInv`: a clock of a sector runs exactly if the sector is warned
of, or the message that starts or ends it is on the link. `GaugeInv`: `drownFrom` is the tick in
which the player got wet, by the snapshot of this tick or of the one before. `DrawnInv`: the foam
drawn is of the last snapshot and whoever is watched lives. `TableInv`: the page's kills and ticks
of death are the server's, less what the link holds. A step that takes the head of the link moves
one message from one side to the other; a tick is played only when the link is empty, by the bound
of the model. The proof needs `EndInv` beside it (the ring's lines and the flooded sectors are what
it says), and geometry: the water the page draws by rectangles is the water the server drowns people
in (`SectorRect`, `RingRect`, `WaterFollows`). The places of the table are counts of those who died
later (`PlacesAre`).

`BoardProofs`: `TilesAlways`, `RhythmAlways` and `AgreeAlways`, for any yard, players, reach and
fuse. `TilesInv` asks for bubbles and tiles to be one to one (`OneToOne`) and for the cells of two
slides to be apart (`Apart`); with the types these are inductive. `RhythmInv` adds that what is left
of a fuse is its length less what has burnt, and that in the middle of UpdateBubbles it may be over
only for the bubbles the loop has not come to. `AgreeInv` adds that a slide of the server is one of
the page's, or its cell is already empty for the page or known to be in doubt, and the other way
round.

`RoundProofs`: `BoardAlways`, `ToldAlways` and `FairPlayAlways`. One invariant, `RoundInv`, carries
the three, in the middle of every loop of the tick too: seats and `Session::slot` are inverse
(`SlotInv`), spawns are different and counted (`CountInv`), people are kept only while RestartGame
seats them, and there is a seat for each (`StepInv`), everybody is in one of four places
(`PlaceInv`), before a round all who sit are alive (`AliveInv`), and whoever does not know his seat
is about to be told (`ToldInv`). `FairPlay` is an action property: `StartsFair` and
`NobodyComesToLife` are shown of each step from it.

`BridgeProofs`: `NoOrphansAlways`, `BridgeAlways` and `NobodyKickedAlways`, for any requests, ports,
pages and sockets. `NoOrphans` is inductive once the tables it reads are known to have an entry for
every request (`OrphanInv`); `StopKills` (whoever is taken out of the map is killed in the same
step) and `NobodyStopped` (every other step) carry it. `BridgeInv` falls into ports (`PortInv`;
`takeRoomPort` finds a free one wherever it starts, `TakenIsFree`), answers (`AnswerInv`) and relays
(`RelayInv`, which counts the open relays of a room). `NobodyKicked` needs in addition that whoever
knows a room learnt it from an answer (`KnownInv`), so that the time-out and the refusals can no
longer meet it.

Every safety property of the runs is thus proved: all the invariants, the action properties of
`Round` and `Bridge`, and the three refinements of `Fifo`. Only model-checked is liveness:
`ClosedIsFreed`, `ShutdownEnds`, `PacketsGetThrough`, `EverybodyPlays`, `IdleRoomsEnd` and
`Settles`, which is out of the prover's reach. The library's induction theorems cannot be used
either (the provers installed do not instantiate an operator parameter). Where a proof does go
through a list of any length, it takes the least place at which the claim fails, and for that
`WFMin` suffices, which has sets for its parameters, with the order of finite sets by inclusion
(`Least`).

What the proofs assume is named in the modules and evaluated by TLC in every run that extends them.
The proofs are about the models: that a model is the code's is for the reader to compare, by the
lines `PROJECT.json` maps.

## Not modelled, and the plan

Still to do, in this order:

1. How a blast traps somebody (`Bubble.h` ResolveHits, UpdateTimers) beside `Board`.
2. AOI: which sectors a page watches, and so which of the events that change no board it is spared.
3. The WebSocket frames of the bridge and its relay with `jitter`, which may reorder packets (bridge.js:46-50).
4. Pacing of the tick thread (main.cpp:775-793).

Left out for good: map generation and bot heuristics (large pure computations over concrete maps,
tested by `tools/maptest.cpp` and `tools/roundsim.cpp`), layout, particles, the figures of the players and
the pixels of every picture, the static files of the bridge, the console client, the tests, the practice programs,
logging and statistics.
