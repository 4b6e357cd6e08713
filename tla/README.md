# EthNow in TLA+

EthNow is the firmware of an ESP32-C3 board that listens to ESP-NOW frames and
publishes them over Ethernet to an MQTT broker, with a live status page and an
over-the-air update served by a small HTTP server.  This directory holds TLA+
models of it, the TLC configurations that check them on small instances, and
theorems checked by TLAPS for every value of the constants.

Paths below are relative to the repository: `src/espnow.c` is the file the
project manifest calls `src/src/espnow.c`.

## 1. The system

The chip has one core, so "concurrent" means preempted between any two
instructions; the tasks and their priorities are: event loop 20, HTTP server 5,
ESP-NOW dispatch 5, pump 4, with the Wi-Fi task and the MQTT client's task above
or between them.  The models do not use priorities: every interleaving is allowed.

| Component | State | Operations | Talks to |
|---|---|---|---|
| ESP-NOW receive path, `espnow.c` | a static pool of message slots, two queues `s_free` and `s_ready`, two counters, a LED | `espnow_start()` at boot, `on_recv()` in the Wi-Fi task, `dispatch_task()` | lends a slot to the consumer callback |
| Bridge callback, `main.c` | one topic buffer, rewritten in place; the last drop count seen | `on_espnow_msg()` in the dispatch task, `on_link_state()` in the event loop | status page, broker |
| Start-up, `main.c`, `led.c` | how far `app_main()` has got; the NVS partition | `app_main()`, `led_init()`, `led_set()` | every other part |
| MQTT link, `mqtt.c` | `s_started`, `s_connected`, a LED | `mqtt_set_online()` (event loop), `on_mqtt_event()` (client's task or the publisher's), `mqtt_publish()` (dispatch task) | the esp-mqtt client |
| Web feed, `web.c` | history ring and sequence number, list of browsers with what each is owed, server handle | `web_on_message()`, `pump_task()`, `ws_get()`, `web_attach()`, `web_detach()` | HTTP server, browsers |
| HTTP server and update, `ota.c` | server handle; per upload: handle, counts | `ota_set_online()` (event loop), `update_post()` (server's task) | flash, bootloader |
| Ethernet link, `eth.c` | the snapshot `s_info` | `eth_start()`, `on_eth_event()`, `on_got_ip()`, readers | PHY driver, DHCP client, the two services above |
| JSON of the feed, `web.c` | the pump task's one buffer | `json_escape()`, `fmt_message()`, `fmt_status()` | web feed, status page |
| Status page, `index.html` | rows, cap, selection, pinned row, socket | websocket handlers, watchdog, clicks | web feed |
| Info page, `info.c` | a heap buffer for each request, the temperature sensor's handle | `info_json_get()`, `build()`, `jb()`, `image_size()` in the server's task | flash, sensor, the snapshot |
| Host name `app_id.c`, `config.h` | none that changes | | |

What makes each of them correct, and what is hard about it:

* **Receive path.**  A slot belongs to one place at a time, none is lost, frames
  come out whole and in order, and the Wi-Fi task never waits.  Hard: three
  tasks, a callback registered before the task that serves it exists, a full
  pool, a queue timeout that doubles as the LED's hold time.
* **Bridge.**  Each message goes to its own topic, signal strength first; the
  page is fed and the slot returned whatever the broker does.  Hard: the session
  ends, or is replaced, between the check and either of two publishes.
* **Start-up.**  It ends, whatever fails; nothing is used before it is set up.
  Hard: from `eth_start()` on the event loop handles events of a device that is
  still half started, and some of the rest may have failed.
* **MQTT link.**  Flag and LED tell the truth.  Hard: two tasks write both, and
  stopping the client delivers no event.
* **Web feed.**  The ring stays consistent, a browser gets status first and then
  every frame in order except what the ring has overwritten, the dispatch task
  is never held up by the network.  Hard: lists copied under a lock and used
  after it, descriptors that are closed and reused meanwhile, a server that is
  stopped while the pump task sends.
* **Update.**  The device always boots a verified image, the client is told the
  truth, and stopping the server never hangs.  Hard: stalls, short receives,
  failures with a handle open, power loss at any step.
* **Ethernet link.**  Snapshot and services follow link and address.  Hard:
  events queue while the event loop is busy and describe what is no longer so;
  two other tasks copy the address while it is rewritten.
* **JSON of the feed.**  Whatever bytes are on the air, the message fits and reads
  back as those bytes.  Hard: `json_escape()` writes without a bound of its own.
* **Info page.**  What is sent is the whole document, and a request gives back
  what it took.  Hard: sixty fields, one check at the end; failures in between.
* **Status page.**  The table is the server's ring plus at most the selected row.
  Hard: no-FIN reboots, reconnects, sequence numbers that start over.

## 2. The modules

| Module | Models | Notes |
|---|---|---|
| `FrameChannel` | what `espnow.c` promises `main.c`: a bounded FIFO that sheds only when full and keeps a frame until the consumer is done | abstract: the code as `main.c` sees it |
| `EspnowPool` | `espnow.c`: `espnow_start()` stage by stage, `on_recv()`, `dispatch_task()` | implements `FrameChannel` by a refinement mapping |
| `EspnowPool_proofs` | | theorems about `EspnowPool` |
| `MqttLink` | `mqtt.c`, with the esp-mqtt client as environment | |
| `MqttLink_proofs` | | theorems about `MqttLink` |
| `Bridge`, `MCBridge` | `on_espnow_msg()` composed with `FrameChannel` and `MqttLink`; `s_topic` behind the MAC is kept cell by cell | the two are instantiated, not copied |
| `Bridge_proofs` | | theorems about the composition |
| `BrowserFeed` | what `web.c` promises a browser: one status, then frames in order, none passed over while the ring has it | abstract: the feed as the page sees it |
| `WebFeed` | `web.c` and the server start and stop of `ota.c` | implements `BrowserFeed`; the HTTP server's task and its descriptors are the environment |
| `WebFeed_proofs` | | theorems about `WebFeed` |
| `FrameJson` | `json_escape()`, `fmt_message()`, `fmt_status()` | the payload is kept byte by byte, the fixed fields by their width |
| `OtaUpdate`, `OtaUpdate_proofs` | `update_post()` and `ota_set_online()` | flash, bootloader and power are the environment |
| `EthLink` | `eth.c` and `on_link_state()` | PHY, DHCP and the netif glue are the environment |
| `Startup`, `Startup_proofs` | `app_main()` and `led.c` around `EthLink` | one event loop serves the link and both services |
| `AddressText` | the text of the address in the snapshot and its two readers, a character a step | instantiated by `Documents` |
| `InfoPage` | `info.c`: a request for `/info.json` | flash and sensor are the environment |
| `Documents`, `MCDocuments` | `InfoPage` and the status frame reading `AddressText` | three tasks share the address |
| `Documents_proofs` | | theorems about the text the device writes: `Documents` and `FrameJson`, which it extends together |
| `StatusPage`, `StatusPage_proofs` | the script of `index.html` | the device sends what is due by `BrowserFeed` |

How state and steps correspond to the code:

* A variable carries the name of the static it stands for (`sSeq` is `s_seq`,
  `started` is `s_started`); a `pc`-like variable (`rxPc`, `evPc`, `at`, `cb`) says
  which statement of a function a task is about to execute.
* One action is what other tasks cannot see inside: a queue operation, one
  write of a shared static, one critical section whose length does not matter.
  The ring entry (`RecordSeq`, `RecordBody`, `PumpTakeEntry`, `PumpCopyEntry`),
  a pool slot (`header`, `data`) and the snapshot (`ip`, `mask`, `dns`) are
  written and read in more steps than one, so that a torn read would show.
* Data are as small as the properties allow: a frame is the number of its
  arrival, a message a record of topic, half and frame, a connection the number
  of its acceptance, an image `good`, `bad` or `partial`.
* Variables and fields marked "history" (`consumed`, `got`, `clean`, `seen`,
  `silent`, `refused`, `quiet`) record what happened; no step depends on them, but
  that a connection's first status is the only one recorded in `got`.
* Before some actions stands a variant marked `Fault:`, the same action with a
  plausible mistake in it.  No specification uses it; the manifest's mutants
  put it in the action's place, and TLC then reports the property violated, which
  shows that the property depends on that code.

### What is assumed of code outside the repository

* esp-mqtt: start creates a task or fails; stop returns only when that task has
  ended; events are handled one at a time under the client's lock; a publish that
  cannot be written ends the session and delivers DISCONNECTED in the
  publisher's own task; messages are sent with QoS 0, so none is stored.
* HTTP server: one task that does one thing at a time; the handshake has been
  answered when `ws_get()` is called for it; a null handle is refused; stop waits
  for the task, closes the sockets and frees the server, and takes no further
  request meanwhile.
* Ethernet: the netif glue's handlers run before the application's; with a
  configured address the glue posts GOT_IP itself on CONNECTED; events are handled
  in the order they were posted.
* NVS and the other calls under `ESP_ERROR_CHECK` succeed or restart the chip; an
  erased partition can be opened.
* Sensor: it can be installed once at a time, and uninstalled only if it was.
* Flash: `esp_ota_end()` verifies the image and frees the handle either way; the
  bootloader takes the slot in otadata and does not roll back.

## 3. What TLC checks

The cfg files name every bound.  `CHECK_DEADLOCK FALSE` stands in all of them
because all of them stop: the bounds run out, and the device itself may go quiet.

| Run | States | Bounds | Question |
|---|---|---|---|
| `espnow_pool` | 948 | 3 slots, 6 frames | slots and frames, and `ImplementsChannel` |
| `mqtt_link` | 2,481 | 3 link changes, 2 sessions, failing starts | flag, LED, and that they settle |
| `bridge` | 47,938 | pool of 2, 3 frames from 2 senders, keys of 4, 5 and 3 bytes with `KEY_MAX` 4, one with a NUL in it, 2 sessions, 2 link changes | topics, order, both halves, page and slot |
| `web_feed` | 2,445,432 | ring of 2, 3 frames, 2 clients, 2 descriptors | ring, list, order, nothing missed, and `ImplementsFeed` |
| `web_restart` | 743,720 | ring of 3, 3 frames, numbers modulo 16, 1 descriptor used by 2 browsers, 2 starts of the server | a listed browser is fed in the end, the dispatch task never parked |
| `frame_json` | 972 | payloads of up to 3 bytes of every kind, a slack used up to the last character | fits, is not refused, reads back |
| `startup` | 335,124 | DHCP with 2 addresses or one configured, 3 cable changes, 1 restart | comes up; snapshot and services follow |
| `ota_update` | 13,291 | bodies of 0-5 units, buffer 2, 2 uploads, 1 power loss | boot slot, counts, answers, handles, termination |
| `documents` | 180,429 | buffer of 9 that the longest document does not fit, 2 partitions, a slot of 96 bytes, images of up to 3 segments of which 2 are walked, addresses of 1 and 2 characters | whole or refused, nothing kept, copies end |
| `status_page` | 22,392 | ring of 2, 4 frames, 2 boots, 2 lost connections | rows, pin, selection, recovery |
| `web_handle`, `eth_late_ip` | small | one each | a comment the code does not keep, see section 5 |

Why the bounds are enough: a pool of 3 has one slot for each place a slot can be
in (free, queued, in a hand) and six frames take it around twice; a ring of 2
with three frames overwrites a cell that is about to be read; two clients and two
descriptors are needed for one to fail, be recycled and meet the other; an upload
of 5 with a buffer of 2 has full, short and last reads, and the stall limit of 3
is the code's own; two boots and four frames let a page meet a ring whose numbers
have started over; a key of `KEY_MAX` bytes fills `s_topic` to its terminator,
one longer must be turned away, and one with a NUL between two bytes is cut; a
ring of 3 that is not full is the smallest in which `newest - HISTORY + 1` would
wrap to a number far past `newest`, and 16 is a word with room between the two (a
ring that is overrun is left to `web_feed` and to `PassAdvancesAlways`, since a
fourth frame makes the liveness run too long); three bytes of every kind put
every escape next to every other and at both ends of the buffer; images of
segments of 0, 31 and 63 bytes end before, at and past the end of their slot once
padded and hashed, with each read of their headers failing in turn, a magic that
is wrong and a segment more than is walked;
three cable changes queue each event behind each other while the event loop is
busy.  The safety results do not rest on bounds: every invariant a run checks is
also proved (section 4).

What the properties say:

* `EspnowPool`: `SlotInv` (types, and one owner for each slot), `PoolConserved`
  (no slot leaks, and so the branch `espnow.c:98` says cannot happen does not),
  `FramesAccounted` (received is dropped plus queued plus consumed),
  `WholeFramesInOrder` (both halves a consumer read are of one frame, and frames
  come in the order of the air); `ImplementsChannel` is refinement;
  `EveryHeldFrameConsumed` and `QuietGoesDark` are liveness.
* `MqttLink`: `FlagTracksSession`, `LedTellsTruth` (the LED follows the flag, and a
  stopped client leaves neither on), and `Settles`: once changes cease, client,
  flag and LED agree.
* `Bridge`: `TopicInv` (every message on the topic of its own frame, for keys of any
  bytes, up to and over `KEY_MAX`, and no write leaves `s_topic`; of a key with a
  NUL in it the topic has what stands before the NUL, since `mqtt_publish()` is
  given a C string: `UpToNul`), `BrokerOrder`,
  `BothHalvesOrBroken` (a half is missing only if the session broke),
  `LonePayload` (a payload without its RSSI only in a later session),
  `EveryFrameServed`.
* `WebFeed`: `RingHolds`, `ListInv` (no descriptor listed twice), `FedAsPromised`
  (`FeedInOrder` and `OnlyOverwrittenMissed`), `ImplementsFeed` (refinement: the
  same as a promise about each step), `DispatchNeverParked`, `EventuallyFed`.  The
  last is also what a wrapped `oldest` (`web.c:284`) would break: a browser that
  connects before the ring is full would be replayed nothing, which leaves order
  and gaps as they should be.  Those about
  what a browser receives speak of browsers whose descriptor nobody still
  listed when they connected (`clean`); section 5 says what happens to others.
* `FrameJson`: `FramesFit` (no write of `json_escape()` or `snprintf()` passes
  `JSON_MAX`, and no message is refused), `ReadsBack` (what the page reads is what
  was on the air).
* `Startup` with `EthLink`: `StartupInv` (events handled while `app_main()` is at
  work included, and no LED is lit before `led_init()` has been called;
  `app_main()` goes on after a failed one, and so does the model),
  `RestShowsAddress` says what must hold once the queue is empty.
  `ServicesFollowAddress` has two halves: between any two events the services run
  exactly when there is an address, and inside a handler none runs before the
  address it is to read is written (`eth.c:128`), but for the netmask
  of an address that replaces another, and for a service about to be stopped.
  `ComesUp` is liveness.
* `OtaUpdate`: `BootsVerified`, `EndsWithWholeBody`, `UpdateInv` (no handle
  leaks), `DeadOnlyAfterSilence`, `AnswerTellsBoot`, `StopReturns` (the event
  loop is never stuck in `httpd_stop()`).
* `Documents`: `WholeOrRefused` (a document is sent with every field or not at all),
  `InfoInv` (no buffer and no half-installed sensor is kept, and, `SizeExact`, an
  image of no more segments than are walked is reported with its exact size or as
  none, and as none only if it has the wrong magic, a read fails or it does not fit
  its slot, to the last byte), `CopiesEnd` (a copy of an
  address that is being rewritten ends in its array, and one that met no write is
  the address).
* `StatusPage`: `RowsMirrorRing`, `PinInv`, `SelectionSinks`, `FindsBack`.

### Fairness

* Tasks that have begun a function finish it (weak fairness on the rest of the
  function): the scheduler starves nobody, since each of these tasks blocks
  between two pieces of work.
* Nothing is promised of the environment: no frame, link, session, browser, click
  or upload need ever come, and
  `espnow_start()` may stop at any stage.
* `app_main()` goes on and the event loop handles what is queued (`ComesUp`); a
  failed `ESP_ERROR_CHECK` restarts the chip a bounded number of times.
* A consumer callback or a websocket send may hang.  Properties that need them to
  return say so: `ConsumerReturns =>` and `SendsReturn =>` stand in the property
  and not in `Spec`.  `DispatchNeverParked` holds without.
* A receive in `update_post()` always returns: with data, an error, or silent when
  `recv_wait_timeout` has passed.  It is never promised to return data.
* The page's watchdog and retry timers fire; the device sends what it owes.

## 4. What TLAPS proves

All theorems hold for every value of the constants under the named assumptions
of the modules, which say no more than the code relies on: a pool, a ring and a
client list of at least one entry (`PoolAssumption`, `BridgeAssumption`,
`FeedAssumption`), an upload buffer that is not empty (`OtaAssumption`), that
`"/rssi"` is no longer than a slash and the longest key, as the size of `s_topic`
takes for granted (`BridgeAssumption`; of the keys it says nothing but that they
are sequences of bytes), that a segment has a length (`InfoAssumption`, where
`MaxSegments` is `ESP_IMAGE_MAX_SEGMENTS`; lengths that wrap in 32 bits are left
out, section 6), that fewer frames arrive than a word counts (`FeedAssumption`,
where `WORD` is 2^32), that the fixed fields fit the slack
`JSON_MAX` adds for them (`JsonAssumption`), that no lease is 0.0.0.0
(`EthAssumption`), that descriptors are numbers, and that bounds are naturals.

* `EspnowPool_proofs`.  The inductive invariant `IInv` is `TypeOK`, `HoldersInv`
  (which task can hold a slot at which statement), `BootInv` (what is on which
  queue at each stage of start-up), `OneOwner` and `FramesAccounted`.  `OneOwner`
  is not inductive alone: that a slot put back is on no queue yet follows only
  from who holds it when, and the pool's size bounds both queues through
  `BootInv`, by counting slots.  From it: `SlotInvAlways`, `PoolConservedAlways`,
  `FramesAccountedAlways` and the step property `ShedOnlyWhenFullAlways`.  A second
  invariant, `OrderInv`, adds which frame each slot holds (`FrameInv`) and what
  the consumer has read of it (`ReadInv`); from it `WholeFramesInOrderAlways`,
  and with the mapping `Heard`, `Held`, `Given`, `Phase` the refinement of
  `FrameChannel`, `ImplementsChannelAlways`: each step is one of the channel's or
  leaves the mapped state alone.
* `MqttLink_proofs`.  `LinkInv` ties each stage of `mqtt_set_online()` to the state
  of the client (`StageInv`), says what a stopped client cannot do (`OffInv`), and
  each step of the handler to the session it reports (`EventInv`).  From it:
  `FlagTracksSessionAlways` and `LedTellsTruthAlways`.
* `Bridge_proofs`.  About the buffer: what is written over its front reads back up
  to its first NUL, its own terminator or one among the bytes of the key, whatever
  stood there before (`WrittenReads`, `SuffixReads`, `UpToNulReads`, `KeyReads`).  About the callback: `StageInv` ties its statements to the channel
  and to `mqtt_publish()`; `TopicNow` says whose topic the buffer holds between
  the two publishes; `OrderInv`, that what the broker has is older than what the
  channel holds, but for the halves of the frame in hand that have begun;
  `HalvesInv`, that neither publish was refused or cut while the session of the
  early return is up, which needs `LinkInv`: a session that was lost is not back
  before its DISCONNECTED has been handled.  From them: `TopicInvAlways`,
  `BrokerOrderAlways`, `BothHalvesOrBrokenAlways`, `LonePayloadAlways`.  Together
  with `ImplementsChannelAlways` they reach from the pool to the broker.
* `WebFeed_proofs`.  `IInv` has types, the pump task's stages (`PumpInv`), the ring
  (`RingInv`: all but the entry being written are whole) and the list; it gives
  `RingHoldsAlways` and `ListInvAlways`.  `OldestIs` unfolds the arithmetic of
  `oldest`, modulo a word, into the plain bound the rest argues with.  That `client_add()` takes one slot needs
  a least element of a set of slots, which is proved from well-foundedness.  What
  browsers get needs more: the copied list against the real one (`PassInv`,
  `WantInv`), the two halves of the entry copied (`CellInv`), descriptors,
  connections and servers (`ConnInv`, `ServerInv`), and `FedInv`: a browser on a
  fresh descriptor was sent nothing and is owed a replay, or was sent all it
  could be up to where the pass is.  With `HistoryInv` they give
  `FeedInOrderAlways` and `OnlyOverwrittenMissedAlways`, together
  `FedAsPromisedAlways`, and the refinement of
  `BrowserFeed`, `ImplementsFeedAlways`: `WriteFeeds` shows that what a send adds is
  the status or a frame that is due, since whatever lies between it and the last
  one sent is not among what was sent, and so has left the ring.  `PassAdvancesAlways`
  shows that no pass goes on for ever: each step lowers the entries left, the
  stage of the entry, the clients left for it or the stage of one client, in that
  order, and no other task raises any of them; with `SendsUnlockedAlways` it is what
  `EventuallyFed` and `DispatchNeverParked` rest on.
* `Documents_proofs`.  Three kinds of text.  *The feed's messages*: `FilledInv` is
  the sum that the comment on `JSON_MAX` does, never more than the fields and six
  characters for each byte escaped so far; `ReadInv` says that a reader who has
  come to the end of what is written has read the bytes escaped so far and is
  inside the string.  Escaping a byte carries that reader on by one, two or six
  characters (`ReadsEscaped`).  From it: `FramesFitAlways`, `ReadsBackAlways`.
  *The info page*: a buffer without an overflow holds the document up to the field
  printed last; from it `WholeOrRefusedAlways`.  `SizeIsExact` compares the walk
  over an image's segments, which stops at the end of the slot, after the most
  segments an image may have and at a read that fails, with the sum of their
  lengths, for images of no more segments than that; with the sensor's states it gives `InfoInvAlways`.  *The address*:
  the last character is a terminator at every moment (`FieldInv`), so a reader
  that looks for one stays inside (`ReaderInv`); from it `CopiesEndAlways`.
* `StatusPage_proofs`.  `RowsMirrorRing` is about a moment when nothing is under
  way, and such moments do not follow from each other.  The invariant `FeedInv`
  lays what is under way and what is in the table end to end and counts back from
  the last frame sent: behind it come its predecessors, without a gap, at least
  as far as the ring still goes, all of this boot, and never more than there are
  numbers.  A frame that is received only moves across the border between the
  two, and what the cap takes off the far end is no longer in the ring.  That the
  cap is the ring's size by then is `CapInv`: the status comes first.
  `RowsApart` is what `PinInv` needs.  From them: `RowsMirrorRingAlways`,
  `PinInvAlways`, and from `PinnedAfter`, which says what one frame does to table
  and pin, `SelectionSinksAlways`.  The device there sends what `BrowserFeed` says
  is due, so with `ImplementsFeedAlways` these reach from the ring to the table.
* `Startup_proofs`.  What is true between two events is not inductive, since an
  event in the queue is news no handler has seen.  The invariant speaks of the
  newest event of a kind, which is never behind the PHY or the netif (`PhyInv`,
  `AddressInv`), and of what each half-done handler still owes (`HandlerInv`,
  `ServiceInv`, which also says at which statement the fields a service reads are
  written).  From it: `StartupInvAlways`, `RestShowsAddressAlways`,
  `ServicesFollowAddressAlways`.
* `OtaUpdate_proofs`.  `IInv` says what `update_post()` knows at each stage: which
  slot is booted (`BootInv`), that what was written and what remains make up the
  body (`BodyInv`), what the client was told (`AnswerInv`), whether the handle is
  open (`HandleInv`), and that the count of stalls is the silence there was
  (`SilenceInv`).  From it: `BootsVerifiedAlways`, `EndsWithWholeBodyAlways`,
  `AnswerTellsBootAlways`, `DeadOnlyAfterSilenceAlways`, `UpdateInvAlways`.
  `UpdateAdvancesAlways`, what `StopReturns` rests on: each step of `update_post()`
  lowers what remains of the body, the stage, or the stalls still tolerated, in
  that order.

Recursive definitions are reasoned about without the library's induction theorems,
whose parameter is an operator and which no prover here can instantiate.  `Least`
(a set of numbers has a least element) gives `Reaches`, induction over `0..n` with
the set of the numbers for which the claim holds in the operator's place, and
`RecursionExists`: the function that a recursive definition describes exists, so
`CHOOSE` finds it and it may be unfolded.

Only model-checked: liveness (`ENABLED` and fairness are out of the prover's
reach), so `EveryHeldFrameConsumed`, `QuietGoesDark`, `Settles`,
`EveryFrameServed`, `EventuallyFed`, `DispatchNeverParked`, `ComesUp`,
`StopReturns` and `FindsBack`.  That passes and uploads advance is proved; that
the scheduler lets them is not.

## 5. Where the code and its comments part

Runs that TLC shows violated:

1. `web.c:420` clears `s_server` "before the caller stops the server".  A send that
   has already read the handle is not waited for, so `httpd_stop()` can free the
   server under the pump task (`web_handle`).
2. `eth.h:45` says the address is "0.0.0.0" while the link has none.  A GOT_IP that
   was queued when DISCONNECTED was posted is handled after it without a look at
   the link: the address is shown and the services run on a dead link
   (`eth_late_ip`).

Seen while modelling, not checked by a run:

* `web.c:209` says a reused descriptor cannot be written to as if it were still a
  socket.  The check and the send are two calls; between them the descriptor can
  pass to another connection.
* `client_drop()` removes by descriptor (`web.c:193`): after a failed send it can
  strike off a new browser on a recycled one.  Such a browser can also be sent
  the rest of a pass before any status.
* `index.html:321` says a selected row that has left the ring is kept.  `onopen`
  empties the rows without pinning it; if it left the ring while the page was
  offline it vanishes.
* After a reboot the selection, a sequence number, may mean another frame.
* An address lost with the link up raises an event no handler is registered for
  (`eth.c:221`): snapshot and services stay as they were.
* DISCONNECTED resets link, speed and address, and leaves netmask, gateway,
  resolver and duplex, which `eth.h:57` says read as zero (`eth.c:92`).
* A reader preempted while it copies the address can see half of two addresses
  (`eth.c:108`), which is more than `eth.c:31` allows for; `CopiesEnd` shows that
  it stays inside the array and that a copy no write met is exact.
* `main.c:10` says the key becomes the last topic level and is not otherwise
  interpreted.  A key is any bytes before a tab, and `s_topic` is a C string: a NUL
  in the key ends the topic, and the payload goes out on the topic of the bytes
  before it (`main.c:92`).  It stays a topic of the frame's own sender, which is
  what `TopicInv` says of such keys.
* A key that is itself `rssi` is published on the signal-strength topic
  (`main.c:90`).
* The pump's loop `seq <= newest` would not end at the sequence number 2^32 - 1
  (`web.c:289`), 136 years away at a frame a second.

## 6. What is not modelled

* The host name (`app_id.c`): a string computed from the MAC once, before any
  other task exists.  `config.h`: constants; those that bound a modelled
  structure are CONSTANTS.
* Of `index.html` the badge, cards, styles and text formatting; of `info.c` the
  wording of the fields and the static page.
* Log lines, units and percentages; the settings of SPI, MAC and PHY in
  `eth_start()` and of the radio in `espnow.c`, of which only the stages and early
  returns are.
* Wrap-around of the 32-bit counters, but for `oldest` (`web.c:284`), which is
  computed modulo a word as the code does; the sequence itself does not reach the
  end of its word, nor does the sum of an image's segment lengths.

## 7. Plan

Done: receive path, link, bridge, feed, update, Ethernet, page; the boundaries of
topic, JSON and info page; start-up and the one event loop around link and
services; the proofs of every invariant a run checks; the abstract feed that
`WebFeed` implements and `StatusPage` assumes; that uploads and passes advance.
Left:

1. The same for the event loop, whose handlers post events of their own, and for
   `app_main()`: what `ComesUp` rests on.
2. The same for the consumer of the pool: a bound on the steps before a frame
   that is held is read, what `EveryHeldFrameConsumed` rests on.
