# StarUV, verified

StarUV is an ESP32 firmware (`src/SD_Lite/SD_Lite.ino`) that keeps the schedules ("cycles") of a UV
lamp in JSON files on an SD card and serves them over HTTP, and a React dashboard (`src/ui`) that
shows and edits them. A second sketch (`src/sketch_blink`) switches two LEDs over a web socket, on the
asynchronous libraries kept in `src/libraries`. This directory holds TLA+ models of all three, the TLC
runs that check them on small instances, and TLAPS proofs of what matters most for instances of any
size.

## 1. Inventory

| component | state it keeps | operations | modelled by |
|---|---|---|---|
| configuration document, `/config/<uuid>.json` | `cycle_counter`, a list of at most 5 cycles | add, update, remove a cycle | `CycleConfig`, `CycleStore` |
| request server, `SD_Lite.ino:131-455` | the card; globals `www_username`, `www_password`; the handler's locals | boot, GET /config, GET /, POST/PUT/DELETE /cycles, restart | `SDLite` |
| dashboard page, `src/ui/src/components/Cycles`, `contexts/reducers` | the list in the store context; a `loading` flag per form and list item; the fetches in flight | fetch on mount, create, update, delete, reduce the answers | `Dashboard` |
| menu, update dialog and form, `_listCycle.jsx`, `_cycleAction.jsx`, `_updateContent.jsx`, `timeInput.jsx` | the open menu; per item the dialog, two flags, the form's copy of its cycle, the positions of the wheels | open, close, turn, press, reset, save, delete | `CycleForm` |
| clock, `SD_Lite.ino:247-307`, `RtcDS1302.h`, `RtcDateTime.cpp` | the chip's registers, its halt and write-protect bits | GET /time, POST /time | `RtcDateTime`, `RtcClock` |
| authorization header, `SD_Lite.ino:64-129`, base64 | none | decode, split, compare SHA-1 | its outcomes, in `SDLite`; the decoding is planned |
| page and static files, `SD_Lite.ino:457-475` | none of their own; GET / sets the names | stream a file | GET / in `SDLite` |
| LED sketch, `src/sketch_blink` | two flags | toggle, broadcast, clean up the clients | `LedSocket` |
| its web socket, `AsyncWebSocket.cpp` | the list of clients; per client a queue of control frames and one of texts; texts shared by all queues, with reference counts | connect, data, acknowledge, poll, close, clean up | `LedSocket` |
| the TCP events below, `AsyncTCP.cpp` | one queue of events between LwIP's thread and the service task; clients named by address | the callbacks of LwIP, the service task, the sweep | `AsyncTcp` |
| translations, delay picker, the time form | the language | pickers, toggles | no |
| WiFi, OTA, the pin report sketch, the other vendored libraries | none of this program's | | no |

How they interact. `loop()` calls `server.handleClient()`, which serves one request from start to end;
handlers never interleave with each other. They share the card and two globals: the name and the
password that `checkAuthenFromSD` leaves behind, the first of which names the files. The page and the
firmware share nothing but HTTP (the /time handlers share nothing with the /cycles handlers but the
name global, which they do not read): a tab fetches `/config` once and afterwards applies the answers to
its own calls to its own copy. The LED sketch is a program of its own: LwIP's thread puts events into a
queue, the service task takes them out and calls the web socket's handlers, and `loop()` calls the web
socket's cleanup from a third task.

What is hard here:

* a rewrite of a card file truncates the only copy before it writes (`writeFile`, 165-182), so the
  power or the card failing in between loses the document, and nothing ever repairs it;
* some error paths answer and go on (316, 369, 423), one is an uncaught exception (440);
* paths depend on a global that outlives its request;
* ids must never be reused, through creates, deletes, failures and restarts;
* the clock chip goes on counting while a handler talks to it, has flags in the high bits of its
  registers, ignores writes while it is protected, and is written before anything is checked;
* a page's calls overlap, and their answers come in any order or not at all; several pages edit one
  document; a page reloads with calls on their way;
* the state that disables a page's buttons is spread over the list, its items and their forms, and a
  form, its wheels and the list each keep a copy of one cycle;
* acknowledgements of a web socket carry bytes and no frame, and are credited by guessing;
* a text is shared by the queues of clients that come and go;
* events name a client by an address that may be another client's when they are served, and the queue's
  only reader also writes to it.

`PROJECT.json` lists every such hazard at its line, with the properties that watch it.

## 2. The modules

```
CycleConfig     the document and its edits (pure)
 ├─ CycleStore  abstract: a store of documents changed by whole edits, lost only to faults
 │   └─ Dashboard      pages of one user over that store        MCDashboard
 │       └─ CycleForm  one page from the inside; implements Dashboard   MCCycleForm
 └─ SDLite      the request server; implements CycleStore       MCSDLite
CycleConfigProofs   lemmas about the edits
 ├─ SDLiteProofs    the theorems about SDLite
 └─ DashboardProofs, CycleFormProofs   the theorems about the page

RtcDateTime     dates as bytes, their way into the registers and back, the calendar (pure)
 └─ RtcClock    GET and POST /time over the chip              MCRtcClock
     └─ RtcClockProofs   lemmas about the conversions, theorems about RtcClock

LedSocket       the LED sketch and its web socket             MCLedSocket
 └─ LedSocketProofs   types, the accounting of acknowledgements
     └─ LedTextsProofs   the order of the texts, the counts of their buffers
AsyncTcp        the event queue below it                      MCAsyncTcp
 └─ AsyncTcpProofs
```

**CycleConfig.** A document is `[counter, cycles]`, a cycle `[id, body]`; a `body` stands for the six
fields the server copies without reading them (status, start, end, day, fan_enable, fan_delay). The
literal 5 is `MaxCycles`. `IndexOf` is the search loop of PUT and DELETE, which stops at the first
match.

**SDLite.** One action per stretch of a handler between two card accesses, because that is where the
power can go and where an access can fail:

| action | code |
|---|---|
| `Boot`, `BootHalts` | `setup()`; 212-216 returns, 217-221 spins |
| `Arrive`, `Rest` | `handleClient()` takes a request, comes back |
| `AuthenticateFromFile`, `…FromGarbage`, `…Nobody` | `checkAuthenFromSD`, 131-163 |
| `RefuseBody`, `Check` | 314-324, 367-379, 421-425, the missing returns included |
| `ServeConfig`, `Load`, `LoadFails` | `readFile` and the parse, 237-243, 325-335, 380-390, 426-436 |
| `ServePage` | 457-473 |
| `Refuse`, `AbortOnId` | 359, 413, 454; `std::stoi`, 440 |
| `OpenForWrite`, `OpenFails`, `PrintFile`, `CloseFile` | `writeFile`, 165-182 |
| `Respond` | 350-358, 403-410, 444-451 |
| `PowerLoss`, `PowerCycle` | the environment |

Variables keep the code's names where there is one (`www_username`, `configDoc`). `wrote` is what
`print` achieved: all, part (which the code takes for success) or none. `answers` lists the status
codes sent, because two may be. `before` is history: the card when the request came. Readings of the
code that are easy to get wrong:

* `fileContent` in `checkAuthenFromSD` is uninitialised and stays so when the file does not open, so
  the outcome of authentication is then a nondeterministic choice (`AuthenticateFromGarbage`); in the
  other handlers it is initialised to the empty text, whose parse fails: 500.
* GET /config never parses, so it answers 200 for a missing or a torn file too.
* `std::stoi` is evaluated once per cycle, so an id that is no number, or none at all, aborts exactly
  when the list is not empty; on an empty list it is a 404 (after the 400, if there was no id).
* PUT with id 0 is a PUT without an id (`!doc["id"]`); DELETE with id 0 is an id nobody has.
* a strict prefix of a JSON object never parses: a torn file is one value, `Torn`.

**CycleStore.** What the firmware promises and what a page may rely on: `Create`, `Update`, `Delete`
as atomic edits, `Lose` (the whole document, with a fault), `Hiccup` (a fault that costs nothing).
`SDLite` maps to it by `Stored`: while a rewrite that can still succeed is under way the store holds
the document being replaced, otherwise what the file holds; so the linearisation point of an edit is
`close()`, and that of a loss is the fault.

**Dashboard.** EXTENDS `CycleStore` and uses its actions as the server: `ServeChange` is a whole
handler, `TearChange` one that tore the file. A call is in flight from `fetch()` to the end of its
promise chain; the set `calls` carries the `loading` flags too (`Of(t, op, id) # {}`). `Deliver` is
`res.json()`, the dispatch and `finally()`. `Refused` stands for every answer that `res.json()`
rejects: the texts "Unauthorized", "Bad request" and so on, and the text of a torn file. A page whose
copy may differ from the card gets an *excuse*, at the moment the cause happens: somebody else's change
("foreign"), a change sent before the list came ("raced"), an answer that never arrived ("lost").

**RtcDateTime.** A date is a function from six fields to bytes, as the members of the library's
`RtcDateTime` are. `FromJson` is ArduinoJson's conversion to an unsigned integer (0 if it does not fit;
a member that is missing is 0 too), `YearFrom2000` the constructor's year, which wraps: 1999 becomes the
byte 207, its digits are stored as 47, and the chip then says 2047. `Encoded` and `Decoded` are the
bursts of `SetDateTime` and `GetDateTime`. `IsDate`, `Succ` are the reference: the calendar. The day of
the week is left out; for a month above 12 the code computes it from flash beyond its table, and
writes the result to a register nobody reads.

**RtcClock.** One action per exchange with the chip: `SetRunning`, `Unprotect`, `SetDateTime`, `Verify`
(POST) or `ServeTime` (GET), with `RefuseTime` and `CheckTime` before them for POST. `Tick` can happen
between any two, and so can `PowerLoss`: the board restarts, the chip goes on. The writes happen
whether or not the code's `if` asks for them, because without the `if` they would change nothing. The
chip is external: it ignores writes while protected (as `RtcDS1302.h:187` says), takes a burst whole,
and `Kept` leaves open whether it stores bits its registers do not have. `truth` is history: the date
asked for by the last POST whose members are a date of 2000 to 2099, and the seconds since. `Tick`
counts registers that hold such a date; what the chip makes of noise is left open by not counting it.

**CycleForm.** EXTENDS `Dashboard` and conjoins its actions: where `Dashboard` lets a page send whatever its calls
in flight allow, this page sends what its buttons allow. `items[id]` is the React state of the list item
and of the form in it: `openUpdate` of `_cycleAction.jsx`, the two `loading` flags, the form's copy of the
cycle (made by `useState(data)` when the item appears, and never again), whether its array of days is
still the list's own (which `shallowCompareObject` compares by reference), and the position of the two
wheels of its start time. `selected` is the one `selectState` of the list. Three readings:

* a closed dialog keeps its form, edits, wheels and PUT; the item's menu is free again at once;
* `Reset` puts the form back and not the wheels (`pickerValue` is a state of `TimeInput`), so that
  the next turn of one wheel writes the abandoned value of the other: `carried`;
* after a saved form the list's array of days is the one of the answer, never the form's: saving again
  without a change sends a PUT that changes nothing.

A schedule is start's hour and minute and the days; end is a second start, and status and the fan are
plain values, less than a day. The create dialog copies no cycle: it is `SubmitCreate`.

**LedSocket.** One action per handler of the network task, and one for the cleanup in `loop()`:

| action | code |
|---|---|
| `Connect`, `Disconnect` | `_addClient`; `_handleDisconnect` with the client's destructor |
| `Toggle` | `handleWebSocketMessage`, `notifyClients`, `textAll`, `_queueMessage` for every client |
| `Ping`, `PeerCloses` | `_onData`, the control frames |
| `OnAck` | `_onAck`, `_cleanBuffers`, `_runQueue` |
| `Poll` | `_onPoll` |
| `Cleanup` | `cleanupClients` |

The n-th text is the number n, and so is the state of the LEDs; `wire` is the client's TCP stream, which
the peer reads and acknowledges from the front, in any portions. Bytes are the code's: 2 for a
header, 2 for a text. `Credited` is the code's bookkeeping: a finished control frame at the front takes
its bytes and goes, the rest is the front text's, whatever was acknowledged. `Outcomes` are those of
`webSocketSendFrame`: written; nothing, or the header alone, as when the first or the second `add()`
fails; or all of it, when `send()` fails afterwards and the caller takes the payload back ("unsent").
The peer reads frames as long as it is in step (`inStep`): a header whose payload never came makes it
take the header of the next frame for the payload, which is no UTF-8, so a web socket client gives
up there and reads no text after it. `deaf` and `hurt` are history: the last text was dropped by a full
queue; a control frame went out twice, or a write failed.

**AsyncTcp.** The queue between the two threads. LwIP's callbacks append (`Put`), wait when the queue is full
(`waiting`, `Resume`), and close pcbs in their own thread; the service task takes one event at a time.
Where it can wait, or LwIP can come in between, it is split:

| step of the service task | code | waits for |
|---|---|---|
| `ServeAccept` | `AsyncServer::_accepted`: the client gets its handlers | |
| `ServeRecv`, `Handle`, `Recved` | `_recv` and its handler; `_tcp_recved`, unless the handler put the acknowledgement off | LwIP's thread (435) |
| `Handle`, `Recved`, `Close`, `Closed` | a handler that calls `close()`: `_tcp_recved`, CLEAR, `_tcp_close`, then the client is deleted | LwIP's thread, room, LwIP's thread |
| `ServeFin`, `Finish` | `_fin`: CLEAR, then the client is deleted | room |
| `ServeError` | `_error`: the client is deleted | |
| `ServeClear`, `SweepTake`, `SweepPut` | `_remove_events_with_arg` | room |

`object` says whose client lives at an address: a deleted client's address may be the next one's. What
deletes a client is its disconnect handler (`_discard_cb`), which its ACCEPT sets: `Discarded` leaves a
client whose end is served first where it is, for good. RECV stands for SENT and POLL, which travel
alike; any handler of data may close its client. `history` keeps what may excuse what goes wrong: LwIP
added to the queue during a sweep ("overlap"), a client was made where events of a deleted one were
pending ("reused"), or its end came before its ACCEPT ("leaked").

## 3. What TLC checks

| run | instance | checks | shows |
|---|---|---|---|
| `sdlite_safety` | 2 users (1 without password file), 2 schedules, 2 cycles, ids to 3, 1 fault | `TypeOK` `ConfigSound` `LossesAreCounted` `RefusedNeverEdits` `AnswerTellsOutcome` `OnlyOwnFile` `NoIdReuse` `LostStaysLost` `ImplementsCycleStore` | the files stay sound and apart, answers are true, and the handlers implement the abstract store |
| `sdlite_liveness` | 1 user, 1 schedule, ids to 3, 2 faults | `EveryRequestEnds` `KeepsServing` | requests end, the board comes back |
| `dashboard` | 1 page, 2 schedules, 3 calls at once, ids to 3, 1 fault | `TypeOK` `ShownAgrees` `ShownIsSane` | the page agrees with the card, or has an excuse |
| `dashboard_tabs` | 2 pages, 1 schedule, 2 calls at once, ids to 3, 1 fault | `ShownAgrees` `ShownIsSane` `LimitHolds` | what two pages do to each other |
| `dashboard_liveness` | 1 page, 1 schedule, 2 calls at once, ids to 2, 1 fault | `CallsEnd` | every disabled button comes back |
| `cycle_form` | 1 page, 1 cycle, 2 hours, 2 minutes, 2 choices of days, 2 calls at once, 1 fault | `FormTypeOK` `FormTellsTruth` `SavesOnlyEdits` `ImplementsDashboard` | what an idle form shows and a save changes; the buttons keep the calls apart |
| `rtc_clock` | 150 dates asked for, halted, protected or noisy chips, 2 seconds | `TypeOK` `KeepsTime` `AnswerTellsTheClock` `ServesADate` `LookingStartsIt` | the clock says the time that was set |
| `rtc_starts` | the same | `StartsNow` (violated) | the chip is started before it is unprotected |
| `led_socket` | 2 connections with a limit of 1, queues of 2, 3 toggles, 1 ping, 1 write that fails in one of three ways | `TypeOK` `BuffersCounted` `PeersCatchUp` `JamNeedsCause` | texts are counted, told in order, and stop for stated reasons only |
| `led_drains` | the same with 2 toggles and no failed write | `Drains` | queued texts leave, or the client jammed or is the oldest of too many |
| `led_cleanup` | 2 connections with a limit of 1, nothing else | `CleanupLimits` (violated) | the limit is asked for, not enforced |
| `tcp_events` | 3 connections, one with 2 packets, 3 addresses, a queue of 3 | `TypeOK` `DeliversAll` `StrayNeedsOverlap` `LeakNeedsOverlap` `ClientsEnd` | packets arrive in order and at their client, clients are deleted, or a stated race or deadlock took place |

The violations. GET /time prints "RTC was not actively running, starting now" (`SD_Lite.ino:250`), and
`StartsNow` says that the clock runs afterwards. It does not when the chip was write protected: the
write that should start it (251) comes before the protection is cleared (253-255), the reverse of the
library's example `DS1302_Simple.ino`. `LookingStartsIt` is what does hold: a chip found writable runs
afterwards, so the second GET starts it. The library's README offers `cleanClients()` (1036) for clients
that do not close, and says it limits their number "by closing the oldest client"; `CleanupLimits` says so.
The code only queues a close frame (`AsyncWebSocket.cpp:588`), again on each round, and the client stays
until its peer answers or goes. The counterexample is two connections, one too many, and acknowledgements.

Bounds. `MaxCycles` is 2 or 3 instead of 5: enough for a full list, for a first, last and middle
element, and for one delete followed by one create. `MaxCounter` bounds the ids a run may issue: it
exceeds `MaxCycles`, so that ids are issued after deletes. `MaxFaults` bounds hardware and network
faults together; `MaxCalls` the calls in flight, two being the least for answers to cross and three
what a create, an update and a delete (or a delete and an update of one cycle beside a create) need.
The cards a run starts from are the one the repository ships (two cycles, counter 2, different
schedules), an empty list, and no file; the Dashboard runs start from none or one cycle. `Reload`
keeps no two identical orphaned calls. The dates of `MCAsked` are the ends of months and years, a leap
day, dates the calendar lacks (31 April, 29 February 2099 and 2100), and members that wrap, halt the
clock or change its hour mode; `MaxTicks` bounds the seconds counted since the last write, two being
enough to pass midnight and to count on. `cycle_form` has one cycle, as items share nothing but the
menu and the calls, which `dashboard` interleaves; two values per part of a schedule tell an edit from
its being taken back. Two web socket clients are what a shared text and a limit of one need; a queue of
two overflows at the third toggle; the window of 2 frames lets a control frame and a text be on the
wire together; `MaxControls` bounds a queue that `Cleanup` would let grow for ever. It takes three
connections and three places of the event queue for an end to overtake its ACCEPT: the sweep of one
client, an event of another that was put back and will end the sweep, and the ACCEPT of a third, held
while its FIN is appended. `Talkers` names the connections with packets: one is enough for a packet to be overtaken,
to reach another client, or to be acknowledged while the other two fill the queue; all of these happen in
`tcp_events`. Symmetry is used for the schedules of one safety run and the tabs of the other, which no
definition names, for the parts of a schedule in `cycle_form`, for the connections of `led_socket`, and
not for liveness.

Fairness. `SDLite`: `loop()` runs for ever and a handler waits for nothing, hence
`WF(HandlerStep)`; `WF(Boot)` says that the power returns after it went, which is the user's doing and
an assumption. `Arrive`, faults and `PowerCycle` are not fair: nobody has to send a request, and a board
that halted in `setup()` stays halted unless somebody pulls the plug: `KeepsServing` says that this is
the only way it stops serving. `Dashboard`: weak fairness of serving and of delivering, for each kind of
call separately, since the server takes connections in turn and the browser's event loop runs every
handler. The users' actions and `Break` are not fair. `CallsEnd` allows a call to end by `Break` or by
a reload. `LedSocket`: the peers' TCP acknowledges, LwIP polls its connections and `loop()` goes round, each with
weak fairness and successful writes; peers need not send, answer or go. `AsyncTcp`: both threads go on
when they can (`Resume`, `Service`); nobody has to send or close.

Deadlock is checked in every run but those of `LedSocket`, where all connections may be used up and
gone, and of `AsyncTcp`, where this may happen too and the two threads really can wait for each other.

What the checks taught about the code, all of it part of the models: a 200 may stand for a torn file
(`AnswerTellsOutcome` has to allow for a partial `print`); once torn, a configuration stays so for good
(`LostStaysLost` holds, and the page then shows nothing and refuses every edit); a page that creates a cycle before
its list came may show it twice or not at all (`ShownIsSane` needs "raced"); a lost answer to a
create leaves a cycle the page does not show, and trying again adds another. A POST /time with 80 seconds
or more that the chip still reads as a date stops the clock and is answered 200 (`LookingStartsIt` has to
start it again); a POST /time that is answered 400 after the parse has already spoilt the clock
(`KeepsTime` has to forget the date then). The abandoned value of a reset form can reach the card through
a wheel (`SavesOnlyEdits` has to allow for `carried`). A ping followed by a toggle can silence a web
socket client for good: `_runQueue()` sends the control frame at the front again before it is acknowledged,
and the second acknowledgement is credited to the text behind it, which was not sent and then waits for
bytes that are never owed (`JamNeedsCause`, `Jammed`; no failed write is needed). A full queue keeps the old states of the
LEDs and drops the present one (`PeersCatchUp` needs `deaf`). A text whose payload `add()` refuses leaves its
header in the stream, and the retry, a whole frame, is unreadable after it (`PeersCatchUp` needs `InStep`);
one whose `send()` fails goes out all the same, four bytes are acknowledged where two are owed, and
nothing more is sent to that client (`JamNeedsCause`). In `AsyncTcp`, an event appended during a sweep overtakes
older ones, contrary to the comment at `AsyncTCP.cpp:125`, so that an ERROR can overtake packets of its
client, which are then handled by whatever is at its address; a client made at the address of one
whose CLEAR is pending loses its first packets; a client whose FIN or ERROR overtakes its ACCEPT is never
deleted (`leaked`), since it has no disconnect handler yet; and a full queue stops both threads for good,
since the service task waits for room in the queue only it empties, or for LwIP's thread, which waits for
that room: in a close, and with every packet it acknowledges (`Deadlocked`).

## 4. What is proved

`CycleConfigProofs` and `SDLiteProofs`, for every set of users and schedules, every `MaxCycles > 0` and
every number of faults. The assumptions are `MaxCyclesAssumption` and `SDLiteAssumption`: the special
values differ from each other and from the data, ids are positive numbers, and the cards before the
first boot hold well-formed documents or none.

* `Invariance`: `Spec => []Inv`. The properties alone are not inductive: that `CloseFile` writes a
  well-formed document depends on the checks of earlier steps, and that 200 means the requested edit
  depends on the card being, until then, the card the request found. `Inv` adds `ServedInv` (what the
  checks a handler has passed established), `CardInv` (the card is `before` up to `edit`, `before`
  with the file torn while it is open, and `before` with the edit or the tear once it is closed)
  and `AnswersInv` (nothing was sent before, but the 400 of a DELETE without an id, which is
  then never accepted). One lemma per conjunct, one step per action.
* `TypeCorrect`, `ConfigsStaySound`, `RefusalsAreHarmless`, `AnswersAreTrue`: read off `Inv`.
* `FilesStayApart`: only `OpenForWrite` and `CloseFile` touch the card, and then `www_username` is the
  request's user.
* `StoredStep` (lemma): a step keeps what is stored, makes one accepted edit, or loses one document
  with a fault. From it `IdsAreNeverReused`, `LostFilesStayLost`, `EveryLossHasAFault` (an invariant of
  its own, by the cardinality of the set of torn files), and `Refinement`: `Spec => ImplementsCycleStore`.
* `EditedSound` rests on `AddedSound`, `UpdatedSound`, `RemovedSound`: the edits keep a document well
  formed; deleting keeps the order of ids, adding exceeds them all.

`RtcClockProofs`, for every set of dates asked for, every content of a fresh chip and every number of
seconds, from `RtcAssumption` (dates asked for are records of integers, the special values differ from
them). The conversions come first: `ValidIsDate` (the library's parity of months and its leap years are
the calendar's), `BcdRoundTrip` and `EncodedReads` (a date of this century reads back as itself and
does not halt the clock), `NothingIsLost` (it uses no bit the chip may lack), `SuccIsDate` (a second
later it is still one), `MeantIsConstructed` (the conversions of the request leave it alone). `KeepsTime`
does not say that the time kept is a date, which `ServesADate` needs, nor that the chip can count on
from it. `IInv` says that the registers are exactly the encoding of the true date (`Agrees`), which request
each step serves (`Underway`), and that a chip found writable is running once it has been started
(`Started`). `ClockKeepsTime`, `AnswersAreTrue`, `DatesAreServed`, `LookingStarts` follow.

`DashboardProofs`, for any number of pages, calls, cycles and faults, from the assumptions of `Dashboard`,
`CycleStore` and `CycleConfig`. `ShownIsSane` is far from inductive: what an answer does to a list
depends on what the list had when the request left, and on every answer still under way. `SaneInv` says
of each page (`TabInv`) that what it shows and what its waiting lists hold is ordered, within the limit
and issued by the counter, and that the id a waiting create will be answered with is above all of them;
the counter never goes back, hence the order of answers does not matter. `LimitIsKept` needs only that
the store's documents are well formed. `PagesUseTheStore`: every step of the pages is a step of
`CycleStore`, which is what `SDLite` implements.

`PagesShowTheCard` proves `ShownAgrees` from `AgreeInv`. The property says what a page without an excuse
shows once it waits for nothing; between a request and its answer the list and the file do differ, and
the invariant says how. While the page waits for its list, a list that was served is the file's.
After that, what is shown and not filed has a successful DELETE of this page on its way to it, what is
filed and not shown the answer to a POST, and what differs the answer to a PUT (`ShowsTooMuch`,
`ShowsTooLittle`, `ShowsOtherwise`); an answer under way says what the file holds (`AnswersHold`), and
no call is about an id that is still to be delivered (`Fits`). So each answer settles one cycle, in whatever
order the answers come. The lemmas `AppendRange`, `UpdateRange`, `DeleteRange` say what the three edits
do to the sequence, and `EditsAlike` that the page's reducer and the firmware's handlers, which are
written apart, edit alike.

`CycleFormProofs`, for any hours, minutes and days. `FormInv` adds to `SaneInv` that items stand for the
cycles shown, that flags are up exactly while a call of the item is in flight (`ItemsInv`), and that a
PUT in flight carries what its form showed, because the form cannot be edited while it runs
(`CallsInv`). `FlagsAreTrue`, `FormsTellTheTruth` and `FormsImplementDashboard` follow: with the last,
everything proved of `Dashboard` holds of the page with its forms. `Told`, the part of `FormInv` about a
form, is per field: where neither the user nor a wheel has been, the form has what the list shows
(`Untouched`). `SavesChangeEditsOnly` adds `AgreeInv` of `DashboardProofs`: what the list shows is
what the file holds, so a PUT, which sends all fields, leaves those alone that the user did not touch.

`LedSocketProofs`, for any number of connections, toggles, pings and failed writes and any limits, from
`LedAssumption`. Both properties follow from `LedInv`, which says of every client that it is `Sound`: a text that
was written whole waits for bytes, the texts behind the front one are untouched, and, while nothing
went out twice and nothing failed, at most one frame is on the wire and its bytes are exactly what the
front control frame or the front text waits for (`Accounted`). One lemma per operation of a queue
says that it keeps a client sound; the handlers are made of them.

`LedTextsProofs`, from the same assumptions, the two properties about the texts, whatever writes fail. For the order
(`PeersAreToldInOrder`), `TextsInv` adds to `LedInv` that what was read, what is on the wire and what is
queued are each in order and one after the other (`InOrder`), that a front message that went out is
on the wire or was read (`FrontCarried`, which `Accounted` alone does not give once something went out
twice), that the end of the queue is the present state of the LEDs unless that was dropped (`Latest`), and that
connections that never came up are as they were made. `FrontCarried` and `Latest` hold while no header
stands alone in the stream (`Legible`): once one does, the order stays and the rest is not read. For the
counts (`BuffersAreCounted`), `BufferInv` says of every text, deleted or not, that the set of messages pointing at it is finite and that its
count, if it has one, is the cardinality. One lemma per operation of a queue says which single
reference it adds or takes; the cleaning before the acknowledged message is taken out (the order of
`_runQueue`) and a client that goes with a full queue are the cases that need thought.

`AsyncTcpProofs`, for any addresses, connections, packets and any length of the queue, from `TcpAssumption`
and `NoEventAssumption` (the value for "no event" is none). Its properties are far from inductive, as
each speaks of what is served now while its reason is the order of everything queued. There are three layers:

* `TcpInv` holds whatever happens: no two places hold one event, only ACCEPTs stand before a CLEAR (`ClearFirst`), a
  connection has at most one FIN or ERROR, which names the address its client has (`EndsOnce`,
  `EndsMeet`), and what the service task holds between two steps matches the clients (`Serving`). During a
  sweep the queue is a cycle with a seam, between what was put back and what is still to be looked at;
  what was put back at the swept address is of the client that stands there (`Swept`).
  `TypeCorrect` and `EndsFindTheirClient` follow. The latter came out of the proof: FIN and ERROR are
  never served to the wrong client, even when LwIP adds to the queue during a sweep, since one
  that is late finds its client still there. Only packets can go astray.
* `LineInv`, as long as LwIP added nothing during a sweep: read from the seam, a connection's ACCEPT comes
  before its packets, these in order, then its end (`Lined`), and a packet finds its own client or
  a CLEAR that takes it out (`PacketsMeet`). Hence `StraysNeedOverlap`.
* `DeliverInv` adds that the events queued, held and waiting for room are exactly the packets not yet
  read (`Numbered`), for a client that is alone at its address, and that an end which is served finds
  its client accepted (`NoneLeaked`), as its ACCEPT was before it. Hence `DeliversEveryPacket`,
  `LeaksNeedOverlap` and `RecvFindsItsClient`, which says of each call of the handler that it is the right client's, with the next packet.

Three properties are stated over sets of places, where "the subsequence of" would be shorter:
`ShownAgrees` (`Settled`, `SameOrder`), `PeersCatchUp` (`TextPlaces`) and `DeliversAll` (`Packets`). A filter
takes an operator as parameter and is computed by recursion, so nothing could be proved of it; a set of
places says the same and splits.

Only model-checked: liveness (`EveryRequestEnds`, `KeepsServing`, `CallsEnd`, `Drains`, `ClientsEnd`), which is
out of the prover's reach. Every invariant and action property of the passing runs is a theorem.

## 5. What is not modelled, and why

* The sizes of the JSON texts: `fileContent` is 1024 bytes. Five cycles of the shipped shape fit, and what a
  longer text does to the stack is undefined.
* The width of `cycle_counter` (a C `int`): out of reach in practice; it is a natural number here.
* A configuration that parses but lacks its members, or whose ids are not numbers: the card is
  provisioned by hand and no handler writes one.
* The hash and the decoding of the Authorization header. A bearer token never gets as far as its
  comparison: `substring(6)` leaves the blank after "Bearer", which decodes to an empty name, and the
  request is answered 401, as by `AuthenticateNobody`.
* `doc["start"]` and the rest are copied unread; a create that omits them stores nulls, a body like any other.
* `serveStatic` (it asks for no name and keeps no state), OTA, WiFi, translations, the pickers' own package, the time form (it sends nothing).
* Of the web socket: fragmented, masked and binary messages, the event source, the page of the sketch
  (which has no script, so clients are any); `cleanupClients()` running into the network task on the
  other core (undefined behaviour: a deleted object is called); the second close of a client that
  already disconnected (668-670); the pins.
* Of AsyncTCP: outgoing connections, DNS, sending, the slots of closed pcbs (their reads are not
  synchronised); LwIP has freed a pcb whose ERROR is still queued, and the model lets the client's close go
  through. A packet served for an address where no client lives reads `_pcb` from freed memory: it may wait for
  LwIP or not, and what else comes of it is not modelled.
* What a web socket client does with a stream it cannot parse: it is taken to read no further text, as
  RFC 6455 asks of one that meets invalid UTF-8. One that guesses on is outside the model.
* A call that breaks (`Break`) before it was served is not served later, though the server might have its request
  already. Such a late change would count against the page as the one of a reloaded page's orphan does,
  that is, as "foreign", which `Reload` and a second page cover.
* The other vendored libraries (ArduinoJson, ESPAsyncTCP, the HTTP side of ESPAsyncWebServer, SD,
  Sqlite3Esp32): third-party code the sketches use as it comes, or not at all; it is most of the
  repository's lines. Where a conversion of theirs matters to a property it is modelled (`FromJson`).

## 6. Plan

1. `System`: pages over `SDLite` itself instead of `CycleStore`, on a smaller instance. The two refinements
   meet in `CycleStore` already; what is left is that a page sees a request as one step.
2. `Credential`: base64, the split at the colon and the C strings, against the credentials of a browser.
