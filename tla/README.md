# A formal model of Point Poker

Point Poker is the backend of a planning-poker application: users create a
session, join it, vote, reset the votes, leave, and follow the votes of the
others over a stream of server-sent events. It is a Spring Boot service with all
of its state in memory and no lock anywhere, and an Angular client of which the
repository holds the build. What makes it hard is
concurrency: every request runs on a thread of the servlet container, every
event is handled on a new thread of its own
(`SimpleAsyncTaskExecutor`, `DomainConfiguration.java:17-23`), every open
stream has a consumer thread (`PoisonPillStrategy.java:56-81`), and the pages of
the client, whose callbacks outlive them, share one application service.

This directory holds a TLA+ model of the service, the listeners, the streams, the
three together and the web client beside them, runs that model-check it on small
instances, and proofs that hold for all of them.

Paths: `domain/` is `pointpoker-domain/src/main/java/com/ktviv/pointpoker/domain/`,
`app/` is `pointpoker-app/src/main/java/com/ktviv/pointpoker/app/`, `infra/` is
`pointpoker-infra/src/main/java/com/ktviv/pointpoker/infra/`, `web/` is
`pointpoker-app/src/main/resources/static/` (`main…js` and `scripts…js` are its two
files of one line each, so the client's code is named by function).

## Inventory

| Component | State | Operations | Module |
|---|---|---|---|
| Poker service (`domain/service/PointPokerServiceImpl`) | none; a request is a sequence of calls on the others | createSession, joinSession, vote, reset, exitSession, broadcastEvents | `PokerSessions` |
| Sessions (`domain/entity/PokerSession`, `Participant`) | `participants`: user id -> participant with its vote | updateParticipant, resetVotes, removeParticipant | `PokerSessions` |
| Repository (`infra/db/repo/InMemoryPokerSessionRepositoryImpl`) | `pokerSessions`: id -> session | createOrGet, get, delete (`updatePokerSession` has no caller) | `PokerSessions` |
| Events (`domain/events`) | six immutable kinds | `compareTo` by time | `PokerEvents` |
| Listeners (`domain/events/listeners`) | none | one handler per kind of event | `UserEventQueues` |
| Event queues (`domain/service/SessionUserEventServiceImpl`, `EventQueue`) | session id -> user id -> queue; a queue has events and an `active` flag | createUserEventQueue, clearUserEventQueue, clearSession, broadcastEvent, getEventEmitter (`getUserEventQueue` and `enable` have no caller) | `UserEventQueues`, `VoteStreams` |
| Streams (`app/service/PoisonPillStrategy`) | one consumer thread and one `SseEmitter` per GET | execute, the consumer's loop | `VoteStreams` |
| Endpoints, error responses (`app/controller`, `app/exceptions`) | none | six endpoints, three exception handlers | partly: arrivals and ends of requests in `PokerSessions` |
| Authentication, users (`app/security`, `FakeApplicationUserDAOServiceImpl`) | a fixed list of users | HTTP basic authentication | not modelled |
| Web client, pages (`web/main…js`: `HomeComponent`, `SessionComponent`, `AppService`) | per page: `activeSession`, `voters`, `yourVote`; shared: `eventSource`, the credentials | createSession, joinSession, vote, resetVotes, exitSession, logout, authenticate; fetchVotes, the `onmessage` and `onerror` callbacks, the answers of the requests, navigation | `SessionPages` |
| Web client, event source (`web/scripts…js`: `SSE`) | `readyState`, `progress`, `chunk`, its `XMLHttpRequest` and whether it still loads | stream, close, the handlers of progress, load and failure | `SSE` |
| Swagger configuration; the client's loader and polyfills | none | | not modelled |

How they interact. A request calls the service, which changes a session and then
publishes an event (`multicastEvent`, asynchronous). The handler of the event
changes the queues: the creation of a session or a join gives its user a new queue,
a vote or a reset is put in every queue of the session, an automatic termination
clears them. A GET on the votes finds the user's queue and starts a consumer that
takes events from it and sends them, until a reset, the "poison pill", ends the stream.
In the browser a session page opens such a stream when the router gives it a session. A vote
that arrives is shown; a reset empties the page, closes the event source the application service
holds, which is the one opened last by whatever page, and opens another one.

What makes each part correct:

- service: a session is removed when the last user has left and only then; nobody
  is in a session the listeners have not been told of; a reset forgets all votes
  cast before it; events are published in an order the listeners can live with;
- queues: a handler calls a null only beside a removal that has overtaken it; a user finds its own, active queue; a broadcast leaves
  nobody out; what is left when all events are handled is what the events call for;
- streams: no queue gives an event twice, nothing after a reset, the reset is got to, and in a calm
  run nothing is lost or out of order;
- server: the service is a publisher the listeners are made for; whoever is in a
  session can be sent its votes;
- event source: messages in order and none twice, however the network cuts the response; each in time,
  unless a cut tears the end of one, after which there is nothing; nothing either after the handler in which it was closed;
- pages: a page shows votes of its own sessions only and listens once for every
  session it was given, whatever page is on the screen when an answer or a message comes;
  in a calm run it shows the votes of the round, over every reset.

The hazards, each at its line, are the list `hazards` in `PROJECT.json`. The ones that
matter most: unlocked check-then-act on three maps
(`PointPokerServiceImpl.java:94-97`, `SessionUserEventServiceImpl.java:29-43` and
`99-100`), handlers in any order, participants put back by a vote or a
reset after they have left (`PokerSession.java:25-39`), several consumers on one queue,
emitters that close under their consumer; in the client, one `eventSource` for all pages,
callbacks that go on after their page has been left, answers that come when another page is shown.

## Modules

| Module | Models | Uses |
|---|---|---|
| `PokerEvents` | the events, the sequence `published`, and `MayFollow`, the order of events the listeners count on | |
| `PokerSessions` | requests, sessions, repository | `PokerEvents` |
| `SessionLifecycle` | abstract specification: a session is opened once, closing begins when it is empty, closed is for good | |
| `SessionHistory` | history variables over `PokerSessions` | `PokerSessions` |
| `PokerSessionsProofs` | theorems about `PokerSessions` | `PokerSessions`, TLAPS |
| `SessionHistoryProofs` | theorems about `SessionHistory` | `SessionHistory`, `PokerSessionsProofs` |
| `UserEventQueues` | listeners and queues beside any publisher that keeps `MayFollow` | `PokerEvents` |
| `UserEventQueuesProofs` | theorems about `UserEventQueues` | `UserEventQueues`, TLAPS |
| `QueueHistory` | a history variable and a slower publisher over `UserEventQueues` | `UserEventQueues` |
| `QueueHistoryProofs` | theorems about `QueueHistory` | `QueueHistory`, `UserEventQueuesProofs` |
| `VoteStreams` | streams, beside the listeners and any client | `UserEventQueues` |
| `VoteStreamsProofs` | theorems about `VoteStreams` | `VoteStreams`, `UserEventQueuesProofs` |
| `PointPoker` | the whole server | `PokerSessions`, an instance of `VoteStreams` |
| `PointPokerProofs` | the server implements the environment of `VoteStreams`, and what follows from it | `PointPoker`, `PokerSessionsProofs`, an instance of `VoteStreamsProofs` |
| `SSE` | the event source of the client, and the text it reads | |
| `SSEProofs` | theorems about `SSE`, with the induction they need | `SSE`, TLAPS |
| `SessionPages` | the pages of one user's client, its requests and event sources, beside the listeners, the streams and all other clients | `VoteStreams` |
| `SessionPagesProofs` | theorems about `SessionPages` | `SessionPages`, `VoteStreamsProofs` |
| `MCPokerSessions`, `MCSessionHistory`, `MCQueueHistory`, `MCSessionPages` | symmetry sets for TLC | |

### How the model corresponds to the code

**Grain.** One call on one `ConcurrentHashMap`, `PriorityBlockingQueue` or
`AtomicBoolean` is one step; whatever lies between two calls may interleave with every
other thread. `pc[t]` (request threads), `handlers[n].at` (the thread of event n) and
`streams[k].at` (consumers) name the next call. Iterations over a `ConcurrentHashMap`
are weakly consistent: a reset passes the participants one by one, each as it is when it is passed (`resetScan`), and
`clear()` empties a map entry by entry (`Wipe`). The traversals of a map of queues (`Visit`, `Sweep`) go
from entry to entry, and a join beside them removes an entry and puts another for the same user. A traversal that stands
at another user's entry of the same bin may then meet the user again, in the new entry at the end of the bin; one that stands
at an entry already removed may still get to another removed one (`MeetingsOf`, `Meet`, `Miss`). Which users share a bin is left
open, as their hashes do. That a table is resized meanwhile, so that `clear()` starts over, is not modelled.
Two steps are coarser, and lose nothing: `createSession` puts session and creator in
one step, since the id is a random UUID nobody else has yet; `Install` puts the first queue
in a map that is still local and installs the map.

**Identity.** Session ids are random and never used twice, so a session object is known by
its id, and `participants` goes on being the object's map after `pokerSessions` has
lost the id. An event is known by its position in `published`; the map a handler installs
and the queue it brings along have the number of its event. `0` (`Null`) is Java's null.

**Requests.** `Receive` starts any request of any user on any id that exists, has existed, or
does not exist, except that nobody knows an id before createSession has returned it.
`LookupNotFound` and `ValidateStranger` are the two exceptions of the service (404, 403).
`Publish` is `now()` and `multicastEvent` in one: what may come between the two calls is
part of the time a handler takes to start, which is arbitrary. The clock does not run
backwards; two events may have the same time (`0 \in Ticks`).

**Handlers.** A `NullPointerException` is the end `failed`, a dropped event the end
`dropped`. Every operation asks a map whether it has an entry and gets it in a second call, so a removal between the two
leads to the first (`SessionUserEventServiceImpl.java:29-39`, `93-100`). `UserExited` calls `clearUserEventQueue` with the session id in place of the user id
(`UserExitedEventEventHandler.java:25`); no user id is a session id, so its action gets the
map and is done.

**Streams.** `getEventEmitter` reads the two maps anew at every call, and so do
`ContainsSession`, `GetUserMap` and `ContainsUser`. Of the `SseEmitter` the model keeps whether it is open,
timed out, left by the client or completed, and what has been sent. `send` on an
open emitter sends; on one the client has left it throws an `IOException`
(`SendFails`); on one that has timed out an `IllegalStateException`, which nothing
catches (`SendTooLate`). `take()` returns an event than which none in the queue is earlier; the
order of equal times is unspecified. The branch for `InterruptedException` is left out, nothing interrupts a consumer.

**Event source.** A response is a sequence of tokens: the field name, a line feed and the two
halves of a message's JSON, so that the network may cut everywhere it matters. `Split` is the
split at two line ends in a row, including the captured line end it puts between the parts;
`Parts`, `Lines` and `PassParts` go through a text token by token, as recursive functions (not operators), so that
they can be proved about. `Read` passes the parts as `_onStreamProgress` does, and a `JSON.parse` of two messages at once throws
and leaves the chunk as it is. Of the `XMLHttpRequest` the model keeps which events fire (`request`), apart from the
reference the source has to it (`xhr`). The page closes its source from within `onmessage`, at a reset, so `close` is part of the
handler that dispatches it: the loop over the parts is not stopped and hands out what the rest of the piece holds, and only then is the
source silent. `Close` is the same call from the handler of another source. `onStreamLoaded` asks for `xhr` before it passes the
text, but dispatches the buffer without asking, so that nothing but `abort()` keeps a closed source from it.
Not modelled is a page whose own handler throws, as that of a reset does when the user has logged out: the exception would leave the
chunk unemptied, and the message would be dispatched again later. "None twice" is said of handlers that do not throw, here and in `SessionPages`.
Assumed of the server, which writes the messages: data and an empty line, no event ids or
names, no line feed in the JSON.

**Pages.** JavaScript runs one handler after the other, so a handler is one step, everything it
calls included. `pages` has one record for every session component made; leaving the route only changes
`shown`. The router keeps the component when only the session's id changes, and then `ngOnInit`'s subscription
fetches again (`Navigate`, second disjunct). `sources[k]` is the event source of stream k, with how much of it the page
has been handed; `eventSource` is the application service's field. Without credentials `checkAuthorization`
throws, and `fetchVotes` opens nothing. Between emitter and page messages arrive as `SSE` says: in order, each
at any time after it was sent (`OnMessage`), and none any more once a cut has torn the end of one that more follows (`Tear`).
The requests on their way are a set, answered or refused in any order; what happens to a session elsewhere
(`Elsewhere`) is any event of any user the listeners are made for. Assumed: nobody else makes this user leave a session; the
user who logs in again is the same; a GET is refused only by the listeners' side (no queue). A page's
bounds are `MaxPages`, `MaxInFlight` and `StreamsLeft`, which publishes a reset or navigates only
while there is a stream for it.

**Left out everywhere**: display names, logging, the JSON of requests and responses,
and the value -1 that stands for "no story point" in an event (a vote always carries one).

Operators named `<action>_<mistake>` (`joinSession_silent`, `Take_peeks`, ...) are faulty
variants of the actions, each with a mistake that is easy to make in the code. No
specification uses them; replacing the action by its variant makes TLC find the property
named in `mutants` (`PROJECT.json`) violated.

## Runs

All bounds are constants: `MaxRequests` requests are accepted, `MaxEvents` events
published, `Streams` streams opened. Deadlock is not checked: with the bounds reached the
system rightly stops, and a consumer may wait for ever in `take()`.

| Run | Instance | Checks |
|---|---|---|
| `sessions` | 2 users, 2 sessions, 2 threads, 4 requests | `TypeOK`; `EmptySessionIsBeingTerminated`: an empty session in the repository has an exit on its way; `MembersWereIntroduced`: whoever is in a session has been announced; `TerminationsAreAnnounced`; `PublishesInOrder`: the contract `MayFollow`; `ImplementsLifecycle`, `ImplementsFairLifecycle`: refinement of `SessionLifecycle` without and with fairness |
| `session_history` | 2 users, 1 session, 2 points, 3 threads, 5 requests | `ResetForgetsEarlierVotes`; `EventsTellTheState`: for disciplined clients a follower of the events knows the session exactly |
| `queues` | 2 users, 2 sessions, any 4 events | `QueuesTypeOK`; `FailuresFollowRemovals`: a handler that called a null has been overtaken by a removal; `QueuesBelongToTheirUsers`; `DisabledQueuesAreLeaving`; `BroadcastsReachEverybody`; `SettledQueuesFollowEvents`: once the listeners settle, the queues are what the events call for |
| `streams` | 1 user, 2 streams, any 3 events of one millisecond | `DeliveryTypeOK`; `EventsAreGivenOnce`: by one queue, and to a user alone in its session over all its queues; `StreamsEndAtReset`; `OpenStreamsHaveConsumers`: an open stream nobody writes to has lost its queue; `ResetsEndStreams` (liveness): a reset in a queue in use, or before a consumer in `take()`, is got to |
| `sse` | a vote and a reset, 4 messages, every way to cut them | `SSETypeOK`; `MessagesArriveWhole`; `TornStreamsStaySilent`; `ClosedSourcesAreSilent` |
| `pages` | 1 user, 2 sessions, 2 pages, 3 streams, any 3 events, each handled before anything else happens | `PagesTypeOK`; `PagesListenOnce`; `PagesShowTheirSessions` |
| `page` | 2 users, 1 session, 1 page, 2 requests at a time, 3 streams, 3 events | `CalmStreamsAreComplete`; `CalmPagesShowTheRound`; `CalmPagesKnowYourVote`; `CalmPagesCatchUp` (liveness) |
| `server` | 1 user, 2 threads, 3 requests, 1 stream | `ImplementsDelivery`: the server refines the environment `VoteStreams` was checked in |
| `server_settled` | 2 users, 2 threads, 4 requests | `MembersHaveQueues` |
| `sessions_empty`, `queues_exit`, `server_test` | | violated on purpose: see Findings |

**Why the bounds are enough for what is asked.** Creation, a join, and the exits
of both users with something between them need four requests; two of them at a time show
every race of two, three threads (`session_history`) add a join or a vote to a reset
and another request. Each race of the handlers involves two events beside the creation that
makes the session known; four leave one to be broadcast. Three events (creation, vote,
reset) fill a queue and end a stream; two streams compete. Times only decide the order
in which events are taken: all equal (`streams`) allows every order, all different
(`page`) fixes it. Every place a cut can be at lies in two messages and the beginning of
a third. Two pages with two sessions are enough for a handler of one page to meet another page, a new route and
an answer that comes late; three streams allow one of them to follow a reset. One case of `PagesListenOnce` needs more
than run `pages` has: a page that has opened two sources and loses the later one to a reset on the earlier
one after a logout. It was found on a larger instance, and the theorem covers it.
`RushedEvents` bounds the events of a run of `page` that is not calm, where its properties say nothing.
Users, sessions, threads and points are interchangeable, which the `MC` modules use as symmetry. The theorems below do without bounds.

**Disciplines.** Some properties hold only for clients or schedulers that leave the system
time. They are spelled out, and the same properties fail without them:

- `Disciplined` (`EventsTellTheState`): a user makes one request at a time, and nothing else
  happens to a session during a reset. Otherwise change and event of two requests
  may come in different orders.
- `Settled` (`SettledQueuesFollowEvents`, `MembersHaveQueues`): an event that makes queues, or
  is meant to clear them, is published when all before it are handled, and handled before the next. Requests and
  broadcasts still overlap. Otherwise two creations race for the map, and queues are lost or leak.
- `calm` (the four properties of run `page`): every event is handled before the next, no two have the same
  time, no emitter in use closes early, no cut of a response tears a message, the user waits for every answer and stays logged in, and joins the session
  in the input field; `CalmStep` says so conjunct by conjunct. The run takes every other step, too, and the properties
  speak of the runs that have been calm so far.
- `SettledPagesSpec` (run `pages`): only the listeners' share of the interleavings is left out; user, answers,
  streams and messages interleave freely. The theorems are about `PagesSpec`, without it.

**Fairness.** `FairSpec` lets every request thread run on: no request waits for anything. `FairDeliverySpec` lets
every handler and every consumer run on, which is what the executors do
(a new thread per event, an unbounded pool for consumers); `take()` is enabled only
when there is an event. `FairPagesSpec` adds that the browser hands a page what
has arrived, as long as its source is open: of a torn one nothing is expected, and `CalmPagesCatchUp` holds of it because a run with a tear
is not calm.
Nothing is assumed of users, clients or time-outs, nor that a request is answered.

## Findings

- **A session is terminated with a participant in it** (`TerminatesOnlyEmptySessions`). A join that has
  found the session enters it between `isEmpty()` and `removePokerSession()` of the last exit
  (`PointPokerServiceImpl.java:94-97`), against the comment "If last user exited then terminate
  the session" (line 93). `ImplementsLifecycle` says what does hold: closing begins when the session is empty.
- **The queue of a user who exits is never cleared** (`ExitClearsTheUsersQueue`).
  `UserExitedEventEventHandler.java:25` passes the session id where `SessionUserEventService.java:16` wants the user id.
- **A stream may end without the vote before its reset** (`TestSeesTwoEvents`). The client of
  `ServiceControllerTest.fetchVoteEvents_shouldSucceed200` is replayed; the assertion of line 185, two events,
  depends on the order in which independent threads handle the events.

Seen on the way and not stated as runs: a user whose join replaces its queue while a broadcast goes round
the map may get the event from the old queue and again from the new one, if another user's entry lies between them in the bin
(`EventsAreGivenOnce` says that a user alone in the session does not); a handler beside a termination of its session or a second creation of
the user's queue may call a null, and its event is lost (`FailuresFollowRemovals` says that no other does); a consumer that comes to
`isActive()` after its queue was retired leaves the reset in it and its emitter open; a page whose handler throws
gets the same message again; a vote handled before the creation of
its session is dropped as if the session did not exist (`SessionUserEventServiceImpl.java:94-97`);
a termination handled before a creation or join leaves the
map made later for ever; a consumer that waits on a cleared queue never returns; an emitter
whose queue is disabled is not completed and hangs until it times out. In the client: the
handler of a reset closes the source opened last, so a page left earlier silences
the one on the screen, whose votes then stay as they are (`PagesListenOnce` says that no other way leads there but a logout
in between); a network cut between the two line feeds of a message, with more text after it, ends a stream for the page although
it stays open (`TornStreamsStaySilent`); nothing reopens a stream that is refused or times out; the
exit button only navigates, and the client's `exitSession` call, which nothing uses, has the address of a join; the answer
to a vote is shown by whatever session the page has by then, and may overtake a reset; the
answer to a join leads to the session in the input field at that time.

## Proofs

`PokerSessionsProofs` proves, for any numbers of users, sessions, threads, points and requests, under the
named assumptions `EventsAssumption` and `ServiceAssumption` (users and sessions have different ids,
`NoVote` and `Absent` are not votes, `Ticks` and the bound are natural numbers):

| Theorem | Statement | Argument |
|---|---|---|
| `TypeCorrect` | `Spec => []TypeOK` | inductive with `PlacesOK`: which request a thread serves is determined by its place; without it `request[t].user` need not exist |
| `EmptySessionsAreBeingTerminated` | `Spec => []EmptySessionIsBeingTerminated` | inductive over `TInv`: `MembersChange` says which step changes who is in a session, only an exit takes a user out, and it leaves by `publish` and `check`, where it finds the session empty unless somebody is back |
| `MembersAreIntroduced` | `Spec => []MembersWereIntroduced` | strengthened by `HeldIntroduced`: the users whom a thread past validation may put back have been introduced, too |
| `TerminationsAgree` | `Spec => []TerminationsAreAnnounced` | with `IdsInv`: whatever is past the lookup, published or has members is an issued id |
| `EventsInOrder` | `Spec => PublishesInOrder` | with `OrderInv`: while a session is being created nobody else works on it and it has no event; an exit that checks has published its event |
| `LifecycleImplemented` | `Spec => ImplementsLifecycle` | step simulation with `Phase` and `Members` as refinement mapping, from `MembersChange`, `ClosingChange` and `PhaseChange` |
| `ResetsForget` (`SessionHistoryProofs`) | `HistorySpec => ResetForgetsEarlierVotes` | a reset passes all participants before it puts back the first; until it returns, a vote older than the reset belongs to a participant it has still to pass or to put back (`ForgetInv`) |
| `EventsSuffice` (`SessionHistoryProofs`) | `HistorySpec => []EventsTellTheState` | a history variable, `seen`, is what a follower of the events has of each session so far. `Told`: it is the session's own state but for what a request at work has still to tell, which is one participant between a change and its event, and all of them while a reset runs (`Untold`); `ChangesStand` and `ResetsStand`: in a disciplined run nothing comes between the change and the event |

`UserEventQueuesProofs` does the same for the listeners, for any numbers of users, sessions and
events, under `EventsAssumption` and `QueuesAssumption`:

| Theorem | Statement | Argument |
|---|---|---|
| `QueuesTypeCorrect` | `ListenersSpec => []QueuesTypeOK` | inductive with `AuthorsAreUsers`: only a termination has no user for an author, and it never asks for a user's queue. Says what a handler has in hand at each place, not that it never calls a null, which it may |
| `FailuresAreOvertaken` | `ListenersSpec => []FailuresFollowRemovals` | `NullsFollow` says it of every null a handler may come upon, before it has called it: a map the session had and has not, and a user's entry that was there when the handler looked, have each been removed by a handler past that place |
| `DisabledQueuesLeave` | `ListenersSpec => []DisabledQueuesAreLeaving` | a queue is in one map only, and the handler that disabled a queue still in its map is known by its place (`Removes`) |
| `QueuesAreOwned` | `ListenersSpec => []QueuesBelongToTheirUsers` | the property speaks of the maps attached to a session; `OwnInv` speaks of all maps (`MapsOwned`), of the map of each session (`AttachedOwned`), of what every handler holds (`HeldOwned`) and of the contents of all queues (`EventsOwned`), since a handler goes on working on maps and queues that are attached no longer |
| `BroadcastsReach` (`QueueHistoryProofs`) | `HistorySpec => BroadcastsReachEverybody` | a queue is put into a map once, by the handler that made it, so one that was there at the start and is there now was there all the time; until a broadcast returns, the user of such a queue is still to be visited, or the event is about to be added, or is in it (`ReachInv`) |
| `QueuesFollowEvents` (`QueueHistoryProofs`) | `HistorySpec => []SettledQueuesFollowEvents` | `SettledInv`: in a settled run a handler works on the map the session has and what it was told of it is still so, and unless a handler is changing it, the user's queue is the one the events call for (`QueueFollows`); `TidyInv`: what a handler will bring along nobody has yet; `EventsFollow` adds the broadcasts, each in the queue or coming |

`VoteStreamsProofs` adds the streams, under the same assumptions and for any number of streams:

| Theorem | Statement | Argument |
|---|---|---|
| `DeliveryTypeCorrect` | `DeliverySpec => []DeliveryTypeOK` | inductive with `WellFormed`: what a stream has of map, queue and event is determined by its place |
| `StreamsAreOfOneRound` | `DeliverySpec => []StreamsEndAtReset` | `DInv`: the ownership of the queues (`OwnInv`) and of what every stream has taken (`StreamsOwned`) |
| `OpenStreamsAreServed` | `DeliverySpec => []OpenStreamsHaveConsumers` | a consumer leaves its loop only at an inactive queue, and an inactive queue stays so |
| `EventsGivenOnce` | `DeliverySpec => []EventsAreGivenOnce` | for one queue `OnceInv`: an event is in it, taken from it, or still to be put in it by its one handler. For a user alone in its session `AloneInv`: a traversal that has met one queue of the user has none ahead that is in the map, as nobody else's entry is there to stand at |
| `AnnouncedUsersHaveQueues` | `SettledDeliverySpec => []AnnouncedHaveQueues` | the invariants of `QueuesFollowEvents` hold beside any streams, too (`KeepingInv`), and a user who has been announced is due a queue until the session ends (`AnnouncedAreDue`) |

These are theorems about *any* publisher and *any* clients. Two refinements say that the program's
own are among them, and so carry every `DeliverySpec` theorem over:

| Theorem | Statement | Argument |
|---|---|---|
| `DeliveryImplemented` (`PointPokerProofs`) | `ServerSpec => ImplementsDelivery` | each step of the server is one of the publisher, a listener or a stream; the service's events keep `MayFollow` by the invariant of `EventsInOrder`, they never run out (`MaxEvents >= 2 * MaxRequests`) by counting what the requests in progress may still publish (`BudgetInv`) |
| `PagesAreClients` (`SessionPagesProofs`) | `PagesSpec => DeliverySpec` | each step of the client is one of `VoteStreams` or leaves it alone; needs that requests name sessions (`RequestsOK`) |

From the first of them, `AnnouncedUsersHaveQueues` and `MembersAreIntroduced` follows what neither part says alone:
`MembersCanBeServed` (`PointPokerProofs`), `SettledServerSpec => []MembersHaveQueues`. The theorems about the streams are used
there through the instance `Proved` of their module, under the substitution that makes the server a `VoteStreams`.

`SessionPagesProofs` goes on to the pages, for any number of pages, streams, requests, users, sessions and events, under
`PagesAssumption` (streams are a finite set of numbers):

| Theorem | Statement | Argument |
|---|---|---|
| `PagesTypeCorrect` | `PagesSpec => []PagesTypeOK` | `PInv` adds to `DInv` that sources and streams keep step and that the source the application service knows was opened; `PagesSound` reduces every step to one of four page moves |
| `PagesShowTheirOwn` | `PagesSpec => []PagesShowTheirSessions` | inductive over `PInv`: a vote comes from a stream of the page's own source, and sources, sessions of streams and events last |
| `PagesListenOncePerSession` | `PagesSpec => []PagesListenOnce` | the property does not count far enough by itself. `ListenInv` counts a page's sources against the sessions given and the resets got: a handled reset frees one before the next is opened (`SourcesMove`, `CountAdded`, `CountApart`). It also needs that sources are opened in the order of their numbers |
| `CalmStreamsComplete` | `PagesSpec => []CalmStreamsAreComplete` | `PatientInv`: while every event is handled before the next, events are put in and taken in the order of their numbers; `KeptInv`: unless a handler is changing the map, what is in the queue, taken from it or coming is all since the queue was made. That no stream loses an event it has taken needs the client: `CalmInv` (one request at a time, an answer is noticed while it is the last event) and `LoneInv` (the last source is the one that is open, every other has got its reset or was refused, no emitter closes early) |
| `CalmPagesShowRound` | `PagesSpec => []CalmPagesShowTheRound` | with `PageShows`: the page shows everybody's last vote among the messages of its last source; `StreamsInTurn`: a stream on a queue takes nothing before all of the stream before it. When the page has caught up, each earlier stream has ended with a reset, so the last one has the votes of the round and nothing else (`RestReached`) |
| `CalmPagesKnowVote` | `PagesSpec => []CalmPagesKnowYourVote` | with `VoteKnown`: what is shown above is the user's last vote but for the one whose answer is on its way, and later than every reset the page was handed |

The three calm theorems share one inductive invariant, `LonesInv`; its parts `PageShows`, `StreamsInTurn` and `VoteKnown` are needed
together with the rest, since each step of a calm run is one of a few (`LoneMove`) only as long as all of them hold.

`SSEProofs` is about the event source by itself, for any payloads, any number of messages and any cuts:

| Theorem | Statement | Argument |
|---|---|---|
| `ClosedSourcesStaySilent` | `SSESpec => ClosedSourcesAreSilent` | `ClosedIsDone`: the request of a closed source is done. `close()` sets `CLOSED` amid a piece, too, and the loop goes on; what makes the source silent after it is that it also aborts the request, since the load handler dispatches the buffer without looking at `readyState` |
| `SSETypeCorrect` | `SSESpec => []SSETypeOK` | `SSEInv`, the inductive invariant of all three |
| `WholeMessages` | `SSESpec => []MessagesArriveWhole` | the property says nothing of the buffer, so it is not inductive. `SSEInv` adds what the buffer holds at every place a response can be cut (`Whole`): not its text, which a line feed left over may precede, but the lines that parsing it yields. Within a handler `InHand` says the same after every token (`InHandStep`), so that splitting at two line feeds and joining parts undo each other |
| `TornIsSilent` | `SSESpec => TornStreamsStaySilent` | after a tear (`Jammed`) the buffer parses to more than the two halves of a message, and does so whatever is joined to it (`TearLines`), so that every later dispatch throws (`SpoiltPart`) |

These are statements about recursive functions on sequences of any length. The library's induction theorems
take the statement to be proved as an operator parameter, which the provers cannot instantiate; `Least`, `Induct` and
`SeqInduct` state induction for sets, from the library's theorem that inclusion of finite sets is well-founded, and
`FoldExists` shows that the recursive functions exist.

Only model-checked: every liveness property and the fair refinement, since reasoning under fairness is out of the
provers' reach. Every other property of a passing run is stated by a theorem.

## Not modelled, and why

- Authentication and users: declarative Spring Security configuration over a fixed list that never changes. The
  client's own share of it, its credentials, is in `SessionPages`.
- Endpoints and error responses: where a request ends, and with which exception, is in
  `PokerSessions`; the bodies and the statuses are a mapping without state.
- Wiring: the executors are what the interleavings of the models rest on; injecting beans has no behaviour.
- The client's framework and its loader and polyfills are third-party or generated; the framework appears as the order
  in which it calls the components.
- Swagger: configuration of a generator of documentation.

## Plan

Done: service, listeners, streams and the whole server; the client's pages and event source; the
theorems above, with the two refinements that connect the parts.

What is left, in this order:

1. an abstract specification of delivery (what a user is shown, in terms of the events alone) that the calm
   streams and pages implement, beside the four calm properties;
2. the endpoints with the status every request ends with, against the service's exceptions;
3. `PriorityBlockingQueue` as the binary heap it is, checked against `Earliest`.
