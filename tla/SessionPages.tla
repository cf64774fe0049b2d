---------------------------- MODULE SessionPages ----------------------------
(***************************************************************************)
(* The web client of one user: the home page, the session pages and the    *)
(* application service they share, beside the listeners and the streams of *)
(* VoteStreams and the other clients of the service.                       *)
(*                                                                         *)
(* A page is one session component.  It is made when the route of a        *)
(* session is entered and its callbacks live on after the route is left:   *)
(* nothing closes an event source but the handler of a reset, and that one *)
(* closes whatever source the application service has opened last.  Source *)
(* k reads stream k.  JavaScript runs one handler after the other, so a    *)
(* handler is one step.                                                    *)
(*                                                                         *)
(* Between emitter and page, messages arrive as SSE says: in order and     *)
(* none twice, and none at all once a cut of the response has torn the end *)
(* of one.  As there, a page whose handler throws (OnReset without         *)
(* credentials) is not handed that message again.                          *)
(***************************************************************************)
EXTENDS VoteStreams, SequencesExt

CONSTANTS
  Me,           \* the user of this client
  MaxPages,     \* bound on the session pages made
  MaxInFlight,  \* bound on the requests not yet answered
  EarlyEnds,    \* bound on how an emitter may be closed early
  RushedEvents  \* bound on the events published in a run that is not calm

ASSUME PagesAssumption ==
  /\ Me \in Users
  /\ Streams \subseteq Nat \ {Null}
  /\ IsFiniteSet(Streams)
  /\ EarlyEnds \subseteq {"timedOut", "gone"}
  /\ {MaxPages, MaxInFlight, RushedEvents} \subseteq Nat

VARIABLES
  pages,        \* every session component made so far
  shown,        \* the page on the screen, or 0: the home or the login page
  sources,      \* the event source of every stream
  eventSource,  \* the application service's: the source opened last, or Null
  credentials,  \* the application service's: whether the user has logged in
  requests,     \* requests on their way, or answered and not yet noticed
  calm          \* history: whether every step so far was a CalmStep

browserVars == <<pages, shown, sources, eventSource, credentials, requests>>
clientVars == <<deliveryVars, browserVars, calm>>

StoryPoints == Points \cup {NoVote}

\* voters: the story point shown for every user, yourVote: the one shown
\* above; navigations: how often the page has been given a session
Page == [activeSession : Sessions, voters : [Users -> StoryPoints],
         yourVote : StoryPoints, navigations : Nat]

Source == [page : Nat, got : Nat, state : {"none", "open", "torn", "closed"}]

PageRequest == [op : {"create", "join", "vote", "reset"}, page : Nat,
                sid : Sessions \cup {Null}, point : StoryPoints, answered : BOOLEAN]

PagesTypeOK ==
  /\ pages \in Seq(Page)
  /\ shown \in 0 .. Len(pages)
  /\ sources \in [Streams -> Source]
  /\ eventSource \in Streams \cup {Null}
  /\ credentials \in BOOLEAN
  /\ requests \subseteq PageRequest
  /\ calm \in BOOLEAN
  /\ \A k \in Streams :
       /\ sources[k].state = "none" <=> streams[k].at = "unopened"
       /\ sources[k].state # "none" => sources[k].page \in DOMAIN pages
       /\ sources[k].got <= Len(streams[k].sent)

NobodyVoted == [u \in Users |-> NoVote]

PagesInit ==
  /\ DeliveryInit
  /\ pages = <<>>
  /\ shown = 0
  /\ sources = [k \in Streams |-> [page |-> 0, got |-> 0, state |-> "none"]]
  /\ eventSource = Null
  /\ credentials = TRUE
  /\ requests = {}
  /\ calm = TRUE

-----------------------------------------------------------------------------
\* Streams are opened in the order of their numbers.
IsNext(k) ==
  /\ streams[k].at = "unopened"
  /\ \A l \in Streams : streams[l].at = "unopened" => k <= l

(***************************************************************************)
(* fetchVotes of page p: getEventSourceWithGet(activeSession), stream().   *)
(* The event sources are `rest` otherwise.                                 *)
(***************************************************************************)
FetchVotes(p, s, rest) ==
  \/ /\ credentials
     /\ \E k \in Streams :
          /\ IsNext(k)
          /\ OpenStream(k, s, Me)
          /\ sources' = [rest EXCEPT ![k] = [page |-> p, got |-> 0, state |-> "open"]]
          /\ eventSource' = k
  \/ /\ ~credentials  \* checkAuthorization() throws
     /\ sources' = rest
     /\ UNCHANGED <<deliveryVars, eventSource>>

\* A navigation and a reset that is handled take one stream each.
StreamsLeft ==
  MapThenSumSet(LAMBDA p : pages[p].navigations, DOMAIN pages)
    + Cardinality({n \in DOMAIN published : published[n].type = VoteReset})
    < Cardinality(Streams)

\* router.navigate(["/session", s]), or the browser's history.  The router
\* keeps a session page that is on the screen and only tells it the new id,
\* and ignores the address that is shown already.
Navigate(s) ==
  \/ /\ shown = 0
     /\ Len(pages) < MaxPages /\ StreamsLeft
     /\ pages' = Append(pages, [activeSession |-> s, voters |-> NobodyVoted,
                                yourVote |-> NoVote, navigations |-> 1])
     /\ shown' = Len(pages) + 1
     /\ FetchVotes(Len(pages) + 1, s, sources)
  \/ /\ shown # 0 /\ pages[shown].activeSession # s
     /\ StreamsLeft
     /\ pages' = [pages EXCEPT ![shown].activeSession = s, ![shown].navigations = @ + 1]
     /\ FetchVotes(shown, s, sources)
     /\ UNCHANGED shown
  \/ /\ shown # 0 /\ pages[shown].activeSession = s
     /\ UNCHANGED <<deliveryVars, pages, shown, sources, eventSource>>

-----------------------------------------------------------------------------
\* What the user does: a click that makes a request, and navigation.  Without
\* credentials every request is refused.
Ask(op, s, point) ==
  /\ credentials
  /\ Cardinality(requests) < MaxInFlight
  /\ requests' = requests \cup {[op |-> op, page |-> shown, sid |-> s, point |-> point,
                                 answered |-> FALSE]}
  /\ UNCHANGED <<deliveryVars, pages, shown, sources, eventSource, credentials>>

createSession == shown = 0 /\ Ask("create", Null, NoVote)

joinSession(s) == shown = 0 /\ Ask("join", s, NoVote)

logout ==
  /\ shown = 0 /\ credentials
  /\ credentials' = FALSE
  /\ UNCHANGED <<deliveryVars, pages, shown, sources, eventSource, requests>>

\* The same user again; the header is set before the answer comes.
authenticate ==
  /\ shown = 0 /\ ~credentials
  /\ credentials' = TRUE
  /\ UNCHANGED <<deliveryVars, pages, shown, sources, eventSource, requests>>

vote(point) == shown # 0 /\ Ask("vote", pages[shown].activeSession, point)

resetVotes == shown # 0 /\ Ask("reset", pages[shown].activeSession, NoVote)

\* (faulty variant: the page is gone with its route, its callbacks are not)
exitSession_destroys ==
  /\ shown # 0
  /\ shown' = 0
  /\ pages' = RemoveAt(pages, shown)
  /\ UNCHANGED <<deliveryVars, sources, eventSource, credentials, requests>>

\* The button tells the service nothing, and closes no event source.
exitSession ==
  /\ shown # 0
  /\ shown' = 0
  /\ UNCHANGED <<deliveryVars, pages, sources, eventSource, credentials, requests>>

\* The browser's history has every session shown before.
GoBack(s) ==
  /\ \E k \in Streams : sources[k].state # "none" /\ streams[k].sid = s
  /\ shown # 0 => pages[shown].activeSession # s
  /\ Navigate(s)
  /\ UNCHANGED <<credentials, requests>>

-----------------------------------------------------------------------------
\* The service does what a request asks for and answers it, or refuses it, of
\* which the page tells the user and no more.
EventTypeOf(op) ==
  CASE op = "create" -> SessionCreated
    [] op = "join"   -> UserJoined
    [] op = "vote"   -> UserVoted
    [] op = "reset"  -> VoteReset

Serve(r) ==
  /\ ~r.answered
  /\ \E s \in IF r.op = "create" THEN Sessions ELSE {r.sid}, d \in Ticks :
       /\ MulticastEvent([type |-> EventTypeOf(r.op), sid |-> s, uid |-> Me,
                          point |-> r.point, ts |-> LastTime + d])
       /\ requests' = (requests \ {r}) \cup {[r EXCEPT !.sid = s, !.answered = TRUE]}
  /\ r.op = "reset" => StreamsLeft
  /\ UNCHANGED <<streams, pages, shown, sources, eventSource, credentials>>

Refuse(r) ==
  /\ ~r.answered
  /\ requests' = requests \ {r}
  /\ UNCHANGED <<deliveryVars, pages, shown, sources, eventSource, credentials>>

\* The other clients, another one of this user among them; nobody makes this
\* user leave a session.
Elsewhere(ev) ==
  /\ MulticastEvent(ev)
  /\ ev.type = UserExited => ev.uid # Me
  /\ ev.type = AutoTerminated => ~Announced(ev.sid, Me)
  /\ ev.type = VoteReset => StreamsLeft
  /\ UNCHANGED <<streams, browserVars>>

\* The answer, whatever page is on the screen by then.  That of a join leads to
\* the session whose id is in the input field then.
Answered(r) ==
  /\ r.answered
  /\ requests' = requests \ {r}
  /\ UNCHANGED credentials
  /\ \/ r.op = "create" /\ Navigate(r.sid)
     \/ r.op = "join" /\ \E s \in Sessions : Navigate(s)
     \/ /\ r.op = "vote"
        /\ pages' = [pages EXCEPT ![r.page].yourVote = r.point]
        /\ UNCHANGED <<deliveryVars, shown, sources, eventSource>>
     \/ r.op = "reset" /\ UNCHANGED <<deliveryVars, pages, shown, sources, eventSource>>

-----------------------------------------------------------------------------
\* The message source k is handed next
Handed(k) == published[streams[k].sent[sources[k].got + 1]]

HasMessage(k) == sources[k].state = "open" /\ sources[k].got < Len(streams[k].sent)

(***************************************************************************)
(* Faulty variants of the two handlers below, each with a mistake that is  *)
(* easy to make in the code.  PagesNext has none of them; they are there   *)
(* to show that the properties tell them from the real ones.               *)
(***************************************************************************)

\* The vote goes to the page on the screen
OnVote_shown(k) ==
  /\ HasMessage(k) /\ Handed(k).type = UserVoted
  /\ pages' = IF shown = 0 THEN pages
              ELSE [pages EXCEPT ![shown].voters[Handed(k).uid] = Handed(k).point]
  /\ sources' = [sources EXCEPT ![k].got = @ + 1]
  /\ UNCHANGED <<deliveryVars, shown, eventSource, credentials, requests>>

\* fetchVotes() before closeEventSource(), which closes the new source then
OnReset_fetchesFirst(k) ==
  LET p == sources[k].page
  IN  /\ HasMessage(k) /\ Handed(k).type = VoteReset
      /\ credentials
      /\ pages' = [pages EXCEPT ![p].voters = NobodyVoted, ![p].yourVote = NoVote]
      /\ \E l \in Streams :
           /\ IsNext(l)
           /\ OpenStream(l, pages[p].activeSession, Me)
           /\ sources' = [sources EXCEPT ![k].got = @ + 1,
                             ![l] = [page |-> p, got |-> 0, state |-> "closed"]]
           /\ eventSource' = l
      /\ UNCHANGED <<shown, credentials, requests>>

\* The votes, or the user's own, are left on the page
OnReset_keepsVoters(k) ==
  LET p == sources[k].page
  IN  /\ HasMessage(k) /\ Handed(k).type = VoteReset
      /\ pages' = [pages EXCEPT ![p].yourVote = NoVote]
      /\ FetchVotes(p, pages[p].activeSession,
                    [sources EXCEPT ![k].got = @ + 1, ![eventSource].state = "closed"])
      /\ UNCHANGED <<shown, credentials, requests>>

OnReset_keepsYourVote(k) ==
  LET p == sources[k].page
  IN  /\ HasMessage(k) /\ Handed(k).type = VoteReset
      /\ pages' = [pages EXCEPT ![p].voters = NobodyVoted]
      /\ FetchVotes(p, pages[p].activeSession,
                    [sources EXCEPT ![k].got = @ + 1, ![eventSource].state = "closed"])
      /\ UNCHANGED <<shown, credentials, requests>>

\* No fetchVotes()
OnReset_stays(k) ==
  LET p == sources[k].page
  IN  /\ HasMessage(k) /\ Handed(k).type = VoteReset
      /\ pages' = [pages EXCEPT ![p].voters = NobodyVoted, ![p].yourVote = NoVote]
      /\ sources' = [sources EXCEPT ![k].got = @ + 1, ![eventSource].state = "closed"]
      /\ UNCHANGED <<deliveryVars, shown, eventSource, credentials, requests>>

-----------------------------------------------------------------------------
OnVote(k) ==
  /\ HasMessage(k) /\ Handed(k).type = UserVoted
  /\ pages' = [pages EXCEPT ![sources[k].page].voters[Handed(k).uid] = Handed(k).point]
  /\ sources' = [sources EXCEPT ![k].got = @ + 1]
  /\ UNCHANGED <<deliveryVars, shown, eventSource, credentials, requests>>

\* closeEventSource() closes the source the application service knows, which
\* may be another page's; then fetchVotes() opens one for this page.
OnReset(k) ==
  LET p == sources[k].page
  IN  /\ HasMessage(k) /\ Handed(k).type = VoteReset
      /\ pages' = [pages EXCEPT ![p].voters = NobodyVoted, ![p].yourVote = NoVote]
      /\ FetchVotes(p, pages[p].activeSession,
                    [sources EXCEPT ![k].got = @ + 1, ![eventSource].state = "closed"])
      /\ UNCHANGED <<shown, credentials, requests>>

OnMessage(k) == OnVote(k) \/ OnReset(k)

\* A cut tears the end of the next message: its last line feed is read together
\* with the beginning of the message after it.  The source is silent from then
\* on, until its response is over and beyond.
Tear(k) ==
  /\ sources[k].state = "open"
  /\ sources[k].got + 1 < Len(streams[k].sent)
  /\ sources' = [sources EXCEPT ![k].state = "torn"]
  /\ UNCHANGED <<deliveryVars, pages, shown, eventSource, credentials, requests>>

\* The response is over: refused, timed out or completed with all of it read,
\* or the connection broken.  The page only logs it.
OnEnd(k) ==
  /\ sources[k].state = "open"
  /\ \/ streams[k].at = "refused"
     \/ streams[k].emitter \in {"timedOut", "completed"} /\ ~HasMessage(k)
     \/ streams[k].emitter = "gone"
  /\ sources' = [sources EXCEPT ![k].state = "closed"]
  /\ UNCHANGED <<deliveryVars, pages, shown, eventSource, credentials, requests>>

-----------------------------------------------------------------------------
UserStep ==
  \/ createSession \/ resetVotes \/ exitSession \/ logout \/ authenticate
  \/ \E s \in Sessions : joinSession(s) \/ GoBack(s)
  \/ \E point \in Points : vote(point)

ServiceStep ==
  \/ \E r \in requests : Serve(r) \/ Refuse(r) \/ Answered(r)
  \/ \E d \in Ticks : \E ev \in EventsAt(LastTime + d) : Elsewhere(ev)

ServerStep ==
  /\ UNCHANGED browserVars
  /\ \/ \E n \in Ids : HandlerStep(n) /\ UNCHANGED streams
     \/ \E k \in Streams : StreamStep(k)
     \/ \E k \in Streams : CloseEmitter(k) /\ streams'[k].emitter \in EarlyEnds

(***************************************************************************)
(* In a calm run the listeners have handled every event before the next is *)
(* published, and made the queues before a page asks for its votes; no two *)
(* events share a millisecond; the user waits for every answer, and it is  *)
(* noticed before anything else happens in the service and leads to the    *)
(* session that was joined; no emitter in use is closed early and no       *)
(* message torn; and the user has no other client and stays logged in.     *)
(***************************************************************************)
CalmStep ==
  /\ credentials'
  /\ Cardinality(requests') <= 1
  /\ \A r \in requests :
       r.op = "join" /\ r.answered /\ requests' = {} /\ shown' # 0 =>
         pages'[shown'].activeSession = r.sid
  /\ published' # published =>
       /\ AllHandled
       /\ published'[Len(published')].ts > LastTime
       /\ \A r \in requests : ~r.answered
       /\ published'[Len(published')].uid = Me => requests' # requests
  /\ eventSource' # eventSource =>
       \A n \in DOMAIN published : published[n].type \in Creates => Handled(n)
  /\ \A k \in Streams :
       /\ streams'[k].emitter \in {"timedOut", "gone"} => sources[k].state = "closed"
       /\ sources'[k].state # "torn"

Watch ==
  /\ calm' = (calm /\ CalmStep)
  /\ calm' \/ Len(published') <= RushedEvents

PagesNext ==
  /\ UserStep \/ ServiceStep \/ ServerStep
     \/ \E k \in Streams : OnMessage(k) \/ OnEnd(k) \/ Tear(k)
  /\ Watch

PagesSpec == PagesInit /\ [][PagesNext]_clientVars

\* The client when the listeners handle an event before anything else happens.
SettledPagesSpec ==
  /\ PagesInit
  /\ [][/\ PagesNext
        /\ ~AllHandled => UNCHANGED <<published, streams, browserVars>>]_clientVars

\* Handler and consumer threads keep running, and the browser hands a page
\* what has arrived whole.
PagesFairness ==
  /\ \A n \in Ids :
       WF_clientVars(HandlerStep(n) /\ UNCHANGED <<streams, browserVars>> /\ Watch)
  /\ \A k \in Streams :
       /\ WF_clientVars(StreamStep(k) /\ UNCHANGED browserVars /\ Watch)
       /\ WF_clientVars(OnMessage(k) /\ Watch)

FairPagesSpec == PagesSpec /\ PagesFairness

-----------------------------------------------------------------------------
Got(k) == {streams[k].sent[i] : i \in 1 .. sources[k].got}

ResetsGot(k) == {n \in Got(k) : published[n].type = VoteReset}

\* Source k may still be handed something.
Listens(k) == sources[k].state = "open" /\ ResetsGot(k) = {}

SourcesOf(p) == {k \in Streams : sources[k].state # "none" /\ sources[k].page = p}

ListeningOf(p) == {k \in SourcesOf(p) : Listens(k)}

ResetOf(p) == {k \in SourcesOf(p) : ResetsGot(k) # {}}

\* The last source of page p has been closed here, and not because its stream
\* was over.
Silenced(p, k) ==
  /\ k \in SourcesOf(p)
  /\ \A l \in SourcesOf(p) : l <= k
  /\ sources[k].state = "closed" /\ ResetsGot(k) = {}
  /\ streams[k].at # "refused"
  /\ streams[k].emitter \in {"none", "open"}

(***************************************************************************)
(* However resets, answers and navigation of several pages interleave, a   *)
(* page listens to no more than one stream for every time it was given a   *)
(* session: its own streams do not compete for the events of its queue.    *)
(* And a page whose last source was closed here, with no reset on it, has  *)
(* lost it to the handler of another source's reset: of another page's, or *)
(* of an older one of its own when nobody was logged in, so that it opened *)
(* less sources than it was given sessions and resets.                     *)
(***************************************************************************)
PagesListenOnce ==
  \A p \in DOMAIN pages :
    /\ Cardinality(ListeningOf(p)) <= pages[p].navigations
    /\ \A k \in Streams :
         Silenced(p, k) =>
           \E l \in Streams \ {k} :
             /\ ResetsGot(l) # {}
             /\ \/ sources[l].page # p
                \/ Cardinality(SourcesOf(p)) < pages[p].navigations + Cardinality(ResetOf(p))

(***************************************************************************)
(* A page shows for a user no story point but one this user has voted in a *)
(* session the page was given, although pages share the application        *)
(* service, outlive their route and are told another session under way.    *)
(***************************************************************************)
PagesShowTheirSessions ==
  \A p \in DOMAIN pages, u \in Users :
    pages[p].voters[u] # NoVote =>
      \E n \in DOMAIN published :
        /\ published[n].type = UserVoted
        /\ published[n].uid = u
        /\ published[n].point = pages[p].voters[u]
        /\ published[n].sid \in {streams[k].sid : k \in SourcesOf(p)}

-----------------------------------------------------------------------------
\* The votes a user of session s would count: the latest of everybody since
\* the last reset, of the events since queue q was made
Round(q, s) ==
  {n \in After(q, s, {UserVoted}) : \A m \in After(q, s, {VoteReset}) : m < n}

LatestVotes(q, s) ==
  [u \in Users |->
     LET mine == {n \in Round(q, s) : published[n].uid = u}
     IN  IF mine = {} THEN NoVote ELSE published[Max(mine)].point]

\* The only page of the session reads the queue its user has.
Current(p) ==
  LET s == pages[p].activeSession
      k == Max(SourcesOf(p))
  IN  /\ pages[p].navigations = 1 /\ Len(pages) = 1
      /\ SourcesOf(p) # {}
      /\ streams[k].queue # Null
      /\ streams[k].queue = Registered(s, Me)

CaughtUp(p) ==
  LET k == Max(SourcesOf(p))
  IN  /\ AllHandled
      /\ eventQueues[streams[k].queue].events = {}
      /\ streams[k].holding = Null
      /\ sources[k].got = Len(streams[k].sent)
      /\ sources[k].state = "open" /\ Listens(k)

(***************************************************************************)
(* In a calm run with one page no vote and no reset gets lost or           *)
(* overtaken: what has been taken from the user's queue and what is still  *)
(* in it are all the votes and resets of the session since the queue was   *)
(* made, the earlier ones have been taken first, and every stream carries  *)
(* them in the order they were made.                                       *)
(***************************************************************************)
CalmStreamsAreComplete ==
  calm /\ MaxPages = 1 =>
    /\ AllHandled =>
         \A s \in Sessions :
           LET q == Registered(s, Me)
           IN  q # Null =>
                 TakenFrom(q) \cup eventQueues[q].events = After(q, s, Broadcasts)
    /\ \A q \in Ids : \A n \in TakenFrom(q) : \A m \in eventQueues[q].events : n < m
    /\ \A k \in Streams : \A i, j \in DOMAIN streams[k].sent :
         i < j => streams[k].sent[i] < streams[k].sent[j]

(***************************************************************************)
(* In a calm run the only page of a session shows, when there is nothing   *)
(* more on its way to it, the votes of the round, everybody's last one and *)
(* no earlier round's: nothing is lost while the stream that a reset has   *)
(* ended is replaced by the next.                                          *)
(***************************************************************************)
CalmPagesShowTheRound ==
  \A p \in DOMAIN pages :
    calm /\ Current(p) /\ CaughtUp(p) =>
      pages[p].voters = LatestVotes(Registered(pages[p].activeSession, Me),
                                    pages[p].activeSession)

(***************************************************************************)
(* The user's own vote comes to a page on two ways, by the answer to the   *)
(* request and by the stream.  An answer that overtakes a reset already on *)
(* its way is wiped out with it, but in a calm run a page that shows a     *)
(* vote of the user's above shows no other one in the list.                *)
(***************************************************************************)
CalmPagesKnowYourVote ==
  \A p \in DOMAIN pages :
    calm /\ Current(p) /\ CaughtUp(p) /\ (\A r \in requests : ~r.answered) =>
      pages[p].yourVote \in {NoVote, pages[p].voters[Me]}

(***************************************************************************)
(* In a calm run, where the network tears no message, a page does not stay *)
(* behind the votes: whatever is in its user's queue or on its way in a    *)
(* stream gets to it, over any resets and the streams they end and open.   *)
(***************************************************************************)
CalmPagesCatchUp ==
  \A p \in 1 .. MaxPages :
    []<>(p \in DOMAIN pages /\ calm /\ Current(p) => CaughtUp(p))
=============================================================================
