------------------------- MODULE SessionPagesProofs -------------------------
(***************************************************************************)
(* Theorems about the web client, for any number of pages, streams,        *)
(* requests, events, users and sessions, and any interleaving of the       *)
(* user, the answers, the messages and the server.                         *)
(***************************************************************************)
EXTENDS SessionPages, VoteStreamsProofs, FiniteSetTheorems

USE PagesAssumption

-----------------------------------------------------------------------------
(***************************************************************************)
(* What no step undoes: events stay published, and an opened stream keeps  *)
(* its session and what has been sent on it.                               *)
(***************************************************************************)
Lasts(a, b) ==
  /\ b.at # "unopened"
  /\ b.sid = a.sid /\ b.uid = a.uid
  /\ Len(a.sent) <= Len(b.sent)
  /\ \A i \in DOMAIN a.sent : b.sent[i] = a.sent[i]
  /\ b.at # "refused" => a.at # "refused"
  /\ b.emitter \in {"none", "open"} => a.emitter \in {"none", "open"}

Grows ==
  /\ DOMAIN published \subseteq DOMAIN published'
  /\ \A n \in DOMAIN published : published'[n] = published[n]
  /\ \A k \in Streams : streams[k].at # "unopened" => Lasts(streams[k], streams'[k])

\* No stream is opened.
OpensNone ==
  \A k \in Streams : streams[k].at = "unopened" => streams'[k] = streams[k]

LEMMA StreamLasts ==
  ASSUME TInv, NEW k \in Streams, StreamStep(k) \/ CloseEmitter(k)
  PROVE  /\ Lasts(streams[k], streams'[k]) /\ streams[k].at # "unopened"
         /\ \A l \in Streams \ {k} : streams'[l] = streams[l]
<1> DEFINE a == streams[k]
           b == streams'[k]
           Goal == /\ Lasts(a, b) /\ a.at # "unopened"
                   /\ \A l \in Streams \ {k} : streams'[l] = streams[l]
<1>1. a \in Stream /\ streams \in [Streams -> Stream] /\ WellFormed(a)
  BY DEF TInv, StreamsType
<1>2. ASSUME NEW l \in StreamPlaces \ {"unopened", "refused"}, NEW m \in StreamPlaces,
             m # "unopened", Advance(k, l, m)
      PROVE  Goal
  BY <1>1, <1>2 DEF Advance, Lasts, Stream
<1>3. CASE ContainsSession(k)
  <2>1. PICK m \in {"refused", "getMap"} : Advance(k, "containsSession", m)
    BY <1>3 DEF ContainsSession
  <2>2. QED
    BY <1>2, <2>1 DEF StreamPlaces
<1>4. ASSUME NEW l \in {"getMap", "getMapAgain"}, NEW m \in {"containsUser", "getQueue"},
             GetUserMap(k, l, m)
      PROVE  Goal
  BY <1>1, <1>4 DEF GetUserMap, Lasts, Stream
<1>5. CASE ContainsUser(k)
  <2>1. PICK m \in {"refused", "getMapAgain"} : Advance(k, "containsUser", m)
    BY <1>5 DEF ContainsUser
  <2>2. QED
    BY <1>2, <2>1 DEF StreamPlaces
<1>6. CASE execute(k)
  BY <1>1, <1>6 DEF execute, Lasts, Stream
<1>7. CASE IsActive(k)
  <2>1. PICK m \in {"take", "ended"} : Advance(k, "loop", m)
    BY <1>7 DEF IsActive
  <2>2. QED
    BY <1>2, <2>1 DEF StreamPlaces
<1>8. CASE NoQueue(k)
  BY <1>2, <1>8 DEF NoQueue, StreamPlaces
<1>9. CASE Take(k)
  BY <1>1, <1>9 DEF Take, Lasts, Stream
<1>10. CASE Send(k)
  BY <1>1, <1>10 DEF Send, Lasts, Stream
<1>11. CASE SendFails(k) \/ SendTooLate(k) \/ Complete(k)
  BY <1>1, <1>11 DEF SendFails, SendTooLate, Complete, Lasts, Stream
<1>12. CASE CloseEmitter(k)
  BY <1>1, <1>12 DEF CloseEmitter, Lasts, Stream, WellFormed, Unopened
<1>13. QED
  BY <1>3, <1>4, <1>5, <1>6, <1>7, <1>8, <1>9, <1>10, <1>11, <1>12
     DEF StreamStep, GetEventEmitter, ConsumerStep

\* What has been published stays, and what is not touched.
LEMMA StreamsStay ==
  ASSUME TInv, UNCHANGED streams,
         DOMAIN published \subseteq DOMAIN published',
         \A n \in DOMAIN published : published'[n] = published[n]
  PROVE  Grows /\ OpensNone
<1>1. \A k \in Streams : Len(streams[k].sent) \in Nat
  BY DEF TInv, StreamsType, Stream
<1>2. QED
  BY <1>1 DEF Grows, OpensNone, Lasts

\* What the server does beside the browser
LEMMA ServerGrows ==
  ASSUME DInv,
         \/ UNCHANGED deliveryVars
         \/ /\ UNCHANGED streams
            /\ \/ \E d \in Ticks : \E ev \in EventsAt(LastTime + d) : MulticastEvent(ev)
               \/ \E n \in Ids : HandlerStep(n)
         \/ \E k \in Streams : StreamStep(k) \/ CloseEmitter(k)
  PROVE  Grows /\ OpensNone /\ [DeliveryNext]_deliveryVars
<1> USE DEF DInv
<1>1. CASE UNCHANGED deliveryVars
  BY <1>1, StreamsStay DEF deliveryVars, listenerVars
<1>2. ASSUME NEW d \in Ticks, NEW ev \in EventsAt(LastTime + d), MulticastEvent(ev),
             UNCHANGED streams
      PROVE  Grows /\ OpensNone /\ DeliveryNext
  BY <1>2, PublishedStays, StreamsStay DEF TInv, DeliveryNext
<1>3. ASSUME NEW n \in Ids, HandlerStep(n), UNCHANGED streams
      PROVE  Grows /\ OpensNone /\ DeliveryNext
  BY <1>3, WhatChanges, StreamsStay DEF DeliveryNext
<1>4. ASSUME NEW k \in Streams, StreamStep(k) \/ CloseEmitter(k)
      PROVE  Grows /\ OpensNone /\ DeliveryNext
  <2>1. /\ Lasts(streams[k], streams'[k]) /\ streams[k].at # "unopened"
        /\ \A l \in Streams \ {k} : streams'[l] = streams[l]
    BY <1>4, StreamLasts
  <2>2. published' = published
    BY <1>4, StreamsLeaveListeners DEF listenerVars, Take
  <2>3. \A l \in Streams : Len(streams[l].sent) \in Nat
    BY DEF TInv, StreamsType, Stream
  <2>4. \A l \in Streams \ {k} : streams[l].at # "unopened" => Lasts(streams[l], streams'[l])
    BY <2>1, <2>3 DEF Lasts
  <2>5. QED
    BY <1>4, <2>1, <2>2, <2>4 DEF Grows, OpensNone, DeliveryNext
<1>5. QED
  BY <1>1, <1>2, <1>3, <1>4

-----------------------------------------------------------------------------
(***************************************************************************)
(* The inductive type invariant: a request names the session it is about,  *)
(* the one of a creation as soon as it is answered; the source the         *)
(* application service knows has been opened.                              *)
(***************************************************************************)
ClientOK ==
  /\ pages \in Seq(Page)
  /\ shown \in 0 .. Len(pages)
  /\ credentials \in BOOLEAN

RequestsOK ==
  /\ requests \subseteq PageRequest
  /\ \A r \in requests :
       /\ r.op # "create" \/ r.answered => r.sid \in Sessions
       /\ r.op = "vote" <=> r.point # NoVote

SourceOK(src, st, n) ==
  /\ src \in Source
  /\ src.state = "none" <=> st.at = "unopened"
  /\ src.state # "none" => src.page \in 1 .. n
  /\ src.got <= Len(st.sent)

EventSourceOK(e, srcs) ==
  /\ e \in Streams \cup {Null}
  /\ e # Null => srcs[e].state # "none"

SourcesOK ==
  /\ sources \in [Streams -> Source]
  /\ \A k \in Streams : SourceOK(sources[k], streams[k], Len(pages))
  /\ EventSourceOK(eventSource, sources)

PInv == DInv /\ ClientOK /\ RequestsOK /\ SourcesOK

LEMMA PInvTypes == PInv /\ calm \in BOOLEAN => PagesTypeOK
BY DEF PInv, ClientOK, RequestsOK, SourcesOK, SourceOK, EventSourceOK, PagesTypeOK

\* The sources are as good as they were beside streams that have grown and
\* pages that have been added.
LEMMA SourcesLast ==
  ASSUME TInv, Grows, OpensNone, NEW srcs \in [Streams -> Source], NEW n \in Nat, NEW m \in Nat,
         n <= m, TInv',
         \A k \in Streams : SourceOK(srcs[k], streams[k], n)
  PROVE  \A k \in Streams : SourceOK(srcs[k], streams'[k], m)
<1> SUFFICES ASSUME NEW k \in Streams PROVE SourceOK(srcs[k], streams'[k], m)
  OBVIOUS
<1>1. Len(streams[k].sent) \in Nat /\ Len(streams'[k].sent) \in Nat
  BY DEF TInv, StreamsType, Stream
<1>2. srcs[k] \in Source /\ srcs[k].got \in Nat /\ srcs[k].page \in Nat
  BY DEF Source
<1>3. srcs[k].state # "none" => srcs[k].page \in 1 .. m
  BY <1>2 DEF SourceOK
<1>4. CASE streams[k].at = "unopened"
  BY <1>2, <1>3, <1>4 DEF SourceOK, OpensNone
<1>5. CASE streams[k].at # "unopened"
  BY <1>1, <1>2, <1>3, <1>5 DEF SourceOK, Grows, Lasts
<1>6. QED
  BY <1>4, <1>5

LEMMA FetchedSources ==
  ASSUME DInv, NEW n \in Nat, NEW p \in 1 .. n, NEW s \in Sessions,
         NEW rest \in [Streams -> Source], FetchVotes(p, s, rest),
         \A k \in Streams : SourceOK(rest[k], streams[k], n),
         EventSourceOK(eventSource, rest)
  PROVE  /\ Grows /\ [DeliveryNext]_deliveryVars /\ published' = published
         /\ sources' \in [Streams -> Source]
         /\ \A k \in Streams : SourceOK(sources'[k], streams'[k], n)
         /\ EventSourceOK(eventSource', sources')
<1> USE DEF DInv, TInv, StreamsType
<1>0. \A l \in Streams : Len(streams[l].sent) \in Nat
  BY DEF Stream
<1>1. CASE ~credentials
  BY <1>1, StreamsStay, UNCHANGED deliveryVars, sources' = rest
     DEF FetchVotes, deliveryVars, listenerVars
<1>2. CASE credentials
  <2>1. PICK k \in Streams :
          /\ OpenStream(k, s, Me)
          /\ sources' = [rest EXCEPT ![k] = [page |-> p, got |-> 0, state |-> "open"]]
          /\ eventSource' = k
    BY <1>2 DEF FetchVotes
  <2>2. /\ streams[k].at = "unopened" /\ streams'[k].at = "containsSession"
        /\ streams'[k].sent = streams[k].sent
        /\ \A l \in Streams \ {k} : streams'[l] = streams[l]
        /\ published' = published
    BY <2>1 DEF OpenStream, Stream, listenerVars
  <2>3. DeliveryNext
    BY <2>1 DEF DeliveryNext
  <2>4. Grows
    <3>1. \A l \in Streams : streams[l].at # "unopened" => Lasts(streams[l], streams'[l])
      BY <1>0, <2>2 DEF Lasts
    <3>2. QED
      BY <2>2, <3>1 DEF Grows
  <2>5. [page |-> p, got |-> 0, state |-> "open"] \in Source
    BY DEF Source
  <2>6. \A l \in Streams \ {k} : SourceOK(sources'[l], streams'[l], n)
    BY <2>1, <2>2
  <2>7. SourceOK(sources'[k], streams'[k], n)
    BY <1>0, <2>1, <2>2, <2>5 DEF SourceOK
  <2>8. EventSourceOK(eventSource', sources')
    BY <2>1 DEF EventSourceOK
  <2>9. QED
    BY <2>1, <2>2, <2>3, <2>4, <2>5, <2>6, <2>7, <2>8
<1>3. QED
  BY <1>1, <1>2

-----------------------------------------------------------------------------
(***************************************************************************)
(* What a step is to the pages: nothing that tells them apart from before, *)
(* a navigation, or a message or the end of a source.                      *)
(***************************************************************************)
SamePage(p) ==
  pages'[p].voters = pages[p].voters /\ pages'[p].navigations = pages[p].navigations

Idles ==
  /\ Grows /\ OpensNone
  /\ sources' = sources
  /\ DOMAIN pages' = DOMAIN pages
  /\ \A p \in DOMAIN pages : SamePage(p)

Navigated(p, s) ==
  /\ p \in DOMAIN pages' /\ DOMAIN pages \subseteq DOMAIN pages'
  /\ DOMAIN pages' \subseteq DOMAIN pages \cup {p}
  /\ \A x \in DOMAIN pages \ {p} : SamePage(x)
  /\ \/ /\ p \in DOMAIN pages
        /\ pages'[p].voters = pages[p].voters
        /\ pages'[p].navigations = pages[p].navigations + 1
     \/ /\ p \notin DOMAIN pages
        /\ pages'[p].voters = NobodyVoted
        /\ pages'[p].navigations = 1
  /\ FetchVotes(p, s, sources)

PageMove ==
  \/ Idles
  \/ \E p \in Nat, s \in Sessions : Navigated(p, s)
  \/ \E k \in Streams : OnMessage(k) \/ OnEnd(k) \/ Tear(k)

\* What is to be shown of a step
Sound == [DeliveryNext]_deliveryVars /\ SourcesOK' /\ PageMove

LEMMA IdleSound ==
  ASSUME PInv, Grows, OpensNone, [DeliveryNext]_deliveryVars,
         pages' \in Seq(Page), DOMAIN pages' = DOMAIN pages,
         \A p \in DOMAIN pages : SamePage(p),
         UNCHANGED <<sources, eventSource>>
  PROVE  Sound
<1>1. TInv'
  BY OwnedNext DEF PInv, DInv
<1>2. Len(pages) \in Nat /\ Len(pages') = Len(pages)
  BY DEF PInv, ClientOK
<1>3. \A k \in Streams : SourceOK(sources[k], streams'[k], Len(pages'))
  BY <1>1, <1>2, SourcesLast DEF PInv, DInv, SourcesOK
<1>4. SourcesOK'
  BY <1>3 DEF PInv, SourcesOK
<1>5. QED
  BY <1>4 DEF Sound, PageMove, Idles

LEMMA PageReplaced ==
  ASSUME pages \in Seq(Page), NEW p \in DOMAIN pages, NEW new \in Page,
         pages' = [pages EXCEPT ![p] = new]
  PROVE  /\ pages' \in Seq(Page) /\ DOMAIN pages' = DOMAIN pages /\ Len(pages') = Len(pages)
         /\ pages'[p] = new
         /\ \A x \in DOMAIN pages \ {p} : pages'[x] = pages[x]
OBVIOUS

LEMMA NavigateSound ==
  ASSUME PInv, NEW s \in Sessions, Navigate(s)
  PROVE  Sound /\ pages' \in Seq(Page) /\ shown' \in 0 .. Len(pages')
<1>1. pages \in Seq(Page) /\ shown \in 0 .. Len(pages) /\ Len(pages) \in Nat
  BY DEF PInv, ClientOK
<1>2. NobodyVoted \in [Users -> StoryPoints] /\ NoVote \in StoryPoints
  BY DEF NobodyVoted, StoryPoints
<1>3. ASSUME NEW p \in Nat, pages' \in Seq(Page), Len(pages) <= Len(pages'), p \in 1 .. Len(pages'),
             FetchVotes(p, s, sources)
      PROVE  [DeliveryNext]_deliveryVars /\ SourcesOK'
  <2>1. \A k \in Streams : SourceOK(sources[k], streams[k], Len(pages'))
    BY <1>1, <1>3 DEF PInv, SourcesOK, SourceOK, Source
  <2>2. Len(pages') \in Nat
    BY <1>3
  <2>3. /\ [DeliveryNext]_deliveryVars
        /\ sources' \in [Streams -> Source]
        /\ \A k \in Streams : SourceOK(sources'[k], streams'[k], Len(pages'))
        /\ EventSourceOK(eventSource', sources')
    BY <1>3, <2>1, <2>2, FetchedSources DEF PInv, SourcesOK
  <2>4. QED
    BY <2>3 DEF SourcesOK
<1>4. CASE /\ shown = 0
           /\ pages' = Append(pages, [activeSession |-> s, voters |-> NobodyVoted,
                                      yourVote |-> NoVote, navigations |-> 1])
           /\ shown' = Len(pages) + 1
           /\ FetchVotes(Len(pages) + 1, s, sources)
  <2> DEFINE new == [activeSession |-> s, voters |-> NobodyVoted,
                     yourVote |-> NoVote, navigations |-> 1]
             p == Len(pages) + 1
  <2>1. new \in Page
    BY <1>2 DEF Page
  <2>2. /\ pages' \in Seq(Page) /\ Len(pages') = p /\ p \in Nat /\ p \in 1 .. Len(pages')
        /\ pages'[p] = new
        /\ \A x \in DOMAIN pages : pages'[x] = pages[x]
        /\ DOMAIN pages' = DOMAIN pages \cup {p} /\ p \notin DOMAIN pages
    BY <1>1, <1>4, <2>1
  <2>3. [DeliveryNext]_deliveryVars /\ SourcesOK'
    BY <1>1, <1>3, <1>4, <2>2
  <2>4. Navigated(p, s)
    BY <1>4, <2>2 DEF Navigated, SamePage
  <2>5. QED
    BY <1>4, <2>2, <2>3, <2>4 DEF Sound, PageMove
<1>5. CASE /\ shown # 0 /\ pages[shown].activeSession # s
           /\ pages' = [pages EXCEPT ![shown].activeSession = s, ![shown].navigations = @ + 1]
           /\ FetchVotes(shown, s, sources)
           /\ UNCHANGED shown
  <2>1. shown \in DOMAIN pages /\ shown \in Nat /\ pages[shown] \in Page
    BY <1>1, <1>5
  <2>2. /\ pages' \in Seq(Page) /\ DOMAIN pages' = DOMAIN pages /\ Len(pages') = Len(pages)
        /\ pages'[shown].voters = pages[shown].voters
        /\ pages'[shown].navigations = pages[shown].navigations + 1
        /\ \A x \in DOMAIN pages \ {shown} : pages'[x] = pages[x]
    <3> DEFINE new == [pages[shown] EXCEPT !.activeSession = s, !.navigations = @ + 1]
    <3>1. pages' = [pages EXCEPT ![shown] = new]
      BY <1>5, <2>1
    <3>2. /\ new \in Page /\ new.voters = pages[shown].voters
          /\ new.navigations = pages[shown].navigations + 1
      <4> DEFINE old == pages[shown]
      <4>1. /\ old \in Page /\ old.navigations + 1 \in Nat
            /\ new = [old EXCEPT !.activeSession = s, !.navigations = old.navigations + 1]
        BY <2>1 DEF Page
      <4> HIDE DEF old, new
      <4>2. QED
        BY <4>1 DEF Page, old
    <3> HIDE DEF new
    <3>3. QED
      BY <1>1, <2>1, <3>1, <3>2, PageReplaced
  <2>3. [DeliveryNext]_deliveryVars /\ SourcesOK'
    BY <1>1, <1>3, <1>5, <2>1, <2>2
  <2>4. Navigated(shown, s)
    BY <1>5, <2>1, <2>2 DEF Navigated, SamePage
  <2>5. QED
    BY <1>1, <1>5, <2>1, <2>2, <2>3, <2>4 DEF Sound, PageMove
<1>6. CASE UNCHANGED <<deliveryVars, pages, shown, sources, eventSource>>
  BY <1>1, <1>6, ServerGrows, IdleSound DEF PInv, SamePage
<1>7. QED
  BY <1>4, <1>5, <1>6 DEF Navigate

\* A step that changes only what is asked for and who is logged in
LEMMA ElsewhereSound ==
  ASSUME PInv, UNCHANGED <<deliveryVars, pages, sources, eventSource>>
  PROVE  Sound
BY ServerGrows, IdleSound DEF PInv, ClientOK, SamePage

LEMMA UserStepSound ==
  ASSUME PInv, UserStep
  PROVE  Sound /\ ClientOK' /\ RequestsOK'
<1> USE DEF PInv, ClientOK
<1>1. ASSUME NEW op \in {"create", "join", "vote", "reset"}, NEW s \in Sessions \cup {Null},
             NEW point \in StoryPoints, Ask(op, s, point),
             op = "create" \/ s \in Sessions, op = "vote" <=> point # NoVote
      PROVE  Sound /\ ClientOK' /\ RequestsOK'
  <2>1. Sound
    BY <1>1, ElsewhereSound DEF Ask
  <2>2. ClientOK'
    BY <1>1 DEF Ask
  <2> DEFINE new == [op |-> op, page |-> shown, sid |-> s, point |-> point, answered |-> FALSE]
  <2>3. new \in PageRequest
    BY DEF PageRequest
  <2>4. requests' = requests \cup {new}
    BY <1>1 DEF Ask
  <2>5. /\ new.op # "create" \/ new.answered => new.sid \in Sessions
        /\ new.op = "vote" <=> new.point # NoVote
    BY <1>1
  <2> HIDE DEF new
  <2>6. RequestsOK'
    BY <2>3, <2>4, <2>5 DEF RequestsOK
  <2>7. QED
    BY <2>1, <2>2, <2>6
<1>2. NoVote \in StoryPoints /\ Points \subseteq StoryPoints \ {NoVote}
  BY EventsAssumption DEF StoryPoints
<1>3. shown # 0 => pages[shown].activeSession \in Sessions
  <2>1. shown # 0 => shown \in DOMAIN pages /\ pages[shown] \in Page
    OBVIOUS
  <2>2. QED
    BY <2>1 DEF Page
<1>4. CASE createSession \/ \E s \in Sessions : joinSession(s)
  BY <1>1, <1>2, <1>4 DEF createSession, joinSession
<1>5. CASE resetVotes \/ \E point \in Points : vote(point)
  BY <1>1, <1>2, <1>3, <1>5 DEF resetVotes, vote
<1>6. CASE exitSession \/ logout \/ authenticate
  <2>1. Sound
    BY <1>6, ElsewhereSound DEF exitSession, logout, authenticate
  <2>2. CASE exitSession
    BY <2>1, <2>2 DEF exitSession, RequestsOK
  <2>3. CASE logout \/ authenticate
    BY <2>1, <2>3 DEF logout, authenticate, RequestsOK
  <2>4. QED
    BY <1>6, <2>2, <2>3
<1>7. ASSUME NEW s \in Sessions, GoBack(s) PROVE Sound /\ ClientOK' /\ RequestsOK'
  BY <1>7, NavigateSound DEF GoBack, RequestsOK
<1>8. QED
  BY <1>4, <1>5, <1>6, <1>7 DEF UserStep

LEMMA ServiceStepSound ==
  ASSUME PInv, ServiceStep
  PROVE  Sound /\ ClientOK' /\ RequestsOK'
<1> USE DEF PInv, ClientOK
<1>1. ASSUME NEW d \in Ticks, NEW ev \in EventsAt(LastTime + d), MulticastEvent(ev),
             UNCHANGED <<streams, pages, sources, eventSource>>
      PROVE  Sound
  BY <1>1, ServerGrows, IdleSound DEF SamePage
<1>2. ASSUME NEW r \in requests, Serve(r) PROVE Sound /\ ClientOK' /\ RequestsOK'
  <2>1. PICK s \in IF r.op = "create" THEN Sessions ELSE {r.sid}, d \in Ticks :
          /\ MulticastEvent([type |-> EventTypeOf(r.op), sid |-> s, uid |-> Me,
                             point |-> r.point, ts |-> LastTime + d])
          /\ requests' = (requests \ {r}) \cup {[r EXCEPT !.sid = s, !.answered = TRUE]}
    BY <1>2 DEF Serve
  <2>2. /\ r \in PageRequest /\ s \in Sessions
        /\ r.op = "vote" <=> r.point # NoVote
    BY DEF RequestsOK
  <2>3. [type |-> EventTypeOf(r.op), sid |-> s, uid |-> Me,
         point |-> r.point, ts |-> LastTime + d] \in EventsAt(LastTime + d)
    <3>1. /\ EventTypeOf(r.op) \in EventTypes \ {AutoTerminated}
          /\ EventTypeOf(r.op) = UserVoted <=> r.op = "vote"
      BY <2>2 DEF PageRequest, EventTypeOf, EventTypes, SessionCreated, UserJoined, UserVoted,
         VoteReset, UserExited, AutoTerminated
    <3>2. Me \in Users /\ Me # "auto"
      BY EventsAssumption
    <3>3. r.point \in Points \cup {NoVote}
      BY <2>2 DEF PageRequest, StoryPoints
    <3>4. QED
      BY <2>2, <3>1, <3>2, <3>3 DEF EventsAt, Authors
  <2>4. Sound
    BY <1>1, <1>2, <2>1, <2>3 DEF Serve
  <2>5. ClientOK'
    BY <1>2 DEF Serve
  <2> DEFINE new == [r EXCEPT !.sid = s, !.answered = TRUE]
  <2>6. new \in PageRequest /\ new.sid \in Sessions /\ (new.op = "vote" <=> new.point # NoVote)
    BY <2>2 DEF PageRequest
  <2>7. requests' = (requests \ {r}) \cup {new}
    BY <2>1
  <2> HIDE DEF new
  <2>8. RequestsOK'
    BY <2>6, <2>7 DEF RequestsOK
  <2>9. QED
    BY <2>4, <2>5, <2>8
<1>3. ASSUME NEW r \in requests, Refuse(r) PROVE Sound /\ ClientOK' /\ RequestsOK'
  <2>1. Sound
    BY <1>3, ElsewhereSound DEF Refuse
  <2>2. ClientOK' /\ RequestsOK'
    BY <1>3 DEF Refuse, RequestsOK
  <2>3. QED
    BY <2>1, <2>2
<1>4. ASSUME NEW r \in requests, Answered(r) PROVE Sound /\ ClientOK' /\ RequestsOK'
  <2>1. RequestsOK' /\ credentials' = credentials /\ r.sid \in Sessions /\ r \in PageRequest
    BY <1>4 DEF Answered, RequestsOK
  <2>2. ASSUME NEW s \in Sessions, Navigate(s) PROVE Sound /\ ClientOK'
    BY <2>1, <2>2, NavigateSound
  <2>3. CASE /\ pages' = [pages EXCEPT ![r.page].yourVote = r.point]
             /\ UNCHANGED <<deliveryVars, shown, sources, eventSource>>
    <3>1. /\ pages' \in Seq(Page) /\ DOMAIN pages' = DOMAIN pages /\ Len(pages') = Len(pages)
          /\ \A x \in DOMAIN pages : SamePage(x)
      <4>1. CASE r.page \notin DOMAIN pages
        BY <2>3, <4>1, pages' = pages DEF SamePage
      <4>2. CASE r.page \in DOMAIN pages
        <5> DEFINE old == pages[r.page]
                   new == [old EXCEPT !.yourVote = r.point]
        <5>1. old \in Page /\ r.point \in StoryPoints /\ pages' = [pages EXCEPT ![r.page] = new]
          BY <2>1, <2>3, <4>2 DEF PageRequest
        <5>2. new \in Page /\ new.voters = old.voters /\ new.navigations = old.navigations
          <6> HIDE DEF old
          <6>1. QED
            BY <5>1 DEF Page
        <5> HIDE DEF new
        <5>3. QED
          BY <4>2, <5>1, <5>2, PageReplaced DEF SamePage
      <4>3. QED
        BY <4>1, <4>2
    <3>2. Sound
      BY <2>3, <3>1, ServerGrows, IdleSound
    <3>3. QED
      BY <2>1, <2>3, <3>1, <3>2
  <2>4. CASE UNCHANGED <<deliveryVars, pages, shown, sources, eventSource>>
    BY <2>1, <2>4, ElsewhereSound
  <2>5. QED
    BY <1>4, <2>1, <2>2, <2>3, <2>4 DEF Answered
<1>5. ASSUME NEW d \in Ticks, NEW ev \in EventsAt(LastTime + d), Elsewhere(ev)
      PROVE  Sound /\ ClientOK' /\ RequestsOK'
  <2>1. Sound
    BY <1>1, <1>5 DEF Elsewhere, browserVars
  <2>2. ClientOK' /\ RequestsOK'
    BY <1>5 DEF Elsewhere, browserVars, RequestsOK
  <2>3. QED
    BY <2>1, <2>2
<1>6. QED
  BY <1>2, <1>3, <1>4, <1>5 DEF ServiceStep

LEMMA ServerStepSound ==
  ASSUME PInv, ServerStep
  PROVE  Sound /\ ClientOK' /\ RequestsOK'
<1>1. Sound
  BY ServerGrows, IdleSound DEF PInv, ClientOK, ServerStep, browserVars, SamePage
<1>2. QED
  BY <1>1 DEF PInv, ClientOK, RequestsOK, ServerStep, browserVars

-----------------------------------------------------------------------------
\* The message source k is handed next is one of its stream's session.
LEMMA HandedFacts ==
  ASSUME PInv, NEW k \in Streams, HasMessage(k)
  PROVE  /\ sources[k] \in Source /\ sources[k].state = "open"
         /\ sources[k].page \in DOMAIN pages
         /\ streams[k].at # "unopened"
         /\ sources[k].got \in Nat
         /\ sources[k].got + 1 \in DOMAIN streams[k].sent
         /\ streams[k].sent[sources[k].got + 1] \in DOMAIN published
         /\ Handed(k) \in PokerEvent
         /\ Handed(k).sid = streams[k].sid
         /\ Handed(k).type # AutoTerminated => Handed(k).uid \in Users
<1> DEFINE n == streams[k].sent[sources[k].got + 1]
<1>1. /\ sources[k] \in Source /\ sources[k].state = "open"
      /\ SourceOK(sources[k], streams[k], Len(pages))
      /\ sources[k].got \in Nat /\ sources[k].got < Len(streams[k].sent)
      /\ sources[k].page \in DOMAIN pages
  BY DEF HasMessage, PInv, SourcesOK, SourceOK, Source, ClientOK
<1>2. sources[k].got + 1 \in DOMAIN streams[k].sent
  <2>1. streams[k].sent \in Seq(Ids)
    BY DEF PInv, DInv, TInv, StreamsType, Stream
  <2>2. QED
    BY <1>1, <2>1
<1>3. n \in DOMAIN published /\ published[n].sid = streams[k].sid
  BY <1>2 DEF PInv, DInv, StreamsOwned, StreamOwned, TakenBy
<1>4. published[n] \in PokerEvent
  BY <1>3 DEF PInv, DInv, TInv, QInv, QueuesTypeOK
<1>5. published[n].type # AutoTerminated => published[n].uid \in Users
  BY <1>3 DEF PInv, DInv, TInv, QInv, AuthorsAreUsers
<1>6. QED
  BY <1>1, <1>2, <1>3, <1>4, <1>5 DEF Handed, SourceOK

\* The sources while the message of source k is handed to its page and source
\* e, or none, is closed
HandedTo(k, e) == [sources EXCEPT ![k].got = @ + 1, ![e].state = "closed"]

LEMMA SourcesHanded ==
  ASSUME PInv, NEW k \in Streams, HasMessage(k), NEW e, EventSourceOK(e, sources)
  PROVE  LET rest == HandedTo(k, e)
         IN  /\ rest \in [Streams -> Source]
             /\ \A j \in Streams : SourceOK(rest[j], streams[j], Len(pages))
             /\ \A j \in Streams :
                  /\ rest[j].state = IF j = e THEN "closed" ELSE sources[j].state
                  /\ rest[j].page = sources[j].page
                  /\ rest[j].got = IF j = k THEN sources[j].got + 1 ELSE sources[j].got
<1> DEFINE rest == HandedTo(k, e)
<1>1. /\ sources \in [Streams -> Source]
      /\ sources[k].got + 1 \in Nat /\ sources[k].got + 1 <= Len(streams[k].sent)
  BY HandedFacts DEF PInv, SourcesOK, DInv, TInv, StreamsType, Stream
<1>2. rest \in [Streams -> Source]
  BY <1>1 DEF Source, HandedTo
<1>3. ASSUME NEW j \in Streams
      PROVE  /\ rest[j].state = IF j = e THEN "closed" ELSE sources[j].state
             /\ rest[j].page = sources[j].page
             /\ rest[j].got = IF j = k THEN sources[j].got + 1 ELSE sources[j].got
  BY <1>1 DEF Source, HandedTo
<1> HIDE DEF rest
<1>4. ASSUME NEW j \in Streams PROVE SourceOK(rest[j], streams[j], Len(pages))
  <2>1. SourceOK(sources[j], streams[j], Len(pages)) /\ rest[j] \in Source
    BY <1>2 DEF PInv, SourcesOK
  <2>2. rest[j].state = "none" <=> sources[j].state = "none"
    <3>1. j = e => sources[j].state # "none"
      BY DEF EventSourceOK
    <3>2. QED
      BY <1>3, <3>1
  <2>3. rest[j].got <= Len(streams[j].sent)
    BY <1>1, <1>3, <2>1 DEF SourceOK
  <2>4. QED
    BY <1>3, <2>1, <2>2, <2>3 DEF SourceOK
<1>5. QED
  BY <1>2, <1>3, <1>4 DEF rest

LEMMA MessageSound ==
  ASSUME PInv, NEW k \in Streams, OnMessage(k) \/ OnEnd(k) \/ Tear(k)
  PROVE  Sound /\ ClientOK' /\ RequestsOK'
<1> USE DEF PInv
<1>1. pages \in Seq(Page) /\ Len(pages) \in Nat
  BY DEF ClientOK
<1>2. CASE OnEnd(k) \/ Tear(k)
  <2>0. /\ sources \in [Streams -> Source] /\ sources[k].state = "open"
        /\ \E x \in {"closed", "torn"} : sources' = [sources EXCEPT ![k].state = x]
        /\ UNCHANGED <<streams, pages, eventSource>>
    BY <1>2 DEF OnEnd, Tear, SourcesOK, deliveryVars
  <2>1. /\ sources' \in [Streams -> Source] /\ EventSourceOK(eventSource', sources')
        /\ \A j \in Streams : SourceOK(sources'[j], streams'[j], Len(pages'))
    <3>1. PICK x \in {"closed", "torn"} : sources' = [sources EXCEPT ![k].state = x]
      BY <2>0
    <3>2. QED
      BY <2>0, <3>1 DEF SourcesOK, SourceOK, EventSourceOK, Source
  <2>2. SourcesOK'
    BY <2>1 DEF SourcesOK
  <2>3. [DeliveryNext]_deliveryVars
    BY <1>2 DEF OnEnd, Tear
  <2>4. Sound
    BY <1>2, <2>2, <2>3 DEF Sound, PageMove
  <2>5. ClientOK' /\ RequestsOK'
    BY <1>2 DEF OnEnd, Tear, ClientOK, RequestsOK
  <2>6. QED
    BY <2>4, <2>5
<1>3. CASE OnVote(k)
  <2>1. HasMessage(k) /\ Handed(k).uid \in Users /\ Handed(k).point \in StoryPoints
        /\ sources[k].page \in DOMAIN pages
    BY <1>3, HandedFacts DEF OnVote, UserVoted, AutoTerminated, PokerEvent, StoryPoints
  <2> DEFINE p == sources[k].page
             old == pages[p]
             new == [old EXCEPT !.voters[Handed(k).uid] = Handed(k).point]
  <2>2. old \in Page /\ pages' = [pages EXCEPT ![p] = new]
    BY <1>1, <1>3, <2>1 DEF OnVote
  <2>3. new \in Page
    <3> HIDE DEF old
    <3>1. QED
      BY <2>1, <2>2 DEF Page
  <2>4. pages' \in Seq(Page) /\ Len(pages') = Len(pages)
    <3> HIDE DEF new
    <3>1. QED
      BY <1>1, <2>1, <2>2, <2>3, PageReplaced
  <2>5. sources' = HandedTo(k, Null)
    BY <1>3 DEF OnVote, SourcesOK, HandedTo
  <2>6. /\ sources' \in [Streams -> Source]
        /\ \A j \in Streams : SourceOK(sources'[j], streams'[j], Len(pages'))
        /\ EventSourceOK(eventSource', sources')
    <3>1. /\ sources' \in [Streams -> Source]
          /\ \A j \in Streams : SourceOK(sources'[j], streams[j], Len(pages))
          /\ \A j \in Streams : sources'[j].state = sources[j].state
      <4>1. EventSourceOK(Null, sources) /\ \A j \in Streams : j # Null
        BY DEF EventSourceOK
      <4>2. QED
        BY <2>1, <2>5, <4>1, SourcesHanded
    <3>2. streams' = streams /\ eventSource' = eventSource
      BY <1>3 DEF OnVote, deliveryVars
    <3>3. QED
      BY <2>4, <3>1, <3>2 DEF EventSourceOK, SourcesOK
  <2>7. SourcesOK'
    BY <2>6 DEF SourcesOK
  <2>8. Sound
    BY <1>3, <2>7 DEF OnVote, OnMessage, Sound, PageMove
  <2>9. ClientOK' /\ RequestsOK'
    BY <1>3, <2>4 DEF OnVote, ClientOK, RequestsOK
  <2>10. QED
    BY <2>8, <2>9
<1>4. CASE OnReset(k)
  <2> DEFINE p == sources[k].page
             old == pages[p]
             new == [old EXCEPT !.voters = NobodyVoted, !.yourVote = NoVote]
             rest == HandedTo(k, eventSource)
  <2>1. HasMessage(k) /\ p \in DOMAIN pages /\ old \in Page /\ old.activeSession \in Sessions
    <3>1. HasMessage(k) /\ p \in DOMAIN pages
      BY <1>4, HandedFacts DEF OnReset
    <3>2. old \in Page
      BY <1>1, <3>1
    <3>3. QED
      BY <3>1, <3>2 DEF Page
  <2>2. new \in Page
    <3> HIDE DEF old
    <3>1. QED
      BY <2>1 DEF Page, NobodyVoted, StoryPoints
  <2>3. pages' = [pages EXCEPT ![p] = new] /\ FetchVotes(p, old.activeSession, rest)
    BY <1>1, <1>4, <2>1 DEF OnReset, HandedTo
  <2>4. pages' \in Seq(Page) /\ Len(pages') = Len(pages)
    <3> HIDE DEF new
    <3>1. QED
      BY <1>1, <2>1, <2>2, <2>3, PageReplaced
  <2>5. /\ rest \in [Streams -> Source]
        /\ \A j \in Streams : SourceOK(rest[j], streams[j], Len(pages))
        /\ \A j \in Streams : rest[j].state = IF j = eventSource THEN "closed" ELSE sources[j].state
    BY <2>1, SourcesHanded DEF SourcesOK
  <2>6. EventSourceOK(eventSource, rest)
    <3> HIDE DEF rest
    <3>1. QED
      BY <2>5 DEF SourcesOK, EventSourceOK
  <2>7. p \in 1 .. Len(pages)
    BY <1>1, <2>1
  <2>8. /\ [DeliveryNext]_deliveryVars
        /\ sources' \in [Streams -> Source]
        /\ \A j \in Streams : SourceOK(sources'[j], streams'[j], Len(pages))
        /\ EventSourceOK(eventSource', sources')
    <3> HIDE DEF rest, p, old
    <3>1. QED
      BY <1>1, <2>1, <2>3, <2>5, <2>6, <2>7, FetchedSources
  <2>9. SourcesOK'
    BY <2>4, <2>8 DEF SourcesOK
  <2>10. Sound
    BY <1>4, <2>8, <2>9 DEF OnMessage, Sound, PageMove
  <2>11. ClientOK' /\ RequestsOK'
    BY <1>4, <2>4 DEF OnReset, ClientOK, RequestsOK
  <2>12. QED
    BY <2>10, <2>11
<1>5. QED
  BY <1>2, <1>3, <1>4 DEF OnMessage

-----------------------------------------------------------------------------
LEMMA PagesSound ==
  PInv /\ [PagesNext]_clientVars => Sound /\ PInv'
<1> SUFFICES ASSUME PInv, [PagesNext]_clientVars PROVE Sound /\ PInv'
  OBVIOUS
<1>1. Sound /\ ClientOK' /\ RequestsOK'
  <2>1. CASE UNCHANGED clientVars
    BY <2>1, ElsewhereSound DEF clientVars, browserVars, PInv, ClientOK, RequestsOK
  <2>2. CASE PagesNext
    BY <2>2, UserStepSound, ServiceStepSound, ServerStepSound, MessageSound DEF PagesNext
  <2>3. QED
    BY <2>1, <2>2
<1>2. DInv'
  BY <1>1, OwnedNext DEF Sound, PInv
<1>3. QED
  BY <1>1, <1>2 DEF Sound, PInv

LEMMA PagesStart == PagesInit => PInv
<1> SUFFICES ASSUME PagesInit PROVE PInv
  OBVIOUS
<1>1. DInv
  BY OwnedInit DEF PagesInit
<1>2. ClientOK /\ RequestsOK
  BY DEF PagesInit, ClientOK, RequestsOK
<1>3. SourcesOK
  <2>1. [page |-> 0, got |-> 0, state |-> "none"] \in Source
    BY DEF Source
  <2>2. \A k \in Streams : streams[k] = Unopened
    BY DEF PagesInit, DeliveryInit, StreamsInit
  <2>3. QED
    BY <2>1, <2>2 DEF PagesInit, SourcesOK, SourceOK, EventSourceOK, Unopened
<1>4. QED
  BY <1>1, <1>2, <1>3 DEF PInv

(***************************************************************************)
(* To the server the web client is one of the clients VoteStreams is       *)
(* checked against: what is proved of the streams in any such environment  *)
(* holds beside the pages.                                                 *)
(***************************************************************************)
THEOREM PagesAreClients == PagesSpec => DeliverySpec
<1>1. PagesInit => DeliveryInit
  BY DEF PagesInit
<1>2. QED
  BY <1>1, PagesStart, PagesSound, PTL DEF PagesSpec, DeliverySpec, Sound

(***************************************************************************)
(* The state of the client always has the types declared, and sources and  *)
(* streams keep step: a source is opened with its stream, belongs to a     *)
(* page that was made, and has not been handed more than was sent.         *)
(***************************************************************************)
THEOREM PagesTypeCorrect == PagesSpec => []PagesTypeOK
<1>1. PagesInit => calm \in BOOLEAN
  BY DEF PagesInit
<1>2. calm \in BOOLEAN /\ [PagesNext]_clientVars => (calm \in BOOLEAN)'
  BY DEF PagesNext, Watch, clientVars
<1>3. QED
  BY <1>1, <1>2, PagesStart, PagesSound, PInvTypes, PTL DEF PagesSpec

-----------------------------------------------------------------------------
(***************************************************************************)
(* What a page shows.  The invariant is inductive as it stands: events,    *)
(* sessions of streams and the pages of sources last, and a vote is handed *)
(* to the page of the source it came on.                                   *)
(***************************************************************************)
SourcesKept ==
  \A k \in Streams :
    sources[k].state # "none" =>
      sources'[k].state # "none" /\ sources'[k].page = sources[k].page

ShowsOwn(p, u) ==
  pages[p].voters[u] # NoVote =>
    \E n \in DOMAIN published :
      /\ published[n].type = UserVoted
      /\ published[n].uid = u
      /\ published[n].point = pages[p].voters[u]
      /\ published[n].sid \in {streams[k].sid : k \in SourcesOf(p)}

\* The source that is fetched was none before.
LEMMA FetchKeeps ==
  ASSUME PInv, NEW p, NEW s, NEW rest \in [Streams -> Source], FetchVotes(p, s, rest),
         \A k \in Streams : /\ sources[k].state # "none" => rest[k].state # "none"
                             /\ rest[k].page = sources[k].page
  PROVE  SourcesKept
<1>1. CASE ~credentials
  BY <1>1 DEF FetchVotes, SourcesKept
<1>2. CASE credentials
  <2>1. PICK k \in Streams :
          /\ streams[k].at = "unopened"
          /\ sources' = [rest EXCEPT ![k] = [page |-> p, got |-> 0, state |-> "open"]]
    BY <1>2 DEF FetchVotes, OpenStream
  <2>2. sources[k].state = "none"
    BY <2>1 DEF PInv, SourcesOK, SourceOK
  <2>3. \A l \in Streams \ {k} : sources'[l] = rest[l]
    BY <2>1
  <2>4. QED
    BY <2>2, <2>3 DEF SourcesKept
<1>3. QED
  BY <1>1, <1>2

LEMMA MovesKeepSources ==
  ASSUME PInv, PageMove
  PROVE  SourcesKept
<1> USE DEF PInv, SourcesOK
<1>1. CASE Idles
  BY <1>1 DEF Idles, SourcesKept
<1>2. ASSUME NEW p \in Nat, NEW s \in Sessions, Navigated(p, s) PROVE SourcesKept
  BY <1>2, FetchKeeps DEF Navigated
<1>3. ASSUME NEW k \in Streams, OnEnd(k) \/ Tear(k) PROVE SourcesKept
  <2>1. PICK x \in {"closed", "torn"} : sources' = [sources EXCEPT ![k].state = x]
    BY <1>3 DEF OnEnd, Tear
  <2>2. QED
    BY <2>1 DEF SourcesKept, Source
<1>4. ASSUME NEW k \in Streams, OnVote(k) PROVE SourcesKept
  BY <1>4 DEF OnVote, SourcesKept, Source
<1>5. ASSUME NEW k \in Streams, OnReset(k) PROVE SourcesKept
  <2> DEFINE rest == HandedTo(k, eventSource)
             p == sources[k].page
  <2>1. HasMessage(k) /\ FetchVotes(p, pages[p].activeSession, rest)
    BY <1>5 DEF OnReset, HandedTo
  <2>2. /\ rest \in [Streams -> Source]
        /\ \A j \in Streams :
             /\ rest[j].state = IF j = eventSource THEN "closed" ELSE sources[j].state
             /\ rest[j].page = sources[j].page
    BY <2>1, SourcesHanded
  <2> HIDE DEF rest, p
  <2>3. QED
    BY <2>1, <2>2, FetchKeeps
<1>6. QED
  BY <1>1, <1>2, <1>3, <1>4, <1>5 DEF PageMove, OnMessage

\* Events and streams only grow, whatever the pages do.
LEMMA MovesGrow ==
  ASSUME PInv, PageMove
  PROVE  Grows
<1>1. CASE Idles
  BY <1>1 DEF Idles
<1>2. ASSUME UNCHANGED deliveryVars PROVE Grows
  BY <1>2, ServerGrows DEF PInv
<1>3. ASSUME NEW p, NEW s, NEW rest, FetchVotes(p, s, rest) PROVE Grows
  <2>1. CASE ~credentials
    BY <1>2, <1>3, <2>1 DEF FetchVotes
  <2>2. CASE credentials
    <3>1. PICK k \in Streams : OpenStream(k, s, Me)
      BY <1>3, <2>2 DEF FetchVotes
    <3>2. streams[k].at = "unopened" /\ published' = published
          /\ \A l \in Streams \ {k} : streams'[l] = streams[l]
      BY <3>1 DEF OpenStream, listenerVars, PInv, DInv, TInv, StreamsType
    <3>3. \A l \in Streams : Len(streams[l].sent) \in Nat
      BY DEF PInv, DInv, TInv, StreamsType, Stream
    <3>4. QED
      BY <3>2, <3>3 DEF Grows, Lasts
  <2>3. QED
    BY <2>1, <2>2
<1>4. QED
  BY <1>1, <1>2, <1>3 DEF PageMove, Navigated, OnMessage, OnVote, OnReset, OnEnd,
     Tear

\* What is shown stays the user's own while it is shown.
LEMMA ShownStays ==
  ASSUME PInv, Grows, SourcesKept, NEW p \in DOMAIN pages, NEW u \in Users, ShowsOwn(p, u),
         pages'[p].voters[u] \in {NoVote, pages[p].voters[u]}
  PROVE  ShowsOwn(p, u)'
<1> SUFFICES ASSUME pages'[p].voters[u] # NoVote PROVE ShowsOwn(p, u)'
  BY DEF ShowsOwn
<1>1. PICK n \in DOMAIN published :
        /\ published[n].type = UserVoted
        /\ published[n].uid = u
        /\ published[n].point = pages[p].voters[u]
        /\ published[n].sid \in {streams[k].sid : k \in SourcesOf(p)}
  BY DEF ShowsOwn
<1>2. PICK k \in SourcesOf(p) : published[n].sid = streams[k].sid
  BY <1>1
<1>3. streams[k].at # "unopened" /\ k \in Streams
  BY DEF SourcesOf, PInv, SourcesOK, SourceOK
<1>4. streams'[k].sid = streams[k].sid
  BY <1>3 DEF Grows, Lasts
<1>5. k \in SourcesOf(p)'
  BY DEF SourcesOf, SourcesKept
<1>6. n \in DOMAIN published' /\ published'[n] = published[n]
  BY DEF Grows
<1>7. QED
  BY <1>1, <1>2, <1>4, <1>5, <1>6 DEF ShowsOwn

LEMMA ShownNext ==
  ASSUME PInv, PInv', PageMove, PagesShowTheirSessions
  PROVE  PagesShowTheirSessions'
<1> SUFFICES ASSUME NEW p \in DOMAIN pages', NEW u \in Users PROVE ShowsOwn(p, u)'
  BY DEF PagesShowTheirSessions, ShowsOwn
<1>1. Grows /\ SourcesKept
  BY MovesGrow, MovesKeepSources
<1>2. pages \in Seq(Page) /\ \A x \in DOMAIN pages : ShowsOwn(x, u)
  BY DEF PInv, ClientOK, PagesShowTheirSessions, ShowsOwn
<1>3. ASSUME p \in DOMAIN pages, pages'[p].voters[u] \in {NoVote, pages[p].voters[u]}
      PROVE  ShowsOwn(p, u)'
  BY <1>1, <1>2, <1>3, ShownStays
<1>4. NobodyVoted[u] = NoVote
  BY DEF NobodyVoted
<1>5. CASE Idles
  BY <1>3, <1>5 DEF Idles, SamePage
<1>6. ASSUME NEW x \in Nat, NEW s \in Sessions, Navigated(x, s) PROVE ShowsOwn(p, u)'
  <2>1. CASE p \in DOMAIN pages
    BY <1>3, <1>6, <2>1 DEF Navigated, SamePage
  <2>2. CASE p \notin DOMAIN pages
    BY <1>4, <1>6, <2>2 DEF Navigated, ShowsOwn
  <2>3. QED
    BY <2>1, <2>2
<1>7. ASSUME NEW k \in Streams, OnEnd(k) \/ Tear(k) PROVE ShowsOwn(p, u)'
  BY <1>3, <1>7 DEF OnEnd, Tear
<1>8. ASSUME NEW k \in Streams, OnVote(k) PROVE ShowsOwn(p, u)'
  <2> DEFINE x == sources[k].page
             n == streams[k].sent[sources[k].got + 1]
  <2>1. /\ HasMessage(k) /\ Handed(k).type = UserVoted
        /\ pages' = [pages EXCEPT ![x].voters[Handed(k).uid] = Handed(k).point]
    BY <1>8 DEF OnVote
  <2>2. /\ x \in DOMAIN pages /\ n \in DOMAIN published /\ Handed(k) = published[n]
        /\ Handed(k).sid = streams[k].sid /\ streams[k].at # "unopened"
        /\ sources[k].state = "open"
    BY <2>1, HandedFacts DEF Handed
  <2>3. p \in DOMAIN pages /\ pages[p] \in Page /\ pages[x] \in Page
    BY <1>2, <2>1, <2>2
  <2>4. CASE p = x /\ u = Handed(k).uid
    <3>1. pages'[p].voters[u] = Handed(k).point
      <4> DEFINE old == pages[x]
                 new == [old EXCEPT !.voters[Handed(k).uid] = Handed(k).point]
      <4>1. pages' = [pages EXCEPT ![x] = new]
        BY <2>1
      <4>2. new.voters[Handed(k).uid] = Handed(k).point
        <5> HIDE DEF old
        <5>1. old \in Page /\ u \in Users /\ u = Handed(k).uid
          BY <2>3, <2>4 DEF old
        <5>2. QED
          BY <5>1 DEF Page
      <4> HIDE DEF new
      <4>3. QED
        BY <1>2, <2>2, <2>4, <4>1, <4>2
    <3>2. k \in SourcesOf(p)'
      BY <1>1, <2>2, <2>4 DEF SourcesOf, SourcesKept
    <3>3. published'[n] = published[n] /\ n \in DOMAIN published' /\ streams'[k].sid = streams[k].sid
      BY <1>1, <2>2 DEF Grows, Lasts
    <3>4. QED
      BY <2>1, <2>2, <2>4, <3>1, <3>2, <3>3 DEF ShowsOwn
  <2>5. CASE ~(p = x /\ u = Handed(k).uid)
    <3>1. pages'[p].voters[u] = pages[p].voters[u]
      <4> DEFINE old == pages[x]
                 new == [old EXCEPT !.voters[Handed(k).uid] = Handed(k).point]
      <4>1. pages' = [pages EXCEPT ![x] = new]
        BY <2>1
      <4>2. u # Handed(k).uid => new.voters[u] = old.voters[u]
        BY <2>3 DEF Page
      <4> HIDE DEF new
      <4>3. QED
        BY <1>2, <2>2, <2>3, <2>5, <4>1, <4>2
    <3>2. QED
      BY <1>3, <2>3, <3>1
  <2>6. QED
    BY <2>4, <2>5
<1>9. ASSUME NEW k \in Streams, OnReset(k) PROVE ShowsOwn(p, u)'
  <2> DEFINE x == sources[k].page
             old == pages[x]
             new == [old EXCEPT !.voters = NobodyVoted, !.yourVote = NoVote]
  <2>1. x \in DOMAIN pages /\ pages' = [pages EXCEPT ![x] = new]
    BY <1>9, HandedFacts DEF OnReset
  <2>2. old \in Page
    BY <1>2, <2>1
  <2>3. new.voters = NobodyVoted
    <3> HIDE DEF old
    <3>1. QED
      BY <2>2 DEF Page
  <2> HIDE DEF new
  <2>4. p \in DOMAIN pages /\ pages'[p].voters[u] \in {NoVote, pages[p].voters[u]}
    BY <1>2, <1>4, <2>1, <2>3
  <2>5. QED
    BY <1>3, <2>4
<1>10. QED
  BY <1>5, <1>6, <1>7, <1>8, <1>9 DEF PageMove, OnMessage

(***************************************************************************)
(* However the handlers of all pages, navigation and the answers of the    *)
(* service interleave, and whatever sources are left open behind pages     *)
(* that are gone, a page shows for a user no story point but one that user *)
(* gave in a session the page was given.                                   *)
(***************************************************************************)
THEOREM PagesShowTheirOwn == PagesSpec => []PagesShowTheirSessions
<1>1. PagesInit => PagesShowTheirSessions
  BY DEF PagesInit, PagesShowTheirSessions
<1>2. PInv /\ PInv' /\ Sound /\ PagesShowTheirSessions => PagesShowTheirSessions'
  BY ShownNext DEF Sound
<1>3. QED
  BY <1>1, <1>2, PagesStart, PagesSound, PTL DEF PagesSpec

-----------------------------------------------------------------------------
(***************************************************************************)
(* How many sources a page listens to.  It is strengthened to an inductive *)
(* invariant by counting: a page opens a source when it is given a session *)
(* and when it handles a reset, which ends a source of its own; and        *)
(* sources are opened in the order of their numbers.                       *)
(***************************************************************************)
Given(p) == IF p \in DOMAIN pages THEN pages[p].navigations ELSE 0

OrderOK ==
  \A k, l \in Streams :
    sources[k].state # "none" /\ sources[l].state = "none" => k < l

FewSources(p) ==
  /\ Cardinality(SourcesOf(p)) <= Given(p) + Cardinality(ResetOf(p))
  /\ Cardinality(ListeningOf(p)) <= Given(p)

Excused(p) ==
  \A k \in Streams :
    Silenced(p, k) =>
      \E l \in Streams \ {k} :
        /\ ResetsGot(l) # {}
        /\ \/ sources[l].page # p
           \/ Cardinality(SourcesOf(p)) < Given(p) + Cardinality(ResetOf(p))

ListenInv == OrderOK /\ \A p \in Nat : FewSources(p) /\ Excused(p)

LEMMA ListenInvEnough == PInv /\ ListenInv => PagesListenOnce
<1> SUFFICES ASSUME PInv, ListenInv, NEW p \in DOMAIN pages
             PROVE  /\ Cardinality(ListeningOf(p)) <= pages[p].navigations
                    /\ \A k \in Streams :
                         Silenced(p, k) =>
                           \E l \in Streams \ {k} :
                             /\ ResetsGot(l) # {}
                             /\ \/ sources[l].page # p
                                \/ Cardinality(SourcesOf(p)) <
                                     pages[p].navigations + Cardinality(ResetOf(p))
  BY DEF PagesListenOnce
<1>1. p \in Nat
  BY DEF PInv, ClientOK
<1>2. FewSources(p) /\ Excused(p)
  BY <1>1 DEF ListenInv
<1>3. Given(p) = pages[p].navigations
  BY DEF Given
<1>4. Cardinality(ListeningOf(p)) <= pages[p].navigations
  BY <1>2, <1>3 DEF FewSources
<1>5. QED
  BY <1>2, <1>3, <1>4, Zenon DEF Excused

(***************************************************************************)
(* A step as the count sees it: the sources `new` are opened for page x,   *)
(* those of `ended` get their reset, and page x is given enough sessions   *)
(* for the rest.                                                           *)
(***************************************************************************)
Silent(k) ==
  /\ sources[k].state = "closed" /\ ResetsGot(k) = {}
  /\ streams[k].at # "refused"
  /\ streams[k].emitter \in {"none", "open"}

NewSource(j, x) ==
  /\ sources[j].state = "none" /\ ResetsGot(j) = {}
  /\ sources'[j].state = "open" /\ sources'[j].page = x
  /\ \A l \in Streams : sources[l].state = "none" => j <= l

SourceKept(j) ==
  /\ sources'[j].page = sources[j].page
  /\ sources'[j].state = "none" <=> sources[j].state = "none"
  /\ sources'[j].state = "open" => sources[j].state = "open"
  /\ ResetsGot(j) \subseteq ResetsGot(j)'

SourcesMove(x, new, ended) ==
  /\ \A p \in Nat : Given(p) <= Given(p)'
  /\ Cardinality(new) + Given(x) <= Given(x)' + Cardinality(ended)
  /\ \A j \in new : NewSource(j, x)
  /\ \A j \in Streams \ new : SourceKept(j)
  /\ \A j \in ended : j \in ListeningOf(x) /\ ResetsGot(j)' # {}
  /\ \A j \in Streams \ new : Silent(j)' => Silent(j) \/ ended # {}

LEMMA CountAdded ==
  ASSUME NEW U, IsFiniteSet(U), NEW S \in SUBSET U, NEW T \in SUBSET U,
         NEW S2 \in SUBSET S \cup T
  PROVE  Cardinality(S2) <= Cardinality(S) + Cardinality(T)
<1>1. /\ IsFiniteSet(S) /\ IsFiniteSet(T) /\ IsFiniteSet(S \cap T)
      /\ IsFiniteSet(S \cup T) /\ IsFiniteSet(S2)
  BY FS_Subset, FS_Union
<1>2. Cardinality(S \cup T) = Cardinality(S) + Cardinality(T) - Cardinality(S \cap T)
  BY <1>1, FS_Union
<1>3. Cardinality(S2) <= Cardinality(S \cup T)
  BY <1>1, FS_Subset
<1>4. /\ Cardinality(S) \in Nat /\ Cardinality(T) \in Nat /\ Cardinality(S \cap T) \in Nat
      /\ Cardinality(S2) \in Nat
  BY <1>1, FS_CardinalityType
<1>5. QED
  BY <1>2, <1>3, <1>4

LEMMA CountApart ==
  ASSUME NEW U, IsFiniteSet(U), NEW S2 \in SUBSET U, NEW S \in SUBSET S2,
         NEW T \in SUBSET S2, S \cap T = {}
  PROVE  Cardinality(S) + Cardinality(T) <= Cardinality(S2)
<1>1. /\ IsFiniteSet(S) /\ IsFiniteSet(T) /\ IsFiniteSet(S2) /\ IsFiniteSet(S \cup T)
  BY FS_Subset, FS_Union
<1>2. Cardinality(S \cup T) = Cardinality(S) + Cardinality(T) - Cardinality({})
  BY <1>1, FS_Union
<1>3. Cardinality(S \cup T) <= Cardinality(S2) /\ Cardinality({}) = 0
  BY <1>1, FS_Subset, FS_EmptySet
<1>4. Cardinality(S) \in Nat /\ Cardinality(T) \in Nat /\ Cardinality(S2) \in Nat
  BY <1>1, FS_CardinalityType
<1>5. QED
  BY <1>2, <1>3, <1>4

LEMMA ListenNext ==
  ASSUME PInv, PInv', ListenInv, NEW x \in Nat,
         NEW new \in SUBSET Streams, NEW ended \in SUBSET Streams,
         SourcesMove(x, new, ended)
  PROVE  ListenInv'
<1>1. OrderOK'
  <2> SUFFICES ASSUME NEW k \in Streams, NEW l \in Streams,
                      sources'[k].state # "none", sources'[l].state = "none"
               PROVE  k < l
    BY DEF OrderOK
  <2>1. l \notin new /\ sources[l].state = "none" /\ k # l
    BY DEF SourcesMove, NewSource, SourceKept
  <2>2. CASE k \in new
    BY <2>1, <2>2 DEF SourcesMove, NewSource
  <2>3. CASE k \notin new
    BY <2>1, <2>3 DEF SourcesMove, SourceKept, ListenInv, OrderOK
  <2>4. QED
    BY <2>2, <2>3
<1> SUFFICES ASSUME NEW p \in Nat PROVE FewSources(p)' /\ Excused(p)'
  BY <1>1 DEF ListenInv
<1> DEFINE add == IF p = x THEN new ELSE {}
           sub == IF p = x THEN ended ELSE {}
<1>2. SourcesOf(p)' = SourcesOf(p) \cup add
  BY DEF SourcesOf, SourcesMove, NewSource, SourceKept
<1>3. ResetOf(p) \cup sub \subseteq ResetOf(p)' /\ ResetOf(p) \cap sub = {}
  <2>1. \A j \in ResetOf(p) : j \notin new
    BY DEF ResetOf, SourcesOf, SourcesMove, NewSource
  <2>2. ResetOf(p) \subseteq ResetOf(p)'
    BY <1>2, <2>1 DEF ResetOf, SourcesOf, SourcesMove, SourceKept
  <2>3. sub \subseteq ResetOf(p)'
    BY <1>2 DEF ResetOf, ListeningOf, SourcesMove
  <2>4. ResetOf(p) \cap sub = {}
    BY DEF ResetOf, ListeningOf, Listens, SourcesMove
  <2>5. QED
    BY <2>2, <2>3, <2>4
<1>4. sub \subseteq ListeningOf(p)
  BY DEF SourcesMove
<1>5. ListeningOf(p)' \subseteq (ListeningOf(p) \ sub) \cup add
  <2> SUFFICES ASSUME NEW j \in ListeningOf(p)', j \notin add
               PROVE  j \in ListeningOf(p) /\ j \notin sub
    OBVIOUS
  <2>1. j \in Streams /\ sources'[j].state = "open" /\ ResetsGot(j)' = {}
        /\ j \in SourcesOf(p) /\ j \notin sub
    BY <1>2 DEF ListeningOf, Listens, SourcesOf, SourcesMove
  <2>2. j \notin new
    BY <2>1 DEF SourcesOf, SourcesMove, NewSource
  <2>3. QED
    BY <2>1, <2>2 DEF SourcesMove, SourceKept, ListeningOf, Listens
<1>6. Given(p) \in Nat /\ Given(p)' \in Nat
  <2>1. p \in DOMAIN pages => pages[p] \in Page
    BY DEF PInv, ClientOK
  <2>2. p \in DOMAIN pages' => pages'[p] \in Page
    BY DEF PInv, ClientOK
  <2>3. QED
    BY <2>1, <2>2 DEF Given, Page
<1>7. Cardinality(add) + Given(p) <= Given(p)' + Cardinality(sub)
  <2>1. Cardinality({}) = 0
    BY FS_EmptySet
  <2>2. QED
    BY <1>6, <2>1 DEF SourcesMove
<1>8. /\ SourcesOf(p) \in SUBSET Streams /\ SourcesOf(p)' \in SUBSET Streams
      /\ ResetOf(p) \in SUBSET Streams /\ ResetOf(p)' \in SUBSET Streams
      /\ ListeningOf(p) \in SUBSET Streams /\ ListeningOf(p)' \in SUBSET Streams
      /\ add \in SUBSET Streams /\ sub \in SUBSET Streams
  BY DEF SourcesOf, ResetOf, ListeningOf
<1>9. /\ IsFiniteSet(Streams)
      /\ Cardinality(SourcesOf(p)) <= Given(p) + Cardinality(ResetOf(p))
      /\ Cardinality(ListeningOf(p)) <= Given(p)
  BY DEF ListenInv, FewSources
<1> HIDE DEF add, sub
<1>10. /\ Cardinality(SourcesOf(p)) \in Nat /\ Cardinality(ResetOf(p)) \in Nat
       /\ Cardinality(SourcesOf(p)') \in Nat /\ Cardinality(ResetOf(p)') \in Nat
       /\ Cardinality(ListeningOf(p)) \in Nat /\ Cardinality(ListeningOf(p)') \in Nat
       /\ Cardinality(add) \in Nat /\ Cardinality(sub) \in Nat
  BY <1>8, <1>9, FS_Subset, FS_CardinalityType
<1>11. Cardinality(ResetOf(p)) + Cardinality(sub) <= Cardinality(ResetOf(p)')
  BY <1>3, <1>8, <1>9, CountApart
<1>12. FewSources(p)'
  <2>1. Cardinality(SourcesOf(p)') <= Cardinality(SourcesOf(p)) + Cardinality(add)
    BY <1>2, <1>8, <1>9, CountAdded
  <2>2. Cardinality(ListeningOf(p)') <= Cardinality(ListeningOf(p) \ sub) + Cardinality(add)
    BY <1>5, <1>8, <1>9, CountAdded
  <2>3. Cardinality(ListeningOf(p) \ sub) + Cardinality(sub) <= Cardinality(ListeningOf(p))
    BY <1>4, <1>8, <1>9, CountApart
  <2>4. Cardinality(ListeningOf(p) \ sub) \in Nat
    <3>1. ListeningOf(p) \ sub \in SUBSET Streams
      BY <1>8
    <3>2. QED
      BY <1>9, <3>1, FS_Subset, FS_CardinalityType
  <2>5. Cardinality(SourcesOf(p)') <= Given(p)' + Cardinality(ResetOf(p)')
    BY <1>6, <1>7, <1>9, <1>10, <1>11, <2>1
  <2>6. Cardinality(ListeningOf(p)') <= Given(p)'
    BY <1>6, <1>7, <1>9, <1>10, <2>2, <2>3, <2>4
  <2>7. QED
    BY <2>5, <2>6 DEF FewSources
<1>13. ASSUME NEW k \in Streams, Silenced(p, k)'
       PROVE  \E l \in Streams \ {k} :
                /\ ResetsGot(l)' # {}
                /\ \/ sources'[l].page # p
                   \/ Cardinality(SourcesOf(p)') < Given(p)' + Cardinality(ResetOf(p)')
  <2>1. /\ k \in SourcesOf(p)' /\ Silent(k)' /\ sources'[k].state = "closed"
        /\ ResetsGot(k)' = {} /\ \A l \in SourcesOf(p)' : l <= k
    BY <1>13 DEF Silenced, Silent
  <2>2. k \notin new /\ k \in SourcesOf(p) /\ sources[k].state # "none"
    BY <1>2, <2>1 DEF add, SourcesMove, NewSource, SourcesOf
  <2>3. add = {}
    <3>1. ASSUME NEW j \in add PROVE FALSE
      <4>1. j \in Streams /\ sources[j].state = "none" /\ j <= k
        BY <1>2, <1>8, <2>1, <3>1 DEF add, SourcesMove, NewSource
      <4>2. k < j
        BY <2>2, <4>1 DEF ListenInv, OrderOK
      <4>3. QED
        BY <4>1, <4>2
    <3>2. QED
      BY <3>1
  <2>4. SourcesOf(p)' = SourcesOf(p)
    BY <1>2, <2>3
  <2>5. CASE Silent(k)
    <3>1. Silenced(p, k)
      BY <2>1, <2>2, <2>4, <2>5 DEF Silenced, Silent
    <3>2. PICK l \in Streams \ {k} :
            /\ ResetsGot(l) # {}
            /\ \/ sources[l].page # p
               \/ Cardinality(SourcesOf(p)) < Given(p) + Cardinality(ResetOf(p))
      BY <3>1 DEF ListenInv, Excused
    <3>3. ResetsGot(l)' # {} /\ sources'[l].page = sources[l].page
      BY <3>2 DEF SourcesMove, NewSource, SourceKept
    <3>4. Given(p) <= Given(p)'
      BY DEF SourcesMove
    <3>5. Cardinality(SourcesOf(p)) < Given(p) + Cardinality(ResetOf(p)) =>
            Cardinality(SourcesOf(p)') < Given(p)' + Cardinality(ResetOf(p)')
      BY <1>6, <1>10, <1>11, <2>4, <3>4
    <3>6. QED
      BY <3>2, <3>3, <3>5
  <2>6. CASE ~Silent(k)
    <3>1. PICK m \in ended : m \in ListeningOf(x) /\ ResetsGot(m)' # {}
      BY <2>1, <2>2, <2>6 DEF SourcesMove
    <3>2. m \in Streams \ {k} /\ sources[m].page = x /\ sources[m].state = "open"
      BY <2>1, <3>1 DEF ListeningOf, SourcesOf, Listens
    <3>3. CASE p # x
      <4>1. m \notin new /\ sources'[m].page = x
        BY <3>2 DEF SourcesMove, NewSource, SourceKept
      <4>2. QED
        BY <3>1, <3>2, <3>3, <4>1
    <3>4. CASE p = x
      <4>1. sub # {} /\ Cardinality(add) = 0
        BY <2>3, <3>1, <3>4, FS_EmptySet DEF sub
      <4>2. Cardinality(sub) # 0
        BY <1>8, <1>9, <4>1, FS_Subset, FS_EmptySet
      <4>3. Cardinality(SourcesOf(p)') < Given(p)' + Cardinality(ResetOf(p)')
        <5>1. Given(p) <= Given(p)'
          BY DEF SourcesMove
        <5>2. QED
          BY <1>6, <1>9, <1>10, <1>11, <2>4, <4>2, <5>1
      <4>4. QED
        BY <3>1, <3>2, <4>3
    <3>5. QED
      BY <3>3, <3>4
  <2>7. QED
    BY <2>5, <2>6
<1>14. QED
  BY <1>12, <1>13 DEF Excused

\* No reset has been handed by a source that was not opened.
LEMMA NoneGot ==
  ASSUME PInv, NEW k \in Streams, sources[k].state = "none"
  PROVE  ResetsGot(k) = {}
<1>1. streams[k] = Unopened /\ sources[k].got <= 0 /\ sources[k].got \in Nat
  BY DEF PInv, SourcesOK, SourceOK, Source, DInv, TInv, StreamsType, WellFormed, Unopened
<1>2. QED
  BY <1>1 DEF ResetsGot, Got

LEMMA ResetsKept ==
  ASSUME PInv, Grows, NEW k \in Streams, sources'[k].got \in Nat,
         sources[k].got <= sources'[k].got
  PROVE  ResetsGot(k) \subseteq ResetsGot(k)'
<1>1. CASE sources[k].state = "none"
  BY <1>1, NoneGot
<1>2. CASE sources[k].state # "none"
  <2> SUFFICES ASSUME NEW n \in ResetsGot(k) PROVE n \in ResetsGot(k)'
    OBVIOUS
  <2>1. /\ sources[k].got \in Nat /\ sources[k].got <= Len(streams[k].sent)
        /\ streams[k].at # "unopened" /\ streams[k].sent \in Seq(Ids)
    BY <1>2 DEF PInv, SourcesOK, SourceOK, Source, DInv, TInv, StreamsType, Stream
  <2>2. PICK i \in 1 .. sources[k].got : n = streams[k].sent[i]
    BY DEF ResetsGot, Got
  <2>3. i \in DOMAIN streams[k].sent /\ i \in 1 .. sources'[k].got
    BY <2>1, <2>2
  <2>4. streams'[k].sent[i] = n
    BY <2>1, <2>2, <2>3 DEF Grows, Lasts
  <2>5. n \in DOMAIN published
    BY <2>2, <2>3 DEF PInv, DInv, StreamsOwned, StreamOwned, TakenBy
  <2>6. published[n].type = VoteReset /\ published'[n] = published[n]
    BY <2>5 DEF ResetsGot, Grows
  <2>7. QED
    BY <2>3, <2>4, <2>6 DEF ResetsGot, Got
<1>3. QED
  BY <1>1, <1>2

LEMMA SilentBefore ==
  ASSUME PInv, Grows, NEW j \in Streams, sources'[j].got \in Nat,
         sources[j].got <= sources'[j].got, sources[j].state = "closed", Silent(j)'
  PROVE  Silent(j)
<1>1. ResetsGot(j) = {}
  BY ResetsKept DEF Silent
<1>2. streams[j].at # "unopened"
  BY DEF PInv, SourcesOK, SourceOK
<1>3. streams[j].at # "refused" /\ streams[j].emitter \in {"none", "open"}
  BY <1>2 DEF Grows, Lasts, Silent
<1>4. QED
  BY <1>1, <1>3 DEF Silent

\* A source that is neither opened nor closed in this step
LEMMA StaysAsItWas ==
  ASSUME PInv, Grows, NEW j \in Streams, sources'[j].page = sources[j].page,
         sources'[j].state = sources[j].state, sources'[j].got \in Nat,
         sources[j].got <= sources'[j].got
  PROVE  SourceKept(j) /\ (Silent(j)' => Silent(j))
BY ResetsKept, SilentBefore DEF SourceKept, Silent

LEMMA Untouched ==
  ASSUME PInv, Grows, NEW j \in Streams, sources'[j] = sources[j]
  PROVE  SourceKept(j) /\ (Silent(j)' => Silent(j))
<1>1. sources[j].got \in Nat
  BY DEF PInv, SourcesOK, Source
<1>2. sources'[j].got \in Nat /\ sources[j].got <= sources'[j].got
  BY <1>1
<1>3. QED
  BY <1>2, StaysAsItWas

LEMMA FetchOpens ==
  ASSUME PInv, NEW p \in Nat, NEW s, NEW rest \in [Streams -> Source], FetchVotes(p, s, rest)
  PROVE  \E new \in SUBSET Streams :
           /\ Cardinality(new) \in {0, 1}
           /\ \A j \in new : NewSource(j, p)
           /\ \A j \in Streams \ new : sources'[j] = rest[j]
<1>1. CASE ~credentials
  <2>1. sources' = rest
    BY <1>1 DEF FetchVotes
  <2>2. QED
    BY <2>1, FS_EmptySet
<1>2. CASE credentials
  <2>1. PICK k \in Streams :
          /\ IsNext(k)
          /\ sources' = [rest EXCEPT ![k] = [page |-> p, got |-> 0, state |-> "open"]]
    BY <1>2 DEF FetchVotes
  <2>2. \A l \in Streams : sources[l].state = "none" <=> streams[l].at = "unopened"
    BY DEF PInv, SourcesOK, SourceOK
  <2>3. sources'[k] = [page |-> p, got |-> 0, state |-> "open"]
        /\ \A j \in Streams \ {k} : sources'[j] = rest[j]
    BY <2>1
  <2>4. NewSource(k, p)
    BY <2>1, <2>2, <2>3, NoneGot DEF NewSource, IsNext
  <2>5. Cardinality({k}) = 1
    BY FS_Singleton
  <2>6. QED
    BY <2>3, <2>4, <2>5
<1>3. QED
  BY <1>1, <1>2

LEMMA GivenNat == PInv => \A p \in Nat : Given(p) \in Nat
<1> SUFFICES ASSUME PInv, NEW p \in Nat PROVE Given(p) \in Nat
  OBVIOUS
<1>1. p \in DOMAIN pages => pages[p] \in Page
  BY DEF PInv, ClientOK
<1>2. QED
  BY <1>1 DEF Given, Page

LEMMA StepsCount ==
  ASSUME PInv, PInv', PageMove
  PROVE  \E x \in Nat, new \in SUBSET Streams, ended \in SUBSET Streams :
           SourcesMove(x, new, ended)
<1>1. /\ Grows
      /\ \A p \in Nat : Given(p) \in Nat
      /\ Cardinality({}) = 0 /\ \A k \in Streams : Cardinality({k}) = 1
      /\ \A j \in Streams : /\ sources[j].got \in Nat /\ sources'[j].got \in Nat
                             /\ sources[j].page \in Nat
  BY MovesGrow, GivenNat, FS_EmptySet, FS_Singleton DEF PInv, SourcesOK, Source
<1>2. ASSUME \A p \in Nat : Given(p)' = Given(p),
             \A j \in Streams : SourceKept(j) /\ (Silent(j)' => Silent(j))
      PROVE  SourcesMove(0, {}, {})
  <2>1. Given(0)' = Given(0) /\ Given(0) \in Nat
    BY <1>1, <1>2
  <2>2. Cardinality({}) + Given(0) <= Given(0)' + Cardinality({})
    BY <1>1, <2>1
  <2>3. \A p \in Nat : Given(p) <= Given(p)'
    BY <1>1, <1>2
  <2>4. QED
    BY <1>2, <2>2, <2>3 DEF SourcesMove
<1>3. CASE Idles
  <2>1. \A p \in Nat : Given(p)' = Given(p)
    BY <1>3 DEF Idles, SamePage, Given
  <2>2. \A j \in Streams : SourceKept(j) /\ (Silent(j)' => Silent(j))
    <3>1. \A j \in Streams : sources'[j] = sources[j]
      BY <1>3 DEF Idles
    <3>2. Grows
      BY <1>1
    <3>3. QED
      BY <3>1, <3>2, Untouched
  <2>3. QED
    BY <1>2, <2>1, <2>2
<1>4. ASSUME NEW x \in Nat, NEW s \in Sessions, Navigated(x, s)
      PROVE  \E new \in SUBSET Streams : SourcesMove(x, new, {})
  <2>1. PICK new \in SUBSET Streams :
          /\ Cardinality(new) \in {0, 1}
          /\ \A j \in new : NewSource(j, x)
          /\ \A j \in Streams \ new : sources'[j] = sources[j]
    BY <1>4, FetchOpens DEF Navigated, PInv, SourcesOK
  <2>2. /\ Given(x)' = Given(x) + 1
        /\ \A p \in Nat \ {x} : Given(p)' = Given(p)
    BY <1>4 DEF Navigated, SamePage, Given
  <2>3. \A p \in Nat : Given(p) <= Given(p)'
    BY <1>1, <2>2
  <2>4. Cardinality(new) + Given(x) <= Given(x)' + Cardinality({})
    BY <1>1, <2>1, <2>2
  <2>5. \A j \in Streams \ new : SourceKept(j) /\ (Silent(j)' => Silent(j))
    <3>1. Grows
      BY <1>1
    <3>2. QED
      BY <2>1, <3>1, Untouched
  <2>6. QED
    BY <2>1, <2>3, <2>4, <2>5 DEF SourcesMove
<1>5. ASSUME NEW k \in Streams, OnEnd(k) \/ Tear(k) PROVE SourcesMove(0, {}, {})
  <2>1. \A p \in Nat : Given(p)' = Given(p)
    BY <1>5 DEF OnEnd, Tear, Given
  <2>7. PICK x \in {"closed", "torn"} : /\ sources' = [sources EXCEPT ![k].state = x]
                                        /\ x = "closed" => OnEnd(k)
    BY <1>5 DEF OnEnd, Tear
  <2>2. sources[k].state = "open" /\ streams' = streams /\ sources \in [Streams -> Source]
    BY <1>5 DEF OnEnd, Tear, deliveryVars, PInv, SourcesOK
  <2>3. ASSUME NEW j \in Streams \ {k} PROVE SourceKept(j) /\ (Silent(j)' => Silent(j))
    <3>1. sources'[j] = sources[j]
      BY <2>2, <2>7
    <3>2. Grows
      BY <1>1
    <3>3. QED
      BY <3>1, <3>2, Untouched
  <2>4. SourceKept(k)
    <3>1. /\ sources'[k].page = sources[k].page /\ sources'[k].got = sources[k].got
          /\ sources'[k].state = x
      BY <2>2, <2>7 DEF Source
    <3>2. QED
      BY <1>1, <2>2, <3>1, ResetsKept DEF SourceKept
  <2>5. ~Silent(k)'
    <3>1. CASE OnEnd(k)
      BY <2>2, <3>1 DEF OnEnd, Silent
    <3>2. CASE x = "torn"
      <4>1. sources'[k].state = "torn"
        BY <2>2, <2>7, <3>2 DEF Source
      <4>2. QED
        BY <4>1 DEF Silent
    <3>3. QED
      BY <2>7, <3>1, <3>2
  <2>6. QED
    BY <1>2, <2>1, <2>3, <2>4, <2>5
<1>6. ASSUME NEW k \in Streams, OnVote(k) PROVE SourcesMove(0, {}, {})
  <2> DEFINE x == sources[k].page
  <2>1. /\ HasMessage(k) /\ sources' = HandedTo(k, Null)
        /\ pages' = [pages EXCEPT ![x].voters[Handed(k).uid] = Handed(k).point]
    BY <1>6 DEF OnVote, HandedTo, PInv, SourcesOK
  <2>2. \A p \in Nat : Given(p)' = Given(p)
    <3>1. pages \in Seq(Page) /\ x \in DOMAIN pages /\ pages[x] \in Page
      BY <2>1, HandedFacts DEF PInv, ClientOK
    <3> DEFINE old == pages[x]
               new == [old EXCEPT !.voters[Handed(k).uid] = Handed(k).point]
    <3>2. pages' = [pages EXCEPT ![x] = new]
      BY <2>1
    <3>3. new.navigations = old.navigations
      <4> HIDE DEF old
      <4>1. QED
        BY <3>1 DEF old, Page
    <3> HIDE DEF new
    <3>4. QED
      BY <3>1, <3>2, <3>3 DEF Given
  <2>3. \A j \in Streams :
          /\ sources'[j].state = sources[j].state
          /\ sources'[j].page = sources[j].page
          /\ sources[j].got <= sources'[j].got
    <3>1. EventSourceOK(Null, sources) /\ \A j \in Streams : j # Null
      BY DEF EventSourceOK
    <3>2. QED
      BY <1>1, <2>1, <3>1, SourcesHanded
  <2>4. QED
    <3>1. ASSUME NEW j \in Streams PROVE SourceKept(j) /\ (Silent(j)' => Silent(j))
      BY <1>1, <2>3, StaysAsItWas
    <3>2. QED
      BY <1>2, <2>2, <3>1
<1>7. ASSUME NEW k \in Streams, OnReset(k)
      PROVE  \E x \in Nat, new \in SUBSET Streams : SourcesMove(x, new, {k})
  <2>0. PICK x \in Nat : x = sources[k].page
    BY <1>1
  <2> DEFINE rest == HandedTo(k, eventSource)
             n == streams[k].sent[sources[k].got + 1]
  <2>1. /\ HasMessage(k) /\ Handed(k).type = VoteReset
        /\ FetchVotes(x, pages[x].activeSession, rest)
        /\ pages' = [pages EXCEPT ![x].voters = NobodyVoted, ![x].yourVote = NoVote]
    BY <1>7, <2>0 DEF OnReset, HandedTo
  <2>2. /\ x \in DOMAIN pages /\ x \in Nat
        /\ sources[k].state = "open" /\ sources[k].got \in Nat
        /\ sources[k].got + 1 \in DOMAIN streams[k].sent
        /\ n \in DOMAIN published /\ published[n].type = VoteReset
        /\ streams[k].at # "unopened"
    BY <2>0, <2>1, HandedFacts DEF Handed
  <2>3. /\ rest \in [Streams -> Source]
        /\ \A j \in Streams :
             /\ rest[j].state = IF j = eventSource THEN "closed" ELSE sources[j].state
             /\ rest[j].page = sources[j].page
             /\ rest[j].got = IF j = k THEN sources[j].got + 1 ELSE sources[j].got
    BY <2>1, SourcesHanded DEF PInv, SourcesOK
  <2>4. \A p \in Nat : Given(p)' = Given(p)
    <3> DEFINE old == pages[x]
               new == [old EXCEPT !.voters = NobodyVoted, !.yourVote = NoVote]
    <3>0. pages \in Seq(Page) /\ old \in Page
      BY <2>2 DEF PInv, ClientOK
    <3>1. pages' = [pages EXCEPT ![x] = new]
      BY <2>1, <2>2, <3>0
    <3>2. new.navigations = old.navigations
      <4> HIDE DEF old
      <4>1. QED
        BY <3>0 DEF Page
    <3> HIDE DEF new
    <3>3. QED
      BY <2>2, <3>0, <3>1, <3>2 DEF Given
  <2> HIDE DEF rest
  <2>5. PICK new \in SUBSET Streams :
          /\ Cardinality(new) \in {0, 1}
          /\ \A j \in new : NewSource(j, x)
          /\ \A j \in Streams \ new : sources'[j] = rest[j]
    BY <2>1, <2>2, <2>3, FetchOpens
  <2>6. k \notin new /\ sources'[k] = rest[k]
    BY <2>2, <2>5 DEF NewSource
  <2>7. \A j \in Streams \ new : SourceKept(j)
    <3> SUFFICES ASSUME NEW j \in Streams \ new PROVE SourceKept(j)
      OBVIOUS
    <3>1. j = eventSource => sources[j].state # "none"
      BY DEF PInv, SourcesOK, EventSourceOK
    <3>2. sources'[j] = rest[j] /\ sources[j].got <= sources'[j].got
      BY <1>1, <2>3, <2>5
    <3>3. QED
      BY <1>1, <2>3, <3>1, <3>2, ResetsKept DEF SourceKept
  <2>8. k \in ListeningOf(x)
    <3>1. ResetsGot(k) = {}
      <4> SUFFICES ASSUME NEW i \in 1 .. sources[k].got,
                          published[streams[k].sent[i]].type = VoteReset
                   PROVE  FALSE
        BY DEF ResetsGot, Got
      <4>1. streams[k].sent \in Seq(Ids)
        BY DEF PInv, DInv, TInv, StreamsType, Stream
      <4>2. i \in DOMAIN streams[k].sent /\ i < Len(streams[k].sent)
        <5>1. DOMAIN streams[k].sent = 1 .. Len(streams[k].sent) /\ Len(streams[k].sent) \in Nat
          BY <4>1
        <5>2. i \in Nat /\ 1 <= i /\ i <= sources[k].got
          BY <2>2
        <5>3. QED
          BY <2>2, <5>1, <5>2
      <4>3. i = Len(streams[k].sent)
        BY <4>2 DEF PInv, DInv, StreamsOwned, StreamOwned
      <4>4. QED
        BY <4>1, <4>2, <4>3
    <3>2. QED
      BY <2>0, <2>2, <3>1 DEF ListeningOf, Listens, SourcesOf
  <2>9. ResetsGot(k)' # {}
    <3>1. sources[k].got + 1 \in 1 .. sources'[k].got
      BY <2>2, <2>3, <2>6
    <3>2. n \in Got(k)'
      BY <1>1, <2>2, <3>1 DEF Got, Grows, Lasts
    <3>3. published'[n].type = VoteReset
      BY <1>1, <2>2 DEF Grows
    <3>4. QED
      BY <3>2, <3>3 DEF ResetsGot
  <2>10. Cardinality(new) + Given(x) <= Given(x)' + Cardinality({k})
    BY <1>1, <2>2, <2>4, <2>5
  <2>11. \A p \in Nat : Given(p) <= Given(p)'
    BY <1>1, <2>4
  <2>12. SourcesMove(x, new, {k})
    BY <2>5, <2>7, <2>8, <2>9, <2>10, <2>11 DEF SourcesMove
  <2>13. QED
    BY <2>2, <2>12
<1>8. QED
  BY <1>3, <1>4, <1>5, <1>6, <1>7 DEF PageMove, OnMessage

LEMMA ListenStart == PagesInit => ListenInv
<1> SUFFICES ASSUME PagesInit PROVE ListenInv
  OBVIOUS
<1>1. /\ \A k \in Streams : sources[k].state = "none"
      /\ \A p \in Nat : Given(p) = 0
  BY DEF PagesInit, Given
<1>2. \A p \in Nat : SourcesOf(p) = {} /\ ResetOf(p) = {} /\ ListeningOf(p) = {}
  BY <1>1 DEF SourcesOf, ResetOf, ListeningOf
<1>3. Cardinality({}) = 0
  BY FS_EmptySet
<1>4. OrderOK
  BY <1>1 DEF OrderOK
<1>5. \A p \in Nat : FewSources(p) /\ Excused(p)
  <2> SUFFICES ASSUME NEW p \in Nat PROVE FewSources(p) /\ Excused(p)
    OBVIOUS
  <2>1. FewSources(p)
    BY <1>1, <1>2, <1>3 DEF FewSources
  <2>2. Excused(p)
    BY <1>2 DEF Excused, Silenced
  <2>3. QED
    BY <2>1, <2>2
<1>6. QED
  BY <1>4, <1>5 DEF ListenInv

(***************************************************************************)
(* For any number of pages, streams and requests, a page listens to no     *)
(* more streams than it was given sessions, and its last source is closed  *)
(* here only by the handler of a reset on another source: of another       *)
(* page's, or of its own while nobody was logged in.                       *)
(***************************************************************************)
THEOREM PagesListenOncePerSession == PagesSpec => []PagesListenOnce
<1>1. PInv /\ PInv' /\ Sound /\ ListenInv => ListenInv'
  BY StepsCount, ListenNext DEF Sound
<1>2. QED
  BY <1>1, ListenStart, ListenInvEnough, PagesStart, PagesSound, PTL DEF PagesSpec

-----------------------------------------------------------------------------
(***************************************************************************)
(* Calm runs.  The listeners are left the time to settle, and there is one *)
(* request at a time: an answer is noticed while what it answers is still  *)
(* the last thing that has happened.                                       *)
(***************************************************************************)
AnsweredLast(r) ==
  LET ev == published[Len(published)]
  IN  /\ published # <<>>
      /\ ev.type = EventTypeOf(r.op) /\ ev.sid = r.sid
      /\ ev.uid = Me /\ ev.point = r.point

OneRequest ==
  /\ \A r1, r2 \in requests : r1 = r2
  /\ \A r \in requests : r.answered => AnsweredLast(r)

CalmInv ==
  /\ PInv /\ KeepingInv /\ OnceInv
  /\ calm \in BOOLEAN
  /\ IsFiniteSet(requests)
  /\ calm => credentials /\ OneRequest /\ PatientInv /\ SettledInv

\* There are no more requests than before and one.
LEMMA RequestsGrow ==
  ASSUME [PagesNext]_clientVars
  PROVE  \E r : requests' \subseteq requests \cup {r}
<1>1. ASSUME NEW op, NEW s, NEW point, Ask(op, s, point)
      PROVE  \E r : requests' \subseteq requests \cup {r}
  BY <1>1 DEF Ask
<1>2. CASE UserStep
  BY <1>1, <1>2 DEF UserStep, createSession, joinSession, vote, resetVotes, exitSession, logout,
     authenticate, GoBack
<1>3. ASSUME NEW r \in requests, Serve(r) \/ Refuse(r) \/ Answered(r)
      PROVE  \E x : requests' \subseteq requests \cup {x}
  BY <1>3 DEF Serve, Refuse, Answered
<1>4. CASE ServiceStep
  BY <1>3, <1>4 DEF ServiceStep, Elsewhere, browserVars
<1>5. CASE ServerStep \/ \E k \in Streams : OnMessage(k) \/ OnEnd(k) \/ Tear(k)
  BY <1>5 DEF ServerStep, browserVars, OnMessage, OnVote, OnReset, OnEnd, Tear
<1>6. CASE UNCHANGED clientVars
  BY <1>6 DEF clientVars, browserVars
<1>7. QED
  BY <1>2, <1>4, <1>5, <1>6 DEF PagesNext

LEMMA AtMostOne ==
  ASSUME NEW S, IsFiniteSet(S), Cardinality(S) <= 1
  PROVE  \A x, y \in S : x = y
<1> SUFFICES ASSUME NEW x \in S, NEW y \in S, x # y PROVE FALSE
  OBVIOUS
<1>1. {x, y} \subseteq S /\ Cardinality({x, y}) = 2
  <2>1. IsFiniteSet({y}) /\ Cardinality({y}) = 1
    BY FS_Singleton
  <2>2. Cardinality({y} \cup {x}) = Cardinality({y}) + 1
    BY <2>1, FS_AddElement
  <2>3. {x, y} = {y} \cup {x}
    OBVIOUS
  <2>4. QED
    BY <2>1, <2>2, <2>3
<1>2. Cardinality({x, y}) <= Cardinality(S) /\ Cardinality(S) \in Nat
  BY <1>1, FS_Subset, FS_CardinalityType
<1>3. QED
  BY <1>1, <1>2

\* A request that is new is not answered.
LEMMA AnswersComeFirst ==
  ASSUME [PagesNext]_clientVars, NEW r \in requests', r.answered, r \notin requests
  PROVE  \E x \in requests : Serve(x) /\ requests' = (requests \ {x}) \cup {r}
<1>1. ASSUME NEW op, NEW s, NEW point, Ask(op, s, point) PROVE FALSE
  BY <1>1 DEF Ask
<1>2. CASE UserStep
  BY <1>1, <1>2 DEF UserStep, createSession, joinSession, vote, resetVotes, exitSession, logout,
     authenticate, GoBack
<1>3. ASSUME NEW x \in requests, Refuse(x) \/ Answered(x) PROVE FALSE
  BY <1>3 DEF Refuse, Answered
<1>4. ASSUME NEW x \in requests, Serve(x)
      PROVE  requests' = (requests \ {x}) \cup {r}
  BY <1>4 DEF Serve
<1>5. CASE ServiceStep
  BY <1>3, <1>4, <1>5 DEF ServiceStep, Elsewhere, browserVars
<1>6. CASE ServerStep \/ \E k \in Streams : OnMessage(k) \/ OnEnd(k) \/ Tear(k)
  BY <1>6 DEF ServerStep, browserVars, OnMessage, OnVote, OnReset, OnEnd, Tear
<1>7. CASE UNCHANGED clientVars
  BY <1>7 DEF clientVars, browserVars
<1>8. QED
  BY <1>2, <1>5, <1>6, <1>7 DEF PagesNext

LEMMA OneRequestNext ==
  ASSUME CalmInv, calm, PInv', IsFiniteSet(requests)', [PagesNext]_clientVars, CalmStep
  PROVE  OneRequest'
<1>1. \A r1, r2 \in requests' : r1 = r2
  BY AtMostOne DEF CalmStep
<1>2. ASSUME NEW r \in requests', r.answered PROVE AnsweredLast(r)'
  <2>1. CASE r \in requests
    <3>1. AnsweredLast(r)
      BY <1>2, <2>1 DEF CalmInv, OneRequest
    <3>2. published' = published
      BY <1>2, <2>1 DEF CalmStep
    <3>3. QED
      BY <3>1, <3>2 DEF AnsweredLast
  <2>2. CASE r \notin requests
    <3>1. PICK x \in requests : Serve(x) /\ requests' = (requests \ {x}) \cup {r}
      BY <1>2, <2>2, AnswersComeFirst
    <3>2. PICK s \in Sessions, d \in Ticks :
            /\ MulticastEvent([type |-> EventTypeOf(x.op), sid |-> s, uid |-> Me,
                               point |-> x.point, ts |-> LastTime + d])
            /\ requests' = (requests \ {x}) \cup {[x EXCEPT !.sid = s, !.answered = TRUE]}
      BY <3>1 DEF Serve, CalmInv, PInv, RequestsOK
    <3>3. x \in PageRequest
      BY DEF CalmInv, PInv, RequestsOK
    <3> DEFINE new == [x EXCEPT !.sid = s, !.answered = TRUE]
               ev == [type |-> EventTypeOf(x.op), sid |-> s, uid |-> Me,
                      point |-> x.point, ts |-> LastTime + d]
    <3>4. new.op = x.op /\ new.sid = s /\ new.point = x.point
      BY <3>3 DEF PageRequest
    <3>5. new \in requests'
      BY <3>2
    <3> HIDE DEF new, ev
    <3>6. r = new
      BY <1>1, <3>5
    <3>7. published' = Append(published, ev) /\ published \in Seq(PokerEvent)
      BY <3>2 DEF ev, MulticastEvent, CalmInv, PInv, DInv, TInv, QInv, QueuesTypeOK
    <3>8. published'[Len(published')] = ev /\ published' # <<>>
      BY <3>7
    <3>9. QED
      BY <3>4, <3>6, <3>8 DEF AnsweredLast, ev
  <2>3. QED
    BY <2>1, <2>2
<1>3. QED
  BY <1>1, <1>2 DEF OneRequest

LEMMA CalmNext == CalmInv /\ [PagesNext]_clientVars => CalmInv'
<1> SUFFICES ASSUME CalmInv, [PagesNext]_clientVars PROVE CalmInv'
  OBVIOUS
<1>1. PInv' /\ [DeliveryNext]_deliveryVars
  BY PagesSound DEF CalmInv, Sound
<1>2. KeepingInv' /\ OnceInv'
  BY <1>1, KeepingNext, OnceNext DEF CalmInv, KeepingInv
<1>3. IsFiniteSet(requests)'
  <2>1. PICK r : requests' \subseteq requests \cup {r}
    BY RequestsGrow
  <2>2. IsFiniteSet(requests \cup {r})
    BY FS_AddElement DEF CalmInv
  <2>3. QED
    BY <2>1, <2>2, FS_Subset
<1>4. CASE UNCHANGED clientVars
  <2>1. UNCHANGED <<published, requests, credentials, calm>>
    BY <1>4 DEF clientVars, browserVars, deliveryVars, listenerVars
  <2>2. calm => credentials' /\ OneRequest'
    BY <2>1 DEF CalmInv, OneRequest, AnsweredLast
  <2>3. calm => PatientInv'
    BY <1>1, <2>1, PatientNext DEF CalmInv, Patient
  <2>4. PatientInv' => Settled'
    BY PatientSettles, PTL DEF PatientInv
  <2>5. calm => SettledInv'
    BY <1>1, <2>3, <2>4, SettledNext DEF CalmInv
  <2>6. QED
    BY <1>1, <1>2, <1>3, <2>1, <2>2, <2>3, <2>5 DEF CalmInv
<1>5. CASE PagesNext
  <2>1. calm' \in BOOLEAN /\ (calm' => calm /\ CalmStep)
    BY <1>5 DEF PagesNext, Watch, CalmInv
  <2>2. ASSUME calm, CalmStep PROVE credentials' /\ OneRequest' /\ PatientInv' /\ SettledInv'
    <3>1. Patient /\ credentials'
      BY <2>2 DEF CalmStep, Patient
    <3>2. OneRequest'
      BY <1>1, <1>3, <2>2, OneRequestNext
    <3>3. PatientInv'
      BY <1>1, <2>2, <3>1, PatientNext DEF CalmInv
    <3>4. Settled'
      BY <3>3, PatientSettles, PTL DEF PatientInv
    <3>5. SettledInv'
      BY <1>1, <2>2, <3>4, SettledNext DEF CalmInv
    <3>6. QED
      BY <3>1, <3>2, <3>3, <3>5
  <2>3. QED
    BY <1>1, <1>2, <1>3, <2>1, <2>2 DEF CalmInv
<1>6. QED
  BY <1>4, <1>5

LEMMA CalmStart == PagesInit => CalmInv
<1> SUFFICES ASSUME PagesInit PROVE CalmInv
  OBVIOUS
<1>1. DeliveryInit /\ PInv
  BY PagesStart DEF PagesInit
<1>2. KeepingInv /\ SettledInv /\ PatientInv
  BY <1>1, KeepingInit, PatientInit
<1>3. OnceInv
  BY <1>1, OnceInit
<1>4. IsFiniteSet(requests) /\ OneRequest /\ credentials /\ calm \in BOOLEAN
  BY FS_EmptySet DEF PagesInit, OneRequest
<1>5. QED
  BY <1>1, <1>2, <1>3, <1>4 DEF CalmInv

-----------------------------------------------------------------------------
(***************************************************************************)
(* A calm run with one page.  The page keeps its session, the requests are *)
(* its own once it is there, the source it listens to is the last one, and *)
(* every other has been closed by its own reset or was refused.            *)
(***************************************************************************)
Lone == calm /\ Len(pages) <= 1

ResetSent(k) == \E i \in DOMAIN streams[k].sent : published[streams[k].sent[i]].type = VoteReset

RequestsLone ==
  /\ shown # 0 => \A r \in requests : r.op \in {"vote", "reset"}
  /\ \A r \in requests :
       r.op \in {"vote", "reset"} =>
         1 \in DOMAIN pages /\ r.page = 1 /\ r.sid = pages[1].activeSession

SourceLone(k) ==
  /\ streams[k].sid = pages[1].activeSession /\ streams[k].uid = Me
  /\ k <= eventSource
  /\ sources[k].state = "open" => k = eventSource /\ ResetsGot(k) = {}
  /\ sources[k].state \in {"torn", "closed"} =>
       streams[k].at = "refused" \/ ResetsGot(k) # {}

SourcesLone ==
  /\ 1 \in DOMAIN pages => eventSource # Null
  /\ \A k \in Streams : sources[k].state # "none" => SourceLone(k)

EmittersLone ==
  \A k \in Streams :
    /\ streams[k].emitter \in {"timedOut", "gone"} => sources[k].state = "closed"
    /\ streams[k].at = "complete" \/ streams[k].emitter = "completed" => ResetSent(k)

LoneInv == RequestsLone /\ SourcesLone /\ EmittersLone

(***************************************************************************)
(* The steps of such a run, as far as the pages and the sources go.        *)
(***************************************************************************)
Stays ==
  /\ UNCHANGED <<pages, sources, eventSource>>
  /\ \/ UNCHANGED streams
     \/ \E k \in Streams : StreamStep(k) \/ CloseEmitter(k)

Notices(r) ==
  /\ r.answered /\ r.op = "vote"
  /\ pages' = [pages EXCEPT ![1].yourVote = r.point]
  /\ requests' = requests \ {r}
  /\ UNCHANGED <<deliveryVars, sources, eventSource>>

Arrives(s) ==
  /\ pages = <<>>
  /\ pages' = <<[activeSession |-> s, voters |-> NobodyVoted,
                 yourVote |-> NoVote, navigations |-> 1]>>
  /\ FetchVotes(1, s, sources)

LoneMove ==
  \/ Stays
  \/ \E r \in requests : Notices(r)
  \/ \E s \in Sessions : Arrives(s)
  \/ \E k \in Streams : OnMessage(k) \/ OnEnd(k)

LEMMA LonePages ==
  ASSUME PInv, Len(pages) <= 1
  PROVE  /\ pages = <<>> \/ (DOMAIN pages = {1} /\ pages[1] \in Page)
         /\ shown # 0 => shown = 1 /\ DOMAIN pages = {1}
         /\ \A k \in Streams : sources[k].state # "none" =>
              sources[k].page = 1 /\ DOMAIN pages = {1} /\ streams[k].at # "unopened"
         /\ \A r \in requests : r \in PageRequest
<1>1. pages \in Seq(Page) /\ shown \in 0 .. Len(pages) /\ Len(pages) \in Nat
  BY DEF PInv, ClientOK
<1>2. pages = <<>> \/ (DOMAIN pages = {1} /\ pages[1] \in Page)
  <2>1. Len(pages) = 0 => pages = <<>>
    BY <1>1
  <2>2. Len(pages) = 1 => DOMAIN pages = {1} /\ pages[1] \in Page
    BY <1>1
  <2>3. Len(pages) = 0 \/ Len(pages) = 1
    <3>1. \A n \in Nat : n <= 1 => n = 0 \/ n = 1
      OBVIOUS
    <3>2. QED
      BY <1>1, <3>1
  <2>4. QED
    BY <2>1, <2>2, <2>3
<1>3. \A k \in Streams : sources[k].state # "none" =>
        sources[k].page \in 1 .. Len(pages) /\ streams[k].at # "unopened"
  BY DEF PInv, SourcesOK, SourceOK
<1>4. \A n \in 1 .. Len(pages) : n = 1 /\ pages # <<>>
  <2>1. \A n \in Nat : \A m \in 1 .. n : n <= 1 => m = 1 /\ n # 0
    OBVIOUS
  <2>2. QED
    BY <1>1, <2>1
<1>5. shown # 0 => shown \in 1 .. Len(pages)
  BY <1>1
<1>6. QED
  BY <1>2, <1>3, <1>4, <1>5 DEF PInv, RequestsOK

LEMMA LonePast ==
  ASSUME PInv, PInv', PageMove, Len(pages') <= 1
  PROVE  Len(pages) <= 1
<1>1. pages \in Seq(Page) /\ pages' \in Seq(Page)
  BY DEF PInv, ClientOK
<1>2. DOMAIN pages \subseteq DOMAIN pages'
  BY <1>1 DEF PageMove, Idles, Navigated, OnMessage, OnVote, OnReset, OnEnd, Tear
<1>3. QED
  BY <1>1, <1>2

\* There is no way back to where the page is, and none to a second page.
LEMMA LoneNavigates ==
  ASSUME PInv, Len(pages) <= 1, Len(pages') <= 1, SourcesLone, NEW s \in Sessions
  PROVE  /\ ~GoBack(s)
         /\ shown = 0 /\ Navigate(s) => Arrives(s)
<1>1. pages \in Seq(Page)
  BY DEF PInv, ClientOK
<1>2. ASSUME shown = 0, Navigate(s) PROVE pages = <<>> /\ Arrives(s)
  <2> DEFINE new == [activeSession |-> s, voters |-> NobodyVoted,
                     yourVote |-> NoVote, navigations |-> 1]
  <2>1. pages' = Append(pages, new) /\ FetchVotes(Len(pages) + 1, s, sources)
    BY <1>2 DEF Navigate
  <2>2. pages = <<>> /\ Len(pages) = 0
    <3>1. Len(pages') = Len(pages) + 1
      BY <1>1, <2>1
    <3>2. Len(pages) = 0
      BY <1>1, <3>1
    <3>3. QED
      BY <1>1, <3>2
  <2>3. QED
    BY <2>1, <2>2 DEF Arrives
<1>3. ASSUME GoBack(s) PROVE FALSE
  <2>1. PICK k \in Streams : sources[k].state # "none" /\ streams[k].sid = s
    BY <1>3 DEF GoBack
  <2>2. DOMAIN pages = {1} /\ s = pages[1].activeSession
    BY <2>1, LonePages DEF SourcesLone, SourceLone
  <2>3. shown = 0
    BY <1>3, <2>2, LonePages DEF GoBack
  <2>4. QED
    BY <1>2, <1>3, <2>2, <2>3 DEF GoBack
<1>4. QED
  BY <1>2, <1>3

\* No message is torn in it.
LEMMA CalmTearsNone ==
  ASSUME PInv, CalmStep, NEW k \in Streams, Tear(k)
  PROVE  FALSE
<1>1. sources'[k].state = "torn"
  BY DEF Tear, PInv, SourcesOK, Source
<1>2. QED
  BY <1>1 DEF CalmStep

LEMMA LoneMoves ==
  ASSUME PInv, Len(pages) <= 1, Len(pages') <= 1, RequestsLone, SourcesLone, CalmStep, PagesNext
  PROVE  LoneMove
<1>1. CASE UserStep
  BY <1>1, LoneNavigates DEF UserStep, createSession, joinSession, vote, resetVotes, exitSession,
     logout, authenticate, Ask, deliveryVars, LoneMove, Stays
<1>2. ASSUME NEW r \in requests, Serve(r) \/ Refuse(r) PROVE LoneMove
  BY <1>2 DEF Serve, Refuse, deliveryVars, LoneMove, Stays
<1>3. ASSUME NEW r \in requests, Answered(r) PROVE LoneMove
  <2>1. r \in PageRequest /\ r.sid \in Sessions
    BY <1>3 DEF PInv, RequestsOK, Answered
  <2>2. r.op \in {"create", "join"} => shown = 0
    BY DEF RequestsLone
  <2>3. CASE r.op = "create"
    BY <1>3, <2>1, <2>2, <2>3, LoneNavigates DEF Answered, LoneMove
  <2>4. CASE r.op = "join"
    BY <1>3, <2>2, <2>4, LoneNavigates DEF Answered, LoneMove
  <2>5. CASE r.op = "vote"
    BY <1>3, <2>5 DEF Answered, LoneMove, Notices, RequestsLone
  <2>6. CASE r.op = "reset"
    BY <1>3, <2>6 DEF Answered, LoneMove, Stays, deliveryVars
  <2>7. QED
    BY <2>1, <2>3, <2>4, <2>5, <2>6 DEF PageRequest
<1>4. CASE ServiceStep
  BY <1>2, <1>3, <1>4 DEF ServiceStep, Elsewhere, browserVars, LoneMove, Stays
<1>5. CASE ServerStep
  BY <1>5 DEF ServerStep, browserVars, LoneMove, Stays
<1>6. QED
  BY <1>1, <1>4, <1>5, CalmTearsNone DEF PagesNext, LoneMove

\* The handler of a message works on the one page.
LEMMA LoneMessage ==
  ASSUME PInv, Len(pages) <= 1, NEW k \in Streams, OnMessage(k)
  PROVE  /\ HasMessage(k) /\ DOMAIN pages = {1} /\ DOMAIN pages' = {1}
         /\ pages'[1].activeSession = pages[1].activeSession
         /\ OnVote(k) =>
              /\ pages'[1].voters = [pages[1].voters EXCEPT ![Handed(k).uid] = Handed(k).point]
              /\ pages'[1].yourVote = pages[1].yourVote
         /\ OnReset(k) =>
              /\ pages'[1].voters = NobodyVoted /\ pages'[1].yourVote = NoVote
              /\ FetchVotes(1, pages[1].activeSession, HandedTo(k, eventSource))
<1>1. HasMessage(k) /\ sources[k].page = 1 /\ DOMAIN pages = {1} /\ pages[1] \in Page
      /\ pages \in Seq(Page)
  BY HandedFacts, LonePages DEF OnMessage, OnVote, OnReset, PInv, ClientOK
<1> DEFINE old == pages[1]
<1>2. CASE OnVote(k)
  <2> DEFINE new == [old EXCEPT !.voters[Handed(k).uid] = Handed(k).point]
  <2>1. pages' = [pages EXCEPT ![1] = new]
    BY <1>1, <1>2 DEF OnVote
  <2>2. /\ new.activeSession = old.activeSession /\ new.yourVote = old.yourVote
        /\ new.voters = [old.voters EXCEPT ![Handed(k).uid] = Handed(k).point]
    <3> HIDE DEF old
    <3>1. QED
      BY <1>1 DEF old, Page
  <2> HIDE DEF new
  <2>3. pages'[1] = new /\ DOMAIN pages' = {1}
    BY <1>1, <2>1
  <2>4. ~OnReset(k)
    BY <1>2 DEF OnVote, OnReset, UserVoted, VoteReset
  <2>5. QED
    BY <1>1, <2>2, <2>3, <2>4
<1>3. CASE OnReset(k)
  <2> DEFINE new == [old EXCEPT !.voters = NobodyVoted, !.yourVote = NoVote]
  <2>1. /\ pages' = [pages EXCEPT ![1] = new]
        /\ FetchVotes(1, pages[1].activeSession, HandedTo(k, eventSource))
    BY <1>1, <1>3 DEF OnReset, HandedTo
  <2>2. /\ new.activeSession = old.activeSession /\ new.yourVote = NoVote
        /\ new.voters = NobodyVoted
    <3> HIDE DEF old
    <3>1. QED
      BY <1>1 DEF old, Page
  <2> HIDE DEF new
  <2>3. pages'[1] = new /\ DOMAIN pages' = {1}
    BY <1>1, <2>1
  <2>4. ~OnVote(k)
    BY <1>3 DEF OnVote, OnReset, UserVoted, VoteReset
  <2>5. QED
    BY <1>1, <2>1, <2>2, <2>3, <2>4
<1>4. QED
  BY <1>2, <1>3 DEF OnMessage

\* The page keeps its session.
LEMMA SessionStays ==
  ASSUME PInv, Len(pages) <= 1, LoneMove, 1 \in DOMAIN pages
  PROVE  1 \in DOMAIN pages' /\ pages'[1].activeSession = pages[1].activeSession
<1>1. DOMAIN pages = {1} /\ pages[1] \in Page
  BY LonePages
<1>2. ASSUME NEW r, Notices(r)
      PROVE  1 \in DOMAIN pages' /\ pages'[1].activeSession = pages[1].activeSession
  BY <1>1, <1>2 DEF Notices, Page
<1>3. ASSUME NEW s, Arrives(s) PROVE FALSE
  BY <1>3 DEF Arrives
<1>4. CASE Stays \/ \E k \in Streams : OnEnd(k)
  BY <1>4 DEF Stays, OnEnd
<1>5. QED
  BY <1>2, <1>3, <1>4, LoneMessage DEF LoneMove

LEMMA RequestsLoneNext ==
  ASSUME PInv, PInv', Len(pages) <= 1, Len(pages') <= 1, OneRequest, OneRequest',
         RequestsLone, SourcesLone, CalmStep, PagesNext
  PROVE  RequestsLone'
<1>1. 1 \in DOMAIN pages => 1 \in DOMAIN pages' /\ pages'[1].activeSession = pages[1].activeSession
  BY LoneMoves, SessionStays
<1>2. ASSUME requests' \subseteq requests, shown' \in {shown, 0} PROVE RequestsLone'
  BY <1>1, <1>2 DEF RequestsLone
<1>3. ASSUME NEW r \in requests, requests' = requests \ {r} PROVE RequestsLone'
  BY <1>3 DEF OneRequest, RequestsLone
<1>4. CASE UserStep
  <2>1. ASSUME NEW op, NEW s, NEW point, Ask(op, s, point),
               \/ op \in {"create", "join"} /\ shown = 0
               \/ /\ op \in {"vote", "reset"} /\ shown # 0
                  /\ s = pages[shown].activeSession
        PROVE  RequestsLone'
    <3> DEFINE new == [op |-> op, page |-> shown, sid |-> s, point |-> point, answered |-> FALSE]
    <3>1. requests' = requests \cup {new} /\ shown' = shown
      BY <2>1 DEF Ask
    <3>2. \A r \in requests' : r = new
      BY <3>1 DEF OneRequest
    <3>3. new.op = op /\ new.page = shown /\ new.sid = s
      OBVIOUS
    <3>4. shown # 0 => shown = 1 /\ 1 \in DOMAIN pages
      BY LonePages
    <3> HIDE DEF new
    <3>5. QED
      BY <1>1, <2>1, <3>1, <3>2, <3>3, <3>4 DEF RequestsLone
  <2>2. CASE createSession \/ \E s \in Sessions : joinSession(s)
    BY <2>1, <2>2 DEF createSession, joinSession
  <2>3. CASE resetVotes \/ \E point \in Points : vote(point)
    BY <2>1, <2>3 DEF resetVotes, vote
  <2>4. CASE exitSession \/ logout \/ authenticate
    BY <1>2, <2>4 DEF exitSession, logout, authenticate
  <2>5. QED
    BY <1>4, <2>2, <2>3, <2>4, LoneNavigates DEF UserStep
<1>5. ASSUME NEW r \in requests, Serve(r) PROVE RequestsLone'
  <2>1. PICK s \in IF r.op = "create" THEN Sessions ELSE {r.sid} :
          requests' = (requests \ {r}) \cup {[r EXCEPT !.sid = s, !.answered = TRUE]}
    BY <1>5 DEF Serve
  <2> DEFINE new == [r EXCEPT !.sid = s, !.answered = TRUE]
  <2>2. r \in PageRequest
    BY LonePages
  <2>3. new.op = r.op /\ new.page = r.page /\ new.sid = s
    BY <2>2 DEF PageRequest
  <2>4. requests' = (requests \ {r}) \cup {new}
    BY <2>1
  <2> HIDE DEF new
  <2>5. shown' = shown
    BY <1>5 DEF Serve
  <2>6. r.op \in {"vote", "reset"} => s = r.sid
    BY <2>1
  <2>7. QED
    BY <1>1, <2>3, <2>4, <2>5, <2>6 DEF RequestsLone
<1>6. ASSUME NEW r \in requests, Refuse(r) \/ Answered(r) PROVE RequestsLone'
  BY <1>3, <1>6 DEF Refuse, Answered
<1>7. CASE ServiceStep
  BY <1>2, <1>5, <1>6, <1>7 DEF ServiceStep, Elsewhere, browserVars
<1>8. CASE ServerStep \/ \E k \in Streams : OnMessage(k) \/ OnEnd(k) \/ Tear(k)
  BY <1>2, <1>8 DEF ServerStep, browserVars, OnMessage, OnVote, OnReset, OnEnd, Tear
<1>9. QED
  BY <1>4, <1>7, <1>8 DEF PagesNext

-----------------------------------------------------------------------------
LEMMA GotStays ==
  ASSUME PInv, Grows, NEW k \in Streams, sources[k].state # "none",
         sources'[k].got = sources[k].got
  PROVE  /\ Got(k)' = Got(k) /\ Got(k) \subseteq DOMAIN published
         /\ ResetsGot(k)' = ResetsGot(k)
<1>1. /\ streams[k].at # "unopened" /\ streams[k].sent \in Seq(Ids)
      /\ sources[k].got \in Nat /\ sources[k].got <= Len(streams[k].sent)
  BY DEF PInv, SourcesOK, SourceOK, Source, DInv, TInv, StreamsType, Stream
<1>2. \A i \in 1 .. sources[k].got : i \in DOMAIN streams[k].sent
  BY <1>1
<1>3. \A i \in 1 .. sources[k].got : streams[k].sent[i] \in DOMAIN published
  BY <1>2 DEF PInv, DInv, StreamsOwned, StreamOwned, TakenBy
<1>4. Got(k)' = Got(k)
  <2>1. \A i \in 1 .. sources[k].got : streams'[k].sent[i] = streams[k].sent[i]
    BY <1>1, <1>2 DEF Grows, Lasts
  <2>2. Got(k)' = {streams'[k].sent[i] : i \in 1 .. sources[k].got}
    BY DEF Got
  <2>3. QED
    BY <2>1, <2>2 DEF Got
<1>5. Got(k) \subseteq DOMAIN published
  BY <1>3 DEF Got
<1>6. QED
  BY <1>4, <1>5 DEF ResetsGot, Grows

\* A reset is the last thing a source has been handed, and all of its stream.
LEMMA ResetIsLast ==
  ASSUME PInv, NEW k \in Streams
  PROVE  /\ ResetSent(k) => streams[k].at \in {"complete", "ended"} /\ streams[k].holding = Null
         /\ ResetsGot(k) # {} => ResetSent(k) /\ sources[k].state # "none"
         /\ \A n \in ResetsGot(k), i \in DOMAIN streams[k].sent :
              /\ n \in DOMAIN published
              /\ published[streams[k].sent[i]].type = VoteReset => streams[k].sent[i] = n
              /\ n = streams[k].sent[Len(streams[k].sent)]
              /\ Len(streams[k].sent) \in DOMAIN streams[k].sent
<1>1. /\ streams[k].sent \in Seq(Ids) /\ WellFormed(streams[k]) /\ StreamOwned(streams[k])
      /\ sources[k].got \in Nat /\ sources[k].got <= Len(streams[k].sent)
  BY DEF PInv, SourcesOK, SourceOK, Source, DInv, TInv, StreamsType, Stream, StreamsOwned
<1>2. ASSUME NEW n \in ResetsGot(k)
      PROVE  \E i \in DOMAIN streams[k].sent :
               n = streams[k].sent[i] /\ published[n].type = VoteReset
  <2>1. PICK i \in 1 .. sources[k].got : n = streams[k].sent[i] /\ published[n].type = VoteReset
    BY DEF ResetsGot, Got
  <2>2. i \in DOMAIN streams[k].sent
    BY <1>1, <2>1
  <2>3. QED
    BY <2>1, <2>2
<1>3. \A i \in DOMAIN streams[k].sent :
        /\ streams[k].sent[i] \in DOMAIN published
        /\ published[streams[k].sent[i]].type = VoteReset =>
             i = Len(streams[k].sent) /\ streams[k].at \in {"complete", "ended"}
  BY <1>1 DEF StreamOwned, TakenBy
<1>4. ResetSent(k) => streams[k].at \in {"complete", "ended"} /\ streams[k].holding = Null
  BY <1>1, <1>3 DEF ResetSent, WellFormed
<1>5. ResetsGot(k) # {} => ResetSent(k) /\ sources[k].state # "none"
  BY <1>2, NoneGot DEF ResetSent
<1>6. \A n \in ResetsGot(k), i \in DOMAIN streams[k].sent :
        /\ n \in DOMAIN published
        /\ published[streams[k].sent[i]].type = VoteReset => streams[k].sent[i] = n
        /\ n = streams[k].sent[Len(streams[k].sent)]
        /\ Len(streams[k].sent) \in DOMAIN streams[k].sent
  BY <1>2, <1>3
<1>7. QED
  BY <1>4, <1>5, <1>6

\* The user is logged in, so a source is opened: the last one.
LEMMA FetchedOne ==
  ASSUME PInv, OrderOK, credentials, NEW p, NEW s, NEW rest \in [Streams -> Source],
         FetchVotes(p, s, rest)
  PROVE  \E l \in Streams :
           /\ sources[l].state = "none" /\ streams[l] = Unopened
           /\ streams'[l].sid = s /\ streams'[l].uid = Me
           /\ streams'[l].at = "containsSession"
           /\ streams'[l].queue = Null /\ streams'[l].emitter = "none"
           /\ streams'[l].sent = <<>> /\ streams'[l].holding = Null
           /\ \A j \in Streams \ {l} : streams'[j] = streams[j]
           /\ UNCHANGED listenerVars
           /\ sources'[l] = [page |-> p, got |-> 0, state |-> "open"]
           /\ \A j \in Streams \ {l} : sources'[j] = rest[j]
           /\ eventSource' = l
           /\ \A j \in Streams : sources[j].state # "none" => j < l
<1>1. PICK l \in Streams :
        /\ streams[l].at = "unopened" /\ OpenStream(l, s, Me)
        /\ sources' = [rest EXCEPT ![l] = [page |-> p, got |-> 0, state |-> "open"]]
        /\ eventSource' = l
  BY DEF FetchVotes, OpenStream
<1>2. /\ streams \in [Streams -> Stream] /\ streams[l] \in Stream /\ streams[l] = Unopened
      /\ sources[l].state = "none"
  BY <1>1 DEF PInv, SourcesOK, SourceOK, DInv, TInv, StreamsType, WellFormed
<1>3. /\ streams'[l].sid = s /\ streams'[l].uid = Me
      /\ streams'[l].at = "containsSession"
      /\ streams'[l].queue = Null /\ streams'[l].emitter = "none"
      /\ streams'[l].sent = <<>> /\ streams'[l].holding = Null
      /\ \A j \in Streams \ {l} : streams'[j] = streams[j]
      /\ UNCHANGED listenerVars
  BY <1>1, <1>2 DEF OpenStream, Unopened
<1>4. QED
  BY <1>1, <1>2, <1>3 DEF OrderOK

\* The message a source has been handed is added to what it has got.
LEMMA GotOneMore ==
  ASSUME PInv, NEW k \in Streams, HasMessage(k), Grows, sources'[k].got = sources[k].got + 1
  PROVE  LET n == streams[k].sent[sources[k].got + 1]
         IN  /\ Got(k)' = Got(k) \cup {n}
             /\ Got(k) \cup {n} \subseteq DOMAIN published
             /\ Handed(k) = published[n]
             /\ ResetsGot(k)' = IF published[n].type = VoteReset THEN ResetsGot(k) \cup {n}
                                ELSE ResetsGot(k)
<1> DEFINE n == streams[k].sent[sources[k].got + 1]
           g == sources[k].got
<1>1. /\ g \in Nat /\ g + 1 \in DOMAIN streams[k].sent /\ n \in DOMAIN published
      /\ streams[k].sent \in Seq(Ids) /\ streams[k].at # "unopened"
      /\ Handed(k) = published[n]
  BY HandedFacts DEF PInv, DInv, TInv, StreamsType, Stream, Handed
<1>2. \A i \in 1 .. (g + 1) : streams'[k].sent[i] = streams[k].sent[i]
  <2>1. \A i \in 1 .. (g + 1) : i \in DOMAIN streams[k].sent
    BY <1>1
  <2>2. QED
    BY <1>1, <2>1 DEF Grows, Lasts
<1>3. 1 .. (g + 1) = (1 .. g) \cup {g + 1}
  BY <1>1
<1>4. Got(k)' = Got(k) \cup {n}
  <2>1. Got(k)' = {streams'[k].sent[i] : i \in 1 .. (g + 1)}
    BY DEF Got
  <2>2. Got(k)' = {streams[k].sent[i] : i \in 1 .. (g + 1)}
    BY <1>2, <2>1
  <2>3. QED
    BY <1>3, <2>2 DEF Got
<1>5. Got(k) \subseteq DOMAIN published
  <2>1. \A i \in 1 .. g : i \in DOMAIN streams[k].sent
    BY <1>1
  <2>2. \A i \in 1 .. g : streams[k].sent[i] \in DOMAIN published
    BY <2>1 DEF PInv, DInv, StreamsOwned, StreamOwned, TakenBy
  <2>3. QED
    BY <2>2 DEF Got
<1> HIDE DEF n, g
<1>6. QED
  BY <1>1, <1>4, <1>5 DEF ResetsGot, Grows, n

-----------------------------------------------------------------------------
\* An opened stream keeps its session and its user, a refused one stays so.
LEMMA StreamKept ==
  ASSUME Grows, NEW k \in Streams, streams[k].at # "unopened"
  PROVE  /\ streams'[k].sid = streams[k].sid /\ streams'[k].uid = streams[k].uid
         /\ streams[k].at = "refused" => streams'[k].at = "refused"
BY DEF Grows, Lasts

LEMMA SourcesLoneNext ==
  ASSUME PInv, PInv', Grows, OrderOK, credentials, Len(pages) <= 1, LoneMove,
         SourcesLone, EmittersLone
  PROVE  SourcesLone'
<1>1. \A k \in Streams : sources[k].state # "none" =>
        SourceLone(k) /\ 1 \in DOMAIN pages /\ streams[k].at # "unopened"
  BY LonePages DEF SourcesLone
<1>2. 1 \in DOMAIN pages => 1 \in DOMAIN pages' /\ pages'[1].activeSession = pages[1].activeSession
  BY SessionStays
<1>3. ASSUME NEW k \in Streams, sources[k].state # "none", sources'[k] = sources[k],
             eventSource' = eventSource
      PROVE  SourceLone(k)'
  <2>1. ResetsGot(k)' = ResetsGot(k)
    BY <1>3, GotStays
  <2>2. QED
    BY <1>1, <1>2, <1>3, <2>1, StreamKept DEF SourceLone
<1>4. CASE Stays \/ \E r \in requests : Notices(r)
  <2>1. sources' = sources /\ eventSource' = eventSource
    BY <1>4 DEF Stays, Notices
  <2>2. 1 \in DOMAIN pages' => 1 \in DOMAIN pages
    BY <1>4 DEF Stays, Notices
  <2>3. QED
    BY <1>3, <2>1, <2>2 DEF SourcesLone
<1>5. ASSUME NEW s \in Sessions, Arrives(s) PROVE SourcesLone'
  <2>1. \A j \in Streams : sources[j].state = "none"
    BY <1>1, <1>5 DEF Arrives
  <2>2. PICK l \in Streams :
          /\ streams'[l].sid = s /\ streams'[l].uid = Me
          /\ sources'[l] = [page |-> 1, got |-> 0, state |-> "open"]
          /\ \A j \in Streams \ {l} : sources'[j] = sources[j]
          /\ eventSource' = l
    BY <1>5, FetchedOne DEF Arrives, PInv, SourcesOK
  <2>3. pages'[1].activeSession = s
    BY <1>5 DEF Arrives
  <2>4. ResetsGot(l)' = {}
    BY <2>2 DEF ResetsGot, Got
  <2>5. SourceLone(l)'
    BY <2>2, <2>3, <2>4 DEF SourceLone
  <2>6. QED
    BY <2>1, <2>2, <2>5 DEF SourcesLone
<1>6. ASSUME NEW k \in Streams, OnEnd(k) PROVE SourcesLone'
  <2>1. /\ sources[k].state = "open"
        /\ sources' = [sources EXCEPT ![k].state = "closed"]
        /\ UNCHANGED <<streams, pages, eventSource, published>>
    BY <1>6 DEF OnEnd, deliveryVars, listenerVars
  <2>2. sources \in [Streams -> Source] /\ sources[k] \in Source /\ sources[k].got \in Nat
        /\ sources[k].got <= Len(streams[k].sent) /\ streams[k].sent \in Seq(Ids)
    BY DEF PInv, SourcesOK, SourceOK, Source, DInv, TInv, StreamsType, Stream
  <2>3. /\ sources'[k].state = "closed" /\ sources'[k].got = sources[k].got
        /\ \A j \in Streams \ {k} : sources'[j] = sources[j]
    BY <2>1, <2>2 DEF Source
  <2>4. streams[k].at = "refused"
    <3>1. ResetsGot(k) = {} /\ streams[k].emitter \notin {"timedOut", "gone"}
      BY <1>1, <2>1 DEF SourceLone, EmittersLone
    <3>2. CASE streams[k].emitter = "completed" /\ ~HasMessage(k)
      <4>1. PICK i \in DOMAIN streams[k].sent : published[streams[k].sent[i]].type = VoteReset
        BY <3>2 DEF EmittersLone, ResetSent
      <4>2. i \in 1 .. sources[k].got
        BY <2>1, <2>2, <3>2 DEF HasMessage
      <4>3. QED
        BY <3>1, <4>1, <4>2 DEF ResetsGot, Got
    <3>3. QED
      BY <1>6, <3>1, <3>2 DEF OnEnd
  <2>5. SourceLone(k)'
    BY <1>1, <2>1, <2>3, <2>4 DEF SourceLone
  <2>6. QED
    BY <1>1, <1>3, <2>1, <2>3, <2>5 DEF SourcesLone
<1>7. ASSUME NEW k \in Streams, OnVote(k) PROVE SourcesLone'
  <2>1. /\ HasMessage(k) /\ Handed(k).type = UserVoted /\ sources[k].state = "open"
        /\ sources' = [sources EXCEPT ![k].got = @ + 1]
        /\ UNCHANGED <<streams, eventSource>> /\ 1 \in DOMAIN pages
    BY <1>7, LoneMessage DEF OnVote, OnMessage, HasMessage, deliveryVars
  <2>2. sources \in [Streams -> Source] /\ sources[k] \in Source
    BY DEF PInv, SourcesOK
  <2>3. /\ sources'[k].state = sources[k].state /\ sources'[k].got = sources[k].got + 1
        /\ \A j \in Streams \ {k} : sources'[j] = sources[j]
    BY <2>1, <2>2 DEF Source
  <2>4. ResetsGot(k)' = ResetsGot(k)
    BY <2>1, <2>3, GotOneMore DEF UserVoted, VoteReset
  <2>5. SourceLone(k)'
    BY <1>1, <1>2, <2>1, <2>3, <2>4 DEF SourceLone
  <2>6. QED
    BY <1>1, <1>3, <2>1, <2>3, <2>5 DEF SourcesLone
<1>8. ASSUME NEW k \in Streams, OnReset(k) PROVE SourcesLone'
  <2> DEFINE rest == HandedTo(k, eventSource)
  <2>1. /\ HasMessage(k) /\ Handed(k).type = VoteReset /\ sources[k].state = "open"
        /\ FetchVotes(1, pages[1].activeSession, rest)
        /\ 1 \in DOMAIN pages
    BY <1>8, LoneMessage DEF OnReset, OnMessage, HasMessage
  <2>2. eventSource = k
    BY <1>1, <2>1 DEF SourceLone
  <2>3. /\ rest \in [Streams -> Source]
        /\ \A j \in Streams :
             /\ rest[j].state = IF j = k THEN "closed" ELSE sources[j].state
             /\ rest[j].got = IF j = k THEN sources[j].got + 1 ELSE sources[j].got
    BY <2>1, <2>2, SourcesHanded DEF PInv, SourcesOK
  <2>4. \A j \in Streams \ {k} : rest[j] = sources[j]
    BY <2>2 DEF HandedTo, PInv, SourcesOK
  <2> HIDE DEF rest
  <2>5. PICK l \in Streams :
          /\ sources[l].state = "none"
          /\ streams'[l].sid = pages[1].activeSession /\ streams'[l].uid = Me
          /\ sources'[l] = [page |-> 1, got |-> 0, state |-> "open"]
          /\ \A j \in Streams \ {l} : sources'[j] = rest[j]
          /\ eventSource' = l
          /\ \A j \in Streams : sources[j].state # "none" => j < l
    BY <2>1, <2>3, FetchedOne
  <2>6. SourceLone(l)'
    <3>1. ResetsGot(l)' = {}
      BY <2>5 DEF ResetsGot, Got
    <3>2. QED
      BY <1>2, <2>1, <2>5, <3>1 DEF SourceLone
  <2>7. k # l /\ k < l
    BY <2>1, <2>5
  <2>8. SourceLone(k)'
    <3>1. sources'[k].state = "closed" /\ sources'[k].got = sources[k].got + 1
      BY <2>3, <2>5, <2>7
    <3>2. ResetsGot(k)' # {}
      BY <2>1, <3>1, GotOneMore
    <3>3. QED
      BY <1>1, <1>2, <2>1, <2>5, <2>7, <3>1, <3>2, StreamKept DEF SourceLone
  <2>9. ASSUME NEW j \in Streams \ {k, l}, sources'[j].state # "none" PROVE SourceLone(j)'
    <3>1. sources'[j] = sources[j] /\ sources[j].state # "none"
      BY <2>4, <2>5, <2>9
    <3>2. sources[j].state # "open"
      BY <1>1, <2>2, <3>1 DEF SourceLone
    <3>3. ResetsGot(j)' = ResetsGot(j)
      BY <3>1, GotStays
    <3>4. QED
      BY <1>1, <1>2, <2>5, <3>1, <3>2, <3>3, StreamKept DEF SourceLone
  <2>10. QED
    BY <2>5, <2>6, <2>8, <2>9 DEF SourcesLone
<1>9. QED
  BY <1>4, <1>5, <1>6, <1>7, <1>8 DEF LoneMove, OnMessage

-----------------------------------------------------------------------------
\* No consumer fails to send: an emitter that is closed early is not in use.
LEMMA NoSendFails ==
  ASSUME PInv, SourcesLone, EmittersLone, NEW k \in Streams
  PROVE  ~SendFails(k) /\ ~SendTooLate(k)
<1> SUFFICES ASSUME streams[k].at = "send", streams[k].emitter \in {"timedOut", "gone"}
             PROVE  FALSE
  BY DEF SendFails, SendTooLate
<1>1. sources[k].state = "closed"
  BY DEF EmittersLone
<1>2. ResetsGot(k) # {}
  BY <1>1 DEF SourcesLone, SourceLone
<1>3. QED
  BY <1>2, ResetIsLast

LEMMA EmitterStep ==
  ASSUME PInv, SourcesLone, EmittersLone, NEW k \in Streams, StreamStep(k) \/ CloseEmitter(k)
  PROVE  /\ TakenBy(streams[k]) \subseteq TakenBy(streams'[k])
         /\ streams'[k].at = "complete" \/ streams'[k].emitter = "completed" => ResetSent(k)'
<1> DEFINE a == streams[k]
           b == streams'[k]
           Goal == /\ TakenBy(a) \subseteq TakenBy(b)
                   /\ b.at = "complete" \/ b.emitter = "completed" => ResetSent(k)'
<1>1. /\ a \in Stream /\ WellFormed(a) /\ streams \in [Streams -> Stream]
      /\ UNCHANGED published
  BY StreamsLeaveListeners DEF PInv, DInv, TInv, StreamsType, listenerVars, Take
<1>2. ASSUME b.sent = a.sent, b.holding = a.holding PROVE TakenBy(a) \subseteq TakenBy(b)
  BY <1>2 DEF TakenBy
<1>3. a.at = "complete" \/ a.emitter = "completed" =>
        \E i \in DOMAIN a.sent : published[a.sent[i]].type = VoteReset
  BY DEF EmittersLone, ResetSent
<1>4. ASSUME b.sent = a.sent, b.at # "complete" \/ a.at = "complete",
             b.emitter # "completed" \/ a.emitter = "completed" \/ a.at = "complete"
      PROVE  b.at = "complete" \/ b.emitter = "completed" => ResetSent(k)'
  BY <1>1, <1>3, <1>4 DEF ResetSent
<1>5. ASSUME NEW l, NEW m, m # "complete", Advance(k, l, m) PROVE Goal
  <2>1. b.sent = a.sent /\ b.holding = a.holding /\ b.at = m /\ b.emitter = a.emitter
    BY <1>1, <1>5 DEF Advance, Stream
  <2>2. QED
    BY <1>2, <1>4, <1>5, <2>1
<1>6. CASE ContainsSession(k) \/ ContainsUser(k) \/ IsActive(k) \/ NoQueue(k)
  BY <1>5, <1>6 DEF ContainsSession, ContainsUser, IsActive, NoQueue
<1>7. ASSUME NEW l, NEW m, m # "complete", GetUserMap(k, l, m) PROVE Goal
  <2>1. b.sent = a.sent /\ b.holding = a.holding /\ b.at # "complete" /\ b.emitter = a.emitter
    BY <1>1, <1>7 DEF GetUserMap, Stream
  <2>2. QED
    BY <1>2, <1>4, <2>1
<1>8. CASE execute(k)
  <2>1. b.sent = a.sent /\ b.holding = a.holding /\ b.at # "complete" /\ b.emitter = "open"
    BY <1>1, <1>8 DEF execute, Stream
  <2>2. QED
    BY <1>2, <1>4, <2>1
<1>9. CASE Take(k)
  <2>1. b.sent = a.sent /\ a.holding = Null /\ b.at # "complete" /\ b.emitter = a.emitter
    BY <1>1, <1>9 DEF Take, Stream, WellFormed
  <2>2. TakenBy(a) \subseteq TakenBy(b)
    BY <2>1 DEF TakenBy
  <2>3. QED
    BY <1>4, <2>1, <2>2
<1>10. CASE Send(k)
  <2>1. /\ a.sent \in Seq(Ids) /\ a.holding \in Ids /\ a.emitter = "open"
        /\ b.sent = Append(a.sent, a.holding) /\ b.emitter = "open"
        /\ b.at = "complete" => published[a.holding].type = VoteReset
    BY <1>1, <1>10 DEF Send, Stream, WellFormed
  <2>2. /\ DOMAIN b.sent = DOMAIN a.sent \cup {Len(a.sent) + 1}
        /\ b.sent[Len(a.sent) + 1] = a.holding
        /\ \A i \in DOMAIN a.sent : b.sent[i] = a.sent[i]
    BY <2>1
  <2>3. TakenBy(a) \subseteq TakenBy(b)
    BY <2>2 DEF TakenBy
  <2>4. b.at = "complete" => ResetSent(k)'
    BY <1>1, <2>1, <2>2 DEF ResetSent
  <2>5. QED
    BY <2>1, <2>3, <2>4
<1>11. CASE Complete(k)
  <2>1. b.sent = a.sent /\ b.holding = a.holding /\ a.at = "complete"
    BY <1>1, <1>11 DEF Complete, Stream
  <2>2. QED
    BY <1>2, <1>4, <2>1
<1>12. CASE CloseEmitter(k)
  <2>1. b.sent = a.sent /\ b.holding = a.holding /\ b.at = a.at /\ b.emitter # "completed"
    BY <1>1, <1>12 DEF CloseEmitter, Stream
  <2>2. QED
    BY <1>2, <1>4, <2>1
<1>13. QED
  BY <1>6, <1>7, <1>8, <1>9, <1>10, <1>11, <1>12, NoSendFails
     DEF StreamStep, GetEventEmitter, ConsumerStep

\* What becomes of the streams in a step of such a run
LEMMA LoneStreams ==
  ASSUME PInv, OrderOK, credentials, Len(pages) <= 1, LoneMove
  PROVE  \/ UNCHANGED streams
         \/ \E k \in Streams : /\ StreamStep(k) \/ CloseEmitter(k)
                               /\ \A j \in Streams \ {k} : streams'[j] = streams[j]
         \/ \E k \in Streams : /\ streams[k] = Unopened
                               /\ streams'[k].at = "containsSession"
                               /\ streams'[k].queue = Null /\ streams'[k].emitter = "none"
                               /\ TakenBy(streams'[k]) = {}
                               /\ \A j \in Streams \ {k} : streams'[j] = streams[j]
<1> DEFINE Opened == \E k \in Streams :
                       /\ streams[k] = Unopened
                       /\ streams'[k].at = "containsSession"
                       /\ streams'[k].queue = Null /\ streams'[k].emitter = "none"
                       /\ TakenBy(streams'[k]) = {}
                       /\ \A j \in Streams \ {k} : streams'[j] = streams[j]
<1>1. ASSUME NEW p, NEW s, NEW rest \in [Streams -> Source], FetchVotes(p, s, rest) PROVE Opened
  <2>1. PICK l \in Streams :
          /\ streams[l] = Unopened
          /\ streams'[l].at = "containsSession"
          /\ streams'[l].queue = Null /\ streams'[l].emitter = "none"
          /\ streams'[l].sent = <<>> /\ streams'[l].holding = Null
          /\ \A j \in Streams \ {l} : streams'[j] = streams[j]
    BY <1>1, FetchedOne
  <2>2. TakenBy(streams'[l]) = {}
    BY <2>1 DEF TakenBy
  <2>3. QED
    BY <2>1, <2>2
<1>2. ASSUME NEW k \in Streams, OnReset(k) PROVE Opened
  <2>1. /\ FetchVotes(1, pages[1].activeSession, HandedTo(k, eventSource))
        /\ HandedTo(k, eventSource) \in [Streams -> Source]
    BY <1>2, LoneMessage, SourcesHanded DEF OnMessage, PInv, SourcesOK
  <2>2. QED
    BY <1>1, <2>1
<1>3. CASE Stays
  <2>1. ASSUME NEW k \in Streams, StreamStep(k) \/ CloseEmitter(k)
        PROVE  \A j \in Streams \ {k} : streams'[j] = streams[j]
    BY <2>1, StreamsMove DEF PInv, DInv
  <2>2. QED
    BY <1>3, <2>1 DEF Stays
<1>4. ASSUME NEW s, Arrives(s) PROVE Opened
  BY <1>1, <1>4 DEF Arrives, PInv, SourcesOK
<1>5. QED
  BY <1>2, <1>3, <1>4 DEF LoneMove, Notices, OnMessage, OnVote, OnEnd, deliveryVars

LEMMA EmittersLoneNext ==
  ASSUME PInv, PInv', Grows, OrderOK, credentials, Len(pages) <= 1, LoneMove, PageMove, CalmStep,
         SourcesLone, EmittersLone
  PROVE  EmittersLone' /\ LosesNone
<1>1. ASSUME NEW k \in Streams, streams'[k] = streams[k]
      PROVE  /\ TakenBy(streams[k]) \subseteq TakenBy(streams'[k])
             /\ streams'[k].at = "complete" \/ streams'[k].emitter = "completed" => ResetSent(k)'
  <2>1. \A i \in DOMAIN streams[k].sent : streams[k].sent[i] \in DOMAIN published
    BY DEF PInv, DInv, StreamsOwned, StreamOwned, TakenBy
  <2>2. QED
    BY <1>1, <2>1 DEF EmittersLone, ResetSent, Grows
<1>2. ASSUME NEW k \in Streams
      PROVE  /\ TakenBy(streams[k]) \subseteq TakenBy(streams'[k])
             /\ streams'[k].at = "complete" \/ streams'[k].emitter = "completed" => ResetSent(k)'
  <2>1. CASE UNCHANGED streams
    BY <1>1, <2>1
  <2>2. ASSUME NEW l \in Streams, StreamStep(l) \/ CloseEmitter(l),
               \A j \in Streams \ {l} : streams'[j] = streams[j]
        PROVE  /\ TakenBy(streams[k]) \subseteq TakenBy(streams'[k])
               /\ streams'[k].at = "complete" \/ streams'[k].emitter = "completed" =>
                    ResetSent(k)'
    BY <1>1, <2>2, EmitterStep
  <2>3. ASSUME NEW l \in Streams, streams[l] = Unopened,
               streams'[l].at = "containsSession", streams'[l].emitter = "none",
               \A j \in Streams \ {l} : streams'[j] = streams[j]
        PROVE  /\ TakenBy(streams[k]) \subseteq TakenBy(streams'[k])
               /\ streams'[k].at = "complete" \/ streams'[k].emitter = "completed" =>
                    ResetSent(k)'
    <3>1. TakenBy(streams[l]) = {}
      BY <2>3 DEF Unopened, TakenBy
    <3>2. QED
      BY <1>1, <2>3, <3>1
  <2>4. QED
    BY <2>1, <2>2, <2>3, LoneStreams
<1>3. ASSUME NEW k \in Streams, streams'[k].emitter \in {"timedOut", "gone"}
      PROVE  sources'[k].state = "closed"
  <2>1. sources[k].state = "closed" /\ sources'[k].state # "torn"
    BY <1>3 DEF CalmStep
  <2>2. PICK x \in Nat, new \in SUBSET Streams, ended \in SUBSET Streams : SourcesMove(x, new, ended)
    BY StepsCount
  <2>3. SourceKept(k)
    BY <2>1, <2>2 DEF SourcesMove, NewSource
  <2>4. sources'[k] \in Source
    BY DEF PInv, SourcesOK
  <2>5. QED
    BY <2>1, <2>3, <2>4 DEF SourceKept, Source
<1>4. QED
  BY <1>2, <1>3 DEF EmittersLone, LosesNone

-----------------------------------------------------------------------------
(***************************************************************************)
(* What the page shows: of everybody the last vote its last source has     *)
(* been handed.  And streams of one queue take turns.                      *)
(***************************************************************************)
VotesBy(S, u) == {n \in S : published[n].type = UserVoted /\ published[n].uid = u}

ShowsLast(v, S, u) ==
  \/ VotesBy(S, u) = {} /\ v = NoVote
  \/ \E n \in VotesBy(S, u) : v = published[n].point /\ \A m \in VotesBy(S, u) : m <= n

PageShows ==
  1 \in DOMAIN pages =>
    \A u \in Users : ShowsLast(pages[1].voters[u], Got(eventSource), u)

StreamsInTurn ==
  \A l, k \in Streams :
    /\ streams[l].queue # Null /\ streams[k].queue = streams[l].queue /\ l < k
    => \A n \in TakenBy(streams[l]), m \in TakenBy(streams[k]) : n < m

LEMMA PageShowsNext ==
  ASSUME PInv, PInv', Grows, OrderOK, credentials, SentsRise, Len(pages) <= 1, LoneMove,
         SourcesLone, PageShows
  PROVE  PageShows'
<1>1. pages = <<>> \/ (DOMAIN pages = {1} /\ pages[1] \in Page)
  BY LonePages
<1>2. 1 \in DOMAIN pages => eventSource \in Streams /\ sources[eventSource].state # "none"
  BY DEF PInv, SourcesOK, EventSourceOK, SourcesLone
<1>3. ASSUME 1 \in DOMAIN pages, pages'[1].voters = pages[1].voters, eventSource' = eventSource,
             sources'[eventSource].got = sources[eventSource].got
      PROVE  PageShows'
  <2>1. Got(eventSource)' = Got(eventSource) /\ Got(eventSource) \subseteq DOMAIN published
    <3>1. PICK e \in Streams : e = eventSource
      BY <1>2, <1>3
    <3>2. Got(e)' = Got(e) /\ Got(e) \subseteq DOMAIN published
      BY <1>2, <1>3, <3>1, GotStays
    <3>3. QED
      BY <1>3, <3>1, <3>2
  <2>2. \A u : VotesBy(Got(eventSource), u)' = VotesBy(Got(eventSource), u)
    BY <2>1 DEF VotesBy, Grows
  <2>3. \A u, n : n \in VotesBy(Got(eventSource), u) => published'[n] = published[n]
    BY <2>1 DEF VotesBy, Grows
  <2>4. QED
    BY <1>3, <2>2, <2>3 DEF PageShows, ShowsLast
<1>4. CASE Stays \/ \E r \in requests : Notices(r)
  <2>1. UNCHANGED <<sources, eventSource>>
    BY <1>4 DEF Stays, Notices
  <2>2. 1 \in DOMAIN pages' => 1 \in DOMAIN pages
    BY <1>4 DEF Stays, Notices
  <2>3. 1 \in DOMAIN pages => pages'[1].voters = pages[1].voters
    BY <1>1, <1>4 DEF Stays, Notices, Page
  <2>4. QED
    BY <1>3, <2>1, <2>2, <2>3 DEF PageShows
<1>5. ASSUME NEW l \in Streams, eventSource' = l, sources'[l].got = 0,
             pages'[1].voters = NobodyVoted
      PROVE  PageShows'
  <2>1. Got(eventSource)' = {}
    BY <1>5 DEF Got
  <2>2. QED
    BY <1>5, <2>1 DEF PageShows, ShowsLast, VotesBy, NobodyVoted
<1>6. ASSUME NEW s \in Sessions, Arrives(s) PROVE PageShows'
  <2>1. PICK l \in Streams : eventSource' = l /\ sources'[l].got = 0
    <3>1. PICK l \in Streams :
            eventSource' = l /\ sources'[l] = [page |-> 1, got |-> 0, state |-> "open"]
      BY <1>6, FetchedOne DEF Arrives, PInv, SourcesOK
    <3>2. QED
      BY <3>1
  <2>2. pages'[1].voters = NobodyVoted
    BY <1>6 DEF Arrives
  <2>3. QED
    BY <1>5, <2>1, <2>2
<1>7. ASSUME NEW k \in Streams, OnEnd(k) PROVE PageShows'
  <2>1. UNCHANGED <<pages, eventSource>> /\ sources' = [sources EXCEPT ![k].state = "closed"]
    BY <1>7 DEF OnEnd
  <2>2. \A j \in Streams : sources'[j].got = sources[j].got
    BY <2>1 DEF PInv, SourcesOK, Source
  <2>3. QED
    BY <1>2, <1>3, <2>1, <2>2 DEF PageShows
<1>8. ASSUME NEW k \in Streams, OnReset(k) PROVE PageShows'
  <2>1. /\ FetchVotes(1, pages[1].activeSession, HandedTo(k, eventSource))
        /\ HandedTo(k, eventSource) \in [Streams -> Source]
        /\ pages'[1].voters = NobodyVoted
    BY <1>8, LoneMessage, SourcesHanded DEF OnMessage, PInv, SourcesOK
  <2>2. PICK l \in Streams :
          eventSource' = l /\ sources'[l] = [page |-> 1, got |-> 0, state |-> "open"]
    BY <2>1, FetchedOne
  <2>3. sources'[l].got = 0
    BY <2>2
  <2>4. QED
    BY <1>5, <2>1, <2>2, <2>3
<1>9. ASSUME NEW k \in Streams, OnVote(k) PROVE PageShows'
  <2> DEFINE n == streams[k].sent[sources[k].got + 1]
  <2>1. /\ HasMessage(k) /\ DOMAIN pages = {1} /\ DOMAIN pages' = {1}
        /\ pages'[1].voters = [pages[1].voters EXCEPT ![Handed(k).uid] = Handed(k).point]
        /\ Handed(k).type = UserVoted
    BY <1>9, LoneMessage DEF OnMessage, OnVote
  <2>2. /\ k = eventSource /\ eventSource' = eventSource /\ published' = published
        /\ sources' = [sources EXCEPT ![k].got = @ + 1]
    BY <1>9, <2>1 DEF OnVote, SourcesLone, SourceLone, HasMessage, deliveryVars, listenerVars
  <2>3. sources'[k].got = sources[k].got + 1
    BY <2>2 DEF PInv, SourcesOK, Source
  <2>4. /\ Got(k)' = Got(k) \cup {n} /\ Handed(k) = published[n]
        /\ Got(k) \cup {n} \subseteq DOMAIN published
    BY <2>1, <2>3, GotOneMore
  <2>5. \A m \in Got(k) : m < n
    <3>1. sources[k].got \in Nat /\ sources[k].got + 1 \in DOMAIN streams[k].sent
          /\ streams[k].sent \in Seq(Ids)
      BY <2>1, HandedFacts DEF PInv, DInv, TInv, StreamsType, Stream
    <3>2. \A i \in 1 .. sources[k].got :
            i \in DOMAIN streams[k].sent /\ i < sources[k].got + 1
      BY <3>1
    <3>3. QED
      BY <3>1, <3>2 DEF Got, SentsRise, SentRising
  <2>6. DOMAIN published \subseteq Nat
    BY DEF PInv, DInv, TInv, QInv, QueuesTypeOK
  <2> HIDE DEF n
  <2>7. SUFFICES ASSUME NEW u \in Users
                 PROVE  ShowsLast(pages'[1].voters[u], Got(k) \cup {n}, u)
    <3>1. Got(eventSource)' = Got(k) \cup {n}
      BY <2>2, <2>4
    <3>2. QED
      BY <2>2, <2>7, <3>1 DEF PageShows, ShowsLast, VotesBy
  <2>8. ShowsLast(pages[1].voters[u], Got(k), u)
    BY <2>1, <2>2 DEF PageShows
  <2>9. pages[1].voters \in [Users -> StoryPoints]
    BY <1>1, <2>1 DEF Page
  <2>10. CASE u = published[n].uid
    <3>1. pages'[1].voters[u] = published[n].point
      BY <2>1, <2>4, <2>9, <2>10
    <3>2. n \in VotesBy(Got(k) \cup {n}, u)
      BY <2>1, <2>4, <2>10 DEF VotesBy
    <3>3. \A m \in VotesBy(Got(k) \cup {n}, u) : m <= n
      BY <2>4, <2>5, <2>6 DEF VotesBy
    <3>4. QED
      BY <3>1, <3>2, <3>3 DEF ShowsLast
  <2>11. CASE u # published[n].uid
    <3>1. pages'[1].voters[u] = pages[1].voters[u]
      BY <2>1, <2>4, <2>9, <2>11
    <3>2. VotesBy(Got(k) \cup {n}, u) = VotesBy(Got(k), u)
      BY <2>11 DEF VotesBy
    <3>3. QED
      BY <2>8, <3>1, <3>2 DEF ShowsLast
  <2>12. QED
    BY <2>10, <2>11
<1>10. QED
  BY <1>4, <1>6, <1>7, <1>8, <1>9 DEF LoneMove, OnMessage

LEMMA StreamsInTurnNext ==
  ASSUME PInv, KeepingInv, TakenFirst, OrderOK, credentials, Len(pages) <= 1, LoneMove,
         SourcesLone, StreamsInTurn
  PROVE  StreamsInTurn'
<1> SUFFICES ASSUME NEW l \in Streams, NEW k \in Streams, l < k,
                    streams'[l].queue # Null, streams'[k].queue = streams'[l].queue,
                    NEW n \in TakenBy(streams'[l]), NEW m \in TakenBy(streams'[k])
             PROVE  n < m
  BY DEF StreamsInTurn
<1>1. CASE n \in TakenBy(streams[l]) /\ streams[l].queue = streams'[l].queue
           /\ m \in TakenBy(streams[k]) /\ streams[k].queue = streams'[k].queue
  BY <1>1 DEF StreamsInTurn
<1>2. CASE UNCHANGED streams
  BY <1>1, <1>2
<1>3. ASSUME NEW j \in Streams, TakenBy(streams'[j]) = {},
             \A i \in Streams \ {j} : streams'[i] = streams[i]
      PROVE  n < m
  BY <1>1, <1>3
<1>4. ASSUME NEW j \in Streams, StreamStep(j) \/ CloseEmitter(j),
             \A i \in Streams \ {j} : streams'[i] = streams[i]
      PROVE  n < m
  <2>1. /\ streams'[j].queue # streams[j].queue => TakenBy(streams'[j]) = {}
        /\ Take(j) => Picks(j)
        /\ ~Take(j) => TakenBy(streams'[j]) \subseteq TakenBy(streams[j])
    BY <1>4, StreamTakes
  <2>2. CASE streams'[j].queue # streams[j].queue
    BY <1>3, <1>4, <2>1, <2>2
  <2>3. CASE streams'[j].queue = streams[j].queue /\ ~Take(j)
    BY <1>1, <1>4, <2>1, <2>3
  <2>4. CASE streams'[j].queue = streams[j].queue /\ Take(j)
    <3>1. PICK e \in eventQueues[streams[j].queue].events :
            TakenBy(streams'[j]) = TakenBy(streams[j]) \cup {e}
      BY <2>1, <2>4 DEF Picks
    <3>2. CASE j = k /\ m = e
      <4>1. streams'[l] = streams[l] /\ streams[l].queue = streams[k].queue
        BY <1>4, <2>4, <3>2
      <4>2. QED
        BY <3>1, <3>2, <4>1 DEF TakenFirst
    <3>3. CASE j = l
      <4>1. streams'[k] = streams[k] /\ streams[k].queue # Null
        BY <1>4, <3>3
      <4>2. streams[l].at = "take" /\ streams[l].queue # Null
        BY <2>4, <3>3 DEF Take
      <4>3. sources[k].state # "none" /\ sources[l].state # "none" /\ sources[l] \in Source
        BY <4>1, <4>2 DEF PInv, SourcesOK, SourceOK, DInv, TInv, StreamsType, WellFormed, Unopened
      <4>4. SourceLone(k) /\ SourceLone(l)
        BY <4>3 DEF SourcesLone
      <4>5. sources[l].state # "open"
        <5>1. k <= eventSource
          BY <4>4 DEF SourceLone
        <5>2. l = eventSource => ~(l < k)
          <6>1. eventSource \in Nat /\ l \in Nat /\ k \in Nat
            BY PagesAssumption DEF PInv, SourcesOK, EventSourceOK, Null
          <6>2. QED
            BY <5>1, <6>1
        <5>3. QED
          BY <1>4, <4>4, <5>2 DEF SourceLone
      <4>6. ResetsGot(l) # {}
        BY <4>2, <4>3, <4>4, <4>5 DEF SourceLone, Source
      <4>7. QED
        BY <4>2, <4>6, ResetIsLast
    <3>4. QED
      BY <1>1, <1>4, <2>4, <3>1, <3>2, <3>3
  <2>5. QED
    BY <2>2, <2>3, <2>4
<1>5. QED
  BY <1>2, <1>3, <1>4, LoneStreams

-----------------------------------------------------------------------------
(***************************************************************************)
(* What the page shows of its user's own: the user's last vote, whether    *)
(* or not the stream has brought it yet, but of the one just made, which   *)
(* the answer has yet to bring, and none from before a reset the page has  *)
(* been handed.                                                            *)
(***************************************************************************)
Mine(n) == published[n].sid = pages[1].activeSession /\ published[n].uid = Me

Unnoticed == \E r \in requests : r.answered /\ r.op # "reset"

YourLast(n) ==
  /\ published[n].type = UserVoted /\ Mine(n)
  /\ published[n].point = pages[1].yourVote
  /\ \A m \in DOMAIN published :
       m > n /\ published[m].type \in Creates \cup {UserVoted} /\ Mine(m) => Unnoticed
  /\ \A l \in Streams : \A m \in ResetsGot(l) : m < n

VoteKnown ==
  1 \in DOMAIN pages /\ pages[1].yourVote # NoVote => \E n \in DOMAIN published : YourLast(n)

LEMMA ResetsStay ==
  ASSUME PInv, Grows, NEW k \in Streams, sources'[k].got = sources[k].got
  PROVE  ResetsGot(k)' = ResetsGot(k)
<1>1. CASE sources[k].state # "none"
  BY <1>1, GotStays
<1>2. CASE sources[k].state = "none"
  <2>1. sources[k].got = 0
    BY <1>2 DEF PInv, SourcesOK, SourceOK, Source, DInv, TInv, StreamsType, WellFormed, Unopened
  <2>2. 1 .. sources'[k].got = {}
    BY <2>1
  <2>3. ResetsGot(k)' = {}
    BY <2>2 DEF ResetsGot, Got
  <2>4. QED
    BY <1>2, <2>3, NoneGot
<1>3. QED
  BY <1>1, <1>2

\* The user's own vote is known still after a step that leaves it on the page.
LEMMA VoteStaysKnown ==
  ASSUME PInv, Grows, Len(pages) <= 1, LoneMove, VoteKnown,
         1 \in DOMAIN pages, pages'[1].yourVote = pages[1].yourVote,
         \A k \in Streams : ResetsGot(k)' = ResetsGot(k),
         Unnoticed => Unnoticed',
         \A m \in DOMAIN published' \ DOMAIN published :
           published'[m].type \in Creates \cup {UserVoted} /\ published'[m].uid = Me => Unnoticed'
  PROVE  VoteKnown'
<1> SUFFICES ASSUME pages'[1].yourVote # NoVote
             PROVE  \E n \in DOMAIN published' : YourLast(n)'
  BY DEF VoteKnown
<1>1. PICK n \in DOMAIN published : YourLast(n)
  BY DEF VoteKnown
<1>2. n \in DOMAIN published' /\ published'[n] = published[n]
  BY DEF Grows
<1>3. pages'[1].activeSession = pages[1].activeSession
  BY SessionStays
<1>4. \A m \in DOMAIN published :
        published'[m] = published[m] /\ (Mine(m)' => Mine(m))
  BY <1>3 DEF Grows, Mine
<1>5. published'[n].type = UserVoted /\ Mine(n)' /\ published'[n].point = pages'[1].yourVote
  BY <1>1, <1>2, <1>3 DEF YourLast, Mine
<1>6. ASSUME NEW m \in DOMAIN published', m > n,
             published'[m].type \in Creates \cup {UserVoted}, Mine(m)'
      PROVE  Unnoticed'
  <2>1. CASE m \in DOMAIN published
    BY <1>1, <1>4, <1>6, <2>1 DEF YourLast
  <2>2. CASE m \notin DOMAIN published
    BY <1>6, <2>2 DEF Mine
  <2>3. QED
    BY <2>1, <2>2
<1>7. \A l \in Streams : \A m \in ResetsGot(l)' : m < n
  BY <1>1 DEF YourLast
<1>8. YourLast(n)'
  BY <1>5, <1>6, <1>7 DEF YourLast
<1>9. QED
  BY <1>2, <1>8

LEMMA VoteKnownNext ==
  ASSUME PInv, PInv', Grows, OrderOK, credentials, Len(pages) <= 1, Len(pages') <= 1,
         OneRequest, RequestsLone, SourcesLone, LoneMove, CalmStep, PagesNext, VoteKnown
  PROVE  VoteKnown'
<1>1. ASSUME UNCHANGED <<pages, sources>>, Unnoticed => Unnoticed',
             \A m \in DOMAIN published' \ DOMAIN published :
               published'[m].type \in Creates \cup {UserVoted} /\ published'[m].uid = Me => Unnoticed'
      PROVE  VoteKnown'
  <2>1. \A k \in Streams : ResetsGot(k)' = ResetsGot(k)
    BY <1>1, ResetsStay
  <2>2. QED
    BY <1>1, <2>1, VoteStaysKnown DEF VoteKnown
<1>2. ASSUME UNCHANGED <<pages, sources, published>>, Unnoticed => Unnoticed'
      PROVE  VoteKnown'
  BY <1>1, <1>2
<1>3. ASSUME 1 \in DOMAIN pages' => pages'[1].yourVote = NoVote PROVE VoteKnown'
  BY <1>3 DEF VoteKnown
<1>4. ASSUME NEW s \in Sessions, Arrives(s) PROVE VoteKnown'
  BY <1>3, <1>4 DEF Arrives
<1>5. CASE UserStep
  <2>1. UNCHANGED <<pages, sources, published>> /\ requests \subseteq requests'
    BY <1>5, LoneNavigates DEF UserStep, createSession, joinSession, vote, resetVotes,
       exitSession, logout, authenticate, Ask, deliveryVars, listenerVars
  <2>2. QED
    BY <1>2, <2>1 DEF Unnoticed
<1>6. ASSUME NEW r \in requests, Serve(r) PROVE VoteKnown'
  <2>1. PICK s \in IF r.op = "create" THEN Sessions ELSE {r.sid}, d \in Ticks :
          /\ MulticastEvent([type |-> EventTypeOf(r.op), sid |-> s, uid |-> Me,
                             point |-> r.point, ts |-> LastTime + d])
          /\ requests' = (requests \ {r}) \cup {[r EXCEPT !.sid = s, !.answered = TRUE]}
    BY <1>6 DEF Serve
  <2> DEFINE new == [r EXCEPT !.sid = s, !.answered = TRUE]
             ev == [type |-> EventTypeOf(r.op), sid |-> s, uid |-> Me,
                    point |-> r.point, ts |-> LastTime + d]
  <2>2. r \in PageRequest /\ new \in requests' /\ published \in Seq(PokerEvent)
    BY <2>1, LonePages DEF PInv, DInv, TInv, QInv, QueuesTypeOK
  <2>3. new.op = r.op /\ new.answered
    BY <2>2 DEF PageRequest
  <2>4. published' = Append(published, ev) /\ ev.type = EventTypeOf(r.op)
    BY <2>1 DEF MulticastEvent
  <2> HIDE DEF new, ev
  <2>5. \A m \in DOMAIN published' \ DOMAIN published : published'[m] = ev
    BY <2>2, <2>4
  <2>6. ev.type \in Creates \cup {UserVoted} => r.op # "reset"
    BY <2>4 DEF EventTypeOf, Creates, SessionCreated, UserJoined, UserVoted, VoteReset
  <2>7. ~Unnoticed
    BY <1>6 DEF Serve, OneRequest, Unnoticed
  <2>8. UNCHANGED <<pages, sources>>
    BY <1>6 DEF Serve
  <2>9. QED
    BY <1>1, <2>2, <2>3, <2>5, <2>6, <2>7, <2>8 DEF Unnoticed
<1>7. ASSUME NEW ev, Elsewhere(ev) PROVE VoteKnown'
  <2>1. /\ published' = Append(published, ev) /\ published \in Seq(PokerEvent)
        /\ UNCHANGED <<pages, sources, requests>>
    BY <1>7 DEF Elsewhere, browserVars, MulticastEvent, PInv, DInv, TInv, QInv, QueuesTypeOK
  <2>2. /\ published'[Len(published')] = ev /\ published' # published
        /\ \A m \in DOMAIN published' \ DOMAIN published : m = Len(published')
    <3>1. Len(published') = Len(published) + 1 /\ Len(published) \in Nat
      BY <2>1
    <3>2. published' # published
      BY <3>1
    <3>3. DOMAIN published = 1 .. Len(published) /\ DOMAIN published' = 1 .. Len(published')
      BY <2>1
    <3>4. \A m \in DOMAIN published' \ DOMAIN published : m = Len(published')
      BY <3>1, <3>3
    <3>5. published'[Len(published')] = ev
      BY <2>1, <3>1
    <3>6. QED
      BY <3>2, <3>4, <3>5
  <2>3. ev.uid # Me
    BY <2>1, <2>2 DEF CalmStep
  <2>4. QED
    BY <1>1, <2>1, <2>2, <2>3 DEF Unnoticed
<1>8. ASSUME NEW r \in requests, Refuse(r) PROVE VoteKnown'
  BY <1>2, <1>8 DEF Refuse, OneRequest, Unnoticed, deliveryVars, listenerVars
<1>9. ASSUME NEW r \in requests, Answered(r) PROVE VoteKnown'
  <2>1. r \in PageRequest /\ r.sid \in Sessions /\ r.answered /\ requests' = requests \ {r}
    BY <1>9 DEF PInv, RequestsOK, Answered
  <2>2. r.op \in {"create", "join"} => shown = 0
    BY DEF RequestsLone
  <2>3. CASE r.op \in {"create", "join"}
    BY <1>4, <1>9, <2>1, <2>2, <2>3, LoneNavigates DEF Answered
  <2>4. CASE r.op = "reset"
    <3>1. UNCHANGED <<pages, sources, published>>
      BY <1>9, <2>4 DEF Answered, deliveryVars, listenerVars
    <3>2. ~Unnoticed
      BY <2>4 DEF OneRequest, Unnoticed
    <3>3. QED
      BY <1>2, <3>1, <3>2
  <2>5. CASE r.op = "vote"
    <3>1. /\ 1 \in DOMAIN pages /\ r.page = 1 /\ r.sid = pages[1].activeSession
          /\ pages \in Seq(Page) /\ pages[1] \in Page
      BY <2>5, LonePages DEF RequestsLone, PInv, ClientOK
    <3>2. /\ pages' = [pages EXCEPT ![1].yourVote = r.point]
          /\ UNCHANGED <<sources, published>>
      BY <1>9, <2>5, <3>1 DEF Answered, deliveryVars, listenerVars
    <3>3. pages'[1].yourVote = r.point /\ pages'[1].activeSession = r.sid
      BY <3>1, <3>2 DEF Page
    <3>4. \A k \in Streams : ResetsGot(k)' = ResetsGot(k)
      BY <3>2, ResetsStay
    <3> DEFINE n == Len(published)
    <3>5. /\ published \in Seq(PokerEvent) /\ AnsweredLast(r)
      BY <2>1 DEF OneRequest, PInv, DInv, TInv, QInv, QueuesTypeOK
    <3>6. n \in DOMAIN published /\ \A m \in DOMAIN published : m <= n /\ (m # n => m < n) /\ ~(m > n)
      BY <3>5 DEF AnsweredLast
    <3>7. published[n].type = UserVoted /\ published[n].sid = r.sid /\ published[n].uid = Me
          /\ published[n].point = r.point
      BY <2>5, <3>5 DEF AnsweredLast, EventTypeOf
    <3> HIDE DEF n
    <3>8. \A l \in Streams : \A m \in ResetsGot(l) : m < n
      <4>1. \A l \in Streams : \A m \in ResetsGot(l) :
              m \in DOMAIN published /\ published[m].type = VoteReset
        <5>1. \A l \in Streams : sources[l].state # "none" => ResetsGot(l) \subseteq DOMAIN published
          BY GotStays, <3>2 DEF ResetsGot
        <5>2. QED
          BY <5>1, NoneGot DEF ResetsGot
      <4>2. QED
        BY <3>6, <3>7, <4>1 DEF UserVoted, VoteReset
    <3>9. YourLast(n)'
      <4>1. n' = n
        BY <3>2 DEF n
      <4>2. published'[n].type = UserVoted /\ Mine(n)' /\ published'[n].point = pages'[1].yourVote
        BY <3>2, <3>3, <3>7, <4>1 DEF Mine
      <4>3. \A m \in DOMAIN published' : ~(m > n)
        BY <3>2, <3>6
      <4>4. \A l \in Streams : \A m \in ResetsGot(l)' : m < n
        BY <3>4, <3>8
      <4>5. QED
        BY <4>1, <4>2, <4>3, <4>4 DEF YourLast
    <3>10. QED
      BY <3>2, <3>6, <3>9 DEF VoteKnown, n
  <2>6. QED
    BY <2>1, <2>3, <2>4, <2>5 DEF PageRequest
<1>10. CASE ServiceStep
  BY <1>6, <1>7, <1>8, <1>9, <1>10 DEF ServiceStep
<1>11. CASE ServerStep
  <2>1. UNCHANGED <<pages, sources, requests, published>>
    <3>1. ASSUME NEW n \in Ids, HandlerStep(n) PROVE UNCHANGED published
      BY <3>1, WhatChanges
    <3>2. ASSUME NEW k \in Streams, StreamStep(k) \/ CloseEmitter(k) PROVE UNCHANGED published
      BY <3>2, StreamsLeaveListeners DEF listenerVars, Take, PInv, DInv
    <3>3. QED
      BY <1>11, <3>1, <3>2 DEF ServerStep, browserVars
  <2>2. QED
    BY <1>2, <2>1 DEF Unnoticed
<1>12. ASSUME NEW k \in Streams, OnVote(k) PROVE VoteKnown'
  <2>1. /\ HasMessage(k) /\ Handed(k).type = UserVoted /\ 1 \in DOMAIN pages
        /\ pages'[1].yourVote = pages[1].yourVote
        /\ sources' = [sources EXCEPT ![k].got = @ + 1]
        /\ UNCHANGED <<requests, published>>
    BY <1>12, LoneMessage DEF OnMessage, OnVote, deliveryVars, listenerVars
  <2>2. /\ sources'[k].got = sources[k].got + 1
        /\ \A j \in Streams \ {k} : sources'[j] = sources[j]
    BY <2>1 DEF PInv, SourcesOK, Source
  <2>3. ResetsGot(k)' = ResetsGot(k)
    BY <2>1, <2>2, GotOneMore DEF UserVoted, VoteReset
  <2>4. \A j \in Streams : ResetsGot(j)' = ResetsGot(j)
    BY <2>2, <2>3, ResetsStay
  <2>5. QED
    BY <2>1, <2>4, VoteStaysKnown DEF Unnoticed
<1>13. ASSUME NEW k \in Streams, OnReset(k) PROVE VoteKnown'
  BY <1>3, <1>13, LoneMessage DEF OnMessage
<1>14. ASSUME NEW k \in Streams, OnEnd(k) PROVE VoteKnown'
  <2>1. UNCHANGED <<pages, requests, published>> /\ sources' = [sources EXCEPT ![k].state = "closed"]
    BY <1>14 DEF OnEnd, deliveryVars, listenerVars
  <2>2. \A j \in Streams : sources'[j].got = sources[j].got
    BY <2>1 DEF PInv, SourcesOK, Source
  <2>3. \A j \in Streams : ResetsGot(j)' = ResetsGot(j)
    BY <2>2, ResetsStay
  <2>4. QED
    BY <2>1, <2>3, VoteStaysKnown DEF VoteKnown, Unnoticed
<1>15. QED
  BY <1>5, <1>10, <1>11, <1>12, <1>13, <1>14, CalmTearsNone DEF PagesNext, OnMessage

-----------------------------------------------------------------------------
ShowInv == PageShows /\ StreamsInTurn /\ VoteKnown

LonesInv ==
  /\ CalmInv /\ ListenInv
  /\ Len(pages) <= MaxPages
  /\ Lone => LoneInv /\ KeptInv /\ ShowInv

LEMMA FewPages ==
  ASSUME PInv, Len(pages) <= MaxPages, [PagesNext]_clientVars
  PROVE  Len(pages') <= MaxPages
<1>1. pages \in Seq(Page) /\ Len(pages) \in Nat /\ MaxPages \in Nat
  BY DEF PInv, ClientOK
<1>2. ASSUME NEW s, Navigate(s) PROVE Len(pages') <= MaxPages
  <2>1. CASE pages' = pages
    BY <2>1
  <2>2. CASE \E x : pages' = Append(pages, x) /\ Len(pages) < MaxPages
    BY <1>1, <2>2
  <2>3. CASE shown # 0 /\ pages' = [pages EXCEPT ![shown].activeSession = s,
                                                 ![shown].navigations = @ + 1]
    <3>1. DOMAIN pages' = DOMAIN pages
      BY <2>3
    <3>2. Len(pages') = Len(pages)
      <4>1. \E x : pages' = [pages EXCEPT ![shown] = x] 
        BY <2>3
      <4>2. QED
        BY <1>1, <4>1
    <3>3. QED
      BY <3>2
  <2>4. QED
    BY <1>2, <2>1, <2>2, <2>3 DEF Navigate
<1>3. CASE UserStep
  BY <1>2, <1>3 DEF UserStep, createSession, joinSession, vote, resetVotes, exitSession, logout,
     authenticate, GoBack, Ask
<1>4. ASSUME NEW r \in requests, Serve(r) \/ Refuse(r) \/ Answered(r)
      PROVE  Len(pages') <= MaxPages
  <2>1. Len([pages EXCEPT ![r.page].yourVote = r.point]) = Len(pages)
    <3>1. \E x : [pages EXCEPT ![r.page].yourVote = r.point] = [pages EXCEPT ![r.page] = x]
      OBVIOUS
    <3>2. QED
      BY <1>1, <3>1
  <2>2. QED
    BY <1>2, <1>4, <2>1 DEF Serve, Refuse, Answered
<1>5. CASE ServiceStep
  BY <1>4, <1>5 DEF ServiceStep, Elsewhere, browserVars
<1>6. ASSUME NEW k \in Streams, OnMessage(k) \/ OnEnd(k) \/ Tear(k) PROVE Len(pages') <= MaxPages
  <2>1. \A p : \E x : [pages EXCEPT ![p].voters[Handed(k).uid] = Handed(k).point] = [pages EXCEPT ![p] = x]
    OBVIOUS
  <2>2. \A p : \E x : [pages EXCEPT ![p].voters = NobodyVoted, ![p].yourVote = NoVote]
                      = [pages EXCEPT ![p] = x]
    OBVIOUS
  <2>3. \A p, x : Len([pages EXCEPT ![p] = x]) = Len(pages)
    BY <1>1
  <2>4. QED
    BY <1>6, <2>1, <2>2, <2>3 DEF OnMessage, OnVote, OnReset, OnEnd, Tear
<1>7. CASE ServerStep \/ UNCHANGED clientVars
  BY <1>7 DEF ServerStep, browserVars, clientVars
<1>8. QED
  BY <1>3, <1>5, <1>6, <1>7 DEF PagesNext

LEMMA LoneNext ==
  ASSUME CalmInv, CalmInv', ListenInv, Lone => LoneInv /\ KeptInv /\ ShowInv,
         [PagesNext]_clientVars, Lone'
  PROVE  LoneInv' /\ KeptInv' /\ ShowInv'
<1>1. PInv /\ PInv' /\ PageMove /\ Grows /\ [DeliveryNext]_deliveryVars
  BY PagesSound, MovesGrow DEF CalmInv, Sound
<1>2. Len(pages) <= 1 /\ Len(pages') <= 1
  BY <1>1, LonePast DEF Lone
<1>3. CASE UNCHANGED clientVars
  <2>1. UNCHANGED <<pages, shown, sources, eventSource, requests, calm, streams, published>>
        /\ UNCHANGED deliveryVars
    BY <1>3 DEF clientVars, browserVars, deliveryVars, listenerVars
  <2>2. LoneInv /\ KeptInv /\ ShowInv
    BY <1>2, <2>1 DEF Lone
  <2>3. LoneInv'
    BY <2>1, <2>2 DEF LoneInv, RequestsLone, SourcesLone, SourceLone, EmittersLone, ResetSent,
       ResetsGot, Got
  <2>4. LosesNone
    BY <2>1 DEF LosesNone
  <2>5. KeptInv'
    BY <1>1, <1>2, <2>2, <2>4, <2>1, KeptNext DEF CalmInv, PatientInv, Lone
  <2>6. PageShows'
    BY <2>1, <2>2 DEF ShowInv, PageShows, ShowsLast, VotesBy, Got
  <2>7. StreamsInTurn'
    BY <2>1, <2>2 DEF ShowInv, StreamsInTurn
  <2>8. VoteKnown'
    BY <2>1, <2>2 DEF ShowInv, VoteKnown, YourLast, Unnoticed, Mine, ResetsGot, Got
  <2>9. QED
    BY <2>3, <2>5, <2>6, <2>7, <2>8 DEF ShowInv
<1>4. CASE PagesNext
  <2>1. calm /\ CalmStep /\ Lone
    BY <1>2, <1>4 DEF PagesNext, Watch, Lone, CalmInv
  <2>2. LoneInv /\ KeptInv /\ ShowInv
    BY <2>1
  <2>3. OneRequest /\ OneRequest' /\ credentials /\ PatientInv /\ ReadMade /\ SettledInv /\ OrderOK
    BY <2>1 DEF CalmInv, Lone, PatientInv, ListenInv
  <2>4. LoneMove
    BY <1>1, <1>2, <1>4, <2>1, <2>2, LoneMoves DEF LoneInv
  <2>5. RequestsLone'
    BY <1>1, <1>2, <1>4, <2>1, <2>2, <2>3, RequestsLoneNext DEF LoneInv
  <2>6. SourcesLone'
    BY <1>1, <1>2, <2>2, <2>3, <2>4, SourcesLoneNext DEF LoneInv
  <2>7. EmittersLone' /\ LosesNone
    BY <1>1, <1>2, <2>1, <2>2, <2>3, <2>4, EmittersLoneNext DEF LoneInv
  <2>8. KeptInv'
    BY <1>1, <2>2, <2>3, <2>7, KeptNext DEF CalmInv
  <2>9. PageShows'
    BY <1>1, <1>2, <2>2, <2>3, <2>4, PageShowsNext DEF LoneInv, ShowInv, PatientInv
  <2>10. StreamsInTurn'
    BY <1>1, <1>2, <2>2, <2>3, <2>4, StreamsInTurnNext DEF LoneInv, ShowInv, PatientInv, CalmInv
  <2>11. VoteKnown'
    BY <1>1, <1>2, <1>4, <2>1, <2>2, <2>3, <2>4, VoteKnownNext DEF LoneInv, ShowInv
  <2>12. QED
    BY <2>5, <2>6, <2>7, <2>8, <2>9, <2>10, <2>11 DEF LoneInv, ShowInv
<1>5. QED
  BY <1>3, <1>4

LEMMA LonesNext == LonesInv /\ [PagesNext]_clientVars => LonesInv'
<1> SUFFICES ASSUME LonesInv, [PagesNext]_clientVars PROVE LonesInv'
  OBVIOUS
<1>1. CalmInv' /\ PInv /\ PInv' /\ Sound
  BY CalmNext, PagesSound DEF LonesInv, CalmInv
<1>2. ListenInv'
  BY <1>1, StepsCount, ListenNext DEF LonesInv, Sound
<1>3. Len(pages') <= MaxPages
  BY <1>1, FewPages DEF LonesInv
<1>4. Lone' => LoneInv' /\ KeptInv' /\ ShowInv'
  BY <1>1, LoneNext DEF LonesInv
<1>5. QED
  BY <1>1, <1>2, <1>3, <1>4 DEF LonesInv

LEMMA LonesStart == PagesInit => LonesInv
<1> SUFFICES ASSUME PagesInit PROVE LonesInv
  OBVIOUS
<1>1. CalmInv /\ ListenInv
  BY CalmStart, ListenStart
<1>2. KeptInv
  BY KeptInit DEF PagesInit
<1>3. pages = <<>> /\ Len(pages) <= MaxPages /\ shown = 0 /\ requests = {}
      /\ \A k \in Streams : sources[k].state = "none" /\ streams[k] = Unopened
  BY DEF PagesInit, DeliveryInit, StreamsInit
<1>4. LoneInv
  BY <1>3 DEF LoneInv, RequestsLone, SourcesLone, EmittersLone, Unopened
<1>5. ShowInv
  BY <1>3 DEF ShowInv, PageShows, StreamsInTurn, VoteKnown, Unopened
<1>6. QED
  BY <1>1, <1>2, <1>3, <1>4, <1>5 DEF LonesInv

(***************************************************************************)
(* For any number of sessions, users, events, streams and requests: in a   *)
(* calm run with one page nothing gets lost between the events of the      *)
(* user's queue and the streams that read it (broadcastEvent,              *)
(* PoisonPillStrategy.execute), and streams keep the order of the events,  *)
(* over any resets and the streams they end and open.                      *)
(***************************************************************************)
THEOREM CalmStreamsComplete == PagesSpec => []CalmStreamsAreComplete
<1>1. LonesInv => CalmStreamsAreComplete
  <2> SUFFICES ASSUME LonesInv, calm, MaxPages = 1
               PROVE  /\ AllHandled =>
                           \A s \in Sessions :
                             Registered(s, Me) # Null =>
                               HasHad(Registered(s, Me)) = After(Registered(s, Me), s, Broadcasts)
                      /\ \A q \in Ids : \A n \in TakenFrom(q) :
                           \A m \in eventQueues[q].events : n < m
                      /\ \A k \in Streams : \A i, j \in DOMAIN streams[k].sent :
                           i < j => streams[k].sent[i] < streams[k].sent[j]
    BY DEF CalmStreamsAreComplete, HasHad
  <2>1. KeepingInv /\ SettledInv /\ KeptInv /\ PatientInv /\ Me \in Users
    BY DEF LonesInv, CalmInv, Lone
  <2>2. ASSUME NEW q \in Ids, NEW n \in TakenFrom(q), NEW m \in eventQueues[q].events
        PROVE  n < m
    <3>1. PICK k \in Streams : streams[k].queue = q /\ n \in TakenBy(streams[k])
      BY TakenFromIs
    <3>2. q # Null
      BY IdsAreNumbers
    <3>3. QED
      BY <2>1, <3>1, <3>2 DEF PatientInv, TakenFirst
  <2>3. QED
    BY <2>1, <2>2, KeptAll DEF PatientInv, SentsRise, SentRising
<1>2. QED
  BY <1>1, LonesStart, LonesNext, PTL DEF PagesSpec

-----------------------------------------------------------------------------
LEMMA MaxIs ==
  ASSUME NEW S, S \subseteq Nat, NEW x \in S, \A y \in S : y <= x
  PROVE  Max(S) = x
<1>1. \A y \in S : x >= y
  OBVIOUS
<1>2. \A z \in S : (\A y \in S : z >= y) => z = x
  <2>1. \A z \in Nat : z >= x /\ z <= x => z = x
    OBVIOUS
  <2>2. QED
    BY <2>1
<1>3. QED
  BY <1>1, <1>2 DEF Max

(***************************************************************************)
(* When the page has caught up, its last source has got all it will get    *)
(* and the others have got a reset each: what the last one has got are the *)
(* votes of the round.                                                     *)
(***************************************************************************)
AtRest ==
  LET s == pages[1].activeSession
      q == Registered(s, Me)
      k == eventSource
  IN  /\ k \in Streams /\ Max(SourcesOf(1)) = k
      /\ s \in Sessions /\ MadeFor(q, s, Me)
      /\ Round(q, s) = {n \in Got(k) : published[n].type = UserVoted}
      /\ \A m \in After(q, s, {VoteReset}) : \E l \in Streams : m \in ResetsGot(l)

LEMMA LastSource ==
  ASSUME PInv, Len(pages) <= 1, SourcesLone, 1 \in DOMAIN pages
  PROVE  eventSource \in Streams /\ Max(SourcesOf(1)) = eventSource
<1>1. eventSource \in Streams /\ sources[eventSource].state # "none"
  BY DEF PInv, SourcesOK, EventSourceOK, SourcesLone
<1>2. eventSource \in SourcesOf(1) /\ SourcesOf(1) \subseteq Nat
  BY <1>1, LonePages DEF SourcesOf
<1>3. \A k \in SourcesOf(1) : k <= eventSource
  BY DEF SourcesOf, SourcesLone, SourceLone
<1>4. QED
  BY <1>1, <1>2, <1>3, MaxIs

LEMMA RestReached ==
  ASSUME LonesInv, calm, NEW p \in DOMAIN pages, Current(p), CaughtUp(p)
  PROVE  p = 1 /\ DOMAIN pages = {1} /\ AtRest
<1>1. Len(pages) <= 1 /\ PInv /\ LoneInv /\ KeptInv /\ ShowInv /\ PatientInv
      /\ KeepingInv /\ SettledInv
  BY DEF LonesInv, CalmInv, Lone, Current
<1>2. p = 1 /\ DOMAIN pages = {1} /\ pages[1] \in Page
  BY <1>1, LonePages DEF Current
<1> DEFINE s == pages[1].activeSession
           q == Registered(s, Me)
           k == eventSource
<1>3. k \in Streams /\ Max(SourcesOf(1)) = k
  BY <1>1, <1>2, LastSource DEF LoneInv
<1>4. /\ streams[k].queue = q /\ q # Null
      /\ eventQueues[q].events = {} /\ streams[k].holding = Null
      /\ sources[k].got = Len(streams[k].sent)
      /\ sources[k].state = "open" /\ ResetsGot(k) = {}
      /\ AllHandled
  BY <1>2, <1>3 DEF Current, CaughtUp, Listens
<1>5. s \in Sessions
  BY <1>2 DEF Page
<1>6. MadeFor(q, s, Me) /\ TakenFrom(q) = After(q, s, Broadcasts)
  <2>1. MadeFor(q, s, Me) /\ HasHad(q) = After(q, s, Broadcasts)
    BY <1>1, <1>4, <1>5, KeptAll
  <2>2. QED
    BY <1>4, <2>1 DEF HasHad
<1> HIDE DEF q, k
<1>7. Got(k) = TakenBy(streams[k])
  <2>1. streams[k].sent \in Seq(Ids) /\ 1 .. sources[k].got = DOMAIN streams[k].sent
    BY <1>1, <1>3, <1>4 DEF PInv, DInv, TInv, StreamsType, Stream
  <2>2. QED
    BY <1>4, <2>1 DEF Got, TakenBy
<1>8. ASSUME NEW l \in Streams, streams[l].queue = q, l # k
      PROVE  /\ l < k
             /\ \E r \in ResetsGot(l) :
                  /\ \A n \in TakenBy(streams[l]) : n = r \/ n < r
                  /\ \A n \in TakenBy(streams[l]) : published[n].type = VoteReset => n = r
                  /\ r \in TakenBy(streams[l])
  <2>1. WellFormed(streams[l]) /\ SourceOK(sources[l], streams[l], Len(pages))
    BY <1>1 DEF PInv, SourcesOK, DInv, TInv, StreamsType
  <2>2. streams[l].at # "refused" /\ sources[l].state # "none" /\ sources[l] \in Source
    BY <1>4, <1>8, <2>1 DEF WellFormed, Opening, Unopened, SourceOK
  <2>3. SourceLone(l)
    BY <1>1, <2>2 DEF LoneInv, SourcesLone
  <2>4. l < k /\ ResetsGot(l) # {}
    BY <1>3, <1>8, <2>2, <2>3 DEF SourceLone, Source, k
  <2>5. PICK r \in ResetsGot(l) : TRUE
    BY <2>4
  <2>6. /\ streams[l].holding = Null
        /\ \A i \in DOMAIN streams[l].sent :
             /\ published[streams[l].sent[i]].type = VoteReset => streams[l].sent[i] = r
             /\ r = streams[l].sent[Len(streams[l].sent)]
             /\ Len(streams[l].sent) \in DOMAIN streams[l].sent
        /\ DOMAIN streams[l].sent # {}
    <3>1. streams[l].holding = Null /\ ResetSent(l)
      BY <1>1, <2>5, ResetIsLast
    <3>2. DOMAIN streams[l].sent # {}
      BY <3>1 DEF ResetSent
    <3>3. QED
      BY <1>1, <2>5, <3>1, <3>2, ResetIsLast
  <2>7. TakenBy(streams[l]) = {streams[l].sent[i] : i \in DOMAIN streams[l].sent}
    BY <2>6 DEF TakenBy
  <2>8. \A i \in DOMAIN streams[l].sent : i = Len(streams[l].sent) \/ i < Len(streams[l].sent)
    <3>1. streams[l].sent \in Seq(Ids)
      BY <2>1 DEF WellFormed, Stream
    <3>2. QED
      BY <3>1
  <2>9. \A i \in DOMAIN streams[l].sent : streams[l].sent[i] = r \/ streams[l].sent[i] < r
    BY <1>1, <2>6, <2>8 DEF PatientInv, SentsRise, SentRising
  <2>10. QED
    BY <2>4, <2>6, <2>7, <2>9
<1>9. ASSUME NEW m \in After(q, s, {VoteReset})
      PROVE  \E l \in Streams : /\ streams[l].queue = q /\ l # k /\ l < k
                                /\ m \in ResetsGot(l) /\ m \in TakenBy(streams[l])
  <2>1. m \in TakenFrom(q) /\ published[m].type = VoteReset
    BY <1>6 DEF After, Broadcasts
  <2>2. PICK l \in Streams : streams[l].queue = q /\ m \in TakenBy(streams[l])
    BY <2>1, TakenFromIs
  <2>3. l # k
    BY <1>4, <1>7, <2>1, <2>2 DEF ResetsGot
  <2>4. QED
    BY <1>8, <2>1, <2>2, <2>3
<1>10. ASSUME NEW n \in Got(k), published[n].type = UserVoted PROVE n \in Round(q, s)
  <2>1. n \in TakenFrom(q)
    BY <1>3, <1>4, <1>7, TakenFromIs
  <2>2. n \in After(q, s, {UserVoted})
    BY <1>6, <1>10, <2>1 DEF After
  <2>3. \A m \in After(q, s, {VoteReset}) : m < n
    BY <1>1, <1>3, <1>4, <1>7, <1>9 DEF ShowInv, StreamsInTurn
  <2>4. QED
    BY <2>2, <2>3 DEF Round
<1>11. ASSUME NEW n \in Round(q, s) PROVE n \in Got(k) /\ published[n].type = UserVoted
  <2>1. /\ n \in DOMAIN published /\ published[n].type = UserVoted
        /\ n \in After(q, s, Broadcasts)
        /\ \A m \in After(q, s, {VoteReset}) : m < n
    BY DEF Round, After, Broadcasts
  <2>2. PICK l \in Streams : streams[l].queue = q /\ n \in TakenBy(streams[l])
    BY <1>6, <2>1, TakenFromIs
  <2>3. CASE l # k
    <3>1. PICK r \in ResetsGot(l) :
            (n = r \/ n < r) /\ r \in TakenBy(streams[l])
      BY <1>8, <2>2, <2>3
    <3>2. published[r].type = VoteReset /\ r \in TakenFrom(q)
      BY <2>2, <3>1, TakenFromIs DEF ResetsGot
    <3>3. r \in After(q, s, {VoteReset})
      BY <1>6, <3>2 DEF After
    <3>4. r < n /\ n \in Nat /\ r \in Nat
      <4>1. DOMAIN published \subseteq Nat
        BY <1>1 DEF PInv, DInv, TInv, QInv, QueuesTypeOK
      <4>2. QED
        BY <2>1, <3>3, <4>1 DEF After
    <3>5. QED
      BY <3>1, <3>4
  <2>4. QED
    BY <1>7, <2>1, <2>2, <2>3
<1>12. Round(q, s) = {n \in Got(k) : published[n].type = UserVoted}
  BY <1>10, <1>11
<1>13. QED
  BY <1>2, <1>3, <1>5, <1>6, <1>9, <1>12 DEF AtRest, q, k

(***************************************************************************)
(* For any number of sessions, users, events, streams and requests: in a   *)
(* calm run the only page of a session shows, when nothing more is on its  *)
(* way to it, everybody's last vote of the round and no earlier round's    *)
(* (broadcastEvent, fetchVotes and the handlers of the page's messages).   *)
(***************************************************************************)
THEOREM CalmPagesShowRound == PagesSpec => []CalmPagesShowTheRound
<1>1. LonesInv => CalmPagesShowTheRound
  <2> SUFFICES ASSUME LonesInv, calm, NEW p \in DOMAIN pages, Current(p), CaughtUp(p)
               PROVE  pages[p].voters = LatestVotes(Registered(pages[p].activeSession, Me),
                                                    pages[p].activeSession)
    BY DEF CalmPagesShowTheRound
  <2> DEFINE s == pages[1].activeSession
             q == Registered(s, Me)
             k == eventSource
             shows == pages[1].voters
  <2>1. p = 1 /\ DOMAIN pages = {1} /\ AtRest
    BY RestReached
  <2>2. PInv /\ PageShows /\ Len(pages) <= 1
    BY DEF LonesInv, CalmInv, Lone, Current, ShowInv
  <2>3. shows \in [Users -> StoryPoints]
    BY <2>1, <2>2, LonePages DEF Page
  <2>4. Round(q, s) = {n \in Got(k) : published[n].type = UserVoted} /\ Round(q, s) \subseteq Nat
    <3>1. DOMAIN published \subseteq Nat
      BY <2>2 DEF PInv, DInv, TInv, QInv, QueuesTypeOK
    <3>2. QED
      BY <2>1, <3>1 DEF AtRest, Round, After
  <2> HIDE DEF s, q, k
  <2>5. ASSUME NEW u \in Users
        PROVE  shows[u] = LET mine == {n \in Round(q, s) : published[n].uid = u}
                          IN  IF mine = {} THEN NoVote ELSE published[Max(mine)].point
    <3> DEFINE mine == {n \in Round(q, s) : published[n].uid = u}
    <3>1. mine = VotesBy(Got(k), u) /\ mine \subseteq Nat
      BY <2>4 DEF VotesBy
    <3>2. ShowsLast(shows[u], Got(k), u)
      BY <2>1, <2>2 DEF PageShows, k
    <3> HIDE DEF mine
    <3>3. CASE mine = {}
      BY <3>1, <3>2, <3>3 DEF ShowsLast, mine
    <3>4. CASE mine # {}
      <4>1. PICK n \in mine : shows[u] = published[n].point /\ \A m \in mine : m <= n
        BY <3>1, <3>2, <3>4 DEF ShowsLast
      <4>2. Max(mine) = n
        BY <3>1, <4>1, MaxIs
      <4>3. QED
        BY <3>4, <4>1, <4>2 DEF mine
    <3>5. QED
      BY <3>3, <3>4
  <2>6. shows = LatestVotes(q, s)
    BY <2>3, <2>5 DEF LatestVotes
  <2>7. QED
    BY <2>1, <2>6 DEF q, s
<1>2. QED
  BY <1>1, LonesStart, LonesNext, PTL DEF PagesSpec

(***************************************************************************)
(* For any number of sessions, users, events, streams and requests: in a   *)
(* calm run the page whose stream has nothing more for it shows above, if  *)
(* anything, the vote it shows for its user in the list (the answer of     *)
(* vote, the handlers of the page's messages).                             *)
(***************************************************************************)
THEOREM CalmPagesKnowVote == PagesSpec => []CalmPagesKnowYourVote
<1>1. LonesInv => CalmPagesKnowYourVote
  <2> SUFFICES ASSUME LonesInv, calm, NEW p \in DOMAIN pages, Current(p), CaughtUp(p),
                      \A r \in requests : ~r.answered, pages[p].yourVote # NoVote
               PROVE  pages[p].yourVote = pages[p].voters[Me]
    BY DEF CalmPagesKnowYourVote
  <2> DEFINE s == pages[1].activeSession
             q == Registered(s, Me)
             k == eventSource
  <2>1. p = 1 /\ DOMAIN pages = {1} /\ AtRest
    BY RestReached
  <2>2. PInv /\ PageShows /\ VoteKnown /\ ~Unnoticed
    BY DEF LonesInv, CalmInv, Lone, Current, ShowInv, Unnoticed
  <2>3. PICK n \in DOMAIN published : YourLast(n)
    BY <2>1, <2>2 DEF VoteKnown
  <2>4. /\ published[n].type = UserVoted /\ published[n].sid = s /\ published[n].uid = Me
        /\ published[n].point = pages[1].yourVote
        /\ \A m \in DOMAIN published :
             published[m].type \in Creates \cup {UserVoted} /\ published[m].sid = s
             /\ published[m].uid = Me => ~(m > n)
        /\ \A l \in Streams : \A m \in ResetsGot(l) : m < n
    BY <2>2, <2>3 DEF YourLast, Mine
  <2>5. DOMAIN published \subseteq Nat
    BY <2>2 DEF PInv, DInv, TInv, QInv, QueuesTypeOK
  <2>6. /\ MadeFor(q, s, Me)
        /\ Round(q, s) = {m \in Got(k) : published[m].type = UserVoted}
        /\ \A m \in After(q, s, {VoteReset}) : \E l \in Streams : m \in ResetsGot(l)
    BY <2>1 DEF AtRest
  <2> HIDE DEF s, q, k
  <2>7. n > q
    <3>1. q \in DOMAIN published /\ ~(q > n) /\ q # n
      BY <2>4, <2>6 DEF MadeFor, Creates, SessionCreated, UserJoined, UserVoted
    <3>2. QED
      BY <2>3, <2>5, <3>1
  <2>8. n \in Round(q, s)
    BY <2>3, <2>4, <2>6, <2>7 DEF Round, After
  <2>9. n \in VotesBy(Got(k), Me)
    BY <2>4, <2>6, <2>8 DEF VotesBy
  <2>10. PICK m \in VotesBy(Got(k), Me) :
           pages[1].voters[Me] = published[m].point /\ \A x \in VotesBy(Got(k), Me) : x <= m
    BY <2>1, <2>2, <2>9 DEF PageShows, ShowsLast, k
  <2>11. m \in DOMAIN published /\ published[m].type = UserVoted /\ published[m].sid = s
         /\ published[m].uid = Me
    BY <2>6, <2>10 DEF VotesBy, Round, After
  <2>12. m = n
    <3>1. ~(m > n) /\ n <= m
      BY <2>4, <2>9, <2>10, <2>11
    <3>2. QED
      BY <2>3, <2>5, <2>11, <3>1
  <2>13. QED
    BY <2>1, <2>4, <2>10, <2>12
<1>2. QED
  BY <1>1, LonesStart, LonesNext, PTL DEF PagesSpec
=============================================================================
