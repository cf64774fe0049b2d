-------------------------------- MODULE SSE --------------------------------
(***************************************************************************)
(* The event source of the web client: the SSE object of the static        *)
(* scripts, which reads a text/event-stream response with an               *)
(* XMLHttpRequest and hands every message in it to the page.               *)
(*                                                                         *)
(* The text arrives in pieces cut anywhere; every progress event passes    *)
(* what is new of it to _onStreamProgress.  JavaScript runs one event      *)
(* handler after the other, so a handler is one step; what the page does   *)
(* when it is handed a message, close() among it, is part of that step.    *)
(* The request and the network are the browser's: what is modelled of them *)
(* is which events they fire, and in which order.  A page whose handler    *)
(* throws (at a reset, when the user has logged out) is left out: the      *)
(* message would stay in the buffer and be dispatched once more.           *)
(*                                                                         *)
(* A text is a sequence of tokens: the field name "data:", the line feed   *)
(* NL and the two halves of a message's JSON, a payload and End.           *)
(***************************************************************************)
EXTENDS Naturals, SequencesExt

CONSTANTS
  Payloads,    \* the messages the server may send
  Resets,      \* those at which the page closes an event source
  MaxMessages  \* bound on the number of messages of one response

VARIABLES
  readyState,  \* of the SSE object
  xhr,         \* whether it holds its XMLHttpRequest
  request,     \* what the browser does for that: "none", "loading", or "done"
  messages,    \* the messages the server has written
  ended,       \* the server has completed the response
  progress,    \* how many tokens of the response have been read
  chunk,       \* the text of the message not yet complete
  delivered,   \* the messages the page has been handed
  torn         \* history: a cut has come at the one place that matters

sseVars == <<readyState, xhr, request, messages, ended, progress, chunk, delivered, torn>>

Data == "data:"
NL   == "\n"
End  == "}"

ASSUME SSEAssumption ==
  /\ Payloads \cap {Data, NL, End} = {}
  /\ Resets \subseteq Payloads
  /\ MaxMessages \in Nat

Tokens == Payloads \cup {Data, NL, End}

SSETypeOK ==
  /\ readyState \in {"INITIALIZING", "CONNECTING", "OPEN", "CLOSED"}
  /\ xhr \in BOOLEAN
  /\ request \in {"none", "loading", "done"}
  /\ messages \in Seq(Payloads)
  /\ ended \in BOOLEAN
  /\ progress \in Nat
  /\ chunk \in Seq(Tokens)
  /\ delivered \in Seq(Payloads)
  /\ torn \in BOOLEAN
  /\ readyState = "INITIALIZING" <=> request = "none"

SSEInit ==
  /\ readyState = "INITIALIZING"
  /\ xhr = FALSE
  /\ request = "none"
  /\ messages = <<>>
  /\ ended = FALSE
  /\ progress = 0
  /\ chunk = <<>>
  /\ delivered = <<>>
  /\ torn = FALSE

-----------------------------------------------------------------------------
\* SseEmitter.send(data): a data line and an empty one
Written(p) == <<Data, p, End, NL, NL>>

\* All of the response the server has written so far
Text ==
  [i \in 1 .. 5 * Len(messages) |-> Written(messages[((i - 1) \div 5) + 1])[((i - 1) % 5) + 1]]

\* A text of nothing but white space: trim().length is 0.
Blank(t) == ToSet(t) \subseteq {NL}

\* e.split(/(\r\n|\r|\n){2}/g): the parts of e between two line ends in a row,
\* and between any two parts the line end the group has captured
SplitStep(parts, token) ==
  IF token = NL /\ parts.open # <<>> /\ Last(parts.open) = NL
  THEN [closed |-> Append(Append(parts.closed, Front(parts.open)), <<NL>>), open |-> <<>>]
  ELSE [parts EXCEPT !.open = Append(@, token)]

Parts[e \in Seq(Tokens)] ==
  IF e = <<>> THEN [closed |-> <<>>, open |-> <<>>] ELSE SplitStep(Parts[Front(e)], Last(e))

Split(e) == Append(Parts[e].closed, Parts[e].open)

\* (faulty variant: every data line replaces the one before)
WithLine_lastLine(m) ==
  IF m.line # <<>> /\ Head(m.line) = Data THEN Tail(m.line) ELSE m.data

\* The field data of a message once the line begun is read: what its data
\* lines say
WithLine(m) ==
  IF m.line # <<>> /\ Head(m.line) = Data THEN m.data \o Tail(m.line) ELSE m.data

\* _parseEventChunk(c), a chunk's lines one after the other
LineStep(m, token) ==
  IF token = NL THEN [line |-> <<>>, data |-> WithLine(m)]
  ELSE [m EXCEPT !.line = Append(@, token)]

Lines[c \in Seq(Tokens)] ==
  IF c = <<>> THEN [line |-> <<>>, data |-> <<>>] ELSE LineStep(Lines[Front(c)], Last(c))

MessageData(c) == WithLine(Lines[c])

-----------------------------------------------------------------------------
(***************************************************************************)
(* Faulty variants of operators below, each with a mistake that is easy to *)
(* make in the code.  SSENext has none of them; they are there to show     *)
(* that the properties tell them from the real ones.                       *)
(***************************************************************************)

\* dispatchEvent after which the chunk is not emptied
Dispatch_keepsChunk(r) ==
  IF r.chunk = <<>> THEN r
  ELSE IF \E p \in Payloads : MessageData(r.chunk) = <<p, End>>
  THEN [r EXCEPT !.delivered = Append(@, Head(MessageData(r.chunk)))]
  ELSE [r EXCEPT !.thrown = TRUE]

\* stream() that does not tell it is connecting
Stream_silently ==
  /\ readyState = "INITIALIZING"
  /\ xhr' = TRUE
  /\ request' = "loading"
  /\ UNCHANGED <<readyState, messages, ended, progress, chunk, delivered, torn>>

\* close() that forgets to abort the request
close_withoutAbort ==
  /\ readyState' = "CLOSED"
  /\ xhr' = FALSE
  /\ request' = request

-----------------------------------------------------------------------------
(***************************************************************************)
(* dispatchEvent(_parseEventChunk(chunk)), chunk = "": a reading r is what *)
(* one handler has done so far.  The page parses the data as JSON: if it   *)
(* is not one whole message, JSON.parse throws, the chunk is not emptied   *)
(* and the handler goes no further.                                        *)
(***************************************************************************)
Dispatch(r) ==
  IF r.chunk = <<>> THEN r
  ELSE IF \E p \in Payloads : MessageData(r.chunk) = <<p, End>>
  THEN [r EXCEPT !.delivered = Append(@, Head(MessageData(r.chunk))), !.chunk = <<>>]
  ELSE [r EXCEPT !.thrown = TRUE]

\* The function _onStreamProgress calls for every part
PassPart(r, part) ==
  IF r.thrown THEN r
  ELSE IF Blank(part) THEN Dispatch(r)
  ELSE [r EXCEPT !.chunk = @ \o part]

\* What there is to read of the response when n tokens of it have arrived
Arrived(n) == SubSeq(Text, progress + 1, n)

\* All that has been done once parts have been passed, from a reading r on
PassParts(r) ==
  LET passed[parts \in Seq(Seq(Tokens))] ==
        IF parts = <<>> THEN r ELSE PassPart(passed[Front(parts)], Last(parts))
  IN  passed

Begin == [chunk |-> chunk, delivered |-> delivered, thrown |-> FALSE]

Read(n) == PassParts(Begin)[Split(Arrived(n))]

\* A message's two line feeds come apart, and the second one comes together
\* with the beginning of the next message.
Tears(n) ==
  /\ chunk # <<>> /\ Last(chunk) = NL
  /\ n > progress + 1 /\ Head(Arrived(n)) = NL

-----------------------------------------------------------------------------
\* close(): abort() ends the request; it fires readystatechange and abort,
\* whose handlers close the source and find it closed.
close ==
  /\ readyState' = "CLOSED"
  /\ xhr' = FALSE
  /\ request' = "done"

\* The page: stream(), and closing this source when another one hands it a
\* reset
Stream ==
  /\ readyState = "INITIALIZING"
  /\ readyState' = "CONNECTING"
  /\ xhr' = TRUE
  /\ request' = "loading"
  /\ UNCHANGED <<messages, ended, progress, chunk, delivered, torn>>

Close ==
  /\ readyState \in {"CONNECTING", "OPEN"}
  /\ close
  /\ UNCHANGED <<messages, ended, progress, chunk, delivered, torn>>

\* The server, which knows nothing of a client that has gone
Send(p) ==
  /\ request # "none" /\ ~ended
  /\ Len(messages) < MaxMessages
  /\ messages' = Append(messages, p)
  /\ UNCHANGED <<readyState, xhr, request, ended, progress, chunk, delivered, torn>>

Complete ==
  /\ request # "none" /\ ~ended
  /\ ended' = TRUE
  /\ UNCHANGED <<readyState, xhr, request, messages, progress, chunk, delivered, torn>>

-----------------------------------------------------------------------------
(***************************************************************************)
(* A progress event when n tokens of the response have arrived.  The page  *)
(* may close the source in the handler of a reset among the messages it is *)
(* handed: that does not stop the loop over the parts, which goes on to    *)
(* hand out what stands behind.                                            *)
(***************************************************************************)
onStreamProgress(n) ==
  /\ request = "loading" /\ xhr
  /\ n > progress /\ n <= Len(Text)
  /\ \/ /\ readyState' = IF readyState = "CONNECTING" THEN "OPEN" ELSE readyState
        /\ UNCHANGED <<xhr, request>>
     \/ /\ \E i \in Len(delivered) + 1 .. Len(Read(n).delivered) : Read(n).delivered[i] \in Resets
        /\ close
  /\ progress' = n
  /\ chunk' = Read(n).chunk
  /\ delivered' = Read(n).delivered
  /\ torn' = (torn \/ Tears(n))
  /\ UNCHANGED <<messages, ended>>

\* All has arrived: readystatechange finds the request done and closes the
\* source (_checkStreamClosed); load passes what is left, if the source still
\* holds its request, and dispatches the buffer in any case.
onStreamLoaded ==
  /\ request = "loading" /\ ended
  /\ readyState' = "CLOSED"
  /\ request' = "done"
  /\ progress' = IF xhr THEN Len(Text) ELSE progress
  /\ LET r == IF xhr THEN Read(Len(Text)) ELSE Begin
         last == IF r.thrown THEN r ELSE Dispatch(r)
     IN  chunk' = last.chunk /\ delivered' = last.delivered
  /\ torn' = (torn \/ (xhr /\ Tears(Len(Text))))
  /\ UNCHANGED <<xhr, messages, ended>>

\* The connection breaks, of which readystatechange closes the source; or the
\* first progress event finds a status other than 200, and _onStreamFailure
\* closes it.  Nothing opens it again.
onStreamFailure ==
  /\ request = "loading"
  /\ \/ readyState' = "CLOSED" /\ request' = "done" /\ UNCHANGED xhr
     \/ xhr /\ readyState = "CONNECTING" /\ messages = <<>> /\ close
  /\ UNCHANGED <<messages, ended, progress, chunk, delivered, torn>>

SSENext ==
  \/ Stream \/ Close
  \/ Complete \/ \E p \in Payloads : Send(p)
  \/ onStreamLoaded \/ onStreamFailure
  \/ \E n \in 1 .. Len(Text) : onStreamProgress(n)

\* The network brings what has been written, and the end of it.
SSESpec == SSEInit /\ [][SSENext]_sseVars

-----------------------------------------------------------------------------
(***************************************************************************)
(* However the network cuts the response, the page is handed no message    *)
(* twice, none out of order and none that was not sent.  Unless a cut has  *)
(* torn the end of a message as Tears says, it is also handed every        *)
(* message as soon as its last line feed has been read, and all of them    *)
(* once the response is complete.                                          *)
(***************************************************************************)
MessagesArriveWhole ==
  /\ IsPrefix(delivered, messages)
  /\ ~torn =>
       /\ Len(delivered) >= progress \div 5
       /\ ended /\ request = "done" /\ progress = Len(Text) => delivered = messages

(***************************************************************************)
(* A torn end of a message (the buffer of _onStreamProgress then holds two *)
(* messages, whose data JSON.parse refuses) is never got over: the page is *)
(* handed nothing more, and what it is not handed stays in the buffer.     *)
(***************************************************************************)
TornStreamsStaySilent == [][torn => delivered' = delivered]_sseVars

(***************************************************************************)
(* A source is closed for good, and silent once the handler is over in     *)
(* which it was closed, whatever the server goes on to write and whatever  *)
(* its buffer holds, which _onStreamLoaded would dispatch without a look   *)
(* at readyState: a page that opens a new source after a reset hears of    *)
(* later events from that one only.                                        *)
(***************************************************************************)
ClosedSourcesAreSilent ==
  [][readyState = "CLOSED" => readyState' = "CLOSED" /\ delivered' = delivered]_sseVars
=============================================================================
