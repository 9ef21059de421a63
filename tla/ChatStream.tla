----------------------------- MODULE ChatStream -----------------------------
(***************************************************************************)
(* One POST /v1/chat/completions from its body to the end of its answer    *)
(* (server/server.go: handleChatCompletions, streamChat; httputil.go:      *)
(* SSEStream; gateway/service.go: BeginRequest; provider/client.go:        *)
(* Complete, readSSE): the handler with the callbacks that the reader of   *)
(* the upstream's answer makes, the keep-alive goroutine, the client who   *)
(* may leave, the upstream.  Requests share the counters only.             *)
(*                                                                         *)
(* Which account is asked, and when the next one is, is GatewayRequest's:  *)
(* here an attempt fails and the next one may follow.  An action is one    *)
(* critical section of the stream's mutex or of the counters', or a step   *)
(* of the upstream.  The stream is open from the start, so the calls of    *)
(* startStream in the callbacks do nothing, nor does the branch for a      *)
(* stream that is not; net/http's writer can always flush.  A write to a   *)
(* client returns, with an error if he has left; the server has no write   *)
(* timeout (server.go:61-62), so that one who is there and never reads     *)
(* could hold it up, which is not modelled.                                *)
(***************************************************************************)
EXTENDS SseDecoder, SequencesExt

CONSTANTS
    Frames,         \* the upstream frames that are tried
    MaxFrames,      \* bound on the frames of all attempts
    MaxAttempts,    \* bound on the attempts: maxCompleteRetryDepth
    MaxPanics       \* bound on panics under the handler

ASSUME StreamAssumption ==
    /\ Frames \subseteq Frame
    /\ MaxFrames \in Nat /\ MaxAttempts \in Nat /\ MaxPanics \in Nat
    /\ None \notin Nat /\ None \notin Piece /\ None \notin Turn

VARIABLES
    pc,         \* where the handler is
    client,     \* "here" or "gone"
    stream,     \* body.Stream
    attempts,   \* calls of Provider.Complete
    read,       \* frames read from the upstream, in all attempts
    begun,      \* of them, those that were read before this attempt
    events,     \* events of the last frame that are not pushed yet
    acc,        \* the accumulator of this attempt
    err,        \* the error of the last attempt
    turn,       \* the turn of the attempt that succeeded
    sent,       \* the frames of the answer that were flushed
    buf,        \* those in the buffer
    comment,    \* a comment was written after all of them
    streamed,   \* streamedChars, streamedThinking, streamedToolCalls
    done,       \* the answer is complete or given up
    keepAlive,  \* the keep-alive goroutine: "none", "running", "ended"
    stats,      \* the counters of the service
    panics

vars == <<pc, client, stream, attempts, read, begun, events, acc, err, turn,
          sent, buf, comment, streamed, done, keepAlive, stats, panics>>
upstream == <<attempts, read, begun, events, acc, err, turn>>
answer   == <<sent, buf, comment, streamed, done>>
others   == <<client, keepAlive, stats, panics>>

Init ==
    /\ pc = "idle" /\ client = "here" /\ stream = FALSE
    /\ attempts = 0 /\ read = 0 /\ begun = 0
    /\ events = << >> /\ acc = EmptyAccumulator /\ err = "none" /\ turn = None
    /\ sent = << >> /\ buf = << >> /\ comment = FALSE
    /\ streamed = [text |-> 0, thinking |-> 0, tools |-> 0] /\ done = FALSE
    /\ keepAlive = "none"
    /\ stats = [active |-> 0, ok |-> 0, failed |-> 0, tokens |-> 0]
    /\ panics = 0

-----------------------------------------------------------------------------
(* The frames of the answer, and how they are written.                     *)

Said(kind, of) == [kind |-> kind, of |-> of]

(* A name that is absent is sent as "tool". *)
Called(index, tool) ==
    [kind |-> "tool", index |-> index,
     tool |-> [tool EXCEPT !.name = IF @ \in {Absent, Nil} THEN "tool" ELSE @]]

Role  == [kind |-> "role"]
Done  == [kind |-> "done"]
Error == [kind |-> "error"]
Json(status, content) == [kind |-> "json", status |-> status, content |-> content]

Flush(s) == sent' = sent \o buf \o s /\ buf' = << >>

(* WriteEvent leaves a frame in the buffer when the last flush was less    *)
(* than 5 ms ago and there is room.                                        *)
Write(s) ==
    /\ comment' = FALSE
    /\ \/ Flush(s)
       \/ buf' = buf \o s /\ UNCHANGED sent

(* The end of the answer is flushed.                                       *)
End(s) ==
    /\ Flush(s) /\ comment' = FALSE /\ done' = TRUE

-----------------------------------------------------------------------------
(* The request.                                                            *)

BadBody ==
    /\ pc = "idle"
    /\ pc' = "returned"
    /\ sent' = <<Json(400, None)>>
    /\ UNCHANGED <<stream, upstream, buf, comment, streamed, done, others>>

BeginRequest(s) ==
    /\ pc = "idle"
    /\ pc' = IF s THEN "open" ELSE "select"
    /\ stream' = s
    /\ stats' = [stats EXCEPT !.active = @ + 1]
    /\ UNCHANGED <<upstream, answer, client, keepAlive, panics>>

(* The headers and the role go out before the upstream is asked, and the   *)
(* keep-alive goroutine starts.                                            *)
Open ==
    /\ pc = "open"
    /\ pc' = "select"
    /\ Flush(<<Role>>)
    /\ keepAlive' = "running"
    /\ UNCHANGED <<stream, upstream, comment, streamed, done, client, stats, panics>>

-----------------------------------------------------------------------------
(* The attempts.                                                           *)

(* Complete sends the request and makes a new accumulator.                 *)
Attempt ==
    /\ pc = "select" /\ attempts < MaxAttempts
    /\ pc' = "call"
    /\ attempts' = attempts + 1
    /\ begun' = read /\ events' = << >> /\ acc' = EmptyAccumulator
    /\ UNCHANGED <<stream, read, err, turn, answer, others>>

(* No account is left or usable, or the refresh of its token fails.        *)
NoAttempt ==
    /\ pc = "select"
    /\ pc' = "lost"
    /\ err' = "upstream"
    /\ UNCHANGED <<stream, attempts, read, begun, events, acc, turn, answer, others>>

Accepted ==
    /\ pc = "call"
    /\ pc' = "reading"
    /\ UNCHANGED <<stream, upstream, answer, others>>

(* No connection, no header within the timeout, a status that is not 2xx.  *)
Rejected ==
    /\ pc = "call"
    /\ pc' = "failed"
    /\ err' = "upstream"
    /\ UNCHANGED <<stream, attempts, read, begun, events, acc, turn, answer, others>>

(* The body breaks off: what was read is discarded.                        *)
BreakOff ==
    /\ pc = "reading" /\ events = << >>
    /\ pc' = "failed"
    /\ err' = "upstream"
    /\ UNCHANGED <<stream, attempts, read, begun, events, acc, turn, answer, others>>

(* The context of the request is canceled when its client goes.            *)
Canceled ==
    /\ client = "gone"
    /\ \/ pc = "call"
       \/ pc = "reading" /\ events = << >>
    /\ pc' = "lost"
    /\ err' = "canceled"
    /\ UNCHANGED <<stream, attempts, read, begun, events, acc, turn, answer, others>>

ReadFrame(f) ==
    /\ pc = "reading" /\ events = << >> /\ read < MaxFrames
    /\ read' = read + 1
    /\ events' = Events(f, read + 1)
    /\ UNCHANGED <<pc, stream, attempts, begun, acc, err, turn, answer, others>>

(* An event is pushed onto the accumulator; then its callback, which only  *)
(* a streamed answer has, counts and writes it.                            *)
PushHead ==
    /\ pc = "reading" /\ events # << >>
    /\ acc' = Push(acc, Head(events))
    /\ events' = Tail(events)
    /\ UNCHANGED <<pc, stream, attempts, read, begun, err, turn, done, others>>

PushSilent ==
    /\ PushHead
    /\ \/ ~stream
       \/ done
       \/ Head(events).type \in {"usage", "upstream_error", "tool_call_delta"}
    /\ UNCHANGED <<sent, buf, comment, streamed>>

Kind(e) == IF e.type = "text_delta" THEN "text" ELSE "thinking"

(* Faulty variant: the delta is written but not counted.                   *)
PushDeltaUncounted ==
    /\ PushHead
    /\ stream /\ ~done /\ Head(events).type \in {"text_delta", "thinking_delta"}
    /\ Write(<<Said(Kind(Head(events)), <<Head(events).frame>>)>>)
    /\ UNCHANGED streamed

(* OnDelta, OnThinkingDelta.                                               *)
PushDelta ==
    /\ PushHead
    /\ stream /\ ~done /\ Head(events).type \in {"text_delta", "thinking_delta"}
    /\ streamed' = [streamed EXCEPT ![Kind(Head(events))] = @ + 1]
    /\ Write(<<Said(Kind(Head(events)), <<Head(events).frame>>)>>)

(* OnEvent.                                                                *)
PushToolUse ==
    /\ PushHead
    /\ stream /\ ~done /\ Head(events).type = "tool_use"
    /\ streamed' = [streamed EXCEPT !.tools = @ + 1]
    /\ Write(<<Called(streamed.tools,
                      [id |-> Head(events).id, name |-> Head(events).name,
                       args |-> <<Head(events).frame>>])>>)

(* The end of the body: an error that the upstream streamed fails the      *)
(* attempt, otherwise its turn is the result.                              *)
EndOfBody ==
    /\ pc = "reading" /\ events = << >>
    /\ \/ /\ acc.error = "none"
          /\ pc' = "won"
          /\ \E o \in Orders(Started(acc)) : turn' = Snapshot(acc, o)
          /\ UNCHANGED err
       \/ /\ acc.error # "none"
          /\ pc' = "failed"
          /\ err' = acc.error
          /\ UNCHANGED turn
    /\ UNCHANGED <<stream, attempts, read, begun, events, acc, answer, others>>

(* CompleteFromPool asks again, of the next account or with a new token,   *)
(* but not for an error whose text says that the context was canceled.     *)
Again ==
    /\ pc = "failed" /\ err # "canceled"
    /\ pc' = "select"
    /\ UNCHANGED <<stream, upstream, answer, others>>

GiveUp ==
    /\ pc = "failed"
    /\ pc' = "lost"
    /\ UNCHANGED <<stream, upstream, answer, others>>

-----------------------------------------------------------------------------
(* The end of the request.                                                 *)

Counted(ok, failed, tokens) ==
    stats' = [active |-> stats.active - 1, ok |-> stats.ok + ok,
              failed |-> stats.failed + failed, tokens |-> stats.tokens + tokens]

(* Faulty variant: a client that has left counts as a failure.             *)
FinishBlaming ==
    /\ pc \in {"won", "lost"}
    /\ pc' = IF pc = "won" THEN "answer" ELSE "giveUp"
    /\ IF pc = "won" THEN Counted(1, 0, 1) ELSE Counted(0, 1, 0)
    /\ UNCHANGED <<stream, upstream, answer, client, keepAlive, panics>>

(* finish: an error by which the client has left is none.                  *)
Finish ==
    /\ pc \in {"won", "lost"}
    /\ pc' = IF pc = "won" THEN "answer" ELSE "giveUp"
    /\ CASE pc = "won"                       -> Counted(1, 0, 1)
         [] pc = "lost" /\ err = "canceled"  -> Counted(1, 0, 0)
         [] pc = "lost" /\ err # "canceled"  -> Counted(0, 1, 0)
    /\ UNCHANGED <<stream, upstream, answer, client, keepAlive, panics>>

(* What no callback has streamed is sent now.                              *)
Unstreamed ==
    (IF streamed.text = 0 /\ turn.text # << >>
        THEN <<Said("text", turn.text)>> ELSE << >>)
    \o (IF streamed.thinking = 0 /\ turn.thinking # << >>
           THEN <<Said("thinking", turn.thinking)>> ELSE << >>)
    \o (IF streamed.tools = 0
           THEN [k \in 1..Len(turn.tools) |-> Called(k - 1, turn.tools[k])] ELSE << >>)

Closing ==
    <<[kind |-> "finish", reason |-> IF turn.tools # << >> THEN "tool_calls" ELSE "stop"],
      [kind |-> "usage", usage |-> turn.usage], Done>>

Answer ==
    /\ pc = "answer"
    /\ pc' = "closing"
    /\ IF stream THEN End(Unstreamed \o Closing)
       ELSE sent' = <<Json(200, turn)>> /\ UNCHANGED <<buf, comment, done>>
    /\ UNCHANGED <<stream, upstream, streamed, others>>

(* A client that has left is told nothing.                                 *)
Tell ==
    /\ pc = "giveUp"
    /\ pc' = "closing"
    /\ CASE err = "canceled" -> done' = stream /\ UNCHANGED <<sent, buf, comment>>
         [] err # "canceled" /\ stream  -> End(<<Error, Done>>)
         [] err # "canceled" /\ ~stream ->
                sent' = <<Json(502, None)>> /\ UNCHANGED <<buf, comment, done>>
    /\ UNCHANGED <<stream, upstream, streamed, others>>

(* The deferred close(keepAliveStop) and cancel.                           *)
Close ==
    /\ pc = "closing"
    /\ pc' = "returned"
    /\ UNCHANGED <<stream, upstream, answer, others>>

(* The decoder or a callback panics: the deferred calls are made, and      *)
(* recoverHandler writes an error, past the buffer of the stream.          *)
Panic ==
    /\ pc = "reading" /\ panics < MaxPanics
    /\ pc' = "panicked"
    /\ panics' = panics + 1
    /\ UNCHANGED <<stream, upstream, answer, client, keepAlive, stats>>

Recover ==
    /\ pc = "panicked"
    /\ pc' = "returned"
    /\ sent' = Append(sent, Json(500, None))
    /\ UNCHANGED <<stream, upstream, buf, comment, streamed, done, others>>

-----------------------------------------------------------------------------
(* The keep-alive goroutine and the client.                                *)

(* Faulty variants: a comment whatever the answer's state; one that does   *)
(* not flush.                                                              *)
TickAnyway ==
    /\ keepAlive = "running"
    /\ Flush(<< >>) /\ comment' = TRUE
    /\ UNCHANGED <<pc, stream, upstream, streamed, done, others>>

TickUnflushed ==
    /\ keepAlive = "running"
    /\ IF done THEN UNCHANGED comment ELSE comment' = TRUE
    /\ UNCHANGED <<pc, stream, upstream, sent, buf, streamed, done, others>>

(* The ticker may be chosen although the handler has closed the stop       *)
(* channel.                                                                *)
Tick ==
    /\ keepAlive = "running"
    /\ IF done THEN UNCHANGED <<sent, buf, comment>>
       ELSE Flush(<< >>) /\ comment' = TRUE
    /\ UNCHANGED <<pc, stream, upstream, streamed, done, others>>

(* Faulty variant: only the client's leaving ends the goroutine.           *)
StopKeepAliveUnasked ==
    /\ keepAlive = "running"
    /\ client = "gone"
    /\ keepAlive' = "ended"
    /\ UNCHANGED <<pc, stream, upstream, answer, client, stats, panics>>

(* keepAliveStop is closed or the context canceled.                        *)
StopKeepAlive ==
    /\ keepAlive = "running"
    /\ \/ pc \in {"panicked", "returned"}
       \/ client = "gone"
    /\ keepAlive' = "ended"
    /\ UNCHANGED <<pc, stream, upstream, answer, client, stats, panics>>

Leave ==
    /\ client = "here" /\ pc \notin {"idle", "returned"}
    /\ client' = "gone"
    /\ UNCHANGED <<pc, stream, upstream, answer, keepAlive, stats, panics>>

(* What the handler does without the upstream.                             *)
Handle ==
    \/ Open \/ Attempt \/ NoAttempt \/ Canceled
    \/ PushSilent \/ PushDelta \/ PushToolUse
    \/ Again \/ GiveUp \/ Finish \/ Answer \/ Tell \/ Close \/ Recover

Next ==
    \/ BadBody \/ \E s \in BOOLEAN : BeginRequest(s)
    \/ Handle
    \/ Accepted \/ Rejected \/ BreakOff \/ EndOfBody \/ \E f \in Frames : ReadFrame(f)
    \/ Panic
    \/ Tick \/ StopKeepAlive \/ Leave

Spec == Init /\ [][Next]_vars

(* The goroutines are scheduled and the ticker ticks; the upstream may     *)
(* say nothing for ever, once it has answered with its headers.            *)
FairSpec ==
    Spec /\ WF_vars(Handle) /\ WF_vars(Tick) /\ WF_vars(StopKeepAlive)
         /\ WF_vars(Accepted \/ Rejected)
-----------------------------------------------------------------------------
Pcs == {"idle", "open", "select", "call", "reading", "failed", "won", "lost",
        "answer", "giveUp", "closing", "panicked", "returned"}

Payload ==
    [kind : {"text", "thinking"}, of : Seq(Nat)]
        \cup [kind : {"tool"}, index : Nat,
              tool : [id : Labels \cup {Generated}, name : Labels \cup {"tool"},
                      args : Seq(Nat)]]

AnswerFrames ==
    Payload \cup {Role, Done, Error}
        \cup [kind : {"finish"}, reason : {"stop", "tool_calls"}]
        \cup [kind : {"usage"}, usage : Nat \cup {None}]
        \cup [kind : {"json"}, status : {200, 400, 500, 502},
              content : Turn \cup {None}]

TypeOK ==
    /\ pc \in Pcs /\ client \in {"here", "gone"} /\ stream \in BOOLEAN
    /\ attempts \in 0..MaxAttempts /\ read \in 0..MaxFrames /\ begun \in 0..read
    /\ events \in Seq(Event) /\ acc \in Accumulator
    /\ err \in {"none", "upstream", "canceled"}
    /\ turn \in Turn \cup {None}
    /\ sent \in Seq(AnswerFrames) /\ buf \in Seq(AnswerFrames)
    /\ comment \in BOOLEAN /\ done \in BOOLEAN
    /\ streamed \in [text : Nat, thinking : Nat, tools : Nat]
    /\ keepAlive \in {"none", "running", "ended"}
    /\ stats \in [active : Nat, ok : Nat, failed : Nat, tokens : Nat]
    /\ panics \in 0..MaxPanics

Counts(active, ok, failed, tokens) ==
    stats = [active |-> active, ok |-> ok, failed |-> failed, tokens |-> tokens]

ControlInv ==
    /\ pc = "idle" => ~stream /\ Counts(0, 0, 0, 0)
    /\ pc \in {"open", "select", "call", "reading", "failed", "won", "lost", "panicked"} =>
           Counts(1, 0, 0, 0)
    /\ pc = "answer" => Counts(0, 1, 0, 1)
    /\ pc = "giveUp" =>
           IF err = "canceled" THEN Counts(0, 1, 0, 0) ELSE Counts(0, 0, 1, 0)
    /\ pc \in {"won", "answer"} => turn # None
    /\ pc \in {"lost", "failed", "giveUp"} => err # "none"
    /\ pc \notin {"panicked", "returned"} => panics = 0
    /\ pc = "panicked" => panics = 1
    /\ pc = "returned" => panics = 0 \/ (panics = 1 /\ Counts(1, 0, 0, 0))

(* The answer is done when the handler has ended it, and until then it is  *)
(* the role and content.                                                   *)
Plain(s) == \A k \in 1..Len(s) : s[k].kind \in {"role", "text", "thinking", "tool"}

Over == pc \in {"closing", "returned"}

AnswerInv ==
    /\ keepAlive # "none" => stream /\ pc # "open"
    /\ done <=> stream /\ Over /\ panics = 0
    /\ (pc = "idle" => ~stream) /\ (pc = "open" => stream)
    /\ ~stream \/ pc = "open" => comment = FALSE /\ buf = << >>
    /\ (~stream /\ ~Over) \/ pc = "open" => sent = << >>
    /\ ~Over => Plain(sent) /\ Plain(buf)
    /\ Over /\ panics # 0 =>
           /\ \A k \in 1..Len(sent) : sent[k].kind # "done"
           /\ Plain(buf)

(* How a request that did not panic has ended. *)
OutcomeInv ==
    Over /\ panics = 0 =>
        \/ Counts(0, 0, 0, 0) /\ sent = <<Json(400, None)>>
        \/ /\ Counts(0, 1, 0, 1)
           /\ ToSet(sent) \cap {Error, Json(502, None)} = {}
           /\ ToSet(sent) \cap {Done, Json(200, turn)} # {}
        \/ Counts(0, 1, 0, 0) /\ err = "canceled" /\ Plain(sent)
        \/ Counts(0, 0, 1, 0) /\ ToSet(sent) \cap {Error, Json(502, None)} # {}

(* What frames of the answer say of a kind, in their order: the texts, or  *)
(* the frames of tool calls themselves.                                    *)
Part(kind, f) ==
    IF f.kind # kind THEN << >> ELSE IF kind = "tool" THEN <<f>> ELSE f.of

Parts(kind, s) == FlattenSeq([k \in 1..Len(s) |-> Part(kind, s[k])])

Contents(kind) == Parts(kind, sent)

(* Of a stream, whether it was flushed or not.                             *)
Written == IF stream THEN sent \o buf ELSE << >>

Completed == Over /\ stream /\ turn # None /\ panics = 0

(* No attempt but the last one has streamed content of this kind.          *)
OfLastAttempt(kind) ==
    \A k \in 1..Len(sent) :
        sent[k].kind = kind =>
            \A j \in 1..Len(IF kind = "tool" THEN sent[k].tool.args ELSE sent[k].of) :
                (IF kind = "tool" THEN sent[k].tool.args ELSE sent[k].of)[j] > begun

(* The upstream has not sent tool calls both whole and in pieces.          *)
NotMixed == acc.tools = << >> \/ Started(acc) = {}

(***************************************************************************)
(* A stream that is completed said what the turn says, each text once and  *)
(* in order, each tool call once and under its own index, be it streamed   *)
(* or sent at the end; and the reason to finish is the tool calls exactly  *)
(* when there are some.  Where an earlier attempt has streamed before it   *)
(* failed, or the upstream mixed the two forms of tool calls, it does not. *)
(***************************************************************************)
AnswerIsTurn ==
    Completed =>
        /\ \A kind \in {"text", "thinking"} :
               OfLastAttempt(kind) => Contents(kind) = turn[kind]
        /\ OfLastAttempt("tool") /\ NotMixed =>
               Contents("tool") = [k \in 1..Len(turn.tools) |-> Called(k - 1, turn.tools[k])]
        /\ OfLastAttempt("tool") =>
               (Contents("tool") # << >>
                   <=> [kind |-> "finish", reason |-> "tool_calls"] \in ToSet(sent))

(* The events that wait come from the last frame; what the accumulator     *)
(* holds from this attempt; and the turn is what it held at the end.       *)
AttemptInv ==
    /\ pc = "idle" => acc = EmptyAccumulator /\ streamed.tools = 0
    /\ events # << >> => begun < read /\ pc \in {"reading", "panicked", "returned"}
    /\ \A k \in 1..Len(events) :
           events[k].type \in {"text_delta", "thinking_delta", "tool_use"} =>
               events[k].frame = read
    /\ \A kind \in {"text", "thinking"} :
           \A j \in 1..Len(acc[kind]) : acc[kind][j] \in begun + 1 .. read
    /\ \A j \in 1..Len(acc.tools) : \E n \in begun + 1 .. read : acc.tools[j].args = <<n>>
    /\ turn # None => pc \in {"won", "answer", "closing", "returned"}
    /\ pc \in {"won", "answer"} => \E o \in Orders(Started(acc)) : turn = Snapshot(acc, o)

(* What was said of a kind goes on with what the accumulator holds; before *)
(* that is what earlier attempts, up to frame b, have left.  Tool calls    *)
(* are numbered through.                                                   *)
Continues(said, held, b) ==
    \E early \in 0..Len(said) :
        /\ Len(said) = early + Len(held)
        /\ \A j \in 1..early : said[j] <= b
        /\ \A j \in 1..Len(held) : said[early + j] = held[j]

CallsContinue(said, held, b) ==
    \E early \in 0..Len(said) :
        /\ Len(said) = early + Len(held)
        /\ \A j \in 1..early : \E n \in 0..b : said[j].tool.args = <<n>>
        /\ \A j \in 1..Len(held) : said[early + j] = Called(early + j - 1, held[j])

WrittenInv ==
    /\ \A kind \in {"text", "thinking"} :
           /\ Continues(Parts(kind, Written), acc[kind], begun)
           /\ streamed[kind] = 0 => Parts(kind, Written) = << >>
    /\ CallsContinue(Parts("tool", Written), acc.tools, begun)
    /\ streamed.tools = Len(Parts("tool", Written))

SaidInv == AttemptInv /\ (stream /\ ~Over => WrittenInv) /\ AnswerIsTurn

(* What is counted, written and given up fits where the handler is.        *)
EndInv == TypeOK /\ ControlInv /\ AnswerInv /\ OutcomeInv

(* The inductive invariant.                                                *)
StreamInv == EndInv /\ SaidInv

(***************************************************************************)
(* The stream as its client is promised it: StreamProtocol, of what was    *)
(* written.                                                                *)
(***************************************************************************)
Phase ==
    IF ~stream \/ pc = "open" THEN "new"
    ELSE IF panics > 0 THEN "broken"
    ELSE IF done THEN "ended" ELSE "open"

Protocol ==
    INSTANCE StreamProtocol WITH phase <- Phase, frames <- Written

(* A streamed answer follows the protocol of docs/api/http.md:133-139 and  *)
(* :161: the keep-alive goroutine, the callbacks and the end of the        *)
(* handler write in an order that the client can make sense of.            *)
FollowsProtocol == Protocol!Spec

(***************************************************************************)
(* A request is counted once, as what its client has seen: as failed when  *)
(* and only when the client was told an error; a stream has no [DONE] only *)
(* when the context was canceled, or an error of the upstream reads like   *)
(* it.  A panic leaves the request counted as active for ever.             *)
(***************************************************************************)
CountedAsSeen ==
    /\ pc = "returned" => stats.active = panics
    /\ pc = "returned" /\ panics = 0 =>
           /\ stats.failed = 1 <=> ToSet(sent) \cap {Error, Json(502, None)} # {}
           /\ stats.ok = 1 =>
                  \/ stats.tokens = 1 /\ ToSet(sent) \cap {Done, Json(200, turn)} # {}
                  \/ stats.tokens = 0 /\ err = "canceled" /\ Done \notin ToSet(sent)
           /\ stats.ok + stats.failed = 1 \/ sent = <<Json(400, None)>>

(***************************************************************************)
(* The only thing that a request waits for is the upstream, and only while *)
(* its client is there; when it has returned, its keep-alive goroutine     *)
(* ends.                                                                   *)
(***************************************************************************)
StreamEnds ==
    []<>(\/ pc = "idle"
         \/ pc = "returned" /\ keepAlive # "running"
         \/ pc = "reading" /\ client = "here" /\ events = << >>)

(* A delta that was left in the buffer reaches the client, although the    *)
(* upstream may say nothing more: at the latest with the next keep-alive.  *)
(* It is lost when the client is taken to have left.                       *)
ContentArrives ==
    []<>(buf = << >> \/ client = "gone" \/ err = "canceled" \/ panics > 0)
=============================================================================
