-------------------------- MODULE ChatStreamProofs --------------------------
(***************************************************************************)
(* Proofs about ChatStream: types, that a request is counted once and as   *)
(* what its client has seen, and that a stream follows StreamProtocol.     *)
(***************************************************************************)
EXTENDS ChatStream, SequenceTheorems, FiniteSetTheorems, TLAPS

-----------------------------------------------------------------------------
(* The decoder: what it makes of a frame are events, and what it makes of  *)
(* events is an accumulator.                                               *)

LEMMA EmptyTypes ==
    /\ EmptyAccumulator \in Accumulator
    /\ NewPiece \in Piece
<1>1. \A T : << >> \in Seq(T)
  OBVIOUS
<1> QED
  BY <1>1 DEF EmptyAccumulator, Accumulator, NewPiece, Piece, Label

LEMMA DeltaTypes ==
    ASSUME NEW n \in Nat, NEW t \in {"text_delta", "thinking_delta", "usage"},
           NEW given \in BOOLEAN
    PROVE  When(given, Delta(t, n)) \in Seq(Event)
<1>1. Delta(t, n) \in Event
  BY DEF Delta, Event
<1> HIDE DEF Event
<1>2. <<Delta(t, n)>> \in Seq(Event) /\ << >> \in Seq(Event)
  BY <1>1
<1> QED
  BY <1>2 DEF When

LEMMA FragmentTypes ==
    ASSUME NEW n \in Nat, NEW form, NEW c \in Call
    PROVE  Fragment(form, c, n) \in Event
<1>1. c.index \in Indices /\ c.id \in Label /\ c.name \in Label /\ c.args \in BOOLEAN
  BY DEF Call
<1>2. \A l \in Label : Field(form, l) \in Label \cup {Nil}
  BY DEF Field
<1>3. /\ Field(form, c.id) \in Label \cup {Nil}
      /\ Field(form, c.name) \in Label \cup {Nil}
  BY <1>1, <1>2
<1> DEFINE Deltas ==
      [type : {"tool_call_delta"}, frame : Nat, index : Indices,
       id : Label \cup {Nil}, name : Label \cup {Nil}, args : BOOLEAN,
       input : BOOLEAN]
<1>4. Fragment(form, c, n) \in Deltas
  BY <1>1, <1>3 DEF Fragment
<1>5. Deltas \subseteq Event
  BY DEF Event
<1> QED
  BY <1>4, <1>5

LEMMA EventsTypes ==
    ASSUME NEW f \in Frame, NEW n \in Nat
    PROVE  Events(f, n) \in Seq(Event)
<1>1. CASE f \in Chunk
  <2>1. f.form \in {"chunk", "loose"} /\ f.calls \in Seq(Call)
    BY <1>1 DEF Chunk
  <2> DEFINE calls == [k \in 1..Len(f.calls) |-> Fragment(f.form, f.calls[k], n)]
  <2>2. calls \in Seq(Event)
    BY <2>1, FragmentTypes
  <2>3. /\ When(f.usage = "given", Delta("usage", n)) \in Seq(Event)
        /\ When(f.text = "given", Delta("text_delta", n)) \in Seq(Event)
        /\ When(f.thinking = "given", Delta("thinking_delta", n)) \in Seq(Event)
    BY DeltaTypes
  <2> HIDE DEF calls
  <2>4. ChunkEvents(f, n) = When(f.usage = "given", Delta("usage", n))
            \o When(f.text = "given", Delta("text_delta", n))
            \o When(f.thinking = "given", Delta("thinking_delta", n)) \o calls
    BY DEF ChunkEvents, calls
  <2>5. ChunkEvents(f, n) \in Seq(Event)
    BY <2>2, <2>3, <2>4, ConcatProperties
  <2> QED
    BY <2>1, <2>5 DEF Events
<1>2. CASE f \in Update
  <2>1. f.form = "update"
    BY <1>2 DEF Update
  <2>2. UpdateEvents(f, n) \in Seq(Event)
    <3>1. ASSUME NEW e \in Event PROVE <<e>> \in Seq(Event)
      OBVIOUS
    <3>2. << >> \in Seq(Event)
      OBVIOUS
    <3>3. UpdateEvents(f, n) # << >> => \E e \in Event : UpdateEvents(f, n) = <<e>>
      BY <1>2 DEF UpdateEvents, Update, Delta, Event, Label
    <3> QED
      BY <3>1, <3>2, <3>3
  <2> QED
    BY <2>1, <2>2 DEF Events
<1>3. CASE f \in [form : {"junk"}]
  BY <1>3 DEF Events
<1> QED
  BY <1>1, <1>2, <1>3 DEF Frame

LEMMA MergedTypes ==
    ASSUME NEW p \in Piece, NEW e \in Event, e.type = "tool_call_delta"
    PROVE  Merged(p, e) \in Piece
<1>1. /\ e.frame \in Nat /\ e.id \in Label \cup {Nil} /\ e.name \in Label \cup {Nil}
      /\ e.args \in BOOLEAN /\ e.input \in BOOLEAN
  BY DEF Event
<1>2. p.args \in Seq(Nat) /\ p.input \in Seq(Nat) /\ p.id \in Label \cup {Nil}
      /\ p.name \in Label \cup {Nil}
  BY DEF Piece
<1>3. Append(p.args, e.frame) \in Seq(Nat) /\ <<e.frame>> \in Seq(Nat)
  BY <1>1, <1>2
<1> QED
  BY <1>1, <1>2, <1>3 DEF Merged, Piece

LEMMA PushTypes ==
    ASSUME NEW a \in Accumulator, NEW e \in Event
    PROVE  Push(a, e) \in Accumulator
<1>1. CASE e.type = "text_delta"
  <2>1. Append(a.text, e.frame) \in Seq(Nat)
    BY <1>1 DEF Event, Accumulator
  <2> QED
    BY <1>1, <2>1 DEF Push, Accumulator
<1>2. CASE e.type = "thinking_delta"
  <2>1. Append(a.thinking, e.frame) \in Seq(Nat)
    BY <1>2 DEF Event, Accumulator
  <2> QED
    BY <1>2, <2>1 DEF Push, Accumulator
<1>3. CASE e.type = "usage"
  BY <1>3 DEF Push, Accumulator, Event
<1>4. CASE e.type = "upstream_error"
  BY <1>4 DEF Push, Accumulator, Event
<1>5. CASE e.type = "tool_use"
  <2> DEFINE tool == [id |-> e.id, name |-> e.name, args |-> <<e.frame>>]
  <2>1. tool \in Tool
    BY <1>5 DEF Event, Tool
  <2>2. Append(a.tools, tool) \in Seq(Tool)
    BY <2>1 DEF Accumulator
  <2> QED
    BY <1>5, <2>2 DEF Push, Accumulator
<1>6. CASE e.type = "tool_call_delta"
  <2>1. e.index \in Indices
    BY <1>6 DEF Event
  <2> DEFINE p == IF a.pieces[e.index] = None THEN NewPiece ELSE a.pieces[e.index]
  <2>2. p \in Piece
    BY <2>1, EmptyTypes DEF Accumulator
  <2>3. Merged(p, e) \in Piece
    BY <1>6, <2>2, MergedTypes
  <2>4. Push(a, e) = [a EXCEPT !.pieces = [a.pieces EXCEPT ![e.index] = Merged(p, e)]]
    BY <1>6, Zenon DEF Push
  <2> HIDE DEF p
  <2>5. [a.pieces EXCEPT ![e.index] = Merged(p, e)] \in [Indices -> Piece \cup {None}]
    BY <2>1, <2>3 DEF Accumulator
  <2> QED
    BY <2>4, <2>5 DEF Accumulator
<1> QED
  BY <1>1, <1>2, <1>3, <1>4, <1>5, <1>6 DEF Event

LEMMA OrderTypes ==
    ASSUME NEW a \in Accumulator, NEW o \in Orders(Started(a))
    PROVE  /\ DOMAIN o = 1..Cardinality(Started(a)) /\ Cardinality(Started(a)) \in Nat
           /\ \A k \in DOMAIN o : a.pieces[o[k]] \in Piece
<1>1. Started(a) \in SUBSET Indices /\ IsFiniteSet(Started(a))
  BY LabelsAssumption, FS_Subset DEF Started
<1>2. Cardinality(Started(a)) \in Nat
  BY <1>1, FS_CardinalityType
<1>3. o \in [1..Cardinality(Started(a)) -> Started(a)]
  BY DEF Orders
<1>4. ASSUME NEW k \in DOMAIN o PROVE a.pieces[o[k]] \in Piece
  <2>1. o[k] \in Indices /\ a.pieces[o[k]] # None
    BY <1>3 DEF Started
  <2> QED
    BY <2>1 DEF Accumulator
<1> QED
  BY <1>2, <1>3, <1>4

LEMMA SnapshotTypes ==
    ASSUME NEW a \in Accumulator, NEW o \in Orders(Started(a))
    PROVE  Snapshot(a, o) \in Turn
<1>1. ASSUME NEW p \in Piece PROVE Assembled(p) \in Tool
  <2>1. /\ p.id \in Labels \cup {Absent, Nil} /\ p.name \in Label \cup {Nil}
        /\ p.args \in Seq(Nat) /\ p.input \in Seq(Nat)
    BY DEF Piece, Label
  <2> QED
    BY <2>1 DEF Assembled, Tool
<1> DEFINE pieces == [k \in DOMAIN o |-> Assembled(a.pieces[o[k]])]
<1>2. \A k \in DOMAIN o : Assembled(a.pieces[o[k]]) \in Tool
  BY <1>1, OrderTypes
<1>3. pieces \in Seq(Tool)
  BY <1>2, OrderTypes
<1>4. a.tools \in Seq(Tool)
  BY DEF Accumulator
<1> HIDE DEF pieces
<1>5. a.tools \o pieces \in Seq(Tool)
  BY <1>3, <1>4, ConcatProperties
<1>6. Snapshot(a, o).tools = a.tools \o pieces
  BY DEF Snapshot, pieces
<1> QED
  BY <1>5, <1>6 DEF Snapshot, Turn, Accumulator

-----------------------------------------------------------------------------
(* The frames of an answer.                                                *)

LEMMA CalledTypes ==
    ASSUME NEW i \in Nat, NEW t \in Tool
    PROVE  Called(i, t) \in Payload
<1>1. t.name \in Labels \cup {Absent, Nil} /\ t.id \in Labels \cup {Generated}
      /\ t.args \in Seq(Nat)
  BY DEF Tool, Label
<1> DEFINE name == IF t.name \in {Absent, Nil} THEN "tool" ELSE t.name
<1>2. name \in Labels \cup {"tool"}
  BY <1>1
<1>3. [t EXCEPT !.name = name] = [id |-> t.id, name |-> name, args |-> t.args]
  BY DEF Tool
<1>4. Called(i, t) = [kind |-> "tool", index |-> i, tool |-> [t EXCEPT !.name = name]]
  BY DEF Called
<1> HIDE DEF name
<1>5. [t EXCEPT !.name = name]
         \in [id : Labels \cup {Generated}, name : Labels \cup {"tool"}, args : Seq(Nat)]
  BY <1>1, <1>2, <1>3
<1> QED
  BY <1>4, <1>5 DEF Payload

LEMMA SaidTypes ==
    ASSUME NEW k \in {"text", "thinking"}, NEW of \in Seq(Nat)
    PROVE  Said(k, of) \in Payload
BY DEF Said, Payload

LEMMA UnstreamedTypes ==
    ASSUME NEW t \in Turn, turn = t
    PROVE  Unstreamed \in Seq(Payload)
<1>1. t.text \in Seq(Nat) /\ t.thinking \in Seq(Nat) /\ t.tools \in Seq(Tool)
  BY DEF Turn
<1> DEFINE texts == IF streamed.text = 0 /\ turn.text # << >>
                       THEN <<Said("text", turn.text)>> ELSE << >>
           thoughts == IF streamed.thinking = 0 /\ turn.thinking # << >>
                          THEN <<Said("thinking", turn.thinking)>> ELSE << >>
           calls == [k \in 1..Len(turn.tools) |-> Called(k - 1, turn.tools[k])]
           tools == IF streamed.tools = 0 THEN calls ELSE << >>
<1>2. \A p \in Payload : <<p>> \in Seq(Payload)
  OBVIOUS
<1>3. << >> \in Seq(Payload)
  OBVIOUS
<1>4. texts \in Seq(Payload)
  BY <1>1, <1>2, <1>3, SaidTypes
<1>5. thoughts \in Seq(Payload)
  BY <1>1, <1>2, <1>3, SaidTypes
<1>6. ASSUME NEW k \in 1..Len(turn.tools)
      PROVE  Called(k - 1, turn.tools[k]) \in Payload
  <2>1. k - 1 \in Nat /\ turn.tools[k] \in Tool
    BY <1>1
  <2> QED
    BY <2>1, CalledTypes
<1>7. Len(turn.tools) \in Nat
  BY <1>1
<1>8. calls \in Seq(Payload)
  BY <1>6, <1>7
<1>9. tools \in Seq(Payload)
  BY <1>3, <1>8
<1>10. Unstreamed = (texts \o thoughts) \o tools
  BY DEF Unstreamed
<1> HIDE DEF texts, thoughts, calls, tools
<1> QED
  BY <1>4, <1>5, <1>9, <1>10, ConcatProperties

LEMMA FrameTypes ==
    /\ Payload \subseteq AnswerFrames
    /\ Role \in AnswerFrames /\ Done \in AnswerFrames /\ Error \in AnswerFrames
    /\ Json(400, None) \in AnswerFrames /\ Json(500, None) \in AnswerFrames
    /\ Json(502, None) \in AnswerFrames
    /\ \A t \in Turn : Json(200, t) \in AnswerFrames
<1>1. Payload \subseteq AnswerFrames /\ {Role, Done, Error} \subseteq AnswerFrames
  BY DEF AnswerFrames
<1>2. \A s \in {200, 400, 500, 502}, c \in Turn \cup {None} :
         Json(s, c) \in [kind : {"json"}, status : {200, 400, 500, 502},
                         content : Turn \cup {None}]
  BY DEF Json
<1>3. \A s \in {200, 400, 500, 502}, c \in Turn \cup {None} : Json(s, c) \in AnswerFrames
  BY <1>2 DEF AnswerFrames
<1> QED
  BY <1>1, <1>3

LEMMA ClosingTypes ==
    ASSUME NEW t \in Turn, turn = t
    PROVE  Closing \in Seq(AnswerFrames)
<1> DEFINE f == [kind |-> "finish",
                 reason |-> IF turn.tools # << >> THEN "tool_calls" ELSE "stop"]
           u == [kind |-> "usage", usage |-> turn.usage]
<1>1. f \in [kind : {"finish"}, reason : {"stop", "tool_calls"}]
  OBVIOUS
<1>2. u \in [kind : {"usage"}, usage : Nat \cup {None}]
  BY DEF Turn
<1>3. f \in AnswerFrames /\ u \in AnswerFrames /\ Done \in AnswerFrames
  BY <1>1, <1>2, FrameTypes DEF AnswerFrames
<1>4. Closing = <<f, u, Done>>
  BY DEF Closing
<1> HIDE DEF f, u
<1> QED
  BY <1>3, <1>4

-----------------------------------------------------------------------------
(* Types of the variables, in three parts.                                 *)

ControlTypes ==
    /\ pc \in Pcs /\ client \in {"here", "gone"} /\ stream \in BOOLEAN
    /\ keepAlive \in {"none", "running", "ended"}
    /\ stats \in [active : Nat, ok : Nat, failed : Nat, tokens : Nat]
    /\ panics \in 0..MaxPanics

UpstreamTypes ==
    /\ attempts \in 0..MaxAttempts /\ read \in 0..MaxFrames /\ begun \in 0..read
    /\ events \in Seq(Event) /\ acc \in Accumulator
    /\ err \in {"none", "upstream", "canceled"}
    /\ turn \in Turn \cup {None}

AnswerTypes ==
    /\ sent \in Seq(AnswerFrames) /\ buf \in Seq(AnswerFrames)
    /\ comment \in BOOLEAN /\ done \in BOOLEAN
    /\ streamed \in [text : Nat, thinking : Nat, tools : Nat]

LEMMA TypeParts == TypeOK <=> ControlTypes /\ UpstreamTypes /\ AnswerTypes
BY DEF TypeOK, ControlTypes, UpstreamTypes, AnswerTypes

LEMMA FlushTypes ==
    ASSUME AnswerTypes, NEW s \in Seq(AnswerFrames), Flush(s)
    PROVE  sent' \in Seq(AnswerFrames) /\ buf' \in Seq(AnswerFrames)
<1>1. sent' = (sent \o buf) \o s /\ buf' = << >>
  BY DEF Flush
<1>2. (sent \o buf) \o s \in Seq(AnswerFrames)
  BY ConcatProperties DEF AnswerTypes
<1> QED
  BY <1>1, <1>2, EmptySeq

LEMMA WriteTypes ==
    ASSUME AnswerTypes, NEW s \in Seq(AnswerFrames), Write(s)
    PROVE  sent' \in Seq(AnswerFrames) /\ buf' \in Seq(AnswerFrames) /\ comment' = FALSE
<1>1. CASE Flush(s)
  BY <1>1, FlushTypes DEF Write
<1>2. CASE buf' = buf \o s /\ UNCHANGED sent
  BY <1>2, ConcatProperties DEF Write, AnswerTypes
<1> QED
  BY <1>1, <1>2 DEF Write

LEMMA OneFrame == \A f \in AnswerFrames : <<f>> \in Seq(AnswerFrames)
OBVIOUS

LEMMA TypeInit == Init => TypeOK
<1> SUFFICES ASSUME Init PROVE TypeOK
  OBVIOUS
<1>1. ControlTypes
  <2>1. pc \in Pcs /\ panics \in 0..MaxPanics
    BY StreamAssumption DEF Init, Pcs
  <2>2. stats \in [active : Nat, ok : Nat, failed : Nat, tokens : Nat]
    BY DEF Init
  <2> QED
    BY <2>1, <2>2 DEF Init, ControlTypes
<1>2. UpstreamTypes
  BY StreamAssumption, EmptyTypes, EmptySeq DEF Init, UpstreamTypes
<1>3. AnswerTypes
  BY EmptySeq DEF Init, AnswerTypes
<1> QED
  BY <1>1, <1>2, <1>3, TypeParts

LEMMA ControlTypesStep == TypeOK /\ ControlInv /\ Next => ControlTypes'
<1> SUFFICES ASSUME TypeOK, ControlInv, Next PROVE ControlTypes'
  OBVIOUS
<1>1. ControlTypes /\ UpstreamTypes
  BY TypeParts
<1>2. CASE BadBody
  BY <1>1, <1>2 DEF BadBody, ControlTypes, Pcs, others
<1>3. ASSUME NEW s \in BOOLEAN, BeginRequest(s) PROVE ControlTypes'
  BY <1>1, <1>3 DEF BeginRequest, ControlTypes, Pcs
<1>4. CASE Open
  BY <1>1, <1>4 DEF Open, ControlTypes, Pcs
<1>5. CASE Attempt \/ NoAttempt \/ Canceled
  BY <1>1, <1>5 DEF Attempt, NoAttempt, Canceled, ControlTypes, Pcs, others
<1>6. CASE PushSilent \/ PushDelta \/ PushToolUse
  BY <1>1, <1>6 DEF PushSilent, PushDelta, PushToolUse, PushHead, ControlTypes, others
<1>7. CASE Again \/ GiveUp
  BY <1>1, <1>7 DEF Again, GiveUp, ControlTypes, Pcs, others
<1>8. CASE Finish
  <2>1. pc' \in Pcs /\ UNCHANGED <<client, stream, keepAlive, panics>>
    BY <1>8 DEF Finish, Pcs
  <2>2. PICK o, f, n \in {0, 1} : Counted(o, f, n)
    BY <1>8 DEF Finish
  <2>3. stats = [active |-> 1, ok |-> 0, failed |-> 0, tokens |-> 0]
    BY <1>8 DEF Finish, ControlInv, Counts
  <2>4. stats' \in [active : Nat, ok : Nat, failed : Nat, tokens : Nat]
    BY <2>2, <2>3 DEF Counted
  <2> QED
    BY <2>1, <2>4, <1>1 DEF ControlTypes
<1>9. CASE Answer \/ Tell \/ Close \/ Recover
  <2>1. UNCHANGED <<stream, others>> /\ pc' \in {"closing", "returned"}
    BY <1>9 DEF Answer, Tell, Close, Recover
  <2> QED
    BY <1>1, <2>1 DEF ControlTypes, Pcs, others
<1>10. CASE Accepted \/ Rejected \/ BreakOff \/ EndOfBody
  BY <1>1, <1>10 DEF Accepted, Rejected, BreakOff, EndOfBody, ControlTypes, Pcs, others
<1>11. ASSUME NEW f \in Frames, ReadFrame(f) PROVE ControlTypes'
  BY <1>1, <1>11 DEF ReadFrame, ControlTypes, others
<1>12. CASE Panic
  BY <1>1, <1>12, StreamAssumption DEF Panic, ControlTypes, Pcs
<1>13. CASE Tick \/ StopKeepAlive \/ Leave
  BY <1>1, <1>13 DEF Tick, StopKeepAlive, Leave, ControlTypes, others
<1> QED
  BY <1>2, <1>3, <1>4, <1>5, <1>6, <1>7, <1>8, <1>9, <1>10, <1>11, <1>12, <1>13
     DEF Next, Handle

LEMMA UpstreamTypesStep == TypeOK /\ Next => UpstreamTypes'
<1> SUFFICES ASSUME TypeOK, Next PROVE UpstreamTypes'
  OBVIOUS
<1>1. UpstreamTypes
  BY TypeParts
<1>2. CASE UNCHANGED upstream
  BY <1>1, <1>2 DEF upstream, UpstreamTypes
<1>3. CASE Attempt
  BY <1>1, <1>3, EmptyTypes, EmptySeq, StreamAssumption DEF Attempt, UpstreamTypes
<1>4. CASE NoAttempt \/ Canceled \/ Rejected \/ BreakOff
  BY <1>1, <1>4 DEF NoAttempt, Canceled, Rejected, BreakOff, UpstreamTypes
<1>5. CASE PushHead
  <2>1. Head(events) \in Event /\ Tail(events) \in Seq(Event)
    BY <1>1, <1>5, HeadTailProperties DEF PushHead, UpstreamTypes
  <2>2. Push(acc, Head(events)) \in Accumulator
    BY <1>1, <2>1, PushTypes DEF UpstreamTypes
  <2> QED
    BY <1>1, <1>5, <2>1, <2>2 DEF PushHead, UpstreamTypes
<1>6. CASE EndOfBody
  <2>1. acc \in Accumulator
    BY <1>1 DEF UpstreamTypes
  <2>2. turn' \in Turn \cup {None}
    <3>1. CASE acc.error = "none"
      <4>1. PICK o \in Orders(Started(acc)) : turn' = Snapshot(acc, o)
        BY <1>6, <3>1 DEF EndOfBody
      <4> QED
        BY <2>1, <4>1, SnapshotTypes
    <3>2. CASE acc.error # "none"
      BY <1>1, <1>6, <3>2 DEF EndOfBody, UpstreamTypes
    <3> QED
      BY <3>1, <3>2
  <2>3. err' \in {"none", "upstream", "canceled"}
    BY <1>1, <1>6, <2>1 DEF EndOfBody, UpstreamTypes, Accumulator
  <2> QED
    BY <1>1, <1>6, <2>2, <2>3 DEF EndOfBody, UpstreamTypes
<1>7. ASSUME NEW f \in Frames, ReadFrame(f) PROVE UpstreamTypes'
  <2>1. Events(f, read + 1) \in Seq(Event)
    BY <1>1, EventsTypes, StreamAssumption DEF UpstreamTypes
  <2> QED
    BY <1>1, <1>7, <2>1, StreamAssumption DEF ReadFrame, UpstreamTypes
<1> QED
  BY <1>2, <1>3, <1>4, <1>5, <1>6, <1>7
     DEF Next, Handle, BadBody, BeginRequest, Open, PushSilent, PushDelta, PushToolUse,
         Again, GiveUp, Finish, Answer, Tell, Close, Recover, Accepted, Panic, Tick,
         StopKeepAlive, Leave

LEMMA HeadOfDelta ==
    ASSUME UpstreamTypes, events # << >>
    PROVE  /\ Head(events) \in Event
           /\ Head(events).type \in {"text_delta", "thinking_delta"} =>
                 Said(Kind(Head(events)), <<Head(events).frame>>) \in AnswerFrames
           /\ Head(events).type = "tool_use" => \A i \in Nat :
                 Called(i, [id |-> Head(events).id, name |-> Head(events).name,
                            args |-> <<Head(events).frame>>]) \in AnswerFrames
<1>1. Head(events) \in Event
  BY HeadTailProperties DEF UpstreamTypes
<1> DEFINE e == Head(events)
<1>2. ASSUME e.type \in {"text_delta", "thinking_delta"}
      PROVE  Said(Kind(e), <<e.frame>>) \in AnswerFrames
  <2>1. <<e.frame>> \in Seq(Nat)
    BY <1>1, <1>2 DEF Event
  <2>2. Kind(e) \in {"text", "thinking"}
    BY DEF Kind
  <2> QED
    BY <2>1, <2>2, SaidTypes, FrameTypes
<1>3. ASSUME e.type = "tool_use", NEW i \in Nat
      PROVE  Called(i, [id |-> e.id, name |-> e.name, args |-> <<e.frame>>]) \in AnswerFrames
  <2>1. [id |-> e.id, name |-> e.name, args |-> <<e.frame>>] \in Tool
    BY <1>1, <1>3 DEF Event, Tool
  <2> QED
    BY <2>1, CalledTypes, FrameTypes
<1> QED
  BY <1>1, <1>2, <1>3

LEMMA AnswerTypesStep == TypeOK /\ ControlInv /\ Next => AnswerTypes'
<1> SUFFICES ASSUME TypeOK, ControlInv, Next PROVE AnswerTypes'
  OBVIOUS
<1>1. AnswerTypes /\ UpstreamTypes
  BY TypeParts
<1>2. CASE UNCHANGED answer
  BY <1>1, <1>2 DEF answer, AnswerTypes
<1>3. CASE BadBody
  <2>1. sent' \in Seq(AnswerFrames)
    BY <1>3, FrameTypes, OneFrame DEF BadBody
  <2> QED
    BY <1>1, <1>3, <2>1 DEF BadBody, AnswerTypes
<1>4. CASE Open
  <2>1. sent' \in Seq(AnswerFrames) /\ buf' \in Seq(AnswerFrames)
    BY <1>1, <1>4, FrameTypes, OneFrame, FlushTypes DEF Open
  <2> QED
    BY <1>1, <1>4, <2>1 DEF Open, AnswerTypes
<1>5. CASE PushSilent
  BY <1>1, <1>5 DEF PushSilent, PushHead, AnswerTypes
<1>6. CASE PushDelta
  <2>1. PICK f \in AnswerFrames : Write(<<f>>)
    BY <1>1, <1>6, HeadOfDelta DEF PushDelta, PushHead
  <2>2. sent' \in Seq(AnswerFrames) /\ buf' \in Seq(AnswerFrames) /\ comment' = FALSE
    BY <1>1, <2>1, OneFrame, WriteTypes
  <2>3. streamed' \in [text : Nat, thinking : Nat, tools : Nat]
    BY <1>1, <1>6 DEF PushDelta, AnswerTypes, Kind
  <2> QED
    BY <1>1, <1>6, <2>2, <2>3 DEF PushDelta, PushHead, AnswerTypes
<1>7. CASE PushToolUse
  <2>1. streamed.tools \in Nat
    BY <1>1 DEF AnswerTypes
  <2>2. PICK f \in AnswerFrames : Write(<<f>>)
    BY <1>1, <1>7, <2>1, HeadOfDelta DEF PushToolUse, PushHead
  <2>3. sent' \in Seq(AnswerFrames) /\ buf' \in Seq(AnswerFrames) /\ comment' = FALSE
    BY <1>1, <2>2, OneFrame, WriteTypes
  <2>4. streamed' \in [text : Nat, thinking : Nat, tools : Nat]
    BY <1>1, <1>7 DEF PushToolUse, AnswerTypes
  <2> QED
    BY <1>1, <1>7, <2>3, <2>4 DEF PushToolUse, PushHead, AnswerTypes
<1>8. CASE Answer
  <2>1. turn \in Turn
    BY <1>1, <1>8 DEF Answer, ControlInv, UpstreamTypes
  <2>2. CASE stream
    <3>1. Unstreamed \in Seq(AnswerFrames) /\ Closing \in Seq(AnswerFrames)
      BY <2>1, UnstreamedTypes, ClosingTypes, FrameTypes, SeqMonotonic
    <3>2. Unstreamed \o Closing \in Seq(AnswerFrames)
      BY <3>1, ConcatProperties
    <3>3. sent' \in Seq(AnswerFrames) /\ buf' \in Seq(AnswerFrames)
      <4>1. Flush(Unstreamed \o Closing)
        BY <1>8, <2>2 DEF Answer, End
      <4> QED
        BY <1>1, <3>2, <4>1, FlushTypes
    <3> QED
      BY <1>1, <1>8, <2>2, <3>3 DEF Answer, End, AnswerTypes
  <2>3. CASE ~stream
    <3>1. sent' \in Seq(AnswerFrames)
      <4>1. sent' = <<Json(200, turn)>>
        BY <1>8, <2>3 DEF Answer
      <4>2. Json(200, turn) \in AnswerFrames
        BY <2>1, FrameTypes
      <4> QED
        BY <4>1, <4>2, OneFrame
    <3> QED
      BY <1>1, <1>8, <2>3, <3>1 DEF Answer, AnswerTypes
  <2> QED
    BY <2>2, <2>3
<1>9. CASE Tell
  <2>1. stream \in BOOLEAN
    BY TypeParts DEF ControlTypes
  <2>2. CASE err = "canceled"
    BY <1>1, <1>9, <2>1, <2>2 DEF Tell, AnswerTypes
  <2>3. CASE err # "canceled" /\ stream
    <3>1. <<Error, Done>> \in Seq(AnswerFrames)
      BY FrameTypes
    <3>2. sent' \in Seq(AnswerFrames) /\ buf' \in Seq(AnswerFrames)
      <4>1. Flush(<<Error, Done>>)
        BY <1>9, <2>3 DEF Tell, End
      <4> QED
        BY <1>1, <3>1, <4>1, FlushTypes
    <3> QED
      BY <1>1, <1>9, <2>3, <3>2 DEF Tell, End, AnswerTypes
  <2>4. CASE err # "canceled" /\ ~stream
    <3>1. sent' \in Seq(AnswerFrames)
      <4>1. sent' = <<Json(502, None)>>
        BY <1>9, <2>4 DEF Tell
      <4>2. Json(502, None) \in AnswerFrames
        BY FrameTypes
      <4> QED
        BY <4>1, <4>2, OneFrame
    <3> QED
      BY <1>1, <1>9, <2>4, <3>1 DEF Tell, AnswerTypes
  <2> QED
    BY <2>1, <2>2, <2>3, <2>4
<1>10. CASE Recover
  <2>1. sent' \in Seq(AnswerFrames)
    BY <1>1, <1>10, FrameTypes DEF Recover, AnswerTypes
  <2> QED
    BY <1>1, <1>10, <2>1 DEF Recover, AnswerTypes
<1>11. CASE Tick
  <2>1. sent' \in Seq(AnswerFrames) /\ buf' \in Seq(AnswerFrames)
    BY <1>1, <1>11, EmptySeq, FlushTypes DEF Tick, AnswerTypes
  <2> QED
    BY <1>1, <1>11, <2>1 DEF Tick, AnswerTypes
<1> QED
  BY <1>2, <1>3, <1>4, <1>5, <1>6, <1>7, <1>8, <1>9, <1>10, <1>11
     DEF Next, Handle, BeginRequest, Attempt, NoAttempt, Canceled, Again, GiveUp, Finish,
         Close, Accepted, Rejected, BreakOff, EndOfBody, ReadFrame, Panic,
         StopKeepAlive, Leave

LEMMA TypeStep == TypeOK /\ ControlInv /\ [Next]_vars => TypeOK'
<1>1. CASE UNCHANGED vars
  BY <1>1 DEF TypeOK, vars
<1>2. CASE Next
  <2>1. TypeOK' <=> ControlTypes' /\ UpstreamTypes' /\ AnswerTypes'
    BY DEF TypeOK, ControlTypes, UpstreamTypes, AnswerTypes
  <2> QED
    BY <1>2, <2>1, ControlTypesStep, UpstreamTypesStep, AnswerTypesStep
<1> QED
  BY <1>1, <1>2

-----------------------------------------------------------------------------
(* The counters and the place of the handler.                              *)

LEMMA ControlStep == TypeOK /\ ControlInv /\ Next => ControlInv'
<1> SUFFICES ASSUME TypeOK, ControlInv, Next PROVE ControlInv'
  OBVIOUS
<1>1. pc \in Pcs /\ UpstreamTypes
  BY TypeParts DEF ControlTypes
<1>2. CASE BadBody
  BY <1>1, <1>2 DEF BadBody, ControlInv, Counts, others, upstream
<1>3. ASSUME NEW s \in BOOLEAN, BeginRequest(s) PROVE ControlInv'
  <2>1. stats = [active |-> 0, ok |-> 0, failed |-> 0, tokens |-> 0]
    BY <1>3 DEF BeginRequest, ControlInv, Counts
  <2>2. stats' = [active |-> 1, ok |-> 0, failed |-> 0, tokens |-> 0]
    BY <1>3, <2>1 DEF BeginRequest
  <2> QED
    BY <1>1, <1>3, <2>2 DEF BeginRequest, ControlInv, Counts
<1>4. CASE Open \/ Attempt \/ NoAttempt \/ Canceled \/ Again \/ GiveUp
  BY <1>1, <1>4 DEF Open, Attempt, NoAttempt, Canceled, Again, GiveUp, ControlInv, Counts,
                    others, upstream
<1>5. CASE PushHead
  BY <1>1, <1>5 DEF PushHead, ControlInv, Counts, others
<1>6. CASE Finish
  <2>1. stats = [active |-> 1, ok |-> 0, failed |-> 0, tokens |-> 0]
    BY <1>6 DEF Finish, ControlInv, Counts
  <2>2. pc = "won" => stats' = [active |-> 0, ok |-> 1, failed |-> 0, tokens |-> 1]
    BY <1>6, <2>1 DEF Finish, Counted
  <2>3. pc = "lost" /\ err = "canceled" =>
           stats' = [active |-> 0, ok |-> 1, failed |-> 0, tokens |-> 0]
    BY <1>6, <2>1 DEF Finish, Counted
  <2>4. pc = "lost" /\ err # "canceled" =>
           stats' = [active |-> 0, ok |-> 0, failed |-> 1, tokens |-> 0]
    BY <1>6, <2>1 DEF Finish, Counted
  <2> QED
    BY <1>6, <2>2, <2>3, <2>4 DEF Finish, ControlInv, Counts, upstream
<1>7. CASE Answer \/ Tell \/ Close \/ Recover
  BY <1>1, <1>7 DEF Answer, Tell, Close, Recover, ControlInv, Counts, others, upstream
<1>8. CASE Accepted \/ Rejected \/ BreakOff
  BY <1>1, <1>8 DEF Accepted, Rejected, BreakOff, ControlInv, Counts, others, upstream
<1>9. CASE EndOfBody
  <2>1. pc' = "won" => turn' # None
    <3>1. acc \in Accumulator
      BY <1>1 DEF UpstreamTypes
    <3>2. CASE acc.error = "none"
      <4>1. PICK o \in Orders(Started(acc)) : turn' = Snapshot(acc, o)
        BY <1>9, <3>2 DEF EndOfBody
      <4> QED
        BY <3>1, <4>1, SnapshotTypes, StreamAssumption
    <3>3. CASE acc.error # "none"
      BY <1>9, <3>3 DEF EndOfBody
    <3> QED
      BY <3>2, <3>3
  <2>2. pc' = "failed" => err' # "none"
    BY <1>9 DEF EndOfBody
  <2>3. pc = "reading" /\ pc' \in {"won", "failed"} /\ UNCHANGED <<stream, stats, panics>>
    BY <1>9 DEF EndOfBody, others
  <2> QED
    BY <2>1, <2>2, <2>3 DEF ControlInv, Counts
<1>10. ASSUME NEW f \in Frames, ReadFrame(f) PROVE ControlInv'
  BY <1>1, <1>10 DEF ReadFrame, ControlInv, Counts, others
<1>11. CASE Panic
  BY <1>1, <1>11 DEF Panic, ControlInv, Counts, upstream
<1>12. CASE Tick \/ StopKeepAlive \/ Leave
  BY <1>1, <1>12 DEF Tick, StopKeepAlive, Leave, ControlInv, Counts, others, upstream
<1> QED
  BY <1>2, <1>3, <1>4, <1>5, <1>6, <1>7, <1>8, <1>9, <1>10, <1>11, <1>12
     DEF Next, Handle, PushSilent, PushDelta, PushToolUse

-----------------------------------------------------------------------------
(* The answer.                                                             *)

LEMMA PlainConcat ==
    ASSUME NEW s \in Seq(AnswerFrames), NEW t \in Seq(AnswerFrames), Plain(s), Plain(t)
    PROVE  Plain(s \o t)
<1> SUFFICES ASSUME NEW k \in 1..Len(s \o t)
             PROVE  (s \o t)[k].kind \in {"role", "text", "thinking", "tool"}
  BY DEF Plain
<1>1. Len(s) \in Nat /\ Len(t) \in Nat
  BY LenProperties
<1>2. Len(s \o t) = Len(s) + Len(t)
  BY ConcatProperties
<1>3. CASE k \in 1..Len(s)
  <2>1. (s \o t)[k] = s[k]
    BY <1>1, <1>2, <1>3, ConcatProperties
  <2> QED
    BY <1>3, <2>1 DEF Plain
<1>4. CASE k \notin 1..Len(s)
  <2>1. (s \o t)[k] = t[k - Len(s)] /\ k - Len(s) \in 1..Len(t)
    BY <1>1, <1>2, <1>4, ConcatProperties
  <2> QED
    BY <2>1 DEF Plain
<1> QED
  BY <1>3, <1>4

LEMMA PlainEmpty == Plain(<< >>)
BY DEF Plain

LEMMA PlainFlush ==
    ASSUME AnswerTypes, NEW s \in Seq(AnswerFrames), Plain(sent), Plain(buf), Plain(s),
           Flush(s)
    PROVE  Plain(sent') /\ Plain(buf')
<1>1. sent' = (sent \o buf) \o s /\ buf' = << >>
  BY DEF Flush
<1>2. sent \in Seq(AnswerFrames) /\ buf \in Seq(AnswerFrames)
  BY DEF AnswerTypes
<1>3. sent \o buf \in Seq(AnswerFrames) /\ Plain(sent \o buf)
  BY <1>2, PlainConcat, ConcatProperties
<1>4. Plain((sent \o buf) \o s)
  BY <1>3, PlainConcat
<1> QED
  BY <1>1, <1>4, PlainEmpty

LEMMA PlainWrite ==
    ASSUME AnswerTypes, NEW s \in Seq(AnswerFrames), Plain(sent), Plain(buf), Plain(s),
           Write(s)
    PROVE  Plain(sent') /\ Plain(buf')
<1>1. CASE Flush(s)
  BY <1>1, PlainFlush
<1>2. CASE buf' = buf \o s /\ UNCHANGED sent
  <2>1. buf \in Seq(AnswerFrames)
    BY DEF AnswerTypes
  <2>2. Plain(buf \o s)
    BY <2>1, PlainConcat
  <2> QED
    BY <1>2, <2>2
<1> QED
  BY <1>1, <1>2 DEF Write

(* What the callbacks write. *)
LEMMA PushWrites ==
    ASSUME TypeOK, PushDelta \/ PushToolUse
    PROVE  \E f \in Payload : Write(<<f>>)
<1>1. UpstreamTypes /\ AnswerTypes
  BY TypeParts
<1>2. events # << >> /\ Head(events) \in Event
  BY <1>1, HeadTailProperties DEF PushDelta, PushToolUse, PushHead, UpstreamTypes
<1> DEFINE e == Head(events)
<1>3. CASE PushDelta
  <2>1. <<e.frame>> \in Seq(Nat)
    BY <1>2, <1>3 DEF PushDelta, Event
  <2>2. Kind(e) \in {"text", "thinking"}
    BY DEF Kind
  <2>3. Said(Kind(e), <<e.frame>>) \in Payload
    BY <2>1, <2>2, SaidTypes
  <2>4. Write(<<Said(Kind(e), <<e.frame>>)>>)
    BY <1>3 DEF PushDelta
  <2> QED
    BY <2>3, <2>4
<1>4. CASE PushToolUse
  <2> DEFINE t == [id |-> e.id, name |-> e.name, args |-> <<e.frame>>]
  <2>1. t \in Tool
    BY <1>2, <1>4 DEF PushToolUse, Event, Tool
  <2>2. streamed.tools \in Nat
    BY <1>1 DEF AnswerTypes
  <2>3. Called(streamed.tools, t) \in Payload
    BY <2>1, <2>2, CalledTypes
  <2>4. Write(<<Called(streamed.tools, t)>>)
    BY <1>4 DEF PushToolUse
  <2> QED
    BY <2>3, <2>4
<1> QED
  BY <1>3, <1>4

LEMMA PlainPayload == \A f \in Payload \cup {Role} : Plain(<<f>>)
<1> SUFFICES ASSUME NEW f \in Payload \cup {Role}
             PROVE  f.kind \in {"role", "text", "thinking", "tool"}
  BY DEF Plain
<1> QED
  BY DEF Payload, Role

(* The part of AnswerInv that says where the answer is done and empty. *)
EmptyInv ==
    /\ keepAlive # "none" => stream /\ pc # "open"
    /\ done <=> stream /\ Over /\ panics = 0
    /\ (pc = "idle" => ~stream) /\ (pc = "open" => stream)
    /\ ~stream \/ pc = "open" => comment = FALSE /\ buf = << >>
    /\ (~stream /\ ~Over) \/ pc = "open" => sent = << >>

PlainInv ==
    /\ ~Over => Plain(sent) /\ Plain(buf)
    /\ Over /\ panics # 0 =>
           /\ \A k \in 1..Len(sent) : sent[k].kind # "done"
           /\ Plain(buf)

LEMMA EmptyStep ==
    TypeOK /\ ControlInv /\ EmptyInv /\ Next => EmptyInv'
<1> SUFFICES ASSUME TypeOK, ControlInv, EmptyInv, Next PROVE EmptyInv'
  OBVIOUS
<1>1. done \in BOOLEAN /\ stream \in BOOLEAN /\ pc \in Pcs
  BY DEF TypeOK
<1>2. pc \notin {"panicked", "returned"} => panics = 0
  BY DEF ControlInv
<1>3. pc = "panicked" => panics = 1
  BY DEF ControlInv
<1>4. CASE BadBody
  BY <1>1, <1>2, <1>4 DEF BadBody, EmptyInv, Over, others
<1>5. ASSUME NEW s \in BOOLEAN, BeginRequest(s) PROVE EmptyInv'
  BY <1>1, <1>2, <1>5 DEF BeginRequest, EmptyInv, Over, answer
<1>6. CASE Open
  BY <1>1, <1>2, <1>6 DEF Open, EmptyInv, Over, Flush
<1>7. CASE Attempt \/ NoAttempt \/ Canceled \/ Again \/ GiveUp \/ Finish
  <2>1. UNCHANGED <<stream, answer, keepAlive, panics>> /\ pc # "open" /\ ~Over
        /\ pc' \notin {"idle", "open", "closing", "returned"}
    BY <1>7 DEF Attempt, NoAttempt, Canceled, Again, GiveUp, Finish, Over, others
  <2> QED
    BY <1>1, <2>1 DEF EmptyInv, Over, answer
<1>8. CASE PushSilent
  BY <1>1, <1>8 DEF PushSilent, PushHead, EmptyInv, Over, others
<1>9. CASE PushDelta \/ PushToolUse
  <2>1. /\ UNCHANGED <<stream, done, keepAlive, panics, pc>> /\ pc = "reading"
        /\ stream = TRUE
    BY <1>1, <1>9 DEF PushDelta, PushToolUse, PushHead, others
  <2> QED
    BY <1>1, <2>1 DEF EmptyInv, Over
<1>10. CASE Answer
  <2>1. CASE stream
    BY <1>1, <1>2, <1>10, <2>1 DEF Answer, End, EmptyInv, Over, others
  <2>2. CASE ~stream
    BY <1>1, <1>2, <1>10, <2>2 DEF Answer, EmptyInv, Over, others
  <2> QED
    BY <2>1, <2>2
<1>11. CASE Tell
  <2>1. CASE err = "canceled"
    BY <1>1, <1>2, <1>11, <2>1 DEF Tell, EmptyInv, Over, others
  <2>2. CASE err # "canceled" /\ stream
    BY <1>1, <1>2, <1>11, <2>2 DEF Tell, End, EmptyInv, Over, others
  <2>3. CASE err # "canceled" /\ ~stream
    BY <1>1, <1>2, <1>11, <2>3 DEF Tell, EmptyInv, Over, others
  <2> QED
    BY <2>1, <2>2, <2>3
<1>12. CASE Close
  BY <1>1, <1>12 DEF Close, EmptyInv, Over, others, answer
<1>13. CASE Recover
  BY <1>1, <1>3, <1>13 DEF Recover, EmptyInv, Over, others
<1>14. CASE Accepted \/ Rejected \/ BreakOff \/ EndOfBody
  <2>1. UNCHANGED <<stream, answer, keepAlive, panics>> /\ pc # "open" /\ ~Over
        /\ pc' \notin {"idle", "open", "closing", "returned"}
    BY <1>14 DEF Accepted, Rejected, BreakOff, EndOfBody, Over, others
  <2> QED
    BY <1>1, <2>1 DEF EmptyInv, Over, answer
<1>15. ASSUME NEW f \in Frames, ReadFrame(f) PROVE EmptyInv'
  BY <1>1, <1>15 DEF ReadFrame, EmptyInv, Over, others, answer
<1>16. CASE Panic
  BY <1>1, <1>2, <1>16 DEF Panic, EmptyInv, Over, answer
<1>17. CASE Tick
  BY <1>1, <1>17 DEF Tick, Flush, EmptyInv, Over, others
<1>18. CASE StopKeepAlive \/ Leave
  BY <1>1, <1>18 DEF StopKeepAlive, Leave, EmptyInv, Over, answer
<1> QED
  BY <1>4, <1>5, <1>6, <1>7, <1>8, <1>9, <1>10, <1>11, <1>12, <1>13, <1>14, <1>15, <1>16,
     <1>17, <1>18 DEF Next, Handle

LEMMA PlainStep ==
    TypeOK /\ ControlInv /\ EmptyInv /\ PlainInv /\ Next => PlainInv'
<1> SUFFICES ASSUME TypeOK, ControlInv, EmptyInv, PlainInv, Next PROVE PlainInv'
  OBVIOUS
<1>1. AnswerTypes /\ sent \in Seq(AnswerFrames) /\ buf \in Seq(AnswerFrames)
  BY TypeParts DEF AnswerTypes
<1>2. pc \notin {"panicked", "returned"} => panics = 0
  BY DEF ControlInv
<1>3. CASE UNCHANGED <<sent, buf>> /\ ~Over
  <2>1. CASE ~Over'
    BY <1>3, <2>1 DEF PlainInv
  <2>2. CASE Over'
    <3>1. Plain(sent) /\ Plain(buf)
      BY <1>3 DEF PlainInv
    <3>2. \A k \in 1..Len(sent) : sent[k].kind # "done"
      BY <3>1 DEF Plain
    <3> QED
      BY <1>3, <2>2, <3>1, <3>2 DEF PlainInv
  <2> QED
    BY <2>1, <2>2
<1>4. CASE UNCHANGED <<sent, buf, pc, panics>>
  BY <1>4 DEF PlainInv, Over
<1>5. CASE BadBody \/ Answer \/ Tell \/ Close
  <2>1. Over' /\ panics' = 0
    BY <1>2, <1>5 DEF BadBody, Answer, Tell, Close, Over, others
  <2> QED
    BY <2>1 DEF PlainInv
<1>6. CASE Open
  <2>1. Plain(sent) /\ Plain(buf)
    BY <1>6 DEF Open, PlainInv, Over
  <2>2. Plain(sent') /\ Plain(buf')
    BY <1>1, <1>6, <2>1, FrameTypes, OneFrame, PlainPayload, PlainFlush DEF Open
  <2> QED
    BY <1>6, <2>2 DEF Open, PlainInv, Over
<1>7. CASE PushDelta \/ PushToolUse
  <2>1. pc = "reading" /\ pc' = "reading"
    BY <1>7 DEF PushDelta, PushToolUse, PushHead
  <2>2. PICK f \in Payload : Write(<<f>>)
    BY <1>7, PushWrites
  <2>3. Plain(sent) /\ Plain(buf)
    BY <2>1 DEF PlainInv, Over
  <2>4. Plain(sent') /\ Plain(buf')
    BY <1>1, <2>2, <2>3, FrameTypes, OneFrame, PlainPayload, PlainWrite
  <2> QED
    BY <2>1, <2>4 DEF PlainInv, Over
<1>8. CASE Recover
  <2>1. Plain(sent) /\ Plain(buf)
    BY <1>8 DEF Recover, PlainInv, Over
  <2>2. \A k \in 1..Len(sent') : sent'[k].kind # "done"
    <3>1. sent' = Append(sent, Json(500, None)) /\ Len(sent) \in Nat
      BY <1>1, <1>8, LenProperties DEF Recover
    <3>2. Json(500, None).kind = "json"
      BY DEF Json
    <3>3. Len(sent') = Len(sent) + 1 /\ sent'[Len(sent) + 1] = Json(500, None)
      BY <1>1, <3>1
    <3>4. \A k \in 1..Len(sent) : sent'[k] = sent[k]
      BY <1>1, <3>1
    <3> QED
      BY <2>1, <3>1, <3>2, <3>3, <3>4 DEF Plain
  <2> QED
    BY <1>8, <2>1, <2>2 DEF Recover, PlainInv, Over
<1>9. CASE Tick
  <2>1. UNCHANGED <<pc, panics>>
    BY <1>9 DEF Tick, others
  <2>2. CASE done
    BY <1>4, <1>9, <2>1, <2>2 DEF Tick
  <2>3. CASE ~done
    <3>1. Flush(<< >>) /\ stream
      BY <1>9, <2>3 DEF Tick, EmptyInv
    <3>2. CASE ~Over
      <4>1. Plain(sent') /\ Plain(buf')
        BY <1>1, <3>1, <3>2, EmptySeq, PlainEmpty, PlainFlush DEF PlainInv
      <4> QED
        BY <2>1, <3>2, <4>1 DEF PlainInv, Over
    <3>3. CASE Over
      <4>1. panics # 0
        BY <2>3, <3>1, <3>3 DEF EmptyInv
      <4>2. /\ \A k \in 1..Len(sent) : sent[k].kind # "done"
            /\ Plain(buf)
        BY <3>3, <4>1 DEF PlainInv
      <4>3. sent' = sent \o buf /\ buf' = << >>
        <5>1. sent' = (sent \o buf) \o << >> /\ buf' = << >>
          BY <3>1 DEF Flush
        <5>2. sent \o buf \in Seq(AnswerFrames)
          BY <1>1, ConcatProperties
        <5> QED
          BY <5>1, <5>2, ConcatEmptySeq
      <4>4. ASSUME NEW k \in 1..Len(sent') PROVE sent'[k].kind # "done"
        <5>1. Len(sent) \in Nat /\ Len(buf) \in Nat /\ Len(sent') = Len(sent) + Len(buf)
          BY <1>1, <4>3, LenProperties, ConcatProperties
        <5>2. CASE k \in 1..Len(sent)
          <6>1. sent'[k] = sent[k]
            BY <1>1, <4>3, <5>1, <5>2, ConcatProperties
          <6> QED
            BY <4>2, <5>2, <6>1
        <5>3. CASE k \notin 1..Len(sent)
          <6>1. sent'[k] = buf[k - Len(sent)] /\ k - Len(sent) \in 1..Len(buf)
            BY <1>1, <4>3, <5>1, <5>3, ConcatProperties
          <6> QED
            BY <4>2, <6>1 DEF Plain
        <5> QED
          BY <5>2, <5>3
      <4> QED
        BY <2>1, <3>3, <4>3, <4>4, PlainEmpty DEF PlainInv, Over
    <3> QED
      BY <3>2, <3>3
  <2> QED
    BY <2>2, <2>3
<1>10. CASE \/ \E s \in BOOLEAN : BeginRequest(s)
            \/ Attempt \/ NoAttempt \/ Canceled \/ PushSilent \/ Again \/ GiveUp \/ Finish
            \/ Accepted \/ Rejected \/ BreakOff \/ EndOfBody \/ Panic
            \/ \E f \in Frames : ReadFrame(f)
  <2>1. UNCHANGED <<sent, buf>> /\ ~Over
    BY <1>10 DEF BeginRequest, Attempt, NoAttempt, Canceled, PushSilent, PushHead, Again,
         GiveUp, Finish, Accepted, Rejected, BreakOff, EndOfBody, Panic, ReadFrame, Over,
         answer
  <2> QED
    BY <1>3, <2>1
<1>11. CASE StopKeepAlive \/ Leave
  BY <1>4, <1>11 DEF StopKeepAlive, Leave, answer
<1> QED
  BY <1>5, <1>6, <1>7, <1>8, <1>9, <1>10, <1>11 DEF Next, Handle

-----------------------------------------------------------------------------
(* How a request has ended.                                                *)

LEMMA ToSetConcat ==
    ASSUME NEW S, NEW s \in Seq(S), NEW t \in Seq(S)
    PROVE  ToSet(s \o t) = ToSet(s) \cup ToSet(t)
<1>1. /\ DOMAIN s = 1..Len(s) /\ DOMAIN t = 1..Len(t)
      /\ Len(s) \in Nat /\ Len(t) \in Nat
  BY LenProperties
<1>2. s \o t \in Seq(S) /\ Len(s \o t) = Len(s) + Len(t)
  BY ConcatProperties
<1>3. DOMAIN (s \o t) = 1..(Len(s) + Len(t))
  BY <1>2, LenProperties
<1>4. \A k \in 1..(Len(s) + Len(t)) :
         (s \o t)[k] = IF k <= Len(s) THEN s[k] ELSE t[k - Len(s)]
  BY ConcatProperties
<1>5. ASSUME NEW k \in 1..(Len(s) + Len(t)) PROVE (s \o t)[k] \in ToSet(s) \cup ToSet(t)
  <2>1. CASE k <= Len(s)
    BY <1>1, <1>4, <2>1 DEF ToSet
  <2>2. CASE ~(k <= Len(s))
    <3>1. (s \o t)[k] = t[k - Len(s)] /\ k - Len(s) \in 1..Len(t)
      BY <1>1, <1>4, <2>2
    <3> QED
      BY <1>1, <3>1 DEF ToSet
  <2> QED
    BY <2>1, <2>2
<1>6. ASSUME NEW k \in 1..Len(s) PROVE s[k] \in ToSet(s \o t)
  <2>1. (s \o t)[k] = s[k] /\ k \in 1..(Len(s) + Len(t))
    BY <1>1, <1>4
  <2> QED
    BY <1>3, <2>1 DEF ToSet
<1>7. ASSUME NEW k \in 1..Len(t) PROVE t[k] \in ToSet(s \o t)
  <2> DEFINE m == k + Len(s)
  <2>1. m \in 1..(Len(s) + Len(t)) /\ ~(m <= Len(s)) /\ m - Len(s) = k
    BY <1>1
  <2> HIDE DEF m
  <2>2. (s \o t)[m] = t[k]
    BY <1>4, <2>1
  <2> QED
    BY <1>3, <2>1, <2>2 DEF ToSet
<1> QED
  BY <1>1, <1>3, <1>5, <1>6, <1>7 DEF ToSet

LEMMA ToSetOne == \A f : ToSet(<<f>>) = {f}
BY DEF ToSet

LEMMA PlainElements ==
    ASSUME NEW s \in Seq(AnswerFrames), Plain(s)
    PROVE  ToSet(s) \cap {Error, Done, Json(502, None)} = {}
<1>1. DOMAIN s = 1..Len(s)
  BY LenProperties
<1>2. \A f \in ToSet(s) : f.kind \in {"role", "text", "thinking", "tool"}
  BY <1>1 DEF ToSet, Plain
<1> QED
  BY <1>2 DEF Error, Done, Json

LEMMA PayloadElements ==
    ASSUME NEW s \in Seq(Payload)
    PROVE  ToSet(s) \cap {Error, Done, Json(502, None)} = {}
<1>1. \A f \in Payload : f.kind \in {"text", "thinking", "tool"}
  BY DEF Payload
<1>2. Plain(s)
  BY <1>1, ElementOfSeq DEF Plain
<1> QED
  BY <1>2, FrameTypes, SeqMonotonic, PlainElements

LEMMA ClosingElements ==
    ToSet(Closing) \cap {Error, Json(502, None)} = {} /\ Done \in ToSet(Closing)
<1> DEFINE f == [kind |-> "finish",
                 reason |-> IF turn.tools # << >> THEN "tool_calls" ELSE "stop"]
           u == [kind |-> "usage", usage |-> turn.usage]
<1>1. f.kind = "finish" /\ u.kind = "usage"
  OBVIOUS
<1>2. Closing = <<f, u, Done>>
  BY DEF Closing
<1> HIDE DEF f, u
<1>3. ToSet(Closing) = {f, u, Done}
  BY <1>2 DEF ToSet
<1> QED
  BY <1>1, <1>3 DEF Error, Done, Json

LEMMA FlushElements ==
    ASSUME AnswerTypes, NEW s \in Seq(AnswerFrames), Flush(s)
    PROVE  ToSet(sent') = ToSet(sent) \cup ToSet(buf) \cup ToSet(s)
<1>1. sent \in Seq(AnswerFrames) /\ buf \in Seq(AnswerFrames)
  BY DEF AnswerTypes
<1>2. sent \o buf \in Seq(AnswerFrames)
  BY <1>1, ConcatProperties
<1>3. \A t, u \in Seq(AnswerFrames) : ToSet(t \o u) = ToSet(t) \cup ToSet(u)
  BY ToSetConcat
<1>4. /\ ToSet((sent \o buf) \o s) = ToSet(sent \o buf) \cup ToSet(s)
      /\ ToSet(sent \o buf) = ToSet(sent) \cup ToSet(buf)
  BY <1>1, <1>2, <1>3, Zenon
<1> QED
  BY <1>4 DEF Flush

LEMMA OutcomeStep ==
    TypeOK /\ ControlInv /\ EmptyInv /\ PlainInv /\ OutcomeInv /\ Next => OutcomeInv'
<1> SUFFICES ASSUME TypeOK, ControlInv, EmptyInv, PlainInv, OutcomeInv, Next
             PROVE  OutcomeInv'
  OBVIOUS
<1>1. AnswerTypes /\ UpstreamTypes /\ stream \in BOOLEAN
      /\ sent \in Seq(AnswerFrames) /\ buf \in Seq(AnswerFrames)
  BY TypeParts DEF AnswerTypes, ControlTypes
<1>2. CASE ~Over'
  BY <1>2 DEF OutcomeInv
<1>3. CASE /\ UNCHANGED <<stats, turn, err, panics>>
           /\ Over => UNCHANGED sent
           /\ Over' => Over
  BY <1>3 DEF OutcomeInv, Counts, Over
<1>4. CASE BadBody
  BY <1>4 DEF BadBody, OutcomeInv, ControlInv, Counts, others
<1>5. CASE Answer
  <2>1. Counts(0, 1, 0, 1)' /\ turn \in Turn /\ UNCHANGED turn
    BY <1>1, <1>5 DEF Answer, ControlInv, Counts, UpstreamTypes, others, upstream
  <2>2. CASE stream
    <3>1. Unstreamed \in Seq(Payload) /\ Closing \in Seq(AnswerFrames)
      BY <2>1, UnstreamedTypes, ClosingTypes
    <3>2. Unstreamed \in Seq(AnswerFrames)
      BY <3>1, FrameTypes, SeqMonotonic
    <3>3. /\ Unstreamed \o Closing \in Seq(AnswerFrames)
          /\ ToSet(Unstreamed \o Closing) = ToSet(Unstreamed) \cup ToSet(Closing)
      BY <3>1, <3>2, ConcatProperties, ToSetConcat
    <3>4. Flush(Unstreamed \o Closing)
      BY <1>5, <2>2 DEF Answer, End
    <3>5. ToSet(sent') = ToSet(sent) \cup ToSet(buf) \cup ToSet(Unstreamed)
                            \cup ToSet(Closing)
      BY <1>1, <3>3, <3>4, FlushElements
    <3>6. Plain(sent) /\ Plain(buf)
      BY <1>5 DEF Answer, PlainInv, Over
    <3>7. /\ ToSet(sent') \cap {Error, Json(502, None)} = {}
          /\ Done \in ToSet(sent')
      BY <1>1, <3>1, <3>5, <3>6, PlainElements, PayloadElements, ClosingElements
    <3> QED
      BY <2>1, <3>7 DEF OutcomeInv
  <2>3. CASE ~stream
    <3>1. sent' = <<Json(200, turn)>>
      BY <1>5, <2>3 DEF Answer
    <3>2. ToSet(sent') = {Json(200, turn)}
      BY <3>1, ToSetOne
    <3>3. Json(200, turn) # Error /\ Json(200, turn) # Json(502, None)
      BY DEF Json, Error
    <3> QED
      BY <2>1, <3>2, <3>3 DEF OutcomeInv
  <2> QED
    BY <1>1, <2>2, <2>3
<1>6. CASE Tell
  <2>1. CASE err = "canceled"
    <3>1. Counts(0, 1, 0, 0)' /\ err' = "canceled" /\ sent' = sent
      BY <1>6, <2>1 DEF Tell, ControlInv, Counts, others, upstream
    <3>2. Plain(sent)
      BY <1>6 DEF Tell, PlainInv, Over
    <3> QED
      BY <3>1, <3>2 DEF OutcomeInv
  <2>2. CASE err # "canceled"
    <3>1. Counts(0, 0, 1, 0)'
      BY <1>6, <2>2 DEF Tell, ControlInv, Counts, others
    <3>2. ToSet(sent') \cap {Error, Json(502, None)} # {}
      <4>1. CASE stream
        <5>1. Flush(<<Error, Done>>)
          BY <1>6, <2>2, <4>1 DEF Tell, End
        <5>2. <<Error, Done>> \in Seq(AnswerFrames)
          BY FrameTypes
        <5>3. Error \in ToSet(<<Error, Done>>)
          <6> DEFINE s == <<Error, Done>>
          <6>1. 1 \in DOMAIN s /\ s[1] = Error
            OBVIOUS
          <6> QED
            BY <6>1 DEF ToSet
        <5>4. ToSet(sent') = ToSet(sent) \cup ToSet(buf) \cup ToSet(<<Error, Done>>)
          BY <1>1, <5>1, <5>2, FlushElements
        <5>5. Error \in ToSet(sent')
          BY <5>3, <5>4
        <5> QED
          BY <5>5
      <4>2. CASE ~stream
        <5>1. sent' = <<Json(502, None)>>
          BY <1>6, <2>2, <4>2 DEF Tell
        <5> QED
          BY <5>1, ToSetOne
      <4> QED
        BY <1>1, <4>1, <4>2
    <3> QED
      BY <3>1, <3>2 DEF OutcomeInv
  <2> QED
    BY <2>1, <2>2
<1>7. CASE Recover
  BY <1>7 DEF Recover, ControlInv, OutcomeInv, others
<1>8. CASE Tick
  <2>1. UNCHANGED <<pc, stats, turn, err, panics>>
    BY <1>8 DEF Tick, others, upstream
  <2>2. CASE done \/ ~Over
    BY <1>3, <1>8, <2>1, <2>2 DEF Tick, Over
  <2>3. CASE Over /\ ~done
    <3>1. panics # 0
      BY <1>8, <2>3 DEF Tick, EmptyInv
    <3> QED
      BY <2>1, <3>1 DEF OutcomeInv
  <2> QED
    BY <2>2, <2>3
<1>9. CASE Close \/ StopKeepAlive \/ Leave
  <2>1. /\ UNCHANGED <<stats, turn, err, panics, sent>>
        /\ Over' => Over
    BY <1>9 DEF Close, StopKeepAlive, Leave, Over, others, upstream, answer
  <2> QED
    BY <1>3, <2>1
<1>10. CASE \/ \E s \in BOOLEAN : BeginRequest(s)
            \/ Open \/ Attempt \/ NoAttempt \/ Canceled \/ PushSilent \/ PushDelta
            \/ PushToolUse \/ Again \/ GiveUp \/ Finish
            \/ Accepted \/ Rejected \/ BreakOff \/ EndOfBody \/ Panic
            \/ \E f \in Frames : ReadFrame(f)
  <2>1. ~Over'
    BY <1>10 DEF BeginRequest, Open, Attempt, NoAttempt, Canceled, PushSilent, PushDelta,
         PushToolUse, PushHead, Again, GiveUp, Finish, Accepted, Rejected, BreakOff,
         EndOfBody, Panic, ReadFrame, Over
  <2> QED
    BY <1>2, <2>1
<1> QED
  BY <1>4, <1>5, <1>6, <1>7, <1>8, <1>9, <1>10 DEF Next, Handle

LEMMA InvParts == EndInv <=> TypeOK /\ ControlInv /\ EmptyInv /\ PlainInv /\ OutcomeInv
BY DEF EndInv, AnswerInv, EmptyInv, PlainInv

LEMMA InvInit == Init => EndInv
<1> SUFFICES ASSUME Init PROVE EndInv
  OBVIOUS
<1>1. ControlInv
  BY DEF Init, ControlInv, Counts
<1>2. EmptyInv /\ PlainInv /\ OutcomeInv
  BY PlainEmpty DEF Init, EmptyInv, PlainInv, OutcomeInv, Over
<1> QED
  BY <1>1, <1>2, TypeInit, InvParts

LEMMA InvStep == EndInv /\ [Next]_vars => EndInv'
<1> SUFFICES ASSUME EndInv, [Next]_vars PROVE EndInv'
  OBVIOUS
<1>1. TypeOK /\ ControlInv /\ EmptyInv /\ PlainInv /\ OutcomeInv
  BY InvParts
<1>2. TypeOK'
  BY <1>1, TypeStep
<1>3. CASE Next
  <2>1. ControlInv' /\ EmptyInv' /\ PlainInv' /\ OutcomeInv'
    BY <1>1, <1>3, ControlStep, EmptyStep, PlainStep, OutcomeStep
  <2> QED
    BY <1>2, <2>1 DEF EndInv, AnswerInv, EmptyInv, PlainInv
<1>4. CASE UNCHANGED vars
  <2>1. ControlInv'
    BY <1>1, <1>4 DEF vars, ControlInv, Counts
  <2>2. AnswerInv'
    BY <1>1, <1>4 DEF vars, EndInv, AnswerInv, EmptyInv, PlainInv, Over
  <2>3. OutcomeInv'
    BY <1>1, <1>4 DEF vars, OutcomeInv, Over, Counts
  <2> QED
    BY <1>2, <2>1, <2>2, <2>3 DEF EndInv
<1> QED
  BY <1>3, <1>4

(* What is counted, written and given up fits where the handler is, for    *)
(* every upstream and whenever the client leaves or the handler panics.    *)
THEOREM EndInvariant == Spec => []EndInv
<1> QED
  BY InvInit, InvStep, PTL DEF Spec

LEMMA InvCounted == EndInv => CountedAsSeen
<1> SUFFICES ASSUME EndInv, pc = "returned" PROVE CountedAsSeen
  BY DEF CountedAsSeen
<1>1. TypeOK /\ ControlInv /\ OutcomeInv /\ sent \in Seq(AnswerFrames)
  BY DEF EndInv, TypeOK
<1>2. CASE panics # 0
  BY <1>1, <1>2 DEF ControlInv, Counts, CountedAsSeen
<1>3. CASE panics = 0
  <2>1. CASE Counts(0, 0, 0, 0) /\ sent = <<Json(400, None)>>
    <3>1. ToSet(sent) = {Json(400, None)}
      BY <2>1, ToSetOne
    <3>2. Json(400, None) # Error /\ Json(400, None) # Json(502, None)
      BY DEF Json, Error
    <3> QED
      BY <1>3, <2>1, <3>1, <3>2 DEF Counts, CountedAsSeen
  <2>2. CASE /\ Counts(0, 1, 0, 1)
             /\ ToSet(sent) \cap {Error, Json(502, None)} = {}
             /\ ToSet(sent) \cap {Done, Json(200, turn)} # {}
    BY <1>3, <2>2 DEF Counts, CountedAsSeen
  <2>3. CASE Counts(0, 1, 0, 0) /\ err = "canceled" /\ Plain(sent)
    <3>1. ToSet(sent) \cap {Error, Done, Json(502, None)} = {}
      BY <1>1, <2>3, PlainElements
    <3> QED
      BY <1>3, <2>3, <3>1 DEF Counts, CountedAsSeen
  <2>4. CASE Counts(0, 0, 1, 0) /\ ToSet(sent) \cap {Error, Json(502, None)} # {}
    BY <1>3, <2>4 DEF Counts, CountedAsSeen
  <2> QED
    BY <1>1, <1>3, <2>1, <2>2, <2>3, <2>4 DEF OutcomeInv, Over
<1> QED
  BY <1>2, <1>3

(* A request is counted once, and as its client has seen it: it is a       *)
(* failure exactly when the client was told an error.                      *)
THEOREM RequestsAreCounted == Spec => []CountedAsSeen
<1> QED
  BY EndInvariant, InvCounted, PTL

-----------------------------------------------------------------------------
(* A stream implements StreamProtocol.                                     *)

Stutters == UNCHANGED <<Phase, Written, comment>>

LEMMA Extended ==
    ASSUME NEW S, NEW s \in Seq(S), NEW t \in Seq(S), t # << >>
    PROVE  /\ Len(s \o t) > Len(s)
           /\ SubSeq(s \o t, 1, Len(s)) = s
<1>1. Len(s) \in Nat /\ Len(t) \in Nat \ {0}
  BY EmptySeq, LenProperties
<1>2. Len(s \o t) = Len(s) + Len(t)
  BY ConcatProperties
<1>3. SubSeq(s \o t, 1, Len(s)) = s
  <2>1. CASE Len(s) = 0
    <3>1. s = << >>
      BY <2>1, EmptySeq
    <3>2. SubSeq(s \o t, 1, Len(s)) = << >>
      BY <2>1, SubSeqEmpty
    <3> QED
      BY <3>1, <3>2
  <2>2. CASE Len(s) # 0
    <3>1. 1 \in 1..Len(s) /\ Len(s) \in 1..Len(s)
      BY <1>1, <2>2
    <3>2. SubSeq(s \o t, 1, Len(s)) = SubSeq(s, 1, Len(s))
      BY <3>1, SubSeqOfConcat1
    <3> QED
      BY <3>2, SubSeqFull
  <2> QED
    BY <2>1, <2>2
<1> QED
  BY <1>1, <1>2, <1>3

(* Whether a frame is flushed or stays in the buffer, it is written.       *)
LEMMA WrittenFlush ==
    ASSUME AnswerTypes, stream = TRUE, stream' = TRUE, NEW s \in Seq(AnswerFrames),
           Flush(s) \/ (buf' = buf \o s /\ UNCHANGED sent)
    PROVE  Written' = Written \o s /\ Written \in Seq(AnswerFrames)
<1>1. sent \in Seq(AnswerFrames) /\ buf \in Seq(AnswerFrames)
  BY DEF AnswerTypes
<1>2. Written = sent \o buf /\ Written' = sent' \o buf' /\ sent \o buf \in Seq(AnswerFrames)
  BY <1>1, ConcatProperties DEF Written
<1>3. CASE Flush(s)
  <2>1. sent' = (sent \o buf) \o s /\ buf' = << >>
    BY <1>3 DEF Flush
  <2>2. (sent \o buf) \o s \in Seq(AnswerFrames)
    BY <1>2, ConcatProperties
  <2>3. ((sent \o buf) \o s) \o << >> = (sent \o buf) \o s
    BY <2>2, ConcatEmptySeq
  <2> QED
    BY <1>2, <2>1, <2>3
<1>4. CASE buf' = buf \o s /\ UNCHANGED sent
  <2>1. \A t, u, v \in Seq(AnswerFrames) : (t \o u) \o v = t \o (u \o v)
    BY ConcatAssociative
  <2>2. (sent \o buf) \o s = sent \o (buf \o s)
    BY <1>1, <2>1, Zenon
  <2> QED
    BY <1>2, <1>4, <2>2
<1> QED
  BY <1>3, <1>4

LEMMA NoDone ==
    ASSUME NEW s \in Seq(AnswerFrames), NEW b \in Seq(AnswerFrames),
           \A k \in 1..Len(s) : s[k].kind # "done", Plain(b)
    PROVE  \A k \in 1..Len(s \o b) : (s \o b)[k].kind # "done"
<1>1. Len(s) \in Nat /\ Len(b) \in Nat /\ Len(s \o b) = Len(s) + Len(b)
  BY LenProperties, ConcatProperties
<1>2. \A k \in 1..Len(s \o b) : (s \o b)[k] = IF k <= Len(s) THEN s[k] ELSE b[k - Len(s)]
  BY <1>1, ConcatProperties
<1> SUFFICES ASSUME NEW k \in 1..Len(s \o b) PROVE (s \o b)[k].kind # "done"
  OBVIOUS
<1>3. CASE k <= Len(s)
  BY <1>1, <1>2, <1>3
<1>4. CASE ~(k <= Len(s))
  <2>1. (s \o b)[k] = b[k - Len(s)] /\ k - Len(s) \in 1..Len(b)
    BY <1>1, <1>2, <1>4
  <2> QED
    BY <2>1 DEF Plain
<1> QED
  BY <1>3, <1>4

LEMMA BreakStep ==
    ASSUME EndInv', Phase \in {"open", "broken"}, Phase' = "broken",
           pc' \in {"panicked", "returned"}
    PROVE  Protocol!Break
<1>1. /\ sent' \in Seq(AnswerFrames) /\ buf' \in Seq(AnswerFrames) /\ stream'
      /\ PlainInv' /\ panics' # 0 /\ (Over' <=> pc' = "returned")
  <2>1. stream' /\ pc' # "open" /\ panics' > 0
    BY DEF Phase
  <2> QED
    BY <2>1 DEF EndInv, TypeOK, AnswerTypes, AnswerInv, PlainInv, Over
<1>2. (\A k \in 1..Len(sent) : sent[k].kind # "done")' /\ Plain(buf)'
  <2>1. CASE pc' = "returned"
    BY <1>1, <2>1 DEF PlainInv
  <2>2. CASE pc' = "panicked"
    BY <1>1, <2>2 DEF PlainInv, Over, Plain
  <2> QED
    BY <2>1, <2>2
<1>3. (\A k \in 1..Len(Written) : Written[k].kind # "done")'
  BY <1>1, <1>2, NoDone DEF Written
<1> QED
  BY <1>3 DEF Protocol!Break

LEMMA OpenStep == EndInv /\ Open => Protocol!Open
<1> SUFFICES ASSUME EndInv, Open PROVE Protocol!Open
  OBVIOUS
<1>1. AnswerTypes /\ ControlInv /\ EmptyInv
  BY InvParts, TypeParts
<1>2. pc = "open" /\ pc' = "select" /\ stream /\ stream' = stream /\ panics = 0
      /\ panics' = 0 /\ ~done /\ done' = done /\ comment' = comment /\ comment = FALSE
      /\ sent = << >> /\ buf = << >>
  BY <1>1 DEF Open, ControlInv, EmptyInv, Over
<1>3. Written' = <<Role>>
  <2>1. stream = TRUE /\ stream' = TRUE
    BY <1>2 DEF EndInv, TypeOK
  <2>2. Written' = Written \o <<Role>>
    BY <1>1, <2>1, FrameTypes, OneFrame, WrittenFlush DEF Open
  <2>3. Written = << >>
    BY <1>2 DEF Written
  <2>4. << >> \o <<Role>> = <<Role>>
    BY FrameTypes, OneFrame, ConcatEmptySeq
  <2> QED
    BY <2>2, <2>3, <2>4
<1>4. Phase = "new" /\ Phase' = "open"
  BY <1>2 DEF Phase
<1> QED
  BY <1>2, <1>3, <1>4 DEF Protocol!Open, Protocol!Role, Role

LEMMA ContentStep == EndInv /\ (PushDelta \/ PushToolUse) => Protocol!Content
<1> SUFFICES ASSUME EndInv, PushDelta \/ PushToolUse PROVE Protocol!Content
  OBVIOUS
<1>1. AnswerTypes /\ ControlInv
  BY InvParts, TypeParts
<1>2. PICK f \in Payload : Write(<<f>>)
  BY InvParts, PushWrites
<1>3. stream = TRUE /\ stream' = TRUE /\ ~done /\ done' = done /\ pc = "reading" /\ pc' = pc
      /\ panics = 0 /\ panics' = panics
  BY <1>1 DEF EndInv, TypeOK, PushDelta, PushToolUse, PushHead, ControlInv, others
<1>4. f \in AnswerFrames /\ <<f>> \in Seq(AnswerFrames) /\ <<f>> # << >>
  BY FrameTypes, OneFrame
<1>5. Written' = Written \o <<f>> /\ Written \in Seq(AnswerFrames) /\ comment' = FALSE
  BY <1>1, <1>2, <1>3, <1>4, WrittenFlush DEF Write
<1>6. Len(Written') = Len(Written) + 1 /\ Written'[Len(Written) + 1] = f
  <2>1. Len(Written) \in Nat /\ Len(<<f>>) = 1 /\ <<f>>[1] = f
    BY <1>5, LenProperties
  <2>2. Len(Written \o <<f>>) = Len(Written) + 1
    BY <1>4, <1>5, <2>1, ConcatProperties
  <2>3. (Written \o <<f>>)[Len(Written) + 1] = <<f>>[1]
    <3> DEFINE m == Len(Written) + 1
    <3>1. m \in 1..(Len(Written) + Len(<<f>>)) /\ ~(m <= Len(Written))
          /\ m - Len(Written) = 1
      BY <2>1
    <3> HIDE DEF m
    <3>2. (Written \o <<f>>)[m] = <<f>>[1]
      BY <1>4, <1>5, <3>1, ConcatProperties
    <3> QED
      BY <3>2 DEF m
  <2> QED
    BY <1>5, <2>1, <2>2, <2>3
<1>7. Len(Written') > Len(Written) /\ SubSeq(Written', 1, Len(Written)) = Written
  BY <1>4, <1>5, Extended
<1>8. Phase = "open" /\ Phase' = "open"
  BY <1>3 DEF Phase
<1> QED
  BY <1>5, <1>6, <1>7, <1>8 DEF Protocol!Content, Protocol!Grows

LEMMA TickStep == EndInv /\ EndInv' /\ Tick => Protocol!Comment \/ Protocol!Break \/ Stutters
<1> SUFFICES ASSUME EndInv, EndInv', Tick
             PROVE  Protocol!Comment \/ Protocol!Break \/ Stutters
  OBVIOUS
<1>1. AnswerTypes /\ ControlInv /\ EmptyInv
  BY InvParts, TypeParts
<1>2. UNCHANGED <<pc, stream, done, panics>> /\ stream = TRUE /\ pc # "open"
  BY <1>1 DEF Tick, others, EmptyInv, EndInv, TypeOK
<1>3. CASE done
  <2>1. UNCHANGED <<sent, buf, comment>>
    BY <1>3 DEF Tick
  <2> QED
    BY <1>2, <2>1 DEF Stutters, Phase, Written
<1>4. CASE ~done
  <2>1. Flush(<< >>) /\ comment' = TRUE
    BY <1>4 DEF Tick
  <2>2. Written' = Written \o << >> /\ Written \in Seq(AnswerFrames)
    BY <1>1, <1>2, <2>1, EmptySeq, WrittenFlush
  <2>3. Written' = Written
    BY <2>2, ConcatEmptySeq
  <2>4. panics \in Nat
    BY StreamAssumption DEF EndInv, TypeOK
  <2>5. CASE panics = 0
    <3>1. Phase = "open" /\ Phase' = "open"
      BY <1>2, <1>4, <2>5 DEF Phase
    <3> QED
      BY <2>1, <2>3, <3>1 DEF Protocol!Comment
  <2>6. CASE panics # 0
    <3>1. Phase = "broken" /\ Phase' = "broken"
      BY <1>2, <2>4, <2>6 DEF Phase
    <3>2. pc' \in {"panicked", "returned"}
      BY <1>1, <1>2, <2>6 DEF ControlInv
    <3> QED
      BY <3>1, <3>2, BreakStep
  <2> QED
    BY <2>5, <2>6
<1> QED
  BY <1>3, <1>4

LEMMA AnswerEnds == EndInv /\ Answer => Protocol!Complete \/ Stutters
<1> SUFFICES ASSUME EndInv, Answer PROVE Protocol!Complete \/ Stutters
  OBVIOUS
<1>1. AnswerTypes /\ ControlInv /\ UpstreamTypes /\ stream \in BOOLEAN
  BY InvParts, TypeParts DEF ControlTypes
<1>2. /\ pc = "answer" /\ pc' = "closing" /\ stream' = stream /\ panics = 0 /\ panics' = 0
      /\ turn \in Turn /\ turn' = turn
  BY <1>1 DEF Answer, ControlInv, UpstreamTypes, upstream, others
<1>3. CASE ~stream
  <2>1. Phase = "new" /\ Phase' = "new" /\ Written = << >> /\ Written' = << >>
    BY <1>2, <1>3 DEF Phase, Written
  <2>2. comment' = comment
    BY <1>3 DEF Answer
  <2> QED
    BY <2>1, <2>2 DEF Stutters
<1>4. CASE stream
  <2>1. Flush(Unstreamed \o Closing) /\ comment' = FALSE /\ done'
    BY <1>4 DEF Answer, End
  <2>2. ~done
    BY <1>2 DEF EndInv, AnswerInv, Over
  <2>3. Phase = "open" /\ Phase' = "ended"
    BY <1>2, <1>4, <2>1, <2>2 DEF Phase
  <2> DEFINE w == Written
             u == Unstreamed
             f == [kind |-> "finish",
                   reason |-> IF turn.tools # << >> THEN "tool_calls" ELSE "stop"]
             g == [kind |-> "usage", usage |-> turn.usage]
  <2>4. Closing = <<f, g, Done>> /\ f \in Protocol!Finish /\ g.kind = "usage"
    BY DEF Closing, Protocol!Finish
  <2>5. u \in Seq(Payload) /\ u \in Seq(AnswerFrames) /\ Closing \in Seq(AnswerFrames)
    BY <1>2, UnstreamedTypes, ClosingTypes, FrameTypes, SeqMonotonic
  <2>6. u \o Closing \in Seq(AnswerFrames) /\ Len(u \o Closing) = Len(u) + 3
        /\ Len(u) \in Nat
    <3> HIDE DEF u, f, g
    <3>1. Len(Closing) = 3
      BY <2>4
    <3>2. Len(u) \in Nat
      BY <2>5, LenProperties
    <3>3. /\ u \o Closing \in Seq(AnswerFrames)
          /\ Len(u \o Closing) = Len(u) + Len(Closing)
      BY <2>5, ConcatProperties
    <3> QED
      BY <3>1, <3>2, <3>3
  <2>7. Written' = w \o (u \o Closing) /\ w \in Seq(AnswerFrames)
    <3>1. stream = TRUE /\ stream' = TRUE
      BY <1>1, <1>2, <1>4
    <3> DEFINE t == u \o Closing
    <3>2. Flush(t) /\ t \in Seq(AnswerFrames)
      BY <2>1, <2>6
    <3> HIDE DEF t
    <3>3. Written' = Written \o t /\ Written \in Seq(AnswerFrames)
      BY <1>1, <3>1, <3>2, WrittenFlush
    <3> QED
      BY <3>3 DEF t
  <2> HIDE DEF w, u, f, g
  <2> DEFINE t == u \o Closing
  <2>t. t \in Seq(AnswerFrames) /\ Len(t) = Len(u) + 3 /\ Written' = w \o t
    BY <2>6, <2>7
  <2> HIDE DEF t
  <2>8. Len(w) \in Nat /\ Len(Written') = Len(w) + Len(u) + 3
    <3>1. Len(w) \in Nat
      BY <2>7, LenProperties
    <3>2. Len(w \o t) = Len(w) + Len(t)
      BY <2>7, <2>t, ConcatProperties
    <3> QED
      BY <2>6, <2>t, <3>1, <3>2
  <2>9. \A k \in Len(w) + 1 .. Len(w) + Len(u) + 3 :
           Written'[k] = (u \o Closing)[k - Len(w)]
    <3>1. \A k \in Len(w) + 1 .. Len(w) + Len(u) + 3 : Written'[k] = t[k - Len(w)]
      BY <2>6, <2>7, <2>t, <2>8, ConcatProperties
    <3> QED
      BY <3>1 DEF t
  <2>10. \A j \in 1 .. Len(u) + 3 :
            (u \o Closing)[j] = IF j <= Len(u) THEN u[j] ELSE Closing[j - Len(u)]
    BY <2>4, <2>5, <2>6, ConcatProperties
  <2>11. ASSUME NEW k \in Len(w) + 1 .. Len(w) + Len(u) PROVE Written'[k] \in Payload
    <3>1. k - Len(w) \in 1..Len(u) /\ k \in Len(w) + 1 .. Len(w) + Len(u) + 3
          /\ k - Len(w) \in 1 .. Len(u) + 3
      BY <2>6, <2>8
    <3>2. Written'[k] = u[k - Len(w)]
      BY <2>6, <2>8, <2>9, <2>10, <3>1
    <3> QED
      BY <2>5, <3>1, <3>2, ElementOfSeq
  <2>12. ASSUME NEW i \in 1..3 PROVE Written'[Len(w) + Len(u) + i] = Closing[i]
    <3> DEFINE k == Len(w) + Len(u) + i
               j == Len(u) + i
    <3>1. k \in Len(w) + 1 .. Len(w) + Len(u) + 3 /\ k - Len(w) = j
          /\ j \in 1 .. Len(u) + 3 /\ ~(j <= Len(u)) /\ j - Len(u) = i
      BY <2>6, <2>8
    <3> HIDE DEF k, j
    <3>2. Written'[k] = (u \o Closing)[j] /\ (u \o Closing)[j] = Closing[i]
      BY <2>9, <2>10, <3>1
    <3> QED
      BY <3>2 DEF k
  <2>13. /\ Written'[Len(w) + Len(u) + 1] = f /\ Written'[Len(w) + Len(u) + 2] = g
         /\ Written'[Len(w) + Len(u) + 3] = Done
    BY <2>4, <2>12
  <2>14. Len(Written') > Len(w) /\ SubSeq(Written', 1, Len(w)) = w
    <3>1. u \o Closing # << >>
      BY <2>6, EmptySeq
    <3> QED
      BY <2>6, <2>7, <3>1, Extended
  <2>15. Len(Written') - 3 = Len(w) + Len(u) /\ Len(Written') >= Len(w) + 3
    BY <2>6, <2>8
  <2>16. Done = Protocol!Done
    BY DEF Done, Protocol!Done
  <2>17. Protocol!Complete
    <3>1. w = Written
      BY DEF w
    <3> DEFINE n == Len(Written') - 3
    <3>2. /\ \A k \in Len(w) + 1 .. n : Written'[k] \in Payload
          /\ Written'[n + 1] \in Protocol!Finish
          /\ Written'[n + 2].kind = "usage"
          /\ Written'[n + 3] = Protocol!Done
      BY <2>4, <2>11, <2>13, <2>15, <2>16
    <3> QED
      BY <2>1, <2>3, <2>14, <2>15, <3>1, <3>2 DEF Protocol!Complete, Protocol!Grows
  <2> QED
    BY <2>17
<1> QED
  BY <1>1, <1>3, <1>4

LEMMA TellEnds == EndInv /\ Tell => Protocol!Fail \/ Protocol!Abandon \/ Stutters
<1> SUFFICES ASSUME EndInv, Tell
             PROVE  Protocol!Fail \/ Protocol!Abandon \/ Stutters
  OBVIOUS
<1>1. AnswerTypes /\ ControlInv /\ stream \in BOOLEAN
  BY InvParts, TypeParts DEF ControlTypes
<1>2. /\ pc = "giveUp" /\ pc' = "closing" /\ stream' = stream /\ panics = 0 /\ panics' = 0
  BY <1>1 DEF Tell, ControlInv, others
<1>3. ~done
  BY <1>2 DEF EndInv, AnswerInv, Over
<1>4. CASE ~stream
  <2>1. Phase = "new" /\ Phase' = "new" /\ Written = << >> /\ Written' = << >>
    BY <1>2, <1>4 DEF Phase, Written
  <2>2. comment' = comment
    BY <1>4 DEF Tell
  <2> QED
    BY <2>1, <2>2 DEF Stutters
<1>5. CASE stream /\ err = "canceled"
  <2>1. done' /\ UNCHANGED <<sent, buf, comment>>
    BY <1>5 DEF Tell
  <2>2. Phase = "open" /\ Phase' = "ended" /\ Written' = Written
    BY <1>2, <1>3, <1>5, <2>1 DEF Phase, Written
  <2> QED
    BY <2>1, <2>2 DEF Protocol!Abandon
<1>6. CASE stream /\ err # "canceled"
  <2>1. Flush(<<Error, Done>>) /\ comment' = FALSE /\ done'
    BY <1>6 DEF Tell, End
  <2>2. Phase = "open" /\ Phase' = "ended"
    BY <1>2, <1>3, <1>6, <2>1 DEF Phase
  <2>3. <<Error, Done>> \in Seq(AnswerFrames) /\ stream = TRUE /\ stream' = TRUE
    BY <1>1, <1>2, <1>6, FrameTypes
  <2>4. Written' = Written \o <<Error, Done>>
    BY <1>1, <2>1, <2>3, WrittenFlush
  <2> QED
    BY <2>1, <2>2, <2>4 DEF Protocol!Fail, Error, Done, Protocol!Error, Protocol!Done
<1> QED
  BY <1>1, <1>4, <1>5, <1>6

LEMMA PanicBreaks ==
    EndInv /\ EndInv' /\ (Panic \/ Recover) => Protocol!Break \/ Stutters
<1> SUFFICES ASSUME EndInv, EndInv', Panic \/ Recover
             PROVE  Protocol!Break \/ Stutters
  OBVIOUS
<1>1. ControlInv /\ ControlInv' /\ stream \in BOOLEAN /\ (Over \/ ~done)
  BY DEF EndInv, TypeOK, AnswerInv
<1>2. /\ stream' = stream /\ comment' = comment /\ pc \in {"reading", "panicked"}
      /\ pc' \in {"panicked", "returned"} /\ (pc = "reading" => panics = 0)
      /\ (pc = "panicked" => panics = 1) /\ panics' = 1
  BY <1>1 DEF Panic, Recover, ControlInv, answer, others
<1>3. CASE ~stream
  BY <1>2, <1>3 DEF Stutters, Phase, Written
<1>4. CASE stream
  <2>1. Phase \in {"open", "broken"} /\ Phase' = "broken"
    BY <1>1, <1>2, <1>4 DEF Phase, Over
  <2> QED
    BY <1>2, <2>1, BreakStep
<1> QED
  BY <1>1, <1>3, <1>4

LEMMA OtherStutters ==
    ASSUME EndInv,
           \/ BadBody \/ \E s \in BOOLEAN : BeginRequest(s)
           \/ Attempt \/ NoAttempt \/ Canceled \/ PushSilent \/ Again \/ GiveUp \/ Finish
           \/ Accepted \/ Rejected \/ BreakOff \/ EndOfBody
           \/ \E f \in Frames : ReadFrame(f)
           \/ Close \/ StopKeepAlive \/ Leave
    PROVE  Stutters
<1>1. EmptyInv /\ stream \in BOOLEAN
  BY InvParts DEF TypeOK
<1>2. CASE BadBody
  BY <1>1, <1>2 DEF BadBody, EmptyInv, Stutters, Phase, Written
<1>3. ASSUME NEW s \in BOOLEAN, BeginRequest(s) PROVE Stutters
  <2>1. ~stream /\ sent = << >> /\ buf = << >> /\ UNCHANGED <<sent, buf, comment>>
        /\ stream' = s /\ (s => pc' = "open")
    BY <1>1, <1>3 DEF BeginRequest, EmptyInv, Over, answer
  <2>2. Phase = "new" /\ Phase' = "new" /\ Written = << >> /\ Written' = << >>
    <3>1. << >> \o << >> = << >>
      BY EmptySeq, ConcatEmptySeq
    <3> QED
      BY <2>1, <3>1 DEF Phase, Written
  <2> QED
    BY <2>1, <2>2 DEF Stutters
<1>4. CASE \/ Attempt \/ NoAttempt \/ Canceled \/ PushSilent \/ Again \/ GiveUp \/ Finish
           \/ Accepted \/ Rejected \/ BreakOff \/ EndOfBody
           \/ \E f \in Frames : ReadFrame(f)
           \/ Close \/ StopKeepAlive \/ Leave
  <2>1. UNCHANGED <<stream, sent, buf, comment, done, panics>>
        /\ (pc = "open" <=> pc' = "open")
    BY <1>4 DEF Attempt, NoAttempt, Canceled, PushSilent, PushHead, Again, GiveUp, Finish,
         Accepted, Rejected, BreakOff, EndOfBody, ReadFrame, Close, StopKeepAlive, Leave,
         answer, others
  <2> QED
    BY <2>1 DEF Stutters, Phase, Written
<1> QED
  BY <1>2, <1>3, <1>4

LEMMA RefinementStep ==
    EndInv /\ EndInv' /\ [Next]_vars => [Protocol!Next]_(Protocol!vars)
<1> SUFFICES ASSUME EndInv, EndInv', [Next]_vars
             PROVE  Protocol!Next \/ Stutters
  BY DEF Protocol!vars, Stutters
<1>1. CASE UNCHANGED vars
  BY <1>1 DEF vars, Stutters, Phase, Written
<1>2. CASE Next
  BY <1>2, OpenStep, ContentStep, TickStep, AnswerEnds, TellEnds, PanicBreaks, OtherStutters
     DEF Next, Handle, Protocol!Next
<1> QED
  BY <1>1, <1>2

(* A streamed answer is one that StreamProtocol allows, and every step of  *)
(* the handler, of the keep-alive goroutine and of the callbacks is one of *)
(* its steps or leaves what was written as it was.                         *)
THEOREM StreamFollowsProtocol == Spec => FollowsProtocol
<1>1. Init => Protocol!Init
  <2>1. << >> \o << >> = << >>
    BY EmptySeq, ConcatEmptySeq
  <2> QED
    BY <2>1 DEF Init, Protocol!Init, Phase, Written
<1> QED
  BY <1>1, EndInvariant, RefinementStep, PTL DEF Spec, FollowsProtocol, Protocol!Spec
=============================================================================
