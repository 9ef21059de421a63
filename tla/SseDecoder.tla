----------------------------- MODULE SseDecoder -----------------------------
(***************************************************************************)
(* What the body of an upstream answer means (provider/client.go: readSSE, *)
(* eventsFromOpenAIChunk, MapSSEEvent, mapOpenAIDelta, accumulator): a     *)
(* frame is decoded into events, which are pushed onto an accumulator,     *)
(* whose snapshot is the turn.                                             *)
(*                                                                         *)
(* A frame is what stands between two empty lines, or before the end of    *)
(* the body: its data lines, joined.  A text, an argument or a usage is    *)
(* abstracted to the number of the frame that it came in.  The reason for  *)
(* the end of a turn is left out: no code outside the decoder reads it.    *)
(***************************************************************************)
EXTENDS Naturals, Sequences, FiniteSets

CONSTANTS
    Indices,    \* the indices of tool calls, a set of numbers
    Labels,     \* ids and names of tool calls that the upstream gives
    None        \* no usage, no tool call

(* An absent string, what fmt.Sprint makes of it, what is drawn for an id. *)
Absent    == ""
Nil       == "<nil>"
Generated == "generated"

ASSUME LabelsAssumption ==
    /\ Indices \subseteq Nat /\ IsFiniteSet(Indices)
    /\ Labels \cap {Absent, Nil, Generated} = {}

Label == Labels \cup {Absent}

(***************************************************************************)
(* "chunk": an OpenAI chunk that fits the typed struct; "loose": one that  *)
(* does not, say for an index in quotes; "update": the session updates of  *)
(* the older form; "junk": [DONE], no JSON, or nothing that is known.      *)
(* usage is "zero" when all its counts are.                                *)
(***************************************************************************)
Call == [index : Indices, id : Label, name : Label, args : BOOLEAN]

Chunk == [form : {"chunk", "loose"}, usage : {"absent", "zero", "given"},
          text : {"absent", "blank", "given"},
          thinking : {"absent", "blank", "given"}, calls : Seq(Call)]

Update == [form : {"update"},
           kind : {"text", "thinking", "tool_use", "tool_call_delta", "error",
                   "canceled", "ended"},
           index : Indices, id : Label, name : Label, args : BOOLEAN, input : BOOLEAN]

Frame == Chunk \cup Update \cup [form : {"junk"}]

Event ==
    [type : {"text_delta", "thinking_delta", "usage"}, frame : Nat]
        \cup [type : {"upstream_error"}, class : {"upstream", "canceled"}]
        \cup [type : {"tool_use"}, frame : Nat, id : Labels \cup {Generated},
              name : Label]
        \cup [type : {"tool_call_delta"}, frame : Nat, index : Indices,
              id : Label \cup {Nil}, name : Label \cup {Nil}, args : BOOLEAN,
              input : BOOLEAN]

-----------------------------------------------------------------------------
(* firstText drops a text that is only white space.                        *)
When(given, event) == IF given THEN <<event>> ELSE << >>

Delta(type, n) == [type |-> type, frame |-> n]

(* A typed field that is absent is empty; fmt.Sprint of one that a map     *)
(* does not have is not.                                                   *)
Field(form, label) == IF form = "loose" /\ label = Absent THEN Nil ELSE label

Fragment(form, call, n) ==
    [type |-> "tool_call_delta", frame |-> n, index |-> call.index,
     id |-> Field(form, call.id), name |-> Field(form, call.name),
     args |-> call.args, input |-> FALSE]

(* eventsFromOpenAIChunk and mapOpenAIDelta: usage, text, thinking, calls. *)
ChunkEvents(f, n) ==
    When(f.usage = "given", Delta("usage", n))
        \o When(f.text = "given", Delta("text_delta", n))
        \o When(f.thinking = "given", Delta("thinking_delta", n))
        \o [k \in 1..Len(f.calls) |-> Fragment(f.form, f.calls[k], n)]

(* MapSSEEvent for what has neither usage nor choices.                     *)
UpdateEvents(f, n) ==
    CASE f.kind = "text"     -> <<Delta("text_delta", n)>>
      [] f.kind = "thinking" -> <<Delta("thinking_delta", n)>>
      [] f.kind = "tool_use" ->
             <<[type |-> "tool_use", frame |-> n, name |-> f.name,
                id |-> IF f.id = Absent THEN Generated ELSE f.id]>>
      [] f.kind = "tool_call_delta" ->
             <<[type |-> "tool_call_delta", frame |-> n, index |-> f.index,
                id |-> f.id, name |-> f.name, args |-> f.args, input |-> f.input]>>
      [] f.kind = "error"    -> <<[type |-> "upstream_error", class |-> "upstream"]>>
      [] f.kind = "canceled" -> <<[type |-> "upstream_error", class |-> "canceled"]>>
      [] f.kind = "ended"    -> << >>

Events(f, n) ==
    CASE f.form \in {"chunk", "loose"} -> ChunkEvents(f, n)
      [] f.form = "update"             -> UpdateEvents(f, n)
      [] f.form = "junk"               -> << >>

-----------------------------------------------------------------------------
(***************************************************************************)
(* The accumulator.  Of the errors the first is used; a whole input is the *)
(* frame of the last one.                                                  *)
(***************************************************************************)
Tool == [id : Labels \cup {Generated}, name : Label \cup {Nil}, args : Seq(Nat)]

Piece == [id : Label \cup {Nil}, name : Label \cup {Nil}, args : Seq(Nat),
          input : Seq(Nat)]

Accumulator ==
    [text : Seq(Nat), thinking : Seq(Nat), tools : Seq(Tool),
     pieces : [Indices -> Piece \cup {None}],
     error : {"none", "upstream", "canceled"}, usage : Nat \cup {None}]

EmptyAccumulator ==
    [text |-> << >>, thinking |-> << >>, tools |-> << >>,
     pieces |-> [i \in Indices |-> None], error |-> "none", usage |-> None]

NewPiece == [id |-> Absent, name |-> Absent, args |-> << >>, input |-> << >>]

(* A string that is not empty replaces, an argument is appended.           *)
Merged(p, e) ==
    [id    |-> IF e.id = Absent THEN p.id ELSE e.id,
     name  |-> IF e.name = Absent THEN p.name ELSE e.name,
     args  |-> IF e.args THEN Append(p.args, e.frame) ELSE p.args,
     input |-> IF e.input THEN <<e.frame>> ELSE p.input]

Push(a, e) ==
    CASE e.type = "text_delta"     -> [a EXCEPT !.text = Append(@, e.frame)]
      [] e.type = "thinking_delta" -> [a EXCEPT !.thinking = Append(@, e.frame)]
      [] e.type = "usage"          -> [a EXCEPT !.usage = e.frame]
      [] e.type = "upstream_error" ->
             [a EXCEPT !.error = IF @ = "none" THEN e.class ELSE @]
      [] e.type = "tool_use"       ->
             [a EXCEPT !.tools =
                 Append(@, [id |-> e.id, name |-> e.name, args |-> <<e.frame>>])]
      [] e.type = "tool_call_delta" ->
             [a EXCEPT !.pieces[e.index] =
                 Merged(IF @ = None THEN NewPiece ELSE @, e)]

(* Faulty variant: the id that the pieces gave, if any.                    *)
AssembledNameless(p) ==
    [id |-> p.id, name |-> p.name, args |-> IF p.args # << >> THEN p.args ELSE p.input]

(* strutil.First takes "<nil>" for an absent id.                           *)
Assembled(p) ==
    [id   |-> IF p.id \in {Absent, Nil} THEN Generated ELSE p.id,
     name |-> p.name,
     args |-> IF p.args # << >> THEN p.args ELSE p.input]

Started(a) == {i \in Indices : a.pieces[i] # None}

(* The pieces are kept in a map, which is walked in any order.             *)
Orders(S) ==
    {o \in [1..Cardinality(S) -> S] : \A j, k \in DOMAIN o : o[j] = o[k] => j = k}

Turn == [text : Seq(Nat), thinking : Seq(Nat), tools : Seq(Tool),
         usage : Nat \cup {None}]

(* A turn without a usage is given an estimate.                            *)
Snapshot(a, order) ==
    [text |-> a.text, thinking |-> a.thinking,
     tools |-> a.tools \o [k \in DOMAIN order |-> Assembled(a.pieces[order[k]])],
     usage |-> a.usage]
=============================================================================
