--------------------------- MODULE StreamProtocol ---------------------------
(***************************************************************************)
(* What the client of a streamed chat may rely on (docs/api/http.md,       *)
(* streaming behaviour): the stream is opened with the role; content       *)
(* follows; it ends with the finish chunk, the usage chunk and [DONE], or  *)
(* with an error and [DONE]; after that nothing is written, no keep-alive  *)
(* comment either.  Without [DONE] it ends when the client has gone, or    *)
(* when the handler broke: then an answer of the recovering handler may    *)
(* stand anywhere in it, but no [DONE].                                    *)
(***************************************************************************)
EXTENDS Naturals, Sequences

CONSTANT Payload    \* what a chunk with content may be

VARIABLES
    phase,      \* "new", "open", "ended" or "broken"
    frames,     \* what was written, oldest first
    comment     \* the last thing written is a keep-alive comment

vars == <<phase, frames, comment>>

Role  == [kind |-> "role"]
Done  == [kind |-> "done"]
Error == [kind |-> "error"]

Finish == [kind : {"finish"}, reason : {"stop", "tool_calls"}]

Init == phase = "new" /\ frames = << >> /\ comment = FALSE

Open ==
    /\ phase = "new"
    /\ phase' = "open" /\ frames' = <<Role>> /\ comment' = FALSE

(* What was written stays as it is. *)
Grows == Len(frames') > Len(frames) /\ SubSeq(frames', 1, Len(frames)) = frames

Content ==
    /\ phase = "open"
    /\ Len(frames') = Len(frames) + 1 /\ Grows
    /\ frames'[Len(frames')] \in Payload
    /\ comment' = FALSE
    /\ UNCHANGED phase

Comment ==
    /\ phase = "open"
    /\ comment' = TRUE
    /\ UNCHANGED <<phase, frames>>

(* What was not streamed is sent at the end, at once.                      *)
Complete ==
    /\ phase = "open" /\ phase' = "ended"
    /\ comment' = FALSE
    /\ Len(frames') >= Len(frames) + 3 /\ Grows
    /\ LET n == Len(frames') - 3
       IN  /\ \A k \in Len(frames) + 1 .. n : frames'[k] \in Payload
           /\ frames'[n + 1] \in Finish
           /\ frames'[n + 2].kind = "usage"
           /\ frames'[n + 3] = Done

Fail ==
    /\ phase = "open" /\ phase' = "ended"
    /\ frames' = frames \o <<Error, Done>> /\ comment' = FALSE

Abandon ==
    /\ phase = "open" /\ phase' = "ended"
    /\ UNCHANGED <<frames, comment>>

Break ==
    /\ phase \in {"open", "broken"} /\ phase' = "broken"
    /\ \A k \in 1..Len(frames') : frames'[k].kind # "done"

Next == Open \/ Content \/ Comment \/ Complete \/ Fail \/ Abandon \/ Break

Spec == Init /\ [][Next]_vars
=============================================================================
