---------------------------- MODULE MCChatStream ----------------------------
(***************************************************************************)
(* The instance of ChatStream that TLC checks: one upstream frame of every *)
(* sort that the decoder tells apart.                                      *)
(***************************************************************************)
EXTENDS ChatStream

Piecewise(index, id, args) == [index |-> index, id |-> id, name |-> id, args |-> args]

OfForm(form) ==
    [form |-> form, usage |-> "absent", text |-> "absent", thinking |-> "absent",
     calls |-> << >>]

OfKind(kind) ==
    [form |-> "update", kind |-> kind, index |-> 0, id |-> Absent, name |-> Absent,
     args |-> FALSE, input |-> FALSE]

MCFrames == {
    [OfForm("chunk") EXCEPT !.text = "given"],
    [OfForm("chunk") EXCEPT !.thinking = "given", !.text = "blank", !.usage = "zero"],
    [OfForm("chunk") EXCEPT !.text = "given", !.usage = "given"],
    [OfForm("chunk") EXCEPT !.calls = <<Piecewise(1, "a", TRUE), Piecewise(0, "b", FALSE)>>],
    [OfForm("loose") EXCEPT !.calls = <<Piecewise(0, Absent, TRUE)>>],
    [OfKind("tool_use") EXCEPT !.name = "a"],
    [OfKind("tool_call_delta") EXCEPT !.input = TRUE],
    OfKind("error"), OfKind("canceled"),
    [form |-> "junk"] }
=============================================================================
