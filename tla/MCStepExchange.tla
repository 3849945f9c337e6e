--------------------------- MODULE MCStepExchange ---------------------------
(* StepExchange for TLC: one video track and one audio track. *)
EXTENDS StepExchange

CONSTANTS v, a

MCDeclared == [t \in Tracks |-> IF t = v THEN "video" ELSE "audio"]

Input(t, what, layout, width, height, count) ==
    [track |-> t, what |-> what, layout |-> layout, width |-> width, height |-> height, count |-> count]
\* A frame of one pixel, an access unit, one sample; video for the audio track, in
\* another layout; pixels whose u32 length wraps to zero.
MCInputs ==
    {Input(v, "video", "rgba", 1, 1, 4), Input(v, "encoded", "h264", 1, 1, 1),
     Input(a, "audio", "", 1, 1, 1), Input(a, "video", "rgb", 1, 1, 3),
     Input(v, "video", "bgra", 4, 4, 64)}

Ask(text, objects, bytes) == [text |-> text, objects |-> objects, bytes |-> bytes]
MCAsks ==
    {Ask("well_formed", TRUE, 1), Ask("well_formed", TRUE, 4),
     Ask("well_formed", FALSE, 1), Ask("unknown_key", TRUE, 1)}

Reply(payload, failure, ran, tracks) ==
    [payload |-> payload, failure |-> failure, code |-> "", ran |-> ran, step |-> 5, elapsed |-> 1,
     error |-> IF failure = "failed" THEN <<1, 0, 2>> ELSE Null,
     files |-> <<[name |-> <<3, 0>>, content_type |-> <<0, 4>>, size |-> 7]>>, tracks |-> tracks]
Raw(dtype, data) == [encoding |-> "raw", dtype |-> dtype, shape |-> <<1, 2>>, data |-> data,
                     metadata |-> <<5>>, time |-> IF dtype = "int16" THEN 4 ELSE Null]
Video(frames) == [name |-> <<1, 2>>, kind |-> "video", rate |-> 24, frames |-> frames]
Audio == [name |-> <<4>>, kind |-> "audio", rate |-> 0, frames |-> <<Raw("int16", <<1, 2, 3, 4>>)>>]
Good == <<Video(<<Raw("uint8", <<6, 7>>), Raw("uint8", <<8, 9>>)>>), Audio>>
MCReplies ==
    {Reply("step_result", "unspecified", TRUE, Good), Reply("step_result", "failed", TRUE, <<>>),
     Reply("step_result", "unspecified", TRUE,
           <<Video(<<Raw("int16", <<6, 7>>), [Raw("uint8", <<6>>) EXCEPT !.encoding = "h264"]>>)>>),
     Reply("step_result", "command_failed", FALSE, <<>>),
     Reply("step_result", "newer", TRUE, <<>>),
     [Reply("error", "unspecified", TRUE, <<>>) EXCEPT !.code = "step_refused"]}
=============================================================================
