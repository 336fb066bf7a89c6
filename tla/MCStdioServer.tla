---------------------------- MODULE MCStdioServer ----------------------------
(***************************************************************************)
(* Every stream of up to three messages, and of five in which the requests *)
(* differ in their framing only.  The id of a request is its place in the  *)
(* stream.                                                                 *)
(***************************************************************************)
EXTENDS StdioServer

Written == {<<form, kind>> : form \in {"line", "frame"}, kind \in Kinds}
         \cup {<<"bare", kind>> : kind \in {"undecodable", "unparsable", "no_object"}}
         \cup {<<form, "method">> : form \in {"no_length", "blank", "stray", "colon"}}
Final == Written \cup {<<"cut", "method">>}

Message(n, f) ==
    [form |-> f[1],
     req |-> [id |-> IF f[1] \in {"line", "frame", "bare"} THEN n ELSE NoId, kind |-> f[2]]]

Plain == {f \in Written : f[2] = "method"} \cup {<<"line", "undecodable">>, <<"bare", "unparsable">>}

MCIds == 1..5

MCStreams ==
    {[n \in 1..5 |-> Message(n, fs[n])] : fs \in [1..5 -> Plain]}
    \cup
    {<<Message(1, f)>> : f \in Final}
    \cup {<<Message(1, f), Message(2, g)>> : f \in Written, g \in Final}
    \cup {<<Message(1, f), Message(2, g), Message(3, h)>> :
             f \in Written, g \in Written, h \in Final}
=============================================================================
