----------------------------- MODULE StdioServer -----------------------------
(***************************************************************************)
(* The server thread from stdin to stdout: serve_stdio's reader, which     *)
(* takes JSON lines and Content-Length frames from one stream, JSON-RPC    *)
(* dispatch, the outcome of a tool call, and the telemetry record that is  *)
(* written before the answer, on a disk that may refuse it.                *)
(*                                                                         *)
(* The stream is a sequence of lines and bodies; a request is known by its *)
(* id and by how far it gets.  A body has no newline in it, and something  *)
(* to see; together with a line it makes no JSON and no header of length.  *)
(***************************************************************************)
EXTENDS Naturals, SequencesExt

CONSTANTS
    Streams,      \* sequences of messages a client may send
    Ids,          \* the ids of requests
    MaxFaults,    \* bound: telemetry writes that fail
    NoId          \* the id null

(* How far a request gets: not UTF-8; not JSON; not an object; refused by  *)
(* JSON-RPC; the initialized notification; a method other than tools/call; *)
(* tools/call refused before its handler; tools/call.                      *)
Kinds == {"undecodable", "unparsable", "no_object", "refused", "initialized",
          "method", "bad_call", "call"}

Requests == [id : Ids \cup {NoId}, kind : Kinds]

(* What a client writes: a request on a line that begins with { or [, or   *)
(* in a frame, whose body may begin with anything else ("bare"); a frame it *)
(* died in before the body ("cut"), a header block without a length, an    *)
(* empty line, and lines that belong to no message, without and with a     *)
(* colon.                                                                  *)
Forms == {"line", "frame", "bare", "cut", "no_length", "blank", "stray", "colon"}
Messages == [form : Forms, req : Requests]

Carries(m) == m.form \in {"line", "frame", "bare"}

(* A request is known by its id: no two of a stream share one.  What does  *)
(* not begin with { is no JSON object.  A client that dies in a frame      *)
(* writes nothing behind it.                                               *)
ASSUME StreamsAssumption ==
    /\ NoId \notin Ids
    /\ Streams \subseteq Seq(Messages)
    /\ \A s \in Streams : \A i, j \in DOMAIN s :
          /\ s[i].req.id \in Ids <=> Carries(s[i])
          /\ Carries(s[i]) /\ s[i].req.id = s[j].req.id => i = j
          /\ s[i].form = "bare" =>
                 s[i].req.kind \in {"undecodable", "unparsable", "no_object"}
          /\ s[i].form = "cut" => i = Len(s)

ASSUME MaxFaultsAssumption == MaxFaults \in Nat

VARIABLES
    sent,       \* the messages the client sends
    input,      \* the lines and bodies they are made of
    pos,        \* the next one
    pc,         \* where the server thread is
    headers,    \* header_lines: which of a length, any other header and
                \* a line that is none ("stray") are among them
    request,    \* the request being handled
    framing,    \* how it was framed
    out,        \* responses written
    log,        \* records in the telemetry file
    buffer,     \* records a failed flush left in the file's buffer
    faults      \* failed flushes so far

vars == <<sent, input, pos, pc, headers, request, framing, out, log, buffer, faults>>
readerVars == <<sent, input, pos, headers, request, framing>>
diskVars == <<log, buffer, faults>>

(* What a tool's handler comes to. *)
Outcomes == {"ok", "unserializable", "backend_error", "exception"}
Succeeded == {"ok", "unserializable"}

Item(type, req) == [type |-> type, req |-> req]
NoRequest == [id |-> NoId, kind |-> "method"]
Sep(type) == Item(type, NoRequest)

(* The lines and bodies of a message.  A body has no newline behind it. *)
Lines(m) ==
    CASE m.form = "line" -> <<Item("json", m.req)>>
      [] m.form = "frame" -> <<Sep("length"), Sep("blank"), Item("body", m.req)>>
      [] m.form = "bare" -> <<Sep("length"), Sep("blank"), Item("bare", m.req)>>
      [] m.form = "cut" -> <<Sep("length"), Sep("blank")>>
      [] m.form = "no_length" -> <<Sep("header"), Sep("blank")>>
      [] m.form = "blank" -> <<Sep("blank")>>
      [] m.form = "stray" -> <<Sep("stray")>>
      [] m.form = "colon" -> <<Sep("header")>>

Input(s) == FlattenSeq([i \in DOMAIN s |-> Lines(s[i])])

Framings == {"line", "content-length"}
Responses == [id : Ids \cup {NoId}, kind : {"result", "not_json", "tool_error", "rpc_error"},
              framing : Framings]
Records == [id : Ids \cup {NoId}, status : {"ok", "error", "pre_dispatch_error"}]

TypeOK ==
    /\ pos \in 1..(Len(input) + 1)
    /\ pc \in {"start", "headers", "body", "handle", "rescue", "eof", "dead"}
    /\ headers \subseteq {"length", "header", "stray"}
    /\ request \in Requests /\ framing \in Framings
    /\ out \in Seq(Responses)
    /\ log \in Seq(Records) /\ buffer \in Seq(Records)
    /\ faults \in 0..MaxFaults
    /\ faults = 0 => buffer = <<>>

Init ==
    /\ sent \in Streams
    /\ input = Input(sent)
    /\ pos = 1
    /\ pc = "start"
    /\ headers = {}
    /\ request = NoRequest
    /\ framing = "line"
    /\ out = <<>>
    /\ log = <<>>
    /\ buffer = <<>>
    /\ faults = 0

-----------------------------------------------------------------------------
(* Responses and records. *)

(* Mutant: responses are always written as lines. *)
Mirrored_Line == "line"

(* serve_stdio answers in the framing of the request ... *)
Mirrored == framing

Response(id, kind, frame) == [id |-> id, kind |-> kind, framing |-> frame]

Respond(id, kind) ==
    /\ out' = Append(out, Response(id, kind, Mirrored))
    /\ pc' = "start"

(* ... and what the reader cannot make a request of with a line.  No       *)
(* record is written for it.                                               *)
FramingError ==
    /\ out' = Append(out, Response(NoId, "rpc_error", "line"))
    /\ pc' = "start"
    /\ UNCHANGED diskVars

Record(status) == [id |-> request.id, status |-> status]

(* Telemetry.emit: the record and whatever the buffer still held reach the *)
(* file, or the flush raises OSError and the buffer keeps them.            *)
Recorded(status) ==
    /\ log' = log \o buffer \o <<Record(status)>>
    /\ buffer' = <<>>
    /\ UNCHANGED faults

Unrecorded(status) ==
    /\ faults < MaxFaults
    /\ faults' = faults + 1
    /\ buffer' = Append(buffer, Record(status))
    /\ UNCHANGED log

-----------------------------------------------------------------------------
(* _read_stdio_request *)

More == pos <= Len(input)
At(type) == More /\ input[pos].type = type

Skip(n) == pos' = pos + n

(* readline at the end of the stream: serve_stdio returns, the telemetry   *)
(* file is closed, which tries its buffer once more.                       *)
EndOfInput ==
    /\ pc = "start"
    /\ ~More
    /\ pc' = "eof"
    /\ \/ log' = log \o buffer /\ buffer' = <<>>
       \/ buffer # <<>> /\ UNCHANGED <<log, buffer>>
    /\ UNCHANGED <<readerVars, out, faults>>

SkipBlank ==
    /\ pc = "start"
    /\ At("blank")
    /\ Skip(1)
    /\ UNCHANGED <<sent, input, pc, headers, request, framing, out, diskVars>>

(* A request that was read as a line, or as a frame. *)
Accept(req, frame) ==
    /\ UNCHANGED <<sent, input, headers>>
    /\ IF req.kind = "undecodable"
       THEN FramingError /\ UNCHANGED <<request, framing>>
       ELSE /\ request' = req
            /\ framing' = frame
            /\ pc' = "handle"
            /\ UNCHANGED <<out, diskVars>>

JsonLine ==
    /\ pc = "start"
    /\ At("json")
    /\ Skip(1)
    /\ Accept(input[pos].req, "line")

(* The reader can be out of step and meet a body where a line should       *)
(* start: readline takes it together with the line behind it.              *)
(* Mutant: as if there were always one.                                    *)
Taken_PastEnd == 2

Taken == IF pos < Len(input) THEN 2 ELSE 1

(* What the two make as a request: none, unless that line is empty. *)
Joined ==
    IF pos = Len(input) \/ input[pos + 1].type = "blank" THEN input[pos].req
    ELSE [id   |-> NoId,
          kind |-> IF "undecodable" \in {input[pos].req.kind, input[pos + 1].req.kind}
                   THEN "undecodable" ELSE "unparsable"]

(* It is taken for a JSON line if it begins like one, *)
BodyAsLine ==
    /\ pc = "start"
    /\ At("body")
    /\ Skip(Taken)
    /\ Accept(Joined, "line")

(* What a line is in a header block.  One that was not meant for a header  *)
(* may have a colon or not, and be ASCII or not.                           *)
Headings(type, kind) ==
    IF type \in {"length", "header", "stray"} THEN {type}
    ELSE IF kind = "undecodable" THEN {"stray"}
    ELSE {"header", "stray"}

(* and otherwise for the first line of a header block, as any other line   *)
(* is.  Behind an empty line the body swallows, the block goes on.         *)
BodyOpensHeaders ==
    /\ pc = "start"
    /\ At("bare")
    /\ Skip(Taken)
    /\ \E h \in Headings("bare", Joined.kind) : headers' = {h}
    /\ pc' = "headers"
    /\ UNCHANGED <<sent, input, request, framing, out, diskVars>>

OpenHeaders ==
    /\ pc = "start"
    /\ More
    /\ input[pos].type \in {"length", "header", "stray"}
    /\ Skip(1)
    /\ headers' = {input[pos].type}
    /\ pc' = "headers"
    /\ UNCHANGED <<sent, input, request, framing, out, diskVars>>

(* Every line up to an empty one is taken for a header, JSON or not. *)
HeaderLine ==
    /\ pc = "headers"
    /\ More
    /\ ~At("blank")
    /\ Skip(1)
    /\ \E h \in Headings(input[pos].type, input[pos].req.kind) :
          headers' = headers \cup {h}
    /\ UNCHANGED <<sent, input, pc, request, framing, out, diskVars>>

(* Mutant: an empty line does not end a block without a length. *)
EndHeaders_NeedsLength ==
    /\ pc = "headers"
    /\ At("blank")
    /\ Skip(1)
    /\ pc' = IF "length" \in headers THEN "body" ELSE "headers"
    /\ UNCHANGED <<out, diskVars, sent, input, headers, request, framing>>

(* An empty line ends the block: a line that is not ASCII or has no colon, *)
(* or no length, is an error.                                              *)
EndHeaders ==
    /\ pc = "headers"
    /\ At("blank")
    /\ Skip(1)
    /\ IF "stray" \notin headers /\ "length" \in headers
       THEN pc' = "body" /\ UNCHANGED <<out, diskVars>>
       ELSE FramingError
    /\ UNCHANGED <<sent, input, headers, request, framing>>

ReadBody ==
    /\ pc = "body"
    /\ At("body") \/ At("bare")
    /\ Skip(1)
    /\ Accept(input[pos].req, "content-length")

(* The stream ends inside headers or before the body. *)
CutShort ==
    /\ pc \in {"headers", "body"}
    /\ ~More
    /\ FramingError
    /\ UNCHANGED readerVars

Reader == EndOfInput \/ SkipBlank \/ JsonLine \/ BodyAsLine \/ BodyOpensHeaders
          \/ OpenHeaders \/ HeaderLine \/ EndHeaders \/ ReadBody \/ CutShort

-----------------------------------------------------------------------------
(* handle_json_line, handle_request, _dispatch *)

Handling(kind) == pc = "handle" /\ request.kind = kind /\ UNCHANGED readerVars

(* json.loads fails.  The record is written outside of any try: OSError    *)
(* ends serve_stdio.                                                       *)
Unparsable ==
    /\ Handling("unparsable")
    /\ \/ Recorded("pre_dispatch_error") /\ Respond(NoId, "rpc_error")
       \/ Unrecorded("pre_dispatch_error") /\ pc' = "dead" /\ UNCHANGED out

NoObject == Handling("no_object") /\ Respond(NoId, "rpc_error") /\ UNCHANGED diskVars

Refuse == Handling("refused") /\ Respond(request.id, "rpc_error") /\ UNCHANGED diskVars

Initialized == Handling("initialized") /\ pc' = "start" /\ UNCHANGED <<out, diskVars>>

Method == Handling("method") /\ Respond(request.id, "result") /\ UNCHANGED diskVars

-----------------------------------------------------------------------------
(* _dispatch_tool_call *)

(* No tool name, no arguments object, no such tool.  A failed write takes  *)
(* the place of the error; handle_request answers both alike.              *)
BadCall ==
    /\ Handling("bad_call")
    /\ Recorded("pre_dispatch_error") \/ Unrecorded("pre_dispatch_error")
    /\ Respond(request.id, "rpc_error")

(* Mutant: a backend error is recorded like a success. *)
Status_Ok(o) == "ok"

Status(o) == IF o \in Succeeded THEN "ok" ELSE "error"

Answer(o) ==
    CASE o = "ok" -> "result" [] o = "unserializable" -> "not_json" [] OTHER -> "tool_error"

(* The handler returns or raises, the record is written, the answer goes   *)
(* out.  A payload that is no JSON is recorded ok and answered with an     *)
(* error that says so.  A write that fails after a success is caught like  *)
(* a failure of the tool; one that fails in an except clause is not.       *)
Call(o) ==
    /\ Handling("call")
    /\ \/ /\ Recorded(Status(o))
          /\ Respond(request.id, Answer(o))
       \/ /\ Unrecorded(Status(o))
          /\ \/ o \in Succeeded /\ pc' = "rescue" /\ UNCHANGED out
             \/ o \notin Succeeded /\ Respond(request.id, "rpc_error")

(* Mutant: nothing catches the second failure. *)
Rescue_Escapes ==
    /\ pc = "rescue"
    /\ \/ Recorded("error") /\ Respond(request.id, "tool_error")
       \/ Unrecorded("error") /\ pc' = "dead" /\ UNCHANGED out
    /\ UNCHANGED readerVars

(* `except Exception` of the tool call: a record of its own, and internal. *)
Rescue ==
    /\ pc = "rescue"
    /\ \/ Recorded("error") /\ Respond(request.id, "tool_error")
       \/ Unrecorded("error") /\ Respond(request.id, "rpc_error")
    /\ UNCHANGED readerVars

Handler == Unparsable \/ NoObject \/ Refuse \/ Initialized \/ Method \/ BadCall
           \/ (\E o \in Outcomes : Call(o)) \/ Rescue

Next == Reader \/ Handler

Spec == Init /\ [][Next]_vars

-----------------------------------------------------------------------------
(* Properties *)

Framed(m) == IF m.form = "line" THEN "line" ELSE "content-length"

(* The answers to a message, each as what its id and framing may be.       *)
AnswerTo(m) ==
    IF m.form \in {"cut", "no_length"} \/ m.req.kind = "undecodable"
    THEN <<{NoId} \X Framings>>
    ELSE CASE m.req.kind = "initialized" -> <<>>
           [] m.req.kind \in {"unparsable", "no_object"} -> <<{<<NoId, Framed(m)>>}>>
           [] OTHER -> <<{<<m.req.id, Framed(m)>>}>>

Expected ==
    FlattenSeq([i \in DOMAIN sent |->
                   IF sent[i].form = "blank" THEN <<>> ELSE AnswerTo(sent[i])])

(* A stream of well-formed messages is answered message by message, in     *)
(* order, however lines and frames, empty lines and truncated frames are   *)
(* mixed: a request that was read with its id and in its framing           *)
(* (serve_stdio's "mirroring line or Content-Length framing"), a message   *)
(* the reader made no request of with the id null.  The code answers those *)
(* with a line even if they were framed (server.py:530-532), which is not  *)
(* what the docstring says: no framing is claimed of them.                 *)
CleanStreamAnswered ==
    (pc = "eof" /\ \A i \in DOMAIN sent : sent[i].form \notin {"stray", "colon"}) =>
        /\ Len(out) = Len(Expected)
        /\ \A n \in DOMAIN out : <<out[n].id, out[n].framing>> \in Expected[n]

(* An empty line that no bare body has swallowed. *)
EmptyLine(j) ==
    /\ sent[j].form = "blank"
    /\ j > 1 => sent[j - 1].form # "bare"

(* Nothing but other JSON lines between it and such a line, or the start.  *)
InTheClear(i) ==
    \E j \in 0..(i - 1) :
        /\ j = 0 \/ EmptyLine(j)
        /\ \A k \in (j + 1)..i : sent[k].form = "line"

(* Answers or records without one of this id; entry n the only one of it. *)
Without(entries, id) == \A m \in DOMAIN entries : entries[m].id # id
Only(entries, n, id) == \A m \in DOMAIN entries : entries[m].id = id <=> m = n

OneLine(id) == \E n \in DOMAIN out : out[n].framing = "line" /\ Only(out, n, id)

(* Whatever a client sends before it, an empty line that does not stand    *)
(* directly behind a bare body brings the reader back in step, two empty   *)
(* lines always: the requests on the lines behind it are answered, each    *)
(* once and as a line (_read_stdio_request ends a header block, good or    *)
(* bad, at an empty line; a bare body met where a line should start takes  *)
(* the one behind it into a block of its own).                             *)
JunkIsContained ==
    pc = "eof" =>
        \A i \in DOMAIN sent :
            (InTheClear(i) /\ sent[i].req.kind \in {"refused", "method", "bad_call", "call"}) =>
                OneLine(sent[i].req.id)

(* How the one record, and the one answer, with this id read. *)
OneRecord(id, status) == \E n \in DOMAIN log : log[n].status = status /\ Only(log, n, id)
OneAnswer(id, kind) == \E n \in DOMAIN out : out[n].kind = kind /\ Only(out, n, id)
Both(id, status, kind) == OneRecord(id, status) /\ OneAnswer(id, kind)

Untold(id) == Without(log, id) /\ Without(out, id)

Story(req) ==
    CASE req.kind = "call" -> \/ Both(req.id, "ok", "result") \/ Both(req.id, "ok", "not_json")
                              \/ Both(req.id, "error", "tool_error")
      [] req.kind = "bad_call" -> Both(req.id, "pre_dispatch_error", "rpc_error")
      [] req.kind = "unparsable" -> /\ OneRecord(req.id, "pre_dispatch_error")
                                    /\ Without(out, req.id)
      [] OTHER -> Without(log, req.id)

(* With a healthy disk the telemetry file and the answers tell the same    *)
(* story: one record and one answer for a tools/call, of one outcome, no   *)
(* record for any other method; a payload that is no JSON counts as ok in  *)
(* the file and as an error in the answer (server.py:864-874, 1694).       *)
TelemetryMatches ==
    (faults = 0 /\ pc \in {"start", "eof"}) =>
        \A i \in DOMAIN sent :
            Carries(sent[i]) => Untold(sent[i].req.id) \/ Story(sent[i].req)

(* A disk that refuses telemetry ends the server for no request but a line *)
(* that is not JSON: around a tools/call two handlers in a row catch the   *)
(* OSError, the second one that of its own record (server.py:887-902, 702).*)
FaultsDoNotKill == pc = "dead" => request.kind = "unparsable"
=============================================================================
