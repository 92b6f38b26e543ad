----------------------------- MODULE AgentStream -----------------------------
(***************************************************************************)
(* The stream readers of the gateway client (gateway/client.go):           *)
(* InvokeAgentStream, which takes another agent's Server-Sent Events       *)
(* apart, and ChatCompletionStream, which decodes one chunk after the      *)
(* other.  Each hands what it reads to the caller through a bounded        *)
(* channel, from a goroutine that must end with the body or the context.   *)
(*                                                                         *)
(* A line of the body is known by its kind: a piece of an event's data, an *)
(* empty piece, the [DONE] sentinel, a blank separator, or one that is     *)
(* ignored.  The connection may end after any line or inside one; a piece  *)
(* that was cut there is its own kind.  For the chunks of a completion a   *)
(* "data" line is a chunk and every other one cannot be decoded.           *)
(***************************************************************************)
EXTENDS Naturals, SequencesExt

CONSTANTS
    MaxLines,   \* bound: lines of the body
    Cap         \* buffer of the channel (16)

ASSUME AgentStreamAssumption == MaxLines \in Nat /\ Cap \in Nat \ {0}

VARIABLES
    form,       \* "events" (InvokeAgentStream) or "chunks" (ChatCompletionStream)
    body,       \* the lines the connection delivers
    pos,        \* lines read
    dataLines,  \* pieces of the event being read
    reader,     \* where the goroutine is: "scan", "send", "last" (the trailing send) or "over"
    event,      \* what it is sending
    ch,         \* the channel's buffer
    received,   \* what the caller has taken
    ctxDone,    \* the caller's context has ended
    caller      \* "receiving" or "gone"

streamVars == <<form, body, pos, dataLines, reader, event, ch, received, ctxDone, caller>>

Pieces == {"data", "empty", "done", "torn"}
Kinds == {"data", "empty", "done", "blank", "other"}
piece(n) == [line |-> n, kind |-> body[n]]

\* A body, whole or cut inside its last line.
Cuttable(b) == b # <<>> /\ Last(b) \in {"data", "done"}
Bodies == LET whole == UNION {[1..n -> Kinds] : n \in 0..MaxLines}
          IN  whole \cup {[b EXCEPT ![Len(b)] = "torn"] : b \in {w \in whole : Cuttable(w)}}

Piece == [line : Nat, kind : Pieces]
Data == Seq(Piece)   \* of one event

StreamTypeOK ==
    /\ form \in {"events", "chunks"}
    /\ body \in Bodies
    /\ pos \in 0..Len(body)
    /\ dataLines \in Data
    /\ reader \in {"scan", "send", "last", "over"}
    /\ event \in Data
    /\ ch \in Seq(Data) /\ Len(ch) <= Cap
    /\ received \in Seq(Data)
    /\ ctxDone \in BOOLEAN
    /\ caller \in {"receiving", "gone"}

StreamInit ==
    /\ form \in {"events", "chunks"}
    /\ body \in Bodies
    /\ pos = 0
    /\ dataLines = <<>>
    /\ reader = "scan"
    /\ event = <<>>
    /\ ch = <<>>
    /\ received = <<>>
    /\ ctxDone = FALSE
    /\ caller = "receiving"

-----------------------------------------------------------------------------
\* The reading goroutine.

\* The pieces joined and trimmed: empty pieces at either end are white space.
trimmed(lines) ==
    LET solid == {k \in 1..Len(lines) : lines[k].kind # "empty"}
    IN  IF solid = {} THEN <<>> ELSE SubSeq(lines, Min(solid), Max(solid))
skipped(data) == data = <<>> \/ (Len(data) = 1 /\ data[1].kind = "done")

\* Mutant: the pieces of an event are kept for the next one.
MutKeepPieces(lines) == lines
afterFlush(lines) == <<>>

\* flush: what has been gathered goes out, unless it is nothing or [DONE].
flush(lines, sending, idle) ==
    LET data == trimmed(lines)
    IN  /\ dataLines' = afterFlush(lines)
        /\ IF skipped(data) THEN reader' = idle /\ event' = <<>>
           ELSE reader' = sending /\ event' = data

\* One line of the SSE framing.
scanLine ==
    /\ form = "events" /\ reader = "scan" /\ pos < Len(body)
    /\ pos' = pos + 1
    /\ IF ctxDone THEN reader' = "over" /\ UNCHANGED <<dataLines, event>>
       ELSE CASE body[pos'] = "blank" -> flush(dataLines, "send", "scan")
              [] body[pos'] \in Pieces ->
                     dataLines' = Append(dataLines, piece(pos')) /\ UNCHANGED <<reader, event>>
              [] OTHER -> UNCHANGED <<dataLines, reader, event>>
    /\ UNCHANGED <<form, body, ch, received, ctxDone, caller>>

\* The body has ended, was cut, or held a line over the scanner's cap: all
\* look alike, and what was gathered goes out as an event.  A context that
\* ends closes the body too, before its end.
scanEnds ==
    /\ form = "events" /\ reader = "scan"
    /\ pos = Len(body) \/ ctxDone
    /\ flush(dataLines, "last", "over")
    /\ UNCHANGED <<form, body, pos, ch, received, ctxDone, caller>>

\* dec.Decode: a chunk, or the end of the stream.
anotherChunk == pos < Len(body) /\ body[pos + 1] = "data"
decodeChunk ==
    /\ form = "chunks" /\ reader = "scan"
    /\ \/ /\ anotherChunk
          /\ pos' = pos + 1
          /\ reader' = "send"
          /\ event' = <<piece(pos')>>
       \/ /\ ~anotherChunk \/ ctxDone
          /\ reader' = "over"
          /\ UNCHANGED <<pos, event>>
    /\ UNCHANGED <<form, body, dataLines, ch, received, ctxDone, caller>>

sent == reader' = (IF reader = "last" THEN "over" ELSE "scan") /\ event' = <<>>

\* The select: the channel has room, or the context has ended.  Only the
\* chunk reader returns then; the other finds out at its next line.
send ==
    /\ reader \in {"send", "last"}
    /\ Len(ch) < Cap
    /\ ch' = Append(ch, event)
    /\ sent
    /\ UNCHANGED <<form, body, pos, dataLines, received, ctxDone, caller>>

\* Mutant: the send waits for the caller alone.
MutBlockingSend == FALSE
canceled == ctxDone

sendCanceled ==
    /\ reader \in {"send", "last"}
    /\ canceled
    /\ IF form = "chunks" THEN reader' = "over" /\ event' = <<>> ELSE sent
    /\ UNCHANGED <<form, body, pos, dataLines, ch, received, ctxDone, caller>>

-----------------------------------------------------------------------------
\* The caller (external): it takes what comes, or ends its context and leaves.

Receive ==
    /\ caller = "receiving" /\ ch # <<>>
    /\ received' = Append(received, Head(ch))
    /\ ch' = Tail(ch)
    /\ UNCHANGED <<form, body, pos, dataLines, reader, event, ctxDone, caller>>

Cancel ==
    /\ ~ctxDone
    /\ ctxDone' = TRUE
    /\ caller' \in {"receiving", "gone"}
    /\ UNCHANGED <<form, body, pos, dataLines, reader, event, ch, received>>

Reader == scanLine \/ scanEnds \/ decodeChunk \/ send \/ sendCanceled
StreamNext == Reader \/ Receive \/ Cancel

\* The goroutine runs, and a caller that has not left goes on receiving.
StreamSpec == /\ StreamInit /\ [][StreamNext]_streamVars
              /\ WF_streamVars(Reader) /\ WF_streamVars(Receive)

-----------------------------------------------------------------------------
\* Properties.

\* The events of a body by their definition, as sets of lines: between two
\* neighbouring bounds, which are blank lines or an end of the body, the data
\* lines from the first to the last that is not empty; but not [DONE] alone.
bounds == {0, Len(body) + 1} \cup {k \in 1..Len(body) : body[k] = "blank"}
neighbours(a, z) == a < z /\ \A k \in bounds : k <= a \/ k >= z
solid(l) == body[l] \in Pieces \ {"empty"}
content(a, z) == {l \in (a + 1)..(z - 1) : /\ body[l] \in Pieces
                                         /\ \E f \in (a + 1)..l : solid(f)
                                         /\ \E g \in l..(z - 1) : solid(g)}
worthless(L) == L = {} \/ \E l \in L : L = {l} /\ body[l] = "done"
Frames == {F \in SUBSET (1..Len(body)) :
              ~worthless(F) /\ \E a, z \in bounds : neighbours(a, z) /\ F = content(a, z)}

\* The chunks: the lines before the first that cannot be decoded.
Chunks == {{k} : k \in {n \in 1..Len(body) : \A l \in 1..n : body[l] = "data"}}

Expected == IF form = "events" THEN Frames ELSE Chunks
linesOf(e) == {e[k].line : k \in 1..Len(e)}
before(F, G) == \A k \in F, l \in G : k < l
wellFormed(e) == /\ \A k \in 1..Len(e) : e[k] = piece(e[k].line)
                 /\ \A j, k \in 1..Len(e) : j < k => e[j].line < e[k].line

\* Every event is handed over whole, once and in order: a caller that stays
\* has, at any time, a beginning of the events of the body and, when the
\* goroutine is over, all of them.
\* [client.go InvokeAgentStream, ChatCompletionStream]
EventsFramed ==
    LET handed == received \o ch
        isHanded(F) == \E j \in 1..Len(handed) : linesOf(handed[j]) = F
    IN  ~ctxDone =>
            /\ \A i \in 1..Len(handed) : wellFormed(handed[i]) /\ linesOf(handed[i]) \in Expected
            /\ \A i, j \in 1..Len(handed) : i < j => before(linesOf(handed[i]), linesOf(handed[j]))
            /\ \A F \in Expected :
                   reader = "over" \/ (\E i \in 1..Len(handed) : before(F, linesOf(handed[i])))
                   => isHanded(F)

\* The goroutine ends, and with it the connection, whether the caller takes
\* everything, stops taking after ending its context, or only ends it.
\* [client.go, the goroutines' select and ctx.Err]
ReaderEnds == <>(reader = "over")
=============================================================================
