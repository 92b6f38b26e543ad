------------------------ MODULE TransferWriterProofs ------------------------
(***************************************************************************)
(* The safety invariants of TransferWriter, for every set of records, line *)
(* lengths, inline limit and bound.                                        *)
(***************************************************************************)
EXTENDS TransferWriter, FiniteSetTheorems, SequenceTheorems, TLAPS

\* What holds of a body as long as no byte of it was lost: the hash is that of
\* the place the body lives in, and a body in memory respects the limit.
BodyOK(b) ==
    /\ b \in Body
    /\ b.spool = "nil" => b.spooled = <<>>
    /\ ~b.err /\ b.spool = "nil" => b.hash = b.buf /\ b.size <= InlineBodyLimit
    /\ ~b.err /\ b.spool # "nil" => b.hash = b.spooled /\ b.buf = <<>>

Held == ~closed \/ pc # "idle"

\* Where Close is, and what may already be outside the process there.
PhaseInv ==
    /\ ~closed => /\ pc = "idle" /\ result = "none" /\ reply = "none"
                  /\ wire = {} /\ staged = {} /\ accepted = <<>>
    /\ pc # "idle" => closed /\ ~optErr /\ ~discarded /\ ~body.err /\ result = "none"
    /\ pc \in {"prepare", "put"} => /\ body.spool # "nil" /\ wire = {}
                                    /\ reply = "none" /\ accepted = <<>>
    /\ optErr \/ discarded \/ body.err => accepted = <<>> /\ wire = {}

\* At most one request or artifact exists, and what it says of the answer.
OneInv ==
    /\ \A p, q \in wire : p = q
    /\ wire # {} => accepted = <<>> /\ reply = "none"
    /\ Len(accepted) <= 1
    /\ reply = "job" => Len(accepted) = 1
    /\ result = "receipt" => Len(accepted) = 1

\* The body between Write and Close, and after it.
BodyInv ==
    /\ Held => BodyOK(body)
    /\ Held /\ ~body.err => Framed(body.hash, headers, acked)
    /\ ~Held => body.buf = <<>> /\ body.spool = "nil"
    /\ count = Len(acked)

\* A request carries the records acknowledged so far and none is added later.
Faithful(q) ==
    /\ Framed(q.hash, headers, acked)
    /\ q.count = count

OutInv ==
    /\ \A q \in wire : /\ Faithful(q)
                       /\ q.mode = "inline" => q.size <= InlineBodyLimit
                       /\ q.mode = "presigned" => staged = {q.content}
    /\ \A i \in 1..Len(accepted) :
          /\ Faithful(accepted[i]) /\ accepted[i].content = accepted[i].hash
          /\ accepted[i].mode = "inline" => accepted[i].size <= InlineBodyLimit

IInv == TypeOK /\ PhaseInv /\ OneInv /\ BodyInv /\ OutInv

-----------------------------------------------------------------------------
\* startSpool keeps the hash and size; unless it fails, the file holds the body.
LEMMA StartSpoolKeepsBody ==
    ASSUME NEW b, BodyOK(b), ~b.err, b.spool = "nil", NEW c \in startSpool(b)
    PROVE  /\ BodyOK(c)
           /\ ~c.err => c.spool # "nil" /\ c.hash = b.hash
  <1>1. CASE c = [b EXCEPT !.err = TRUE]
    BY <1>1 DEF BodyOK, Body, SpoolKind
  <1>2. ASSUME NEW s \in {"unlinked", "named"}, c = [b EXCEPT !.spool = s, !.err = TRUE]
        PROVE  BodyOK(c) /\ c.err
    BY <1>2 DEF BodyOK, Body, SpoolKind
  <1>3. ASSUME NEW s \in {"unlinked", "named"},
               c = [b EXCEPT !.spool = s, !.spooled = b.buf, !.buf = <<>>]
        PROVE  BodyOK(c) /\ c.spool # "nil" /\ c.hash = b.hash
    BY <1>3 DEF BodyOK, Body, SpoolKind
  <1>4. \/ c = [b EXCEPT !.err = TRUE]
        \/ \E s \in {"unlinked", "named"} : c = [b EXCEPT !.spool = s, !.err = TRUE]
        \/ \E s \in {"unlinked", "named"} :
              c = [b EXCEPT !.spool = s, !.spooled = b.buf, !.buf = <<>>]
    BY Zenon DEF startSpool
  <1>5. CASE c = [b EXCEPT !.err = TRUE]
    <2>1. c.err = TRUE  BY <1>5 DEF BodyOK, Body
    <2> QED  BY <1>1, <1>5, <2>1
  <1> QED  BY <1>2, <1>3, <1>4, <1>5

\* A line is hashed and counted exactly where it landed.
LEMMA AppendToKeepsBody ==
    ASSUME NEW b, BodyOK(b), NEW line \in Line,
           b.spool = "nil" => b.size + LineLen[line] <= InlineBodyLimit \/ b.err,
           NEW c \in appendTo(b, line)
    PROVE  /\ BodyOK(c)
           /\ b.err => c.err
           /\ ~c.err => c.hash = Append(b.hash, line)
  <1>0. LineLen[line] \in Nat /\ InlineBodyLimit \in Nat  BY WriterAssumption
  <1>1. CASE b.err
    BY <1>1 DEF appendTo
  <1>2. CASE ~b.err /\ b.spool = "nil"
    <2>1. c = [b EXCEPT !.buf = Append(@, line), !.hash = Append(@, line),
                        !.size = @ + LineLen[line]]
      BY <1>2 DEF appendTo, landIn
    <2>2. c = [size |-> b.size + LineLen[line], buf |-> Append(b.buf, line),
               spool |-> b.spool, spooled |-> b.spooled,
               hash |-> Append(b.hash, line), err |-> b.err]
      BY <2>1 DEF BodyOK, Body
    <2>3. c \in Body  BY <1>0, <2>2 DEF BodyOK, Body
    <2> QED  BY <1>0, <1>2, <2>2, <2>3 DEF BodyOK
  <1>3. CASE ~b.err /\ b.spool # "nil"
    <2>0. c = landIn(b, line) \/ c = [b EXCEPT !.err = TRUE]
      BY <1>3 DEF appendTo
    <2>1. CASE c = landIn(b, line)
      <3>1. c = [size |-> b.size + LineLen[line], buf |-> b.buf,
                 spool |-> b.spool, spooled |-> Append(b.spooled, line),
                 hash |-> Append(b.hash, line), err |-> b.err]
        BY <1>3, <2>1 DEF landIn, BodyOK, Body
      <3>2. c \in Body  BY <1>0, <3>1 DEF BodyOK, Body
      <3> QED  BY <1>0, <1>3, <3>1, <3>2 DEF BodyOK
    <2>2. CASE c = [b EXCEPT !.err = TRUE]
      <3>1. c = [size |-> b.size, buf |-> b.buf, spool |-> b.spool,
                 spooled |-> b.spooled, hash |-> b.hash, err |-> TRUE]
        BY <2>2 DEF BodyOK, Body
      <3>2. c \in Body  BY <3>1 DEF BodyOK, Body
      <3> QED  BY <1>3, <3>1, <3>2 DEF BodyOK
    <2> QED  BY <2>0, <2>1, <2>2
  <1> QED  BY <1>1, <1>2, <1>3 DEF BodyOK, Body

\* appendBody either adds the line to body and hash alike, or records the error.
LEMMA AppendBodyKeepsBody ==
    ASSUME NEW b, BodyOK(b), ~b.err, NEW line \in Line, NEW c \in appendBody(b, line)
    PROVE  /\ BodyOK(c)
           /\ ~c.err => c.hash = Append(b.hash, line)
  <1>0. LineLen[line] \in Nat /\ InlineBodyLimit \in Nat /\ b.size \in Nat
    BY WriterAssumption DEF BodyOK, Body
  <1>1. CASE mustSpool(b, line)
    <2>1. PICK m \in startSpool(b) : c \in appendTo(m, line)  BY <1>1 DEF appendBody
    <2>2. BodyOK(m) /\ (~m.err => m.spool # "nil" /\ m.hash = b.hash)
      BY <1>1, StartSpoolKeepsBody DEF mustSpool
    <2>3. m.err \in BOOLEAN  BY <2>2 DEF BodyOK, Body
    <2>4. m.spool = "nil" => m.size + LineLen[line] <= InlineBodyLimit \/ m.err
      BY <2>2, <2>3
    <2>5. /\ BodyOK(c)
          /\ m.err => c.err
          /\ ~c.err => c.hash = Append(m.hash, line)
      BY <2>1, <2>2, <2>4, AppendToKeepsBody
    <2> QED  BY <2>2, <2>3, <2>5
  <1>2. CASE ~mustSpool(b, line)
    <2>1. c \in appendTo(b, line)  BY <1>2 DEF appendBody
    <2>2. b.spool = "nil" => b.size + LineLen[line] <= InlineBodyLimit \/ b.err
      BY <1>0, <1>2 DEF mustSpool
    <2> QED  BY <2>1, <2>2, AppendToKeepsBody
  <1> QED  BY <1>1, <1>2

\* One more header, as long as there is no record.
LEMMA FramedHeader ==
    ASSUME NEW s \in Seq(Line), NEW k \in Nat, Framed(s, k, <<>>)
    PROVE  Framed(Append(s, Header), k + 1, <<>>)
  BY DEF Framed, Line

\* A record appended to both sides of a framed body keeps it framed.
LEMMA FramedRecord ==
    ASSUME NEW s \in Seq(Line), NEW k \in Nat, NEW recs \in Seq(Writable), NEW r \in Record,
           Framed(s, k, recs)
    PROVE  Framed(Append(s, r), k, Append(recs, r))
  <1>1. r \in Line /\ Len(s) = k + Len(recs) /\ Len(recs) \in Nat  BY DEF Framed, Line
  <1>2. Len(Append(recs, r)) = Len(recs) + 1 /\ Len(Append(s, r)) = Len(s) + 1
    BY <1>1
  <1>3. \A i \in 1..k : Append(s, r)[i] = Header
    BY <1>1 DEF Framed
  <1>4. ASSUME NEW i \in 1..Len(recs) + 1  PROVE Append(s, r)[k + i] = Append(recs, r)[i]
    <2>1. CASE i = Len(recs) + 1
      BY <2>1, <1>1
    <2>2. CASE i # Len(recs) + 1
      <3>1. i \in 1..Len(recs) /\ k + i \in 1..Len(s)  BY <2>2, <1>1
      <3>2. s[k + i] = recs[i]  BY <3>1 DEF Framed
      <3> QED  BY <3>1, <3>2, <1>1
    <2> QED  BY <2>1, <2>2
  <1>5. Len(Append(s, r)) = k + Len(Append(recs, r))  BY <1>1, <1>2
  <1> QED  BY <1>2, <1>3, <1>4, <1>5 DEF Framed

\* releaseBody empties the body and keeps the hash, the size and the error.
LEMMA ReleaseKeepsRest ==
    ASSUME NEW b \in Body
    PROVE  /\ releaseBody(b) \in Body
           /\ releaseBody(b).buf = <<>> /\ releaseBody(b).spool = "nil"
           /\ releaseBody(b).err = b.err
  BY EmptySeq DEF releaseBody, Body, SpoolKind

-----------------------------------------------------------------------------
\* The invariant is inductive.

\* A new writer satisfies it: nothing is written, sent or stored.
LEMMA InvInit == Init => IInv
  <1> SUFFICES ASSUME Init PROVE IInv  OBVIOUS
  <1> USE DEF Init, EmptyBody
  <1>0. EmptyBody \in Body  BY DEF Body, SpoolKind
  <1>1. TypeOK
    <2>1. body \in Body  BY <1>0
    <2>2. acked \in Seq(Writable) /\ accepted \in Seq(Request)  BY EmptySeq
    <2> QED  BY <2>1, <2>2, Zenon DEF TypeOK
  <1>2. PhaseInv  BY DEF PhaseInv
  <1>3. OneInv  BY DEF OneInv
  <1>4. BodyInv
    <2>1. BodyOK(body)  BY <1>0, WriterAssumption DEF BodyOK
    <2>2. Framed(<<>>, 0, <<>>)  BY DEF Framed
    <2> QED  BY <2>1, <2>2 DEF BodyInv, Held, headers
  <1>5. OutInv  BY DEF OutInv
  <1> QED  BY <1>1, <1>2, <1>3, <1>4, <1>5 DEF IInv

\* A write on a usable writer adds the record to the body and to acked alike,
\* or leaves the error behind.
LEMMA InvWrite ==
    ASSUME IInv, NEW r \in Record, Write(r)
    PROVE  IInv'
  <1> USE DEF IInv
  <1>1. /\ ~closed /\ ~body.err /\ ~optErr /\ ~discarded
        /\ BodyOK(body) /\ Framed(body.hash, headers, acked) /\ count = Len(acked)
        /\ acked \in Seq(Writable) /\ r \notin Invalid /\ misfits \in Nat
        /\ pc = "idle" /\ result = "none" /\ reply = "none"
        /\ wire = {} /\ staged = {} /\ accepted = <<>>
    BY DEF Write, Valid, Usable, BodyInv, Held, PhaseInv, TypeOK
  <1>2. UNCHANGED <<optErr, closed, discarded, pc, result, platformVars>>
    BY DEF Write
  <1>3. Header \in Line /\ r \in Line  BY DEF Line
  <1>4. PICK b \in IF headerNeeded THEN appendBody(body, Header) ELSE {body} :
          IF b.err \/ r \in Unmarshalable
          THEN /\ body' = b
               /\ misfits' = IF headerNeeded /\ ~b.err THEN misfits + 1 ELSE misfits
               /\ UNCHANGED <<count, acked>>
          ELSE \E c \in appendBody(b, r) :
                 /\ body' = c
                 /\ count' = IF c.err THEN count ELSE count + 1
                 /\ acked' = IF c.err THEN acked ELSE Append(acked, r)
                 /\ UNCHANGED misfits
    BY DEF Write
  <1> DEFINE k == IF headerNeeded THEN misfits + 1 ELSE headers
  <1>5. /\ BodyOK(b) /\ k \in Nat
        /\ ~b.err => Framed(b.hash, k, acked)
    <2>1. CASE headerNeeded
      <3>0. acked = <<>>  BY <1>1, <2>1, EmptySeq DEF headerNeeded
      <3>1. acked = <<>> /\ headers = misfits
        BY <1>1, <3>0 DEF headers
      <3>2. BodyOK(b) /\ (~b.err => b.hash = Append(body.hash, Header))
        BY <1>1, <1>3, <1>4, <2>1, AppendBodyKeepsBody
      <3>3. body.hash \in Seq(Line)  BY <1>1 DEF BodyOK, Body
      <3>4. Framed(Append(body.hash, Header), misfits + 1, acked)
        BY <1>1, <3>1, <3>3, FramedHeader
      <3>5. k = misfits + 1 /\ k \in Nat  BY <1>1, <2>1
      <3>6. ~b.err => Framed(b.hash, misfits + 1, acked)  BY <3>2, <3>4, Zenon
      <3> HIDE DEF k
      <3> QED  BY <3>2, <3>5, <3>6, Zenon
    <2>2. CASE ~headerNeeded
      <3>1. headers \in Nat  BY <1>1 DEF headers
      <3> QED  BY <1>1, <1>4, <2>2, <3>1
    <2> QED  BY <2>1, <2>2
  <1>6. /\ BodyOK(body') /\ misfits' \in Nat
        /\ ~body'.err => Framed(body'.hash, headers', acked')
        /\ count' = Len(acked') /\ acked' \in Seq(Writable)
    <2>1. CASE b.err \/ r \in Unmarshalable
      <3>1. body' = b /\ acked' = acked /\ count' = count
            /\ misfits' = IF headerNeeded /\ ~b.err THEN misfits + 1 ELSE misfits
        BY <1>4, <2>1
      <3>2. ~b.err => headers' = k
        <4>1. headerNeeded => acked = <<>>  BY <1>1, EmptySeq DEF headerNeeded
        <4> QED  BY <1>1, <3>1, <4>1 DEF headers
      <3> QED  BY <1>1, <1>5, <3>1, <3>2
    <2>2. CASE ~(b.err \/ r \in Unmarshalable)
      <3>1. PICK c \in appendBody(b, r) :
              /\ body' = c
              /\ count' = IF c.err THEN count ELSE count + 1
              /\ acked' = IF c.err THEN acked ELSE Append(acked, r)
              /\ UNCHANGED misfits
        BY <1>4, <2>2
      <3>2. BodyOK(c) /\ (~c.err => c.hash = Append(b.hash, r))
        BY <1>3, <1>5, <2>2, AppendBodyKeepsBody
      <3>3. CASE c.err
        BY <1>1, <3>1, <3>2, <3>3
      <3>4. CASE ~c.err
        <4>1. b.hash \in Seq(Line)  BY <1>5 DEF BodyOK, Body
        <4>2. Framed(Append(b.hash, r), k, Append(acked, r))
          <5> HIDE DEF k
          <5> QED  BY <1>1, <1>5, <2>2, <4>1, FramedRecord
        <4>3. count' = count + 1 /\ acked' = Append(acked, r)  BY <3>1, <3>4
        <4>4. Append(acked, r) \in Seq(Writable) /\ Len(Append(acked, r)) = Len(acked) + 1
          <5>1. r \in Writable  BY <1>1, <2>2 DEF Writable
          <5> QED  BY <1>1, <5>1
        <4>5. headers' = k
          <5>1. acked' # <<>>  BY <1>1, <4>3, <4>4
          <5>2. ~headerNeeded => acked # <<>>  BY <1>1 DEF headerNeeded
          <5> QED  BY <3>1, <5>1, <5>2 DEF headers
        <4> QED  BY <1>1, <3>1, <3>2, <3>4, <4>2, <4>3, <4>4, <4>5
      <3> QED  BY <3>3, <3>4
    <2> QED  BY <2>1, <2>2
  <1>7. TypeOK'
    <2>1. body' \in Body  BY <1>6 DEF BodyOK
    <2>2. count' \in Nat  BY <1>6
    <2> QED  BY <1>2, <1>6, <2>1, <2>2 DEF TypeOK, platformVars
  <1>8. PhaseInv'  BY <1>1, <1>2 DEF PhaseInv, platformVars
  <1>9. OneInv'  BY <1>1, <1>2 DEF OneInv, platformVars
  <1>10. BodyInv'  BY <1>1, <1>2, <1>6 DEF BodyInv, Held, headers
  <1>11. OutInv'  BY <1>1, <1>2 DEF OutInv, platformVars
  <1> QED  BY <1>7, <1>8, <1>9, <1>10, <1>11

\* Every way to end a writer releases the body and sends nothing new.
LEMMA InvEnd ==
    ASSUME IInv, closed' = TRUE, pc' = "idle", body' = releaseBody(body),
           result' \in {"none", "receipt", "error", "client_refused"},
           result' = "receipt" => Len(accepted) = 1,
           discarded' \in BOOLEAN,
           discarded' => discarded \/ (accepted = <<>> /\ wire = {}),
           staged' \in SUBSET Seq(Line), staged' = staged \/ wire = {},
           UNCHANGED <<optErr, count, acked, misfits, wire, reply, accepted>>
    PROVE  IInv'
  <1> USE DEF IInv
  <1>0. body \in Body /\ body'.err = body.err /\ body' \in Body
        /\ body'.buf = <<>> /\ body'.spool = "nil"
    BY ReleaseKeepsRest DEF TypeOK
  <1>1. TypeOK'  BY <1>0 DEF TypeOK
  <1>2. PhaseInv'  BY <1>0 DEF PhaseInv
  <1>3. OneInv'  BY DEF OneInv
  <1>4. BodyInv'  BY <1>0 DEF BodyInv, Held, headers
  <1>5. OutInv'  BY DEF OutInv, Faithful, headers
  <1> QED  BY <1>1, <1>2, <1>3, <1>4, <1>5

\* Sending loader.complete: the request is built from the body as it stands.
LEMMA InvSend ==
    ASSUME IInv, NEW mode \in {"inline", "presigned"}, NEW content,
           BodyOK(body), ~body.err, content = body.hash,
           mode = "inline" => body.size <= InlineBodyLimit,
           ~optErr, ~discarded, Held, wire = {}, accepted = <<>>, reply = "none",
           result = "none",
           closed' = TRUE, pc' = "complete", wire' = {completeRequest(mode, content)},
           staged' \in SUBSET Seq(Line), mode = "presigned" => staged' = {content},
           UNCHANGED <<optErr, discarded, count, body, result, acked, misfits, reply, accepted>>
    PROVE  IInv'
  <1> USE DEF IInv
  <1> DEFINE q == completeRequest(mode, content)
  <1>1. q \in Request /\ q.mode = mode /\ q.content = content /\ q.hash = body.hash
        /\ q.count = count /\ q.size = body.size
    BY DEF completeRequest, Request, BodyOK, Body, TypeOK
  <1>2. Framed(body.hash, headers, acked)  BY DEF BodyInv
  <1> HIDE DEF q
  <1>3. wire' = {q}  BY DEF q
  <1>4. TypeOK'  BY <1>1, <1>3 DEF TypeOK
  <1>5. PhaseInv'  BY DEF PhaseInv
  <1>6. OneInv'  BY <1>3 DEF OneInv
  <1>7. BodyInv'  BY DEF BodyInv, Held, headers
  <1>8. OutInv'  BY <1>1, <1>2, <1>3 DEF OutInv, Faithful, headers
  <1> QED  BY <1>4, <1>5, <1>6, <1>7, <1>8

\* Discard and the operations that end Close at once.
LEMMA InvCaller ==
    ASSUME IInv, Discard \/ CloseRejectedOption \/ CloseBroken \/ CloseInline \/ ClosePresigned
    PROVE  IInv'
  <1> USE DEF IInv
  <1>1. CASE Discard
    <2>1. accepted = <<>> /\ wire = {} /\ pc = "idle"  BY <1>1 DEF Discard, PhaseInv
    <2>2. result' \in {"none", "receipt", "error", "client_refused"} /\ result' # "receipt"
      BY <1>1 DEF Discard, PhaseInv
    <2> QED  BY <1>1, <2>1, <2>2, InvEnd DEF Discard, TypeOK, platformVars
  <1>2. CASE CloseRejectedOption
    BY <1>2, InvEnd DEF CloseRejectedOption, Return, TypeOK, platformVars
  <1>3. CASE CloseBroken
    BY <1>3, InvEnd DEF CloseBroken, Return, TypeOK, platformVars
  <1>4. CASE CloseInline
    <2>1. CASE clientRefuses(body.buf)
      BY <1>4, <2>1, InvEnd DEF CloseInline, Return, TypeOK
    <2>2. CASE ~clientRefuses(body.buf)
      <3>1. /\ ~optErr /\ ~discarded /\ ~closed /\ ~body.err /\ body.spool = "nil"
            /\ closed' = TRUE /\ pc' = "complete"
            /\ wire' = {completeRequest("inline", body.buf)}
            /\ UNCHANGED <<optErr, discarded, count, body, result, acked, misfits, reply, staged, accepted>>
        BY <1>4, <2>2 DEF CloseInline, Closable
      <3>2. /\ BodyOK(body) /\ body.buf = body.hash /\ body.size <= InlineBodyLimit
            /\ Held /\ wire = {} /\ accepted = <<>> /\ reply = "none" /\ result = "none"
        BY <3>1 DEF BodyInv, Held, BodyOK, PhaseInv
      <3>3. staged' \in SUBSET Seq(Line)  BY <3>1 DEF TypeOK
      <3> QED  BY <3>1, <3>2, <3>3, InvSend
    <2> QED  BY <2>1, <2>2
  <1>5. CASE ClosePresigned
    <2> USE <1>5 DEF ClosePresigned, Closable, platformVars
    <2>1. TypeOK'  BY DEF TypeOK
    <2>2. PhaseInv'  BY DEF PhaseInv
    <2>3. OneInv'  BY DEF OneInv
    <2>4. BodyInv'  BY DEF BodyInv, Held, headers
    <2>5. OutInv'  BY DEF OutInv, Faithful, headers
    <2> QED  BY <2>1, <2>2, <2>3, <2>4, <2>5
  <1> QED  BY <1>1, <1>2, <1>3, <1>4, <1>5

\* The client's calls during Close: each either goes on or ends Close.
LEMMA InvClient ==
    ASSUME IInv, ClientStep
    PROVE  IInv'
  <1> USE DEF IInv
  <1>0. pc # "idle" => closed /\ ~optErr /\ ~discarded /\ ~body.err /\ result = "none" /\ Held
    BY DEF PhaseInv, Held
  <1>1. CASE PrepareOK
    <2> USE <1>1 DEF PrepareOK, writerVars, platformVars
    <2>1. TypeOK'  BY DEF TypeOK
    <2>2. PhaseInv'  BY DEF PhaseInv
    <2>3. OneInv'  BY DEF OneInv
    <2>4. BodyInv'  BY DEF BodyInv, Held, headers
    <2>5. OutInv'  BY DEF OutInv, Faithful, headers
    <2> QED  BY <2>1, <2>2, <2>3, <2>4, <2>5
  <1>2. CASE PrepareFails
    BY <1>0, <1>2, InvEnd DEF PrepareFails, Return, TypeOK, platformVars
  <1>3. CASE PutOK
    <2>1. /\ pc = "put" /\ staged' = {body.spooled} /\ pc' = "complete"
          /\ wire' = {completeRequest("presigned", body.spooled)}
          /\ UNCHANGED <<optErr, closed, discarded, count, body, result, acked, misfits, reply, accepted>>
      BY <1>3 DEF PutOK, writerVars
    <2>2. /\ BodyOK(body) /\ body.spooled = body.hash /\ wire = {} /\ accepted = <<>>
          /\ reply = "none"
      BY <1>0, <2>1 DEF BodyInv, BodyOK, PhaseInv
    <2>3. staged' \in SUBSET Seq(Line)  BY <2>1, <2>2 DEF BodyOK, Body
    <2>4. closed' = TRUE  BY <1>0, <2>1 DEF TypeOK
    <2> QED  BY <1>0, <2>1, <2>2, <2>3, <2>4, InvSend
  <1>4. CASE PutFails
    <2>1. pc = "put" /\ wire = {} /\ closed' = TRUE
      BY <1>0, <1>4 DEF PutFails, PhaseInv, TypeOK
    <2>2. staged' \in SUBSET Seq(Line)  BY <1>4 DEF PutFails, TypeOK, Body
    <2> QED  BY <1>4, <2>1, <2>2, InvEnd DEF PutFails, Return, TypeOK
  <1>5. CASE CompleteAnswered
    <2>1. closed' = TRUE  BY <1>0, <1>5 DEF CompleteAnswered, TypeOK
    <2>2. /\ result' \in {"none", "receipt", "error", "client_refused"}
          /\ result' = "receipt" => Len(accepted) = 1
      BY <1>5 DEF CompleteAnswered, Return, OneInv
    <2> QED  BY <1>5, <2>1, <2>2, InvEnd DEF CompleteAnswered, Return, TypeOK, platformVars
  <1>6. CASE CompleteUnanswered
    <2>1. closed' = TRUE  BY <1>0, <1>6 DEF CompleteUnanswered, TypeOK
    <2> QED  BY <1>6, <2>1, InvEnd DEF CompleteUnanswered, Return, TypeOK, platformVars
  <1> QED  BY <1>1, <1>2, <1>3, <1>4, <1>5, <1>6 DEF ClientStep

\* The platform acts on the one request there is, or the request is lost.
LEMMA InvPlatform ==
    ASSUME IInv, PlatformAccept \/ PlatformRefuse \/ RequestLost
    PROVE  IInv'
  <1> USE DEF IInv
  <1>0. PICK q \in wire :
          /\ wire' = wire \ {q}
          /\ \/ /\ q.content = q.hash
                /\ accepted' = Append(accepted, q)
                /\ reply' \in {"job", "nojob"}
             \/ /\ UNCHANGED accepted
                /\ reply' \in {reply, "refused"}
          /\ UNCHANGED <<writerVars, pc, result, acked, misfits, staged>>
    BY DEF PlatformAccept, PlatformRefuse, RequestLost
  <1>1. /\ q \in Request /\ wire' = {} /\ accepted = <<>> /\ reply = "none"
        /\ Faithful(q) /\ ~optErr /\ ~discarded /\ ~body.err /\ closed
        /\ pc \notin {"prepare", "put"} /\ result # "receipt"
    BY <1>0 DEF TypeOK, OneInv, OutInv, PhaseInv
  <1>2. accepted' = <<>> \/ (accepted' = <<q>> /\ q.content = q.hash)
    BY <1>0, <1>1
  <1>3. reply' = "job" => accepted' = <<q>>
    BY <1>0, <1>1
  <1>4. UNCHANGED <<optErr, closed, discarded, count, body, pc, result, acked, misfits, staged>>
    BY <1>0 DEF writerVars
  <1>5. reply' \in {"none", "job", "nojob", "refused"}  BY <1>0, <1>1
  <1>6. TypeOK'
    <2>1. accepted' \in Seq(Request)
      <3>1. Append(accepted, q) \in Seq(Request)  BY <1>1 DEF TypeOK
      <3> QED  BY <1>0, <3>1 DEF TypeOK
    <2> QED  BY <1>1, <1>4, <1>5, <2>1 DEF TypeOK
  <1>7. PhaseInv'  BY <1>1, <1>4 DEF PhaseInv
  <1>8. OneInv'
    <2>1. Len(<<q>>) = 1 /\ Len(<<>>) = 0  OBVIOUS
    <2>2. Len(accepted') <= 1 /\ (reply' = "job" => Len(accepted') = 1)
      <3>1. CASE accepted' = <<>>
        <4>1. <<q>> # <<>>  OBVIOUS
        <4> QED  BY <1>3, <2>1, <3>1, <4>1
      <3>2. CASE accepted' = <<q>>
        BY <2>1, <3>2
      <3> QED  BY <1>2, <3>1, <3>2
    <2> QED  BY <1>1, <1>4, <2>2 DEF OneInv
  <1>9. BodyInv'  BY <1>4 DEF BodyInv, Held, headers
  <1>10. OutInv'  BY <1>1, <1>2, <1>4 DEF OutInv, Faithful, headers
  <1> QED  BY <1>6, <1>7, <1>8, <1>9, <1>10

\* A step that changes nothing keeps everything.
LEMMA InvStutter ==
    ASSUME IInv, UNCHANGED vars
    PROVE  IInv'
  BY DEF IInv, TypeOK, PhaseInv, OneInv, BodyInv, OutInv, Faithful, Held, headers,
         vars, writerVars, platformVars

\* The inductive invariant holds throughout.
THEOREM WriterInvariant == Spec => []IInv
  <1>1. IInv /\ [Next]_vars => IInv'
    BY InvWrite, InvCaller, InvClient, InvPlatform, InvStutter DEF Next
  <1> QED  BY InvInit, <1>1, PTL DEF Spec

-----------------------------------------------------------------------------
\* Every variable of the writer keeps its type, for every set of records.
THEOREM TypeCorrect == Spec => []TypeOK
  <1>1. IInv => TypeOK  BY DEF IInv
  <1> QED  BY <1>1, WriterInvariant, PTL

\* What the platform takes is exactly what Write* acknowledged.
THEOREM ArtifactTheorem == Spec => []ArtifactIsWhatWasAcked
  <1>1. IInv => ArtifactIsWhatWasAcked
    BY DEF IInv, TypeOK, OutInv, BodyInv, Faithful, ArtifactIsWhatWasAcked
  <1> QED  BY <1>1, WriterInvariant, PTL

\* No writer gets two artifacts into the platform.
THEOREM AtMostOneTheorem == Spec => []AtMostOneArtifact
  <1>1. IInv => AtMostOneArtifact
    <2> SUFFICES ASSUME IInv PROVE AtMostOneArtifact  OBVIOUS
    <2>1. CASE wire = {}
      <3>1. Cardinality(wire) = 0  BY <2>1, FS_EmptySet
      <3>2. Len(accepted) <= 1 /\ Len(accepted) \in Nat  BY DEF IInv, OneInv, TypeOK
      <3> QED  BY <3>1, <3>2 DEF AtMostOneArtifact
    <2>2. CASE wire # {}
      <3>0. PICK q \in wire : TRUE  BY <2>2
      <3>1. wire = {q}  BY <3>0 DEF IInv, OneInv
      <3>2. Cardinality(wire) = 1  BY <3>1, FS_Singleton
      <3>3. Len(accepted) = 0  BY <2>2 DEF IInv, OneInv
      <3> QED  BY <3>2, <3>3 DEF AtMostOneArtifact
    <2> QED  BY <2>1, <2>2
  <1> QED  BY <1>1, WriterInvariant, PTL

\* A Receipt is only ever given for an artifact the platform took.
THEOREM ReceiptTheorem == Spec => []ReceiptIsTruthful
  <1>1. IInv => ReceiptIsTruthful
    BY DEF IInv, OneInv, OutInv, Faithful, ReceiptIsTruthful
  <1> QED  BY <1>1, WriterInvariant, PTL

\* A writer that lost bytes, was discarded or was misconfigured commits nothing.
THEOREM FailedWriterTheorem == Spec => []FailedWriterNeverCommits
  <1>1. IInv => FailedWriterNeverCommits
    BY DEF IInv, PhaseInv, FailedWriterNeverCommits
  <1> QED  BY <1>1, WriterInvariant, PTL

\* Buffer and spool are released on every path that ends the writer.
THEOREM ReleaseTheorem == Spec => []BodyReleased
  <1>1. IInv => BodyReleased
    BY DEF IInv, BodyInv, Held, BodyReleased
  <1> QED  BY <1>1, WriterInvariant, PTL

\* Inline bodies respect the limit; an upload token names a stored object.
THEOREM TransportTheorem == Spec => []TransportFitsBody
  <1>1. IInv => TransportFitsBody
    BY DEF IInv, OutInv, TransportFitsBody
  <1> QED  BY <1>1, WriterInvariant, PTL

\* The hash sent is the hash of the bytes sent, spooled or not.
THEOREM HashTheorem == Spec => []HashIsOfBody
  <1>1. IInv => HashIsOfBody
    <2> SUFFICES ASSUME IInv, ~closed, ~body.err PROVE body.hash = body.buf \o body.spooled
      BY DEF HashIsOfBody
    <2>1. BodyOK(body) /\ body.buf \in Seq(Line) /\ body.spooled \in Seq(Line)
      BY DEF IInv, BodyInv, Held, BodyOK, Body
    <2>2. body.buf \o <<>> = body.buf /\ <<>> \o body.spooled = body.spooled
      BY <2>1
    <2> QED  BY <2>1, <2>2 DEF BodyOK
  <1> QED  BY <1>1, WriterInvariant, PTL

-----------------------------------------------------------------------------
\* The writer implements ArtifactCommit.

platformOf == [i \in DOMAIN accepted |-> recordsOf(accepted[i].content)]

\* Behind its leading headers a framed body is the records it was framed with.
LEMMA RecordsOfFramed ==
    ASSUME NEW s \in Seq(Line), NEW k \in Nat, NEW recs \in Seq(Writable), Framed(s, k, recs)
    PROVE  recordsOf(s) = recs
  <1> DEFINE Leading(n) == /\ \A i \in 1..n : s[i] = Header
                           /\ n < Len(s) => s[n + 1] # Header
             c == CHOOSE n \in 0..Len(s) : Leading(n)
  <1>0. Len(s) \in Nat /\ Len(recs) \in Nat /\ Len(s) = k + Len(recs)  BY DEF Framed
  <1>1. k \in 0..Len(s)  BY <1>0
  <1>2. \A i \in 1..Len(recs) : recs[i] # Header
    <2>1. \A i \in 1..Len(recs) : recs[i] \in Record  BY DEF Writable
    <2> QED  BY <2>1, WriterAssumption
  <1>3. \A i \in 1..k : s[i] = Header  BY DEF Framed
  <1>4. \A i \in 1..Len(recs) : s[k + i] = recs[i]  BY DEF Framed
  <1>5. Leading(k)
    <2> SUFFICES ASSUME k < Len(s) PROVE s[k + 1] # Header  BY <1>3
    <2>1. 1 \in 1..Len(recs)  BY <1>0
    <2> QED  BY <1>2, <1>4, <2>1
  <1>6. ASSUME NEW n \in 0..Len(s), Leading(n) PROVE n = k
    <2>1. CASE n < k
      <3>1. n + 1 \in 1..k /\ n < Len(s)  BY <1>0, <1>1, <2>1
      <3> QED  BY <1>3, <1>6, <3>1
    <2>2. CASE n > k
      <3>1. k + 1 \in 1..n /\ 1 \in 1..Len(recs)  BY <1>0, <1>1, <2>2
      <3>2. s[k + 1] # Header  BY <1>2, <1>4, <3>1
      <3> QED  BY <1>6, <3>1, <3>2
    <2> QED  BY <1>0, <1>1, <2>1, <2>2
  <1>7. c \in 0..Len(s) /\ Leading(c)
    <2> HIDE DEF Leading
    <2> QED  BY <1>1, <1>5
  <1>8. c = k  BY <1>6, <1>7
  <1>9. recordsOf(s) = SubSeq(s, c + 1, Len(s))  BY DEF recordsOf
  <1>10. SubSeq(s, k + 1, Len(s)) = recs
    <2> DEFINE t == SubSeq(s, k + 1, Len(s))
    <2>1. t \in Seq(Line) /\ Len(t) = Len(recs)  BY <1>0, <1>1
    <2>2. \A i \in 1..Len(recs) : t[i] = s[k + i]  BY <1>0, <1>1
    <2>3. \A i \in 1..Len(recs) : t[i] = recs[i]  BY <1>4, <2>2
    <2> HIDE DEF t
    <2>4. t = recs  BY <2>1, <2>3
    <2> QED  BY <2>4 DEF t
  <1> HIDE DEF c
  <1> QED  BY <1>8, <1>9, <1>10

\* An artifact the platform took shows, through the mapping, what was acknowledged.
LEMMA PlatformOfOne ==
    ASSUME IInv, Len(accepted) = 1
    PROVE  platformOf = <<acked>>
  <1>1. accepted \in Seq(Request) /\ acked \in Seq(Writable) /\ headers \in Nat
    BY DEF IInv, TypeOK, headers
  <1>2. DOMAIN accepted = 1..1 /\ accepted[1] \in Request  BY <1>1
  <1>3. Framed(accepted[1].content, headers, acked)  BY <1>2 DEF IInv, OutInv, Faithful
  <1>4. accepted[1].content \in Seq(Line)  BY <1>2 DEF Request
  <1>5. recordsOf(accepted[1].content) = acked  BY <1>1, <1>3, <1>4, RecordsOfFramed
  <1>6. platformOf = [i \in 1..1 |-> acked]
    <2>1. \A i \in 1..1 : recordsOf(accepted[i].content) = acked  BY <1>5
    <2> QED  BY <1>2, <2>1 DEF platformOf
  <1> QED  BY <1>6

\* An empty platform shows as one.
LEMMA PlatformOfNone ==
    ASSUME accepted = <<>>
    PROVE  platformOf = <<>>
  <1>1. DOMAIN accepted = 1..0  OBVIOUS
  <1>2. platformOf = [i \in 1..0 |-> recordsOf(accepted[i].content)]  BY <1>1 DEF platformOf
  <1> QED  BY <1>2

\* A step that leaves records, phase, receipt and artifacts alone is invisible.
LEMMA PromiseStutter ==
    ASSUME UNCHANGED <<acked, phaseOf, accepted>>,
           (result' = "receipt") <=> (result = "receipt")
    PROVE  UNCHANGED Promise!abstractVars
  <1>1. (result' = "receipt") = (result = "receipt")  OBVIOUS
  <1> QED  BY <1>1 DEF Promise!abstractVars

\* A write is invisible when it fails and accepts one record when it does not.
LEMMA PromiseWrite ==
    ASSUME IInv, NEW r \in Record, Write(r)
    PROVE  [Promise!Next]_Promise!abstractVars
  <1>1. ~closed /\ UNCHANGED <<closed, pc, result, wire, accepted>>
    BY DEF Write, Usable, platformVars
  <1>2. phaseOf = "open" /\ phaseOf' = "open"  BY <1>1 DEF phaseOf
  <1>3. acked' = acked \/ acked' = Append(acked, r)  BY DEF Write
  <1>4. CASE acked' = acked
    BY <1>1, <1>2, <1>4, PromiseStutter
  <1>5. CASE acked' = Append(acked, r)
    <2>1. Promise!Accept  BY <1>1, <1>2, <1>5 DEF Promise!Accept
    <2> QED  BY <2>1 DEF Promise!Next
  <1> QED  BY <1>3, <1>4, <1>5

\* Discard and the first steps of Close seal the artifact; a second Close of a
\* writer with a rejected option is invisible.
LEMMA PromiseCaller ==
    ASSUME IInv, Discard \/ CloseRejectedOption \/ CloseBroken \/ CloseInline \/ ClosePresigned
    PROVE  [Promise!Next]_Promise!abstractVars
  <1>1. UNCHANGED <<acked, misfits, accepted>> /\ closed' = TRUE
    BY DEF Discard, CloseRejectedOption, CloseBroken, CloseInline, ClosePresigned, platformVars
  <1>2. result # "receipt" /\ result' # "receipt"
    <2>1. result # "receipt"
      <3>1. ~closed \/ optErr
        BY DEF Discard, CloseRejectedOption, CloseBroken, CloseInline, ClosePresigned, Closable
      <3>2. accepted = <<>>  BY <3>1 DEF IInv, PhaseInv
      <3> QED  BY <3>2 DEF IInv, OneInv
    <2>2. result' \in {result, "error", "client_refused"}
      BY DEF Discard, CloseRejectedOption, CloseBroken, CloseInline, ClosePresigned, Return
    <2> QED  BY <2>1, <2>2
  <1>3. CASE closed
    <2>1. CloseRejectedOption
      BY <1>3 DEF Discard, CloseBroken, CloseInline, ClosePresigned, Closable
    <2>2. pc = "idle" /\ pc' = "idle" /\ wire' = wire
      BY <2>1 DEF CloseRejectedOption, Return, IInv, PhaseInv, platformVars
    <2>3. phaseOf' = phaseOf  BY <1>1, <1>3, <2>2 DEF phaseOf
    <2> QED  BY <1>1, <1>2, <2>3, PromiseStutter
  <1>4. CASE ~closed
    <2>1. phaseOf = "open"  BY <1>4 DEF phaseOf
    <2>2. pc' = "idle" => wire' = {}
      BY <1>4 DEF Discard, CloseRejectedOption, CloseBroken, CloseInline, ClosePresigned,
                  Return, IInv, PhaseInv, platformVars
    <2>3. phaseOf' \in {"committing", "settled"}  BY <1>1, <2>2 DEF phaseOf
    <2>4. (result' = "receipt") = (result = "receipt")  BY <1>2
    <2>5. Promise!Seal  BY <1>1, <2>1, <2>3, <2>4 DEF Promise!Seal
    <2> QED  BY <2>5 DEF Promise!Next
  <1> QED  BY <1>3, <1>4

\* While Close waits, a step of the client is invisible, or Close returns: with
\* a receipt for the artifact the platform took, or with an error.
LEMMA PromiseClient ==
    ASSUME IInv, ClientStep
    PROVE  [Promise!Next]_Promise!abstractVars
  <1>1. pc # "idle" /\ UNCHANGED <<acked, misfits, accepted, closed>>
    BY DEF ClientStep, PrepareOK, PrepareFails, PutOK, PutFails, CompleteAnswered,
           CompleteUnanswered, writerVars, platformVars
  <1>2. closed /\ result = "none" /\ phaseOf = "committing"
    BY <1>1 DEF IInv, PhaseInv, phaseOf
  <1>3. CASE PrepareOK \/ PutOK
    <2>1. pc' # "idle" /\ result' = result  BY <1>3 DEF PrepareOK, PutOK
    <2>2. phaseOf' = "committing"  BY <1>1, <1>2, <2>1 DEF phaseOf
    <2> QED  BY <1>1, <1>2, <2>1, <2>2, PromiseStutter
  <1>4. CASE CompleteAnswered /\ reply = "job"
    <2>1. pc' = "idle" /\ result' = "receipt" /\ wire' = wire
      BY <1>4 DEF CompleteAnswered, Return, platformVars
    <2>2. wire = {} /\ Len(accepted) = 1  BY <1>4 DEF IInv, OneInv
    <2>3. phaseOf' = "settled"  BY <1>1, <1>2, <2>1, <2>2 DEF phaseOf
    <2>4. platformOf = <<acked>>  BY <2>2, PlatformOfOne
    <2>5. (result' = "receipt") = TRUE  BY <2>1
    <2>6. Promise!Confirm
      BY <1>1, <1>2, <2>3, <2>4, <2>5 DEF Promise!Confirm, platformOf
    <2> QED  BY <2>6 DEF Promise!Next
  <1>5. CASE PrepareFails \/ PutFails \/ (CompleteAnswered /\ reply # "job") \/ CompleteUnanswered
    <2>1. pc' = "idle" /\ result' = "error"
      BY <1>5 DEF PrepareFails, PutFails, CompleteAnswered, CompleteUnanswered, Return
    <2>2. phaseOf' \in {"settled", "indoubt"}  BY <1>1, <1>2, <2>1 DEF phaseOf
    <2>3. (result' = "receipt") = (result = "receipt")  BY <1>2, <2>1
    <2>4. Promise!GiveUp  BY <1>1, <1>2, <2>2, <2>3 DEF Promise!GiveUp
    <2> QED  BY <2>4 DEF Promise!Next
  <1> QED  BY <1>3, <1>4, <1>5 DEF ClientStep

\* The platform publishes the artifact once and whole; a refusal or a loss is
\* invisible while Close waits and settles the doubt afterwards.
LEMMA PromisePlatform ==
    ASSUME IInv, IInv', PlatformAccept \/ PlatformRefuse \/ RequestLost
    PROVE  [Promise!Next]_Promise!abstractVars
  <1>0. PICK q \in wire :
          /\ wire' = wire \ {q}
          /\ accepted' = Append(accepted, q) \/ UNCHANGED accepted
          /\ UNCHANGED <<writerVars, pc, result, acked, misfits, staged>>
    BY DEF PlatformAccept, PlatformRefuse, RequestLost
  <1>1. wire # {} /\ wire' = {} /\ accepted = <<>> /\ closed /\ closed' = closed
        /\ pc' = pc /\ acked' = acked /\ result' = result /\ q \in Request
    BY <1>0 DEF IInv, OneInv, PhaseInv, TypeOK, writerVars
  <1>2. phaseOf = IF pc = "idle" THEN "indoubt" ELSE "committing"
    BY <1>1 DEF phaseOf
  <1>3. phaseOf' = IF pc = "idle" THEN "settled" ELSE "committing"
    BY <1>1 DEF phaseOf
  <1>4. platformOf = <<>>  BY <1>1, PlatformOfNone
  <1>5. (result' = "receipt") = (result = "receipt")  BY <1>1
  <1>6. CASE accepted' = Append(accepted, q)
    <2>1. accepted' = <<q>>  BY <1>1, <1>6
    <2>2. Len(accepted') = 1  BY <2>1
    <2>3. (Len(accepted) = 1)' => (platformOf = <<acked>>)'
      BY PlatformOfOne, PTL
    <2>4. platformOf' = <<acked>>  BY <1>1, <2>2, <2>3
    <2>5. Promise!Publish
      BY <1>1, <1>2, <1>3, <1>4, <1>5, <2>4 DEF Promise!Publish, platformOf
    <2> QED  BY <2>5 DEF Promise!Next
  <1>7. CASE UNCHANGED accepted
    <2>1. CASE pc = "idle"
      <3>1. Promise!Lapse
        BY <1>1, <1>2, <1>3, <1>5, <1>7, <2>1 DEF Promise!Lapse
      <3> QED  BY <3>1 DEF Promise!Next
    <2>2. CASE pc # "idle"
      BY <1>1, <1>2, <1>3, <1>7, <2>2, PromiseStutter
    <2> QED  BY <2>1, <2>2
  <1> QED  BY <1>0, <1>6, <1>7

\* The writer implements ArtifactCommit: every behaviour of bufferedWriter, its
\* HTTP client and the platform is, seen through the records acknowledged and
\* the artifacts taken, one that ArtifactCommit allows.
THEOREM PromiseTheorem == Spec => KeepsPromise
  <1>1. Init => Promise!Init
    <2> SUFFICES ASSUME Init PROVE Promise!Init  OBVIOUS
    <2>1. acked = <<>> /\ phaseOf = "open" /\ accepted = <<>> /\ result = "none"
      BY DEF Init, phaseOf
    <2>2. platformOf = <<>>  BY <2>1, PlatformOfNone
    <2>3. (result = "receipt") = FALSE  BY <2>1
    <2> QED  BY <2>1, <2>2, <2>3 DEF Promise!Init, platformOf
  <1>2. IInv /\ IInv' /\ [Next]_vars => [Promise!Next]_Promise!abstractVars
    <2> SUFFICES ASSUME IInv, IInv', [Next]_vars
                 PROVE  [Promise!Next]_Promise!abstractVars
      OBVIOUS
    <2>1. CASE UNCHANGED vars
      <3>1. UNCHANGED <<acked, misfits, accepted, result, closed, pc, wire>>
        BY <2>1 DEF vars, writerVars, platformVars
      <3>2. phaseOf' = phaseOf  BY <3>1 DEF phaseOf
      <3> QED  BY <3>1, <3>2, PromiseStutter
    <2> QED
      BY <2>1, PromiseWrite, PromiseCaller, PromiseClient, PromisePlatform DEF Next
  <1> QED  BY <1>1, <1>2, WriterInvariant, PTL DEF Spec, KeepsPromise, Promise!Spec
=============================================================================
