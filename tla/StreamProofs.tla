----------------------------- MODULE StreamProofs -----------------------------
(***************************************************************************)
(* The two streams of an agent: StreamBridge, its own events on their way  *)
(* to the client, for every capacity of the channel and every number of    *)
(* events; and AgentStream, the gateway client's readers of another        *)
(* agent's events, for every body and every capacity.                      *)
(***************************************************************************)
EXTENDS StreamBridge, AgentStream, SequenceTheorems, NaturalsInduction, WellFoundedInduction, TLAPS

-----------------------------------------------------------------------------
\* StreamBridge: its inductive invariant.
\* How far the two goroutines are, relative to each other.
PhaseInv ==
    /\ channelClosed <=> producer \in {"reporting", "done"}
    /\ reported <=> producer = "done"
    /\ runErr = "none" <=> producer = "emitting"
    /\ consumer \in {"joining", "closing", "returned"} => channelClosed /\ channel = <<>>
    /\ consumer \in {"closing", "returned"} => reported
    /\ consumer \in {"loop", "closing"} => ~writeErr
    /\ consumer = "draining" => writeErr
    /\ consumer = "returned" /\ (writeErr \/ runErr = "error") => ret = "error"

\* Events are numbered as emitted, and what is in the channel is the end of
\* what was emitted.
ChannelInv ==
    /\ \A i \in 1..Len(emitted) : emitted[i].seq = i
    /\ Len(channel) <= Len(emitted)
    /\ \A i \in 1..Len(channel) : channel[i] = emitted[Len(emitted) - Len(channel) + i]

\* n events were delivered: the first n emitted.  As long as no write failed,
\* they and the channel are all there is.
Delivered(n) ==
    /\ n <= Len(emitted)
    /\ \A i \in 1..n : wire[i] = emitted[i]
    /\ ~writeErr => n + Len(channel) = Len(emitted)

WireInv ==
    \/ Delivered(Len(wire))
    \/ /\ consumer = "returned"
       /\ wire # <<>> /\ wire[Len(wire)] = CloseMarker
       /\ Delivered(Len(wire) - 1)

BInv == TypeOK /\ PhaseInv /\ ChannelInv /\ WireInv

-----------------------------------------------------------------------------
\* What one appended element does to a sequence.
LEMMA AppendLast ==
    ASSUME NEW S, NEW s \in Seq(S), NEW e \in S, NEW t, t = Append(s, e)
    PROVE  /\ Len(t) = Len(s) + 1 /\ t[Len(t)] = e /\ t # <<>>
           /\ \A i \in 1..Len(s) : t[i] = s[i]
  <1>1. Len(t) = Len(s) + 1 /\ t[Len(s) + 1] = e /\ \A i \in 1..Len(s) : t[i] = s[i]
    OBVIOUS
  <1>2. t # <<>>
    <2>1. Len(s) + 1 # 0  OBVIOUS
    <2> QED  BY <1>1, <2>1, EmptySeq
  <1> QED  BY <1>1, <1>2

\* Nothing emitted, nothing delivered.
LEMMA BInvInit == Init => BInv
  <1> SUFFICES ASSUME Init PROVE BInv  OBVIOUS
  <1>0. channel \in Seq(Event) /\ Len(channel) = 0 /\ 0 <= Capacity
    BY EmptySeq, BridgeAssumption DEF Init
  <1>1. TypeOK
    <2>1. Len(channel) <= Capacity  BY <1>0
    <2> QED  BY <1>0, <2>1, EmptySeq DEF Init, TypeOK
  <1>2. PhaseInv  BY DEF Init, PhaseInv
  <1>3. ChannelInv  BY EmptySeq DEF Init, ChannelInv
  <1>4. WireInv  BY EmptySeq DEF Init, WireInv, Delivered
  <1> QED  BY <1>1, <1>2, <1>3, <1>4 DEF BInv

\* Sending an event extends the channel and the history by the same event.
LEMMA EmitKeeps ==
    ASSUME BInv, NEW kind \in {"event"} \cup Terminal, emit(kind),
           UNCHANGED <<consumer, writeErr, wire>>, consumer \in {"loop", "draining"}
    PROVE  /\ channel' \in Seq(Event) /\ emitted' \in Seq(Event)
           /\ Len(channel') <= Capacity
           /\ ChannelInv' /\ WireInv'
  <1> DEFINE e == [seq |-> Len(emitted) + 1, kind |-> kind]
  <1> USE DEF BInv
  <1>1. Len(emitted) \in Nat /\ Len(channel) \in Nat /\ e \in Event
    BY DEF TypeOK, Event
  <1>2. /\ channel' = Append(channel, e) /\ emitted' = Append(emitted, e)
    BY DEF emit
  <1> HIDE DEF e
  <1>3. /\ channel' \in Seq(Event) /\ emitted' \in Seq(Event)
        /\ Len(channel') = Len(channel) + 1 /\ Len(emitted') = Len(emitted) + 1
        /\ \A i \in 1..Len(channel) : channel'[i] = channel[i]
        /\ \A i \in 1..Len(emitted) : emitted'[i] = emitted[i]
        /\ channel'[Len(channel) + 1] = e /\ emitted'[Len(emitted) + 1] = e
    BY <1>1, <1>2 DEF TypeOK
  <1>4. e.seq = Len(emitted) + 1  BY DEF e
  <1>5. ChannelInv'
    <2>1. \A i \in 1..Len(emitted') : emitted'[i].seq = i
      BY <1>1, <1>3, <1>4 DEF ChannelInv
    <2>2. ASSUME NEW i \in 1..Len(channel')
          PROVE  channel'[i] = emitted'[Len(emitted') - Len(channel') + i]
      <3>1. CASE i = Len(channel) + 1  BY <1>1, <1>3, <3>1
      <3>2. CASE i \in 1..Len(channel)
        <4>1. Len(emitted) - Len(channel) + i \in 1..Len(emitted)
          BY <1>1, <3>2 DEF ChannelInv
        <4>2. Len(emitted') - Len(channel') + i = Len(emitted) - Len(channel) + i
          BY <1>1, <1>3, <3>2
        <4> QED  BY <1>3, <3>2, <4>1, <4>2 DEF ChannelInv
      <3> QED  BY <1>1, <1>3, <3>1, <3>2
    <2> QED  BY <1>1, <1>3, <2>1, <2>2 DEF ChannelInv
  <1>6. WireInv'
    <2>1. Len(wire) \in Nat /\ Delivered(Len(wire))  BY DEF TypeOK, WireInv
    <2>2. Len(wire) <= Len(emitted')  BY <1>1, <1>3, <2>1 DEF Delivered
    <2>3. \A i \in 1..Len(wire) : wire'[i] = emitted'[i]
      BY <1>1, <1>3, <2>1 DEF Delivered
    <2>4. ~writeErr' => Len(wire) + Len(channel') = Len(emitted')
      BY <1>1, <1>3, <2>1 DEF Delivered
    <2> QED  BY <2>2, <2>3, <2>4 DEF WireInv, Delivered
  <1>7. Len(channel') <= Capacity  BY <1>1, <1>3, BridgeAssumption DEF emit
  <1> QED  BY <1>3, <1>5, <1>6, <1>7

\* The pipeline's steps.
LEMMA BInvProducer == ASSUME BInv, ProducerStep PROVE BInv'
  <1> USE DEF BInv, consumerVars
  <1>1. CASE Emit
    <2> USE <1>1 DEF Emit
    <2>1. consumer \in {"loop", "draining"}  BY DEF PhaseInv, TypeOK
    <2>2. /\ channel' \in Seq(Event) /\ emitted' \in Seq(Event) /\ Len(channel') <= Capacity
          /\ ChannelInv' /\ WireInv'
      BY <2>1, EmitKeeps
    <2>3. TypeOK'  BY <2>2 DEF TypeOK
    <2>4. PhaseInv'  BY <2>1 DEF PhaseInv
    <2> QED  BY <2>2, <2>3, <2>4
  <1>2. ASSUME NEW s \in Terminal, EmitTerminal(s) PROVE BInv'
    <2> USE <1>2 DEF EmitTerminal
    <2>1. consumer \in {"loop", "draining"}  BY DEF PhaseInv, TypeOK
    <2>2. /\ channel' \in Seq(Event) /\ emitted' \in Seq(Event) /\ Len(channel') <= Capacity
          /\ ChannelInv' /\ WireInv'
      BY <2>1, EmitKeeps
    <2>3. TypeOK'  BY <2>2 DEF TypeOK
    <2>4. PhaseInv'  BY <2>1 DEF PhaseInv, TypeOK
    <2> QED  BY <2>2, <2>3, <2>4
  <1>3. CASE ReturnWithoutStatus
    <2> USE <1>3 DEF ReturnWithoutStatus
    <2>1. TypeOK'  BY DEF TypeOK
    <2>2. PhaseInv'  BY DEF PhaseInv, TypeOK
    <2>3. ChannelInv' /\ WireInv'  BY DEF ChannelInv, WireInv, Delivered
    <2> QED  BY <2>1, <2>2, <2>3
  <1>4. CASE CloseChannel
    <2> USE <1>4 DEF CloseChannel
    <2>1. TypeOK'  BY DEF TypeOK
    <2>2. PhaseInv'  BY DEF PhaseInv, TypeOK
    <2>3. ChannelInv' /\ WireInv'  BY DEF ChannelInv, WireInv, Delivered
    <2> QED  BY <2>1, <2>2, <2>3
  <1>5. CASE Report
    <2> USE <1>5 DEF Report
    <2>1. TypeOK'  BY DEF TypeOK
    <2>2. PhaseInv'  BY DEF PhaseInv, TypeOK
    <2>3. ChannelInv' /\ WireInv'  BY DEF ChannelInv, WireInv, Delivered
    <2> QED  BY <2>1, <2>2, <2>3
  <1> QED  BY <1>1, <1>2, <1>3, <1>4, <1>5 DEF ProducerStep

\* Receiving takes the oldest event of the channel and keeps the rest in line.
LEMMA ReceiveKeeps ==
    ASSUME BInv, channel # <<>>, channel' = Tail(channel), UNCHANGED emitted
    PROVE  /\ channel' \in Seq(Event) /\ Len(channel') = Len(channel) - 1
           /\ Len(channel) \in Nat \ {0} /\ Len(emitted) \in Nat
           /\ Len(channel') <= Capacity
           /\ Head(channel) = emitted[Len(emitted) - Len(channel) + 1]
           /\ Head(channel) \in Event
           /\ ChannelInv'
  <1> USE DEF BInv
  <1>1. /\ channel \in Seq(Event) /\ emitted \in Seq(Event)
        /\ Len(channel) \in Nat \ {0} /\ Len(emitted) \in Nat
    BY EmptySeq DEF TypeOK
  <1>2. /\ channel' \in Seq(Event) /\ Len(channel') = Len(channel) - 1
        /\ Head(channel) = channel[1] /\ Head(channel) \in Event
        /\ \A i \in 1..Len(channel') : channel'[i] = channel[i + 1]
    BY <1>1
  <1>3. Head(channel) = emitted[Len(emitted) - Len(channel) + 1]
    BY <1>1, <1>2 DEF ChannelInv
  <1>4. ASSUME NEW i \in 1..Len(channel')
        PROVE  channel'[i] = emitted'[Len(emitted') - Len(channel') + i]
    <2>1. i + 1 \in 1..Len(channel)  BY <1>1, <1>2
    <2>2. Len(emitted') - Len(channel') + i = Len(emitted) - Len(channel) + (i + 1)
      BY <1>1, <1>2
    <2> QED  BY <1>2, <2>1, <2>2 DEF ChannelInv
  <1>5. ChannelInv'  BY <1>1, <1>2, <1>4 DEF ChannelInv
  <1>6. Len(channel') <= Capacity  BY <1>1, <1>2, BridgeAssumption DEF TypeOK
  <1> QED  BY <1>1, <1>2, <1>3, <1>5, <1>6

\* The reader's steps.
LEMMA BInvConsumer == ASSUME BInv, ConsumerStep PROVE BInv'
  <1> USE DEF BInv, producerVars
  <1>1. CASE Forward
    <2> USE <1>1 DEF Forward
    <2>1. /\ channel' \in Seq(Event) /\ Len(channel') = Len(channel) - 1
          /\ Len(channel) \in Nat \ {0} /\ Len(emitted) \in Nat
          /\ Len(channel') <= Capacity
          /\ Head(channel) = emitted[Len(emitted) - Len(channel) + 1]
          /\ Head(channel) \in Event /\ ChannelInv'
      BY ReceiveKeeps
    <2>2. TypeOK'  BY <2>1 DEF TypeOK, NextEvent
    <2>3. PhaseInv'  BY DEF PhaseInv
    <2>4. /\ Len(wire) \in Nat /\ Delivered(Len(wire)) /\ ~writeErr
          /\ Len(wire) + Len(channel) = Len(emitted)
      BY DEF TypeOK, WireInv, PhaseInv, Delivered
    <2>5. /\ Len(wire') = Len(wire) + 1 /\ wire'[Len(wire) + 1] = Head(channel)
          /\ \A i \in 1..Len(wire) : wire'[i] = wire[i]
      BY <2>1, <2>4 DEF TypeOK, NextEvent
    <2>6. Head(channel) = emitted[Len(wire) + 1]
      <3>1. Len(emitted) - Len(channel) + 1 = Len(wire) + 1  BY <2>1, <2>4
      <3> QED  BY <2>1, <3>1
    <2>7. \A i \in 1..Len(wire') : wire'[i] = emitted'[i]
      BY <2>4, <2>5, <2>6 DEF Delivered
    <2>8. Len(wire') <= Len(emitted') /\ Len(wire') + Len(channel') = Len(emitted')
      BY <2>1, <2>4, <2>5
    <2>9. WireInv'  BY <2>7, <2>8 DEF WireInv, Delivered
    <2> QED  BY <2>1, <2>2, <2>3, <2>9
  <1>2. CASE WriteFails
    <2> USE <1>2 DEF WriteFails
    <2>1. channel' \in Seq(Event) /\ Len(channel') <= Capacity /\ ChannelInv'  BY ReceiveKeeps
    <2>2. TypeOK'  BY <2>1 DEF TypeOK
    <2>3. PhaseInv'  BY DEF PhaseInv
    <2>4. WireInv'  BY DEF WireInv, Delivered
    <2> QED  BY <2>1, <2>2, <2>3, <2>4
  <1>3. CASE Drain
    <2> USE <1>3 DEF Drain, consumerVars
    <2>1. channel' \in Seq(Event) /\ Len(channel') <= Capacity /\ ChannelInv'  BY ReceiveKeeps
    <2>2. TypeOK'  BY <2>1 DEF TypeOK
    <2>3. PhaseInv'  BY DEF PhaseInv
    <2>4. WireInv'  BY DEF WireInv, Delivered, PhaseInv
    <2> QED  BY <2>1, <2>2, <2>3, <2>4
  <1>4. CASE RangeEnds
    <2> USE <1>4 DEF RangeEnds
    <2>1. TypeOK'  BY DEF TypeOK
    <2>2. PhaseInv'  BY DEF PhaseInv
    <2>3. ChannelInv' /\ WireInv'  BY DEF ChannelInv, WireInv, Delivered
    <2> QED  BY <2>1, <2>2, <2>3
  <1>5. CASE Join
    <2> USE <1>5 DEF Join
    <2>1. runErr \in {"nil", "error"}  BY DEF PhaseInv, TypeOK
    <2>2. TypeOK'  BY <2>1 DEF TypeOK, joinedError
    <2>3. PhaseInv'  BY DEF PhaseInv, joinedError
    <2>4. ChannelInv' /\ WireInv'  BY DEF ChannelInv, WireInv, Delivered
    <2> QED  BY <2>2, <2>3, <2>4
  <1>6. CASE CloseStream
    <2> USE <1>6 DEF CloseStream
    <2>1. runErr \in {"nil", "error"}  BY DEF PhaseInv, TypeOK
    <2>2. CloseMarker \in Event  BY DEF CloseMarker, Event, Terminal
    <2>3. TypeOK'
      <3>1. wire' \in Seq(Event)
        <4>1. Append(wire, CloseMarker) \in Seq(Event)  BY <2>2 DEF TypeOK
        <4> QED  BY <4>1 DEF TypeOK
      <3>2. ret' \in {"nil", "error"}  BY <2>1 DEF joinedError
      <3>3. channel' \in Seq(Event) /\ Len(channel') <= Capacity  BY DEF TypeOK
      <3>4. emitted' \in Seq(Event)  BY DEF TypeOK, producerVars
      <3> QED  BY <3>1, <3>2, <3>3, <3>4 DEF TypeOK, producerVars
    <2>4. PhaseInv'  BY DEF PhaseInv, joinedError
    <2>5. ChannelInv'  BY DEF ChannelInv
    <2>6. Len(wire) \in Nat /\ Delivered(Len(wire))  BY DEF TypeOK, WireInv
    <2>7. CASE wire' = Append(wire, CloseMarker)
      <3>1. /\ Len(wire') = Len(wire) + 1 /\ wire'[Len(wire')] = CloseMarker /\ wire' # <<>>
            /\ \A i \in 1..Len(wire) : wire'[i] = wire[i]
        <4>1. wire \in Seq(Event)  BY DEF TypeOK
        <4> HIDE DEF CloseStream, BInv
        <4> QED  BY <2>2, <2>6, <2>7, <4>1, AppendLast
      <3>2. Len(wire') - 1 = Len(wire)  BY <2>6, <3>1
      <3> QED  BY <2>3, <2>4, <2>5, <2>6, <3>1, <3>2 DEF WireInv, Delivered
    <2>8. CASE UNCHANGED wire
      BY <2>3, <2>4, <2>5, <2>6, <2>8 DEF WireInv, Delivered
    <2> QED  BY <2>7, <2>8
  <1> QED  BY <1>1, <1>2, <1>3, <1>4, <1>5, <1>6 DEF ConsumerStep

\* The inductive invariant holds throughout.
THEOREM BridgeInvariant == Spec => []BInv
  <1>1. ASSUME BInv, UNCHANGED vars PROVE BInv'
    BY <1>1 DEF BInv, TypeOK, PhaseInv, ChannelInv, WireInv, Delivered, vars, producerVars,
                consumerVars
  <1>2. BInv /\ [Next]_vars => BInv'
    BY <1>1, BInvProducer, BInvConsumer DEF Next
  <1> QED  BY BInvInit, <1>2, PTL DEF Spec

-----------------------------------------------------------------------------
\* Every variable of the bridge keeps its type.
THEOREM BridgeTypeCorrect == Spec => []TypeOK
  <1>1. BInv => TypeOK  BY DEF BInv
  <1> QED  BY <1>1, BridgeInvariant, PTL

\* The handler never returns before the pipeline's goroutine has ended.
THEOREM GoroutineTheorem == Spec => []NoGoroutineLeft
  <1>1. BInv => NoGoroutineLeft  BY DEF BInv, PhaseInv, NoGoroutineLeft
  <1> QED  BY <1>1, BridgeInvariant, PTL

\* The client sees a prefix of what was emitted, and all of it if no write
\* failed.
THEOREM DeliveryTheorem == Spec => []DeliveredInOrder
  <1>1. ASSUME BInv PROVE DeliveredInOrder
    <2> USE <1>1 DEF BInv
    <2>1. Len(wire) \in Nat /\ Len(emitted) \in Nat /\ Len(channel) \in Nat  BY DEF TypeOK
    <2>2. ASSUME wire # <<>>, wire[Len(wire)] = CloseMarker PROVE ~Delivered(Len(wire))
      <3>1. Len(wire) \in 1..Len(wire)  BY <2>1, <2>2, EmptySeq DEF TypeOK
      <3>2. Delivered(Len(wire)) => emitted[Len(wire)].seq = Len(wire)
        BY <2>1, <3>1 DEF Delivered, ChannelInv
      <3>3. CloseMarker.seq = -1  BY DEF CloseMarker
      <3> QED  BY <2>1, <2>2, <3>1, <3>2, <3>3 DEF Delivered
    <2>3. PICK n : /\ n = IF wire # <<>> /\ wire[Len(wire)] = CloseMarker
                          THEN Len(wire) - 1 ELSE Len(wire)
      OBVIOUS
    <2>4. Delivered(n)  BY <2>2, <2>3 DEF WireInv
    <2>5. n \in Int  BY <2>1, <2>3
    <2>6. consumer \in {"joining", "closing", "returned"} => Len(channel) = 0
      BY EmptySeq DEF PhaseInv
    <2> QED  BY <2>1, <2>3, <2>4, <2>5, <2>6 DEF Delivered, DeliveredInOrder
  <1> QED  BY <1>1, BridgeInvariant, PTL

\* A failure of the pipeline or of a write reaches the caller.
THEOREM ErrorTheorem == Spec => []ErrorReported
  <1>1. BInv => ErrorReported  BY DEF BInv, PhaseInv, ErrorReported
  <1> QED  BY <1>1, BridgeInvariant, PTL

-----------------------------------------------------------------------------
\* AgentStream: its inductive invariant.

\* The lines after a up to pos are of one event, none of them a separator.
Segment(a) ==
    /\ a \in bounds /\ a <= pos
    /\ \A l \in (a + 1)..pos : body[l] # "blank"

\* The pieces gathered are the data lines after a and before z.
Gathered(d, a, z) ==
    /\ wellFormed(d)
    /\ linesOf(d) = {l \in (a + 1)..(z - 1) : body[l] \in Pieces}

\* s holds exactly the events up to line z, whole, once each and in order.
HandedUpTo(s, z) ==
    /\ \A i \in 1..Len(s) : wellFormed(s[i]) /\ linesOf(s[i]) \in Expected
    /\ \A i \in 1..Len(s) : \A l \in linesOf(s[i]) : l <= z
    /\ \A i, j \in 1..Len(s) : i < j => before(linesOf(s[i]), linesOf(s[j]))
    /\ \A F \in Expected : (\A l \in F : l <= z) => \E j \in 1..Len(s) : linesOf(s[j]) = F

\* What was handed over, with what is about to be.
Handed == received \o ch
HandedNext == Append(received \o ch, event)

\* The event reader: what it has handed over ends where what it gathers begins.
EventsInv ==
    /\ reader = "scan" => \E a \in 0..pos : /\ Segment(a)
                                            /\ Gathered(dataLines, a, pos + 1)
                                            /\ HandedUpTo(Handed, a)
    /\ reader = "send" => /\ pos \in bounds
                          /\ dataLines = <<>> /\ HandedUpTo(HandedNext, pos)
    /\ reader = "last" => HandedUpTo(HandedNext, Len(body) + 1)
    /\ reader = "over" => HandedUpTo(Handed, Len(body) + 1)

\* The chunk reader: every line so far was a chunk.
ChunksInv ==
    /\ \A l \in 1..pos : body[l] = "data"
    /\ reader # "last"
    /\ reader = "send" => HandedUpTo(HandedNext, pos)
    /\ reader # "send" => HandedUpTo(Handed, pos)
    /\ reader = "over" => ~anotherChunk

ReadInv ==
    ~ctxDone => /\ form = "events" => EventsInv
                /\ form = "chunks" => ChunksInv
RInv == StreamTypeOK /\ ReadInv

-----------------------------------------------------------------------------
\* What the operators of AgentStream compute.

LEMMA BodyLength ==
    ASSUME body \in Bodies PROVE Len(body) \in Nat
  <1> DEFINE whole == UNION {[1..n -> Kinds] : n \in 0..MaxLines}
  <1>1. ASSUME NEW b \in whole
        PROVE  /\ b \in Seq(Kinds)
               /\ b # <<>> => [b EXCEPT ![Len(b)] = "torn"] \in Seq(Kinds \cup {"torn"})
    <2>1. PICK n \in 0..MaxLines : b \in [1..n -> Kinds]  BY <1>1
    <2>2. n \in Nat  BY AgentStreamAssumption
    <2>3. b \in Seq(Kinds) /\ Len(b) = n  BY <2>1, <2>2
    <2>4. [b EXCEPT ![Len(b)] = "torn"] \in [1..n -> Kinds \cup {"torn"}]  BY <2>1
    <2> QED  BY <2>2, <2>3, <2>4
  <1>2. CASE body \in whole  BY <1>1, <1>2
  <1>3. CASE body \in {[b EXCEPT ![Len(b)] = "torn"] : b \in {w \in whole : Cuttable(w)}}
    <2>1. PICK b \in whole : Cuttable(b) /\ body = [b EXCEPT ![Len(b)] = "torn"]  BY <1>3
    <2>2. body \in Seq(Kinds \cup {"torn"})  BY <1>1, <2>1 DEF Cuttable
    <2> QED  BY <2>2
  <1> HIDE DEF whole
  <1> QED  BY <1>2, <1>3 DEF Bodies, whole

LEMMA LeastOf ==
    ASSUME NEW T, T \subseteq Nat, T # {}
    PROVE  \E x \in T : \A y \in T : x <= y
  <1> DEFINE R == OpToRel(<, Nat)
  <1>1. IsWellFoundedOn(R, Nat)  BY NatLessThanWellFounded
  <1>2. \A x, y \in Nat : <<y, x>> \in R <=> y < x  BY DEF OpToRel
  <1> HIDE DEF R
  <1>3. PICK x \in T : \A y \in T : ~(<<y, x>> \in R)  BY <1>1, WFMin
  <1>4. \A y \in T : ~(y < x)  BY <1>2, <1>3
  <1>5. \A y \in T : x <= y  BY <1>4
  <1> QED  BY <1>5

\* The least and the greatest index of some of a sequence's.
LEMMA EndsOf ==
    ASSUME NEW n \in Nat, NEW S, S \subseteq 1..n, S # {}
    PROVE  /\ Min(S) \in S /\ Max(S) \in S
           /\ \A y \in S : Min(S) <= y /\ y <= Max(S)
  <1>1. \E x \in S : \A y \in S : x <= y
    <2>1. S \subseteq Nat  OBVIOUS
    <2> QED  BY <2>1, LeastOf
  <1>2. \E x \in S : \A y \in S : x >= y
    <2> DEFINE T == {n - x : x \in S}
    <2>1. T \subseteq Nat /\ T # {}
      <3>1. \A x \in S : n - x \in Nat  OBVIOUS
      <3>2. PICK x \in S : TRUE  OBVIOUS
      <3>3. n - x \in T  OBVIOUS
      <3> QED  BY <3>1, <3>3
    <2> HIDE DEF T
    <2>2. PICK t \in T : \A y \in T : t <= y  BY <2>1, LeastOf
    <2>3. PICK m \in S : t = n - m  BY <2>2 DEF T
    <2>4. ASSUME NEW y \in S PROVE m >= y
      <3>1. n - y \in T  BY DEF T
      <3>2. n - m <= n - y  BY <2>2, <2>3, <3>1
      <3> QED  BY <3>2
    <2> QED  BY <2>4
  <1>3. Min(S) \in S /\ \A y \in S : Min(S) <= y  BY <1>1 DEF Min
  <1>4. Max(S) \in S /\ \A y \in S : Max(S) >= y  BY <1>2 DEF Max
  <1> QED  BY <1>3, <1>4

\* What is trimmed of the pieces: from the first to the last that is not empty.
LEMMA TrimmedIs ==
    ASSUME NEW d \in Data
    PROVE  /\ trimmed(d) \in Data
           /\ \/ trimmed(d) = <<>> /\ \A k \in 1..Len(d) : d[k].kind = "empty"
              \/ \E m, n \in 1..Len(d) :
                    /\ m <= n /\ d[m].kind # "empty" /\ d[n].kind # "empty"
                    /\ \A k \in 1..Len(d) : d[k].kind # "empty" => m <= k /\ k <= n
                    /\ Len(trimmed(d)) = n - m + 1
                    /\ \A i \in 1..(n - m + 1) : trimmed(d)[i] = d[m + i - 1]
  <1> DEFINE S == {k \in 1..Len(d) : d[k].kind # "empty"}
  <1>1. Len(d) \in Nat /\ S \subseteq 1..Len(d) /\ \A k \in 1..Len(d) : d[k] \in Piece
    BY DEF Data
  <1>2. CASE S = {}
    <2>1. trimmed(d) = <<>>  BY <1>2 DEF trimmed
    <2> QED  BY <1>2, <2>1 DEF Data
  <1>3. CASE S # {}
    <2>1. /\ Min(S) \in S /\ Max(S) \in S
          /\ \A y \in S : Min(S) <= y /\ y <= Max(S)
      <3> HIDE DEF S
      <3> QED  BY <1>1, <1>3, EndsOf
    <2>2. trimmed(d) = SubSeq(d, Min(S), Max(S))  BY <1>3 DEF trimmed
    <2>3. PICK m, n \in 1..Len(d) : m = Min(S) /\ n = Max(S)  BY <2>1
    <2>4. /\ m <= n /\ d[m].kind # "empty" /\ d[n].kind # "empty"
          /\ \A k \in 1..Len(d) : d[k].kind # "empty" => m <= k /\ k <= n
      BY <2>1, <2>3
    <2>5. trimmed(d) = SubSeq(d, m, n)  BY <2>2, <2>3
    <2> HIDE DEF S
    <2>6. \A i \in m..n : d[i] \in Piece  BY <1>1
    <2>7. /\ trimmed(d) \in Seq(Piece)
          /\ Len(trimmed(d)) = n - m + 1
          /\ \A i \in 1..(n - m + 1) : trimmed(d)[i] = d[m + i - 1]
      BY <2>4, <2>5, <2>6, SubSeqProperties
    <2> QED  BY <2>4, <2>7 DEF Data
  <1> QED  BY <1>2, <1>3

\* Trimmed, the pieces between two bounds are the event of those bounds.
LEMMA TrimmedFrames ==
    ASSUME NEW d \in Data, NEW a \in Nat, NEW z \in Nat, Gathered(d, a, z)
    PROVE  /\ wellFormed(trimmed(d))
           /\ linesOf(trimmed(d)) = content(a, z)
           /\ skipped(trimmed(d)) <=> worthless(content(a, z))
  <1> DEFINE t == trimmed(d)
  <1>1. /\ Len(d) \in Nat
        /\ \A k \in 1..Len(d) : /\ d[k] \in Piece /\ d[k].line \in Nat
                                /\ d[k].kind \in Pieces /\ d[k].kind = body[d[k].line]
                                /\ d[k].line \in (a + 1)..(z - 1)
    <2>1. Len(d) \in Nat /\ \A k \in 1..Len(d) : d[k] \in Piece  BY DEF Data
    <2>2. ASSUME NEW k \in 1..Len(d)
          PROVE  d[k].kind = body[d[k].line] /\ d[k].line \in (a + 1)..(z - 1)
      <3>1. d[k] = piece(d[k].line)  BY DEF Gathered, wellFormed
      <3>2. d[k].kind = body[d[k].line]  BY <3>1 DEF piece
      <3>3. d[k].line \in linesOf(d)  BY DEF linesOf
      <3> QED  BY <3>2, <3>3 DEF Gathered
    <2> QED  BY <2>1, <2>2 DEF Piece
  <1>2. \A j, k \in 1..Len(d) : j < k => d[j].line < d[k].line  BY DEF Gathered, wellFormed
  <1>3. \A j, k \in 1..Len(d) : d[j].line <= d[k].line => j <= k
    <2> SUFFICES ASSUME NEW j \in 1..Len(d), NEW k \in 1..Len(d), k < j
                 PROVE  d[k].line < d[j].line
      BY <1>1
    <2> QED  BY <1>2
  <1>4. \A l \in (a + 1)..(z - 1) : body[l] \in Pieces => \E k \in 1..Len(d) : d[k].line = l
    <2> TAKE l \in (a + 1)..(z - 1)
    <2>1. body[l] \in Pieces => l \in linesOf(d)  BY DEF Gathered
    <2> QED  BY <2>1 DEF linesOf
  <1>5. CASE t = <<>> /\ \A k \in 1..Len(d) : d[k].kind = "empty"
    <2>1. \A l \in (a + 1)..(z - 1) : ~solid(l)
      <3> SUFFICES ASSUME NEW l \in (a + 1)..(z - 1), solid(l) PROVE FALSE  OBVIOUS
      <3>1. PICK k \in 1..Len(d) : d[k].line = l  BY <1>4 DEF solid
      <3> QED  BY <1>1, <1>5, <3>1 DEF solid
    <2>2. content(a, z) = {}
      <3> SUFFICES ASSUME NEW l \in content(a, z) PROVE FALSE  OBVIOUS
      <3>1. l \in (a + 1)..(z - 1) /\ \E f \in (a + 1)..l : solid(f)  BY DEF content
      <3> QED  BY <2>1, <3>1
    <2>3. Len(t) = 0  BY <1>5
    <2>4. linesOf(t) = {} /\ wellFormed(t)  BY <2>3 DEF linesOf, wellFormed
    <2>5. skipped(t)  BY <1>5 DEF skipped
    <2>6. worthless(content(a, z))  BY <2>2 DEF worthless
    <2> QED  BY <2>2, <2>4, <2>5, <2>6
  <1>6. ASSUME NEW m \in 1..Len(d), NEW n \in 1..Len(d),
               m <= n, d[m].kind # "empty", d[n].kind # "empty",
               \A k \in 1..Len(d) : d[k].kind # "empty" => m <= k /\ k <= n,
               Len(t) = n - m + 1,
               \A i \in 1..(n - m + 1) : t[i] = d[m + i - 1]
        PROVE  /\ wellFormed(t) /\ linesOf(t) = content(a, z)
               /\ skipped(t) <=> worthless(content(a, z))
    <2> HIDE DEF t
    <2>0. m \in Nat /\ n \in Nat /\ Len(t) \in Nat  BY <1>1, <1>6
    <2>1. \A i \in 1..Len(t) : m + i - 1 \in 1..Len(d) /\ t[i] = d[m + i - 1]
      BY <1>1, <1>6
    <2>2. wellFormed(t)
      <3>1. ASSUME NEW i \in 1..Len(t) PROVE t[i] = piece(t[i].line)
        BY <2>1 DEF Gathered, wellFormed
      <3>2. ASSUME NEW i \in 1..Len(t), NEW j \in 1..Len(t), i < j
            PROVE  t[i].line < t[j].line
        <4>1. m + i - 1 < m + j - 1  BY <2>0, <3>2
        <4> QED  BY <1>2, <2>1, <4>1
      <3> QED  BY <3>1, <3>2 DEF wellFormed
    <2>3. ASSUME NEW l \in linesOf(t) PROVE l \in content(a, z)
      <3>1. PICK i \in 1..Len(t) : l = t[i].line  BY DEF linesOf
      <3>2. PICK k \in 1..Len(d) : k = m + i - 1 /\ l = d[k].line  BY <2>1, <3>1
      <3>3. m <= k /\ k <= n  BY <1>6, <2>0, <3>2
      <3>4. d[m].line <= l /\ l <= d[n].line
        <4>1. m = k \/ m < k  BY <2>0, <3>3
        <4>2. k = n \/ k < n  BY <2>0, <3>3
        <4>3. d[m].line = d[k].line \/ d[m].line < d[k].line  BY <1>2, <4>1
        <4>4. d[k].line = d[n].line \/ d[k].line < d[n].line  BY <1>2, <4>2
        <4>5. d[m].line \in Nat /\ d[k].line \in Nat /\ d[n].line \in Nat  BY <1>1
        <4>6. \A x, y, v \in Nat : (x = y \/ x < y) /\ (y = v \/ y < v) => x <= y /\ y <= v
          OBVIOUS
        <4>7. d[m].line <= d[k].line /\ d[k].line <= d[n].line  BY <4>3, <4>4, <4>5, <4>6
        <4> QED  BY <3>2, <4>7
      <3>5. solid(d[m].line) /\ solid(d[n].line)  BY <1>1, <1>6 DEF solid
      <3>6. d[m].line \in (a + 1)..l /\ d[n].line \in l..(z - 1)  BY <1>1, <3>2, <3>4
      <3>7. l \in (a + 1)..(z - 1) /\ body[l] \in Pieces  BY <1>1, <3>2
      <3> QED  BY <3>5, <3>6, <3>7 DEF content
    <2>4. ASSUME NEW l \in content(a, z) PROVE l \in linesOf(t)
      <3>1. l \in (a + 1)..(z - 1) /\ body[l] \in Pieces  BY DEF content
      <3>2. PICK f \in (a + 1)..l : solid(f)  BY DEF content
      <3>3. PICK g \in l..(z - 1) : solid(g)  BY DEF content
      <3>4. PICK k \in 1..Len(d) : d[k].line = l  BY <1>4, <3>1
      <3>5. PICK i \in 1..Len(d) : d[i].line = f  BY <1>4, <3>1, <3>2 DEF solid
      <3>6. PICK j \in 1..Len(d) : d[j].line = g  BY <1>4, <3>1, <3>3 DEF solid
      <3>7. m <= i /\ j <= n  BY <1>1, <1>6, <3>2, <3>3, <3>5, <3>6 DEF solid
      <3>8. i <= k /\ k <= j
        <4>1. d[i].line <= d[k].line /\ d[k].line <= d[j].line
          BY <3>1, <3>2, <3>3, <3>4, <3>5, <3>6
        <4> QED  BY <1>3, <4>1
      <3>9. k - m + 1 \in 1..Len(t) /\ m + (k - m + 1) - 1 = k  BY <1>6, <2>0, <3>7, <3>8
      <3>10. t[k - m + 1].line = l  BY <2>1, <3>4, <3>9
      <3> QED  BY <3>9, <3>10 DEF linesOf
    <2>5. linesOf(t) = content(a, z)  BY <2>3, <2>4
    <2>6. 1 \in 1..Len(t) /\ t # <<>>
      <3>1. 1 \in 1..Len(t) /\ Len(t) # 0  BY <1>6, <2>0
      <3> QED  BY <3>1
    <2>7. ASSUME skipped(t) PROVE worthless(content(a, z))
      <3>1. Len(t) = 1 /\ t[1].kind = "done"  BY <2>6, <2>7 DEF skipped
      <3>2. linesOf(t) = {t[1].line}  BY <3>1 DEF linesOf
      <3>3. body[t[1].line] = "done"
        <4>1. t[1] = piece(t[1].line)  BY <2>2, <2>6 DEF wellFormed
        <4> QED  BY <3>1, <4>1 DEF piece
      <3> QED  BY <2>5, <3>2, <3>3 DEF worthless
    <2>8. ASSUME worthless(content(a, z)) PROVE skipped(t)
      <3>1. t[1].line \in linesOf(t)  BY <2>6 DEF linesOf
      <3>2. PICK l : linesOf(t) = {l} /\ body[l] = "done"  BY <2>5, <2>8, <3>1 DEF worthless
      <3>3. Len(t) = 1
        <4> SUFFICES ASSUME Len(t) # 1 PROVE FALSE  OBVIOUS
        <4>1. 2 \in 1..Len(t)  BY <2>0, <2>6
        <4>2. t[1].line < t[2].line  BY <2>2, <2>6, <4>1 DEF wellFormed
        <4>3. t[1].line = l /\ t[2].line = l  BY <2>6, <3>2, <4>1 DEF linesOf
        <4>4. t[1].line \in Nat  BY <1>1, <2>1, <2>6
        <4> QED  BY <4>2, <4>3, <4>4
      <3>4. t[1].kind = "done"
        <4>1. t[1] = piece(t[1].line)  BY <2>2, <2>6 DEF wellFormed
        <4>2. t[1].line = l  BY <3>1, <3>2
        <4> QED  BY <3>2, <4>1, <4>2 DEF piece
      <3> QED  BY <3>3, <3>4 DEF skipped
    <2> QED  BY <2>2, <2>5, <2>7, <2>8
  <1> QED  BY <1>5, <1>6, TrimmedIs

-----------------------------------------------------------------------------
\* Handing over one event after the other.

\* No event is empty, and the lines of each are numbers.
LEMMA ExpectedIs ==
    ASSUME Len(body) \in Nat, NEW F \in Expected
    PROVE  F # {} /\ F \subseteq 1..Len(body)
  <1>1. CASE form = "events"
    BY <1>1 DEF Expected, Frames, worthless
  <1>2. CASE form # "events"
    BY <1>2 DEF Expected, Chunks
  <1> QED  BY <1>1, <1>2

\* Between neighbouring bounds lies one event at most.
LEMMA OneFrame ==
    ASSUME Len(body) \in Nat, NEW a \in bounds, NEW z \in bounds, neighbours(a, z),
           NEW F \in Frames, \A l \in F : l <= z
    PROVE  (\A l \in F : l <= a) \/ F = content(a, z)
  <1>1. PICK b \in bounds, y \in bounds : neighbours(b, y) /\ F = content(b, y)
    BY DEF Frames
  <1>2. a \in Nat /\ z \in Nat /\ b \in Nat /\ y \in Nat  BY DEF bounds
  <1>3. \A l \in F : l \in (b + 1)..(y - 1)  BY <1>1 DEF content
  <1>4. PICK l \in F : TRUE  BY DEF Frames, worthless
  <1>5. l \in Nat /\ b < l /\ l < y /\ l <= z  BY <1>2, <1>3
  <1>6. CASE y <= a  BY <1>2, <1>3, <1>6
  <1>7. CASE y > a
    <2>1. a <= b  BY <1>1, <1>2, <1>7 DEF neighbours
    <2>2. b <= a  BY <1>2, <1>5 DEF neighbours
    <2>3. z <= y  BY <1>2, <1>7 DEF neighbours
    <2>4. y <= z
      <3>1. z <= b \/ z >= y  BY <1>1 DEF neighbours
      <3> QED  BY <1>2, <1>5, <3>1
    <2>5. a = b /\ y = z  BY <1>2, <2>1, <2>2, <2>3, <2>4
    <2> QED  BY <1>1, <2>5
  <1> QED  BY <1>2, <1>6, <1>7

\* The next event follows what was handed over.
LEMMA HandOver ==
    ASSUME Len(body) \in Nat,
           NEW s \in Seq(Data), NEW e \in Data, NEW a \in Nat, NEW z \in Nat, a <= z,
           HandedUpTo(s, a), wellFormed(e), linesOf(e) \in Expected,
           \A l \in linesOf(e) : a < l /\ l <= z,
           \A F \in Expected : (\A l \in F : l <= z) => (\A l \in F : l <= a) \/ F = linesOf(e)
    PROVE  HandedUpTo(Append(s, e), z)
  <1> DEFINE t == Append(s, e)
  <1>1. /\ Len(s) \in Nat /\ Len(t) = Len(s) + 1 /\ t[Len(s) + 1] = e
        /\ \A i \in 1..Len(s) : t[i] = s[i]
    OBVIOUS
  <1> HIDE DEF t
  <1>2. \A i \in 1..Len(t) : i \in 1..Len(s) \/ i = Len(s) + 1  BY <1>1
  <1>3. ASSUME NEW i \in 1..Len(t) PROVE wellFormed(t[i]) /\ linesOf(t[i]) \in Expected
    BY <1>1, <1>2 DEF HandedUpTo
  <1>4. ASSUME NEW i \in 1..Len(t), NEW l \in linesOf(t[i]) PROVE l <= z
    <2>1. CASE i \in 1..Len(s)
      <3>1. l \in linesOf(s[i]) /\ linesOf(s[i]) \in Expected  BY <1>1, <1>4, <2>1 DEF HandedUpTo
      <3>2. l <= a  BY <2>1, <3>1 DEF HandedUpTo
      <3>3. l \in Nat  BY <3>1, ExpectedIs
      <3> QED  BY <3>2, <3>3
    <2>2. CASE i = Len(s) + 1  BY <1>1, <1>4, <2>2
    <2> QED  BY <1>2, <2>1, <2>2
  <1>5. ASSUME NEW i \in 1..Len(t), NEW j \in 1..Len(t), i < j
        PROVE  before(linesOf(t[i]), linesOf(t[j]))
    <2>1. CASE j \in 1..Len(s)
      <3>1. i \in 1..Len(s)  BY <1>1, <1>5, <2>1
      <3> QED  BY <1>1, <1>5, <2>1, <3>1 DEF HandedUpTo
    <2>2. CASE j = Len(s) + 1
      <3>1. i \in 1..Len(s)  BY <1>1, <1>5, <2>2
      <3>2. SUFFICES ASSUME NEW k \in linesOf(s[i]), NEW l \in linesOf(e) PROVE k < l
        BY <1>1, <2>2, <3>1 DEF before
      <3>3. k <= a /\ k \in Nat  BY <3>1, ExpectedIs DEF HandedUpTo
      <3>4. a < l /\ l \in Nat  BY ExpectedIs
      <3> QED  BY <3>3, <3>4
    <2> QED  BY <1>2, <2>1, <2>2
  <1>6. ASSUME NEW F \in Expected, \A l \in F : l <= z
        PROVE  \E j \in 1..Len(t) : linesOf(t[j]) = F
    <2>1. CASE \A l \in F : l <= a
      <3>1. PICK j \in 1..Len(s) : linesOf(s[j]) = F  BY <2>1 DEF HandedUpTo
      <3>2. j \in 1..Len(t) /\ t[j] = s[j]  BY <1>1
      <3> QED  BY <3>1, <3>2
    <2>2. CASE F = linesOf(e)
      <3>1. Len(s) + 1 \in 1..Len(t)  BY <1>1
      <3> QED  BY <1>1, <2>2, <3>1
    <2> QED  BY <1>6, <2>1, <2>2
  <1>7. HandedUpTo(t, z)  BY <1>3, <1>4, <1>5, <1>6 DEF HandedUpTo
  <1> QED  BY <1>7 DEF t

\* Flushing what was gathered between two bounds hands over their event, or
\* there is none.
LEMMA FlushHands ==
    ASSUME Len(body) \in Nat, form = "events",
           NEW s \in Seq(Data), NEW d \in Data, NEW a \in bounds, NEW z \in bounds,
           neighbours(a, z), Gathered(d, a, z), HandedUpTo(s, a)
    PROVE  /\ skipped(trimmed(d)) => HandedUpTo(s, z)
           /\ ~skipped(trimmed(d)) => HandedUpTo(Append(s, trimmed(d)), z)
  <1> DEFINE t == trimmed(d)
  <1>0. a \in Nat /\ z \in Nat /\ a < z  BY DEF bounds, neighbours
  <1>1. /\ wellFormed(t) /\ linesOf(t) = content(a, z)
        /\ skipped(t) <=> worthless(content(a, z))
    BY <1>0, TrimmedFrames
  <1>2. t \in Data  BY TrimmedIs
  <1> HIDE DEF t
  <1>3. \A F \in Expected : (\A l \in F : l <= z) =>
            (\A l \in F : l <= a) \/ (F = content(a, z) /\ ~worthless(F))
    <2> SUFFICES ASSUME NEW F \in Frames, \A l \in F : l <= z
                 PROVE  (\A l \in F : l <= a) \/ (F = content(a, z) /\ ~worthless(F))
      BY DEF Expected
    <2>1. ~worthless(F)  BY DEF Frames
    <2>2. (\A l \in F : l <= a) \/ F = content(a, z)  BY OneFrame
    <2> QED  BY <2>1, <2>2
  <1>4. ASSUME skipped(t) PROVE HandedUpTo(s, z)
    <2>1. \A F \in Expected : (\A l \in F : l <= z) => (\A l \in F : l <= a)
      BY <1>1, <1>3, <1>4
    <2>2. ASSUME NEW i \in 1..Len(s), NEW l \in linesOf(s[i]) PROVE l <= z
      <3>1. l <= a /\ linesOf(s[i]) \in Expected  BY <2>2 DEF HandedUpTo
      <3>2. l \in Nat  BY <2>2, <3>1, ExpectedIs
      <3> QED  BY <1>0, <3>1, <3>2
    <2> QED  BY <2>1, <2>2 DEF HandedUpTo
  <1>5. ASSUME ~skipped(t) PROVE HandedUpTo(Append(s, t), z)
    <2>1. ~worthless(content(a, z))  BY <1>1, <1>5
    <2>2. \A l \in content(a, z) : a < l /\ l <= z /\ l \in 1..Len(body)
      <3>1. z <= Len(body) + 1  BY DEF bounds
      <3>2. \A l \in content(a, z) : l \in (a + 1)..(z - 1)  BY DEF content
      <3> QED  BY <1>0, <3>1, <3>2
    <2>3. content(a, z) \in Expected
      <3>1. content(a, z) \in SUBSET (1..Len(body))  BY <2>2
      <3> QED  BY <2>1, <3>1 DEF Expected, Frames
    <2> QED  BY <1>0, <1>1, <1>2, <1>3, <2>2, <2>3, HandOver
  <1> QED  BY <1>4, <1>5 DEF t

-----------------------------------------------------------------------------
\* The steps of AgentStream.

\* What the invariant says of a state, from what is known of its parts.
LEMMA ScanGoesOn ==
    ASSUME UNCHANGED <<form, body>>, reader' = "scan",
           NEW a \in bounds, a \in 0..pos', \A l \in (a + 1)..pos' : body[l] # "blank",
           Gathered(dataLines', a, pos' + 1), HandedUpTo(Handed', a)
    PROVE  EventsInv'
  <1>1. bounds' = bounds /\ Expected' = Expected
    BY DEF bounds, Expected, Frames, Chunks, worthless, neighbours, content, solid
  <1>2. Segment(a)'  BY <1>1 DEF Segment
  <1>3. Gathered(dataLines, a, pos + 1)'  BY DEF Gathered, wellFormed, piece
  <1>4. HandedUpTo(Handed, a)'  BY <1>1 DEF HandedUpTo, wellFormed, piece
  <1> QED  BY <1>2, <1>3, <1>4 DEF EventsInv

LEMMA SendGoesOn ==
    ASSUME UNCHANGED <<form, body>>, reader' = "send",
           pos' \in bounds, dataLines' = <<>>, HandedUpTo(HandedNext', pos')
    PROVE  EventsInv'
  <1>1. bounds' = bounds /\ Expected' = Expected
    BY DEF bounds, Expected, Frames, Chunks, worthless, neighbours, content, solid
  <1>2. HandedUpTo(HandedNext, pos)'  BY <1>1 DEF HandedUpTo, wellFormed, piece
  <1> QED  BY <1>1, <1>2 DEF EventsInv

LEMMA EndGoesOn ==
    ASSUME UNCHANGED <<form, body>>,
           \/ reader' = "last" /\ HandedUpTo(HandedNext', Len(body) + 1)
           \/ reader' = "over" /\ HandedUpTo(Handed', Len(body) + 1)
    PROVE  EventsInv'
  <1>1. Expected' = Expected
    BY DEF bounds, Expected, Frames, Chunks, worthless, neighbours, content, solid
  <1>2. CASE reader' = "last" /\ HandedUpTo(HandedNext', Len(body) + 1)
    <2>1. HandedUpTo(HandedNext, Len(body) + 1)'
      BY <1>1, <1>2 DEF HandedUpTo, wellFormed, piece
    <2> QED  BY <1>2, <2>1 DEF EventsInv
  <1>3. CASE reader' = "over" /\ HandedUpTo(Handed', Len(body) + 1)
    <2>1. HandedUpTo(Handed, Len(body) + 1)'
      BY <1>1, <1>3 DEF HandedUpTo, wellFormed, piece
    <2> QED  BY <1>3, <2>1 DEF EventsInv
  <1> QED  BY <1>2, <1>3

LEMMA ChunksGoOn ==
    ASSUME UNCHANGED <<form, body>>,
           \A l \in 1..pos' : body[l] = "data", reader' # "last",
           reader' = "send" => HandedUpTo(HandedNext', pos'),
           reader' # "send" => HandedUpTo(Handed', pos'),
           reader' = "over" => ~(pos' < Len(body) /\ body[pos' + 1] = "data")
    PROVE  ChunksInv'
  <1>1. Expected' = Expected
    BY DEF bounds, Expected, Frames, Chunks, worthless, neighbours, content, solid
  <1>2. reader' = "send" => HandedUpTo(HandedNext, pos)'
    BY <1>1 DEF HandedUpTo, wellFormed, piece
  <1>3. reader' # "send" => HandedUpTo(Handed, pos)'
    BY <1>1 DEF HandedUpTo, wellFormed, piece
  <1> QED  BY <1>2, <1>3 DEF ChunksInv, anotherChunk

\* What the caller takes from the channel it was handed already.
LEMMA NothingMoves ==
    ASSUME RInv, UNCHANGED <<form, body, pos, dataLines, reader, ctxDone>>,
           Handed' = Handed, HandedNext' = HandedNext
    PROVE  ReadInv'
  <1>1. ASSUME EventsInv PROVE EventsInv'
    <2>1. CASE reader = "scan"
      <3>1. PICK a \in 0..pos : /\ Segment(a)
                                /\ Gathered(dataLines, a, pos + 1)
                                /\ HandedUpTo(Handed, a)
        BY <1>1, <2>1 DEF EventsInv
      <3>2. a \in bounds /\ \A l \in (a + 1)..pos : body[l] # "blank"  BY <3>1 DEF Segment
      <3> QED  BY <2>1, <3>1, <3>2, ScanGoesOn
    <2>2. CASE reader = "send"  BY <1>1, <2>2, SendGoesOn DEF EventsInv
    <2>3. CASE reader \in {"last", "over"}  BY <1>1, <2>3, EndGoesOn DEF EventsInv
    <2> QED  BY <2>1, <2>2, <2>3 DEF RInv, StreamTypeOK
  <1>2. ASSUME ChunksInv PROVE ChunksInv'
    BY <1>2, ChunksGoOn DEF ChunksInv, anotherChunk
  <1> QED  BY <1>1, <1>2 DEF RInv, ReadInv

\* Nothing is gathered behind a bound, and nothing belongs there.
LEMMA GatheredNothing ==
    ASSUME NEW a \in Nat PROVE Gathered(<<>>, a, a + 1)
  <1>1. (a + 1)..((a + 1) - 1) = {}  OBVIOUS
  <1>2. linesOf(<<>>) = {} /\ wellFormed(<<>>)  BY DEF linesOf, wellFormed
  <1> QED  BY <1>1, <1>2 DEF Gathered

\* Sending moves the event to the end of what was handed over; receiving
\* moves one within it.
LEMMA HandedMoves ==
    ASSUME NEW r \in Seq(Data), NEW c \in Seq(Data), NEW e \in Data
    PROVE  /\ r \o c \in Seq(Data)
           /\ r \o Append(c, e) = Append(r \o c, e)
           /\ c # <<>> => Append(r, Head(c)) \o Tail(c) = r \o c
  <1> USE DEF Data
  <1> HIDE DEF Data
  <1>1. r \o c \in Seq(Data)  OBVIOUS
  <1>2. r \o Append(c, e) = Append(r \o c, e)  OBVIOUS
  <1>3. ASSUME c # <<>> PROVE Append(r, Head(c)) \o Tail(c) = r \o c
    <2>1. Head(c) \in Data /\ Tail(c) \in Seq(Data) /\ c = <<Head(c)>> \o Tail(c)
      BY <1>3
    <2> QED  BY <2>1
  <1> QED  BY <1>1, <1>2, <1>3

LEMMA RInvInit == StreamInit => RInv
  <1> SUFFICES ASSUME StreamInit PROVE RInv  OBVIOUS
  <1> USE DEF StreamInit
  <1>1. Len(body) \in Nat  BY BodyLength
  <1>2. Len(<<>>) = 0 /\ 0 <= Cap  BY AgentStreamAssumption
  <1>3. StreamTypeOK
    <2>1. <<>> \in Data /\ <<>> \in Seq(Data)  BY DEF Data
    <2>2. Len(ch) <= Cap  BY <1>2
    <2>3. pos \in 0..Len(body)  BY <1>1
    <2> QED  BY <2>1, <2>2, <2>3 DEF StreamTypeOK
  <1>4. HandedUpTo(Handed, 0)
    <2>1. Handed = <<>>  BY DEF Handed
    <2>2. ASSUME NEW F \in Expected, \A l \in F : l <= 0 PROVE FALSE
      BY <1>1, <2>2, ExpectedIs
    <2> QED  BY <1>2, <2>1, <2>2 DEF HandedUpTo
  <1>5. EventsInv
    <2>1. Segment(0)  BY DEF Segment, bounds
    <2>2. Gathered(dataLines, 0, pos + 1)  BY GatheredNothing
    <2> QED  BY <1>4, <2>1, <2>2 DEF EventsInv
  <1>6. ChunksInv  BY <1>4 DEF ChunksInv
  <1> QED  BY <1>3, <1>5, <1>6 DEF RInv, ReadInv

\* A line of the event stream.
LEMMA ScanLineKeeps == ASSUME RInv, scanLine PROVE RInv'
  <1> USE DEF scanLine
  <1>0. /\ Len(body) \in Nat /\ pos \in Nat /\ pos + 1 <= Len(body)
        /\ pos' = pos + 1 /\ pos' \in 0..Len(body) /\ dataLines \in Data
    BY BodyLength DEF RInv, StreamTypeOK
  <1>1. /\ dataLines' \in Data /\ event' \in Data
        /\ reader' \in {"scan", "send", "last", "over"}
    <2>1. <<>> \in Data /\ trimmed(dataLines) \in Data  BY <1>0, TrimmedIs DEF Data
    <2>2. event \in Data  BY DEF RInv, StreamTypeOK
    <2>3. CASE ctxDone  BY <1>0, <2>2, <2>3
    <2>4. CASE ~ctxDone /\ body[pos'] = "blank"
      BY <2>1, <2>4 DEF flush, afterFlush, Pieces
    <2>5. CASE ~ctxDone /\ body[pos'] # "blank" /\ body[pos'] \in Pieces
      <3>1. piece(pos') \in Piece  BY <1>0, <2>5 DEF piece, Piece
      <3>2. Append(dataLines, piece(pos')) \in Data  BY <1>0, <3>1 DEF Data
      <3> QED  BY <2>2, <2>5, <3>2
    <2>6. CASE ~ctxDone /\ body[pos'] # "blank" /\ body[pos'] \notin Pieces
      BY <1>0, <2>2, <2>6
    <2> QED  BY <2>3, <2>4, <2>5, <2>6
  <1>2. StreamTypeOK'  BY <1>0, <1>1 DEF RInv, StreamTypeOK
  <1>3. ASSUME ~ctxDone PROVE EventsInv'
    <2>1. PICK a \in 0..pos : /\ Segment(a)
                              /\ Gathered(dataLines, a, pos + 1)
                              /\ HandedUpTo(Handed, a)
      BY <1>3 DEF RInv, ReadInv, EventsInv
    <2>2. a \in bounds /\ a \in Nat /\ \A l \in (a + 1)..pos : body[l] # "blank"
      BY <2>1 DEF Segment
    <2>3. Handed' = Handed  BY DEF Handed
    <2>4. CASE body[pos'] = "blank"
      <3>1. pos' \in bounds  BY <1>0, <2>4 DEF bounds
      <3>2. neighbours(a, pos')
        <4>1. a < pos'  BY <1>0, <2>1
        <4>2. ASSUME NEW k \in bounds, a < k, k < pos' PROVE FALSE
          <5>1. k \in (a + 1)..pos  BY <1>0, <2>2, <4>2 DEF bounds
          <5>2. k # 0 /\ k # Len(body) + 1  BY <1>0, <2>2, <5>1
          <5>3. body[k] = "blank"  BY <5>2 DEF bounds
          <5> QED  BY <2>2, <5>1, <5>3
        <4>3. \A k \in bounds : k \in Nat  BY <1>0 DEF bounds
        <4> QED  BY <1>0, <2>2, <4>1, <4>2, <4>3 DEF neighbours
      <3>3. Handed \in Seq(Data)  BY HandedMoves DEF Handed, RInv, StreamTypeOK
      <3>4. /\ skipped(trimmed(dataLines)) => HandedUpTo(Handed, pos')
            /\ ~skipped(trimmed(dataLines)) => HandedUpTo(Append(Handed, trimmed(dataLines)), pos')
        BY <1>0, <2>1, <2>2, <3>1, <3>2, <3>3, FlushHands
      <3>5. flush(dataLines, "send", "scan")  BY <1>3, <2>4 DEF Pieces
      <3>6. dataLines' = <<>>  BY <3>5 DEF flush, afterFlush
      <3>7. CASE skipped(trimmed(dataLines))
        <4>1. reader' = "scan"  BY <3>5, <3>7 DEF flush
        <4>2. Gathered(dataLines', pos', pos' + 1)  BY <1>0, <3>6, GatheredNothing
        <4>3. HandedUpTo(Handed', pos')  BY <2>3, <3>4, <3>7
        <4>4. \A l \in (pos' + 1)..pos' : body[l] # "blank"  BY <1>0
        <4>5. pos' \in 0..pos'  BY <1>0
        <4> QED  BY <3>1, <4>1, <4>2, <4>3, <4>4, <4>5, ScanGoesOn
      <3>8. CASE ~skipped(trimmed(dataLines))
        <4>1. reader' = "send" /\ event' = trimmed(dataLines)  BY <3>5, <3>8 DEF flush
        <4>2. HandedNext' = Append(Handed, trimmed(dataLines))
          BY <4>1 DEF HandedNext, Handed
        <4> QED  BY <3>1, <3>4, <3>6, <3>8, <4>1, <4>2, SendGoesOn
      <3> QED  BY <3>7, <3>8
    <2>5. CASE body[pos'] # "blank"
      <3>1. \A l \in (a + 1)..pos' : body[l] # "blank"  BY <1>0, <2>1, <2>2, <2>5
      <3>2. reader' = "scan"  BY <1>3, <2>5
      <3>3. Gathered(dataLines', a, pos' + 1)
        <4>1. {l \in (a + 1)..((pos' + 1) - 1) : body[l] \in Pieces}
              = {l \in (a + 1)..((pos + 1) - 1) : body[l] \in Pieces}
                \cup (IF body[pos'] \in Pieces THEN {pos'} ELSE {})
          BY <1>0, <2>1
        <4>2. CASE body[pos'] \in Pieces
          <5> DEFINE d == dataLines
                     p == piece(pos')
          <5>1. dataLines' = Append(d, p)  BY <1>3, <2>5, <4>2
          <5>2. p \in Piece /\ p.line = pos' /\ p = piece(p.line)  BY <1>0, <4>2 DEF piece, Piece
          <5>3. d \in Seq(Piece)  BY <1>0 DEF Data
          <5> HIDE DEF d, p
          <5>4. /\ Len(d) \in Nat /\ Len(dataLines') = Len(d) + 1
                /\ dataLines'[Len(d) + 1] = p
                /\ \A k \in 1..Len(d) : dataLines'[k] = d[k]
            BY <5>1, <5>2, <5>3
          <5>5. \A k \in 1..Len(d) : d[k].line \in (a + 1)..pos
            <6>1. \A k \in 1..Len(d) : d[k].line \in linesOf(d)  BY DEF linesOf
            <6>2. \A l \in linesOf(d) : l \in (a + 1)..((pos + 1) - 1)  BY <2>1 DEF Gathered, d
            <6> QED  BY <1>0, <6>1, <6>2
          <5>6. wellFormed(dataLines')
            <6>1. wellFormed(d)  BY <2>1 DEF Gathered, d
            <6>2. ASSUME NEW k \in 1..Len(dataLines')
                  PROVE  dataLines'[k] = piece(dataLines'[k].line)
              BY <5>2, <5>4, <6>1 DEF wellFormed
            <6>3. ASSUME NEW j \in 1..Len(dataLines'), NEW k \in 1..Len(dataLines'), j < k
                  PROVE  dataLines'[j].line < dataLines'[k].line
              <7>1. j \in 1..Len(d)  BY <5>4, <6>3
              <7>2. CASE k \in 1..Len(d)  BY <5>4, <6>1, <6>3, <7>1, <7>2 DEF wellFormed
              <7>3. CASE k = Len(d) + 1
                <8>1. d[j].line < pos'  BY <1>0, <5>5, <7>1
                <8> QED  BY <5>2, <5>4, <7>1, <7>3, <8>1
              <7> QED  BY <5>4, <7>2, <7>3
            <6> QED  BY <6>2, <6>3 DEF wellFormed
          <5>7. linesOf(dataLines') = linesOf(d) \cup {pos'}
            <6>1. ASSUME NEW l \in linesOf(dataLines') PROVE l \in linesOf(d) \cup {pos'}
              <7>1. PICK k \in 1..Len(dataLines') : l = dataLines'[k].line  BY DEF linesOf
              <7>2. CASE k \in 1..Len(d)  BY <5>4, <7>1, <7>2 DEF linesOf
              <7>3. CASE k = Len(d) + 1  BY <5>2, <5>4, <7>1, <7>3
              <7> QED  BY <5>4, <7>2, <7>3
            <6>2. ASSUME NEW l \in linesOf(d) PROVE l \in linesOf(dataLines')
              <7>1. PICK k \in 1..Len(d) : l = d[k].line  BY DEF linesOf
              <7>2. k \in 1..Len(dataLines') /\ l = dataLines'[k].line  BY <5>4, <7>1
              <7> QED  BY <7>2 DEF linesOf
            <6>3. pos' \in linesOf(dataLines')
              <7>1. Len(d) + 1 \in 1..Len(dataLines')  BY <5>4
              <7>2. pos' = dataLines'[Len(d) + 1].line  BY <5>2, <5>4
              <7> QED  BY <7>1, <7>2 DEF linesOf
            <6> QED  BY <6>1, <6>2, <6>3
          <5>8. linesOf(d) = {l \in (a + 1)..((pos + 1) - 1) : body[l] \in Pieces}
            BY <2>1 DEF Gathered, d
          <5> QED  BY <4>1, <4>2, <5>6, <5>7, <5>8 DEF Gathered
        <4>3. CASE body[pos'] \notin Pieces
          <5>1. dataLines' = dataLines  BY <1>3, <2>5, <4>3
          <5> QED  BY <2>1, <4>1, <4>3, <5>1 DEF Gathered
        <4> QED  BY <4>2, <4>3
      <3>4. a \in 0..pos'  BY <1>0, <2>1
      <3> QED  BY <2>1, <2>2, <2>3, <3>1, <3>2, <3>3, <3>4, ScanGoesOn
    <2> QED  BY <2>4, <2>5
  <1> QED  BY <1>2, <1>3 DEF RInv, ReadInv

\* The end of the event stream.
LEMMA ScanEndsKeeps == ASSUME RInv, scanEnds PROVE RInv'
  <1> USE DEF scanEnds
  <1>0. /\ Len(body) \in Nat /\ pos \in Nat /\ pos <= Len(body) /\ dataLines \in Data
    BY BodyLength DEF RInv, StreamTypeOK
  <1>1. <<>> \in Data /\ trimmed(dataLines) \in Data  BY <1>0, TrimmedIs DEF Data
  <1>2. StreamTypeOK'  BY <1>1 DEF RInv, StreamTypeOK, flush, afterFlush
  <1>3. ASSUME ~ctxDone PROVE EventsInv'
    <2>1. PICK a \in 0..pos : /\ Segment(a)
                              /\ Gathered(dataLines, a, pos + 1)
                              /\ HandedUpTo(Handed, a)
      BY <1>3 DEF RInv, ReadInv, EventsInv
    <2>2. a \in bounds /\ a \in Nat /\ \A l \in (a + 1)..pos : body[l] # "blank"
      BY <2>1 DEF Segment
    <2> DEFINE z == Len(body) + 1
    <2>3. z \in bounds /\ z = pos + 1  BY <1>0, <1>3 DEF bounds
    <2>4. neighbours(a, z)
      <3>1. a < z  BY <1>0, <2>1
      <3>2. ASSUME NEW k \in bounds, a < k, k < z PROVE FALSE
        <4>1. k \in (a + 1)..pos  BY <1>0, <2>2, <2>3, <3>2 DEF bounds
        <4>2. k # 0 /\ k # Len(body) + 1  BY <1>0, <2>2, <4>1
        <4>3. body[k] = "blank"  BY <4>2 DEF bounds
        <4> QED  BY <2>2, <4>1, <4>3
      <3>3. \A k \in bounds : k \in Nat  BY <1>0 DEF bounds
      <3> QED  BY <1>0, <2>2, <3>1, <3>2, <3>3 DEF neighbours
    <2> HIDE DEF z
    <2>5. Handed \in Seq(Data)  BY HandedMoves DEF Handed, RInv, StreamTypeOK
    <2>6. Gathered(dataLines, a, z)  BY <2>1, <2>3
    <2>7. /\ skipped(trimmed(dataLines)) => HandedUpTo(Handed, z)
          /\ ~skipped(trimmed(dataLines)) => HandedUpTo(Append(Handed, trimmed(dataLines)), z)
      BY <1>0, <2>1, <2>2, <2>3, <2>4, <2>5, <2>6, FlushHands
    <2>8. CASE skipped(trimmed(dataLines))
      <3>1. reader' = "over"  BY <2>8 DEF flush
      <3>2. Handed' = Handed  BY DEF Handed
      <3> QED  BY <2>7, <2>8, <3>1, <3>2, EndGoesOn DEF z
    <2>9. CASE ~skipped(trimmed(dataLines))
      <3>1. reader' = "last" /\ event' = trimmed(dataLines)  BY <2>9 DEF flush
      <3>2. HandedNext' = Append(Handed, trimmed(dataLines))  BY <3>1 DEF HandedNext, Handed
      <3> QED  BY <2>7, <2>9, <3>1, <3>2, EndGoesOn DEF z
    <2> QED  BY <2>8, <2>9
  <1> QED  BY <1>2, <1>3 DEF RInv, ReadInv

\* A chunk, or the end of the chunks.
LEMMA DecodeChunkKeeps == ASSUME RInv, decodeChunk PROVE RInv'
  <1> USE DEF decodeChunk
  <1>0. /\ Len(body) \in Nat /\ pos \in Nat /\ pos <= Len(body)
    BY BodyLength DEF RInv, StreamTypeOK
  <1>1. CASE anotherChunk /\ pos' = pos + 1 /\ reader' = "send" /\ event' = <<piece(pos')>>
    <2>1. pos + 1 <= Len(body) /\ body[pos'] = "data"  BY <1>0, <1>1 DEF anotherChunk
    <2>2. piece(pos') \in Piece /\ piece(pos').line = pos'
      BY <1>0, <1>1, <2>1 DEF piece, Piece, Pieces
    <2>3. event' \in Data  BY <1>1, <2>2 DEF Data
    <2>4. pos' \in 0..Len(body)  BY <1>0, <1>1, <2>1
    <2>5. StreamTypeOK'  BY <1>1, <2>3, <2>4 DEF RInv, StreamTypeOK
    <2>6. ASSUME ~ctxDone PROVE ChunksInv'
      <3>1. ChunksInv  BY <2>6 DEF RInv, ReadInv
      <3>2. HandedUpTo(Handed, pos) /\ \A l \in 1..pos' : body[l] = "data"
        BY <1>0, <1>1, <2>1, <3>1 DEF ChunksInv
      <3>3. Len(event') = 1 /\ event'[1].line = pos' /\ event'[1] = piece(event'[1].line)
        BY <1>1, <2>2
      <3>4. wellFormed(event') /\ linesOf(event') = {pos'}
        <4>1. \A k \in 1..Len(event') : k = 1  BY <3>3
        <4>2. wellFormed(event')  BY <3>3, <4>1 DEF wellFormed
        <4> QED  BY <3>3, <4>1, <4>2 DEF linesOf
      <3>5. Expected = Chunks  BY DEF Expected
      <3>6. {pos'} \in Expected  BY <1>0, <1>1, <2>1, <3>2, <3>5 DEF Chunks
      <3>7. ASSUME NEW F \in Expected, \A l \in F : l <= pos'
            PROVE  (\A l \in F : l <= pos) \/ F = {pos'}
        <4>1. PICK k \in 1..Len(body) : F = {k}  BY <3>5 DEF Chunks
        <4>2. k <= pos'  BY <3>7, <4>1
        <4> QED  BY <1>0, <1>1, <4>1, <4>2
      <3>8. Handed \in Seq(Data)  BY HandedMoves DEF Handed, RInv, StreamTypeOK
      <3>9. HandedUpTo(Append(Handed, event'), pos')
        <4> DEFINE e == event'
                   p == pos'
        <4>1. p \in Nat /\ pos <= p /\ \A l \in {p} : pos < l /\ l <= p
          BY <1>0, <1>1
        <4>2. e \in Data /\ wellFormed(e) /\ linesOf(e) = {p}  BY <2>3, <3>4
        <4>3. \A F \in Expected : (\A l \in F : l <= p) => (\A l \in F : l <= pos) \/ F = {p}
          BY <3>7
        <4>4. {p} \in Expected  BY <3>6
        <4> HIDE DEF e, p
        <4>5. /\ linesOf(e) \in Expected /\ \A l \in linesOf(e) : pos < l /\ l <= p
              /\ \A F \in Expected : (\A l \in F : l <= p) => (\A l \in F : l <= pos) \/ F = linesOf(e)
          BY <4>1, <4>2, <4>3, <4>4
        <4>6. HandedUpTo(Append(Handed, e), p)
          BY <1>0, <3>2, <3>8, <4>1, <4>2, <4>5, HandOver
        <4> QED  BY <4>6 DEF e, p
      <3>10. HandedNext' = Append(Handed, event')  BY DEF HandedNext, Handed
      <3> QED  BY <1>1, <3>2, <3>9, <3>10, ChunksGoOn
    <2> QED  BY <2>5, <2>6 DEF RInv, ReadInv
  <1>2. CASE (~anotherChunk \/ ctxDone) /\ reader' = "over" /\ UNCHANGED <<pos, event>>
    <2>1. StreamTypeOK'  BY <1>2 DEF RInv, StreamTypeOK
    <2>2. ASSUME ~ctxDone PROVE ChunksInv'
      <3>1. ChunksInv  BY <2>2 DEF RInv, ReadInv
      <3>2. HandedUpTo(Handed, pos) /\ \A l \in 1..pos : body[l] = "data"
        BY <3>1 DEF ChunksInv
      <3>3. Handed' = Handed  BY DEF Handed
      <3> QED  BY <1>2, <2>2, <3>2, <3>3, ChunksGoOn DEF anotherChunk
    <2> QED  BY <2>1, <2>2 DEF RInv, ReadInv
  <1> QED  BY <1>1, <1>2

\* The channel takes the event.
LEMMA SendKeeps == ASSUME RInv, send PROVE RInv'
  <1> USE DEF send, sent
  <1>0. /\ Len(body) \in Nat /\ pos \in Nat /\ pos <= Len(body)
        /\ received \in Seq(Data) /\ ch \in Seq(Data) /\ event \in Data
    BY BodyLength DEF RInv, StreamTypeOK
  <1>1. ch' \in Seq(Data) /\ Len(ch') <= Cap  BY <1>0, AgentStreamAssumption
  <1>2. <<>> \in Data  BY DEF Data
  <1>3. StreamTypeOK'  BY <1>1, <1>2 DEF RInv, StreamTypeOK
  <1>4. Handed' = HandedNext  BY <1>0, HandedMoves DEF Handed, HandedNext
  <1>5. ASSUME ~ctxDone, form = "events" PROVE EventsInv'
    <2>0. EventsInv  BY <1>5 DEF RInv, ReadInv
    <2>1. CASE reader = "send"
      <3>1. pos \in bounds /\ dataLines = <<>> /\ HandedUpTo(HandedNext, pos)
        BY <2>0, <2>1 DEF EventsInv
      <3>2. Gathered(dataLines', pos, pos' + 1)  BY <1>0, <3>1, GatheredNothing
      <3>3. \A l \in (pos + 1)..pos' : body[l] # "blank"  BY <1>0
      <3>4. pos \in 0..pos' /\ reader' = "scan"  BY <1>0, <2>1
      <3>5. HandedUpTo(Handed', pos)  BY <1>4, <3>1
      <3> QED  BY <3>1, <3>2, <3>3, <3>4, <3>5, ScanGoesOn
    <2>2. CASE reader = "last"
      <3>1. HandedUpTo(HandedNext, Len(body) + 1)  BY <2>0, <2>2 DEF EventsInv
      <3> QED  BY <1>4, <2>2, <3>1, EndGoesOn
    <2> QED  BY <2>1, <2>2
  <1>6. ASSUME ~ctxDone, form = "chunks" PROVE ChunksInv'
    <2>0. ChunksInv  BY <1>6 DEF RInv, ReadInv
    <2>1. reader = "send" /\ reader' = "scan"  BY <2>0 DEF ChunksInv
    <2>2. HandedUpTo(Handed', pos') /\ \A l \in 1..pos' : body[l] = "data"
      BY <1>4, <2>0, <2>1 DEF ChunksInv
    <2> QED  BY <2>1, <2>2, ChunksGoOn
  <1> QED  BY <1>3, <1>5, <1>6 DEF RInv, ReadInv

\* The caller takes the oldest of the channel.
LEMMA ReceivedKeeps == ASSUME RInv, Receive PROVE RInv'
  <1> USE DEF Receive
  <1>0. received \in Seq(Data) /\ ch \in Seq(Data) /\ Len(ch) \in Nat
    BY DEF RInv, StreamTypeOK
  <1>1. /\ Head(ch) \in Data /\ ch' \in Seq(Data) /\ received' \in Seq(Data)
        /\ Len(ch') = Len(ch) - 1
    BY <1>0
  <1>2. Len(ch') <= Cap  BY <1>0, <1>1, AgentStreamAssumption DEF RInv, StreamTypeOK
  <1>3. StreamTypeOK'  BY <1>1, <1>2 DEF RInv, StreamTypeOK
  <1>4. Handed' = Handed
    <2>1. <<>> \in Data  BY DEF Data
    <2> QED  BY <1>0, <2>1, HandedMoves DEF Handed
  <1>5. HandedNext' = HandedNext  BY <1>4 DEF HandedNext, Handed
  <1>6. ReadInv'  BY <1>4, <1>5, NothingMoves
  <1> QED  BY <1>3, <1>6 DEF RInv

\* Every step keeps the invariant.
LEMMA RInvNext == RInv /\ [StreamNext]_streamVars => RInv'
  <1> SUFFICES ASSUME RInv, [StreamNext]_streamVars PROVE RInv'  OBVIOUS
  <1>1. CASE sendCanceled
    <2>1. <<>> \in Data  BY DEF Data
    <2>2. StreamTypeOK'  BY <1>1, <2>1 DEF sendCanceled, sent, RInv, StreamTypeOK
    <2>3. ReadInv'  BY <1>1 DEF sendCanceled, canceled, ReadInv
    <2> QED  BY <2>2, <2>3 DEF RInv
  <1>2. CASE Cancel
    <2>1. StreamTypeOK'  BY <1>2 DEF Cancel, RInv, StreamTypeOK
    <2>2. ReadInv'  BY <1>2 DEF Cancel, ReadInv
    <2> QED  BY <2>1, <2>2 DEF RInv
  <1>3. CASE UNCHANGED streamVars
    <2> USE <1>3 DEF streamVars
    <2>1. StreamTypeOK'  BY DEF RInv, StreamTypeOK
    <2>2. Handed' = Handed /\ HandedNext' = HandedNext  BY DEF Handed, HandedNext
    <2>3. ReadInv'  BY <2>2, NothingMoves
    <2> QED  BY <2>1, <2>3 DEF RInv
  <1> QED
    BY <1>1, <1>2, <1>3, ScanLineKeeps, ScanEndsKeeps, DecodeChunkKeeps, SendKeeps, ReceivedKeeps
    DEF StreamNext, Reader

\* What was handed over and what was gathered fit the body in every state.
THEOREM StreamInvariant == StreamSpec => []RInv
  <1> QED  BY RInvInit, RInvNext, PTL DEF StreamSpec

\* Every variable of the readers keeps its type; the channel never holds more
\* than its capacity.
THEOREM StreamTypeCorrect == StreamSpec => []StreamTypeOK
  <1>1. RInv => StreamTypeOK  BY DEF RInv
  <1> QED  BY <1>1, StreamInvariant, PTL

\* What is handed over without the event being sent is a beginning of it.
LEMMA WithoutLast ==
    ASSUME Len(body) \in Nat, NEW s \in Seq(Data), NEW e \in Data, NEW z \in Nat,
           HandedUpTo(Append(s, e), z)
    PROVE  /\ \A i \in 1..Len(s) : wellFormed(s[i]) /\ linesOf(s[i]) \in Expected
           /\ \A i, j \in 1..Len(s) : i < j => before(linesOf(s[i]), linesOf(s[j]))
           /\ \A F \in Expected : (\E i \in 1..Len(s) : before(F, linesOf(s[i])))
                                  => \E j \in 1..Len(s) : linesOf(s[j]) = F
  <1> DEFINE t == Append(s, e)
  <1>1. /\ Len(s) \in Nat /\ Len(t) = Len(s) + 1 /\ t[Len(s) + 1] = e
        /\ \A i \in 1..Len(s) : t[i] = s[i] /\ i \in 1..Len(t)
    OBVIOUS
  <1>2. HandedUpTo(t, z)  OBVIOUS
  <1> HIDE DEF t
  <1>3. \A i \in 1..Len(s) : wellFormed(s[i]) /\ linesOf(s[i]) \in Expected
    BY <1>1, <1>2 DEF HandedUpTo
  <1>4. \A i, j \in 1..Len(s) : i < j => before(linesOf(s[i]), linesOf(s[j]))
    BY <1>1, <1>2 DEF HandedUpTo
  <1>5. ASSUME NEW F \in Expected, NEW i \in 1..Len(s), before(F, linesOf(s[i]))
        PROVE  \E j \in 1..Len(s) : linesOf(s[j]) = F
    <2>1. F # {} /\ F \subseteq 1..Len(body) /\ linesOf(s[i]) # {}
          /\ linesOf(s[i]) \subseteq 1..Len(body)
      BY <1>3, ExpectedIs
    <2>2. PICK l \in linesOf(s[i]) : TRUE  BY <2>1
    <2>3. l <= z  BY <1>1, <1>2, <2>2 DEF HandedUpTo
    <2>4. \A k \in F : k <= z  BY <1>5, <2>1, <2>2, <2>3 DEF before
    <2>5. PICK j \in 1..Len(t) : linesOf(t[j]) = F  BY <1>2, <2>4 DEF HandedUpTo
    <2>6. j # Len(s) + 1
      <3> SUFFICES ASSUME j = Len(s) + 1 PROVE FALSE  OBVIOUS
      <3>1. before(linesOf(s[i]), F)
        <4>1. i < j /\ t[i] = s[i] /\ i \in 1..Len(t)  BY <1>1
        <4> QED  BY <1>2, <2>5, <4>1 DEF HandedUpTo
      <3>2. PICK k \in F : TRUE  BY <2>1
      <3>3. k < l /\ l < k /\ k \in Nat /\ l \in Nat  BY <1>5, <2>1, <2>2, <3>1, <3>2 DEF before
      <3> QED  BY <3>3
    <2>7. j \in 1..Len(s)  BY <1>1, <2>6
    <2> QED  BY <1>1, <2>5, <2>7
  <1> QED  BY <1>3, <1>4, <1>5

\* The caller that stays gets the events of the body, each whole, once and in
\* order, and none is missing when the goroutine ends: for every body, however
\* it is framed and wherever it is cut, and every capacity of the channel.
THEOREM StreamEventsFramed == StreamSpec => []EventsFramed
  <1>1. ASSUME RInv PROVE EventsFramed
    <2> SUFFICES ASSUME ~ctxDone
                 PROVE  /\ \A i \in 1..Len(Handed) : /\ wellFormed(Handed[i])
                                                     /\ linesOf(Handed[i]) \in Expected
                        /\ \A i, j \in 1..Len(Handed) :
                              i < j => before(linesOf(Handed[i]), linesOf(Handed[j]))
                        /\ \A F \in Expected :
                              reader = "over" \/ (\E i \in 1..Len(Handed) : before(F, linesOf(Handed[i])))
                              => \E j \in 1..Len(Handed) : linesOf(Handed[j]) = F
      BY DEF EventsFramed, Handed
    <2>0. /\ Len(body) \in Nat /\ pos \in Nat /\ pos <= Len(body)
          /\ received \in Seq(Data) /\ ch \in Seq(Data) /\ event \in Data
          /\ reader \in {"scan", "send", "last", "over"} /\ form \in {"events", "chunks"}
      BY <1>1, BodyLength DEF RInv, StreamTypeOK
    <2>1. Handed \in Seq(Data)  BY <2>0, HandedMoves DEF Handed
    <2>2. (form = "events" => EventsInv) /\ (form = "chunks" => ChunksInv)
      BY <1>1 DEF RInv, ReadInv
    <2>3. \/ \E z \in Nat : HandedUpTo(Append(Handed, event), z) /\ reader # "over"
          \/ \E z \in Nat : /\ HandedUpTo(Handed, z)
                            /\ reader = "over" => \A F \in Expected : \A l \in F : l <= z
      <3>1. HandedNext = Append(Handed, event)  BY DEF Handed, HandedNext
      <3>2. CASE form = "events"
        <4>1. CASE reader = "scan"  BY <2>0, <2>2, <3>2, <4>1 DEF EventsInv
        <4>2. CASE reader = "send"  BY <2>0, <2>2, <3>1, <3>2, <4>2 DEF EventsInv
        <4>3. CASE reader = "last"
          <5>1. Len(body) + 1 \in Nat  BY <2>0
          <5> QED  BY <2>2, <3>1, <3>2, <4>3, <5>1 DEF EventsInv
        <4>4. CASE reader = "over"
          <5>1. Len(body) + 1 \in Nat  BY <2>0
          <5>2. \A F \in Expected : \A l \in F : l <= Len(body) + 1  BY <2>0, ExpectedIs
          <5> QED  BY <2>2, <3>2, <4>4, <5>1, <5>2 DEF EventsInv
        <4> QED  BY <2>0, <4>1, <4>2, <4>3, <4>4
      <3>3. CASE form = "chunks"
        <4>1. CASE reader = "send"  BY <2>0, <2>2, <3>1, <3>3, <4>1 DEF ChunksInv
        <4>2. CASE reader = "scan"  BY <2>0, <2>2, <3>3, <4>2 DEF ChunksInv
        <4>3. CASE reader = "over"
          <5>1. HandedUpTo(Handed, pos) /\ ~anotherChunk  BY <2>2, <3>3, <4>3 DEF ChunksInv
          <5>2. ASSUME NEW F \in Expected, NEW l \in F PROVE l <= pos
            <6>1. PICK k \in 1..Len(body) : F = {k} /\ \A m \in 1..k : body[m] = "data"
              BY <3>3 DEF Expected, Chunks
            <6>2. ASSUME k > pos PROVE FALSE
              <7>1. pos + 1 \in 1..k /\ pos < Len(body)  BY <2>0, <6>2
              <7> QED  BY <5>1, <6>1, <7>1 DEF anotherChunk
            <6> QED  BY <2>0, <6>1, <6>2
          <5> QED  BY <2>0, <5>1, <5>2
        <4>4. reader # "last"  BY <2>2, <3>3 DEF ChunksInv
        <4> QED  BY <2>0, <4>1, <4>2, <4>3, <4>4
      <3> QED  BY <2>0, <3>2, <3>3
    <2>4. ASSUME NEW z \in Nat, HandedUpTo(Append(Handed, event), z), reader # "over"
          PROVE  /\ \A i \in 1..Len(Handed) : /\ wellFormed(Handed[i])
                                              /\ linesOf(Handed[i]) \in Expected
                 /\ \A i, j \in 1..Len(Handed) :
                       i < j => before(linesOf(Handed[i]), linesOf(Handed[j]))
                 /\ \A F \in Expected :
                       reader = "over" \/ (\E i \in 1..Len(Handed) : before(F, linesOf(Handed[i])))
                       => \E j \in 1..Len(Handed) : linesOf(Handed[j]) = F
      BY <2>0, <2>1, <2>4, WithoutLast
    <2>5. ASSUME NEW z \in Nat, HandedUpTo(Handed, z),
                 reader = "over" => \A F \in Expected : \A l \in F : l <= z
          PROVE  /\ \A i \in 1..Len(Handed) : /\ wellFormed(Handed[i])
                                              /\ linesOf(Handed[i]) \in Expected
                 /\ \A i, j \in 1..Len(Handed) :
                       i < j => before(linesOf(Handed[i]), linesOf(Handed[j]))
                 /\ \A F \in Expected :
                       reader = "over" \/ (\E i \in 1..Len(Handed) : before(F, linesOf(Handed[i])))
                       => \E j \in 1..Len(Handed) : linesOf(Handed[j]) = F
      <3>1. ASSUME NEW F \in Expected, NEW i \in 1..Len(Handed), before(F, linesOf(Handed[i]))
            PROVE  \A k \in F : k <= z
        <4>1. linesOf(Handed[i]) \in Expected  BY <2>5 DEF HandedUpTo
        <4>2. F \subseteq 1..Len(body) /\ linesOf(Handed[i]) # {}
              /\ linesOf(Handed[i]) \subseteq 1..Len(body)
          BY <2>0, <4>1, ExpectedIs
        <4>3. PICK l \in linesOf(Handed[i]) : TRUE  BY <4>2
        <4>4. l <= z  BY <2>5, <4>3 DEF HandedUpTo
        <4> QED  BY <3>1, <4>2, <4>3, <4>4 DEF before
      <3>2. \A F \in Expected :
               reader = "over" \/ (\E i \in 1..Len(Handed) : before(F, linesOf(Handed[i])))
               => \A k \in F : k <= z
        BY <2>5, <3>1
      <3> QED  BY <2>5, <3>2 DEF HandedUpTo
    <2> QED  BY <2>3, <2>4, <2>5
  <1> QED  BY <1>1, StreamInvariant, PTL
=============================================================================
