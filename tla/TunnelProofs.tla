----------------------------- MODULE TunnelProofs -----------------------------
(***************************************************************************)
(* The safety of a CONNECT request, for any number of attempts and any     *)
(* number of bytes in either direction.                                    *)
(***************************************************************************)
EXTENDS ConnectTunnel, TLAPS

PcOK ==
  pc \in {"dial", "handshake", "clear", "hijack", "answer", "discard", "tunnel", "await",
           "returned"}

\* Bytes are neither lost nor made up, from the first attempt on.
StreamInv ==
  /\ source \in [Directions -> {"open", "eof", "broken"}]
  /\ sent \in [Directions -> 0..MaxBytes]
  /\ taken \in [Directions -> Nat] /\ held \in [Directions -> Nat]
  /\ delivered \in [Directions -> Nat]
  /\ \A d \in Directions : delivered[d] + held[d] = taken[d] /\ taken[d] <= sent[d]
  /\ pc \in {"dial", "handshake", "clear", "hijack", "answer", "discard"} =>
       \A d \in Directions : delivered[d] = 0

\* Who has which connection, and when the deadline is set.
ConnectionInv ==
  /\ attempt \in 1..Attempts
  /\ upstream \in {"none", "open", "closed"} /\ client \in {"serving", "hijacked", "closed"}
  /\ pc = "dial" => upstream # "open"
  /\ pc \in {"dial", "handshake", "clear", "hijack"} => client = "serving"
  /\ pc \in {"answer", "tunnel"} => client = "hijacked"
  /\ pc = "tunnel" => upstream = "open"
  /\ pc \in {"handshake", "clear", "hijack", "answer", "discard"} => upstream = "open"
  /\ pc = "discard" => client # "hijacked"
  /\ pc = "await" => upstream = "closed" /\ client = "closed"
  /\ pc = "returned" => upstream # "open" /\ client # "hijacked"

DeadlineInv ==
  /\ deadline \in BOOLEAN /\ gone \in BOOLEAN
  /\ pc = "handshake" => deadline
  /\ pc \in {"hijack", "answer", "discard", "tunnel", "await"} => ~deadline

Ended(d) == IF copier[d] = "ended" THEN 1 ELSE 0

\* Each goroutine that ended has put one value into the channel, and the handler has
\* taken one out before it waits for the other, and two before it returns.
CopierInv ==
  /\ copier \in [Directions -> {"off", "copying", "ended"}] /\ done \in 0..2
  /\ pc \in {"dial", "handshake", "clear", "hijack", "answer", "discard"} =>
       done = 0 /\ \A d \in Directions : copier[d] = "off"
  /\ pc \in {"tunnel", "await"} => \A d \in Directions : copier[d] # "off"
  /\ pc = "tunnel" => done = Ended("up") + Ended("down")
  /\ pc = "await" => done + 1 = Ended("up") + Ended("down")
  /\ pc = "returned" => done = 0 /\ \A d \in Directions : copier[d] # "copying"

\* While both connections are whole a copy ends only with its source.
EndInv ==
  \A d \in Directions :
    pc = "tunnel" /\ copier[d] = "ended" /\ source["up"] # "broken" /\ source["down"] # "broken" =>
      source[d] = "eof" /\ delivered[d] = sent[d]

IInv == PcOK /\ StreamInv /\ ConnectionInv /\ DeadlineInv /\ CopierInv /\ EndInv

-----------------------------------------------------------------------------
\* There is no connection at first.
LEMMA InitHolds == Init => IInv
<1> SUFFICES ASSUME Init PROVE IInv
  OBVIOUS
<1>1. PcOK /\ StreamInv
  BY TunnelAssumption DEF Init, Zero, Directions, PcOK, StreamInv
<1>2. ConnectionInv
  BY TunnelAssumption DEF Init, ConnectionInv
<1>3. DeadlineInv
  BY DEF Init, DeadlineInv
<1>4. CopierInv /\ EndInv
  BY DEF Init, CopierInv, EndInv
<1> QED
  BY <1>1, <1>2, <1>3, <1>4 DEF IInv

\* The steps before the tunnel.
LEMMA HandshakeKeepsIInv ==
  ASSUME IInv, Dial \/ DialFails \/ ReadResponse \/ HandshakeTimesOut \/ HandshakeFails \/ ClearDeadline
  PROVE  IInv'
<1>1. CASE Dial
  <2>1. PcOK'
    BY <1>1 DEF Dial, Connect, PcOK
  <2>2. StreamInv'
    BY <1>1, TunnelAssumption DEF Dial, Connect, Directions, IInv, StreamInv
  <2>3. ConnectionInv'
    BY <1>1 DEF Dial, Connect, IInv, ConnectionInv
  <2>4. DeadlineInv'
    BY <1>1 DEF Dial, Connect, IInv, DeadlineInv
  <2>5. CopierInv'
    BY <1>1 DEF Dial, Connect, copyVars, IInv, CopierInv
  <2>6. EndInv'
    BY <1>1 DEF Dial, Connect, EndInv
  <2> QED
    BY <2>1, <2>2, <2>3, <2>4, <2>5, <2>6 DEF IInv
<1>2. CASE DialFails
  <2>1. PcOK'
    BY <1>2 DEF DialFails, RetryOrGiveUp, PcOK
  <2>2. StreamInv'
    BY <1>2 DEF DialFails, streamVars, IInv, StreamInv
  <2>3. ConnectionInv'
    BY <1>2, TunnelAssumption DEF DialFails, RetryOrGiveUp, IInv, ConnectionInv
  <2>4. DeadlineInv'
    BY <1>2 DEF DialFails, RetryOrGiveUp, IInv, DeadlineInv
  <2>5. CopierInv'
    BY <1>2 DEF DialFails, RetryOrGiveUp, copyVars, IInv, CopierInv
  <2>6. EndInv'
    BY <1>2 DEF DialFails, copyVars, IInv, CopierInv, EndInv
  <2> QED
    BY <2>1, <2>2, <2>3, <2>4, <2>5, <2>6 DEF IInv
<1>3. CASE ReadResponse
  <2>1. PcOK'
    BY <1>3 DEF ReadResponse, PcOK
  <2>2. StreamInv'
    BY <1>3 DEF ReadResponse, Directions, IInv, StreamInv
  <2>3. ConnectionInv'
    BY <1>3 DEF ReadResponse, IInv, ConnectionInv
  <2>4. DeadlineInv'
    BY <1>3 DEF ReadResponse, IInv, DeadlineInv
  <2>5. CopierInv'
    BY <1>3 DEF ReadResponse, copyVars, IInv, CopierInv
  <2>6. EndInv'
    BY <1>3 DEF ReadResponse, EndInv
  <2> QED
    BY <2>1, <2>2, <2>3, <2>4, <2>5, <2>6 DEF IInv
<1>4. CASE HandshakeTimesOut \/ HandshakeFails
  <2>1. PcOK'
    BY <1>4 DEF HandshakeTimesOut, HandshakeFails, RetryOrGiveUp, PcOK
  <2>2. StreamInv'
    BY <1>4 DEF HandshakeTimesOut, HandshakeFails, CloseUpstream, streamVars, IInv, StreamInv
  <2>3. ConnectionInv'
    BY <1>4, TunnelAssumption DEF HandshakeTimesOut, HandshakeFails, RetryOrGiveUp, CloseUpstream,
                                  IInv, ConnectionInv
  <2>4. DeadlineInv'
    BY <1>4 DEF HandshakeTimesOut, HandshakeFails, RetryOrGiveUp, CloseUpstream, IInv, DeadlineInv
  <2>5. CopierInv'
    BY <1>4 DEF HandshakeTimesOut, HandshakeFails, RetryOrGiveUp, CloseUpstream, copyVars, IInv,
                CopierInv
  <2>6. EndInv'
    BY <1>4 DEF HandshakeTimesOut, HandshakeFails, CloseUpstream, copyVars, IInv, CopierInv, EndInv
  <2> QED
    BY <2>1, <2>2, <2>3, <2>4, <2>5, <2>6 DEF IInv
<1>5. CASE ClearDeadline
  <2>1. PcOK'
    BY <1>5 DEF ClearDeadline, PcOK
  <2>2. StreamInv'
    BY <1>5 DEF ClearDeadline, streamVars, IInv, StreamInv
  <2>3. ConnectionInv'
    BY <1>5 DEF ClearDeadline, IInv, ConnectionInv
  <2>4. DeadlineInv'
    BY <1>5 DEF ClearDeadline, IInv, DeadlineInv
  <2>5. CopierInv'
    BY <1>5 DEF ClearDeadline, copyVars, IInv, CopierInv
  <2>6. EndInv'
    BY <1>5 DEF ClearDeadline, EndInv
  <2> QED
    BY <2>1, <2>2, <2>3, <2>4, <2>5, <2>6 DEF IInv
<1> QED
  BY <1>1, <1>2, <1>3, <1>4, <1>5

\* The handler from the hijacked connection to its return.
LEMMA TunnelKeepsIInv ==
  ASSUME IInv,
         Hijack \/ HijackFails \/ AnswerFails \/ DiscardEnds \/ StartTunnel \/ CloseBoth \/ Return
  PROVE  IInv'
<1>1. CASE Hijack
  <2>1. PcOK'
    BY <1>1 DEF Hijack, PcOK
  <2>2. StreamInv'
    BY <1>1 DEF Hijack, Directions, IInv, StreamInv
  <2>3. ConnectionInv'
    BY <1>1 DEF Hijack, IInv, ConnectionInv
  <2>4. DeadlineInv'
    BY <1>1 DEF Hijack, IInv, DeadlineInv
  <2>5. CopierInv'
    BY <1>1 DEF Hijack, copyVars, IInv, CopierInv
  <2>6. EndInv'
    BY <1>1 DEF Hijack, EndInv
  <2> QED
    BY <2>1, <2>2, <2>3, <2>4, <2>5, <2>6 DEF IInv
<1>2. CASE HijackFails
  <2>1. PcOK'
    BY <1>2 DEF HijackFails, CloseAnswer, PcOK
  <2>2. StreamInv'
    BY <1>2 DEF HijackFails, CloseAnswer, streamVars, IInv, StreamInv
  <2>3. ConnectionInv'
    BY <1>2 DEF HijackFails, CloseAnswer, IInv, ConnectionInv
  <2>4. DeadlineInv'
    BY <1>2 DEF HijackFails, CloseAnswer, IInv, DeadlineInv
  <2>5. CopierInv'
    BY <1>2 DEF HijackFails, CloseAnswer, copyVars, IInv, CopierInv
  <2>6. EndInv'
    BY <1>2 DEF HijackFails, CloseAnswer, EndInv
  <2> QED
    BY <2>1, <2>2, <2>3, <2>4, <2>5, <2>6 DEF IInv
<1>3. CASE AnswerFails
  <2>1. PcOK'
    BY <1>3 DEF AnswerFails, CloseAnswer, PcOK
  <2>2. StreamInv'
    BY <1>3 DEF AnswerFails, CloseAnswer, streamVars, IInv, StreamInv
  <2>3. ConnectionInv'
    BY <1>3 DEF AnswerFails, CloseAnswer, IInv, ConnectionInv
  <2>4. DeadlineInv'
    BY <1>3 DEF AnswerFails, CloseAnswer, IInv, DeadlineInv
  <2>5. CopierInv'
    BY <1>3 DEF AnswerFails, CloseAnswer, copyVars, IInv, CopierInv
  <2>6. EndInv'
    BY <1>3 DEF AnswerFails, CloseAnswer, EndInv
  <2> QED
    BY <2>1, <2>2, <2>3, <2>4, <2>5, <2>6 DEF IInv
<1>4. CASE StartTunnel
  <2>1. PcOK'
    BY <1>4 DEF StartTunnel, PcOK
  <2>2. StreamInv'
    BY <1>4 DEF StartTunnel, streamVars, IInv, StreamInv
  <2>3. ConnectionInv'
    BY <1>4 DEF StartTunnel, IInv, ConnectionInv
  <2>4. DeadlineInv'
    BY <1>4 DEF StartTunnel, IInv, DeadlineInv
  <2>5. CopierInv'
    BY <1>4 DEF StartTunnel, Directions, IInv, CopierInv, Ended
  <2>6. EndInv'
    BY <1>4 DEF StartTunnel, EndInv
  <2> QED
    BY <2>1, <2>2, <2>3, <2>4, <2>5, <2>6 DEF IInv
<1>5. CASE CloseBoth
  <2>1. PcOK'
    BY <1>5 DEF CloseBoth, PcOK
  <2>2. StreamInv'
    BY <1>5 DEF CloseBoth, streamVars, IInv, StreamInv
  <2>3. ConnectionInv'
    BY <1>5 DEF CloseBoth, IInv, ConnectionInv
  <2>4. DeadlineInv'
    BY <1>5 DEF CloseBoth, IInv, DeadlineInv
  <2>5. CopierInv'
    BY <1>5 DEF CloseBoth, IInv, CopierInv, Ended
  <2>6. EndInv'
    BY <1>5 DEF CloseBoth, EndInv
  <2> QED
    BY <2>1, <2>2, <2>3, <2>4, <2>5, <2>6 DEF IInv
<1>6. CASE Return
  <2>1. PcOK'
    BY <1>6 DEF Return, PcOK
  <2>2. StreamInv'
    BY <1>6 DEF Return, streamVars, IInv, StreamInv
  <2>3. ConnectionInv'
    BY <1>6 DEF Return, IInv, ConnectionInv
  <2>4. DeadlineInv'
    BY <1>6 DEF Return, IInv, DeadlineInv
  <2>5. CopierInv'
    BY <1>6 DEF Return, Directions, IInv, CopierInv, Ended
  <2>6. EndInv'
    BY <1>6 DEF Return, EndInv
  <2> QED
    BY <2>1, <2>2, <2>3, <2>4, <2>5, <2>6 DEF IInv
<1>7. CASE DiscardEnds
  <2>1. PcOK'
    BY <1>7 DEF DiscardEnds, PcOK
  <2>2. StreamInv'
    BY <1>7 DEF DiscardEnds, streamVars, IInv, StreamInv
  <2>3. ConnectionInv'
    BY <1>7 DEF DiscardEnds, IInv, ConnectionInv
  <2>4. DeadlineInv'
    BY <1>7 DEF DiscardEnds, IInv, DeadlineInv
  <2>5. CopierInv'
    BY <1>7 DEF DiscardEnds, copyVars, IInv, CopierInv
  <2>6. EndInv'
    BY <1>7 DEF DiscardEnds, EndInv
  <2> QED
    BY <2>1, <2>2, <2>3, <2>4, <2>5, <2>6 DEF IInv
<1> QED
  BY <1>1, <1>2, <1>3, <1>4, <1>5, <1>6, <1>7

\* The two ends of the tunnel.
LEMMA PeersKeepIInv ==
  ASSUME IInv, NEW e \in Directions, Send(e) \/ End(e)
  PROVE  IInv'
<1>1. CASE Send(e)
  <2>1. PcOK'
    BY <1>1 DEF Send, handlerVars, IInv, PcOK
  <2>2. StreamInv'
    BY <1>1, TunnelAssumption DEF Send, handlerVars, IInv, StreamInv
  <2>3. ConnectionInv'
    BY <1>1 DEF Send, handlerVars, IInv, ConnectionInv
  <2>4. DeadlineInv'
    BY <1>1 DEF Send, handlerVars, IInv, DeadlineInv
  <2>5. CopierInv'
    BY <1>1 DEF Send, handlerVars, copyVars, IInv, CopierInv, Ended
  <2>6. EndInv'
    BY <1>1 DEF Send, handlerVars, copyVars, IInv, EndInv
  <2> QED
    BY <2>1, <2>2, <2>3, <2>4, <2>5, <2>6 DEF IInv
<1>2. CASE End(e)
  <2>1. PcOK'
    BY <1>2 DEF End, handlerVars, IInv, PcOK
  <2>2. StreamInv'
    BY <1>2 DEF End, handlerVars, IInv, StreamInv
  <2>3. ConnectionInv'
    BY <1>2 DEF End, handlerVars, IInv, ConnectionInv
  <2>4. DeadlineInv'
    BY <1>2 DEF End, handlerVars, IInv, DeadlineInv
  <2>5. CopierInv'
    BY <1>2 DEF End, handlerVars, copyVars, IInv, CopierInv, Ended
  <2>6. EndInv'
    BY <1>2 DEF End, handlerVars, copyVars, IInv, EndInv
  <2> QED
    BY <2>1, <2>2, <2>3, <2>4, <2>5, <2>6 DEF IInv
<1> QED
  BY <1>1, <1>2

\* The two goroutines.
LEMMA CopyKeepsIInv ==
  ASSUME IInv, NEW e \in Directions, Copy(e)
  PROVE  IInv'
<1>1. CASE CopyByte(e)
  <2>1. PcOK'
    BY <1>1 DEF CopyByte, handlerVars, IInv, PcOK
  <2>2. StreamInv'
    <3>1. copier[e] # "off" /\ pc' = pc /\ source' = source /\ sent' = sent /\ copier' = copier
      BY <1>1 DEF CopyByte, handlerVars, copyVars
    <3>2. delivered' = [delivered EXCEPT ![e] = @ + 1]
      BY <1>1 DEF CopyByte
    <3>3. CASE held[e] > 0
      <4>1. held' = [held EXCEPT ![e] = @ - 1] /\ taken' = taken
        BY <1>1, <3>3 DEF CopyByte
      <4> QED
        BY <3>1, <3>2, <3>3, <4>1 DEF Directions, IInv, PcOK, StreamInv, CopierInv
    <3>4. CASE ~(held[e] > 0)
      <4>1. taken' = [taken EXCEPT ![e] = @ + 1] /\ held' = held /\ taken[e] < sent[e]
        BY <1>1, <3>4 DEF CopyByte, Pending
      <4> QED
        BY <3>1, <3>2, <4>1, TunnelAssumption DEF Directions, IInv, PcOK, StreamInv, CopierInv
    <3> QED
      BY <3>3, <3>4
  <2>3. ConnectionInv'
    BY <1>1 DEF CopyByte, handlerVars, IInv, ConnectionInv
  <2>4. DeadlineInv'
    BY <1>1 DEF CopyByte, handlerVars, IInv, DeadlineInv
  <2>5. CopierInv'
    BY <1>1 DEF CopyByte, handlerVars, copyVars, IInv, CopierInv, Ended
  <2>6. EndInv'
    BY <1>1 DEF CopyByte, handlerVars, copyVars, IInv, EndInv
  <2> QED
    BY <2>1, <2>2, <2>3, <2>4, <2>5, <2>6 DEF IInv
<1>2. CASE CopyEnds(e)
  <2>1. PcOK'
    BY <1>2 DEF CopyEnds, EndCopy, handlerVars, IInv, PcOK
  <2>2. StreamInv'
    BY <1>2 DEF CopyEnds, EndCopy, handlerVars, streamVars, IInv, StreamInv
  <2>3. ConnectionInv'
    BY <1>2 DEF CopyEnds, EndCopy, handlerVars, IInv, ConnectionInv
  <2>4. DeadlineInv'
    BY <1>2 DEF CopyEnds, EndCopy, handlerVars, IInv, DeadlineInv
  <2>5. CopierInv'
    BY <1>2 DEF CopyEnds, EndCopy, Directions, handlerVars, IInv, PcOK, CopierInv, Ended
  <2>6. EndInv'
    BY <1>2 DEF CopyEnds, EndCopy, handlerVars, streamVars, IInv, StreamInv, EndInv
  <2> QED
    BY <2>1, <2>2, <2>3, <2>4, <2>5, <2>6 DEF IInv
<1>3. CASE ReadFails(e)
  <2>1. PcOK'
    BY <1>3 DEF ReadFails, EndCopy, handlerVars, IInv, PcOK
  <2>2. StreamInv'
    BY <1>3 DEF ReadFails, EndCopy, handlerVars, streamVars, IInv, StreamInv
  <2>3. ConnectionInv'
    BY <1>3 DEF ReadFails, EndCopy, handlerVars, IInv, ConnectionInv
  <2>4. DeadlineInv'
    BY <1>3 DEF ReadFails, EndCopy, handlerVars, IInv, DeadlineInv
  <2>5. CopierInv'
    BY <1>3 DEF ReadFails, EndCopy, Directions, handlerVars, IInv, PcOK, CopierInv, Ended
  <2>6. EndInv'
    BY <1>3 DEF ReadFails, EndCopy, SourceUsable, Directions, handlerVars, streamVars, IInv,
                ConnectionInv, EndInv
  <2> QED
    BY <2>1, <2>2, <2>3, <2>4, <2>5, <2>6 DEF IInv
<1>4. CASE WriteFails(e)
  <2>1. PcOK'
    BY <1>4 DEF WriteFails, EndCopy, handlerVars, IInv, PcOK
  <2>2. StreamInv'
    BY <1>4 DEF WriteFails, EndCopy, handlerVars, streamVars, IInv, StreamInv
  <2>3. ConnectionInv'
    BY <1>4 DEF WriteFails, EndCopy, handlerVars, IInv, ConnectionInv
  <2>4. DeadlineInv'
    BY <1>4 DEF WriteFails, EndCopy, handlerVars, IInv, DeadlineInv
  <2>5. CopierInv'
    BY <1>4 DEF WriteFails, EndCopy, Directions, handlerVars, IInv, PcOK, CopierInv, Ended
  <2>6. EndInv'
    BY <1>4 DEF WriteFails, EndCopy, SinkUsable, SourceUsable, Other, handlerVars, streamVars,
                IInv, ConnectionInv, EndInv
  <2> QED
    BY <2>1, <2>2, <2>3, <2>4, <2>5, <2>6 DEF IInv
<1> QED
  BY <1>1, <1>2, <1>3, <1>4 DEF Copy

\* Every step keeps the invariant.
LEMMA IInvInductive == IInv /\ [Next]_vars => IInv'
<1> SUFFICES ASSUME IInv, [Next]_vars PROVE IInv'
  OBVIOUS
<1>1. CASE UNCHANGED vars
  BY <1>1 DEF vars, handlerVars, copyVars, streamVars, IInv, PcOK, StreamInv, ConnectionInv,
              DeadlineInv, CopierInv, Ended, EndInv
<1>2. CASE Handler \/ ReadResponse \/ HandshakeFails \/ DiscardEnds
  BY <1>2, HandshakeKeepsIInv, TunnelKeepsIInv DEF Handler
<1>3. CASE Peers
  BY <1>3, PeersKeepIInv DEF Peers
<1>4. CASE \E d \in Directions : Copy(d)
  BY <1>4, CopyKeepsIInv
<1> QED
  BY <1>1, <1>2, <1>3, <1>4 DEF Next

-----------------------------------------------------------------------------
\* The variables of the tunnel keep their types: no count passes what was sent, and
\* the channel never holds more than its two values.
THEOREM TunnelTypeOK == Spec => []TypeOK
<1>1. IInv => TypeOK
  BY TunnelAssumption DEF IInv, PcOK, StreamInv, ConnectionInv, DeadlineInv, CopierInv, TypeOK
<1> QED
  BY <1>1, InitHolds, IInvInductive, PTL DEF Spec

\* No connection, goroutine or channel value outlives the request, or the attempt it
\* belongs to (handler.go:249-264, 281-286, 372-380).
THEOREM TunnelNothingLeaks == Spec => []NothingLeaks
<1>1. IInv => NothingLeaks
  BY DEF IInv, ConnectionInv, CopierInv, NothingLeaks
<1> QED
  BY <1>1, InitHolds, IInvInductive, PTL DEF Spec

\* The deadline is set during the handshake and never in a tunnel (handler.go:288-312).
THEOREM TunnelDeadlineGuardsHandshake == Spec => []DeadlineGuardsHandshake
<1>1. IInv => DeadlineGuardsHandshake
  BY DEF IInv, DeadlineInv, DeadlineGuardsHandshake
<1> QED
  BY <1>1, InitHolds, IInvInductive, PTL DEF Spec

\* Bytes are copied in order and none is skipped (handler.go:259, 273, 296).
THEOREM TunnelStreamIsWhole == Spec => []StreamIsWhole
<1>1. IInv => StreamIsWhole
  BY DEF IInv, StreamInv, StreamIsWhole
<1> QED
  BY <1>1, InitHolds, IInvInductive, PTL DEF Spec

\* The direction that ends first has delivered all its source sent (handler.go:382-388).
THEOREM TunnelFirstEndIsComplete == Spec => []FirstEndIsComplete
<1>1. IInv => FirstEndIsComplete
  BY DEF IInv, EndInv, FirstEndIsComplete
<1> QED
  BY <1>1, InitHolds, IInvInductive, PTL DEF Spec

=============================================================================
