---------------------------- MODULE ConnectTunnel ----------------------------
(***************************************************************************)
(* One CONNECT request from its first dial to the end of its tunnel        *)
(* (handleConnect, openUpstreamTunnel, tunnel and copyHalf of              *)
(* internal/proxyserver/handler.go), with the connections, the deadline    *)
(* and the bytes that module ProxyServer leaves out.                       *)
(*                                                                         *)
(* Bytes are counted.  In direction d, sent[d] have left the source,       *)
(* taken[d] were read from its socket, held[d] of these sit in a buffered  *)
(* reader, and delivered[d] were written to the other side.                *)
(***************************************************************************)
EXTENDS Integers

CONSTANTS
  Attempts,      \* bound of the retry loop
  MaxBytes       \* bound: bytes a source sends in one direction

ASSUME TunnelAssumption == Attempts \in Nat \ {0} /\ MaxBytes \in Nat

VARIABLES
  pc,            \* handler: dial handshake clear hijack answer discard tunnel await returned
  attempt,
  upstream,      \* upstreamConn: none, open, closed
  deadline,      \* a deadline is set on upstreamConn
  client,        \* clientConn: serving (net/http owns it), hijacked, closed
  gone,          \* the request's context is done
  copier,        \* the copyHalf goroutines: off, copying, ended
  done,          \* values in the done channel, of capacity 2
  source,        \* what the source of a direction does: open, eof, broken
  sent, taken, held, delivered

handlerVars == <<pc, attempt, upstream, deadline, client>>
copyVars    == <<copier, done>>
streamVars  == <<source, sent, taken, held, delivered>>
vars == <<handlerVars, gone, copyVars, streamVars>>

\* up: from the client to the upstream; down: the other way.
Directions == {"up", "down"}
Other(d) == IF d = "up" THEN "down" ELSE "up"

\* The connection direction d reads from can still be used; likewise to write to.
SourceUsable(d) == IF d = "up" THEN client = "hijacked" ELSE upstream = "open"
SinkUsable(d)   == SourceUsable(Other(d)) /\ source[Other(d)] # "broken"

Zero == [d \in Directions |-> 0]

Init ==
  /\ pc = "dial" /\ attempt = 1
  /\ upstream = "none" /\ deadline = FALSE
  /\ client = "serving" /\ gone = FALSE
  /\ copier = [d \in Directions |-> "off"] /\ done = 0
  /\ source = [d \in Directions |-> "open"]
  /\ sent = Zero /\ taken = Zero /\ held = Zero /\ delivered = Zero

-----------------------------------------------------------------------------
\* The two ends.  The client may talk from the start, the upstream once dialed.
Connected(d) == IF d = "up" THEN client # "closed" ELSE upstream = "open"

Send(d) ==
  /\ Connected(d) /\ source[d] = "open" /\ sent[d] < MaxBytes
  /\ sent' = [sent EXCEPT ![d] = @ + 1]
  /\ UNCHANGED <<handlerVars, gone, copyVars, source, taken, held, delivered>>

\* net/http sees the client leave unless bytes it sent are waiting to be read.
End(d) ==
  /\ Connected(d) /\ source[d] = "open"
  /\ \E how \in {"eof", "broken"} : source' = [source EXCEPT ![d] = how]
  /\ \E noticed \in BOOLEAN : gone' = (gone \/ (noticed /\ d = "up" /\ client = "serving"))
  /\ UNCHANGED <<handlerVars, copyVars, sent, taken, held, delivered>>

-----------------------------------------------------------------------------
\* A new connection to an upstream, with nothing sent through it yet.
Connect ==
  /\ pc = "dial" /\ ~gone
  /\ pc' = "handshake" /\ upstream' = "open"
  /\ source' = [source EXCEPT !["down"] = "open"]
  /\ sent' = [sent EXCEPT !["down"] = 0]
  /\ taken' = [taken EXCEPT !["down"] = 0]
  /\ held' = [held EXCEPT !["down"] = 0]
  /\ UNCHANGED <<attempt, client, gone, copyVars, delivered>>

\* Mutant of Dial: no deadline is set.
DialUntimed == Connect /\ UNCHANGED deadline

\* DialContext succeeds, and the handshake deadline is set.
Dial == Connect /\ deadline' = TRUE

\* The loop of handleConnect after an error: another upstream, or 502.
RetryOrGiveUp ==
  IF attempt < Attempts /\ ~gone
  THEN pc' = "dial" /\ attempt' = attempt + 1
  ELSE pc' = "returned" /\ UNCHANGED attempt

\* DialContext fails, or its timeout or the request's context ends it.
DialFails ==
  /\ pc = "dial"
  /\ RetryOrGiveUp
  /\ UNCHANGED <<upstream, deadline, client, gone, copyVars, streamVars>>

\* CONNECT is written and a 200 is read; the reader may hold bytes that came after.
ReadResponse ==
  /\ pc = "handshake" /\ source["down"] # "broken"
  /\ pc' = "clear"
  /\ \E n \in 0..sent["down"] :
       /\ taken' = [taken EXCEPT !["down"] = n]
       /\ held' = [held EXCEPT !["down"] = n]
  /\ UNCHANGED <<attempt, upstream, deadline, client, gone, copyVars, source, sent, delivered>>

\* Mutant of CloseUpstream: the connection is not closed on an error.
CloseUpstreamNot ==
  /\ deadline' = FALSE
  /\ UNCHANGED <<upstream, client, gone, copyVars, streamVars>>

\* The deferred function of openUpstreamTunnel, run when it returns an error.
CloseUpstream ==
  /\ upstream' = "closed" /\ deadline' = FALSE
  /\ UNCHANGED <<client, gone, copyVars, streamVars>>

\* The deadline passes while CONNECT is written or its answer is read.
HandshakeTimesOut ==
  /\ pc = "handshake" /\ deadline
  /\ RetryOrGiveUp
  /\ CloseUpstream

\* The upstream goes away or answers with another status, or a deadline cannot be
\* set or cleared.
HandshakeFails ==
  /\ pc \in {"handshake", "clear"}
  /\ RetryOrGiveUp
  /\ CloseUpstream

\* Mutant of ClearDeadline: it stays set.
ClearDeadlineForgotten ==
  /\ pc = "clear" /\ pc' = "hijack"
  /\ UNCHANGED <<attempt, upstream, deadline, client, gone, copyVars, streamVars>>

ClearDeadline ==
  /\ pc = "clear" /\ pc' = "hijack" /\ deadline' = FALSE
  /\ UNCHANGED <<attempt, upstream, client, gone, copyVars, streamVars>>

\* From here on the connection is the handler's; its buffered reader may hold what
\* the client sent right after its request.
Hijack ==
  /\ pc = "hijack" /\ pc' = "answer" /\ client' = "hijacked"
  /\ \E n \in 0..sent["up"] :
       /\ taken' = [taken EXCEPT !["up"] = n]
       /\ held' = [held EXCEPT !["up"] = n]
  /\ UNCHANGED <<attempt, upstream, deadline, gone, copyVars, source, sent, delivered>>

\* The deferred calls of handleConnect when there was no tunnel.  The body of the
\* upstream's 200 is closed before its connection: when the 200 announced one and
\* keeps the connection, that reads the body to its end, under no deadline.
CloseAnswer ==
  \/ pc' = "returned" /\ upstream' = "closed"
  \/ pc' = "discard" /\ UNCHANGED upstream

\* Hijack fails: net/http keeps the client.
HijackFails ==
  /\ pc = "hijack" /\ CloseAnswer
  /\ UNCHANGED <<attempt, deadline, client, gone, copyVars, streamVars>>

\* The 200 cannot be written to the client, which is closed first.
AnswerFails ==
  /\ pc = "answer" /\ source["up"] = "broken"
  /\ CloseAnswer /\ client' = "closed"
  /\ UNCHANGED <<attempt, deadline, gone, copyVars, streamVars>>

\* The body has ended, or the upstream has.
DiscardEnds ==
  /\ pc = "discard" /\ pc' = "returned" /\ upstream' = "closed"
  /\ UNCHANGED <<attempt, deadline, client, gone, copyVars, streamVars>>

\* Mutant of StartTunnel: the copies read the connections, not the buffered readers.
StartTunnelUnbuffered ==
  /\ pc = "answer" /\ pc' = "tunnel"
  /\ copier' = [d \in Directions |-> "copying"]
  /\ held' = Zero
  /\ UNCHANGED <<attempt, upstream, deadline, client, gone, done, source, sent, taken, delivered>>

\* The 200 is flushed, and both copyHalf goroutines start.
StartTunnel ==
  /\ pc = "answer" /\ pc' = "tunnel"
  /\ copier' = [d \in Directions |-> "copying"]
  /\ UNCHANGED <<attempt, upstream, deadline, client, gone, done, streamVars>>

-----------------------------------------------------------------------------
\* A read would return a byte, from the reader's buffer or else from the socket.
Pending(d) ==
  held[d] > 0 \/ (SourceUsable(d) /\ source[d] # "broken" /\ taken[d] < sent[d])

\* io.Copy moves a byte, the reader's buffer first.
CopyByte(d) ==
  /\ copier[d] = "copying" /\ Pending(d) /\ SinkUsable(d)
  /\ IF held[d] > 0
     THEN held' = [held EXCEPT ![d] = @ - 1] /\ UNCHANGED taken
     ELSE taken' = [taken EXCEPT ![d] = @ + 1] /\ UNCHANGED held
  /\ delivered' = [delivered EXCEPT ![d] = @ + 1]
  /\ UNCHANGED <<handlerVars, gone, copyVars, source, sent>>

\* io.Copy ends: CloseWrite on the sink, and a value in the channel.
EndCopy(d) ==
  /\ copier' = [copier EXCEPT ![d] = "ended"]
  /\ done' = done + 1
  /\ UNCHANGED <<handlerVars, gone, streamVars>>

\* The source has ended and all it sent is copied.
CopyEnds(d) ==
  /\ copier[d] = "copying" /\ held[d] = 0
  /\ SourceUsable(d) /\ source[d] = "eof" /\ taken[d] = sent[d]
  /\ EndCopy(d)

\* A read fails: the source is broken, or the handler has closed its connection.
ReadFails(d) ==
  /\ copier[d] = "copying" /\ held[d] = 0
  /\ ~SourceUsable(d) \/ source[d] = "broken"
  /\ EndCopy(d)

\* There is a byte to write, and the sink is broken or closed.
WriteFails(d) ==
  /\ copier[d] = "copying" /\ Pending(d) /\ ~SinkUsable(d)
  /\ EndCopy(d)

\* Mutant of CloseBoth: only the client is closed.
CloseClientOnly ==
  /\ pc = "tunnel" /\ done > 0
  /\ pc' = "await" /\ done' = done - 1
  /\ client' = "closed"
  /\ UNCHANGED <<attempt, upstream, deadline, gone, copier, streamVars>>

\* The first end closes both connections, which unblocks the other copy.
CloseBoth ==
  /\ pc = "tunnel" /\ done > 0
  /\ pc' = "await" /\ done' = done - 1
  /\ upstream' = "closed" /\ client' = "closed"
  /\ UNCHANGED <<attempt, deadline, gone, copier, streamVars>>

Return ==
  /\ pc = "await" /\ done > 0
  /\ pc' = "returned" /\ done' = done - 1
  /\ UNCHANGED <<attempt, upstream, deadline, client, gone, copier, streamVars>>

Peers == \E d \in Directions : Send(d) \/ End(d)

\* The steps of the handler that no peer can hold up.
Handler ==
  \/ Dial \/ DialFails \/ HandshakeTimesOut \/ ClearDeadline
  \/ Hijack \/ HijackFails \/ AnswerFails \/ StartTunnel \/ CloseBoth \/ Return

Copy(d) == CopyByte(d) \/ CopyEnds(d) \/ ReadFails(d) \/ WriteFails(d)

Next ==
  \/ Peers \/ Handler \/ ReadResponse \/ HandshakeFails \/ DiscardEnds
  \/ \E d \in Directions : Copy(d)

Spec == Init /\ [][Next]_vars

\* The dialer has a timeout, a deadline fires, and a read or a write on a closed
\* connection returns, like the read of a body whose upstream has ended.  Neither side
\* is assumed to answer, to send, to read or to end.
Fairness ==
  /\ WF_vars(Handler) /\ WF_vars(source["down"] # "open" /\ DiscardEnds)
  /\ \A d \in Directions : WF_vars(ReadFails(d) \/ WriteFails(d))

FairSpec == Spec /\ Fairness

-----------------------------------------------------------------------------
TypeOK ==
  /\ pc \in {"dial", "handshake", "clear", "hijack", "answer", "discard", "tunnel", "await",
             "returned"}
  /\ attempt \in 1..Attempts
  /\ upstream \in {"none", "open", "closed"}
  /\ deadline \in BOOLEAN
  /\ client \in {"serving", "hijacked", "closed"}
  /\ gone \in BOOLEAN
  /\ copier \in [Directions -> {"off", "copying", "ended"}]
  /\ done \in 0..2
  /\ source \in [Directions -> {"open", "eof", "broken"}]
  /\ sent \in [Directions -> 0..MaxBytes]
  /\ taken \in [Directions -> 0..MaxBytes]
  /\ held \in [Directions -> 0..MaxBytes]
  /\ delivered \in [Directions -> 0..MaxBytes]

\* Whatever step failed, nothing is left behind: no upstream connection is open
\* when the next one is dialed or the handler returns, the hijacked client is
\* closed, and both goroutines have ended and left no value in the channel
\* (handler.go:249-264, 281-286, 372-380).
NothingLeaks ==
  /\ pc \in {"dial", "returned"} => upstream # "open"
  /\ pc = "returned" =>
       /\ client # "hijacked"
       /\ \A d \in Directions : copier[d] # "copying"
       /\ done = 0

\* The handshake is under the deadline from end to end and the tunnel never is: a
\* tunnel may stay silent for any time (handler.go:288-312).
DeadlineGuardsHandshake ==
  /\ pc = "handshake" => deadline
  /\ pc \in {"answer", "discard", "tunnel", "await"} => ~deadline

\* Bytes are copied in order and none is skipped, those that arrived together with
\* the CONNECT or with its answer included (handler.go:259, 273, 296).
StreamIsWhole ==
  \A d \in Directions :
    copier[d] # "off" =>
      /\ delivered[d] + held[d] = taken[d]
      /\ taken[d] <= sent[d]

\* A copy that was not cut short by a failure or by the other direction's end has
\* delivered all the source sent before its end (handler.go:382-388).
FirstEndIsComplete ==
  \A d \in Directions :
    pc = "tunnel" /\ copier[d] = "ended" /\ source["up"] # "broken" /\ source["down"] # "broken" =>
      delivered[d] = sent[d]

\* Once one direction has ended the handler returns, although the other one may be
\* blocked in a read or a write its peer will never satisfy (handler.go:376-379).
OneEndEndsBoth == (\E d \in Directions : copier[d] = "ended") ~> pc = "returned"

\* A silent upstream does not hold the request: it gets a tunnel or an error, or its
\* client could not be answered (handler.go:288-292).
HandshakeEnds == pc = "dial" ~> pc \in {"tunnel", "await", "discard", "returned"}

=============================================================================
