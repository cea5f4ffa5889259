----------------------------- MODULE SignalReader ----------------------------
(***************************************************************************)
(* How the listener of a call gets the server's signals out of the TCP     *)
(* stream: waitForSignal and readSignal of signaling/SignalingSocket.java, *)
(* signaling/SignalReader.java and util/LineReader.java, which keeps what  *)
(* one read brought too much.  A signal is a request line, headers, an     *)
(* empty line and a body; the stream arrives in pieces of any length.      *)
(*                                                                         *)
(* A byte is a number: CR, LF, a letter of the body, the request line of   *)
(* the k-th signal (one byte here), or a Content-Length header (one byte). *)
(***************************************************************************)
EXTENDS Integers, Sequences, FiniteSetsExt, SequencesExt

CONSTANTS Bodies,      \* bodies a signal may have
          MaxSignals   \* bound on the signals

CR == 13
LF == 10
Request(k) == 100 + k
ContentLength(n) == 200 + n

ASSUME SignalReaderAssumption ==
  /\ MaxSignals \in 1 .. 99
  /\ Bodies \subseteq Seq(0 .. 99)

VARIABLES patient,    \* the server waits for the answer before the next signal
          sent,       \* bodies of the signals the server has sent
          closed,     \* the server has closed the connection
          wire,       \* bytes under way
          baos,       \* LineReader.baos
          at,         \* where the listener is
          request,    \* the request line of the signal it reads
          length,     \* its Content-Length
          buffer,     \* the part of the body it has
          got,        \* the signals it has read: [request, body]
          answered    \* how many of them were answered with OK

readerVars == <<patient, sent, closed, wire, baos, at, request, length, buffer, got, answered>>
parserVars == <<request, length, buffer, got, answered>>

ReaderInit ==
  /\ patient \in BOOLEAN
  /\ sent = <<>> /\ closed = FALSE /\ wire = <<>> /\ baos = <<>>
  /\ at = "wait" /\ request = 0 /\ length = 0 /\ buffer = <<>> /\ got = <<>> /\ answered = 0

Signal(k, body) ==
  <<Request(k), CR, LF, ContentLength(Len(body)), CR, LF, CR, LF>> \o body

ServerSends(body) ==
  /\ ~closed /\ Len(sent) < MaxSignals
  /\ patient => answered = Len(sent)
  /\ sent' = Append(sent, body)
  /\ wire' = wire \o Signal(Len(sent) + 1, body)
  /\ UNCHANGED <<patient, closed, baos, at, parserVars>>

\* The connection ends; the end of what was under way may be lost with it.
ServerCloses ==
  /\ ~closed /\ closed' = TRUE
  /\ \E n \in 0 .. Len(wire) : wire' = SubSeq(wire, 1, n)
  /\ UNCHANGED <<patient, sent, baos, at, parserVars>>

-----------------------------------------------------------------------------
(* LineReader                                                               *)

\* in.read: the bytes that are there, but no more than are asked for; any
\* number of them may have arrived so far.
Read(n) == n \in 1 .. Len(wire) /\ wire' = SubSeq(wire, n + 1, Len(wire))

\* Where the first line ends: the place of its CR, or 0.
findNewline(b) ==
  LET ends == {k \in 1 .. Len(b) - 1 : b[k] = CR /\ b[k + 1] = LF}
  IN IF ends = {} THEN 0 ELSE Min(ends)

\* Mutant: only the CR is taken away with the line.
RestWithLF(b) == SubSeq(b, findNewline(b) + 1, Len(b))

\* What chompLine puts back: what is behind the line's CR and LF.
Rest(b) == SubSeq(b, findNewline(b) + 2, Len(b))

HasLine == findNewline(baos) # 0
Line == SubSeq(baos, 1, findNewline(baos) - 1)

\* readLine without a line in the buffer; at the end of the stream it throws.
FillLine ==
  /\ at \in {"request", "headers"} /\ ~HasLine
  /\ \/ /\ \E n \in 1 .. Len(wire) : Read(n) /\ baos' = baos \o SubSeq(wire, 1, n)
        /\ UNCHANGED at
     \/ wire = <<>> /\ closed /\ at' = "failed" /\ UNCHANGED <<wire, baos>>
  /\ UNCHANGED <<patient, sent, closed, parserVars>>

\* Mutant: the body is read from the socket alone.
FromBufferNone(size) == 0

\* How much of a body is already in the buffer.
FromBuffer(size) == Min({size, Len(baos)})

-----------------------------------------------------------------------------
(* The listener                                                             *)

\* waitForSignal: 500 ms without a byte, and the listener asks again.
waitForAvailable ==
  /\ at = "wait"
  /\ \E n \in 1 .. Len(wire) : Read(n) /\ baos' = baos \o SubSeq(wire, 1, n)
  /\ at' = "request"
  /\ UNCHANGED <<patient, sent, closed, parserVars>>

\* (Anything but three words is a failure; this server sends no such line.)
readSignalRequest ==
  /\ at = "request" /\ HasLine
  /\ at' = "headers" /\ request' = Line[1] /\ baos' = Rest(baos)
  /\ length' = 0 /\ buffer' = <<>>
  /\ UNCHANGED <<patient, sent, closed, wire, got, answered>>

\* A header; the empty line ends them, and the body is begun from the buffer.
readSignalHeaders ==
  /\ at = "headers" /\ HasLine
  /\ baos' = Rest(baos)
  /\ IF Line # <<>> THEN length' = Line[1] - ContentLength(0) /\ UNCHANGED at
                    ELSE at' = "buffered" /\ UNCHANGED length
  /\ UNCHANGED <<patient, sent, closed, wire, request, buffer, got, answered>>

\* readFully: first what the buffer holds, then what the socket brings.
TakeBuffered ==
  /\ at = "buffered"
  /\ buffer' = SubSeq(baos, 1, FromBuffer(length))
  /\ baos' = SubSeq(baos, FromBuffer(length) + 1, Len(baos))
  /\ at' = "body"
  /\ UNCHANGED <<patient, sent, closed, wire, request, length, got, answered>>

FillBody ==
  /\ at = "body" /\ Len(buffer) < length
  /\ \/ /\ \E n \in 1 .. Min({length - Len(buffer), Len(wire)}) :
             Read(n) /\ buffer' = buffer \o SubSeq(wire, 1, n)
        /\ UNCHANGED at
     \/ wire = <<>> /\ closed /\ at' = "failed" /\ UNCHANGED <<wire, buffer>>
  /\ UNCHANGED <<patient, sent, closed, baos, request, length, got, answered>>

\* The signal is handled and answered (ringing, busy, keep-alive).
HandleSignal ==
  /\ at = "body" /\ Len(buffer) = length
  /\ got' = Append(got, [request |-> request, body |-> buffer])
  /\ answered' = answered + 1
  /\ at' = "wait"
  /\ UNCHANGED <<patient, sent, closed, wire, baos, request, length, buffer>>

Listener ==
  \/ waitForAvailable \/ readSignalRequest \/ readSignalHeaders \/ FillLine
  \/ TakeBuffered \/ FillBody \/ HandleSignal

ReaderNext ==
  \/ \E body \in Bodies : ServerSends(body)
  \/ ServerCloses
  \/ Listener

ReaderSpec == ReaderInit /\ [][ReaderNext]_readerVars

-----------------------------------------------------------------------------
(* Properties                                                               *)

\* The listener reads the signals that the server has sent, each once, with its
\* own body and in order, however the stream was cut into pieces, a piece that
\* ends between CR and LF included, and also when the next signal arrives with
\* the end of this one (LineReader: chompLine, readLine, readFully).
SignalsAsSent ==
  /\ at # "failed" \/ closed
  /\ \A k \in DOMAIN got :
       k <= Len(sent) /\ got[k] = [request |-> Request(k), body |-> sent[k]]

\* A server that waits for the answer to each signal, and does not close the
\* connection, has all its signals read:
\* none is left in the buffer of the LineReader, where waitForAvailable(), which
\* asks the socket, would not see it.
SignalsAreRead ==
  \A k \in 1 .. MaxSignals :
    patient /\ Len(sent) >= k ~> Len(got) >= k \/ closed
=============================================================================
