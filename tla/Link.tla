---------------------------------- MODULE Link ----------------------------------
(***************************************************************************)
(* One direction of one TCP connection (src/net.cpp): threads of a process *)
(* call send_frame on the same socket and the peer loops in recv_frame.    *)
(* The threads share no lock around the socket.  send_frame builds the     *)
(* whole frame and send_all writes it with as many calls of ::send as it   *)
(* takes, so two frames can mix when a call takes only part of one.        *)
(*                                                                         *)
(* The checksum is a weighted sum over the same fields as the code's       *)
(* CRC-32; like it, it tells apart the streams that occur here, although   *)
(* not every two streams.                                                  *)
(***************************************************************************)
EXTENDS Codec

CONSTANTS
    None,
    Threads,            \* the sending threads
    Traffic,            \* what they send: a set of functions from Threads to sequences of messages
    kMaxFramePayload,   \* the longest payload
    MaxMessages,        \* the most messages that Traffic sends
    MaxPartial,         \* bound: calls of ::send that take only part of what they were given
    Kept                \* bound: how much of what was written may still be read after a loss

VARIABLES
    todo,       \* per thread, the messages it will still send
    frame,      \* per thread, the frame send_all is writing, <<>> outside it
    at,         \* per thread, how much of it was written: `sent' in send_all
    partial,    \* how many calls took only a part so far
    stream,     \* written and not yet read
    ended,      \* the connection is closed or lost: nothing more will be written
    header,     \* the header of the frame whose payload is being read, None between frames
    status,     \* what recv_frame returned last
    received,   \* the messages handed to the peer's handlers
    reported,   \* history: the messages send_frame reported as sent, in that order
    mixed       \* history: a frame was begun or continued inside another one
vars == <<todo, frame, at, partial, stream, ended, header, status, received, reported, mixed>>
sender == <<todo, frame, at, partial, ended, reported, mixed>>

kProtocolMagic   == 9001
kProtocolVersion == 1
HeaderFields     == 6

Init ==
    /\ todo \in Traffic
    /\ frame = [t \in Threads |-> <<>>]
    /\ at = [t \in Threads |-> 0]
    /\ partial = 0
    /\ stream = <<>>
    /\ ended = FALSE
    /\ header = None
    /\ status = "Ok"
    /\ received = <<>>
    /\ reported = <<>>
    /\ mixed = FALSE

-----------------------------------------------------------------------------
(* send_frame and send_all.                                                *)

\* In place of Crc32.
digest(fields) ==
    LET sum[i \in 0 .. Len(fields)] == IF i = 0 THEN 0 ELSE (sum[i - 1] * 31 + fields[i] + 7) % 65521
    IN  sum[Len(fields)]

\* The field set that sender and receiver sum over: the header without its checksum, the payload.
checksum_of(h, payload) == digest(<<h.magic, h.version, h.type, h.payload_len, h.correlation>> \o payload)

payload_of(m) == encode(codec_of(m.type).enc, m.body)

new_header(m, payload) ==
    LET h == [magic |-> kProtocolMagic, version |-> kProtocolVersion, type |-> m.type,
              payload_len |-> Len(payload), correlation |-> m.correlation, checksum |-> 0]
    IN  [h EXCEPT !.checksum = checksum_of(h, payload)]

encode_header(h) == <<h.magic, h.version, h.type, h.payload_len, h.correlation, h.checksum>>
decode_header(s) == [magic |-> s[1], version |-> s[2], type |-> s[3],
                     payload_len |-> s[4], correlation |-> s[5], checksum |-> s[6]]

\* The messages of Traffic have a frame type of the table, and write numbers.
Messages == UNION {Range(s[t]) : s \in Traffic, t \in Threads}
ASSUME TrafficTypes ==
    /\ kMaxFramePayload \in Nat /\ Kept \subseteq Nat
    /\ Traffic \subseteq [Threads -> Seq(Messages)]
    /\ \A m \in Messages : /\ m.type \in Nat /\ m.type < Len(FrameTypes)
                            /\ m.correlation \in Nat
                            /\ payload_of(m) \in Seq(Int)
                            /\ new_header(m, payload_of(m)) # None

frame_of(m, payload) == encode_header(new_header(m, payload)) \o payload

\* E_FRAME_OVERSIZE writes nothing.
send_frame(t) ==
    /\ ~ended /\ frame[t] = <<>> /\ todo[t] # <<>>
    /\ \E payload \in {payload_of(Head(todo[t]))} :
       IF Len(payload) > kMaxFramePayload
       THEN /\ todo' = [todo EXCEPT ![t] = Tail(@)]
            /\ UNCHANGED <<frame, at>>
       ELSE /\ frame' = [frame EXCEPT ![t] = frame_of(Head(todo[t]), payload)]
            /\ at' = [at EXCEPT ![t] = 0]
            /\ UNCHANGED todo
    /\ UNCHANGED <<partial, stream, ended, header, status, received, reported, mixed>>

inside(t) == at[t] > 0

returns(t) ==
    /\ todo' = [todo EXCEPT ![t] = Tail(@)]
    /\ frame' = [frame EXCEPT ![t] = <<>>]
    /\ at' = [at EXCEPT ![t] = 0]

\* One call of ::send in the loop of send_all, which takes the next n numbers of the frame.
send(t, n) ==
    LET left == Len(frame[t]) - at[t] IN
    /\ ~ended /\ frame[t] # <<>> /\ n <= left
    /\ n < left => partial < MaxPartial
    /\ partial' = partial + (IF n < left THEN 1 ELSE 0)
    /\ stream' = stream \o SubSeq(frame[t], at[t] + 1, at[t] + n)
    /\ mixed' = (mixed \/ \E u \in Threads \ {t} : inside(u))
    /\ IF n = left
       THEN returns(t) /\ reported' = Append(reported, Head(todo[t]))
       ELSE at' = [at EXCEPT ![t] = @ + n] /\ UNCHANGED <<todo, frame, reported>>
    /\ UNCHANGED <<ended, header, status, received>>

\* The sending process ends or the connection is lost, with the tail of what was written.
lose(n) ==
    /\ ~ended /\ n <= Len(stream)
    /\ ended' = TRUE
    /\ stream' = SubSeq(stream, 1, n)
    /\ UNCHANGED <<todo, frame, at, partial, header, status, received, reported, mixed>>

-----------------------------------------------------------------------------
(* recv_frame in the peer's loop, which leaves at the first status but Ok. *)

stop(s) == status' = s /\ UNCHANGED <<header, received>>

recv_header ==
    /\ status = "Ok" /\ header = None /\ Len(stream) >= HeaderFields
    /\ stream' = SubSeq(stream, HeaderFields + 1, Len(stream))
    /\ \E h \in {decode_header(stream)} :
       IF ~is_valid_frame_type(h.type) \/ h.magic # kProtocolMagic \/ h.version # kProtocolVersion
       THEN stop("Malformed")
       ELSE IF h.payload_len > kMaxFramePayload
       THEN stop("Oversized")
       ELSE header' = h /\ UNCHANGED <<status, received>>
    /\ UNCHANGED sender

\* Mutant: a frame without payload is not handed on.
handle_nonempty(type, correlation, payload) ==
    LET m == decode(codec_of(type).dec, payload) IN
    received' = IF m.ok /\ payload # <<>>
                THEN Append(received, [type |-> type, correlation |-> correlation, body |-> m.val])
                ELSE received

\* A handler ignores a frame whose payload does not decode.
handle(type, correlation, payload) ==
    LET m == decode(codec_of(type).dec, payload) IN
    received' = IF m.ok THEN Append(received, [type |-> type, correlation |-> correlation, body |-> m.val])
                        ELSE received

\* Mutant: the checksum is not compared.
recv_unchecked ==
    /\ status = "Ok" /\ header # None /\ Len(stream) >= header.payload_len
    /\ stream' = SubSeq(stream, header.payload_len + 1, Len(stream))
    /\ handle(header.type, header.correlation, SubSeq(stream, 1, header.payload_len))
    /\ header' = None
    /\ UNCHANGED <<status, sender>>

\* Mutant: recv_all waits for one number more than the payload has.
recv_greedy ==
    /\ status = "Ok" /\ header # None /\ Len(stream) > header.payload_len
    /\ stream' = SubSeq(stream, header.payload_len + 1, Len(stream))
    /\ IF checksum_of(header, SubSeq(stream, 1, header.payload_len)) # header.checksum
       THEN stop("Malformed")
       ELSE /\ handle(header.type, header.correlation, SubSeq(stream, 1, header.payload_len))
            /\ header' = None
            /\ UNCHANGED status
    /\ UNCHANGED sender

recv_payload ==
    /\ status = "Ok" /\ header # None /\ Len(stream) >= header.payload_len
    /\ stream' = SubSeq(stream, header.payload_len + 1, Len(stream))
    /\ \E payload \in {SubSeq(stream, 1, header.payload_len)} :
       IF checksum_of(header, payload) # header.checksum
       THEN stop("Malformed")
       ELSE /\ handle(header.type, header.correlation, payload)
            /\ header' = None
            /\ UNCHANGED status
    /\ UNCHANGED sender

\* End of file before all that recv_all was asked for.
recv_eof ==
    /\ status = "Ok" /\ ended
    /\ Len(stream) < (IF header = None THEN HeaderFields ELSE header.payload_len)
    /\ status' = IF header = None THEN "Disconnect" ELSE "Truncated"
    /\ UNCHANGED <<stream, header, received, sender>>

-----------------------------------------------------------------------------
recv_frame == recv_header \/ recv_payload \/ recv_eof

Next ==
    \/ \E t \in Threads : send_frame(t)
    \/ \E t \in Threads : \E n \in 1 .. Len(frame[t]) : send(t, n)
    \/ \E n \in Kept : lose(n)
    \/ recv_frame

Spec == Init /\ [][Next]_vars /\ WF_vars(recv_frame)

-----------------------------------------------------------------------------
(* Properties.                                                             *)

\* What a message looks like on arrival: a program sent without a generation has generation 1.
as_read(m) ==
    LET options == {f \in Range(codec_of(m.type).enc) : f.kind = "opt"}
        padded(name) == LET f == CHOOSE f \in options : f.name = name
                        IN  value_or(m.body[name], f.size)
    IN  [m EXCEPT !.body = [name \in DOMAIN m.body |->
            IF \E f \in options : f.name = name THEN padded(name) ELSE m.body[name]]]

\* The decoder of each type undoes its encoder.
RoundTrips ==
    \A m \in Messages :
        LET r == decode(codec_of(m.type).dec, payload_of(m))
        IN  r.ok /\ [type |-> m.type, correlation |-> m.correlation, body |-> r.val] = as_read(m)

\* What the peer's handlers should see, in this order.
expected == [k \in DOMAIN reported |-> as_read(reported[k])]

(* Every message that reaches a handler is one that a thread of the peer   *)
(* gave to send_frame in full, equal to it field by field, and none        *)
(* arrives twice, even when the frames of two threads mix on the unlocked  *)
(* socket.                                                                 *)
ReceivedWereSent ==
    /\ Range(received) \subseteq Range(expected)
    /\ IsInjective(received)

IsPrefix(s, t) == Len(s) <= Len(t) /\ \A i \in DOMAIN s : s[i] = t[i]

(* While no frames mixed, the handlers see the messages that were sent, in *)
(* the order in which send_frame returned, with none left out, however the *)
(* calls of ::send cut the frames up.                                      *)
ArriveInOrder == ~mixed => IsPrefix(received, expected)

(* The receiver drops a connection as Malformed or Oversized (net.cpp      *)
(* 213-215, 233) only after two threads wrote into each other's frames:    *)
(* no frame that is written without interruption is ever refused.          *)
OnlyMixingBreaks == status \in {"Malformed", "Oversized"} => mixed

\* The k-th message that was reported as sent has been handled.
arrived(k) == k \in DOMAIN reported /\ as_read(reported[k]) \in Range(received)

(* A message that send_frame reported as sent reaches its handler, unless  *)
(* the connection ends or frames mixed.                                    *)
SentArrives ==
    \A k \in 1 .. MaxMessages :
        Len(reported) >= k
            ~> (ended \/ mixed \/ arrived(k))
=============================================================================
