------------------------------- MODULE LinkProofs -------------------------------
(***************************************************************************)
(* As long as no two frames mix, what is written and not yet read is a cut *)
(* of the frames that were sent, one after the other: every number of it   *)
(* has a place in one frame.  The receiver is at the start of a frame when *)
(* it wants a header, and behind the header of that frame when it wants a  *)
(* payload.  So it refuses nothing, and hands the messages on in order.    *)
(***************************************************************************)
EXTENDS Link, SequenceTheorems, TLAPS

\* Time limits of the provers, in seconds.
USE ZenonT(4), SMTT(30), ZenonT(30), SMTT(90)

Number   == Int \cup {digest(fields) : fields \in Seq(Int)}
Sendable == {m \in Messages : Len(payload_of(m)) <= kMaxFramePayload}
Arrivals == {as_read(m) : m \in Messages}

length(m) == HeaderFields + Len(payload_of(m))
whole(m)  == frame_of(m, payload_of(m))

\* send_all writes the frame of the thread's next message, and leaves at its end.
Sending ==
    /\ todo \in [Threads -> Seq(Messages)]
    /\ frame \in [Threads -> Seq(Number)]
    /\ at \in [Threads -> Nat]
    /\ stream \in Seq(Number)
    /\ reported \in Seq(Sendable)
    /\ \A t \in Threads :
          IF frame[t] = <<>> THEN at[t] = 0
          ELSE /\ todo[t] # <<>> /\ Head(todo[t]) \in Sendable
               /\ frame[t] = whole(Head(todo[t])) /\ at[t] < Len(frame[t])

\* If the number at this place is still to be read, it is v.
holds(place, v) == place \in 1 .. Len(stream) => stream[place] = v

\* The i-th frame sent ends at cut[i], counted from what is read next, and w of the next one is written.
Written(w, cut) ==
    LET L == Len(reported) IN
    /\ cut \in [0 .. L -> Int]
    /\ \A i \in 0 .. L : cut[i] <= cut[L]
    /\ \A i \in 1 .. L : cut[i] = cut[i - 1] + length(reported[i])
    /\ \A i \in 1 .. L : \A j \in 1 .. length(reported[i]) : holds(cut[i - 1] + j, whole(reported[i])[j])
    /\ \A t \in Threads : inside(t) => at[t] = w /\ \A j \in 1 .. w : holds(cut[L] + j, frame[t][j])
    /\ w > 0 => \E t \in Threads : inside(t)
    /\ Len(stream) <= cut[L] + w
    /\ ~ended => Len(stream) = cut[L] + w

\* The places new are those of cut, moved to the front by n.
shifted(cut, n, new) ==
    new \in [0 .. Len(reported) -> Int] /\ \A i \in 0 .. Len(reported) : new[i] = cut[i] - n

\* The frame after the first k is the one of m: it is sent or being written.
isNext(k, m) ==
    IF k < Len(reported) THEN m = reported[k + 1] ELSE \E t \in Threads : inside(t) /\ m = Head(todo[t])

\* k frames were read in full, and the header of the next one unless header is None.
Reading(k, cut) ==
    /\ k \in 0 .. Len(reported)
    /\ cut[k] = IF header = None THEN 0 ELSE 0 - HeaderFields
    /\ header # None => \E m \in Sendable : isNext(k, m) /\ header = new_header(m, payload_of(m))
    /\ RoundTrips => /\ received \in Seq(Arrivals) /\ Len(received) = k
                     /\ \A i \in 1 .. k : received[i] = as_read(reported[i])

Aligned == \E k \in Nat, w \in Nat, cut \in [0 .. Len(reported) -> Int] : Written(w, cut) /\ Reading(k, cut)

\* The inductive invariant: one frame at a time keeps the receiver in step.
FramingInv ==
    /\ mixed \in BOOLEAN
    /\ ~mixed => Sending /\ Aligned /\ status \notin {"Malformed", "Oversized"}

-----------------------------------------------------------------------------
(* Frames.                                                                 *)

\* The numbers of s from place a + 1 to place b.
LEMMA PartFacts ==
    ASSUME NEW S, NEW s \in Seq(S), NEW a \in Nat, NEW b \in Nat, a <= b, b <= Len(s)
    PROVE  /\ SubSeq(s, a + 1, b) \in Seq(S)
           /\ Len(SubSeq(s, a + 1, b)) = b - a
           /\ \A j \in 1 .. b - a : SubSeq(s, a + 1, b)[j] = s[a + j]
<1>1. \A i \in a + 1 .. b : s[i] \in S
  BY ElementOfSeq
<1>2. a + 1 \in Int /\ b \in Int
  OBVIOUS
<1>3. /\ SubSeq(s, a + 1, b) \in Seq(S)
      /\ Len(SubSeq(s, a + 1, b)) = IF a + 1 <= b THEN b - (a + 1) + 1 ELSE 0
      /\ \A i \in 1 .. b - (a + 1) + 1 : SubSeq(s, a + 1, b)[i] = s[a + 1 + i - 1]
  BY <1>1, <1>2, SubSeqProperties
<1>4. b - (a + 1) + 1 = b - a /\ \A i \in 1 .. b - a : a + 1 + i - 1 = a + i
  OBVIOUS
<1> QED
  BY <1>3, <1>4

LEMMA HeaderFacts ==
    ASSUME NEW m \in Messages
    PROVE  /\ new_header(m, payload_of(m)).magic = kProtocolMagic
           /\ new_header(m, payload_of(m)).version = kProtocolVersion
           /\ new_header(m, payload_of(m)).type = m.type
           /\ new_header(m, payload_of(m)).payload_len = Len(payload_of(m))
           /\ new_header(m, payload_of(m)).correlation = m.correlation
           /\ checksum_of(new_header(m, payload_of(m)), payload_of(m)) = new_header(m, payload_of(m)).checksum
           /\ new_header(m, payload_of(m)).checksum \in Number
<1> DEFINE p == payload_of(m)
<1>1. m.type \in Nat /\ m.correlation \in Nat /\ p \in Seq(Int)
  BY TrafficTypes
<1> HIDE DEF p
<1>2. Len(p) \in Nat
  BY <1>1
<1> DEFINE fields == <<kProtocolMagic, kProtocolVersion, m.type, Len(p), m.correlation>>
<1>3. fields \in Seq(Int)
  BY <1>1, <1>2 DEF kProtocolMagic, kProtocolVersion
<1>4. fields \o p \in Seq(Int)
  BY <1>1, <1>3, ConcatProperties
<1>5. /\ new_header(m, p).magic = kProtocolMagic
      /\ new_header(m, p).version = kProtocolVersion
      /\ new_header(m, p).type = m.type
      /\ new_header(m, p).payload_len = Len(p)
      /\ new_header(m, p).correlation = m.correlation
      /\ new_header(m, p).checksum = digest(fields \o p)
  BY DEF new_header, checksum_of
<1>6. checksum_of(new_header(m, p), p) = digest(fields \o p)
  BY <1>5 DEF checksum_of
<1>7. digest(fields \o p) \in Number
  BY <1>4, Zenon DEF Number
<1> QED
  BY <1>5, <1>6, <1>7 DEF p

LEMMA FrameFacts ==
    ASSUME NEW m \in Messages
    PROVE  /\ payload_of(m) \in Seq(Int) /\ Len(payload_of(m)) \in Nat
           /\ length(m) \in Nat /\ length(m) = Len(payload_of(m)) + 6
           /\ whole(m) \in Seq(Number) /\ Len(whole(m)) = length(m)
           /\ \A j \in 1 .. 6 : whole(m)[j] = encode_header(new_header(m, payload_of(m)))[j]
           /\ \A j \in 1 .. Len(payload_of(m)) : whole(m)[6 + j] = payload_of(m)[j]
<1> DEFINE p == payload_of(m)
           h == encode_header(new_header(m, p))
<1>1. m.type \in Nat /\ m.correlation \in Nat /\ p \in Seq(Int)
  BY TrafficTypes
<1>2. Len(p) \in Nat /\ length(m) \in Nat /\ length(m) = Len(p) + 6
  BY <1>1 DEF length, HeaderFields
<1>3. h \in Seq(Number) /\ Len(h) = 6
  <2>1. /\ kProtocolMagic \in Number /\ kProtocolVersion \in Number /\ m.type \in Number
        /\ Len(p) \in Number /\ m.correlation \in Number
    BY <1>1, <1>2 DEF Number, kProtocolMagic, kProtocolVersion
  <2> DEFINE r == new_header(m, p)
  <2>2. /\ r.magic \in Number /\ r.version \in Number /\ r.type \in Number /\ r.payload_len \in Number
        /\ r.correlation \in Number /\ r.checksum \in Number
    BY <2>1, HeaderFacts
  <2> HIDE DEF r
  <2>3. encode_header(r) \in Seq(Number) /\ Len(encode_header(r)) = 6
    BY <2>2 DEF encode_header
  <2> QED
    BY <2>3 DEF r
<1>4. p \in Seq(Number)
  BY <1>1, SeqMonotonic DEF Number
<1> HIDE DEF p, h
<1>5. /\ h \o p \in Seq(Number)
      /\ Len(h \o p) = 6 + Len(p)
      /\ \A j \in 1 .. 6 + Len(p) : (h \o p)[j] = IF j <= 6 THEN h[j] ELSE p[j - 6]
  <2>1. /\ h \o p \in Seq(Number)
        /\ Len(h \o p) = Len(h) + Len(p)
        /\ \A j \in 1 .. Len(h) + Len(p) : (h \o p)[j] = IF j <= Len(h) THEN h[j] ELSE p[j - Len(h)]
    BY <1>3, <1>4, ConcatProperties, Zenon
  <2> QED
    BY <1>3, <2>1
<1>6. \A j \in 1 .. 6 : (h \o p)[j] = h[j]
  BY <1>2, <1>5
<1>7. \A j \in 1 .. Len(p) : (h \o p)[6 + j] = p[j]
  BY <1>2, <1>5
<1>8. whole(m) = h \o p
  BY DEF whole, frame_of, h, p
<1> QED
  BY <1>1, <1>2, <1>5, <1>6, <1>7, <1>8 DEF h, p

\* What recv_header decodes when the header of m is the next thing in the stream.
LEMMA DecodedHeader ==
    ASSUME NEW m \in Messages, NEW s,
           \A j \in 1 .. 6 : s[j] = whole(m)[j]
    PROVE  decode_header(s) = new_header(m, payload_of(m))
<1> DEFINE h == new_header(m, payload_of(m))
<1>1. /\ s[1] = h.magic /\ s[2] = h.version /\ s[3] = h.type
      /\ s[4] = h.payload_len /\ s[5] = h.correlation /\ s[6] = h.checksum
  BY FrameFacts DEF encode_header
<1>2. h = [magic |-> h.magic, version |-> h.version, type |-> h.type, payload_len |-> h.payload_len,
           correlation |-> h.correlation, checksum |-> h.checksum]
  BY DEF new_header
<1> QED
  BY <1>1, <1>2 DEF decode_header

-----------------------------------------------------------------------------
(* The sending threads.                                                    *)

LEMMA MessageTypes ==
    ASSUME Sending, NEW t \in Threads, todo[t] # <<>>
    PROVE  Head(todo[t]) \in Messages /\ Tail(todo[t]) \in Seq(Messages)
<1>1. todo[t] \in Seq(Messages)
  BY DEF Sending
<1> QED
  BY <1>1, HeadTailProperties

LEMMA SendFrameKeepsSending ==
    ASSUME Sending, NEW t \in Threads, send_frame(t)
    PROVE  Sending' /\ at' = at /\ (\A u \in Threads : inside(u) => frame'[u] = frame[u] /\ todo'[u] = todo[u])
<1> DEFINE m == Head(todo[t])
<1>1. m \in Messages /\ Tail(todo[t]) \in Seq(Messages) /\ at[t] = 0 /\ frame[t] = <<>> /\ todo[t] # <<>>
  BY MessageTypes DEF send_frame, Sending
<1>2. UNCHANGED <<stream, reported>>
  BY DEF send_frame
<1>3. at' = at
  BY <1>1 DEF send_frame, Sending
<1>4. CASE Len(payload_of(m)) > kMaxFramePayload
  <2>1. todo' = [todo EXCEPT ![t] = Tail(@)] /\ frame' = frame
    BY <1>4 DEF send_frame
  <2> QED
    BY <1>1, <1>2, <1>3, <2>1 DEF Sending, inside
<1>5. CASE ~(Len(payload_of(m)) > kMaxFramePayload)
  <2>1. frame' = [frame EXCEPT ![t] = whole(m)] /\ todo' = todo
    BY <1>5 DEF send_frame, whole
  <2>2. whole(m) \in Seq(Number) /\ Len(whole(m)) > 0 /\ m \in Sendable
    BY <1>1, <1>5, FrameFacts, TrafficTypes DEF Sendable
  <2> HIDE DEF m
  <2>3. \A u \in Threads : frame'[u] = IF u = t THEN whole(m) ELSE frame[u]
    BY <2>1, <2>2 DEF Sending
  <2>4. \A u \in Threads : inside(u) => u # t
    BY <1>1 DEF inside
  <2>5. frame' \in [Threads -> Seq(Number)]
    BY <2>1, <2>2 DEF Sending
  <2>6. ASSUME NEW u \in Threads
        PROVE  IF frame'[u] = <<>> THEN at[u] = 0
               ELSE /\ todo[u] # <<>> /\ Head(todo[u]) \in Sendable
                    /\ frame'[u] = whole(Head(todo[u])) /\ at[u] < Len(frame'[u])
    BY <1>1, <2>2, <2>3 DEF Sending, m
  <2> QED
    BY <1>2, <1>3, <2>1, <2>3, <2>4, <2>5, <2>6 DEF Sending
<1> QED
  BY <1>4, <1>5

\* One call of ::send: what it appends, and whether it is the last one of its frame.
LEMMA SendFacts ==
    ASSUME Sending, NEW t \in Threads, NEW n \in 1 .. Len(frame[t]), send(t, n)
    PROVE  /\ Head(todo[t]) \in Sendable /\ todo[t] # <<>> /\ frame[t] = whole(Head(todo[t]))
           /\ Len(frame[t]) = length(Head(todo[t])) /\ length(Head(todo[t])) \in Nat
           /\ n \in Nat /\ n > 0 /\ at[t] \in Nat /\ at[t] + n <= Len(frame[t])
           /\ stream' \in Seq(Number) /\ Len(stream') = Len(stream) + n /\ Len(stream) \in Nat
           /\ \A x \in 1 .. Len(stream) : stream'[x] = stream[x]
           /\ \A j \in 1 .. n : stream'[Len(stream) + j] = frame[t][at[t] + j]
<1> DEFINE m == Head(todo[t])
<1>1. frame[t] # <<>> /\ n <= Len(frame[t]) - at[t] /\ stream' = stream \o SubSeq(frame[t], at[t] + 1, at[t] + n)
  BY DEF send
<1>2. m \in Sendable /\ todo[t] # <<>> /\ frame[t] = whole(m) /\ at[t] \in Nat /\ stream \in Seq(Number)
  BY <1>1 DEF Sending
<1>3. frame[t] \in Seq(Number) /\ Len(frame[t]) = length(m) /\ length(m) \in Nat
  BY <1>2, FrameFacts DEF Sendable
<1> HIDE DEF m
<1>4. n \in Nat /\ n > 0 /\ at[t] + n <= Len(frame[t])
  <2>1. n <= Len(frame[t]) - at[t] /\ at[t] \in Nat /\ Len(frame[t]) \in Nat
    BY <1>1, <1>2, <1>3
  <2> QED
    BY <2>1
<1> DEFINE more == SubSeq(frame[t], at[t] + 1, at[t] + n)
<1>6. more \in Seq(Number) /\ Len(more) = n /\ \A j \in 1 .. n : more[j] = frame[t][at[t] + j]
  <2>1. at[t] + n \in Nat /\ at[t] <= at[t] + n /\ (at[t] + n) - at[t] = n
    BY <1>2, <1>4
  <2> DEFINE b == at[t] + n
  <2>2. frame[t] \in Seq(Number) /\ at[t] \in Nat /\ b \in Nat /\ at[t] <= b /\ b <= Len(frame[t])
    BY <1>2, <1>3, <1>4, <2>1
  <2>3. /\ SubSeq(frame[t], at[t] + 1, b) \in Seq(Number)
        /\ Len(SubSeq(frame[t], at[t] + 1, b)) = b - at[t]
        /\ \A j \in 1 .. b - at[t] : SubSeq(frame[t], at[t] + 1, b)[j] = frame[t][at[t] + j]
    <3> HIDE DEF b
    <3> QED
      BY <2>2, PartFacts
  <2> HIDE DEF more
  <2>4. more \in Seq(Number) /\ Len(more) = b - at[t] /\ \A j \in 1 .. b - at[t] : more[j] = frame[t][at[t] + j]
    BY <2>3 DEF more
  <2> QED
    BY <2>1, <2>4
<1> HIDE DEF more
<1>7. /\ stream \o more \in Seq(Number)
      /\ Len(stream \o more) = Len(stream) + Len(more)
      /\ \A i \in 1 .. Len(stream) + Len(more) :
            (stream \o more)[i] = IF i <= Len(stream) THEN stream[i] ELSE more[i - Len(stream)]
  BY <1>2, <1>6, ConcatProperties, Zenon
<1>8. stream' = stream \o more
  BY <1>1 DEF more
<1>9. Len(stream) \in Nat
  BY <1>2
<1>10. \A x \in 1 .. Len(stream) : stream'[x] = stream[x]
  BY <1>4, <1>6, <1>7, <1>8, <1>9
<1>11. \A j \in 1 .. n : stream'[Len(stream) + j] = frame[t][at[t] + j]
  BY <1>4, <1>6, <1>7, <1>8, <1>9
<1> QED
  BY <1>2, <1>3, <1>4, <1>6, <1>7, <1>8, <1>9, <1>10, <1>11 DEF m

LEMMA SendKeepsSending ==
    ASSUME Sending, NEW t \in Threads, NEW n \in 1 .. Len(frame[t]), send(t, n)
    PROVE  Sending'
<1> DEFINE m == Head(todo[t])
<1>1. /\ m \in Sendable /\ todo[t] # <<>> /\ frame[t] = whole(m)
      /\ n \in Nat /\ n > 0 /\ at[t] \in Nat /\ at[t] + n <= Len(frame[t]) /\ Len(frame[t]) \in Nat
      /\ stream' \in Seq(Number)
  BY SendFacts
<1>2. m \in Messages /\ Tail(todo[t]) \in Seq(Messages)
  BY <1>1, MessageTypes
<1> HIDE DEF m
<1>3. CASE n = Len(frame[t]) - at[t]
  <2>1. /\ todo' = [todo EXCEPT ![t] = Tail(@)]
        /\ frame' = [frame EXCEPT ![t] = <<>>]
        /\ at' = [at EXCEPT ![t] = 0]
        /\ reported' = Append(reported, m)
    BY <1>3 DEF send, returns, m
  <2>2. reported' \in Seq(Sendable)
    BY <1>1, <2>1 DEF Sending
  <2>3. <<>> \in Seq(Number)
    OBVIOUS
  <2>4. /\ todo' \in [Threads -> Seq(Messages)]
        /\ frame' \in [Threads -> Seq(Number)]
        /\ at' \in [Threads -> Nat]
    BY <1>2, <2>1, <2>3 DEF Sending
  <2>5. ASSUME NEW u \in Threads
        PROVE  IF frame'[u] = <<>> THEN at'[u] = 0
               ELSE /\ todo'[u] # <<>> /\ Head(todo'[u]) \in Sendable
                    /\ frame'[u] = whole(Head(todo'[u])) /\ at'[u] < Len(frame'[u])
    <3>1. CASE u = t
      BY <2>1, <3>1 DEF Sending
    <3>2. CASE u # t
      <4>1. todo'[u] = todo[u] /\ frame'[u] = frame[u] /\ at'[u] = at[u]
        BY <2>1, <3>2 DEF Sending
      <4> QED
        BY <4>1 DEF Sending
    <3> QED
      BY <3>1, <3>2
  <2> QED
    BY <1>1, <2>2, <2>4, <2>5 DEF Sending
<1>4. CASE n # Len(frame[t]) - at[t]
  <2>1. at' = [at EXCEPT ![t] = @ + n] /\ UNCHANGED <<todo, frame, reported>>
    BY <1>4 DEF send
  <2>2. at' \in [Threads -> Nat] /\ at'[t] = at[t] + n
    BY <1>1, <2>1 DEF Sending
  <2>4. at'[t] < Len(frame[t]) /\ frame[t] # <<>>
    <3>1. frame[t] # <<>> /\ at[t] + n # Len(frame[t])
      BY <1>1, <1>4 DEF send
    <3> QED
      BY <1>1, <2>2, <3>1
  <2>3. \A u \in Threads : u # t => at'[u] = at[u]
    BY <2>1 DEF Sending
  <2> QED
    BY <1>1, <2>1, <2>2, <2>3, <2>4 DEF Sending
<1> QED
  BY <1>3, <1>4

\* Reading the next n numbers.
LEMMA ReadFacts ==
    ASSUME Sending, NEW n \in Nat, n <= Len(stream), stream' = SubSeq(stream, n + 1, Len(stream))
    PROVE  /\ stream' \in Seq(Number) /\ Len(stream) \in Nat /\ Len(stream') = Len(stream) - n
           /\ \A x \in 1 .. Len(stream) - n : stream'[x] = stream[x + n]
<1>1. stream \in Seq(Number) /\ Len(stream) \in Nat
  BY DEF Sending
<1>2. /\ stream' \in Seq(Number) /\ Len(stream') = Len(stream) - n
      /\ \A x \in 1 .. Len(stream) - n : stream'[x] = stream[n + x]
  BY <1>1, PartFacts
<1>3. \A x \in 1 .. Len(stream) - n : n + x = x + n
  BY <1>1
<1> QED
  BY <1>1, <1>2, <1>3

\* Reading moves every frame to the front by as many places.
LEMMA ReadKeepsWritten ==
    ASSUME Sending, NEW n \in Nat, n <= Len(stream), stream' = SubSeq(stream, n + 1, Len(stream)),
           UNCHANGED sender, NEW w \in Nat, NEW cut, Written(w, cut),
           NEW new, shifted(cut, n, new)
    PROVE  Written(w, new)'
<1> DEFINE L == Len(reported)
<1>1. UNCHANGED <<todo, frame, at, ended, reported>>
  BY DEF sender
<1>2. L \in Nat /\ reported \in Seq(Sendable)
  BY DEF Sending
<1>3. Len(stream) \in Nat /\ Len(stream') = Len(stream) - n /\ \A x \in 1 .. Len(stream) - n : stream'[x] = stream[x + n]
  BY ReadFacts
<1>4. /\ cut \in [0 .. L -> Int] /\ (\A i \in 0 .. L : cut[i] <= cut[L])
      /\ \A i \in 1 .. L : cut[i] = cut[i - 1] + length(reported[i])
  BY DEF Written
<1>5. new \in [0 .. L -> Int] /\ \A i \in 0 .. L : new[i] = cut[i] - n
  BY Zenon DEF shifted
<1>6. ASSUME NEW x \in Int, NEW v, holds(x, v)
      PROVE  holds(x - n, v)'
  BY <1>3, <1>6 DEF holds
<1> HIDE DEF L
<1>7. \A i \in 0 .. L : new[i] <= new[L]
  <2> TAKE i \in 0 .. L
  <2>1. i \in 0 .. L /\ L \in 0 .. L
    BY <1>2
  <2>2. /\ new[i] = cut[i] - n /\ new[L] = cut[L] - n /\ cut[i] <= cut[L]
        /\ cut[i] \in Int /\ cut[L] \in Int
    BY <1>4, <1>5, <2>1, Zenon
  <2> QED
    BY <2>2
<1>8. ASSUME NEW i \in 1 .. L
      PROVE  /\ new[i] = new[i - 1] + length(reported[i])
             /\ \A j \in 1 .. length(reported[i]) : holds(new[i - 1] + j, whole(reported[i])[j])'
  <2>1. i - 1 \in 0 .. L /\ i \in 0 .. L /\ reported[i] \in Messages
    BY <1>2, ElementOfSeq DEF Sendable, L
  <2>2. length(reported[i]) \in Nat
    BY <2>1, FrameFacts
  <2>3. new[i] = new[i - 1] + length(reported[i])
    <3>1. /\ new[i] = cut[i] - n /\ new[i - 1] = cut[i - 1] - n /\ cut[i] = cut[i - 1] + length(reported[i])
          /\ cut[i] \in Int /\ cut[i - 1] \in Int
      BY <1>4, <1>5, <2>1, Zenon
    <3> QED
      BY <2>2, <3>1
  <2>4. ASSUME NEW j \in 1 .. length(reported[i])
        PROVE  holds(new[i - 1] + j, whole(reported[i])[j])'
    <3>1. cut[i - 1] + j \in Int /\ new[i - 1] + j = (cut[i - 1] + j) - n
      <4>1. new[i - 1] = cut[i - 1] - n /\ cut[i - 1] \in Int
        BY <1>4, <1>5, <2>1, Zenon
      <4>2. j \in Int
        BY <2>2
      <4> QED
        BY <4>1, <4>2
    <3>2. holds(cut[i - 1] + j, whole(reported[i])[j])
      BY DEF Written, L
    <3>3. PICK x \in Int : x = cut[i - 1] + j
      BY <3>1
    <3>4. PICK v : v = whole(reported[i])[j]
      OBVIOUS
    <3>5. holds(x - n, v)'
      BY <1>6, <3>2, <3>3, <3>4
    <3> QED
      BY <1>1, <3>1, <3>3, <3>4, <3>5
  <2> QED
    BY <2>3, <2>4
<1>9. ASSUME NEW t \in Threads, inside(t)'
      PROVE  at'[t] = w /\ \A j \in 1 .. w : holds(new[L] + j, frame[t][j])'
  <2>1. at[t] = w /\ frame'[t] = frame[t] /\ L' = L
    BY <1>1, <1>9 DEF Written, inside, L
  <2>2. ASSUME NEW j \in 1 .. w
        PROVE  holds(new[L] + j, frame[t][j])'
    <3>1. cut[L] + j \in Int /\ new[L] + j = (cut[L] + j) - n
      <4>1. new[L] = cut[L] - n /\ cut[L] \in Int /\ j \in Int
        BY <1>2, <1>4, <1>5
      <4> QED
        BY <4>1
    <3>2. holds(cut[L] + j, frame[t][j])
      BY <1>1, <1>9, Zenon DEF Written, inside, L
    <3>3. PICK x \in Int : x = cut[L] + j
      BY <3>1
    <3>4. PICK v : v = frame[t][j]
      OBVIOUS
    <3>5. holds(x - n, v)'
      BY <1>6, <3>2, <3>3, <3>4
    <3> QED
      BY <1>1, <2>1, <3>1, <3>3, <3>4, <3>5
  <2> QED
    BY <1>1, <2>1, <2>2
<1>10. w > 0 => \E t \in Threads : inside(t)'
  BY <1>1 DEF Written, inside
<1>11. Len(stream') <= new[L] + w /\ (~ended' => Len(stream') = new[L] + w)
  <2>1. new[L] = cut[L] - n /\ cut[L] \in Int
    BY <1>2, <1>4, <1>5
  <2>2. Len(stream) <= cut[L] + w /\ (~ended => Len(stream) = cut[L] + w)
    BY DEF Written, L
  <2> QED
    BY <1>1, <1>3, <2>1, <2>2
<1>12. L' = L
  BY <1>1 DEF L
<1>13. \A i \in 1 .. L : \A j \in 1 .. length(reported[i]) : holds(new[i - 1] + j, whole(reported[i])[j])'
  BY <1>8
<1> QED
  BY <1>1, <1>5, <1>7, <1>8, <1>9, <1>10, <1>11, <1>12, <1>13 DEF Written, L

\* Starting a frame, or leaving one out as oversized, writes nothing.
LEMMA SendFrameKeepsAligned ==
    ASSUME Sending, NEW t \in Threads, send_frame(t), Aligned
    PROVE  Aligned'
<1>1. /\ UNCHANGED <<stream, ended, reported, header, received, at>>
      /\ \A u \in Threads : inside(u) => frame'[u] = frame[u] /\ todo'[u] = todo[u]
  BY SendFrameKeepsSending DEF send_frame
<1>2. PICK k \in Nat, w \in Nat, cut \in [0 .. Len(reported) -> Int] : Written(w, cut) /\ Reading(k, cut)
  BY DEF Aligned
<1>3. \A u \in Threads : inside(u)' <=> inside(u)
  BY <1>1 DEF inside
<1>4. \A x, v : holds(x, v)' <=> holds(x, v)
  BY <1>1 DEF holds
<1>5. ASSUME NEW u \in Threads, inside(u)'
      PROVE  at'[u] = w /\ \A j \in 1 .. w : holds(cut[Len(reported)] + j, frame[u][j])'
  <2>1. inside(u) /\ frame'[u] = frame[u]
    BY <1>1, <1>3, <1>5
  <2>2. at'[u] = w /\ \A j \in 1 .. w : holds(cut[Len(reported)] + j, frame[u][j])
    BY <1>1, <1>2, <2>1 DEF Written
  <2> QED
    BY <1>1, <1>4, <2>1, <2>2
<1>6. \A i \in 1 .. Len(reported) : \A j \in 1 .. length(reported[i]) : holds(cut[i - 1] + j, whole(reported[i])[j])'
  BY <1>1, <1>2, <1>4 DEF Written
<1>7. Written(w, cut)'
  BY <1>1, <1>2, <1>3, <1>5, <1>6 DEF Written
<1>8. \A m : isNext(k, m) => isNext(k, m)'
  BY <1>1, <1>3 DEF isNext
<1>9. Reading(k, cut)'
  BY <1>1, <1>2, <1>8 DEF Reading
<1>10. cut \in [0 .. Len(reported)' -> Int]
  BY <1>1
<1> QED
  BY <1>7, <1>9, <1>10 DEF Aligned

\* A loss cuts off the end of what is still to be read.
LEMMA LossKeepsAligned ==
    ASSUME Sending, NEW n \in Nat, lose(n), Aligned
    PROVE  Sending' /\ Aligned'
<1>1. UNCHANGED <<todo, frame, at, reported, header, received>> /\ ended' = TRUE /\ n <= Len(stream)
      /\ stream' = SubSeq(stream, 1, n)
  BY DEF lose
<1>2. PICK k \in Nat, w \in Nat, cut \in [0 .. Len(reported) -> Int] : Written(w, cut) /\ Reading(k, cut)
  BY DEF Aligned
<1>3. stream' \in Seq(Number) /\ Len(stream') = n /\ Len(stream) \in Nat /\ \A x \in 1 .. n : stream'[x] = stream[x]
  <2>1. stream \in Seq(Number) /\ Len(stream) \in Nat
    BY DEF Sending
  <2>2. /\ SubSeq(stream, 0 + 1, n) \in Seq(Number)
        /\ Len(SubSeq(stream, 0 + 1, n)) = n - 0
        /\ \A j \in 1 .. n - 0 : SubSeq(stream, 0 + 1, n)[j] = stream[0 + j]
    BY <1>1, <2>1, PartFacts
  <2>3. 0 + 1 = 1 /\ n - 0 = n /\ \A j \in 1 .. n : 0 + j = j
    OBVIOUS
  <2> QED
    BY <1>1, <2>1, <2>2, <2>3
<1>4. ASSUME NEW x, NEW v, holds(x, v)
      PROVE  holds(x, v)'
  BY <1>1, <1>3, <1>4 DEF holds
<1>5. ASSUME NEW u \in Threads, inside(u)'
      PROVE  at'[u] = w /\ \A j \in 1 .. w : holds(cut[Len(reported)] + j, frame[u][j])'
  <2>1. at[u] = w /\ \A j \in 1 .. w : holds(cut[Len(reported)] + j, frame[u][j])
    BY <1>1, <1>2, <1>5 DEF Written, inside
  <2> QED
    BY <1>1, <1>4, <2>1
<1>6. \A i \in 1 .. Len(reported) : \A j \in 1 .. length(reported[i]) : holds(cut[i - 1] + j, whole(reported[i])[j])'
  BY <1>1, <1>2, <1>4 DEF Written
<1>7. Len(stream') <= cut[Len(reported)] + w
  <2>1. Len(stream) <= cut[Len(reported)] + w /\ cut[Len(reported)] \in Int
    BY <1>2 DEF Written, Sending
  <2> QED
    BY <1>1, <1>3, <2>1
<1>8. w > 0 => \E u \in Threads : inside(u)'
  BY <1>1, <1>2 DEF Written, inside
<1>9. Written(w, cut)'
  BY <1>1, <1>2, <1>5, <1>6, <1>7, <1>8, Zenon DEF Written
<1>10. \A m : isNext(k, m) => isNext(k, m)'
  BY <1>1 DEF isNext, inside
<1>11. Reading(k, cut)'
  BY <1>1, <1>2, <1>10 DEF Reading
<1>12. Aligned'
  BY <1>1, <1>9, <1>11 DEF Aligned
<1>13. Sending'
  BY <1>1, <1>3 DEF Sending
<1> QED
  BY <1>12, <1>13

\* The n values t sends continue its frame, and lie behind all that was reported sent.
Follows(t, n, w, cut) ==
    /\ at[t] = w /\ Len(stream) = cut[Len(reported)] + w
    /\ \A u \in Threads : inside(u) => u = t
    /\ \A i \in 1 .. Len(reported) : \A j \in 1 .. length(reported[i]) :
          holds(cut[i - 1] + j, whole(reported[i])[j]) /\ cut[i - 1] + j <= Len(stream)
    /\ \A j \in 1 .. w + n : stream'[cut[Len(reported)] + j] = frame[t][j]
                             \/ cut[Len(reported)] + j \notin 1 .. Len(stream')

\* A call of ::send while no other thread is inside a frame goes on where the last one stopped.
LEMMA SendFollows ==
    ASSUME Sending, NEW t \in Threads, NEW n \in 1 .. Len(frame[t]), send(t, n), ~mixed',
           NEW w \in Nat, NEW cut \in [0 .. Len(reported) -> Int], Written(w, cut)
    PROVE  Follows(t, n, w, cut)
<1> DEFINE L == Len(reported)
<1>1. L \in Nat /\ reported \in Seq(Sendable) /\ at \in [Threads -> Nat]
  BY DEF Sending
<1>2. \A u \in Threads : inside(u) => u = t
  BY Zenon DEF send
<1>3. at[t] = w
  BY <1>1, <1>2 DEF Written, inside
<1>4. Len(stream) = cut[L] + w /\ cut[L] \in Int
  <2>1. ~ended
    BY DEF send
  <2>2. Len(stream) = cut[L] + w
    BY <2>1 DEF Written
  <2>3. L \in 0 .. L
    BY <1>1
  <2> QED
    BY <2>2, <2>3
<1>5. /\ n \in Nat /\ n > 0 /\ Len(stream') = Len(stream) + n /\ Len(stream) \in Nat
      /\ \A x \in 1 .. Len(stream) : stream'[x] = stream[x]
      /\ \A j \in 1 .. n : stream'[Len(stream) + j] = frame[t][at[t] + j]
  BY SendFacts
<1>6. ASSUME NEW i \in 1 .. L, NEW j \in 1 .. length(reported[i])
      PROVE  holds(cut[i - 1] + j, whole(reported[i])[j]) /\ cut[i - 1] + j <= Len(stream)
  <2>1. reported[i] \in Messages /\ i \in 0 .. L /\ i - 1 \in 0 .. L
    BY <1>1, ElementOfSeq DEF Sendable
  <2>2. length(reported[i]) \in Nat
    BY <2>1, FrameFacts
  <2>3. cut[i] = cut[i - 1] + length(reported[i]) /\ cut[i] <= cut[L] /\ cut[i - 1] \in Int /\ cut[i] \in Int
    BY <2>1, ZenonT(30) DEF Written
  <2>4. holds(cut[i - 1] + j, whole(reported[i])[j])
    BY DEF Written
  <2>5. j \in Int /\ j <= length(reported[i])
    BY <2>2
  <2>6. cut[i - 1] + j <= cut[L] + w
    <3> HIDE DEF L
    <3> QED
      BY <1>4, <2>2, <2>3, <2>5
  <2> QED
    BY <1>4, <2>4, <2>6
<1>7. ASSUME NEW j \in 1 .. w + n
      PROVE  stream'[cut[L] + j] = frame[t][j] \/ cut[L] + j \notin 1 .. Len(stream')
  <2>1. CASE j <= w
    <3>1. holds(cut[L] + j, frame[t][j])
      <4>1. inside(t)
        BY <1>3, <2>1 DEF inside
      <4>2. j \in 1 .. w
        BY <2>1
      <4> QED
        BY <4>1, <4>2 DEF Written
    <3>2. cut[L] + j <= Len(stream)
      BY <1>4, <2>1
    <3> HIDE DEF L
    <3> QED
      BY <1>4, <1>5, <3>1, <3>2 DEF holds
  <2>2. CASE j > w
    <3> HIDE DEF L
    <3>1. PICK p \in 1 .. n : j = w + p
      <4>1. j - w \in 1 .. n /\ j = w + (j - w)
        BY <1>5, <2>2
      <4> QED
        BY <4>1
    <3>2. stream'[Len(stream) + p] = frame[t][w + p]
      BY <1>3, <1>5
    <3>3. Len(stream) + p = cut[L] + j
      BY <1>4, <3>1
    <3> QED
      BY <3>1, <3>2, <3>3
  <2> QED
    BY <1>5, <2>1, <2>2
<1> QED
  BY <1>2, <1>3, <1>4, <1>6, <1>7, Zenon DEF Follows

\* In the middle of a frame.
LEMMA PartialSendKeepsAligned ==
    ASSUME Sending, NEW t \in Threads, NEW n \in 1 .. Len(frame[t]), send(t, n), ~mixed', Aligned,
           n # Len(frame[t]) - at[t]
    PROVE  Aligned'
<1> DEFINE L == Len(reported)
<1>1. PICK k \in Nat, w \in Nat, cut \in [0 .. L -> Int] : Written(w, cut) /\ Reading(k, cut)
  BY DEF Aligned
<1>2. at' = [at EXCEPT ![t] = @ + n] /\ UNCHANGED <<todo, frame, reported, ended, header, received>>
  BY DEF send
<1>3. /\ at[t] = w /\ Len(stream) = cut[L] + w
      /\ \A u \in Threads : inside(u) => u = t
      /\ \A i \in 1 .. L : \A j \in 1 .. length(reported[i]) :
            holds(cut[i - 1] + j, whole(reported[i])[j]) /\ cut[i - 1] + j <= Len(stream)
      /\ \A j \in 1 .. w + n : stream'[cut[L] + j] = frame[t][j] \/ cut[L] + j \notin 1 .. Len(stream')
  <2>1. Follows(t, n, w, cut)
    BY <1>1, SendFollows
  <2> QED
    BY <2>1, Zenon DEF Follows
<1>4. /\ n \in Nat /\ n > 0 /\ Len(stream') = Len(stream) + n /\ Len(stream) \in Nat
      /\ \A x \in 1 .. Len(stream) : stream'[x] = stream[x]
  BY SendFacts
<1>5. L \in Nat /\ cut[L] \in Int /\ w + n \in Nat
  <2>1. L \in Nat
    BY DEF Sending
  <2> HIDE DEF L
  <2>2. L \in 0 .. L
    BY <2>1
  <2>3. n \in Nat
    BY <1>4, Zenon
  <2>4. w + n \in Nat
    BY <2>3
  <2> QED
    BY <2>1, <2>2, <2>4, Zenon
<1>6. \A u \in Threads : inside(u)' => u = t
  BY <1>2, <1>3 DEF inside, Sending
<1>7. at'[t] = w + n /\ inside(t)'
  BY <1>2, <1>3, <1>4, <1>5 DEF inside, Sending
<1>8. ASSUME NEW x, NEW v, holds(x, v), x <= Len(stream)
      PROVE  holds(x, v)'
  BY <1>4, <1>8 DEF holds
<1>9. \A i \in 1 .. L : \A j \in 1 .. length(reported[i]) : holds(cut[i - 1] + j, whole(reported[i])[j])'
  BY <1>2, <1>3, <1>8
<1>10. \A j \in 1 .. w + n : holds(cut[L] + j, frame[t][j])'
  BY <1>2, <1>3 DEF holds
<1>11. Len(stream') = cut[L] + (w + n)
  BY <1>3, <1>4, <1>5
<1>12. /\ \A i \in 0 .. L : cut[i] <= cut[L]
       /\ \A i \in 1 .. L : cut[i] = cut[i - 1] + length(reported[i])
  BY <1>1 DEF Written
<1>13. Written(w + n, cut)'
  <2>1. reported' = reported
    BY <1>2, Zenon
  <2>2. \A u \in Threads : inside(u)' =>
          at'[u] = w + n /\ \A j \in 1 .. w + n : holds(cut[L] + j, frame[u][j])'
    BY <1>6, <1>7, <1>10, Zenon
  <2>3. \E u \in Threads : inside(u)'
    BY <1>7, Zenon
  <2>4. Len(stream') <= cut[L] + (w + n)
    BY <1>5, <1>11
  <2> QED
    BY <1>9, <1>11, <1>12, <2>1, <2>2, <2>3, <2>4, Zenon DEF Written
<1>14. \A m : isNext(k, m) => isNext(k, m)'
  BY <1>2, <1>3, <1>7 DEF isNext
<1>15. Reading(k, cut)'
  BY <1>1, <1>2, <1>14 DEF Reading
<1> QED
  BY <1>2, <1>5, <1>13, <1>15 DEF Aligned

\* The call that completes a frame adds it to the frames sent.
LEMMA LastSendKeepsAligned ==
    ASSUME Sending, NEW t \in Threads, NEW n \in 1 .. Len(frame[t]), send(t, n), ~mixed', Aligned,
           n = Len(frame[t]) - at[t]
    PROVE  Aligned'
<1>1. PICK k \in Nat, w \in Nat, cut \in [0 .. Len(reported) -> Int] : Written(w, cut) /\ Reading(k, cut)
  BY DEF Aligned
<1>2. PICK L \in Nat : L = Len(reported)
  BY DEF Sending
<1>3. PICK m \in Sendable : m = Head(todo[t])
  BY SendFacts
<1>4. /\ at' = [at EXCEPT ![t] = 0] /\ todo' = [todo EXCEPT ![t] = Tail(@)]
      /\ frame' = [frame EXCEPT ![t] = <<>>] /\ reported' = Append(reported, m)
      /\ UNCHANGED <<ended, header, received>>
  BY <1>3 DEF send, returns
<1>5. /\ at[t] = w /\ Len(stream) = cut[L] + w
      /\ \A u \in Threads : inside(u) => u = t
      /\ \A i \in 1 .. L : \A j \in 1 .. length(reported[i]) :
            holds(cut[i - 1] + j, whole(reported[i])[j]) /\ cut[i - 1] + j <= Len(stream)
      /\ \A j \in 1 .. w + n : stream'[cut[L] + j] = frame[t][j] \/ cut[L] + j \notin 1 .. Len(stream')
  <2>1. Follows(t, n, w, cut)
    BY <1>1, SendFollows
  <2> QED
    BY <1>2, <2>1, Zenon DEF Follows
<1>6. /\ n \in Nat /\ n > 0 /\ Len(stream') = Len(stream) + n /\ Len(stream) \in Nat
      /\ \A x \in 1 .. Len(stream) : stream'[x] = stream[x]
      /\ frame[t] = whole(m) /\ Len(frame[t]) = length(m) /\ length(m) \in Nat
  BY <1>3, SendFacts
<1>7. w + n = length(m)
  BY <1>5, <1>6
<1>8. /\ reported \in Seq(Sendable) /\ Len(reported') = L + 1 /\ reported'[L + 1] = m
      /\ \A i \in 1 .. L : reported'[i] = reported[i]
  BY <1>2, <1>4 DEF Sending
<1>9. cut[L] \in Int /\ L \in 0 .. L
  BY <1>2
<1>10. PICK new \in [0 .. L + 1 -> Int] : new = [i \in 0 .. L + 1 |-> IF i <= L THEN cut[i] ELSE cut[L] + length(m)]
  <2> DEFINE f == [i \in 0 .. L + 1 |-> IF i <= L THEN cut[i] ELSE cut[L] + length(m)]
  <2>1. ASSUME NEW i \in 0 .. L + 1
        PROVE  (IF i <= L THEN cut[i] ELSE cut[L] + length(m)) \in Int
    <3>1. CASE i <= L
      <4>1. i \in 0 .. L
        BY <3>1
      <4> QED
        BY <1>2, <3>1, <4>1
    <3>2. CASE ~(i <= L)
      BY <1>6, <1>9, <3>2
    <3> QED
      BY <3>1, <3>2
  <2>2. f \in [0 .. L + 1 -> Int]
    BY <2>1
  <2> QED
    BY <2>2, Zenon
<1>11. (\A i \in 0 .. L : new[i] = cut[i]) /\ new[L + 1] = cut[L] + length(m)
  BY <1>10
<1>12. /\ \A i \in 0 .. L : cut[i] <= cut[L]
       /\ \A i \in 1 .. L : cut[i] = cut[i - 1] + length(reported[i])
  BY <1>1, <1>2 DEF Written
<1>13. \A i \in 0 .. L + 1 : new[i] <= new[L + 1]
  <2> TAKE i \in 0 .. L + 1
  <2>1. CASE i \in 0 .. L
    <3>1. new[i] = cut[i] /\ cut[i] <= cut[L] /\ cut[i] \in Int
      BY <1>2, <1>11, <1>12, <2>1
    <3> QED
      BY <1>6, <1>9, <1>11, <3>1
  <2>2. CASE i = L + 1
    <3>1. PICK a \in Int : a = new[i]
      BY <1>10, Zenon
    <3>2. a <= a
      BY <3>1
    <3> QED
      BY <2>2, <3>1, <3>2, Zenon
  <2> QED
    BY <2>1, <2>2
<1>14. ASSUME NEW x, NEW v, holds(x, v), x <= Len(stream)
       PROVE  holds(x, v)'
  BY <1>6, <1>14 DEF holds
<1>15. ASSUME NEW i \in 1 .. L + 1
       PROVE  /\ new[i] = new[i - 1] + length(reported'[i])
              /\ \A j \in 1 .. length(reported'[i]) : holds(new[i - 1] + j, whole(reported[i])[j])'
  <2>1. CASE i \in 1 .. L
    <3>1. new[i] = cut[i] /\ new[i - 1] = cut[i - 1] /\ reported'[i] = reported[i]
      <4>1. i \in 0 .. L /\ i - 1 \in 0 .. L
        BY <2>1
      <4> QED
        BY <1>8, <1>11, <2>1, <4>1
    <3>2. cut[i] = cut[i - 1] + length(reported[i])
      BY <1>12, <2>1
    <3>3. PICK r : r = reported[i]
      OBVIOUS
    <3>4. \A j \in 1 .. length(r) : holds(cut[i - 1] + j, whole(r)[j])'
      BY <1>5, <1>14, <2>1, <3>3
    <3> QED
      BY <3>1, <3>2, <3>3, <3>4
  <2>2. CASE i = L + 1
    <3>1. new[i] = cut[L] + length(m) /\ new[i - 1] = cut[L] /\ reported'[i] = m
      BY <1>8, <1>9, <1>11, <2>2
    <3>2. \A j \in 1 .. length(m) : holds(cut[L] + j, whole(m)[j])'
      BY <1>5, <1>6, <1>7 DEF holds
    <3> QED
      BY <3>1, <3>2
  <2> QED
    BY <2>1, <2>2
<1>16. \A u \in Threads : ~inside(u)'
  BY <1>4, <1>5 DEF inside, Sending
<1>17. Len(stream') = new[L + 1] + 0
  <2>1. PICK a \in Int : a = cut[L]
    BY <1>9, Zenon
  <2>2. PICK len \in Nat : len = length(m)
    BY <1>6, Zenon
  <2>3. Len(stream') = (a + w) + n /\ w + n = len /\ new[L + 1] = a + len
    BY <1>5, <1>6, <1>7, <1>11, <2>1, <2>2, Zenon
  <2>4. n \in Nat
    BY <1>6, Zenon
  <2> HIDE <1>5, <1>6, <1>7, <1>11
  <2> QED
    BY <2>3, <2>4
<1>18. Written(0, new)'
  <2>1. \A i \in 1 .. L + 1 : \A j \in 1 .. length(reported'[i]) : holds(new[i - 1] + j, whole(reported[i])[j])'
    BY <1>15
  <2>2. Len(stream') <= new[L + 1] + 0
    <3>1. PICK a \in Int : a = new[L + 1]
      <4>1. L + 1 \in 0 .. L + 1
        BY <1>2
      <4> QED
        BY <1>10, <4>1, Zenon
    <3>2. Len(stream') = a + 0
      BY <1>17, <3>1, Zenon
    <3>3. a + 0 <= a + 0
      OBVIOUS
    <3> QED
      BY <3>1, <3>2, <3>3, Zenon
  <2>3. \A i \in 1 .. L + 1 : new[i] = new[i - 1] + length(reported'[i])
    BY <1>15
  <2>4. 0 \in Nat /\ ~(0 > 0)
    OBVIOUS
  <2> QED
    BY <1>8, <1>10, <1>13, <1>16, <1>17, <2>1, <2>2, <2>3, <2>4, Zenon DEF Written
<1>19. ASSUME NEW x \in Sendable, isNext(k, x)
       PROVE  isNext(k, x)'
  <2>1. k \in 0 .. L
    BY <1>1, <1>2 DEF Reading
  <2>2. CASE k < L
    <3>1. x = reported[k + 1]
      BY <1>2, <1>19, <2>2, Zenon DEF isNext
    <3>2. k + 1 \in 1 .. L /\ k < L + 1
      BY <2>1, <2>2
    <3>3. x = reported'[k + 1] /\ k < Len(reported')
      BY <1>8, <3>1, <3>2, Zenon
    <3> QED
      BY <3>3, Zenon DEF isNext
  <2>3. CASE k = L
    <3>1. x = m
      BY <1>2, <1>3, <1>5, <1>19, <2>3 DEF isNext
    <3>2. L < L + 1
      BY <1>2
    <3>3. x = reported'[k + 1] /\ k < Len(reported')
      BY <1>8, <2>3, <3>1, <3>2, Zenon
    <3> QED
      BY <3>3, Zenon DEF isNext
  <2> QED
    BY <2>1, <2>2, <2>3
<1>20. Reading(k, new)'
  <2>1. k \in 0 .. L /\ k \in 0 .. L + 1
    BY <1>1, <1>2 DEF Reading
  <2>2. new[k] = cut[k] /\ cut[k] = IF header = None THEN 0 ELSE 0 - HeaderFields
    BY <1>1, <1>11, <2>1 DEF Reading
  <2>3. \A i \in 1 .. k : reported'[i] = reported[i]
    BY <1>8, <2>1
  <2>4. header # None => \E x \in Sendable : isNext(k, x)' /\ header = new_header(x, payload_of(x))
    BY <1>1, <1>19 DEF Reading
  <2> QED
    BY <1>1, <1>4, <1>8, <2>1, <2>2, <2>3, <2>4 DEF Reading
<1> QED
  BY <1>8, <1>10, <1>18, <1>20 DEF Aligned

-----------------------------------------------------------------------------
(* The receiver.                                                           *)

LEMMA ReadKeepsSending ==
    ASSUME Sending, NEW n \in Nat, n <= Len(stream), stream' = SubSeq(stream, n + 1, Len(stream)), UNCHANGED sender
    PROVE  Sending'
<1>1. stream' \in Seq(Number)
  BY ReadFacts
<1>2. UNCHANGED <<todo, frame, at, reported>>
  BY DEF sender
<1> QED
  BY <1>1, <1>2 DEF Sending

\* A receiver that wants a header is at the start of a frame.
LEMMA HeaderIsNext ==
    ASSUME Sending, recv_header, NEW w \in Nat, NEW cut, Written(w, cut), NEW k \in Nat, Reading(k, cut)
    PROVE  \E m \in Sendable : isNext(k, m) /\ decode_header(stream) = new_header(m, payload_of(m))
<1> DEFINE L == Len(reported)
<1>1. header = None /\ Len(stream) >= 6 /\ Len(stream) \in Nat
  BY DEF recv_header, Sending, HeaderFields
<1>2. k \in 0 .. L /\ cut[k] = 0 /\ L \in Nat /\ reported \in Seq(Sendable)
  BY <1>1 DEF Reading, Sending
<1>3. CASE k < L
  <2>1. PICK m \in Sendable : m = reported[k + 1]
    <3>1. k + 1 \in 1 .. L
      BY <1>2, <1>3
    <3> QED
      BY <1>2, <3>1, ElementOfSeq, Zenon
  <2>2. length(m) \in Nat /\ length(m) >= 6 /\ m \in Messages
    <3>1. m \in Messages
      BY Zenon DEF Sendable
    <3>2. PICK n \in Nat : length(m) = n + 6
      BY <3>1, FrameFacts, Zenon
    <3> QED
      BY <3>1, <3>2
  <2>3. ASSUME NEW j \in 1 .. 6 PROVE stream[j] = whole(m)[j]
    <3>1. k + 1 \in 1 .. L /\ (k + 1) - 1 = k /\ j \in 1 .. length(m) /\ j \in 1 .. Len(stream)
      BY <1>1, <1>2, <1>3, <2>2
    <3>2. holds(cut[(k + 1) - 1] + j, whole(m)[j])
      BY <2>1, <3>1 DEF Written
    <3>3. cut[(k + 1) - 1] + j = j
      BY <1>2, <3>1
    <3> QED
      BY <3>1, <3>2, <3>3 DEF holds
  <2>4. decode_header(stream) = new_header(m, payload_of(m))
    BY <2>2, <2>3, DecodedHeader
  <2>5. isNext(k, m)
    BY <1>3, <2>1 DEF isNext
  <2> QED
    BY <2>4, <2>5
<1>4. CASE k = L
  <2>1. w >= 6
    BY <1>1, <1>2, <1>4 DEF Written
  <2>2. PICK t \in Threads : inside(t)
    BY <2>1 DEF Written
  <2>3. at[t] = w /\ \A j \in 1 .. w : holds(cut[L] + j, frame[t][j])
    BY <2>2 DEF Written
  <2>4. frame[t] # <<>>
    BY <2>1, <2>3 DEF Sending
  <2>5. PICK m \in Sendable : m = Head(todo[t]) /\ frame[t] = whole(m)
    BY <2>4 DEF Sending
  <2>6. ASSUME NEW j \in 1 .. 6 PROVE stream[j] = whole(m)[j]
    <3>1. j \in 1 .. w /\ j \in 1 .. Len(stream) /\ cut[L] + j = j
      BY <1>1, <1>2, <1>4, <2>1
    <3> QED
      BY <2>3, <2>5, <3>1 DEF holds
  <2>7. decode_header(stream) = new_header(m, payload_of(m))
    BY <2>6, DecodedHeader DEF Sendable
  <2>8. isNext(k, m)
    BY <1>4, <2>2, <2>5 DEF isNext
  <2> QED
    BY <2>7, <2>8
<1> QED
  BY <1>2, <1>3, <1>4

LEMMA HeaderKeepsAligned ==
    ASSUME Sending, Aligned, recv_header
    PROVE  Aligned' /\ Sending' /\ status' = status
<1>1. PICK k \in Nat, w \in Nat, cut \in [0 .. Len(reported) -> Int] : Written(w, cut) /\ Reading(k, cut)
  BY DEF Aligned
<1>2. PICK m \in Sendable : isNext(k, m) /\ decode_header(stream) = new_header(m, payload_of(m))
  BY <1>1, HeaderIsNext
<1>3. PICK h : h = new_header(m, payload_of(m))
  OBVIOUS
<1>4. /\ m \in Messages /\ Len(payload_of(m)) <= kMaxFramePayload /\ Len(payload_of(m)) \in Nat
      /\ m.type < Len(FrameTypes) /\ h # None
  BY <1>3, TrafficTypes, FrameFacts DEF Sendable
<1>5. h.type = m.type /\ h.magic = kProtocolMagic /\ h.version = kProtocolVersion /\ h.payload_len = Len(payload_of(m))
  BY <1>3, <1>4, HeaderFacts
<1>6. is_valid_frame_type(h.type) /\ ~(h.payload_len > kMaxFramePayload)
  BY <1>4, <1>5, TrafficTypes DEF is_valid_frame_type
<1>7. header' = h /\ UNCHANGED <<status, received>>
  BY <1>2, <1>3, <1>5, <1>6 DEF recv_header
<1>8. 6 \in Nat /\ 6 <= Len(stream) /\ stream' = SubSeq(stream, 6 + 1, Len(stream)) /\ UNCHANGED sender /\ header = None
  BY DEF recv_header, HeaderFields, Sending
<1>9. PICK L \in Nat : L = Len(reported)
  BY DEF Sending
<1>10. PICK new : shifted(cut, 6, new) /\ new \in [0 .. L -> Int] /\ \A i \in 0 .. L : new[i] = cut[i] - 6
  <2> DEFINE f == [i \in 0 .. L |-> cut[i] - 6]
  <2>1. f \in [0 .. L -> Int] /\ \A i \in 0 .. L : f[i] = cut[i] - 6
    BY <1>9
  <2> HIDE DEF f
  <2>2. shifted(cut, 6, f)
    BY <1>9, <2>1, Zenon DEF shifted
  <2> QED
    BY <2>1, <2>2, Zenon
<1>11. Written(w, new)'
  BY <1>1, <1>8, <1>9, <1>10, ReadKeepsWritten, Zenon
<1>12. UNCHANGED <<todo, frame, at, reported>>
  BY <1>8 DEF sender
<1>13. isNext(k, m)'
  BY <1>2, <1>12 DEF isNext, inside
<1>14. k \in 0 .. L /\ new[k] = 0 - HeaderFields
  <2>1. k \in 0 .. L /\ cut[k] = 0
    BY <1>1, <1>8, <1>9 DEF Reading
  <2> QED
    BY <1>10, <2>1 DEF HeaderFields
<1>15. RoundTrips => /\ received \in Seq(Arrivals) /\ Len(received) = k
                     /\ \A i \in 1 .. k : received[i] = as_read(reported[i])
  BY <1>1 DEF Reading
<1>16. Reading(k, new)'
  BY <1>3, <1>4, <1>7, <1>9, <1>12, <1>13, <1>14, <1>15 DEF Reading
<1>17. Aligned'
  <2>1. new \in [0 .. Len(reported') -> Int]
    BY <1>9, <1>10, <1>12, Zenon
  <2> QED
    BY <1>11, <1>16, <2>1, Zenon DEF Aligned
<1> QED
  BY <1>7, <1>8, <1>17, ReadKeepsSending

\* When a payload is complete in the stream, so is its frame, and it is the payload of the next message.
LEMMA PayloadIsNext ==
    ASSUME Sending, recv_payload, NEW w \in Nat, NEW cut, Written(w, cut), NEW k \in Nat, Reading(k, cut)
    PROVE  /\ k < Len(reported) /\ header = new_header(reported[k + 1], payload_of(reported[k + 1]))
           /\ header.payload_len \in Nat /\ header.payload_len = Len(payload_of(reported[k + 1]))
           /\ SubSeq(stream, 1, header.payload_len) = payload_of(reported[k + 1])
<1>1. PICK L \in Nat : L = Len(reported)
  BY DEF Sending
<1>2. header # None /\ Len(stream) >= header.payload_len /\ stream \in Seq(Number) /\ Len(stream) \in Nat
  BY DEF recv_payload, Sending
<1>3. k \in 0 .. L /\ cut[k] = -6 /\ L \in Nat /\ reported \in Seq(Sendable)
  BY <1>1, <1>2 DEF Reading, Sending, HeaderFields
<1>4. PICK m \in Sendable : isNext(k, m) /\ header = new_header(m, payload_of(m))
  BY <1>2 DEF Reading
<1>5. PICK p \in Seq(Int) : p = payload_of(m)
  BY <1>4, FrameFacts DEF Sendable
<1>6. /\ header.payload_len = Len(p) /\ Len(p) \in Nat /\ length(m) = Len(p) + 6 /\ length(m) \in Nat
      /\ Len(whole(m)) = length(m) /\ \A j \in 1 .. Len(p) : whole(m)[6 + j] = p[j]
  BY <1>4, <1>5, FrameFacts, HeaderFacts DEF Sendable
<1>7. k < L
  <2> SUFFICES ASSUME k = L PROVE FALSE
    BY <1>3
  <2>1. PICK t \in Threads : inside(t) /\ m = Head(todo[t])
    BY <1>1, <1>4 DEF isNext
  <2>2. at[t] = w /\ w > 0
    BY <2>1 DEF Written, inside
  <2>3. w < length(m)
    BY <1>6, <2>1, <2>2 DEF Sending
  <2>4. Len(stream) <= w - 6
    BY <1>1, <1>2, <1>3 DEF Written
  <2>5. PICK have \in Nat, need \in Nat : have = Len(stream) /\ need = Len(p)
    BY <1>2, <1>6, Zenon
  <2>6. have >= need /\ have <= w - 6 /\ w < need + 6
    BY <1>2, <1>6, <2>3, <2>4, <2>5, Zenon
  <2> QED
    BY <2>6
<1>8. m = reported[k + 1]
  BY <1>1, <1>4, <1>7 DEF isNext
<1>9. ASSUME NEW j \in 1 .. Len(p)
      PROVE  stream[j] = p[j]
  <2>1. k + 1 \in 1 .. L /\ (k + 1) - 1 = k /\ 6 + j \in 1 .. length(m) /\ j \in 1 .. Len(stream)
    BY <1>2, <1>3, <1>6, <1>7
  <2>2. holds(cut[(k + 1) - 1] + (6 + j), whole(m)[6 + j])
    BY <1>1, <1>8, <2>1 DEF Written
  <2>3. cut[(k + 1) - 1] + (6 + j) = j
    BY <1>3, <2>1
  <2> QED
    BY <1>6, <2>1, <2>2, <2>3 DEF holds
<1>10. SubSeq(stream, 1, Len(p)) = p
  <2>1. /\ SubSeq(stream, 0 + 1, Len(p)) \in Seq(Number)
        /\ Len(SubSeq(stream, 0 + 1, Len(p))) = Len(p) - 0
        /\ \A j \in 1 .. Len(p) - 0 : SubSeq(stream, 0 + 1, Len(p))[j] = stream[0 + j]
    BY <1>2, <1>6, PartFacts
  <2>2. 0 + 1 = 1 /\ Len(p) - 0 = Len(p) /\ \A j \in 1 .. Len(p) : 0 + j = j
    BY <1>6
  <2>3. PICK s : s = SubSeq(stream, 1, Len(p))
    BY Zenon
  <2>4. s \in Seq(Number) /\ Len(s) = Len(p) /\ \A j \in 1 .. Len(p) : s[j] = p[j]
    BY <1>9, <2>1, <2>2, <2>3
  <2>5. p \in Seq(Number)
    BY SeqMonotonic DEF Number
  <2>6. s = p
    BY <2>4, <2>5, SeqEqual
  <2> QED
    BY <2>3, <2>6
<1> QED
  BY <1>1, <1>4, <1>5, <1>6, <1>7, <1>8, <1>10

LEMMA PayloadKeepsAligned ==
    ASSUME Sending, Aligned, recv_payload
    PROVE  Aligned' /\ Sending' /\ status' = status
<1>1. PICK k \in Nat, w \in Nat, cut \in [0 .. Len(reported) -> Int] : Written(w, cut) /\ Reading(k, cut)
  BY DEF Aligned
<1>2. PICK L \in Nat : L = Len(reported)
  BY DEF Sending
<1>3. k < L /\ k \in 0 .. L /\ cut[k] = -6 /\ k + 1 \in 1 .. L /\ k + 1 \in 0 .. L /\ (k + 1) - 1 = k
  <2>1. k < L
    BY <1>1, <1>2, PayloadIsNext
  <2>2. header # None
    BY DEF recv_payload
  <2>3. k \in 0 .. L /\ cut[k] = -6
    BY <1>1, <1>2, <2>2 DEF Reading, HeaderFields
  <2> QED
    BY <2>1, <2>3
<1>4. PICK m \in Sendable : m = reported[k + 1]
  BY <1>2, <1>3, ElementOfSeq DEF Sending
<1>5. PICK p \in Seq(Int) : p = payload_of(m)
  BY FrameFacts DEF Sendable
<1>6. PICK n \in Nat : n = header.payload_len
  BY <1>1, PayloadIsNext
<1>7. header = new_header(m, p) /\ n = Len(p) /\ SubSeq(stream, 1, n) = p
  BY <1>1, <1>4, <1>5, <1>6, PayloadIsNext
<1>8. /\ checksum_of(header, p) = header.checksum
      /\ header.type = m.type /\ header.correlation = m.correlation /\ length(m) = n + 6
  BY <1>5, <1>7, HeaderFacts, FrameFacts DEF Sendable
<1>9. handle(m.type, m.correlation, p) /\ header' = None /\ UNCHANGED status
  BY <1>6, <1>7, <1>8, Zenon DEF recv_payload
<1>10. n <= Len(stream) /\ stream' = SubSeq(stream, n + 1, Len(stream)) /\ UNCHANGED sender
  BY <1>6 DEF recv_payload, Sending
<1>11. PICK new : shifted(cut, n, new) /\ new \in [0 .. L -> Int] /\ \A i \in 0 .. L : new[i] = cut[i] - n
  <2> DEFINE f == [i \in 0 .. L |-> cut[i] - n]
  <2>1. f \in [0 .. L -> Int] /\ \A i \in 0 .. L : f[i] = cut[i] - n
    BY <1>2
  <2> HIDE DEF f
  <2>2. shifted(cut, n, f)
    BY <1>2, <2>1, Zenon DEF shifted
  <2> QED
    BY <2>1, <2>2, Zenon
<1>12. Written(w, new)'
  BY <1>1, <1>2, <1>10, <1>11, ReadKeepsWritten, ZenonT(30)
<1>13. UNCHANGED <<todo, frame, at, reported>>
  BY <1>10 DEF sender
<1>14. new[k + 1] = 0
  <2>1. cut[k + 1] = cut[(k + 1) - 1] + length(reported[k + 1])
    <3>1. \A i \in 1 .. L : cut[i] = cut[i - 1] + length(reported[i])
      BY <1>1, <1>2 DEF Written
    <3> QED
      BY <1>3, <3>1
  <2>2. cut[(k + 1) - 1] = -6 /\ length(reported[k + 1]) = n + 6
    BY <1>3, <1>4, <1>8
  <2>3. cut[k + 1] = n
    BY <2>1, <2>2
  <2> QED
    BY <1>3, <1>11, <2>3
<1>15. ASSUME RoundTrips
       PROVE  /\ received' \in Seq(Arrivals) /\ Len(received') = k + 1
              /\ \A i \in 1 .. k + 1 : received'[i] = as_read(reported[i])
  <2>1. m \in Messages
    BY DEF Sendable
  <2>2. received' = Append(received, as_read(m)) /\ as_read(m) \in Arrivals
    BY <1>5, <1>9, <1>15, <2>1 DEF handle, RoundTrips, Arrivals
  <2>3. /\ received \in Seq(Arrivals) /\ Len(received) = k
        /\ \A i \in 1 .. k : received[i] = as_read(reported[i])
    BY <1>1, <1>15 DEF Reading
  <2>4. /\ received' \in Seq(Arrivals) /\ Len(received') = k + 1 /\ received'[k + 1] = as_read(m)
        /\ \A i \in 1 .. k : received'[i] = received[i]
    <3>1. PICK r \in Arrivals : r = as_read(m) /\ received' = Append(received, r)
      BY <2>2, Zenon
    <3>2. PICK q \in Seq(Arrivals) : q = received /\ Len(q) = k
      BY <2>3, Zenon
    <3>3. /\ Append(q, r) \in Seq(Arrivals) /\ Len(Append(q, r)) = k + 1
          /\ \A i \in 1 .. k : Append(q, r)[i] = q[i]
          /\ Append(q, r)[k + 1] = r
      BY <3>2, AppendProperties
    <3> QED
      BY <3>1, <3>2, <3>3, Zenon
  <2> QED
    BY <1>4, <2>3, <2>4
<1>16. Reading(k + 1, new)'
  BY <1>2, <1>3, <1>9, <1>13, <1>14, <1>15 DEF Reading
<1>17. Aligned'
  <2>1. new \in [0 .. Len(reported') -> Int]
    BY <1>2, <1>11, <1>13, Zenon
  <2>2. k + 1 \in Nat
    OBVIOUS
  <2> QED
    BY <1>12, <1>16, <2>1, <2>2, Zenon DEF Aligned
<1> QED
  BY <1>9, <1>10, <1>17, ReadKeepsSending

LEMMA SameAligned ==
    ASSUME UNCHANGED <<todo, frame, at, ended, reported, stream, header, received>>
    PROVE  Aligned' <=> Aligned
<1>0. frame' = frame /\ at' = at /\ ended' = ended /\ reported' = reported /\ stream' = stream
  OBVIOUS
<1>1. \A w, cut : Written(w, cut)' <=> Written(w, cut)
  <2>1. \A t : inside(t)' <=> inside(t)
    BY Zenon DEF inside
  <2>2. \A x, v : holds(x, v)' <=> holds(x, v)
    BY <1>0, Zenon DEF holds
  <2> TAKE w, cut
  <2>3. (\A i \in 1 .. Len(reported) : \A j \in 1 .. length(reported[i]) :
            holds(cut[i - 1] + j, whole(reported[i])[j]))'
          <=> \A i \in 1 .. Len(reported) : \A j \in 1 .. length(reported[i]) :
                holds(cut[i - 1] + j, whole(reported[i])[j])
    BY <1>0, <2>2
  <2>4. (\A t \in Threads : inside(t) =>
            at[t] = w /\ \A j \in 1 .. w : holds(cut[Len(reported)] + j, frame[t][j]))'
          <=> \A t \in Threads : inside(t) =>
                at[t] = w /\ \A j \in 1 .. w : holds(cut[Len(reported)] + j, frame[t][j])
    BY <1>0, <2>1, <2>2
  <2>5. (\E t \in Threads : inside(t))' <=> \E t \in Threads : inside(t)
    BY <2>1, Zenon
  <2>6. Len(reported') = Len(reported) /\ Len(stream') = Len(stream)
    BY <1>0, Zenon
  <2>7. (cut \in [0 .. Len(reported) -> Int])' <=> cut \in [0 .. Len(reported) -> Int]
    BY <2>6, Zenon
  <2>8. (\A i \in 0 .. Len(reported) : cut[i] <= cut[Len(reported)])'
          <=> \A i \in 0 .. Len(reported) : cut[i] <= cut[Len(reported)]
    BY <2>6, Zenon
  <2>9. (\A i \in 1 .. Len(reported) : cut[i] = cut[i - 1] + length(reported[i]))'
          <=> \A i \in 1 .. Len(reported) : cut[i] = cut[i - 1] + length(reported[i])
    BY <1>0, Zenon
  <2>10. /\ (Len(stream) <= cut[Len(reported)] + w)' <=> Len(stream) <= cut[Len(reported)] + w
         /\ (Len(stream) = cut[Len(reported)] + w)' <=> Len(stream) = cut[Len(reported)] + w
    BY <2>6, Zenon
  <2>11. (~ended => Len(stream) = cut[Len(reported)] + w)'
           <=> (~ended => Len(stream) = cut[Len(reported)] + w)
    BY <1>0, <2>10
  <2> QED
    BY <2>3, <2>4, <2>5, <2>7, <2>8, <2>9, <2>10, <2>11, Zenon DEF Written
<1>2. \A k, cut : Reading(k, cut)' <=> Reading(k, cut)
  BY Zenon DEF Reading, isNext, inside
<1>3. Len(reported)' = Len(reported)
  OBVIOUS
<1> QED
  BY <1>1, <1>2, <1>3, Zenon DEF Aligned

LEMMA EofKeepsAligned ==
    ASSUME Sending, Aligned, recv_eof
    PROVE  Aligned' /\ Sending' /\ status' \notin {"Malformed", "Oversized"}
<1>1. UNCHANGED <<todo, frame, at, ended, reported, stream, header, received>>
  BY DEF recv_eof, sender
<1>2. Aligned' <=> Aligned
  BY <1>1, SameAligned
<1>3. status' \notin {"Malformed", "Oversized"}
  BY DEF recv_eof
<1> QED
  BY <1>1, <1>2, <1>3 DEF Sending

-----------------------------------------------------------------------------
(* The invariant and what follows from it.                                 *)

LEMMA FramingInit ==
    ASSUME Init
    PROVE  FramingInv
<1>1. /\ todo \in [Threads -> Seq(Messages)] /\ frame = [t \in Threads |-> <<>>] /\ at = [t \in Threads |-> 0]
      /\ stream = <<>> /\ ended = FALSE /\ header = None /\ status = "Ok" /\ received = <<>> /\ reported = <<>>
      /\ mixed = FALSE
  BY TrafficTypes DEF Init
<1>2. <<>> \in Seq(Number) /\ <<>> \in Seq(Sendable) /\ <<>> \in Seq(Arrivals) /\ Len(<<>>) = 0
  OBVIOUS
<1>3. Sending
  BY <1>1, <1>2 DEF Sending
<1>4. PICK cut \in [0 .. 0 -> Int] : cut[0] = 0
  <2> DEFINE f == [i \in 0 .. 0 |-> 0]
  <2>1. f \in [0 .. 0 -> Int] /\ f[0] = 0
    OBVIOUS
  <2> QED
    BY <2>1, Zenon
<1>5. Written(0, cut)
  BY <1>1, <1>2, <1>4 DEF Written, inside
<1>6. Reading(0, cut)
  BY <1>1, <1>2, <1>4 DEF Reading
<1>7. Aligned
  BY <1>1, <1>2, <1>4, <1>5, <1>6 DEF Aligned
<1> QED
  BY <1>1, <1>3, <1>7, Zenon DEF FramingInv

LEMMA FramingStep ==
    ASSUME FramingInv, [Next]_vars
    PROVE  FramingInv'
<1>1. mixed' \in BOOLEAN /\ (~mixed' => ~mixed)
  BY Zenon DEF FramingInv, Next, vars, sender, send_frame, send, lose, recv_frame, recv_header, recv_payload, recv_eof
<1> SUFFICES ASSUME ~mixed'
             PROVE  Sending' /\ Aligned' /\ status' \notin {"Malformed", "Oversized"}
  BY <1>1 DEF FramingInv
<1>2. Sending /\ Aligned /\ status \notin {"Malformed", "Oversized"}
  BY <1>1 DEF FramingInv
<1>3. ASSUME NEW t \in Threads, send_frame(t)
      PROVE  Sending' /\ Aligned' /\ status' = status
  <2>1. status' = status
    BY <1>3 DEF send_frame
  <2> QED
    BY <1>2, <1>3, <2>1, SendFrameKeepsSending, SendFrameKeepsAligned
<1>4. ASSUME NEW t \in Threads, NEW n \in 1 .. Len(frame[t]), send(t, n)
      PROVE  Sending' /\ Aligned' /\ status' = status
  <2>1. status' = status
    BY <1>4 DEF send
  <2>2. Sending'
    BY <1>2, <1>4, SendKeepsSending
  <2>3. Aligned'
    BY <1>2, <1>4, PartialSendKeepsAligned, LastSendKeepsAligned
  <2> QED
    BY <2>1, <2>2, <2>3
<1>5. ASSUME NEW n \in Kept, lose(n)
      PROVE  Sending' /\ Aligned' /\ status' = status
  <2>1. n \in Nat
    BY TrafficTypes
  <2>2. status' = status
    BY <1>5 DEF lose
  <2> QED
    BY <1>2, <1>5, <2>1, <2>2, LossKeepsAligned
<1>6. CASE recv_header
  BY <1>2, <1>6, HeaderKeepsAligned
<1>7. CASE recv_payload
  BY <1>2, <1>7, PayloadKeepsAligned
<1>8. CASE recv_eof
  BY <1>2, <1>8, EofKeepsAligned
<1>9. CASE UNCHANGED vars
  <2>1. UNCHANGED <<todo, frame, at, ended, reported, stream, header, received, status>>
    BY <1>9 DEF vars
  <2>2. Aligned'
    BY <1>2, <2>1, SameAligned
  <2> QED
    BY <1>2, <2>1, <2>2 DEF Sending
<1> QED
  BY <1>2, <1>3, <1>4, <1>5, <1>6, <1>7, <1>8, <1>9 DEF Next, recv_frame

LEMMA FramingAlways == Spec => []FramingInv
BY FramingInit, FramingStep, PTL DEF Spec

(* The receiver refuses a frame as Malformed or Oversized only after two   *)
(* threads wrote into each other's frames: a frame that is written without *)
(* interruption is read back whole, wherever the calls of ::send and the   *)
(* end of the connection cut the stream.                                   *)
THEOREM FramesStayWhole == Spec => []OnlyMixingBreaks
<1>1. FramingInv => OnlyMixingBreaks
  BY DEF FramingInv, OnlyMixingBreaks
<1> QED
  BY <1>1, FramingAlways, PTL

(* While no frames mixed, recv_frame hands the messages to the handlers in *)
(* the order in which send_frame returned, each once, none left out and    *)
(* none changed, for every traffic on which the decoders undo the encoders *)
(* (RoundTrips, which TLC evaluates for a message of every frame type).    *)
THEOREM MessagesArriveInOrder ==
    ASSUME RoundTrips
    PROVE  Spec => []ArriveInOrder
<1>1. FramingInv => ArriveInOrder
  <2> SUFFICES ASSUME FramingInv, ~mixed
               PROVE  IsPrefix(received, expected)
    BY DEF ArriveInOrder
  <2>1. Sending /\ Aligned
    BY DEF FramingInv
  <2>2. PICK k \in Nat, w \in Nat, cut \in [0 .. Len(reported) -> Int] : Written(w, cut) /\ Reading(k, cut)
    BY <2>1 DEF Aligned
  <2>3. /\ k \in 0 .. Len(reported) /\ received \in Seq(Arrivals) /\ Len(received) = k
        /\ \A i \in 1 .. k : received[i] = as_read(reported[i])
    BY <2>2 DEF Reading
  <2>4. reported \in Seq(Sendable) /\ Len(reported) \in Nat
    BY <2>1 DEF Sending
  <2>5. \A i \in 1 .. Len(reported) : as_read(reported[i]) \in Arrivals
    BY <2>4, ElementOfSeq DEF Arrivals, Sendable
  <2>6. /\ expected \in Seq(Arrivals) /\ Len(expected) = Len(reported)
        /\ \A i \in 1 .. Len(reported) : expected[i] = as_read(reported[i])
    <3>1. expected = [i \in 1 .. Len(reported) |-> as_read(reported[i])]
      BY <2>4 DEF expected
    <3> QED
      BY <2>4, <2>5, <3>1
  <2>7. DOMAIN received = 1 .. k /\ Len(received) <= Len(expected)
    BY <2>3, <2>4, <2>6
  <2>8. \A i \in 1 .. k : received[i] = expected[i]
    BY <2>3, <2>4, <2>6
  <2> QED
    BY <2>7, <2>8, Zenon DEF IsPrefix
<1> QED
  BY <1>1, FramingAlways, PTL
=============================================================================
