--------------------------------- MODULE MCLink ---------------------------------
(***************************************************************************)
(* Traffic for Link.  A worker's socket is written by every client thread  *)
(* of the coordinator that dispatches to it; every other socket is written *)
(* by one thread, here with a frame of any type followed by another one.   *)
(* The DISPATCH frames all carry correlation 0, as in the code.            *)
(***************************************************************************)
EXTENDS Link

CONSTANTS t1, t2

\* A message whose fields all differ, with strings and lists of this size.
sample(code, correlation, size, flip) ==
    LET order == codec_of(code).enc
        value(f, i) ==
            CASE f.kind = "num"  -> 10 + i
              [] f.kind = "bool" -> ((i % 2 = 0) # flip)
              [] f.kind = "opt"  -> [j \in 1 .. at_most(size, f.size) |-> 50 + j]
              [] f.kind \in {"str", "list"} -> [j \in 1 .. size |-> 60 + i + j]
              [] f.kind = "entries" -> [j \in 1 .. size |-> [key |-> [k \in 1 .. j |-> 80 + k], state |-> 90 + j]]
        index(name) == CHOOSE i \in DOMAIN order : order[i].name = name
        body == [name \in {order[i].name : i \in DOMAIN order} |-> value(order[index(name)], index(name))]
    IN  [type |-> code, correlation |-> correlation, body |-> body]

DISPATCH  == 5
HEARTBEAT == 4
ERROR     == 9

one_thread ==
    {[t \in Threads |-> IF t = t1 THEN <<sample(c, 1, size, size = 1), sample(HEARTBEAT, 2, 1, FALSE)>> ELSE <<>>]
        : c \in 0 .. Len(FrameTypes) - 1, size \in 0 .. 2}

two_threads ==
    {[t \in Threads |-> <<[sample(DISPATCH, 0, IF t = t1 THEN 1 ELSE size, FALSE)
                              EXCEPT !.body.dispatch = IF t = t1 THEN 1 ELSE 2]>>] : size \in 0 .. 2}

\* A payload longer than kMaxFramePayload, and a frame after it.
oversize ==
    {[t \in Threads |-> IF t = t1 THEN <<sample(ERROR, 1, 20, FALSE), sample(HEARTBEAT, 2, 1, FALSE)>> ELSE <<>>]}

MCTraffic == one_thread \cup two_threads \cup oversize

\* The codecs are faithful on what is sent here.
ASSUME CodecsRoundTrip == RoundTrips
=============================================================================
