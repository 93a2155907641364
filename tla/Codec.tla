--------------------------------- MODULE Codec ---------------------------------
(***************************************************************************)
(* The payload codecs of include/nmc/protocol.hpp over the bounded reader  *)
(* and writer of include/nmc/codec.hpp.  A payload is a sequence of        *)
(* numbers, one per scalar written, whatever its width; a string or blob   *)
(* is its length and one number per byte.  A reader that is out of step    *)
(* with the writer therefore takes any number for what it expects.         *)
(*                                                                         *)
(* The order in which a message is written and the order in which it is    *)
(* read are translated separately, from its encode_ and its decode_        *)
(* function: as(kind, names) are consecutive fields of one kind.           *)
(***************************************************************************)
EXTENDS Naturals, Sequences, Functions, TLC

CONSTANTS
    kMaxList,       \* elements of a list that a decoder reads: 64
    kMaxEntries     \* capability entries that a decoder reads: 1024

as(kind, names) == [i \in DOMAIN names |-> [kind |-> kind, name |-> names[i], size |-> 1]]
\* An optional group of numbers behind a flag; the message holds it as a sequence.
opt(name, size) == <<[kind |-> "opt", name |-> name, size |-> size]>>

-----------------------------------------------------------------------------
(* ByteWriter and ByteReader.                                              *)

\* What is written part by part.
concat(parts) ==
    LET upto[i \in 0 .. Len(parts)] == IF i = 0 THEN <<>> ELSE upto[i - 1] \o parts[i]
    IN  upto[Len(parts)]

write_string(s) == <<Len(s)>> \o s

\* The members of a group that the sender leaves out are written as 1 (value_or).
value_or(v, size) == IF v = <<>> THEN <<>> ELSE v \o [i \in 1 .. size - Len(v) |-> 1]

write(m, f) ==
    LET v == m[f.name] IN
    CASE f.kind = "num"     -> <<v>>
      [] f.kind = "bool"    -> <<IF v THEN 1 ELSE 0>>
      [] f.kind = "opt"     -> <<IF v = <<>> THEN 0 ELSE 1>> \o value_or(v, f.size)
      [] f.kind \in {"str", "list"} -> write_string(v)
      [] f.kind = "entries" ->
            <<Len(v)>> \o concat([i \in DOMAIN v |-> write_string(v[i].key) \o <<v[i].state>>])

encode(order, m) == concat([i \in DOMAIN order |-> write(m, order[i])])

failed == [ok |-> FALSE, rest |-> <<>>, val |-> <<>>]

\* n numbers are consumed and the first, if it is a length or a flag, is dropped from the value.
take(rest, n) == [ok |-> TRUE, rest |-> SubSeq(rest, n + 1, Len(rest)), val |-> SubSeq(rest, 2, n)]
if_present(rest, n) == IF n <= Len(rest) THEN take(rest, n) ELSE failed

\* A payload is at most kMaxFramePayload, so the reader's own bound on strings never bites.
read_string(rest) == IF rest = <<>> THEN failed ELSE if_present(rest, Head(rest) + 1)

\* One capability entry after those read so far, and n of them from the start.
read_entry(r) ==
    LET key == read_string(r.rest) IN
    IF ~r.ok \/ ~key.ok \/ key.rest = <<>> THEN failed
    ELSE [ok |-> TRUE, rest |-> Tail(key.rest),
          val |-> Append(r.val, [key |-> key.val, state |-> Head(key.rest)])]

read_entries(n, rest) ==
    LET after[i \in 0 .. n] ==
            IF i = 0 THEN [ok |-> TRUE, rest |-> rest, val |-> <<>>]
            ELSE CHOOSE r \in {read_entry(prev) : prev \in {after[i - 1]}} : TRUE
    IN  after[n]

at_most(n, bound) == IF n <= bound THEN n ELSE bound

\* One field: what is left, and the value read.
read(rest, f) ==
    IF rest = <<>> THEN failed ELSE
    LET n == Head(rest) IN
    CASE f.kind = "num"  -> [take(rest, 1) EXCEPT !.val = n]
      [] f.kind = "bool" -> [take(rest, 1) EXCEPT !.val = (n # 0)]
      [] f.kind = "str"  -> read_string(rest)
      [] f.kind = "list" -> if_present(rest, at_most(n, kMaxList) + 1)
      [] f.kind = "opt"  -> if_present(rest, IF n = 0 THEN 1 ELSE f.size + 1)
      [] f.kind = "entries" -> read_entries(at_most(n, kMaxEntries), Tail(rest))

read_field(r, f) ==
    LET one == read(r.rest, f) IN
    IF r.ok /\ one.ok THEN [ok |-> TRUE, rest |-> one.rest, val |-> r.val @@ (f.name :> one.val)] ELSE failed

\* The message read in this order, or the failure.
decode(order, payload) ==
    LET start == [ok |-> TRUE, rest |-> payload, val |-> <<>>]
        after[i \in 0 .. Len(order)] ==
            IF i = 0 THEN start ELSE CHOOSE r \in {read_field(prev, order[i]) : prev \in {after[i - 1]}} : TRUE
    IN  after[Len(order)]

-----------------------------------------------------------------------------
(* Worker messages.                                                        *)

encode_hello == as("num", <<"worker", "worker_boot">>) \o as("str", <<"name">>)
decode_hello == as("num", <<"worker", "worker_boot">>) \o as("str", <<"name">>)

encode_register_target ==
    as("num", <<"target", "generation", "provider", "kind">>) \o as("bool", <<"synthetic">>)
    \o as("str", <<"name">>) \o as("list", <<"ops", "data_types", "layouts">>)
    \o as("num", <<"max_input_bytes", "alignment", "concurrency", "workspace", "owner_boot">>)
decode_register_target ==
    as("num", <<"target", "generation">>) \o as("num", <<"provider", "kind">>)
    \o as("bool", <<"synthetic">>) \o as("str", <<"name">>)
    \o as("list", <<"ops">>) \o as("list", <<"data_types">>) \o as("list", <<"layouts">>)
    \o as("num", <<"max_input_bytes", "alignment", "concurrency">>)
    \o as("num", <<"workspace", "owner_boot">>)

encode_capability ==
    as("num", <<"target", "generation">>) \o as("entries", <<"entries">>)
    \o as("num", <<"evidence_generation", "publisher">>)
decode_capability ==
    as("num", <<"target", "generation">>) \o as("entries", <<"entries">>)
    \o as("num", <<"evidence_generation">>) \o as("num", <<"publisher">>)

encode_data_evidence ==
    as("num", <<"region", "region_generation", "dataset", "dataset_generation",
                "memory_domain", "memory_domain_generation">>)
    \o as("bool", <<"present", "current", "reachable">>) \o as("num", <<"publisher">>)
decode_data_evidence ==
    as("num", <<"region", "region_generation", "dataset", "dataset_generation",
                "memory_domain", "memory_domain_generation">>)
    \o as("bool", <<"present", "current", "reachable">>) \o as("num", <<"publisher">>)

encode_heartbeat ==
    as("num", <<"target", "lifecycle">>) \o as("bool", <<"reachable">>)
    \o as("num", <<"queue_depth", "latency_ns", "throughput_bps", "confidence">>)
decode_heartbeat ==
    as("num", <<"target", "lifecycle">>) \o as("bool", <<"reachable">>)
    \o as("num", <<"queue_depth", "latency_ns", "throughput_bps", "confidence">>)

encode_dispatch ==
    as("num", <<"plan", "plan_gen", "dispatch", "attempt", "target", "target_gen", "worker_boot",
                "epoch", "dataset_gen", "region_gen", "operation_gen">>)
    \o opt("program_gen", 1) \o as("num", <<"op_class", "data_type", "retry_class">>)
    \o as("bool", <<"idempotent", "require_verification">>) \o as("str", <<"payload">>)
decode_dispatch ==
    as("num", <<"plan", "plan_gen", "dispatch", "attempt", "target", "target_gen", "worker_boot",
                "epoch", "dataset_gen", "region_gen", "operation_gen">>)
    \o opt("program_gen", 1) \o as("num", <<"op_class", "data_type", "retry_class">>)
    \o as("bool", <<"idempotent", "require_verification">>) \o as("str", <<"payload">>)

encode_dispatch_ack ==
    as("num", <<"dispatch">>) \o as("bool", <<"accepted">>) \o as("str", <<"note">>)
decode_dispatch_ack ==
    as("num", <<"dispatch">>) \o as("bool", <<"accepted">>) \o as("str", <<"note">>)

encode_result ==
    as("num", <<"plan", "plan_gen", "dispatch", "attempt", "target", "target_gen", "worker_boot",
                "epoch", "dataset_gen", "region_gen", "operation_gen", "result_gen">>)
    \o as("str", <<"output", "output_digest">>) \o as("bool", <<"unknown">>) \o as("str", <<"note">>)
decode_result ==
    as("num", <<"plan", "plan_gen", "dispatch", "attempt", "target", "target_gen", "worker_boot",
                "epoch", "dataset_gen", "region_gen", "operation_gen", "result_gen">>)
    \o as("str", <<"output", "output_digest">>) \o as("bool", <<"unknown">>) \o as("str", <<"note">>)

encode_commit_ack ==
    as("num", <<"plan", "dispatch">>) \o as("bool", <<"committed">>) \o as("str", <<"note">>)
decode_commit_ack ==
    as("num", <<"plan", "dispatch">>) \o as("bool", <<"committed">>) \o as("str", <<"note">>)

encode_error == as("str", <<"code", "message">>)
decode_error == as("str", <<"code", "message">>)
encode_shutdown == as("str", <<"reason">>)
decode_shutdown == as("str", <<"reason">>)
encode_revalidate == as("num", <<"target">>)
decode_revalidate == as("num", <<"target">>)

-----------------------------------------------------------------------------
(* Client messages.                                                        *)

encode_operation_fields ==
    as("num", <<"id", "generation", "op_class", "dataset", "dataset_generation", "region",
                "region_generation", "element_count", "data_type", "layout", "alignment",
                "input_bytes", "output_bytes", "workspace_bytes", "output_data_type">>)
    \o as("bool", <<"determinism_required">>)
    \o as("num", <<"max_tolerated_latency_ns", "required_throughput_bps", "integrity",
                   "retry_class", "policy", "policy_generation">>)
    \o opt("program", 2) \o as("str", <<"description">>)
decode_operation_fields ==
    as("num", <<"id", "generation", "op_class", "dataset", "dataset_generation", "region",
                "region_generation", "element_count", "data_type", "layout", "alignment",
                "input_bytes", "output_bytes", "workspace_bytes", "output_data_type">>)
    \o as("bool", <<"determinism_required">>)
    \o as("num", <<"max_tolerated_latency_ns", "required_throughput_bps", "integrity",
                   "retry_class", "policy", "policy_generation">>)
    \o opt("program", 2) \o as("str", <<"description">>)

\* CLIENT_PLAN, CLIENT_DISPATCH and CLIENT_GET_RESULT carry one id.
encode_client_id == as("num", <<"id">>)
decode_client_id == as("num", <<"id">>)

encode_client_reply ==
    as("bool", <<"ok">>) \o as("num", <<"plan", "decision">>)
    \o as("bool", <<"created", "committed", "ambiguous">>)
    \o as("num", <<"verification", "output_bytes">>) \o as("str", <<"output_digest", "note">>)
decode_client_reply ==
    as("bool", <<"ok">>) \o as("num", <<"plan", "decision">>)
    \o as("bool", <<"created", "committed", "ambiguous">>)
    \o as("num", <<"verification", "output_bytes">>) \o as("str", <<"output_digest", "note">>)

-----------------------------------------------------------------------------
(* The table of frame types: code, order written, order read.              *)

entry(e, d) == [enc |-> e, dec |-> d]
FrameTypes == <<
    entry(encode_hello, decode_hello),
    entry(encode_register_target, decode_register_target),
    entry(encode_capability, decode_capability),
    entry(encode_data_evidence, decode_data_evidence),
    entry(encode_heartbeat, decode_heartbeat),
    entry(encode_dispatch, decode_dispatch),
    entry(encode_dispatch_ack, decode_dispatch_ack),
    entry(encode_result, decode_result),
    entry(encode_commit_ack, decode_commit_ack),
    entry(encode_error, decode_error),
    entry(<<>>, <<>>),      \* PING
    entry(<<>>, <<>>),      \* PONG
    entry(encode_shutdown, decode_shutdown),
    entry(encode_revalidate, decode_revalidate),
    entry(encode_operation_fields, decode_operation_fields),
    entry(encode_client_id, decode_client_id),
    entry(encode_client_id, decode_client_id),
    entry(encode_client_id, decode_client_id),
    entry(encode_client_reply, decode_client_reply) >>

\* Mutant: the newest type is missing from the table.
numeric_bound(code) == code < Len(FrameTypes) - 1

is_valid_frame_type(code) == code < Len(FrameTypes)
codec_of(code) == FrameTypes[code + 1]
=============================================================================
