------------------------------ MODULE Framing ------------------------------
(***************************************************************************)
(* The json_cbor framing of crates/simple-ipc/src/encoding.rs on a byte    *)
(* stream: a message is its length as a varint and that many bytes; the    *)
(* reader appends whatever a read returned to its buffer and takes whole   *)
(* messages off the front.                                                 *)
(***************************************************************************)
EXTENDS Naturals, Sequences

CONSTANTS
    Base,         \* values of one byte of a length, 128 in the code
    MaxBytes,     \* bytes a length may take, 9 in the code
    Payloads,     \* the CBOR documents, as byte sequences
    MaxMessages   \* bound: messages sent

ASSUME VarintAssumption == Base \in Nat \ {0, 1} /\ MaxBytes \in Nat \ {0}

(* The length prefix (varint.rs): little endian, Base values to a byte, the *)
(* bytes before the last one carrying a continuation bit.                  *)
Bytes == 0 .. 2 * Base - 1
Bits(b) == b % Base
Continues(b) == b >= Base

(* encode_unsigned *)
encode[v \in Nat] == IF v < Base THEN <<v>>
                     ELSE <<Base + (v % Base)>> \o encode[v \div Base]

(* Where try_decode_unsigned stops, and what it has by then.               *)
value[s \in Seq(Nat)] ==
    IF s = <<>> THEN 0 ELSE Bits(Head(s)) + Base * value[Tail(s)]

(* Mutant: the limit of bytes is one too small. *)
LimitTight == MaxBytes - 1
Limit == MaxBytes

Ends(buf) == {k \in DOMAIN buf : k <= Limit /\ ~Continues(buf[k])}
FirstEnd(buf) == CHOOSE k \in Ends(buf) : \A j \in Ends(buf) : k <= j

Incomplete == [kind |-> "incomplete", value |-> 0, size |-> 0]
TooLong == [kind |-> "error", value |-> 0, size |-> 0]

try_decode(buf) ==
    IF Ends(buf) # {}
    THEN LET k == FirstEnd(buf)
         IN  [kind |-> "value", value |-> value[SubSeq(buf, 1, k)], size |-> k]
    ELSE IF Len(buf) > Limit THEN TooLong ELSE Incomplete

ASSUME FramingAssumption ==
    /\ Payloads \subseteq Seq(Bytes) /\ MaxMessages \in Nat

VARIABLES
    sent,     \* messages written
    wire,     \* bytes in the socket
    buf,      \* bytes read and not decoded
    got,      \* messages decoded
    failed    \* a decode error was reported

framingVars == <<sent, wire, buf, got, failed>>

FramingTypeOK ==
    /\ sent \in Seq(Payloads) /\ Len(sent) <= MaxMessages
    /\ wire \in Seq(Bytes) /\ buf \in Seq(Bytes)
    /\ got \in Seq(Seq(Bytes)) /\ failed \in BOOLEAN

FramingInit == sent = <<>> /\ wire = <<>> /\ buf = <<>> /\ got = <<>> /\ failed = FALSE

(* Mutant: the length is written as one byte. *)
FrameByte(p) == <<Len(p)>> \o p
(* encode_cbor *)
Frame(p) == encode[Len(p)] \o p

Send(p) ==
    /\ Len(sent) < MaxMessages
    /\ sent' = Append(sent, p) /\ wire' = wire \o Frame(p)
    /\ UNCHANGED <<buf, got, failed>>

FrameRead ==
    /\ ~failed /\ wire # <<>>
    /\ \E n \in 1 .. Len(wire) : /\ buf' = buf \o SubSeq(wire, 1, n)
                                 /\ wire' = SubSeq(wire, n + 1, Len(wire))
    /\ UNCHANGED <<sent, got, failed>>

(* Mutant: the length counts the bytes of the prefix as well. *)
TotalInclusive(v) == v.value
Total(v) == v.size + v.value

(* Mutant: a message is taken only when more than it is there. *)
EnoughAndMore(v) == Len(buf) > Total(v)
Enough(v) == Len(buf) >= Total(v)

(* decode_cbor, as long as it returns messages.                            *)
FrameDecode ==
    LET v == try_decode(buf)
    IN  /\ failed = FALSE
        /\ \/ /\ v.kind = "value" /\ Enough(v)
              /\ got' = Append(got, SubSeq(buf, v.size + 1, Total(v)))
              /\ buf' = SubSeq(buf, Total(v) + 1, Len(buf))
              /\ UNCHANGED failed
           \/ /\ v.kind = "error"
              /\ failed' = TRUE /\ UNCHANGED <<got, buf>>
    /\ UNCHANGED <<sent, wire>>

FramingNext == FrameRead \/ FrameDecode \/ \E p \in Payloads : Send(p)

FramingSpec == FramingInit /\ [][FramingNext]_framingVars /\ WF_framingVars(FrameRead \/ FrameDecode)

-----------------------------------------------------------------------------
(* Properties *)

(* However the stream is cut into reads, the messages come out in order    *)
(* and whole; a prefix longer than the limit is the only failure.          *)
InOrder == \A k \in DOMAIN got : k <= Len(sent) /\ got[k] = sent[k]

FailsOnlyOnLong ==
    failed => /\ Len(got) < Len(sent)
              /\ Len(encode[Len(sent[Len(got) + 1])]) > MaxBytes

(* Every message is decoded in the end, or one was too long to be framed.  *)
AllArrive == \A n \in 1 .. MaxMessages :
    Len(sent) = n ~> failed \/ Len(got) >= n

(* What read_loop promises its caller, all of it.                          *)
FramesDelivered == []InOrder /\ []FailsOnlyOnLong /\ AllArrive
=============================================================================
