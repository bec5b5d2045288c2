------------------------------ MODULE DNSNames ------------------------------
(***************************************************************************)
(* The codec of lists of domain names (DNSNameList.c): the encoder that    *)
(* shares the endings of names through pointers, and the decoder that      *)
(* accepts such lists from the network (DHCP search lists, router          *)
(* advertisements).                                                        *)
(*                                                                         *)
(* A name is the sequence of its labels, as the dots of the string divide  *)
(* it: the empty string is one empty label, and a dot at the end is an     *)
(* empty label at the end.  A label is a sequence of bytes.  Offsets count *)
(* from 0, as in the source.                                               *)
(***************************************************************************)
EXTENDS Naturals, Sequences, SequencesExt

CONSTANTS
    DNSName,      \* the names a caller encodes
    DNSByte,      \* the bytes that arrive from the network
    DNSBufSize,   \* sizes of a buffer the caller supplies; 0: it supplies none
    DNSLabelMax,  \* DNS_LABEL_LENGTH_MAX
    MaxDNSNames,  \* bound: names in a list
    MaxDNSBytes,  \* bound: bytes of a received list
    MaxDNSSteps   \* bound: turns of the decoder's loop that are followed

ASSUME DNSAssumption ==
    /\ \A n \in DNSName : n # <<>>
    /\ DNSByte \subseteq 0 .. 255
    /\ DNSLabelMax \in 1 .. 63

VARIABLES
    nb,        \* DNSNamesBuf: [bytes, names, size, compact]
    encoded,   \* the names added to it
    received   \* a list received from the network

dnsVars == <<nb, encoded, received>>

-----------------------------------------------------------------------------
(* The encoder.                                                            *)

EncodeLabels(labels) == FoldLeft(LAMBDA acc, l : acc \o <<Len(l)>> \o l, <<>>, labels)
\* A name cut at its first empty label, with the offset of each label, and
\* whether an empty label ended it.  NULL if a label is too long.
CreateFrom(labels, ended) ==
    [ok |-> \A i \in DOMAIN labels : Len(labels[i]) <= DNSLabelMax,
     offsets |-> [i \in DOMAIN labels |-> Len(EncodeLabels(SubSeq(labels, 1, i - 1)))],
     buf |-> EncodeLabels(labels) \o (IF ended THEN <<0>> ELSE <<>>)]
DNSNameCreate(n, flags) ==
    LET end == SelectInSeq(n, LAMBDA l : l = <<>>)
    IN CreateFrom(IF end = 0 THEN n ELSE SubSeq(n, 1, end - 1),
                  "single" \notin flags \/ (end # 0 /\ "preserve" \in flags))

Label(buf, off) == SubSeq(buf, off + 1, off + 1 + buf[off + 1])

\* How many labels two names have in common at their ends.
DNSNameMatch(buf1, offsets1, buf2, offsets2) ==
    LET Same(k) == \A j \in 0 .. k - 1 :
                     Label(buf1, offsets1[Len(offsets1) - j]) = Label(buf2, offsets2[Len(offsets2) - j])
    IN Max({ k \in 0 .. Len(offsets1) : k <= Len(offsets2) /\ Same(k) })

\* A buffer of the encoder's own grows, one the caller supplied does not.
DNSBufAddData(b, data) ==
    IF b.size # 0 /\ Len(data) > b.size - Len(b.bytes)
      THEN [ok |-> FALSE, b |-> b]
      ELSE [ok |-> TRUE, b |-> [b EXCEPT !.bytes = @ \o data]]

DNSNameOffsetsListAdd(b, offsets) == [b EXCEPT !.names = Append(@, offsets)]

Pointer(off) == <<192 + off \div 256, off % 256>>

\* The offsets of a name's own labels, relative to the buffer it was added to.
DNSNameOffsetsSet(offsets, used) == [i \in DOMAIN offsets |-> offsets[i] + used]

\* Mutant: the offsets are taken from the start of the best match.
FirstOffsets(name, matched) == SubSeq(name, 1, matched)
\* The offsets of the last labels of the best match.
SharedOffsets(name, matched) == SubSeq(name, Len(name) - matched + 1, Len(name))

\* A name goes in whole, or the labels that no earlier name ends with and a
\* pointer to the rest.
Appended(b, data, offsets) ==
    LET r == DNSBufAddData(b, data)
    IN IF r.ok THEN [r EXCEPT !.b = DNSNameOffsetsListAdd(r.b, offsets)] ELSE [ok |-> FALSE, b |-> b]
AddShared(b, new, own, shared) ==
    Appended(b, IF shared = <<>> THEN new.buf ELSE SubSeq(new.buf, 1, new.offsets[own + 1]) \o Pointer(shared[1]),
             DNSNameOffsetsSet(SubSeq(new.offsets, 1, own), Len(b.bytes)) \o shared)
AddMatched(b, new, match, matched) ==
    AddShared(b, new, Len(new.offsets) - matched,
              IF matched = 0 THEN <<>>
              ELSE SharedOffsets(b.names[SelectInSeq(match, LAMBDA m : m = matched)], matched))
AddCreated(b, new) ==
    LET match == [i \in DOMAIN b.names |-> DNSNameMatch(b.bytes, b.names[i], new.buf, new.offsets)]
    IN IF ~new.ok THEN [ok |-> FALSE, b |-> b]
       ELSE IF ~b.compact THEN DNSBufAddData(b, new.buf)
       ELSE AddMatched(b, new, match, Max(Range(match) \cup {0}))

\* One name: its labels up to the longest ending some earlier name has, then
\* a pointer to that ending.  The offsets remembered for it are those of its
\* labels in the buffer.  Nothing is left of a name that does not fit.
DNSNamesBufAddName(b, n, flags) == AddCreated(b, DNSNameCreate(n, flags))

DNSNamesBufInit(size, compact) ==
    [bytes |-> <<>>, names |-> <<>>, size |-> size, compact |-> compact]

\* A single name goes out whole, and without an end label unless it has one.
DNSNameListDataCreateWithCString(n) ==
    LET r == DNSNamesBufAddName(DNSNamesBufInit(0, FALSE), n, {"single", "preserve"})
    IN IF r.ok THEN r.b.bytes ELSE <<>>

-----------------------------------------------------------------------------
(* The decoder.  Its state: the reading position, the part of the buffer   *)
(* scanned so far, the end of the last complete name, the offsets of the   *)
(* labels seen, the labels of the name being read, the names read, and     *)
(* what the loop came to.  outside: a byte beyond the buffer was read.     *)

DNSNameOffsetsContainsOffset(offsets, off) == off \in offsets

\* Every label, complete or with a pointer behind it, as a string.
AsString(labels, flags) ==
    (IF labels = <<>> THEN <<<<>>>> ELSE labels)
        \o (IF "preserve" \in flags THEN <<<<>>>> ELSE <<>>)

\* A pointer leads back, into a complete name, to the start of a label.
FollowPointer(buf, flags, st) ==
    LET ptr == (buf[st.head + 1] - 192) * 256 + buf[st.head + 2]
        fresh == st.head >= st.scan
        scanned == IF fresh THEN [st EXCEPT !.scan = @ + 2] ELSE st
    IN IF "single" \in flags \/ (fresh /\ Len(buf) - st.scan < 2) THEN [st EXCEPT !.at = "failed"]
       ELSE IF ptr >= st.head \/ st.last = 0 \/ ptr >= st.last
               \/ ~DNSNameOffsetsContainsOffset(st.offsets, ptr)
         THEN [scanned EXCEPT !.at = "failed"]
         ELSE [scanned EXCEPT !.head = ptr]

\* A label is checked when it is scanned, not when a pointer leads back.
ReadLabel(buf, flags, st) ==
    LET len == buf[st.head + 1]
        fresh == st.head >= st.scan
        scan == IF fresh THEN st.scan + len + 1 ELSE st.scan
        inside == st.head + len + 1 <= Len(buf)
    IN IF fresh /\ (len > DNSLabelMax \/ Len(buf) - st.scan < len + 1)
         THEN [st EXCEPT !.at = "failed"]
       ELSE IF len = 0
         THEN [st EXCEPT !.scan = scan, !.last = scan, !.head = scan, !.labels = <<>>,
                         !.list = Append(@, AsString(st.labels, flags)),
                         !.at = IF "single" \in flags THEN "stopped" ELSE "reading"]
       ELSE [st EXCEPT !.scan = scan, !.head = @ + len + 1, !.offsets = @ \cup {st.head},
                       !.labels = IF inside THEN Append(@, SubSeq(buf, st.head + 2, st.head + 1 + len))
                                  ELSE @,
                       !.at = IF inside THEN "reading" ELSE "outside"]

Turn(buf, flags, st) ==
    IF st.at # "reading" THEN st
    ELSE IF st.head >= Len(buf) THEN [st EXCEPT !.at = "stopped"]
    ELSE IF buf[st.head + 1] >= 192
      THEN IF st.head + 2 > Len(buf) /\ st.head < st.scan THEN [st EXCEPT !.at = "outside"]
           ELSE FollowPointer(buf, flags, st)
    ELSE ReadLabel(buf, flags, st)

Decoded(buf, flags) ==
    FoldLeft(LAMBDA st, i : Turn(buf, flags, st),
             [head |-> 0, scan |-> 0, last |-> 0, offsets |-> {}, labels |-> <<>>, list |-> <<>>,
              at |-> "reading"],
             [i \in 1 .. MaxDNSSteps |-> i])

\* The names, none if anything is wrong.  A last name that is not complete
\* is dropped, except when it is the single name asked for.
DNSNameListCreateWithDNSBuf(buf, flags) ==
    LET d == Decoded(buf, flags)
    IN IF d.at # "stopped" THEN <<>>
       ELSE IF d.list = <<>> /\ d.labels # <<>> /\ "single" \in flags
         THEN <<AsString(d.labels, {})>>
         ELSE d.list

DNSNameListCreateCommon(buf) == DNSNameListCreateWithDNSBuf(buf, {})
DNSNameListCreateArray(buf) == DNSNameListCreateCommon(buf)
DNSNameStringCreate(buf, preserve) ==
    DNSNameListCreateWithDNSBuf(buf, {"single"} \cup (IF preserve THEN {"preserve"} ELSE {}))

-----------------------------------------------------------------------------

DNSInit ==
    /\ \E size \in DNSBufSize, compact \in BOOLEAN : nb = DNSNamesBufInit(size, compact)
    /\ encoded = <<>> /\ received = <<>>

\* DNSNameListBufferCreateCommon adds one name after the other.
DNSNameListBufferCreateCommon(n) ==
    LET r == DNSNamesBufAddName(nb, n, {})
    IN /\ received = <<>> /\ Len(encoded) < MaxDNSNames
       /\ r.ok
       /\ nb' = r.b /\ encoded' = Append(encoded, n)
       /\ UNCHANGED received

\* Any sequence of bytes may arrive.
Arrives(b) ==
    /\ encoded = <<>> /\ Len(received) < MaxDNSBytes
    /\ nb.size = 0 /\ nb.compact
    /\ received' = Append(received, b)
    /\ UNCHANGED <<nb, encoded>>

DNSNext ==
    \/ \E n \in DNSName : DNSNameListBufferCreateCommon(n)
    \/ \E b \in DNSByte : Arrives(b)

-----------------------------------------------------------------------------

\* What a list of names is encoded to is decoded to the same names, each cut
\* at its first empty label: shared endings, pointers to pointers and names
\* that did not fit included.  A single name keeps its end label, or lacks it.
DecodesWhatItEncodes ==
    LET Cut(n) == LET c == DNSNameCreate(n, {}) IN SubSeq(n, 1, Len(c.offsets))
    IN encoded # <<>> =>
       /\ DNSNameListCreateArray(nb.bytes)
            = [i \in DOMAIN encoded |-> AsString(Cut(encoded[i]), {})]
       /\ \A i \in DOMAIN encoded :
            LET n == encoded[i]
                back == DNSNameStringCreate(DNSNameListDataCreateWithCString(n), TRUE)
            IN back # <<>> => back[1] = AsString(Cut(n), IF Cut(n) = n THEN {} ELSE {"preserve"})

\* Whatever arrives, the decoder comes to an end and reads no byte beyond
\* the buffer: a label is measured only when it is scanned, so pointers must
\* lead to labels that were.
DecoderStaysInside ==
    received # <<>> => \A flags \in {{}, {"single"}} : Decoded(received, flags).at \in {"stopped", "failed"}

\* Names survive the encoder and decoder, and nothing makes the decoder stray.
NamesSurvive == DecodesWhatItEncodes /\ DecoderStaysInside
=============================================================================
