------------------------------ MODULE MsgPacket ------------------------------
(***************************************************************************)
(* The packet object: typed data put and got, the header and when it is    *)
(* computed, compression, copies, and the way through an undisturbed       *)
(* stream into another packet object.  PacketStream is about a disturbed   *)
(* stream.                                                                 *)
(*                                                                         *)
(* A payload is a sequence of bytes 0 .. Base - 1; zlib makes one byte of  *)
(* it, or fails.  A checksum is what it was computed from.                 *)
(***************************************************************************)
EXTENDS Integers, Sequences, SequencesExt

CONSTANTS
  Packets,      \* packet objects
  Base,         \* values of a byte
  Scripts,      \* sequences of [kind, value] records; packets are filled
                \* with the items of one of them, in its order
  Fields        \* values of UID, message id, type, client id and version

\* values of a 16 bit number
Word == Base * Base

Kinds == {"U8", "U16", "S16", "String"}

Width(kind) == CASE kind = "U8" -> 1 [] kind \in {"U16", "S16"} -> 2

Values(kind) ==
  CASE kind = "U8" -> 0 .. Base - 1
    [] kind = "U16" -> 0 .. Word - 1
    [] kind = "S16" -> -(Word \div 2) .. (Word \div 2) - 1
    [] kind = "String" -> Seq(1 .. Base - 1)

ASSUME PacketAssumption ==
  /\ Base \in Nat /\ Base > 1 /\ Base % 2 = 0
  /\ \A s \in Scripts :
       /\ s \in Seq(Range(s))
       /\ \A item \in Range(s) :
            item.kind \in Kinds /\ item.value \in Values(item.kind)

VARIABLES
  payload,   \* what is between HeaderLength and m_usage: the compressed bytes
             \* z, if there are any, and bytes as they were put
  freezed,   \* m_freezed
  checksum,  \* m_payloadchecksum
  head,      \* the header
  \* history
  script,    \* what packets are filled with
  content,   \* the items that were put into the packet
  stale,     \* the header was not computed from what is in the packet
  spoilt     \* put into while compressed, or read from a packet with a
             \* stale header

dataVars == <<payload, content, spoilt>>
vars == <<script, dataVars, freezed, checksum, head, stale>>

-------------------------------------------------------------------------------
(***************************************************************************)
(* Numbers are stored in network byte order, strings end with a zero byte. *)
(***************************************************************************)
Encode(item) ==
  LET n == IF item.kind = "S16" THEN item.value % Word ELSE item.value IN
  CASE item.kind = "U8" -> <<n>>
    [] item.kind \in {"U16", "S16"} -> <<n \div Base, n % Base>>
    [] item.kind = "String" -> Append(item.value, 0)

EncodeAll(items) == FlattenSeq([i \in DOMAIN items |-> Encode(items[i])])

\* strnlen() of the rest of the payload
StringEnd(bytes, at) ==
  LET zeros == {k \in at + 1 .. Len(bytes) : bytes[k] = 0} IN
  IF zeros = {} THEN Len(bytes) ELSE Min(zeros) - 1

\* mutant: the string's zero byte is not skipped
MutGetEnd(bytes, at, kind) ==
  CASE kind = "String" -> IF at >= Len(bytes) THEN at ELSE StringEnd(bytes, at)
    [] OTHER -> IF at + Width(kind) > Len(bytes) THEN at ELSE at + Width(kind)

\* where a get leaves the read position: behind the last byte and a zero
\* byte that is not there, if a string is not terminated
GetEnd(bytes, at, kind) ==
  CASE kind = "String" -> IF at >= Len(bytes) THEN at ELSE StringEnd(bytes, at) + 1
    [] OTHER -> IF at + Width(kind) > Len(bytes) THEN at ELSE at + Width(kind)

\* what a get returns
GetValue(bytes, at, kind) ==
  LET end == GetEnd(bytes, at, kind)
      n == bytes[at + 1] * Base + bytes[at + 2] IN
  CASE kind = "String" ->
         IF at >= Len(bytes) \/ end > Len(bytes) THEN <<>>
         ELSE SubSeq(bytes, at + 1, end - 1)
    [] kind # "String" /\ end = at -> 0
    [] kind = "U8" /\ end # at -> bytes[at + 1]
    [] kind = "U16" /\ end # at -> n
    [] kind = "S16" /\ end # at ->
         IF n >= Word \div 2 THEN n - Word ELSE n

-------------------------------------------------------------------------------
None == [z |-> <<>>, bytes |-> <<>>]

Length(p) == Len(p.bytes) + (IF p.z = <<>> THEN 0 ELSE 1)

isCompressed(h) == h.zlen # 0

\* the header freeze() computes for the payload p
Computed(h, p, sum) ==
  LET psum == IF sum THEN p ELSE None IN
  [fields |-> h.fields, zlen |-> h.zlen, psum |-> psum, len |-> Length(p),
   sum |-> <<h.fields, h.zlen, psum, Length(p)>>]

\* read() accepts what comes with the header h
HeaderValid(h) == h.sum = <<h.fields, h.zlen, h.psum, h.len>>
PayloadValid(h, p) == h.psum \in {None, p}

put(x) ==
  LET item == script[Len(content[x]) + 1] IN
  /\ Len(content[x]) < Len(script)
  /\ payload' = [payload EXCEPT ![x].bytes = @ \o Encode(item)]
  /\ content' = [content EXCEPT ![x] = Append(@, item)]
  /\ spoilt' = [spoilt EXCEPT ![x] = @ \/ payload[x].z # <<>>]
  /\ stale' = [stale EXCEPT ![x] = TRUE]
  /\ UNCHANGED <<freezed, checksum, head>>

\* setMsgID(), setType(), setClientID(), setProtocolVersion()
setField(x, f) ==
  /\ head' = [head EXCEPT ![x].fields = f]
  /\ stale' = [stale EXCEPT ![x] = TRUE]
  /\ UNCHANGED <<dataVars, freezed, checksum>>

disablePayloadCheckSum(x) ==
  /\ checksum' = [checksum EXCEPT ![x] = FALSE]
  /\ UNCHANGED <<dataVars, freezed, head, stale>>

\* clear(): the header keeps its lengths, and freezed its value
Emptied(x) ==
  /\ payload' = [payload EXCEPT ![x] = None]
  /\ content' = [content EXCEPT ![x] = <<>>]
  /\ spoilt' = [spoilt EXCEPT ![x] = FALSE]
  /\ stale' = [stale EXCEPT ![x] = TRUE]
  /\ UNCHANGED checksum

clear(x) == Emptied(x) /\ UNCHANGED <<freezed, head>>

createUid(x, f) ==
  /\ Emptied(x)
  /\ head' = [head EXCEPT ![x].fields = f]
  /\ freezed' = [freezed EXCEPT ![x] = FALSE]

\* mutant: the uncompressed length is set after the checksum was computed
MutReplaced(x, p, zlen) ==
  /\ payload' = [payload EXCEPT ![x] = p]
  /\ head' = [head EXCEPT ![x] = [Computed(@, p, checksum[x]) EXCEPT !.zlen = zlen]]
  /\ freezed' = [freezed EXCEPT ![x] = TRUE]
  /\ stale' = [stale EXCEPT ![x] = FALSE]
  /\ UNCHANGED <<checksum, content, spoilt>>

\* the payload is replaced, and the header computed anew
Replaced(x, p, zlen) ==
  /\ payload' = [payload EXCEPT ![x] = p]
  /\ head' = [head EXCEPT ![x] = Computed([@ EXCEPT !.zlen = zlen], p, checksum[x])]
  /\ freezed' = [freezed EXCEPT ![x] = TRUE]
  /\ stale' = [stale EXCEPT ![x] = FALSE]
  /\ UNCHANGED <<checksum, content, spoilt>>

\* fails on a packet that is frozen, and when zlib finds no shorter form
compress(x) ==
  /\ ~freezed[x]
  /\ payload[x].z = <<>>
  /\ Length(payload[x]) > 1
  /\ Replaced(x, [z |-> payload[x].bytes, bytes |-> <<>>], Length(payload[x]))

\* mutant: whatever the header says is uncompressed
Mutuncompress(x) ==
  /\ isCompressed(head[x])
  /\ Replaced(x, [z |-> <<>>, bytes |-> payload[x].z], 0)

\* callers need not know whether a packet is compressed: zlib refuses a
\* payload that is not; what follows the compressed bytes is dropped
uncompress(x) ==
  /\ isCompressed(head[x])
  /\ payload[x].z # <<>>
  /\ Len(payload[x].z) <= head[x].zlen
  /\ Replaced(x, [z |-> <<>>, bytes |-> payload[x].z], 0)

-------------------------------------------------------------------------------
\* freeze() of x in write()
Written(x) ==
  IF freezed[x] THEN head[x] ELSE Computed(head[x], payload[x], checksum[x])

\* as much of the payload p as the header says
Prefix(p, len) ==
  [z |-> IF len = 0 THEN <<>> ELSE p.z,
   bytes |-> SubSeq(p.bytes, 1, len - Length(p) + Len(p.bytes))]

(***************************************************************************)
(* x is written and read at the other end into a new packet, which takes   *)
(* the place of y.  Without a valid header, or if the payload does not     *)
(* come or has another checksum, there is no new packet.                   *)
(***************************************************************************)
transfer(x, y) ==
  LET h == Written(x)
      p == Prefix(payload[x], h.len)
      ok == HeaderValid(h) /\ h.len <= Length(payload[x]) /\ PayloadValid(h, p) IN
  /\ x # y
  /\ freezed' = [freezed EXCEPT ![x] = TRUE, ![y] = IF ok THEN FALSE ELSE @]
  /\ head' = [head EXCEPT ![x] = h, ![y] = IF ok THEN h ELSE @]
  /\ stale' = [stale EXCEPT ![x] = freezed[x] /\ @,
                            ![y] = IF ok THEN freezed[x] /\ stale[x] ELSE @]
  /\ IF ok
     THEN /\ payload' = [payload EXCEPT ![y] = p]
          /\ checksum' = [checksum EXCEPT ![y] = Length(p) = 0 \/ h.psum # None]
          /\ content' = [content EXCEPT ![y] = content[x]]
          /\ spoilt' = [spoilt EXCEPT ![y] = spoilt[x] \/ (freezed[x] /\ stale[x])]
     ELSE UNCHANGED <<dataVars, checksum>>

\* copies header and payload of x into y, which stays frozen or not
copy(x, y) ==
  /\ x # y
  /\ payload' = [payload EXCEPT ![y] = payload[x]]
  /\ head' = [head EXCEPT ![y] = head[x]]
  /\ content' = [content EXCEPT ![y] = content[x]]
  /\ stale' = [stale EXCEPT ![y] = stale[x]]
  /\ spoilt' = [spoilt EXCEPT ![y] = spoilt[x]]
  /\ UNCHANGED <<freezed, checksum>>

-------------------------------------------------------------------------------
Init ==
  /\ script \in Scripts
  /\ payload = [x \in Packets |-> None]
  /\ freezed = [x \in Packets |-> FALSE]
  /\ checksum = [x \in Packets |-> TRUE]
  /\ \E f \in Fields :
       head = [x \in Packets |->
                 [fields |-> f, zlen |-> 0, psum |-> None, len |-> 0, sum |-> <<>>]]
  /\ content = [x \in Packets |-> <<>>]
  /\ stale = [x \in Packets |-> TRUE]
  /\ spoilt = [x \in Packets |-> FALSE]

Next ==
  /\ UNCHANGED script
  /\ \E x \in Packets :
       \/ \E f \in Fields : setField(x, f) \/ createUid(x, f)
       \/ put(x) \/ disablePayloadCheckSum(x) \/ clear(x)
       \/ compress(x) \/ uncompress(x)
       \/ \E y \in Packets : transfer(x, y) \/ copy(x, y)

Spec == Init /\ [][Next]_vars

-------------------------------------------------------------------------------
(***************************************************************************)
(* A packet holds what was put into it, whatever way it came: compressed,  *)
(* uncompressed, written and read, copied, used again.  The header says    *)
(* that it is compressed if it is; the converse fails for a compressed     *)
(* packet that was emptied.                                                *)
(***************************************************************************)
ContentKept ==
  \A x \in Packets : ~spoilt[x] =>
    LET p == payload[x] IN
    \/ p = [z |-> <<>>, bytes |-> EncodeAll(content[x])]
    \/ /\ p = [z |-> EncodeAll(content[x]), bytes |-> <<>>]
       /\ head[x].zlen = Len(p.z)

\* The items of a packet are read back in their order, each by a get of its
\* kind, and then the packet is at its end, inside the allocated memory.
ReadBack ==
  \A x \in Packets : ~spoilt[x] /\ payload[x].z = <<>> =>
    LET Offset(i) == Len(EncodeAll(SubSeq(content[x], 1, i))) IN
    /\ Offset(Len(content[x])) = Length(payload[x])
    /\ \A i \in 1 .. Len(content[x]) :
         LET item == content[x][i] IN
         /\ GetValue(payload[x].bytes, Offset(i - 1), item.kind) = item.value
         /\ GetEnd(payload[x].bytes, Offset(i - 1), item.kind) = Offset(i)

(***************************************************************************)
(* What write() sends is accepted by read(), as long as nothing was        *)
(* changed in the packet after its header was computed by write(),         *)
(* compress() or uncompress(); only createUid() allows new changes.        *)
(***************************************************************************)
WrittenIsAccepted ==
  \A x \in Packets : freezed[x] => stale[x] \/
    /\ HeaderValid(head[x])
    /\ head[x].len = Length(payload[x])
    /\ PayloadValid(head[x], payload[x])

===============================================================================
