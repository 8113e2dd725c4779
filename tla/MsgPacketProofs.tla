---------------------------- MODULE MsgPacketProofs ----------------------------
(***************************************************************************)
(* Proofs about MsgPacket, for every width of a byte and every sequence of *)
(* values that is put into packets: a packet keeps its content, the gets   *)
(* read back what was put, and what write() sends read() accepts.          *)
(***************************************************************************)
EXTENDS MsgPacket, TLAPS, WellFoundedInduction

(***************************************************************************)
(* The inductive invariant                                                 *)
(***************************************************************************)

Payloads == [z : Seq(Nat), bytes : Seq(Nat)]

\* nothing yet, or what a header checksum is computed from
Sums == {<<>>} \cup (Fields \X Nat \X Payloads \X Nat)

Heads == [fields : Fields, zlen : Nat, psum : Payloads, len : Nat, sum : Sums]

TypeInv ==
  /\ script \in Scripts
  /\ payload \in [Packets -> Payloads]
  /\ freezed \in [Packets -> BOOLEAN]
  /\ checksum \in [Packets -> BOOLEAN]
  /\ head \in [Packets -> Heads]
  /\ content \in [Packets -> Seq(Range(script))]
  /\ stale \in [Packets -> BOOLEAN]
  /\ spoilt \in [Packets -> BOOLEAN]

\* The header h is right for the payload p.
Fits(h, p) == HeaderValid(h) /\ h.len = Length(p) /\ PayloadValid(h, p)

\* A header that is up to date is right, in frozen packets and in others: copy()
\* takes it along into a packet that is frozen.
FreshFits == \A x \in Packets : stale[x] \/ Fits(head[x], payload[x])

PacketInv ==
  /\ TypeInv
  /\ FreshFits
  /\ ContentKept

-------------------------------------------------------------------------------
(***************************************************************************)
(* FlattenSeq                                                              *)
(***************************************************************************)

\* Induction over the natural numbers, for a set.
LEMMA SetInduction ==
  ASSUME NEW S, 0 \in S, \A n \in Nat : n \in S => n + 1 \in S
  PROVE  Nat \subseteq S
  <1> SUFFICES ASSUME Nat \ S # {} PROVE FALSE
    OBVIOUS
  <1>1. PICK m \in Nat \ S : \A k \in Nat \ S : ~(<<k, m>> \in OpToRel(<, Nat))
    BY NatLessThanWellFounded, WFMin
  <1>2. m # 0 /\ m - 1 \in Nat /\ m - 1 < m
    OBVIOUS
  <1>3. m - 1 \in S
    BY <1>1, <1>2 DEF OpToRel
  <1>4. (m - 1) + 1 \in S
    BY <1>2, <1>3
  <1> QED
    BY <1>2, <1>4

\* The recursive function in FlattenSeq
Flat(s) ==
  CHOOSE f : f = [i \in 1 .. Len(s) |-> IF i = 1 THEN s[i] ELSE f[i - 1] \o s[i]]

LEMMA FlattenIsFlat ==
  ASSUME NEW s
  PROVE  FlattenSeq(s) = IF Len(s) = 0 THEN s ELSE Flat(s)[Len(s)]
  BY Zenon DEF FlattenSeq, Flat

\* There is a function as FlattenSeq defines it.
LEMMA FlatExists ==
  ASSUME NEW s, Len(s) \in Nat
  PROVE  /\ DOMAIN Flat(s) = 1 .. Len(s)
         /\ \A i \in 1 .. Len(s) :
              Flat(s)[i] = IF i = 1 THEN s[i] ELSE Flat(s)[i - 1] \o s[i]
  <1> DEFINE Is(f, n) ==
        f = [i \in 1 .. n |-> IF i = 1 THEN s[i] ELSE f[i - 1] \o s[i]]
  <1> DEFINE S == {n \in Nat : \E f : Is(f, n)}
  <1>1. 0 \in S
    <2> DEFINE e == [i \in 1 .. 0 |-> i]
    <2>1. Is(e, 0)
      OBVIOUS
    <2> QED
      BY <2>1
  <1>2. ASSUME NEW n \in Nat, n \in S PROVE n + 1 \in S
    <2>1. PICK f : Is(f, n)
      BY <1>2
    <2> DEFINE g == [i \in 1 .. n + 1 |->
                       IF i = 1 THEN s[i] ELSE f[i - 1] \o s[i]]
    <2>2. \A i \in 1 .. n : f[i] = IF i = 1 THEN s[i] ELSE f[i - 1] \o s[i]
      BY <2>1, Zenon
    <2>3. \A i \in 1 .. n : i \in 1 .. n + 1
      OBVIOUS
    <2>4. \A i \in 1 .. n : g[i] = f[i]
      BY <2>2, <2>3, Zenon
    <2>5. \A i \in 1 .. n + 1 : i = 1 \/ i - 1 \in 1 .. n
      OBVIOUS
    <2>6. \A i \in 1 .. n + 1 :
            (IF i = 1 THEN s[i] ELSE f[i - 1] \o s[i])
              = IF i = 1 THEN s[i] ELSE g[i - 1] \o s[i]
      BY <2>4, <2>5, Zenon
    <2>7. Is(g, n + 1)
      BY <2>6, Zenon
    <2>8. n + 1 \in Nat
      OBVIOUS
    <2> QED
      BY <2>7, <2>8, Zenon
  <1> HIDE DEF S
  <1>3. Len(s) \in S
    BY <1>1, <1>2, SetInduction
  <1>4. \E f : Is(f, Len(s))
    BY <1>3 DEF S
  <1>5. Is(Flat(s), Len(s))
    BY <1>4 DEF Flat
  <1> QED
    BY <1>5

\* What FlattenSeq makes of sequences over B is one.
LEMMA FlatTyped ==
  ASSUME NEW B, NEW s \in Seq(Seq(B))
  PROVE  \A i \in 1 .. Len(s) : Flat(s)[i] \in Seq(B)
  <1> DEFINE S == {n \in Nat : n \in 1 .. Len(s) => Flat(s)[n] \in Seq(B)}
  <1>1. 0 \in S
    OBVIOUS
  <1>2. ASSUME NEW n \in Nat, n \in S PROVE n + 1 \in S
    <2> SUFFICES ASSUME n + 1 \in 1 .. Len(s) PROVE Flat(s)[n + 1] \in Seq(B)
      OBVIOUS
    <2>1. s[n + 1] \in Seq(B)
      OBVIOUS
    <2>2. Flat(s)[n + 1] = IF n + 1 = 1 THEN s[n + 1] ELSE Flat(s)[n] \o s[n + 1]
      BY FlatExists
    <2>3. CASE n = 0
      BY <2>1, <2>2, <2>3
    <2>4. CASE n # 0
      <3>1. Flat(s)[n] \in Seq(B)
        BY <1>2, <2>4
      <3> QED
        BY <2>1, <2>2, <2>4, <3>1
    <2> QED
      BY <2>3, <2>4
  <1> HIDE DEF S
  <1>3. Nat \subseteq S
    BY <1>1, <1>2, SetInduction
  <1> QED
    BY <1>3 DEF S

LEMMA FlattenTyped ==
  ASSUME NEW B, NEW s \in Seq(Seq(B))
  PROVE  FlattenSeq(s) \in Seq(B)
  <1>1. CASE Len(s) = 0
    <2>1. s = <<>>
      BY <1>1
    <2>2. FlattenSeq(s) = s
      BY <1>1, FlattenIsFlat
    <2>3. <<>> \in Seq(B)
      OBVIOUS
    <2> QED
      BY <2>1, <2>2, <2>3, Zenon
  <1>2. CASE Len(s) # 0
    <2>1. Len(s) \in 1 .. Len(s)
      BY <1>2
    <2> QED
      BY <1>2, <2>1, FlattenIsFlat, FlatTyped
  <1> QED
    BY <1>1, <1>2

\* One more sequence is appended to the result.
LEMMA FlattenAppend ==
  ASSUME NEW B, NEW s \in Seq(Seq(B)), NEW e \in Seq(B)
  PROVE  FlattenSeq(Append(s, e)) = FlattenSeq(s) \o e
  <1> DEFINE t == Append(s, e)
  <1>1. /\ t \in Seq(Seq(B)) /\ Len(t) = Len(s) + 1 /\ t[Len(s) + 1] = e
        /\ \A i \in 1 .. Len(s) : t[i] = s[i]
    OBVIOUS
  <1> HIDE DEF t
  <1> DEFINE S == {n \in Nat : n \in 1 .. Len(s) => Flat(t)[n] = Flat(s)[n]}
  <1>2. 0 \in S
    OBVIOUS
  <1>3. ASSUME NEW n \in Nat, n \in S PROVE n + 1 \in S
    <2> SUFFICES ASSUME n + 1 \in 1 .. Len(s)
                 PROVE  Flat(t)[n + 1] = Flat(s)[n + 1]
      OBVIOUS
    <2>1. Flat(s)[n + 1] = IF n + 1 = 1 THEN s[n + 1] ELSE Flat(s)[n] \o s[n + 1]
      BY FlatExists
    <2>2. Flat(t)[n + 1] = IF n + 1 = 1 THEN t[n + 1] ELSE Flat(t)[n] \o t[n + 1]
      <3>1. n + 1 \in 1 .. Len(t) /\ Len(t) \in Nat /\ n + 1 - 1 = n
        BY <1>1
      <3> QED
        BY <3>1, FlatExists
    <2>3. n # 0 => Flat(t)[n] = Flat(s)[n]
      BY <1>3
    <2> QED
      BY <1>1, <2>1, <2>2, <2>3
  <1> HIDE DEF S
  <1>4. Nat \subseteq S
    BY <1>2, <1>3, SetInduction
  <1>5. FlattenSeq(t) = Flat(t)[Len(s) + 1]
    BY <1>1, FlattenIsFlat
  <1>6. Flat(t)[Len(s) + 1] = IF Len(s) + 1 = 1 THEN e ELSE Flat(t)[Len(s)] \o e
    BY <1>1, FlatExists
  <1>7. CASE Len(s) = 0
    <2>1. FlattenSeq(s) = <<>>
      BY <1>7, FlattenIsFlat
    <2>2. <<>> \o e = e
      OBVIOUS
    <2> QED
      BY <1>5, <1>6, <1>7, <2>1, <2>2 DEF t
  <1>8. CASE Len(s) # 0
    <2>1. Flat(t)[Len(s)] = Flat(s)[Len(s)]
      BY <1>4, <1>8 DEF S
    <2>2. FlattenSeq(s) = Flat(s)[Len(s)]
      BY <1>8, FlattenIsFlat
    <2> QED
      BY <1>5, <1>6, <1>8, <2>1, <2>2 DEF t
  <1> QED
    BY <1>7, <1>8

-------------------------------------------------------------------------------
(***************************************************************************)
(* The operators of the model                                              *)
(***************************************************************************)

\* A 16 bit number has two bytes, and half of its values are negative.
LEMMA WordFacts ==
  /\ Base \in Nat /\ Base > 1
  /\ Word \in Nat /\ Word > 0
  /\ Word \div 2 \in Nat /\ 2 * (Word \div 2) = Word
  <1>1. Base \in Nat /\ Base > 1 /\ Base % 2 = 0
    BY PacketAssumption
  <1>2. PICK k \in Nat : Base = 2 * k
    <2>1. Base = 2 * (Base \div 2) /\ Base \div 2 \in Nat
      BY <1>1
    <2> QED
      BY <2>1
  <1>3. k > 0 /\ k * k \in Nat /\ k * k > 0
    BY <1>1, <1>2
  <1>4. Word = 2 * (2 * (k * k))
    BY <1>2 DEF Word
  <1>5. \A m \in Nat : (2 * m) \div 2 = m
    OBVIOUS
  <1> QED
    BY <1>1, <1>3, <1>4, <1>5

\* An item that can be put
Item(item) == item.kind \in Kinds /\ item.value \in Values(item.kind)

\* The number that is stored for a number
Stored(item) == IF item.kind = "S16" THEN item.value % Word ELSE item.value

LEMMA StoredNumber ==
  ASSUME NEW item, Item(item), item.kind # "String"
  PROVE  Stored(item) \in Nat
  BY WordFacts DEF Item, Kinds, Values, Stored

\* Encode by kind
LEMMA EncodeCases ==
  ASSUME NEW item, Item(item)
  PROVE  /\ item.kind = "U8" => Encode(item) = <<Stored(item)>>
         /\ item.kind \in {"U16", "S16"} =>
              Encode(item) = <<Stored(item) \div Base, Stored(item) % Base>>
         /\ item.kind = "String" => Encode(item) = Append(item.value, 0)
  BY DEF Encode, Stored, Item, Kinds

LEMMA EncodeTyped ==
  ASSUME NEW item, Item(item)
  PROVE  Encode(item) \in Seq(Nat)
  <1>1. CASE item.kind = "String"
    <2>1. item.value \in Seq(Nat)
      BY <1>1, WordFacts DEF Item, Values
    <2> QED
      BY <1>1, <2>1, EncodeCases, SMTT(20)
  <1>2. CASE item.kind # "String"
    <2>1. Stored(item) \in Nat
      BY <1>2, StoredNumber
    <2>2. Stored(item) \div Base \in Nat /\ Stored(item) % Base \in Nat
      BY <2>1, WordFacts
    <2>3. /\ <<Stored(item)>> \in Seq(Nat)
          /\ <<Stored(item) \div Base, Stored(item) % Base>> \in Seq(Nat)
      BY <2>1, <2>2
    <2>4. item.kind = "U8" \/ item.kind \in {"U16", "S16"}
      BY <1>2 DEF Item, Kinds
    <2> QED
      BY <2>3, <2>4, EncodeCases
  <1> QED
    BY <1>1, <1>2

\* The items of a script can be put.
LEMMA ScriptItems ==
  ASSUME TypeInv
  PROVE  \A item \in Range(script) : Item(item)
  BY PacketAssumption DEF TypeInv, Item

\* No bytes for no items, and those of one more item behind the others
LEMMA EncodeAllEmpty == EncodeAll(<<>>) = <<>>
  BY FlattenIsFlat DEF EncodeAll

LEMMA EncodeAllAppend ==
  ASSUME NEW I, \A item \in I : Item(item), NEW s \in Seq(I), NEW e \in I
  PROVE  /\ EncodeAll(s) \in Seq(Nat)
         /\ EncodeAll(Append(s, e)) = EncodeAll(s) \o Encode(e)
  <1> DEFINE t == [i \in DOMAIN s |-> Encode(s[i])]
             u == [i \in DOMAIN Append(s, e) |-> Encode(Append(s, e)[i])]
  <1>1. \A item \in I : Encode(item) \in Seq(Nat)
    BY EncodeTyped
  <1>2. t \in Seq(Seq(Nat))
    <2>1. DOMAIN s = 1 .. Len(s) /\ Len(s) \in Nat
      OBVIOUS
    <2>2. \A i \in 1 .. Len(s) : Encode(s[i]) \in Seq(Nat)
      BY <1>1
    <2> QED
      BY <2>1, <2>2
  <1>3. u = Append(t, Encode(e))
    OBVIOUS
  <1> QED
    BY <1>1, <1>2, <1>3, FlattenTyped, FlattenAppend DEF EncodeAll

\* Lengths and prefixes of payloads
LEMMA PayloadLength ==
  ASSUME NEW p \in Payloads
  PROVE  /\ Length(p) \in Nat
         /\ Length(p) = 0 => p = None
         /\ None \in Payloads
  BY DEF Payloads, Length, None

LEMMA PrefixOfPayload ==
  ASSUME NEW p \in Payloads
  PROVE  /\ Prefix(p, Length(p)) = p
         /\ \A len \in Nat : len <= Length(p) => Prefix(p, len) \in Payloads
  <1>1. Prefix(p, Length(p)) = p
    BY DEF Prefix, Payloads, Length
  <1>2. ASSUME NEW len \in Nat, len <= Length(p) PROVE Prefix(p, len) \in Payloads
    BY <1>2 DEF Prefix, Payloads, Length
  <1> QED
    BY <1>1, <1>2

\* The header that freeze() computes fits.
LEMMA ComputedFits ==
  ASSUME NEW h \in Heads, NEW p \in Payloads, NEW sum \in BOOLEAN
  PROVE  /\ Computed(h, p, sum) \in Heads
         /\ Fits(Computed(h, p, sum), p)
         /\ Computed(h, p, sum).zlen = h.zlen
  <1>1. Length(p) \in Nat /\ None \in Payloads
    BY PayloadLength
  <1> QED
    BY <1>1 DEF Computed, Heads, Sums, Fits, HeaderValid, PayloadValid

-------------------------------------------------------------------------------
(***************************************************************************)
(* The invariant is inductive                                              *)
(***************************************************************************)

\* The payload p holds the items, plain or compressed as the header h says.
Holds(p, h, items) ==
  \/ p = [z |-> <<>>, bytes |-> EncodeAll(items)]
  \/ p = [z |-> EncodeAll(items), bytes |-> <<>>] /\ h.zlen = Len(p.z)

LEMMA KeptIsHeld ==
  ContentKept <=>
    \A x \in Packets : spoilt[x] \/ Holds(payload[x], head[x], content[x])
  BY DEF ContentKept, Holds

\* A packet the step leaves alone, and one that is in order after it
Same(x) == /\ payload'[x] = payload[x]
           /\ head'[x] = head[x]
           /\ content'[x] = content[x]
           /\ stale'[x] = stale[x]
           /\ spoilt'[x] = spoilt[x]

InOrder(x) == /\ stale'[x] \/ Fits(head'[x], payload'[x])
              /\ spoilt'[x] \/ Holds(payload'[x], head'[x], content'[x])

LEMMA Steps ==
  ASSUME PacketInv, TypeInv', \A x \in Packets : Same(x) \/ InOrder(x)
  PROVE  PacketInv'
  <1>1. \A x \in Packets : spoilt[x] \/ Holds(payload[x], head[x], content[x])
    BY KeptIsHeld DEF PacketInv
  <1>2. \A x \in Packets : spoilt'[x] \/ Holds(payload'[x], head'[x], content'[x])
    BY <1>1 DEF Same, InOrder
  <1>3. ContentKept'
    BY <1>2 DEF ContentKept, Holds
  <1>4. FreshFits'
    BY DEF PacketInv, FreshFits, Same, InOrder
  <1> QED
    BY <1>3, <1>4 DEF PacketInv

\* What is in a packet that is not compressed
LEMMA PlainContent ==
  ASSUME PacketInv, NEW x \in Packets, ~spoilt[x], payload[x].z = <<>>
  PROVE  payload[x].bytes = EncodeAll(content[x])
  <1>1. Holds(payload[x], head[x], content[x])
    BY KeptIsHeld DEF PacketInv
  <1>2. payload[x] = [z |-> EncodeAll(content[x]), bytes |-> <<>>]
          => payload[x].z = EncodeAll(content[x]) /\ payload[x].bytes = <<>>
    OBVIOUS
  <1>3. payload[x] = [z |-> <<>>, bytes |-> EncodeAll(content[x])]
          => payload[x].bytes = EncodeAll(content[x])
    OBVIOUS
  <1> QED
    BY <1>1, <1>2, <1>3 DEF Holds

\* put() appends the bytes of the item it appends.
LEMMA PutStep ==
  ASSUME PacketInv, UNCHANGED script, NEW x \in Packets, put(x)
  PROVE  PacketInv'
  <1> DEFINE item == script[Len(content[x]) + 1]
  <1>1. TypeInv
    BY DEF PacketInv
  <1>2. content[x] \in Seq(Range(script)) /\ Len(content[x]) < Len(script)
    BY <1>1 DEF TypeInv, put
  <1>3. item \in Range(script)
    <2>1. script \in Seq(Range(script))
      BY <1>1, PacketAssumption DEF TypeInv
    <2>2. Len(content[x]) + 1 \in DOMAIN script
      BY <1>2, <2>1
    <2> QED
      BY <2>2 DEF Range
  <1>4. Item(item)
    BY <1>1, <1>3, ScriptItems
  <1>5. payload[x] \in Payloads /\ Encode(item) \in Seq(Nat)
    BY <1>1, <1>4, EncodeTyped DEF TypeInv
  <1> HIDE DEF item
  <1>6. /\ payload' = [payload EXCEPT ![x].bytes = @ \o Encode(item)]
        /\ content' = [content EXCEPT ![x] = Append(@, item)]
        /\ spoilt' = [spoilt EXCEPT ![x] = @ \/ payload[x].z # <<>>]
        /\ stale' = [stale EXCEPT ![x] = TRUE]
        /\ UNCHANGED <<freezed, checksum, head>>
    BY DEF put, item
  <1>7. payload'[x] = [z |-> payload[x].z, bytes |-> payload[x].bytes \o Encode(item)]
    BY <1>1, <1>5, <1>6 DEF TypeInv, Payloads
  <1>8. payload' \in [Packets -> Payloads]
    <2>1. payload'[x] \in Payloads
      BY <1>5, <1>7 DEF Payloads
    <2>2. payload' = [payload EXCEPT ![x] = payload'[x]]
      BY <1>1, <1>6 DEF TypeInv
    <2> QED
      BY <1>1, <2>1, <2>2 DEF TypeInv
  <1>9. content' \in [Packets -> Seq(Range(script))]
    BY <1>1, <1>2, <1>3, <1>6 DEF TypeInv
  <1>10. spoilt' \in [Packets -> BOOLEAN] /\ stale' \in [Packets -> BOOLEAN]
    BY <1>1, <1>6, Zenon DEF TypeInv
  <1>11. TypeInv'
    BY <1>1, <1>6, <1>8, <1>9, <1>10 DEF TypeInv
  <1>12. stale'[x] /\ content'[x] = Append(content[x], item)
    BY <1>1, <1>6 DEF TypeInv
  <1>13. spoilt'[x] \/ Holds(payload'[x], head'[x], content'[x])
    <2> SUFFICES ASSUME ~spoilt'[x] PROVE Holds(payload'[x], head'[x], content'[x])
      OBVIOUS
    <2>1. ~spoilt[x] /\ payload[x].z = <<>>
      BY <1>1, <1>6, Zenon DEF TypeInv
    <2>2. payload[x].bytes = EncodeAll(content[x])
      BY <2>1, PlainContent
    <2>3. EncodeAll(content'[x]) = EncodeAll(content[x]) \o Encode(item)
      BY <1>1, <1>2, <1>3, <1>12, ScriptItems, EncodeAllAppend
    <2> QED
      BY <1>7, <2>1, <2>2, <2>3 DEF Holds
  <1>14. \A u \in Packets : u # x => Same(u)
    BY <1>1, <1>6 DEF TypeInv, Same
  <1> QED
    BY <1>11, <1>12, <1>13, <1>14, Steps DEF InOrder

\* clear() and createUid() leave nothing in the packet.
LEMMA EmptyStep ==
  ASSUME PacketInv, UNCHANGED script, NEW x \in Packets,
         clear(x) \/ \E f \in Fields : createUid(x, f)
  PROVE  PacketInv'
  <1>1. TypeInv
    BY DEF PacketInv
  <1>2. /\ payload' = [payload EXCEPT ![x] = None]
        /\ content' = [content EXCEPT ![x] = <<>>]
        /\ spoilt' = [spoilt EXCEPT ![x] = FALSE]
        /\ stale' = [stale EXCEPT ![x] = TRUE]
        /\ UNCHANGED checksum
    BY DEF clear, createUid, Emptied
  <1>3. head' \in [Packets -> Heads] /\ \A u \in Packets : u # x => head'[u] = head[u]
    BY <1>1, ZenonT(40) DEF clear, createUid, TypeInv, Heads
  <1>4. freezed' \in [Packets -> BOOLEAN]
    BY <1>1, Zenon DEF clear, createUid, TypeInv
  <1>5. spoilt' \in [Packets -> BOOLEAN] /\ stale' \in [Packets -> BOOLEAN]
    BY <1>1, <1>2, Zenon DEF TypeInv
  <1>6. payload' \in [Packets -> Payloads] /\ content' \in [Packets -> Seq(Range(script))]
    BY <1>1, <1>2 DEF TypeInv, Payloads, None
  <1>7. TypeInv'
    BY <1>1, <1>2, <1>3, <1>4, <1>5, <1>6 DEF TypeInv
  <1>8. stale'[x] /\ payload'[x] = None /\ content'[x] = <<>>
    BY <1>1, <1>2 DEF TypeInv
  <1>9. Holds(payload'[x], head'[x], content'[x])
    BY <1>8, EncodeAllEmpty DEF Holds, None
  <1>10. \A u \in Packets : u # x => Same(u)
    BY <1>1, <1>2, <1>3 DEF TypeInv, Same
  <1> QED
    BY <1>7, <1>8, <1>9, <1>10, Steps DEF InOrder

\* A changed field makes the header stale and nothing else.
LEMMA FieldStep ==
  ASSUME PacketInv, UNCHANGED script, NEW x \in Packets,
         disablePayloadCheckSum(x) \/ \E f \in Fields : setField(x, f)
  PROVE  PacketInv'
  <1>1. TypeInv
    BY DEF PacketInv
  <1>2. UNCHANGED <<payload, content, spoilt, freezed>>
    BY DEF disablePayloadCheckSum, setField, dataVars
  <1>3. CASE disablePayloadCheckSum(x)
    <2>1. UNCHANGED <<head, stale>> /\ checksum' \in [Packets -> BOOLEAN]
      BY <1>1, <1>3, Zenon DEF disablePayloadCheckSum, TypeInv
    <2> QED
      BY <1>1, <1>2, <2>1, Steps DEF TypeInv, Same
  <1>4. ASSUME NEW f \in Fields, setField(x, f) PROVE PacketInv'
    <2>1. /\ UNCHANGED checksum
          /\ stale'[x]
          /\ \A u \in Packets : u # x => stale'[u] = stale[u]
          /\ stale' \in [Packets -> BOOLEAN]
      BY <1>1, <1>4, Zenon DEF setField, TypeInv
    <2>2. /\ head' \in [Packets -> Heads]
          /\ head'[x].zlen = head[x].zlen
          /\ \A u \in Packets : u # x => head'[u] = head[u]
      <3> DEFINE h == [head[x] EXCEPT !.fields = f]
      <3>1. h \in Heads /\ h.zlen = head[x].zlen
        BY <1>1 DEF TypeInv, Heads
      <3>2. head' = [head EXCEPT ![x] = h]
        BY <1>1, <1>4 DEF setField, TypeInv
      <3> QED
        BY <1>1, <3>1, <3>2 DEF TypeInv
    <2>3. TypeInv'
      BY <1>1, <1>2, <2>1, <2>2 DEF TypeInv
    <2>4. spoilt[x] \/ Holds(payload[x], head[x], content[x])
      BY KeptIsHeld DEF PacketInv
    <2>5. spoilt'[x] \/ Holds(payload'[x], head'[x], content'[x])
      BY <1>2, <2>2, <2>4 DEF Holds
    <2> QED
      BY <1>2, <2>1, <2>2, <2>3, <2>5, Steps DEF Same, InOrder
  <1> QED
    BY <1>3, <1>4

\* A new payload gets a new header, which fits.
LEMMA ReplacedStep ==
  ASSUME PacketInv, UNCHANGED script, NEW x \in Packets, NEW p \in Payloads,
         NEW zlen \in Nat, Replaced(x, p, zlen),
         \A h \in Heads : h.zlen = zlen => spoilt[x] \/ Holds(p, h, content[x])
  PROVE  PacketInv'
  <1> DEFINE h == Computed([head[x] EXCEPT !.zlen = zlen], p, checksum[x])
  <1>1. TypeInv
    BY DEF PacketInv
  <1>2. [head[x] EXCEPT !.zlen = zlen] \in Heads
    BY <1>1 DEF TypeInv, Heads
  <1>3. [head[x] EXCEPT !.zlen = zlen].zlen = zlen
    BY <1>1 DEF TypeInv, Heads
  <1>4. checksum[x] \in BOOLEAN
    BY <1>1 DEF TypeInv
  <1>5. h \in Heads /\ Fits(h, p) /\ h.zlen = zlen
    BY <1>2, <1>3, <1>4, ComputedFits
  <1>6. /\ payload' = [payload EXCEPT ![x] = p]
        /\ head' = [head EXCEPT ![x] = h]
        /\ UNCHANGED <<checksum, content, spoilt>>
    BY DEF Replaced
  <1> HIDE DEF h
  <1>7. /\ freezed' \in [Packets -> BOOLEAN]
        /\ stale' \in [Packets -> BOOLEAN]
        /\ \A u \in Packets : u # x => stale'[u] = stale[u]
    BY <1>1, Zenon DEF Replaced, TypeInv
  <1>8. /\ payload'[x] = p
        /\ head'[x] = h
        /\ payload' \in [Packets -> Payloads]
        /\ head' \in [Packets -> Heads]
        /\ \A u \in Packets : u # x => payload'[u] = payload[u] /\ head'[u] = head[u]
    BY <1>1, <1>5, <1>6 DEF TypeInv
  <1>9. TypeInv'
    BY <1>1, <1>6, <1>7, <1>8 DEF TypeInv
  <1>10. InOrder(x)
    BY <1>5, <1>6, <1>8 DEF InOrder
  <1> QED
    BY <1>6, <1>7, <1>8, <1>9, <1>10, Steps DEF Same

\* compress() notes the length of what it compresses.
LEMMA CompressStep ==
  ASSUME PacketInv, UNCHANGED script, NEW x \in Packets, compress(x)
  PROVE  PacketInv'
  <1> DEFINE p == [z |-> payload[x].bytes, bytes |-> <<>>]
  <1>1. payload[x] \in Payloads
    BY DEF PacketInv, TypeInv
  <1>2. p \in Payloads /\ Length(payload[x]) \in Nat
    BY <1>1, PayloadLength DEF Payloads
  <1>3. /\ payload[x].z = <<>>
        /\ Replaced(x, p, Length(payload[x]))
    BY DEF compress
  <1>4. Length(payload[x]) = Len(p.z)
    BY <1>1, <1>3 DEF Length, Payloads
  <1>5. spoilt[x] \/ p.z = EncodeAll(content[x])
    BY <1>3, PlainContent
  <1>6. \A h \in Heads : h.zlen = Length(payload[x]) =>
                           spoilt[x] \/ Holds(p, h, content[x])
    BY <1>4, <1>5 DEF Holds
  <1> QED
    BY <1>2, <1>3, <1>6, ReplacedStep

\* uncompress() gives back what was compressed.
LEMMA UncompressStep ==
  ASSUME PacketInv, UNCHANGED script, NEW x \in Packets, uncompress(x)
  PROVE  PacketInv'
  <1> DEFINE p == [z |-> <<>>, bytes |-> payload[x].z]
  <1>1. payload[x] \in Payloads
    BY DEF PacketInv, TypeInv
  <1>2. p \in Payloads
    BY <1>1 DEF Payloads
  <1>3. payload[x].z # <<>> /\ Replaced(x, p, 0)
    BY DEF uncompress
  <1>4. spoilt[x] \/ payload[x].z = EncodeAll(content[x])
    <2>1. spoilt[x] \/ Holds(payload[x], head[x], content[x])
      BY KeptIsHeld DEF PacketInv
    <2>2. payload[x] = [z |-> <<>>, bytes |-> EncodeAll(content[x])]
            => payload[x].z = <<>>
      OBVIOUS
    <2>3. payload[x] = [z |-> EncodeAll(content[x]), bytes |-> <<>>]
            => payload[x].z = EncodeAll(content[x])
      OBVIOUS
    <2> QED
      BY <1>3, <2>1, <2>2, <2>3 DEF Holds
  <1>5. \A h \in Heads : h.zlen = 0 => spoilt[x] \/ Holds(p, h, content[x])
    BY <1>4 DEF Holds
  <1> QED
    BY <1>2, <1>3, <1>5, ReplacedStep

\* The packet that is read is the packet that was written, unless a frozen
\* packet was changed.
LEMMA TransferStep ==
  ASSUME PacketInv, UNCHANGED script, NEW x \in Packets, NEW y \in Packets,
         transfer(x, y)
  PROVE  PacketInv'
  <1> DEFINE h == Written(x)
             p == Prefix(payload[x], h.len)
             ok == /\ HeaderValid(h)
                   /\ h.len <= Length(payload[x])
                   /\ PayloadValid(h, p)
  <1>1. TypeInv
    BY DEF PacketInv
  <1>2. /\ payload[x] \in Payloads
        /\ head[x] \in Heads
        /\ checksum[x] \in BOOLEAN
        /\ freezed[x] \in BOOLEAN
        /\ stale[x] \in BOOLEAN
        /\ spoilt[x] \in BOOLEAN
    BY <1>1 DEF TypeInv
  <1>3. h \in Heads /\ h.zlen = head[x].zlen /\ h.len \in Nat
    BY <1>2, ComputedFits DEF Written, Heads
  <1>4. (freezed[x] /\ stale[x]) \/ Fits(h, payload[x])
    BY <1>2, ComputedFits DEF Written, PacketInv, FreshFits
  <1>5. ok => p \in Payloads
    BY <1>2, <1>3, PrefixOfPayload
  <1>6. (freezed[x] /\ stale[x]) \/ p = payload[x]
    BY <1>2, <1>4, PrefixOfPayload DEF Fits
  <1>7. /\ x # y
        /\ freezed' = [freezed EXCEPT ![x] = TRUE, ![y] = IF ok THEN FALSE ELSE @]
        /\ head' = [head EXCEPT ![x] = h, ![y] = IF ok THEN h ELSE @]
        /\ stale' = [stale EXCEPT ![x] = freezed[x] /\ @,
                                  ![y] = IF ok THEN freezed[x] /\ stale[x] ELSE @]
        /\ IF ok
           THEN /\ payload' = [payload EXCEPT ![y] = p]
                /\ checksum' = [checksum EXCEPT ![y] = Length(p) = 0 \/ h.psum # None]
                /\ content' = [content EXCEPT ![y] = content[x]]
                /\ spoilt' = [spoilt EXCEPT ![y] = spoilt[x] \/ (freezed[x] /\ stale[x])]
           ELSE UNCHANGED <<dataVars, checksum>>
    BY DEF transfer
  <1>8. spoilt[x] \/ Holds(payload[x], head[x], content[x])
    BY KeptIsHeld DEF PacketInv
  <1>9. spoilt[x] \/ Holds(payload[x], h, content[x])
    BY <1>3, <1>8 DEF Holds
  <1> HIDE DEF h, p, ok
  <1>10. head' \in [Packets -> Heads] /\ head'[x] = h
         /\ head'[y] = (IF ok THEN h ELSE head[y])
         /\ \A u \in Packets : u # x /\ u # y => head'[u] = head[u]
    BY <1>1, <1>3, <1>7 DEF TypeInv
  <1>11. /\ freezed' \in [Packets -> BOOLEAN]
         /\ stale' \in [Packets -> BOOLEAN]
         /\ stale'[x] <=> (freezed[x] /\ stale[x])
         /\ ok => (stale'[y] <=> (freezed[x] /\ stale[x]))
         /\ ~ok => stale'[y] = stale[y]
         /\ \A u \in Packets : u # x /\ u # y => stale'[u] = stale[u]
    BY <1>1, <1>2, <1>7, Zenon DEF TypeInv
  <1>12. CASE ok
    <2>1. payload' \in [Packets -> Payloads] /\ payload'[y] = p
          /\ \A u \in Packets : u # y => payload'[u] = payload[u]
      BY <1>1, <1>5, <1>7, <1>12 DEF TypeInv
    <2>2. content' \in [Packets -> Seq(Range(script))] /\ content'[y] = content[x]
          /\ \A u \in Packets : u # y => content'[u] = content[u]
      BY <1>1, <1>7, <1>12, ZenonT(40) DEF TypeInv
    <2>3. /\ checksum' \in [Packets -> BOOLEAN]
          /\ spoilt' \in [Packets -> BOOLEAN]
          /\ spoilt'[y] <=> (spoilt[x] \/ (freezed[x] /\ stale[x]))
          /\ \A u \in Packets : u # y => spoilt'[u] = spoilt[u]
      BY <1>1, <1>2, <1>7, <1>12, Zenon DEF TypeInv
    <2>4. TypeInv'
      BY <1>1, <1>10, <1>11, <2>1, <2>2, <2>3 DEF TypeInv
    <2>5. InOrder(x)
      BY <1>4, <1>7, <1>9, <1>10, <1>11, <2>1, <2>2, <2>3 DEF InOrder
    <2>6. InOrder(y)
      BY <1>4, <1>6, <1>9, <1>10, <1>11, <1>12, <2>1, <2>2, <2>3 DEF InOrder
    <2>7. \A u \in Packets : u # x /\ u # y => Same(u)
      BY <1>10, <1>11, <2>1, <2>2, <2>3 DEF Same
    <2> QED
      BY <2>4, <2>5, <2>6, <2>7, Steps
  <1>13. CASE ~ok
    <2>1. UNCHANGED <<payload, content, spoilt, checksum>>
      BY <1>7, <1>13 DEF dataVars
    <2>2. TypeInv'
      BY <1>1, <1>10, <1>11, <2>1 DEF TypeInv
    <2>3. InOrder(x)
      BY <1>4, <1>9, <1>10, <1>11, <2>1 DEF InOrder
    <2>4. \A u \in Packets : u # x => Same(u)
      BY <1>10, <1>11, <1>13, <2>1 DEF Same
    <2> QED
      BY <2>2, <2>3, <2>4, Steps
  <1> QED
    BY <1>12, <1>13

\* A copy has the header, and what it was computed from.
LEMMA CopyStep ==
  ASSUME PacketInv, UNCHANGED script, NEW x \in Packets, NEW y \in Packets,
         copy(x, y)
  PROVE  PacketInv'
  <1>1. TypeInv
    BY DEF PacketInv
  <1>2. /\ stale' \in [Packets -> BOOLEAN]
        /\ spoilt' \in [Packets -> BOOLEAN]
        /\ stale'[y] = stale[x] /\ spoilt'[y] = spoilt[x]
        /\ \A u \in Packets : u # y => stale'[u] = stale[u] /\ spoilt'[u] = spoilt[u]
    BY <1>1, Zenon DEF copy, TypeInv
  <1>3. /\ payload'[y] = payload[x] /\ payload' \in [Packets -> Payloads]
        /\ \A u \in Packets : u # y => payload'[u] = payload[u]
    BY <1>1 DEF copy, TypeInv
  <1>4. /\ head'[y] = head[x] /\ head' \in [Packets -> Heads]
        /\ \A u \in Packets : u # y => head'[u] = head[u]
    BY <1>1 DEF copy, TypeInv
  <1>5. /\ content'[y] = content[x] /\ content' \in [Packets -> Seq(Range(script))]
        /\ \A u \in Packets : u # y => content'[u] = content[u]
    BY <1>1 DEF copy, TypeInv
  <1>6. TypeInv'
    BY <1>1, <1>2, <1>3, <1>4, <1>5 DEF TypeInv, copy
  <1>7. spoilt[x] \/ Holds(payload[x], head[x], content[x])
    BY KeptIsHeld DEF PacketInv
  <1>8. InOrder(y)
    BY <1>2, <1>3, <1>4, <1>5, <1>7 DEF InOrder, PacketInv, FreshFits
  <1>9. \A u \in Packets : u # y => Same(u)
    BY <1>2, <1>3, <1>4, <1>5 DEF Same
  <1> QED
    BY <1>6, <1>8, <1>9, Steps

\* PacketInv is inductive.
LEMMA PacketStep == PacketInv /\ [Next]_vars => PacketInv'
  <1> SUFFICES ASSUME PacketInv, [Next]_vars PROVE PacketInv'
    OBVIOUS
  <1>1. CASE Next
    BY <1>1, PutStep, EmptyStep, FieldStep, CompressStep, UncompressStep,
       TransferStep, CopyStep
    DEF Next
  <1>2. CASE UNCHANGED vars
    <2>1. UNCHANGED <<script, payload, content, spoilt, freezed, checksum, head,
                      stale>>
      BY <1>2 DEF vars, dataVars
    <2>2. TypeInv'
      BY <2>1 DEF PacketInv, TypeInv
    <2> QED
      BY <2>1, <2>2, Steps DEF Same
  <1> QED
    BY <1>1, <1>2

\* Packets are empty at the start.
LEMMA PacketInit == Init => PacketInv
  <1> SUFFICES ASSUME Init PROVE PacketInv
    OBVIOUS
  <1>1. None \in Payloads
    BY DEF None, Payloads
  <1>2. head \in [Packets -> Heads]
    BY <1>1 DEF Init, Heads, Sums
  <1>3. /\ payload \in [Packets -> Payloads]
        /\ content \in [Packets -> Seq(Range(script))]
    BY <1>1 DEF Init
  <1>4. TypeInv
    BY <1>2, <1>3 DEF Init, TypeInv
  <1>5. FreshFits
    BY DEF Init, FreshFits
  <1>6. \A x \in Packets : Holds(payload[x], head[x], content[x])
    BY EncodeAllEmpty DEF Init, Holds, None
  <1> QED
    BY <1>4, <1>5, <1>6, KeptIsHeld DEF PacketInv

\* The invariant holds in every reachable state.
LEMMA PacketInvariant == Spec => []PacketInv
  BY PacketInit, PacketStep, PTL DEF Spec

(***************************************************************************)
(* Compressed, uncompressed, written and read, copied, emptied and filled  *)
(* again: a packet holds the bytes of the items that were put into it.     *)
(***************************************************************************)
THEOREM ContentIsKept == Spec => []ContentKept
  <1>1. PacketInv => ContentKept
    BY DEF PacketInv
  <1> QED
    BY <1>1, PacketInvariant, PTL

(***************************************************************************)
(* The header of a frozen packet that was not changed since is valid, says *)
(* the right length and has the checksum of the payload: read() accepts    *)
(* what write() sends.                                                     *)
(***************************************************************************)
THEOREM WriteIsAccepted == Spec => []WrittenIsAccepted
  <1>1. PacketInv => WrittenIsAccepted
    BY DEF PacketInv, FreshFits, Fits, WrittenIsAccepted
  <1> QED
    BY <1>1, PacketInvariant, PTL

-------------------------------------------------------------------------------
(***************************************************************************)
(* Reading back                                                            *)
(***************************************************************************)

\* The bytes of the first n items
First(s, n) == EncodeAll(SubSeq(s, 1, n))

LEMMA FirstNext ==
  ASSUME NEW I, \A item \in I : Item(item), NEW s \in Seq(I),
         NEW n \in Nat, n < Len(s)
  PROVE  /\ First(s, n) \in Seq(Nat)
         /\ First(s, n + 1) = First(s, n) \o Encode(s[n + 1])
         /\ First(s, n + 1) \in Seq(Nat)
         /\ Encode(s[n + 1]) \in Seq(Nat)
  <1>1. SubSeq(s, 1, n) \in Seq(I) /\ s[n + 1] \in I
    OBVIOUS
  <1>2. SubSeq(s, 1, n + 1) = Append(SubSeq(s, 1, n), s[n + 1])
    OBVIOUS
  <1>3. Encode(s[n + 1]) \in Seq(Nat)
    BY <1>1, EncodeTyped
  <1>4. /\ EncodeAll(SubSeq(s, 1, n)) \in Seq(Nat)
        /\ EncodeAll(Append(SubSeq(s, 1, n), s[n + 1]))
             = EncodeAll(SubSeq(s, 1, n)) \o Encode(s[n + 1])
    BY <1>1, EncodeAllAppend
  <1>5. EncodeAll(SubSeq(s, 1, n)) \o Encode(s[n + 1]) \in Seq(Nat)
    BY <1>3, <1>4
  <1> QED
    BY <1>2, <1>3, <1>4, <1>5, Zenon DEF First

\* Items that are put later leave the bytes of the first ones alone.
LEMMA FirstStays ==
  ASSUME NEW I, \A item \in I : Item(item), NEW s \in Seq(I),
         NEW i \in 1 .. Len(s)
  PROVE  /\ Len(First(s, i)) <= Len(EncodeAll(s))
         /\ \A k \in 1 .. Len(First(s, i)) : EncodeAll(s)[k] = First(s, i)[k]
  <1> DEFINE Fst(n) == First(s, n)
             S == {m \in Nat : i + m <= Len(s) =>
                     /\ Len(Fst(i)) <= Len(Fst(i + m))
                     /\ \A k \in 1 .. Len(Fst(i)) : Fst(i + m)[k] = Fst(i)[k]}
  <1>1. \A n \in Nat : n < Len(s) =>
          /\ Fst(n) \in Seq(Nat)
          /\ Fst(n + 1) = Fst(n) \o Encode(s[n + 1])
          /\ Fst(n + 1) \in Seq(Nat)
          /\ Encode(s[n + 1]) \in Seq(Nat)
    BY FirstNext
  <1>2. i \in Nat /\ i - 1 \in Nat /\ i - 1 < Len(s) /\ (i - 1) + 1 = i
    OBVIOUS
  <1> HIDE DEF Fst
  <1>3. Fst(i) \in Seq(Nat) /\ Len(Fst(i)) \in Nat
    BY <1>1, <1>2
  <1>4. 0 \in S
    BY <1>2, <1>3
  <1>5. ASSUME NEW m \in Nat, m \in S PROVE m + 1 \in S
    <2> SUFFICES ASSUME i + (m + 1) <= Len(s)
                 PROVE  /\ Len(Fst(i)) <= Len(Fst(i + (m + 1)))
                        /\ \A k \in 1 .. Len(Fst(i)) :
                             Fst(i + (m + 1))[k] = Fst(i)[k]
      OBVIOUS
    <2>1. i + m \in Nat /\ i + m < Len(s) /\ i + (m + 1) = (i + m) + 1
      BY <1>2
    <2>2. /\ Fst(i + m) \in Seq(Nat)
          /\ Fst(i + (m + 1)) = Fst(i + m) \o Encode(s[(i + m) + 1])
          /\ Encode(s[(i + m) + 1]) \in Seq(Nat)
      BY <1>1, <2>1
    <2>3. /\ Len(Fst(i)) <= Len(Fst(i + m))
          /\ \A k \in 1 .. Len(Fst(i)) : Fst(i + m)[k] = Fst(i)[k]
      BY <1>5, <2>1
    <2> QED
      BY <1>3, <2>2, <2>3
  <1> HIDE DEF S
  <1>6. Len(s) - i \in S
    <2>1. Len(s) - i \in Nat
      OBVIOUS
    <2> QED
      BY <1>4, <1>5, <2>1, SetInduction
  <1>7. Fst(Len(s)) = EncodeAll(s)
    <2>1. SubSeq(s, 1, Len(s)) = s
      OBVIOUS
    <2> QED
      BY <2>1 DEF Fst, First
  <1>8. i + (Len(s) - i) = Len(s)
    OBVIOUS
  <1> QED
    BY <1>6, <1>7, <1>8 DEF S, Fst

\* The bytes of item i are found where the first i - 1 items end.
LEMMA ItemBytes ==
  ASSUME NEW I, \A item \in I : Item(item), NEW s \in Seq(I),
         NEW i \in 1 .. Len(s)
  PROVE  LET at == Len(First(s, i - 1))
             e == Encode(s[i]) IN
         /\ at \in Nat
         /\ e \in Seq(Nat)
         /\ Len(First(s, i)) = at + Len(e)
         /\ at + Len(e) <= Len(EncodeAll(s))
         /\ \A k \in 1 .. Len(e) : EncodeAll(s)[at + k] = e[k]
  <1> DEFINE b == First(s, i - 1)
             e == Encode(s[i])
  <1>1. i - 1 \in Nat /\ i - 1 < Len(s) /\ (i - 1) + 1 = i
    OBVIOUS
  <1>2. b \in Seq(Nat) /\ e \in Seq(Nat) /\ First(s, i) = b \o e
    BY <1>1, FirstNext
  <1>3. /\ Len(First(s, i)) <= Len(EncodeAll(s))
        /\ \A k \in 1 .. Len(First(s, i)) : EncodeAll(s)[k] = First(s, i)[k]
    BY FirstStays
  <1> HIDE DEF b, e
  <1>4. Len(b) \in Nat /\ Len(e) \in Nat /\ Len(First(s, i)) = Len(b) + Len(e)
    BY <1>2
  <1>5. ASSUME NEW k \in 1 .. Len(e) PROVE EncodeAll(s)[Len(b) + k] = e[k]
    <2>1. Len(b) + k \in 1 .. Len(First(s, i))
      BY <1>4
    <2>2. (b \o e)[Len(b) + k] = e[k]
      BY <1>2, <1>4
    <2> QED
      BY <1>2, <1>3, <2>1, <2>2
  <1> QED
    BY <1>2, <1>3, <1>4, <1>5 DEF b, e

\* Division with remainder
LEMMA Division ==
  ASSUME NEW n \in Int, NEW b \in Nat, b > 0
  PROVE  b * (n \div b) + (n % b) = n
  OBVIOUS

LEMMA Remainder ==
  ASSUME NEW n \in Int, NEW b \in Nat, -b <= n, n < b
  PROVE  n % b = IF n < 0 THEN n + b ELSE n
  <1>1. n >= 0 => n % b = n
    OBVIOUS
  <1>2. n < 0 => n % b = n + b
    OBVIOUS
  <1> QED
    BY <1>1, <1>2

\* The bytes of a number give the number.
LEMMA NumberOfBytes ==
  ASSUME NEW n \in Nat
  PROVE  (n \div Base) * Base + (n % Base) = n
  <1>1. Base * (n \div Base) + (n % Base) = n
    BY WordFacts, Division
  <1>2. n \div Base \in Int
    BY WordFacts
  <1> QED
    BY <1>1, <1>2, WordFacts

\* A get of the right kind at the bytes of an item returns its value and stops
\* behind them.
LEMMA GetItem ==
  ASSUME NEW item, Item(item), NEW bytes \in Seq(Nat), NEW at \in Nat,
         at + Len(Encode(item)) <= Len(bytes),
         \A k \in 1 .. Len(Encode(item)) : bytes[at + k] = Encode(item)[k]
  PROVE  /\ GetEnd(bytes, at, item.kind) = at + Len(Encode(item))
         /\ GetValue(bytes, at, item.kind) = item.value
  <1>1. CASE item.kind = "U8"
    <2>1. Encode(item) = <<Stored(item)>> /\ Stored(item) = item.value
      BY <1>1, EncodeCases DEF Stored
    <2>2. bytes[at + 1] = item.value /\ at + 1 <= Len(bytes) /\ Len(Encode(item)) = 1
      BY <2>1
    <2>3. GetEnd(bytes, at, item.kind) = at + 1
      BY <1>1, <2>2 DEF GetEnd, Width
    <2>4. GetValue(bytes, at, item.kind) = bytes[at + 1]
      BY <1>1, <2>3 DEF GetValue
    <2> QED
      BY <2>2, <2>3, <2>4
  <1>2. CASE item.kind \in {"U16", "S16"}
    <2> DEFINE n == bytes[at + 1] * Base + bytes[at + 2]
    <2>1. /\ Encode(item) = <<Stored(item) \div Base, Stored(item) % Base>>
          /\ Stored(item) \in Nat
      BY <1>2, EncodeCases, StoredNumber
    <2>2. /\ Len(Encode(item)) = 2
          /\ at + 2 <= Len(bytes)
          /\ bytes[at + 1] = Stored(item) \div Base
          /\ bytes[at + 2] = Stored(item) % Base
      BY <2>1
    <2>3. n = Stored(item)
      BY <2>1, <2>2, NumberOfBytes, Zenon
    <2>4. GetEnd(bytes, at, item.kind) = at + 2
      BY <1>2, <2>2 DEF GetEnd, Width
    <2>5. CASE item.kind = "U16"
      <3>1. GetValue(bytes, at, item.kind) = n
        BY <2>4, <2>5 DEF GetValue
      <3> QED
        BY <2>2, <2>3, <2>4, <2>5, <3>1 DEF Stored
    <2>6. CASE item.kind = "S16"
      <3>1. GetValue(bytes, at, item.kind) = IF n >= Word \div 2 THEN n - Word ELSE n
        BY <2>4, <2>6 DEF GetValue
      <3>2. item.value \in -(Word \div 2) .. (Word \div 2) - 1
        BY <2>6 DEF Item, Values
      <3>3. n = item.value % Word
        BY <2>3, <2>6 DEF Stored
      <3> HIDE DEF n
      <3>4. n = IF item.value < 0 THEN item.value + Word ELSE item.value
        <4>1. item.value \in Int /\ -Word <= item.value /\ item.value < Word
          BY <3>2, WordFacts
        <4> QED
          BY <3>3, <4>1, WordFacts, Remainder
      <3>5. GetValue(bytes, at, item.kind) = item.value
        BY <3>1, <3>2, <3>4, WordFacts
      <3> QED
        BY <2>2, <2>4, <3>5
    <2> QED
      BY <1>2, <2>5, <2>6
  <1>3. CASE item.kind = "String"
    <2> DEFINE v == item.value
               zeros == {k \in at + 1 .. Len(bytes) : bytes[k] = 0}
    <2>1. v \in Seq(1 .. Base - 1) /\ Encode(item) = Append(v, 0)
      BY <1>3, EncodeCases DEF Item, Values
    <2>2. Len(v) \in Nat /\ Len(Encode(item)) = Len(v) + 1
      BY <2>1
    <2>3. /\ \A k \in 1 .. Len(v) : bytes[at + k] = v[k] /\ v[k] # 0
          /\ bytes[at + Len(v) + 1] = 0
          /\ at + Len(v) + 1 <= Len(bytes)
      <3> HIDE DEF v
      <3>1. \A k \in 1 .. Len(v) : Append(v, 0)[k] = v[k] /\ v[k] \in 1 .. Base - 1
        <4>1. \A k \in 1 .. Len(v) : v[k] \in 1 .. Base - 1
          <5>1. ASSUME NEW V, NEW w \in Seq(V) PROVE \A k \in 1 .. Len(w) : w[k] \in V
            OBVIOUS
          <5> QED
            BY <2>1, <5>1, Zenon
        <4>2. \A k \in 1 .. Len(v) : Append(v, 0)[k] = v[k]
          BY <2>1
        <4> QED
          BY <4>1, <4>2, Zenon
      <3>2. Append(v, 0)[Len(v) + 1] = 0
        BY <2>1
      <3>3. \A k \in 1 .. Len(v) : k \in 1 .. Len(Encode(item))
        BY <2>2
      <3>4. Len(v) + 1 \in 1 .. Len(Encode(item)) /\ at + (Len(v) + 1) = at + Len(v) + 1
        BY <2>2
      <3>5. bytes[at + (Len(v) + 1)] = 0
        BY <2>1, <3>2, <3>4
      <3>6. \A k \in 1 .. Len(v) : bytes[at + k] = v[k]
        BY <2>1, <3>1, <3>3
      <3> QED
        BY <2>2, <3>1, <3>4, <3>5, <3>6
    <2>4. at + Len(v) + 1 \in zeros
      BY <2>2, <2>3
    <2>5. ASSUME NEW k \in zeros PROVE at + Len(v) + 1 <= k
      <3> SUFFICES ASSUME k < at + Len(v) + 1 PROVE FALSE
        BY <2>2
      <3>1. k - at \in 1 .. Len(v) /\ at + (k - at) = k
        BY <2>2
      <3> QED
        BY <2>3, <3>1, ZenonT(40)
    <2>6. Min(zeros) = at + Len(v) + 1
      <3>1. zeros \subseteq Nat
        OBVIOUS
      <3>2. \A m \in zeros : (\A k \in zeros : m <= k) => m = at + Len(v) + 1
        BY <2>2, <2>4, <2>5, <3>1
      <3> HIDE DEF zeros
      <3> QED
        BY <2>4, <2>5, <3>2 DEF Min
    <2>7. StringEnd(bytes, at) = at + Len(v)
      <3>1. StringEnd(bytes, at) = IF zeros = {} THEN Len(bytes) ELSE Min(zeros) - 1
        BY DEF StringEnd
      <3> HIDE DEF zeros
      <3> QED
        BY <2>2, <2>4, <2>6, <3>1
    <2>8. GetEnd(bytes, at, item.kind) = at + Len(v) + 1
      BY <1>3, <2>2, <2>3, <2>7 DEF GetEnd
    <2>9. GetValue(bytes, at, item.kind) = SubSeq(bytes, at + 1, at + Len(v))
      <3> DEFINE end == GetEnd(bytes, at, item.kind)
      <3>1. GetValue(bytes, at, item.kind) =
              IF at >= Len(bytes) \/ end > Len(bytes) THEN <<>>
              ELSE SubSeq(bytes, at + 1, end - 1)
        BY <1>3, Zenon DEF GetValue
      <3>2. ~(at >= Len(bytes) \/ end > Len(bytes)) /\ end - 1 = at + Len(v)
        BY <2>2, <2>3, <2>8
      <3> QED
        BY <3>1, <3>2
    <2>10. SubSeq(bytes, at + 1, at + Len(v)) = v
      BY <2>1, <2>2, <2>3
    <2> QED
      BY <2>2, <2>8, <2>9, <2>10
  <1> QED
    BY <1>1, <1>2, <1>3 DEF Item, Kinds

(***************************************************************************)
(* Whatever numbers and strings were put into a packet, a get of the right *)
(* kind for each returns them in their order and the last one ends at the  *)
(* end of the packet.                                                      *)
(***************************************************************************)
THEOREM PutIsReadBack == Spec => []ReadBack
  <1>1. ASSUME PacketInv PROVE ReadBack
    <2> SUFFICES ASSUME NEW x \in Packets, ~spoilt[x], payload[x].z = <<>>
                 PROVE  LET Offset(i) == Len(First(content[x], i)) IN
                        /\ Offset(Len(content[x])) = Length(payload[x])
                        /\ \A i \in 1 .. Len(content[x]) :
                             LET item == content[x][i] IN
                             /\ GetValue(payload[x].bytes, Offset(i - 1), item.kind)
                                  = item.value
                             /\ GetEnd(payload[x].bytes, Offset(i - 1), item.kind)
                                  = Offset(i)
      BY DEF ReadBack, First
    <2> DEFINE s == content[x]
               I == Range(script)
    <2>1. s \in Seq(I) /\ (\A item \in I : Item(item)) /\ payload[x] \in Payloads
      BY <1>1, ScriptItems DEF PacketInv, TypeInv
    <2>2. payload[x].bytes = EncodeAll(s)
      BY <1>1, PlainContent
    <2>3. EncodeAll(s) \in Seq(Nat)
      BY <2>1, <2>2 DEF Payloads
    <2> HIDE DEF I
    <2>4. Len(First(s, Len(s))) = Length(payload[x])
      <3>1. SubSeq(s, 1, Len(s)) = s
        BY <2>1
      <3>2. Length(payload[x]) = Len(EncodeAll(s))
        BY <2>2, <2>3 DEF Length
      <3> QED
        BY <3>1, <3>2 DEF First
    <2>5. ASSUME NEW i \in 1 .. Len(s)
          PROVE  /\ GetValue(EncodeAll(s), Len(First(s, i - 1)), s[i].kind)
                      = s[i].value
                 /\ GetEnd(EncodeAll(s), Len(First(s, i - 1)), s[i].kind)
                      = Len(First(s, i))
      <3>1. Item(s[i])
        BY <2>1
      <3>2. /\ Len(First(s, i - 1)) \in Nat
            /\ Len(First(s, i)) = Len(First(s, i - 1)) + Len(Encode(s[i]))
            /\ Len(First(s, i - 1)) + Len(Encode(s[i])) <= Len(EncodeAll(s))
            /\ \A k \in 1 .. Len(Encode(s[i])) :
                 EncodeAll(s)[Len(First(s, i - 1)) + k] = Encode(s[i])[k]
        BY <2>1, ItemBytes
      <3> QED
        BY <2>3, <3>1, <3>2, GetItem
    <2> QED
      BY <2>2, <2>4, <2>5
  <1> QED
    BY <1>1, PacketInvariant, PTL

===============================================================================
