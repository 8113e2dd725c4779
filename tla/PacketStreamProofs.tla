-------------------------- MODULE PacketStreamProofs --------------------------
(***************************************************************************)
(* Proofs about PacketStream, for every number of writers and packets of   *)
(* every length: read() finds the packets of an unbroken stream where they *)
(* begin, and of a broken one it returns no packet that was not sent.      *)
(***************************************************************************)
EXTENDS PacketStream, SequenceTheorems, FiniteSetTheorems, TLAPS

Units == ({"sync"} \X (1 .. WordLen)) \cup ({"head", "data"} \X Ids \X Nat)

\* The lengths as numbers
LEMMA Words == WordLen = 2 /\ HeaderLen = 4
  BY DEF WordLen, HeaderLen

\* What a function on 1 .. n is as a sequence
LEMMA FunctionIsSeq ==
  ASSUME NEW S, NEW n \in Nat, NEW f \in [1 .. n -> S]
  PROVE  f \in Seq(S) /\ Len(f) = n
  OBVIOUS

(***************************************************************************)
(* Packets as sequences of units                                           *)
(***************************************************************************)

\* The second word of a header
Rest(id) == [k \in 1 .. HeaderLen - WordLen |-> <<"head", id, k>>]

LEMMA Images ==
  ASSUME NEW id \in Ids
  PROVE  /\ SyncWord \in Seq(Units) /\ Len(SyncWord) = WordLen
         /\ Rest(id) \in Seq(Units) /\ Len(Rest(id)) = HeaderLen - WordLen
         /\ Payload(id) \in Seq(Units) /\ Len(Payload(id)) = Length[id]
         /\ Length[id] \in Nat
         /\ Header(id) = SyncWord \o Rest(id)
         /\ Header(id) \in Seq(Units) /\ Len(Header(id)) = HeaderLen
         /\ Image(id) = Header(id) \o Payload(id)
         /\ Image(id) \in Seq(Units) /\ Len(Image(id)) = HeaderLen + Length[id]
  <1>1. Length[id] \in Nat
    BY StreamAssumption
  <1>2. SyncWord \in Seq(Units) /\ Len(SyncWord) = WordLen
    BY DEF SyncWord, Units, WordLen
  <1>3. Rest(id) \in Seq(Units) /\ Len(Rest(id)) = HeaderLen - WordLen
    BY Words DEF Rest, Units
  <1>4. Payload(id) \in Seq(Units) /\ Len(Payload(id)) = Length[id]
    <2>1. ASSUME NEW k \in 1 .. Length[id]
          PROVE  Payload(id)[k] \in Units
      <3>1. 1 + ((k - 1) % WordLen) \in 1 .. WordLen /\ k \in Nat
        BY <1>1 DEF WordLen
      <3>2. Payload(id)[k] = IF id \in Lookalike THEN <<"sync", 1 + ((k - 1) % WordLen)>>
                                                 ELSE <<"data", id, k>>
        BY Zenon DEF Payload
      <3>3. ASSUME NEW j \in 1 .. WordLen
            PROVE  <<"sync", j>> \in Units
        BY DEF Units
      <3>4. <<"data", id, k>> \in Units
        BY <3>1 DEF Units
      <3> QED
        BY <3>1, <3>2, <3>3, <3>4, Zenon
    <2>2. DOMAIN Payload(id) = 1 .. Length[id] /\ Payload(id) = [k \in 1 .. Length[id] |-> Payload(id)[k]]
      BY Zenon DEF Payload
    <2>3. Payload(id) \in [1 .. Length[id] -> Units]
      BY <2>1, <2>2, Zenon
    <2> QED
      BY <1>1, <2>3, FunctionIsSeq, Zenon
  <1>5. Header(id) = SyncWord \o Rest(id)
    BY DEF Header, Rest
  <1>6. Header(id) \in Seq(Units) /\ Len(Header(id)) = HeaderLen
    <2>1. Header(id) \in Seq(Units) /\ Len(Header(id)) = Len(SyncWord) + Len(Rest(id))
      BY <1>2, <1>3, <1>5, ConcatProperties, Zenon
    <2> QED
      BY <1>2, <1>3, <2>1, Words
  <1>7. Image(id) = Header(id) \o Payload(id)
    BY DEF Image
  <1>8. Image(id) \in Seq(Units) /\ Len(Image(id)) = HeaderLen + Length[id]
    <2>1. Image(id) \in Seq(Units) /\ Len(Image(id)) = Len(Header(id)) + Len(Payload(id))
      BY <1>4, <1>6, <1>7, ConcatProperties, Zenon
    <2> QED
      BY <1>4, <1>6, <2>1, Zenon
  <1> QED
    BY <1>1, <1>2, <1>3, <1>4, <1>5, <1>6, <1>7, <1>8

\* A header tells which packet it is of.
LEMMA HeaderOfOne ==
  ASSUME NEW id \in Ids, NEW jd \in Ids, Rest(id) = Rest(jd)
  PROVE  id = jd
  <1>1. Rest(id)[1] = <<"head", id, 1>> /\ Rest(jd)[1] = <<"head", jd, 1>>
    BY Words DEF Rest
  <1>2. <<"head", id, 1>> = <<"head", jd, 1>>
    BY <1>1
  <1> QED
    BY <1>2

(***************************************************************************)
(* A stream of whole packets                                               *)
(***************************************************************************)

\* T is made of the packets b[n + 1], b[n + 2], ...: packet i begins behind at[i - 1].
CoversAt(T, b, n, at) ==
  /\ at \in [n .. Len(b) -> Int]
  /\ at[n] = 0
  /\ at[Len(b)] = Len(T)
  /\ \A i, j \in n .. Len(b) : i < j => at[i] + HeaderLen <= at[j]
  /\ \A i \in n .. Len(b) : i < Len(b) =>
       /\ at[i + 1] = at[i] + Len(Image(b[i + 1]))
       /\ \A k \in 1 .. Len(Image(b[i + 1])) : T[at[i] + k] = Image(b[i + 1])[k]

Covers(T, b, n) == \E at : CoversAt(T, b, n, at)

\* Where the packets begin
LEMMA CoversWithin ==
  ASSUME NEW T \in Seq(Units), NEW b \in Seq(Ids), NEW n \in 0 .. Len(b),
         NEW at, CoversAt(T, b, n, at)
  PROVE  /\ n \in Nat /\ Len(b) \in Nat /\ Len(T) \in Nat /\ n <= Len(b)
         /\ \A i \in n .. Len(b) : at[i] \in Nat /\ at[i] <= Len(T)
         /\ \A i \in n .. Len(b) : i > n => at[i] >= at[n + 1]
  <1>1. /\ at \in [n .. Len(b) -> Int] /\ at[n] = 0 /\ at[Len(b)] = Len(T)
        /\ \A i, j \in n .. Len(b) : i < j => at[i] + HeaderLen <= at[j]
    BY DEF CoversAt
  <1>2. n \in Nat /\ Len(b) \in Nat /\ Len(T) \in Nat /\ n <= Len(b)
    OBVIOUS
  <1>3. ASSUME NEW i \in n .. Len(b)
        PROVE  at[i] \in Nat /\ at[i] <= Len(T)
    <2>1. n \in n .. Len(b) /\ Len(b) \in n .. Len(b)
      BY <1>2
    <2>2. at[i] \in Int /\ i \in Int
      BY <1>1, <1>2
    <2>3. i = n \/ at[n] + HeaderLen <= at[i]
      BY <1>1, <1>2, <2>1, <2>2
    <2>4. i = Len(b) \/ at[i] + HeaderLen <= at[Len(b)]
      BY <1>1, <1>2, <2>1, <2>2
    <2> QED
      BY <1>1, <1>2, <2>2, <2>3, <2>4, Words
  <1>4. ASSUME NEW i \in n .. Len(b), i > n
        PROVE  at[i] >= at[n + 1]
    <2>1. n + 1 \in n .. Len(b) /\ i \in Int
      BY <1>2, <1>4
    <2>2. i = n + 1 \/ at[n + 1] + HeaderLen <= at[i]
      BY <1>1, <1>2, <1>4, <2>1
    <2> QED
      BY <1>3, <2>1, <2>2, Words
  <1> QED
    BY <1>2, <1>3, <1>4

\* A packet more
LEMMA CoversAppend ==
  ASSUME NEW T \in Seq(Units), NEW b \in Seq(Ids), NEW n \in 0 .. Len(b),
         NEW id \in Ids, Covers(T, b, n)
  PROVE  Covers(T \o Image(id), Append(b, id), n)
  <1>1. PICK at : CoversAt(T, b, n, at)
    BY DEF Covers
  <1> DEFINE U == T \o Image(id)
             c == Append(b, id)
             bt == [i \in n .. Len(c) |-> IF i = Len(c) THEN Len(U) ELSE at[i]]
  <1>2. /\ Image(id) \in Seq(Units) /\ Len(Image(id)) \in Nat
        /\ Len(Image(id)) >= HeaderLen
    <2>1. /\ Image(id) \in Seq(Units) /\ Length[id] \in Nat
          /\ Len(Image(id)) = HeaderLen + Length[id]
      BY Images, Zenon
    <2> QED
      BY <2>1, Words
  <1>3. /\ U \in Seq(Units) /\ Len(U) = Len(T) + Len(Image(id)) /\ Len(T) \in Nat
        /\ \A k \in 1 .. Len(T) : U[k] = T[k]
        /\ \A k \in 1 .. Len(Image(id)) : U[Len(T) + k] = Image(id)[k]
    BY <1>2
  <1>4. /\ Len(c) = Len(b) + 1 /\ Len(b) \in Nat
        /\ \A i \in 1 .. Len(b) : c[i] = b[i] /\ b[i] \in Ids
        /\ c[Len(b) + 1] = id
    OBVIOUS
  <1>5. /\ at \in [n .. Len(b) -> Int]
        /\ at[n] = 0
        /\ at[Len(b)] = Len(T)
        /\ \A i, j \in n .. Len(b) : i < j => at[i] + HeaderLen <= at[j]
        /\ \A i \in n .. Len(b) : i < Len(b) =>
             /\ at[i + 1] = at[i] + Len(Image(b[i + 1]))
             /\ \A k \in 1 .. Len(Image(b[i + 1])) : T[at[i] + k] = Image(b[i + 1])[k]
    BY <1>1 DEF CoversAt
  <1>w. \A i \in n .. Len(b) : at[i] \in Nat /\ at[i] <= Len(T)
    BY <1>1, CoversWithin
  <1>s. \A i \in n .. Len(b) : i < Len(b) =>
          /\ at[i + 1] = at[i] + Len(Image(b[i + 1]))
          /\ \A k \in 1 .. Len(Image(b[i + 1])) : T[at[i] + k] = Image(b[i + 1])[k]
    BY <1>5
  <1> HIDE DEF U, c
  <1>6. /\ bt \in [n .. Len(c) -> Int]
        /\ \A i \in n .. Len(b) : bt[i] = at[i]
        /\ bt[Len(c)] = Len(U)
    BY <1>2, <1>3, <1>4, <1>5
  <1> HIDE DEF bt
  <1>7. ASSUME NEW i \in n .. Len(c), NEW j \in n .. Len(c), i < j
        PROVE  bt[i] + HeaderLen <= bt[j]
    <2>1. i \in n .. Len(b) /\ bt[i] = at[i] /\ at[i] \in Int
      BY <1>4, <1>5, <1>6, <1>7
    <2>2. CASE j = Len(c)
      <3>1. at[i] <= Len(T)
        <4>1. Len(b) \in n .. Len(b)
          BY <1>4
        <4> QED
          BY <1>3, <1>5, <2>1, <4>1 DEF HeaderLen, WordLen
      <3> QED
        BY <1>2, <1>3, <1>6, <2>1, <2>2, <3>1 DEF HeaderLen, WordLen
    <2>3. CASE j # Len(c)
      <3>1. j \in n .. Len(b)
        BY <1>4, <2>3
      <3> QED
        BY <1>5, <1>6, <1>7, <2>1, <3>1
    <2> QED
      BY <2>2, <2>3
  <1>8. ASSUME NEW i \in n .. Len(c), i < Len(c)
        PROVE  /\ bt[i + 1] = bt[i] + Len(Image(c[i + 1]))
               /\ \A k \in 1 .. Len(Image(c[i + 1])) : U[bt[i] + k] = Image(c[i + 1])[k]
    <2>1. i \in n .. Len(b) /\ bt[i] = at[i] /\ at[i] \in Int
      <3>1. i \in n .. Len(b)
        BY <1>4, <1>8
      <3> QED
        BY <1>6, <1>w, <3>1
    <2>2. CASE i = Len(b)
      <3>1. i + 1 = Len(c) /\ c[i + 1] = id /\ at[i] = Len(T)
        BY <1>4, <1>5, <2>2
      <3>2. bt[i] = Len(T) /\ bt[i + 1] = Len(U)
        BY <1>6, <2>1, <3>1
      <3> QED
        BY <1>3, <3>1, <3>2
    <2>3. CASE i # Len(b)
      <3>1. i + 1 \in n .. Len(b) /\ i + 1 \in 1 .. Len(b) /\ i < Len(b)
        BY <1>4, <2>1, <2>3
      <3>2. c[i + 1] = b[i + 1] /\ b[i + 1] \in Ids
        BY <1>4, <3>1
      <3>3. Len(Image(b[i + 1])) \in Nat
        BY <3>2, Images DEF HeaderLen, WordLen
      <3>4. at[i] >= 0 /\ at[i + 1] <= Len(T)
        BY <1>w, <2>1, <3>1
      <3>5. at[i + 1] = at[i] + Len(Image(b[i + 1]))
        BY <1>s, <2>1, <3>1
      <3>6. ASSUME NEW k \in 1 .. Len(Image(b[i + 1]))
            PROVE  U[at[i] + k] = Image(b[i + 1])[k]
        <4>1. at[i] + k \in 1 .. Len(T)
          BY <1>3, <2>1, <3>3, <3>4, <3>5, SMTT(20)
        <4>2. T[at[i] + k] = Image(b[i + 1])[k]
          BY <1>s, <2>1, <3>1
        <4> QED
          BY <1>3, <4>1, <4>2
      <3> QED
        BY <1>6, <2>1, <3>1, <3>2, <3>5, <3>6
    <2> QED
      BY <2>2, <2>3
  <1>9. bt[n] = 0
    BY <1>4, <1>5, <1>6
  <1>10. CoversAt(U, c, n, bt)
    BY <1>6, <1>7, <1>8, <1>9 DEF CoversAt
  <1> QED
    BY <1>10 DEF Covers, U, c

\* The stream begins with the next packet.
LEMMA CoversHead ==
  ASSUME NEW T \in Seq(Units), NEW b \in Seq(Ids), NEW n \in 0 .. Len(b),
         n < Len(b), Covers(T, b, n)
  PROVE  /\ b[n + 1] \in Ids
         /\ Len(Image(b[n + 1])) <= Len(T)
         /\ \A k \in 1 .. Len(Image(b[n + 1])) : T[k] = Image(b[n + 1])[k]
  <1>1. PICK at : CoversAt(T, b, n, at)
    BY DEF Covers
  <1>2. n \in n .. Len(b) /\ n + 1 \in n .. Len(b) /\ Len(b) \in n .. Len(b)
    OBVIOUS
  <1>3. b[n + 1] \in Ids
    OBVIOUS
  <1>4. Len(Image(b[n + 1])) \in Nat
    BY <1>3, Images DEF HeaderLen, WordLen
  <1>5. /\ at \in [n .. Len(b) -> Int] /\ at[n] = 0
        /\ at[n + 1] = at[n] + Len(Image(b[n + 1]))
        /\ \A k \in 1 .. Len(Image(b[n + 1])) : T[at[n] + k] = Image(b[n + 1])[k]
    BY <1>1, <1>2 DEF CoversAt
  <1>6. at[n + 1] <= Len(T)
    BY <1>1, <1>2, <1>5 DEF CoversAt, HeaderLen, WordLen
  <1> QED
    BY <1>3, <1>4, <1>5, <1>6

\* Without the first packet it is a stream of the others.
LEMMA CoversDrop ==
  ASSUME NEW T \in Seq(Units), NEW b \in Seq(Ids), NEW n \in 0 .. Len(b),
         n < Len(b), Covers(Image(b[n + 1]) \o T, b, n)
  PROVE  Covers(T, b, n + 1)
  <1> DEFINE I == Image(b[n + 1])
             U == I \o T
  <1>1. b[n + 1] \in Ids
    OBVIOUS
  <1>2. I \in Seq(Units) /\ Len(I) \in Nat
    BY <1>1, Images DEF HeaderLen, WordLen
  <1>3. PICK at : CoversAt(U, b, n, at)
    BY DEF Covers
  <1> HIDE DEF I
  <1>4. /\ Len(U) = Len(I) + Len(T) /\ Len(T) \in Nat
        /\ \A k \in 1 .. Len(T) : U[Len(I) + k] = T[k]
    BY <1>2
  <1> HIDE DEF U
  <1>5. /\ at \in [n .. Len(b) -> Int]
        /\ at[n] = 0
        /\ at[Len(b)] = Len(U)
        /\ \A i, j \in n .. Len(b) : i < j => at[i] + HeaderLen <= at[j]
        /\ \A i \in n .. Len(b) : i < Len(b) =>
             /\ at[i + 1] = at[i] + Len(Image(b[i + 1]))
             /\ \A k \in 1 .. Len(Image(b[i + 1])) : U[at[i] + k] = Image(b[i + 1])[k]
    BY <1>3 DEF CoversAt
  <1>6. n \in n .. Len(b) /\ n + 1 \in n .. Len(b) /\ Len(b) \in n + 1 .. Len(b)
    OBVIOUS
  <1>7. at[n + 1] = Len(I)
    BY <1>2, <1>5, <1>6 DEF I
  <1> DEFINE bt == [i \in n + 1 .. Len(b) |-> at[i] - Len(I)]
  <1>8. /\ bt \in [n + 1 .. Len(b) -> Int]
        /\ \A i \in n + 1 .. Len(b) : i \in n .. Len(b) /\ bt[i] = at[i] - Len(I)
    BY <1>2, <1>5
  <1> HIDE DEF bt
  <1>w. /\ \A i \in n .. Len(b) : at[i] \in Nat /\ at[i] <= Len(U)
        /\ \A i \in n .. Len(b) : i > n => at[i] >= at[n + 1]
    <2>1. U \in Seq(Units)
      BY <1>2 DEF U
    <2> QED
      BY <1>3, <2>1, CoversWithin
  <1>s. \A i \in n .. Len(b) : i < Len(b) =>
          /\ at[i + 1] = at[i] + Len(Image(b[i + 1]))
          /\ \A k \in 1 .. Len(Image(b[i + 1])) : U[at[i] + k] = Image(b[i + 1])[k]
    BY <1>5
  <1>9. bt[n + 1] = 0 /\ bt[Len(b)] = Len(T)
    <2>1. n + 1 \in n + 1 .. Len(b)
      OBVIOUS
    <2>2. bt[n + 1] = at[n + 1] - Len(I) /\ bt[Len(b)] = at[Len(b)] - Len(I)
      BY <1>6, <1>8, <2>1
    <2>3. at[Len(b)] = Len(U)
      BY <1>5
    <2> QED
      BY <1>2, <1>4, <1>7, <2>2, <2>3
  <1>10. ASSUME NEW i \in n + 1 .. Len(b), NEW j \in n + 1 .. Len(b), i < j
         PROVE  bt[i] + HeaderLen <= bt[j]
    <2>1. at[i] + HeaderLen <= at[j] /\ at[i] \in Int /\ at[j] \in Int
      BY <1>5, <1>8, <1>10
    <2> QED
      BY <1>2, <1>8, <2>1 DEF HeaderLen, WordLen
  <1>11. ASSUME NEW i \in n + 1 .. Len(b), i < Len(b)
         PROVE  /\ bt[i + 1] = bt[i] + Len(Image(b[i + 1]))
                /\ \A k \in 1 .. Len(Image(b[i + 1])) : T[bt[i] + k] = Image(b[i + 1])[k]
    <2>1. i + 1 \in n + 1 .. Len(b) /\ b[i + 1] \in Ids
      BY <1>11
    <2>2. Len(Image(b[i + 1])) \in Nat
      BY <2>1, Images DEF HeaderLen, WordLen
    <2>3. /\ at[i + 1] = at[i] + Len(Image(b[i + 1]))
          /\ at[i] \in Int
          /\ \A k \in 1 .. Len(Image(b[i + 1])) : U[at[i] + k] = Image(b[i + 1])[k]
      <3>1. i \in n .. Len(b)
        OBVIOUS
      <3>2. at[i] \in Int
        BY <1>w, <3>1
      <3> QED
        BY <1>s, <1>11, <3>1, <3>2, Zenon
    <2>4. at[i + 1] <= Len(U) /\ at[i] >= Len(I)
      <3>1. i \in n .. Len(b) /\ i + 1 \in n .. Len(b) /\ i > n
        BY <1>11
      <3> QED
        BY <1>w, <1>7, <3>1
    <2>5. ASSUME NEW k \in 1 .. Len(Image(b[i + 1]))
          PROVE  T[bt[i] + k] = Image(b[i + 1])[k]
      <3>1. bt[i] + k \in 1 .. Len(T) /\ Len(I) + (bt[i] + k) = at[i] + k
        <4>1. bt[i] = at[i] - Len(I) /\ k \in Int /\ k >= 1 /\ k <= Len(Image(b[i + 1]))
          BY <1>8, <2>2
        <4>2. at[i + 1] \in Int /\ at[i] + k <= at[i + 1]
          BY <2>2, <2>3, <4>1
        <4>3. Len(U) = Len(I) + Len(T) /\ Len(T) \in Nat
          BY <1>4
        <4> QED
          BY <1>2, <2>3, <2>4, <4>1, <4>2, <4>3, SMTT(30)
      <3> QED
        BY <1>4, <2>3, <3>1
    <2> QED
      BY <1>2, <1>8, <2>1, <2>2, <2>3, <2>5
  <1>12. CoversAt(T, b, n + 1, bt)
    BY <1>8, <1>9, <1>10, <1>11 DEF CoversAt
  <1> QED
    BY <1>12 DEF Covers

\* The stream ends with the last packet.
LEMMA CoversEnd ==
  ASSUME NEW T \in Seq(Units), NEW b \in Seq(Ids), NEW n \in 0 .. Len(b),
         Covers(T, b, n)
  PROVE  T = <<>> <=> n = Len(b)
  <1>1. PICK at : CoversAt(T, b, n, at)
    BY DEF Covers
  <1>2. n = Len(b) => Len(T) = 0
    BY <1>1 DEF CoversAt
  <1>3. n < Len(b) => Len(T) > 0
    <2>1. n \in n .. Len(b) /\ Len(b) \in n .. Len(b)
      OBVIOUS
    <2> QED
      BY <1>1, <2>1 DEF CoversAt, HeaderLen, WordLen
  <1> QED
    BY <1>2, <1>3

\* What was taken of the stream is the beginning of the next packet.
LEMMA CoversTaken ==
  ASSUME NEW a \in Seq(Units), NEW z \in Seq(Units), NEW b \in Seq(Ids),
         NEW n \in 0 .. Len(b), Covers(a \o z, b, n), a # <<>>
  PROVE  /\ n < Len(b)
         /\ b[n + 1] \in Ids
         /\ \A k \in 1 .. Len(Image(b[n + 1])) :
              k <= Len(a) => a[k] = Image(b[n + 1])[k]
  <1>1. /\ a \o z \in Seq(Units) /\ Len(a \o z) = Len(a) + Len(z)
        /\ Len(a) \in Nat /\ Len(z) \in Nat /\ Len(a) > 0
        /\ \A k \in 1 .. Len(a) : (a \o z)[k] = a[k]
    OBVIOUS
  <1>2. a \o z # <<>>
    BY <1>1
  <1>3. n < Len(b)
    <2>1. n # Len(b)
      BY <1>1, <1>2, CoversEnd, Zenon
    <2> QED
      BY <2>1
  <1>4. /\ b[n + 1] \in Ids
        /\ \A k \in 1 .. Len(Image(b[n + 1])) : (a \o z)[k] = Image(b[n + 1])[k]
    BY <1>1, <1>3, CoversHead
  <1>5. Len(Image(b[n + 1])) \in Nat
    <2>1. Image(b[n + 1]) \in Seq(Units)
      BY <1>4, Images, Zenon
    <2> QED
      BY <2>1
  <1> QED
    BY <1>1, <1>3, <1>4, <1>5

(***************************************************************************)
(* Types, and where read() is                                              *)
(***************************************************************************)
TypeInv ==
  /\ wire \in Seq(Units)
  /\ peerOpen \in BOOLEAN
  /\ sending \in [Writers -> Seq(Units)]
  /\ state \in {"idle", "sync", "header", "payload"}
  /\ got \in Seq(Units)
  /\ begun \in Seq(Ids)
  /\ received \in Seq([id : Ids, data : Seq(Units)])
  /\ torn \in BOOLEAN

\* read() starts with an empty buffer, and with a payload it has one valid header.
ReaderInv ==
  /\ state = "idle" => got = <<>>
  /\ state = "payload" => \E id \in Ids : packet = {id} /\ Length[id] > 0

\* A recv() splits the stream at the end of what it takes.
LEMMA ChunkSplits ==
  ASSUME TypeInv, ReaderInv, state # "idle"
  PROVE  /\ Wanted \in Nat
         /\ Chunk \in Seq(Units)
         /\ Arrived \in Seq(Units)
         /\ SubSeq(wire, Len(Chunk) + 1, Len(wire)) \in Seq(Units)
         /\ wire = Chunk \o SubSeq(wire, Len(Chunk) + 1, Len(wire))
         /\ got \o wire = Arrived \o SubSeq(wire, Len(Chunk) + 1, Len(wire))
  <1>1. Wanted \in Nat
    <2>1. CASE state = "sync"
      BY <2>1, Words DEF Wanted
    <2>2. CASE state = "header"
      BY <2>2, Words DEF Wanted
    <2>3. CASE state = "payload"
      <3>1. PICK id \in Ids : packet = {id}
        BY <2>3 DEF ReaderInv
      <3>2. (CHOOSE x \in packet : TRUE) = id
        BY <3>1
      <3>3. Wanted = Length[id]
        BY <2>3, <3>2 DEF Wanted
      <3> QED
        BY <3>3, StreamAssumption
    <2> QED
      BY <2>1, <2>2, <2>3 DEF TypeInv
  <1> DEFINE m == Min({Len(wire), Wanted - Len(got)})
             r == SubSeq(wire, Len(Chunk) + 1, Len(wire))
  <1>2. wire \in Seq(Units) /\ got \in Seq(Units) /\ Len(wire) \in Nat /\ Len(got) \in Nat
    BY DEF TypeInv
  <1>3. m \in Int /\ m <= Len(wire)
    <2>1. \E x \in {Len(wire), Wanted - Len(got)} :
            \A y \in {Len(wire), Wanted - Len(got)} : x <= y
      BY <1>1, <1>2
    <2>2. m \in {Len(wire), Wanted - Len(got)}
          /\ \A y \in {Len(wire), Wanted - Len(got)} : m <= y
      BY <2>1, Zenon DEF Min
    <2> QED
      BY <1>1, <1>2, <2>2
  <1> HIDE DEF m
  <1>4. /\ Chunk \in Seq(Units) /\ Len(Chunk) \in Nat /\ Len(Chunk) <= Len(wire)
        /\ Chunk = SubSeq(wire, 1, Len(Chunk))
    <2>1. Chunk = SubSeq(wire, 1, m)
      BY DEF Chunk, m
    <2>2. CASE m <= 0
      <3>1. Chunk = <<>>
        BY <1>3, <2>1, <2>2, SubSeqEmpty
      <3> QED
        BY <1>2, <3>1
    <2>3. CASE m > 0
      <3>1. Chunk \in Seq(Units) /\ Len(Chunk) = m
        BY <1>2, <1>3, <2>1, <2>3
      <3> QED
        BY <1>3, <2>1, <2>3, <3>1
    <2> QED
      BY <1>3, <2>2, <2>3
  <1>5. r \in Seq(Units) /\ wire = Chunk \o r
    <2>1. SubSeq(wire, 1, Len(Chunk)) \o r = SubSeq(wire, 1, Len(wire))
      <3>1. /\ 1 \in 1 .. Len(wire) + 1
            /\ Len(Chunk) \in 1 - 1 .. Len(wire)
            /\ Len(wire) \in Len(Chunk) .. Len(wire)
        BY <1>2, <1>4
      <3> QED
        BY <1>2, <3>1, ConcatAdjacentSubSeq, Zenon
    <2>2. SubSeq(wire, 1, Len(wire)) = wire
      BY <1>2, SubSeqFull
    <2>3. r \in Seq(Units)
      BY <1>2, <1>4
    <2> QED
      BY <1>4, <2>1, <2>2, <2>3
  <1> HIDE DEF r
  <1>6. Arrived \in Seq(Units) /\ got \o wire = Arrived \o r
    <2>1. Arrived \in Seq(Units)
      BY <1>2, <1>4, ConcatProperties DEF Arrived
    <2>2. (got \o Chunk) \o r = got \o (Chunk \o r)
      BY <1>2, <1>4, <1>5, ConcatAssociative
    <2> QED
      BY <1>5, <2>1, <2>2 DEF Arrived
  <1> QED
    BY <1>1, <1>4, <1>5, <1>6 DEF r

\* What read() returns
LEMMA Delivered ==
  ASSUME TypeInv, NEW id \in Ids, NEW data \in Seq(Units), Deliver(id, data)
  PROVE  /\ received' \in Seq([id : Ids, data : Seq(Units)])
         /\ Len(received') = Len(received) + 1
         /\ \A i \in 1 .. Len(received) : received'[i] = received[i]
         /\ received'[Len(received) + 1] = [id |-> id, data |-> data]
  <1> DEFINE r == [id |-> id, data |-> data]
             R == [id : Ids, data : Seq(Units)]
  <1>1. r \in R
    OBVIOUS
  <1>2. received' = Append(received, r) /\ received \in Seq(R)
    BY DEF Deliver, TypeInv
  <1> HIDE DEF r, R
  <1>3. /\ received' \in Seq(R)
        /\ Len(received') = Len(received) + 1
        /\ \A i \in 1 .. Len(received) : received'[i] = received[i]
        /\ received'[Len(received) + 1] = r
    BY <1>1, <1>2
  <1> QED
    BY <1>3 DEF r, R

LEMMA TypeInit == Init => TypeInv /\ ReaderInv
  <1>1. Init => sending \in [Writers -> Seq(Units)]
    BY EmptySeq, Zenon DEF Init
  <1>2. Init => begun \in Seq(Ids) /\ wire \in Seq(Units) /\ got \in Seq(Units)
               /\ received \in Seq([id : Ids, data : Seq(Units)])
    BY EmptySeq, Zenon DEF Init
  <1> QED
    BY <1>1, <1>2 DEF Init, TypeInv, ReaderInv

LEMMA TypeStep ==
  ASSUME TypeInv, ReaderInv, [Next]_vars
  PROVE  TypeInv' /\ ReaderInv'
  <1> USE DEF TypeInv
  <1>1. ASSUME NEW w \in Writers, NEW id \in Ids, write(w, id)
        PROVE  TypeInv' /\ ReaderInv'
    <2>1. Image(id) \in Seq(Units)
      BY Images, Zenon
    <2>2. sending' \in [Writers -> Seq(Units)]
      BY <1>1, <2>1 DEF write
    <2>3. torn' \in BOOLEAN
      BY <1>1, Zenon DEF write
    <2> QED
      BY <1>1, <2>2, <2>3 DEF write, readVars, ReaderInv
  <1>2. ASSUME NEW w \in Writers, Send(w)
        PROVE  TypeInv' /\ ReaderInv'
    <2>1. PICK n \in 1 .. Len(sending[w]) :
            /\ wire' = wire \o SubSeq(sending[w], 1, n)
            /\ sending' = [sending EXCEPT ![w] = SubSeq(@, n + 1, Len(@))]
      BY <1>2, Zenon DEF Send
    <2>2. sending[w] \in Seq(Units)
      OBVIOUS
    <2>3. /\ SubSeq(sending[w], 1, n) \in Seq(Units)
          /\ SubSeq(sending[w], n + 1, Len(sending[w])) \in Seq(Units)
      BY <2>2
    <2>4. wire' \in Seq(Units) /\ sending' \in [Writers -> Seq(Units)]
      BY <2>1, <2>3
    <2> QED
      BY <1>2, <2>4 DEF Send, readVars, ReaderInv
  <1>3. ASSUME NEW w \in Writers, WriteTimesOut(w)
        PROVE  TypeInv' /\ ReaderInv'
    BY <1>3 DEF WriteTimesOut, readVars, ReaderInv
  <1>4. CASE PeerCloses
    <2>1. sending' \in [Writers -> Seq(Units)]
      BY <1>4, EmptySeq, Zenon DEF PeerCloses
    <2> QED
      BY <1>4, <2>1 DEF PeerCloses, readVars, ReaderInv
  <1>5. CASE read
    BY <1>5 DEF read, ReaderInv
  <1>6. CASE Recv
    <2>1. state # "idle"
      BY <1>6 DEF Recv, Receive, FindSync, ReadHeader, ReadPayload
    <2>2. Arrived \in Seq(Units) /\ wire' \in Seq(Units)
      BY <1>6, <2>1, ChunkSplits DEF Recv
    <2>3. UNCHANGED <<peerOpen, sending, begun, torn>>
      BY <1>6 DEF Recv
    <2>4. CASE Receive
      BY <2>1, <2>2, <2>3, <2>4 DEF Receive, ReaderInv
    <2>5. CASE FindSync
      BY <2>1, <2>2, <2>3, <2>5 DEF FindSync, ReaderInv
    <2>6. CASE ReadHeader
      <3> DEFINE valid == {id \in Ids : Header(id) = SyncWord \o Arrived}
      <3>1. \/ Fail /\ UNCHANGED received
            \/ \E id \in valid : Deliver(id, <<>>)
            \/ \E id \in valid :
                 /\ Length[id] > 0
                 /\ state' = "payload"
                 /\ packet' = {id}
                 /\ got' = <<>>
                 /\ UNCHANGED received
        BY <2>6, Zenon DEF ReadHeader
      <3>2. valid \subseteq Ids
        OBVIOUS
      <3> HIDE DEF valid
      <3>3. received' \in Seq([id : Ids, data : Seq(Units)])
        BY <3>1, <3>2, Delivered, EmptySeq
      <3>4. \/ state' = "idle" /\ got' = <<>>
            \/ /\ state' = "payload" /\ got' = <<>>
               /\ \E id \in Ids : packet' = {id} /\ Length[id] > 0
        BY <3>1, <3>2, Zenon DEF Fail, Deliver
      <3>5. /\ got' = <<>>
            /\ state' \in {"idle", "payload"}
            /\ state' = "payload" => \E id \in Ids : packet' = {id} /\ Length[id] > 0
        BY <3>4
      <3>6. ReaderInv'
        BY <3>5, Zenon DEF ReaderInv
      <3> QED
        BY <2>2, <2>3, <3>3, <3>5, <3>6
    <2>7. CASE ReadPayload
      <3>1. packet \subseteq Ids
        BY <2>7 DEF ReaderInv, ReadPayload
      <3>2. \/ Fail /\ UNCHANGED received
            \/ \E id \in packet : Deliver(id, Arrived)
        BY <2>7, Zenon DEF ReadPayload
      <3>3. received' \in Seq([id : Ids, data : Seq(Units)])
        BY <2>2, <3>1, <3>2, Delivered
      <3>4. got' = <<>> /\ state' = "idle"
        BY <3>2, Zenon DEF Fail, Deliver
      <3>5. ReaderInv'
        BY <3>4 DEF ReaderInv
      <3> QED
        BY <2>2, <2>3, <3>3, <3>4, <3>5
    <2> QED
      BY <1>6, <2>4, <2>5, <2>6, <2>7 DEF Recv
  <1>7. CASE EndOfStream
    BY <1>7 DEF EndOfStream, Fail, ReaderInv
  <1>8. CASE ReadTimesOut
    <2>1. torn' \in BOOLEAN
      BY <1>8, Zenon DEF ReadTimesOut
    <2> QED
      BY <1>8, <2>1 DEF ReadTimesOut, Fail, ReaderInv
  <1>9. CASE UNCHANGED vars
    BY <1>9 DEF vars, readVars, ReaderInv
  <1> QED
    BY <1>1, <1>2, <1>3, <1>4, <1>5, <1>6, <1>7, <1>8, <1>9 DEF Next, Reader

(***************************************************************************)
(* What the units of a packet tell                                         *)
(***************************************************************************)
Begins(a, id) == \A k \in 1 .. Len(Image(id)) : k <= Len(a) => a[k] = Image(id)[k]

LEMMA ImageParts ==
  ASSUME NEW id \in Ids
  PROVE  /\ \A k \in 1 .. WordLen : Image(id)[k] = SyncWord[k]
         /\ \A k \in 1 .. HeaderLen - WordLen : Image(id)[WordLen + k] = Rest(id)[k]
         /\ \A k \in 1 .. HeaderLen : Image(id)[k] = Header(id)[k]
         /\ \A k \in 1 .. Length[id] : Image(id)[HeaderLen + k] = Payload(id)[k]
  <1>1. /\ Header(id) \in Seq(Units) /\ Len(Header(id)) = 4
        /\ Payload(id) \in Seq(Units) /\ Len(Payload(id)) = Length[id]
        /\ Length[id] \in Nat
        /\ SyncWord \in Seq(Units) /\ Len(SyncWord) = 2
        /\ Rest(id) \in Seq(Units) /\ Len(Rest(id)) = 4 - 2
        /\ Header(id) = SyncWord \o Rest(id)
        /\ Image(id) = Header(id) \o Payload(id)
    BY Images, Words
  <1>2. \A k \in 1 .. 4 + Length[id] :
          Image(id)[k] = IF k <= 4 THEN Header(id)[k] ELSE Payload(id)[k - 4]
    BY <1>1, ConcatProperties
  <1>3. \A k \in 1 .. 4 :
          Header(id)[k] = IF k <= 2 THEN SyncWord[k] ELSE Rest(id)[k - 2]
    BY <1>1, ConcatProperties
  <1>4. \A k \in 1 .. 4 : Image(id)[k] = Header(id)[k]
    BY <1>1, <1>2
  <1>5. \A k \in 1 .. Length[id] : Image(id)[4 + k] = Payload(id)[k]
    <2> TAKE k \in 1 .. Length[id]
    <2>1. 4 + k \in 1 .. 4 + Length[id] /\ ~(4 + k <= 4) /\ (4 + k) - 4 = k
      BY <1>1
    <2> QED
      BY <1>2, <2>1
  <1>6. \A k \in 1 .. 2 : Image(id)[k] = SyncWord[k]
    BY <1>3, <1>4
  <1>7. \A k \in 1 .. 4 - 2 : Image(id)[2 + k] = Rest(id)[k]
    <2> TAKE k \in 1 .. 4 - 2
    <2>1. 2 + k \in 1 .. 4 /\ ~(2 + k <= 2) /\ (2 + k) - 2 = k
      OBVIOUS
    <2> QED
      BY <1>3, <1>4, <2>1
  <1> QED
    BY <1>4, <1>5, <1>6, <1>7, Words

LEMMA SyncBegins ==
  ASSUME NEW id \in Ids, NEW a \in Seq(Units), Len(a) = WordLen, Begins(a, id)
  PROVE  a = SyncWord
  <1>1. Len(Image(id)) = HeaderLen + Length[id] /\ Length[id] \in Nat
        /\ SyncWord \in Seq(Units) /\ Len(SyncWord) = WordLen
    BY Images, Zenon
  <1>2. ASSUME NEW k \in 1 .. Len(a)
        PROVE  a[k] = SyncWord[k]
    <2>1. k \in 1 .. Len(Image(id)) /\ k <= Len(a) /\ k \in 1 .. WordLen
      BY <1>1, Words
    <2>2. a[k] = Image(id)[k]
      BY <2>1 DEF Begins
    <2> QED
      BY <2>1, <2>2, ImageParts
  <1> QED
    BY <1>1, <1>2, SeqEqual

LEMMA HeaderBegins ==
  ASSUME NEW id \in Ids, NEW x \in Seq(Units), Len(x) = HeaderLen - WordLen,
         Begins(SyncWord \o x, id)
  PROVE  x = Rest(id)
  <1>1. Len(Image(id)) = HeaderLen + Length[id] /\ Length[id] \in Nat
        /\ SyncWord \in Seq(Units) /\ Len(SyncWord) = WordLen
        /\ Rest(id) \in Seq(Units) /\ Len(Rest(id)) = HeaderLen - WordLen
    BY Images, Zenon
  <1>2. ASSUME NEW k \in 1 .. Len(x)
        PROVE  x[k] = Rest(id)[k]
    <2>1. WordLen + k \in 1 .. Len(Image(id)) /\ k \in 1 .. HeaderLen - WordLen
      BY <1>1, Words
    <2>2. /\ Len(SyncWord \o x) = WordLen + Len(x)
          /\ (SyncWord \o x)[WordLen + k] = x[k]
      <3>1. /\ Len(SyncWord \o x) = Len(SyncWord) + Len(x)
            /\ \A i \in 1 .. Len(SyncWord) + Len(x) :
                 (SyncWord \o x)[i] = IF i <= Len(SyncWord) THEN SyncWord[i]
                                                          ELSE x[i - Len(SyncWord)]
        BY <1>1, ConcatProperties, Zenon
      <3>2. WordLen + k \in 1 .. WordLen + Len(x) /\ ~(WordLen + k <= WordLen)
            /\ (WordLen + k) - WordLen = k
        BY Words
      <3> QED
        BY <1>1, <3>1, <3>2, Zenon
    <2>3. WordLen + k <= Len(SyncWord \o x)
      BY <2>2, Words
    <2>4. (SyncWord \o x)[WordLen + k] = Image(id)[WordLen + k]
      BY <2>1, <2>3 DEF Begins
    <2> QED
      BY <2>1, <2>2, <2>4, ImageParts
  <1> QED
    BY <1>1, <1>2, SeqEqual

LEMMA PayloadBegins ==
  ASSUME NEW id \in Ids, NEW jd \in Ids, NEW x \in Seq(Units),
         Begins(Header(jd) \o x, id)
  PROVE  /\ jd = id
         /\ Len(x) = Length[id] => x = Payload(id)
  <1>1. Len(Image(id)) = HeaderLen + Length[id] /\ Length[id] \in Nat
        /\ Payload(id) \in Seq(Units) /\ Len(Payload(id)) = Length[id]
        /\ Header(jd) \in Seq(Units) /\ Len(Header(jd)) = HeaderLen
        /\ Header(jd) = SyncWord \o Rest(jd)
        /\ SyncWord \in Seq(Units) /\ Len(SyncWord) = WordLen
        /\ Rest(jd) \in Seq(Units) /\ Len(Rest(jd)) = HeaderLen - WordLen
    BY Images, Zenon
  <1> DEFINE h == Header(jd)
             a == h \o x
  <1>2. /\ a \in Seq(Units) /\ Len(a) = HeaderLen + Len(x) /\ Len(x) \in Nat
        /\ \A k \in 1 .. HeaderLen : a[k] = h[k]
        /\ \A k \in 1 .. Len(x) : a[HeaderLen + k] = x[k]
    <2>1. /\ a \in Seq(Units) /\ Len(a) = Len(h) + Len(x)
          /\ \A i \in 1 .. Len(h) + Len(x) : a[i] = IF i <= Len(h) THEN h[i] ELSE x[i - Len(h)]
      <3>1. Header(jd) \in Seq(Units)
        BY <1>1
      <3> HIDE DEF h
      <3>2. h \in Seq(Units)
        BY <3>1 DEF h
      <3> QED
        BY <3>2, ConcatProperties
    <2>2. Len(h) = 4 /\ Len(x) \in Nat
      BY <1>1, Words
    <2> HIDE DEF a, h
    <2>3. \A k \in 1 .. 4 : a[k] = h[k]
      BY <2>1, <2>2
    <2>4. \A k \in 1 .. Len(x) : a[4 + k] = x[k]
      <3> TAKE k \in 1 .. Len(x)
      <3>1. 4 + k \in 1 .. 4 + Len(x) /\ ~(4 + k <= 4) /\ (4 + k) - 4 = k
        BY <2>2
      <3> QED
        BY <2>1, <2>2, <3>1, Zenon
    <2> QED
      BY <2>1, <2>2, <2>3, <2>4, Words
  <1>3. \A k \in 1 .. Len(Image(id)) : k <= Len(a) => a[k] = Image(id)[k]
    BY DEF Begins
  <1> HIDE DEF a
  <1>4. jd = id
    <2>1. h = SyncWord \o Rest(jd)
      BY <1>1
    <2>2. ASSUME NEW k \in 1 .. Len(h)
          PROVE  h[k] = Image(id)[k]
      <3>1. k \in 1 .. HeaderLen /\ k \in 1 .. Len(Image(id)) /\ k <= Len(a)
        BY <1>1, <1>2, Words
      <3> QED
        BY <1>2, <1>3, <3>1
    <2>3. Begins(h, id)
      <3>1. \A k \in 1 .. Len(Image(id)) : k <= Len(h) => k \in 1 .. Len(h)
        BY <1>1, Words
      <3> QED
        BY <2>2, <3>1, Zenon DEF Begins
    <2>4. Rest(jd) = Rest(id)
      BY <1>1, <2>3, HeaderBegins
    <2> QED
      BY <2>4, HeaderOfOne
  <1>5. ASSUME Len(x) = Length[id]
        PROVE  x = Payload(id)
    <2>1. ASSUME NEW k \in 1 .. Len(x)
          PROVE  x[k] = Payload(id)[k]
      <3>1. HeaderLen + k \in 1 .. Len(Image(id)) /\ HeaderLen + k <= Len(a)
            /\ k \in 1 .. Length[id]
        BY <1>1, <1>2, <1>5, Words
      <3>2. a[HeaderLen + k] = Image(id)[HeaderLen + k]
        BY <1>3, <3>1
      <3> QED
        BY <1>2, <3>1, <3>2, ImageParts
    <2> QED
      BY <1>1, <1>5, <2>1, SeqEqual
  <1> QED
    BY <1>4, <1>5

(***************************************************************************)
(* IntactInOrder                                                           *)
(***************************************************************************)

\* What read() has of a packet, besides the buffer of the current socketread()
Pre ==
  CASE state = "header" -> SyncWord
    [] state = "payload" -> Header(CHOOSE id \in packet : TRUE)
    [] OTHER -> <<>>

\* At most one thread is in the middle of a packet.
OneWriter ==
  \A v, w \in Writers : sending[v] # <<>> /\ sending[w] # <<>> => v = w

\* What read() returned is what write() was called for, one after the other.
InOrder ==
  /\ Len(received) <= Len(begun)
  /\ \A i \in 1 .. Len(received) :
       received[i].id = begun[i] /\ received[i].data = Payload(begun[i])

(***************************************************************************)
(* The stream, from where read() has got to, is made of the packets it has *)
(* not returned yet: what it has in its hands, what is on the wire, and    *)
(* the rest that is still to be sent, or that died with the peer.          *)
(***************************************************************************)
Lacks(rest) ==
  /\ rest \in Seq(Units)
  /\ \A w \in Writers : sending[w] # <<>> => rest = sending[w]
  /\ peerOpen /\ (\A w \in Writers : sending[w] = <<>>) => rest = <<>>
  /\ Covers(Pre \o (got \o (wire \o rest)), begun, Len(received))

Unbroken == OneWriter /\ InOrder /\ \E rest : Lacks(rest)

\* Nobody sends on a connection that is gone.
DeadInv == ~peerOpen => \A w \in Writers : sending[w] = <<>>

StreamInv == TypeInv /\ ReaderInv /\ DeadInv /\ (~torn => Unbroken)

LEMMA PreType ==
  ASSUME TypeInv, ReaderInv
  PROVE  /\ Pre \in Seq(Units)
         /\ state \in {"idle", "sync"} => Pre = <<>>
         /\ state = "header" => Pre = SyncWord
         /\ \A id \in Ids : state = "payload" /\ packet = {id} => Pre = Header(id)
  <1>1. state \in {"idle", "sync"} => Pre = <<>>
    BY DEF Pre
  <1>2. state = "header" => Pre = SyncWord
    BY DEF Pre
  <1>3. ASSUME NEW id \in Ids, state = "payload", packet = {id}
        PROVE  Pre = Header(id)
    <2>1. (CHOOSE x \in packet : TRUE) = id
      BY <1>3
    <2> QED
      BY <1>3, <2>1, Zenon DEF Pre
  <1>4. Pre \in Seq(Units)
    <2>1. CASE state \in {"idle", "sync"}
      BY <1>1, <2>1, EmptySeq, Zenon
    <2>2. CASE state = "header"
      <3>1. SyncWord \in Seq(Units)
        BY DEF SyncWord, Units, WordLen
      <3> QED
        BY <1>2, <2>2, <3>1
    <2>3. CASE state = "payload"
      <3>1. PICK id \in Ids : packet = {id}
        BY <2>3 DEF ReaderInv
      <3> QED
        BY <1>3, <2>3, <3>1, Images, Zenon
    <2> QED
      BY <2>1, <2>2, <2>3 DEF TypeInv
  <1> QED
    BY <1>1, <1>2, <1>3, <1>4

\* read() has made nothing of the units it has taken yet.
LEMMA SameStream ==
  ASSUME OneWriter, InOrder, NEW rest, Lacks(rest),
         UNCHANGED <<peerOpen, sending, begun, received>>,
         Pre' \o (got' \o (wire' \o rest)) = Pre \o (got \o (wire \o rest))
  PROVE  Unbroken'
  <1>1. OneWriter' /\ InOrder'
    BY DEF OneWriter, InOrder
  <1>2. Lacks(rest)'
    BY DEF Lacks
  <1> QED
    BY <1>1, <1>2 DEF Unbroken

\* read() returns the next packet of the stream.
LEMMA NextPacket ==
  ASSUME TypeInv, OneWriter, InOrder, NEW rest, Lacks(rest),
         UNCHANGED <<peerOpen, sending, begun>>, wire' \in Seq(Units),
         Len(received) < Len(begun), NEW id \in Ids, id = begun[Len(received) + 1],
         Deliver(id, Payload(id)),
         Pre \o (got \o (wire \o rest)) = Image(id) \o (wire' \o rest)
  PROVE  Unbroken'
  <1>1. /\ Payload(id) \in Seq(Units) /\ Image(id) \in Seq(Units)
        /\ rest \in Seq(Units)
    BY Images, Zenon DEF Lacks
  <1>2. /\ Len(received') = Len(received) + 1
        /\ \A i \in 1 .. Len(received) : received'[i] = received[i]
        /\ received'[Len(received) + 1] = [id |-> id, data |-> Payload(id)]
    BY <1>1, Delivered
  <1>3. Len(received) \in Nat /\ Len(begun) \in Nat /\ begun \in Seq(Ids)
    BY DEF TypeInv
  <1>4. OneWriter'
    BY DEF OneWriter
  <1>5. InOrder'
    <2>1. ASSUME NEW i \in 1 .. Len(received')
          PROVE  received'[i].id = begun[i] /\ received'[i].data = Payload(begun[i])
      <3>1. CASE i = Len(received) + 1
        BY <1>2, <3>1
      <3>2. CASE i # Len(received) + 1
        <4>1. i \in 1 .. Len(received)
          BY <1>2, <1>3, <3>2
        <4> QED
          BY <1>2, <4>1 DEF InOrder
      <3> QED
        BY <3>1, <3>2
    <2> QED
      BY <1>2, <1>3, <2>1 DEF InOrder
  <1>6. Pre' = <<>> /\ got' = <<>>
    BY DEF Deliver, Pre
  <1>7. wire' \o rest \in Seq(Units)
    BY <1>1, ConcatProperties
  <1>8. Pre' \o (got' \o (wire' \o rest)) = wire' \o rest
    BY <1>6, <1>7, ConcatEmptySeq
  <1>9. Covers(wire' \o rest, begun, Len(received) + 1)
    <2>1. Covers(Image(id) \o (wire' \o rest), begun, Len(received))
      BY DEF Lacks
    <2>2. Len(received) \in 0 .. Len(begun)
      BY <1>3
    <2> QED
      BY <1>3, <1>7, <2>1, <2>2, CoversDrop
  <1>10. Lacks(rest)'
    BY <1>2, <1>8, <1>9 DEF Lacks
  <1> QED
    BY <1>4, <1>5, <1>10 DEF Unbroken

\* Concatenation and splitting of sequences of units
LEMMA Assoc ==
  \A s, t, u \in Seq(Units) : (s \o t) \o u = s \o (t \o u)
  <1> TAKE s, t, u \in Seq(Units)
  <1> QED
    BY ConcatAssociative

LEMMA Split ==
  \A s \in Seq(Units) : \A n \in 1 .. Len(s) :
    /\ SubSeq(s, 1, n) \in Seq(Units)
    /\ SubSeq(s, n + 1, Len(s)) \in Seq(Units)
    /\ SubSeq(s, 1, n) \o SubSeq(s, n + 1, Len(s)) = s
  <1> TAKE s \in Seq(Units)
  <1> TAKE n \in 1 .. Len(s)
  <1>1. 1 \in 1 .. Len(s) + 1 /\ n \in 1 - 1 .. Len(s) /\ Len(s) \in n .. Len(s)
    OBVIOUS
  <1>2. SubSeq(s, 1, n) \o SubSeq(s, n + 1, Len(s)) = SubSeq(s, 1, Len(s))
    BY <1>1, ConcatAdjacentSubSeq
  <1>3. SubSeq(s, 1, Len(s)) = s
    BY SubSeqFull
  <1>4. SubSeq(s, 1, n) \in Seq(Units) /\ SubSeq(s, n + 1, Len(s)) \in Seq(Units)
    OBVIOUS
  <1> QED
    BY <1>2, <1>3, <1>4

LEMMA WriteStep ==
  ASSUME TypeInv, ReaderInv, ~torn => Unbroken, NEW w \in Writers, NEW id \in Ids,
         write(w, id), ~torn'
  PROVE  Unbroken'
  <1>1. /\ peerOpen /\ peerOpen' /\ begun' = Append(begun, id)
        /\ sending' = [sending EXCEPT ![w] = Image(id)]
        /\ torn' = (torn \/ \E v \in Writers : sending[v] # <<>>)
        /\ UNCHANGED <<wire, state, got, packet, received>>
    BY DEF write, readVars
  <1>2. ~torn /\ \A v \in Writers : sending[v] = <<>>
    BY <1>1
  <1>3. PICK rest : Lacks(rest)
    BY <1>2 DEF Unbroken
  <1>4. rest = <<>>
    BY <1>1, <1>2, <1>3 DEF Lacks
  <1>5. InOrder /\ OneWriter
    BY <1>2 DEF Unbroken
  <1>6. Image(id) \in Seq(Units) /\ Len(Image(id)) = HeaderLen + Length[id]
        /\ Length[id] \in Nat
    BY Images, Zenon
  <1>7. /\ sending'[w] = Image(id)
        /\ \A v \in Writers : v # w => sending'[v] = <<>>
    BY <1>1, <1>2 DEF TypeInv
  <1>8. OneWriter'
    BY <1>7 DEF OneWriter
  <1>9. /\ Len(begun') = Len(begun) + 1 /\ Len(begun) \in Nat /\ Len(received) \in Nat
        /\ \A i \in 1 .. Len(begun) : begun'[i] = begun[i]
    BY <1>1 DEF TypeInv
  <1>10. InOrder'
    <2>1. Len(received) <= Len(begun')
      BY <1>5, <1>9 DEF InOrder
    <2>2. ASSUME NEW i \in 1 .. Len(received)
          PROVE  received[i].id = begun'[i] /\ received[i].data = Payload(begun'[i])
      <3>1. i \in 1 .. Len(begun)
        BY <1>5, <1>9 DEF InOrder
      <3> QED
        BY <1>5, <1>9, <3>1 DEF InOrder
    <2> QED
      BY <1>1, <2>1, <2>2 DEF InOrder
  <1> DEFINE T == Pre \o (got \o wire)
  <1>11. /\ T \in Seq(Units) /\ T \o Image(id) = Pre \o (got \o (wire \o Image(id)))
         /\ Pre \o (got \o (wire \o <<>>)) = T
    <2>1. Pre \in Seq(Units) /\ got \in Seq(Units) /\ wire \in Seq(Units)
      BY PreType DEF TypeInv
    <2>2. T \in Seq(Units) /\ T \o Image(id) = Pre \o (got \o (wire \o Image(id)))
      <3>1. T \in Seq(Units)
        BY <2>1, ConcatProperties
      <3>2. (got \o wire) \o Image(id) = got \o (wire \o Image(id))
        BY <1>6, <2>1, Assoc, Zenon
      <3>3. got \o wire \in Seq(Units)
        BY <2>1, ConcatProperties
      <3>4. T \o Image(id) = Pre \o ((got \o wire) \o Image(id))
        <4>1. Image(id) \in Seq(Units)
          BY <1>6
        <4>2. Pre \in Seq(Units)
          BY <2>1
        <4> QED
          BY <3>3, <4>1, <4>2, Assoc, ZenonT(30)
      <3> QED
        BY <3>1, <3>2, <3>4, Zenon
    <2>3. wire \o <<>> = wire
      BY <2>1, ConcatEmptySeq
    <2> QED
      BY <2>2, <2>3
  <1>12. Covers(T, begun, Len(received))
    BY <1>3, <1>4, <1>11 DEF Lacks
  <1>13. Covers(T \o Image(id), Append(begun, id), Len(received))
    <2>1. Len(received) \in 0 .. Len(begun)
      BY <1>5, <1>9 DEF InOrder
    <2>2. begun \in Seq(Ids)
      BY DEF TypeInv
    <2> QED
      BY <1>11, <1>12, <2>1, <2>2, CoversAppend
  <1>14. Pre' = Pre
    BY <1>1 DEF Pre
  <1>15. Image(id) # <<>>
    BY <1>6, Words
  <1>16. Lacks(Image(id))'
    <2>1. \A v \in Writers : sending'[v] # <<>> => Image(id) = sending'[v]
      BY <1>7
    <2>2. ~ \A v \in Writers : sending'[v] = <<>>
      BY <1>7, <1>15
    <2> QED
      BY <1>1, <1>6, <1>11, <1>13, <1>14, <2>1, <2>2 DEF Lacks
  <1> QED
    BY <1>8, <1>10, <1>16 DEF Unbroken

LEMMA SendStep ==
  ASSUME TypeInv, ReaderInv, Unbroken, NEW w \in Writers, Send(w)
  PROVE  Unbroken'
  <1>1. PICK n \in 1 .. Len(sending[w]) :
          /\ wire' = wire \o SubSeq(sending[w], 1, n)
          /\ sending' = [sending EXCEPT ![w] = SubSeq(@, n + 1, Len(@))]
    BY Zenon DEF Send
  <1>2. /\ sending[w] # <<>>
        /\ UNCHANGED <<peerOpen, begun, state, got, packet, received>>
    BY DEF Send, readVars
  <1>3. PICK rest : Lacks(rest)
    BY DEF Unbroken
  <1>4. /\ rest = sending[w] /\ sending[w] \in Seq(Units)
        /\ \A v \in Writers : v # w => sending[v] = <<>>
    BY <1>2, <1>3 DEF Lacks, Unbroken, OneWriter, TypeInv
  <1>5. PICK piece \in Seq(Units), more \in Seq(Units) :
          /\ piece = SubSeq(sending[w], 1, n)
          /\ more = SubSeq(sending[w], n + 1, Len(sending[w]))
          /\ piece \o more = rest
    <2> DEFINE all == sending[w]
    <2>1. /\ SubSeq(all, 1, n) \in Seq(Units)
          /\ SubSeq(all, n + 1, Len(all)) \in Seq(Units)
          /\ SubSeq(all, 1, n) \o SubSeq(all, n + 1, Len(all)) = all
      <3>1. all \in Seq(Units) /\ n \in 1 .. Len(all)
        BY <1>4
      <3> HIDE DEF all
      <3> QED
        BY <3>1, Split, ZenonT(30)
    <2> QED
      BY <1>4, <2>1, Zenon
  <1>6. /\ sending'[w] = more
        /\ \A v \in Writers : v # w => sending'[v] = <<>>
    BY <1>1, <1>4, <1>5 DEF TypeInv
  <1>7. wire' = wire \o piece
    BY <1>1, <1>5
  <1>8. OneWriter'
    BY <1>6 DEF OneWriter
  <1>9. InOrder'
    BY <1>2 DEF Unbroken, InOrder
  <1>10. wire' \o more = wire \o rest
    <2>1. wire \in Seq(Units)
      BY DEF TypeInv
    <2> QED
      BY <1>5, <1>7, <2>1, Assoc, Zenon
  <1>11. Pre' = Pre
    BY <1>2 DEF Pre
  <1>12. Lacks(more)'
    <2>1. \A v \in Writers : sending'[v] # <<>> => more = sending'[v]
      BY <1>6
    <2>2. (\A v \in Writers : sending'[v] = <<>>) => more = <<>>
      BY <1>6
    <2>3. Covers(Pre' \o (got' \o (wire' \o more)), begun', Len(received'))
      BY <1>2, <1>3, <1>10, <1>11 DEF Lacks
    <2> QED
      BY <1>5, <2>1, <2>2, <2>3 DEF Lacks
  <1> QED
    BY <1>8, <1>9, <1>12 DEF Unbroken

LEMMA RecvStep ==
  ASSUME TypeInv, ReaderInv, Unbroken, Recv
  PROVE  Unbroken'
  <1>1. PICK rest : Lacks(rest)
    BY DEF Unbroken
  <1>2. /\ OneWriter /\ InOrder /\ rest \in Seq(Units)
        /\ Covers(Pre \o (got \o (wire \o rest)), begun, Len(received))
    BY <1>1 DEF Unbroken, Lacks
  <1>3. state # "idle"
    BY DEF Recv, Receive, FindSync, ReadHeader, ReadPayload
  <1>4. /\ wire' = SubSeq(wire, Len(Chunk) + 1, Len(wire))
        /\ UNCHANGED <<peerOpen, sending, begun>>
    BY DEF Recv
  <1>5. /\ wire' \in Seq(Units) /\ Arrived \in Seq(Units) /\ Wanted \in Nat
        /\ got \o wire = Arrived \o wire'
        /\ wire \in Seq(Units) /\ got \in Seq(Units)
        /\ begun \in Seq(Ids) /\ Len(received) \in Nat
    <2>1. wire \in Seq(Units) /\ got \in Seq(Units) /\ begun \in Seq(Ids)
          /\ Len(received) \in Nat
      BY DEF TypeInv
    <2> QED
      BY <1>3, <1>4, <2>1, ChunkSplits, Zenon
  <1>6. Pre \in Seq(Units)
    BY PreType
  <1> DEFINE z == wire' \o rest
  <1>7. /\ z \in Seq(Units)
        /\ got \o (wire \o rest) = Arrived \o z
        /\ Pre \o (got \o (wire \o rest)) = (Pre \o Arrived) \o z
        /\ Pre \o Arrived \in Seq(Units)
    <2>1. z \in Seq(Units) /\ Pre \o Arrived \in Seq(Units)
      BY <1>2, <1>5, <1>6, ConcatProperties
    <2>2. (got \o wire) \o rest = got \o (wire \o rest)
      BY <1>2, <1>5, Assoc, Zenon
    <2>3. (Arrived \o wire') \o rest = Arrived \o z
      BY <1>2, <1>5, Assoc DEF z
    <2>4. (Pre \o Arrived) \o z = Pre \o (Arrived \o z)
      BY <1>5, <1>6, <2>1, Assoc, Zenon
    <2> QED
      BY <1>5, <2>1, <2>2, <2>3, <2>4
  <1> HIDE DEF z
  <1> DEFINE id == begun[Len(received) + 1]
  <1>8. ASSUME Pre \o Arrived # <<>>
        PROVE  Len(received) < Len(begun) /\ id \in Ids /\ Begins(Pre \o Arrived, id)
    <2>1. Len(received) \in 0 .. Len(begun)
      BY <1>2, <1>5 DEF InOrder
    <2>2. Covers((Pre \o Arrived) \o z, begun, Len(received))
      BY <1>2, <1>7
    <2> QED
      <3> DEFINE a == Pre \o Arrived
      <3>1. a \in Seq(Units) /\ a # <<>> /\ Covers(a \o z, begun, Len(received))
        BY <1>7, <1>8, <2>2
      <3> HIDE DEF a
      <3>2. Len(received) < Len(begun) /\ id \in Ids /\ Begins(a, id)
        BY <1>5, <1>7, <2>1, <3>1, CoversTaken DEF Begins
      <3> QED
        BY <3>2 DEF a
  <1> HIDE DEF id
  <1>9. CASE Receive
    <2>1. got' = Arrived /\ UNCHANGED <<state, packet, received>>
      BY <1>9 DEF Receive
    <2>2. Pre' = Pre
      BY <2>1 DEF Pre
    <2>3. Pre' \o (got' \o (wire' \o rest)) = Pre \o (got \o (wire \o rest))
      BY <1>7, <2>1, <2>2 DEF z
    <2> QED
      BY <1>1, <1>2, <1>4, <2>1, <2>3, SameStream
  <1>10. CASE FindSync
    <2>1. /\ state = "sync" /\ Len(Arrived) = Wanted /\ got' = <<>>
          /\ state' = IF Arrived = SyncWord THEN "header" ELSE "sync"
          /\ UNCHANGED <<packet, received>>
      BY <1>10 DEF FindSync
    <2>2. Pre = <<>> /\ Pre \o Arrived = Arrived /\ Len(Arrived) = WordLen
      <3>1. Pre = <<>> /\ Len(Arrived) = WordLen
        BY <2>1, PreType DEF Wanted
      <3> QED
        BY <1>5, <3>1, ConcatEmptySeq
    <2>3. Arrived # <<>>
      BY <2>2, Words
    <2>4. Arrived = SyncWord
      <3>1. id \in Ids /\ Begins(Arrived, id)
        BY <1>8, <2>2, <2>3
      <3> QED
        BY <1>5, <2>2, <3>1, SyncBegins
    <2>5. Pre' = SyncWord
      BY <2>1, <2>4 DEF Pre
    <2>6. Pre' \o (got' \o (wire' \o rest)) = Pre \o (got \o (wire \o rest))
      <3>1. got' \o z = z
        BY <1>7, <2>1, ConcatEmptySeq
      <3> QED
        BY <1>7, <2>2, <2>4, <2>5, <3>1 DEF z
    <2> QED
      BY <1>1, <1>2, <1>4, <2>1, <2>6, SameStream
  <1>11. CASE ReadHeader
    <2>1. state = "header" /\ Len(Arrived) = Wanted
      BY <1>11 DEF ReadHeader
    <2>2. Pre = SyncWord /\ Len(Arrived) = HeaderLen - WordLen
      BY <2>1, PreType DEF Wanted
    <2>3. Pre \o Arrived # <<>>
      <3>1. Len(Pre \o Arrived) = Len(Pre) + Len(Arrived) /\ Len(Pre) \in Nat
        BY <1>5, <1>6
      <3> QED
        BY <2>2, <3>1, Words
    <2>4. /\ Len(received) < Len(begun) /\ id \in Ids
          /\ Arrived = Rest(id)
      BY <1>5, <1>8, <2>2, <2>3, HeaderBegins
    <2> DEFINE valid == {i \in Ids : Header(i) = SyncWord \o Arrived}
    <2>5. valid = {id}
      <3>1. Header(id) = SyncWord \o Arrived
        BY <2>4, Images
      <3>2. ASSUME NEW i \in Ids, Header(i) = SyncWord \o Arrived
            PROVE  i = id
        <4>1. /\ SyncWord \in Seq(Units) /\ Rest(i) \in Seq(Units)
              /\ Header(i) = SyncWord \o Rest(i)
          BY Images, Zenon
        <4>2. Rest(i) = Arrived
          BY <1>5, <3>2, <4>1, ConcatSimplifications
        <4> QED
          BY <2>4, <4>2, HeaderOfOne
      <3> QED
        BY <2>4, <3>1, <3>2
    <2>6. \/ Length[id] = 0 /\ Deliver(id, <<>>)
          \/ /\ Length[id] > 0
             /\ state' = "payload"
             /\ packet' = {id}
             /\ got' = <<>>
             /\ UNCHANGED received
      <3>1. \/ valid = {}
            \/ \E i \in valid : Length[i] = 0 /\ Deliver(i, <<>>)
            \/ \E i \in valid :
                 /\ Length[i] > 0
                 /\ state' = "payload"
                 /\ packet' = {i}
                 /\ got' = <<>>
                 /\ UNCHANGED received
        BY <1>11, Zenon DEF ReadHeader
      <3> HIDE DEF valid
      <3> QED
        BY <2>5, <3>1
    <2>7. Header(id) = Pre \o Arrived
      BY <2>2, <2>4, Images
    <2>8. CASE Length[id] = 0 /\ Deliver(id, <<>>)
      <3>1. /\ Payload(id) \in Seq(Units) /\ Len(Payload(id)) = Length[id]
            /\ Header(id) \in Seq(Units)
            /\ Image(id) = Header(id) \o Payload(id)
        BY <2>4, Images, Zenon
      <3>2. Payload(id) = <<>>
        BY <2>8, <3>1
      <3>3. Image(id) = Header(id)
        BY <3>1, <3>2, ConcatEmptySeq
      <3>4. Pre \o (got \o (wire \o rest)) = Image(id) \o (wire' \o rest)
        BY <1>7, <2>7, <3>3 DEF z
      <3> QED
        BY <1>1, <1>2, <1>4, <1>5, <2>4, <2>8, <3>2, <3>4, NextPacket DEF id
    <2>9. CASE /\ state' = "payload" /\ packet' = {id} /\ got' = <<>>
               /\ UNCHANGED received
      <3>1. Pre' = Header(id)
        <4>1. (CHOOSE x \in packet' : TRUE) = id
          BY <2>9
        <4> QED
          BY <2>9, <4>1 DEF Pre
      <3>2. got' \o z = z
        BY <1>7, <2>9, ConcatEmptySeq
      <3>3. Pre' \o (got' \o (wire' \o rest)) = Pre \o (got \o (wire \o rest))
        BY <1>7, <2>7, <3>1, <3>2 DEF z
      <3> QED
        BY <1>1, <1>2, <1>4, <2>9, <3>3, SameStream
    <2> QED
      BY <2>6, <2>8, <2>9
  <1>12. CASE ReadPayload
    <2>1. state = "payload" /\ Len(Arrived) = Wanted
      BY <1>12 DEF ReadPayload
    <2>2. PICK jd \in Ids : packet = {jd}
      BY <2>1 DEF ReaderInv
    <2>3. Pre = Header(jd)
      BY <2>1, <2>2, PreType
    <2>4. Len(Arrived) = Length[jd]
      <3>1. (CHOOSE x \in packet : TRUE) = jd
        BY <2>2
      <3> QED
        BY <2>1, <3>1 DEF Wanted
    <2>5. Pre \o Arrived # <<>>
      <3>1. Len(Pre \o Arrived) = Len(Pre) + Len(Arrived) /\ Len(Arrived) \in Nat
        BY <1>5, <1>6
      <3>2. Len(Pre) = HeaderLen
        BY <2>3, Images
      <3> QED
        BY <3>1, <3>2, Words
    <2>6. Len(received) < Len(begun) /\ id \in Ids /\ Begins(Header(jd) \o Arrived, id)
      BY <1>8, <2>3, <2>5
    <2>7. jd = id /\ Arrived = Payload(id)
      BY <1>5, <2>4, <2>6, PayloadBegins
    <2>8. Deliver(id, Payload(id))
      BY <1>12, <2>2, <2>7 DEF ReadPayload
    <2>9. Pre \o (got \o (wire \o rest)) = Image(id) \o (wire' \o rest)
      BY <1>7, <2>3, <2>6, <2>7, Images DEF z
    <2> QED
      BY <1>1, <1>2, <1>4, <1>5, <2>6, <2>8, <2>9, NextPacket DEF id
  <1> QED
    BY <1>9, <1>10, <1>11, <1>12 DEF Recv

LEMMA EndOfStreamStep ==
  ASSUME TypeInv, ReaderInv, DeadInv, Unbroken, EndOfStream
  PROVE  Unbroken'
  <1>1. /\ wire = <<>> /\ ~peerOpen /\ state' = "idle" /\ got' = <<>>
        /\ UNCHANGED <<wire, peerOpen, sending, begun, received>>
    BY DEF EndOfStream, Fail
  <1>2. PICK lost : Lacks(lost)
    BY DEF Unbroken
  <1>3. PICK rest : rest = Pre \o (got \o lost)
    OBVIOUS
  <1>4. lost \in Seq(Units) /\ Pre \in Seq(Units) /\ got \in Seq(Units)
    BY <1>2, PreType DEF Lacks, TypeInv
  <1>5. rest \in Seq(Units)
    <2>1. got \o lost \in Seq(Units)
      BY <1>4, ConcatProperties
    <2> QED
      BY <1>3, <1>4, <2>1, ConcatProperties
  <1>6. <<>> \o lost = lost /\ <<>> \o rest = rest
    BY <1>4, <1>5, ConcatEmptySeq
  <1>7. Pre' = <<>>
    BY <1>1 DEF Pre
  <1>8. Pre' \o (got' \o (wire' \o rest)) = Pre \o (got \o (wire \o lost))
    BY <1>1, <1>3, <1>6, <1>7
  <1>9. Lacks(rest)'
    <2>1. \A w \in Writers : sending[w] = <<>>
      BY <1>1 DEF DeadInv
    <2> QED
      BY <1>1, <1>2, <1>5, <1>8, <2>1 DEF Lacks
  <1>10. OneWriter' /\ InOrder'
    BY <1>1 DEF Unbroken, OneWriter, InOrder
  <1> QED
    BY <1>9, <1>10 DEF Unbroken

LEMMA UnbrokenStep ==
  ASSUME TypeInv, ReaderInv, DeadInv, ~torn => Unbroken, [Next]_vars, ~torn'
  PROVE  Unbroken'
  <1>1. ASSUME NEW w \in Writers, NEW id \in Ids, write(w, id)
        PROVE  Unbroken'
    BY <1>1, WriteStep
  <1>2. ASSUME NEW w \in Writers, Send(w)
        PROVE  Unbroken'
    BY <1>2, SendStep DEF Send
  <1>3. ASSUME NEW w \in Writers, WriteTimesOut(w)
        PROVE  Unbroken'
    BY <1>3 DEF WriteTimesOut
  <1>4. CASE PeerCloses
    <2>1. /\ Unbroken /\ ~peerOpen' /\ \A w \in Writers : sending'[w] = <<>>
          /\ UNCHANGED <<wire, begun, state, got, packet, received>>
      BY <1>4 DEF PeerCloses, readVars
    <2>2. PICK rest : Lacks(rest)
      BY <2>1 DEF Unbroken
    <2>3. Pre' = Pre
      BY <2>1 DEF Pre
    <2>4. Lacks(rest)'
      BY <2>1, <2>2, <2>3 DEF Lacks
    <2> QED
      BY <2>1, <2>4 DEF Unbroken, OneWriter, InOrder
  <1>5. CASE read
    <2>1. /\ state = "idle" /\ state' = "sync"
          /\ UNCHANGED <<wire, peerOpen, sending, begun, torn, got, packet, received>>
      BY <1>5 DEF read
    <2>2. PICK rest : Lacks(rest)
      BY <2>1 DEF Unbroken
    <2>3. Pre' = Pre
      BY <2>1 DEF Pre
    <2> QED
      BY <2>1, <2>2, <2>3, SameStream DEF Unbroken
  <1>6. CASE Recv
    BY <1>6, RecvStep DEF Recv
  <1>7. CASE EndOfStream
    BY <1>7, EndOfStreamStep DEF EndOfStream
  <1>8. CASE ReadTimesOut
    <2>1. /\ ~torn /\ state = "sync" /\ got = <<>> /\ state' = "idle" /\ got' = <<>>
          /\ UNCHANGED <<wire, peerOpen, sending, begun, received>>
      BY <1>8 DEF ReadTimesOut, Fail
    <2>2. PICK rest : Lacks(rest)
      BY <2>1 DEF Unbroken
    <2>3. Pre' = Pre
      BY <2>1 DEF Pre
    <2> QED
      BY <2>1, <2>2, <2>3, SameStream DEF Unbroken
  <1>9. CASE UNCHANGED vars
    <2>1. ~torn /\ UNCHANGED <<wire, peerOpen, sending, begun, state, got, packet, received>>
      BY <1>9 DEF vars, readVars
    <2>2. PICK rest : Lacks(rest)
      BY <2>1 DEF Unbroken
    <2>3. Pre' = Pre
      BY <2>1 DEF Pre
    <2> QED
      BY <2>1, <2>2, <2>3, SameStream DEF Unbroken
  <1> QED
    BY <1>1, <1>2, <1>3, <1>4, <1>5, <1>6, <1>7, <1>8, <1>9 DEF Next, Reader

LEMMA DeadStep ==
  ASSUME TypeInv, DeadInv, [Next]_vars
  PROVE  DeadInv'
  <1>1. ASSUME NEW w \in Writers, NEW id \in Ids, write(w, id)
        PROVE  DeadInv'
    BY <1>1 DEF write, DeadInv
  <1>2. ASSUME NEW w \in Writers, Send(w)
        PROVE  DeadInv'
    BY <1>2 DEF Send, DeadInv
  <1>3. ASSUME NEW w \in Writers, WriteTimesOut(w)
        PROVE  DeadInv'
    BY <1>3 DEF WriteTimesOut, DeadInv, TypeInv
  <1>4. CASE PeerCloses
    BY <1>4 DEF PeerCloses, DeadInv
  <1>5. CASE Reader
    BY <1>5 DEF Reader, read, Recv, EndOfStream, ReadTimesOut, DeadInv
  <1>6. CASE UNCHANGED vars
    BY <1>6 DEF vars, DeadInv
  <1> QED
    BY <1>1, <1>2, <1>3, <1>4, <1>5, <1>6 DEF Next

LEMMA StreamInit == Init => StreamInv
  <1> SUFFICES ASSUME Init
               PROVE  StreamInv
    OBVIOUS
  <1>1. TypeInv /\ ReaderInv
    BY TypeInit
  <1>2. DeadInv /\ OneWriter /\ InOrder
    BY DEF Init, DeadInv, OneWriter, InOrder
  <1>3. Pre \o (got \o (wire \o <<>>)) = <<>>
    BY DEF Init, Pre
  <1>4. Covers(<<>>, <<>>, 0)
    <2> DEFINE at == [i \in 0 .. 0 |-> 0]
    <2>1. CoversAt(<<>>, <<>>, 0, at)
      BY DEF CoversAt
    <2> QED
      BY <2>1 DEF Covers
  <1>5. Lacks(<<>>)
    <2>1. \A w \in Writers : sending[w] = <<>>
      BY DEF Init
    <2>2. begun = <<>> /\ Len(received) = 0
      BY DEF Init
    <2> QED
      BY <1>3, <1>4, <2>1, <2>2, EmptySeq DEF Lacks
  <1> QED
    BY <1>1, <1>2, <1>5 DEF StreamInv, Unbroken

LEMMA StreamInvariant == Spec => []StreamInv
  <1>1. StreamInv /\ [Next]_vars => StreamInv'
    BY TypeStep, DeadStep, UnbrokenStep DEF StreamInv
  <1> QED
    BY <1>1, StreamInit, PTL DEF Spec

\* The packets that read() returned
LEMMA ReceivedType ==
  ASSUME TypeInv
  PROVE  /\ ReceivedIds \in Seq(Ids) /\ Len(ReceivedIds) = Len(received)
         /\ Len(received) \in Nat /\ DOMAIN received = 1 .. Len(received)
         /\ \A i \in 1 .. Len(received) :
              ReceivedIds[i] = received[i].id /\ received[i].id \in Ids
  <1> DEFINE R == [id : Ids, data : Seq(Units)]
  <1>1. received \in Seq(R)
    BY DEF TypeInv
  <1>2. \A r \in R : r.id \in Ids
    OBVIOUS
  <1> HIDE DEF R
  <1>3. /\ Len(received) \in Nat /\ DOMAIN received = 1 .. Len(received)
        /\ \A i \in 1 .. Len(received) : received[i] \in R
    BY <1>1
  <1>4. \A i \in 1 .. Len(received) : received[i].id \in Ids
    BY <1>2, <1>3
  <1>5. /\ ReceivedIds \in [1 .. Len(received) -> Ids]
        /\ \A i \in 1 .. Len(received) : ReceivedIds[i] = received[i].id
    BY <1>4, Zenon DEF ReceivedIds
  <1> QED
    BY <1>3, <1>4, <1>5, FunctionIsSeq

LEMMA StreamIsIntact ==
  ASSUME StreamInv
  PROVE  IntactInOrder
  <1> SUFFICES ASSUME ~torn
               PROVE  /\ IsPrefix(ReceivedIds, begun)
                      /\ \A r \in Range(received) : r.data = Payload(r.id)
                      /\ Drained /\ peerOpen => ReceivedIds = begun
    BY DEF IntactInOrder
  <1>1. /\ Len(received) \in Nat /\ Len(begun) \in Nat /\ begun \in Seq(Ids)
        /\ DOMAIN received = 1 .. Len(received)
        /\ \A i \in 1 .. Len(received) : received[i].id \in Ids
    BY ReceivedType DEF StreamInv, TypeInv
  <1>2. /\ Len(received) <= Len(begun)
        /\ \A i \in 1 .. Len(received) :
             received[i].id = begun[i] /\ received[i].data = Payload(begun[i])
    BY DEF StreamInv, Unbroken, InOrder
  <1>3. /\ ReceivedIds \in Seq(Ids) /\ Len(ReceivedIds) = Len(received)
        /\ \A i \in 1 .. Len(received) : ReceivedIds[i] = begun[i]
    <2>1. ReceivedIds \in [1 .. Len(received) -> Ids]
          /\ \A i \in 1 .. Len(received) : ReceivedIds[i] = received[i].id
      BY <1>1, Zenon DEF ReceivedIds
    <2> QED
      BY <1>1, <1>2, <2>1, FunctionIsSeq
  <1>4. IsPrefix(ReceivedIds, begun)
    <2> DEFINE s == SubSeq(ReceivedIds, 1, Len(ReceivedIds))
               t == SubSeq(begun, 1, Len(ReceivedIds))
    <2>1. /\ s \in Seq(Ids) /\ Len(s) = Len(received)
          /\ \A i \in 1 .. Len(received) : s[i] = ReceivedIds[i]
      BY <1>1, <1>3, SubSeqFull
    <2>2. /\ t \in Seq(Ids) /\ Len(t) = Len(received)
          /\ \A i \in 1 .. Len(received) : t[i] = begun[i]
      BY <1>1, <1>2, <1>3
    <2> HIDE DEF s, t
    <2>3. s = t
      BY <1>3, <2>1, <2>2, SeqEqual
    <2> QED
      BY <1>2, <1>3, <2>3 DEF IsPrefix, s, t
  <1>5. \A r \in Range(received) : r.data = Payload(r.id)
    BY <1>1, <1>2 DEF Range
  <1>6. ASSUME Drained, peerOpen
        PROVE  ReceivedIds = begun
    <2>1. PICK rest : Lacks(rest)
      BY DEF StreamInv, Unbroken
    <2>2. /\ rest = <<>> /\ got = <<>> /\ wire = <<>> /\ state = "idle"
      BY <1>6, <2>1 DEF Lacks, Drained, StreamInv, ReaderInv
    <2>3. Pre \o (got \o (wire \o rest)) = <<>>
      BY <2>2 DEF Pre
    <2>4. Covers(<<>>, begun, Len(received))
      BY <2>1, <2>3 DEF Lacks
    <2>5. Len(received) = Len(begun)
      <3>1. Len(received) \in 0 .. Len(begun) /\ <<>> \in Seq(Units)
        BY <1>1, <1>2
      <3> QED
        BY <1>1, <2>4, <3>1, CoversEnd
    <2> QED
      BY <1>1, <1>3, <2>5, SeqEqual
  <1> QED
    BY <1>4, <1>5, <1>6

(***************************************************************************)
(* As long as no packet is torn, what read() returns is what write() was   *)
(* called for: a prefix of it, in the same order and with the same         *)
(* payload, and all of it once everything is read.  However the kernel     *)
(* cuts the stream into pieces, read() finds every packet where it begins. *)
(***************************************************************************)
THEOREM StreamIsInOrder == Spec => []IntactInOrder
  BY StreamInvariant, StreamIsIntact, PTL

(***************************************************************************)
(* Counting                                                                *)
(***************************************************************************)
Places(s, x) == {i \in DOMAIN s : s[i] = x}

LEMMA OccurrencesType ==
  ASSUME NEW S, NEW s \in Seq(S), NEW x
  PROVE  /\ IsFiniteSet(Places(s, x))
         /\ Occurrences(s, x) = Cardinality(Places(s, x))
         /\ Occurrences(s, x) \in Nat
         /\ (\A i \in 1 .. Len(s) : s[i] # x) => Occurrences(s, x) = 0
         /\ \A i \in 1 .. Len(s) :
              s[i] = x /\ (\A j \in 1 .. Len(s) : s[j] = x => j = i) => Occurrences(s, x) = 1
  <1>1. DOMAIN s = 1 .. Len(s) /\ Len(s) \in Nat
    OBVIOUS
  <1>2. IsFiniteSet(1 .. Len(s))
    BY <1>1, FS_Interval
  <1>3. IsFiniteSet(Places(s, x))
    <2>1. Places(s, x) \in SUBSET (1 .. Len(s))
      BY <1>1 DEF Places
    <2> QED
      BY <1>2, <2>1, FS_Subset
  <1>4. Occurrences(s, x) = Cardinality(Places(s, x))
    BY DEF Occurrences, Places
  <1>5. Occurrences(s, x) \in Nat
    BY <1>3, <1>4, FS_CardinalityType
  <1>6. ASSUME \A i \in 1 .. Len(s) : s[i] # x
        PROVE  Occurrences(s, x) = 0
    <2>1. Places(s, x) = {}
      BY <1>1, <1>6 DEF Places
    <2> QED
      BY <1>4, <2>1, FS_EmptySet
  <1>7. ASSUME NEW i \in 1 .. Len(s), s[i] = x, \A j \in 1 .. Len(s) : s[j] = x => j = i
        PROVE  Occurrences(s, x) = 1
    <2>1. Places(s, x) = {} \cup {i}
      BY <1>1, <1>7 DEF Places
    <2>2. Cardinality({} \cup {i}) = 0 + 1
      BY FS_EmptySet, FS_AddElement
    <2> QED
      BY <1>4, <2>1, <2>2
  <1> QED
    BY <1>3, <1>4, <1>5, <1>6, <1>7

LEMMA OccurrencesConcat ==
  ASSUME NEW S, NEW s \in Seq(S), NEW t \in Seq(S), NEW x
  PROVE  Occurrences(s \o t, x) = Occurrences(s, x) + Occurrences(t, x)
  <1> DEFINE A == Places(s, x)
             B == Places(t, x)
             C == {Len(s) + i : i \in B}
             P == Places(s \o t, x)
  <1>1. /\ Len(s) \in Nat /\ Len(t) \in Nat
        /\ DOMAIN s = 1 .. Len(s) /\ DOMAIN t = 1 .. Len(t)
        /\ s \o t \in Seq(S) /\ DOMAIN (s \o t) = 1 .. Len(s) + Len(t)
    OBVIOUS
  <1>2. \A i \in 1 .. Len(s) + Len(t) :
          (s \o t)[i] = IF i <= Len(s) THEN s[i] ELSE t[i - Len(s)]
    BY ConcatProperties
  <1>3. A \subseteq 1 .. Len(s) /\ B \subseteq 1 .. Len(t)
    BY <1>1 DEF Places
  <1>4. P = A \cup C
    <2>1. ASSUME NEW i \in P
          PROVE  i \in A \cup C
      <3>1. i \in 1 .. Len(s) + Len(t) /\ (s \o t)[i] = x
        BY <1>1 DEF Places
      <3>2. CASE i <= Len(s)
        <4>1. i \in 1 .. Len(s) /\ s[i] = x
          BY <1>1, <1>2, <3>1, <3>2
        <4> QED
          BY <1>1, <4>1 DEF Places
      <3>3. CASE ~(i <= Len(s))
        <4>1. i - Len(s) \in 1 .. Len(t) /\ t[i - Len(s)] = x /\ i = Len(s) + (i - Len(s))
          BY <1>1, <1>2, <3>1, <3>3
        <4>2. i - Len(s) \in B
          BY <1>1, <4>1 DEF Places
        <4> QED
          BY <4>1, <4>2
      <3> QED
        BY <3>2, <3>3
    <2>2. ASSUME NEW i \in A
          PROVE  i \in P
      <3>1. i \in 1 .. Len(s) /\ s[i] = x
        BY <1>1 DEF Places
      <3>2. i \in 1 .. Len(s) + Len(t) /\ (s \o t)[i] = x
        BY <1>1, <1>2, <3>1
      <3> QED
        BY <1>1, <3>2 DEF Places
    <2>3. ASSUME NEW i \in B
          PROVE  Len(s) + i \in P
      <3>1. i \in 1 .. Len(t) /\ t[i] = x
        BY <1>1 DEF Places
      <3>2. Len(s) + i \in 1 .. Len(s) + Len(t) /\ ~(Len(s) + i <= Len(s))
            /\ (Len(s) + i) - Len(s) = i
        BY <1>1, <3>1
      <3>3. (s \o t)[Len(s) + i] = x
        BY <1>2, <3>1, <3>2
      <3> QED
        BY <1>1, <3>2, <3>3 DEF Places
    <2> QED
      BY <2>1, <2>2, <2>3
  <1>5. IsFiniteSet(A) /\ IsFiniteSet(B)
    BY OccurrencesType
  <1>6. IsFiniteSet(C) /\ Cardinality(C) = Cardinality(B)
    <2> DEFINE f == [i \in B |-> Len(s) + i]
    <2>1. f \in Bijection(B, C)
      <3> HIDE DEF B
      <3>1. \A i \in B : i \in Int
        BY <1>3
      <3>2. f \in [B -> C]
        OBVIOUS
      <3>3. \A i, j \in B : f[i] = f[j] => i = j
        BY <1>1, <3>1
      <3>4. \A y \in C : \E i \in B : f[i] = y
        OBVIOUS
      <3> HIDE DEF f, C
      <3> QED
        BY <3>2, <3>3, <3>4, Zenon DEF Bijection, Injection, Surjection, IsInjective
    <2>2. ExistsBijection(B, C)
      BY <2>1, Zenon DEF ExistsBijection
    <2> QED
      BY <1>5, <2>2, FS_Bijection
  <1>7. A \cap C = {}
    BY <1>1, <1>3
  <1> HIDE DEF A, B, C, P
  <1>8. Cardinality(P) = Cardinality(A) + Cardinality(B)
    <2>1. Cardinality(A \cup C) = Cardinality(A) + Cardinality(C) - Cardinality(A \cap C)
      BY <1>5, <1>6, FS_Union
    <2>2. Cardinality(A \cap C) = 0
      BY <1>7, FS_EmptySet
    <2>3. Cardinality(A) \in Nat /\ Cardinality(B) \in Nat
      BY <1>5, FS_CardinalityType
    <2> QED
      BY <1>4, <1>6, <2>1, <2>2, <2>3
  <1> QED
    BY <1>1, <1>8, OccurrencesType DEF A, B, P

(***************************************************************************)
(* OnlySentPackets                                                         *)
(***************************************************************************)

\* The unit of a header that is in the stream once for a packet
HeadUnit(id) == <<"head", id, 1>>

\* The calls of write() for a packet
Calls(id) == Places(begun, id)

\* write() has not sent this unit yet.
Pending(w, id) == \E k \in 1 .. Len(sending[w]) : sending[w][k] = HeadUnit(id)

HeadOnce ==
  \A w \in Writers, id \in Ids :
    \A j, k \in 1 .. Len(sending[w]) :
      sending[w][j] = HeadUnit(id) /\ sending[w][k] = HeadUnit(id) => j = k

\* Packets that were returned, are being read, or have this unit in the stream
Seen(id) ==
  Occurrences(ReceivedIds, id) + (IF state = "payload" /\ packet = {id} THEN 1 ELSE 0)
    + Occurrences(got \o wire, HeadUnit(id))

(***************************************************************************)
(* Every packet that is seen is one that write() was called for: used are  *)
(* the calls whose unit was sent, own the calls of the threads that have   *)
(* it still to send.                                                       *)
(***************************************************************************)
BackedBy(id, used, own) ==
  /\ used \in SUBSET Calls(id)
  /\ Seen(id) <= Cardinality(used)
  /\ \A w \in Writers : Pending(w, id) => own[w] \in Calls(id) \ used
  /\ \A v, w \in Writers :
       Pending(v, id) /\ Pending(w, id) /\ own[v] = own[w] => v = w

Backed(id) == \E used, own : BackedBy(id, used, own)

\* A payload with a checksum is the one that was sent.
CheckedData ==
  \A i \in 1 .. Len(received) :
    received[i].id \in Checked => received[i].data = Payload(received[i].id)

SentInv == HeadOnce /\ (\A id \in Ids : Backed(id)) /\ CheckedData

LEMMA HeadUnits ==
  ASSUME NEW id \in Ids, NEW jd \in Ids
  PROVE  /\ \A k \in 1 .. Len(Image(id)) :
              Image(id)[k] = HeadUnit(jd) => k = WordLen + 1 /\ jd = id
         /\ Rest(id)[1] = HeadUnit(id)
         /\ \A k \in 1 .. HeaderLen - WordLen : Rest(id)[k] = HeadUnit(id) => k = 1
  <1>1. \A k \in 1 .. HeaderLen - WordLen : Rest(id)[k] = <<"head", id, k>>
    BY DEF Rest
  <1>2. ASSUME NEW i \in Ids, NEW k \in 1 .. HeaderLen - WordLen,
               Rest(id)[k] = HeadUnit(i)
        PROVE  k = 1 /\ i = id
    <2>1. <<"head", id, k>> = <<"head", i, 1>>
      BY <1>1, <1>2 DEF HeadUnit
    <2> QED
      BY <2>1
  <1>3. Rest(id)[1] = HeadUnit(id)
    BY <1>1, Words DEF HeadUnit
  <1>4. ASSUME NEW k \in 1 .. Len(Image(id)), Image(id)[k] = HeadUnit(jd)
        PROVE  k = WordLen + 1 /\ jd = id
    <2>1. Len(Image(id)) = HeaderLen + Length[id] /\ Length[id] \in Nat
      BY Images, Zenon
    <2>2. CASE k <= WordLen
      <3>1. k \in 1 .. WordLen
        BY <2>1, <2>2, Words
      <3>2. SyncWord[k] = <<"sync", k>>
        BY <3>1 DEF SyncWord
      <3>3. Image(id)[k] = <<"sync", k>>
        BY <3>1, <3>2, ImageParts
      <3>4. <<"sync", k>> = <<"head", jd, 1>>
        BY <1>4, <3>3 DEF HeadUnit
      <3> QED
        BY <3>4
    <2>3. CASE WordLen < k /\ k <= HeaderLen
      <3>1. k - WordLen \in 1 .. HeaderLen - WordLen /\ WordLen + (k - WordLen) = k
        BY <2>1, <2>3, Words
      <3>2. Rest(id)[k - WordLen] = HeadUnit(jd)
        BY <1>4, <3>1, ImageParts
      <3>3. k - WordLen = 1 /\ jd = id
        BY <1>2, <3>1, <3>2
      <3> QED
        BY <2>1, <3>3, Words
    <2>4. CASE HeaderLen < k
      <3>1. k - HeaderLen \in 1 .. Length[id] /\ HeaderLen + (k - HeaderLen) = k
        BY <2>1, <2>4, Words
      <3>2. PICK j \in 1 .. Length[id] : Payload(id)[j] = HeadUnit(jd)
        BY <1>4, <3>1, ImageParts
      <3>3. Payload(id)[j] = IF id \in Lookalike THEN <<"sync", 1 + ((j - 1) % WordLen)>>
                                                 ELSE <<"data", id, j>>
        BY Zenon DEF Payload
      <3>4. <<"sync", 1 + ((j - 1) % WordLen)>> # <<"head", jd, 1>>
            /\ <<"data", id, j>> # <<"head", jd, 1>>
        <4> HIDE DEF WordLen
        <4> QED
          OBVIOUS
      <3> QED
        BY <3>2, <3>3, <3>4, Zenon DEF HeadUnit
    <2> QED
      BY <2>1, <2>2, <2>3, <2>4, Words
  <1> QED
    BY <1>2, <1>3, <1>4

\* Seen is a number, and what it consists of.
LEMMA SeenType ==
  ASSUME TypeInv, NEW id \in Ids
  PROVE  /\ Seen(id) \in Nat
         /\ Occurrences(ReceivedIds, id) \in Nat
         /\ Occurrences(got \o wire, HeadUnit(id)) \in Nat
         /\ IsFiniteSet(Calls(id))
         /\ \A used \in SUBSET Calls(id) :
              IsFiniteSet(used) /\ Cardinality(used) \in Nat
  <1>1. ReceivedIds \in Seq(Ids) /\ got \o wire \in Seq(Units) /\ begun \in Seq(Ids)
    <2>1. got \in Seq(Units) /\ wire \in Seq(Units) /\ begun \in Seq(Ids)
      BY DEF TypeInv
    <2>2. got \o wire \in Seq(Units)
      BY <2>1, ConcatProperties
    <2> QED
      BY <2>1, <2>2, ReceivedType
  <1>2. /\ Occurrences(ReceivedIds, id) \in Nat
        /\ Occurrences(got \o wire, HeadUnit(id)) \in Nat
        /\ IsFiniteSet(Calls(id))
    BY <1>1, OccurrencesType DEF Calls
  <1>3. \A used \in SUBSET Calls(id) : IsFiniteSet(used) /\ Cardinality(used) \in Nat
    BY <1>2, FS_Subset, FS_CardinalityType
  <1> QED
    BY <1>2, <1>3 DEF Seen

SeenIsNat == \A id \in Ids : Seen(id) \in Nat

LEMMA SeenNat == TypeInv => SeenIsNat
  BY SeenType DEF SeenIsNat

\* Nothing is seen that was not seen before, and nobody has more to send.
LEMMA StillBacked ==
  ASSUME TypeInv, TypeInv', NEW id \in Ids, Backed(id), begun' = begun,
         \A w \in Writers : Pending(w, id)' => Pending(w, id),
         Seen(id)' <= Seen(id)
  PROVE  Backed(id)'
  <1>1. PICK used, own : BackedBy(id, used, own)
    BY DEF Backed
  <1>2. Calls(id)' = Calls(id)
    BY DEF Calls, Places
  <1>3. Seen(id) \in Nat /\ Seen(id)' \in Nat /\ Cardinality(used) \in Nat
    <2>1. TypeInv' => SeenIsNat'
      BY SeenNat, PTL
    <2> QED
      BY <1>1, <2>1, SeenType DEF BackedBy, SeenIsNat
  <1>4. BackedBy(id, used, own)'
    BY <1>1, <1>2, <1>3 DEF BackedBy
  <1> QED
    BY <1>4 DEF Backed

LEMMA SentWrite ==
  ASSUME TypeInv, HeadOnce, \A id \in Ids : Backed(id),
         NEW w \in Writers, NEW id \in Ids, write(w, id)
  PROVE  HeadOnce' /\ \A jd \in Ids : Backed(jd)'
  <1>1. /\ sending[w] = <<>> /\ begun' = Append(begun, id)
        /\ sending' = [sending EXCEPT ![w] = Image(id)]
        /\ UNCHANGED <<wire, state, got, packet, received>>
    BY DEF write, readVars
  <1>2. /\ sending'[w] = Image(id)
        /\ \A v \in Writers : v # w => sending'[v] = sending[v]
    BY <1>1 DEF TypeInv
  <1>3. /\ begun' \in Seq(Ids) /\ Len(begun') = Len(begun) + 1 /\ Len(begun) \in Nat
        /\ \A i \in 1 .. Len(begun) : begun'[i] = begun[i]
        /\ begun'[Len(begun) + 1] = id
        /\ DOMAIN begun = 1 .. Len(begun) /\ DOMAIN begun' = 1 .. Len(begun')
    BY <1>1 DEF TypeInv
  <1>4. HeadOnce'
    <2>1. ASSUME NEW v \in Writers, NEW jd \in Ids,
                 NEW j \in 1 .. Len(sending'[v]), NEW k \in 1 .. Len(sending'[v]),
                 sending'[v][j] = HeadUnit(jd), sending'[v][k] = HeadUnit(jd)
          PROVE  j = k
      <3>1. CASE v = w
        <4>1. j = WordLen + 1 /\ k = WordLen + 1
          BY <1>2, <2>1, <3>1, HeadUnits
        <4> QED
          BY <4>1
      <3>2. CASE v # w
        BY <1>2, <2>1, <3>2 DEF HeadOnce
      <3> QED
        BY <3>1, <3>2
    <2> QED
      BY <2>1 DEF HeadOnce
  <1>5. ASSUME NEW jd \in Ids
        PROVE  Backed(jd)'
    <2>1. PICK used, own : BackedBy(jd, used, own)
      BY DEF Backed
    <2>2. /\ used \in SUBSET Calls(jd)
          /\ Seen(jd) <= Cardinality(used)
          /\ \A v \in Writers : Pending(v, jd) => own[v] \in Calls(jd) \ used
          /\ \A u, v \in Writers :
               Pending(u, jd) /\ Pending(v, jd) /\ own[u] = own[v] => u = v
      BY <2>1 DEF BackedBy
    <2>3. Seen(jd)' = Seen(jd)
      BY <1>1 DEF Seen, ReceivedIds
    <2>4. /\ Calls(jd) \subseteq Calls(jd)'
          /\ Calls(jd) \subseteq 1 .. Len(begun)
          /\ jd = id => Len(begun) + 1 \in Calls(jd)'
      BY <1>3 DEF Calls, Places
    <2>5. \A v \in Writers : v # w => Pending(v, jd)' = Pending(v, jd)
      BY <1>2 DEF Pending
    <2>6. Pending(w, jd)' => jd = id
      BY <1>2, HeadUnits DEF Pending
    <2>7. PICK mine : mine = [v \in Writers |-> IF v = w THEN Len(begun) + 1 ELSE own[v]]
      OBVIOUS
    <2>8. /\ mine[w] = Len(begun) + 1 /\ ~(mine[w] \in Calls(jd))
          /\ \A v \in Writers : v # w => mine[v] = own[v]
      BY <1>3, <2>4, <2>7
    <2>9. ASSUME NEW v \in Writers, Pending(v, jd)'
          PROVE  mine[v] \in Calls(jd)' \ used
      <3>1. CASE v = w
        BY <2>2, <2>4, <2>6, <2>8, <2>9, <3>1
      <3>2. CASE v # w
        BY <2>2, <2>4, <2>5, <2>8, <2>9, <3>2
      <3> QED
        BY <3>1, <3>2
    <2>10. ASSUME NEW u \in Writers, NEW v \in Writers,
                  Pending(u, jd)', Pending(v, jd)', mine[u] = mine[v]
           PROVE  u = v
      <3>1. ASSUME NEW x \in Writers, x # w, Pending(x, jd)'
            PROVE  mine[x] \in Calls(jd)
        BY <2>2, <2>5, <2>8, <3>1
      <3>2. CASE u = w \/ v = w
        BY <2>8, <2>10, <3>1, <3>2
      <3>3. CASE u # w /\ v # w
        BY <2>2, <2>5, <2>8, <2>10, <3>3
      <3> QED
        BY <3>2, <3>3
    <2>11. BackedBy(jd, used, mine)'
      BY <2>2, <2>3, <2>4, <2>9, <2>10 DEF BackedBy
    <2> QED
      BY <2>11 DEF Backed
  <1> QED
    BY <1>4, <1>5

LEMMA SentSend ==
  ASSUME TypeInv, HeadOnce, \A id \in Ids : Backed(id),
         NEW w \in Writers, Send(w)
  PROVE  HeadOnce' /\ \A id \in Ids : Backed(id)'
  <1>1. PICK n \in 1 .. Len(sending[w]) :
          /\ wire' = wire \o SubSeq(sending[w], 1, n)
          /\ sending' = [sending EXCEPT ![w] = SubSeq(@, n + 1, Len(@))]
    BY Zenon DEF Send
  <1>2. UNCHANGED <<begun, state, got, packet, received>>
    BY DEF Send, readVars
  <1>3. sending[w] \in Seq(Units) /\ wire \in Seq(Units) /\ got \in Seq(Units)
    BY DEF TypeInv
  <1>4. PICK all, piece, more \in Seq(Units) :
          /\ all = sending[w]
          /\ piece = SubSeq(all, 1, n)
          /\ more = SubSeq(all, n + 1, Len(all))
    BY <1>3, Split, Zenon
  <1>5. /\ Len(all) \in Nat /\ n \in 1 .. Len(all)
        /\ Len(piece) = n /\ Len(more) = Len(all) - n
        /\ \A k \in 1 .. n : piece[k] = all[k]
        /\ \A k \in 1 .. Len(all) - n : more[k] = all[n + k]
    BY <1>4
  <1>6. /\ wire' = wire \o piece
        /\ sending'[w] = more
        /\ \A v \in Writers : v # w => sending'[v] = sending[v]
    BY <1>1, <1>4 DEF TypeInv
  <1>7. \A id \in Ids : \A j, k \in 1 .. Len(all) :
          all[j] = HeadUnit(id) /\ all[k] = HeadUnit(id) => j = k
    BY <1>4 DEF HeadOnce
  <1>8. HeadOnce'
    <2>1. ASSUME NEW v \in Writers, NEW jd \in Ids,
                 NEW j \in 1 .. Len(sending'[v]), NEW k \in 1 .. Len(sending'[v]),
                 sending'[v][j] = HeadUnit(jd), sending'[v][k] = HeadUnit(jd)
          PROVE  j = k
      <3>1. CASE v = w
        <4>1. n + j \in 1 .. Len(all) /\ n + k \in 1 .. Len(all)
          BY <1>5, <1>6, <3>1
        <4>2. all[n + j] = HeadUnit(jd) /\ all[n + k] = HeadUnit(jd)
          BY <1>5, <1>6, <2>1, <3>1
        <4>3. n + j = n + k
          BY <1>7, <4>1, <4>2
        <4> QED
          BY <1>5, <1>6, <3>1, <4>3
      <3>2. CASE v # w
        BY <1>6, <2>1, <3>2 DEF HeadOnce
      <3> QED
        BY <3>1, <3>2
    <2> QED
      BY <2>1 DEF HeadOnce
  <1>9. ASSUME NEW id \in Ids
        PROVE  Backed(id)'
    <2> DEFINE h == HeadUnit(id)
    <2>1. PICK used, own : BackedBy(id, used, own)
      BY <1>9 DEF Backed
    <2>2. /\ used \in SUBSET Calls(id)
          /\ Seen(id) <= Cardinality(used)
          /\ \A v \in Writers : Pending(v, id) => own[v] \in Calls(id) \ used
          /\ \A u, v \in Writers :
               Pending(u, id) /\ Pending(v, id) /\ own[u] = own[v] => u = v
      BY <2>1 DEF BackedBy
    <2>3. Calls(id)' = Calls(id)
      BY <1>2 DEF Calls, Places
    <2>4. /\ Seen(id)' = Seen(id) + Occurrences(piece, h)
          /\ Seen(id) \in Nat /\ Occurrences(piece, h) \in Nat
      <3>1. got' \o wire' = (got \o wire) \o piece
        <4>1. got' = got
          BY <1>2
        <4>2. got \o (wire \o piece) = (got \o wire) \o piece
          <5>1. got \in Seq(Units) /\ wire \in Seq(Units)
            BY <1>3
          <5> QED
            BY <5>1, Assoc, ZenonT(30)
        <4>3. wire' = wire \o piece
          BY <1>6
        <4> QED
          BY <4>1, <4>2, <4>3, Zenon
      <3>2. got \o wire \in Seq(Units)
        BY <1>3, ConcatProperties
      <3>3. Occurrences(got' \o wire', h) = Occurrences(got \o wire, h) + Occurrences(piece, h)
        <4>1. PICK x : x = got \o wire
          OBVIOUS
        <4>2. Occurrences(x \o piece, h) = Occurrences(x, h) + Occurrences(piece, h)
          BY <3>2, <4>1, OccurrencesConcat
        <4> QED
          BY <3>1, <4>1, <4>2
      <3>4. Occurrences(piece, h) \in Nat
        BY OccurrencesType
      <3>5. /\ ReceivedIds' = ReceivedIds
            /\ (state' = "payload" /\ packet' = {id}) = (state = "payload" /\ packet = {id})
        BY <1>2 DEF ReceivedIds
      <3>6. /\ Seen(id) \in Nat /\ Occurrences(ReceivedIds, id) \in Nat
            /\ Occurrences(got \o wire, h) \in Nat
        BY SeenType
      <3> HIDE DEF h
      <3> QED
        BY <3>3, <3>4, <3>5, <3>6, SMTT(20) DEF Seen, h
    <2>5. \A v \in Writers : v # w => Pending(v, id)' = Pending(v, id)
      BY <1>6 DEF Pending
    <2>6. Pending(w, id)' => Pending(w, id) /\ \A k \in 1 .. Len(piece) : piece[k] # h
      <3> SUFFICES ASSUME NEW j \in 1 .. Len(more), more[j] = h
                   PROVE  Pending(w, id) /\ \A k \in 1 .. Len(piece) : piece[k] # h
        BY <1>6 DEF Pending
      <3>1. n + j \in 1 .. Len(all) /\ all[n + j] = h
        BY <1>5
      <3>2. ASSUME NEW k \in 1 .. Len(piece), piece[k] = h
            PROVE  FALSE
        <4>1. k \in 1 .. Len(all) /\ all[k] = h /\ k <= n /\ n + j > n
          BY <1>5, <3>2
        <4>2. k = n + j
          BY <1>7, <3>1, <4>1
        <4> QED
          BY <1>5, <4>1, <4>2
      <3> QED
        BY <1>4, <3>1, <3>2 DEF Pending
    <2>7. CASE \A k \in 1 .. Len(piece) : piece[k] # h
      <3>1. Occurrences(piece, h) = 0
        BY <2>7, OccurrencesType
      <3>2. Seen(id)' <= Cardinality(used)
        BY <2>2, <2>4, <3>1
      <3>3. \A v \in Writers : Pending(v, id)' => Pending(v, id)
        BY <2>5, <2>6
      <3>4. BackedBy(id, used, own)'
        BY <2>2, <2>3, <3>2, <3>3 DEF BackedBy
      <3> QED
        BY <3>4 DEF Backed
    <2>8. CASE \E k \in 1 .. Len(piece) : piece[k] = h
      <3>1. PICK k \in 1 .. Len(piece) : piece[k] = h
        BY <2>8
      <3>2. Occurrences(piece, h) = 1
        <4>1. ASSUME NEW j \in 1 .. Len(piece), piece[j] = h
              PROVE  j = k
          <5>1. j \in 1 .. Len(all) /\ k \in 1 .. Len(all) /\ all[j] = h /\ all[k] = h
            BY <1>5, <3>1, <4>1
          <5> QED
            BY <1>7, <5>1
        <4> QED
          BY <3>1, <4>1, OccurrencesType
      <3>3. Pending(w, id) /\ ~Pending(w, id)'
        <4>1. k \in 1 .. Len(all) /\ all[k] = h
          BY <1>5, <3>1
        <4> QED
          BY <1>4, <2>6, <3>1, <4>1 DEF Pending
      <3>4. own[w] \in Calls(id) /\ own[w] \notin used
        BY <2>2, <3>3
      <3>5. PICK more_used : more_used = used \cup {own[w]}
        OBVIOUS
      <3>6. more_used \in SUBSET Calls(id) /\ Cardinality(more_used) = Cardinality(used) + 1
        <4>1. IsFiniteSet(used)
          BY <2>2, SeenType
        <4>2. Cardinality(used \cup {own[w]}) = Cardinality(used) + 1
          BY <3>4, <4>1, FS_AddElement
        <4> QED
          BY <2>2, <3>4, <3>5, <4>2
      <3>7. Seen(id)' <= Cardinality(more_used)
        <4>1. Cardinality(used) \in Nat
          BY <2>2, SeenType
        <4> QED
          BY <2>2, <2>4, <3>2, <3>6, <4>1
      <3>8. ASSUME NEW v \in Writers, Pending(v, id)'
            PROVE  Pending(v, id) /\ own[v] \in Calls(id) \ more_used
        <4>1. v # w /\ Pending(v, id)
          BY <2>5, <3>3, <3>8
        <4>2. own[v] # own[w]
          BY <2>2, <3>3, <4>1
        <4> QED
          BY <2>2, <3>5, <4>1, <4>2
      <3>9. BackedBy(id, more_used, own)'
        BY <2>2, <2>3, <3>6, <3>7, <3>8 DEF BackedBy
      <3> QED
        BY <3>9 DEF Backed
    <2> QED
      BY <2>7, <2>8
  <1> QED
    BY <1>8, <1>9

\* A packet that read() returns is counted once.
LEMMA DeliverCounts ==
  ASSUME TypeInv, NEW jd \in Ids, NEW data \in Seq(Units), Deliver(jd, data), NEW id \in Ids
  PROVE  Occurrences(ReceivedIds', id)
           = Occurrences(ReceivedIds, id) + (IF id = jd THEN 1 ELSE 0)
  <1>1. /\ Len(received') = Len(received) + 1
        /\ \A i \in 1 .. Len(received) : received'[i] = received[i]
        /\ received'[Len(received) + 1] = [id |-> jd, data |-> data]
    BY Delivered
  <1>2. /\ ReceivedIds \in Seq(Ids) /\ Len(ReceivedIds) = Len(received)
        /\ Len(received) \in Nat
        /\ \A i \in 1 .. Len(received) :
             ReceivedIds[i] = received[i].id /\ received[i].id \in Ids
    BY ReceivedType
  <1>3. \A i \in 1 .. Len(received) + 1 :
          received'[i].id = (IF i = Len(received) + 1 THEN jd ELSE ReceivedIds[i])
    <2> TAKE i \in 1 .. Len(received) + 1
    <2>1. CASE i = Len(received) + 1
      BY <1>1, <2>1
    <2>2. CASE i # Len(received) + 1
      <3>1. i \in 1 .. Len(received)
        BY <1>2, <2>2
      <3> QED
        BY <1>1, <1>2, <2>2, <3>1
    <2> QED
      BY <2>1, <2>2
  <1>4. /\ ReceivedIds' \in [1 .. Len(received) + 1 -> Ids]
        /\ \A i \in 1 .. Len(received) + 1 :
             ReceivedIds'[i] = IF i = Len(received) + 1 THEN jd ELSE ReceivedIds[i]
    <2>1. ReceivedIds' = [i \in 1 .. Len(received) + 1 |-> received'[i].id]
      BY <1>1 DEF ReceivedIds
    <2>2. \A i \in 1 .. Len(received) + 1 : received'[i].id \in Ids
      <3> TAKE i \in 1 .. Len(received) + 1
      <3>1. i = Len(received) + 1 \/ i \in 1 .. Len(received)
        BY <1>2
      <3> QED
        BY <1>2, <1>3, <3>1
    <2> QED
      BY <1>3, <2>1, <2>2
  <1>5. ReceivedIds' \in Seq(Ids) /\ Len(ReceivedIds') = Len(received) + 1
    BY <1>2, <1>4, FunctionIsSeq
  <1>6. PICK one \in Seq(Ids) : one = <<jd>>
    <2>1. <<jd>> \in Seq(Ids)
      OBVIOUS
    <2> QED
      BY <2>1
  <1>7. ReceivedIds' = ReceivedIds \o one
    <2>1. /\ ReceivedIds \o one \in Seq(Ids)
          /\ Len(ReceivedIds \o one) = Len(received) + 1
          /\ \A i \in 1 .. Len(received) : (ReceivedIds \o one)[i] = ReceivedIds[i]
          /\ (ReceivedIds \o one)[Len(received) + 1] = jd
      BY <1>2, <1>6
    <2>2. ASSUME NEW i \in 1 .. Len(received) + 1
          PROVE  ReceivedIds'[i] = (ReceivedIds \o one)[i]
      <3>1. i = Len(received) + 1 \/ i \in 1 .. Len(received)
        BY <1>2
      <3> QED
        BY <1>2, <1>4, <2>1, <3>1
    <2> QED
      BY <1>5, <2>1, <2>2, SeqEqual
  <1>8. Occurrences(ReceivedIds \o one, id) = Occurrences(ReceivedIds, id) + Occurrences(one, id)
    BY <1>2, <1>6, OccurrencesConcat
  <1>9. Occurrences(one, id) = IF id = jd THEN 1 ELSE 0
    <2>1. Len(one) = 1 /\ one[1] = jd
      BY <1>6
    <2>2. CASE id = jd
      <3>1. 1 \in 1 .. Len(one) /\ \A j \in 1 .. Len(one) : j = 1
        BY <2>1
      <3> QED
        BY <2>1, <2>2, <3>1, OccurrencesType
    <2>3. CASE id # jd
      BY <2>1, <2>3, OccurrencesType
    <2> QED
      BY <2>2, <2>3
  <1> QED
    BY <1>7, <1>8, <1>9

LEMMA SentRecv ==
  ASSUME TypeInv, TypeInv', ReaderInv, CheckedData, \A id \in Ids : Backed(id), Recv
  PROVE  CheckedData' /\ \A id \in Ids : Backed(id)'
  <1>1. state # "idle"
    BY DEF Recv, Receive, FindSync, ReadHeader, ReadPayload
  <1>2. /\ wire' = SubSeq(wire, Len(Chunk) + 1, Len(wire))
        /\ begun' = begun /\ sending' = sending
    BY DEF Recv
  <1>3. /\ wire' \in Seq(Units) /\ Arrived \in Seq(Units)
        /\ got \o wire = Arrived \o wire'
    BY <1>1, <1>2, ChunkSplits, Zenon
  <1>4. \A id \in Ids :
          Occurrences(got \o wire, HeadUnit(id))
            = Occurrences(Arrived, HeadUnit(id)) + Occurrences(wire', HeadUnit(id))
    BY <1>3, OccurrencesConcat
  <1>5. \A id \in Ids :
          /\ Occurrences(Arrived, HeadUnit(id)) \in Nat
          /\ Occurrences(wire', HeadUnit(id)) \in Nat
          /\ Occurrences(ReceivedIds, id) \in Nat
    BY <1>3, OccurrencesType, SeenType
  <1>6. <<>> \o wire' = wire'
    BY <1>3, ConcatEmptySeq
  <1>7. ASSUME Fail, UNCHANGED received
        PROVE  CheckedData' /\ \A id \in Ids : Seen(id)' <= Seen(id)
    <2>1. state' = "idle" /\ got' = <<>> /\ received' = received
      BY <1>7 DEF Fail
    <2>2. CheckedData' /\ ReceivedIds' = ReceivedIds
      BY <2>1 DEF CheckedData, ReceivedIds
    <2>3. ASSUME NEW id \in Ids
          PROVE  Seen(id)' <= Seen(id)
      BY <1>4, <1>5, <1>6, <2>1, <2>2 DEF Seen
    <2> QED
      BY <2>2, <2>3
  <1>8. ASSUME NEW jd \in Ids, NEW data \in Seq(Units), Deliver(jd, data),
               jd \in Checked => data = Payload(jd),
               \/ state = "payload" /\ packet = {jd}
               \/ state = "header" /\ Occurrences(Arrived, HeadUnit(jd)) = 1
        PROVE  CheckedData' /\ \A id \in Ids : Seen(id)' <= Seen(id)
    <2>1. state' = "idle" /\ got' = <<>>
      BY <1>8 DEF Deliver
    <2>2. CheckedData'
      <3>1. /\ Len(received') = Len(received) + 1 /\ Len(received) \in Nat
            /\ \A i \in 1 .. Len(received) : received'[i] = received[i]
            /\ received'[Len(received) + 1] = [id |-> jd, data |-> data]
        BY <1>8, Delivered, ReceivedType
      <3>2. ASSUME NEW i \in 1 .. Len(received'), received'[i].id \in Checked
            PROVE  received'[i].data = Payload(received'[i].id)
        <4>1. CASE i = Len(received) + 1
          BY <1>8, <3>1, <3>2, <4>1
        <4>2. CASE i # Len(received) + 1
          <5>1. i \in 1 .. Len(received)
            BY <3>1, <4>2
          <5> QED
            BY <3>1, <3>2, <5>1 DEF CheckedData
        <4> QED
          BY <4>1, <4>2
      <3> QED
        BY <3>2 DEF CheckedData
    <2>3. ASSUME NEW id \in Ids
          PROVE  Seen(id)' <= Seen(id)
      <3>1. Occurrences(ReceivedIds', id)
              = Occurrences(ReceivedIds, id) + (IF id = jd THEN 1 ELSE 0)
        BY <1>8, DeliverCounts
      <3>2. Seen(id)' = Occurrences(ReceivedIds', id) + 0 + Occurrences(wire', HeadUnit(id))
        BY <1>6, <2>1 DEF Seen, HeadUnit
      <3>3. CASE id = jd
        BY <1>4, <1>5, <1>8, <3>1, <3>2, <3>3 DEF Seen
      <3>4. CASE id # jd
        BY <1>4, <1>5, <3>1, <3>2, <3>4 DEF Seen
      <3> QED
        BY <3>3, <3>4
    <2> QED
      BY <2>2, <2>3
  <1>9. CheckedData' /\ \A id \in Ids : Seen(id)' <= Seen(id)
    <2>1. CASE Receive
      <3>1. got' = Arrived /\ UNCHANGED <<state, packet, received>>
        BY <2>1 DEF Receive
      <3>2. CheckedData' /\ ReceivedIds' = ReceivedIds
        BY <3>1 DEF CheckedData, ReceivedIds
      <3>3. \A id \in Ids : Seen(id)' = Seen(id)
        BY <1>3, <3>1, <3>2 DEF Seen, HeadUnit
      <3> QED
        BY <3>2, <3>3, SeenType
    <2>2. CASE FindSync
      <3>1. /\ state = "sync" /\ got' = <<>> /\ state' \in {"sync", "header"}
            /\ UNCHANGED <<packet, received>>
        BY <2>2 DEF FindSync
      <3>2. CheckedData' /\ ReceivedIds' = ReceivedIds
        BY <3>1 DEF CheckedData, ReceivedIds
      <3>3. ASSUME NEW id \in Ids
            PROVE  Seen(id)' <= Seen(id)
        BY <1>4, <1>5, <1>6, <3>1, <3>2 DEF Seen
      <3> QED
        BY <3>2, <3>3
    <2>3. CASE ReadHeader
      <3>1. state = "header" /\ Len(Arrived) = Wanted
        BY <2>3 DEF ReadHeader
      <3>2. \/ Fail /\ UNCHANGED received
            \/ \E jd \in Ids :
                 /\ Header(jd) = SyncWord \o Arrived
                 /\ \/ Length[jd] = 0 /\ Deliver(jd, <<>>)
                    \/ /\ state' = "payload"
                       /\ packet' = {jd}
                       /\ got' = <<>>
                       /\ UNCHANGED received
        BY <2>3, Zenon DEF ReadHeader
      <3>3. ASSUME NEW jd \in Ids, Header(jd) = SyncWord \o Arrived
            PROVE  Occurrences(Arrived, HeadUnit(jd)) = 1
        <4>1. /\ SyncWord \in Seq(Units) /\ Rest(jd) \in Seq(Units)
              /\ Header(jd) = SyncWord \o Rest(jd)
              /\ Len(Rest(jd)) = HeaderLen - WordLen
          BY Images, Zenon
        <4>2. Arrived = Rest(jd)
          BY <1>3, <3>3, <4>1, ConcatSimplifications
        <4>3. 1 \in 1 .. Len(Rest(jd))
          BY <4>1, Words
        <4> QED
          BY <4>1, <4>2, <4>3, HeadUnits, OccurrencesType
      <3>4. ASSUME NEW jd \in Ids, Header(jd) = SyncWord \o Arrived,
                   Length[jd] = 0, Deliver(jd, <<>>)
            PROVE  CheckedData' /\ \A id \in Ids : Seen(id)' <= Seen(id)
        <4>1. Payload(jd) = <<>>
          <5>1. Payload(jd) \in Seq(Units) /\ Len(Payload(jd)) = 0
            BY <3>4, Images
          <5> QED
            BY <5>1
        <4> QED
          BY <1>8, <3>1, <3>3, <3>4, <4>1, EmptySeq
      <3>5. ASSUME NEW jd \in Ids, Header(jd) = SyncWord \o Arrived,
                   state' = "payload", packet' = {jd}, got' = <<>>, UNCHANGED received
            PROVE  CheckedData' /\ \A id \in Ids : Seen(id)' <= Seen(id)
        <4>1. CheckedData' /\ ReceivedIds' = ReceivedIds
          BY <3>5 DEF CheckedData, ReceivedIds
        <4>2. Occurrences(Arrived, HeadUnit(jd)) = 1
          BY <3>3, <3>5
        <4>3. ASSUME NEW id \in Ids
              PROVE  Seen(id)' <= Seen(id)
          <5>1. Seen(id)' = Occurrences(ReceivedIds, id) + (IF id = jd THEN 1 ELSE 0)
                              + Occurrences(wire', HeadUnit(id))
            BY <1>6, <3>5, <4>1 DEF Seen, HeadUnit
          <5>2. Seen(id) = Occurrences(ReceivedIds, id) + 0
                             + (Occurrences(Arrived, HeadUnit(id)) + Occurrences(wire', HeadUnit(id)))
            BY <1>4, <3>1 DEF Seen
          <5> QED
            BY <1>5, <4>2, <5>1, <5>2
        <4> QED
          BY <4>1, <4>3
      <3> QED
        BY <1>7, <3>2, <3>4, <3>5
    <2>4. CASE ReadPayload
      <3>1. state = "payload"
        BY <2>4 DEF ReadPayload
      <3>2. PICK jd \in Ids : packet = {jd}
        BY <3>1 DEF ReaderInv
      <3>3. \/ Fail /\ UNCHANGED received
            \/ (jd \in Checked => Arrived = Payload(jd)) /\ Deliver(jd, Arrived)
        BY <2>4, <3>2 DEF ReadPayload
      <3> QED
        BY <1>3, <1>7, <1>8, <3>1, <3>2, <3>3
    <2> QED
      BY <2>1, <2>2, <2>3, <2>4 DEF Recv
  <1>10. ASSUME NEW id \in Ids
         PROVE  Backed(id)'
    <2>1. \A w \in Writers : Pending(w, id)' => Pending(w, id)
      BY <1>2 DEF Pending
    <2> QED
      BY <1>2, <1>9, <2>1, StillBacked
  <1> QED
    BY <1>9, <1>10

LEMMA SentStep ==
  ASSUME TypeInv, ReaderInv, SentInv, [Next]_vars
  PROVE  SentInv'
  <1>1. TypeInv'
    BY TypeStep
  <1>2. /\ HeadOnce /\ CheckedData /\ \A id \in Ids : Backed(id)
        /\ \A id \in Ids : Seen(id) \in Nat
    BY SeenType DEF SentInv
  <1>3. ASSUME sending' = sending, begun' = begun, received' = received,
               \A id \in Ids : Seen(id)' <= Seen(id)
        PROVE  SentInv'
    <2>1. HeadOnce' /\ CheckedData'
      BY <1>2, <1>3 DEF HeadOnce, CheckedData
    <2>2. \A w \in Writers, id \in Ids : Pending(w, id)' => Pending(w, id)
      BY <1>3 DEF Pending
    <2>3. \A id \in Ids : Backed(id)'
      BY <1>1, <1>2, <1>3, <2>2, StillBacked
    <2> QED
      BY <2>1, <2>3 DEF SentInv
  <1>4. ASSUME sending' = [w \in Writers |-> <<>>] \/
               \E w \in Writers : sending' = [sending EXCEPT ![w] = <<>>],
               UNCHANGED <<wire, begun, state, got, packet, received>>
        PROVE  SentInv'
    <2>1. \A w \in Writers : sending'[w] = sending[w] \/ sending'[w] = <<>>
      BY <1>4 DEF TypeInv
    <2>2. ASSUME NEW w \in Writers, Len(sending'[w]) > 0
          PROVE  sending'[w] = sending[w]
      <3>1. Len(<<>>) = 0
        OBVIOUS
      <3> QED
        BY <2>1, <2>2, <3>1
    <2>3. \A w \in Writers : \A k \in 1 .. Len(sending'[w]) : sending'[w] = sending[w]
      <3> TAKE w \in Writers
      <3> TAKE k \in 1 .. Len(sending'[w])
      <3>1. sending'[w] \in Seq(Units)
        BY <1>1 DEF TypeInv
      <3>2. Len(sending'[w]) > 0
        BY <3>1
      <3> QED
        BY <2>2, <3>2
    <2>4. HeadOnce'
      BY <1>2, <2>3 DEF HeadOnce
    <2>5. \A w \in Writers, id \in Ids : Pending(w, id)' => Pending(w, id)
      BY <2>3 DEF Pending
    <2>6. CheckedData' /\ ReceivedIds' = ReceivedIds
      BY <1>2, <1>4 DEF CheckedData, ReceivedIds
    <2>7. \A id \in Ids : Seen(id)' = Seen(id)
      BY <1>4, <2>6 DEF Seen, HeadUnit
    <2>8. \A id \in Ids : Backed(id)'
      <3>1. \A id \in Ids : Seen(id)' <= Seen(id)
        BY <1>2, <2>7
      <3> QED
        BY <1>1, <1>2, <1>4, <2>5, <3>1, StillBacked
    <2> QED
      BY <2>4, <2>6, <2>8 DEF SentInv
  <1>5. ASSUME wire = <<>>, Fail, UNCHANGED <<wire, sending, begun, received>>
        PROVE  SentInv'
    <2>1. state' = "idle" /\ got' = <<>> /\ wire' = <<>> /\ received' = received
      BY <1>5 DEF Fail
    <2>2. ReceivedIds' = ReceivedIds
      BY <2>1 DEF ReceivedIds
    <2>3. ASSUME NEW id \in Ids
          PROVE  Seen(id)' <= Seen(id)
      <3>1. got' \o wire' = <<>>
        BY <2>1
      <3>2. Occurrences(<<>>, HeadUnit(id)) = 0
        <4>1. <<>> \in Seq(Units) /\ \A i \in 1 .. Len(<<>>) : FALSE
          OBVIOUS
        <4> QED
          BY <4>1, OccurrencesType
      <3>3. Seen(id)' = Occurrences(ReceivedIds, id) + 0 + 0
        BY <2>1, <2>2, <3>1, <3>2 DEF Seen, HeadUnit
      <3>4. /\ Occurrences(ReceivedIds, id) \in Nat
            /\ Occurrences(got \o wire, HeadUnit(id)) \in Nat
        BY SeenType
      <3> QED
        BY <3>3, <3>4 DEF Seen
    <2> QED
      BY <1>3, <1>5, <2>1, <2>3
  <1>6. ASSUME NEW w \in Writers, NEW id \in Ids, write(w, id)
        PROVE  SentInv'
    <2>1. CheckedData'
      BY <1>2, <1>6 DEF write, readVars, CheckedData
    <2> QED
      BY <1>2, <1>6, <2>1, SentWrite DEF SentInv
  <1>7. ASSUME NEW w \in Writers, Send(w)
        PROVE  SentInv'
    <2>1. CheckedData'
      BY <1>2, <1>7 DEF Send, readVars, CheckedData
    <2> QED
      BY <1>2, <1>7, <2>1, SentSend DEF SentInv
  <1>8. ASSUME NEW w \in Writers, WriteTimesOut(w)
        PROVE  SentInv'
    BY <1>4, <1>8 DEF WriteTimesOut, readVars
  <1>9. CASE PeerCloses
    BY <1>4, <1>9 DEF PeerCloses, readVars
  <1>10. CASE read
    <2>1. /\ state = "idle" /\ state' = "sync"
          /\ UNCHANGED <<wire, sending, begun, got, packet, received>>
      BY <1>10 DEF read
    <2>2. ReceivedIds' = ReceivedIds
      BY <2>1 DEF ReceivedIds
    <2>3. \A id \in Ids : Seen(id)' = Seen(id)
      BY <2>1, <2>2 DEF Seen, HeadUnit
    <2> QED
      BY <1>2, <1>3, <2>1, <2>3
  <1>11. CASE Recv
    <2>1. HeadOnce'
      BY <1>2, <1>11 DEF Recv, HeadOnce
    <2> QED
      BY <1>1, <1>2, <1>11, <2>1, SentRecv DEF SentInv
  <1>12. CASE EndOfStream
    BY <1>5, <1>12 DEF EndOfStream
  <1>13. CASE ReadTimesOut
    BY <1>5, <1>13 DEF ReadTimesOut
  <1>14. CASE UNCHANGED vars
    <2>1. UNCHANGED <<wire, sending, begun, state, got, packet, received>>
      BY <1>14 DEF vars, readVars
    <2>2. ReceivedIds' = ReceivedIds
      BY <2>1 DEF ReceivedIds
    <2>3. \A id \in Ids : Seen(id)' = Seen(id)
      BY <2>1, <2>2 DEF Seen, HeadUnit
    <2> QED
      BY <1>2, <1>3, <2>1, <2>3
  <1> QED
    BY <1>6, <1>7, <1>8, <1>9, <1>10, <1>11, <1>12, <1>13, <1>14 DEF Next, Reader

LEMMA SentInit == Init => SentInv
  <1> SUFFICES ASSUME Init
               PROVE  SentInv
    OBVIOUS
  <1>1. /\ begun = <<>> /\ received = <<>> /\ got \o wire = <<>> /\ state = "idle"
        /\ \A w \in Writers : Len(sending[w]) = 0
    BY DEF Init
  <1>2. HeadOnce /\ CheckedData
    BY <1>1 DEF HeadOnce, CheckedData
  <1>3. ASSUME NEW id \in Ids
        PROVE  Backed(id)
    <2>1. <<>> \in Seq(Units) /\ \A i \in 1 .. Len(<<>>) : FALSE
      OBVIOUS
    <2>2. Occurrences(<<>>, HeadUnit(id)) = 0 /\ Occurrences(<<>>, id) = 0
      BY <2>1, OccurrencesType, EmptySeq
    <2>3. ReceivedIds = <<>>
      BY <1>1 DEF ReceivedIds
    <2>4. Seen(id) = 0
      BY <1>1, <2>2, <2>3 DEF Seen
    <2>5. Cardinality({}) = 0
      BY FS_EmptySet
    <2>6. \A w \in Writers : ~Pending(w, id)
      BY <1>1 DEF Pending
    <2>7. BackedBy(id, {}, <<>>)
      BY <2>4, <2>5, <2>6 DEF BackedBy
    <2> QED
      BY <2>7 DEF Backed
  <1> QED
    BY <1>2, <1>3 DEF SentInv

LEMMA SentInvariant == Spec => [](StreamInv /\ SentInv)
  <1>1. StreamInv /\ SentInv /\ [Next]_vars => SentInv'
    BY SentStep DEF StreamInv
  <1> QED
    BY <1>1, SentInit, StreamInvariant, PTL DEF Spec

(***************************************************************************)
(* However the packets of several threads are mixed, cut off and repeated  *)
(* on the socket, read() returns a packet at most as often as write() was  *)
(* called for it, and with another payload only if a packet was torn and   *)
(* its payload has no checksum.                                            *)
(***************************************************************************)
THEOREM OnlySent == Spec => []OnlySentPackets
  <1>1. ASSUME StreamInv, SentInv
        PROVE  OnlySentPackets
    <2>1. TypeInv
      BY <1>1 DEF StreamInv
    <2>2. ASSUME NEW id \in Ids
          PROVE  Occurrences(ReceivedIds, id) <= Occurrences(begun, id)
      <3>1. PICK used, own : BackedBy(id, used, own)
        BY <1>1 DEF SentInv, Backed
      <3>2. used \in SUBSET Calls(id) /\ Seen(id) <= Cardinality(used)
        BY <3>1 DEF BackedBy
      <3>3. /\ Occurrences(ReceivedIds, id) \in Nat
            /\ Occurrences(got \o wire, HeadUnit(id)) \in Nat
            /\ Seen(id) \in Nat /\ Cardinality(used) \in Nat
            /\ IsFiniteSet(Calls(id))
        BY <2>1, <3>2, SeenType
      <3>4. Occurrences(ReceivedIds, id) <= Seen(id)
        BY <3>3 DEF Seen
      <3>5. Cardinality(used) <= Cardinality(Calls(id)) /\ Cardinality(Calls(id)) \in Nat
        BY <3>2, <3>3, FS_Subset, FS_CardinalityType
      <3>6. Cardinality(Calls(id)) = Occurrences(begun, id)
        BY DEF Calls, Places, Occurrences
      <3> QED
        BY <3>2, <3>3, <3>4, <3>5, <3>6
    <2>3. ASSUME NEW r \in Range(received), r.data # Payload(r.id)
          PROVE  torn /\ r.id \notin Checked
      <3>1. torn
        BY <1>1, <2>3, StreamIsIntact DEF IntactInOrder
      <3>2. PICK i \in 1 .. Len(received) : r = received[i]
        BY <2>1, ReceivedType DEF Range
      <3> QED
        BY <1>1, <2>3, <3>1, <3>2 DEF SentInv, CheckedData
    <2> QED
      BY <2>2, <2>3 DEF OnlySentPackets
  <1> QED
    BY <1>1, SentInvariant, PTL

===============================================================================
