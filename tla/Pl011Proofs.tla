---------------------------- MODULE Pl011Proofs ----------------------------
(***************************************************************************)
(* usr/pl011/pl011.c, for rings, FIFOs and texts of every size: the ring   *)
(* between rxrb_push and rxrb_pop is a queue that forgets its oldest byte, *)
(* what the client reads is in the order of arrival, and the wire shows    *)
(* what uart_write_nonblocking said it took.                               *)
(***************************************************************************)
EXTENDS Pl011, SequenceTheorems, WellFoundedInduction, TLAPS

-----------------------------------------------------------------------------
(* Numbers and sequences.                                                  *)

(* A set of numbers has a least one: it stands in for induction in the       *)
(* lemmas about FlattenSeq, with which Expand makes the lines of a text. *)
LEMMA LeastElement ==
  ASSUME NEW S \in SUBSET Nat, S # {}
  PROVE  \E x \in S : \A i \in S : x <= i
<1> DEFINE less == {p \in Nat \X Nat : p[1] < p[2]}
<1>1. IsWellFoundedOn(less, Nat)
  BY NatLessThanWellFounded, Zenon DEF OpToRel
<1>2. PICK x \in S : \A y \in S : <<y, x>> \notin less
  <2> HIDE DEF less
  <2> QED BY <1>1, WFMin
<1>3. ASSUME NEW y \in S PROVE x <= y
  <2>1. <<y, x>> \in Nat \X Nat /\ <<y, x>>[1] = y /\ <<y, x>>[2] = x
    OBVIOUS
  <2>2. ~ (y < x)
    BY <1>2, <2>1
  <2> QED BY <2>2
<1> QED BY <1>3


(* f joins the first n sequences of S, one after the other: the function    *)
(* FlattenSeq chooses.                                                       *)
Joins(f, S, n) == f = [i \in 1 .. n |-> IF i = 1 THEN S[i] ELSE f[i - 1] \o S[i]]

(* The joined sequences are the last value of that function.                 *)
LEMMA FlatDef == ASSUME NEW S, Len(S) # 0
  PROVE FlattenSeq(S) = (CHOOSE f : Joins(f, S, Len(S)))[Len(S)]
BY Zenon DEF FlattenSeq, Joins

(* No text, nothing on the wire.                                             *)
LEMMA NothingFlat == FlattenSeq(<< >>) = << >>
<1>1. Len(<< >>) = 0
  BY EmptySeq
<1> QED BY <1>1 DEF FlattenSeq

(* Every value is the one before it and one sequence more.                   *)
LEMMA JoinsAt ==
  ASSUME NEW f, NEW S, NEW n \in Nat, Joins(f, S, n)
  PROVE  \A i \in 1 .. n : f[i] = IF i = 1 THEN S[i] ELSE f[i - 1] \o S[i]
BY Zenon DEF Joins

(* There is such a function for every number of sequences.                   *)
LEMMA JoinsExists ==
  ASSUME NEW S, NEW n \in Nat
  PROVE  \E f : Joins(f, S, n)
<1> DEFINE bad == {k \in Nat : ~ \E f : Joins(f, S, k)}
<1> SUFFICES bad = {}
  OBVIOUS
<1> SUFFICES ASSUME bad # {} PROVE FALSE
  OBVIOUS
<1>1. PICK k \in bad : \A i \in bad : k <= i
  <2> HIDE DEF bad
  <2>1. bad \in SUBSET Nat
    BY DEF bad
  <2> QED BY <2>1, LeastElement
<1>2. CASE k = 0
  <2>1. Joins(<< >>, S, 0)
    BY DEF Joins
  <2> QED BY <1>1, <1>2, <2>1
<1>3. CASE k # 0
  <2>1. k - 1 \in Nat /\ k \in Nat
    BY <1>3
  <2>2. PICK f : Joins(f, S, k - 1)
    BY <1>1, <2>1
  <2> DEFINE g == [i \in 1 .. k |-> IF i = 1 THEN S[i] ELSE f[i - 1] \o S[i]]
  <2>3. ASSUME NEW i \in 1 .. k, i # 1 PROVE g[i - 1] = f[i - 1]
    <3>1. i - 1 \in 1 .. k - 1 /\ i - 1 \in 1 .. k
      BY <2>1, <2>3
    <3>2. f[i - 1] = IF i - 1 = 1 THEN S[i - 1] ELSE f[i - 1 - 1] \o S[i - 1]
      <4>1. \A j \in 1 .. k - 1 : f[j] = IF j = 1 THEN S[j] ELSE f[j - 1] \o S[j]
        BY <2>1, <2>2, JoinsAt
      <4> QED BY <3>1, <4>1
    <3> QED BY <3>1, <3>2
  <2>4. Joins(g, S, k)
    BY <2>3 DEF Joins
  <2> QED BY <2>4
<1> QED BY <1>2, <1>3

(* One sequence more is joined at the end.                                   *)
LEMMA FlattenAppend ==
  ASSUME NEW V, NEW S \in Seq(Seq(V)), NEW e \in Seq(V)
  PROVE  FlattenSeq(Append(S, e)) = FlattenSeq(S) \o e
<1> DEFINE T == Append(S, e)
           n == Len(S)
<1>1. /\ n \in Nat /\ T \in Seq(Seq(V)) /\ Len(T) = n + 1
      /\ T[n + 1] = e /\ \A i \in 1 .. n : T[i] = S[i]
  BY AppendProperties, LenProperties
<1> HIDE DEF T, n
<1>2. PICK g : Joins(g, T, n + 1) /\ FlattenSeq(T) = g[n + 1]
  <2>1. \E g : Joins(g, T, n + 1)
    <3>1. n + 1 \in Nat
      BY <1>1
    <3> QED BY <3>1, JoinsExists, Zenon
  <2>2. Joins(CHOOSE g : Joins(g, T, n + 1), T, n + 1)
    BY <2>1
  <2>3. FlattenSeq(T) = (CHOOSE g : Joins(g, T, Len(T)))[Len(T)]
    BY <1>1, FlatDef
  <2> QED BY <1>1, <2>2, <2>3
<1>3. g[n + 1] = IF n + 1 = 1 THEN T[n + 1] ELSE g[n] \o T[n + 1]
  <2>1. g[n + 1] = IF n + 1 = 1 THEN T[n + 1] ELSE g[n + 1 - 1] \o T[n + 1]
    BY <1>1, <1>2, JoinsAt
  <2> QED BY <1>1, <2>1
<1>4. CASE n = 0
  <2>1. S = << >> /\ << >> \o e = e
    BY <1>4, EmptySeq, ConcatEmptySeq DEF n
  <2>2. FlattenSeq(S) = << >>
    BY <2>1, NothingFlat
  <2> QED BY <1>1, <1>2, <1>3, <1>4, <2>1, <2>2 DEF T
<1>5. CASE n # 0
  <2>1. PICK f : Joins(f, S, n) /\ FlattenSeq(S) = f[n]
    <3>1. \E f : Joins(f, S, n)
      BY <1>1, JoinsExists
    <3>2. Joins(CHOOSE f : Joins(f, S, n), S, n)
      BY <3>1
    <3>3. FlattenSeq(S) = (CHOOSE f : Joins(f, S, Len(S)))[Len(S)]
      BY <1>5, FlatDef DEF n
    <3> QED BY <3>2, <3>3 DEF n
  <2>2. g[n] = f[n]
    <3> DEFINE bad == {i \in 1 .. n : f[i] # g[i]}
    <3>1. ASSUME NEW k \in bad PROVE \E i \in bad : i < k
      <4>1. k \in 1 .. n /\ k \in 1 .. n + 1 /\ n + 1 \in Nat
        BY <1>1
      <4>2. \A i \in 1 .. n : f[i] = IF i = 1 THEN S[i] ELSE f[i - 1] \o S[i]
        BY <1>1, <2>1, JoinsAt
      <4>3. \A i \in 1 .. n + 1 : g[i] = IF i = 1 THEN T[i] ELSE g[i - 1] \o T[i]
        BY <1>2, <4>1, JoinsAt
      <4>4. f[k] # g[k] /\ T[k] = S[k]
        BY <1>1, <4>1
      <4>5. /\ f[k] = IF k = 1 THEN S[k] ELSE f[k - 1] \o S[k]
            /\ g[k] = IF k = 1 THEN T[k] ELSE g[k - 1] \o T[k]
        BY <4>1, <4>2, <4>3, Zenon
      <4>6. k # 1 /\ f[k - 1] # g[k - 1]
        BY <4>4, <4>5, Zenon
      <4>7. k - 1 \in 1 .. n /\ k - 1 < k
        BY <1>1, <4>1, <4>6
      <4> QED BY <4>6, <4>7
    <3>2. bad \in SUBSET Nat
      BY <1>1
    <3>3. bad = {}
      <4> HIDE DEF bad
      <4> QED BY <3>1, <3>2, LeastElement
    <3>4. n \in 1 .. n
      BY <1>1, <1>5
    <3> QED BY <3>3, <3>4
  <2>3. S # << >>
    BY <1>5, EmptySeq DEF n
  <2> QED BY <1>1, <1>2, <1>3, <1>5, <2>1, <2>2, <2>3 DEF T
<1> QED BY <1>1, <1>4, <1>5

(* What is joined from sequences over V is a sequence over V.                *)
LEMMA FlatIn ==
  ASSUME NEW V, NEW S \in Seq(Seq(V))
  PROVE  FlattenSeq(S) \in Seq(V)
<1> DEFINE n == Len(S)
<1>1. n \in Nat /\ \A i \in 1 .. n : S[i] \in Seq(V)
  BY LenProperties
<1>2. CASE n = 0
  <2>1. S = << >> /\ << >> \in Seq(V)
    BY <1>2, EmptySeq
  <2> QED BY <2>1, NothingFlat
<1>3. CASE n # 0
  <2>1. PICK f : Joins(f, S, n) /\ FlattenSeq(S) = f[n]
    <3>1. \E f : Joins(f, S, n)
      BY <1>1, JoinsExists
    <3>2. Joins(CHOOSE f : Joins(f, S, n), S, n)
      BY <3>1
    <3>3. FlattenSeq(S) = (CHOOSE f : Joins(f, S, Len(S)))[Len(S)]
      BY <1>3, FlatDef
    <3> QED BY <3>2, <3>3
  <2>2. \A i \in 1 .. n : f[i] = IF i = 1 THEN S[i] ELSE f[i - 1] \o S[i]
    BY <1>1, <2>1, JoinsAt
  <2> HIDE DEF n
  <2> DEFINE bad == {i \in 1 .. n : f[i] \notin Seq(V)}
  <2>3. ASSUME NEW k \in bad PROVE \E i \in bad : i < k
    <3>1. k # 1
      BY <1>1, <2>2
    <3>2. k - 1 \in 1 .. n /\ k - 1 < k
      BY <1>1, <3>1
    <3>3. f[k - 1] \notin Seq(V)
      <4>1. f[k] = f[k - 1] \o S[k] /\ S[k] \in Seq(V) /\ f[k] \notin Seq(V)
        BY <1>1, <2>2, <3>1
      <4> QED BY <4>1, ConcatProperties
    <3> QED BY <3>2, <3>3
  <2>4. bad \in SUBSET Nat
    BY <1>1
  <2>5. bad = {}
    <3> HIDE DEF bad
    <3> QED BY <2>3, <2>4, LeastElement, SMTT(40)
  <2>6. n \in 1 .. n
    BY <1>1, <1>3
  <2> QED BY <2>1, <2>5, <2>6
<1> QED BY <1>2, <1>3
-----------------------------------------------------------------------------
Cap == RX_RING_CAP

(* An index of the ring that went on by less than a turn.                    *)
Wrapped(i) == IF i < Cap THEN i ELSE i - Cap

-----------------------------------------------------------------------------
(* The ring.                                                                 *)

(* The remainder in After and in Contents is one subtraction: an index of    *)
(* rxrb goes on by less than a turn.                                         *)
LEMMA WrapAround ==
  /\ \A i \in 0 .. 2 * Cap - 1 : i % Cap = Wrapped(i) /\ Wrapped(i) \in Slots
  /\ \A i \in Slots : After(i) = Wrapped(i + 1) /\ After(i) \in Slots
<1> USE Pl011Assumption DEF Cap, Slots
<1>1. ASSUME NEW i \in 0 .. 2 * Cap - 1 PROVE i % Cap = Wrapped(i) /\ Wrapped(i) \in Slots
  <2>1. CASE i < Cap
    BY <2>1 DEF Wrapped
  <2>2. CASE ~ (i < Cap)
    BY <2>2 DEF Wrapped
  <2> QED BY <2>1, <2>2
<1>2. ASSUME NEW i \in Slots PROVE After(i) = Wrapped(i + 1) /\ After(i) \in Slots
  <2>1. i + 1 \in 0 .. 2 * Cap - 1
    OBVIOUS
  <2> QED BY <1>1, <2>1 DEF After
<1> QED BY <1>1, <1>2

(* What a ring b holds that is read from tail t to head h.                   *)
Count(h, t) == IF h >= t THEN h - t ELSE Cap - (t - h)

Bytes(b, h, t) == [i \in 1 .. Count(h, t) |-> b[(t + i - 1) % Cap]]

RingOK == buf \in [Slots -> 0 .. MaxIn] /\ head \in Slots /\ tail \in Slots

(* rxrb_len counts what is between tail and head, never a full ring, and the *)
(* bytes of Contents lie where the indices say.                              *)
RingHolds(b, h, t) ==
  /\ Count(h, t) \in 0 .. Cap - 1 /\ Len(Bytes(b, h, t)) = Count(h, t)
  /\ Bytes(b, h, t) \in Seq(0 .. MaxIn)
  /\ h = Wrapped(t + Count(h, t))
  /\ Count(h, t) = 0 <=> h = t
  /\ \A i \in 1 .. Count(h, t) : Bytes(b, h, t)[i] = b[Wrapped(t + i - 1)]

LEMMA RingContents ==
  ASSUME NEW b \in [Slots -> 0 .. MaxIn], NEW h \in Slots, NEW t \in Slots
  PROVE  RingHolds(b, h, t)
<1> USE Pl011Assumption DEF Cap, Slots
<1>1. /\ Count(h, t) \in 0 .. Cap - 1 /\ h = Wrapped(t + Count(h, t))
      /\ Count(h, t) = 0 <=> h = t
  BY DEF Count, Wrapped
<1>2. \A i \in 1 .. Count(h, t) : /\ (t + i - 1) % Cap = Wrapped(t + i - 1)
                                  /\ Wrapped(t + i - 1) \in Slots
  <2> SUFFICES ASSUME NEW i \in 1 .. Count(h, t) PROVE t + i - 1 \in 0 .. 2 * Cap - 1
    BY WrapAround
  <2> QED BY <1>1
<1>3. \A i \in 1 .. Count(h, t) : b[(t + i - 1) % Cap] \in 0 .. MaxIn
  BY <1>2
<1>4. Bytes(b, h, t) \in [1 .. Count(h, t) -> 0 .. MaxIn]
  BY <1>3 DEF Bytes
<1>5. Bytes(b, h, t) \in Seq(0 .. MaxIn)
  <2>1. Count(h, t) \in Nat
    BY <1>1
  <2>2. Bytes(b, h, t) \in UNION {[1 .. n -> 0 .. MaxIn] : n \in Nat}
    <3> HIDE DEF Cap, Slots
    <3> QED BY <1>4, <2>1, Zenon
  <2> QED BY <2>2, SeqDef, Zenon
<1>6. Len(Bytes(b, h, t)) = Count(h, t)
  BY <1>1, <1>4, <1>5, LenProperties
<1>7. \A i \in 1 .. Count(h, t) : Bytes(b, h, t)[i] = b[Wrapped(t + i - 1)]
  BY <1>2 DEF Bytes
<1> QED BY <1>1, <1>5, <1>6, <1>7 DEF RingHolds

(* rxrb_push: the byte comes last, and the oldest one of a full ring goes.   *)
LEMMA PushContents ==
  ASSUME RingOK, NEW c \in Received, Push(c)
  PROVE  /\ RingOK' /\ Contents \in Seq(0 .. MaxIn) /\ Len(Contents) \in 0 .. Cap - 1
         /\ Contents' = Append(IF Len(Contents) = Cap - 1 THEN Tail(Contents) ELSE Contents, c)
<1> DEFINE n == Count(head, tail)
           m == Count(head', tail')
           s == Bytes(buf, head, tail)
           u == Bytes(buf', head', tail')
           rest == IF n = Cap - 1 THEN Tail(s) ELSE s
<1>1. /\ Cap \in Nat \ {0, 1} /\ Slots = 0 .. Cap - 1 /\ c \in 0 .. MaxIn /\ MaxIn \in Nat
      /\ head \in 0 .. Cap - 1 /\ tail \in 0 .. Cap - 1 /\ buf \in [0 .. Cap - 1 -> 0 .. MaxIn]
  BY Pl011Assumption DEF Cap, Slots, RingOK, Received
<1>2. /\ head' = Wrapped(head + 1) /\ tail' = IF Wrapped(head + 1) = tail THEN Wrapped(tail + 1) ELSE tail
      /\ buf' = [buf EXCEPT ![head] = c] /\ RingOK'
  <2>1. /\ After(head) = Wrapped(head + 1) /\ After(head) \in Slots
        /\ After(tail) = Wrapped(tail + 1) /\ After(tail) \in Slots
    BY WrapAround, Zenon DEF RingOK
  <2> QED BY <1>1, <2>1 DEF Push, RingOK
<1>3. /\ n \in 0 .. Cap - 1 /\ Len(s) = n /\ s \in Seq(0 .. MaxIn) /\ head = Wrapped(tail + n)
      /\ \A i \in 1 .. n : s[i] = buf[Wrapped(tail + i - 1)]
  <2>1. RingHolds(buf, head, tail)
    BY RingContents DEF RingOK
  <2> QED BY <2>1, Zenon DEF RingHolds
<1>4. /\ m \in 0 .. Cap - 1 /\ Len(u) = m /\ u \in Seq(0 .. MaxIn)
      /\ \A i \in 1 .. m : u[i] = buf'[Wrapped(tail' + i - 1)]
  <2>1. buf' \in [Slots -> 0 .. MaxIn] /\ head' \in Slots /\ tail' \in Slots
    BY <1>2 DEF RingOK
  <2>2. RingHolds(buf', head', tail')
    BY <2>1, RingContents
  <2> QED BY <2>2, Zenon DEF RingHolds
<1>5. Contents = s /\ Contents' = u
  BY DEF Contents, rxrb_len, Bytes, Count, Cap
<1>6. n = Cap - 1 => m = n /\ tail' = Wrapped(tail + 1)
  BY <1>1, <1>2, <1>3 DEF Wrapped, Count
<1>7. n # Cap - 1 => m = n + 1 /\ tail' = tail
  BY <1>1, <1>2, <1>3 DEF Wrapped, Count
<1> HIDE DEF n, m, s, u
<1>8. u = Append(rest, c)
  <2>1. CASE n = Cap - 1
    <3>1. /\ rest \in Seq(0 .. MaxIn) /\ Len(rest) = n - 1
          /\ \A i \in 1 .. n - 1 : rest[i] = s[i + 1]
      <4>1. s # << >>
        BY <1>1, <1>3, <2>1, EmptySeq
      <4> QED BY <1>3, <2>1, <4>1, HeadTailProperties
    <3>2. \A i \in 1 .. n - 1 : u[i] = rest[i]
      <4> SUFFICES ASSUME NEW i \in 1 .. n - 1 PROVE u[i] = s[i + 1]
        BY <3>1
      <4>1. i \in 1 .. m /\ i + 1 \in 1 .. n
        BY <1>1, <1>6, <2>1
      <4>2. u[i] = buf'[Wrapped(tail' + i - 1)] /\ s[i + 1] = buf[Wrapped(tail + (i + 1) - 1)]
        BY <1>3, <1>4, <4>1, Zenon
      <4>3. Wrapped(tail' + i - 1) = Wrapped(tail + (i + 1) - 1)
        BY <1>1, <1>6, <2>1, <4>1 DEF Wrapped
      <4>4. Wrapped(tail + (i + 1) - 1) # head /\ Wrapped(tail + (i + 1) - 1) \in 0 .. Cap - 1
        <5>1. head \in 0 .. Cap - 1 /\ tail \in 0 .. Cap - 1 /\ head = Wrapped(tail + n)
          BY <1>1, <1>3
        <5> QED BY <1>1, <2>1, <4>1, <5>1 DEF Wrapped
      <4> QED BY <1>1, <1>2, <4>2, <4>3, <4>4
    <3>3. u[n] = c
      <4>1. u[n] = buf'[Wrapped(tail' + n - 1)]
        <5>1. n \in 1 .. m
          BY <1>1, <1>6, <2>1
        <5> QED BY <1>4, <5>1, Zenon
      <4>2. Wrapped(tail' + n - 1) = head
        BY <1>1, <1>3, <1>6, <2>1 DEF Wrapped
      <4> QED BY <1>1, <1>2, <4>1, <4>2
    <3>4. rest \in Seq(0 .. MaxIn) /\ Len(rest) = n - 1 /\ c \in 0 .. MaxIn /\ n \in Nat \ {0}
      BY <1>1, <1>3, <2>1, <3>1
    <3>5. /\ Append(rest, c) \in Seq(0 .. MaxIn) /\ Len(Append(rest, c)) = n
          /\ \A i \in 1 .. n - 1 : Append(rest, c)[i] = rest[i]
          /\ Append(rest, c)[n] = c
      <4> HIDE DEF rest
      <4> QED BY <3>4, AppendProperties
    <3>6. u \in Seq(0 .. MaxIn) /\ Len(u) = n
      BY <1>4, <1>6, <2>1
    <3>7. \A i \in 1 .. n : u[i] = Append(rest, c)[i]
      <4> HIDE DEF rest, u
      <4> QED BY <3>2, <3>3, <3>4, <3>5
    <3>8. u = Append(rest, c)
      <4> HIDE DEF rest, u
      <4> QED BY <3>5, <3>6, <3>7, SeqEqual
    <3> QED BY <1>6, <2>1, <3>8
  <2>2. CASE n # Cap - 1
    <3>1. \A i \in 1 .. n : u[i] = s[i]
      <4> SUFFICES ASSUME NEW i \in 1 .. n PROVE u[i] = s[i]
        OBVIOUS
      <4>0. i \in 1 .. m /\ tail' = tail
        BY <1>1, <1>3, <1>7, <2>2
      <4>1. u[i] = buf'[Wrapped(tail + i - 1)] /\ s[i] = buf[Wrapped(tail + i - 1)]
        BY <1>3, <1>4, <4>0, Zenon
      <4>2. Wrapped(tail + i - 1) # head /\ Wrapped(tail + i - 1) \in 0 .. Cap - 1
        BY <1>1, <1>3, <2>2 DEF Wrapped
      <4> QED BY <1>1, <1>2, <4>1, <4>2
    <3>2. u[n + 1] = c
      <4>0. n + 1 \in 1 .. m /\ tail' = tail
        BY <1>1, <1>3, <1>7, <2>2
      <4>1. u[n + 1] = buf'[Wrapped(tail + (n + 1) - 1)]
        BY <1>4, <4>0, Zenon
      <4>2. Wrapped(tail + (n + 1) - 1) = head
        BY <1>1, <1>3
      <4> QED BY <1>1, <1>2, <4>1, <4>2
    <3>3. /\ Append(rest, c) \in Seq(0 .. MaxIn) /\ Len(Append(rest, c)) = n + 1
          /\ \A i \in 1 .. n + 1 : u[i] = Append(rest, c)[i]
      <4>1. /\ Append(s, c) \in Seq(0 .. MaxIn) /\ Len(Append(s, c)) = n + 1
            /\ \A i \in 1 .. n : Append(s, c)[i] = s[i]
            /\ Append(s, c)[n + 1] = c
        BY <1>1, <1>3, AppendProperties
      <4>2. \A i \in 1 .. n + 1 : i \in 1 .. n \/ i = n + 1
        BY <1>3
      <4> QED BY <2>2, <3>1, <3>2, <4>1, <4>2
    <3> QED BY <1>4, <1>7, <2>2, <3>3, SeqEqual
  <2> QED BY <2>1, <2>2
<1> QED BY <1>2, <1>3, <1>5, <1>8

(* rxrb_pop: the oldest byte goes.                                           *)
LEMMA PopContents ==
  ASSUME RingOK, head # tail, tail' = After(tail), UNCHANGED <<buf, head>>
  PROVE  /\ RingOK' /\ Contents \in Seq(0 .. MaxIn)
         /\ Contents # << >> /\ Contents' = Tail(Contents) /\ buf[tail] = Head(Contents)
<1> DEFINE n == Count(head, tail)
           m == Count(head, tail')
           s == Bytes(buf, head, tail)
           u == Bytes(buf, head, tail')
<1>1. /\ Cap \in Nat \ {0, 1} /\ Slots = 0 .. Cap - 1
      /\ head \in 0 .. Cap - 1 /\ tail \in 0 .. Cap - 1
  BY Pl011Assumption DEF Cap, Slots, RingOK
<1>2. tail' = Wrapped(tail + 1) /\ head' = head /\ buf' = buf /\ RingOK'
  <2>1. After(tail) = Wrapped(tail + 1) /\ After(tail) \in Slots
    BY WrapAround, Zenon DEF RingOK
  <2> QED BY <2>1 DEF RingOK
<1>3. /\ n \in 0 .. Cap - 1 /\ Len(s) = n /\ s \in Seq(0 .. MaxIn) /\ head = Wrapped(tail + n)
      /\ n # 0
      /\ \A i \in 1 .. n : s[i] = buf[Wrapped(tail + i - 1)]
  <2>1. RingHolds(buf, head, tail)
    BY RingContents DEF RingOK
  <2>2. n # 0
    BY <2>1, Zenon DEF RingHolds
  <2> QED BY <2>1, <2>2, Zenon DEF RingHolds
<1>4. /\ m \in 0 .. Cap - 1 /\ Len(u) = m /\ u \in Seq(0 .. MaxIn)
      /\ \A i \in 1 .. m : u[i] = buf[Wrapped(tail' + i - 1)]
  <2>1. buf \in [Slots -> 0 .. MaxIn] /\ head \in Slots /\ tail' \in Slots
    BY <1>2 DEF RingOK
  <2>2. RingHolds(buf, head, tail')
    BY <2>1, RingContents
  <2> QED BY <2>2, Zenon DEF RingHolds
<1>5. Contents = s /\ Contents' = u
  BY DEF Contents, rxrb_len, Bytes, Count, Cap
<1>6. m = n - 1
  BY <1>1, <1>2, <1>3 DEF Wrapped, Count
<1> HIDE DEF n, m, s, u
<1>7. s # << >> /\ Head(s) = s[1]
  BY <1>3, EmptySeq
<1>8. Tail(s) \in Seq(0 .. MaxIn) /\ Len(Tail(s)) = n - 1 /\ \A i \in 1 .. n - 1 : Tail(s)[i] = s[i + 1]
  BY <1>3, <1>7, HeadTailProperties
<1>9. \A i \in 1 .. m : u[i] = Tail(s)[i]
  <2> SUFFICES ASSUME NEW i \in 1 .. n - 1 PROVE u[i] = s[i + 1]
    BY <1>6, <1>8
  <2>1. u[i] = buf[Wrapped(tail' + i - 1)] /\ s[i + 1] = buf[Wrapped(tail + (i + 1) - 1)]
    <3>1. i \in 1 .. m /\ i + 1 \in 1 .. n
      BY <1>1, <1>3, <1>6
    <3> QED BY <1>3, <1>4, <3>1, Zenon
  <2>2. Wrapped(tail' + i - 1) = Wrapped(tail + (i + 1) - 1)
    BY <1>1, <1>2, <1>3 DEF Wrapped
  <2> QED BY <2>1, <2>2
<1>10. u = Tail(s)
  BY <1>4, <1>6, <1>8, <1>9, SeqEqual
<1>11. buf[tail] = s[1]
  <2>1. s[1] = buf[Wrapped(tail + 1 - 1)]
    BY <1>1, <1>3
  <2> QED BY <1>1, <2>1 DEF Wrapped
<1> QED BY <1>2, <1>3, <1>5, <1>7, <1>10, <1>11
-----------------------------------------------------------------------------
(* What the driver has received.                                             *)

Ascending(s) == \A i, j \in 1 .. Len(s) : i < j => s[i] < s[j]

(* Every byte of s arrived before every byte of t.                           *)
Before(s, t) == \A x \in Range(s), y \in Range(t) : x < y

(* What is changed by arriving bytes, by draining and by reading.            *)
InType ==
  /\ arrived \in 0 .. MaxIn /\ rxfifo \in Seq(Received) /\ Len(rxfifo) <= FIFO
  /\ RingOK /\ Contents \in Seq(Received)
  /\ size \in Nat /\ taken \in Seq(Received) /\ reading \in Seq(Received)

Arrived == \A x \in Range(reading) \cup Range(taken) \cup Range(Contents) \cup Range(rxfifo) : x <= arrived

(* From what the client has read to what the UART has just received: every   *)
(* part ascends, and comes before the later ones.                            *)
Sorted ==
  /\ Ascending(reading) /\ Ascending(taken) /\ Ascending(Contents) /\ Ascending(rxfifo)
  /\ Before(reading, taken) /\ Before(reading, Contents) /\ Before(reading, rxfifo)
  /\ Before(taken, Contents) /\ Before(taken, rxfifo) /\ Before(Contents, rxfifo)

InInv == InType /\ Arrived /\ Sorted

inputs == <<arrived, rxfifo, rxrb, size, taken, reading>>

(* The empty answer, buffer and FIFO the driver starts with.                 *)
LEMMA EmptyAscends == Ascending(<< >>) /\ Range(<< >>) = {}
<1>1. << >> \in Seq({}) /\ Len(<< >>) = 0
  BY EmptySeq
<1>2. Range(<< >>) = {<< >>[i] : i \in 1 .. 0}
  BY <1>1, RangeEquality
<1>3. 1 .. 0 = {}
  OBVIOUS
<1> QED BY <1>1, <1>2, <1>3 DEF Ascending

(* A byte newer than all before it is put last: the FIFO receives, the ring  *)
(* is pushed to, the answer of uart_read_from_ring grows.                    *)
LEMMA AppendAscends ==
  ASSUME NEW s \in Seq(Received), NEW e \in Received
  PROVE  /\ Range(Append(s, e)) = Range(s) \cup {e}
         /\ Ascending(s) /\ (\A x \in Range(s) : x < e) => Ascending(Append(s, e))
<1> DEFINE t == Append(s, e)
<1>1. /\ Len(s) \in Nat /\ t \in Seq(Received) /\ Len(t) = Len(s) + 1
      /\ \A i \in 1 .. Len(s) : t[i] = s[i]
      /\ t[Len(s) + 1] = e
  BY AppendProperties, LenProperties
<1> HIDE DEF t
<1>2. Range(s) = {s[i] : i \in 1 .. Len(s)} /\ Range(t) = {t[i] : i \in 1 .. Len(t)}
  BY <1>1, RangeEquality
<1>3. \A i \in 1 .. Len(t) : i \in 1 .. Len(s) \/ i = Len(s) + 1
  BY <1>1
<1>4. Range(t) = Range(s) \cup {e}
  <2>1. \A i \in 1 .. Len(s) : i \in 1 .. Len(t)
    BY <1>1
  <2>2. Len(s) + 1 \in 1 .. Len(t)
    BY <1>1
  <2> QED BY <1>1, <1>2, <1>3, <2>1, <2>2
<1>5. ASSUME Ascending(s), \A x \in Range(s) : x < e, NEW i \in 1 .. Len(t), NEW j \in 1 .. Len(t), i < j
      PROVE  t[i] < t[j]
  <2>1. i \in 1 .. Len(s) /\ t[i] = s[i]
    BY <1>1, <1>5
  <2>2. CASE j \in 1 .. Len(s)
    BY <1>1, <1>5, <2>1, <2>2 DEF Ascending
  <2>3. CASE j = Len(s) + 1
    BY <1>1, <1>2, <1>5, <2>1, <2>3
  <2> QED BY <1>3, <2>2, <2>3
<1> QED BY <1>4, <1>5 DEF t, Ascending

(* The oldest byte is taken: uart_drain_hw_rx_to_ring, rxrb_pop.             *)
LEMMA TailAscends ==
  ASSUME NEW s \in Seq(Received), s # << >>
  PROVE  /\ Range(Tail(s)) \subseteq Range(s) /\ Head(s) \in Range(s)
         /\ Tail(s) \in Seq(Received) /\ Head(s) \in Received /\ Len(Tail(s)) = Len(s) - 1
         /\ Ascending(s) => Ascending(Tail(s)) /\ \A x \in Range(Tail(s)) : Head(s) < x
<1> DEFINE t == Tail(s)
<1>1. /\ Len(s) \in Nat \ {0} /\ t \in Seq(Received) /\ Len(t) = Len(s) - 1
      /\ \A i \in 1 .. Len(t) : t[i] = s[i + 1]
      /\ Head(s) = s[1] /\ Head(s) \in Received
  BY EmptySeq, HeadTailProperties
<1> HIDE DEF t
<1>2. Range(s) = {s[i] : i \in 1 .. Len(s)} /\ Range(t) = {t[i] : i \in 1 .. Len(t)}
  BY <1>1, RangeEquality
<1>3. \A i \in 1 .. Len(t) : i + 1 \in 1 .. Len(s) /\ 1 < i + 1
  BY <1>1
<1>4. Range(t) \subseteq Range(s) /\ Head(s) \in Range(s)
  <2>1. 1 \in 1 .. Len(s)
    BY <1>1
  <2> QED BY <1>1, <1>2, <1>3, <2>1
<1>5. Ascending(s) => Ascending(t)
  <2> SUFFICES ASSUME Ascending(s), NEW i \in 1 .. Len(t), NEW j \in 1 .. Len(t), i < j
               PROVE  t[i] < t[j]
    BY DEF Ascending
  <2>1. i + 1 \in 1 .. Len(s) /\ j + 1 \in 1 .. Len(s) /\ i + 1 < j + 1
    BY <1>1
  <2> QED BY <1>1, <2>1 DEF Ascending
<1>6. Ascending(s) => \A x \in Range(t) : Head(s) < x
  <2> SUFFICES ASSUME Ascending(s), NEW i \in 1 .. Len(t) PROVE s[1] < t[i]
    BY <1>1, <1>2
  <2>1. 1 \in 1 .. Len(s) /\ i + 1 \in 1 .. Len(s) /\ 1 < i + 1
    BY <1>1
  <2> QED BY <1>1, <2>1 DEF Ascending
<1> QED BY <1>1, <1>4, <1>5, <1>6 DEF t

(* An answer joined to what the client has read before.                      *)
LEMMA ConcatAscends ==
  ASSUME NEW s \in Seq(Received), NEW t \in Seq(Received)
  PROVE  /\ s \o t \in Seq(Received) /\ Range(s \o t) = Range(s) \cup Range(t)
         /\ Ascending(s) /\ Ascending(t) /\ Before(s, t) => Ascending(s \o t)
<1> DEFINE u == s \o t
<1>1. /\ Len(s) \in Nat /\ Len(t) \in Nat /\ u \in Seq(Received) /\ Len(u) = Len(s) + Len(t)
      /\ \A i \in 1 .. Len(s) + Len(t) : u[i] = IF i <= Len(s) THEN s[i] ELSE t[i - Len(s)]
  BY ConcatProperties, LenProperties
<1>2. Range(u) = Range(s) \cup Range(t)
  BY RangeConcatenation
<1> HIDE DEF u
<1>3. Range(s) = {s[i] : i \in 1 .. Len(s)} /\ Range(t) = {t[i] : i \in 1 .. Len(t)}
  BY RangeEquality
<1>4. ASSUME Ascending(s), Ascending(t), Before(s, t), NEW i \in 1 .. Len(u), NEW j \in 1 .. Len(u), i < j
      PROVE  u[i] < u[j]
  <2>1. CASE j <= Len(s)
    BY <1>1, <1>4, <2>1 DEF Ascending
  <2>2. CASE i > Len(s)
    <3>1. i - Len(s) \in 1 .. Len(t) /\ j - Len(s) \in 1 .. Len(t) /\ i - Len(s) < j - Len(s)
      BY <1>1, <1>4, <2>2
    <3>2. u[i] = t[i - Len(s)] /\ u[j] = t[j - Len(s)]
      BY <1>1, <1>4, <2>2
    <3> QED BY <1>4, <3>1, <3>2 DEF Ascending
  <2>3. CASE i <= Len(s) /\ j > Len(s)
    <3>1. i \in 1 .. Len(s) /\ j - Len(s) \in 1 .. Len(t) /\ u[i] = s[i] /\ u[j] = t[j - Len(s)]
      BY <1>1, <2>3
    <3> QED BY <1>3, <1>4, <3>1 DEF Before
  <2> QED BY <1>1, <2>1, <2>2, <2>3
<1> QED BY <1>1, <1>2, <1>4 DEF u, Ascending

(* What a sequence of received bytes holds is received bytes.                *)
LEMMA InRange == \A s \in Seq(Received) : Range(s) \subseteq Received
<1> SUFFICES ASSUME NEW s \in Seq(Received) PROVE Range(s) \subseteq Received
  OBVIOUS
<1>1. Range(s) = {s[i] : i \in 1 .. Len(s)} /\ \A i \in 1 .. Len(s) : s[i] \in Received
  BY RangeEquality, LenProperties
<1> QED BY <1>1

(* The bytes are numbers, so they can be compared.                           *)
LEMMA InTyped ==
  ASSUME InType
  PROVE  /\ Range(reading) \subseteq Received /\ Range(taken) \subseteq Received
         /\ Range(Contents) \subseteq Received /\ Range(rxfifo) \subseteq Received
         /\ Received \subseteq Nat /\ arrived \in Nat
BY InRange, Pl011Assumption DEF InType, Received

(* Nothing is received when the driver starts.                               *)
LEMMA InInit == Init => InInv
<1> SUFFICES ASSUME Init PROVE InInv
  OBVIOUS
<1>1. Cap \in Nat \ {0, 1} /\ FIFO \in Nat /\ MaxIn \in Nat
  BY Pl011Assumption DEF Cap
<1>2. RingOK
  BY <1>1 DEF Init, RingOK, Slots, Cap
<1>3. Contents = << >>
  <2>1. Contents = Bytes(buf, head, tail) /\ head = tail
    BY DEF Contents, rxrb_len, Bytes, Count, Cap, Init
  <2>2. Contents \in Seq(0 .. MaxIn) /\ Len(Contents) = 0
    BY <1>2, <2>1, RingContents DEF RingOK, RingHolds
  <2> QED BY <2>2, EmptySeq
<1>4. << >> \in Seq(Received) /\ Len(<< >>) = 0
  BY EmptySeq
<1>5. InType
  BY <1>1, <1>2, <1>3, <1>4 DEF Init, InType
<1>6. Arrived /\ Sorted
  BY <1>3, EmptyAscends, Zenon DEF Init, Arrived, Sorted, Before
<1> QED BY <1>5, <1>6 DEF InInv

(* The UART receives: the number of the arrival is greater than all before.  *)
LEMMA ReceiveOrder == InInv /\ Receive => InInv'
<1> SUFFICES ASSUME InInv, Receive PROVE InInv'
  OBVIOUS
<1> DEFINE e == arrived + 1
<1>1. /\ arrived \in 0 .. MaxIn /\ arrived < MaxIn /\ MaxIn \in Nat /\ FIFO \in Nat /\ e \in Received
      /\ rxfifo \in Seq(Received) /\ Len(rxfifo) \in Nat /\ Len(rxfifo) <= FIFO
  BY Pl011Assumption, LenProperties DEF InInv, InType, Receive, Received
<1>2. /\ arrived' = e /\ rxfifo' = IF Len(rxfifo) < FIFO THEN Append(rxfifo, e) ELSE rxfifo
      /\ UNCHANGED <<buf, head, tail, size, taken, reading>>
  BY DEF Receive, rxrb, client
<1>3. Contents' = Contents
  BY <1>2 DEF Contents, rxrb_len
<1>4. /\ rxfifo' \in Seq(Received) /\ Len(rxfifo') <= FIFO
      /\ Range(rxfifo') \subseteq Range(rxfifo) \cup {e}
  <2>1. CASE Len(rxfifo) < FIFO
    BY <1>1, <1>2, <2>1, AppendProperties, AppendAscends
  <2>2. CASE ~ (Len(rxfifo) < FIFO)
    BY <1>1, <1>2, <2>2
  <2> QED BY <2>1, <2>2
<1>5. \A x \in Range(reading) \cup Range(taken) \cup Range(Contents) \cup Range(rxfifo) : x < e /\ x <= e
  <2>1. \A x \in Range(reading) \cup Range(taken) \cup Range(Contents) \cup Range(rxfifo) :
          x <= arrived /\ x \in Nat
    BY InTyped DEF InInv, Arrived
  <2> QED BY <1>1, <2>1
<1>6. InType'
  <2>1. e \in 0 .. MaxIn
    BY <1>1
  <2> QED BY <1>2, <1>3, <1>4, <2>1 DEF InInv, InType, RingOK
<1>7. Arrived'
  <2>1. e <= e
    BY <1>1
  <2> QED BY <1>2, <1>3, <1>4, <1>5, <2>1, Zenon DEF Arrived
<1>8. Sorted'
  <2>1. Ascending(rxfifo')
    <3>1. Ascending(rxfifo)
      BY DEF InInv, Sorted
    <3> QED BY <1>1, <1>2, <1>5, <3>1, AppendAscends
  <2>2. Before(reading, rxfifo') /\ Before(taken, rxfifo') /\ Before(Contents, rxfifo')
    BY <1>4, <1>5, Zenon DEF InInv, Sorted, Before
  <2> QED BY <1>2, <1>3, <2>1, <2>2, Zenon DEF InInv, Sorted
<1> QED BY <1>6, <1>7, <1>8 DEF InInv

(* uart_drain_hw_rx_to_ring: the byte moves to the ring, or is ignored.      *)
LEMMA DrainOrder == InInv /\ Drain => InInv'
<1> SUFFICES ASSUME InInv, Drain PROVE InInv'
  OBVIOUS
<1> DEFINE c == Head(rxfifo)
<1>1. /\ rxfifo # << >> /\ rxfifo' = Tail(rxfifo) /\ (Push(c) \/ UNCHANGED <<buf, head, tail>>)
      /\ UNCHANGED <<arrived, size, taken, reading>>
  BY DEF Drain, rxrb, client
<1>2. InType /\ Arrived /\ Sorted
  BY DEF InInv
<1>3. rxfifo \in Seq(Received) /\ Len(rxfifo) \in Nat /\ Len(rxfifo) <= FIFO /\ FIFO \in Nat
  BY <1>2, LenProperties, Pl011Assumption DEF InType
<1>4. /\ rxfifo' \in Seq(Received) /\ Len(rxfifo') <= FIFO /\ c \in Received
      /\ Range(rxfifo') \subseteq Range(rxfifo) /\ c \in Range(rxfifo)
      /\ Ascending(rxfifo') /\ \A x \in Range(rxfifo') : c < x
  BY <1>1, <1>2, <1>3, TailAscends DEF Sorted
<1>5. /\ RingOK' /\ Contents' \in Seq(Received)
      /\ Range(Contents') \subseteq Range(Contents) \cup {c} /\ Ascending(Contents')
  <2>1. CASE UNCHANGED <<buf, head, tail>>
    <3>1. Contents' = Contents
      BY <2>1 DEF Contents, rxrb_len
    <3> QED BY <1>2, <2>1, <3>1 DEF InType, RingOK, Sorted
  <2>2. CASE Push(c)
    <3> DEFINE rest == IF Len(Contents) = Cap - 1 THEN Tail(Contents) ELSE Contents
    <3>1. RingOK' /\ Contents' = Append(rest, c) /\ Len(Contents) \in 0 .. Cap - 1
      BY <1>2, <1>4, <2>2, PushContents DEF InType
    <3>2. rest \in Seq(Received) /\ Range(rest) \subseteq Range(Contents) /\ Ascending(rest)
      <4>1. Contents \in Seq(Received) /\ Ascending(Contents)
        BY <1>2 DEF InType, Sorted
      <4>2. CASE Len(Contents) = Cap - 1
        <5>1. Contents # << >>
          BY <4>1, <4>2, EmptySeq, Pl011Assumption DEF Cap
        <5> QED BY <4>1, <4>2, <5>1, TailAscends
      <4> QED BY <4>1, <4>2
    <3>3. \A x \in Range(rest) : x < c
      BY <1>2, <1>4, <3>2, Zenon DEF Sorted, Before
    <3> HIDE DEF rest
    <3>4. Append(rest, c) \in Seq(Received)
      BY <1>4, <3>2, AppendProperties
    <3> QED BY <1>4, <3>1, <3>2, <3>3, <3>4, AppendAscends
  <2> QED BY <1>1, <2>1, <2>2
<1>6. InType'
  BY <1>1, <1>2, <1>4, <1>5 DEF InType
<1>7. Arrived'
  BY <1>1, <1>2, <1>4, <1>5, Zenon DEF Arrived
<1>8. Before(Contents', rxfifo')
  BY <1>2, <1>4, <1>5, Zenon DEF Sorted, Before
<1>9. /\ Before(reading, Contents') /\ Before(reading, rxfifo')
      /\ Before(taken, Contents') /\ Before(taken, rxfifo')
  BY <1>2, <1>4, <1>5, Zenon DEF Sorted, Before
<1>10. Sorted'
  BY <1>1, <1>2, <1>4, <1>5, <1>8, <1>9, Zenon DEF Sorted
<1> QED BY <1>6, <1>7, <1>10 DEF InInv

(* uart_read_from_ring: the byte moves to the answer, or the answer is sent. *)
LEMMA ReadOrder == InInv /\ Read => InInv'
<1> SUFFICES ASSUME InInv, Read PROVE InInv'
  OBVIOUS
<1>1. UNCHANGED <<arrived, rxfifo, buf, head>>
  BY DEF Read, uart
<1>2. InType /\ Arrived /\ Sorted
  BY DEF InInv
<1>3. CASE size > 0 /\ head # tail
  <2>1. /\ taken' = Append(taken, buf[tail]) /\ tail' = After(tail) /\ size' = size - 1
        /\ UNCHANGED reading
    BY <1>3 DEF Read
  <2> DEFINE b == buf[tail]
  <2>2. /\ RingOK' /\ Contents # << >> /\ Contents' = Tail(Contents) /\ b = Head(Contents)
    BY <1>1, <1>2, <1>3, <2>1, PopContents DEF InType
  <2> HIDE DEF b
  <2>3. /\ Contents' \in Seq(Received) /\ b \in Received
        /\ Range(Contents') \subseteq Range(Contents) /\ b \in Range(Contents)
        /\ Ascending(Contents') /\ \A x \in Range(Contents') : b < x
    BY <1>2, <2>2, TailAscends DEF InType, Sorted
  <2>4. taken' = Append(taken, b)
    BY <2>1 DEF b
  <2>5. \A x \in Range(taken) : x < b
    BY <1>2, <2>3, Zenon DEF Sorted, Before
  <2>6. taken' \in Seq(Received) /\ Range(taken') = Range(taken) \cup {b} /\ Ascending(taken')
    BY <1>2, <2>3, <2>4, <2>5, AppendProperties, AppendAscends DEF InType, Sorted
  <2>7. InType'
    <3>1. size' \in Nat
      BY <1>2, <1>3, <2>1 DEF InType
    <3> QED BY <1>1, <1>2, <2>1, <2>2, <2>3, <2>6, <3>1 DEF InType
  <2>8. Arrived'
    BY <1>1, <1>2, <2>1, <2>3, <2>6, Zenon DEF Arrived
  <2>9. /\ Before(reading, taken') /\ Before(taken', Contents') /\ Before(taken', rxfifo)
        /\ Before(reading, Contents') /\ Before(Contents', rxfifo)
    BY <1>2, <2>3, <2>6, Zenon DEF Sorted, Before
  <2>10. Sorted'
    BY <1>1, <1>2, <2>1, <2>3, <2>6, <2>9, Zenon DEF Sorted
  <2> QED BY <2>7, <2>8, <2>10 DEF InInv
<1>4. CASE ~ (size > 0 /\ head # tail)
  <2>1. reading' = reading \o taken /\ taken' = << >> /\ size' = 0 /\ UNCHANGED tail
    BY <1>4 DEF Read
  <2>2. Contents' = Contents
    BY <1>1, <2>1 DEF Contents, rxrb_len
  <2>3. /\ reading' \in Seq(Received) /\ Range(reading') = Range(reading) \cup Range(taken)
        /\ Ascending(reading')
    BY <1>2, <2>1, ConcatAscends DEF InType, Sorted
  <2>4. taken' \in Seq(Received) /\ Range(taken') = {} /\ Ascending(taken')
    BY <2>1, EmptyAscends, EmptySeq
  <2>5. InType'
    BY <1>1, <1>2, <2>1, <2>2, <2>3, <2>4 DEF InType, RingOK
  <2>6. Arrived'
    BY <1>1, <1>2, <2>2, <2>3, <2>4, Zenon DEF Arrived
  <2>7. /\ Before(reading', taken') /\ Before(taken', Contents) /\ Before(taken', rxfifo)
        /\ Before(reading', Contents) /\ Before(reading', rxfifo)
    BY <1>2, <2>3, <2>4, Zenon DEF Sorted, Before
  <2>8. Sorted'
    BY <1>1, <1>2, <2>2, <2>3, <2>4, <2>7, Zenon DEF Sorted
  <2> QED BY <2>5, <2>6, <2>8 DEF InInv
<1> QED BY <1>3, <1>4

(* What leaves the received bytes alone keeps their order.                   *)
LEMMA OtherOrder == InInv /\ UNCHANGED inputs => InInv'
<1> SUFFICES ASSUME InInv, UNCHANGED inputs PROVE InInv'
  OBVIOUS
<1>1. UNCHANGED <<arrived, rxfifo, buf, head, tail, size, taken, reading>>
  BY DEF inputs, rxrb
<1>2. Contents' = Contents
  BY <1>1 DEF Contents, rxrb_len
<1>3. InType'
  BY <1>1, <1>2 DEF InInv, InType, RingOK
<1>4. Arrived' /\ Sorted'
  BY <1>1, <1>2, Zenon DEF InInv, Arrived, Sorted
<1> QED BY <1>3, <1>4 DEF InInv

(* The steps of the driver and of the client that no received byte moves in. *)
LEMMA OtherInputs ==
  \/ Transmit
  \/ Registered \/ Drained \/ Reply \/ WritePending \/ Write \/ WriteNewline
  \/ (\E s \in Texts : BeginWrite(s)) \/ RequestWrite
  => UNCHANGED inputs
<1>1. Transmit \/ Registered \/ Drained \/ Reply => UNCHANGED inputs
  BY DEF Transmit, Registered, Drained, Reply, inputs, uart, rxrb, client
<1>2. WritePending \/ Write \/ WriteNewline => UNCHANGED inputs
  BY DEF WritePending, Write, WriteNewline, inputs, rxrb
<1>3. (\E s \in Texts : BeginWrite(s)) \/ RequestWrite => UNCHANGED inputs
  BY DEF BeginWrite, RequestWrite, inputs, uart, rxrb, client
<1> QED BY <1>1, <1>2, <1>3

(* A request to read only sets what is still to be read.                     *)
LEMMA RequestOrder == InInv /\ (\E len \in Sizes : RequestRead(len)) => InInv'
<1> SUFFICES ASSUME InInv, NEW len \in Sizes, RequestRead(len) PROVE InInv'
  OBVIOUS
<1>1. UNCHANGED <<arrived, rxfifo, buf, head, tail, taken, reading>> /\ size' = len
  BY DEF RequestRead, uart, rxrb, client
<1>2. Contents' = Contents
  BY <1>1 DEF Contents, rxrb_len
<1>3. size' \in Nat
  BY <1>1, Pl011Assumption
<1>4. InType'
  BY <1>1, <1>2, <1>3 DEF InInv, InType, RingOK
<1>5. Arrived' /\ Sorted'
  BY <1>1, <1>2, Zenon DEF InInv, Arrived, Sorted
<1> QED BY <1>4, <1>5 DEF InInv

(* Every step keeps the order of what is received.                           *)
LEMMA InStep == InInv /\ [Next]_vars => InInv'
<1>1. InInv /\ StartsUp /\ UNCHANGED driver => InInv'
  <2>1. UNCHANGED driver => UNCHANGED inputs
    BY DEF driver, inputs, uart, rxrb, client
  <2> QED BY <2>1, OtherOrder
<1>2. InInv /\ Serves => InInv'
  BY ReceiveOrder, DrainOrder, ReadOrder, RequestOrder, OtherInputs, OtherOrder DEF Serves, Driver
<1>3. InInv /\ UNCHANGED vars => InInv'
  <2>1. UNCHANGED vars => UNCHANGED inputs
    BY DEF vars, driver, inputs, uart, rxrb, client
  <2> QED BY <2>1, OtherOrder
<1> QED BY <1>1, <1>2, <1>3 DEF Next

(* InInv is an invariant: the order in which bytes pass through the driver.  *)
LEMMA InInvariant == Spec => []InInv
<1>1. Init => InInv
  BY InInit
<1>2. InInv /\ [Next]_vars => InInv'
  BY InStep
<1> QED BY <1>1, <1>2, PTL DEF Spec

(* Parts that ascend, each before the next, ascend as a whole.               *)
LEMMA OrderKept == InInv => InOrder
<1> SUFFICES ASSUME InInv PROVE InOrder
  OBVIOUS
<1> DEFINE first == reading \o taken
           second == first \o Contents
           all == second \o rxfifo
<1>1. InType /\ Sorted
  BY DEF InInv
<1>2. first \in Seq(Received) /\ Range(first) = Range(reading) \cup Range(taken) /\ Ascending(first)
  BY <1>1, ConcatAscends DEF InType, Sorted
<1>3. second \in Seq(Received) /\ Range(second) = Range(first) \cup Range(Contents) /\ Ascending(second)
  <2>1. Before(first, Contents)
    BY <1>1, <1>2, Zenon DEF Sorted, Before
  <2> HIDE DEF first
  <2> QED BY <1>1, <1>2, <2>1, ConcatAscends DEF InType, Sorted
<1>4. all \in Seq(Received) /\ Ascending(all)
  <2>1. Before(second, rxfifo)
    BY <1>1, <1>2, <1>3, Zenon DEF Sorted, Before
  <2> HIDE DEF second
  <2> QED BY <1>1, <1>3, <2>1, ConcatAscends DEF InType, Sorted
<1>5. InOrder = (\A i \in 1 .. Len(all) - 1 : all[i] < all[i + 1])
  BY Zenon DEF InOrder
<1> HIDE DEF all
<1>6. Len(all) \in Nat
  BY <1>4, LenProperties
<1>7. \A i \in 1 .. Len(all) - 1 : i \in 1 .. Len(all) /\ i + 1 \in 1 .. Len(all) /\ i < i + 1
  BY <1>6
<1> QED BY <1>4, <1>5, <1>7 DEF Ascending
-----------------------------------------------------------------------------
(* The ring as the abstract queue.                                           *)

(* rxrb_push is a put of the abstract queue, rxrb_pop a get, and no other    *)
(* step touches the ring.                                                    *)
LEMMA RingStep == InInv /\ [Next]_vars => [LQ!LQNext]_Contents
<1>1. UNCHANGED rxrb => UNCHANGED Contents
  BY DEF rxrb, Contents, rxrb_len
<1>2. InInv /\ Drain => [LQ!LQNext]_Contents
  <2> SUFFICES ASSUME InInv, Drain, Push(Head(rxfifo)) PROVE LQ!LQNext
    BY <1>1 DEF Drain
  <2>1. InType
    BY DEF InInv
  <2>2. Head(rxfifo) \in Received
    BY <2>1, TailAscends DEF InType, Drain
  <2>3. Contents' = Append(IF Len(Contents) = Cap - 1 THEN Tail(Contents) ELSE Contents, Head(rxfifo))
    BY <2>1, <2>2, PushContents DEF InType
  <2>4. LQ!LQPut(Head(rxfifo))
    BY <2>3 DEF LQ!LQPut, Cap
  <2> QED BY <2>2, <2>4 DEF LQ!LQNext
<1>3. InInv /\ Read => [LQ!LQNext]_Contents
  <2> SUFFICES ASSUME InInv, Read PROVE [LQ!LQNext]_Contents
    OBVIOUS
  <2>1. CASE size > 0 /\ head # tail
    <3>1. tail' = After(tail) /\ UNCHANGED <<buf, head>>
      BY <2>1 DEF Read
    <3>2. Contents # << >> /\ Contents' = Tail(Contents)
      BY <2>1, <3>1, PopContents DEF InInv, InType
    <3> QED BY <3>2 DEF LQ!LQNext, LQ!LQGet
  <2>2. CASE ~ (size > 0 /\ head # tail)
    BY <1>1, <2>2 DEF Read, rxrb
  <2> QED BY <2>1, <2>2
<1>4. Receive \/ (\E len \in Sizes : RequestRead(len)) => UNCHANGED rxrb
  BY DEF Receive, RequestRead
<1>5. UNCHANGED inputs \/ UNCHANGED driver \/ UNCHANGED vars => UNCHANGED rxrb
  BY DEF inputs, driver, vars
<1>6. InInv /\ Serves => [LQ!LQNext]_Contents
  BY <1>1, <1>2, <1>3, <1>4, <1>5, OtherInputs DEF Serves, Driver
<1> QED BY <1>1, <1>5, <1>6 DEF Next

(* head = tail: the ring starts empty.                                       *)
LEMMA RingStart == Init => LQ!LQInit
<1> SUFFICES ASSUME Init PROVE Contents = << >>
  BY DEF LQ!LQInit
<1>1. RingOK /\ head = tail
  BY InInit DEF InInv, InType, Init
<1>2. Contents = Bytes(buf, head, tail)
  BY DEF Contents, rxrb_len, Bytes, Count, Cap
<1>3. Contents \in Seq(0 .. MaxIn) /\ Len(Contents) = 0
  BY <1>1, <1>2, RingContents DEF RingOK, RingHolds
<1> QED BY <1>3, EmptySeq

(* The ring of usr/pl011/pl011.c implements the queue that forgets its       *)
(* oldest byte, for every number of slots: rxrb_push and rxrb_pop.           *)
THEOREM Pl011LossyQueue == Spec => ImplementsLossyQueue
<1>1. Init => LQ!LQInit
  BY RingStart
<1>2. InInv /\ [Next]_vars => [LQ!LQNext]_Contents
  BY RingStep
<1> QED BY <1>1, <1>2, InInvariant, PTL DEF Spec, ImplementsLossyQueue, LQ!LQSpec
-----------------------------------------------------------------------------
(* What the driver has transmitted.                                          *)

Chars == {"x", "nl"}
Wire == {"x", "cr", "nl"}

Line(c) == IF c = "nl" THEN <<"cr", "nl">> ELSE <<c>>

(* Nothing written, nothing on the wire.                                     *)
LEMMA ExpandEmpty == Expand(<< >>) = << >>
<1>1. [i \in DOMAIN << >> |-> IF << >>[i] = "nl" THEN <<"cr", "nl">> ELSE << << >>[i] >>] = << >>
  OBVIOUS
<1> QED BY <1>1, NothingFlat, Zenon DEF Expand

(* A character more makes its line longer: \r\n or the character.            *)
LEMMA ExpandAppend ==
  ASSUME NEW s \in Seq(Chars), NEW c \in Chars
  PROVE  Expand(s) \in Seq(Wire) /\ Expand(Append(s, c)) = Expand(s) \o Line(c)
<1> DEFINE L == [i \in 1 .. Len(s) |-> Line(s[i])]
           t == Append(s, c)
           M == [i \in 1 .. Len(t) |-> Line(t[i])]
<1>1. /\ Len(s) \in Nat /\ Len(t) = Len(s) + 1 /\ t \in Seq(Chars)
      /\ \A i \in 1 .. Len(s) : t[i] = s[i] /\ s[i] \in Chars
      /\ t[Len(s) + 1] = c
      /\ DOMAIN s = 1 .. Len(s) /\ DOMAIN t = 1 .. Len(t)
  BY AppendProperties, LenProperties
<1>2. Expand(s) = FlattenSeq(L) /\ Expand(t) = FlattenSeq(M)
  <2>1. L = [i \in DOMAIN s |-> IF s[i] = "nl" THEN <<"cr", "nl">> ELSE <<s[i]>>]
    BY <1>1, Zenon DEF Line
  <2>2. M = [i \in DOMAIN t |-> IF t[i] = "nl" THEN <<"cr", "nl">> ELSE <<t[i]>>]
    BY <1>1, Zenon DEF Line
  <2> QED BY <2>1, <2>2, Zenon DEF Expand
<1>3. \A d \in Chars : Line(d) \in Seq(Wire)
  <2>1. /\ <<"cr", "nl">> \in Seq(Wire)
        /\ \A d \in Wire : <<d>> \in Seq(Wire)
    BY DEF Wire
  <2>2. Chars \subseteq Wire
    BY DEF Chars, Wire
  <2> QED BY <2>1, <2>2, Zenon DEF Line
<1>4. L \in Seq(Seq(Wire)) /\ Len(L) = Len(s)
  <2>1. L \in [1 .. Len(s) -> Seq(Wire)]
    BY <1>1, <1>3
  <2>2. L \in Seq(Seq(Wire))
    <3>1. L \in UNION {[1 .. k -> Seq(Wire)] : k \in Nat}
      <4> HIDE DEF L
      <4> QED BY <1>1, <2>1, Zenon
    <3> QED BY <3>1, SeqDef, Zenon
  <2> QED BY <1>1, <2>1, <2>2, LenProperties
<1>5. M = Append(L, Line(c))
  <2>1. /\ Append(L, Line(c)) \in Seq(Seq(Wire)) /\ Len(Append(L, Line(c))) = Len(s) + 1
        /\ \A i \in 1 .. Len(s) : Append(L, Line(c))[i] = L[i]
        /\ Append(L, Line(c))[Len(s) + 1] = Line(c)
    BY <1>3, <1>4, AppendProperties
  <2>2. M \in Seq(Seq(Wire)) /\ Len(M) = Len(s) + 1
    <3>1. M \in [1 .. Len(s) + 1 -> Seq(Wire)]
      <4>1. \A i \in 1 .. Len(s) + 1 : t[i] \in Chars
        BY <1>1, LenProperties
      <4> QED BY <1>1, <1>3, <4>1
    <3>2. M \in Seq(Seq(Wire))
      <4>1. M \in UNION {[1 .. k -> Seq(Wire)] : k \in Nat}
        <5>1. Len(s) + 1 \in Nat
          BY <1>1
        <5> HIDE DEF M
        <5> QED BY <3>1, <5>1, Zenon
      <4> QED BY <4>1, SeqDef, Zenon
    <3> QED BY <1>1, <3>1, <3>2, LenProperties
  <2>3. \A i \in 1 .. Len(s) + 1 : M[i] = Append(L, Line(c))[i]
    <3> SUFFICES ASSUME NEW i \in 1 .. Len(s) + 1 PROVE M[i] = Append(L, Line(c))[i]
      OBVIOUS
    <3>1. M[i] = Line(t[i])
      BY <1>1
    <3>2. CASE i \in 1 .. Len(s)
      BY <1>1, <2>1, <3>1, <3>2
    <3>3. CASE i = Len(s) + 1
      BY <1>1, <2>1, <3>1, <3>3
    <3> QED BY <1>1, <3>2, <3>3
  <2> HIDE DEF L, M
  <2> QED BY <2>1, <2>2, <2>3, SeqEqual
<1> HIDE DEF L, M
<1> QED BY <1>2, <1>3, <1>4, <1>5, FlatIn, FlattenAppend DEF t

(* What of the text s is before its rest l.                                  *)
Gone(s, l) == SubSeq(s, 1, Len(s) - Len(l))

EndsIn(s, l) == Len(l) <= Len(s) /\ \A i \in 1 .. Len(l) : l[i] = s[Len(s) - Len(l) + i]

(* At the request nothing of the text is gone.                               *)
LEMMA GoneAll == ASSUME NEW s \in Seq(Chars) PROVE EndsIn(s, s) /\ Gone(s, s) = << >>
<1>1. Len(s) \in Nat
  BY LenProperties
<1>2. EndsIn(s, s)
  BY <1>1 DEF EndsIn
<1>3. Gone(s, s) = << >>
  BY <1>1, SubSeqEmpty DEF Gone
<1> QED BY <1>2, <1>3

(* What is gone of a text is its beginning.                                  *)
LEMMA GoneIn ==
  ASSUME NEW s \in Seq(Chars), NEW l \in Seq(Chars), EndsIn(s, l)
  PROVE  /\ Gone(s, l) \in Seq(Chars) /\ Len(Gone(s, l)) = Len(s) - Len(l)
         /\ \A i \in 1 .. Len(s) - Len(l) : Gone(s, l)[i] = s[i]
<1> DEFINE n == Len(s) - Len(l)
<1>1. n \in Nat /\ \A i \in 1 .. n : s[i] \in Chars
  BY LenProperties DEF EndsIn
<1> HIDE DEF n
<1>2. 1 \in Int /\ n \in Int
  BY <1>1
<1>3. /\ SubSeq(s, 1, n) \in Seq(Chars) /\ Len(SubSeq(s, 1, n)) = IF 1 <= n THEN n - 1 + 1 ELSE 0
      /\ \A i \in 1 .. n - 1 + 1 : SubSeq(s, 1, n)[i] = s[1 + i - 1]
  BY <1>1, <1>2, SubSeqProperties
<1>4. Gone(s, l) = SubSeq(s, 1, n)
  BY DEF Gone, n
<1>5. Len(SubSeq(s, 1, n)) = n /\ \A i \in 1 .. n : SubSeq(s, 1, n)[i] = s[i]
  BY <1>1, <1>3
<1> QED BY <1>3, <1>4, <1>5 DEF n

(* buf++ in uart_write_nonblocking: the next character is gone too.          *)
LEMMA GoesOn ==
  ASSUME NEW s \in Seq(Chars), NEW l \in Seq(Chars), EndsIn(s, l), l # << >>
  PROVE  /\ Tail(l) \in Seq(Chars) /\ Head(l) \in Chars /\ EndsIn(s, Tail(l))
         /\ Gone(s, Tail(l)) = Append(Gone(s, l), Head(l))
<1> DEFINE t == Tail(l)
           n == Len(s) - Len(l)
           g == Gone(s, l)
           h == Gone(s, t)
<1>1. /\ Len(s) \in Nat /\ Len(l) \in Nat \ {0} /\ Len(l) <= Len(s) /\ n \in Nat
      /\ \A i \in 1 .. Len(l) : l[i] = s[n + i]
  BY LenProperties, EmptySeq DEF EndsIn
<1>2. /\ t \in Seq(Chars) /\ Head(l) \in Chars /\ Len(t) = Len(l) - 1 /\ Head(l) = l[1]
      /\ \A i \in 1 .. Len(t) : t[i] = l[i + 1]
  BY HeadTailProperties
<1>3. EndsIn(s, t)
  <2>1. Len(t) <= Len(s)
    BY <1>1, <1>2
  <2>2. ASSUME NEW i \in 1 .. Len(t) PROVE t[i] = s[Len(s) - Len(t) + i]
    <3>1. i + 1 \in 1 .. Len(l) /\ n + (i + 1) = Len(s) - Len(t) + i
      BY <1>1, <1>2
    <3> QED BY <1>1, <1>2, <3>1
  <2> HIDE DEF t
  <2> QED BY <2>1, <2>2 DEF EndsIn
<1> HIDE DEF t
<1>4. g \in Seq(Chars) /\ Len(g) = n /\ \A i \in 1 .. n : g[i] = s[i]
  BY GoneIn
<1>5. h \in Seq(Chars) /\ Len(h) = n + 1 /\ \A i \in 1 .. n + 1 : h[i] = s[i]
  <2>1. /\ h \in Seq(Chars) /\ Len(h) = Len(s) - Len(t)
        /\ \A i \in 1 .. Len(s) - Len(t) : h[i] = s[i]
    BY <1>2, <1>3, GoneIn
  <2>2. Len(s) - Len(t) = n + 1
    BY <1>1, <1>2
  <2> QED BY <2>1, <2>2
<1> HIDE DEF g, h
<1>6. Head(l) = s[n + 1]
  BY <1>1, <1>2
<1>7. /\ Append(g, Head(l)) \in Seq(Chars) /\ Len(Append(g, Head(l))) = n + 1
      /\ \A i \in 1 .. n : Append(g, Head(l))[i] = g[i]
      /\ Append(g, Head(l))[n + 1] = Head(l)
  BY <1>2, <1>4, AppendProperties
<1> HIDE DEF n
<1>8. \A i \in 1 .. n + 1 : i \in 1 .. n \/ i = n + 1
  BY <1>1
<1>9. \A i \in 1 .. n + 1 : h[i] = Append(g, Head(l))[i]
  BY <1>4, <1>5, <1>6, <1>7, <1>8
<1>10. h = Append(g, Head(l))
  BY <1>5, <1>7, <1>9, SeqEqual
<1> QED BY <1>2, <1>3, <1>10 DEF t, g, h

-----------------------------------------------------------------------------
Idle == {"init", "drain", "wait", "read drain", "read", "reply"}
Writing == {"write pending", "write", "write nl"}

OutType ==
  /\ txcount \in 0 .. FIFO /\ out \in Seq(Wire) /\ pending_nl \in BOOLEAN
  /\ pc \in Idle \cup Writing
  /\ left \in Seq(Chars) /\ text \in Seq(Chars) /\ accepted \in Seq(Chars)

Where ==
  /\ pc \in Writing => EndsIn(text, left)
  /\ pc = "write nl" => left # << >> /\ Head(left) = "nl"
  /\ pc \in {"write", "write nl"} => pending_nl = FALSE

(* What the driver took from the client so far, and the newline it owes.     *)
Told == IF pc \in Writing THEN accepted \o Gone(text, left) ELSE accepted

Owed == IF pending_nl THEN <<"nl">> ELSE << >>

(* The wire shows what was taken, at every access of the driver.             *)
Shown ==
  IF pc = "write nl" THEN out = Expand(Told) \o <<"cr">> ELSE Expand(Told) = out \o Owed

OutInv == OutType /\ Where /\ Shown

outputs == <<txcount, out, pending_nl, pc, left, text, accepted>>

(* Nothing is written when the driver starts.                                *)
LEMMA OutInit == Init => OutInv
<1> SUFFICES ASSUME Init PROVE OutInv
  OBVIOUS
<1>1. FIFO \in Nat \ {0} /\ Texts \subseteq Seq(Chars)
  BY Pl011Assumption DEF Chars
<1>2. /\ << >> \in Seq(Chars) /\ << >> \in Seq(Wire) /\ << >> \o << >> = << >>
  BY EmptySeq, ConcatEmptySeq
<1>3. OutType
  <2>1. text \in Seq(Chars)
    BY <1>1, <1>2, Zenon DEF Init
  <2>2. 0 \in 0 .. FIFO
    BY <1>1
  <2> QED BY <1>2, <2>1, <2>2 DEF Init, OutType, Idle
<1>4. Where /\ Shown
  BY <1>2, ExpandEmpty DEF Init, Where, Shown, Told, Owed, Writing
<1> QED BY <1>3, <1>4 DEF OutInv

(* The UART transmits a byte: there is room in the FIFO.                     *)
LEMMA OutTransmit == OutInv /\ Transmit => OutInv'
<1> SUFFICES ASSUME OutInv, Transmit PROVE OutInv'
  OBVIOUS
<1>1. txcount > 0 /\ txcount' = txcount - 1 /\ UNCHANGED <<out, pending_nl, pc, left, text, accepted>>
  BY DEF Transmit, client
<1>2. txcount' \in 0 .. FIFO
  BY <1>1, Pl011Assumption DEF OutInv, OutType
<1> QED BY <1>1, <1>2 DEF OutInv, OutType, Where, Shown, Told, Owed

(* Outside of a write only the place, the text and the rest change.          *)
LEMMA OutIdle ==
  OutInv /\ pc \in Idle /\ pc' \in Idle /\ UNCHANGED <<txcount, out, pending_nl, accepted>>
    /\ left' \in Seq(Chars) /\ text' \in Seq(Chars)
  => OutInv'
<1> SUFFICES ASSUME OutInv, pc \in Idle, pc' \in Idle, UNCHANGED <<txcount, out, pending_nl, accepted>>,
                    left' \in Seq(Chars), text' \in Seq(Chars)
             PROVE  OutInv'
  OBVIOUS
<1>1. \A p \in Idle : p \notin Writing /\ p # "write nl" /\ p # "write"
  BY DEF Idle, Writing
<1>2. OutType'
  BY DEF OutInv, OutType
<1>3. Told' = Told /\ Owed' = Owed
  BY <1>1 DEF Told, Owed
<1>4. Where'
  BY <1>1 DEF Where
<1>5. Shown'
  BY <1>1, <1>3 DEF OutInv, Shown
<1> QED BY <1>2, <1>4, <1>5 DEF OutInv

(* A request to write starts with the whole text.                            *)
LEMMA OutRequest == OutInv /\ RequestWrite => OutInv'
<1> SUFFICES ASSUME OutInv, RequestWrite PROVE OutInv'
  OBVIOUS
<1>1. /\ pc = "wait" /\ pc' = "write pending" /\ left' = text
      /\ UNCHANGED <<txcount, out, pending_nl, text, accepted>>
  BY DEF RequestWrite, At, uart, client
<1>2. /\ EndsIn(text, text) /\ Gone(text, text) = << >> /\ accepted \o << >> = accepted
  BY GoneAll, ConcatEmptySeq DEF OutInv, OutType
<1>3. Told = accepted /\ Told' = accepted
  BY <1>1, <1>2 DEF Told, Writing
<1> QED BY <1>1, <1>2, <1>3 DEF OutInv, OutType, Where, Shown, Owed, Writing

(* What the client is told is what the driver took.                          *)
LEMMA OutReplies ==
  ASSUME OutInv, NEW rest \in Seq(Chars), EndsIn(text, rest), WriteReplies(rest),
         UNCHANGED <<txcount, out>>, pending_nl' \in BOOLEAN,
         Expand(accepted \o Gone(text, rest)) = out \o Owed'
  PROVE  OutInv'
<1>1. /\ pc' = "reply" /\ left' = rest /\ text' = rest /\ accepted' = accepted \o Gone(text, rest)
  BY DEF WriteReplies, Gone
<1>2. accepted' \in Seq(Chars)
  BY <1>1, GoneIn, ConcatProperties DEF OutInv, OutType
<1>3. OutType'
  BY <1>1, <1>2 DEF OutInv, OutType, Idle
<1>4. Where' /\ Shown'
  BY <1>1 DEF Where, Shown, Told, Writing
<1> QED BY <1>3, <1>4 DEF OutInv

(* What was taken is text, and its lines can be on the wire.                 *)
LEMMA ToldIn ==
  ASSUME OutInv, pc \in Writing
  PROVE  /\ Told \in Seq(Chars) /\ Told = accepted \o Gone(text, left)
         /\ Expand(Told) \in Seq(Wire)
<1>1. Told \in Seq(Chars) /\ Told = accepted \o Gone(text, left)
  BY GoneIn, ConcatProperties DEF OutInv, OutType, Where, Told
<1>2. "x" \in Chars
  BY DEF Chars
<1> QED BY <1>1, <1>2, ExpandAppend

(* One character more.                                                       *)
LEMMA ToldMore ==
  ASSUME OutInv, pc \in Writing, left # << >>
  PROVE  /\ accepted \o Gone(text, Tail(left)) = Append(Told, Head(left))
         /\ Expand(Append(Told, Head(left))) = Expand(Told) \o Line(Head(left))
<1>1. Gone(text, Tail(left)) = Append(Gone(text, left), Head(left)) /\ Head(left) \in Chars
  BY GoesOn DEF OutInv, OutType, Where
<1>2. Gone(text, left) \in Seq(Chars) /\ accepted \in Seq(Chars)
  BY GoneIn DEF OutInv, OutType, Where
<1>3. Told \in Seq(Chars) /\ Told = accepted \o Gone(text, left)
  BY ToldIn
<1> DEFINE g == Gone(text, left)
           c == Head(left)
<1>4. accepted \o Append(g, c) = Append(accepted \o g, c)
  <2>1. <<c>> \in Seq(Chars)
    BY <1>1
  <2>2. Append(g, c) = g \o <<c>> /\ Append(accepted \o g, c) = (accepted \o g) \o <<c>>
    BY <1>1, <1>2, <1>3, AppendIsConcat
  <2> HIDE DEF g, c
  <2>3. (accepted \o g) \o <<c>> = accepted \o (g \o <<c>>)
    BY <1>2, <2>1, ConcatAssociative DEF g
  <2> QED BY <2>2, <2>3
<1> QED BY <1>1, <1>3, <1>4, ExpandAppend

(* The newline of the last write is put first, or nothing is taken.          *)
LEMMA OutPending == OutInv /\ WritePending => OutInv'
<1> SUFFICES ASSUME OutInv, WritePending PROVE OutInv'
  OBVIOUS
<1>1. pc = "write pending" /\ pc \in Writing
  BY DEF WritePending, At, Writing
<1>2. /\ out \in Seq(Wire) /\ txcount \in 0 .. FIFO /\ pending_nl \in BOOLEAN
      /\ left \in Seq(Chars) /\ text \in Seq(Chars) /\ EndsIn(text, left)
      /\ Expand(Told) = out \o Owed
  BY <1>1 DEF OutInv, OutType, Where, Shown
<1>3. CASE ~ pending_nl
  <2>1. pc' = "write" /\ UNCHANGED <<txcount, out, pending_nl, left, text, accepted>>
    BY <1>3 DEF WritePending
  <2>2. Told' = Told
    BY <1>1, <2>1 DEF Told, Writing
  <2> QED BY <1>1, <1>2, <1>3, <2>1, <2>2 DEF OutInv, OutType, Where, Shown, Owed, Writing
<1>4. CASE pending_nl /\ Writable
  <2>1. /\ pc' = "write" /\ pending_nl' = FALSE /\ txcount' = txcount + Len(<<"nl">>) /\ out' = out \o <<"nl">>
        /\ UNCHANGED <<left, text, accepted>>
    BY <1>4 DEF WritePending, Put
  <2>2. Told' = Told
    BY <1>1, <2>1 DEF Told, Writing
  <2>3. out' \in Seq(Wire) /\ out' \o << >> = out'
    <3>1. <<"nl">> \in Seq(Wire)
      BY DEF Wire
    <3> QED BY <1>2, <2>1, <3>1, ConcatProperties, ConcatEmptySeq
  <2>4. txcount' \in 0 .. FIFO
    BY <1>2, <1>4, <2>1, Pl011Assumption DEF Writable
  <2>5. OutType'
    BY <2>1, <2>3, <2>4 DEF OutInv, OutType, Writing
  <2>6. Where'
    BY <1>1, <2>1 DEF OutInv, Where, Writing
  <2>7. Shown'
    BY <1>2, <1>4, <2>1, <2>2, <2>3 DEF Shown, Owed
  <2> QED BY <2>5, <2>6, <2>7 DEF OutInv
<1>5. CASE pending_nl /\ ~ Writable
  <2>1. WriteReplies(left) /\ UNCHANGED <<txcount, out, pending_nl>>
    BY <1>5 DEF WritePending
  <2>2. Owed' = Owed /\ pending_nl' \in BOOLEAN
    BY <1>2, <2>1 DEF Owed
  <2> QED BY <1>1, <1>2, <2>1, <2>2, ToldIn, OutReplies
<1> QED BY <1>2, <1>3, <1>4, <1>5

(* A character is put, a newline begun, or the count returned.               *)
LEMMA OutWrite == OutInv /\ Write => OutInv'
<1> SUFFICES ASSUME OutInv, Write PROVE OutInv'
  OBVIOUS
<1>1. pc = "write" /\ pc \in Writing
  BY DEF Write, At, Writing
<1>2. /\ out \in Seq(Wire) /\ txcount \in 0 .. FIFO /\ pending_nl = FALSE /\ pending_nl' = FALSE
      /\ left \in Seq(Chars) /\ text \in Seq(Chars) /\ EndsIn(text, left)
      /\ Expand(Told) = out
  <2>1. /\ out \in Seq(Wire) /\ Expand(Told) = out \o Owed /\ pending_nl = FALSE
    BY <1>1 DEF OutInv, OutType, Where, Shown
  <2>2. Expand(Told) = out
    BY <2>1, ConcatEmptySeq DEF Owed
  <2> QED BY <1>1, <2>1, <2>2 DEF OutInv, OutType, Where, Write
<1>3. \A s \in Seq(Wire) : s \o << >> = s
  BY ConcatEmptySeq
<1>4. CASE left = << >> \/ ~ Writable
  <2>1. WriteReplies(left) /\ UNCHANGED <<txcount, out>>
    BY <1>4 DEF Write
  <2>2. Owed' = << >> /\ pending_nl' \in BOOLEAN
    BY <1>2 DEF Owed
  <2>3. Expand(accepted \o Gone(text, left)) = out \o Owed'
    BY <1>1, <1>2, <1>3, <2>2, ToldIn
  <2> QED BY <1>2, <2>1, <2>2, <2>3, OutReplies
<1>5. CASE left # << >> /\ Writable
  <2>0. UNCHANGED <<text, accepted>>
    BY <1>5 DEF Write
  <2>1. /\ txcount + 1 \in 0 .. FIFO
        /\ \A d \in Wire : <<d>> \in Seq(Wire) /\ Len(<<d>>) = 1 /\ out \o <<d>> \in Seq(Wire)
    <3>1. txcount + 1 \in 0 .. FIFO
      BY <1>2, <1>5, Pl011Assumption DEF Writable
    <3>2. \A d \in Wire : <<d>> \in Seq(Wire) /\ Len(<<d>>) = 1
      OBVIOUS
    <3> QED BY <1>2, <3>1, <3>2, ConcatProperties
  <2>2. CASE Head(left) = "nl"
    <3>1. /\ pc' = "write nl" /\ left' = left /\ txcount' = txcount + Len(<<"cr">>) /\ out' = out \o <<"cr">>
      BY <1>5, <2>2 DEF Write, Put
    <3>2. Told' = Told
      BY <1>1, <2>0, <3>1 DEF Told, Writing
    <3>3. OutType'
      <4>1. "cr" \in Wire
        BY DEF Wire
      <4>2. txcount' \in 0 .. FIFO /\ out' \in Seq(Wire)
        BY <2>1, <3>1, <4>1
      <4> QED BY <1>2, <2>0, <3>1, <4>2 DEF OutInv, OutType, Writing
    <3>4. Where'
      BY <1>2, <1>5, <2>0, <2>2, <3>1 DEF Where
    <3>5. Shown'
      BY <1>2, <3>1, <3>2 DEF Shown
    <3> QED BY <3>3, <3>4, <3>5 DEF OutInv
  <2>3. CASE Head(left) # "nl"
    <3>1. /\ pc' = pc /\ left' = Tail(left) /\ txcount' = txcount + Len(<<"x">>) /\ out' = out \o <<"x">>
      BY <1>5, <2>3 DEF Write, Put
    <3>2. /\ Tail(left) \in Seq(Chars) /\ EndsIn(text, Tail(left)) /\ Head(left) = "x"
      BY <1>2, <1>5, <2>3, GoesOn DEF Chars
    <3>3. Told' = Append(Told, "x") /\ Expand(Append(Told, "x")) = Expand(Told) \o <<"x">>
      <4>1. Told' = accepted \o Gone(text, Tail(left))
        BY <1>1, <2>0, <3>1 DEF Told, Writing
      <4>2. Line("x") = <<"x">>
        BY DEF Line
      <4> QED BY <1>1, <1>5, <3>2, <4>1, <4>2, ToldMore
    <3>4. txcount' \in 0 .. FIFO /\ out' \in Seq(Wire)
      <4>1. "x" \in Wire
        BY DEF Wire
      <4> QED BY <2>1, <3>1, <4>1
    <3>5. OutType'
      BY <1>2, <2>0, <3>1, <3>2, <3>4 DEF OutInv, OutType
    <3>6. Where'
      BY <1>1, <1>2, <2>0, <3>1, <3>2 DEF Where
    <3>7. Shown'
      BY <1>1, <1>2, <1>3, <3>1, <3>3, <3>4 DEF Shown, Owed
    <3> QED BY <3>5, <3>6, <3>7 DEF OutInv
  <2> QED BY <2>2, <2>3
<1> QED BY <1>4, <1>5

(* The second half of a newline: put, or owed and counted.                   *)
LEMMA OutNewline == OutInv /\ WriteNewline => OutInv'
<1> SUFFICES ASSUME OutInv, WriteNewline PROVE OutInv'
  OBVIOUS
<1>1. pc = "write nl" /\ pc \in Writing
  BY DEF WriteNewline, At, Writing
<1>2. /\ out \in Seq(Wire) /\ txcount \in 0 .. FIFO /\ pending_nl = FALSE
      /\ left \in Seq(Chars) /\ text \in Seq(Chars) /\ EndsIn(text, left)
      /\ left # << >> /\ Head(left) = "nl"
      /\ out = Expand(Told) \o <<"cr">>
  BY <1>1 DEF OutInv, OutType, Where, Shown
<1>3. Tail(left) \in Seq(Chars) /\ EndsIn(text, Tail(left))
  BY <1>2, GoesOn
<1>4. /\ accepted \o Gone(text, Tail(left)) = Append(Told, "nl")
      /\ Expand(Append(Told, "nl")) = out \o <<"nl">>
      /\ out \o <<"nl">> \in Seq(Wire) /\ (out \o <<"nl">>) \o << >> = out \o <<"nl">>
  <2>1. /\ <<"cr">> \in Seq(Wire) /\ <<"nl">> \in Seq(Wire) /\ <<"cr", "nl">> = <<"cr">> \o <<"nl">>
    BY DEF Wire
  <2>2. (Expand(Told) \o <<"cr">>) \o <<"nl">> = Expand(Told) \o (<<"cr">> \o <<"nl">>)
    <3>1. Expand(Told) \in Seq(Wire)
      BY <1>1, ToldIn
    <3> QED BY <2>1, <3>1, ConcatAssociative
  <2>3. Line("nl") = <<"cr", "nl">>
    BY DEF Line
  <2>4. Expand(Append(Told, "nl")) = Expand(Told) \o Line("nl") /\ accepted \o Gone(text, Tail(left)) = Append(Told, "nl")
    BY <1>1, <1>2, ToldMore
  <2>5. out \o <<"nl">> \in Seq(Wire)
    BY <1>2, <2>1, ConcatProperties
  <2> QED BY <1>2, <2>1, <2>2, <2>3, <2>4, <2>5, ConcatEmptySeq
<1>5. CASE Writable
  <2>1. /\ pc' = "write" /\ left' = Tail(left) /\ txcount' = txcount + Len(<<"nl">>) /\ out' = out \o <<"nl">>
        /\ UNCHANGED <<pending_nl, text, accepted>>
    BY <1>5 DEF WriteNewline, Put
  <2>2. Told' = Append(Told, "nl")
    BY <1>4, <2>1 DEF Told, Writing
  <2>3. txcount' \in 0 .. FIFO
    BY <1>2, <1>5, <2>1, Pl011Assumption DEF Writable
  <2>4. OutType'
    BY <1>3, <1>4, <2>1, <2>3 DEF OutInv, OutType, Writing
  <2>5. Where'
    BY <1>2, <1>3, <2>1 DEF Where
  <2>6. Shown'
    BY <1>2, <1>4, <2>1, <2>2 DEF Shown, Owed
  <2> QED BY <2>4, <2>5, <2>6 DEF OutInv
<1>6. CASE ~ Writable
  <2>1. WriteReplies(Tail(left)) /\ pending_nl' = TRUE /\ UNCHANGED <<txcount, out>>
    BY <1>6 DEF WriteNewline
  <2>2. Owed' = <<"nl">> /\ pending_nl' \in BOOLEAN
    BY <2>1 DEF Owed
  <2> QED BY <1>3, <1>4, <2>1, <2>2, OutReplies
<1> QED BY <1>5, <1>6

(* Every step keeps the wire true to what was taken.                         *)
LEMMA OutStep == OutInv /\ [Next]_vars => OutInv'
<1> SUFFICES ASSUME OutInv, [Next]_vars PROVE OutInv'
  OBVIOUS
<1>1. left \in Seq(Chars) /\ text \in Seq(Chars)
  BY DEF OutInv, OutType
<1>2. ASSUME UNCHANGED outputs PROVE OutInv'
  BY <1>2 DEF outputs, OutInv, OutType, Where, Shown, Told, Owed
<1>3. UNCHANGED driver \/ UNCHANGED vars => UNCHANGED outputs
  BY DEF vars, driver, outputs, uart, client
<1>4. Receive \/ Drain => UNCHANGED outputs
  BY DEF Receive, Drain, outputs, client
<1>5. CASE Registered \/ Drained \/ Reply \/ (\E len \in Sizes : RequestRead(len))
  <2>1. << >> \in Seq(Chars)
    BY EmptySeq
  <2>2. pc \in Idle /\ pc' \in Idle /\ UNCHANGED <<txcount, out, pending_nl, accepted, text>>
    BY <1>5 DEF Registered, Drained, Reply, RequestRead, At, Idle, uart, client
  <2>3. left' \in Seq(Chars)
    BY <1>1, <1>5, <2>1 DEF Registered, Drained, Reply, RequestRead
  <2> QED BY <1>1, <2>2, <2>3, OutIdle
<1>6. CASE Read
  <2>1. pc \in Idle /\ pc' \in Idle /\ UNCHANGED <<txcount, out, pending_nl, left, text, accepted>>
    BY <1>6 DEF Read, At, Idle, uart
  <2> QED BY <1>1, <2>1, OutIdle
<1>7. CASE \E s \in Texts : BeginWrite(s)
  <2>1. /\ pc \in Idle /\ pc' \in Idle /\ UNCHANGED <<txcount, out, pending_nl, left, accepted>>
        /\ text' \in Texts
    BY <1>7 DEF BeginWrite, At, Idle, uart
  <2>2. text' \in Seq(Chars)
    BY <2>1, Pl011Assumption DEF Chars
  <2> QED BY <1>1, <2>1, <2>2, OutIdle
<1>8. CASE Serves
  BY <1>2, <1>4, <1>5, <1>6, <1>7, <1>8, OutTransmit, OutRequest, OutPending, OutWrite, OutNewline
     DEF Serves, Driver
<1> QED BY <1>2, <1>3, <1>8 DEF Next

(* OutInv is an invariant: what is on the wire between any two accesses.     *)
LEMMA OutInvariant == Spec => []OutInv
<1>1. Init => OutInv
  BY OutInit
<1>2. OutInv /\ [Next]_vars => OutInv'
  BY OutStep
<1> QED BY <1>1, <1>2, PTL DEF Spec

(* Every variable keeps its type, and what the client read, its current      *)
(* answer, the ring and the FIFO are in the order of arrival, no byte twice. *)
THEOREM Pl011Ring == Spec => []RingInv
<1>1. InInv /\ OutInv => TypeOK
  BY DEF InInv, InType, RingOK, OutInv, OutType, TypeOK, Idle, Writing, Chars, Wire
<1>2. InInv /\ OutInv => RingInv
  BY <1>1, OrderKept DEF RingInv
<1> QED BY <1>2, InInvariant, OutInvariant, PTL

(* Between writes the wire shows exactly the text uart_write_nonblocking     *)
(* counted, every newline behind one carriage return, but for the newline    *)
(* that pending_nl still owes.                                               *)
THEOREM Pl011Faithful == Spec => []Faithful
<1>1. OutInv => Faithful
  BY DEF OutInv, Shown, Told, Owed, Writing, Faithful
<1> QED BY <1>1, OutInvariant, PTL

-----------------------------------------------------------------------------
(* The clocks.                                                              *)

(* The rates for which the divisor is in the UART's range and its fraction   *)
(* is not rounded up to a whole.                                             *)
FittingRate ==
  /\ UART_CLK_HZ = 125000000 /\ 500 <= UART_BAUD /\ UART_BAUD <= 7812500
  /\ ((8 * UART_CLK_HZ) \div UART_BAUD) % 128 # 127

PllStates == [fbdiv : Nat, power : BOOLEAN, lock : BOOLEAN, postdiv : Nat, out : BOOLEAN]

ClockTypeOK ==
  /\ xosc \in {"off", "starting", "stable"}
  /\ ready \in [Components -> BOOLEAN]
  /\ pll \in [PLLs -> PllStates]
  /\ ref \in [src : {"rosc", "xosc"}, selected : {"rosc", "xosc"}]
  /\ sys \in [src : {"ref", "aux"}, selected : {"ref", "aux"}, auxsrc : {"pll_sys"}]
  /\ peri \in [enable : BOOLEAN, auxsrc : {"clk_sys", "pll_sys"}]

\* The PLL that clk_sys gets runs as it is to run.
Output == /\ pll["pll_sys"].lock /\ pll["pll_sys"].out
          /\ pll["pll_sys"].fbdiv = 125 /\ pll["pll_sys"].postdiv = 12

OnXosc == ref.src = "xosc" \/ ref.selected = "xosc"
OnPll  == sys.src = "aux" \/ sys.selected = "aux"

\* Whoever may see a clock finds it running.
Running ==
  /\ OnXosc => xosc = "stable"
  /\ OnPll => Output
  /\ peri.enable => peri.auxsrc = "pll_sys" /\ Output

\* What is still to be changed is seen by nobody.
Upcoming ==
  /\ Waits("setup_clocks", "start") =>
       \/ sys.src = "aux" /\ sys.selected = "aux" /\ peri.enable
       \/ ~OnXosc /\ ~OnPll /\ ~peri.enable
  /\ Waits("xosc", "stable") => ~OnXosc /\ ~OnPll /\ ~peri.enable
  /\ Waits("clk_ref", "selected") \/ Waits("pll_sys", "ready") \/ Waits("pll_sys", "lock") =>
       ~OnPll /\ ~peri.enable
  /\ Waits("pll_sys", "lock") => pll["pll_sys"].fbdiv = 125
  /\ Waits("pll_usb", "ready") \/ Waits("pll_usb", "lock") \/ Waits("clk_sys", "ref")
       \/ Waits("clk_sys", "aux") => Output
  /\ Waits("root", "done") \/ Waits("uart0", "ready") \/ Waits("gpio", "ready") \/ Waits("driver", "main") =>
       peri.enable

ClocksInv == ClockTypeOK /\ Running /\ Upcoming

Divides(int, frac) ==
  int \in Nat /\ frac \in Nat /\ 64 * int + frac # 0
  /\ LET baud == (4 * 125 * 1000000) \div (64 * int + frac)
     IN  100 * baud \in 99 * UART_BAUD .. 101 * UART_BAUD

UartInv ==
  cr => /\ Waits("gpio", "ready") \/ Waits("driver", "main")
        /\ ready["uart0"] /\ format = [bits |-> 8, stop |-> 1, parity |-> "none", fifo |-> TRUE]
        /\ Divides(ibrd, fbrd)

LEMMA ClocksStart == Init => ClocksInv /\ UartInv
<1> SUFFICES ASSUME Init PROVE ClocksInv /\ UartInv
  OBVIOUS
<1>1. step = <<"setup_clocks", "start">> /\ (ClocksCold \/ ClocksWarm) /\ cr = FALSE
  BY DEF Init, ClocksInit, UartInit
<1>2. CASE ClocksCold
  BY <1>1, <1>2 DEF ClocksCold, ClocksInv, Running, Upcoming, ClockTypeOK, OnXosc, OnPll, Waits, UartInv,
                      PLLs, PllReset, PllStates
<1>3. CASE ClocksWarm
  <2>1. pll["pll_sys"] = [fbdiv |-> 125, power |-> TRUE, lock |-> TRUE, postdiv |-> 12, out |-> TRUE]
    <3>1. Feedback["pll_sys"] = 125 /\ Postdiv["pll_sys"] = 12 /\ "pll_sys" \in PLLs
      BY DEF Feedback, Postdiv, PLLs
    <3>2. pll = [p \in PLLs |-> [fbdiv |-> Feedback[p], power |-> TRUE, lock |-> TRUE,
                                 postdiv |-> Postdiv[p], out |-> TRUE]]
      BY <1>3 DEF ClocksWarm
    <3> QED BY <3>1, <3>2
  <2>2. pll \in [PLLs -> PllStates]
    BY <1>3 DEF ClocksWarm, PLLs, PllStates, Feedback, Postdiv
  <2> QED BY <1>1, <1>3, <2>1, <2>2 DEF ClocksWarm, ClocksInv, Running, Upcoming, ClockTypeOK,
                                         OnXosc, OnPll, Output, Waits, UartInv
<1> QED BY <1>1, <1>2, <1>3

\* The steps of the start-up differ.
LEMMA OneStep ==
  ASSUME NEW a, NEW b
  PROVE  /\ Waits(a, b) => \A c, d : Waits(c, d) <=> c = a /\ d = b
         /\ Goes(a, b) => \A c, d : Waits(c, d)' <=> c = a /\ d = b
<1> DEFINE t(x, y) == <<x, y>>
<1>1. \A c, d : t(a, b) = t(c, d) <=> c = a /\ d = b
  OBVIOUS
<1> QED BY <1>1 DEF Waits, Goes

LEMMA HardwareAnswers ==
  ASSUME ClocksInv, UartInv, ClockHardware, UNCHANGED uart_regs
  PROVE  ClocksInv' /\ UartInv'
<1> USE DEF Components, PLLs
<1>1. step' = step /\ peri' = peri /\ \A c, d : Waits(c, d)' <=> Waits(c, d)
  BY DEF ClockHardware, XoscStarts, ResetDone, Locks, MuxesSwitch, Waits
<1>2. ready' \in [Components -> BOOLEAN] /\ (ready["uart0"] => ready'["uart0"])
  BY DEF ClockHardware, XoscStarts, ResetDone, Locks, MuxesSwitch, ClocksInv, ClockTypeOK
<1>3. UartInv'
  BY <1>1, <1>2 DEF UartInv, uart_regs
<1> SUFFICES ClocksInv'
  BY <1>3
<1> HIDE DEF Components, PLLs
<1>4. CASE XoscStarts
  <2>1. xosc' = "stable" /\ UNCHANGED <<ready, pll, ref, sys, peri>>
    BY <1>4 DEF XoscStarts
  <2>2. ClockTypeOK'
    BY <2>1 DEF ClocksInv, ClockTypeOK
  <2>3. Running' /\ Upcoming'
    BY <1>1, <2>1 DEF ClocksInv, Running, Upcoming, OnXosc, OnPll, Output
  <2> QED BY <2>2, <2>3 DEF ClocksInv
<1>5. CASE \E c \in Components : ResetDone(c)
  <2>1. UNCHANGED <<xosc, pll, ref, sys, peri>>
    BY <1>5 DEF ResetDone
  <2>2. ClockTypeOK'
    BY <1>2, <2>1 DEF ClocksInv, ClockTypeOK
  <2>3. Running' /\ Upcoming'
    BY <1>1, <2>1 DEF ClocksInv, Running, Upcoming, OnXosc, OnPll, Output
  <2> QED BY <2>2, <2>3 DEF ClocksInv
<1>6. CASE \E p \in PLLs : Locks(p)
  <2>1. PICK p \in PLLs : pll' = [pll EXCEPT ![p].lock = TRUE]
    BY <1>6 DEF Locks
  <2>2. UNCHANGED <<xosc, ready, ref, sys, peri>>
    BY <1>6 DEF Locks
  <2>3. ClockTypeOK'
    BY <2>1, <2>2 DEF ClocksInv, ClockTypeOK, PllStates
  <2>4. /\ Output => Output'
        /\ pll["pll_sys"].fbdiv = 125 => pll'["pll_sys"].fbdiv = 125
    BY <2>1 DEF ClocksInv, ClockTypeOK, Output, PLLs
  <2>5. Running' /\ Upcoming'
    BY <1>1, <2>2, <2>4 DEF ClocksInv, Running, Upcoming, OnXosc, OnPll
  <2> QED BY <2>3, <2>5 DEF ClocksInv
<1>7. CASE MuxesSwitch
  <2>1. UNCHANGED <<xosc, ready, pll, peri>>
    BY <1>7 DEF MuxesSwitch
  <2>2. /\ ref' \in [src : {"rosc", "xosc"}, selected : {"rosc", "xosc"}]
        /\ sys' \in [src : {"ref", "aux"}, selected : {"ref", "aux"}, auxsrc : {"pll_sys"}]
        /\ ref'.src = ref.src /\ ref'.selected \in {ref.selected, ref.src}
        /\ sys'.src = sys.src /\ sys'.selected \in {sys.selected, sys.src}
    BY <1>7 DEF MuxesSwitch, ClocksInv, ClockTypeOK
  <2>3. ClockTypeOK'
    BY <2>1, <2>2 DEF ClocksInv, ClockTypeOK
  <2>4. Running' /\ Upcoming'
    BY <1>1, <2>1, <2>2 DEF ClocksInv, Running, Upcoming, OnXosc, OnPll, Output
  <2> QED BY <2>3, <2>4 DEF ClocksInv
<1> QED BY <1>4, <1>5, <1>6, <1>7 DEF ClockHardware

LEMMA PllSettings ==
  ASSUME NEW f \in [PLLs -> PllStates], NEW p \in PLLs, NEW n \in Nat
  PROVE  /\ [f EXCEPT ![p].fbdiv = n, ![p].power = TRUE] \in [PLLs -> PllStates]
         /\ [f EXCEPT ![p].postdiv = n, ![p].out = TRUE] \in [PLLs -> PllStates]
<1> DEFINE A == [f[p] EXCEPT !.fbdiv = n]
           B == [f[p] EXCEPT !.postdiv = n]
<1>1. A \in PllStates /\ B \in PllStates
  BY DEF PllStates
<1> HIDE DEF A, B
<1>2. [A EXCEPT !.power = TRUE] \in PllStates /\ [B EXCEPT !.out = TRUE] \in PllStates
  BY <1>1 DEF PllStates
<1>3. /\ [f EXCEPT ![p].fbdiv = n, ![p].power = TRUE] = [f EXCEPT ![p] = [A EXCEPT !.power = TRUE]]
      /\ [f EXCEPT ![p].postdiv = n, ![p].out = TRUE] = [f EXCEPT ![p] = [B EXCEPT !.out = TRUE]]
  BY DEF A, B
<1> QED BY <1>2, <1>3

LEMMA ClocksGoOn ==
  ASSUME ClocksInv, UartInv, setup_clocks, UNCHANGED uart_regs
  PROVE  ClocksInv' /\ UartInv'
<1> USE OneStep
<1>1. UartInv'
  <2>1. ~ (Waits("gpio", "ready") \/ Waits("driver", "main"))
    BY DEF setup_clocks, SkipSetup, init_xosc, SwitchRef, RefSwitched, PllPowers, PllOutputs,
           SwitchSys, SetupPeri, PLLs
  <2> QED BY <2>1 DEF UartInv, uart_regs
<1> SUFFICES ClocksInv'
  BY <1>1
<1>2. CASE SkipSetup
  <2>1. UNCHANGED <<xosc, ready, pll, ref, sys, peri>> /\ Goes("root", "done")
        /\ Waits("setup_clocks", "start") /\ sys.selected = "aux"
    BY <1>2 DEF SkipSetup
  <2>2. ClockTypeOK'
    BY <2>1 DEF ClocksInv, ClockTypeOK
  <2>3. Running' /\ Upcoming'
    BY <2>1 DEF ClocksInv, Running, Upcoming, OnXosc, OnPll, Output
  <2> QED BY <2>2, <2>3 DEF ClocksInv
<1>3. CASE init_xosc
  <2>1. UNCHANGED <<ready, pll, ref, sys, peri>> /\ xosc' = "starting" /\ Goes("xosc", "stable")
        /\ Waits("setup_clocks", "start") /\ sys.selected # "aux"
    BY <1>3 DEF init_xosc
  <2>2. ClockTypeOK'
    BY <2>1 DEF ClocksInv, ClockTypeOK
  <2>3. Running' /\ Upcoming'
    BY <2>1 DEF ClocksInv, Running, Upcoming, OnXosc, OnPll, Output
  <2> QED BY <2>2, <2>3 DEF ClocksInv
<1>4. CASE SwitchRef
  <2>1. UNCHANGED <<xosc, ready, pll, sys, peri>> /\ xosc = "stable" /\ Goes("clk_ref", "selected")
        /\ Waits("xosc", "stable")
    BY <1>4 DEF SwitchRef
  <2>2. ref' \in [src : {"rosc", "xosc"}, selected : {"rosc", "xosc"}]
    BY <1>4 DEF SwitchRef, ClocksInv, ClockTypeOK
  <2>3. ClockTypeOK'
    BY <2>1, <2>2 DEF ClocksInv, ClockTypeOK
  <2>4. Running' /\ Upcoming'
    BY <2>1 DEF ClocksInv, Running, Upcoming, OnXosc, OnPll, Output
  <2> QED BY <2>3, <2>4 DEF ClocksInv
<1>5. CASE RefSwitched
  <2>1. UNCHANGED <<xosc, ref, sys, peri>> /\ Waits("clk_ref", "selected") /\ Goes("pll_sys", "ready")
        /\ ready' = [ready EXCEPT !["pll_sys"] = FALSE] /\ pll' = [pll EXCEPT !["pll_sys"] = PllReset]
    BY <1>5 DEF RefSwitched, reset_pll
  <2>2. ClockTypeOK'
    BY <2>1 DEF ClocksInv, ClockTypeOK, PllReset, PllStates, Components, PLLs
  <2>3. Running' /\ Upcoming'
    BY <2>1 DEF ClocksInv, Running, Upcoming, OnXosc, OnPll
  <2> QED BY <2>2, <2>3 DEF ClocksInv
<1>6. CASE \E p \in PLLs : PllPowers(p)
  <2>1. PICK p \in PLLs : PllPowers(p)
    BY <1>6
  <2>2. UNCHANGED <<xosc, ready, ref, sys, peri>> /\ Waits(p, "ready") /\ Goes(p, "lock")
        /\ pll' = [pll EXCEPT ![p].fbdiv = Feedback[p], ![p].power = TRUE]
    BY <2>1 DEF PllPowers
  <2>3. Feedback[p] \in Nat /\ (p = "pll_sys" => Feedback[p] = 125)
    BY DEF PLLs, Feedback
  <2>4. pll \in [PLLs -> PllStates]
    BY DEF ClocksInv, ClockTypeOK
  <2>5. pll' \in [PLLs -> PllStates]
    <3> DEFINE n == Feedback[p]
    <3>1. n \in Nat /\ pll' = [pll EXCEPT ![p].fbdiv = n, ![p].power = TRUE]
      BY <2>2, <2>3
    <3> HIDE DEF n
    <3> QED BY <2>4, <3>1, PllSettings
  <2>6. ClockTypeOK'
    BY <2>2, <2>5 DEF ClocksInv, ClockTypeOK
  <2>7. CASE p = "pll_sys"
    <3>1. pll'["pll_sys"].fbdiv = 125
      BY <2>2, <2>3, <2>4, <2>7 DEF PLLs
    <3> QED BY <2>2, <2>6, <2>7, <3>1 DEF ClocksInv, Running, Upcoming, OnXosc, OnPll
  <2>8. CASE p = "pll_usb"
    <3>1. pll'["pll_sys"] = pll["pll_sys"]
      BY <2>2, <2>4, <2>8 DEF PLLs
    <3> QED BY <2>2, <2>6, <2>8, <3>1 DEF ClocksInv, Running, Upcoming, OnXosc, OnPll, Output
  <2> QED BY <2>7, <2>8 DEF PLLs
<1>7. CASE \E p \in PLLs : PllOutputs(p)
  <2>1. PICK p \in PLLs : PllOutputs(p)
    BY <1>7
  <2> DEFINE done == [pll EXCEPT ![p].postdiv = Postdiv[p], ![p].out = TRUE]
  <2>2. UNCHANGED <<xosc, ref, peri>> /\ Waits(p, "lock") /\ pll[p].lock
    BY <2>1 DEF PllOutputs
  <2>3. Postdiv[p] \in Nat /\ (p = "pll_sys" => Postdiv[p] = 12)
    BY DEF PLLs, Postdiv
  <2>4. pll \in [PLLs -> PllStates]
    BY DEF ClocksInv, ClockTypeOK
  <2>5. done \in [PLLs -> PllStates]
    BY <2>3, <2>4, PllSettings
  <2>6. CASE p = "pll_sys"
    <3>1. ready' = [ready EXCEPT !["pll_usb"] = FALSE] /\ pll' = [done EXCEPT !["pll_usb"] = PllReset]
          /\ Goes("pll_usb", "ready") /\ UNCHANGED sys
      BY <2>1, <2>6 DEF PllOutputs, reset_pll
    <3>2. pll'["pll_sys"] = done["pll_sys"]
      <4> HIDE DEF done
      <4> QED BY <2>5, <3>1 DEF PLLs
    <3>3. Output'
      <4>1. pll["pll_sys"].fbdiv = 125 /\ pll["pll_sys"].lock
        BY <2>2, <2>6 DEF ClocksInv, Upcoming
      <4>2. /\ done["pll_sys"].lock /\ done["pll_sys"].out
            /\ done["pll_sys"].fbdiv = 125 /\ done["pll_sys"].postdiv = 12
        BY <2>3, <2>4, <2>6, <4>1 DEF PLLs
      <4> QED BY <3>2, <4>2 DEF Output
    <3>4. ClockTypeOK'
      <4>1. pll' \in [PLLs -> PllStates]
        <5> HIDE DEF done
        <5> QED BY <2>5, <3>1 DEF PllReset, PllStates, PLLs
      <4>2. ready' \in [Components -> BOOLEAN]
        BY <3>1 DEF ClocksInv, ClockTypeOK
      <4> QED BY <2>2, <3>1, <4>1, <4>2 DEF ClocksInv, ClockTypeOK
    <3> QED BY <2>2, <2>6, <3>1, <3>3, <3>4 DEF ClocksInv, Running, Upcoming, OnXosc, OnPll
  <2>7. CASE p = "pll_usb"
    <3>1. pll' = done /\ sys' = [sys EXCEPT !.src = "ref"] /\ Goes("clk_sys", "ref") /\ UNCHANGED ready
      BY <2>1, <2>7 DEF PllOutputs
    <3>2. pll'["pll_sys"] = pll["pll_sys"]
      BY <2>4, <2>7, <3>1 DEF PLLs
    <3>3. /\ sys' \in [src : {"ref", "aux"}, selected : {"ref", "aux"}, auxsrc : {"pll_sys"}]
          /\ sys'.selected = sys.selected
      BY <3>1 DEF ClocksInv, ClockTypeOK
    <3>4. ClockTypeOK'
      <4> HIDE DEF done
      <4> QED BY <2>2, <2>5, <3>1, <3>3 DEF ClocksInv, ClockTypeOK
    <3>5. Output'
      BY <2>2, <2>7, <3>2 DEF ClocksInv, Upcoming, Output
    <3> QED BY <2>2, <2>7, <3>1, <3>4, <3>5 DEF ClocksInv, Running, Upcoming, OnXosc, OnPll
  <2> QED BY <2>6, <2>7 DEF PLLs
<1>8. CASE SwitchSys
  <2>1. UNCHANGED <<xosc, ready, pll, ref, peri>> /\ Waits("clk_sys", "ref") /\ Goes("clk_sys", "aux")
        /\ sys' = [sys EXCEPT !.auxsrc = "pll_sys", !.src = "aux"]
    BY <1>8 DEF SwitchSys
  <2>2. sys' \in [src : {"ref", "aux"}, selected : {"ref", "aux"}, auxsrc : {"pll_sys"}]
    BY <2>1 DEF ClocksInv, ClockTypeOK
  <2>3. ClockTypeOK'
    BY <2>1, <2>2 DEF ClocksInv, ClockTypeOK
  <2>4. Running' /\ Upcoming'
    BY <2>1 DEF ClocksInv, Running, Upcoming, OnXosc, OnPll, Output
  <2> QED BY <2>3, <2>4 DEF ClocksInv
<1>9. CASE SetupPeri
  <2>1. UNCHANGED <<xosc, ready, pll, ref, sys>> /\ Waits("clk_sys", "aux") /\ Goes("root", "done")
        /\ peri' = [enable |-> TRUE, auxsrc |-> "pll_sys"]
    BY <1>9 DEF SetupPeri
  <2>2. ClockTypeOK'
    BY <2>1 DEF ClocksInv, ClockTypeOK
  <2>3. Running' /\ Upcoming'
    BY <2>1 DEF ClocksInv, Running, Upcoming, OnXosc, OnPll, Output
  <2> QED BY <2>2, <2>3 DEF ClocksInv
<1> QED BY <1>2, <1>3, <1>4, <1>5, <1>6, <1>7, <1>8, <1>9 DEF setup_clocks

(* The divisor that uart_set_baud writes is off by at most a 128th, which is *)
(* less than a hundredth of any divisor that is at least 1.                  *)
LEMMA DivisorFits ==
  ASSUME FittingRate
  PROVE  LET div == (8 * UART_CLK_HZ) \div UART_BAUD
             int == div \div 128
         IN  int # 0 /\ int < 65535 /\ Divides(int, (((div % 128) + 1) \div 2) % 64)
<1> DEFINE baud == UART_BAUD
           div == 1000000000 \div baud
           int == div \div 128
           r == div % 128
           frac == (r + 1) \div 2
           D == 64 * int + frac
<1>1. baud \in Nat /\ 500 <= baud /\ baud <= 7812500 /\ 8 * UART_CLK_HZ = 1000000000
  BY UartAssumption, SMT DEF FittingRate
<1>2. div \in Nat /\ div * baud <= 1000000000 /\ 1000000000 < div * baud + baud
  <2> HIDE DEF baud
  <2> QED BY <1>1, SMT
<1>3. 128 <= div /\ div <= 2000000
  <2> HIDE DEF baud, div
  <2>1. SUFFICES ASSUME div < 128 \/ div > 2000000 PROVE FALSE
    BY <1>2, SMT
  <2>2. CASE div <= 127
    <3>1. div * baud <= 127 * baud
      BY <1>1, <1>2, <2>2, SMT
    <3> QED BY <1>1, <1>2, <3>1, SMT
  <2>3. CASE div >= 2000001
    <3>1. div * baud >= 2000001 * 500
      BY <1>1, <1>2, <2>3, SMT
    <3> QED BY <1>1, <1>2, <3>1, SMT
  <2> QED BY <1>2, <2>1, <2>2, <2>3, SMT
<1>4. /\ int \in Nat /\ int # 0 /\ int < 65535 /\ r \in 0 .. 127 /\ div = 128 * int + r
      /\ frac \in Nat /\ 2 * frac \in {r, r + 1}
  <2> HIDE DEF div
  <2> QED BY <1>2, <1>3, SMT
<1>5. r # 127
  <2>1. ((8 * UART_CLK_HZ) \div UART_BAUD) % 128 # 127
    BY SMT DEF FittingRate
  <2>2. (8 * UART_CLK_HZ) \div UART_BAUD = div
    BY <1>1, SMT
  <2> HIDE DEF div
  <2> QED BY <2>1, <2>2, SMT
<1>6. frac % 64 = frac
  <2>1. frac <= 63
    <3> HIDE DEF frac, int, r
    <3> QED BY <1>4, <1>5, SMT
  <2> HIDE DEF frac
  <2> QED BY <1>4, <2>1, SMT
<1>7. D \in Nat /\ 2 * D \in {div, div + 1} /\ D >= 64
  <2> HIDE DEF div, int, r, frac
  <2> QED BY <1>4, SMT
<1> DEFINE b == 500000000 \div D
<1> HIDE DEF div, int, r, frac, D
<1>8. b \in Nat /\ b * D <= 500000000 /\ 500000000 < b * D + D
  BY <1>7, SMT
<1> HIDE DEF baud, b
<1> DEFINE x == D * baud
           y == b * D
<1>9. /\ x \in Nat /\ y \in Nat /\ y <= 500000000 /\ 500000000 < y + D
      /\ 2 * x <= 1000000000 + baud /\ 1000000000 < 2 * x + baud
  <2>1. x \in Nat /\ y \in Nat
    BY <1>1, <1>7, <1>8, SMT
  <2>2. (2 * D) * baud = 2 * x
    BY <1>1, <1>7, SMT
  <2>3. CASE 2 * D = div
    <3>1. 2 * x = div * baud
      BY <2>2, <2>3, SMT
    <3> HIDE DEF x, y
    <3> QED BY <1>1, <1>2, <1>8, <2>1, <3>1, SMT DEF y
  <2>4. CASE 2 * D = div + 1
    <3>1. 2 * x = (div + 1) * baud
      BY <2>2, <2>4, SMT
    <3>2. (div + 1) * baud = div * baud + baud
      BY <1>1, <1>2, SMT
    <3> HIDE DEF x, y
    <3> QED BY <1>1, <1>2, <1>8, <2>1, <3>1, <3>2, SMT DEF y
  <2> QED BY <1>7, <2>3, <2>4, SMT
<1>10. 100 * b <= 101 * baud
  <2>1. SUFFICES ASSUME 100 * b >= 101 * baud + 1 PROVE FALSE
    BY <1>1, <1>8, SMT
  <2>2. (100 * b) * D >= (101 * baud + 1) * D
    BY <1>1, <1>7, <1>8, <2>1, SMT
  <2>3. (100 * b) * D = 100 * y /\ (101 * baud + 1) * D = 101 * x + D
    BY <1>1, <1>7, <1>8, SMT
  <2>4. x >= 64 * baud
    BY <1>1, <1>7, SMT
  <2> HIDE DEF x, y
  <2> QED BY <1>1, <1>7, <1>9, <2>2, <2>3, <2>4, SMT
<1>11. 99 * baud <= 100 * b
  <2>1. SUFFICES ASSUME 100 * b + 1 <= 99 * baud PROVE FALSE
    BY <1>1, <1>8, SMT
  <2>2. (100 * b + 1) * D <= (99 * baud) * D
    BY <1>1, <1>7, <1>8, <2>1, SMT
  <2>3. (100 * b + 1) * D = 100 * y + D /\ (99 * baud) * D = 99 * x
    BY <1>1, <1>7, <1>8, SMT
  <2>4. (D - 50) * (baud - 458) >= 0
    BY <1>1, <1>7, SMT
  <2>5. (D - 50) * (baud - 458) = x - 458 * D - 50 * baud + 22900
    BY <1>1, <1>7, SMT
  <2> HIDE DEF x, y
  <2> QED BY <1>1, <1>7, <1>9, <2>2, <2>3, <2>4, <2>5, SMT
<1>12. 100 * b \in 99 * baud .. 101 * baud
  BY <1>1, <1>8, <1>10, <1>11, SMT
<1>13. 64 * int + frac = D /\ int \in Nat /\ frac \in Nat /\ D # 0
  BY <1>4, <1>7, SMT DEF D
<1>14. Divides(int, frac)
  <2>1. (4 * 125 * 1000000) \div (64 * int + frac) = b
    BY <1>13, SMT DEF b
  <2> QED BY <1>12, <1>13, <2>1, SMT DEF Divides, baud
<1>15. (8 * UART_CLK_HZ) \div UART_BAUD = 1000000000 \div UART_BAUD
  BY <1>1, SMT
<1> QED BY <1>4, <1>6, <1>14, <1>15, SMT DEF div, int, r, frac, baud

LEMMA UartPrepared ==
  ASSUME FittingRate, ClocksInv, UartInv, PrepareUart
  PROVE  ClocksInv' /\ UartInv'
<1> USE OneStep
<1>1. UNCHANGED <<xosc, pll, ref, sys, peri>> /\ ready' \in [Components -> BOOLEAN]
  BY DEF PrepareUart, reset_uart, uart_init, uart_gpio_init, ClocksInv, ClockTypeOK
<1>2. ClockTypeOK' /\ Running'
  BY <1>1 DEF ClocksInv, ClockTypeOK, Running, OnXosc, OnPll, Output
<1>3. CASE reset_uart
  <2>1. Waits("root", "done") /\ Goes("uart0", "ready") /\ cr' = FALSE
    BY <1>3 DEF reset_uart
  <2> QED BY <1>1, <1>2, <2>1 DEF ClocksInv, Upcoming, UartInv
<1>4. CASE uart_init
  <2>1. Waits("uart0", "ready") /\ Goes("gpio", "ready") /\ ready["uart0"]
        /\ ready' = [ready EXCEPT !["io_bank_0"] = FALSE, !["pads_bank0"] = FALSE]
        /\ format' = [bits |-> 8, stop |-> 1, parity |-> "none", fifo |-> TRUE]
    BY <1>4 DEF uart_init, uart_set_format
  <2>2. ready'["uart0"]
    BY <2>1 DEF ClocksInv, ClockTypeOK, Components
  <2> DEFINE div == (8 * UART_CLK_HZ) \div UART_BAUD
             int == div \div 128
             frac == (((div % 128) + 1) \div 2) % 64
  <2>3. int # 0 /\ int < 65535 /\ int \in Nat /\ Divides(int, frac)
    BY DivisorFits DEF Divides
  <2>4. ibrd' = int /\ fbrd' = frac
    <3> HIDE DEF div
    <3> QED BY <1>4, <2>3 DEF uart_init, uart_set_baud, div
  <2>5. Divides(ibrd, fbrd)'
    <3> HIDE DEF int, frac
    <3> QED BY <2>3, <2>4 DEF Divides
  <2>6. UartInv'
    BY <2>1, <2>2, <2>5 DEF UartInv
  <2>7. Upcoming'
    BY <1>1, <2>1 DEF ClocksInv, Upcoming
  <2> QED BY <1>2, <2>6, <2>7 DEF ClocksInv
<1>5. CASE uart_gpio_init
  <2>1. Waits("gpio", "ready") /\ Goes("driver", "main") /\ UNCHANGED <<ready, cr, ibrd, fbrd, format>>
    BY <1>5 DEF uart_gpio_init
  <2>2. UartInv'
    BY <2>1 DEF UartInv, Divides
  <2>3. Upcoming'
    BY <1>1, <2>1 DEF ClocksInv, Upcoming
  <2> QED BY <1>2, <2>2, <2>3 DEF ClocksInv
<1> QED BY <1>3, <1>4, <1>5 DEF PrepareUart

LEMMA HardwareRests ==
  ASSUME ClocksInv, UartInv, UNCHANGED hardware
  PROVE  ClocksInv' /\ UartInv'
<1>1. UNCHANGED <<step, xosc, ready, pll, ref, sys, peri>> /\ UNCHANGED <<cr, ibrd, fbrd, format>>
  BY DEF hardware, clock_vars, uart_regs
<1>2. ClocksInv'
  BY <1>1 DEF ClocksInv, ClockTypeOK, Running, Upcoming, OnXosc, OnPll, Output, Waits
<1>3. UartInv'
  BY <1>1 DEF UartInv, Divides, Waits
<1> QED BY <1>2, <1>3

LEMMA ClocksRun ==
  ASSUME FittingRate, ClocksInv, UartInv
  PROVE  Clocked
<1>1. Output => PllMHz("pll_sys") = 125
  BY SMT DEF Output, PllMHz, XoscMHz
<1>2. RefMHz \in {RoscMHz, XoscMHz}
  BY DEF ClocksInv, ClockTypeOK, Running, OnXosc, RefMHz
<1>3. SysMHz \in {RoscMHz, XoscMHz, 125}
  BY <1>1, <1>2 DEF ClocksInv, ClockTypeOK, Running, OnPll, SysMHz
<1>4. SysMHz \in 1 .. CpuMHz
  BY <1>3, SMT DEF RoscMHz, XoscMHz, CpuMHz
<1>5. ASSUME cr
      PROVE  /\ PeriMHz = 125 /\ PeriMHz * 1000000 = UART_CLK_HZ
             /\ 100 * Baud \in 99 * UART_BAUD .. 101 * UART_BAUD
  <2>1. peri.enable /\ peri.auxsrc = "pll_sys" /\ Output
    BY <1>5 DEF ClocksInv, Running, Upcoming, UartInv
  <2>2. PeriMHz = 125
    BY <1>1, <2>1 DEF PeriMHz
  <2>3. PeriMHz * 1000000 = UART_CLK_HZ
    BY <2>2, SMT DEF FittingRate
  <2>4. Baud = (4 * 125 * 1000000) \div (64 * ibrd + fbrd)
    BY <2>2, SMT DEF Baud
  <2>5. Divides(ibrd, fbrd)
    BY <1>5 DEF UartInv
  <2> QED BY <2>2, <2>3, <2>4, <2>5, SMT DEF Divides
<1> QED BY <1>4, <1>5, SMT DEF Clocked, UartInv

\* Clocked, for a UART of 125 MHz and a rate that fits: from the first step of
\* setup_clocks on, whatever the crystal, the resets, the PLLs and the
\* multiplexers answer when, after a cold and after a warm start, the processor
\* and an enabled UART have a clock that runs, and the divisor uart_set_baud has
\* written makes the rate.
THEOREM Pl011Clocked == ASSUME FittingRate PROVE Spec => []Clocked
<1>1. Init => ClocksInv /\ UartInv
  BY ClocksStart
<1>2. ClocksInv /\ UartInv /\ [Next]_vars => ClocksInv' /\ UartInv'
  <2> SUFFICES ASSUME ClocksInv, UartInv, [Next]_vars PROVE ClocksInv' /\ UartInv'
    OBVIOUS
  <2>1. CASE StartsUp /\ UNCHANGED driver
    BY <2>1, HardwareAnswers, ClocksGoOn, UartPrepared DEF StartsUp
  <2>2. CASE Serves /\ UNCHANGED hardware
    BY <2>2, HardwareRests
  <2>3. CASE UNCHANGED vars
    BY <2>3, HardwareRests DEF vars
  <2> QED BY <2>1, <2>2, <2>3 DEF Next
<1>3. ClocksInv /\ UartInv => Clocked
  BY ClocksRun
<1> QED BY <1>1, <1>2, <1>3, PTL DEF Spec
=============================================================================
