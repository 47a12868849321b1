-------------------------- MODULE FullWriteProofs --------------------------
(***************************************************************************)
(* Proofs about FullWrite: what full_write() counts was sent, and what it  *)
(* sends twice in all its calls together is bounded, for every EINTR,      *)
(* every number of retries and every size of buffer.                       *)
(***************************************************************************)
EXTENDS FullWrite, SequenceTheorems, TLAPS

TypeOK ==
    /\ pc \in {"idle", "loop", "returned"}
    /\ size \in Nat /\ len \in Nat /\ total \in Nat
    /\ tries \in Nat
    /\ stream \in Seq(Nat)
    /\ sent \in Nat /\ counted \in Nat

\* The static counter never passes its limit, in no call.
TriesLimited == tries <= MaxTries

\* The bytes that were sent and not counted, by all calls, are those of the
\* writes that were taken for interrupted ones: each has cost a try.
ResentByRetries == sent = counted + tries * EINTR

IInv ==
    /\ TypeOK
    /\ TriesLimited
    /\ CountedBytesAreSent
    /\ ResentByRetries

-----------------------------------------------------------------------------

(***************************************************************************)
(* What appending a piece does to the stream: its bytes are those that     *)
(* follow the counted ones.                                                *)
(***************************************************************************)

\* A piece is a sequence of cc bytes, each a position of the buffer.
LEMMA PieceIsSeq ==
    ASSUME TypeOK, CountedBytesAreSent,
           NEW cc \in 1 .. len
    PROVE  /\ Piece(cc) \in Seq(Nat)
           /\ Len(Piece(cc)) = cc
           /\ \A b \in 1 .. cc : Piece(cc)[b] = total + b
BY DEF TypeOK, CountedBytesAreSent, Piece

\* Appending keeps what the stream holds.
LEMMA RangeGrows ==
    ASSUME NEW s \in Seq(Nat), NEW t \in Seq(Nat)
    PROVE  /\ Range(s) \subseteq Range(s \o t)
           /\ Range(t) \subseteq Range(s \o t)
<1>1. ASSUME NEW i \in DOMAIN s
      PROVE  s[i] \in Range(s \o t)
  <2>1. i \in DOMAIN (s \o t) /\ (s \o t)[i] = s[i]
    OBVIOUS
  <2> QED
    BY <2>1 DEF Range
<1>2. ASSUME NEW i \in DOMAIN t
      PROVE  t[i] \in Range(s \o t)
  <2>1. Len(s) + i \in DOMAIN (s \o t) /\ (s \o t)[Len(s) + i] = t[i]
    OBVIOUS
  <2> QED
    BY <2>1 DEF Range
<1> QED
  BY <1>1, <1>2 DEF Range

\* A sequence whose bytes are in their places is that prefix of the buffer.
LEMMA InOrder ==
    ASSUME NEW n \in Nat, NEW s \in Seq(Nat), Len(s) = n,
           \A b \in 1 .. n : s[b] = b
    PROVE  s = [b \in 1 .. n |-> b]
<1> DEFINE t == [b \in 1 .. n |-> b]
<1>1. t \in Seq(Nat) /\ Len(t) = n
  OBVIOUS
<1>2. \A b \in 1 .. Len(s) : s[b] = t[b]
  OBVIOUS
<1> HIDE DEF t
<1>3. s = t
  BY <1>1, <1>2, SeqEqual
<1> QED
  BY <1>3 DEF t

\* A further retry may send EINTR bytes again, and the limit of retries
\* bounds what all of them send.
LEMMA RetryCost ==
    ASSUME NEW a \in Nat, NEW b \in Nat, NEW e \in Nat, a <= b
    PROVE  /\ (a + 1) * e = a * e + e
           /\ a * e <= b * e
           /\ a * e \in Nat
<1>1. (a + 1) * e = a * e + e
  OBVIOUS
<1>2. PICK d \in Nat : b = a + d
  <2> WITNESS b - a \in Nat
  <2> QED
    OBVIOUS
<1>3. (a + d) * e = a * e + d * e
  OBVIOUS
<1>4. a * e \in Nat /\ d * e \in Nat
  OBVIOUS
<1> QED
  BY <1>1, <1>2, <1>3, <1>4

-----------------------------------------------------------------------------

(***************************************************************************)
(* One lemma for the write that moves the stream; the other actions leave  *)
(* it alone or start it anew.                                              *)
(***************************************************************************)

\* write() sent cc bytes, counted or taken for an interruption.
LEMMA WroteKeeps ==
    ASSUME IInv, NEW cc \in 1 .. len, Wrote(cc)
    PROVE  IInv'
<1> USE FullWriteAssumption
<1> USE DEF IInv, TypeOK
<1>1. /\ Piece(cc) \in Seq(Nat) /\ Len(Piece(cc)) = cc
      /\ \A b \in 1 .. cc : Piece(cc)[b] = total + b
  BY PieceIsSeq
<1>2. /\ stream' = stream \o Piece(cc)
      /\ stream' \in Seq(Nat)
      /\ Len(stream') = Len(stream) + cc
      /\ sent' = sent + cc
  <2>0. sent' = sent + cc
    BY DEF Wrote
  <2>1. stream' = stream \o Piece(cc)
    BY DEF Wrote
  <2>2. ASSUME NEW p \in Seq(Nat), Len(p) = cc
        PROVE  stream \o p \in Seq(Nat) /\ Len(stream \o p) = Len(stream) + cc
    BY <2>2
  <2> QED
    BY <1>1, <2>0, <2>1, <2>2
<1>3. Range(stream) \subseteq Range(stream')
  BY <1>1, <1>2, RangeGrows
<1>4. /\ tries * EINTR \in Nat
      /\ (tries + 1) * EINTR = tries * EINTR + EINTR
  BY RetryCost
<1>5. CASE Retry(cc)
  <2>1. /\ cc = EINTR /\ tries < MaxTries /\ tries' = tries + 1
        /\ UNCHANGED <<pc, size, total, len, counted>>
    BY <1>5 DEF Wrote, Retry
  <2>2. TypeOK' /\ TriesLimited'
    BY <2>1, <1>2 DEF TriesLimited
  <2>3. CountedBytesAreSent'
    BY <2>1, <1>3 DEF CountedBytesAreSent
  <2>4. ResentByRetries'
    BY <2>1, <1>2, <1>4 DEF ResentByRetries
  <2> QED
    BY <2>2, <2>3, <2>4
<1>6. CASE ~Retry(cc)
  <2>1. /\ total' = total + cc /\ len' = len - cc
        /\ counted' = counted + cc
        /\ UNCHANGED <<pc, size, tries>>
    BY <1>6 DEF Wrote
  <2>2. TypeOK' /\ TriesLimited'
    BY <2>1, <1>2 DEF TriesLimited
  <2>3. 1 .. total' \subseteq Range(stream')
    <3> SUFFICES ASSUME NEW b \in 1 .. total'
                 PROVE  b \in Range(stream')
      OBVIOUS
    <3>1. CASE b <= total
      BY <3>1, <1>3 DEF CountedBytesAreSent
    <3>2. CASE b > total
      <4>1. b - total \in 1 .. cc
        BY <3>2, <2>1
      <4>2. Piece(cc)[b - total] = b
        BY <4>1, <1>1
      <4>3. DOMAIN Piece(cc) = 1 .. cc
        BY DEF Piece
      <4>4. b \in Range(Piece(cc))
        BY <4>1, <4>2, <4>3 DEF Range
      <4> QED
        BY <4>4, <1>1, <1>2, RangeGrows
    <3> QED
      BY <3>1, <3>2
  <2>4. tries' = 0 => stream' = [b \in 1 .. total' |-> b]
    <3> SUFFICES ASSUME tries = 0
                 PROVE  stream' = [b \in 1 .. total' |-> b]
      BY <2>1
    <3>1. stream = [b \in 1 .. total |-> b] /\ Len(stream) = total
      BY DEF CountedBytesAreSent
    <3>2. Len(stream') = total'
      BY <3>1, <1>2, <2>1
    <3>3. \A b \in 1 .. total' : stream'[b] = b
      <4> TAKE b \in 1 .. total'
      <4>1. CASE b <= total
        BY <4>1, <3>1, <1>1, <1>2, <2>1
      <4>2. CASE b > total
        BY <4>2, <3>1, <1>1, <1>2, <2>1
      <4> QED
        BY <4>1, <4>2
    <3>4. total' \in Nat /\ stream' \in Seq(Nat)
      BY <1>2, <2>1
    <3> HIDE DEF IInv, TypeOK
    <3> QED
      BY <3>2, <3>3, <3>4, InOrder, Zenon
  <2>5. total' = size' - len'
    BY <2>1 DEF CountedBytesAreSent
  <2>6. ResentByRetries'
    BY <2>1, <1>2, <1>4 DEF ResentByRetries
  <2> QED
    BY <2>2, <2>3, <2>4, <2>5, <2>6 DEF CountedBytesAreSent
<1> QED
  BY <1>5, <1>6

\* The invariant holds at the start of the program.
LEMMA InitHolds == Init => IInv
<1> SUFFICES ASSUME Init
             PROVE  IInv
  OBVIOUS
<1>1. TypeOK /\ TriesLimited
  BY FullWriteAssumption DEF Init, TypeOK, TriesLimited
<1>2. <<>> = [b \in 1 .. 0 |-> b]
  OBVIOUS
<1>3. CountedBytesAreSent /\ ResentByRetries
  BY <1>2, FullWriteAssumption DEF Init, CountedBytesAreSent, ResentByRetries
<1> QED
  BY <1>1, <1>3 DEF IInv

\* Every step of full_write() and of its caller keeps it.
LEMMA NextKeeps == IInv /\ [Next]_vars => IInv'
<1> SUFFICES ASSUME IInv, [Next]_vars
             PROVE  IInv'
  OBVIOUS
<1> USE FullWriteAssumption
<1>1. ASSUME NEW n \in Lengths, Call(n)
      PROVE  IInv'
  <2>1. /\ n \in Nat /\ pc' = "loop" /\ size' = n /\ len' = n
        /\ total' = 0 /\ stream' = <<>> /\ tries' = tries
        /\ sent' = sent /\ counted' = counted
    BY <1>1 DEF Call
  <2>2. TypeOK' /\ TriesLimited'
    BY <2>1 DEF IInv, TypeOK, TriesLimited
  <2>3. <<>> = [b \in 1 .. 0 |-> b]
    OBVIOUS
  <2>4. CountedBytesAreSent'
    BY <2>1, <2>3 DEF CountedBytesAreSent
  <2>6. ResentByRetries'
    BY <2>1 DEF IInv, ResentByRetries
  <2> QED
    BY <2>2, <2>4, <2>6 DEF IInv
<1>2. ASSUME NEW cc \in 1 .. len, Wrote(cc)
      PROVE  IInv'
  BY <1>2, WroteKeeps
<1>3. ASSUME Failed \/ Done \/ Resume \/ Terminated \/ UNCHANGED vars
      PROVE  IInv'
  <2>1. UNCHANGED <<size, len, total, tries, stream, sent, counted>>
        /\ pc' \in {pc, "idle", "returned"}
    BY <1>3 DEF Failed, Done, Resume, Terminated, vars
  <2> QED
    BY <2>1 DEF IInv, TypeOK, TriesLimited, CountedBytesAreSent, ResentByRetries
<1> QED
  BY <1>1, <1>2, <1>3 DEF Next

-----------------------------------------------------------------------------

\* full_write() keeps within its types in every call.
THEOREM TypeCorrect == Spec => []TypeOK
<1>1. IInv => TypeOK
  BY DEF IInv
<1> QED
  BY InitHolds, NextKeeps, <1>1, PTL DEF Spec

\* What full_write() counts as written was sent; while no write was taken
\* for an interrupted one, it was sent once and in order.
THEOREM CountedIsSent == Spec => []CountedBytesAreSent
<1>1. IInv => CountedBytesAreSent
  BY DEF IInv
<1> QED
  BY InitHolds, NextKeeps, <1>1, PTL DEF Spec

\* What the comparison with EINTR makes full_write() send twice is bounded
\* over the life of the process, whatever the number of its calls, because
\* the counter is static: what was sent and not counted has cost tries, and
\* the tries are limited.
THEOREM ResendingIsBounded == Spec => []ResentIsBounded
<1>1. IInv => ResentIsBounded
  <2> SUFFICES ASSUME IInv
               PROVE  ResentIsBounded
    OBVIOUS
  <2>1. /\ tries \in Nat /\ MaxTries \in Nat /\ EINTR \in Nat /\ counted \in Nat
        /\ tries <= MaxTries
    BY FullWriteAssumption DEF IInv, TypeOK, TriesLimited
  <2>2. /\ tries * EINTR <= MaxTries * EINTR
        /\ tries * EINTR \in Nat /\ MaxTries * EINTR \in Nat
    BY <2>1, RetryCost
  <2>3. sent = counted + tries * EINTR
    BY DEF IInv, TypeOK, ResentByRetries
  <2> QED
    BY <2>1, <2>2, <2>3 DEF ResentIsBounded
<1> QED
  BY InitHolds, NextKeeps, <1>1, PTL DEF Spec
=============================================================================
