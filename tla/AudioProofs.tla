---------------------------- MODULE AudioProofs ----------------------------
(***************************************************************************)
(* What is heard, for every capacity, quantum, body and cut of it into     *)
(* chunks: the indices of the worklet's ring stay consistent, it           *)
(* implements the bounded queue of PcmFifo, alone and in the player, and   *)
(* what is heard is the clip.                                              *)
(*                                                                         *)
(* And who owns the sound, for any number of calls overlapping in any way. *)
(* A call does two things to the sources: it silences the current one and  *)
(* it installs its own.  Between the two nothing is owned; Unowned says    *)
(* what the table of sources then looks like, SilenceUnowns that #silence  *)
(* leads there, and InstallStep that what follows restores the invariant.  *)
(***************************************************************************)
EXTENDS PcmStream, Playback, Integers, SequenceTheorems, TLAPS

-----------------------------------------------------------------------------
(* Arithmetic modulo the capacity, on the range the indices reach. *)

LEMMA ModSmall == ASSUME NEW C \in Nat \ {0}, NEW i \in 0..(C - 1) PROVE i % C = i
  OBVIOUS

LEMMA ModWrap == ASSUME NEW C \in Nat \ {0}, NEW i \in C..(2 * C - 1) PROVE i % C = i - C
  OBVIOUS

LEMMA ModSlot == ASSUME NEW i \in Nat PROVE i % Capacity \in Slots
  BY RingAssumption DEF Slots

(* where the i-th slot after r is, without the modulus *)
LEMMA SlotAfter ==
  ASSUME NEW r \in Slots, NEW i \in 0..Capacity
  PROVE  (r + i) % Capacity = IF r + i < Capacity THEN r + i ELSE r + i - Capacity
  <1>1. CASE r + i < Capacity
    BY <1>1, ModSmall, RingAssumption DEF Slots
  <1>2. CASE r + i >= Capacity
    BY <1>2, ModWrap, RingAssumption DEF Slots
  <1> QED BY <1>1, <1>2, RingAssumption DEF Slots
-----------------------------------------------------------------------------
(* The samples waiting, as a sequence. *)

LEMMA HeldIsSeq ==
  ASSUME RingInv
  PROVE  Held \in Seq(Samples) /\ Len(Held) = available
  <1>1. available \in Nat
    BY RingAssumption DEF RingInv, RingTypeOK
  <1>2. Held \in [1..available -> Samples]
    BY DEF RingInv, Held
  <1> QED BY <1>1, <1>2

LEMMA HeldAt ==
  ASSUME RingInv, NEW i \in 1..available
  PROVE  /\ (readIndex + i - 1) % Capacity \in Slots
         /\ Held[i] = ring[IF readIndex + i - 1 < Capacity THEN readIndex + i - 1
                           ELSE readIndex + i - 1 - Capacity]
  <1>1. available \in 0..Capacity /\ readIndex \in Slots /\ i - 1 \in 0..Capacity
        /\ readIndex + i - 1 = readIndex + (i - 1)
    BY RingAssumption DEF RingInv, RingTypeOK, Slots
  <1>2. (readIndex + (i - 1)) % Capacity
          = IF readIndex + (i - 1) < Capacity THEN readIndex + (i - 1)
            ELSE readIndex + (i - 1) - Capacity
    BY <1>1, SlotAfter
  <1>3. (readIndex + (i - 1)) % Capacity \in Slots
    BY <1>1, ModSlot, RingAssumption DEF Slots
  <1> QED BY <1>1, <1>2, <1>3 DEF Held, Slots
-----------------------------------------------------------------------------
(* Copying a sample is Push: the sample joins at the end, and a full ring  *)
(* has lost its oldest (enqueue).                                          *)

LEMMA IndexFacts ==
  ASSUME RingInv
  PROVE  /\ Capacity \in Nat \ {0}
         /\ readIndex \in 0..(Capacity - 1) /\ writeIndex \in 0..(Capacity - 1)
         /\ available \in 0..Capacity
         /\ ring \in [0..(Capacity - 1) -> Samples \cup {Silence}]
         /\ writeIndex = IF readIndex + available < Capacity THEN readIndex + available
                         ELSE readIndex + available - Capacity
  <1>1. readIndex \in Slots /\ available \in 0..Capacity
    BY DEF RingInv, RingTypeOK
  <1>2. writeIndex = IF readIndex + available < Capacity THEN readIndex + available
                         ELSE readIndex + available - Capacity
    BY <1>1, SlotAfter DEF RingInv
  <1> QED BY <1>1, <1>2, RingAssumption DEF RingInv, RingTypeOK, Slots

LEMMA NextSlot ==
  ASSUME NEW r \in 0..(Capacity - 1)
  PROVE  After(r) = IF r + 1 < Capacity THEN r + 1 ELSE 0
  <1>1. r \in Slots /\ 1 \in 0..Capacity /\ Capacity \in Nat \ {0}
    BY RingAssumption DEF Slots
  <1>2. (r + 1) % Capacity = IF r + 1 < Capacity THEN r + 1 ELSE r + 1 - Capacity
    BY <1>1, SlotAfter
  <1> QED BY <1>1, <1>2 DEF Slots, After

(* sequences that agree everywhere are equal *)
LEMMA SameSequence ==
  ASSUME NEW S, NEW n \in Nat, NEW f, f = [i \in 1..n |-> f[i]],
         NEW t \in Seq(S), DOMAIN t = 1..n, \A i \in 1..n : f[i] = t[i]
  PROVE  f = t
  <1>1. t = [i \in 1..n |-> t[i]]
    OBVIOUS
  <1> QED BY <1>1

LEMMA ElementsOf ==
  ASSUME NEW S, NEW n, NEW t \in Seq(S), DOMAIN t = 1..n
  PROVE  \A i \in 1..n : t[i] \in S
  <1>1. t \in [1..Len(t) -> S] /\ 1..Len(t) = 1..n
    OBVIOUS
  <1> QED BY <1>1

(* a sequence of samples waiting after a step, read off the new variables *)
LEMMA HeldAfter ==
  ASSUME readIndex' \in 0..(Capacity - 1), available' \in 0..Capacity
  PROVE  /\ Held' = [i \in 1..available' |-> Held'[i]]
         /\ DOMAIN Held' = 1..available'
         /\ \A i \in 1..available' :
              Held'[i] = ring'[IF readIndex' + i - 1 < Capacity THEN readIndex' + i - 1
                               ELSE readIndex' + i - 1 - Capacity]
  <1>1. ASSUME NEW i \in 1..available'
        PROVE  (readIndex' + i - 1) % Capacity
                 = IF readIndex' + i - 1 < Capacity THEN readIndex' + i - 1
                   ELSE readIndex' + i - 1 - Capacity
    <2>1. readIndex' \in Slots /\ i - 1 \in 0..Capacity
          /\ readIndex' + i - 1 = readIndex' + (i - 1)
      BY RingAssumption DEF Slots
    <2> QED BY <2>1, SlotAfter
  <1>2. Held' = [i \in 1..available' |-> ring'[(readIndex' + i - 1) % Capacity]]
    BY DEF Held
  <1> HIDE DEF Held
  <1>3. DOMAIN Held' = 1..available'
        /\ \A i \in 1..available' : Held'[i] = ring'[(readIndex' + i - 1) % Capacity]
    BY <1>2
  <1>4. Held' = [i \in 1..available' |-> Held'[i]]
    BY <1>2, <1>3
  <1> QED BY <1>1, <1>3, <1>4

LEMMA PushHeld ==
  ASSUME RingInv, EnqueueNext
  PROVE  /\ Head(copying) \in Samples
         /\ readIndex' \in 0..(Capacity - 1) /\ writeIndex' \in 0..(Capacity - 1)
         /\ available' \in 0..Capacity
         /\ writeIndex' = (readIndex' + available') % Capacity
         /\ Held' = Append(IF Len(Held) < Capacity THEN Held ELSE Tail(Held), Head(copying))
  <1> DEFINE s == Head(copying)
  <1>0. /\ Capacity \in Nat \ {0}
        /\ readIndex \in 0..(Capacity - 1) /\ writeIndex \in 0..(Capacity - 1)
        /\ available \in 0..Capacity
        /\ ring \in [0..(Capacity - 1) -> Samples \cup {Silence}]
        /\ writeIndex = IF readIndex + available < Capacity THEN readIndex + available
                        ELSE readIndex + available - Capacity
    BY IndexFacts
  <1>1. s \in Samples
    BY DEF RingInv, RingTypeOK, EnqueueNext
  <1>2. /\ Held \in Seq(Samples) /\ Len(Held) = available
        /\ \A i \in 1..available :
             Held[i] = ring[IF readIndex + i - 1 < Capacity THEN readIndex + i - 1
                            ELSE readIndex + i - 1 - Capacity]
    BY HeldIsSeq, HeldAt
  <1>3. /\ writeIndex' = IF writeIndex + 1 < Capacity THEN writeIndex + 1 ELSE 0
        /\ ring' = [ring EXCEPT ![writeIndex] = s]
    BY <1>0, NextSlot DEF EnqueueNext
  <1>4. CASE available < Capacity
    <2>1. available' = available + 1 /\ readIndex' = readIndex
      BY <1>0, <1>4 DEF EnqueueNext
    <2>2. writeIndex' = (readIndex' + available') % Capacity
      <3>1. readIndex \in Slots /\ available + 1 \in 0..Capacity
        BY <1>0, <1>4 DEF Slots
      <3>2. (readIndex + (available + 1)) % Capacity
              = IF readIndex + (available + 1) < Capacity THEN readIndex + (available + 1)
                ELSE readIndex + (available + 1) - Capacity
        BY <3>1, SlotAfter
      <3> QED BY <1>0, <1>3, <1>4, <2>1, <3>2
    <2>3. /\ Held' = [i \in 1..(available + 1) |-> Held'[i]]
          /\ \A i \in 1..(available + 1) :
               Held'[i] = ring'[IF readIndex + i - 1 < Capacity THEN readIndex + i - 1
                                ELSE readIndex + i - 1 - Capacity]
      BY <1>0, <2>1, <1>4, HeldAfter
    <2>4. ASSUME NEW i \in 1..available PROVE Held'[i] = Held[i]
      BY <1>0, <1>2, <1>3, <1>4, <2>3
    <2>5. Held'[available + 1] = s
      <3>1. available + 1 \in 1..(available + 1) /\ readIndex + (available + 1) - 1 = readIndex + available
        BY <1>0
      <3>2. Held'[available + 1] = ring'[writeIndex]
        BY <1>0, <2>3, <3>1
      <3> QED BY <1>0, <1>3, <3>2
    <2>6. Held' = Append(Held, s)
      <3>1. /\ Append(Held, s) \in Seq(Samples)
            /\ DOMAIN Append(Held, s) = 1..(available + 1)
            /\ \A i \in 1..available : Append(Held, s)[i] = Held[i]
            /\ Append(Held, s)[available + 1] = s
        BY <1>0, <1>1, <1>2
      <3>2. \A i \in 1..(available + 1) : i \in 1..available \/ i = available + 1
        BY <1>0
      <3>3. \A i \in 1..(available + 1) : Held'[i] = Append(Held, s)[i]
        BY <2>4, <2>5, <3>1, <3>2
      <3> QED BY <2>3, <3>1, <3>3, <1>0, SameSequence
    <2> QED BY <1>0, <1>1, <1>2, <1>3, <1>4, <2>1, <2>2, <2>6
  <1>5. CASE available = Capacity
    <2>1. /\ available' = available
          /\ readIndex' = IF readIndex + 1 < Capacity THEN readIndex + 1 ELSE 0
      BY <1>0, <1>5, NextSlot DEF EnqueueNext
    <2>2. writeIndex' = (readIndex' + available') % Capacity
      <3>1. readIndex' \in Slots /\ available' \in 0..Capacity
        BY <1>0, <1>5, <2>1 DEF Slots
      <3>2. (readIndex' + available') % Capacity
              = IF readIndex' + available' < Capacity THEN readIndex' + available'
                ELSE readIndex' + available' - Capacity
        BY <3>1, SlotAfter
      <3> QED BY <1>0, <1>3, <1>5, <2>1, <3>2
    <2>3. /\ Held' = [i \in 1..available |-> Held'[i]]
          /\ \A i \in 1..available :
               Held'[i] = ring'[IF readIndex' + i - 1 < Capacity THEN readIndex' + i - 1
                                ELSE readIndex' + i - 1 - Capacity]
      BY <1>0, <2>1, <1>5, HeldAfter
    <2>4. ASSUME NEW i \in 1..(available - 1) PROVE Held'[i] = Held[i + 1]
      <3>1. i + 1 \in 1..available /\ i \in 1..available /\ i \in 1..Capacity
        BY <1>0, <1>5
      <3>2. Held[i + 1] = ring[IF readIndex + i < Capacity THEN readIndex + i
                               ELSE readIndex + i - Capacity]
        BY <1>0, <1>2, <3>1
      <3>3. Held'[i] = ring'[IF readIndex' + i - 1 < Capacity THEN readIndex' + i - 1
                               ELSE readIndex' + i - 1 - Capacity]
        BY <2>3, <3>1
      <3>4. (IF readIndex' + i - 1 < Capacity THEN readIndex' + i - 1
             ELSE readIndex' + i - 1 - Capacity)
              = IF readIndex + i < Capacity THEN readIndex + i ELSE readIndex + i - Capacity
        BY <1>0, <2>1, <3>1
      <3>5. (IF readIndex + i < Capacity THEN readIndex + i ELSE readIndex + i - Capacity)
              \in 0..(Capacity - 1) \ {writeIndex}
        BY <1>0, <1>5
      <3> QED BY <1>0, <1>3, <3>2, <3>3, <3>4, <3>5
    <2>5. Held'[available] = s
      BY <1>0, <1>3, <1>5, <2>1, <2>3
    <2>6. Held' = Append(Tail(Held), s)
      <3>1. /\ Tail(Held) \in Seq(Samples) /\ Len(Tail(Held)) = available - 1
            /\ \A i \in 1..(available - 1) : Tail(Held)[i] = Held[i + 1]
        <4>1. Held # <<>>
          BY <1>0, <1>2, <1>5
        <4> QED BY <1>0, <1>2, <1>5, <4>1
      <3>2. /\ Append(Tail(Held), s) \in Seq(Samples)
            /\ DOMAIN Append(Tail(Held), s) = 1..available
            /\ \A i \in 1..(available - 1) : Append(Tail(Held), s)[i] = Held[i + 1]
            /\ Append(Tail(Held), s)[available] = s
        BY <1>0, <1>1, <1>5, <3>1
      <3>3. \A i \in 1..available : i \in 1..(available - 1) \/ i = available
        BY <1>0
      <3>4. \A i \in 1..available : Held'[i] = Append(Tail(Held), s)[i]
        BY <2>4, <2>5, <3>2, <3>3
      <3> QED BY <2>3, <3>2, <3>4, <1>0, SameSequence
    <2> QED BY <1>0, <1>1, <1>2, <1>3, <1>5, <2>1, <2>2, <2>6
  <1> QED BY <1>0, <1>4, <1>5

(* Filling a frame from a ring that has samples is Pop. *)
LEMMA PopHeld ==
  ASSUME RingInv, FillFrame, available > 0
  PROVE  /\ readIndex' \in 0..(Capacity - 1) /\ available' \in 0..Capacity
         /\ writeIndex' = (readIndex' + available') % Capacity
         /\ Held # <<>> /\ heard' = Head(Held) /\ Held' = Tail(Held)
  <1>0. /\ Capacity \in Nat \ {0}
        /\ readIndex \in 0..(Capacity - 1) /\ writeIndex \in 0..(Capacity - 1)
        /\ available \in 1..Capacity
        /\ writeIndex = IF readIndex + available < Capacity THEN readIndex + available
                        ELSE readIndex + available - Capacity
    BY IndexFacts
  <1>1. /\ Held \in Seq(Samples) /\ Len(Held) = available
        /\ \A i \in 1..available :
             Held[i] = ring[IF readIndex + i - 1 < Capacity THEN readIndex + i - 1
                            ELSE readIndex + i - 1 - Capacity]
    BY HeldIsSeq, HeldAt
  <1>2. /\ available' = available - 1 /\ ring' = ring /\ writeIndex' = writeIndex
        /\ readIndex' = IF readIndex + 1 < Capacity THEN readIndex + 1 ELSE 0
        /\ heard' = ring[readIndex]
    BY <1>0, NextSlot DEF FillFrame
  <1>3. readIndex' \in 0..(Capacity - 1) /\ available' \in 0..(Capacity - 1)
    BY <1>0, <1>2
  <1>9. (readIndex' + available') % Capacity
           = IF readIndex' + available' < Capacity THEN readIndex' + available'
             ELSE readIndex' + available' - Capacity
    <2>1. readIndex' \in Slots /\ available' \in 0..Capacity
      BY <1>0, <1>3 DEF Slots
    <2> QED BY <2>1, SlotAfter
  <1>10. writeIndex' = (readIndex' + available') % Capacity
    BY <1>0, <1>2, <1>9
  <1>4. /\ Held' = [i \in 1..(available - 1) |-> Held'[i]]
        /\ \A i \in 1..(available - 1) :
             Held'[i] = ring[IF readIndex' + i - 1 < Capacity THEN readIndex' + i - 1
                             ELSE readIndex' + i - 1 - Capacity]
    BY <1>0, <1>2, <1>3, HeldAfter
  <1>5. ASSUME NEW i \in 1..(available - 1) PROVE Held'[i] = Held[i + 1]
    <2>1. i + 1 \in 1..available /\ i \in 1..(available - 1)
      BY <1>0
    <2>2. Held[i + 1] = ring[IF readIndex + i < Capacity THEN readIndex + i
                             ELSE readIndex + i - Capacity]
      BY <1>0, <1>1, <2>1
    <2>3. Held'[i] = ring[IF readIndex' + i - 1 < Capacity THEN readIndex' + i - 1
                             ELSE readIndex' + i - 1 - Capacity]
      BY <1>4, <2>1
    <2>4. (IF readIndex' + i - 1 < Capacity THEN readIndex' + i - 1
           ELSE readIndex' + i - 1 - Capacity)
            = IF readIndex + i < Capacity THEN readIndex + i
              ELSE readIndex + i - Capacity
      BY <1>0, <1>2, <2>1
    <2> QED BY <2>2, <2>3, <2>4
  <1>6. /\ Tail(Held) \in Seq(Samples) /\ DOMAIN Tail(Held) = 1..(available - 1)
        /\ \A i \in 1..(available - 1) : Tail(Held)[i] = Held[i + 1]
    <2>1. Held # <<>>
      BY <1>0, <1>1
    <2> QED BY <1>0, <1>1, <2>1
  <1>8. Held' = Tail(Held)
    <2>1. available - 1 \in Nat
      BY <1>0
    <2> QED BY <1>4, <1>5, <1>6, <2>1, SameSequence
  <1>7. Held # <<>> /\ Head(Held) = ring[readIndex]
    <2>1. Held # <<>> /\ Head(Held) = Held[1]
      BY <1>0, <1>1
    <2> QED BY <1>0, <1>1, <2>1
  <1> QED BY <1>0, <1>2, <1>3, <1>7, <1>8, <1>10
-----------------------------------------------------------------------------
(* The invariant *)

LEMMA InvInit == RingInit => RingInv
  <1> SUFFICES ASSUME RingInit PROVE RingInv
    OBVIOUS
  <1>1. 0 % Capacity = 0
    BY ModSmall, RingAssumption
  <1>2. writeIndex = (readIndex + available) % Capacity
    <2>1. readIndex = 0 /\ available = 0 /\ writeIndex = 0
      BY DEF RingInit
    <2>2. readIndex + available = 0
      BY <2>1
    <2> QED BY <1>1, <2>1, <2>2
  <1>3. RingTypeOK
    <2>1. ring \in [Slots -> Samples \cup {Silence}]
      BY DEF RingInit
    <2>2. copying \in Seq(Samples)
      BY DEF RingInit
    <2>3. 0 \in Slots /\ 0 \in 0..Capacity /\ 0 \in 0..Quantum /\ 0 \in 0..(ReportEvery - 1)
      BY RingAssumption DEF Slots
    <2> QED BY <2>1, <2>2, <2>3 DEF RingInit, RingTypeOK
  <1> QED BY <1>2, <1>3 DEF RingInit, RingInv

(* a step that leaves the buffer alone leaves the samples waiting alone *)
LEMMA SameHeld ==
  ASSUME RingInv, UNCHANGED buffer
  PROVE  /\ Held' = Held
         /\ writeIndex' = (readIndex' + available') % Capacity
         /\ \A i \in 1..available' : Held'[i] \in Samples
  BY DEF RingInv, buffer, Held

(* a step of the worklet, whatever samples a message carries *)
RingStep ==
  \/ \E s \in Seq(Samples) : ReceiveSamples(s)
  \/ ReceiveEnd \/ ReceiveReset \/ ProcessBegins \/ WorkletStep

LEMMA NextIsRingStep == RingNext => RingStep
  BY RingAssumption DEF RingNext, RingStep

LEMMA InvNext == RingInv /\ [RingStep]_ringVars => RingInv'
  <1> SUFFICES ASSUME RingInv, [RingStep]_ringVars PROVE RingInv'
    OBVIOUS
  <1> USE RingAssumption
  <1>1. ASSUME NEW s \in Seq(Samples), ReceiveSamples(s) PROVE RingInv'
    <2>1. UNCHANGED buffer
      BY <1>1 DEF ReceiveSamples
    <2>2. RingTypeOK'
      BY <1>1 DEF RingInv, RingTypeOK, ReceiveSamples, buffer, flags
    <2>3. (job = "quantum" => alive)'
      BY <1>1 DEF ReceiveSamples
    <2> QED BY <2>1, <2>2, <2>3, SameHeld DEF RingInv
  <1>2. CASE ReceiveEnd
    <2>1. UNCHANGED buffer
      BY <1>2 DEF ReceiveEnd
    <2>2. RingTypeOK'
      BY <1>2 DEF RingInv, RingTypeOK, ReceiveEnd, buffer, loop
    <2>3. (job = "quantum" => alive)'
      BY <1>2 DEF ReceiveEnd, RingInv, loop
    <2> QED BY <2>1, <2>2, <2>3, SameHeld DEF RingInv
  <1>3. CASE ReceiveReset
    <2>1. RingTypeOK'
      <3>1. readIndex' \in Slots /\ writeIndex' \in Slots /\ available' \in 0..Capacity
        BY <1>3 DEF ReceiveReset, Slots
      <3> QED BY <1>3, <3>1 DEF RingInv, RingTypeOK, ReceiveReset, loop
    <2>2. (job = "quantum" => alive)'
      BY <1>3 DEF ReceiveReset, RingInv, loop
    <2>3. (writeIndex = (readIndex + available) % Capacity)'
      BY <1>3, ModSmall DEF ReceiveReset
    <2>4. (\A i \in 1..available : Held[i] \in Samples)'
      BY <1>3 DEF ReceiveReset
    <2> QED BY <2>1, <2>2, <2>3, <2>4 DEF RingInv
  <1>4. CASE EnqueueNext
    <2>1. /\ Head(copying) \in Samples
          /\ readIndex' \in 0..(Capacity - 1) /\ writeIndex' \in 0..(Capacity - 1)
          /\ available' \in 0..Capacity
          /\ writeIndex' = (readIndex' + available') % Capacity
          /\ Held' = Append(IF Len(Held) < Capacity THEN Held ELSE Tail(Held), Head(copying))
      BY <1>4, PushHeld
    <2>2. ring' \in [Slots -> Samples \cup {Silence}]
      BY <1>4, <2>1 DEF RingInv, RingTypeOK, EnqueueNext
    <2>3. copying' \in Seq(Samples)
      BY <1>4 DEF RingInv, RingTypeOK, EnqueueNext
    <2>4. RingTypeOK'
      BY <1>4, <2>1, <2>2, <2>3 DEF RingInv, RingTypeOK, EnqueueNext, flags, Slots
    <2>5. (\A i \in 1..available : Held[i] \in Samples)'
      <3>1. Held \in Seq(Samples) /\ Len(Held) = available
        BY HeldIsSeq
      <3>2. Held' \in Seq(Samples)
        <4>1. CASE Len(Held) < Capacity
          BY <2>1, <3>1, <4>1
        <4>2. CASE Len(Held) >= Capacity
          <5>1. Held # <<>>
            BY <3>1, <4>2
          <5>2. Tail(Held) \in Seq(Samples)
            BY <3>1, <5>1
          <5> QED BY <2>1, <3>1, <4>2, <5>2
        <4> QED BY <3>1, <4>1, <4>2
      <3>3. DOMAIN Held' = 1..available'
        BY <2>1, HeldAfter
      <3>4. \A i \in 1..available' : Held'[i] \in Samples
        BY <3>2, <3>3, ElementsOf
      <3> QED BY <3>4
    <2>6. (job = "quantum" => alive)'
      BY <1>4 DEF EnqueueNext
    <2> QED BY <2>1, <2>4, <2>5, <2>6 DEF RingInv
  <1>5. CASE EnqueueOver
    <2>1. UNCHANGED buffer
      BY <1>5 DEF EnqueueOver
    <2>2. RingTypeOK'
      BY <1>5 DEF RingInv, RingTypeOK, EnqueueOver, buffer
    <2>3. (job = "quantum" => alive)'
      BY <1>5 DEF EnqueueOver
    <2> QED BY <2>1, <2>2, <2>3, SameHeld DEF RingInv
  <1>6. CASE ProcessBegins
    <2>1. UNCHANGED buffer
      BY <1>6 DEF ProcessBegins
    <2>2. RingTypeOK'
      BY <1>6 DEF RingInv, RingTypeOK, ProcessBegins, buffer, flags
    <2>3. (job = "quantum" => alive)'
      BY <1>6 DEF ProcessBegins, flags
    <2> QED BY <2>1, <2>2, <2>3, SameHeld DEF RingInv
  <1>7. CASE FillFrame /\ available > 0
    <2>1. /\ readIndex' \in 0..(Capacity - 1) /\ available' \in 0..Capacity
          /\ writeIndex' = (readIndex' + available') % Capacity
          /\ Held # <<>> /\ heard' = Head(Held) /\ Held' = Tail(Held)
      BY <1>7, PopHeld
    <2>2. Held \in Seq(Samples) /\ Len(Held) = available
      BY HeldIsSeq
    <2>3. RingTypeOK'
      <3>1. heard' \in Samples
        BY <2>1, <2>2
      <3>2. frames' \in 0..Quantum
        BY <1>7 DEF RingInv, RingTypeOK, FillFrame
      <3> QED BY <1>7, <2>1, <3>1, <3>2 DEF RingInv, RingTypeOK, FillFrame, flags, Slots
    <2>4. (\A i \in 1..available : Held[i] \in Samples)'
      <3>1. Held' \in Seq(Samples)
        BY <2>1, <2>2
      <3>2. DOMAIN Held' = 1..available'
        BY <2>1, HeldAfter
      <3>3. \A i \in 1..available' : Held'[i] \in Samples
        BY <3>1, <3>2, ElementsOf
      <3> QED BY <3>3
    <2>5. (job = "quantum" => alive)'
      BY <1>7 DEF FillFrame, RingInv, flags
    <2> QED BY <2>1, <2>3, <2>4, <2>5 DEF RingInv
  <1>8. CASE FillFrame /\ ~ (available > 0)
    <2>1. UNCHANGED buffer
      BY <1>8 DEF FillFrame, buffer
    <2>2. RingTypeOK'
      <3>1. frames' \in 0..Quantum
        BY <1>8 DEF RingInv, RingTypeOK, FillFrame
      <3> QED BY <1>8, <3>1 DEF RingInv, RingTypeOK, FillFrame, flags
    <2>3. (job = "quantum" => alive)'
      BY <1>8 DEF FillFrame, RingInv, flags
    <2> QED BY <2>1, <2>2, <2>3, SameHeld DEF RingInv
  <1>9. CASE ProcessOver
    <2>1. UNCHANGED buffer
      BY <1>9 DEF ProcessOver
    <2>2. underruns' \in 0..(ReportEvery - 1) /\ alive' \in BOOLEAN
      BY <1>9 DEF RingInv, RingTypeOK, ProcessOver
    <2>3. RingTypeOK'
      BY <1>9, <2>2 DEF RingInv, RingTypeOK, ProcessOver, buffer
    <2>4. (job = "quantum" => alive)'
      BY <1>9 DEF ProcessOver
    <2> QED BY <2>1, <2>3, <2>4, SameHeld DEF RingInv
  <1>10. CASE UNCHANGED ringVars
    <2>1. UNCHANGED buffer
      BY <1>10 DEF ringVars, buffer
    <2> QED BY <1>10, <2>1, SameHeld DEF RingInv, RingTypeOK, ringVars
  <1> QED BY <1>1, <1>2, <1>3, <1>4, <1>5, <1>6, <1>7, <1>8, <1>9, <1>10
          DEF RingStep, WorkletStep

(* The indices agree and only samples are waiting, whatever the capacity,  *)
(* the quantum and the order of messages (pcm-processor.js).               *)
THEOREM IndicesAgree == RingSpec => []RingInv
  <1>1. RingInit => RingInv
    BY InvInit
  <1>2. RingInv /\ [RingNext]_ringVars => RingInv'
    BY InvNext, NextIsRingStep
  <1> QED BY <1>1, <1>2, PTL DEF RingSpec
-----------------------------------------------------------------------------
(* The ring implements the bounded queue. *)

LEMMA StartsEmpty == ASSUME RingInit PROVE Fifo!Init
  <1>1. available = 0
    BY DEF RingInit
  <1>2. Held = <<>>
    BY <1>1 DEF Held
  <1> QED BY <1>2 DEF RingInit, Fifo!Init

LEMMA StepSimulates ==
  ASSUME RingInv, RingInv', [RingStep]_ringVars
  PROVE  [Fifo!Next]_(Fifo!vars)
  <1> USE DEF Fifo!vars
  <1>1. CASE EnqueueNext
    <2>1. /\ Head(copying) \in Samples
          /\ Held' = Append(IF Len(Held) < Capacity THEN Held ELSE Tail(Held), Head(copying))
      BY <1>1, PushHeld
    <2>2. Fifo!Push(Head(copying))
      BY <1>1, <2>1 DEF EnqueueNext, flags, Fifo!Push
    <2> QED BY <2>1, <2>2 DEF Fifo!Next
  <1>2. CASE FillFrame /\ available > 0
    <2>1. Held # <<>> /\ heard' = Head(Held) /\ Held' = Tail(Held)
      BY <1>2, PopHeld
    <2>2. Fifo!Pop
      BY <1>2, <2>1 DEF FillFrame, flags, RingInv, Fifo!Pop
    <2> QED BY <2>2 DEF Fifo!Next
  <1>3. CASE FillFrame /\ ~ (available > 0)
    <2>1. UNCHANGED buffer
      BY <1>3 DEF FillFrame, buffer
    <2>2. Held = <<>>
      <3>1. available = 0
        BY <1>3, RingAssumption DEF RingInv, RingTypeOK
      <3> QED BY <3>1, HeldIsSeq
    <2>3. Fifo!Hold
      BY <1>3, <2>1, <2>2, SameHeld DEF FillFrame, flags, RingInv, Fifo!Hold
    <2> QED BY <2>3 DEF Fifo!Next
  <1>4. CASE ProcessOver
    <2>1. UNCHANGED buffer /\ Held' = Held
      BY <1>4, SameHeld DEF ProcessOver
    <2>2. CASE available = 0 /\ ended
      <3>1. Held = <<>>
        BY <2>2, HeldIsSeq DEF RingInv, RingTypeOK
      <3>2. Fifo!Drain
        BY <1>4, <2>1, <2>2, <3>1 DEF ProcessOver, RingInv, Fifo!Drain
      <3> QED BY <3>2 DEF Fifo!Next
    <2>3. CASE ~ (available = 0 /\ ended)
      BY <1>4, <2>1, <2>3 DEF ProcessOver, RingInv
    <2> QED BY <2>2, <2>3
  <1>5. CASE ReceiveEnd
    <2>1. Held' = Held
      BY <1>5, SameHeld DEF ReceiveEnd
    <2>2. Fifo!End
      BY <1>5, <2>1 DEF ReceiveEnd, Fifo!End
    <2> QED BY <2>2 DEF Fifo!Next
  <1>6. CASE ReceiveReset
    <2>1. Held' = <<>>
      BY <1>6 DEF ReceiveReset, Held
    <2>2. Fifo!Clear
      BY <1>6, <2>1 DEF ReceiveReset, Fifo!Clear
    <2> QED BY <2>2 DEF Fifo!Next
  <1>7. CASE \/ \E s \in Seq(Samples) : ReceiveSamples(s)
             \/ EnqueueOver \/ ProcessBegins \/ UNCHANGED ringVars
    <2>1. UNCHANGED buffer /\ UNCHANGED <<heard, ended, alive>>
      BY <1>7 DEF ReceiveSamples, EnqueueOver, ProcessBegins, ringVars, buffer, flags
    <2> QED BY <2>1, SameHeld
  <1> QED BY <1>1, <1>2, <1>3, <1>4, <1>5, <1>6, <1>7 DEF RingStep, WorkletStep

(* What leaves the ring is what entered it, in order and once; only a full *)
(* ring loses a sample and only its oldest; the end is announced when      *)
(* nothing is left: for every capacity, quantum and sequence of messages.  *)
THEOREM RingIsFifo == RingSpec => FifoSpec
  <1>1. RingInit => Fifo!Init
    BY StartsEmpty
  <1>2. RingInv /\ RingInv' /\ [RingNext]_ringVars => [Fifo!Next]_(Fifo!vars)
    BY StepSimulates, NextIsRingStep
  <1> QED BY <1>1, <1>2, IndicesAgree, PTL DEF RingSpec, FifoSpec, Fifo!Spec
-----------------------------------------------------------------------------
(* The clip as it travels: a body of Bytes bytes is the samples Clip(1),   *)
(* Clip(2), ..., and each message of the port carries a run of them.       *)

Clip(k) == <<2 * k - 1, 2 * k>>

(* the samples after the a-th, up to the b-th *)
Segment(s, a, b) == a <= b /\ s = [k \in 1..(b - a) |-> Clip(a + k)]

Message == [type : {"samples", "end", "reset"}, samples : Seq(Samples)]

(* Where each message of the queue q ends, when n samples are posted, e    *)
(* have entered the ring and c are being copied.                           *)
Marks(m, e, c, q, n) ==
  /\ Segment(c, e, m[0])
  /\ \A i \in 1..Len(q) : Segment(q[i].samples, m[i - 1], m[i])
  /\ m[Len(q)] = n

Chained(e, c, q, n) == \E m \in [0..Len(q) -> Nat] : Marks(m, e, c, q, n)

(* x is a sample of the clip, among its first e *)
OfClip(x, e) ==
  x \in Nat \X Nat /\ x[1] < 2 * e /\ x[1] % 2 = 1 /\ x[2] = x[1] + 1

Ordered(s) == \A i, j \in DOMAIN s : i < j => s[i][1] < s[j][1]

(* What was played and what waits in the ring are samples of the clip, in  *)
(* its order, and as long as none was lost they are all that entered.      *)
Line(e, h, p, g, d) ==
  /\ \A i \in DOMAIN h : OfClip(h[i], e)
  /\ \A i \in DOMAIN p : OfClip(p[i], e)
  /\ Ordered(h) /\ Ordered(p)
  /\ g => \A i \in DOMAIN p, j \in DOMAIN h : p[i][1] < h[j][1]
  /\ g /\ ~ d => e = Len(p) + Len(h)

(* The last word: while the graph stands, the end is the last message, it  *)
(* comes when nothing is left to copy, and the processor stops only after  *)
(* it, empty.                                                              *)
LastWord ==
  /\ job # "enqueue" => copying = <<>>
  /\ \A i \in 1..Len(port) : port[i].type # "samples" => port[i].samples = <<>>
  /\ graph => \A i \in 1..Len(port) :
       /\ port[i].type # "reset"
       /\ port[i].type = "end" => i = Len(port) /\ body # "reading"
  /\ graph /\ ended => port = <<>> /\ copying = <<>> /\ body # "reading"
  /\ graph /\ ~ alive => ended /\ available = 0

StreamTyped ==
  /\ got \in 0..Bytes /\ body \in {"reading", "whole", "broken"}
  /\ port \in Seq(Message) /\ graph \in BOOLEAN /\ dropped \in BOOLEAN
  /\ played \in Seq(Samples)
  /\ carry = IF got % 2 = 1 THEN <<got>> ELSE <<>>

InLine == \E e \in Nat : /\ Chained(e, copying, port, got \div 2)
                         /\ Line(e, Held, played, graph, dropped)

StreamInv == RingInv /\ StreamTyped /\ InLine /\ LastWord
-----------------------------------------------------------------------------
(* Runs of the clip *)

LEMMA FunctionIsSeq ==
  ASSUME NEW S, NEW n \in Nat, NEW s \in [1..n -> S]
  PROVE  s \in Seq(S) /\ Len(s) = n
  OBVIOUS

LEMMA SegmentSeq ==
  ASSUME NEW s, NEW a \in Nat, NEW b \in Nat, Segment(s, a, b)
  PROVE  /\ s \in Seq(Nat \X Nat) /\ Len(s) = b - a
         /\ \A k \in 1..(b - a) : s[k] = Clip(a + k)
  <1>1. b - a \in Nat
    BY DEF Segment
  <1>2. \A k \in 1..(b - a) : Clip(a + k) \in Nat \X Nat
    BY DEF Clip
  <1>3. s = [k \in 1..(b - a) |-> Clip(a + k)]
    BY DEF Segment
  <1>4. s \in [1..(b - a) -> Nat \X Nat]
    BY <1>2, <1>3
  <1>5. s \in Seq(Nat \X Nat) /\ Len(s) = b - a
    BY <1>1, <1>4, FunctionIsSeq
  <1>6. \A k \in 1..(b - a) : s[k] = Clip(a + k)
    BY <1>3
  <1> QED BY <1>5, <1>6

LEMMA SegmentBy ==
  ASSUME NEW S, NEW s \in Seq(S), NEW a \in Nat, NEW b \in Nat, a <= b, Len(s) = b - a,
         \A k \in 1..(b - a) : s[k] = Clip(a + k)
  PROVE  Segment(s, a, b)
  <1>1. s = [k \in 1..(b - a) |-> s[k]]
    OBVIOUS
  <1> QED BY <1>1 DEF Segment

LEMMA SegmentEmpty ==
  ASSUME NEW a \in Nat, NEW b \in Nat
  PROVE  /\ Segment(<<>>, a, b) => a = b
         /\ Segment(<<>>, a, a)
  <1>1. ASSUME Segment(<<>>, a, b) PROVE a = b
    BY <1>1, SegmentSeq DEF Segment
  <1>2. Segment(<<>>, a, a)
    <2>1. a - a = 0 /\ 1..(a - a) = {} /\ a <= a
      OBVIOUS
    <2>2. <<>> = [k \in 1..(a - a) |-> Clip(a + k)]
      BY <2>1
    <2> QED BY <2>1, <2>2 DEF Segment
  <1> QED BY <1>1, <1>2

LEMMA SegmentHead ==
  ASSUME NEW s, NEW a \in Nat, NEW b \in Nat, Segment(s, a, b), s # <<>>
  PROVE  Head(s) = Clip(a + 1) /\ Segment(Tail(s), a + 1, b) /\ a + 1 <= b
  <1>1. /\ s \in Seq(Nat \X Nat) /\ Len(s) = b - a
        /\ \A k \in 1..(b - a) : s[k] = Clip(a + k)
    BY SegmentSeq
  <1>2. 1 \in 1..(b - a) /\ Head(s) = s[1]
    BY <1>1
  <1>3. /\ Tail(s) \in Seq(Nat \X Nat) /\ Len(Tail(s)) = b - (a + 1)
        /\ \A k \in 1..(b - (a + 1)) : Tail(s)[k] = s[k + 1] /\ k + 1 \in 1..(b - a)
    BY <1>1, <1>2
  <1>4. \A k \in 1..(b - (a + 1)) : Tail(s)[k] = Clip((a + 1) + k)
    <2>1. \A k \in 1..(b - (a + 1)) : a + (k + 1) = (a + 1) + k
      OBVIOUS
    <2> QED BY <1>1, <1>3, <2>1
  <1>5. a + 1 \in Nat /\ a + 1 <= b /\ 1 \in 1..(b - a)
    BY <1>1, <1>2
  <1>6. Segment(Tail(s), a + 1, b)
    BY <1>3, <1>4, <1>5, SegmentBy
  <1> QED BY <1>1, <1>2, <1>5, <1>6
-----------------------------------------------------------------------------
(* The chain of messages *)

LEMMA ChainPost ==
  ASSUME NEW e \in Nat, NEW c, NEW q \in Seq(Message), NEW n \in Nat, NEW t \in Nat,
         NEW msg \in Message, Chained(e, c, q, n), Segment(msg.samples, n, t)
  PROVE  Chained(e, c, Append(q, msg), t)
  <1>1. PICK m \in [0..Len(q) -> Nat] : Marks(m, e, c, q, n)
    BY DEF Chained
  <1> DEFINE w == [i \in 0..(Len(q) + 1) |-> IF i \in 0..Len(q) THEN m[i] ELSE t]
  <1>2. Len(q) \in Nat /\ Len(Append(q, msg)) = Len(q) + 1
        /\ \A i \in 1..Len(q) : Append(q, msg)[i] = q[i]
        /\ Append(q, msg)[Len(q) + 1] = msg
    OBVIOUS
  <1>3. w \in [0..(Len(q) + 1) -> Nat] /\ w[Len(q) + 1] = t
        /\ \A i \in 0..Len(q) : w[i] = m[i]
    BY <1>1, <1>2
  <1> HIDE DEF w
  <1>4. Segment(c, e, w[0])
    BY <1>1, <1>2, <1>3 DEF Marks
  <1>5. ASSUME NEW i \in 1..(Len(q) + 1)
        PROVE  Segment(Append(q, msg)[i].samples, w[i - 1], w[i])
    <2>1. CASE i \in 1..Len(q)
      <3>1. i \in 0..Len(q) /\ i - 1 \in 0..Len(q)
        BY <1>2, <2>1
      <3>2. w[i - 1] = m[i - 1] /\ w[i] = m[i]
        BY <1>3, <3>1
      <3>3. Segment(q[i].samples, m[i - 1], m[i])
        BY <1>1, <2>1 DEF Marks
      <3> QED BY <1>2, <2>1, <3>2, <3>3
    <2>2. CASE i = Len(q) + 1
      <3>1. w[i - 1] = n
        <4>1. i - 1 = Len(q)
          BY <1>2, <2>2
        <4> QED BY <1>1, <1>2, <1>3, <4>1 DEF Marks
      <3> QED BY <1>2, <1>3, <2>2, <3>1
    <2> QED BY <1>2, <2>1, <2>2
  <1>6. Marks(w, e, c, Append(q, msg), t)
    BY <1>2, <1>3, <1>4, <1>5 DEF Marks
  <1> QED BY <1>2, <1>3, <1>6 DEF Chained

LEMMA ChainDeliver ==
  ASSUME NEW e \in Nat, NEW q \in Seq(Message), NEW n \in Nat, q # <<>>,
         Chained(e, <<>>, q, n)
  PROVE  Chained(e, Head(q).samples, Tail(q), n)
  <1>1. PICK m \in [0..Len(q) -> Nat] : Marks(m, e, <<>>, q, n)
    BY DEF Chained
  <1> DEFINE w == [i \in 0..(Len(q) - 1) |-> m[i + 1]]
  <1>2. /\ Len(q) \in Nat \ {0} /\ Head(q) = q[1]
        /\ Tail(q) \in Seq(Message) /\ Len(Tail(q)) = Len(q) - 1
        /\ \A i \in 1..(Len(q) - 1) : Tail(q)[i] = q[i + 1]
    OBVIOUS
  <1>3. w \in [0..(Len(q) - 1) -> Nat] /\ \A i \in 0..(Len(q) - 1) : w[i] = m[i + 1]
    BY <1>1, <1>2
  <1> HIDE DEF w
  <1>4. Segment(Head(q).samples, e, w[0])
    <2>1. m[0] = e
      <3>1. m[0] \in Nat
        BY <1>1, <1>2
      <3> QED BY <1>1, <3>1, SegmentEmpty DEF Marks
    <2>2. Segment(q[1].samples, m[1 - 1], m[1])
      <3>1. 1 \in 1..Len(q)
        BY <1>2
      <3> QED BY <1>1, <3>1 DEF Marks
    <2>3. 1 - 1 = 0 /\ 0 + 1 = 1 /\ 0 \in 0..(Len(q) - 1)
      BY <1>2
    <2> QED BY <1>2, <1>3, <2>1, <2>2, <2>3
  <1>5. ASSUME NEW i \in 1..(Len(q) - 1)
        PROVE  Segment(Tail(q)[i].samples, w[i - 1], w[i])
    <2>1. i + 1 \in 1..Len(q) /\ (i + 1) - 1 = i /\ (i - 1) + 1 = i
          /\ i - 1 \in 0..(Len(q) - 1) /\ i \in 0..(Len(q) - 1)
      BY <1>2
    <2>2. Segment(q[i + 1].samples, m[(i + 1) - 1], m[i + 1])
      BY <1>1, <2>1 DEF Marks
    <2> QED BY <1>2, <1>3, <2>1, <2>2
  <1>6. w[Len(q) - 1] = n
    <2>1. (Len(q) - 1) + 1 = Len(q) /\ Len(q) - 1 \in 0..(Len(q) - 1)
      BY <1>2
    <2> QED BY <1>1, <1>3, <2>1 DEF Marks
  <1>7. Marks(w, e, Head(q).samples, Tail(q), n)
    BY <1>2, <1>4, <1>5, <1>6 DEF Marks
  <1> QED BY <1>2, <1>3, <1>7 DEF Chained

LEMMA ChainCopy ==
  ASSUME NEW e \in Nat, NEW c, NEW q \in Seq(Message), NEW n \in Nat, c # <<>>,
         Chained(e, c, q, n)
  PROVE  Head(c) = Clip(e + 1) /\ Chained(e + 1, Tail(c), q, n)
  <1>1. PICK m \in [0..Len(q) -> Nat] : Marks(m, e, c, q, n)
    BY DEF Chained
  <1>2. m[0] \in Nat
    OBVIOUS
  <1>3. Head(c) = Clip(e + 1) /\ Segment(Tail(c), e + 1, m[0])
    BY <1>1, <1>2, SegmentHead DEF Marks
  <1>4. Marks(m, e + 1, Tail(c), q, n)
    BY <1>1, <1>3 DEF Marks
  <1> QED BY <1>3, <1>4 DEF Chained

LEMMA ChainOver ==
  ASSUME NEW e \in Nat, NEW n \in Nat, Chained(e, <<>>, <<>>, n)
  PROVE  e = n
  <1>1. PICK m \in [0..Len(<<>>) -> Nat] : Marks(m, e, <<>>, <<>>, n)
    BY DEF Chained
  <1>2. m[0] \in Nat /\ m[0] = n
    BY <1>1 DEF Marks
  <1> QED BY <1>1, <1>2, SegmentEmpty DEF Marks
-----------------------------------------------------------------------------
(* The line of samples in the ring and out of it *)

LEMMA ClipSample ==
  ASSUME NEW e \in Nat
  PROVE  /\ OfClip(Clip(e + 1), e + 1)
         /\ Clip(e + 1)[1] = 2 * e + 1
         /\ \A x : OfClip(x, e) => x[1] < 2 * e + 1 /\ OfClip(x, e + 1)
  BY DEF OfClip, Clip

(* a sample is copied into the ring *)
LEMMA LinePush ==
  ASSUME NEW S, NEW e \in Nat, NEW h \in Seq(S), NEW p \in Seq(S), NEW g \in BOOLEAN,
         NEW d \in BOOLEAN, NEW w \in BOOLEAN, Line(e, h, p, g, d), Clip(e + 1) \in S, h = <<>> => ~ w
  PROVE  Line(e + 1, Append(IF w THEN Tail(h) ELSE h, Clip(e + 1)), p, g, d \/ w)
  <1> DEFINE k == IF w THEN Tail(h) ELSE h
  <1> DEFINE x == Clip(e + 1)
  <1>1. /\ OfClip(x, e + 1) /\ x[1] = 2 * e + 1 /\ x \in S
        /\ \A y : OfClip(y, e) => y[1] < 2 * e + 1 /\ OfClip(y, e + 1)
    BY ClipSample
  <1> HIDE DEF x
  <1>2. /\ k \in Seq(S) /\ (~ w => Len(k) = Len(h))
        /\ \A i \in DOMAIN k : \E j \in DOMAIN h : k[i] = h[j]
        /\ Ordered(k)
    <2>1. CASE w
      <3>1. h # <<>> /\ k = Tail(h) /\ Ordered(h)
        BY <2>1 DEF Line
      <3>2. /\ k \in Seq(S) /\ DOMAIN k = 1..(Len(h) - 1) /\ Len(h) \in Nat
            /\ \A i \in DOMAIN k : k[i] = h[i + 1] /\ i + 1 \in DOMAIN h
        BY <3>1
      <3> HIDE DEF k
      <3>3. \A i, j \in DOMAIN k : i < j => i + 1 < j + 1
        BY <3>2
      <3>4. Ordered(k)
        BY <3>1, <3>2, <3>3 DEF Ordered
      <3> QED BY <2>1, <3>2, <3>4
    <2>2. CASE ~ w
      BY <2>2 DEF Line
    <2> QED BY <2>1, <2>2
  <1> HIDE DEF k
  <1>3. \A i \in DOMAIN k : OfClip(k[i], e)
    BY <1>2 DEF Line
  <1>4. /\ Append(k, x) \in Seq(S) /\ Len(Append(k, x)) = Len(k) + 1
        /\ DOMAIN Append(k, x) = 1..(Len(k) + 1) /\ DOMAIN k = 1..Len(k) /\ Len(k) \in Nat
        /\ \A i \in DOMAIN k : Append(k, x)[i] = k[i]
        /\ Append(k, x)[Len(k) + 1] = x
    BY <1>1, <1>2
  <1> DEFINE a == Append(k, x)
  <1>5. /\ DOMAIN a = 1..(Len(k) + 1) /\ Len(a) = Len(k) + 1
        /\ \A i \in DOMAIN k : a[i] = k[i]
        /\ a[Len(k) + 1] = x
        /\ \A i \in DOMAIN a : i \in DOMAIN k \/ i = Len(k) + 1
    BY <1>4
  <1> HIDE DEF a
  <1>6. \A i \in DOMAIN a : OfClip(a[i], e + 1)
    BY <1>1, <1>3, <1>5
  <1>7. \A i \in DOMAIN p : OfClip(p[i], e + 1)
    BY <1>1 DEF Line
  <1>8. Ordered(a)
    <2>1. ASSUME NEW i \in DOMAIN a, NEW j \in DOMAIN a, i < j
          PROVE  a[i][1] < a[j][1]
      <3>1. i \in DOMAIN k
        BY <1>4, <1>5, <2>1
      <3>2. CASE j \in DOMAIN k
        BY <1>2, <1>5, <2>1, <3>1, <3>2 DEF Ordered
      <3>3. CASE j = Len(k) + 1
        BY <1>1, <1>3, <1>5, <3>1, <3>3
      <3> QED BY <1>5, <3>2, <3>3
    <2> QED BY <2>1 DEF Ordered
  <1>9. g => \A i \in DOMAIN p, j \in DOMAIN a : p[i][1] < a[j][1]
    <2>1. ASSUME g, NEW i \in DOMAIN p, NEW j \in DOMAIN a
          PROVE  p[i][1] < a[j][1]
      <3>1. CASE j \in DOMAIN k
        BY <1>2, <1>5, <2>1, <3>1 DEF Line
      <3>2. CASE j = Len(k) + 1
        <4>1. OfClip(p[i], e)
          BY DEF Line
        <4> QED BY <1>1, <1>5, <3>2, <4>1
      <3> QED BY <1>5, <3>1, <3>2
    <2> QED BY <2>1
  <1>10. g /\ ~ (d \/ w) => e + 1 = Len(p) + Len(a)
    <2>1. ASSUME g, ~ d, ~ w PROVE e + 1 = Len(p) + Len(a)
      <3>1. e = Len(p) + Len(h)
        BY <2>1 DEF Line
      <3>2. Len(p) \in Nat
        OBVIOUS
      <3> QED BY <1>2, <1>4, <1>5, <2>1, <3>1, <3>2
    <2> QED BY <2>1
  <1>11. Ordered(p)
    BY DEF Line
  <1>12. Line(e + 1, a, p, g, d \/ w)
    BY <1>6, <1>7, <1>8, <1>9, <1>10, <1>11 DEF Line
  <1> QED BY <1>12 DEF a, k, x

(* a sample leaves the ring, and is heard while the graph stands *)
LEMMA LinePop ==
  ASSUME NEW S, NEW e \in Nat, NEW h \in Seq(S), NEW p \in Seq(S), NEW g \in BOOLEAN,
         NEW d \in BOOLEAN, Line(e, h, p, g, d), h # <<>>
  PROVE  Line(e, Tail(h), IF g THEN Append(p, Head(h)) ELSE p, g, d)
  <1> DEFINE k == Tail(h)
  <1>1. /\ k \in Seq(S) /\ Len(k) = Len(h) - 1 /\ Len(h) \in Nat /\ Len(p) \in Nat
        /\ DOMAIN k = 1..(Len(h) - 1) /\ DOMAIN h = 1..Len(h)
        /\ \A i \in DOMAIN k : k[i] = h[i + 1] /\ i + 1 \in DOMAIN h /\ 1 < i + 1
        /\ Head(h) = h[1] /\ 1 \in DOMAIN h /\ Head(h) \in S
    OBVIOUS
  <1> HIDE DEF k
  <1>2. /\ \A i \in DOMAIN h : OfClip(h[i], e)
        /\ \A i \in DOMAIN p : OfClip(p[i], e)
        /\ Ordered(h) /\ Ordered(p)
    BY DEF Line
  <1>3. \A i \in DOMAIN k : OfClip(k[i], e)
    BY <1>1, <1>2
  <1>4. Ordered(k)
    <2>1. \A i, j \in DOMAIN k : i < j => i + 1 < j + 1
      BY <1>1
    <2> QED BY <1>1, <1>2, <2>1 DEF Ordered
  <1>5. CASE g
    <2> DEFINE a == Append(p, Head(h))
    <2>1. /\ DOMAIN a = 1..(Len(p) + 1) /\ Len(a) = Len(p) + 1 /\ DOMAIN p = 1..Len(p)
          /\ \A i \in DOMAIN p : a[i] = p[i]
          /\ a[Len(p) + 1] = h[1]
          /\ \A i \in DOMAIN a : i \in DOMAIN p \/ i = Len(p) + 1
      BY <1>1
    <2> HIDE DEF a
    <2>2. \A i \in DOMAIN a : OfClip(a[i], e)
      BY <1>1, <1>2, <2>1
    <2>3. \A i \in DOMAIN p, j \in DOMAIN h : p[i][1] < h[j][1]
      BY <1>5 DEF Line
    <2>4. Ordered(a)
      <3>1. ASSUME NEW i \in DOMAIN a, NEW j \in DOMAIN a, i < j
            PROVE  a[i][1] < a[j][1]
        <4>1. i \in DOMAIN p
          BY <1>1, <2>1, <3>1
        <4>2. CASE j \in DOMAIN p
          BY <1>2, <2>1, <3>1, <4>1, <4>2 DEF Ordered
        <4>3. CASE j = Len(p) + 1
          BY <1>1, <2>1, <2>3, <4>1, <4>3
        <4> QED BY <2>1, <4>2, <4>3
      <3> QED BY <3>1 DEF Ordered
    <2>5. ASSUME NEW i \in DOMAIN a, NEW j \in DOMAIN k
          PROVE  a[i][1] < k[j][1]
      <3>1. CASE i \in DOMAIN p
        BY <1>1, <2>1, <2>3, <3>1
      <3>2. CASE i = Len(p) + 1
        <4>1. h[1][1] < h[j + 1][1]
          BY <1>1, <1>2 DEF Ordered
        <4> QED BY <1>1, <2>1, <3>2, <4>1
      <3> QED BY <2>1, <3>1, <3>2
    <2>6. ~ d => e = Len(a) + Len(k)
      <3>1. ASSUME ~ d PROVE e = Len(a) + Len(k)
        <4>1. e = Len(p) + Len(h)
          BY <1>5, <3>1 DEF Line
        <4> QED BY <1>1, <2>1, <4>1
      <3> QED BY <3>1
    <2>7. Line(e, k, a, g, d)
      BY <1>3, <1>4, <2>2, <2>4, <2>5, <2>6 DEF Line
    <2> QED BY <1>5, <2>7 DEF a, k
  <1>6. CASE ~ g
    <2>1. Line(e, k, p, g, d)
      BY <1>2, <1>3, <1>4, <1>6 DEF Line
    <2> QED BY <1>6, <2>1 DEF k
  <1> QED BY <1>5, <1>6

(* the graph is torn down, and the ring emptied *)
LEMMA LineDown ==
  ASSUME NEW e, NEW h, NEW p, NEW g, NEW d, Line(e, h, p, g, d)
  PROVE  Line(e, h, p, FALSE, d) /\ Line(e, <<>>, p, FALSE, d)
  BY DEF Line, Ordered
-----------------------------------------------------------------------------
(* Aligning a chunk: with the byte left over, the first bytes of a chunk   *)
(* make the samples that follow those already posted, and at most one byte *)
(* is left over again (alignSamples).                                      *)

Combined(n) == carry \o [i \in 1..n |-> got + i]

LEMMA Halves ==
  ASSUME NEW a \in Nat, NEW b \in Nat, a <= b
  PROVE  /\ a \div 2 \in Nat /\ b \div 2 \in Nat /\ a \div 2 <= b \div 2
         /\ a = 2 * (a \div 2) + (a % 2) /\ a % 2 \in {0, 1}
         /\ b = 2 * (b \div 2) + (b % 2) /\ b % 2 \in {0, 1}
         /\ (b - 2 * (a \div 2)) \div 2 = b \div 2 - a \div 2
         /\ (b - 2 * (a \div 2)) % 2 = b % 2
  OBVIOUS

LEMMA CombinedBytes ==
  ASSUME StreamTyped, NEW n \in Nat, NEW h \in Nat, h = got \div 2, NEW t \in Nat, t = got + n
  PROVE  /\ Combined(n) \in Seq(Nat)
         /\ Len(Combined(n)) = t - 2 * h
         /\ \A j \in 1..(t - 2 * h) : Combined(n)[j] = 2 * h + j
  <1> DEFINE f == [i \in 1..n |-> got + i]
  <1>1. got \in Nat
    BY StreamAssumption DEF StreamTyped
  <1>9. PICK r \in {0, 1} : r = got % 2 /\ got = 2 * h + r
    BY <1>1, Halves
  <1>2. f \in [1..n -> Nat]
    BY <1>1
  <1>3. f \in Seq(Nat) /\ Len(f) = n /\ \A i \in 1..n : f[i] = got + i
    BY <1>1, <1>2, FunctionIsSeq
  <1> HIDE DEF f
  <1>4. CASE r = 1
    <2>1. carry = <<got>>
      BY <1>9, <1>4 DEF StreamTyped
    <2>2. /\ <<got>> \o f \in Seq(Nat) /\ Len(<<got>> \o f) = n + 1
          /\ (<<got>> \o f)[1] = got
          /\ \A i \in 1..n : (<<got>> \o f)[i + 1] = f[i]
      BY <1>1, <1>3
    <2> DEFINE g == <<got>> \o f
    <2>3. g \in Seq(Nat) /\ Len(g) = n + 1 /\ g[1] = got /\ \A i \in 1..n : g[i + 1] = f[i]
      BY <2>2
    <2> HIDE DEF g
    <2>4. ASSUME NEW j \in 1..(n + 1) PROVE g[j] = got - 1 + j
      <3>1. CASE j = 1
        BY <1>1, <2>3, <3>1
      <3>2. CASE j # 1
        <4>1. j - 1 \in 1..n /\ (j - 1) + 1 = j
          BY <3>2
        <4>2. g[(j - 1) + 1] = f[j - 1] /\ f[j - 1] = got + (j - 1)
          BY <1>3, <2>3, <4>1
        <4> QED BY <1>1, <4>1, <4>2
      <3> QED BY <3>1, <3>2
    <2>5. Combined(n) = g
      BY <2>1 DEF Combined, f, g
    <2>6. t - 2 * h = n + 1 /\ got - 1 = 2 * h
      BY <1>9, <1>1, <1>4
    <2> QED BY <2>3, <2>4, <2>5, <2>6
  <1>5. CASE r = 0
    <2>1. carry = <<>>
      BY <1>9, <1>5 DEF StreamTyped
    <2>2. Combined(n) = f
      BY <1>3, <2>1 DEF Combined, f
    <2>3. t - 2 * h = n /\ got = 2 * h
      BY <1>9, <1>1, <1>5
    <2> QED BY <1>3, <2>2, <2>3
  <1> QED BY <1>4, <1>5

LEMMA SubSeqOne ==
  ASSUME NEW S, NEW s \in Seq(S), NEW x \in 1..Len(s)
  PROVE  SubSeq(s, x, x) = <<s[x]>>
  <1>1. PICK q : q = SubSeq(s, x, x)
    OBVIOUS
  <1>2. \A i \in x..x : s[i] \in S
    OBVIOUS
  <1>3. q \in Seq(S) /\ Len(q) = (IF x <= x THEN x - x + 1 ELSE 0)
        /\ \A i \in 1..(x - x + 1) : q[i] = s[x + i - 1]
    BY <1>1, <1>2, SubSeqProperties
  <1>4. Len(q) = 1 /\ 1 \in 1..(x - x + 1) /\ x + 1 - 1 = x
    BY <1>3
  <1>5. q[1] = s[x]
    BY <1>3, <1>4
  <1>6. q = <<q[1]>>
    BY <1>3, <1>4
  <1> QED BY <1>1, <1>5, <1>6

LEMMA Aligned ==
  ASSUME StreamTyped, NEW n \in Nat, got + n <= Bytes
  PROVE  /\ Segment(Whole(Combined(n)), got \div 2, (got + n) \div 2)
         /\ Whole(Combined(n)) \in Seq(Samples)
         /\ LeftOver(Combined(n)) = IF (got + n) % 2 = 1 THEN <<got + n>> ELSE <<>>
  <1>1. got \in Nat /\ got + n \in Nat /\ got <= got + n /\ Bytes \in Nat
    BY StreamAssumption DEF StreamTyped
  <1>2. PICK t \in Nat : t = got + n
    BY <1>1
  <1>3. PICK h \in Nat, u \in Nat, r \in {0, 1} : h = got \div 2 /\ u = t \div 2 /\ r = t % 2
    BY <1>1, <1>2, Halves
  <1>4. h <= u /\ 2 * h <= t /\ t = 2 * u + r /\ t <= Bytes
        /\ (t - 2 * h) \div 2 = u - h /\ (t - 2 * h) % 2 = r
    BY <1>1, <1>2, <1>3, Halves
  <1>5. PICK b : b = Combined(n)
    OBVIOUS
  <1>6. b \in Seq(Nat) /\ Len(b) = t - 2 * h /\ \A j \in 1..(t - 2 * h) : b[j] = 2 * h + j
    <2>0. h = got \div 2
      BY <1>3
    <2>1. /\ Combined(n) \in Seq(Nat)
          /\ Len(Combined(n)) = t - 2 * h
          /\ \A j \in 1..(t - 2 * h) : Combined(n)[j] = 2 * h + j
      BY <1>2, <2>0, CombinedBytes
    <2> QED BY <1>5, <2>1, Zenon
  <1>7. ASSUME NEW k \in 1..(u - h)
        PROVE  /\ <<b[2 * k - 1], b[2 * k]>> = Clip(h + k)
               /\ Clip(h + k) \in Samples
    <2>1. 2 * k - 1 \in 1..(t - 2 * h) /\ 2 * k \in 1..(t - 2 * h)
      BY <1>4
    <2>2. b[2 * k - 1] = 2 * h + (2 * k - 1) /\ b[2 * k] = 2 * h + 2 * k
      BY <1>6, <2>1
    <2>3. 2 * h + (2 * k - 1) = 2 * (h + k) - 1 /\ 2 * h + 2 * k = 2 * (h + k)
      OBVIOUS
    <2>4. 2 * (h + k) - 1 \in 1..Bytes /\ 2 * (h + k) \in 1..Bytes
      BY <1>1, <1>4
    <2> QED BY <2>2, <2>3, <2>4, StreamAssumption DEF Clip
  <1>8. Whole(b) = [k \in 1..(u - h) |-> <<b[2 * k - 1], b[2 * k]>>]
    BY <1>4, <1>6 DEF Whole
  <1>9. Whole(b) = [k \in 1..(u - h) |-> Clip(h + k)]
    BY <1>7, <1>8
  <1>10. Whole(b) \in Seq(Samples)
    <2>1. u - h \in Nat
      BY <1>4
    <2>2. Whole(b) \in [1..(u - h) -> Samples]
      BY <1>7, <1>9
    <2> QED BY <2>1, <2>2, FunctionIsSeq
  <1>11. LeftOver(b) = IF r = 1 THEN <<t>> ELSE <<>>
    <2>1. PICK x \in Nat : x = t - 2 * h
      BY <1>4
    <2>2. LeftOver(b) = SubSeq(b, x - r + 1, x) /\ Len(b) = x
      BY <1>4, <1>6, <2>1 DEF LeftOver
    <2>3. CASE r = 1
      <3>1. x \in 1..Len(b) /\ x - r + 1 = x
        BY <1>4, <2>1, <2>2, <2>3
      <3>2. b[x] = t
        <4>1. b[x] = 2 * h + x
          BY <1>6, <2>1, <2>2, <3>1
        <4> QED BY <2>1, <4>1
      <3> QED BY <1>6, <2>2, <2>3, <3>1, <3>2, SubSeqOne
    <2>4. CASE r = 0
      <3>1. x - r + 1 = x + 1
        BY <2>4
      <3>2. SubSeq(b, x + 1, x) = <<>>
        BY <1>6, <2>2
      <3> QED BY <2>2, <2>4, <3>1, <3>2
    <2> QED BY <2>3, <2>4
  <1>12. Segment(Whole(b), h, u)
    BY <1>4, <1>9 DEF Segment
  <1> QED BY <1>2, <1>3, <1>5, <1>10, <1>11, <1>12
-----------------------------------------------------------------------------
(* Every step of the stream keeps the invariant.  A step of the main       *)
(* thread leaves the worklet alone.                                        *)

LEMMA RingStays ==
  ASSUME RingInv, UNCHANGED ringVars
  PROVE  RingInv' /\ Held' = Held /\ copying' = copying
  <1>1. RingInv'
    BY InvNext
  <1>2. UNCHANGED buffer /\ copying' = copying
    BY DEF ringVars, buffer
  <1> QED BY <1>1, <1>2, SameHeld

LEMMA PortTyped ==
  ASSUME StreamTyped
  PROVE  /\ got \in Nat /\ got \div 2 \in Nat /\ port \in Seq(Message)
         /\ DOMAIN port = 1..Len(port) /\ Len(port) \in Nat
         /\ graph \in BOOLEAN /\ dropped \in BOOLEAN
  <1>1. got \in Nat /\ port \in Seq(Message) /\ graph \in BOOLEAN /\ dropped \in BOOLEAN
    BY StreamAssumption DEF StreamTyped
  <1>2. got \div 2 \in Nat
    BY <1>1, Halves
  <1> QED BY <1>1, <1>2

LEMMA ReadChunkStep ==
  ASSUME StreamInv, NEW n \in 1..MaxChunk, ReadChunk(n)
  PROVE  StreamInv'
  <1>1. RingInv' /\ Held' = Held /\ copying' = copying
    BY RingStays DEF StreamInv, ReadChunk
  <1>2. /\ got' = got + n /\ got + n <= Bytes /\ body = "reading"
        /\ carry' = LeftOver(Combined(n))
        /\ \/ Whole(Combined(n)) = <<>> /\ port' = port
           \/ port' = Append(port, [type |-> "samples", samples |-> Whole(Combined(n))])
        /\ UNCHANGED <<body, graph, played, dropped>>
    BY DEF ReadChunk, Combined, Post
  <1>3. StreamTyped /\ n \in Nat /\ got \in Nat /\ got + n \in 0..Bytes
    BY <1>2, StreamAssumption DEF StreamInv, StreamTyped
  <1>4. /\ Segment(Whole(Combined(n)), got \div 2, (got + n) \div 2)
        /\ Whole(Combined(n)) \in Seq(Samples)
        /\ LeftOver(Combined(n)) = IF (got + n) % 2 = 1 THEN <<got + n>> ELSE <<>>
    BY <1>2, <1>3, Aligned
  <1> DEFINE msg == [type |-> "samples", samples |-> Whole(Combined(n))]
  <1>5. msg \in Message /\ msg.type = "samples" /\ msg.samples = Whole(Combined(n))
    BY <1>4 DEF Message
  <1> HIDE DEF msg
  <1>6. \/ Whole(Combined(n)) = <<>> /\ port' = port
        \/ port' = Append(port, msg)
    BY <1>2 DEF msg
  <1>7. StreamTyped'
    <2>1. port' \in Seq(Message)
      BY <1>3, <1>5, <1>6, PortTyped
    <2>2. carry' = IF got' % 2 = 1 THEN <<got'>> ELSE <<>>
      BY <1>2, <1>4
    <2> QED BY <1>2, <1>3, <2>1, <2>2 DEF StreamTyped
  <1>8. got \div 2 \in Nat /\ got' \div 2 \in Nat /\ got' \div 2 = (got + n) \div 2
    <2>1. got + n \in Nat /\ got <= got + n
      BY <1>3
    <2> QED BY <1>2, <1>3, <2>1, Halves
  <1>9. InLine'
    <2>1. PICK e \in Nat : Chained(e, copying, port, got \div 2) /\ Line(e, Held, played, graph, dropped)
      BY DEF StreamInv, InLine
    <2>2. Chained(e, copying, port', got' \div 2)
      <3>1. CASE Whole(Combined(n)) = <<>> /\ port' = port
        <4>1. got \div 2 = got' \div 2
          BY <1>4, <1>8, <3>1, SegmentEmpty
        <4> QED BY <2>1, <3>1, <4>1
      <3>2. CASE port' = Append(port, msg)
        <4>1. Segment(msg.samples, got \div 2, got' \div 2)
          BY <1>4, <1>5, <1>8
        <4>2. Chained(e, copying, Append(port, msg), got' \div 2)
          BY <1>3, <1>5, <1>8, <2>1, <4>1, PortTyped, ChainPost
        <4> QED BY <3>2, <4>2
      <3> QED BY <1>6, <3>1, <3>2
    <2>3. Line(e, Held', played', graph', dropped')
      BY <1>1, <1>2, <2>1
    <2>4. Chained(e, copying', port', got' \div 2)
      BY <1>1, <2>2
    <2> QED BY <2>3, <2>4 DEF InLine
  <1>10. UNCHANGED <<job, ended, alive, available>>
    BY DEF ReadChunk, ringVars
  <1>11. LastWord'
    <2>1. LastWord
      BY DEF StreamInv
    <2>2. ASSUME NEW i \in 1..Len(port')
          PROVE  \/ i \in 1..Len(port) /\ port'[i] = port[i]
                 \/ port'[i] = msg
      <3>1. port \in Seq(Message) /\ Len(port) \in Nat
        BY <1>3, PortTyped
      <3>2. CASE port' = Append(port, msg)
        <4>1. /\ Len(port') = Len(port) + 1 /\ port'[Len(port) + 1] = msg
              /\ \A j \in 1..Len(port) : port'[j] = port[j]
          BY <1>5, <3>1, <3>2
        <4>2. i \in 1..Len(port) \/ i = Len(port) + 1
          BY <3>1, <4>1
        <4> QED BY <4>1, <4>2
      <3> QED BY <1>6, <3>2
    <2>3. \A i \in 1..Len(port') : port'[i].type # "samples" => port'[i].samples = <<>>
      BY <1>5, <2>1, <2>2 DEF LastWord
    <2>4. graph' => \A i \in 1..Len(port') : port'[i].type # "reset" /\ port'[i].type # "end"
      BY <1>2, <1>5, <2>1, <2>2 DEF LastWord
    <2>5. graph' /\ ended' => FALSE
      BY <1>2, <1>10, <2>1 DEF LastWord
    <2> QED BY <1>1, <1>2, <1>10, <2>1, <2>3, <2>4, <2>5 DEF LastWord
  <1> QED BY <1>1, <1>7, <1>9, <1>11 DEF StreamInv

(* a message without samples is posted: the end, or a reset *)
LEMMA LastPosted ==
  ASSUME StreamTyped, NEW type \in {"end", "reset"}, Post(type, <<>>)
  PROVE  /\ port' \in Seq(Message) /\ Len(port') = Len(port) + 1
         /\ \A i \in 1..Len(port) : port'[i] = port[i]
         /\ port'[Len(port) + 1].type = type /\ port'[Len(port) + 1].samples = <<>>
         /\ \A e \in Nat : \A c : Chained(e, c, port, got \div 2) => Chained(e, c, port', got \div 2)
  <1> DEFINE msg == [type |-> type, samples |-> <<>>]
  <1>1. msg \in Message /\ msg.type = type /\ msg.samples = <<>>
    <2>1. <<>> \in Seq(Samples)
      OBVIOUS
    <2> QED BY <2>1 DEF Message
  <1>2. port' = Append(port, msg)
    BY DEF Post
  <1> HIDE DEF msg
  <1>3. /\ port' \in Seq(Message) /\ Len(port') = Len(port) + 1
        /\ \A i \in 1..Len(port) : port'[i] = port[i]
        /\ port'[Len(port) + 1] = msg
    BY <1>1, <1>2, PortTyped
  <1>4. ASSUME NEW e \in Nat, NEW c, Chained(e, c, port, got \div 2)
        PROVE  Chained(e, c, port', got \div 2)
    <2>1. Segment(msg.samples, got \div 2, got \div 2)
      BY <1>1, PortTyped, SegmentEmpty
    <2>2. Chained(e, c, Append(port, msg), got \div 2)
      BY <1>1, <1>4, <2>1, PortTyped, ChainPost
    <2> QED BY <1>2, <2>2
  <1> QED BY <1>1, <1>3, <1>4

LEMMA ReadOverStep ==
  ASSUME StreamInv, NEW how \in {"whole", "broken"}, ReadOver(how)
  PROVE  StreamInv'
  <1>1. RingInv' /\ Held' = Held /\ copying' = copying
    BY RingStays DEF StreamInv, ReadOver
  <1>2. /\ body = "reading" /\ body' = how /\ Post("end", <<>>)
        /\ UNCHANGED <<got, carry, graph, played, dropped>>
        /\ UNCHANGED <<job, ended, alive, available>>
    BY DEF ReadOver, ringVars
  <1>3. StreamTyped
    BY DEF StreamInv
  <1>4. /\ port' \in Seq(Message) /\ Len(port') = Len(port) + 1 /\ Len(port) \in Nat
        /\ \A i \in 1..Len(port) : port'[i] = port[i]
        /\ port'[Len(port) + 1].type = "end" /\ port'[Len(port) + 1].samples = <<>>
        /\ \A e \in Nat : \A c : Chained(e, c, port, got \div 2) => Chained(e, c, port', got \div 2)
    BY <1>2, <1>3, LastPosted, PortTyped
  <1>5. StreamTyped'
    BY <1>2, <1>3, <1>4 DEF StreamTyped
  <1>6. InLine'
    <2>1. PICK e \in Nat : Chained(e, copying, port, got \div 2) /\ Line(e, Held, played, graph, dropped)
      BY DEF StreamInv, InLine
    <2>2. Chained(e, copying', port', got' \div 2) /\ Line(e, Held', played', graph', dropped')
      BY <1>1, <1>2, <1>4, <2>1
    <2> QED BY <2>2 DEF InLine
  <1>7. LastWord'
    <2>1. LastWord
      BY DEF StreamInv
    <2>2. \A i \in 1..Len(port') : i \in 1..Len(port) \/ i = Len(port) + 1
      BY <1>4
    <2>3. \A i \in 1..Len(port') : port'[i].type # "samples" => port'[i].samples = <<>>
      BY <1>4, <2>1, <2>2 DEF LastWord
    <2>4. graph' => \A i \in 1..Len(port') :
            port'[i].type # "reset" /\ (port'[i].type = "end" => i = Len(port'))
      BY <1>2, <1>4, <2>1, <2>2 DEF LastWord
    <2>5. graph' /\ ended' => FALSE
      BY <1>2, <2>1 DEF LastWord
    <2> QED BY <1>1, <1>2, <2>1, <2>3, <2>4, <2>5 DEF LastWord
  <1> QED BY <1>1, <1>5, <1>6, <1>7 DEF StreamInv

LEMMA StopStep ==
  ASSUME StreamInv, Stop
  PROVE  StreamInv'
  <1>1. RingInv' /\ Held' = Held /\ copying' = copying
    BY RingStays DEF StreamInv, Stop
  <1>2. /\ Post("reset", <<>>) /\ graph' = FALSE
        /\ UNCHANGED <<got, carry, body, played, dropped>>
        /\ UNCHANGED <<job, ended, alive, available>>
    BY DEF Stop, ringVars
  <1>3. StreamTyped
    BY DEF StreamInv
  <1>4. /\ port' \in Seq(Message) /\ Len(port') = Len(port) + 1 /\ Len(port) \in Nat
        /\ \A i \in 1..Len(port) : port'[i] = port[i]
        /\ port'[Len(port) + 1].samples = <<>>
        /\ \A e \in Nat : \A c : Chained(e, c, port, got \div 2) => Chained(e, c, port', got \div 2)
    BY <1>2, <1>3, LastPosted, PortTyped
  <1>5. StreamTyped'
    BY <1>2, <1>3, <1>4 DEF StreamTyped
  <1>6. InLine'
    <2>1. PICK e \in Nat : Chained(e, copying, port, got \div 2) /\ Line(e, Held, played, graph, dropped)
      BY DEF StreamInv, InLine
    <2>2. Chained(e, copying', port', got' \div 2) /\ Line(e, Held', played', graph', dropped')
      BY <1>1, <1>2, <1>4, <2>1, LineDown
    <2> QED BY <2>2 DEF InLine
  <1>7. LastWord'
    <2>1. LastWord
      BY DEF StreamInv
    <2>2. \A i \in 1..Len(port') : i \in 1..Len(port) \/ i = Len(port) + 1
      BY <1>4
    <2>3. \A i \in 1..Len(port') : port'[i].type # "samples" => port'[i].samples = <<>>
      BY <1>4, <2>1, <2>2 DEF LastWord
    <2> QED BY <1>1, <1>2, <2>1, <2>3 DEF LastWord
  <1> QED BY <1>1, <1>5, <1>6, <1>7 DEF StreamInv

(* the first message of the port *)
LEMMA HeadOfPort ==
  ASSUME StreamTyped, port # <<>>
  PROVE  /\ Head(port) = port[1] /\ 1 \in 1..Len(port)
         /\ Head(port).samples \in Seq(Samples)
         /\ Tail(port) \in Seq(Message) /\ Len(Tail(port)) = Len(port) - 1
         /\ \A i \in 1..Len(Tail(port)) : Tail(port)[i] = port[i + 1] /\ i + 1 \in 1..Len(port)
  <1>1. port \in Seq(Message) /\ Len(port) \in Nat
    BY PortTyped
  <1>2. /\ Head(port) = port[1] /\ 1 \in 1..Len(port) /\ Head(port) \in Message
        /\ Tail(port) \in Seq(Message) /\ Len(Tail(port)) = Len(port) - 1
        /\ \A i \in 1..Len(Tail(port)) : Tail(port)[i] = port[i + 1] /\ i + 1 \in 1..Len(port)
    BY <1>1
  <1>3. Head(port).samples \in Seq(Samples)
    BY <1>2 DEF Message
  <1> QED BY <1>2, <1>3

(* the last word, read at the two ends of the port *)
LEMMA WordAtEnds ==
  ASSUME LastWord, port \in Seq(Message), port # <<>>
  PROVE  /\ Head(port).type # "samples" => Head(port).samples = <<>>
         /\ graph => Head(port).type # "reset"
         /\ graph /\ Head(port).type = "end" => Len(port) = 1 /\ body # "reading"
         /\ \A i \in 1..Len(Tail(port)) :
              /\ Tail(port)[i].type # "samples" => Tail(port)[i].samples = <<>>
              /\ graph => /\ Tail(port)[i].type # "reset"
                          /\ Tail(port)[i].type = "end" => i = Len(Tail(port)) /\ body # "reading"
  <1>1. /\ Head(port) = port[1] /\ 1 \in 1..Len(port) /\ Len(port) \in Nat
        /\ Len(Tail(port)) = Len(port) - 1
        /\ \A i \in 1..Len(Tail(port)) : Tail(port)[i] = port[i + 1] /\ i + 1 \in 1..Len(port)
    OBVIOUS
  <1>2. \A i \in 1..Len(port) : port[i].type # "samples" => port[i].samples = <<>>
    BY DEF LastWord
  <1>3. graph => \A i \in 1..Len(port) :
          /\ port[i].type # "reset"
          /\ port[i].type = "end" => i = Len(port) /\ body # "reading"
    BY DEF LastWord
  <1>4. /\ port[1].type # "samples" => port[1].samples = <<>>
        /\ graph => port[1].type # "reset"
        /\ graph /\ port[1].type = "end" => Len(port) = 1 /\ body # "reading"
    <2> HIDE DEF LastWord
    <2> QED BY <1>1, <1>2, <1>3, Zenon
  <1>5. ASSUME NEW i \in 1..Len(Tail(port))
        PROVE  /\ Tail(port)[i].type # "samples" => Tail(port)[i].samples = <<>>
               /\ graph => /\ Tail(port)[i].type # "reset"
                           /\ Tail(port)[i].type = "end" => i = Len(Tail(port)) /\ body # "reading"
    <2>1. Tail(port)[i] = port[i + 1] /\ i + 1 \in 1..Len(port)
      BY <1>1
    <2>2. PICK k \in 1..Len(port) : k = i + 1
      BY <2>1
    <2>3. k = Len(port) => i = Len(Tail(port))
      <3>1. PICK n, t : n = Len(port) /\ t = Len(Tail(port))
        OBVIOUS
      <3>2. n \in Nat /\ t = n - 1
        BY <1>1, <3>1
      <3>3. i \in 1..t /\ k = i + 1
        BY <2>2, <3>1
      <3>4. k = n => i = t
        BY <3>2, <3>3
      <3> QED BY <3>1, <3>4
    <2>4. /\ port[k].type # "samples" => port[k].samples = <<>>
          /\ graph => /\ port[k].type # "reset"
                      /\ port[k].type = "end" => k = Len(port) /\ body # "reading"
      BY <1>2, <1>3, Zenon
    <2>5. Tail(port)[i] = port[k]
      BY <2>1, <2>2
    <2> QED BY <2>3, <2>4, <2>5, Zenon
  <1>6. \A i \in 1..Len(Tail(port)) :
              /\ Tail(port)[i].type # "samples" => Tail(port)[i].samples = <<>>
              /\ graph => /\ Tail(port)[i].type # "reset"
                          /\ Tail(port)[i].type = "end" => i = Len(Tail(port)) /\ body # "reading"
    BY <1>5
  <1>7. /\ Head(port).type # "samples" => Head(port).samples = <<>>
        /\ graph => Head(port).type # "reset"
        /\ graph /\ Head(port).type = "end" => Len(port) = 1 /\ body # "reading"
    BY <1>1, <1>4, Zenon
  <1> QED BY <1>6, <1>7, Zenon

LEMMA DeliverStep ==
  ASSUME StreamInv, Deliver
  PROVE  StreamInv'
  <1>1. /\ port # <<>> /\ port' = Tail(port)
        /\ UNCHANGED <<got, carry, body, graph, played, dropped>>
    BY DEF Deliver
  <1>2. StreamTyped /\ LastWord /\ RingInv
    BY DEF StreamInv
  <1>3. /\ Head(port) = port[1] /\ 1 \in 1..Len(port)
        /\ Head(port).samples \in Seq(Samples)
        /\ Tail(port) \in Seq(Message) /\ Len(Tail(port)) = Len(port) - 1
        /\ \A i \in 1..Len(Tail(port)) : Tail(port)[i] = port[i + 1] /\ i + 1 \in 1..Len(port)
    BY <1>1, <1>2, HeadOfPort
  <1>w. /\ Head(port).type # "samples" => Head(port).samples = <<>>
        /\ graph => Head(port).type # "reset"
        /\ graph /\ Head(port).type = "end" => Len(port) = 1 /\ body # "reading"
        /\ \A i \in 1..Len(Tail(port)) :
              /\ Tail(port)[i].type # "samples" => Tail(port)[i].samples = <<>>
              /\ graph => /\ Tail(port)[i].type # "reset"
                          /\ Tail(port)[i].type = "end" => i = Len(Tail(port)) /\ body # "reading"
    BY <1>1, <1>2, WordAtEnds DEF StreamTyped
  <1>4. StreamTyped'
    BY <1>1, <1>2, <1>3 DEF StreamTyped
  <1>5. \/ Head(port).type = "samples" /\ ReceiveSamples(Head(port).samples)
        \/ Head(port).type = "end" /\ ReceiveEnd
        \/ Head(port).type = "reset" /\ ReceiveReset
    BY DEF Deliver
  <1>6. RingInv'
    BY <1>2, <1>3, <1>5, InvNext DEF RingStep
  <1>7. /\ job = "idle" /\ copying = <<>>
        /\ copying' = Head(port).samples
        /\ job' = "enqueue" \/ copying' = <<>>
        /\ UNCHANGED alive
    <2>1. job = "idle" /\ copying = <<>>
      BY <1>2, <1>5 DEF LastWord, ReceiveSamples, ReceiveEnd, ReceiveReset
    <2>2. CASE Head(port).type = "samples"
      BY <1>5, <2>1, <2>2 DEF ReceiveSamples, flags
    <2>3. CASE Head(port).type # "samples"
      <3>1. Head(port).samples = <<>>
        BY <1>w, <2>3
      <3>2. copying' = copying /\ alive' = alive
        BY <1>5, <2>3 DEF ReceiveEnd, ReceiveReset, loop
      <3> QED BY <2>1, <3>1, <3>2
    <2> QED BY <2>1, <2>2, <2>3
  <1>8. InLine'
    <2>1. PICK e \in Nat : Chained(e, copying, port, got \div 2) /\ Line(e, Held, played, graph, dropped)
      BY DEF StreamInv, InLine
    <2>2. Chained(e, copying', port', got' \div 2)
      <3>1. Chained(e, Head(port).samples, Tail(port), got \div 2)
        <4>1. Chained(e, <<>>, port, got \div 2)
          BY <1>7, <2>1
        <4> QED BY <1>1, <1>2, <4>1, PortTyped, ChainDeliver
      <3> QED BY <1>1, <1>7, <3>1
    <2>3. Line(e, Held', played', graph', dropped')
      <3>1. CASE Head(port).type # "reset"
        <4>1. UNCHANGED buffer
          BY <1>5, <3>1 DEF ReceiveSamples, ReceiveEnd
        <4> QED BY <1>1, <1>2, <2>1, <4>1, SameHeld
      <3>2. CASE Head(port).type = "reset"
        <4>1. graph = FALSE
          BY <1>2, <1>w, <3>2 DEF StreamTyped
        <4>2. Held' = <<>>
          BY <1>5, <3>2 DEF ReceiveReset, Held
        <4> QED BY <1>1, <2>1, <4>1, <4>2, LineDown
      <3> QED BY <3>1, <3>2
    <2> QED BY <2>2, <2>3 DEF InLine
  <1>9. LastWord'
    <2>1. job' # "enqueue" => copying' = <<>>
      BY <1>7
    <2>2. \A i \in 1..Len(port') : port'[i].type # "samples" => port'[i].samples = <<>>
      BY <1>1, <1>w, Zenon
    <2>3. graph => \A i \in 1..Len(port') :
            /\ port'[i].type # "reset"
            /\ port'[i].type = "end" => i = Len(port') /\ body # "reading"
      <3>1. graph => \A i \in 1..Len(Tail(port)) :
              /\ Tail(port)[i].type # "reset"
              /\ Tail(port)[i].type = "end" => i = Len(Tail(port)) /\ body # "reading"
        BY <1>w, Zenon
      <3> QED BY <1>1, <3>1
    <2>4. graph => /\ ended' => port' = <<>> /\ copying' = <<>> /\ body # "reading"
                   /\ UNCHANGED available /\ (ended => ended')
      <3>1. ASSUME graph, Head(port).type = "samples"
            PROVE  ~ ended' /\ ~ ended /\ UNCHANGED available
        BY <1>1, <1>2, <1>5, <3>1 DEF LastWord, ReceiveSamples, flags, buffer
      <3>2. ASSUME graph, Head(port).type = "end"
            PROVE  /\ port' = <<>> /\ copying' = <<>> /\ body # "reading"
                   /\ UNCHANGED available /\ ended'
        <4>1. Len(port) = 1 /\ body # "reading"
          BY <1>w, <3>2
        <4>2. port' = <<>>
          BY <1>1, <1>3, <4>1
        <4>3. copying' = <<>>
          BY <1>7, <1>w, <3>2
        <4> QED BY <1>5, <3>2, <4>1, <4>2, <4>3 DEF ReceiveEnd, buffer
      <3>3. graph => Head(port).type # "reset"
        BY <1>w
      <3> QED BY <1>5, <3>1, <3>2, <3>3
    <2>5. graph' /\ ~ alive' => ended' /\ available' = 0
      BY <1>1, <1>2, <1>7, <2>4 DEF LastWord
    <2> QED BY <1>1, <2>1, <2>2, <2>3, <2>4, <2>5 DEF LastWord
  <1> QED BY <1>4, <1>6, <1>8, <1>9 DEF StreamInv

LEMMA RenderStep ==
  ASSUME StreamInv, Render
  PROVE  StreamInv'
  <1>1. ProcessBegins /\ UNCHANGED <<got, carry, body, port, graph, played, dropped>>
    BY DEF Render, main
  <1>2. RingInv /\ RingInv'
    BY <1>1, InvNext DEF StreamInv, RingStep
  <1>3. /\ job' = "quantum" /\ UNCHANGED <<copying, ended, alive, available>> /\ UNCHANGED buffer
        /\ job = "idle"
    BY <1>1 DEF ProcessBegins, buffer, flags
  <1>4. Held' = Held
    BY <1>2, <1>3, SameHeld
  <1>5. StreamTyped'
    BY <1>1 DEF StreamInv, StreamTyped
  <1>6. InLine'
    BY <1>1, <1>3, <1>4 DEF StreamInv, InLine
  <1>7. LastWord'
    BY <1>1, <1>3 DEF StreamInv, LastWord
  <1> QED BY <1>2, <1>5, <1>6, <1>7 DEF StreamInv

LEMMA WorkStep ==
  ASSUME StreamInv, Work
  PROVE  StreamInv'
  <1>1. /\ WorkletStep /\ UNCHANGED <<got, carry, body, port, graph>>
        /\ played' = IF FillFrame /\ available > 0 /\ graph THEN Append(played, heard') ELSE played
        /\ dropped' = (dropped \/ (EnqueueNext /\ available = Capacity))
    BY DEF Work, main
  <1>2. RingInv /\ RingInv' /\ StreamTyped /\ LastWord
    BY <1>1, InvNext DEF StreamInv, RingStep
  <1>3. PICK e \in Nat : Chained(e, copying, port, got \div 2) /\ Line(e, Held, played, graph, dropped)
    BY DEF StreamInv, InLine
  <1>4. Held \in Seq(Samples) /\ Len(Held) = available /\ available \in 0..Capacity
        /\ Capacity \in Nat \ {0} /\ played \in Seq(Samples)
    BY <1>2, HeldIsSeq, RingAssumption DEF RingInv, RingTypeOK, StreamTyped
  <1>5. ASSUME played' \in Seq(Samples), dropped' \in BOOLEAN
        PROVE  StreamTyped'
    BY <1>1, <1>2, <1>5 DEF StreamTyped
  <1>6. CASE EnqueueNext
    <2>1. /\ job = "enqueue" /\ job' = "enqueue" /\ copying # <<>> /\ copying' = Tail(copying)
          /\ UNCHANGED <<ended, alive>>
      BY <1>6 DEF EnqueueNext, flags
    <2>2. played' = played
      BY <1>1, <2>1 DEF FillFrame
    <2> DEFINE w == available = Capacity
    <2>3. dropped' = (dropped \/ w)
      <3>1. dropped \in BOOLEAN
        BY <1>2 DEF StreamTyped
      <3>2. CASE w
        BY <1>1, <1>6, <3>2
      <3>3. CASE ~ w
        BY <1>1, <3>1, <3>3
      <3> QED BY <3>2, <3>3
    <2>4. Head(copying) \in Samples
          /\ Held' = Append(IF Len(Held) < Capacity THEN Held ELSE Tail(Held), Head(copying))
      BY <1>2, <1>6, PushHeld
    <2>5. Head(copying) = Clip(e + 1) /\ Chained(e + 1, Tail(copying), port, got \div 2)
      BY <1>2, <1>3, <2>1, PortTyped, ChainCopy
    <2>6. Held' = Append(IF w THEN Tail(Held) ELSE Held, Clip(e + 1)) /\ (Held = <<>> => ~ w)
      BY <1>4, <2>4, <2>5
    <2>7. Line(e + 1, Held', played', graph', dropped')
      <3>1. w \in BOOLEAN /\ graph \in BOOLEAN /\ dropped \in BOOLEAN /\ Clip(e + 1) \in Samples
        BY <1>2, <2>4, <2>5, PortTyped
      <3> HIDE DEF w
      <3>2. Line(e + 1, Append(IF w THEN Tail(Held) ELSE Held, Clip(e + 1)), played, graph, dropped \/ w)
        BY <1>3, <1>4, <2>6, <3>1, LinePush
      <3> QED BY <1>1, <2>2, <2>3, <2>6, <3>2
    <2>8. InLine'
      <3>1. Chained(e + 1, copying', port', got' \div 2)
        BY <1>1, <2>1, <2>5
      <3>2. e + 1 \in Nat
        OBVIOUS
      <3> QED BY <2>7, <3>1, <3>2 DEF InLine
    <2>9. StreamTyped'
      <3>1. dropped' \in BOOLEAN
        BY <2>3
      <3> QED BY <1>4, <1>5, <2>2, <3>1
    <2>10. LastWord'
      <3>1. graph => ~ ended /\ alive
        BY <1>2, <2>1 DEF LastWord
      <3> QED BY <1>1, <1>2, <2>1, <3>1 DEF LastWord
    <2> QED BY <1>2, <2>8, <2>9, <2>10 DEF StreamInv
  <1>7. ASSUME ~ EnqueueNext PROVE dropped' = dropped
    <2>1. dropped \in BOOLEAN
      BY <1>2 DEF StreamTyped
    <2> QED BY <1>1, <1>7, <2>1
  <1>8. CASE FillFrame /\ available > 0
    <2>1. /\ job = "quantum" /\ job' = "quantum" /\ UNCHANGED <<copying, ended, alive>>
      BY <1>8 DEF FillFrame, flags
    <2>2. dropped' = dropped
      BY <1>7, <2>1 DEF EnqueueNext
    <2>3. Held # <<>> /\ heard' = Head(Held) /\ Held' = Tail(Held)
      BY <1>2, <1>8, PopHeld
    <2>4. played' = IF graph THEN Append(played, Head(Held)) ELSE played
      BY <1>1, <1>8, <2>3
    <2>5. Line(e, Held', played', graph', dropped')
      <3>1. graph \in BOOLEAN /\ dropped \in BOOLEAN
        BY <1>2, PortTyped
      <3>2. Line(e, Tail(Held), IF graph THEN Append(played, Head(Held)) ELSE played, graph, dropped)
        BY <1>3, <1>4, <2>3, <3>1, LinePop
      <3> QED BY <1>1, <2>2, <2>3, <2>4, <3>2
    <2>6. InLine'
      BY <1>1, <1>3, <2>1, <2>5 DEF InLine
    <2>7. StreamTyped'
      <3>1. Head(Held) \in Samples
        BY <1>4, <2>3
      <3>2. played' \in Seq(Samples)
        BY <1>4, <2>4, <3>1
      <3> QED BY <1>2, <1>5, <2>2, <3>2, PortTyped
    <2>8. LastWord'
      <3>1. alive
        BY <1>2, <2>1 DEF RingInv
      <3> QED BY <1>1, <1>2, <2>1, <3>1 DEF LastWord
    <2> QED BY <1>2, <2>6, <2>7, <2>8 DEF StreamInv
  <1>9. CASE EnqueueOver \/ ProcessOver \/ (FillFrame /\ ~ (available > 0))
    <2>1. /\ UNCHANGED buffer /\ UNCHANGED <<copying, ended, available>>
          /\ job' # "enqueue" => copying = <<>>
          /\ alive' # alive => ended /\ available = 0
          /\ ~ EnqueueNext /\ ~ (FillFrame /\ available > 0)
      <3>1. CASE EnqueueOver
        BY <3>1 DEF EnqueueOver, buffer, flags, EnqueueNext, FillFrame
      <3>2. CASE ProcessOver
        <4>1. job = "quantum" /\ copying = <<>>
          BY <1>2, <3>2 DEF ProcessOver, LastWord
        <4>2. alive
          BY <1>2, <4>1 DEF RingInv
        <4>3. UNCHANGED buffer /\ UNCHANGED <<copying, ended, available>>
          BY <3>2 DEF ProcessOver, buffer
        <4>4. alive' # alive => ended /\ available = 0
          BY <1>2, <3>2, <4>2 DEF ProcessOver, RingInv, RingTypeOK
        <4>5. ~ EnqueueNext /\ ~ (FillFrame /\ available > 0)
          BY <3>2, <4>1 DEF ProcessOver, EnqueueNext, FillFrame
        <4> QED BY <4>1, <4>3, <4>4, <4>5
      <3>3. CASE FillFrame /\ ~ (available > 0)
        <4>1. job = "quantum" /\ copying = <<>> /\ UNCHANGED <<copying, job, ended, alive>>
          BY <1>2, <3>3 DEF FillFrame, LastWord, flags
        <4>2. UNCHANGED buffer /\ UNCHANGED available
          BY <3>3 DEF FillFrame, buffer
        <4> QED BY <3>3, <4>1, <4>2 DEF EnqueueNext
      <3> QED BY <1>9, <3>1, <3>2, <3>3
    <2>2. Held' = Held
      BY <1>2, <2>1, SameHeld
    <2>3. dropped' = dropped /\ played' = played
      BY <1>1, <1>7, <2>1
    <2>4. StreamTyped'
      BY <1>2, <1>4, <1>5, <2>3, PortTyped
    <2>5. InLine'
      BY <1>1, <1>3, <2>1, <2>2, <2>3 DEF InLine
    <2>6. LastWord'
      <3>1. graph' /\ ~ alive' => ended' /\ available' = 0
        BY <1>1, <1>2, <2>1 DEF LastWord
      <3> QED BY <1>1, <1>2, <2>1, <3>1 DEF LastWord
    <2> QED BY <1>2, <2>4, <2>5, <2>6 DEF StreamInv
  <1> QED BY <1>1, <1>6, <1>8, <1>9 DEF WorkletStep

LEMMA StreamInit_Inv ==
  ASSUME StreamInit PROVE StreamInv
  <1>1. RingInv /\ available = 0
    BY InvInit DEF StreamInit, RingInit
  <1>2. /\ got = 0 /\ carry = <<>> /\ body = "reading" /\ port = <<>> /\ graph = TRUE
        /\ played = <<>> /\ dropped = FALSE /\ copying = <<>> /\ ended = FALSE /\ alive = TRUE
    BY DEF StreamInit, RingInit
  <1>3. StreamTyped
    <2>1. 0 \in 0..Bytes /\ 0 % 2 # 1
      BY StreamAssumption
    <2>2. <<>> \in Seq(Message) /\ <<>> \in Seq(Samples)
      OBVIOUS
    <2> QED BY <1>2, <2>1, <2>2 DEF StreamTyped
  <1>4. Held = <<>>
    BY <1>1, HeldIsSeq
  <1>5. InLine
    <2> DEFINE m == [i \in 0..0 |-> 0]
    <2>1. Len(<<>>) = 0 /\ m \in [0..Len(<<>>) -> Nat] /\ m[0] = 0
      OBVIOUS
    <2> HIDE DEF m
    <2>2. Segment(<<>>, 0, 0)
      BY SegmentEmpty
    <2>3. \A i \in 1..Len(<<>>) : FALSE
      BY <2>1
    <2>4. Marks(m, 0, <<>>, <<>>, 0)
      BY <2>1, <2>2, <2>3 DEF Marks
    <2>5. Chained(0, <<>>, <<>>, 0)
      BY <2>1, <2>4 DEF Chained
    <2>6. Line(0, <<>>, <<>>, TRUE, FALSE)
      BY <2>1 DEF Line, Ordered
    <2>7. 0 \div 2 = 0
      OBVIOUS
    <2> QED BY <1>2, <1>4, <2>5, <2>6, <2>7 DEF InLine
  <1>6. LastWord
    BY <1>2 DEF LastWord
  <1> QED BY <1>1, <1>3, <1>5, <1>6 DEF StreamInv

LEMMA StreamNext_Inv == StreamInv /\ [StreamNext]_streamVars => StreamInv'
  <1> SUFFICES ASSUME StreamInv, [StreamNext]_streamVars PROVE StreamInv'
    OBVIOUS
  <1>1. CASE UNCHANGED streamVars
    <2>1. RingInv' /\ Held' = Held
      BY <1>1, RingStays DEF streamVars, StreamInv
    <2>2. UNCHANGED <<got, carry, body, port, graph, played, dropped>>
      BY <1>1 DEF streamVars, main
    <2>3. UNCHANGED <<copying, job, ended, alive, available>>
      BY <1>1 DEF streamVars, ringVars
    <2>4. StreamTyped' /\ LastWord'
      BY <2>2, <2>3 DEF StreamInv, StreamTyped, LastWord
    <2>5. InLine'
      BY <2>1, <2>2, <2>3 DEF StreamInv, InLine
    <2> QED BY <2>1, <2>4, <2>5 DEF StreamInv
  <1> QED BY <1>1, ReadChunkStep, ReadOverStep, StopStep, DeliverStep, RenderStep, WorkStep
          DEF StreamNext

(* However the network cuts the body and wherever the audio clock stands,  *)
(* samples are whole, they keep their order from the chunk to the ear, and *)
(* none is lost but by a full ring or a stop.                              *)
THEOREM StreamInvariant == StreamSpec => []StreamInv
  <1> QED BY StreamInit_Inv, StreamNext_Inv, PTL DEF StreamSpec

LEMMA InvIsHeard == StreamInv => HeardInOrder
  <1> SUFFICES ASSUME StreamInv PROVE HeardInOrder
    OBVIOUS
  <1>1. PICK e \in Nat : Chained(e, copying, port, got \div 2) /\ Line(e, Held, played, graph, dropped)
    BY DEF StreamInv, InLine
  <1>2. \A i \in DOMAIN played : played[i][1] % 2 = 1 /\ played[i][2] = played[i][1] + 1
    BY <1>1 DEF Line, OfClip
  <1>3. \A i, j \in DOMAIN played : i < j => played[i][1] < played[j][1]
    BY <1>1 DEF Line, Ordered
  <1>4. ASSUME graph, ~ alive, ~ dropped
        PROVE  Len(played) = got \div 2
    <2>1. port = <<>> /\ copying = <<>> /\ available = 0
      BY <1>4 DEF StreamInv, LastWord
    <2>2. e = got \div 2
      BY <1>1, <2>1, PortTyped, ChainOver DEF StreamInv
    <2>3. Len(Held) = 0 /\ Len(played) \in Nat
      BY <2>1, HeldIsSeq DEF StreamInv, StreamTyped
    <2>4. e = Len(played) + Len(Held)
      BY <1>1, <1>4 DEF Line
    <2> QED BY <2>2, <2>3, <2>4
  <1> QED BY <1>2, <1>3, <1>4 DEF HeardInOrder

(* What is heard is the clip: whole samples of it, in order, none twice,   *)
(* for every body, every cut of it into chunks and every capacity; and the *)
(* end is announced only when all that arrived was heard, unless the ring  *)
(* overran (player.ts alignSamples, pcm-processor.js).                     *)
THEOREM ClipIsHeardInOrder == StreamSpec => []HeardInOrder
  <1> QED BY StreamInvariant, InvIsHeard, PTL

(* The processor keeps its promise in the player as well: fed by the read  *)
(* loop, the ring is the bounded queue of PcmFifo (player.ts).             *)
THEOREM StreamIsFifo == StreamSpec => FifoSpec
  <1>1. StreamInit => Fifo!Init
    BY StartsEmpty DEF StreamInit
  <1>2. [StreamNext]_streamVars /\ StreamInv => [RingStep]_ringVars
    <2> SUFFICES ASSUME [StreamNext]_streamVars, StreamInv PROVE [RingStep]_ringVars
      OBVIOUS
    <2>1. CASE Deliver
      <3>1. Head(port).samples \in Seq(Samples)
        BY <2>1, HeadOfPort DEF Deliver, StreamInv
      <3> QED BY <2>1, <3>1 DEF Deliver, RingStep
    <2>2. CASE Render \/ Work
      BY <2>2 DEF Render, Work, RingStep
    <2>3. CASE \/ \E n \in 1..MaxChunk : ReadChunk(n)
               \/ ReadOver("whole") \/ ReadOver("broken") \/ Stop \/ UNCHANGED streamVars
      <3>1. UNCHANGED ringVars
        BY <2>3 DEF ReadChunk, ReadOver, Stop, streamVars
      <3> QED BY <3>1
    <2> QED BY <2>1, <2>2, <2>3 DEF StreamNext
  <1>3. StreamInv /\ StreamInv' /\ [RingStep]_ringVars => [Fifo!Next]_(Fifo!vars)
    BY StepSimulates DEF StreamInv
  <1> QED BY <1>1, <1>2, <1>3, StreamInvariant, PTL DEF StreamSpec, FifoSpec, Fifo!Spec

-----------------------------------------------------------------------------
(* The owner of the sound (player.ts, PlaybackOwner).                      *)

Rings(s) == s.element \/ (s.node /\ s.context = "open")

(* The table of sources t when nothing is owned: what still rings raced. *)
Unowned(t) ==
    /\ t \in [Calls -> Source]
    /\ \A d \in Calls :
        /\ t[d].holds => t[d].context = "open"
        /\ Rings(t[d]) => d \in joined \/ t[d].early
        /\ t[d].context = "open" => t[d].holds /\ d \in joined
        /\ t[d].early /\ Rings(t[d]) => t[d].element
        /\ pc[d] \in {"uncalled", "silencing"} => t[d] = NoSource
        /\ Unfinished(d) => d \in joined \/ t[d].early
        /\ t[d].early => ~ t[d].holds

USE DEF Silencing

LEMMA NoSourceType ==
    /\ NoSource \in Source /\ ~ Rings(NoSource) /\ NoSource.context = "none"
    /\ ~ NoSource.holds /\ ~ NoSource.early /\ ~ NoSource.node /\ ~ NoSource.element
  BY DEF NoSource, Source, Rings

(* A stopped source does not ring, and its context is not open. *)
LEMMA StoppedType ==
    ASSUME NEW s \in Source, NEW unfinished \in BOOLEAN, s.context = "open" => s.holds
    PROVE  /\ Stopped(s, unfinished) \in Source
           /\ ~ Rings(Stopped(s, unfinished)) /\ Stopped(s, unfinished).context # "open"
           /\ ~ Stopped(s, unfinished).holds
           /\ Stopped(s, unfinished).early <=> s.early \/ unfinished
  BY DEF Stopped, Released, Source, Rings

LEMMA SoundsRings == \A s : Sounds(s) <=> Rings(source[s])
  BY DEF Sounds, Rings

(* With no owner the table is unowned. *)
LEMMA NobodyUnowned ==
    ASSUME IInv, current = Nobody
    PROVE  Unowned(source)
  BY SoundsRings, PlaybackAssumption DEF PlaybackAssumption, IInv, TypeOK, OwnedUnlessRaced, GraphsReleased, StoppedGraphSilent, UnbornHasNoSource,
     UnfinishedIsOwned, EarlyHoldsNothing, Unowned

(* While a call is silencing, whoever owns the output has met it. *)
LEMMA SilencingUnowned ==
    ASSUME IInv, NEW c \in Calls, pc[c] = "silencing"
    PROVE  Unowned(source)
  BY SoundsRings, PlaybackAssumption DEF PlaybackAssumption, IInv, TypeOK, OwnedUnlessRaced, GraphsReleased, StoppedGraphSilent, UnbornHasNoSource,
     UnfinishedIsOwned, EarlyHoldsNothing, SilencersJoined, Unowned

(* The silence of the current source leaves the table unowned. *)
LEMMA SilenceUnowns ==
    ASSUME IInv, current \in Calls
    PROVE  Unowned([source EXCEPT ![current] = Stopped(@, Unfinished(current))])
<1> DEFINE t == [source EXCEPT ![current] = Stopped(@, Unfinished(current))]
<1>0. /\ TypeOK /\ OwnedUnlessRaced /\ GraphsReleased /\ StoppedGraphSilent
      /\ UnbornHasNoSource /\ UnfinishedIsOwned /\ SilencersJoined /\ EarlyHoldsNothing
      /\ pc[current] \notin {"uncalled", "silencing"}
  BY PlaybackAssumption DEF IInv, OwnerHasBegun, PlaybackAssumption
<1>1. source[current] \in Source /\ Unfinished(current) \in BOOLEAN
  BY <1>0 DEF TypeOK, Unfinished
<1>2. source[current].context = "open" => source[current].holds
  BY <1>0 DEF GraphsReleased
<1>3. /\ Stopped(source[current], Unfinished(current)) \in Source
      /\ ~ Rings(Stopped(source[current], Unfinished(current)))
      /\ Stopped(source[current], Unfinished(current)).context # "open"
      /\ ~ Stopped(source[current], Unfinished(current)).holds
      /\ Stopped(source[current], Unfinished(current)).early
            <=> source[current].early \/ Unfinished(current)
  BY <1>1, <1>2, StoppedType
<1>4. t \in [Calls -> Source]
  BY <1>0, <1>3 DEF TypeOK
<1>5. \A d \in Calls : d # current => t[d] = source[d]
  BY <1>0 DEF TypeOK
<1>6. t[current] = Stopped(source[current], Unfinished(current))
  BY <1>0 DEF TypeOK
<1>7. ASSUME NEW d \in Calls, d # current
      PROVE  /\ t[d].holds => t[d].context = "open"
             /\ Rings(t[d]) => d \in joined \/ t[d].early
             /\ t[d].context = "open" => t[d].holds /\ d \in joined
             /\ t[d].early /\ Rings(t[d]) => t[d].element
             /\ pc[d] \in {"uncalled", "silencing"} => t[d] = NoSource
             /\ Unfinished(d) => d \in joined \/ t[d].early
             /\ t[d].early => ~ t[d].holds
  <2>1. t[d] = source[d]
    BY <1>5, <1>7
  <2> HIDE DEF t
  <2> QED
    BY <1>0, <1>7, <2>1, SoundsRings DEF TypeOK, OwnedUnlessRaced, GraphsReleased, StoppedGraphSilent,
       UnbornHasNoSource, UnfinishedIsOwned, EarlyHoldsNothing
<1> HIDE DEF t
<1>8. Unowned(t)
  BY <1>0, <1>3, <1>4, <1>6, <1>7 DEF Unowned
<1> QED
  BY <1>8 DEF t

(* What a call installs: no source, an open graph still silent, or an      *)
(* element.                                                                *)
LEMMA StartMakes ==
    ASSUME NEW c \in Calls, NEW t, Unowned(t), t[c] = NoSource, TypeOK, Start(c, t)
    PROVE  /\ pc' = [pc EXCEPT ![c] = pc'[c]] /\ pc'[c] \in {"over", "loading", "fetching"}
           /\ source' \in [Calls -> Source]
           /\ \A d \in Calls : d # c => source'[d] = t[d]
           /\ ~ source'[c].early /\ ~ source'[c].node
           /\ source'[c].holds <=> source'[c].context = "open"
           /\ kind[c] = "stop" => source'[c] = NoSource /\ pc'[c] = "over"
<1>0. t \in [Calls -> Source] /\ pc \in [Calls -> {"uncalled", "silencing", "loading", "closing", "fetching", "reading", "over"}]
  BY DEF Unowned, TypeOK
<1> USE <1>0, NoSourceType
<1>1. CASE kind[c] = "stop" /\ pc' = [pc EXCEPT ![c] = "over"] /\ source' = t
  BY <1>1
<1>2. CASE kind[c] = "stream" /\ pc' = [pc EXCEPT ![c] = "over"] /\ source' = t
  BY <1>2
<1>3. CASE /\ kind[c] = "stream" /\ pc' = [pc EXCEPT ![c] = "loading"]
           /\ source' = [t EXCEPT ![c].context = "open", ![c].holds = TRUE]
  <2>1. source'[c] = [NoSource EXCEPT !.context = "open", !.holds = TRUE]
    BY <1>3
  <2>2. \A d \in Calls : d # c => source'[d] = t[d]
    BY <1>3
  <2>3. source'[c] \in Source /\ ~ source'[c].early /\ ~ source'[c].node
        /\ source'[c].holds /\ source'[c].context = "open"
    BY <2>1 DEF NoSource, Source
  <2>4. source' \in [Calls -> Source]
    BY <1>3, <2>2, <2>3
  <2> QED
    BY <1>3, <2>2, <2>3, <2>4
<1>4. CASE kind[c] = "wav" /\ pc' = [pc EXCEPT ![c] = "fetching"] /\ source' = t
  BY <1>4
<1>5. ASSUME NEW plays \in BOOLEAN, kind[c] = "cached", pc' = [pc EXCEPT ![c] = "over"],
             source' = [t EXCEPT ![c].element = plays]
      PROVE  /\ source' \in [Calls -> Source]
             /\ \A d \in Calls : d # c => source'[d] = t[d]
             /\ ~ source'[c].early /\ ~ source'[c].node
             /\ ~ source'[c].holds /\ source'[c].context = "none"
  <2>1. source'[c] = [NoSource EXCEPT !.element = plays]
    BY <1>5
  <2>2. \A d \in Calls : d # c => source'[d] = t[d]
    BY <1>5
  <2>3. source'[c] \in Source /\ ~ source'[c].early /\ ~ source'[c].node
        /\ ~ source'[c].holds /\ source'[c].context = "none"
    BY <2>1 DEF NoSource, Source
  <2>4. source' \in [Calls -> Source]
    BY <1>5, <2>2, <2>3
  <2> QED
    BY <2>2, <2>3, <2>4
<1> QED
  BY <1>1, <1>2, <1>3, <1>4, <1>5 DEF Start

(* The conjuncts of the invariant that speak of one call, put together. *)
SoundCall(d) ==
    /\ source[d].holds => source[d].context = "open"
    /\ Rings(source[d]) => d = current \/ d \in joined \/ source[d].early
    /\ source[d].context = "open" => source[d].holds /\ (d = current \/ d \in joined)
    /\ source[d].early /\ Rings(source[d]) => source[d].element
    /\ pc[d] \in {"uncalled", "silencing"} => source[d] = NoSource
    /\ Unfinished(d) => d = current \/ d \in joined \/ source[d].early
    /\ source[d].early => ~ source[d].holds

Types ==
    /\ current \in Calls \cup {Nobody}
    /\ pc \in [Calls -> {"uncalled", "silencing", "loading", "closing", "fetching", "reading", "over"}]
    /\ kind \in [Calls -> Kinds]
    /\ awaited \in [Calls -> Calls \cup {Nobody}]
    /\ source \in [Calls -> Source]
    /\ joined \subseteq Calls

LEMMA IInvParts == IInv <=> Types /\ (\A d \in Calls : SoundCall(d)) /\ SilencersJoined /\ OwnerHasBegun
  BY SoundsRings DEF IInv, Types, TypeOK, SoundCall, OwnedUnlessRaced, GraphsReleased,
     StoppedGraphSilent, UnbornHasNoSource, UnfinishedIsOwned, EarlyHoldsNothing

LEMMA SoundsRingsNext == \A s : Sounds(s)' <=> Rings(source'[s])
  BY DEF Sounds, Rings

LEMMA IInvPartsNext ==
    Types' /\ (\A d \in Calls : SoundCall(d)') /\ SilencersJoined' /\ OwnerHasBegun' => IInv'
  BY SoundsRingsNext DEF IInv, Types, TypeOK, SoundCall, OwnedUnlessRaced, GraphsReleased,
     StoppedGraphSilent, UnbornHasNoSource, UnfinishedIsOwned, EarlyHoldsNothing, Rings, Sounds

(* Installing the source of a call restores the invariant. *)
LEMMA InstallStep ==
    ASSUME IInv, NEW c \in Calls, NEW t, Unowned(t), t[c] = NoSource, Start(c, t),
           pc[c] \in {"uncalled", "silencing"},
           joined \subseteq joined', joined' \subseteq Calls,
           kind' = kind, awaited' \in [Calls -> Calls \cup {Nobody}],
           current' \in {c, Nobody, current},
           kind[c] # "stop" => current' = c,
           kind[c] = "stop" => current' # c,
           \A d \in Calls \ {c} : pc[d] = "silencing" =>
               /\ current' # Nobody => current' \in joined'
               /\ \A e \in Calls \ {c} : pc[e] = "silencing" /\ d # e => d \in joined'
    PROVE  IInv'
<1>1. TypeOK /\ Types /\ (\A d \in Calls : SoundCall(d)) /\ SilencersJoined /\ OwnerHasBegun
  BY IInvParts DEF IInv
<1>2. /\ pc' = [pc EXCEPT ![c] = pc'[c]] /\ pc'[c] \in {"over", "loading", "fetching"}
      /\ source' \in [Calls -> Source]
      /\ \A d \in Calls : d # c => source'[d] = t[d]
      /\ ~ source'[c].early /\ ~ source'[c].node
      /\ source'[c].holds <=> source'[c].context = "open"
      /\ kind[c] = "stop" => source'[c] = NoSource /\ pc'[c] = "over"
  BY <1>1, StartMakes
<1>3. \A d \in Calls : d # c => pc'[d] = pc[d]
  BY <1>1, <1>2 DEF Types
<1>4. Types'
  BY <1>1, <1>2 DEF Types
<1>5. ASSUME NEW d \in Calls, d # c PROVE SoundCall(d)'
  <2>1. source'[d] = t[d] /\ pc'[d] = pc[d]
    BY <1>2, <1>3, <1>5
  <2> QED
    BY <1>5, <2>1 DEF SoundCall, Unowned, Unfinished
<1>6. SoundCall(c)'
  BY <1>2, NoSourceType DEF SoundCall, Unfinished, Rings
<1>7. SilencersJoined'
  BY <1>2, <1>3 DEF SilencersJoined
<1>8. OwnerHasBegun'
  BY <1>1, <1>2, <1>3 DEF OwnerHasBegun, Types
<1> QED
  BY <1>4, <1>5, <1>6, <1>7, <1>8, IInvPartsNext

(* A call is the source of its own table, whoever was silenced for it. *)
LEMMA CallStep ==
    ASSUME IInv, NEW c \in Calls, Call(c)
    PROVE  IInv'
<1>1. Types /\ (\A d \in Calls : SoundCall(d)) /\ SilencersJoined /\ OwnerHasBegun
  BY IInvParts
<1>2. /\ pc[c] = "uncalled" /\ kind' = kind /\ joined \subseteq joined' /\ joined' \subseteq Calls
      /\ source[c] = NoSource /\ c # current
      /\ \A d \in Silencing : d \in joined' /\ c \in joined'
  BY <1>1, PlaybackAssumption DEF Call, Joined, Types, SoundCall, OwnerHasBegun, PlaybackAssumption
<1>3. CASE current = Nobody
  <2>1. Unowned(source)
    BY <1>3, NobodyUnowned
  <2>2. Start(c, source) /\ current' = Owner(c) /\ awaited' = awaited
    BY <1>3 DEF Call
  <2> QED
    BY <1>1, <1>2, <2>1, <2>2, InstallStep, PlaybackAssumption DEF Owner, Types, PlaybackAssumption
<1>4. CASE current # Nobody
  <2> DEFINE t == [source EXCEPT ![current] = Stopped(@, Unfinished(current))]
  <2>1. current \in Calls
    BY <1>1, <1>4 DEF Types
  <2>2. Unowned(t)
    BY <2>1, SilenceUnowns
  <2>3. t[c] = NoSource
    BY <1>1, <1>2 DEF Types
  <2>4. CASE source[current].holds
    <3>1. /\ pc' = [pc EXCEPT ![c] = "silencing"] /\ awaited' = [awaited EXCEPT ![c] = current]
          /\ current' = Nobody /\ source' = t
      BY <1>4, <2>4 DEF Call
    <3> HIDE DEF t
    <3>2. Types'
      BY <1>1, <1>2, <2>1, <2>2, <3>1 DEF Types, Unowned
    <3>3. ASSUME NEW d \in Calls PROVE SoundCall(d)'
      <4>1. CASE d = c
        BY <1>1, <1>2, <2>2, <2>3, <3>1, <4>1, NoSourceType DEF SoundCall, Unfinished, Types
      <4>2. CASE d # c
        <5>1. pc'[d] = pc[d]
          BY <1>1, <3>1, <4>2 DEF Types
        <5> QED
          BY <1>2, <2>2, <3>1, <5>1 DEF SoundCall, Unfinished, Unowned
      <4> QED
        BY <4>1, <4>2
    <3>4. SilencersJoined'
      BY <1>1, <1>2, <3>1 DEF SilencersJoined, Types
    <3>5. OwnerHasBegun'
      BY <3>1 DEF OwnerHasBegun
    <3> QED
      BY <3>2, <3>3, <3>4, <3>5, IInvPartsNext
  <2>5. CASE ~ source[current].holds
    <3>1. Start(c, t) /\ current' = Owner(c) /\ awaited' = awaited
      BY <1>4, <2>5 DEF Call
    <3> HIDE DEF t
    <3> QED
      BY <1>1, <1>2, <2>2, <2>3, <3>1, InstallStep, PlaybackAssumption DEF Owner, Types, PlaybackAssumption
  <2> QED
    BY <2>4, <2>5
<1> QED
  BY <1>3, <1>4

(* A call that resumes takes the output from whoever took it meanwhile;    *)
(* both have met, so both are joined.                                      *)
LEMMA ResumeStep ==
    ASSUME IInv, NEW c \in Calls, Resume(c)
    PROVE  IInv'
<1>1. Types /\ (\A d \in Calls : SoundCall(d)) /\ SilencersJoined /\ OwnerHasBegun
  BY IInvParts
<1>2. /\ pc[c] = "silencing" /\ kind' = kind /\ joined' = joined /\ Start(c, source)
      /\ current' = IF kind[c] = "stop" THEN current ELSE c
      /\ awaited' = [awaited EXCEPT ![c] = Nobody]
  BY DEF Resume
<1>3. Unowned(source) /\ source[c] = NoSource /\ current # c
  BY <1>1, <1>2, SilencingUnowned, PlaybackAssumption DEF SoundCall, OwnerHasBegun, PlaybackAssumption
<1>4. \A d \in Calls \ {c} : pc[d] = "silencing" => d \in joined /\ c \in joined
  BY <1>1, <1>2 DEF SilencersJoined
<1> QED
  BY <1>1, <1>2, <1>3, <1>4, InstallStep DEF Types, SilencersJoined

(* A source that moves by itself: what it becomes must be owned, must keep *)
(* its past and must not claim a context it gave up.                       *)
LEMMA GoesStep ==
    ASSUME IInv, NEW c \in Calls, NEW place, NEW s \in Source, Goes(c, place, s),
           place \in {"closing", "fetching", "reading", "over"} \cup {pc[c]},
           pc[c] \notin {"uncalled", "silencing"},
           s.early = source[c].early, s.holds => s.context = "open" /\ source[c].holds,
           s.context = "open" => s.holds,
           Rings(s) => (Rings(source[c]) /\ (s.element => source[c].element)) \/ Unfinished(c) \/ s.context = "open",
           s.early /\ Rings(s) => s.element,
           place \in {"loading", "closing", "fetching"} => Unfinished(c) \/ source[c].holds
    PROVE  IInv'
<1>1. Types /\ (\A d \in Calls : SoundCall(d)) /\ SilencersJoined /\ OwnerHasBegun
  BY IInvParts
<1>2. /\ pc' = [pc EXCEPT ![c] = place] /\ source' = [source EXCEPT ![c] = s]
      /\ current' = current /\ kind' = kind /\ awaited' = awaited /\ joined' = joined
  BY DEF Goes
<1>3. place \in {"loading", "closing", "fetching", "reading", "over"}
  BY <1>1 DEF Types
<1>4. Types'
  BY <1>1, <1>2, <1>3 DEF Types
<1>5. SoundCall(c)'
  <2>1. source'[c] = s /\ pc'[c] = place
    BY <1>1, <1>2 DEF Types
  <2>2. s.context = "open" => source[c].holds /\ source[c].context = "open"
    BY <1>1 DEF SoundCall
  <2>3. c = current \/ c \in joined \/ source[c].early \/ (~ Unfinished(c) /\ ~ Rings(source[c]) /\ ~ source[c].holds)
    BY <1>1 DEF SoundCall
  <2> QED
    BY <1>1, <1>2, <1>3, <2>1, <2>2, <2>3 DEF SoundCall, Unfinished
<1>6. ASSUME NEW d \in Calls, d # c PROVE SoundCall(d)'
  <2>1. source'[d] = source[d] /\ pc'[d] = pc[d]
    BY <1>1, <1>2, <1>6 DEF Types
  <2> QED
    BY <1>1, <1>2, <2>1 DEF SoundCall, Unfinished
<1>7. SilencersJoined'
  BY <1>1, <1>2, <1>3 DEF SilencersJoined, Types
<1>8. OwnerHasBegun'
  BY <1>1, <1>2, <1>3 DEF OwnerHasBegun, Types
<1> QED
  BY <1>4, <1>5, <1>6, <1>7, <1>8, IInvPartsNext

(* A released graph holds nothing and is not open. *)
LEMMA ReleasedType ==
    ASSUME NEW s \in Source, s.context = "open" => s.holds
    PROVE  /\ Released(s) \in Source /\ Released(s).context # "open" /\ ~ Released(s).holds
           /\ Released(s).early = s.early /\ Released(s).element = s.element
           /\ ~ Released(s).node
  BY DEF Released, Source

(* Each of the moves of a source is such a one. *)
LEMMA MoveStep ==
    ASSUME IInv, NEW c \in Calls,
           WorkletReady(c) \/ FallBack(c) \/ NoBody(c) \/ Closed(c) \/ ReadEnds(c)
             \/ Fetched(c) \/ FetchBreaks(c) \/ PlaysOut(c)
    PROVE  IInv'
<1>1. Types /\ SoundCall(c)
  BY IInvParts
<1>2. source[c] \in Source /\ (source[c].context = "open" => source[c].holds)
  BY <1>1 DEF Types, SoundCall
<1>3. pc[c] \in {"uncalled", "silencing"} => ~ Rings(source[c]) /\ source[c].context = "none"
  BY <1>1, NoSourceType DEF SoundCall
<1>4. CASE WorkletReady(c)
  <2> DEFINE s == [source[c] EXCEPT !.node = TRUE]
  <2>1. s \in Source /\ s.early = source[c].early /\ s.holds = source[c].holds
        /\ s.context = source[c].context /\ s.element = source[c].element
    BY <1>2 DEF Source
  <2>2. pc[c] = "loading" /\ Goes(c, "reading", s)
    BY <1>4 DEF WorkletReady
  <2> HIDE DEF s
  <2> QED
    BY <1>1, <1>2, <2>1, <2>2, GoesStep DEF SoundCall, Unfinished, Rings
<1>5. CASE FallBack(c)
  <2>1. pc[c] = "loading" /\ Goes(c, IF source[c].holds THEN "closing" ELSE "fetching", Released(source[c]))
    BY <1>5 DEF FallBack
  <2> QED
    BY <1>1, <1>2, <2>1, ReleasedType, GoesStep DEF SoundCall, Unfinished, Rings
<1>6. CASE NoBody(c)
  <2>1. pc[c] = "loading" /\ Goes(c, "over", Released(source[c]))
    BY <1>6 DEF NoBody
  <2> QED
    BY <1>1, <1>2, <2>1, ReleasedType, GoesStep DEF SoundCall, Unfinished, Rings
<1>7. CASE Closed(c)
  <2> DEFINE s == [source[c] EXCEPT !.context = "closed"]
             place == IF pc[c] = "closing" THEN "fetching" ELSE pc[c]
  <2>1. s \in Source /\ s.early = source[c].early /\ s.holds = source[c].holds
        /\ s.context = "closed" /\ s.element = source[c].element /\ s.node = source[c].node
    BY <1>2 DEF Source
  <2>2. source[c].context = "closing" /\ Goes(c, place, s)
    BY <1>7 DEF Closed
  <2>3. ~ source[c].holds /\ pc[c] \notin {"uncalled", "silencing"}
    BY <1>1, <1>3, <2>2 DEF SoundCall
  <2>4. place \in {"closing", "fetching", "reading", "over"} \cup {pc[c]}
        /\ (place \in {"loading", "closing", "fetching"} => Unfinished(c))
    BY DEF Unfinished
  <2> HIDE DEF s, place
  <2> QED
    BY <1>1, <1>2, <2>1, <2>2, <2>3, <2>4, GoesStep DEF SoundCall, Rings
<1>8. CASE ReadEnds(c)
  <2>1. pc[c] = "reading" /\ Goes(c, "over", source[c])
    BY <1>8 DEF ReadEnds
  <2> QED
    BY <1>1, <1>2, <2>1, GoesStep DEF SoundCall, Rings
<1>9. CASE Fetched(c)
  <2>1. PICK plays \in BOOLEAN : Goes(c, "over", Autoplay(source[c], plays))
    BY <1>9 DEF Fetched
  <2> DEFINE s == Autoplay(source[c], plays)
  <2>2. s \in Source /\ s.early = source[c].early /\ s.holds = source[c].holds
        /\ s.context = source[c].context /\ s.node = source[c].node
    BY <1>2 DEF Source, Autoplay
  <2>3. pc[c] = "fetching" /\ Unfinished(c)
    BY <1>9 DEF Fetched, Unfinished
  <2> HIDE DEF s
  <2>4. Goes(c, "over", s)
    BY <2>1 DEF s
  <2> QED
    BY <1>1, <1>2, <2>2, <2>3, <2>4, GoesStep DEF SoundCall, Rings
<1>10. CASE FetchBreaks(c)
  <2>1. pc[c] = "fetching" /\ Goes(c, "over", Released(source[c]))
    BY <1>10 DEF FetchBreaks
  <2> QED
    BY <1>1, <1>2, <2>1, ReleasedType, GoesStep DEF SoundCall, Unfinished, Rings
<1>11. CASE PlaysOut(c)
  <2> DEFINE s == [source[c] EXCEPT !.element = FALSE, !.node = FALSE]
  <2>1. s \in Source /\ s.early = source[c].early /\ s.holds = source[c].holds
        /\ s.context = source[c].context /\ ~ s.element /\ ~ s.node
    BY <1>2 DEF Source
  <2>2. pc[c] = "over" /\ Goes(c, "over", s)
    BY <1>11 DEF PlaysOut
  <2> HIDE DEF s
  <2> QED
    BY <1>1, <1>2, <2>1, <2>2, GoesStep DEF SoundCall, Rings
<1> QED
  BY <1>4, <1>5, <1>6, <1>7, <1>8, <1>9, <1>10, <1>11

(* Nothing is owned, made or joined at the start. *)
LEMMA InitInv == Init => IInv
<1> SUFFICES ASSUME Init PROVE IInv
  OBVIOUS
<1>1. Types
  BY NoSourceType DEF Init, Types
<1>2. \A d \in Calls : SoundCall(d)
  BY NoSourceType DEF Init, SoundCall, Unfinished
<1>3. SilencersJoined /\ OwnerHasBegun
  BY DEF Init, SilencersJoined, OwnerHasBegun
<1> QED
  BY <1>1, <1>2, <1>3, IInvParts

(* Every step preserves the invariant. *)
LEMMA NextInv == IInv /\ [Next]_vars => IInv'
<1> SUFFICES ASSUME IInv, [Next]_vars PROVE IInv'
  OBVIOUS
<1>1. ASSUME NEW c \in Calls, Call(c) PROVE IInv'
  BY <1>1, CallStep
<1>2. ASSUME NEW c \in Calls, Resume(c) PROVE IInv'
  BY <1>2, ResumeStep
<1>3. ASSUME NEW c \in Calls,
             Loads(c) \/ Closed(c) \/ ReadEnds(c) \/ Fetched(c) \/ FetchBreaks(c) \/ PlaysOut(c)
      PROVE  IInv'
  BY <1>3, MoveStep DEF Loads
<1>4. CASE UNCHANGED vars
  BY <1>4 DEF vars, IInv, TypeOK, OwnedUnlessRaced, GraphsReleased, StoppedGraphSilent, UnbornHasNoSource,
     UnfinishedIsOwned, SilencersJoined, EarlyHoldsNothing, OwnerHasBegun, Sounds, Unfinished
<1> QED
  BY <1>1, <1>2, <1>3, <1>4 DEF Next

(* The inductive invariant holds of every reachable state (player.ts       *)
(* PlaybackOwner, StreamingPlayer).                                        *)
THEOREM PlaybackInvariant == Spec => []IInv
  BY InitInv, NextInv, PTL DEF Spec

(* However many calls overlap, what sounds is what the next call would     *)
(* silence, except after one of the two races named in it (player.ts       *)
(* PlaybackOwner.#silence).                                                *)
THEOREM SoundIsOwned == Spec => []OwnedUnlessRaced
<1>1. IInv => OwnedUnlessRaced
  BY DEF IInv
<1> QED
  BY <1>1, PlaybackInvariant, PTL

(* No audio context is left open behind its player: one that is open is    *)
(* still referred to, and owned unless its call raced another (player.ts   *)
(* #releaseGraph).                                                         *)
THEOREM NoGraphLeaks == Spec => []GraphsReleased
<1>1. IInv => GraphsReleased
  BY DEF IInv
<1> QED
  BY <1>1, PlaybackInvariant, PTL

(* A player stopped while it was loading can sound only through the        *)
(* element it fell back to (player.ts #playBuffered).                      *)
THEOREM StoppedStaysSilent == Spec => []StoppedGraphSilent
<1>1. IInv => StoppedGraphSilent
  BY DEF IInv
<1> QED
  BY <1>1, PlaybackInvariant, PTL
=============================================================================
