---------------------------- MODULE FramingProofs ----------------------------
(***************************************************************************)
(* The invariants of Framing hold for every stream: any number of frames   *)
(* of any lengths, cut into pieces anywhere, and any handlers.             *)
(***************************************************************************)
EXTENDS Framing, TLAPS

(* The conjunction of the four invariants is inductive: that a length is   *)
(* read at the start of a frame needs Aligned, and the frame it then cuts  *)
(* off keeps it.                                                           *)
IInv == TypeOK /\ Aligned /\ HelloFirst /\ ChunkingIndependent

(* Later frames end later. *)
LEMMA EndMonotone ==
    ASSUME NEW i \in 0 .. N, NEW j \in 0 .. N, i <= j
    PROVE  End[i] \in Nat /\ End[j] \in Nat /\ End[i] <= End[j]
<1>1. End[i] \in Nat /\ End[j] \in Nat
  BY FramingAssumption DEF HelloHeader, MessageHeader
<1>2. CASE i = j
  BY <1>1, <1>2
<1>3. CASE i < j
  BY <1>1, <1>3, FramingAssumption DEF HelloHeader, MessageHeader
<1> QED BY <1>2, <1>3, FramingAssumption DEF HelloHeader, MessageHeader

(* The length read at the start of a frame is the length of that frame:    *)
(* frames are not empty, so no two of them start at the same byte.         *)
LEMMA SizeAtStart ==
    ASSUME NEW k \in 0 .. N - 1
    PROVE  SizeAt(End[k]) = End[k + 1] - End[k]
<1> DEFINE i == FrameAt(End[k])
<1>1. k + 1 \in 1 .. N /\ End[(k + 1) - 1] = End[k]
  BY FramingAssumption DEF HelloHeader, MessageHeader
<1>2. i \in 1 .. N /\ End[i - 1] = End[k]
  BY <1>1, Zenon DEF FrameAt
<1>3. i - 1 = k
  <2>1. i - 1 \in 0 .. N /\ k \in 0 .. N
    BY <1>2, FramingAssumption DEF HelloHeader, MessageHeader
  <2>2. ~(i - 1 < k) /\ ~(k < i - 1)
    BY <1>2, <2>1, FramingAssumption DEF HelloHeader, MessageHeader
  <2> QED BY <2>1, <2>2
<1>4. i = k + 1
  BY <1>2, <1>3, FramingAssumption DEF HelloHeader, MessageHeader
<1> HIDE DEF i
<1>5. SizeAt(End[k]) = End[i] - End[i - 1]
  BY DEF SizeAt, i
<1> QED BY <1>2, <1>4, <1>5

(* A frame that is complete is not past the last one, and all of it is     *)
(* there.                                                                  *)
LEMMA CompleteFrame ==
    ASSUME TypeOK, Aligned, NEW header \in {HelloHeader, MessageHeader},
           Complete(header)
    PROVE  /\ delivered + 1 \in 1 .. N
           /\ EraseFrame = End[delivered + 1]
           /\ End[delivered + 1] <= received
<1>1. delivered # N
  BY FramingAssumption DEF TypeOK, Aligned, Complete, PieceSize, HelloHeader, MessageHeader
<1>2. delivered \in 0 .. N - 1
  BY <1>1, FramingAssumption DEF TypeOK, HelloHeader, MessageHeader
<1>3. SizeAt(cut) = End[delivered + 1] - End[delivered]
  BY <1>2, SizeAtStart DEF Aligned
<1>4. End[delivered] \in Nat /\ End[delivered + 1] \in Nat
  BY <1>2, FramingAssumption DEF HelloHeader, MessageHeader
<1>5. EraseFrame = End[delivered + 1]
  BY <1>3, <1>4 DEF Aligned, EraseFrame
<1>6. received - End[delivered] >= End[delivered + 1] - End[delivered]
  BY <1>3 DEF Aligned, Complete, PieceSize
<1>7. received \in Nat
  BY FramingAssumption DEF TypeOK, HelloHeader, MessageHeader
<1>8. delivered + 1 \in 1 .. N
  BY <1>2, FramingAssumption DEF HelloHeader, MessageHeader
<1> QED BY <1>4, <1>5, <1>6, <1>7, <1>8

(* When no frame is complete, the frames whose last byte arrived are the   *)
(* ones delivered.                                                         *)
LEMMA NothingComplete ==
    ASSUME TypeOK, Aligned,
           ~Complete(IF handshake_finished THEN MessageHeader ELSE HelloHeader),
           HelloFirst,
           NEW i \in 1 .. N
    PROVE  i <= delivered <=> End[i] <= received
<1>1. CASE i <= delivered
  <2>1. i \in 0 .. N /\ delivered \in 0 .. N
    BY FramingAssumption DEF TypeOK, HelloHeader, MessageHeader
  <2>2. End[i] \in Nat /\ End[delivered] \in Nat /\ End[i] <= End[delivered]
    BY <1>1, <2>1, EndMonotone
  <2> QED
    BY <1>1, <2>2, FramingAssumption DEF TypeOK, Aligned, HelloHeader, MessageHeader
<1>2. CASE i > delivered
  <2>1. delivered \in 0 .. N - 1
    BY <1>2, FramingAssumption DEF TypeOK, HelloHeader, MessageHeader
  <2>2. SizeAt(cut) = End[delivered + 1] - End[delivered]
    BY <2>1, SizeAtStart DEF Aligned
  <2>3. End[delivered + 1] <= End[i]
    <3>1. i \in 0 .. N /\ delivered + 1 \in 0 .. N /\ delivered + 1 <= i
      BY <1>2, <2>1, FramingAssumption DEF TypeOK, HelloHeader, MessageHeader
    <3> QED BY <3>1, EndMonotone
  <2>4. CASE handshake_finished
    <3>1. received < End[delivered + 1]
      <4>1. End[delivered + 1] - End[delivered] >= MessageHeader
        BY <2>1, FramingAssumption DEF HelloHeader, MessageHeader
      <4> QED
        BY <2>1, <2>2, <2>4, <4>1, FramingAssumption
           DEF TypeOK, Aligned, Complete, PieceSize, HelloHeader, MessageHeader
    <3> QED BY <1>2, <2>1, <2>3, <3>1, FramingAssumption DEF TypeOK, HelloHeader, MessageHeader
  <2>5. CASE ~handshake_finished
    <3>1. delivered = 0
      BY <2>5 DEF HelloFirst, TypeOK
    <3>2. received < End[1]
      BY <2>1, <2>2, <2>5, <3>1, FramingAssumption
         DEF TypeOK, Aligned, Complete, PieceSize, HelloHeader, MessageHeader
    <3> QED BY <1>2, <2>1, <2>3, <3>1, <3>2, FramingAssumption DEF TypeOK, HelloHeader, MessageHeader
  <2> QED BY <2>4, <2>5 DEF TypeOK
<1> QED BY <1>1, <1>2 DEF TypeOK

LEMMA InitIInv == Init => IInv
<1> SUFFICES ASSUME Init PROVE IInv
  OBVIOUS
<1>1. TypeOK
  <2>1. N \in Nat /\ End[N] \in Nat
    BY FramingAssumption DEF HelloHeader, MessageHeader
  <2>2. received \in 0 .. End[N] /\ cut \in Nat /\ delivered \in 0 .. N
    BY <2>1 DEF Init
  <2> QED BY <2>2 DEF Init, TypeOK
<1>2. Aligned /\ HelloFirst
  BY FramingAssumption DEF Init, Aligned, HelloFirst, HelloHeader, MessageHeader
<1>3. ChunkingIndependent
  BY FramingAssumption DEF Init, ChunkingIndependent, HelloHeader, MessageHeader
<1> QED BY <1>1, <1>2, <1>3 DEF IInv

LEMMA NextIInv == IInv /\ [Next]_vars => IInv'
<1> SUFFICES ASSUME IInv, [Next]_vars PROVE IInv'
  OBVIOUS
<1> USE DEF IInv
<1>1. ASSUME NEW n \in 1 .. End[N], OnData(n) PROVE IInv'
  <2>1. TypeOK'
    BY <1>1, FramingAssumption DEF TypeOK, OnData, HelloHeader, MessageHeader
  <2>2. Aligned' /\ HelloFirst'
    BY <1>1, FramingAssumption DEF TypeOK, OnData, Aligned, HelloFirst, HelloHeader, MessageHeader
  <2>3. ChunkingIndependent'
    BY <1>1 DEF OnData, ChunkingIndependent
  <2> QED BY <2>1, <2>2, <2>3
<1>2. CASE BadHello \/ MalformedMessage
  <2>1. /\ UNCHANGED <<hello, received, cut, delivered, handshake_finished>>
        /\ is_open' = FALSE /\ reading' = FALSE
    BY <1>2 DEF BadHello, MalformedMessage
  <2>2. TypeOK' /\ Aligned' /\ HelloFirst'
    BY <2>1 DEF TypeOK, Aligned, HelloFirst
  <2>3. ChunkingIndependent'
    BY <2>1 DEF ChunkingIndependent
  <2> QED BY <2>2, <2>3
<1>3. CASE Wait
  <2>1. TypeOK' /\ Aligned' /\ HelloFirst'
    BY <1>3 DEF Wait, TypeOK, Aligned, HelloFirst
  <2>2. ~Complete(IF handshake_finished THEN MessageHeader ELSE HelloHeader)
    BY <1>3 DEF Wait
  <2>3. \A i \in 1 .. N : i <= delivered <=> End[i] <= received
    BY <2>2, NothingComplete
  <2>4. ChunkingIndependent'
    BY <1>3, <2>3 DEF Wait, ChunkingIndependent
  <2> QED BY <2>1, <2>4
<1>4. ASSUME NEW outcome \in Outcome, TakeHello(outcome) PROVE IInv'
  <2>1. CASE outcome = "throw"
    BY <1>4, <2>1
       DEF TakeHello, TypeOK, Aligned, HelloFirst, ChunkingIndependent
  <2>2. CASE outcome # "throw"
    <3>1. /\ delivered + 1 \in 1 .. N
          /\ EraseFrame = End[delivered + 1]
          /\ End[delivered + 1] <= received
      BY <1>4, CompleteFrame DEF TakeHello
    <3>2. TypeOK'
      BY <1>4, <2>2, <3>1, FramingAssumption DEF TakeHello, TypeOK, HelloHeader, MessageHeader
    <3>3. Aligned'
      BY <1>4, <2>2, <3>1 DEF TakeHello, Aligned
    <3>4. HelloFirst'
      BY <1>4, <2>2 DEF TakeHello, TypeOK, HelloFirst, HeaderAccepted
    <3>5. ChunkingIndependent'
      BY <1>4, <2>2 DEF TakeHello, ChunkingIndependent
    <3> QED BY <3>2, <3>3, <3>4, <3>5
  <2> QED BY <2>1, <2>2
<1>5. ASSUME NEW outcome \in Outcome, TakeMessage(outcome) PROVE IInv'
  <2>1. /\ delivered + 1 \in 1 .. N
        /\ EraseFrame = End[delivered + 1]
        /\ End[delivered + 1] <= received
    BY <1>5, CompleteFrame DEF TakeMessage
  <2>2. TypeOK'
    BY <1>5, <2>1, FramingAssumption DEF TakeMessage, TypeOK, HelloHeader, MessageHeader
  <2>3. Aligned'
    BY <1>5, <2>1 DEF TakeMessage, Aligned
  <2>4. HelloFirst'
    BY <1>5 DEF TakeMessage, TypeOK, HelloFirst
  <2>5. ChunkingIndependent'
    BY <1>5 DEF TakeMessage, ChunkingIndependent, Outcome
  <2> QED BY <2>2, <2>3, <2>4, <2>5
<1>6. CASE UNCHANGED vars
  BY <1>6 DEF vars, TypeOK, Aligned, HelloFirst, ChunkingIndependent
<1> QED BY <1>1, <1>2, <1>3, <1>4, <1>5, <1>6 DEF Next

(* The conjunction of the invariants always holds. *)
THEOREM FramingInvariant == Spec => []IInv
BY InitIInv, NextIInv, PTL DEF Spec

(* Every variable has its type. *)
THEOREM FramingTypes == Spec => []TypeOK
<1>1. IInv => TypeOK
  BY DEF IInv
<1> QED BY <1>1, FramingInvariant, PTL

(* A length is never read in the middle of a frame.                        *)
THEOREM FramesAligned == Spec => []Aligned
<1>1. IInv => Aligned
  BY DEF IInv
<1> QED BY <1>1, FramingInvariant, PTL

(* No message is handled before an acceptable hello was.                   *)
THEOREM HelloHandledFirst == Spec => []HelloFirst
<1>1. IInv => HelloFirst
  BY DEF IInv
<1> QED BY <1>1, FramingInvariant, PTL

(* Which frames on_data() delivers depends on how many bytes arrived and   *)
(* not on how they were cut into pieces.                                   *)
THEOREM FramesComplete == Spec => []ChunkingIndependent
<1>1. IInv => ChunkingIndependent
  BY DEF IInv
<1> QED BY <1>1, FramingInvariant, PTL
=============================================================================
