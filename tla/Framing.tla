------------------------------- MODULE Framing -------------------------------
(***************************************************************************)
(* rpc::socket<Handle>::on_data() (rpc/include/rpc/socket.hpp): the bytes  *)
(* of a stream arrive in pieces of any size and are cut back into the      *)
(* frames the peer wrote, one hello and then messages.  Each frame starts  *)
(* with its own length.                                                    *)
(*                                                                         *)
(* Bytes are counted, not represented: frame i is the bytes from           *)
(* End[i - 1] up to End[i].  message_piece holds the bytes from cut up to  *)
(* received.  One DataEvent runs on_data() to its end; the iterations of   *)
(* its loop are steps here, and nothing else happens while reading holds.  *)
(***************************************************************************)
EXTENDS Integers

CONSTANTS
    N,           \* number of frames the peer writes
    End          \* End[i]: bytes in the first i frames

HelloHeader   == 8      \* hello_size and magic
MessageHeader == 4      \* message_size

ASSUME FramingAssumption ==
    /\ N \in Nat \ {0}
    /\ End \in [0 .. N -> Nat]
    /\ End[0] = 0
    /\ End[1] >= HelloHeader
    /\ \A i \in 1 .. N : End[i] - End[i - 1] >= MessageHeader
    /\ \A i, j \in 0 .. N : i < j => End[i] < End[j]

VARIABLES
    hello,                 \* "good", or what is wrong with the header of the hello
    received,              \* bytes the loop has handed to on_data()
    cut,                   \* bytes erased from the front of message_piece
    delivered,             \* frames handed to a handler
    handshake_finished,
    is_open,
    reading                \* is on_data() running?

vars == <<hello, received, cut, delivered, handshake_finished, is_open, reading>>

(***************************************************************************)
(* The parts of on_data()                                                  *)
(***************************************************************************)
PieceSize == received - cut

(* The frame that starts at pos, and the length its first bytes spell. *)
FrameAt(pos) == CHOOSE i \in 1 .. N : End[i - 1] = pos

SizeAt(pos) == End[FrameAt(pos)] - End[FrameAt(pos) - 1]

(* Fault: a frame is complete only when more follows. *)
CompleteWithMore(header) == PieceSize >= header /\ PieceSize > SizeAt(cut)

Complete(header) == PieceSize >= header /\ PieceSize >= SizeAt(cut)

(* Fault: the magic is not looked at. *)
HeaderAnyMagic == hello # "length"

HeaderAccepted == hello = "good"

EraseFrame == cut + SizeAt(cut)

(* What a handler does, in the order the code reacts to it: it returns, it *)
(* stops the socket and returns, or it throws.                             *)
Outcome == {"return", "stop", "throw"}

(***************************************************************************)
(* Steps                                                                   *)
(***************************************************************************)
Init ==
    /\ hello \in {"good", "magic", "length"}
    /\ received = 0 /\ cut = 0 /\ delivered = 0
    /\ handshake_finished = FALSE
    /\ is_open = TRUE
    /\ reading = FALSE

(* DataEvent: n more bytes.  A stopped handle delivers none. *)
OnData(n) ==
    /\ ~reading /\ is_open
    /\ received + n <= End[N]
    /\ received' = received + n
    /\ reading' = TRUE
    /\ UNCHANGED <<hello, cut, delivered, handshake_finished, is_open>>

(* The header of the hello is looked at before the hello is complete. *)
BadHello ==
    /\ reading /\ ~handshake_finished
    /\ PieceSize >= HelloHeader /\ ~HeaderAccepted
    /\ is_open' = FALSE
    /\ reading' = FALSE
    /\ UNCHANGED <<hello, received, cut, delivered, handshake_finished>>

(* The hello goes to its handler.  If that stops the socket, on_data()     *)
(* goes on all the same; if it throws, on_data() is left at once.          *)
TakeHello(outcome) ==
    /\ reading /\ ~handshake_finished
    /\ HeaderAccepted /\ Complete(HelloHeader)
    /\ is_open' = (outcome = "return")
    /\ reading' = (outcome # "throw")
    /\ IF outcome = "throw"
       THEN UNCHANGED <<cut, delivered, handshake_finished>>
       ELSE /\ cut' = EraseFrame
            /\ delivered' = delivered + 1
            /\ handshake_finished' = TRUE
    /\ UNCHANGED <<hello, received>>

(* The loop: a message is erased before its handler runs. *)
TakeMessage(outcome) ==
    /\ reading /\ handshake_finished
    /\ Complete(MessageHeader)
    /\ cut' = EraseFrame
    /\ delivered' = delivered + 1
    /\ is_open' = (is_open /\ outcome = "return")
    /\ reading' = (outcome # "throw")
    /\ UNCHANGED <<hello, received, handshake_finished>>

(* A message that cannot be deserialized stays where it is. *)
MalformedMessage ==
    /\ reading /\ handshake_finished
    /\ Complete(MessageHeader)
    /\ is_open' = FALSE
    /\ reading' = FALSE
    /\ UNCHANGED <<hello, received, cut, delivered, handshake_finished>>

(* Not enough bytes for one more frame: they wait for the next event. *)
Wait ==
    /\ reading
    /\ \/ ~handshake_finished /\ (PieceSize < HelloHeader \/ HeaderAccepted)
          /\ ~Complete(HelloHeader)
       \/ handshake_finished /\ ~Complete(MessageHeader)
    /\ reading' = FALSE
    /\ UNCHANGED <<hello, received, cut, delivered, handshake_finished, is_open>>

Next ==
    \/ \E n \in 1 .. End[N] : OnData(n)
    \/ BadHello \/ MalformedMessage \/ Wait
    \/ \E outcome \in Outcome : TakeHello(outcome) \/ TakeMessage(outcome)

Spec == Init /\ [][Next]_vars

(***************************************************************************)
(* Properties                                                              *)
(***************************************************************************)

(* Every variable has its type. *)
TypeOK ==
    /\ hello \in {"good", "magic", "length"}
    /\ received \in 0 .. End[N]
    /\ cut \in Nat
    /\ delivered \in 0 .. N
    /\ handshake_finished \in BOOLEAN
    /\ is_open \in BOOLEAN
    /\ reading \in BOOLEAN

(* message_piece always starts at the first byte of a frame, the one after *)
(* the last frame delivered: a length is never read in the middle of one.  *)
Aligned == cut = End[delivered] /\ cut <= received

(* No message gets to its handler before a hello that passed the checks    *)
(* was handled, and a handled hello is never handled again.                *)
HelloFirst ==
    /\ handshake_finished <=> delivered > 0
    /\ delivered > 0 => hello = "good"

(* However the stream was cut into pieces, when on_data() returns with the *)
(* socket open it has delivered exactly the frames whose last byte arrived.*)
ChunkingIndependent ==
    ~reading /\ is_open => \A i \in 1 .. N : i <= delivered <=> End[i] <= received
=============================================================================
