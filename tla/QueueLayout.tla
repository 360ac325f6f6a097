---------------------------- MODULE QueueLayout ----------------------------
(***************************************************************************)
(* How a SharedMemQueue lays out its file mapping: two halves of           *)
(* m_BufSize/2 each, one per direction, and in each half a header followed *)
(* by a stack of frames.  A frame is the bytes of a message followed by    *)
(* their number, so that the last frame can be found from its end.         *)
(*                                                                         *)
(* The unit of memory is the DWORD: the header is two of them, the length  *)
(* word is one, and the size of a message is given in DWORDs.              *)
(***************************************************************************)
EXTENDS Integers

CONSTANTS
  Messages,   \* the messages the two processes send each other
  Size,       \* Size[m]: MemMessage::m_DataSize of m, in DWORDs
  HalfSize    \* m_BufSize / 2, in DWORDs

HeaderSize == 2   \* sizeof(SharedMemQHeader): message count and end offset
LengthSize == 1   \* sizeof(DWORD): the length word after a message

\* Each half has room for its header and something more.
ASSUME LayoutAssumption ==
  /\ Size \in [Messages -> Nat \ {0}]
  /\ HalfSize \in Nat /\ HeaderSize < HalfSize

Halves == {"ServerToClient", "ClientToServer"}
Sides  == {"Server", "Client"}

\* m_OutHeader and m_InHeader: the server writes the first half and reads the
\* second one, the client the other way round.
OutHalf(side) == IF side = "Server" THEN "ServerToClient" ELSE "ClientToServer"

\* Faulty variant: both sides read the first half.
InHalfOut(side) == "ServerToClient"

InHalf(side) == IF side = "Server" THEN "ClientToServer" ELSE "ServerToClient"

\* The space a message takes: its data and its length word.
Frame(m) == Size[m] + LengthSize

\* Faulty variant: the length word of the last frame may lie beyond the half.
FitsExactly(at, m) == HeaderSize + at + Size[m] <= HalfSize

\* PushMessage's overrun check, Delta < m_BufSize/2, for a message written at
\* offset "at" of the data area.
Fits(at, m) == HeaderSize + at + Frame(m) < HalfSize

\* Offsets of the data area of a half, which follows its header.
Offsets == {i \in 0 .. HalfSize : HeaderSize + i < HalfSize}
=============================================================================
