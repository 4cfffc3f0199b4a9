--------------------------- MODULE ProtocolParser ---------------------------
(***************************************************************************)
(* The framing of packets on a link (ProtocolParser.cpp over CSmartBuffer):*)
(* a peer frames packets with MakeProtocolForSocket, TCP delivers the      *)
(* stream in chunks cut anywhere, and ParseSocketProtocol cuts it into     *)
(* packets again.  A packet is three header fields - checksum, command,    *)
(* length of the data - and the data; the model counts in words where the  *)
(* code counts in bytes, so the header is 3 long instead of 12.            *)
(***************************************************************************)
EXTENDS Integers, Sequences, SequencesExt, SmartBuffer

CONSTANTS
  Packets,     \* what peers send: records [command, data], data a sequence
  NoiseWords,  \* values a word damaged on the way may take
  MaxPackets,  \* bound: packets sent on the link
  MaxDamaged   \* bound: of these, packets damaged on the way

ASSUME PacketsAssumption == \A p \in Packets : p.command \in Int /\ p.data \in Seq(Int)
ASSUME NoiseAssumption == NoiseWords \subseteq Int
ASSUME BoundsAssumption == MaxPackets \in Nat /\ MaxDamaged \in Nat

HeaderLen == 3

VARIABLES
  wire,       \* the frames put on the link so far, as they will arrive
  arriving,   \* the words of wire that have not reached the server
  sBuffer,    \* the CSmartBuffer ParseSocketProtocol keeps its words in
  parsing,    \* ParseSocketProtocol is in its loop
  delivered,  \* the frames for which pParserCallback was called
  damaged,    \* how many frames were damaged
  peak,       \* the most words sBuffer ever held (history)
  mark        \* <<w, d>>: since the buffer was last emptied, frames of wire
              \* after the w-th count and deliveries after the d-th; <<>> when
              \* the rest of a frame was still to come then (history)

parserVars == <<wire, arriving, sBuffer, parsing, delivered, damaged, peak, mark>>

ParserInit ==
  /\ wire = <<>> /\ arriving = <<>> /\ sBuffer = Allocated(0)
  /\ parsing = FALSE
  /\ delivered = <<>>
  /\ damaged = 0 /\ peak = 0
  /\ mark = <<0, 0>>

(* getCheckSum: the sum of everything after the checksum field.            *)
getCheckSum(words) ==
  LET sum[i \in 0 .. Len(words)] == IF i = 0 THEN 0 ELSE sum[i - 1] + words[i]
  IN  sum[Len(words)]

(* MakeProtocolForSocket.                                                  *)
MakeProtocolForSocket(p) ==
  LET body == <<p.command, Len(p.data)>> \o p.data
  IN  <<getCheckSum(body)>> \o body

CheckCheckSum(frame) == frame[1] = getCheckSum(Tail(frame))

(* The peer sends a packet; at most MaxDamaged of them suffer one damaged  *)
(* word.                                                                   *)
Transmit(frame) ==
  /\ Len(wire) < MaxPackets
  /\ wire' = Append(wire, frame)
  /\ arriving' = arriving \o frame
  /\ UNCHANGED <<sBuffer, parsing, delivered, peak, mark>>

SendPacket(p) == Transmit(MakeProtocolForSocket(p)) /\ UNCHANGED damaged

SendDamaged(p, i, word) ==
  LET frame == MakeProtocolForSocket(p) IN
  /\ damaged < MaxDamaged
  /\ i \in DOMAIN frame /\ frame[i] # word
  /\ Transmit([frame EXCEPT ![i] = word])
  /\ damaged' = damaged + 1

(* ParseSocketProtocol is called with the next n words: append them, ...   *)
Receive(n) ==
  /\ ~parsing
  /\ sBuffer' = append(sBuffer, SubSeq(arriving, 1, n))
  /\ peak' = Max({peak, sBuffer'.data_size})
  /\ arriving' = SubSeq(arriving, n + 1, Len(arriving))
  /\ parsing' = TRUE
  /\ UNCHANGED <<wire, delivered, damaged, mark>>

(* ... then, while the buffer holds a header and the data it announces     *)
(* (packetDataLen is compared as an unsigned number, so a negative one     *)
(* never fits), ...                                                        *)
packetDataLen == sBuffer.buffer[3]

(* Mutant: one word too many is asked for.                                 *)
HoldsMore ==
  /\ sBuffer.data_size >= HeaderLen
  /\ packetDataLen >= 0
  /\ packetDataLen < sBuffer.data_size - HeaderLen

(* Mutant: the lengths are compared as signed numbers.                     *)
HoldsSigned ==
  /\ sBuffer.data_size >= HeaderLen
  /\ packetDataLen <= sBuffer.data_size - HeaderLen

HoldsPacket ==
  /\ sBuffer.data_size >= HeaderLen
  /\ packetDataLen >= 0
  /\ packetDataLen <= sBuffer.data_size - HeaderLen
First == SubSeq(sBuffer.buffer, 1, packetDataLen + HeaderLen)

(* Mutant: the header stays in the buffer.                                 *)
DeliverData ==
  /\ parsing
  /\ HoldsPacket
  /\ CheckCheckSum(First)
  /\ delivered' = Append(delivered, First)
  /\ sBuffer' = truncate(sBuffer, packetDataLen)
  /\ UNCHANGED <<wire, arriving, parsing, damaged, peak, mark>>

(* ... hand the packet to the callback, ...                                *)
Deliver ==
  /\ parsing
  /\ HoldsPacket
  /\ CheckCheckSum(First)
  /\ delivered' = Append(delivered, First)
  /\ sBuffer' = truncate(sBuffer, packetDataLen + HeaderLen)
  /\ UNCHANGED <<wire, arriving, parsing, damaged, peak, mark>>

(* ... or, on a wrong checksum, empty the buffer and leave; ...            *)
FramesFrom(w) == SubSeq(wire, w + 1, Len(wire))
Boundaries == {w \in 0 .. Len(wire) : FlattenSeq(FramesFrom(w)) = arriving}

(* Mutant: the damaged packet stays and the loop goes on.                  *)
RejectNothing ==
  /\ parsing
  /\ HoldsPacket
  /\ ~CheckCheckSum(First)
  /\ UNCHANGED parserVars

Reject ==
  /\ parsing
  /\ HoldsPacket
  /\ ~CheckCheckSum(First)
  /\ sBuffer' = empty(sBuffer)
  /\ parsing' = FALSE
  /\ mark' = IF Boundaries = {} THEN <<>>
             ELSE <<CHOOSE w \in Boundaries : TRUE, Len(delivered)>>
  /\ UNCHANGED <<wire, arriving, delivered, damaged, peak>>

(* ... otherwise keep the rest for the next call.                          *)
Await ==
  /\ parsing
  /\ ~HoldsPacket
  /\ parsing' = FALSE
  /\ UNCHANGED <<wire, arriving, sBuffer, delivered, damaged, peak, mark>>

Loop == Deliver \/ Reject \/ Await

ParserNext ==
  \/ \E p \in Packets :
       \/ SendPacket(p)
       \/ \E i \in 1 .. HeaderLen + Len(p.data), word \in NoiseWords :
            SendDamaged(p, i, word)
  \/ \E n \in 1 .. Len(arriving) : Receive(n)
  \/ Loop

ParserSpec == ParserInit /\ [][ParserNext]_parserVars /\ WF_parserVars(Loop)
-----------------------------------------------------------------------------
(* The type of the state; what is handed to the callback is one packet, as *)
(* long as its header says.                                                *)
ParserTypeOK ==
  /\ arriving \in Seq(Int)
  /\ sBuffer.buffer \in Seq(Int) /\ sBuffer.data_size \in 0 .. Len(sBuffer.buffer)
  /\ peak \in Nat
  /\ wire \in Seq(Seq(Int)) /\ delivered \in Seq(Seq(Int))
  /\ \A i \in DOMAIN delivered :
       Len(delivered[i]) >= HeaderLen /\ Len(delivered[i]) = HeaderLen + delivered[i][3]
  /\ parsing \in BOOLEAN
  /\ damaged \in 0 .. MaxDamaged
  /\ mark \in Seq(Nat)

DamagedSince(w) ==
  \E i \in w + 1 .. Len(wire) :
    ~\E p \in Packets : wire[i] = MakeProtocolForSocket(p)

(* However TCP cuts the stream, the packets handed to the callback, the    *)
(* words kept in the buffer and those still to arrive are together the     *)
(* packets that were sent, in order, none lost and none twice - counting   *)
(* from the last time the buffer was emptied, if that happened between two *)
(* packets, and until the next damaged packet.                             *)
StreamAccounted ==
  mark # <<>> /\ ~DamagedSince(mark[1]) =>
    FlattenSeq(SubSeq(delivered, mark[2] + 1, Len(delivered)))
      \o data(sBuffer) \o arriving = FlattenSeq(FramesFrom(mark[1]))

(* The memory of a link follows what waits on it and not what went over it:*)
(* however many packets came and went, no more is allocated than the most  *)
(* that ever waited at once and one step.                                  *)
MemoryFollowsBacklog == Len(sBuffer.buffer) <= peak + step_size

(* No complete packet is left waiting in the buffer between two calls: if  *)
(* everything sent has arrived, everything sent has been handed over.      *)
NothingLeftWaiting ==
  mark # <<>> /\ ~parsing /\ ~DamagedSince(mark[1]) =>
    /\ Len(delivered) - mark[2] <= Len(wire) - mark[1]
    /\ arriving = <<>> => Len(delivered) - mark[2] = Len(wire) - mark[1]

(* Every call of ParseSocketProtocol returns.                              *)
ParseReturns == parsing ~> ~parsing

(* A header that announces a negative length blocks the link: nothing is   *)
(* handed to the callback any more, whatever else arrives.                 *)
Wedged == sBuffer.data_size >= HeaderLen /\ packetDataLen < 0
WedgedForGood == [][Wedged => Wedged' /\ delivered' = delivered]_parserVars
=============================================================================
