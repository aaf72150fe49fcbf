------------------------------ MODULE Telegram ------------------------------
(***************************************************************************)
(* telegram/: how a balise telegram posted as JSON becomes the user data   *)
(* that a BTM delivers.  The payload is validated field by field, written  *)
(* most significant bit first, closed by eight ones and padded with zeros  *)
(* to a frame of 830 bits.                                                 *)
(*                                                                         *)
(* A field holds its coded integer; NotCoded stands for one that is        *)
(* missing or no integer.  A conditional field is a set: empty for null.   *)
(* Objects with unknown fields are refused before anything else and are    *)
(* not represented.  RestApi posts telegrams and states what their frames  *)
(* must satisfy.                                                           *)
(***************************************************************************)
EXTENDS Integers, Sequences, SequencesExt

NotCoded == -1
FrameBits == 830
FrameBytes == 104
UserPacketAreaBits == 772
EotValue == 255
EotBits == 8
MaxTransitions == 31

\* Q_UPDOWN, M_VERSION, Q_MEDIA, N_PIG, N_TOTAL, M_DUP, M_MCOUNTER, NID_C,
\* NID_BG, Q_LINK.
HeaderWidths == <<1, 7, 1, 3, 3, 2, 8, 10, 14, 1>>

\* A telegram as the writer takes it, whatever its fields hold.
Optional(S) == {s \in SUBSET S : \A u, v \in s : u = v}
ItemShape == [m_leveltr : Int, nid_stm : Optional(Int), l_ackleveltr : Int]
PacketShape ==
  [packet : Int, q_dir : Int, l_packet : Int, q_scale : Int, d_leveltr : Int, m_leveltr : Int,
   nid_stm : Optional(Int), l_ackleveltr : Int, n_iter : Int, transitions : Seq(ItemShape)]
TelegramShape == [header : [DOMAIN HeaderWidths -> Int], packets : Seq(PacketShape)]

-----------------------------------------------------------------------------
(* Validation.                                                             *)

Coded(value, width) == 0 <= value /\ value < 2^width

\* NID_STM is there exactly while M_LEVELTR says STM, else explicitly null.
NidStmAccepted(e) ==
  IF e.m_leveltr = 1 THEN \E v \in e.nid_stm : Coded(v, 8) ELSE e.nid_stm = {}

ItemAccepted(e) == Coded(e.m_leveltr, 3) /\ NidStmAccepted(e) /\ Coded(e.l_ackleveltr, 15)

PacketAccepted(p) ==
  /\ p.packet = 41
  /\ Coded(p.q_dir, 2) /\ Coded(p.l_packet, 13) /\ Coded(p.q_scale, 2) /\ Coded(p.d_leveltr, 15)
  /\ ItemAccepted(p)
  /\ Len(p.transitions) <= MaxTransitions
  /\ \A i \in DOMAIN p.transitions : ItemAccepted(p.transitions[i])
  /\ Coded(p.n_iter, 5)

Accepted(t) ==
  /\ t.packets # <<>>
  /\ \A i \in DOMAIN t.packets : PacketAccepted(t.packets[i])
  /\ \A i \in DOMAIN HeaderWidths : Coded(t.header[i], HeaderWidths[i])

-----------------------------------------------------------------------------
(* Writing.  A telegram is written as a sequence of <<value, width>>.      *)

\* Mutation: NID_STM is written whenever it is coded, at the end of its item.
ItemFieldsStmLast(e) ==
  <<<<e.m_leveltr, 3>>, <<e.l_ackleveltr, 15>>>>
  \o (IF e.m_leveltr = 1 THEN <<<<CHOOSE v \in e.nid_stm : TRUE, 8>>>> ELSE <<>>)

ItemFields(e) ==
  <<<<e.m_leveltr, 3>>>>
  \o (IF e.m_leveltr = 1 THEN <<<<CHOOSE v \in e.nid_stm : TRUE, 8>>>> ELSE <<>>)
  \o <<<<e.l_ackleveltr, 15>>>>

PacketFields(p) ==
  <<<<p.packet, 8>>, <<p.q_dir, 2>>, <<p.l_packet, 13>>, <<p.q_scale, 2>>, <<p.d_leveltr, 15>>>>
  \o ItemFields(p) \o <<<<p.n_iter, 5>>>>
  \o FlattenSeq([i \in DOMAIN p.transitions |-> ItemFields(p.transitions[i])])

HeaderFields(t) == [i \in DOMAIN HeaderWidths |-> <<t.header[i], HeaderWidths[i]>>]

Fields(t) ==
  HeaderFields(t) \o FlattenSeq([i \in DOMAIN t.packets |-> PacketFields(t.packets[i])])
  \o <<<<EotValue, EotBits>>>>

\* BitWriter.write, for one field and for many.
BitsOf(field) == [i \in 1..field[2] |-> (field[1] \div 2^(field[2] - i)) % 2]
Written(fields) == FlattenSeq([i \in DOMAIN fields |-> BitsOf(fields[i])])

\* Mutation: the information end is not counted against the frame.
FitsWithoutEnd(bits) == Len(bits) - EotBits <= FrameBits

Fits(bits) == Len(bits) <= FrameBits

\* The writer pads to the frame, to_bytes() to whole bytes.
Padded(bits) == bits \o [i \in 1..(8 * FrameBytes - Len(bits)) |-> 0]

\* The frame of a telegram; {} if it is refused.
EncodeTelegram(t) ==
  LET bits == Written(Fields(t))
  IN  IF Accepted(t) /\ Fits(bits) THEN {Padded(bits)} ELSE {}

-----------------------------------------------------------------------------
(* A reader of frames, written from the frame and packet tables.           *)

Value(bits, from, width) ==
  LET number[i \in 0..width] == IF i = 0 THEN 0 ELSE 2 * number[i - 1] + bits[from + i - 1]
  IN  number[width]

\* An item at a position, and the position behind it.
ReadItem(bits, from) ==
  LET stm == Value(bits, from, 3) = 1
      ack == from + 3 + (IF stm THEN 8 ELSE 0)
  IN  [item |-> [m_leveltr |-> Value(bits, from, 3),
                 nid_stm |-> IF stm THEN {Value(bits, from + 3, 8)} ELSE {},
                 l_ackleveltr |-> Value(bits, ack, 15)],
       next |-> ack + 15]

ReadItems(bits, from, count) ==
  LET starts[i \in 0..count] == IF i = 0 THEN from ELSE ReadItem(bits, starts[i - 1]).next
  IN  [i \in 1..count |-> ReadItem(bits, starts[i - 1]).item]

ReadPacket(bits, from) ==
  LET main == ReadItem(bits, from + 40)
      count == Value(bits, main.next, 5)
  IN  [packet |-> Value(bits, from, 8), q_dir |-> Value(bits, from + 8, 2),
       l_packet |-> Value(bits, from + 10, 13), q_scale |-> Value(bits, from + 23, 2),
       d_leveltr |-> Value(bits, from + 25, 15), m_leveltr |-> main.item.m_leveltr,
       nid_stm |-> main.item.nid_stm, l_ackleveltr |-> main.item.l_ackleveltr,
       n_iter |-> count, transitions |-> ReadItems(bits, main.next + 5, count)]

\* The next packet begins where L_PACKET says that this one ends; eight ones in
\* its place end the telegram.
Ended(bits, at) == Value(bits, at, EotBits) = EotValue
Behind(bits, at) == IF Ended(bits, at) THEN at ELSE at + 23 + Value(bits, at + 10, 13)

ReadPackets(bits) ==
  LET starts[i \in 0..Len(bits)] == IF i = 0 THEN 51 ELSE Behind(bits, starts[i - 1])
      count == CHOOSE n \in DOMAIN starts :
                 Ended(bits, starts[n]) /\ \A i \in 0..(n - 1) : ~Ended(bits, starts[i])
  IN  [i \in 1..count |-> ReadPacket(bits, starts[i - 1])]

ReadHeader(bits) ==
  LET starts[i \in DOMAIN HeaderWidths] ==
        IF i = 1 THEN 1 ELSE starts[i - 1] + HeaderWidths[i - 1]
  IN  [i \in DOMAIN HeaderWidths |-> Value(bits, starts[i], HeaderWidths[i])]

\* The sum of a sequence of numbers.
Total(numbers) ==
  LET sum[i \in 0..Len(numbers)] == IF i = 0 THEN 0 ELSE sum[i - 1] + numbers[i]
  IN  sum[Len(numbers)]

\* The bits of an item and of a packet behind L_PACKET, from the packet table.
ItemBits(e) == IF e.m_leveltr = 1 THEN 26 ELSE 18
BitsBehindLPacket(p) ==
  22 + ItemBits(p) + Total([i \in DOMAIN p.transitions |-> ItemBits(p.transitions[i])])

\* L_PACKET and N_ITER are the caller's, and these are what the table says.
Consistent(t) ==
  \A i \in DOMAIN t.packets : /\ t.packets[i].n_iter = Len(t.packets[i].transitions)
                              /\ t.packets[i].l_packet = BitsBehindLPacket(t.packets[i])

\* The bits of the user packet area that a telegram takes.
BitsOfPackets(t) == Total([i \in DOMAIN t.packets |-> 23 + BitsBehindLPacket(t.packets[i])])

=============================================================================
