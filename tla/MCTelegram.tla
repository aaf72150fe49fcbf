----------------------------- MODULE MCTelegram -----------------------------
(* Telegrams for TLC to post. *)
EXTENDS Telegram

Plain == [m_leveltr |-> 2, nid_stm |-> {}, l_ackleveltr |-> 5]
Stm == [m_leveltr |-> 1, nid_stm |-> {7}, l_ackleveltr |-> 32767]

\* One valid item, and items at and beyond the edges of their fields.
Items ==
  {Plain, Stm}
  \union [m_leveltr : {0, 1, 7}, nid_stm : {{}, {0}, {255}}, l_ackleveltr : {0, 32767}]
  \union {[Plain EXCEPT !.m_leveltr = v] : v \in {NotCoded, 8}}
  \union {[Stm EXCEPT !.nid_stm = {v}] : v \in {NotCoded, 256}}
  \union {[Plain EXCEPT !.l_ackleveltr = v] : v \in {NotCoded, 32768}}

\* A packet with the lengths its table prescribes.
Packet(main, transitions) ==
  LET p == [packet |-> 41, q_dir |-> 1, l_packet |-> 0, q_scale |-> 0, d_leveltr |-> 1234,
            m_leveltr |-> main.m_leveltr, nid_stm |-> main.nid_stm,
            l_ackleveltr |-> main.l_ackleveltr, n_iter |-> Len(transitions),
            transitions |-> transitions]
  IN  [p EXCEPT !.l_packet = BitsBehindLPacket(p)]

Many(item, n) == [i \in 1..n |-> item]

Transitions ==
  {<<>>} \union {<<e>> : e \in Items} \union {<<Stm, Plain>>, <<Plain, Stm>>}
  \union {Many(Plain, 31), Many(Plain, 32), Many(Stm, 24), Many(Stm, 25)}

Edge(value, width) == {NotCoded, 0, 2^width - 1, 2^width}

Packets ==
  {Packet(Plain, items) : items \in Transitions} \union {Packet(e, <<Stm>>) : e \in Items}
  \union {[Packet(Stm, <<>>) EXCEPT !.packet = n] : n \in {NotCoded, 42}}
  \union {[Packet(Stm, <<>>) EXCEPT !.q_dir = v] : v \in Edge(0, 2)}
  \union {[Packet(Stm, <<Plain>>) EXCEPT !.l_packet = v] : v \in Edge(0, 13)}
  \union {[Packet(Stm, <<>>) EXCEPT !.q_scale = v] : v \in Edge(0, 2)}
  \union {[Packet(Stm, <<>>) EXCEPT !.d_leveltr = v] : v \in Edge(0, 15)}
  \union {[Packet(Stm, <<Plain>>) EXCEPT !.n_iter = v] : v \in Edge(0, 5)}

Header == <<1, 3, 0, 0, 7, 2, 255, 83, 1000, 0>>

Headers ==
  {Header} \union {[Header EXCEPT ![i] = v] : i \in {1}, v \in Edge(0, 1)}
  \union UNION {{[Header EXCEPT ![i] = v] : v \in Edge(0, HeaderWidths[i])} : i \in 1..9}

Small == Packet(Plain, <<>>)

\* Two packets of 63 bits with 34 items between them: 772 bits with two STM
\* conditions, 774 with 36 plain items, 780 with three STM conditions.
AtTheLimit ==
  {<<Packet(Plain, Many(Plain, 31)), Packet(Plain, <<Stm, Stm>> \o Many(Plain, n))>> : n \in 1..3}
  \union {<<Packet(Stm, Many(Plain, 31)), Packet(Stm, Many(Plain, n))>> : n \in 2..4}
  \union {<<Packet(Plain, Many(Plain, 31)), Packet(Plain, Many(Plain, n))>> : n \in 4..5}
  \union {Many(Small, n) : n \in {0, 3, 12, 13}}

Sample == [header |-> Header, packets |-> <<Small>>]
Refused == [header |-> Header, packets |-> <<>>]

McTelegrams ==
  [header : {Header}, packets : {<<p>> : p \in Packets} \union AtTheLimit
                                \union {<<Small, p, Small>> : p \in {Packet(Stm, <<Stm, Plain>>)}}]
  \union [header : Headers, packets : {<<Small>>}]
=============================================================================
