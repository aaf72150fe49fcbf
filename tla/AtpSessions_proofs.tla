------------------------ MODULE AtpSessions_proofs ------------------------
(***************************************************************************)
(* The commands of the ATP sessions: every message is carried out, once    *)
(* and in order, every refusal is reported, and the two doors stay         *)
(* together, for any number of peers.                                      *)
(*                                                                         *)
(* The invariant follows each message from its first command to its last:  *)
(* what is to do and what is applied are the two parts of one message      *)
(* (UnderWay), a session has one command in the queue or one answer        *)
(* (OneEach), only stop() leaves commands behind that nobody waits for     *)
(* (EndedLate), and the left door shows where the commands under way will  *)
(* bring the right one (DoorsFollow).                                      *)
(***************************************************************************)
EXTENDS AtpManager_proofs, SequenceTheorems

\* Three sequences one after the other.
LEMMA ConcatThree ==
  ASSUME NEW S, NEW a \in Seq(S), NEW b \in Seq(S), NEW c \in Seq(S)
  PROVE  /\ a \o b \o c \in Seq(S)
         /\ Len(a \o b \o c) = Len(a) + Len(b) + Len(c)
         /\ \A i \in 1..(Len(a) + Len(b) + Len(c)) :
              (a \o b \o c)[i] = IF i <= Len(a) THEN a[i]
                                 ELSE IF i <= Len(a) + Len(b) THEN b[i - Len(a)]
                                 ELSE c[i - Len(a) - Len(b)]
<1>1. a \o b \in Seq(S) /\ Len(a \o b) = Len(a) + Len(b)
  BY ConcatProperties
<1>2. \A i \in 1..(Len(a) + Len(b)) : (a \o b)[i] = IF i <= Len(a) THEN a[i] ELSE b[i - Len(a)]
  BY ConcatProperties
<1> DEFINE ab == a \o b
<1>3. /\ ab \o c \in Seq(S) /\ Len(ab \o c) = Len(ab) + Len(c)
      /\ \A i \in 1..(Len(ab) + Len(c)) : (ab \o c)[i] = IF i <= Len(ab) THEN ab[i] ELSE c[i - Len(ab)]
  <2>1. ab \in Seq(S)
    BY <1>1
  <2> HIDE DEF ab
  <2> QED BY <2>1, ConcatProperties
<1>4. Len(a) \in Nat /\ Len(b) \in Nat /\ Len(c) \in Nat
  BY LenProperties
<1> QED BY <1>1, <1>2, <1>3, <1>4

\* What a session submits: never a reset, and a door command says which way.
Door == {"left", "right"}
Order == {c \in Command : c.target # "reset" /\ (c.target \in Door => c.value \in DoorStates)}

\* A message asks for one to four orders with different targets, and the doors
\* follow one another with the same value (_handle_atp_command).
LEMMA CommandsShape ==
  ASSUME AtpAssumption, NEW m \in Messages
  PROVE  LET s == CommandsOf(m) IN
         /\ s \in Seq(Order)
         /\ Len(s) \in 1..4
         /\ \A i, j \in 1..Len(s) : s[i].target = s[j].target => i = j
         /\ \A i \in 1..Len(s) : s[i].target = "left" =>
              i < Len(s) /\ s[i + 1].target = "right" /\ s[i + 1].value = s[i].value
         /\ \A i \in 1..Len(s) : s[i].target = "right" => i > 1 /\ s[i - 1].target = "left"
<1>1. /\ m.cab \in Nat /\ m.drive \in BOOLEAN /\ m.door \subseteq DoorStates
      /\ m.signal \in BOOLEAN /\ (m.drive \/ m.door # {} \/ m.signal)
  <2>1. m \in MessageType /\ (m.drive \/ m.door # {} \/ m.signal)
    BY DEF AtpAssumption
  <2> QED BY <2>1 DEF MessageType
<1> DEFINE Part(target, value) == [target |-> target, cab |-> m.cab, value |-> value]
           d == CHOOSE d \in m.door : TRUE
           s1 == IF m.drive THEN <<Part("drive", "")>> ELSE <<>>
           s2 == IF m.door = {} THEN <<>> ELSE <<Part("left", d), Part("right", d)>>
           s3 == IF m.signal THEN <<Part("signal", "")>> ELSE <<>>
<1>2. CommandsOf(m) = s1 \o s2 \o s3
  BY Zenon DEF CommandsOf
<1>3. m.door # {} => d \in DoorStates
  BY <1>1
<1> HIDE DEF d
<1>5. /\ s1 \in Seq(Order) /\ Len(s1) \in {0, 1}
      /\ Len(s1) = 1 => s1[1].target = "drive"
      /\ m.drive => Len(s1) = 1
  <2>1. CASE m.drive
    <3>1. s1 = <<Part("drive", "")>>
      BY <2>1
    <3>2. Part("drive", "") \in Order /\ Part("drive", "").target = "drive"
      BY <1>1 DEF Order, Command, Targets, Door
    <3> DEFINE x == Part("drive", "")
    <3>3. s1 = <<x>> /\ x \in Order /\ x.target = "drive"
      BY <3>1, <3>2
    <3> HIDE DEF s1, x
    <3>4. s1 \in Seq(Order) /\ Len(s1) = 1 /\ s1[1].target = "drive"
      BY <3>3
    <3> QED BY <3>4
  <2>2. CASE ~m.drive
    <3>1. s1 = <<>>
      BY <2>2
    <3> HIDE DEF s1
    <3> QED BY <3>1, <2>2
  <2> HIDE DEF s1
  <2> QED BY <2>1, <2>2, Zenon
<1>6. /\ s2 \in Seq(Order) /\ Len(s2) \in {0, 2}
      /\ Len(s2) = 2 => s2[1].target = "left" /\ s2[2].target = "right" /\ s2[1].value = s2[2].value
      /\ m.door # {} => Len(s2) = 2
  <2>1. CASE m.door # {}
    <3>1. s2 = <<Part("left", d), Part("right", d)>> /\ d \in DoorStates
      BY <2>1, <1>3
    <3>2. /\ Part("left", d) \in Order /\ Part("left", d).target = "left"
          /\ Part("left", d).value = d
      BY <3>1, <1>1 DEF Order, Command, Targets, Door
    <3>3. /\ Part("right", d) \in Order /\ Part("right", d).target = "right"
          /\ Part("right", d).value = d
      BY <3>1, <1>1 DEF Order, Command, Targets, Door
    <3> HIDE DEF s2, Part
    <3> QED BY <3>1, <3>2, <3>3
  <2>2. CASE m.door = {}
    <3>1. s2 = <<>>
      BY <2>2
    <3> HIDE DEF s2
    <3> QED BY <3>1, <2>2
  <2> QED BY <2>1, <2>2
<1>7. /\ s3 \in Seq(Order) /\ Len(s3) \in {0, 1}
      /\ Len(s3) = 1 => s3[1].target = "signal"
      /\ m.signal => Len(s3) = 1
  <2>1. CASE m.signal
    <3>1. s3 = <<Part("signal", "")>>
      BY <2>1
    <3>2. Part("signal", "") \in Order /\ Part("signal", "").target = "signal"
      BY <1>1 DEF Order, Command, Targets, Door
    <3> DEFINE x == Part("signal", "")
    <3>3. s3 = <<x>> /\ x \in Order /\ x.target = "signal"
      BY <3>1, <3>2
    <3> HIDE DEF s3, x
    <3>4. s3 \in Seq(Order) /\ Len(s3) = 1 /\ s3[1].target = "signal"
      BY <3>3
    <3> QED BY <3>4
  <2>2. CASE ~m.signal
    <3>1. s3 = <<>>
      BY <2>2
    <3> HIDE DEF s3
    <3> QED BY <3>1, <2>2
  <2> QED BY <2>1, <2>2
<1> HIDE DEF s1, s2, s3
<1> DEFINE s == s1 \o s2 \o s3
<1>8. /\ s \in Seq(Order)
      /\ Len(s) = Len(s1) + Len(s2) + Len(s3)
      /\ \A i \in 1..Len(s) : s[i] = IF i <= Len(s1) THEN s1[i]
                                     ELSE IF i <= Len(s1) + Len(s2) THEN s2[i - Len(s1)]
                                     ELSE s3[i - Len(s1) - Len(s2)]
  <2>1. s1 \in Seq(Order) /\ s2 \in Seq(Order) /\ s3 \in Seq(Order)
    BY <1>5, <1>6, <1>7
  <2> QED BY <2>1, ConcatThree
<1>9. Len(s) \in 1..4
  <2>1. Len(s1) \in {0, 1} /\ Len(s2) \in {0, 2} /\ Len(s3) \in {0, 1}
    BY <1>5, <1>6, <1>7
  <2>2. Len(s1) = 1 \/ Len(s2) = 2 \/ Len(s3) = 1
    BY <1>1, <1>5, <1>6, <1>7, Zenon
  <2>3. Len(s) = Len(s1) + Len(s2) + Len(s3)
    BY <1>8
  <2> DEFINE x == Len(s1)
             y == Len(s2)
             z == Len(s3)
  <2>4. x \in {0, 1} /\ y \in {0, 2} /\ z \in {0, 1} /\ (x = 1 \/ y = 2 \/ z = 1) /\ Len(s) = x + y + z
    BY <2>1, <2>2, <2>3
  <2> HIDE DEF s, x, y, z
  <2> QED BY <2>4
<1> HIDE DEF s
<1> DEFINE a == Len(s1)
           b == Len(s2)
           c == Len(s3)
<1>10. \A i \in 1..Len(s) : \/ i = 1 /\ a = 1 /\ s[i].target = "drive"
                            \/ i = a + 1 /\ b = 2 /\ s[i].target = "left" /\ s[i].value = s2[1].value
                            \/ i = a + 2 /\ b = 2 /\ s[i].target = "right" /\ s[i].value = s2[1].value
                            \/ i = a + b + 1 /\ Len(s) = a + b + 1 /\ s[i].target = "signal"
  <2> TAKE i \in 1..Len(s)
  <2>0. a \in {0, 1} /\ b \in {0, 2} /\ c \in {0, 1} /\ Len(s) = a + b + c
    BY <1>5, <1>6, <1>7, <1>8
  <2> HIDE DEF a, b, c
  <2>1. CASE i <= a
    <3>1. i = 1 /\ a = 1 /\ s[i] = s1[1]
      BY <2>0, <2>1, <1>8 DEF a
    <3> QED BY <3>1, <1>5 DEF a
  <2>2. CASE i = a + 1 /\ b = 2
    <3>1. s[i] = s2[1]
      BY <2>0, <2>2, <1>8 DEF a, b
    <3> QED BY <3>1, <2>2, <1>6 DEF b
  <2>3. CASE i = a + 2 /\ b = 2
    <3>1. s[i] = s2[2]
      BY <2>0, <2>3, <1>8 DEF a, b
    <3> QED BY <3>1, <2>3, <1>6 DEF b
  <2>4. CASE i > a + b
    <3>1. c = 1 /\ i = a + b + 1
      BY <2>0, <2>4
    <3>2. s[i] = s3[1]
      BY <2>0, <3>1, <1>8 DEF a, b
    <3> QED BY <2>0, <3>1, <3>2, <1>7 DEF c
  <2> QED BY <2>0, <2>1, <2>2, <2>3, <2>4
<1>11. a \in {0, 1} /\ b \in {0, 2} /\ Len(s) \in Nat /\ (b = 2 => Len(s) >= a + 2)
  BY <1>5, <1>6, <1>7, <1>8
<1> HIDE DEF a, b
<1>12. \A i, j \in 1..Len(s) : s[i].target = s[j].target => i = j
  BY <1>10, <1>11
<1>13. \A i \in 1..Len(s) : s[i].target = "left" =>
          i < Len(s) /\ s[i + 1].target = "right" /\ s[i + 1].value = s[i].value
  <2> SUFFICES ASSUME NEW i \in 1..Len(s), s[i].target = "left"
               PROVE  i < Len(s) /\ s[i + 1].target = "right" /\ s[i + 1].value = s[i].value
    OBVIOUS
  <2>1. i = a + 1 /\ b = 2 /\ s[i].value = s2[1].value
    BY <1>10
  <2>2. i + 1 \in 1..Len(s) /\ i + 1 = a + 2
    BY <2>1, <1>11
  <2>3. s[i + 1].target = "right" /\ s[i + 1].value = s2[1].value
    BY <2>1, <2>2, <1>10, <1>11
  <2> QED BY <2>1, <2>2, <2>3
<1>14. \A i \in 1..Len(s) : s[i].target = "right" => i > 1 /\ s[i - 1].target = "left"
  <2> SUFFICES ASSUME NEW i \in 1..Len(s), s[i].target = "right"
               PROVE  i > 1 /\ s[i - 1].target = "left"
    OBVIOUS
  <2>1. i = a + 2 /\ b = 2
    BY <1>10
  <2>2. i - 1 \in 1..Len(s) /\ i - 1 = a + 1
    BY <2>1, <1>11
  <2> QED BY <2>1, <2>2, <1>10, <1>11
<1> QED BY <1>2, <1>8, <1>9, <1>12, <1>13, <1>14 DEF s

-----------------------------------------------------------------------------
(* The commands of the sessions, the answers to them and the doors.        *)

\* What waits in the core's queue: an order of a session, or another's reset.
Entry == {c \in [by : Peers \cup {Other}, target : Targets, cab : Nat,
                 value : DoorStates \cup {""}] :
            /\ c.target = "reset" <=> c.by = Other
            /\ c.target \in Door => c.value \in DoorStates}

SessionTypes ==
  /\ todo \in [Peers -> Seq(Order)]
  /\ commands \in Seq(Entry)
  /\ woken \in Seq([by : Peers, ok : BOOLEAN])
  /\ doors \in [Door -> DoorStates]
  /\ applied \in [Peers -> Seq(Targets)]
  /\ refused \in [Peers -> Nat] /\ reported \in [Peers -> Nat]

\* The phases in which the sessions are cancelled, or have been.
Late == {"ending sessions"} \cup Over

\* A session waits for one command at a time, and is answered after it has left
\* the queue.
OneEach ==
  /\ \A i, j \in 1..Len(commands) :
       commands[i].by \in Peers /\ commands[i].by = commands[j].by => i = j
  /\ \A i, j \in 1..Len(woken) : woken[i].by = woken[j].by => i = j
  /\ \A i \in 1..Len(woken) : /\ pc[woken[i].by] = "submitting"
                              /\ \A j \in 1..Len(commands) : commands[j].by # woken[i].by
  /\ \A p \in Peers : pc[p] = "submitting" <=> todo[p] # <<>>

\* Only stop() cancels sessions, all of them and for good: a command in the
\* queue that nobody waits for belongs to a session it has ended.
EndedLate ==
  /\ \A p \in Peers : cancelled[p] => phase \in Late
  /\ \A p \in Peers : phase \in Late /\ pc[p] \in {"reading", "submitting"} => cancelled[p]
  /\ \A i \in 1..Len(commands) :
       commands[i].by \in Peers => pc[commands[i].by] = "submitting" \/ phase \in Late

Answered(p) == \E i \in 1..Len(woken) : woken[i].by = p

\* p submits the k-th command of m: the rest of m is to do, and what comes before
\* it is applied, it included once the core has answered.
OnMessage(p, m, k) ==
  LET s == CommandsOf(m) IN
  /\ Len(todo[p]) = Len(s) - k + 1
  /\ \A i \in 1..Len(todo[p]) : todo[p][i] = s[k + i - 1]
  /\ Len(applied[p]) = IF Answered(p) THEN k ELSE k - 1
  /\ \A i \in 1..Len(applied[p]) : applied[p][i] = s[i].target
  /\ \A i \in 1..Len(commands) : commands[i].by = p =>
       commands[i].target = s[k].target /\ commands[i].value = s[k].value

HasMessage(p) == \E m \in Messages : \E k \in 1..Len(CommandsOf(m)) : OnMessage(p, m, k)
UnderWay == \A p \in Peers : pc[p] = "submitting" => HasMessage(p)

\* A session that reads has carried out all of its last message.
CarriedOut ==
  \A p \in Peers : pc[p] = "reading" /\ applied[p] # <<>> =>
    \E m \in Messages : /\ Len(applied[p]) = Len(CommandsOf(m))
                        /\ \A i \in 1..Len(applied[p]) : applied[p][i] = CommandsOf(m)[i].target

\* The errors lag behind the refusals by the one that is on its way.
Refusal(p) == \E i \in 1..Len(woken) : woken[i].by = p /\ ~woken[i].ok
Reports ==
  \A p \in Peers : transport[p] = "open" /\ pc[p] \in {"reading", "submitting"} =>
    /\ Refusal(p) => refused[p] = reported[p] + 1
    /\ ~Refusal(p) => refused[p] = reported[p]

\* The rights in the queue, and after them the lefts just answered, are what the
\* right door has still to follow.  The left door is where the last of them will
\* bring the right one.
LeftWoken(i) == todo[woken[i].by][1].target = "left"
LastLeft(i) == LeftWoken(i) /\ \A j \in 1..Len(woken) : j > i => ~LeftWoken(j)
LastRight(i) ==
  commands[i].target = "right" /\ \A j \in 1..Len(commands) : j > i => commands[j].target # "right"
DoorsFollow ==
  /\ \A i \in 1..Len(commands) :
       commands[i].target \in Door => pc[commands[i].by] = "submitting"
  /\ \A i \in 1..Len(woken) : LastLeft(i) => todo[woken[i].by][1].value = doors["left"]
  /\ (\A i \in 1..Len(woken) : ~LeftWoken(i)) =>
       /\ \A i \in 1..Len(commands) : LastRight(i) => commands[i].value = doors["left"]
       /\ (\A i \in 1..Len(commands) : commands[i].target # "right") => doors["left"] = doors["right"]

SessionInv ==
  /\ SessionTypes /\ OneEach /\ EndedLate /\ UnderWay /\ CarriedOut /\ Reports
  /\ ~split => DoorsFollow

-----------------------------------------------------------------------------
\* What a sequence is without its i-th element.
LEMMA Removed ==
  ASSUME NEW S, NEW s \in Seq(S), NEW i \in 1..Len(s)
  PROVE  /\ RemoveAt(s, i) \in Seq(S)
         /\ Len(RemoveAt(s, i)) = Len(s) - 1
         /\ \A j \in 1..(Len(s) - 1) : RemoveAt(s, i)[j] = IF j < i THEN s[j] ELSE s[j + 1]
<1> DEFINE a == SubSeq(s, 1, i - 1)
           b == SubSeq(s, i + 1, Len(s))
<1>1. Len(s) \in Nat
  BY LenProperties
<1>2. a \in Seq(S) /\ Len(a) = i - 1 /\ \A j \in 1..(i - 1) : a[j] = s[j]
  BY <1>1, SubSeqProperties
<1>3. b \in Seq(S) /\ Len(b) = Len(s) - i /\ \A j \in 1..(Len(s) - i) : b[j] = s[j + i]
  BY <1>1, SubSeqProperties
<1>4. RemoveAt(s, i) = a \o b
  BY DEF RemoveAt
<1> HIDE DEF a, b
<1>5. /\ a \o b \in Seq(S) /\ Len(a \o b) = Len(a) + Len(b)
      /\ \A j \in 1..(Len(a) + Len(b)) : (a \o b)[j] = IF j <= Len(a) THEN a[j] ELSE b[j - Len(a)]
  BY <1>2, <1>3, ConcatProperties
<1> QED BY <1>1, <1>2, <1>3, <1>4, <1>5

\* What a submission adds to the queue.
LEMMA Submitted ==
  ASSUME AtpAssumption, SessionTypes, NEW p \in Peers, NEW rest \in Seq(Order), rest # <<>>,
         Submit(p, rest)
  PROVE  /\ todo' \in [Peers -> Seq(Order)] /\ commands' \in Seq(Entry)
         /\ todo'[p] = rest /\ \A q \in Peers : q # p => todo'[q] = todo[q]
         /\ Len(commands') = Len(commands) + 1
         /\ \A i \in 1..Len(commands) : commands'[i] = commands[i]
         /\ commands'[Len(commands) + 1].by = p
         /\ commands'[Len(commands) + 1].target = rest[1].target
         /\ commands'[Len(commands) + 1].value = rest[1].value
<1> DEFINE c == [by |-> p, target |-> Head(rest).target, cab |-> Head(rest).cab,
                 value |-> Head(rest).value]
<1>1. Head(rest) = rest[1] /\ rest[1] \in Order
  BY HeadTailProperties, EmptySeq, ElementOfSeq
<1>2. c \in Entry /\ c.by = p /\ c.target = rest[1].target /\ c.value = rest[1].value
  BY <1>1 DEF Entry, Order, Command, AtpAssumption
<1>3. commands \in Seq(Entry) /\ commands' = Append(commands, c)
  BY DEF SessionTypes, Submit
<1> HIDE DEF c
<1>4. /\ commands' \in Seq(Entry) /\ Len(commands') = Len(commands) + 1
      /\ \A i \in 1..Len(commands) : commands'[i] = commands[i]
      /\ commands'[Len(commands) + 1] = c
  BY <1>2, <1>3, AppendProperties
<1>5. /\ todo' \in [Peers -> Seq(Order)]
      /\ todo'[p] = rest /\ \A q \in Peers : q # p => todo'[q] = todo[q]
  BY DEF SessionTypes, Submit
<1> QED BY <1>2, <1>4, <1>5

\* Another client's reset joins the queue.
LEMMA ResetAsked ==
  ASSUME AtpAssumption, SessionTypes, AskReset
  PROVE  /\ commands' \in Seq(Entry)
         /\ Len(commands') = Len(commands) + 1 /\ Len(commands) \in Nat
         /\ \A i \in 1..Len(commands) : commands'[i] = commands[i]
         /\ commands'[Len(commands')].by \notin Peers
         /\ commands'[Len(commands')].target = "reset"
<1> DEFINE c == [by |-> Other, target |-> "reset", cab |-> 0, value |-> ""]
<1>1. c \in Entry /\ c.by \notin Peers /\ c.target = "reset"
  BY DEF AtpAssumption, Entry, Targets, Door
<1>2. commands \in Seq(Entry) /\ commands' = Append(commands, c)
  BY DEF SessionTypes, AskReset
<1> HIDE DEF c
<1>3. /\ commands' \in Seq(Entry) /\ Len(commands') = Len(commands) + 1
      /\ \A i \in 1..Len(commands) : commands'[i] = commands[i]
      /\ commands'[Len(commands')] = c
  BY <1>1, <1>2, AppendProperties
<1> QED BY <1>1, <1>2, <1>3, LenProperties

\* A message is carried out by one to four orders.
LEMMA MessageOrders ==
  ASSUME AtpAssumption, NEW m \in Messages
  PROVE  CommandsOf(m) \in Seq(Order) /\ CommandsOf(m) # <<>> /\ Len(CommandsOf(m)) \in 1..4
<1>1. CommandsOf(m) \in Seq(Order) /\ Len(CommandsOf(m)) \in 1..4
  BY CommandsShape, Zenon
<1>2. Len(<<>>) \notin 1..4
  BY EmptySeq
<1> QED BY <1>1, <1>2, Zenon

\* No session is in its message before start().
LEMMA InitSessions == AtpAssumption /\ Init => SessionInv
<1> SUFFICES ASSUME AtpAssumption, Init
             PROVE  SessionInv
  OBVIOUS
<1>1. SessionTypes
  BY EmptySeq DEF Init, SessionTypes, Door, DoorStates
<1>2. Len(commands) = 0 /\ Len(woken) = 0
  BY DEF Init
<1>3. OneEach /\ EndedLate /\ UnderWay /\ CarriedOut
  BY <1>2 DEF Init, OneEach, EndedLate, UnderWay, CarriedOut, Late, Over
<1>4. Reports /\ DoorsFollow
  BY <1>2 DEF Init, Reports, Refusal, DoorsFollow
<1> QED BY <1>1, <1>3, <1>4 DEF SessionInv

\* What is at the head of a queue, and what is left behind it.
LEMMA HeadAndTail ==
  ASSUME NEW S, NEW s \in Seq(S), s # <<>>
  PROVE  /\ Head(s) = s[1] /\ Head(s) \in S
         /\ Tail(s) \in Seq(S) /\ Len(s) \in Nat \ {0}
         /\ Len(Tail(s)) = Len(s) - 1
         /\ \A i \in 1..(Len(s) - 1) : Tail(s)[i] = s[i + 1]
  BY HeadTailProperties, EmptySeq, ElementOfSeq, LenProperties

-----------------------------------------------------------------------------
(* The steps keep the types.                                               *)

\* The core applies the command at the head of its queue.
LEMMA ApplyTypes ==
  ASSUME AtpAssumption, SessionTypes, Apply
  PROVE  SessionTypes'
<1> DEFINE c == Head(commands)
<1>1. c \in Entry /\ Tail(commands) \in Seq(Entry)
  BY HeadAndTail DEF SessionTypes, Apply
<1>2. c.target \in Targets /\ (c.target \in Door => c.value \in DoorStates)
  BY <1>1 DEF Entry
<1>3. commands' \in Seq(Entry)
  BY <1>1 DEF Apply
<1>4. doors' \in [Door -> DoorStates]
  <2>1. DOMAIN doors = Door /\ doors \in [Door -> DoorStates]
    BY DEF SessionTypes
  <2>2. doors' = IF c.target = "reset" THEN [d \in Door |-> "close"]
                 ELSE IF c.target \in Door THEN [doors EXCEPT ![c.target] = c.value] ELSE doors
    BY <2>1 DEF Apply, Door
  <2>3. "close" \in DoorStates
    BY DEF DoorStates
  <2> HIDE DEF c
  <2> QED BY <1>2, <2>1, <2>2, <2>3
<1>5. woken' \in Seq([by : Peers, ok : BOOLEAN])
  <2>1. CASE c.by \in Peers /\ pc[c.by] = "submitting"
    <3>1. [by |-> c.by, ok |-> Accepted(c)] \in [by : Peers, ok : BOOLEAN]
      <4>1. Accepted(c) \in BOOLEAN
        BY Zenon DEF Accepted
      <4> HIDE DEF c
      <4> QED BY <2>1, <4>1
    <3>2. woken' = Append(woken, [by |-> c.by, ok |-> Accepted(c)])
      BY <2>1 DEF Apply
    <3> QED BY <3>1, <3>2, AppendProperties DEF SessionTypes
  <2>2. CASE ~(c.by \in Peers /\ pc[c.by] = "submitting")
    BY <2>2 DEF Apply, SessionTypes
  <2> QED BY <2>1, <2>2
<1>6. applied' \in [Peers -> Seq(Targets)] /\ refused' \in [Peers -> Nat]
  <2>1. CASE c.by \in Peers /\ pc[c.by] = "submitting"
    <3>1. /\ applied' = [applied EXCEPT ![c.by] = Append(@, c.target)]
          /\ refused' = [refused EXCEPT ![c.by] = IF Accepted(c) THEN @ ELSE @ + 1]
      BY <2>1 DEF Apply
    <3>2. Append(applied[c.by], c.target) \in Seq(Targets)
      BY <2>1, <1>2, AppendProperties DEF SessionTypes
    <3> QED BY <2>1, <3>1, <3>2 DEF SessionTypes
  <2>2. CASE ~(c.by \in Peers /\ pc[c.by] = "submitting")
    BY <2>2 DEF Apply, SessionTypes
  <2> QED BY <2>1, <2>2
<1>7. UNCHANGED <<todo, reported>>
  BY DEF Apply, sessionVars
<1> QED BY <1>3, <1>4, <1>5, <1>6, <1>7 DEF SessionTypes

\* A session goes on after its command was answered.
LEMMA ResumeTypes ==
  ASSUME AtpAssumption, SessionTypes, OneEach, NEW p \in Peers, Resume(p)
  PROVE  SessionTypes'
<1>1. todo[p] \in Seq(Order) /\ todo[p] # <<>>
  BY DEF SessionTypes, OneEach, Resume
<1>2. Tail(todo[p]) \in Seq(Order)
  BY <1>1, HeadAndTail
<1>3. todo' \in [Peers -> Seq(Order)] /\ commands' \in Seq(Entry)
  <2>1. CASE Tail(todo[p]) = <<>>
    <3>1. todo' = [todo EXCEPT ![p] = <<>>] /\ UNCHANGED commands
      BY <2>1 DEF Resume
    <3>2. <<>> \in Seq(Order)
      BY EmptySeq
    <3> QED BY <3>1, <3>2 DEF SessionTypes
  <2>2. CASE Tail(todo[p]) # <<>>
    <3>1. Submit(p, Tail(todo[p]))
      BY <2>2 DEF Resume
    <3> HIDE DEF SessionTypes
    <3> QED BY <2>2, <3>1, <1>2, Submitted
  <2> QED BY <2>1, <2>2
<1>4. woken' \in Seq([by : Peers, ok : BOOLEAN])
  BY HeadAndTail DEF Resume, SessionTypes
<1>5. reported' \in [Peers -> Nat]
  <2>1. \E x \in {reported[p], reported[p] + 1} : reported' = [reported EXCEPT ![p] = x]
    BY DEF Resume
  <2>2. reported \in [Peers -> Nat]
    BY DEF SessionTypes
  <2> QED BY <2>1, <2>2
<1>6. UNCHANGED <<doors, applied, refused>>
  BY DEF Resume
<1> QED BY <1>3, <1>4, <1>5, <1>6 DEF SessionTypes

\* A session reads a line and submits the first command.
LEMMA ReceiveTypes ==
  ASSUME AtpAssumption, SessionTypes, NEW p \in Peers, NEW m \in Messages, Receive(p, m)
  PROVE  SessionTypes'
<1>1. todo' \in [Peers -> Seq(Order)] /\ commands' \in Seq(Entry)
  BY MessageOrders, Submitted DEF Receive, Submit
<1>2. applied' \in [Peers -> Seq(Targets)]
  BY EmptySeq DEF Receive, SessionTypes
<1>3. refused' \in [Peers -> Nat] /\ reported' \in [Peers -> Nat]
  BY DEF Receive, SessionTypes
<1> QED BY <1>1, <1>2, <1>3 DEF Receive, SessionTypes

\* A session is cancelled while it reads or awaits an answer.
LEMMA CancelledTypes ==
  ASSUME SessionTypes, NEW p \in Peers, Cancelled(p)
  PROVE  SessionTypes'
<1>1. todo' \in [Peers -> Seq(Order)]
  BY EmptySeq DEF Cancelled, Unwind, SessionTypes
<1>2. woken' \in Seq([by : Peers, ok : BOOLEAN])
  <2>1. CASE UNCHANGED woken
    BY <2>1 DEF SessionTypes
  <2>2. ASSUME NEW i \in DOMAIN woken, woken' = RemoveAt(woken, i)
        PROVE  woken' \in Seq([by : Peers, ok : BOOLEAN])
    BY <2>2, Removed, LenProperties DEF SessionTypes
  <2> QED BY <2>1, <2>2 DEF Cancelled
<1> QED BY <1>1, <1>2 DEF Cancelled, Unwind, SessionTypes, coreVars

\* A session that is accepted, unwinds, is cleaned up or ends was not at a
\* command and is at none afterwards.
Aside(p) ==
  /\ pc[p] # "submitting" /\ pc'[p] # "submitting"
  /\ \A q \in Peers : q # p => pc'[q] = pc[q]
  /\ todo' = todo \/ todo' = [todo EXCEPT ![p] = <<>>]
  /\ UNCHANGED <<woken, commands, doors, split>>
  /\ \/ /\ applied' = [applied EXCEPT ![p] = <<>>]
        /\ refused' = [refused EXCEPT ![p] = 0]
        /\ reported' = [reported EXCEPT ![p] = 0]
     \/ pc'[p] # "reading" /\ UNCHANGED <<applied, refused, reported>>
  /\ \A q \in Peers : transport'[q] = "open" => transport[q] = "open" \/ q = p

\* A session that is at no command keeps the types.
LEMMA AsideTypes ==
  ASSUME SessionTypes, NEW p \in Peers, Aside(p)
  PROVE  SessionTypes'
<1>1. todo' \in [Peers -> Seq(Order)]
  <2>1. todo' = todo \/ todo' = [todo EXCEPT ![p] = <<>>]
    BY DEF Aside
  <2> QED BY <2>1, EmptySeq DEF SessionTypes
<1>2. CASE UNCHANGED <<applied, refused, reported>>
  BY <1>1, <1>2 DEF Aside, SessionTypes
<1>3. CASE /\ applied' = [applied EXCEPT ![p] = <<>>]
           /\ refused' = [refused EXCEPT ![p] = 0]
           /\ reported' = [reported EXCEPT ![p] = 0]
  <2>1. applied' \in [Peers -> Seq(Targets)]
    BY <1>3, EmptySeq DEF SessionTypes
  <2>2. refused' \in [Peers -> Nat] /\ reported' \in [Peers -> Nat]
    BY <1>3 DEF SessionTypes
  <2> QED BY <1>1, <2>1, <2>2 DEF Aside, SessionTypes
<1> QED BY <1>2, <1>3 DEF Aside

-----------------------------------------------------------------------------
(* Cancellations and the queue.                                            *)

\* The steps of the core and of the sessions that are not cancelled.
LEMMA QueueStaysLate ==
  ASSUME AtpAssumption, BookInv, SessionTypes, OneEach, EndedLate
  PROVE  /\ Apply \/ AskReset => EndedLate'
         /\ \A p \in Peers : Resume(p) => EndedLate'
         /\ \A p \in Peers, m \in Messages : Receive(p, m) => EndedLate'
<1> DEFINE Mine(i) == commands[i].by \in Peers => pc[commands[i].by] = "submitting" \/ phase \in Late
<1>1. \A i \in 1..Len(commands) : Mine(i)
  BY DEF EndedLate
<1>2. pc \in [Peers -> Registered \cup {"none", "closing"}]
  BY DEF BookInv, BookTypes
<1>3. ASSUME Apply
      PROVE  EndedLate'
  <2>1. /\ UNCHANGED <<phase, pc, cancelled>>
        /\ Len(commands') = Len(commands) - 1
        /\ \A i \in 1..(Len(commands) - 1) : commands'[i] = commands[i + 1]
        /\ Len(commands) \in Nat
    BY <1>3, HeadAndTail DEF Apply, managerVars, sessionVars, SessionTypes
  <2> QED BY <2>1 DEF EndedLate
<1>4. ASSUME AskReset
      PROVE  EndedLate'
  <2>1. UNCHANGED <<phase, pc, cancelled>>
    BY <1>4 DEF AskReset, managerVars, sessionVars
  <2>2. /\ Len(commands') = Len(commands) + 1 /\ Len(commands) \in Nat
        /\ \A i \in 1..Len(commands) : commands'[i] = commands[i]
        /\ commands'[Len(commands')].by \notin Peers
    BY <1>4, ResetAsked
  <2> QED BY <2>1, <2>2 DEF EndedLate
<1>5. ASSUME NEW p \in Peers, Resume(p)
      PROVE  EndedLate'
  <2>1. /\ UNCHANGED <<phase, cancelled>> /\ ~cancelled[p] /\ pc[p] = "submitting"
        /\ phase \notin Late
    BY <1>5 DEF Resume, managerVars, EndedLate
  <2>2. CASE Tail(todo[p]) = <<>>
    <3>1. pc' = [pc EXCEPT ![p] = "reading"] /\ UNCHANGED commands
      BY <1>5, <2>2 DEF Resume
    <3>2. \A i \in 1..Len(commands) : commands[i].by # p
      <4>1. woken # <<>> /\ Head(woken).by = p
        BY <1>5 DEF Resume
      <4>2. 1 \in 1..Len(woken) /\ woken[1].by = p
        BY <4>1, HeadAndTail DEF SessionTypes
      <4> QED BY <4>2 DEF OneEach
    <3> QED BY <2>1, <3>1, <3>2, <1>2 DEF EndedLate
  <2>3. CASE Tail(todo[p]) # <<>>
    <3>1. Submit(p, Tail(todo[p])) /\ Tail(todo[p]) \in Seq(Order)
      BY <1>5, <2>3, HeadAndTail DEF Resume, SessionTypes, OneEach
    <3>2. /\ Len(commands') = Len(commands) + 1 /\ commands'[Len(commands) + 1].by = p
          /\ \A i \in 1..Len(commands) : commands'[i] = commands[i]
      BY <2>3, <3>1, Submitted
    <3>3. pc' = [pc EXCEPT ![p] = "submitting"] /\ Len(commands) \in Nat
      BY <3>1 DEF Submit, SessionTypes
    <3> QED BY <2>1, <3>2, <3>3, <1>2 DEF EndedLate
  <2> QED BY <2>2, <2>3
<1>6. ASSUME NEW p \in Peers, NEW m \in Messages, Receive(p, m)
      PROVE  EndedLate'
  <2>1. UNCHANGED <<phase, cancelled>> /\ ~cancelled[p] /\ phase \notin Late
    BY <1>6 DEF Receive, managerVars, EndedLate
  <2>2. Submit(p, CommandsOf(m))
    BY <1>6 DEF Receive
  <2>3. /\ Len(commands') = Len(commands) + 1 /\ commands'[Len(commands) + 1].by = p
        /\ \A i \in 1..Len(commands) : commands'[i] = commands[i]
    BY <2>2, MessageOrders, Submitted
  <2>4. pc' = [pc EXCEPT ![p] = "submitting"] /\ Len(commands) \in Nat
    BY <2>2 DEF Submit, SessionTypes
  <2> QED BY <2>1, <2>3, <2>4, <1>2 DEF EndedLate
<1> QED BY <1>3, <1>4, <1>5, <1>6

\* One step of any task: only stop() cancels, and it cancels every session.
LEMMA LateStep ==
  ASSUME AtpAssumption, BookInv, SessionTypes, OneEach, EndedLate, [Next]_vars
  PROVE  EndedLate'
<1>1. /\ pc \in [Peers -> Registered \cup {"none", "closing"}]
      /\ sessionTasks = {p \in Peers : pc[p] # "none"}
  BY DEF BookInv, BookTypes, BooksMatchSessions
<1>2. CASE Apply \/ AskReset
  BY <1>2, QueueStaysLate
<1>3. ASSUME NEW p \in Peers
      PROVE  /\ \A e \in Endpoints : Accept(p, e) => EndedLate'
             /\ \A m \in Messages : Receive(p, m) => EndedLate'
             /\ Resume(p) => EndedLate'
             /\ ReadEnds(p) => EndedLate'
             /\ Cancelled(p) => EndedLate'
             /\ PublisherEnds(p) => EndedLate'
             /\ CleanUp(p) \/ SessionEnds(p) => EndedLate'
             /\ \A to \in {"attentive", "stalled", "left"} : PeerActs(p, to) => EndedLate'
             /\ TransportLost(p) => EndedLate'
  <2>1. ASSUME NEW e \in Endpoints, Accept(p, e)
        PROVE  EndedLate'
    <3>1. /\ phase \notin Late /\ pc' = [pc EXCEPT ![p] = "reading"] /\ pc[p] = "none"
          /\ UNCHANGED <<phase, cancelled, commands>>
      BY <2>1 DEF Accept, managerVars, Late, Over
    <3> QED BY <1>1, <3>1 DEF EndedLate
  <2>2. Resume(p) => EndedLate'
    BY QueueStaysLate
  <2>3. \A m \in Messages : Receive(p, m) => EndedLate'
    BY QueueStaysLate
  <2>4. ASSUME ReadEnds(p)
        PROVE  EndedLate'
    <3>1. /\ ~cancelled[p] /\ pc[p] = "reading" /\ pc' = [pc EXCEPT ![p] = "unwinding"]
          /\ UNCHANGED <<phase, cancelled, commands>>
      BY <2>4 DEF ReadEnds, Unwind, managerVars, coreVars
    <3> QED BY <1>1, <3>1 DEF EndedLate
  <2>5. ASSUME Cancelled(p)
        PROVE  EndedLate'
    <3>1. /\ cancelled[p] /\ pc' = [pc EXCEPT ![p] = "unwinding"]
          /\ cancelled' = [cancelled EXCEPT ![p] = FALSE]
          /\ UNCHANGED <<phase, commands>>
      BY <2>5 DEF Cancelled, Unwind, managerVars, coreVars
    <3> QED BY <1>1, <3>1 DEF EndedLate
  <2>6. ASSUME CleanUp(p) \/ SessionEnds(p)
        PROVE  EndedLate'
    <3>1. /\ pc[p] \notin {"submitting", "reading"}
          /\ pc' = [pc EXCEPT ![p] = "closing"] \/ pc' = [pc EXCEPT ![p] = "none"]
          /\ cancelled' = [cancelled EXCEPT ![p] = FALSE]
          /\ UNCHANGED <<phase, commands>>
      BY <2>6 DEF CleanUp, SessionEnds, managerVars, coreVars
    <3> QED BY <1>1, <3>1 DEF EndedLate
  <2>7. PublisherEnds(p) => EndedLate'
    BY DEF PublisherEnds, EndedLate, managerVars, coreVars
  <2>8. \A to \in {"attentive", "stalled", "left"} : PeerActs(p, to) => EndedLate'
    BY DEF PeerActs, EndedLate, managerVars, coreVars, sessionVars
  <2>9. TransportLost(p) => EndedLate'
    BY DEF TransportLost, EndedLate, managerVars, coreVars, sessionVars
  <2> QED BY <2>1, <2>2, <2>3, <2>4, <2>5, <2>6, <2>7, <2>8, <2>9
<1>4. ASSUME NEW e \in Endpoints, OpenServer(e)
      PROVE  EndedLate'
  BY <1>4 DEF OpenServer, EndedLate, coreVars, sessionVars
<1>5. CASE ServersClosed
  <2>1. /\ phase' \in Late /\ UNCHANGED <<pc, commands>>
        /\ cancelled' = [p \in Peers |-> p \in sessionTasks]
    BY <1>5 DEF ServersClosed, coreVars, Late
  <2>2. \A p \in Peers : pc[p] \in {"reading", "submitting"} => cancelled'[p]
    BY <1>1, <2>1
  <2> QED BY <2>1, <2>2 DEF EndedLate
<1>6. CASE Started \/ Stop \/ Stopped
  <2>1. /\ phase \in Late <=> phase' \in Late
        /\ UNCHANGED <<pc, cancelled, commands>>
    BY <1>6 DEF Started, Stop, Stopped, sessionVars, coreVars, Late, Over
  <2> QED BY <2>1 DEF EndedLate
<1>7. CASE StopCore \/ UNCHANGED vars
  <2>1. UNCHANGED <<phase, pc, cancelled, commands>>
    BY <1>7 DEF StopCore, vars, managerVars, sessionVars, coreVars
  <2> QED BY <2>1 DEF EndedLate
<1> QED BY <1>2, <1>3, <1>4, <1>5, <1>6, <1>7 DEF Next

-----------------------------------------------------------------------------
(* The messages under way.                                                 *)

\* Steps that leave commands and answers alone, and reopen no connection.
Quiet ==
  /\ UNCHANGED <<pc, todo, woken, commands, doors, split, applied, refused, reported>>
  /\ \A q \in Peers : transport'[q] = "open" => transport[q] = "open"

\* Steps that touch no message and open no transport.
LEMMA QuietStep ==
  ASSUME SessionInv, EndedLate', Quiet
  PROVE  SessionInv'
<1>1. SessionTypes' /\ OneEach'
  BY DEF SessionInv, SessionTypes, OneEach, Quiet
<1>2. UnderWay' /\ CarriedOut'
  <2>1. \A p \in Peers : Answered(p)' <=> Answered(p)
    BY DEF Quiet, Answered
  <2>2. ASSUME NEW p \in Peers
        PROVE  HasMessage(p)' <=> HasMessage(p)
    <3>1. ASSUME NEW m \in Messages, NEW k \in 1..Len(CommandsOf(m))
          PROVE  OnMessage(p, m, k)' <=> OnMessage(p, m, k)
      BY <2>1 DEF Quiet, OnMessage
    <3> QED BY <3>1, Zenon DEF HasMessage
  <2> QED BY <2>2 DEF SessionInv, UnderWay, CarriedOut, Quiet
<1>3. Reports'
  BY DEF SessionInv, Reports, Refusal, Quiet
<1>4. (~split => DoorsFollow)'
  BY DEF SessionInv, DoorsFollow, LastLeft, LeftWoken, LastRight, Quiet
<1> QED BY <1>1, <1>2, <1>3, <1>4 DEF SessionInv

\* Who the answers and the queued commands belong to.
LEMMA Owners ==
  ASSUME SessionTypes
  PROVE  /\ Len(commands) \in Nat /\ Len(woken) \in Nat
         /\ \A i \in 1..Len(commands) : commands[i] \in Entry
         /\ \A i \in 1..Len(woken) : woken[i].by \in Peers
<1>1. commands \in Seq(Entry) /\ woken \in Seq([by : Peers, ok : BOOLEAN])
  BY DEF SessionTypes
<1>2. \A i \in 1..Len(woken) : woken[i] \in [by : Peers, ok : BOOLEAN]
  BY <1>1, ElementOfSeq
<1>3. \A w \in [by : Peers, ok : BOOLEAN] : w.by \in Peers
  OBVIOUS
<1> QED BY <1>1, <1>2, <1>3, LenProperties, ElementOfSeq

\* What leaves p's commands alone leaves its message alone.
LEMMA SameMessage ==
  ASSUME NEW p \in Peers, HasMessage(p), todo'[p] = todo[p], applied'[p] = applied[p],
         Answered(p)' <=> Answered(p),
         \A i \in 1..Len(commands') : commands'[i].by = p =>
           \E j \in 1..Len(commands) : commands'[i] = commands[j]
  PROVE  HasMessage(p)'
<1>1. PICK m \in Messages : \E k \in 1..Len(CommandsOf(m)) : OnMessage(p, m, k)
  BY DEF HasMessage
<1>2. PICK k \in 1..Len(CommandsOf(m)) : OnMessage(p, m, k)
  BY <1>1
<1> DEFINE s == CommandsOf(m)
<1>3. \A i \in 1..Len(commands') : commands'[i].by = p =>
        commands'[i].target = s[k].target /\ commands'[i].value = s[k].value
  BY <1>2 DEF OnMessage
<1>4. OnMessage(p, m, k)'
  BY <1>2, <1>3 DEF OnMessage
<1> QED BY <1>4 DEF HasMessage

\* A session that is not in a message when it is accepted or unwinds disturbs no message.
LEMMA AsideStep ==
  ASSUME BookInv, SessionInv, EndedLate', NEW p \in Peers, Aside(p)
  PROVE  SessionInv'
<1>1. SessionTypes'
  BY AsideTypes DEF SessionInv
<1>2. todo' = todo
  <2>1. todo[p] = <<>> /\ todo \in [Peers -> Seq(Order)]
    BY DEF SessionInv, SessionTypes, OneEach, Aside
  <2> QED BY <2>1 DEF Aside
<1>3. \A i \in 1..Len(woken) : woken[i].by # p
  BY DEF SessionInv, OneEach, Aside
<1>4. \A i \in 1..Len(woken) : woken[i].by \in Peers
  BY Owners DEF SessionInv
<1>5. OneEach'
  BY <1>2, <1>3, <1>4 DEF SessionInv, OneEach, Aside
<1>6. \A q \in Peers : q # p => /\ applied'[q] = applied[q] /\ refused'[q] = refused[q]
                                /\ reported'[q] = reported[q] /\ pc'[q] = pc[q]
  BY DEF SessionInv, SessionTypes, Aside
<1>7. pc'[p] = "reading" => applied'[p] = <<>> /\ refused'[p] = 0 /\ reported'[p] = 0
  BY DEF SessionInv, SessionTypes, Aside
<1>8. UnderWay'
  <2> SUFFICES ASSUME NEW q \in Peers, pc'[q] = "submitting"
               PROVE  HasMessage(q)'
    BY DEF UnderWay
  <2>1. q # p /\ HasMessage(q)
    BY <1>6 DEF SessionInv, UnderWay, Aside
  <2>2. (Answered(q)' <=> Answered(q)) /\ commands' = commands
    BY DEF Answered, Aside
  <2> QED BY <1>2, <1>6, <2>1, <2>2, SameMessage
<1>9. CarriedOut'
  BY <1>6, <1>7 DEF SessionInv, CarriedOut
<1>10. Reports'
  BY <1>3, <1>6, <1>7 DEF SessionInv, Reports, Refusal, Aside
<1>11. (~split => DoorsFollow)'
  <2>1. ASSUME NEW i \in 1..Len(commands), commands[i].target \in Door,
               pc[commands[i].by] = "submitting"
        PROVE  pc'[commands[i].by] = "submitting"
    <3>1. commands[i] \in Entry
      BY Owners DEF SessionInv
    <3>2. commands[i].by \in Peers
      BY <2>1, <3>1 DEF Entry, Door
    <3> QED BY <2>1, <3>2, <1>6 DEF Aside
  <2> QED BY <1>2, <2>1 DEF SessionInv, DoorsFollow, LastLeft, LeftWoken, LastRight, Aside
<1> QED BY <1>1, <1>5, <1>8, <1>9, <1>10, <1>11 DEF SessionInv

\* A session that reads waits for nothing, and none of its commands is queued.
LEMMA NothingWaits ==
  ASSUME SessionInv, NEW p \in Peers, pc[p] = "reading", ~cancelled[p]
  PROVE  /\ \A i \in 1..Len(commands) : commands[i].by # p
         /\ \A i \in 1..Len(woken) : woken[i].by # p
         /\ ~Answered(p) /\ ~Refusal(p)
  BY DEF SessionInv, EndedLate, OneEach, Answered, Refusal

\* A message begins with all its commands ahead.
LEMMA ReceiveStep ==
  ASSUME AtpAssumption, BookInv, SessionInv, EndedLate', NEW p \in Peers, NEW m \in Messages,
         Receive(p, m)
  PROVE  SessionInv'
<1> DEFINE s == CommandsOf(m)
           n == Len(commands)
<1>1. SessionTypes'
  BY ReceiveTypes DEF SessionInv
<1>2. /\ \A i \in 1..n : commands[i].by # p
      /\ \A i \in 1..Len(woken) : woken[i].by # p
      /\ ~Answered(p) /\ ~Refusal(p)
  BY NothingWaits DEF Receive
<1>3. s \in Seq(Order) /\ s # <<>> /\ Len(s) \in 1..4
  BY MessageOrders
<1>4. /\ todo'[p] = s /\ \A q \in Peers : q # p => todo'[q] = todo[q]
      /\ Len(commands') = n + 1
      /\ \A i \in 1..n : commands'[i] = commands[i]
      /\ commands'[n + 1].by = p
      /\ commands'[n + 1].target = s[1].target
      /\ commands'[n + 1].value = s[1].value
  <2>1. SessionTypes /\ Submit(p, s)
    BY DEF SessionInv, Receive
  <2> HIDE DEF s
  <2> QED BY <1>3, <2>1, Submitted
<1>5. /\ UNCHANGED <<woken, doors, transport, split>>
      /\ pc'[p] = "submitting" /\ \A q \in Peers : q # p => pc'[q] = pc[q]
  BY DEF Receive, Submit, wireVars, BookInv, BookTypes
<1>6. /\ applied'[p] = <<>> /\ refused'[p] = 0 /\ reported'[p] = 0
      /\ \A q \in Peers : q # p => /\ applied'[q] = applied[q] /\ refused'[q] = refused[q]
                                   /\ reported'[q] = reported[q]
  BY DEF Receive, SessionInv, SessionTypes
<1>7. n \in Nat /\ \A i \in 1..Len(woken) : woken[i].by \in Peers
  BY Owners DEF SessionInv
<1> HIDE DEF s, n
<1>8. OneEach'
  <2>1. \A i, j \in 1..(n + 1) :
          commands'[i].by \in Peers /\ commands'[i].by = commands'[j].by => i = j
    BY <1>2, <1>4, <1>7 DEF SessionInv, OneEach, n
  <2>2. \A i \in 1..Len(woken) : /\ pc'[woken[i].by] = "submitting"
                                 /\ \A j \in 1..(n + 1) : commands'[j].by # woken[i].by
    BY <1>2, <1>4, <1>5, <1>7 DEF SessionInv, OneEach, n
  <2>3. \A q \in Peers : pc'[q] = "submitting" <=> todo'[q] # <<>>
    BY <1>3, <1>4, <1>5 DEF SessionInv, OneEach
  <2> QED BY <1>4, <1>5, <2>1, <2>2, <2>3 DEF SessionInv, OneEach
<1>9. UnderWay'
  <2> SUFFICES ASSUME NEW q \in Peers, pc'[q] = "submitting"
               PROVE  HasMessage(q)'
    BY DEF UnderWay
  <2>1. CASE q = p
    <3>1. ~Answered(p)'
      BY <1>2, <1>5 DEF Answered
    <3>2. Len(applied'[p]) = 0
      BY <1>6
    <3>3. OnMessage(p, m, 1)'
      BY <1>2, <1>3, <1>4, <1>7, <3>1, <3>2 DEF OnMessage, s
    <3> QED BY <1>3, <2>1, <3>3 DEF HasMessage, s
  <2>2. CASE q # p
    <3>1. HasMessage(q)
      BY <2>2, <1>5 DEF SessionInv, UnderWay
    <3>2. Answered(q)' <=> Answered(q)
      BY <1>5 DEF Answered
    <3>3. \A i \in 1..Len(commands') : commands'[i].by = q =>
            \E j \in 1..Len(commands) : commands'[i] = commands[j]
      BY <2>2, <1>4, <1>7 DEF n
    <3> QED BY <2>2, <3>1, <3>2, <3>3, <1>4, <1>6, SameMessage
  <2> QED BY <2>1, <2>2
<1>10. CarriedOut'
  BY <1>5, <1>6 DEF SessionInv, CarriedOut
<1>11. Reports'
  BY <1>2, <1>5, <1>6 DEF SessionInv, Reports, Refusal
<1>12. (~split => DoorsFollow)'
  <2> SUFFICES ASSUME ~split
               PROVE  DoorsFollow'
    BY <1>5
  <2>1. DoorsFollow
    BY DEF SessionInv
  <2>2. s[1].target # "right"
    BY <1>3, CommandsShape DEF s
  <2>3. \A i \in 1..(n + 1) : LastRight(i)' => i \in 1..n /\ LastRight(i)
    BY <1>4, <1>7, <2>2 DEF LastRight, n
  <2>4. \A i \in 1..Len(woken) : LeftWoken(i)' <=> LeftWoken(i)
    BY <1>2, <1>4, <1>5, <1>7 DEF LeftWoken
  <2>5. \A i \in 1..Len(woken) : LastLeft(i)' => LastLeft(i)
    BY <1>5, <2>4 DEF LastLeft
  <2>6. \A i \in 1..(n + 1) :
          commands'[i].target \in Door => pc'[commands'[i].by] = "submitting"
    <3>1. \A i \in 1..n : commands[i] \in Entry
      BY Owners DEF SessionInv, n
    <3>2. \A i \in 1..n : commands[i].target \in Door => commands[i].by \in Peers
      BY <3>1 DEF Entry, Door
    <3> QED BY <1>4, <1>5, <1>7, <2>1, <3>2 DEF DoorsFollow, n
  <2>7. \A i \in 1..Len(woken) : LastLeft(i)' => todo'[woken[i].by][1].value = doors["left"]
    BY <1>2, <1>4, <1>7, <2>1, <2>5 DEF DoorsFollow
  <2>8. ASSUME \A i \in 1..Len(woken) : ~LeftWoken(i)
        PROVE  /\ \A i \in 1..(n + 1) : LastRight(i)' => commands'[i].value = doors["left"]
               /\ (\A i \in 1..(n + 1) : commands'[i].target # "right") => doors["left"] = doors["right"]
    BY <1>4, <1>7, <2>1, <2>3, <2>8 DEF DoorsFollow, n
  <2> QED BY <1>4, <1>5, <2>4, <2>6, <2>7, <2>8 DEF DoorsFollow
<1> QED BY <1>1, <1>8, <1>9, <1>10, <1>11, <1>12 DEF SessionInv

\* Another client's reset waits its turn.
LEMMA AskResetStep ==
  ASSUME AtpAssumption, SessionInv, EndedLate', AskReset
  PROVE  SessionInv'
<1> DEFINE n == Len(commands)
<1>1. /\ commands' \in Seq(Entry)
      /\ Len(commands') = n + 1 /\ n \in Nat
      /\ \A i \in 1..n : commands'[i] = commands[i]
      /\ commands'[n + 1].by \notin Peers
      /\ commands'[n + 1].target = "reset"
  BY ResetAsked DEF SessionInv
<1>2. UNCHANGED <<pc, todo, woken, doors, split, applied, refused, reported, transport>>
  BY DEF AskReset, sessionVars, wireVars, history
<1> HIDE DEF n
<1>3. SessionTypes'
  BY <1>1, <1>2 DEF SessionInv, SessionTypes
<1>4. \A i \in 1..Len(woken) : woken[i].by \in Peers
  BY Owners DEF SessionInv
<1>5. OneEach'
  <2>1. \A i, j \in 1..(n + 1) :
          commands'[i].by \in Peers /\ commands'[i].by = commands'[j].by => i = j
    BY <1>1 DEF SessionInv, OneEach, n
  <2>2. \A i \in 1..Len(woken) : \A j \in 1..(n + 1) : commands'[j].by # woken[i].by
    BY <1>1, <1>4 DEF SessionInv, OneEach, n
  <2> QED BY <1>1, <1>2, <2>1, <2>2 DEF SessionInv, OneEach
<1>6. UnderWay'
  <2> SUFFICES ASSUME NEW q \in Peers, pc'[q] = "submitting"
               PROVE  HasMessage(q)'
    BY DEF UnderWay
  <2>1. HasMessage(q)
    BY <1>2 DEF SessionInv, UnderWay
  <2>2. Answered(q)' <=> Answered(q)
    BY <1>2 DEF Answered
  <2>3. \A i \in 1..Len(commands') : commands'[i].by = q =>
          \E j \in 1..Len(commands) : commands'[i] = commands[j]
    BY <1>1 DEF n
  <2> QED BY <1>2, <2>1, <2>2, <2>3, SameMessage
<1>7. CarriedOut' /\ Reports'
  BY <1>2 DEF SessionInv, CarriedOut, Reports, Refusal
<1>8. (~split => DoorsFollow)'
  <2> SUFFICES ASSUME ~split
               PROVE  DoorsFollow'
    BY <1>2
  <2>1. DoorsFollow
    BY DEF SessionInv
  <2>2. \A i \in 1..(n + 1) : LastRight(i)' => i \in 1..n /\ LastRight(i)
    BY <1>1 DEF LastRight, n
  <2>3. \A i \in 1..(n + 1) :
          commands'[i].target \in Door => pc[commands'[i].by] = "submitting"
    BY <1>1, <2>1 DEF DoorsFollow, Door, n
  <2>4. ASSUME \A i \in 1..Len(woken) : ~LeftWoken(i)
        PROVE  /\ \A i \in 1..(n + 1) : LastRight(i)' => commands'[i].value = doors["left"]
               /\ (\A i \in 1..(n + 1) : commands'[i].target # "right") => doors["left"] = doors["right"]
    BY <1>1, <2>1, <2>2, <2>4 DEF DoorsFollow, n
  <2>5. \A i \in 1..Len(woken) : LastLeft(i)' => todo[woken[i].by][1].value = doors["left"]
    BY <1>2, <2>1 DEF DoorsFollow, LastLeft, LeftWoken
  <2> QED BY <1>1, <1>2, <2>3, <2>4, <2>5 DEF DoorsFollow, LeftWoken
<1> QED BY <1>3, <1>5, <1>6, <1>7, <1>8 DEF SessionInv

-----------------------------------------------------------------------------
(* An answer is taken off, by its session or with it.                      *)

\* p's answer, the r-th, is gone, and only p has moved.
Taken(p, r) ==
  /\ r \in 1..Len(woken) /\ woken[r].by = p
  /\ Len(woken') = Len(woken) - 1
  /\ \A j \in 1..(Len(woken) - 1) : woken'[j] = IF j < r THEN woken[j] ELSE woken[j + 1]
  /\ \A q \in Peers : q # p => todo'[q] = todo[q] /\ pc'[q] = pc[q]

\* Where an answer that is left was before.
LEMMA TakenFrom ==
  ASSUME SessionTypes, OneEach, NEW p \in Peers, NEW r, Taken(p, r)
  PROVE  /\ \A j \in 1..Len(woken') : \E i \in 1..Len(woken) :
              /\ woken'[j] = woken[i] /\ i # r /\ i = IF j < r THEN j ELSE j + 1
         /\ \A i \in 1..Len(woken) : i # r => \E j \in 1..Len(woken') :
              /\ woken'[j] = woken[i] /\ i = IF j < r THEN j ELSE j + 1
         /\ \A j \in 1..Len(woken') : woken'[j].by \in Peers \ {p}
<1>1. Len(woken) \in Nat /\ \A i \in 1..Len(woken) : woken[i].by \in Peers
  BY Owners
<1>2. \A j \in 1..Len(woken') : \E i \in 1..Len(woken) :
         /\ woken'[j] = woken[i] /\ i # r /\ i = IF j < r THEN j ELSE j + 1
  <2> TAKE j \in 1..Len(woken')
  <2> DEFINE i == IF j < r THEN j ELSE j + 1
  <2>1. i \in 1..Len(woken) /\ i # r /\ woken'[j] = woken[i]
    BY <1>1 DEF Taken
  <2> QED BY <2>1
<1>3. \A i \in 1..Len(woken) : i # r => \E j \in 1..Len(woken') :
         /\ woken'[j] = woken[i] /\ i = IF j < r THEN j ELSE j + 1
  <2> SUFFICES ASSUME NEW i \in 1..Len(woken), i # r
               PROVE  \E j \in 1..Len(woken') :
                        /\ woken'[j] = woken[i] /\ i = IF j < r THEN j ELSE j + 1
    OBVIOUS
  <2> DEFINE j == IF i < r THEN i ELSE i - 1
  <2>1. j \in 1..Len(woken') /\ woken'[j] = woken[i] /\ i = IF j < r THEN j ELSE j + 1
    BY <1>1 DEF Taken
  <2> QED BY <2>1
<1>4. \A i \in 1..Len(woken) : i # r => woken[i].by # p
  BY DEF OneEach, Taken
<1> QED BY <1>1, <1>2, <1>3, <1>4

\* The other sessions are answered as before, and p no more.
LEMMA TakenAnswers ==
  ASSUME SessionTypes, OneEach, NEW p \in Peers, NEW r, Taken(p, r)
  PROVE  /\ ~Answered(p)' /\ ~Refusal(p)'
         /\ \A q \in Peers : q # p => /\ Answered(q)' <=> Answered(q)
                                      /\ Refusal(q)' <=> Refusal(q)
<1>1. ~Answered(p)' /\ ~Refusal(p)'
  BY TakenFrom DEF Answered, Refusal
<1>2. ASSUME NEW q \in Peers, q # p
      PROVE  /\ Answered(q)' <=> Answered(q)
             /\ Refusal(q)' <=> Refusal(q)
  <2>1. /\ \A j \in 1..Len(woken') : \E i \in 1..Len(woken) : woken'[j] = woken[i]
        /\ \A i \in 1..Len(woken) : i # r => \E j \in 1..Len(woken') : woken'[j] = woken[i]
    BY TakenFrom
  <2>2. \A i \in 1..Len(woken) : woken[i].by = q => i # r
    BY <1>2 DEF Taken
  <2> QED BY <2>1, <2>2 DEF Answered, Refusal
<1> QED BY <1>1, <1>2

\* The lefts that are left are those there were, and the last of them is the
\* last there was.
LEMMA TakenLefts ==
  ASSUME SessionTypes, OneEach, NEW p \in Peers, NEW r, Taken(p, r)
  PROVE  /\ \A j \in 1..Len(woken') : LeftWoken(j)' <=> LeftWoken(IF j < r THEN j ELSE j + 1)
         /\ ~LeftWoken(r) \/ r = 1 =>
              \A j \in 1..Len(woken') : LastLeft(j)' =>
                \E i \in 1..Len(woken) : LastLeft(i) /\ woken'[j] = woken[i]
         /\ (\A j \in 1..Len(woken') : ~LeftWoken(j)') =>
              \A i \in 1..Len(woken) : i # r => ~LeftWoken(i)
<1>1. \A j \in 1..Len(woken') : LeftWoken(j)' <=> LeftWoken(IF j < r THEN j ELSE j + 1)
  <2> TAKE j \in 1..Len(woken')
  <2> DEFINE i == IF j < r THEN j ELSE j + 1
  <2>1. woken'[j] = woken[i] /\ woken'[j].by \in Peers \ {p}
    BY TakenFrom
  <2>2. todo'[woken'[j].by] = todo[woken[i].by]
    BY <2>1 DEF Taken
  <2> QED BY <2>2 DEF LeftWoken
<1>2. ASSUME NEW i \in 1..Len(woken), i # r, LeftWoken(i)
      PROVE  \E j \in 1..Len(woken') : LeftWoken(j)' /\ i = IF j < r THEN j ELSE j + 1
  <2>1. PICK j \in 1..Len(woken') : i = IF j < r THEN j ELSE j + 1
    BY <1>2, TakenFrom
  <2>2. LeftWoken(j)'
    BY <1>1, <1>2, <2>1
  <2> QED BY <2>1, <2>2
<1>3. ASSUME ~LeftWoken(r) \/ r = 1, NEW j \in 1..Len(woken'), LastLeft(j)'
      PROVE  \E i \in 1..Len(woken) : LastLeft(i) /\ woken'[j] = woken[i]
  <2>1. PICK i \in 1..Len(woken) :
          woken'[j] = woken[i] /\ i # r /\ i = IF j < r THEN j ELSE j + 1
    BY TakenFrom
  <2>2. LeftWoken(i)
    BY <1>1, <1>3, <2>1 DEF LastLeft
  <2>3. ASSUME NEW k \in 1..Len(woken), k > i, LeftWoken(k)
        PROVE  FALSE
    <3>1. k # r
      BY <1>3, <2>1, <2>3 DEF Taken
    <3>2. PICK l \in 1..Len(woken') : LeftWoken(l)' /\ k = IF l < r THEN l ELSE l + 1
      BY <1>2, <2>3, <3>1
    <3>3. l > j
      BY <2>1, <2>3, <3>2 DEF Taken
    <3> QED BY <1>3, <3>2, <3>3 DEF LastLeft
  <2> QED BY <2>1, <2>2, <2>3 DEF LastLeft
<1> QED BY <1>1, <1>2, <1>3

\* An answer other than to a left is gone: the doors follow as before.
LEMMA TakenDoors ==
  ASSUME SessionTypes, OneEach, DoorsFollow, NEW p \in Peers, NEW r, Taken(p, r), ~LeftWoken(r),
         UNCHANGED doors,
         Len(commands') \in Nat, Len(commands') >= Len(commands),
         \A i \in 1..Len(commands) : commands'[i] = commands[i],
         \A i \in 1..Len(commands') : i > Len(commands) => commands'[i].target # "right",
         \A i \in 1..Len(commands') :
           commands'[i].target \in Door => pc'[commands'[i].by] = "submitting"
  PROVE  DoorsFollow'
<1> DEFINE n == Len(commands)
<1>1. n \in Nat
  BY Owners
<1>2. \A i \in 1..Len(commands') : LastRight(i)' => i \in 1..n /\ LastRight(i)
  BY <1>1 DEF LastRight
<1>3. ASSUME NEW j \in 1..Len(woken'), LastLeft(j)'
      PROVE  todo'[woken'[j].by][1].value = doors'["left"]
  <2>1. PICK i \in 1..Len(woken) : LastLeft(i) /\ woken'[j] = woken[i]
    BY <1>3, TakenLefts
  <2>2. woken'[j].by \in Peers \ {p}
    BY TakenFrom
  <2>3. todo'[woken'[j].by] = todo[woken[i].by]
    BY <2>1, <2>2 DEF Taken
  <2> QED BY <2>1, <2>3 DEF DoorsFollow
<1>4. ASSUME \A j \in 1..Len(woken') : ~LeftWoken(j)'
      PROVE  /\ \A i \in 1..Len(commands') : LastRight(i)' => commands'[i].value = doors'["left"]
             /\ (\A i \in 1..Len(commands') : commands'[i].target # "right") => (doors["left"] = doors["right"])'
  <2>1. \A i \in 1..Len(woken) : ~LeftWoken(i)
    BY <1>4, TakenLefts
  <2>2. /\ \A i \in 1..n : LastRight(i) => commands[i].value = doors["left"]
        /\ (\A i \in 1..n : commands[i].target # "right") => doors["left"] = doors["right"]
    BY <2>1 DEF DoorsFollow
  <2> QED BY <1>1, <1>2, <2>2
<1> QED BY <1>3, <1>4 DEF DoorsFollow

\* A session whose message asks for no right door any more is not at a door.
LEMMA NotBetween ==
  ASSUME AtpAssumption, SessionTypes, UnderWay, NEW p \in Peers, pc[p] = "submitting",
         \A i \in DOMAIN todo[p] : todo[p][i].target # "right"
  PROVE  /\ todo[p][1].target \notin Door
         /\ \A i \in 1..Len(commands) : commands[i].by = p => commands[i].target \notin Door
<1>1. PICK m \in Messages : \E k \in 1..Len(CommandsOf(m)) : OnMessage(p, m, k)
  BY DEF UnderWay, HasMessage
<1>2. PICK k \in 1..Len(CommandsOf(m)) : OnMessage(p, m, k)
  BY <1>1
<1> DEFINE s == CommandsOf(m)
<1>3. /\ Len(s) \in 1..4
      /\ \A i \in 1..Len(s) : s[i].target = "left" => i < Len(s) /\ s[i + 1].target = "right"
  BY CommandsShape
<1>4. /\ DOMAIN todo[p] = 1..Len(todo[p])
      /\ Len(todo[p]) = Len(s) - k + 1
      /\ \A i \in 1..Len(todo[p]) : todo[p][i] = s[k + i - 1]
      /\ \A i \in 1..Len(commands) : commands[i].by = p => commands[i].target = s[k].target
  BY <1>2, LenProperties DEF OnMessage, SessionTypes
<1> HIDE DEF s
<1>5. todo[p][1] = s[k] /\ 1 \in DOMAIN todo[p]
  BY <1>3, <1>4, <1>2 DEF s
<1>6. s[k].target # "left"
  <2>1. ASSUME s[k].target = "left"
        PROVE  FALSE
    <3>1. k < Len(s) /\ s[k + 1].target = "right"
      BY <1>2, <1>3, <2>1 DEF s
    <3>2. 2 \in DOMAIN todo[p] /\ todo[p][2] = s[k + 1]
      BY <1>2, <1>3, <1>4, <3>1 DEF s
    <3> QED BY <3>1, <3>2
  <2> QED BY <2>1
<1> QED BY <1>4, <1>5, <1>6 DEF Door

\* The cancellation takes the answer, if there is one, and what was to follow.
LEMMA CancelledStep ==
  ASSUME AtpAssumption, BookInv, SessionInv, EndedLate', NEW p \in Peers, Cancelled(p)
  PROVE  SessionInv'
<1>1. /\ UNCHANGED <<commands, doors, transport, applied, refused, reported>>
      /\ pc'[p] = "unwinding" /\ \A q \in Peers : q # p => pc'[q] = pc[q]
      /\ todo'[p] = <<>> /\ \A q \in Peers : q # p => todo'[q] = todo[q]
  BY DEF Cancelled, Unwind, coreVars, wireVars, BookInv, BookTypes, SessionInv, SessionTypes
<1>2. SessionTypes'
  BY CancelledTypes DEF SessionInv
<1>3. SessionTypes /\ OneEach /\ UnderWay
  BY DEF SessionInv
<1>4. /\ Len(commands) \in Nat
      /\ \A i \in 1..Len(commands) : commands[i] \in Entry
      /\ \A i \in 1..Len(woken) : woken[i].by \in Peers
  BY <1>3, Owners
<1>10. (UNCHANGED woken /\ \A i \in 1..Len(woken) : woken[i].by # p) \/ \E r : Taken(p, r)
  <2>1. DOMAIN woken = 1..Len(woken)
    BY <1>3, LenProperties DEF SessionTypes
  <2>2. ASSUME NEW i \in DOMAIN woken, woken[i].by = p, woken' = RemoveAt(woken, i)
        PROVE  Taken(p, i)
    <3>1. woken \in Seq([by : Peers, ok : BOOLEAN]) /\ i \in 1..Len(woken)
      BY <1>3, <2>1 DEF SessionTypes
    <3>2. /\ Len(woken') = Len(woken) - 1
          /\ \A j \in 1..(Len(woken) - 1) : woken'[j] = IF j < i THEN woken[j] ELSE woken[j + 1]
      BY <2>2, <3>1, Removed
    <3> QED BY <1>1, <2>2, <3>1, <3>2 DEF Taken
  <2> QED BY <2>1, <2>2 DEF Cancelled
<1>5. /\ \A j \in 1..Len(woken') : /\ woken'[j].by # p
                                   /\ \E i \in 1..Len(woken) : woken'[j] = woken[i]
      /\ \A i, j \in 1..Len(woken') : woken'[i].by = woken'[j].by => i = j
      /\ \A q \in Peers : q # p => /\ Answered(q)' <=> Answered(q)
                                   /\ Refusal(q)' <=> Refusal(q)
  <2>1. CASE UNCHANGED woken /\ \A i \in 1..Len(woken) : woken[i].by # p
    BY <2>1, <1>3 DEF OneEach, Answered, Refusal
  <2>2. ASSUME NEW r, Taken(p, r)
        PROVE  /\ \A j \in 1..Len(woken') : /\ woken'[j].by # p
                                            /\ \E i \in 1..Len(woken) : woken'[j] = woken[i]
               /\ \A i, j \in 1..Len(woken') : woken'[i].by = woken'[j].by => i = j
               /\ \A q \in Peers : q # p => /\ Answered(q)' <=> Answered(q)
                                            /\ Refusal(q)' <=> Refusal(q)
    <3>1. \A j \in 1..Len(woken') : \E i \in 1..Len(woken) :
             /\ woken'[j] = woken[i] /\ i # r /\ i = IF j < r THEN j ELSE j + 1
      BY <1>3, <2>2, TakenFrom
    <3>2. \A j \in 1..Len(woken') : woken'[j].by # p
      BY <1>3, <2>2, TakenFrom
    <3>3. ASSUME NEW i \in 1..Len(woken'), NEW j \in 1..Len(woken'), woken'[i].by = woken'[j].by
          PROVE  i = j
      <4>1. PICK ii \in 1..Len(woken) : woken'[i] = woken[ii] /\ ii = IF i < r THEN i ELSE i + 1
        BY <3>1
      <4>2. PICK jj \in 1..Len(woken) : woken'[j] = woken[jj] /\ jj = IF j < r THEN j ELSE j + 1
        BY <3>1
      <4>3. ii = jj
        BY <1>3, <3>3, <4>1, <4>2 DEF OneEach
      <4> QED BY <4>1, <4>2, <4>3, <2>2 DEF Taken
    <3> QED BY <1>3, <2>2, <3>1, <3>2, <3>3, TakenAnswers
  <2> QED BY <1>10, <2>1, <2>2
<1>6. OneEach'
  <2>1. \A i \in 1..Len(woken') : /\ pc'[woken'[i].by] = "submitting"
                                  /\ \A j \in 1..Len(commands) : commands[j].by # woken'[i].by
    <3> TAKE i \in 1..Len(woken')
    <3>1. PICK j \in 1..Len(woken) : woken'[i] = woken[j]
      BY <1>5
    <3>2. woken[j].by \in Peers /\ woken[j].by # p
      BY <1>4, <1>5, <3>1
    <3> QED BY <1>1, <1>3, <3>1, <3>2 DEF OneEach
  <2>2. \A q \in Peers : pc'[q] = "submitting" <=> todo'[q] # <<>>
    BY <1>1, <1>3 DEF OneEach
  <2> QED BY <1>1, <1>3, <1>5, <2>1, <2>2 DEF OneEach
<1>7. UnderWay'
  <2> SUFFICES ASSUME NEW q \in Peers, pc'[q] = "submitting"
               PROVE  HasMessage(q)'
    BY DEF UnderWay
  <2>1. q # p /\ HasMessage(q)
    BY <1>1, <1>3 DEF UnderWay
  <2> QED BY <1>1, <1>5, <2>1, SameMessage
<1>8. CarriedOut' /\ Reports'
  BY <1>1, <1>5 DEF SessionInv, CarriedOut, Reports
<1>9. (~split => DoorsFollow)'
  <2> SUFFICES ASSUME ~split'
               PROVE  DoorsFollow'
    OBVIOUS
  <2>1. DoorsFollow
    BY DEF SessionInv, Cancelled
  <2>2. \A i \in DOMAIN todo[p] : todo[p][i].target # "right"
    BY DEF Cancelled
  <2>3. pc[p] = "submitting" =>
          /\ todo[p][1].target \notin Door
          /\ \A i \in 1..Len(commands) : commands[i].by = p => commands[i].target \notin Door
    BY <1>3, <2>2, NotBetween
  <2>4. \A i \in 1..Len(woken) : woken[i].by = p => ~LeftWoken(i)
    BY <1>3, <2>3 DEF OneEach, LeftWoken, Door
  <2>5. \A i \in 1..Len(commands) :
          commands[i].target \in Door => pc'[commands[i].by] = "submitting"
    <3> SUFFICES ASSUME NEW i \in 1..Len(commands), commands[i].target \in Door
                 PROVE  pc'[commands[i].by] = "submitting"
      OBVIOUS
    <3>1. pc[commands[i].by] = "submitting"
      BY <2>1 DEF DoorsFollow
    <3>2. commands[i].by \in Peers
      BY <1>4 DEF Entry, Door
    <3>3. commands[i].by # p
      BY <2>3, <3>1
    <3> QED BY <1>1, <3>1, <3>2, <3>3
  <2>6. CASE UNCHANGED woken /\ \A i \in 1..Len(woken) : woken[i].by # p
    <3>1. \A i \in 1..Len(woken) : /\ todo'[woken'[i].by] = todo[woken[i].by]
                                   /\ LeftWoken(i)' <=> LeftWoken(i)
      BY <1>1, <1>4, <2>6 DEF LeftWoken
    <3>2. \A i \in 1..Len(woken) : LastLeft(i)' <=> LastLeft(i)
      BY <2>6, <3>1 DEF LastLeft
    <3> QED BY <1>1, <2>1, <2>5, <2>6, <3>1, <3>2 DEF DoorsFollow, LastRight
  <2>7. ASSUME NEW r, Taken(p, r)
        PROVE  DoorsFollow'
    <3>1. ~LeftWoken(r)
      BY <2>4, <2>7 DEF Taken
    <3> QED BY <1>1, <1>3, <1>4, <2>1, <2>5, <2>7, <3>1, TakenDoors
  <2> QED BY <1>10, <2>6, <2>7
<1> QED BY <1>2, <1>6, <1>7, <1>8, <1>9 DEF SessionInv

\* The session goes on with the next command of its message, or reads on.
LEMMA ResumeStep ==
  ASSUME AtpAssumption, BookInv, SessionInv, EndedLate', NEW p \in Peers, Resume(p)
  PROVE  SessionInv'
<1> DEFINE n == Len(commands)
<1>1. SessionTypes /\ OneEach /\ SessionTypes' /\ UnderWay
  BY ResumeTypes DEF SessionInv
<1>2. /\ n \in Nat /\ Len(woken) \in Nat
      /\ \A i \in 1..n : commands[i] \in Entry
      /\ \A i \in 1..Len(woken) : woken[i].by \in Peers
  BY <1>1, Owners
<1>3. /\ Head(woken) = woken[1] /\ Len(woken') = Len(woken) - 1
      /\ 1 \in 1..Len(woken) /\ woken[1].by = p /\ woken' = Tail(woken)
      /\ \A j \in 1..(Len(woken) - 1) : woken'[j] = woken[j + 1]
  <2>1. woken \in Seq([by : Peers, ok : BOOLEAN]) /\ woken # <<>>
    BY <1>1 DEF SessionTypes, Resume
  <2> QED BY <2>1, HeadAndTail DEF Resume
<1>4. PICK m \in Messages : \E k \in 1..Len(CommandsOf(m)) : OnMessage(p, m, k)
  BY <1>1 DEF UnderWay, HasMessage, Resume
<1>5. PICK k \in 1..Len(CommandsOf(m)) : OnMessage(p, m, k)
  BY <1>4
<1> DEFINE s == CommandsOf(m)
<1>6. /\ Len(s) \in 1..4 /\ k \in 1..Len(s)
      /\ \A i \in 1..Len(s) : s[i].target = "left" =>
           i < Len(s) /\ s[i + 1].target = "right" /\ s[i + 1].value = s[i].value
      /\ \A i \in 1..Len(s) : s[i].target = "right" => i > 1 /\ s[i - 1].target = "left"
  BY <1>5, CommandsShape
<1>7. /\ Len(todo[p]) = Len(s) - k + 1
      /\ \A i \in 1..Len(todo[p]) : todo[p][i] = s[k + i - 1]
      /\ Len(applied[p]) = k
      /\ \A i \in 1..Len(applied[p]) : applied[p][i] = s[i].target
  BY <1>3, <1>5 DEF OnMessage, Answered
<1>8. /\ todo[p][1] = s[k]
      /\ Tail(todo[p]) \in Seq(Order)
      /\ Len(Tail(todo[p])) = Len(s) - k
      /\ \A i \in 1..(Len(s) - k) : Tail(todo[p])[i] = s[k + i]
  <2>1. todo[p] \in Seq(Order) /\ todo[p] # <<>>
    BY <1>1 DEF SessionTypes, OneEach, Resume
  <2>2. /\ Tail(todo[p]) \in Seq(Order) /\ Len(Tail(todo[p])) = Len(todo[p]) - 1
        /\ \A i \in 1..(Len(todo[p]) - 1) : Tail(todo[p])[i] = todo[p][i + 1]
    BY <2>1, HeadAndTail
  <2>3. Len(todo[p]) = Len(s) - k + 1 /\ \A i \in 1..Len(todo[p]) : todo[p][i] = s[k + i - 1]
    BY <1>7
  <2> DEFINE t == todo[p]
             u == Tail(todo[p])
             l == Len(s)
  <2>4. /\ u \in Seq(Order) /\ Len(u) = Len(t) - 1
        /\ \A i \in 1..(Len(t) - 1) : u[i] = t[i + 1]
        /\ Len(t) = l - k + 1 /\ \A i \in 1..Len(t) : t[i] = s[k + i - 1]
        /\ l \in 1..4 /\ k \in 1..l
    BY <1>6, <2>2, <2>3
  <2> HIDE DEF s, t, u, l
  <2>5. Len(u) = l - k /\ 1 \in 1..Len(t) /\ k + 1 - 1 = k
    BY <2>4
  <2>6. t[1] = s[k]
    BY <2>4, <2>5
  <2>7. ASSUME NEW i \in 1..(l - k)
        PROVE  u[i] = s[k + i]
    <3>1. /\ i \in 1..(Len(t) - 1) /\ i + 1 \in 1..Len(t)
          /\ k + (i + 1) - 1 = k + i
      BY <2>4
    <3> QED BY <2>4, <3>1
  <2> QED BY <2>4, <2>5, <2>6, <2>7 DEF t, u, l
<1>9. /\ UNCHANGED <<doors, transport, applied, refused, split>>
      /\ \A q \in Peers : q # p => /\ pc'[q] = pc[q] /\ todo'[q] = todo[q]
                                   /\ reported'[q] = reported[q]
  <2>1. \A q \in Peers : q # p => pc'[q] = pc[q] /\ todo'[q] = todo[q]
    <3>1. CASE Tail(todo[p]) = <<>>
      BY <3>1, <1>1 DEF Resume, BookInv, BookTypes, SessionTypes
    <3>2. CASE Tail(todo[p]) # <<>>
      BY <3>2, <1>1 DEF Resume, Submit, BookInv, BookTypes, SessionTypes
    <3> QED BY <3>1, <3>2
  <2> QED BY <2>1, <1>1 DEF Resume, wireVars, SessionTypes
<1>10. Taken(p, 1)
  BY <1>3, <1>9 DEF Taken
<1>11. /\ \A j \in 1..Len(woken') : woken'[j].by \in Peers \ {p}
       /\ ~Answered(p)' /\ ~Refusal(p)'
       /\ \A q \in Peers : q # p => /\ Answered(q)' <=> Answered(q)
                                    /\ Refusal(q)' <=> Refusal(q)
  BY <1>1, <1>10, TakenFrom, TakenAnswers
<1> HIDE DEF n, s
<1>12. \/ /\ k = Len(s) /\ UNCHANGED commands
          /\ pc'[p] = "reading" /\ todo'[p] = <<>>
       \/ /\ k < Len(s) /\ Len(commands') = n + 1
          /\ \A i \in 1..n : commands'[i] = commands[i]
          /\ commands'[n + 1].by = p
          /\ commands'[n + 1].target = s[k + 1].target
          /\ commands'[n + 1].value = s[k + 1].value
          /\ pc'[p] = "submitting" /\ todo'[p] = Tail(todo[p])
  <2>1. CASE Tail(todo[p]) = <<>>
    <3>1. k = Len(s)
      <4>1. Len(Tail(todo[p])) = 0
        BY <2>1, EmptySeq
      <4>2. Len(Tail(todo[p])) = Len(s) - k
        BY <1>8
      <4>3. \A a, b \in Nat : a - b = 0 => b = a
        OBVIOUS
      <4>4. Len(s) - k = 0
        BY <4>1, <4>2, Zenon
      <4>5. Len(s) \in Nat /\ k \in Nat
        BY <1>6
      <4> QED BY <4>3, <4>4, <4>5
    <3>2. pc' = [pc EXCEPT ![p] = "reading"] /\ todo' = [todo EXCEPT ![p] = <<>>] /\ UNCHANGED commands
      BY <2>1 DEF Resume
    <3> QED BY <1>1, <3>1, <3>2 DEF BookInv, BookTypes, SessionTypes
  <2>2. CASE Tail(todo[p]) # <<>>
    <3>1. k < Len(s)
      BY <1>6, <1>8, <2>2, EmptySeq
    <3>2. Submit(p, Tail(todo[p]))
      BY <2>2 DEF Resume
    <3>3. /\ todo'[p] = Tail(todo[p]) /\ Len(commands') = n + 1
          /\ \A i \in 1..n : commands'[i] = commands[i]
          /\ commands'[n + 1].by = p
          /\ commands'[n + 1].target = Tail(todo[p])[1].target
          /\ commands'[n + 1].value = Tail(todo[p])[1].value
      BY <1>1, <1>8, <2>2, <3>2, Submitted DEF n
    <3>4. pc'[p] = "submitting"
      BY <3>2 DEF Submit, BookInv, BookTypes
    <3>5. Tail(todo[p])[1] = s[k + 1]
      <4>1. Len(s) \in Nat /\ k \in Nat
        BY <1>6
      <4>2. 1 \in 1..(Len(s) - k)
        BY <3>1, <4>1
      <4> QED BY <1>8, <4>2
    <3> QED BY <3>1, <3>3, <3>4, <3>5
  <2> QED BY <2>1, <2>2
<1>13. Len(commands') \in Nat /\ Len(commands') >= n /\ \A i \in 1..n : commands'[i] = commands[i]
  <2>1. CASE UNCHANGED commands
    BY <1>2, <2>1 DEF n
  <2>2. CASE /\ Len(commands') = n + 1
             /\ \A i \in 1..n : commands'[i] = commands[i]
    BY <1>2, <2>2
  <2> QED BY <1>12, <2>1, <2>2
<1>14. \A i \in 1..n : commands[i].by # p
  BY <1>1, <1>3 DEF OneEach, n
<1>15. OneEach'
  <2>1. \A i, j \in 1..Len(commands') :
          commands'[i].by \in Peers /\ commands'[i].by = commands'[j].by => i = j
    <3>1. \A i, j \in 1..n : commands[i].by \in Peers /\ commands[i].by = commands[j].by => i = j
      BY <1>1 DEF OneEach, n
    <3>2. CASE UNCHANGED commands
      BY <3>1, <3>2 DEF n
    <3>3. CASE Len(commands') = n + 1 /\ commands'[n + 1].by = p
      BY <1>2, <1>13, <1>14, <3>1, <3>3
    <3> QED BY <1>12, <3>2, <3>3
  <2>2. \A i, j \in 1..Len(woken') : woken'[i].by = woken'[j].by => i = j
    <3> SUFFICES ASSUME NEW i \in 1..Len(woken'), NEW j \in 1..Len(woken'),
                        woken'[i].by = woken'[j].by
                 PROVE  i = j
      OBVIOUS
    <3>1. /\ i + 1 \in 1..Len(woken) /\ j + 1 \in 1..Len(woken)
          /\ woken'[i] = woken[i + 1] /\ woken'[j] = woken[j + 1]
      BY <1>2, <1>3
    <3>2. i + 1 = j + 1
      BY <1>1, <3>1 DEF OneEach
    <3> QED BY <3>2
  <2>3. \A i \in 1..Len(woken') : /\ pc'[woken'[i].by] = "submitting"
                                  /\ \A j \in 1..Len(commands') : commands'[j].by # woken'[i].by
    <3> TAKE i \in 1..Len(woken')
    <3>1. woken'[i] = woken[i + 1] /\ i + 1 \in 1..Len(woken) /\ woken'[i].by \in Peers \ {p}
      BY <1>3, <1>11
    <3>2. pc[woken'[i].by] = "submitting" /\ \A j \in 1..n : commands[j].by # woken'[i].by
      BY <1>1, <3>1 DEF OneEach, n
    <3>3. \A j \in 1..Len(commands') : j \in 1..n \/ commands'[j].by = p
      BY <1>2, <1>12 DEF n
    <3> QED BY <1>9, <1>13, <3>1, <3>2, <3>3
  <2>4. \A q \in Peers : pc'[q] = "submitting" <=> todo'[q] # <<>>
    <3>1. pc'[p] = "submitting" <=> todo'[p] # <<>>
      <4>1. CASE k < Len(s)
        <5>1. Len(Tail(todo[p])) = Len(s) - k /\ Len(s) - k # 0
          BY <1>6, <1>8, <4>1
        <5>2. Tail(todo[p]) # <<>>
          BY <5>1, EmptySeq
        <5> QED BY <1>6, <1>12, <4>1, <5>2
      <4>2. CASE k = Len(s)
        BY <1>6, <1>12, <4>2
      <4> QED BY <1>6, <4>1, <4>2
    <3> QED BY <1>1, <1>9, <3>1 DEF OneEach
  <2> QED BY <2>1, <2>2, <2>3, <2>4 DEF OneEach
<1>16. UnderWay'
  <2> SUFFICES ASSUME NEW q \in Peers, pc'[q] = "submitting"
               PROVE  HasMessage(q)'
    BY DEF UnderWay
  <2>1. CASE q = p
    <3>1. k < Len(s) /\ todo'[p] = Tail(todo[p])
      BY <1>12, <2>1
    <3>2. Len(applied'[p]) = IF Answered(p)' THEN k + 1 ELSE k
      BY <1>7, <1>9, <1>11
    <3>3. \A i \in 1..Len(commands') : commands'[i].by = p =>
            commands'[i].target = s[k + 1].target /\ commands'[i].value = s[k + 1].value
      <4>1. /\ Len(commands') = n + 1
            /\ \A i \in 1..n : commands'[i] = commands[i]
            /\ commands'[n + 1].target = s[k + 1].target
            /\ commands'[n + 1].value = s[k + 1].value
        BY <1>6, <1>12, <3>1
      <4>2. \A i \in 1..Len(commands') : i \in 1..n \/ i = n + 1
        BY <1>2, <4>1
      <4> QED BY <1>14, <4>1, <4>2
    <3>4. OnMessage(p, m, k + 1)'
      <4>1. Len(todo'[p]) = Len(s) - (k + 1) + 1
        BY <1>6, <1>8, <3>1
      <4>2. \A i \in 1..Len(todo'[p]) : todo'[p][i] = s[(k + 1) + i - 1]
        <5> TAKE i \in 1..Len(todo'[p])
        <5>1. i \in 1..(Len(s) - k) /\ (k + 1) + i - 1 = k + i
          BY <1>6, <4>1
        <5> QED BY <1>8, <3>1, <5>1
      <4>3. /\ Len(applied'[p]) = IF Answered(p)' THEN k + 1 ELSE (k + 1) - 1
            /\ \A i \in 1..Len(applied'[p]) : applied'[p][i] = s[i].target
        BY <1>6, <1>7, <1>9, <3>2
      <4> QED BY <3>3, <4>1, <4>2, <4>3 DEF OnMessage, s
    <3>5. k + 1 \in 1..Len(CommandsOf(m))
      BY <1>6, <3>1 DEF s
    <3> QED BY <2>1, <3>4, <3>5 DEF HasMessage
  <2>2. CASE q # p
    <3>1. HasMessage(q)
      BY <1>1, <1>9, <2>2 DEF UnderWay
    <3>2. \A i \in 1..Len(commands') : commands'[i].by = q =>
            \E j \in 1..Len(commands) : commands'[i] = commands[j]
      BY <1>2, <1>12, <2>2 DEF n
    <3> QED BY <1>9, <1>11, <2>2, <3>1, <3>2, SameMessage
  <2> QED BY <2>1, <2>2
<1>17. CarriedOut'
  <2> SUFFICES ASSUME NEW q \in Peers, pc'[q] = "reading", applied'[q] # <<>>
               PROVE  \E mm \in Messages :
                        /\ Len(applied'[q]) = Len(CommandsOf(mm))
                        /\ \A i \in 1..Len(applied'[q]) : applied'[q][i] = CommandsOf(mm)[i].target
    BY DEF CarriedOut
  <2>1. CASE q = p
    BY <1>7, <1>9, <1>12, <2>1 DEF s
  <2>2. CASE q # p
    BY <1>9, <2>2 DEF SessionInv, CarriedOut
  <2> QED BY <2>1, <2>2
<1>18. Reports'
  <2> SUFFICES ASSUME NEW q \in Peers, transport'[q] = "open", pc'[q] \in {"reading", "submitting"}
               PROVE  /\ Refusal(q)' => refused'[q] = reported'[q] + 1
                      /\ ~Refusal(q)' => refused'[q] = reported'[q]
    BY DEF Reports
  <2>1. CASE q = p
    <3>1. Refusal(p) <=> ~woken[1].ok
      BY <1>1, <1>3 DEF OneEach, Refusal
    <3>2. transport[p] = "open" /\ pc[p] = "submitting"
      BY <1>9, <2>1 DEF Resume
    <3>3. /\ ~woken[1].ok => refused[p] = reported[p] + 1
          /\ woken[1].ok => refused[p] = reported[p]
      BY <3>1, <3>2 DEF SessionInv, Reports
    <3>4. /\ ~woken[1].ok => reported'[p] = reported[p] + 1
          /\ woken[1].ok => reported'[p] = reported[p]
      BY <1>1, <1>3, <3>2 DEF Resume, SessionTypes
    <3>5. refused'[p] = reported'[p]
      BY <1>9, <3>3, <3>4
    <3> QED BY <1>11, <2>1, <3>5
  <2>2. CASE q # p
    BY <1>9, <1>11, <2>2 DEF SessionInv, Reports
  <2> QED BY <2>1, <2>2
<1>19. (~split => DoorsFollow)'
  <2> SUFFICES ASSUME ~split
               PROVE  DoorsFollow'
    BY <1>9
  <2>1. DoorsFollow
    BY DEF SessionInv
  <2>2. \A i \in 1..Len(commands') :
          commands'[i].target \in Door => pc'[commands'[i].by] = "submitting"
    <3> SUFFICES ASSUME NEW i \in 1..Len(commands'), commands'[i].target \in Door
                 PROVE  pc'[commands'[i].by] = "submitting"
      OBVIOUS
    <3>1. CASE i \in 1..n
      <4>1. /\ commands'[i] = commands[i] /\ commands[i].by # p
            /\ pc[commands[i].by] = "submitting"
        BY <1>13, <1>14, <2>1, <3>1 DEF DoorsFollow, n
      <4>2. commands[i] \in Entry
        BY <1>2, <3>1
      <4>3. commands[i].by \in Peers
        BY <3>1, <4>1, <4>2 DEF Entry, Door
      <4> QED BY <1>9, <4>1, <4>3
    <3>2. CASE i \notin 1..n
      BY <1>2, <1>12, <3>2 DEF n
    <3> QED BY <3>1, <3>2
  <2>3. CASE ~LeftWoken(1)
    <3>1. s[k].target # "left"
      BY <1>3, <1>8, <2>3 DEF LeftWoken
    <3>2. k < Len(s) => s[k + 1].target # "right"
      BY <1>6, <3>1
    <3>3. \A i \in 1..Len(commands') : i > Len(commands) => commands'[i].target # "right"
      BY <1>2, <1>12, <3>2 DEF n
    <3> QED BY <1>1, <1>9, <1>10, <1>13, <2>1, <2>2, <2>3, <3>3, TakenDoors DEF n
  <2>4. CASE LeftWoken(1)
    <3>1. s[k].target = "left"
      BY <1>3, <1>8, <2>4 DEF LeftWoken
    <3>2. /\ k < Len(s) /\ s[k + 1].target = "right" /\ s[k + 1].value = s[k].value
      BY <1>6, <3>1
    <3>3. /\ Len(commands') = n + 1
          /\ commands'[n + 1].target = "right" /\ commands'[n + 1].value = s[k].value
      BY <1>12, <3>2
    <3>4. \A j \in 1..Len(woken') : LastLeft(j)' => todo'[woken'[j].by][1].value = doors'["left"]
      <4> SUFFICES ASSUME NEW j \in 1..Len(woken'), LastLeft(j)'
                   PROVE  todo'[woken'[j].by][1].value = doors["left"]
        BY <1>9
      <4>1. PICK i \in 1..Len(woken) : LastLeft(i) /\ woken'[j] = woken[i]
        BY <1>1, <1>10, TakenLefts
      <4>2. todo'[woken'[j].by] = todo[woken[i].by]
        BY <1>9, <1>11, <4>1
      <4> QED BY <2>1, <4>1, <4>2 DEF DoorsFollow
    <3>5. ASSUME \A j \in 1..Len(woken') : ~LeftWoken(j)'
          PROVE  \A i \in 1..Len(commands') : LastRight(i)' => commands'[i].value = doors'["left"]
      <4>1. \A i \in 1..Len(woken) : i # 1 => ~LeftWoken(i)
        BY <1>1, <1>10, <3>5, TakenLefts
      <4>2. LastLeft(1)
        BY <2>4, <4>1 DEF LastLeft
      <4>3. s[k].value = doors["left"]
        BY <1>3, <1>8, <2>1, <4>2 DEF DoorsFollow
      <4>4. \A i \in 1..Len(commands') : LastRight(i)' => i = n + 1
        BY <1>2, <3>3 DEF LastRight
      <4> QED BY <1>9, <3>3, <4>3, <4>4
    <3>6. n + 1 \in 1..Len(commands')
      BY <1>2, <3>3
    <3> QED BY <2>2, <3>3, <3>4, <3>5, <3>6 DEF DoorsFollow
  <2> QED BY <2>3, <2>4
<1> QED BY <1>1, <1>15, <1>16, <1>17, <1>18, <1>19 DEF SessionInv

-----------------------------------------------------------------------------
(* The core applies a command.                                             *)

\* What an application does to the queue and the answers.
LEMMA ApplyFacts ==
  ASSUME SessionTypes, Apply
  PROVE  /\ Len(commands) \in Nat \ {0} /\ commands[1] \in Entry
         /\ Len(commands') = Len(commands) - 1
         /\ \A i \in 1..(Len(commands) - 1) : commands'[i] = commands[i + 1]
         /\ UNCHANGED <<pc, todo, transport, reported>>
         /\ \/ /\ commands[1].by \in Peers /\ pc[commands[1].by] = "submitting"
               /\ Len(woken') = Len(woken) + 1
               /\ \A i \in 1..Len(woken) : woken'[i] = woken[i]
               /\ woken'[Len(woken) + 1].by = commands[1].by
               /\ woken'[Len(woken) + 1].ok <=> Accepted(commands[1])
            \/ /\ ~(commands[1].by \in Peers /\ pc[commands[1].by] = "submitting")
               /\ UNCHANGED <<woken, applied, refused>>
<1> DEFINE c == Head(commands)
           w == [by |-> c.by, ok |-> Accepted(c)]
<1>1. /\ Len(commands) \in Nat \ {0} /\ c = commands[1] /\ c \in Entry
      /\ Len(commands') = Len(commands) - 1
      /\ \A i \in 1..(Len(commands) - 1) : commands'[i] = commands[i + 1]
  BY HeadAndTail DEF SessionTypes, Apply
<1>2. UNCHANGED <<pc, todo, transport, reported>>
  BY DEF Apply, sessionVars, wireVars
<1>3. CASE c.by \in Peers /\ pc[c.by] = "submitting"
  <2>1. woken' = Append(woken, w)
    BY <1>3 DEF Apply
  <2>2. w \in [by : Peers, ok : BOOLEAN] /\ w.by = c.by /\ (w.ok <=> Accepted(c))
    <3>1. Accepted(c) \in BOOLEAN
      BY Zenon DEF Accepted
    <3> HIDE DEF c
    <3> QED BY <1>3, <3>1
  <2> HIDE DEF w
  <2>3. /\ Len(woken') = Len(woken) + 1
        /\ \A i \in 1..Len(woken) : woken'[i] = woken[i]
        /\ woken'[Len(woken) + 1] = w
    BY <2>1, <2>2, AppendProperties DEF SessionTypes
  <2>4. woken'[Len(woken) + 1].by = c.by /\ (woken'[Len(woken) + 1].ok <=> Accepted(c))
    BY <2>2, <2>3, Zenon
  <2> HIDE DEF c
  <2> QED BY <1>1, <1>2, <1>3, <2>3, <2>4, Zenon
<1>4. CASE ~(c.by \in Peers /\ pc[c.by] = "submitting")
  <2>1. UNCHANGED <<woken, applied, refused>>
    BY <1>4 DEF Apply
  <2> HIDE DEF c
  <2> QED BY <1>1, <1>2, <1>4, <2>1, Zenon
<1> QED BY <1>3, <1>4

\* The answer goes to the session that waits for it, and to nobody else.
LEMMA ApplySessions ==
  ASSUME AtpAssumption, BookInv, SessionInv, EndedLate', Apply
  PROVE  SessionTypes' /\ OneEach' /\ UnderWay' /\ CarriedOut' /\ Reports'
<1> DEFINE n == Len(commands)
           c == commands[1]
           l == Len(woken)
<1>1. SessionTypes /\ OneEach /\ UnderWay /\ SessionTypes'
  BY ApplyTypes DEF SessionInv
<1>2. /\ n \in Nat \ {0} /\ c \in Entry /\ l \in Nat
      /\ Len(commands') = n - 1
      /\ \A i \in 1..(n - 1) : commands'[i] = commands[i + 1]
      /\ UNCHANGED <<pc, todo, transport, reported>>
      /\ \A i \in 1..l : woken[i].by \in Peers
  BY <1>1, ApplyFacts, Owners
<1>3. \/ /\ c.by \in Peers /\ pc[c.by] = "submitting"
         /\ Len(woken') = l + 1
         /\ \A i \in 1..l : woken'[i] = woken[i]
         /\ woken'[l + 1].by = c.by
         /\ woken'[l + 1].ok <=> Accepted(c)
      \/ /\ ~(c.by \in Peers /\ pc[c.by] = "submitting")
         /\ UNCHANGED <<woken, applied, refused>>
  BY <1>1, ApplyFacts
<1>4. /\ \A i, j \in 1..n : commands[i].by \in Peers /\ commands[i].by = commands[j].by => i = j
      /\ \A i, j \in 1..l : woken[i].by = woken[j].by => i = j
      /\ \A i \in 1..l : /\ pc[woken[i].by] = "submitting"
                         /\ \A j \in 1..n : commands[j].by # woken[i].by
      /\ \A p \in Peers : pc[p] = "submitting" <=> todo[p] # <<>>
  BY <1>1 DEF OneEach
<1>5. c.by \in Peers /\ pc[c.by] = "submitting" =>
        /\ applied' = [applied EXCEPT ![c.by] = Append(@, c.target)]
        /\ refused' = [refused EXCEPT ![c.by] = IF Accepted(c) THEN @ ELSE @ + 1]
  <2>1. commands # <<>> /\ c = Head(commands)
    BY <1>1, HeadAndTail DEF SessionTypes, Apply
  <2> QED BY <2>1 DEF Apply
<1>6. \A q \in Peers : q # c.by \/ pc[q] # "submitting" => applied'[q] = applied[q] /\ refused'[q] = refused[q]
  BY <1>1, <1>3, <1>5 DEF SessionTypes
<1> HIDE DEF n, c, l
<1>7. \A i \in 1..l : woken[i].by # c.by
  BY <1>2, <1>4 DEF c
<1>8. \A i \in 1..(n - 1) : c.by \in Peers => commands'[i].by # c.by
  <2> SUFFICES ASSUME NEW i \in 1..(n - 1), c.by \in Peers, commands[i + 1].by = c.by
               PROVE  FALSE
    BY <1>2
  <2>1. i + 1 \in 1..n /\ 1 \in 1..n /\ commands[1] = c
    BY <1>2 DEF c
  <2>2. 1 = i + 1
    BY <1>4, <2>1
  <2> QED BY <2>2
<1>9. OneEach'
  <2>1. \A i, j \in 1..(n - 1) :
          commands'[i].by \in Peers /\ commands'[i].by = commands'[j].by => i = j
    <3> SUFFICES ASSUME NEW i \in 1..(n - 1), NEW j \in 1..(n - 1),
                        commands'[i].by \in Peers, commands'[i].by = commands'[j].by
                 PROVE  i = j
      OBVIOUS
    <3>1. /\ i + 1 \in 1..n /\ j + 1 \in 1..n
          /\ commands'[i] = commands[i + 1] /\ commands'[j] = commands[j + 1]
      BY <1>2
    <3>2. i + 1 = j + 1
      BY <1>4, <3>1
    <3> QED BY <3>2
  <2>2. \A i \in 1..l : \A j \in 1..(n - 1) : commands'[j].by # woken[i].by
    <3> TAKE i \in 1..l
    <3> TAKE j \in 1..(n - 1)
    <3>1. j + 1 \in 1..n /\ commands'[j] = commands[j + 1]
      BY <1>2
    <3> QED BY <1>4, <3>1
  <2>3. CASE UNCHANGED woken
    BY <1>2, <1>4, <2>1, <2>2, <2>3 DEF OneEach, l
  <2>4. CASE /\ c.by \in Peers /\ pc[c.by] = "submitting"
             /\ Len(woken') = l + 1
             /\ \A i \in 1..l : woken'[i] = woken[i]
             /\ woken'[l + 1].by = c.by
    <3>1. \A i, j \in 1..(l + 1) : woken'[i].by = woken'[j].by => i = j
      <4> TAKE i, j \in 1..(l + 1)
      <4>1. (i \in 1..l \/ i = l + 1) /\ (j \in 1..l \/ j = l + 1)
        BY <1>2
      <4> QED BY <1>4, <1>7, <2>4, <4>1
    <3>2. \A i \in 1..(l + 1) : /\ pc[woken'[i].by] = "submitting"
                                /\ \A j \in 1..(n - 1) : commands'[j].by # woken'[i].by
      <4> TAKE i \in 1..(l + 1)
      <4>1. CASE i \in 1..l
        BY <1>4, <2>2, <2>4, <4>1
      <4>2. CASE i = l + 1
        BY <1>8, <2>4, <4>2
      <4> QED BY <1>2, <4>1, <4>2
    <3> QED BY <1>2, <1>4, <2>1, <2>4, <3>1, <3>2 DEF OneEach
  <2> QED BY <1>3, <2>3, <2>4
<1>10. \A q \in Peers : q # c.by \/ pc[q] # "submitting" =>
          (Answered(q)' <=> Answered(q)) /\ (Refusal(q)' <=> Refusal(q))
  <2> SUFFICES ASSUME NEW q \in Peers, q # c.by \/ pc[q] # "submitting"
               PROVE  (Answered(q)' <=> Answered(q)) /\ (Refusal(q)' <=> Refusal(q))
    OBVIOUS
  <2>1. CASE UNCHANGED woken
    BY <2>1 DEF Answered, Refusal
  <2>2. CASE /\ pc[c.by] = "submitting"
             /\ Len(woken') = l + 1
             /\ \A i \in 1..l : woken'[i] = woken[i]
             /\ woken'[l + 1].by = c.by
    <3>1. c.by # q
      BY <2>2
    <3>2. \A i \in 1..(l + 1) : i \in 1..l \/ woken'[i].by # q
      BY <1>2, <2>2, <3>1
    <3>3. 1..l \subseteq 1..(l + 1)
      BY <1>2
    <3> QED BY <2>2, <3>2, <3>3, Zenon DEF Answered, Refusal, l
  <2> QED BY <1>3, <2>1, <2>2
<1>11. \A q \in Peers : \A i \in 1..Len(commands') : commands'[i].by = q =>
         \E j \in 1..Len(commands) : commands'[i] = commands[j]
  <2> TAKE q \in Peers
  <2> TAKE i \in 1..Len(commands')
  <2>1. i + 1 \in 1..n /\ commands'[i] = commands[i + 1]
    BY <1>2
  <2> QED BY <2>1 DEF n
<1>12. UnderWay'
  <2> SUFFICES ASSUME NEW q \in Peers, pc'[q] = "submitting"
               PROVE  HasMessage(q)'
    BY DEF UnderWay
  <2>1. HasMessage(q)
    BY <1>1, <1>2 DEF UnderWay
  <2>2. CASE q = c.by
    <3>1. PICK m \in Messages : \E k \in 1..Len(CommandsOf(m)) : OnMessage(q, m, k)
      BY <2>1 DEF HasMessage
    <3>2. PICK k \in 1..Len(CommandsOf(m)) : OnMessage(q, m, k)
      BY <3>1
    <3> DEFINE s == CommandsOf(m)
    <3>3. Len(s) \in 1..4
      BY CommandsShape
    <3>4. ~Answered(q) /\ Answered(q)'
      <4>1. pc[c.by] = "submitting" /\ c.by \in Peers
        BY <1>2, <2>2
      <4>2. Len(woken') = l + 1 /\ woken'[l + 1].by = q /\ l + 1 \in 1..(l + 1)
        BY <1>2, <1>3, <2>2, <4>1
      <4> QED BY <1>7, <2>2, <4>2 DEF Answered, l
    <3>5. /\ c.target = s[k].target
          /\ Len(applied[q]) = k - 1
          /\ \A i \in 1..(k - 1) : applied[q][i] = s[i].target
      <4>1. 1 \in 1..n /\ commands[1].by = q
        BY <1>2, <2>2 DEF c
      <4>2. c.target = s[k].target
        BY <3>2, <4>1 DEF OnMessage, c, n
      <4>3. Len(applied[q]) = k - 1 /\ \A i \in 1..Len(applied[q]) : applied[q][i] = s[i].target
        BY <3>2, <3>4 DEF OnMessage
      <4> QED BY <4>2, <4>3
    <3>6. applied'[q] = Append(applied[q], c.target) /\ applied[q] \in Seq(Targets) /\ c.target \in Targets
      BY <1>1, <1>2, <1>5, <2>2 DEF SessionTypes, Entry
    <3> HIDE DEF s
    <3>7. Len(applied'[q]) = k /\ \A i \in 1..k : applied'[q][i] = s[i].target
      <4>1. /\ Len(applied'[q]) = Len(applied[q]) + 1
            /\ \A i \in 1..Len(applied[q]) : applied'[q][i] = applied[q][i]
            /\ applied'[q][Len(applied[q]) + 1] = c.target
        BY <3>6, AppendProperties
      <4>2. k \in Nat /\ k - 1 + 1 = k /\ \A i \in 1..k : i \in 1..(k - 1) \/ i = k
        BY <3>2, <3>3 DEF s
      <4> QED BY <3>5, <4>1, <4>2
    <3>8. OnMessage(q, m, k)'
      <4>1. \A i \in 1..Len(commands') : commands'[i].by # q
        BY <1>2, <1>8, <2>2
      <4> QED BY <1>2, <3>2, <3>4, <3>7, <4>1 DEF OnMessage, s
    <3> QED BY <3>8 DEF HasMessage
  <2>3. CASE q # c.by
    <3>1. Answered(q)' <=> Answered(q)
      BY <1>10, <2>3
    <3>2. todo'[q] = todo[q] /\ applied'[q] = applied[q]
      BY <1>2, <1>6, <2>3
    <3> QED BY <1>11, <2>1, <3>1, <3>2, SameMessage
  <2> QED BY <2>2, <2>3
<1>13. CarriedOut'
  BY <1>2, <1>6 DEF SessionInv, CarriedOut
<1>14. Reports'
  <2> SUFFICES ASSUME NEW q \in Peers, transport'[q] = "open", pc'[q] \in {"reading", "submitting"}
               PROVE  /\ Refusal(q)' => refused'[q] = reported'[q] + 1
                      /\ ~Refusal(q)' => refused'[q] = reported'[q]
    BY DEF Reports
  <2>1. /\ Refusal(q) => refused[q] = reported[q] + 1
        /\ ~Refusal(q) => refused[q] = reported[q]
    BY <1>2 DEF SessionInv, Reports
  <2>2. CASE q = c.by /\ pc[q] = "submitting"
    <3>1. /\ Len(woken') = l + 1
          /\ \A i \in 1..l : woken'[i] = woken[i]
          /\ woken'[l + 1].by = q /\ (woken'[l + 1].ok <=> Accepted(c))
      BY <1>3, <2>2
    <3>2. ~Refusal(q)
      BY <1>7, <2>2 DEF Refusal, l
    <3>3. Refusal(q)' <=> ~Accepted(c)
      <4>1. l + 1 \in 1..(l + 1) /\ \A i \in 1..(l + 1) : i \in 1..l \/ i = l + 1
        BY <1>2
      <4>2. \A i \in 1..l : woken'[i].by # q
        BY <1>7, <2>2, <3>1
      <4> QED BY <3>1, <4>1, <4>2, Zenon DEF Refusal
    <3>4. /\ Accepted(c) => refused'[q] = refused[q]
          /\ ~Accepted(c) => refused'[q] = refused[q] + 1
      BY <1>1, <1>5, <2>2 DEF SessionTypes
    <3> QED BY <1>2, <2>1, <3>2, <3>3, <3>4
  <2>3. CASE ~(q = c.by /\ pc[q] = "submitting")
    BY <1>2, <1>6, <1>10, <2>1, <2>3
  <2> QED BY <2>2, <2>3
<1> QED BY <1>1, <1>9, <1>12, <1>13, <1>14

\* A session whose left door is answered, or whose right door waits, is between
\* the two.
LEMMA Between ==
  ASSUME AtpAssumption, SessionTypes, OneEach, UnderWay, NEW p \in Peers, pc[p] = "submitting",
         \/ Answered(p) /\ todo[p][1].target = "left"
         \/ ~Answered(p) /\ \E i \in 1..Len(commands) : commands[i].by = p /\ commands[i].target = "right"
  PROVE  BetweenDoors(p)
<1>1. PICK m \in Messages : \E k \in 1..Len(CommandsOf(m)) : OnMessage(p, m, k)
  BY DEF UnderWay, HasMessage
<1>2. PICK k \in 1..Len(CommandsOf(m)) : OnMessage(p, m, k)
  BY <1>1
<1> DEFINE s == CommandsOf(m)
           b == applied[p]
<1>3. /\ Len(s) \in 1..4
      /\ \A i, j \in 1..Len(s) : s[i].target = s[j].target => i = j
      /\ \A i \in 1..Len(s) : s[i].target = "left" => i < Len(s) /\ s[i + 1].target = "right"
      /\ \A i \in 1..Len(s) : s[i].target = "right" => i > 1 /\ s[i - 1].target = "left"
  BY CommandsShape
<1>4. DOMAIN b = 1..Len(b) /\ \A i \in 1..Len(b) : b[i] = s[i].target
  BY <1>2, LenProperties DEF OnMessage, SessionTypes
<1>5. k \in 1..Len(s)
  BY <1>2
<1>6. CASE Answered(p) /\ todo[p][1].target = "left"
  <2>1. Len(b) = k
    BY <1>2, <1>6 DEF OnMessage
  <2>2. s[k].target = "left"
    <3>1. Len(todo[p]) = Len(s) - k + 1 /\ \A i \in 1..Len(todo[p]) : todo[p][i] = s[k + i - 1]
      BY <1>2 DEF OnMessage
    <3> HIDE DEF s
    <3>2. 1 \in 1..Len(todo[p]) /\ k + 1 - 1 = k
      BY <1>3, <1>5, <3>1
    <3> QED BY <1>6, <3>1, <3>2
  <2> HIDE DEF s, b
  <2>3. k \in DOMAIN b /\ b[k] = "left"
    BY <1>3, <1>4, <1>5, <2>1, <2>2
  <2>4. ASSUME NEW j \in DOMAIN b, b[j] = "right"
        PROVE  FALSE
    <3>1. j \in 1..k /\ j \in 1..Len(s) /\ s[j].target = "right"
      BY <1>3, <1>4, <1>5, <2>1, <2>4
    <3>2. j - 1 \in 1..Len(s) /\ s[j - 1].target = "left" /\ j - 1 # k
      BY <1>3, <1>5, <3>1
    <3> QED BY <1>3, <1>5, <2>2, <3>2
  <2> QED BY <2>3, <2>4 DEF BetweenDoors, b
<1>7. CASE ~Answered(p) /\ \E i \in 1..Len(commands) : commands[i].by = p /\ commands[i].target = "right"
  <2>1. Len(b) = k - 1 /\ s[k].target = "right"
    BY <1>2, <1>7 DEF OnMessage
  <2> HIDE DEF s, b
  <2>2. k > 1 /\ s[k - 1].target = "left"
    BY <1>3, <1>5, <2>1
  <2>3. k - 1 \in DOMAIN b /\ b[k - 1] = "left"
    BY <1>3, <1>4, <1>5, <2>1, <2>2
  <2>4. ASSUME NEW j \in DOMAIN b, b[j] = "right"
        PROVE  FALSE
    <3>1. j \in 1..(k - 1) /\ j \in 1..Len(s) /\ s[j].target = "right"
      BY <1>3, <1>4, <1>5, <2>1, <2>4
    <3> QED BY <1>3, <1>5, <2>1, <3>1
  <2> QED BY <2>3, <2>4 DEF BetweenDoors, b
<1> QED BY <1>6, <1>7

\* A left goes ahead, a right follows, and a reset finds no session between.
LEMMA ApplyDoors ==
  ASSUME AtpAssumption, SessionInv, Apply, ~split'
  PROVE  DoorsFollow'
<1> DEFINE n == Len(commands)
           c == commands[1]
           l == Len(woken)
<1>1. SessionTypes /\ OneEach /\ UnderWay /\ DoorsFollow
  BY DEF SessionInv, Apply
<1>2. /\ n \in Nat \ {0} /\ c \in Entry /\ l \in Nat
      /\ Len(commands') = n - 1
      /\ \A i \in 1..(n - 1) : commands'[i] = commands[i + 1]
      /\ UNCHANGED <<pc, todo>>
      /\ \A i \in 1..l : woken[i].by \in Peers
      /\ \A i \in 1..n : commands[i] \in Entry
  BY <1>1, ApplyFacts, Owners
<1>3. \/ /\ c.by \in Peers /\ pc[c.by] = "submitting"
         /\ Len(woken') = l + 1
         /\ \A i \in 1..l : woken'[i] = woken[i]
         /\ woken'[l + 1].by = c.by
      \/ /\ ~(c.by \in Peers /\ pc[c.by] = "submitting")
         /\ UNCHANGED woken
  BY <1>1, ApplyFacts
<1>4. commands # <<>> /\ c = Head(commands)
  BY <1>1, HeadAndTail DEF SessionTypes, Apply
<1>5. /\ c.target = "reset" => /\ doors' = [d \in Door |-> "close"]
                               /\ ~\E p \in Peers : BetweenDoors(p)
      /\ c.target \in Door => doors' = [doors EXCEPT ![c.target] = c.value]
      /\ c.target \notin Door \cup {"reset"} => UNCHANGED doors
  <2>1. DOMAIN doors = Door
    BY <1>1 DEF SessionTypes
  <2> QED BY <1>4, <2>1 DEF Apply, Door
<1>6. /\ c.target = "reset" <=> c.by = Other
      /\ c.by \in Peers \cup {Other} /\ Other \notin Peers
      /\ doors \in [Door -> DoorStates]
  BY <1>1, <1>2 DEF Entry, AtpAssumption, SessionTypes
<1>7. c.by \in Peers /\ pc[c.by] = "submitting" => todo[c.by][1].target = c.target /\ todo[c.by][1].value = c.value
  <2> SUFFICES ASSUME c.by \in Peers, pc[c.by] = "submitting"
               PROVE  todo[c.by][1].target = c.target /\ todo[c.by][1].value = c.value
    OBVIOUS
  <2> DEFINE p == c.by
  <2>1. PICK m \in Messages : \E k \in 1..Len(CommandsOf(m)) : OnMessage(p, m, k)
    BY <1>1 DEF UnderWay, HasMessage
  <2>2. PICK k \in 1..Len(CommandsOf(m)) : OnMessage(p, m, k)
    BY <2>1
  <2> DEFINE s == CommandsOf(m)
  <2>3. c.target = s[k].target /\ c.value = s[k].value
    <3>1. 1 \in 1..n /\ commands[1].by = p
      BY <1>2
    <3> QED BY <2>2, <3>1 DEF OnMessage
  <2>4. Len(todo[p]) = Len(s) - k + 1 /\ \A i \in 1..Len(todo[p]) : todo[p][i] = s[k + i - 1]
    BY <2>2 DEF OnMessage
  <2>5. Len(s) \in 1..4 /\ k \in 1..Len(s)
    BY <2>2, CommandsShape
  <2> HIDE DEF s, p
  <2>6. 1 \in 1..Len(todo[p]) /\ k + 1 - 1 = k
    BY <2>4, <2>5
  <2>7. todo[p][1] = s[k]
    BY <2>4, <2>6
  <2> QED BY <2>3, <2>7 DEF p
<1> HIDE DEF n, c, l
<1>8. \A i \in 1..(n - 1) :
        commands'[i].target \in Door => pc'[commands'[i].by] = "submitting"
  <2> TAKE i \in 1..(n - 1)
  <2>1. i + 1 \in 1..n /\ commands'[i] = commands[i + 1]
    BY <1>2
  <2> QED BY <1>1, <1>2, <2>1 DEF DoorsFollow, n
<1>9. \A i \in 1..l : woken'[i] = woken[i] /\ (LeftWoken(i)' <=> LeftWoken(i))
  BY <1>2, <1>3 DEF LeftWoken
<1>10. CASE c.target = "reset"
  <2>1. \A i \in 1..l : ~LeftWoken(i)
    <3> SUFFICES ASSUME NEW i \in 1..l, LeftWoken(i)
                 PROVE  FALSE
      OBVIOUS
    <3>1. woken[i].by \in Peers /\ pc[woken[i].by] = "submitting" /\ Answered(woken[i].by)
      BY <1>1, <1>2 DEF OneEach, Answered, l
    <3>2. BetweenDoors(woken[i].by)
      BY <1>1, <3>1, Between DEF LeftWoken
    <3> QED BY <1>5, <1>10, <3>1, <3>2
  <2>2. \A i \in 1..n : commands[i].target # "right"
    <3> SUFFICES ASSUME NEW i \in 1..n, commands[i].target = "right"
                 PROVE  FALSE
      OBVIOUS
    <3>1. commands[i].by \in Peers
      BY <1>2 DEF Entry
    <3>2. pc[commands[i].by] = "submitting"
      BY <1>1 DEF DoorsFollow, Door, n
    <3>3. ~Answered(commands[i].by)
      BY <1>1 DEF OneEach, Answered, n
    <3>4. BetweenDoors(commands[i].by)
      BY <1>1, <3>1, <3>2, <3>3, Between DEF n
    <3> QED BY <1>5, <1>10, <3>1, <3>4
  <2>3. doors'["left"] = doors'["right"]
    BY <1>5, <1>10 DEF Door
  <2>4. UNCHANGED woken
    BY <1>3, <1>6, <1>10
  <2>5. \A i \in 1..(n - 1) : commands'[i].target # "right"
    <3> TAKE i \in 1..(n - 1)
    <3>1. i + 1 \in 1..n /\ commands'[i] = commands[i + 1]
      BY <1>2
    <3> QED BY <2>2, <3>1
  <2>6. \A i \in 1..Len(woken') : ~LeftWoken(i)'
    BY <1>9, <2>1, <2>4 DEF l
  <2> QED BY <1>2, <1>8, <2>3, <2>5, <2>6 DEF DoorsFollow, LastLeft, LastRight
<1>11. CASE c.target = "left"
  <2>1. c.by \in Peers /\ pc[c.by] = "submitting"
    <3>1. 1 \in 1..n /\ c = commands[1]
      BY <1>2 DEF c
    <3> QED BY <1>1, <1>6, <1>11, <3>1 DEF DoorsFollow, Door, n
  <2>2. Len(woken') = l + 1 /\ woken'[l + 1].by = c.by
    BY <1>3, <2>1
  <2>3. todo'[woken'[l + 1].by][1].target = "left" /\ todo'[woken'[l + 1].by][1].value = c.value
    BY <1>2, <1>7, <1>11, <2>1, <2>2
  <2>4. doors'["left"] = c.value
    BY <1>5, <1>6, <1>11 DEF Door
  <2>5. PICK e \in 1..Len(woken') : e = l + 1
    BY <1>2, <2>2
  <2>6. LeftWoken(e)' /\ todo'[woken'[e].by][1].value = doors'["left"]
    BY <2>3, <2>4, <2>5 DEF LeftWoken
  <2>7. \A i \in 1..Len(woken') : LastLeft(i)' => i = e
    BY <1>2, <2>2, <2>5, <2>6 DEF LastLeft
  <2> QED BY <1>2, <1>8, <2>6, <2>7 DEF DoorsFollow
<1>12. CASE c.target \notin {"left", "reset"}
  <2>1. /\ \A i \in 1..l : i \in 1..Len(woken')
        /\ \A i \in 1..Len(woken') : i \in 1..l \/ ~LeftWoken(i)'
    <3>1. CASE UNCHANGED woken
      BY <3>1 DEF l
    <3>2. CASE /\ c.by \in Peers /\ pc[c.by] = "submitting"
               /\ Len(woken') = l + 1 /\ woken'[l + 1].by = c.by
      <4>1. todo'[woken'[l + 1].by][1].target # "left"
        BY <1>2, <1>7, <1>12, <3>2
      <4>2. \A i \in 1..Len(woken') : i \in 1..l \/ i = l + 1
        BY <1>2, <3>2
      <4> QED BY <1>2, <3>2, <4>1, <4>2 DEF LeftWoken
    <3> QED BY <1>3, <3>1, <3>2
  <2>2. doors'["left"] = doors["left"]
    BY <1>5, <1>6, <1>12 DEF Door
  <2>3. \A i \in 1..Len(woken') : LastLeft(i)' =>
          i \in 1..l /\ LastLeft(i) /\ todo'[woken'[i].by][1].value = todo[woken[i].by][1].value
    BY <1>2, <1>9, <2>1 DEF LastLeft, l
  <2>4. \A i \in 1..Len(woken') : LastLeft(i)' => todo'[woken'[i].by][1].value = doors'["left"]
    BY <1>1, <2>2, <2>3 DEF DoorsFollow, l
  <2>5. ASSUME \A i \in 1..Len(woken') : ~LeftWoken(i)'
        PROVE  /\ \A i \in 1..(n - 1) : LastRight(i)' => commands'[i].value = doors'["left"]
               /\ (\A i \in 1..(n - 1) : commands'[i].target # "right") => doors'["left"] = doors'["right"]
    <3>1. \A i \in 1..l : ~LeftWoken(i)
      BY <1>9, <2>1, <2>5
    <3>2. /\ \A i \in 1..n : LastRight(i) => commands[i].value = doors["left"]
          /\ (\A i \in 1..n : commands[i].target # "right") => doors["left"] = doors["right"]
      BY <1>1, <3>1 DEF DoorsFollow, l, n
    <3>3. \A i \in 1..(n - 1) : LastRight(i)' => commands'[i].value = doors'["left"]
      <4> SUFFICES ASSUME NEW i \in 1..(n - 1), LastRight(i)'
                   PROVE  commands'[i].value = doors["left"]
        BY <2>2
      <4>1. i + 1 \in 1..n /\ commands'[i] = commands[i + 1] /\ commands[i + 1].target = "right"
        BY <1>2 DEF LastRight
      <4>2. ASSUME NEW j \in 1..n, j > i + 1
            PROVE  commands[j].target # "right"
        <5>1. j - 1 \in 1..(n - 1) /\ j - 1 > i /\ (j - 1) + 1 = j
          BY <1>2, <4>2
        <5>2. commands'[j - 1] = commands[j]
          BY <1>2, <5>1
        <5> QED BY <1>2, <5>1, <5>2 DEF LastRight
      <4>3. LastRight(i + 1)
        BY <4>1, <4>2 DEF LastRight, n
      <4> QED BY <3>2, <4>1, <4>3
    <3>4. ASSUME \A i \in 1..(n - 1) : commands'[i].target # "right"
          PROVE  doors'["left"] = doors'["right"]
      <4>1. \A j \in 1..n : j > 1 => commands[j].target # "right"
        <5> SUFFICES ASSUME NEW j \in 1..n, j > 1
                     PROVE  commands[j].target # "right"
          OBVIOUS
        <5>1. j - 1 \in 1..(n - 1) /\ (j - 1) + 1 = j
          BY <1>2
        <5>2. commands'[j - 1] = commands[j]
          BY <1>2, <5>1
        <5> QED BY <3>4, <5>1, <5>2
      <4>2. 1 \in 1..n /\ c = commands[1]
        BY <1>2 DEF c
      <4>3. CASE c.target = "right"
        <5>1. LastRight(1)
          BY <4>1, <4>2, <4>3 DEF LastRight, n
        <5>2. c.value = doors["left"]
          BY <3>2, <4>2, <5>1
        <5>3. doors'["right"] = c.value
          BY <1>5, <1>6, <4>3 DEF Door
        <5> QED BY <2>2, <5>2, <5>3
      <4>4. CASE c.target # "right"
        <5>1. \A i \in 1..n : commands[i].target # "right"
          BY <4>1, <4>2, <4>4
        <5>2. UNCHANGED doors
          BY <1>5, <1>12, <4>4 DEF Door
        <5> QED BY <3>2, <5>1, <5>2
      <4> QED BY <4>3, <4>4
    <3> QED BY <3>3, <3>4
  <2> QED BY <1>2, <1>8, <2>4, <2>5 DEF DoorsFollow
<1> QED BY <1>10, <1>11, <1>12

\* An applied command is the next one of its message.
LEMMA ApplyStep ==
  ASSUME AtpAssumption, BookInv, SessionInv, EndedLate', Apply
  PROVE  SessionInv'
  BY ApplySessions, ApplyDoors DEF SessionInv

-----------------------------------------------------------------------------
(* The types of what the two invariants leave open.                        *)

OtherTypes ==
  /\ phase \in {"starting", "ready", "closing servers", "ending sessions", "stopped", "failed"}
  /\ failing \in BOOLEAN /\ waits \in BOOLEAN /\ listening \in BOOLEAN
  /\ cancelled \in [Peers -> BOOLEAN]
  /\ transport \in [Peers -> {"none", "open", "closing"}]
  /\ peer \in [Peers -> {"attentive", "stalled", "left"}]
  /\ coreRunning \in BOOLEAN /\ resets \in Nat /\ split \in BOOLEAN

\* The variables that the books and the messages say nothing of, at the start.
LEMMA InitOthers == Init => OtherTypes
<1> SUFFICES ASSUME Init
             PROVE  OtherTypes
  OBVIOUS
<1>1. cancelled \in [Peers -> BOOLEAN]
  BY Zenon DEF Init
<1>2. /\ transport \in [Peers -> {"none", "open", "closing"}]
      /\ peer \in [Peers -> {"attentive", "stalled", "left"}]
      /\ resets \in Nat
  BY DEF Init
<1>3. /\ failing \in BOOLEAN /\ waits \in BOOLEAN /\ listening \in BOOLEAN
      /\ coreRunning \in BOOLEAN /\ split \in BOOLEAN /\ phase = "starting"
  BY Zenon DEF Init
<1> QED BY <1>1, <1>2, <1>3 DEF OtherTypes

\* The variables that the books and the messages say nothing of, in a step.
LEMMA NextOthers == AtpAssumption /\ BookInv /\ OtherTypes /\ [Next]_vars => OtherTypes'
<1> SUFFICES ASSUME AtpAssumption, BookInv, OtherTypes, [Next]_vars
             PROVE  OtherTypes'
  OBVIOUS
<1> USE DEF managerVars, wireVars, coreVars
<1>1. CASE Apply
  <2>1. split' \in BOOLEAN
    BY <1>1, Zenon DEF Apply
  <2>2. UNCHANGED <<phase, failing, waits, listening, cancelled, transport, peer, coreRunning, resets>>
    BY <1>1 DEF Apply, sessionVars
  <2> QED BY <2>1, <2>2 DEF OtherTypes
<1>2. CASE AskReset
  <2>1. resets' \in Nat
    <3>1. resets \in Nat
      BY DEF OtherTypes
    <3>2. resets' = resets + 1
      BY <1>2 DEF AskReset
    <3> QED BY <3>1, <3>2
  <2>2. UNCHANGED <<phase, failing, waits, listening, cancelled, transport, peer, coreRunning, split>>
    BY <1>2 DEF AskReset, sessionVars, history
  <2> QED BY <2>1, <2>2 DEF OtherTypes
<1>3. ASSUME NEW p \in Peers
      PROVE  /\ \A e \in Endpoints : Accept(p, e) => OtherTypes'
             /\ \A m \in Messages : Receive(p, m) => OtherTypes'
             /\ Resume(p) \/ ReadEnds(p) => OtherTypes'
             /\ Cancelled(p) => OtherTypes'
             /\ PublisherEnds(p) => OtherTypes'
             /\ CleanUp(p) => OtherTypes'
             /\ SessionEnds(p) => OtherTypes'
             /\ TransportLost(p) => OtherTypes'
             /\ \A to \in {"attentive", "stalled", "left"} : PeerActs(p, to) => OtherTypes'
  <2>1. \A e \in Endpoints : Accept(p, e) => OtherTypes'
    BY DEF Accept, OtherTypes
  <2>2. \A m \in Messages : Receive(p, m) => OtherTypes'
    BY DEF Receive, OtherTypes
  <2>3. Resume(p) \/ ReadEnds(p) => OtherTypes'
    BY DEF Resume, ReadEnds, Unwind, OtherTypes
  <2>4. ASSUME Cancelled(p)
        PROVE  OtherTypes'
    <3>1. split' \in BOOLEAN
      BY <2>4, Zenon DEF Cancelled
    <3>2. cancelled' \in [Peers -> BOOLEAN]
      BY <2>4 DEF Cancelled, OtherTypes
    <3>3. UNCHANGED <<phase, failing, waits, listening, transport, peer, coreRunning, resets>>
      BY <2>4 DEF Cancelled, Unwind
    <3> QED BY <3>1, <3>2, <3>3 DEF OtherTypes
  <2>5. PublisherEnds(p) => OtherTypes'
    BY DEF PublisherEnds, OtherTypes, history
  <2>6. CleanUp(p) => OtherTypes'
    BY DEF CleanUp, OtherTypes, history
  <2>7. SessionEnds(p) => OtherTypes'
    BY DEF SessionEnds, OtherTypes
  <2>8. TransportLost(p) => OtherTypes'
    BY DEF TransportLost, OtherTypes, sessionVars, history
  <2>9. ASSUME NEW to \in {"attentive", "stalled", "left"}, PeerActs(p, to)
        PROVE  OtherTypes'
    <3>1. peer' = [peer EXCEPT ![p] = to]
      BY <2>9 DEF PeerActs
    <3>2. UNCHANGED <<phase, failing, waits, listening, cancelled, transport, coreRunning, resets, split>>
      BY <2>9 DEF PeerActs, sessionVars, history
    <3> QED BY <3>1, <3>2 DEF OtherTypes
  <2> QED BY <2>1, <2>2, <2>3, <2>4, <2>5, <2>6, <2>7, <2>8, <2>9
<1>4. CASE \E e \in Endpoints : OpenServer(e)
  BY <1>4 DEF OpenServer, OtherTypes, sessionVars, history
<1>5. CASE Started \/ Stop
  <2>1. listening' \in BOOLEAN /\ failing' \in BOOLEAN
    BY <1>5, Zenon DEF Started, Stop, OtherTypes
  <2>2. /\ phase' \in {"ready", "closing servers"}
        /\ UNCHANGED <<waits, cancelled, transport, peer, coreRunning, resets, split>>
    BY <1>5 DEF Started, Stop, sessionVars, history
  <2> QED BY <2>1, <2>2 DEF OtherTypes
<1>6. CASE ServersClosed
  <2>1. cancelled' \in [Peers -> BOOLEAN]
    <3>1. cancelled' = [p \in Peers |-> p \in sessionTasks]
      BY <1>6 DEF ServersClosed
    <3> HIDE DEF OtherTypes
    <3> QED BY <3>1, SMT
  <2>2. transport' \in [Peers -> {"none", "open", "closing"}]
    BY <1>6 DEF ServersClosed, OtherTypes
  <2>3. phase' = "ending sessions" /\ UNCHANGED <<failing, waits, listening, peer, coreRunning, resets, split>>
    BY <1>6 DEF ServersClosed, history
  <2> QED BY <2>1, <2>2, <2>3 DEF OtherTypes
<1>7. CASE Stopped \/ StopCore
  BY <1>7 DEF Stopped, StopCore, OtherTypes, sessionVars, history
<1>8. CASE UNCHANGED vars
  BY <1>8 DEF vars, OtherTypes, sessionVars, history
<1> QED BY <1>1, <1>2, <1>3, <1>4, <1>5, <1>6, <1>7, <1>8 DEF Next

-----------------------------------------------------------------------------
\* One step of any task.
LEMMA NextSessions ==
  AtpAssumption /\ BookInv /\ SessionInv /\ OtherTypes /\ [Next]_vars => SessionInv'
<1> SUFFICES ASSUME AtpAssumption, BookInv, SessionInv, OtherTypes, [Next]_vars
             PROVE  SessionInv'
  OBVIOUS
<1>1. EndedLate'
  BY LateStep DEF SessionInv
<1>2. CASE Apply \/ AskReset
  BY <1>1, <1>2, ApplyStep, AskResetStep
<1>3. ASSUME NEW p \in Peers
      PROVE  /\ \A e \in Endpoints : Accept(p, e) => SessionInv'
             /\ \A m \in Messages : Receive(p, m) => SessionInv'
             /\ Resume(p) \/ Cancelled(p) => SessionInv'
             /\ ReadEnds(p) => SessionInv'
             /\ PublisherEnds(p) => SessionInv'
             /\ CleanUp(p) \/ SessionEnds(p) => SessionInv'
             /\ TransportLost(p) => SessionInv'
             /\ \A to \in {"attentive", "stalled", "left"} : PeerActs(p, to) => SessionInv'
  <2>1. pc \in [Peers -> Registered \cup {"none", "closing"}]
    BY DEF BookInv, BookTypes
  <2>2. ASSUME NEW e \in Endpoints, Accept(p, e)
        PROVE  SessionInv'
    <3>1. Aside(p)
      BY <2>1, <2>2 DEF Accept, Aside
    <3> QED BY <1>1, <3>1, AsideStep
  <2>3. \A m \in Messages : Receive(p, m) => SessionInv'
    BY <1>1, ReceiveStep
  <2>4. Resume(p) \/ Cancelled(p) => SessionInv'
    BY <1>1, ResumeStep, CancelledStep
  <2>5. ASSUME ReadEnds(p)
        PROVE  SessionInv'
    <3>1. Aside(p)
      BY <2>1, <2>5 DEF ReadEnds, Unwind, Aside, coreVars, wireVars
    <3> QED BY <1>1, <3>1, AsideStep
  <2>6. ASSUME CleanUp(p)
        PROVE  SessionInv'
    <3>1. Aside(p)
      BY <2>1, <2>6 DEF CleanUp, Aside, history
    <3> QED BY <1>1, <3>1, AsideStep
  <2>7. ASSUME SessionEnds(p)
        PROVE  SessionInv'
    <3>1. Aside(p)
      BY <2>1, <2>7 DEF SessionEnds, Aside, coreVars, wireVars
    <3> QED BY <1>1, <3>1, AsideStep
  <2>8. ASSUME \/ PublisherEnds(p) \/ TransportLost(p)
               \/ \E to \in {"attentive", "stalled", "left"} : PeerActs(p, to)
        PROVE  SessionInv'
    <3>1. transport \in [Peers -> {"none", "open", "closing"}]
      BY DEF OtherTypes
    <3>2. UNCHANGED transport \/ transport' = [transport EXCEPT ![p] = "none"]
      BY <2>8 DEF PublisherEnds, TransportLost, PeerActs, wireVars
    <3>3. \A q \in Peers : transport'[q] = "open" => transport[q] = "open"
      BY <3>1, <3>2
    <3>4. UNCHANGED <<pc, todo, woken, commands, doors, split, applied, refused, reported>>
      BY <2>8 DEF PublisherEnds, TransportLost, PeerActs, sessionVars, coreVars, history
    <3>5. Quiet
      BY <3>3, <3>4 DEF Quiet
    <3> QED BY <1>1, <3>5, QuietStep
  <2> QED BY <2>2, <2>3, <2>4, <2>5, <2>6, <2>7, <2>8
<1>4. CASE \/ \E e \in Endpoints : OpenServer(e)
           \/ Started \/ Stop \/ ServersClosed \/ Stopped \/ StopCore \/ UNCHANGED vars
  <2>1. Quiet
    BY <1>4 DEF OpenServer, Started, Stop, ServersClosed, Stopped, StopCore, vars, Quiet, sessionVars,
       coreVars, wireVars, history
  <2> QED BY <1>1, <2>1, QuietStep
<1> QED BY <1>2, <1>3, <1>4 DEF Next

-----------------------------------------------------------------------------
(* What holds in every reachable state.                                    *)

Inv == BookInv /\ SessionInv /\ OtherTypes

\* The three parts of the invariant hold in every reachable state.
LEMMA AlwaysInv == Spec => []Inv
<1>1. Init => Inv
  BY AtpAssumption, InitBooks, InitSessions, InitOthers DEF Inv
<1>2. Inv /\ [Next]_vars => Inv'
  BY AtpAssumption, NextBooks, NextSessions, NextOthers DEF Inv
<1> QED BY <1>1, <1>2, PTL DEF Spec

\* The manager's variables keep their types.
THEOREM AtpTypes == Spec => []TypeOK
<1>1. ASSUME Inv
      PROVE  TypeOK
  <2>1. activePeers \in [Endpoints -> Nat]
    <3>1. \A e \in Endpoints : activePeers[e] \in Nat
      <4> TAKE e \in Endpoints
      <4>1. PeersAt(clients, endpoint, e) \subseteq Peers /\ IsFiniteSet(Peers)
        BY <1>1, AtpAssumption DEF PeersAt, Inv, BookInv, BookTypes, AtpAssumption
      <4>2. Cardinality(PeersAt(clients, endpoint, e)) \in Nat
        BY <4>1, FS_Subset, FS_CardinalityType
      <4> QED BY <1>1, <4>2 DEF Inv, BookInv, BooksMatchSessions
    <3> QED BY <1>1, <3>1 DEF Inv, BookInv, BookTypes
  <2>2. todo \in [Peers -> Seq(Command)]
    <3>1. ASSUME NEW p \in Peers
          PROVE  todo[p] \in Seq(Command)
      <4>1. todo[p] \in Seq(Order) /\ Order \subseteq Command
        BY <1>1 DEF Inv, SessionInv, SessionTypes, Order
      <4> QED BY <4>1, SeqMonotonic
    <3> QED BY <1>1, <3>1 DEF Inv, SessionInv, SessionTypes
  <2>3. \A i \in DOMAIN commands : commands[i].by \in Peers \cup {Other}
    <3>1. SessionTypes /\ commands \in Seq(Entry)
      BY <1>1 DEF Inv, SessionInv, SessionTypes
    <3>2. \A i \in DOMAIN commands : commands[i] \in Entry
      BY <3>1, Owners, LenProperties
    <3> QED BY <3>2 DEF Entry
  <2>4. /\ doors \in [{"left", "right"} -> DoorStates]
        /\ woken \in Seq([by : Peers, ok : BOOLEAN])
        /\ applied \in [Peers -> Seq(Targets)]
        /\ refused \in [Peers -> Nat] /\ reported \in [Peers -> Nat]
    BY <1>1 DEF Inv, SessionInv, SessionTypes, Door
  <2>5. /\ servers \subseteq Endpoints
        /\ clients \subseteq Peers /\ sessionTasks \subseteq Peers /\ publishing \subseteq Peers
        /\ queues \subseteq Peers /\ publishers \subseteq Peers /\ subscribers \subseteq Peers
        /\ pc \in [Peers -> Registered \cup {"none", "closing"}]
        /\ endpoint \in [Peers -> Endpoints \cup {Other}]
    BY <1>1 DEF Inv, BookInv, BookTypes, BooksMatchSessions
  <2> QED BY <1>1, <2>1, <2>2, <2>3, <2>4, <2>5 DEF Inv, OtherTypes, TypeOK
<1> QED BY <1>1, AlwaysInv, PTL

\* A session that reads the next line has had every command of its last message
\* applied, once and in their order, however the messages of any number of peers
\* and the resets of others interleave, and has reported every refusal.
THEOREM EveryCommandOnce == Spec => []MessagesCarriedOut
<1>1. ASSUME Inv
      PROVE  MessagesCarriedOut
  <2> SUFFICES ASSUME NEW p \in Peers, pc[p] = "reading", applied[p] # <<>>
               PROVE  /\ \E m \in Messages :
                           /\ Len(applied[p]) = Len(CommandsOf(m))
                           /\ \A i \in DOMAIN applied[p] : applied[p][i] = CommandsOf(m)[i].target
                      /\ transport[p] = "open" => reported[p] = refused[p]
    BY DEF MessagesCarriedOut
  <2>1. DOMAIN applied[p] = 1..Len(applied[p])
    BY <1>1, LenProperties DEF Inv, SessionInv, SessionTypes
  <2>2. ~Refusal(p)
    BY <1>1 DEF Inv, SessionInv, OneEach, Refusal
  <2>3. transport[p] = "open" => reported[p] = refused[p]
    BY <1>1, <2>2 DEF Inv, SessionInv, Reports
  <2> QED BY <1>1, <2>1, <2>3 DEF Inv, SessionInv, CarriedOut
<1> QED BY <1>1, AlwaysInv, PTL

\* Whenever no message is under way the two doors agree, whatever the order in
\* which the door commands of several peers were submitted and applied, unless a
\* reset or the end of a session came between the two of one message.
THEOREM DoorsStayTogether == Spec => []DoorsAgree
<1>1. ASSUME Inv
      PROVE  DoorsAgree
  <2> SUFFICES ASSUME \A p \in Peers : todo[p] = <<>>, ~split
               PROVE  doors["left"] = doors["right"]
    BY DEF DoorsAgree
  <2>1. SessionTypes /\ OneEach /\ DoorsFollow
    BY <1>1 DEF Inv, SessionInv
  <2>2. \A p \in Peers : pc[p] # "submitting"
    BY <2>1 DEF OneEach
  <2>3. \A i \in 1..Len(woken) : FALSE
    BY <2>1, <2>2, Owners DEF OneEach
  <2>4. \A i \in 1..Len(commands) : commands[i].target # "right"
    <3> SUFFICES ASSUME NEW i \in 1..Len(commands), commands[i].target = "right"
                 PROVE  FALSE
      OBVIOUS
    <3>1. commands[i].by \in Peers
      BY <2>1, Owners DEF Entry
    <3> QED BY <2>1, <2>2, <3>1 DEF DoorsFollow, Door
  <2> QED BY <2>1, <2>3, <2>4 DEF DoorsFollow
<1> QED BY <1>1, AlwaysInv, PTL

=============================================================================
