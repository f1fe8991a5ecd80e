--------------------------- MODULE ChatStreamProofs ---------------------------
(***************************************************************************)
(* Theorems about ChatStream, for every number of connections, users,      *)
(* conversations and turns and every cap.                                  *)
(***************************************************************************)
EXTENDS ChatStream, TLAPS, FiniteSetTheorems, SequenceTheorems

-----------------------------------------------------------------------------
(* Type correctness *)

\* TypeOK alone is not inductive: the conversation of a turn indexes last and
\* slots, so it must be one as soon as the turn has begun.
HasConv(t) == turns[t].pc # "none" => turns[t].conv \in Conversations
TypeInv == TypeOK /\ \A t \in Turns : HasConv(t)

GoodBuffer(b) == b \in Buffer /\ Len(b.started) <= 1 /\ Len(b.frames) <= BufferCap

LEMMA EndIsFrame == End \in Nat /\ 0 \in 0..End /\ \A n \in 0..MaxChunks : n \in 0..End
BY SizesAssumption DEF End

LEMMA EmptyBufferType == GoodBuffer(EmptyBuffer)
<1>1. <<>> \in Seq(Frame) /\ Len(<<>>) = 0
  BY EmptySeq
<1>2. QED
  BY <1>1, SizesAssumption DEF GoodBuffer, EmptyBuffer, Buffer

\* The buffer keeps its cap.
LEMMA PushType ==
    ASSUME NEW b, GoodBuffer(b), NEW f \in Frame
    PROVE  GoodBuffer(Push(b, f))
<1>1. b \in Buffer /\ Len(b.started) <= 1 /\ Len(b.frames) <= BufferCap
  BY DEF GoodBuffer
<1>2. b.started \in Seq(Frame) /\ b.frames \in Seq(Frame) /\ BufferCap \in Nat \ {0}
  BY <1>1, SizesAssumption DEF Buffer
<1>3. CASE f.no = 0
  <2> DEFINE first == <<f>>
  <2>1. first \in Seq(Frame) /\ Len(first) <= 1
    OBVIOUS
  <2>2. Push(b, f) = [b EXCEPT !.started = first]
    BY <1>3 DEF Push
  <2> HIDE DEF first
  <2>3. [b EXCEPT !.started = first] = [started |-> first, frames |-> b.frames]
    BY <1>1 DEF Buffer
  <2> DEFINE pushed == [started |-> first, frames |-> b.frames]
  <2>4. pushed \in Buffer /\ pushed.started = first /\ pushed.frames = b.frames
    BY <1>2, <2>1 DEF Buffer
  <2>5. Push(b, f) = pushed
    BY <2>2, <2>3
  <2> HIDE DEF pushed
  <2>6. QED
    BY <1>1, <2>1, <2>4, <2>5, Zenon DEF GoodBuffer
<1>4. CASE f.no # 0
  <2> DEFINE kept == IF Len(b.frames) = BufferCap THEN Append(Tail(b.frames), f)
                     ELSE Append(b.frames, f)
  <2>1. kept \in Seq(Frame) /\ Len(kept) <= BufferCap
    <3>1. CASE Len(b.frames) = BufferCap
      <4>1. b.frames # <<>>
        BY <3>1, <1>2
      <4>2. Tail(b.frames) \in Seq(Frame) /\ Len(Tail(b.frames)) = BufferCap - 1
        BY <4>1, <3>1, <1>2, HeadTailProperties
      <4>3. QED
        BY <3>1, <4>2, <1>2, AppendProperties
    <3>2. CASE Len(b.frames) # BufferCap
      BY <3>2, <1>1, <1>2, AppendProperties
    <3>3. QED
      BY <3>1, <3>2
  <2>2. Push(b, f) = [b EXCEPT !.frames = kept]
    BY <1>4, <1>1 DEF Push, Buffer
  <2> HIDE DEF kept
  <2>3. QED
    BY <1>1, <2>1, <2>2 DEF GoodBuffer, Buffer
<1>5. QED
  BY <1>3, <1>4

LEMMA InitialConnType ==
    [stream |-> "unopened", listed |-> FALSE, user |-> CHOOSE u \in Users : TRUE,
     active |-> NoConv, wants |-> NoConv, unread |-> 0, hello |-> FALSE,
     seen |-> <<>>] \in Conn
<1>1. (CHOOSE u \in Users : TRUE) \in Users
  BY NamesAssumption
<1>2. <<>> \in Seq(Frame) /\ 0 \in 0..QueueCap
  BY SizesAssumption, EmptySeq
<1>3. QED
  BY <1>1, <1>2 DEF Conn

LEMMA NewTurnType == NewTurn \in Turn
BY SizesAssumption DEF NewTurn, Turn

LEMMA TypeInit == Init => TypeInv
<1> SUFFICES ASSUME Init PROVE TypeInv
  OBVIOUS
<1>1. conns \in [Conns -> Conn]
  BY InitialConnType DEF Init
<1>2. turns \in [Turns -> Turn] /\ \A t \in Turns : turns[t].pc = "none"
  BY NewTurnType DEF Init, NewTurn
<1>3. DOMAIN slots = {}
  BY DEF Init
<1>4. last \in [Conversations -> Turns \cup {NoTurn}] /\ senders \in [Turns -> Turns \cup {NoTurn}]
  BY DEF Init
<1>5. puts \in [Puts -> {<<>>} \cup {<<q>> : q \in Put}]
  BY DEF Init
<1>6. QED
  BY <1>1, <1>2, <1>3, <1>4, <1>5 DEF TypeInv, TypeOK, HasConv

\* Each change of a connection yields a connection.
LEMMA UnlistType == \A conn \in Conn : Unlist(conn) \in Conn
BY DEF Unlist, Conn

LEMMA SweptType ==
    ASSUME NEW cs \in [Conns -> Conn], NEW scope, NEW cap
    PROVE  Swept(cs, scope, cap) \in [Conns -> Conn]
BY UnlistType DEF Swept

LEMMA AnsweredType ==
    ASSUME NEW cs \in [Conns -> Conn], NEW k \in Conns, NEW u \in Users
    PROVE  Refused(cs, k, u) \in [Conns -> Conn] /\ Entered(cs, k, u) \in [Conns -> Conn]
<1>1. [cs[k] EXCEPT !.stream = "refused", !.user = u] \in Conn
  BY DEF Conn
<1>2. 1 \in 0..QueueCap
  BY SizesAssumption
<1>3. [cs[k] EXCEPT !.stream = "open", !.listed = TRUE, !.user = u, !.unread = 1] \in Conn
  BY <1>2 DEF Conn
<1>4. Refused(cs, k, u) = [cs EXCEPT ![k] = [cs[k] EXCEPT !.stream = "refused", !.user = u]]
  BY DEF Refused, Conn
<1>5. Entered(cs, k, u) = [cs EXCEPT ![k] =
            [cs[k] EXCEPT !.stream = "open", !.listed = TRUE, !.user = u, !.unread = 1]]
  BY DEF Entered, Conn
<1>6. QED
  BY <1>1, <1>3, <1>4, <1>5

LEMMA DeliveredType ==
    ASSUME TypeOK, NEW c, NEW note \in Seq(Frame)
    PROVE  Delivered(c, note) \in [Conns -> Conn]
<1>1. ASSUME NEW conn \in Conn, conn.unread # QueueCap
      PROVE  [conn EXCEPT !.unread = conn.unread + 1, !.seen = conn.seen \o note] \in Conn
  <2>1. conn.unread + 1 \in 0..QueueCap
    BY <1>1, SizesAssumption DEF Conn
  <2>2. conn.seen \o note \in Seq(Frame)
    BY ConcatProperties DEF Conn
  <2>3. QED
    BY <2>1, <2>2 DEF Conn
<1>2. conns \in [Conns -> Conn]
  BY DEF TypeOK
<1>3. ASSUME NEW k \in Conns PROVE Delivered(c, note)[k] \in Conn
  BY <1>1, <1>2, UnlistType DEF Delivered
<1>4. QED
  BY <1>3 DEF Delivered

LEMMA SubscribeType ==
    ASSUME TypeOK, NEW conn \in Conn, NEW c \in Conversations \cup {NoConv}
    PROVE  Subscribe(conn, c) \in Conn
<1> DEFINE replay == IF c \in DOMAIN slots THEN Replay(slots[c]) ELSE <<>>
           room == QueueCap - conn.unread
           sent == [conn EXCEPT !.active = c]
<1>1. replay \in Seq(Frame)
  BY ConcatProperties, EmptySeq DEF TypeOK, Buffer, Replay
<1>2. sent \in Conn /\ sent.unread = conn.unread
  BY DEF Conn
<1>3. room \in 0..QueueCap /\ QueueCap \in Nat /\ Len(replay) \in Nat /\ conn.unread \in 0..QueueCap
  BY <1>1, SizesAssumption DEF Conn
<1>4. Subscribe(conn, c) =
        IF Len(replay) <= room
        THEN [sent EXCEPT !.unread = sent.unread + Len(replay), !.seen = replay]
        ELSE [sent EXCEPT !.unread = QueueCap, !.seen = SubSeq(replay, 1, room),
                          !.listed = FALSE]
  BY DEF Subscribe
<1> HIDE DEF replay, sent
<1>5. CASE Len(replay) <= room
  <2>1. sent.unread + Len(replay) \in 0..QueueCap
    BY <1>5, <1>2, <1>3
  <2>2. QED
    BY <2>1, <1>1, <1>2, <1>4, <1>5 DEF Conn
<1>6. CASE ~(Len(replay) <= room)
  <2>1. \A i \in 1..room : replay[i] \in Frame
    BY <1>1, <1>3, <1>6, ElementOfSeq
  <2> DEFINE taken == SubSeq(replay, 1, room)
  <2>2. taken \in Seq(Frame)
    BY <2>1, <1>3, SubSeqProperties
  <2>3. Subscribe(conn, c) = [sent EXCEPT !.unread = QueueCap, !.seen = taken, !.listed = FALSE]
    BY <1>4, <1>6
  <2>4. QueueCap \in 0..QueueCap
    BY <1>3
  <2> HIDE DEF taken
  <2>5. QED
    BY <2>2, <2>3, <2>4, <1>2 DEF Conn
<1>7. QED
  BY <1>5, <1>6

SlotsType(s) == DOMAIN s \subseteq Conversations /\ \A c \in DOMAIN s : GoodBuffer(s[c])

LEMMA SlotsTypeOK == TypeOK => SlotsType(slots)
BY DEF TypeOK, SlotsType, GoodBuffer

LEMMA WithType ==
    ASSUME SlotsType(slots), NEW c \in Conversations, NEW b, GoodBuffer(b)
    PROVE  SlotsType(With(c, b))
BY DEF SlotsType, With

LEMMA WithoutType ==
    ASSUME SlotsType(slots), NEW c
    PROVE  SlotsType(Without(c))
BY DEF SlotsType, Without

LEMMA PublishType ==
    ASSUME TypeInv, NEW t \in Turns, turns[t].pc # "none", NEW no \in 0..End, Publish(t, no)
    PROVE  conns' \in [Conns -> Conn] /\ SlotsType(slots')
<1> DEFINE f == [turn |-> t, no |-> no]
<1>1. f \in Frame /\ <<f>> \in Seq(Frame)
  BY DEF Frame
<1>2. TypeOK /\ turns[t].conv \in Conversations /\ SlotsType(slots)
  BY SlotsTypeOK DEF TypeInv, HasConv
<1>3. conns' \in [Conns -> Conn]
  BY <1>1, <1>2, DeliveredType DEF Publish
<1>4. CASE no = End
  BY <1>2, <1>3, <1>4, WithoutType DEF Publish
<1>5. CASE no # End
  <2> DEFINE b == IF InFlight(turns[t].conv) THEN slots[turns[t].conv] ELSE EmptyBuffer
  <2>1. GoodBuffer(b)
    BY <1>2, EmptyBufferType DEF InFlight, SlotsType
  <2> HIDE DEF b
  <2>2. GoodBuffer(Push(b, f))
    BY <2>1, <1>1, PushType
  <2>3. slots' = With(turns[t].conv, Push(b, f))
    BY <1>5 DEF Publish, b
  <2>4. QED
    BY <2>2, <2>3, <1>2, <1>3, WithType
<1>6. QED
  BY <1>4, <1>5

-----------------------------------------------------------------------------
(* Each action keeps the types *)

TurnsType == turns \in [Turns -> Turn] /\ \A t \in Turns : HasConv(t)

LEMMA TypeParts ==
    TypeInv <=> /\ conns \in [Conns -> Conn] /\ SlotsType(slots) /\ TurnsType
                /\ last \in [Conversations -> Turns \cup {NoTurn}]
                /\ senders \in [Turns -> Turns \cup {NoTurn}]
                /\ puts \in [Puts -> {<<>>} \cup {<<q>> : q \in Put}]
BY DEF TypeInv, TypeOK, SlotsType, GoodBuffer, TurnsType

LEMMA TypeParts_ ==
    TypeInv' <=> /\ conns' \in [Conns -> Conn] /\ SlotsType(slots') /\ TurnsType'
                 /\ last' \in [Conversations -> Turns \cup {NoTurn}]
                 /\ senders' \in [Turns -> Turns \cup {NoTurn}]
                 /\ puts' \in [Puts -> {<<>>} \cup {<<q>> : q \in Put}]
BY DEF TypeInv, TypeOK, SlotsType, GoodBuffer, TurnsType

\* A step that writes one turn, and keeps its conversation, keeps their type.
LEMMA TurnWritten ==
    ASSUME TurnsType, NEW t \in Turns, NEW r \in Turn,
           r.pc # "none" => r.conv \in Conversations,
           turns' = [turns EXCEPT ![t] = r]
    PROVE  TurnsType'
BY DEF TurnsType, HasConv

LEMMA OpenType ==
    ASSUME TypeInv, NEW k \in Conns, NEW u \in Users, Open(k, u)
    PROVE  TypeInv'
<1> DEFINE all  == Swept(conns, Listed(conns), GlobalCap)
           mine == Swept(all, ListedOf(all, u), UserCap)
<1>1. all \in [Conns -> Conn]
  BY SweptType, TypeParts
<1>2. mine \in [Conns -> Conn]
  BY <1>1, SweptType
<1>3. conns' \in {Refused(all, k, u), Refused(mine, k, u), Entered(mine, k, u)}
  BY DEF Open
<1> HIDE DEF all, mine
<1>4. conns' \in [Conns -> Conn]
  BY <1>1, <1>2, <1>3, AnsweredType
<1>5. UNCHANGED <<slots, turns, last, senders, puts>>
  BY DEF Open
<1>6. TurnsType'
  BY <1>5, TypeParts DEF TurnsType, HasConv
<1>7. QED
  BY <1>4, <1>5, <1>6, TypeParts, TypeParts_

LEMMA ConnStepType ==
    ASSUME TypeInv, NEW k \in Conns, Read(k) \/ Close(k) \/ Drained(k)
    PROVE  TypeInv'
<1>1. conns \in [Conns -> Conn] /\ conns[k] \in Conn
  BY TypeParts
<1>2. CASE Read(k)
  <2>1. [conns[k] EXCEPT !.unread = conns[k].unread - 1, !.hello = TRUE] \in Conn
    <3>1. conns[k].unread - 1 \in 0..QueueCap
      BY <1>1, <1>2, SizesAssumption DEF Conn, Read
    <3>2. QED
      BY <3>1, <1>1 DEF Conn
  <2>2. conns' = [conns EXCEPT ![k] =
            [conns[k] EXCEPT !.unread = conns[k].unread - 1, !.hello = TRUE]]
    BY <1>1, <1>2 DEF Read, Conn
  <2>3. conns' \in [Conns -> Conn]
    BY <1>1, <2>1, <2>2
  <2>4. QED
    BY <2>3, <1>2, TypeParts, TypeParts_ DEF Read, TurnsType, HasConv
<1>3. CASE Close(k)
  <2>1. [Unlist(conns[k]) EXCEPT !.stream = "ended"] \in Conn
    BY <1>1 DEF Unlist, Conn
  <2>2. conns' \in [Conns -> Conn]
    BY <1>1, <1>3, <2>1 DEF Close
  <2>3. QED
    BY <2>2, <1>3, TypeParts, TypeParts_ DEF Close, TurnsType, HasConv
<1>4. CASE Drained(k)
  <2>1. [conns[k] EXCEPT !.stream = "ended"] \in Conn
    BY <1>1 DEF Conn
  <2>2. conns' = [conns EXCEPT ![k] = [conns[k] EXCEPT !.stream = "ended"]]
    BY <1>4 DEF Drained
  <2>3. conns' \in [Conns -> Conn]
    BY <1>1, <2>1, <2>2
  <2>4. QED
    BY <2>3, <1>4, TypeParts, TypeParts_ DEF Drained, TurnsType, HasConv
<1>5. QED
  BY <1>2, <1>3, <1>4

LEMMA PutCheckType ==
    ASSUME TypeInv, NEW p \in Puts, NEW k \in Conns, NEW c \in Conversations \cup {NoConv},
           PutCheck(p, k, c)
    PROVE  TypeInv'
<1>1. [conns[k] EXCEPT !.wants = c] \in Conn
  BY TypeParts DEF Conn
<1>2. conns' = [conns EXCEPT ![k] = [conns[k] EXCEPT !.wants = c]]
  BY DEF PutCheck
<1>3. conns' \in [Conns -> Conn]
  BY <1>1, <1>2, TypeParts
<1>4. [conn |-> k, conv |-> c] \in Put
  BY DEF Put
<1>5. puts' \in [Puts -> {<<>>} \cup {<<q>> : q \in Put}]
  BY <1>4, TypeParts DEF PutCheck
<1>6. QED
  BY <1>3, <1>5, TypeParts, TypeParts_ DEF PutCheck, TurnsType, HasConv

LEMMA PutApplyType ==
    ASSUME TypeInv, NEW p \in Puts, PutApply(p)
    PROVE  TypeInv'
<1>1. PICK q \in Put : puts[p] = <<q>>
  BY TypeParts DEF PutApply
<1>2. puts[p][1] = q /\ q.conn \in Conns /\ q.conv \in Conversations \cup {NoConv}
  BY <1>1 DEF Put
<1>3. Subscribe(conns[q.conn], q.conv) \in Conn
  BY <1>2, TypeParts, SubscribeType DEF TypeInv
<1>4. conns' \in [Conns -> Conn]
  BY <1>2, <1>3, TypeParts DEF PutApply
<1>5. puts' \in [Puts -> {<<>>} \cup {<<x>> : x \in Put}]
  BY TypeParts DEF PutApply
<1>6. QED
  BY <1>4, <1>5, TypeParts, TypeParts_ DEF PutApply, TurnsType, HasConv

LEMMA BeginType ==
    ASSUME TypeInv, NEW t \in Turns, NEW c \in Conversations, Begin(t, c)
    PROVE  TypeInv'
<1> DEFINE r == [turns[t] EXCEPT !.pc = "setup", !.conv = c]
<1>0. turns[t] \in Turn
  BY TypeParts DEF TurnsType
<1>1. r \in Turn
  BY <1>0 DEF Turn
<1>2. r.conv = c
  BY <1>0 DEF Turn
<1>3. turns' = [turns EXCEPT ![t] = r]
  BY DEF Begin
<1> HIDE DEF r
<1>4. TurnsType'
  BY <1>1, <1>2, <1>3, TurnWritten, TypeParts
<1>5. SlotsType(slots')
  BY EmptyBufferType, WithType, TypeParts DEF Begin
<1>6. QED
  BY <1>4, <1>5, TypeParts, TypeParts_ DEF Begin

LEMMA StepType ==
    ASSUME TypeInv, NEW t \in Turns, NEW from, NEW to, from # "none",
           to \in {"spawned", "running", "done", "failed", "dropped", "crashed"},
           Step(t, from, to)
    PROVE  TurnsType' /\ turns[t].conv \in Conversations
<1> DEFINE r == [turns[t] EXCEPT !.pc = to]
<1>1. turns[t].conv \in Conversations
  BY TypeParts DEF Step, TurnsType, HasConv
<1>2. r \in Turn /\ r.conv = turns[t].conv
  BY TypeParts DEF TurnsType, Turn
<1>3. turns' = [turns EXCEPT ![t] = r]
  BY DEF Step
<1> HIDE DEF r
<1>4. QED
  BY <1>1, <1>2, <1>3, TurnWritten, TypeParts

LEMMA SetupFailsType ==
    ASSUME TypeInv, NEW t \in Turns, SetupFails(t)
    PROVE  TypeInv'
<1>1. TurnsType'
  BY StepType DEF SetupFails
<1>2. SlotsType(slots')
  BY WithoutType, TypeParts DEF SetupFails
<1>3. QED
  BY <1>1, <1>2, TypeParts, TypeParts_ DEF SetupFails

LEMMA SetupDoneType ==
    ASSUME TypeInv, NEW t \in Turns, SetupDone(t)
    PROVE  TypeInv'
<1> DEFINE c == turns[t].conv
           gen == IF Host = "legacy" THEN "working" ELSE "none"
<1>1. c \in Conversations /\ turns[t] \in Turn
  BY TypeParts DEF SetupDone, TurnsType, HasConv
<1>2. PICK msg \in {t} \cup (IF Resumes THEN {last[c]} \ {NoTurn} ELSE {}) :
        /\ turns' = [turns EXCEPT ![t].pc = "token", ![t].msg = msg, ![t].gen = gen]
        /\ last' = [last EXCEPT ![c] = msg]
  BY Zenon DEF SetupDone
<1>3. msg \in Turns
  BY <1>1, <1>2, TypeParts
<1> DEFINE r == [turns[t] EXCEPT !.pc = "token", !.msg = msg, !.gen = gen]
<1>4. turns' = [turns EXCEPT ![t] = r]
  BY <1>2, TypeParts, Zenon DEF TurnsType
<1> HIDE DEF c
<1>5. r \in Turn /\ r.conv = turns[t].conv
  BY <1>1, <1>3 DEF Turn
<1> HIDE DEF r
<1>6. TurnsType'
  BY <1>1, <1>4, <1>5, TurnWritten, TypeParts DEF c
<1>7. last' \in [Conversations -> Turns \cup {NoTurn}]
  BY <1>2, <1>3, TypeParts
<1>8. QED
  BY <1>6, <1>7, TypeParts, TypeParts_ DEF SetupDone

LEMMA CreateTokenType ==
    ASSUME TypeInv, NEW t \in Turns, CreateToken(t)
    PROVE  TypeInv'
<1>1. TurnsType' /\ turns[t].pc # "none"
  BY StepType DEF CreateToken, Step
<1>2. senders' \in [Turns -> Turns \cup {NoTurn}]
  BY TypeParts DEF CreateToken
<1>3. conns' \in [Conns -> Conn] /\ SlotsType(slots')
  BY <1>1, EndIsFrame, PublishType, TypeParts DEF CreateToken
<1>4. QED
  BY <1>1, <1>2, <1>3, TypeParts, TypeParts_ DEF CreateToken

LEMMA DroppedType ==
    ASSUME TypeInv, NEW t \in Turns, Dropped(t)
    PROVE  TypeInv'
<1>1. Step(t, turns[t].pc, "dropped") /\ turns[t].pc # "none"
  BY DEF Dropped, Step
<1>2. TurnsType'
  BY <1>1, StepType
<1>3. QED
  BY <1>2, TypeParts, TypeParts_ DEF Dropped

LEMMA GenStepType ==
    ASSUME TypeInv, NEW t \in Turns, GenStep(t)
    PROVE  TypeInv'
<1>1. turns[t] \in Turn /\ turns \in [Turns -> Turn]
  BY TypeParts DEF TurnsType
<1>2. ASSUME NEW r \in Turn, r.conv = turns[t].conv, r.pc = turns[t].pc,
             turns' = [turns EXCEPT ![t] = r]
      PROVE  TurnsType'
  BY <1>2, TurnWritten, TypeParts DEF TurnsType, HasConv
<1>3. CASE GenChunk(t)
  <2>1. ASSUME turns[t].sent < MaxChunks, turns' = [turns EXCEPT ![t].sent = @ + 1]
        PROVE  TurnsType'
    <3> DEFINE r == [turns[t] EXCEPT !.sent = turns[t].sent + 1]
    <3>1. turns[t].sent + 1 \in 0..MaxChunks
      BY <1>1, <2>1, SizesAssumption DEF Turn
    <3>2. r \in Turn /\ r.conv = turns[t].conv /\ r.pc = turns[t].pc
      BY <1>1, <3>1 DEF Turn
    <3>3. turns' = [turns EXCEPT ![t] = r]
      BY <2>1
    <3>4. QED
      BY <1>2, <3>2, <3>3
  <2>2. ASSUME turns' = [turns EXCEPT ![t].gen = "gone", ![t].saved = TRUE]
        PROVE  TurnsType'
    <3> DEFINE r == [turns[t] EXCEPT !.gen = "gone", !.saved = TRUE]
    <3>1. r \in Turn /\ r.conv = turns[t].conv /\ r.pc = turns[t].pc
      BY <1>1 DEF Turn
    <3>2. turns' = [turns EXCEPT ![t] = r]
      BY <1>1, <2>2
    <3>3. QED
      BY <1>2, <3>1, <3>2
  <2>3. TurnsType'
    BY <1>3, <2>1, <2>2 DEF GenChunk
  <2>4. QED
    BY <1>3, <2>3, TypeParts, TypeParts_ DEF GenChunk
<1>4. CASE GenSave(t)
  <2> DEFINE r == [turns[t] EXCEPT !.gen = "saved", !.saved = TRUE]
  <2>1. r \in Turn /\ r.conv = turns[t].conv /\ r.pc = turns[t].pc
    BY <1>1 DEF Turn
  <2>2. turns' = [turns EXCEPT ![t] = r]
    BY <1>1, <1>4 DEF GenSave
  <2>3. TurnsType'
    BY <1>2, <2>1, <2>2
  <2>4. QED
    BY <1>4, <2>3, TypeParts, TypeParts_ DEF GenSave
<1>5. CASE GenEnd(t)
  <2> DEFINE tail == IF turns[t].tail = "open" THEN "complete" ELSE turns[t].tail
             r == [turns[t] EXCEPT !.gen = "gone", !.tail = tail]
  <2>1. tail \in {"open", "complete", "error", "closed"}
    BY <1>1 DEF Turn
  <2>2. turns' = [turns EXCEPT ![t] = r]
    BY <1>1, <1>5 DEF GenEnd, Turn
  <2> HIDE DEF tail
  <2>3. r \in Turn /\ r.conv = turns[t].conv /\ r.pc = turns[t].pc
    BY <1>1, <2>1 DEF Turn
  <2>4. TurnsType'
    BY <1>2, <2>2, <2>3
  <2>5. QED
    BY <1>5, <2>4, TypeParts, TypeParts_ DEF GenEnd
<1>6. CASE GenFails(t)
  <2>1. PICK goesOn \in BOOLEAN :
          turns' = [turns EXCEPT ![t].tail = "error",
                          ![t].gen = IF goesOn THEN "working" ELSE "gone"]
    BY <1>6 DEF GenFails
  <2> DEFINE gen == IF goesOn THEN "working" ELSE "gone"
             r == [turns[t] EXCEPT !.tail = "error", !.gen = gen]
  <2>2. gen \in {"none", "working", "saved", "gone"}
    OBVIOUS
  <2>3. turns' = [turns EXCEPT ![t] = r]
    BY <1>1, <2>1
  <2> HIDE DEF gen
  <2>4. r \in Turn /\ r.conv = turns[t].conv /\ r.pc = turns[t].pc
    BY <1>1, <2>2 DEF Turn
  <2>5. TurnsType'
    BY <1>2, <2>3, <2>4
  <2>6. QED
    BY <1>6, <2>5, TypeParts, TypeParts_ DEF GenFails
<1>7. CASE GenDies(t)
  <2> DEFINE r == [turns[t] EXCEPT !.gen = "gone", !.tail = "closed"]
  <2>1. r \in Turn /\ r.conv = turns[t].conv /\ r.pc = turns[t].pc
    BY <1>1 DEF Turn
  <2>2. turns' = [turns EXCEPT ![t] = r]
    BY <1>1, <1>7 DEF GenDies
  <2>3. TurnsType'
    BY <1>2, <2>1, <2>2
  <2>4. QED
    BY <1>7, <2>3, TypeParts, TypeParts_ DEF GenDies
<1>8. QED
  BY <1>3, <1>4, <1>5, <1>6, <1>7 DEF GenStep

LEMMA StartType ==
    ASSUME TypeInv, NEW t \in Turns, Start(t)
    PROVE  TypeInv'
<1>1. TurnsType' /\ turns[t].pc # "none"
  BY StepType DEF Start, Step
<1>2. conns' \in [Conns -> Conn] /\ SlotsType(slots')
  BY <1>1, EndIsFrame, PublishType, TypeParts DEF Start
<1>3. QED
  BY <1>1, <1>2, TypeParts, TypeParts_ DEF Start

LEMMA ContentType ==
    ASSUME TypeInv, NEW t \in Turns, Content(t)
    PROVE  TypeInv'
<1>1. turns[t] \in Turn /\ turns \in [Turns -> Turn] /\ turns[t].pc = "running"
      /\ turns[t].conv \in Conversations
  BY TypeParts DEF TurnsType, HasConv, Content
<1>2. turns[t].n + 1 \in 0..MaxChunks
  BY <1>1, SizesAssumption DEF Content, Turn
<1>3. conns' \in [Conns -> Conn] /\ SlotsType(slots')
  BY <1>1, <1>2, EndIsFrame, PublishType DEF Content
<1> DEFINE r == [turns[t] EXCEPT !.n = turns[t].n + 1]
<1>4. turns' = [turns EXCEPT ![t] = r]
  BY <1>1 DEF Content
<1>5. r \in Turn /\ r.conv = turns[t].conv
  BY <1>1, <1>2 DEF Turn
<1> HIDE DEF r
<1>6. TurnsType'
  BY <1>1, <1>4, <1>5, TurnWritten, TypeParts
<1>7. QED
  BY <1>3, <1>6, TypeParts, TypeParts_ DEF Content

LEMMA RawEventType ==
    ASSUME TypeInv, NEW t \in Turns, RawEvent(t)
    PROVE  TypeInv'
<1>1. turns[t] \in Turn /\ turns \in [Turns -> Turn] /\ turns[t].conv \in Conversations
  BY TypeParts DEF TurnsType, HasConv, RawEvent
<1>2. turns[t].raws + 1 \in 0..MaxRaw
  BY <1>1, SizesAssumption DEF RawEvent, Turn
<1>3. conns' \in [Conns -> Conn]
  BY DeliveredType, EmptySeq DEF RawEvent, TypeInv
<1> DEFINE r == [turns[t] EXCEPT !.raws = turns[t].raws + 1]
<1>4. r \in Turn /\ r.conv = turns[t].conv
  BY <1>1, <1>2 DEF Turn
<1>5. turns' = [turns EXCEPT ![t] = r]
  BY <1>1 DEF RawEvent
<1> HIDE DEF r
<1>6. TurnsType'
  BY <1>1, <1>4, <1>5, TurnWritten, TypeParts
<1>7. QED
  BY <1>3, <1>6, TypeParts, TypeParts_ DEF RawEvent

Finishes == {"complete", "error", "cancelled", "aborted"}

LEMMA TerminalType ==
    ASSUME TypeInv, NEW t \in Turns, NEW finish \in Finishes, Terminal(t, finish)
    PROVE  TypeInv'
<1>1. turns[t] \in Turn /\ turns \in [Turns -> Turn] /\ turns[t].pc = "running"
      /\ turns[t].conv \in Conversations
  BY TypeParts DEF TurnsType, HasConv, Terminal
<1>2. conns' \in [Conns -> Conn] /\ SlotsType(slots')
  BY <1>1, EndIsFrame, PublishType DEF Terminal
<1> DEFINE r == [turns[t] EXCEPT !.pc = "ended", !.finish = finish]
<1>3. r \in Turn /\ r.conv = turns[t].conv
  BY <1>1 DEF Turn, Finishes
<1>4. turns' = [turns EXCEPT ![t] = r]
  BY <1>1 DEF Terminal
<1> HIDE DEF r
<1>5. TurnsType'
  BY <1>1, <1>3, <1>4, TurnWritten, TypeParts
<1>6. QED
  BY <1>2, <1>5, TypeParts, TypeParts_ DEF Terminal

\* Every end of a published turn is one of Terminal's, or a crash without one.
LEMMA EndIsTerminal ==
    ASSUME NEW t \in Turns, ReadTail(t) \/ Cancel(t) \/ AgentEnds(t) \/ Panic(t)
    PROVE  \/ \E finish \in Finishes : Terminal(t, finish)
           \/ /\ Host = "agent_core" /\ Step(t, "running", "crashed")
              /\ UNCHANGED <<conns, slots, last, senders, puts>>
<1>1. CASE ReadTail(t)
  <2>1. (IF turns[t].tail = "complete" THEN "complete" ELSE "error") \in Finishes
    BY DEF Finishes
  <2>2. QED
    BY <1>1, <2>1, Zenon DEF ReadTail
<1>2. CASE Cancel(t)
  BY <1>2 DEF Cancel, Finishes
<1>3. CASE AgentEnds(t)
  <2>1. PICK finish \in {"complete", "error"} \cup (IF turns[t].fired THEN {"cancelled"} ELSE {}) :
          Terminal(t, finish)
    BY <1>3 DEF AgentEnds
  <2>2. finish \in Finishes
    BY <2>1 DEF Finishes
  <2>3. QED
    BY <2>1, <2>2
<1>4. CASE Panic(t)
  BY <1>4 DEF Panic, Finishes
<1>5. QED
  BY <1>1, <1>2, <1>3, <1>4

LEMMA EndsType ==
    ASSUME TypeInv, NEW t \in Turns, ReadTail(t) \/ Cancel(t) \/ AgentEnds(t) \/ Panic(t)
    PROVE  TypeInv'
<1>1. CASE \E finish \in Finishes : Terminal(t, finish)
  BY <1>1, TerminalType
<1>2. CASE Step(t, "running", "crashed") /\ UNCHANGED <<conns, slots, last, senders, puts>>
  <2>1. TurnsType'
    BY <1>2, StepType
  <2>2. QED
    BY <1>2, <2>1, TypeParts, TypeParts_
<1>3. QED
  BY <1>1, <1>2, EndIsTerminal

LEMMA CleanupType ==
    ASSUME TypeInv, NEW t \in Turns, Cleanup(t)
    PROVE  TypeInv'
<1>1. TurnsType'
  BY StepType DEF Cleanup
<1>2. SlotsType(slots')
  BY WithoutType, TypeParts DEF Cleanup
<1>3. senders' \in [Turns -> Turns \cup {NoTurn}]
  BY TypeParts DEF Cleanup
<1>4. QED
  BY <1>1, <1>2, <1>3, TypeParts, TypeParts_ DEF Cleanup

LEMMA StopType ==
    ASSUME TypeInv, NEW msg \in Turns, Stop(msg)
    PROVE  TypeInv'
<1>1. PICK t \in Turns : t = senders[msg]
  BY TypeParts DEF Stop
<1> DEFINE r == [turns[t] EXCEPT !.fired = TRUE]
<1>2. turns' = [turns EXCEPT ![t] = r]
  BY <1>1 DEF Stop
<1>3. turns[t] \in Turn /\ HasConv(t)
  BY TypeParts DEF TurnsType
<1>4. r \in Turn /\ r.conv = turns[t].conv /\ r.pc = turns[t].pc
  BY <1>3 DEF Turn
<1> HIDE DEF r
<1>5. TurnsType'
  BY <1>2, <1>3, <1>4, TurnWritten, TypeParts DEF HasConv
<1>6. senders' \in [Turns -> Turns \cup {NoTurn}]
  BY TypeParts DEF Stop
<1>7. QED
  BY <1>5, <1>6, TypeParts, TypeParts_ DEF Stop

\* Every step keeps the types.
LEMMA TypeStep == TypeInv /\ [Next]_vars => TypeInv'
<1> SUFFICES ASSUME TypeInv, [Next]_vars PROVE TypeInv'
  OBVIOUS
<1>1. CASE UNCHANGED vars
  BY <1>1 DEF vars, TypeInv, TypeOK, HasConv
<1>2. ASSUME NEW k \in Conns, (\E u \in Users : Open(k, u)) \/ Read(k) \/ Close(k) \/ Drained(k)
      PROVE  TypeInv'
  BY <1>2, OpenType, ConnStepType
<1>3. ASSUME NEW p \in Puts,
             \/ \E k \in Conns, c \in Conversations \cup {NoConv} : PutCheck(p, k, c)
             \/ PutApply(p)
      PROVE  TypeInv'
  BY <1>3, PutCheckType, PutApplyType
<1>4. ASSUME NEW t \in Turns, NEW c \in Conversations, Begin(t, c)
      PROVE  TypeInv'
  BY <1>4, BeginType
<1>5. ASSUME NEW t \in Turns, HandlerStep(t) \/ Dropped(t) \/ Stop(t)
      PROVE  TypeInv'
  BY <1>5, SetupFailsType, SetupDoneType, CreateTokenType, DroppedType, StopType
     DEF HandlerStep
<1>6. ASSUME NEW t \in Turns, GenStep(t)
      PROVE  TypeInv'
  BY <1>6, GenStepType
<1>7. ASSUME NEW t \in Turns, TaskStep(t) \/ AgentEnds(t) \/ Panic(t)
      PROVE  TypeInv'
  BY <1>7, StartType, ContentType, RawEventType, EndsType, CleanupType DEF TaskStep
<1>8. QED
  BY <1>1, <1>2, <1>3, <1>4, <1>5, <1>6, <1>7 DEF Next

\* Type correctness: queues within their capacity, replay buffers within theirs
\* (registry.rs, buffers.rs), whatever opens, closes, publishes, stops and panics.
THEOREM ChatStreamType == Spec => []TypeOK
<1>1. TypeInv => TypeOK
  BY DEF TypeInv
<1>2. QED
  BY <1>1, TypeInit, TypeStep, PTL DEF Spec

-----------------------------------------------------------------------------
(* One turn per conversation, on the legacy host.                          *)
(* On the agent host the claim is released twice, so that it can take away *)
(* another turn's: none of what follows holds there.                       *)

\* A live turn holds its conversation, alone; and a conversation that is held is
\* held by a live turn or by one that was dropped during set-up.
LockInv ==
    /\ \A t \in Turns : Live(t) => turns[t].conv \in DOMAIN slots
    /\ \A s, t \in Turns : Live(s) /\ Live(t) /\ turns[s].conv = turns[t].conv => s = t
    /\ \A c \in DOMAIN slots : \E t \in Turns :
          (Live(t) \/ turns[t].pc = "dropped") /\ turns[t].conv = c

\* What a step may do to a turn's part in the lock, and to the claims.
Same(s) ==
    /\ turns'[s].conv = turns[s].conv
    /\ turns'[s].pc = "none" <=> turns[s].pc = "none"
    /\ turns'[s].pc = "dropped" <=> turns[s].pc = "dropped"
    /\ Live(s)' <=> Live(s)

Keeps == DOMAIN slots' = DOMAIN slots /\ \A s \in Turns : Same(s)

Takes(t, c) ==
    /\ c \notin DOMAIN slots /\ DOMAIN slots' = DOMAIN slots \cup {c}
    /\ turns[t].pc = "none" /\ turns'[t].conv = c
    /\ turns'[t].pc = "setup"
    /\ \A s \in Turns \ {t} : Same(s)

Frees(t) ==
    /\ Live(t) /\ ~Live(t)' /\ turns'[t].conv = turns[t].conv /\ turns'[t].pc # "none"
    /\ \/ DOMAIN slots' = DOMAIN slots \ {turns[t].conv} /\ turns'[t].pc # "dropped"
       \/ DOMAIN slots' = DOMAIN slots /\ turns'[t].pc = "dropped"
    /\ \A s \in Turns \ {t} : Same(s)

LEMMA UnchangedKeeps == UNCHANGED <<slots, turns>> => Keeps
BY DEF Keeps, Same, Live

\* A step of a turn that is live before and after it, or neither.
LEMMA InnerKeeps ==
    ASSUME TypeInv, NEW t \in Turns, NEW from, NEW to,
           turns[t].pc = from, turns'[t].pc = to, turns'[t].conv = turns[t].conv,
           \A s \in Turns \ {t} : turns'[s] = turns[s],
           from \notin {"none", "dropped"}, to \notin {"none", "dropped"},
           from \in {"setup", "token", "spawned", "running"}
              <=> to \in {"setup", "token", "spawned", "running"}
    PROVE  \A s \in Turns : Same(s)
BY DEF Same, Live

\* A frame that is not the last one keeps the claims.
LEMMA PublishKeeps ==
    ASSUME LockInv, NEW t \in Turns, Live(t), NEW no, no # End, Publish(t, no)
    PROVE  DOMAIN slots' = DOMAIN slots
BY DEF LockInv, Publish, With

LEMMA GenKeeps ==
    ASSUME TypeInv, NEW t \in Turns, GenStep(t)
    PROVE  Keeps
<1>1. UNCHANGED slots
  BY DEF GenStep, GenChunk, GenSave, GenEnd, GenFails, GenDies
<1>2. turns \in [Turns -> Turn]
  BY TypeParts DEF TurnsType
<1>3. ASSUME NEW s \in Turns
      PROVE  turns'[s].pc = turns[s].pc /\ turns'[s].conv = turns[s].conv
  <2>1. CASE GenChunk(t)
    BY <1>2, <2>1 DEF GenChunk, Turn
  <2>2. CASE GenSave(t)
    BY <1>2, <2>2 DEF GenSave, Turn
  <2>3. CASE GenEnd(t)
    BY <1>2, <2>3 DEF GenEnd, Turn
  <2>4. CASE GenFails(t)
    BY <1>2, <2>4 DEF GenFails, Turn
  <2>5. CASE GenDies(t)
    BY <1>2, <2>5 DEF GenDies, Turn
  <2>6. QED
    BY <2>1, <2>2, <2>3, <2>4, <2>5 DEF GenStep
<1>4. QED
  BY <1>1, <1>3 DEF Keeps, Same, Live

\* The handler and Dropped.
LEMMA HandlerLock ==
    ASSUME TypeInv, LockInv, Host = "legacy", NEW t \in Turns,
           HandlerStep(t) \/ Dropped(t)
    PROVE  Keeps \/ Frees(t)
<1>1. turns \in [Turns -> Turn]
  BY TypeParts DEF TurnsType
<1>2. CASE SetupFails(t)
  <2>1. DOMAIN slots' = DOMAIN slots \ {turns[t].conv}
    BY <1>2 DEF SetupFails, Without
  <2>2. QED
    BY <1>1, <1>2, <2>1 DEF SetupFails, Step, Frees, Same, Live, Turn
<1>3. CASE SetupDone(t)
  <2>1. /\ turns[t].pc = "setup" /\ turns'[t].pc = "token"
        /\ turns'[t].conv = turns[t].conv
        /\ \A s \in Turns \ {t} : turns'[s] = turns[s]
    BY <1>1, <1>3 DEF SetupDone, Turn
  <2>2. \A s \in Turns : Same(s)
    BY <2>1, InnerKeeps
  <2>3. QED
    BY <1>3, <2>2 DEF SetupDone, Keeps
<1>4. CASE CreateToken(t)
  <2>1. /\ turns[t].pc = "token" /\ turns'[t].pc = "spawned"
        /\ turns'[t].conv = turns[t].conv
        /\ \A s \in Turns \ {t} : turns'[s] = turns[s]
    BY <1>1, <1>4 DEF CreateToken, Step, Turn
  <2>2. \A s \in Turns : Same(s)
    BY <2>1, InnerKeeps
  <2>3. QED
    BY <1>4, <2>2 DEF CreateToken, Keeps
<1>5. CASE Dropped(t)
  BY <1>1, <1>5 DEF Dropped, Frees, Same, Live, Turn
<1>6. QED
  BY <1>2, <1>3, <1>4, <1>5 DEF HandlerStep

\* The consumer task and its ends.
LEMMA TaskLock ==
    ASSUME TypeInv, LockInv, Host = "legacy", NEW t \in Turns,
           TaskStep(t) \/ AgentEnds(t) \/ Panic(t)
    PROVE  Keeps \/ Frees(t)
<1>1. turns \in [Turns -> Turn]
  BY TypeParts DEF TurnsType
<1>2. CASE Start(t)
  <2>1. /\ turns[t].pc = "spawned" /\ turns'[t].pc = "running"
        /\ turns'[t].conv = turns[t].conv
        /\ \A s \in Turns \ {t} : turns'[s] = turns[s]
    BY <1>1, <1>2 DEF Start, Step, Turn
  <2>2. \A s \in Turns : Same(s)
    BY <2>1, InnerKeeps
  <2>3. 0 # End
    BY SizesAssumption DEF End
  <2>4. DOMAIN slots' = DOMAIN slots
    BY <1>2, <2>1, <2>3, PublishKeeps DEF Start, Live
  <2>5. QED
    BY <2>2, <2>4 DEF Keeps
<1>3. CASE Content(t)
  <2>1. /\ turns[t].pc = "running" /\ turns'[t].pc = "running"
        /\ turns'[t].conv = turns[t].conv
        /\ \A s \in Turns \ {t} : turns'[s] = turns[s]
    BY <1>1, <1>3 DEF Content, Turn
  <2>2. \A s \in Turns : Same(s)
    BY <2>1, InnerKeeps
  <2>3. turns[t].n + 1 # End
    BY <1>1, <1>3, SizesAssumption DEF End, Content, Turn
  <2>4. DOMAIN slots' = DOMAIN slots
    BY <1>3, <2>1, <2>3, PublishKeeps DEF Content, Live
  <2>5. QED
    BY <2>2, <2>4 DEF Keeps
<1>4. CASE RawEvent(t)
  <2>1. \A s \in Turns : turns'[s].pc = turns[s].pc /\ turns'[s].conv = turns[s].conv
    BY <1>1, <1>4 DEF RawEvent, Turn
  <2>2. QED
    BY <1>4, <2>1 DEF RawEvent, Keeps, Same, Live
<1>5. CASE Cleanup(t)
  <2>1. /\ turns[t].pc = "ended" /\ turns'[t].pc = "done"
        /\ turns'[t].conv = turns[t].conv
        /\ \A s \in Turns \ {t} : turns'[s] = turns[s]
    BY <1>1, <1>5 DEF Cleanup, Step, Turn
  <2>2. \A s \in Turns : Same(s)
    BY <2>1, InnerKeeps
  <2>3. QED
    BY <1>5, <2>2 DEF Cleanup, Keeps
<1>6. CASE \E finish \in Finishes : Terminal(t, finish)
  <2>1. PICK finish \in Finishes : Terminal(t, finish)
    BY <1>6
  <2>2. DOMAIN slots' = DOMAIN slots \ {turns[t].conv}
    BY <2>1 DEF Terminal, Publish, Without
  <2>3. turns[t].pc = "running" /\ turns'[t].pc = "ended" /\ turns'[t].conv = turns[t].conv
        /\ \A s \in Turns \ {t} : turns'[s] = turns[s]
    BY <1>1, <2>1 DEF Terminal, Turn
  <2>4. QED
    BY <2>2, <2>3 DEF Frees, Same, Live
<1>7. QED
  BY <1>2, <1>3, <1>4, <1>5, <1>6, EndIsTerminal DEF TaskStep

LEMMA StopKeeps ==
    ASSUME TypeInv, NEW msg \in Turns, Stop(msg)
    PROVE  Keeps
<1>1. turns \in [Turns -> Turn]
  BY TypeParts DEF TurnsType
<1>2. \A s \in Turns : turns'[s].pc = turns[s].pc /\ turns'[s].conv = turns[s].conv
  BY <1>1 DEF Stop, Turn
<1>3. QED
  BY <1>2 DEF Stop, Keeps, Same, Live

\* Every step leaves the lock alone, takes a free conversation, or ends a turn.
LEMMA LockStep ==
    ASSUME TypeInv, LockInv, Host = "legacy", [Next]_vars
    PROVE  \/ Keeps
           \/ \E t \in Turns, c \in Conversations : Takes(t, c)
           \/ \E t \in Turns : Frees(t)
<1>1. CASE UNCHANGED vars
  BY <1>1, UnchangedKeeps DEF vars
<1>2. ASSUME NEW k \in Conns, (\E u \in Users : Open(k, u)) \/ Read(k) \/ Close(k) \/ Drained(k)
      PROVE  Keeps
  BY <1>2, UnchangedKeeps DEF Open, Read, Close, Drained
<1>3. ASSUME NEW p \in Puts,
             \/ \E k \in Conns, c \in Conversations \cup {NoConv} : PutCheck(p, k, c)
             \/ PutApply(p)
      PROVE  Keeps
  BY <1>3, UnchangedKeeps DEF PutCheck, PutApply
<1>4. ASSUME NEW t \in Turns, NEW c \in Conversations, Begin(t, c)
      PROVE  Takes(t, c)
  BY <1>4, TypeParts DEF Begin, InFlight, With, Takes, Same, Live, TurnsType, Turn
<1>5. ASSUME NEW t \in Turns, HandlerStep(t) \/ Dropped(t)
      PROVE  Keeps \/ Frees(t)
  BY <1>5, HandlerLock
<1>6. ASSUME NEW t \in Turns, GenStep(t) \/ Stop(t)
      PROVE  Keeps
  BY <1>6, GenKeeps, StopKeeps
<1>7. ASSUME NEW t \in Turns, TaskStep(t) \/ AgentEnds(t) \/ Panic(t)
      PROVE  Keeps \/ Frees(t)
  BY <1>7, TaskLock
<1>8. QED
  BY <1>1, <1>2, <1>3, <1>4, <1>5, <1>6, <1>7 DEF Next

LEMMA LockInit == Init => LockInv
BY DEF Init, NewTurn, LockInv, Live

LEMMA LockPreserved == TypeInv /\ LockInv /\ Host = "legacy" /\ [Next]_vars => LockInv'
<1> SUFFICES ASSUME TypeInv, LockInv, Host = "legacy", [Next]_vars PROVE LockInv'
  OBVIOUS
<1>1. CASE Keeps
  BY <1>1 DEF Keeps, Same, LockInv
<1>2. ASSUME NEW t \in Turns, NEW c \in Conversations, Takes(t, c)
      PROVE  LockInv'
  BY <1>2 DEF Takes, Same, LockInv, Live
<1>3. ASSUME NEW t \in Turns, Frees(t)
      PROVE  LockInv'
  BY <1>3 DEF Frees, Same, LockInv
<1>4. QED
  BY <1>1, <1>2, <1>3, LockStep

LEMMA LockInvariant == ASSUME Host = "legacy" PROVE Spec => [](TypeInv /\ LockInv)
<1>1. Init => TypeInv /\ LockInv
  BY TypeInit, LockInit
<1>2. (TypeInv /\ LockInv) /\ [Next]_vars => (TypeInv /\ LockInv)'
  BY TypeStep, LockPreserved
<1>3. QED
  BY <1>1, <1>2, PTL DEF Spec

LEMMA LiveInAlone ==
    LockInv => \A c \in Conversations, t \in Turns : t \in LiveIn(c) => LiveIn(c) = {t}
BY DEF LockInv, LiveIn

LEMMA LockInvImplies ==
    ASSUME LockInv
    PROVE  OneTurnPerConversation /\ SlotFollowsTurns
<1>1. ASSUME NEW c \in Conversations PROVE Cardinality(LiveIn(c)) <= 1
  <2>1. CASE LiveIn(c) = {}
    BY <2>1, FS_EmptySet
  <2>2. CASE LiveIn(c) # {}
    <3>1. PICK t \in Turns : t \in LiveIn(c)
      BY <2>2 DEF LiveIn
    <3>2. LiveIn(c) = {t}
      BY <3>1, LiveInAlone
    <3>3. Cardinality({t}) = 1
      BY FS_Singleton
    <3>4. QED
      BY <3>2, <3>3
  <2>3. QED
    BY <2>1, <2>2
<1>2. SlotFollowsTurns
  BY DEF LockInv, SlotFollowsTurns, LiveIn, InFlight
<1>3. QED
  BY <1>1, <1>2 DEF OneTurnPerConversation

\* No second send, resume or scheduled prompt gets past begin_generation while a
\* turn is between its claim and its terminal frame.
THEOREM ChatOneTurnPerConversation ==
    ASSUME Host = "legacy" PROVE Spec => []OneTurnPerConversation
BY LockInvariant, LockInvImplies, PTL

\* is_generating, which the scheduler polls, is true for as long as a turn lives, and
\* a conversation is left marked without one, and answers 409 from then on, only by a
\* sender whose handler future was dropped during set-up.
THEOREM ChatSlotFollowsTurns ==
    ASSUME Host = "legacy" PROVE Spec => []SlotFollowsTurns
BY LockInvariant, LockInvImplies, PTL

-----------------------------------------------------------------------------
(* The turns implement the lock *)

LEMMA HolderIs ==
    ASSUME LockInv, NEW c \in Conversations
    PROVE  /\ LiveIn(c) = {} => Holder[c] = NoTurn
           /\ \A t \in Turns : t \in LiveIn(c) => Holder[c] = t
BY LiveInAlone DEF Holder

LEMMA HolderIs_ ==
    ASSUME LockInv', NEW c \in Conversations
    PROVE  /\ LiveIn(c)' = {} => Holder'[c] = NoTurn
           /\ \A t \in Turns : t \in LiveIn(c)' => Holder'[c] = t
<1>1. \A t \in Turns : t \in LiveIn(c)' => LiveIn(c)' = {t}
  BY DEF LockInv, LiveIn
<1>2. QED
  BY <1>1 DEF Holder

LEMMA FunctionUpdate ==
    ASSUME NEW S, NEW f, NEW g, f = [x \in S |-> f[x]], g = [x \in S |-> g[x]],
           NEW c \in S, NEW v, g[c] = v, \A d \in S \ {c} : g[d] = f[d]
    PROVE  g = [f EXCEPT ![c] = v]
OBVIOUS

LEMMA HolderIsFunction ==
    /\ Holder = [c \in Conversations |-> Holder[c]]
    /\ Holder' = [c \in Conversations |-> Holder'[c]]
BY DEF Holder

\* Where the same turn lives before and after a step, or none does, the holder stays.
LEMMA HolderStays ==
    ASSUME LockInv, LockInv', NEW c \in Conversations, LiveIn(c)' = LiveIn(c)
    PROVE  Holder'[c] = Holder[c]
<1>1. CASE LiveIn(c) = {}
  BY <1>1, HolderIs, HolderIs_
<1>2. ASSUME NEW t \in Turns, t \in LiveIn(c) PROVE Holder'[c] = Holder[c]
  BY <1>2, HolderIs, HolderIs_
<1>3. QED
  BY <1>1, <1>2 DEF LiveIn

Spent == {t \in Turns : turns[t].pc # "none"}

LEMMA LockKept ==
    ASSUME LockInv, LockInv', Keeps
    PROVE  Holder' = Holder /\ Spent' = Spent
<1>1. \A c \in Conversations : LiveIn(c)' = LiveIn(c)
  BY DEF LiveIn, Keeps, Same
<1>2. \A c \in Conversations : Holder'[c] = Holder[c]
  BY <1>1, HolderStays
<1>3. Holder' = Holder
  BY <1>2 DEF Holder
<1>4. QED
  BY <1>3 DEF Spent, Keeps, Same

LEMMA LockTaken ==
    ASSUME LockInv, LockInv', NEW t \in Turns, NEW c \in Conversations, Takes(t, c)
    PROVE  Lock!Acquire(c, t)
<1>1. LiveIn(c) = {} /\ t \in LiveIn(c)'
  BY DEF Takes, LockInv, LiveIn, Live
<1>2. \A d \in Conversations \ {c} : LiveIn(d)' = LiveIn(d)
  BY DEF Takes, Same, LiveIn, Live
<1>3. Holder[c] = NoTurn /\ Holder'[c] = t
  BY <1>1, HolderIs, HolderIs_
<1>4. \A d \in Conversations \ {c} : Holder'[d] = Holder[d]
  BY <1>2, HolderStays
<1>5. Holder' = [Holder EXCEPT ![c] = t]
  BY <1>3, <1>4, HolderIsFunction, FunctionUpdate
<1>6. t \notin Spent /\ Spent' = Spent \cup {t}
  BY DEF Spent, Takes, Same
<1>7. QED
  BY <1>3, <1>5, <1>6 DEF Lock!Acquire, Spent

LEMMA LockFreed ==
    ASSUME TypeInv, LockInv, LockInv', NEW t \in Turns, Frees(t)
    PROVE  turns[t].conv \in Conversations /\ Lock!Release(turns[t].conv)
<1>1. PICK c \in Conversations : c = turns[t].conv
  BY TypeParts DEF Frees, Live, TurnsType, HasConv
<1>2. t \in LiveIn(c) /\ LiveIn(c)' = {}
  BY <1>1 DEF Frees, Same, LiveIn, LockInv
<1>3. \A d \in Conversations \ {c} : LiveIn(d)' = LiveIn(d)
  BY <1>1 DEF Frees, Same, LiveIn
<1>4. Holder[c] = t /\ Holder'[c] = NoTurn
  BY <1>2, HolderIs, HolderIs_
<1>5. \A d \in Conversations \ {c} : Holder'[d] = Holder[d]
  BY <1>3, HolderStays
<1>6. Holder' = [Holder EXCEPT ![c] = NoTurn]
  BY <1>4, <1>5, HolderIsFunction, FunctionUpdate
<1>7. Spent' = Spent
  BY DEF Spent, Frees, Same, Live
<1>8. Holder[c] # NoTurn
  BY <1>4, NamesAssumption
<1>9. QED
  BY <1>1, <1>6, <1>7, <1>8 DEF Lock!Release, Spent

\* start_generation and its tasks keep the promise of begin_generation step by
\* step: a conversation passes from one turn to the next only through being free.
THEOREM ChatImplementsTurnLock ==
    ASSUME Host = "legacy" PROVE Spec => ImplementsTurnLock
<1>1. Init => Lock!Init
  <2> SUFFICES ASSUME Init PROVE Lock!Init
    OBVIOUS
  <2>1. \A c \in Conversations : LiveIn(c) = {}
    BY DEF Init, LiveIn, Live, NewTurn
  <2>2. Holder = [c \in Conversations |-> NoTurn]
    BY <2>1 DEF Holder
  <2>3. Spent = {}
    BY DEF Init, Spent, NewTurn
  <2>4. QED
    BY <2>2, <2>3 DEF Lock!Init, Spent
<1>2. (TypeInv /\ LockInv) /\ (TypeInv /\ LockInv)' /\ [Next]_vars => [Lock!Next]_(Lock!lockVars)
  <2> SUFFICES ASSUME TypeInv, LockInv, LockInv', [Next]_vars
               PROVE  [Lock!Next]_(Lock!lockVars)
    OBVIOUS
  <2>1. CASE Keeps
    BY <2>1, LockKept DEF Lock!lockVars, Spent
  <2>2. ASSUME NEW t \in Turns, NEW c \in Conversations, Takes(t, c)
        PROVE  Lock!Next
    BY <2>2, LockTaken DEF Lock!Next
  <2>3. ASSUME NEW t \in Turns, Frees(t)
        PROVE  Lock!Next
    BY <2>3, LockFreed DEF Lock!Next
  <2>4. QED
    BY <2>1, <2>2, <2>3, LockStep
<1>3. QED
  BY <1>1, <1>2, LockInvariant, PTL DEF Spec, ImplementsTurnLock, Lock!Spec

-----------------------------------------------------------------------------
(* Stop tokens, on the legacy host *)

\* The turn that created a message is over when another turn resumes it, and a
\* conversation's last message was created in it.
MessagesInv ==
    /\ \A s, t \in Turns : s # t /\ turns[s].msg = t => turns[t].pc # "none" /\ ~Live(t)
    /\ \A c \in Conversations : last[c] # NoTurn =>
          turns[last[c]].conv = c /\ turns[last[c]].pc # "none"

TokenInv == MessagesInv /\ StopReachesTurn /\ NoStaleToken

MessagesKept == last' = last /\ \A t \in Turns : turns'[t].msg = turns[t].msg

\* A step that neither gives a turn its token nor takes it away.
Quiet ==
    /\ senders' = senders
    /\ \A t \in Turns :
          /\ turns'[t].fired = turns[t].fired
          /\ turns'[t].pc \in {"spawned", "running"} => turns[t].pc \in {"spawned", "running"}
          /\ turns[t].pc \in {"spawned", "running", "ended"} =>
                /\ turns'[t].pc \in {"spawned", "running", "ended"}
                /\ turns'[t].msg = turns[t].msg

LEMMA TokenStep ==
    ASSUME TypeInv, Host = "legacy", [Next]_vars
    PROVE  \/ MessagesKept /\ Quiet
           \/ \E t \in Turns : SetupDone(t) /\ Quiet
           \/ \E t \in Turns : MessagesKept /\ (CreateToken(t) \/ Cleanup(t) \/ Stop(t))
<1>1. turns \in [Turns -> Turn]
  BY TypeParts DEF TurnsType
<1>2. CASE UNCHANGED <<turns, last, senders>>
  BY <1>2 DEF MessagesKept, Quiet
<1>3. CASE \E k \in Conns : (\E u \in Users : Open(k, u)) \/ Read(k) \/ Close(k) \/ Drained(k)
  BY <1>2, <1>3 DEF Open, Read, Close, Drained
<1>4. CASE \E p \in Puts :
             \/ \E k \in Conns, c \in Conversations \cup {NoConv} : PutCheck(p, k, c)
             \/ PutApply(p)
  BY <1>2, <1>4 DEF PutCheck, PutApply
<1>5. ASSUME NEW t \in Turns, NEW c \in Conversations, Begin(t, c)
      PROVE  MessagesKept /\ Quiet
  BY <1>1, <1>5 DEF Begin, MessagesKept, Quiet, Turn
<1>6. ASSUME NEW t \in Turns, SetupFails(t) \/ Dropped(t)
      PROVE  MessagesKept /\ Quiet
  BY <1>1, <1>6 DEF SetupFails, Step, Dropped, MessagesKept, Quiet, Turn
<1>7. ASSUME NEW t \in Turns, SetupDone(t)
      PROVE  Quiet
  BY <1>1, <1>7 DEF SetupDone, Quiet, Turn
<1>8. ASSUME NEW t \in Turns, CreateToken(t) \/ Cleanup(t) \/ Stop(t)
      PROVE  MessagesKept
  BY <1>1, <1>8 DEF CreateToken, Cleanup, Stop, Step, MessagesKept, Turn
<1>9. ASSUME NEW t \in Turns, GenStep(t)
      PROVE  MessagesKept /\ Quiet
  <2>1. CASE GenChunk(t)
    BY <1>1, <2>1 DEF GenChunk, Turn, MessagesKept, Quiet
  <2>2. CASE GenSave(t)
    BY <1>1, <2>2 DEF GenSave, Turn, MessagesKept, Quiet
  <2>3. CASE GenEnd(t)
    BY <1>1, <2>3 DEF GenEnd, Turn, MessagesKept, Quiet
  <2>4. CASE GenFails(t)
    BY <1>1, <2>4 DEF GenFails, Turn, MessagesKept, Quiet
  <2>5. CASE GenDies(t)
    BY <1>1, <2>5 DEF GenDies, Turn, MessagesKept, Quiet
  <2>6. QED
    BY <1>9, <2>1, <2>2, <2>3, <2>4, <2>5 DEF GenStep
<1>10. ASSUME NEW t \in Turns, Start(t) \/ Content(t) \/ RawEvent(t)
       PROVE  MessagesKept /\ Quiet
  <2>1. CASE Start(t)
    BY <1>1, <2>1 DEF Start, Step, Turn, MessagesKept, Quiet
  <2>2. CASE Content(t)
    BY <1>1, <2>2 DEF Content, Turn, MessagesKept, Quiet
  <2>3. CASE RawEvent(t)
    BY <1>1, <2>3 DEF RawEvent, Turn, MessagesKept, Quiet
  <2>4. QED
    BY <1>10, <2>1, <2>2, <2>3
<1>11. ASSUME NEW t \in Turns, ReadTail(t) \/ Cancel(t) \/ AgentEnds(t) \/ Panic(t)
       PROVE  MessagesKept /\ Quiet
  <2>1. PICK finish \in Finishes : Terminal(t, finish)
    BY <1>11, EndIsTerminal
  <2>2. QED
    BY <1>1, <2>1 DEF Terminal, Turn, MessagesKept, Quiet
<1>12. QED
  BY <1>2, <1>3, <1>4, <1>5, <1>6, <1>7, <1>8, <1>9, <1>10, <1>11
     DEF Next, HandlerStep, TaskStep, vars

LEMMA TokenInit == Init => TokenInv
BY NamesAssumption DEF Init, NewTurn, TokenInv, MessagesInv, StopReachesTurn, NoStaleToken

\* While messages stay as they are, a turn that is over stays over.
LEMMA MessagesKeptStep ==
    ASSUME TypeInv, LockInv, MessagesInv, Host = "legacy", [Next]_vars, MessagesKept
    PROVE  MessagesInv'
<1>1. ASSUME NEW t \in Turns, turns[t].pc # "none"
      PROVE  turns'[t].pc # "none" /\ turns'[t].conv = turns[t].conv
  BY <1>1, LockStep DEF Keeps, Takes, Frees, Same
<1>2. ASSUME NEW t \in Turns, turns[t].pc # "none", ~Live(t)
      PROVE  ~Live(t)'
  BY <1>2, LockStep DEF Keeps, Takes, Frees, Same
<1>3. \A c \in Conversations : last[c] # NoTurn => last[c] \in Turns
  BY TypeParts
<1>4. ASSUME NEW s \in Turns, NEW t \in Turns, s # t, turns'[s].msg = t
      PROVE  turns'[t].pc # "none" /\ ~Live(t)'
  BY <1>1, <1>2, <1>4 DEF MessagesInv, MessagesKept
<1>5. ASSUME NEW c \in Conversations, last'[c] # NoTurn
      PROVE  turns'[last'[c]].conv = c /\ turns'[last'[c]].pc # "none"
  BY <1>1, <1>3, <1>5 DEF MessagesInv, MessagesKept
<1>6. QED
  BY <1>4, <1>5 DEF MessagesInv

\* Only the conversation's last message is resumed, and its turn is over: the
\* turn that resumes it lives in the same conversation.
LEMMA MessagesSetupStep ==
    ASSUME TypeInv, LockInv, MessagesInv, NEW t \in Turns, SetupDone(t)
    PROVE  MessagesInv'
<1>1. PICK c \in Conversations : c = turns[t].conv
  BY TypeParts DEF SetupDone, TurnsType, HasConv
<1>2. PICK msg \in {t} \cup (IF Resumes THEN {last[c]} \ {NoTurn} ELSE {}) :
        /\ turns' = [turns EXCEPT ![t].pc = "token", ![t].msg = msg,
                          ![t].gen = IF Host = "legacy" THEN "working" ELSE "none"]
        /\ last' = [last EXCEPT ![c] = msg]
  BY <1>1, Zenon DEF SetupDone
<1>3. turns \in [Turns -> Turn] /\ turns[t].pc = "setup"
  BY TypeParts DEF TurnsType, SetupDone
<1>4. msg \in Turns /\ turns[msg].conv = c /\ turns[msg].pc # "none"
      /\ (msg # t => msg = last[c])
  BY <1>1, <1>2, <1>3, TypeParts DEF MessagesInv
<1>5. msg # t => ~Live(msg)
  BY <1>1, <1>3, <1>4 DEF LockInv, Live
<1>6. /\ turns'[t].pc = "token" /\ turns'[t].msg = msg /\ turns'[t].conv = c
      /\ \A s \in Turns \ {t} : turns'[s] = turns[s]
  BY <1>1, <1>2, <1>3 DEF Turn
<1>7. ASSUME NEW s \in Turns, NEW x \in Turns, s # x, turns'[s].msg = x
      PROVE  turns'[x].pc # "none" /\ ~Live(x)'
  <2>1. CASE s = t
    <3>1. x = msg /\ x # t
      BY <1>6, <1>7, <2>1
    <3>2. QED
      BY <3>1, <1>4, <1>5, <1>6 DEF Live
  <2>2. CASE s # t
    <3>1. turns[s].msg = x /\ turns[x].pc # "none" /\ ~Live(x)
      BY <1>6, <1>7, <2>2 DEF MessagesInv
    <3>2. x # t
      BY <3>1, <1>3 DEF Live
    <3>3. QED
      BY <3>1, <3>2, <1>6 DEF Live
  <2>3. QED
    BY <2>1, <2>2
<1>8. ASSUME NEW d \in Conversations, last'[d] # NoTurn
      PROVE  turns'[last'[d]].conv = d /\ turns'[last'[d]].pc # "none"
  <2>1. CASE d = c
    <3>1. last'[d] = msg
      BY <1>2, <2>1, TypeParts
    <3>2. QED
      BY <3>1, <1>4, <1>6, <2>1
  <2>2. CASE d # c
    <3>1. last'[d] = last[d] /\ last[d] \in Turns
      BY <1>2, <1>8, <2>2, TypeParts
    <3>2. turns[last[d]].conv = d /\ turns[last[d]].pc # "none"
      BY <3>1, <1>8 DEF MessagesInv
    <3>3. last[d] # t
      BY <3>2, <1>1, <2>2
    <3>4. QED
      BY <3>1, <3>2, <3>3, <1>6
  <2>3. QED
    BY <2>1, <2>2
<1>9. QED
  BY <1>7, <1>8 DEF MessagesInv

LEMMA QuietTokens ==
    ASSUME TypeInv, StopReachesTurn, NoStaleToken, Quiet
    PROVE  (StopReachesTurn /\ NoStaleToken)'
<1>1. StopReachesTurn'
  BY DEF StopReachesTurn, Quiet
<1>2. NoStaleToken'
  BY DEF NoStaleToken, Quiet
<1>3. QED
  BY <1>1, <1>2

LEMMA CreateTokens ==
    ASSUME TypeInv, TokenInv, Host = "legacy", NEW t \in Turns, CreateToken(t)
    PROVE  (StopReachesTurn /\ NoStaleToken)'
<1>1. /\ turns \in [Turns -> Turn] /\ senders \in [Turns -> Turns \cup {NoTurn}]
      /\ turns[t].pc = "token"
  BY TypeParts DEF TurnsType, CreateToken, Step
<1>2. /\ turns'[t].pc = "spawned" /\ turns'[t].msg = turns[t].msg
      /\ \A s \in Turns \ {t} : turns'[s] = turns[s]
      /\ \A s \in Turns : senders'[s] = IF s = turns[t].msg THEN t ELSE senders[s]
  BY <1>1 DEF CreateToken, Step, Turn
<1>3. ASSUME NEW s \in Turns, turns'[s].pc \in {"spawned", "running"}, turns'[s].msg = s
      PROVE  senders'[s] = s \/ turns'[s].fired
  <2>1. CASE s = t
    BY <1>2, <1>3, <2>1
  <2>2. CASE s # t
    <3>1. turns[s].pc \in {"spawned", "running"} /\ turns[s].msg = s /\ Live(s)
      BY <1>2, <1>3, <2>2 DEF Live
    <3>2. turns[t].msg # s
      BY <3>1, <2>2 DEF TokenInv, MessagesInv
    <3>3. QED
      BY <3>1, <3>2, <1>2, <2>2 DEF TokenInv, StopReachesTurn
  <2>3. QED
    BY <2>1, <2>2
<1>4. ASSUME NEW msg \in Turns, senders'[msg] # NoTurn
      PROVE  \E s \in Turns :
                turns'[s].msg = msg /\ turns'[s].pc \in {"spawned", "running", "ended"}
  <2>1. CASE msg = turns[t].msg
    BY <1>2, <2>1
  <2>2. CASE msg # turns[t].msg
    <3>1. PICK s \in Turns :
            turns[s].msg = msg /\ turns[s].pc \in {"spawned", "running", "ended"}
      BY <1>2, <1>4, <2>2 DEF TokenInv, NoStaleToken
    <3>2. QED
      BY <3>1, <1>2, <2>2
  <2>3. QED
    BY <2>1, <2>2
<1>5. QED
  BY <1>3, <1>4 DEF StopReachesTurn, NoStaleToken

LEMMA CleanupTokens ==
    ASSUME TypeInv, TokenInv, NEW t \in Turns, Cleanup(t)
    PROVE  (StopReachesTurn /\ NoStaleToken)'
<1>1. /\ turns \in [Turns -> Turn] /\ senders \in [Turns -> Turns \cup {NoTurn}]
      /\ turns[t].pc = "ended"
  BY TypeParts DEF TurnsType, Cleanup, Step
<1>2. /\ turns'[t].pc = "done"
      /\ \A s \in Turns \ {t} : turns'[s] = turns[s]
      /\ \A s \in Turns : senders'[s] = IF s = turns[t].msg THEN NoTurn ELSE senders[s]
  BY <1>1 DEF Cleanup, Step, Turn
<1>3. ASSUME NEW s \in Turns, turns'[s].pc \in {"spawned", "running"}, turns'[s].msg = s
      PROVE  senders'[s] = s \/ turns'[s].fired
  <2>1. s # t
    BY <1>2, <1>3
  <2>2. turns[s].pc \in {"spawned", "running"} /\ turns[s].msg = s /\ Live(s)
    BY <1>2, <1>3, <2>1 DEF Live
  <2>3. turns[t].msg # s
    BY <2>1, <2>2 DEF TokenInv, MessagesInv
  <2>4. QED
    BY <2>1, <2>2, <2>3, <1>2 DEF TokenInv, StopReachesTurn
<1>4. ASSUME NEW msg \in Turns, senders'[msg] # NoTurn
      PROVE  \E s \in Turns :
                turns'[s].msg = msg /\ turns'[s].pc \in {"spawned", "running", "ended"}
  <2>1. msg # turns[t].msg /\ senders[msg] # NoTurn
    BY <1>2, <1>4
  <2>2. PICK s \in Turns :
          turns[s].msg = msg /\ turns[s].pc \in {"spawned", "running", "ended"}
    BY <2>1 DEF TokenInv, NoStaleToken
  <2>3. QED
    BY <2>1, <2>2, <1>2
<1>5. QED
  BY <1>3, <1>4 DEF StopReachesTurn, NoStaleToken

LEMMA StopTokens ==
    ASSUME TypeInv, TokenInv, NEW m \in Turns, Stop(m)
    PROVE  (StopReachesTurn /\ NoStaleToken)'
<1>1. turns \in [Turns -> Turn] /\ senders \in [Turns -> Turns \cup {NoTurn}]
      /\ senders[m] \in Turns
  BY TypeParts DEF TurnsType, Stop
<1>2. /\ \A s \in Turns : /\ turns'[s].pc = turns[s].pc /\ turns'[s].msg = turns[s].msg
                          /\ turns'[s].fired = IF s = senders[m] THEN TRUE ELSE turns[s].fired
      /\ \A s \in Turns : senders'[s] = IF s = m THEN NoTurn ELSE senders[s]
  BY <1>1 DEF Stop, Turn
<1>3. StopReachesTurn'
  BY <1>2 DEF TokenInv, StopReachesTurn
<1>4. ASSUME NEW msg \in Turns, senders'[msg] # NoTurn
      PROVE  \E s \in Turns :
                turns'[s].msg = msg /\ turns'[s].pc \in {"spawned", "running", "ended"}
  <2>1. senders[msg] # NoTurn
    BY <1>2, <1>4
  <2>2. PICK s \in Turns :
          turns[s].msg = msg /\ turns[s].pc \in {"spawned", "running", "ended"}
    BY <2>1 DEF TokenInv, NoStaleToken
  <2>3. turns'[s].msg = msg /\ turns'[s].pc \in {"spawned", "running", "ended"}
    BY <2>2, <1>2
  <2>4. QED
    BY <2>3
<1>5. NoStaleToken'
  BY <1>4 DEF NoStaleToken
<1>6. QED
  BY <1>3, <1>5

LEMMA TokenPreserved ==
    TypeInv /\ LockInv /\ TokenInv /\ Host = "legacy" /\ [Next]_vars => TokenInv'
<1> SUFFICES ASSUME TypeInv, LockInv, TokenInv, Host = "legacy", [Next]_vars PROVE TokenInv'
  OBVIOUS
<1>1. CASE MessagesKept /\ Quiet
  BY <1>1, MessagesKeptStep, QuietTokens DEF TokenInv
<1>2. ASSUME NEW t \in Turns, SetupDone(t), Quiet PROVE TokenInv'
  BY <1>2, MessagesSetupStep, QuietTokens DEF TokenInv
<1>3. ASSUME NEW t \in Turns, MessagesKept, CreateToken(t) \/ Cleanup(t) \/ Stop(t)
      PROVE  TokenInv'
  BY <1>3, MessagesKeptStep, CreateTokens, CleanupTokens, StopTokens DEF TokenInv
<1>4. QED
  BY <1>1, <1>2, <1>3, TokenStep

LEMMA TokenInvariant == ASSUME Host = "legacy" PROVE Spec => []TokenInv
<1>1. (TypeInv /\ LockInv) /\ TokenInv /\ [Next]_vars => TokenInv'
  BY TokenPreserved
<1>2. QED
  BY <1>1, TokenInit, LockInvariant, PTL DEF Spec

\* Stop finds the turn it names: the id of a message its turn created reaches that
\* turn's own token until it is used, resumes of older messages notwithstanding.
THEOREM ChatStopReachesTurn ==
    ASSUME Host = "legacy" PROVE Spec => []StopReachesTurn
<1>1. TokenInv => StopReachesTurn
  BY DEF TokenInv
<1>2. QED
  BY <1>1, TokenInvariant, PTL

\* No token outlives the turns of its message, panics included.
THEOREM ChatNoStaleToken ==
    ASSUME Host = "legacy" PROVE Spec => []NoStaleToken
<1>1. TokenInv => NoStaleToken
  BY DEF TokenInv
<1>2. QED
  BY <1>1, TokenInvariant, PTL

-----------------------------------------------------------------------------
(* A reply that is announced is in the database, on the legacy host *)

\* The generator is past its finalize, or its terminal chunk is on the channel, or
\* the consumer has read it, only when the reply has been saved.
SavedInv ==
    \A t \in Turns :
        (turns[t].gen = "saved" \/ turns[t].tail = "complete" \/ turns[t].finish = "complete")
        => turns[t].saved

\* What a step may do to one turn's way to the terminal chunk.
TowardsEnd(t) ==
    /\ turns[t].saved => turns'[t].saved
    /\ turns'[t].gen = "saved" => turns[t].gen = "saved" \/ turns'[t].saved
    /\ turns'[t].tail = "complete" => turns[t].tail = "complete" \/ turns[t].gen = "saved"
    /\ turns'[t].finish = "complete" =>
          turns[t].finish = "complete" \/ turns[t].tail = "complete"

LEMMA SavedStep ==
    ASSUME TypeInv, Host = "legacy", [Next]_vars, NEW s \in Turns
    PROVE  TowardsEnd(s)
<1>1. turns \in [Turns -> Turn]
  BY TypeParts DEF TurnsType
<1>2. CASE UNCHANGED turns
  BY <1>2 DEF TowardsEnd
<1>3. CASE \E k \in Conns : (\E u \in Users : Open(k, u)) \/ Read(k) \/ Close(k) \/ Drained(k)
  BY <1>2, <1>3 DEF Open, Read, Close, Drained
<1>4. CASE \E p \in Puts :
             \/ \E k \in Conns, c \in Conversations \cup {NoConv} : PutCheck(p, k, c)
             \/ PutApply(p)
  BY <1>2, <1>4 DEF PutCheck, PutApply
<1>5. ASSUME NEW t \in Turns, (\E c \in Conversations : Begin(t, c)) \/ Stop(t)
      PROVE  TowardsEnd(s)
  <2>1. CASE \E c \in Conversations : Begin(t, c)
    BY <1>1, <2>1 DEF Begin, TowardsEnd, Turn
  <2>2. CASE Stop(t)
    BY <1>1, <2>2 DEF Stop, TowardsEnd, Turn
  <2>3. QED
    BY <1>5, <2>1, <2>2
<1>6. ASSUME NEW t \in Turns, SetupFails(t) \/ Dropped(t) \/ SetupDone(t) \/ CreateToken(t)
      PROVE  TowardsEnd(s)
  <2>1. CASE SetupFails(t) \/ Dropped(t) \/ CreateToken(t)
    BY <1>1, <2>1 DEF SetupFails, Dropped, CreateToken, Step, TowardsEnd, Turn
  <2>2. CASE SetupDone(t)
    BY <1>1, <2>2 DEF SetupDone, TowardsEnd, Turn
  <2>3. QED
    BY <1>6, <2>1, <2>2
<1>7. ASSUME NEW t \in Turns, GenStep(t)
      PROVE  TowardsEnd(s)
  <2>1. CASE GenChunk(t)
    BY <1>1, <2>1 DEF GenChunk, Turn, TowardsEnd
  <2>2. CASE GenSave(t)
    BY <1>1, <2>2 DEF GenSave, Turn, TowardsEnd
  <2>3. CASE GenEnd(t)
    BY <1>1, <2>3 DEF GenEnd, Turn, TowardsEnd
  <2>4. CASE GenFails(t)
    BY <1>1, <2>4 DEF GenFails, Turn, TowardsEnd
  <2>5. CASE GenDies(t)
    BY <1>1, <2>5 DEF GenDies, Turn, TowardsEnd
  <2>6. QED
    BY <1>7, <2>1, <2>2, <2>3, <2>4, <2>5 DEF GenStep
<1>8. ASSUME NEW t \in Turns, Start(t) \/ Content(t) \/ RawEvent(t) \/ Cleanup(t)
      PROVE  TowardsEnd(s)
  <2>1. CASE Start(t) \/ Cleanup(t)
    BY <1>1, <2>1 DEF Start, Cleanup, Step, Turn, TowardsEnd
  <2>2. CASE Content(t)
    BY <1>1, <2>2 DEF Content, Turn, TowardsEnd
  <2>3. CASE RawEvent(t)
    BY <1>1, <2>3 DEF RawEvent, Turn, TowardsEnd
  <2>4. QED
    BY <1>8, <2>1, <2>2, <2>3
<1>9. ASSUME NEW t \in Turns, ReadTail(t) \/ Cancel(t) \/ AgentEnds(t) \/ Panic(t)
      PROVE  TowardsEnd(s)
  <2>1. PICK finish : Terminal(t, finish) /\ (finish = "complete" => turns[t].tail = "complete")
    BY <1>9 DEF ReadTail, Cancel, AgentEnds, Panic
  <2>2. QED
    BY <1>1, <2>1 DEF Terminal, Turn, TowardsEnd
<1>10. QED
  BY <1>2, <1>3, <1>4, <1>5, <1>6, <1>7, <1>8, <1>9
     DEF Next, HandlerStep, TaskStep, vars

\* When sync:conversation announces a completed turn, its reply has been saved.
THEOREM ChatCompletedIsSaved ==
    ASSUME Host = "legacy" PROVE Spec => []CompletedIsSaved
<1>1. Init => SavedInv
  BY DEF Init, NewTurn, SavedInv
<1>2. TypeInv /\ SavedInv /\ [Next]_vars => SavedInv'
  BY SavedStep DEF SavedInv, TowardsEnd
<1>3. SavedInv => CompletedIsSaved
  BY DEF SavedInv, CompletedIsSaved
<1>4. QED
  BY <1>1, <1>2, <1>3, LockInvariant, PTL DEF Spec

-----------------------------------------------------------------------------
(* The caps, on both hosts *)

Opened(cs) == {k \in Conns : cs[k].stream = "open"}

\* Finitely many connections were ever opened; the cardinalities count them.
CapsInv == IsFiniteSet(Opened(conns)) /\ ListedAreOpen

LEMMA SubsetCardinality ==
    ASSUME NEW S, IsFiniteSet(S), NEW T \in SUBSET S
    PROVE  IsFiniteSet(T) /\ Cardinality(T) <= Cardinality(S)
           /\ Cardinality(T) \in Nat /\ Cardinality(S) \in Nat
BY FS_Subset, FS_CardinalityType

\* A step that opens nothing, and lists nothing new.
Shrinks(cs, ds) ==
    \A k \in Conns :
        /\ ds[k].stream = "open" => cs[k].stream = "open"
        /\ ds[k].listed => cs[k].listed /\ ds[k].user = cs[k].user /\ ds[k].stream = cs[k].stream

LEMMA ShrinksKeepsCaps ==
    ASSUME CapsInv, Shrinks(conns, conns')
    PROVE  CapsInv'
<1>1. IsFiniteSet(Opened(conns)) /\ Opened(conns') \in SUBSET Opened(conns)
  BY DEF CapsInv, Opened, Shrinks
<1>2. IsFiniteSet(Opened(conns'))
  BY <1>1, FS_Subset
<1>3. Listed(conns) \in SUBSET Opened(conns) /\ Listed(conns') \in SUBSET Listed(conns)
  BY DEF CapsInv, ListedAreOpen, Opened, Listed, Shrinks
<1>4. IsFiniteSet(Listed(conns)) /\ Cardinality(Listed(conns)) \in Nat
  BY <1>1, <1>3, SubsetCardinality
<1>5. Cardinality(Listed(conns')) <= GlobalCap
  <2>1. Cardinality(Listed(conns')) <= Cardinality(Listed(conns))
        /\ Cardinality(Listed(conns')) \in Nat
    BY <1>3, <1>4, SubsetCardinality
  <2>2. QED
    BY <2>1, <1>4, SizesAssumption DEF CapsInv, ListedAreOpen
<1>6. ASSUME NEW u \in Users PROVE Cardinality(ListedOf(conns', u)) <= UserCap
  <2>1. ListedOf(conns, u) \in SUBSET Listed(conns)
        /\ ListedOf(conns', u) \in SUBSET ListedOf(conns, u)
    BY DEF ListedOf, Listed, Shrinks
  <2>2. IsFiniteSet(ListedOf(conns, u)) /\ Cardinality(ListedOf(conns, u)) \in Nat
    BY <2>1, <1>4, SubsetCardinality
  <2>3. Cardinality(ListedOf(conns', u)) <= Cardinality(ListedOf(conns, u))
        /\ Cardinality(ListedOf(conns', u)) \in Nat
    BY <2>1, <2>2, SubsetCardinality
  <2>4. QED
    BY <2>2, <2>3, SizesAssumption DEF CapsInv, ListedAreOpen
<1>7. \A k \in Listed(conns') : conns'[k].stream = "open"
  BY DEF CapsInv, ListedAreOpen, Listed, Shrinks
<1>8. QED
  BY <1>2, <1>5, <1>6, <1>7 DEF CapsInv, ListedAreOpen, Listed, ListedOf, Opened

\* A step that does not refuse either: every step but register's.
Calm(cs, ds) ==
    /\ Shrinks(cs, ds)
    /\ \A k \in Conns : ds[k].stream = "refused" => cs[k].stream = "refused"

LEMMA SweptCalm ==
    ASSUME NEW cs \in [Conns -> Conn], NEW scope, NEW cap
    PROVE  Calm(cs, Swept(cs, scope, cap))
BY DEF Calm, Calm, Shrinks, Swept, Unlist, Conn

LEMMA DeliveredCalm ==
    ASSUME TypeInv, NEW c, NEW note
    PROVE  Calm(conns, Delivered(c, note))
<1>1. conns \in [Conns -> Conn]
  BY TypeParts
<1>2. ASSUME NEW k \in Conns
      PROVE  LET d == Delivered(c, note)[k] IN
             /\ d.stream = conns[k].stream /\ d.user = conns[k].user
             /\ d.listed => conns[k].listed
  BY <1>1 DEF Delivered, Unlist, Conn
<1>3. QED
  BY <1>2 DEF Calm, Shrinks

LEMMA SubscribeShrinks ==
    ASSUME NEW conn \in Conn, NEW c
    PROVE  LET d == Subscribe(conn, c) IN
           /\ d.stream = conn.stream /\ d.user = conn.user
           /\ d.listed => conn.listed
BY DEF Subscribe, Conn

LEMMA NotOpenIsCalm ==
    ASSUME TypeInv, [Next]_vars, ~ \E k \in Conns, u \in Users : Open(k, u)
    PROVE  Calm(conns, conns')
<1>1. conns \in [Conns -> Conn]
  BY TypeParts
<1>2. CASE UNCHANGED conns
  BY <1>2 DEF Calm, Shrinks
<1>3. ASSUME NEW k \in Conns, Read(k) \/ Close(k) \/ Drained(k)
      PROVE  Calm(conns, conns')
  <2>1. CASE Read(k)
    BY <1>1, <2>1 DEF Read, Calm, Shrinks, Conn
  <2>2. CASE Close(k)
    BY <1>1, <2>2 DEF Close, Unlist, Calm, Shrinks, Conn
  <2>3. CASE Drained(k)
    BY <1>1, <2>3 DEF Drained, Calm, Shrinks, Conn
  <2>4. QED
    BY <1>3, <2>1, <2>2, <2>3
<1>4. ASSUME NEW p \in Puts, NEW k \in Conns, NEW c \in Conversations \cup {NoConv},
             PutCheck(p, k, c)
      PROVE  Calm(conns, conns')
  BY <1>1, <1>4 DEF PutCheck, Calm, Shrinks, Conn
<1>5. ASSUME NEW p \in Puts, PutApply(p)
      PROVE  Calm(conns, conns')
  <2>1. PICK q \in Put : puts[p] = <<q>>
    BY <1>5, TypeParts DEF PutApply
  <2>2. puts[p][1] = q /\ q.conn \in Conns
    BY <2>1 DEF Put
  <2>3. CASE conns' = [conns EXCEPT ![q.conn] = Subscribe(conns[q.conn], q.conv)]
    <3>1. \A k \in Conns : conns'[k] =
            IF k = q.conn THEN Subscribe(conns[k], q.conv) ELSE conns[k]
      BY <1>1, <2>3
    <3>2. QED
      BY <1>1, <3>1, SubscribeShrinks DEF Calm, Shrinks
  <2>4. QED
    BY <1>2, <1>5, <2>2, <2>3 DEF PutApply
<1>6. ASSUME NEW t \in Turns, NEW no, Publish(t, no)
      PROVE  Calm(conns, conns')
  BY <1>6, DeliveredCalm DEF Publish
<1>7. ASSUME NEW t \in Turns, RawEvent(t)
      PROVE  Calm(conns, conns')
  BY <1>7, DeliveredCalm DEF RawEvent
<1>8. ASSUME NEW t \in Turns,
             ReadTail(t) \/ Cancel(t) \/ AgentEnds(t) \/ Panic(t)
      PROVE  Calm(conns, conns')
  <2>1. CASE \E finish \in Finishes : Terminal(t, finish)
    BY <1>6, <2>1 DEF Terminal
  <2>2. QED
    BY <1>2, <1>8, <2>1, EndIsTerminal
<1>9. ASSUME NEW t \in Turns, CreateToken(t) \/ Start(t) \/ Content(t)
      PROVE  Calm(conns, conns')
  BY <1>2, <1>6, <1>9 DEF CreateToken, Start, Content
<1>10. ASSUME NEW t \in Turns, GenStep(t)
       PROVE  UNCHANGED conns
  BY <1>10 DEF GenStep, GenChunk, GenSave, GenEnd, GenFails, GenDies
<1>11. ASSUME NEW t \in Turns,
              \/ \E c \in Conversations : Begin(t, c)
              \/ SetupFails(t) \/ SetupDone(t) \/ Dropped(t) \/ Cleanup(t) \/ Stop(t)
       PROVE  UNCHANGED conns
  BY <1>11 DEF Begin, SetupFails, SetupDone, Dropped, Cleanup, Stop
<1>12. QED
  BY <1>2, <1>3, <1>4, <1>5, <1>7, <1>8, <1>9, <1>10, <1>11
     DEF Next, HandlerStep, TaskStep, vars

\* What register finds after its sweeps: nothing has been listed or opened.
SweptAll == Swept(conns, Listed(conns), GlobalCap)
SweptOwn(u) == Swept(SweptAll, ListedOf(SweptAll, u), UserCap)

LEMMA SweepsAreCalm ==
    ASSUME TypeInv, NEW u \in Users
    PROVE  /\ SweptAll \in [Conns -> Conn] /\ SweptOwn(u) \in [Conns -> Conn]
           /\ Calm(conns, SweptAll) /\ Calm(SweptAll, SweptOwn(u))
           /\ Calm(conns, SweptOwn(u))
<1>1. SweptAll \in [Conns -> Conn] /\ Calm(conns, SweptAll)
  BY TypeParts, SweptType, SweptCalm DEF SweptAll
<1>2. SweptOwn(u) \in [Conns -> Conn] /\ Calm(SweptAll, SweptOwn(u))
  BY <1>1, SweptType, SweptCalm DEF SweptOwn
<1>3. QED
  BY <1>1, <1>2 DEF Calm, Shrinks

LEMMA OpenCases ==
    ASSUME NEW k \in Conns, NEW u \in Users, Open(k, u)
    PROVE  \/ /\ Cardinality(Listed(SweptAll)) >= GlobalCap
              /\ conns' = Refused(SweptAll, k, u)
           \/ /\ Cardinality(ListedOf(SweptOwn(u), u)) >= UserCap
              /\ conns' = Refused(SweptOwn(u), k, u)
           \/ /\ ~(Cardinality(Listed(SweptAll)) >= GlobalCap)
              /\ ~(Cardinality(ListedOf(SweptOwn(u), u)) >= UserCap)
              /\ conns' = Entered(SweptOwn(u), k, u)
BY DEF Open, SweptAll, SweptOwn

LEMMA RefusedShrinks ==
    ASSUME TypeInv, CapsInv, NEW k \in Conns, conns[k].stream = "unopened", NEW u \in Users,
           NEW cs \in [Conns -> Conn], Shrinks(conns, cs)
    PROVE  Shrinks(conns, Refused(cs, k, u))
<1>1. ~conns[k].listed
  BY DEF CapsInv, ListedAreOpen, Listed
<1>2. ~cs[k].listed
  BY <1>1 DEF Shrinks
<1>3. /\ Refused(cs, k, u)[k].stream = "refused" /\ Refused(cs, k, u)[k].listed = cs[k].listed
      /\ \A j \in Conns \ {k} : Refused(cs, k, u)[j] = cs[j]
  BY DEF Refused, Conn
<1>4. QED
  BY <1>2, <1>3 DEF Shrinks

LEMMA EnteredKeepsCaps ==
    ASSUME TypeInv, CapsInv, NEW k \in Conns, conns[k].stream = "unopened", NEW u \in Users,
           ~(Cardinality(Listed(SweptAll)) >= GlobalCap),
           ~(Cardinality(ListedOf(SweptOwn(u), u)) >= UserCap),
           conns' = Entered(SweptOwn(u), k, u)
    PROVE  CapsInv'
<1> DEFINE cs == SweptOwn(u)
<1>1. /\ cs \in [Conns -> Conn] /\ SweptAll \in [Conns -> Conn]
      /\ Shrinks(SweptAll, cs) /\ Shrinks(conns, cs) /\ Shrinks(conns, SweptAll)
  BY SweepsAreCalm DEF Calm
<1>2. /\ conns'[k].stream = "open" /\ conns'[k].listed /\ conns'[k].user = u
      /\ \A j \in Conns \ {k} : conns'[j] = cs[j]
  BY <1>1 DEF Entered, Conn
<1>3. ~conns[k].listed /\ ~cs[k].listed
  BY <1>1 DEF CapsInv, ListedAreOpen, Listed, Shrinks
<1> HIDE DEF cs
<1>4. /\ Opened(conns') \in SUBSET (Opened(conns) \cup {k})
      /\ Listed(conns') = Listed(cs) \cup {k}
      /\ ListedOf(conns', u) = ListedOf(cs, u) \cup {k}
      /\ \A v \in Users \ {u} : ListedOf(conns', v) = ListedOf(cs, v)
  BY <1>1, <1>2, <1>3 DEF Opened, Listed, ListedOf, Shrinks
<1>5. /\ Listed(cs) \in SUBSET Listed(SweptAll)
      /\ Listed(SweptAll) \in SUBSET Listed(conns) /\ Listed(conns) \in SUBSET Opened(conns)
      /\ \A v \in Users : /\ ListedOf(cs, v) \in SUBSET ListedOf(conns, v)
                          /\ ListedOf(conns, v) \in SUBSET Listed(conns)
                          /\ ListedOf(cs, v) \in SUBSET Listed(cs)
  BY <1>1 DEF CapsInv, ListedAreOpen, Opened, Listed, ListedOf, Shrinks
<1>6. IsFiniteSet(Opened(conns)) /\ IsFiniteSet(Listed(conns)) /\ IsFiniteSet(Listed(SweptAll))
      /\ IsFiniteSet(Listed(cs))
  BY <1>5, FS_Subset DEF CapsInv
<1>7. IsFiniteSet(Opened(conns'))
  BY <1>4, <1>6, FS_AddElement, FS_Subset
<1>8. Cardinality(Listed(conns')) <= GlobalCap
  <2>1. Cardinality(Listed(cs)) <= Cardinality(Listed(SweptAll))
        /\ Cardinality(Listed(cs)) \in Nat /\ Cardinality(Listed(SweptAll)) \in Nat
    BY <1>5, <1>6, SubsetCardinality
  <2>2. k \notin Listed(cs)
    BY <1>3 DEF Listed
  <2>3. Cardinality(Listed(conns')) = Cardinality(Listed(cs)) + 1
    BY <1>4, <1>6, <2>2, FS_AddElement
  <2>4. QED
    BY <2>1, <2>3, SizesAssumption
<1>9. ASSUME NEW v \in Users PROVE Cardinality(ListedOf(conns', v)) <= UserCap
  <2>1. IsFiniteSet(ListedOf(cs, v)) /\ IsFiniteSet(ListedOf(conns, v))
    BY <1>5, <1>6, FS_Subset
  <2>2. CASE v = u
    <3>1. k \notin ListedOf(cs, v)
      BY <1>3 DEF Listed, ListedOf
    <3>2. Cardinality(ListedOf(conns', v)) = Cardinality(ListedOf(cs, v)) + 1
      BY <1>4, <2>1, <2>2, <3>1, FS_AddElement
    <3>3. Cardinality(ListedOf(cs, v)) \in Nat
      BY <2>1, FS_CardinalityType
    <3>4. QED
      BY <2>2, <3>2, <3>3, SizesAssumption DEF cs
  <2>3. CASE v # u
    <3>1. Cardinality(ListedOf(cs, v)) <= Cardinality(ListedOf(conns, v))
          /\ Cardinality(ListedOf(cs, v)) \in Nat /\ Cardinality(ListedOf(conns, v)) \in Nat
      BY <1>5, <2>1, SubsetCardinality
    <3>2. QED
      BY <1>4, <2>3, <3>1, SizesAssumption DEF CapsInv, ListedAreOpen
  <2>4. QED
    BY <2>2, <2>3
<1>10. \A j \in Listed(conns') : conns'[j].stream = "open"
  BY <1>1, <1>2, <1>4 DEF CapsInv, ListedAreOpen, Listed, Shrinks
<1>11. QED
  BY <1>7, <1>8, <1>9, <1>10 DEF CapsInv, ListedAreOpen, Listed, ListedOf, Opened

LEMMA CapsInit == Init => CapsInv
<1> SUFFICES ASSUME Init PROVE CapsInv
  OBVIOUS
<1>1. Opened(conns) = {} /\ Listed(conns) = {}
  BY DEF Init, Opened, Listed
<1>2. \A u \in Users : ListedOf(conns, u) = {}
  BY <1>1 DEF ListedOf
<1>3. QED
  BY <1>1, <1>2, FS_EmptySet, SizesAssumption DEF CapsInv, ListedAreOpen

LEMMA CapsPreserved == TypeInv /\ CapsInv /\ [Next]_vars => CapsInv'
<1> SUFFICES ASSUME TypeInv, CapsInv, [Next]_vars PROVE CapsInv'
  OBVIOUS
<1>1. CASE ~ \E k \in Conns, u \in Users : Open(k, u)
  BY <1>1, NotOpenIsCalm, ShrinksKeepsCaps DEF Calm
<1>2. ASSUME NEW k \in Conns, NEW u \in Users, Open(k, u)
      PROVE  CapsInv'
  <2>1. conns[k].stream = "unopened"
    BY <1>2 DEF Open
  <2>2. CASE conns' = Refused(SweptAll, k, u) \/ conns' = Refused(SweptOwn(u), k, u)
    BY <2>1, <2>2, SweepsAreCalm, RefusedShrinks, ShrinksKeepsCaps DEF Calm
  <2>3. QED
    BY <1>2, <2>1, <2>2, OpenCases, EnteredKeepsCaps
<1>3. QED
  BY <1>1, <1>2

LEMMA CapsInvariant == Spec => [](TypeInv /\ CapsInv)
<1>1. Init => TypeInv /\ CapsInv
  BY TypeInit, CapsInit
<1>2. (TypeInv /\ CapsInv) /\ [Next]_vars => (TypeInv /\ CapsInv)'
  BY TypeStep, CapsPreserved
<1>3. QED
  BY <1>1, <1>2, PTL DEF Spec

\* What is charged against the caps has a stream behind it, and is within them.
THEOREM ChatListedAreOpen == Spec => []ListedAreOpen
<1>1. CapsInv => ListedAreOpen
  BY DEF CapsInv
<1>2. QED
  BY <1>1, CapsInvariant, PTL

\* A connection is refused by its own Open alone.
LEMMA RefusedByOpen ==
    ASSUME TypeInv, [Next]_vars, NEW k \in Conns,
           conns[k].stream = "unopened", conns'[k].stream = "refused"
    PROVE  \E u \in Users : Open(k, u)
<1>1. PICK j \in Conns, u \in Users : Open(j, u)
  BY NotOpenIsCalm DEF Calm
<1>2. ASSUME NEW cs \in [Conns -> Conn], Calm(conns, cs), j # k,
             conns' = Refused(cs, j, u) \/ conns' = Entered(cs, j, u)
      PROVE  FALSE
  <2>1. conns'[k] = cs[k]
    BY <1>2 DEF Refused, Entered
  <2>2. QED
    BY <1>2, <2>1 DEF Calm
<1>3. j = k
  BY <1>1, <1>2, OpenCases, SweepsAreCalm
<1>4. QED
  BY <1>1, <1>3

LEMMA RefusalIsFull ==
    ASSUME TypeInv, CapsInv, NEW k \in Conns, NEW u \in Users, Open(k, u),
           conns'[k].stream = "refused"
    PROVE  \/ Cardinality(Opened(conns)) >= GlobalCap
           \/ /\ conns'[k].user = u
              /\ Cardinality({j \in Opened(conns) : conns[j].user = u}) >= UserCap
<1> DEFINE own == {j \in Opened(conns) : conns[j].user = u}
<1>1. IsFiniteSet(Opened(conns)) /\ IsFiniteSet(own)
  BY FS_Subset DEF CapsInv
<1>2. /\ SweptAll \in [Conns -> Conn] /\ SweptOwn(u) \in [Conns -> Conn]
      /\ Shrinks(conns, SweptAll) /\ Shrinks(conns, SweptOwn(u))
  BY SweepsAreCalm DEF Calm
<1>3. /\ Listed(SweptAll) \in SUBSET Opened(conns)
      /\ ListedOf(SweptOwn(u), u) \in SUBSET own
  BY <1>2 DEF CapsInv, ListedAreOpen, Listed, ListedOf, Opened, Shrinks
<1>4. CASE Cardinality(Listed(SweptAll)) >= GlobalCap
  <2>1. Cardinality(Listed(SweptAll)) <= Cardinality(Opened(conns))
        /\ Cardinality(Listed(SweptAll)) \in Nat /\ Cardinality(Opened(conns)) \in Nat
    BY <1>1, <1>3, SubsetCardinality
  <2>2. QED
    BY <1>4, <2>1, SizesAssumption
<1>5. CASE /\ Cardinality(ListedOf(SweptOwn(u), u)) >= UserCap
           /\ conns' = Refused(SweptOwn(u), k, u)
  <2>1. conns'[k].user = u
    BY <1>2, <1>5 DEF Refused, Conn
  <2>2. Cardinality(ListedOf(SweptOwn(u), u)) <= Cardinality(own)
        /\ Cardinality(ListedOf(SweptOwn(u), u)) \in Nat /\ Cardinality(own) \in Nat
    BY <1>1, <1>3, SubsetCardinality
  <2>3. Cardinality(own) >= UserCap
    BY <1>5, <2>2, SizesAssumption
  <2>4. QED
    BY <2>1, <2>3
<1>6. conns' # Entered(SweptOwn(u), k, u)
  BY <1>2 DEF Entered, Conn
<1>7. QED
  BY <1>4, <1>5, <1>6, OpenCases

\* A 429 is answered only when open streams use the caps up.
THEOREM ChatRefusedOnlyWhenFull == Spec => RefusedOnlyWhenFull
<1> DEFINE Full(k) ==
        conns[k].stream = "unopened" /\ conns'[k].stream = "refused" =>
            LET open == {j \in Conns : conns[j].stream = "open"}
                own  == {j \in open : conns[j].user = conns'[k].user}
            IN  Cardinality(open) >= GlobalCap \/ Cardinality(own) >= UserCap
<1>1. ASSUME TypeInv, CapsInv, [Next]_vars, NEW k \in Conns,
             conns[k].stream = "unopened", conns'[k].stream = "refused"
      PROVE  Full(k)
  <2>1. PICK u \in Users : Open(k, u)
    BY <1>1, RefusedByOpen
  <2>2. QED
    BY <1>1, <2>1, RefusalIsFull DEF Opened
<1>2. (TypeInv /\ CapsInv) /\ [Next]_vars => [\A k \in Conns : Full(k)]_vars
  BY <1>1
<1>3. QED
  BY <1>2, CapsInvariant, PTL DEF Spec, RefusedOnlyWhenFull

-----------------------------------------------------------------------------
(* A connection that joins in mid-turn has caught up, on the legacy host. *)

Numbered(t, no) == [turn |-> t, no |-> no]

\* The buffer b of turn t, which has published n frames of content: started, and
\* the last of the content, in order.
Holds(b, t, n) ==
    /\ b.started = <<Numbered(t, 0)>>
    /\ Len(b.frames) \in Retained(n)..n
    /\ \A i \in 1..Len(b.frames) : b.frames[i] = Numbered(t, n - (Len(b.frames) - i))

\* s, what a connection has seen, up to the m-th frame, which is started of t, and
\* from there: all the content since a frame that the buffer b is not ahead of.
JoinedAt(s, b, t, n, m) ==
    /\ s[m] = Numbered(t, 0)
    /\ \A i \in 1..(m - 1) : s[i].turn # t
    /\ \A i \in (m + 1)..Len(s) : s[i] = Numbered(t, n - (Len(s) - i))
    /\ Len(s) - m \in Len(b.frames)..n

Joined(s, b, t, n) == \E m \in 1..Len(s) : JoinedAt(s, b, t, n, m)

Unseen(s, t) == \A i \in 1..Len(s) : s[i].turn # t

LEMMA NumberedIs ==
    ASSUME NEW t \in Turns, NEW no \in 0..End
    PROVE  Numbered(t, no) \in Frame /\ Numbered(t, no).turn = t /\ Numbered(t, no).no = no
BY DEF Numbered, Frame

\* What the queue takes.
LEMMA Appended ==
    ASSUME NEW s \in Seq(Frame), NEW f \in Frame
    PROVE  /\ s \o <<f>> \in Seq(Frame) /\ Len(s \o <<f>>) = Len(s) + 1
           /\ \A i \in 1..Len(s) : (s \o <<f>>)[i] = s[i]
           /\ (s \o <<f>>)[Len(s) + 1] = f
OBVIOUS

\* What the buffer keeps of a content frame.
LEMMA Pushed ==
    ASSUME NEW b, GoodBuffer(b), NEW f \in Frame, f.no # 0
    PROVE  /\ Push(b, f).started = b.started
           /\ Push(b, f).frames \in Seq(Frame)
           /\ Len(Push(b, f).frames) > 0
           /\ \/ /\ Len(Push(b, f).frames) = Len(b.frames) /\ Len(b.frames) = BufferCap
                 /\ \A i \in 1..(Len(b.frames) - 1) : Push(b, f).frames[i] = b.frames[i + 1]
              \/ /\ Len(Push(b, f).frames) = Len(b.frames) + 1
                 /\ \A i \in 1..Len(b.frames) : Push(b, f).frames[i] = b.frames[i]
           /\ Push(b, f).frames[Len(Push(b, f).frames)] = f
<1>1. b.frames \in Seq(Frame) /\ b \in Buffer /\ BufferCap \in Nat \ {0} /\ Len(b.frames) \in Nat
  BY SizesAssumption DEF GoodBuffer, Buffer
<1> DEFINE fs == IF Len(b.frames) = BufferCap THEN Append(Tail(b.frames), f) ELSE Append(b.frames, f)
<1>2. Push(b, f) = [b EXCEPT !.frames = fs]
  BY DEF Push
<1>3. Push(b, f).started = b.started /\ Push(b, f).frames = fs
  BY <1>1, <1>2 DEF Buffer
<1>4. CASE Len(b.frames) = BufferCap
  <2>1. fs = Append(Tail(b.frames), f)
    BY <1>4
  <2>2. /\ Tail(b.frames) \in Seq(Frame) /\ Len(Tail(b.frames)) = Len(b.frames) - 1
        /\ \A i \in 1..(Len(b.frames) - 1) : Tail(b.frames)[i] = b.frames[i + 1]
    BY <1>1, <1>4
  <2>3. /\ fs \in Seq(Frame) /\ Len(fs) = Len(b.frames)
        /\ \A i \in 1..(Len(b.frames) - 1) : fs[i] = Tail(b.frames)[i]
        /\ fs[Len(b.frames)] = f
    BY <1>1, <2>1, <2>2
  <2> HIDE DEF fs
  <2>4. QED
    BY <1>1, <1>3, <1>4, <2>2, <2>3
<1>5. CASE Len(b.frames) # BufferCap
  <2>1. fs = Append(b.frames, f)
    BY <1>5
  <2>2. /\ fs \in Seq(Frame) /\ Len(fs) = Len(b.frames) + 1
        /\ \A i \in 1..Len(b.frames) : fs[i] = b.frames[i]
        /\ fs[Len(b.frames) + 1] = f
    BY <1>1, <2>1
  <2> HIDE DEF fs
  <2>3. QED
    BY <1>1, <1>3, <2>2
<1>6. QED
  BY <1>4, <1>5

\* The next content frame, in the buffer ...
LEMMA HoldsNext ==
    ASSUME NEW b, GoodBuffer(b), NEW t \in Turns, NEW n \in Nat, n + 1 \in 0..End, Holds(b, t, n)
    PROVE  /\ Holds(Push(b, Numbered(t, n + 1)), t, n + 1)
           /\ Len(Push(b, Numbered(t, n + 1)).frames) <= Len(b.frames) + 1
<1>1. PICK f : f = Numbered(t, n + 1)
  OBVIOUS
<1>2. f \in Frame /\ f.no # 0
  BY <1>1, NumberedIs
<1>3. PICK d : d = Push(b, f)
  OBVIOUS
<1>4. Len(b.frames) \in Nat /\ b.frames \in Seq(Frame)
  BY DEF GoodBuffer, Buffer
<1>5. /\ d.started = b.started /\ d.frames \in Seq(Frame) /\ Len(d.frames) > 0
      /\ \/ /\ Len(d.frames) = Len(b.frames) /\ Len(b.frames) = BufferCap
            /\ \A i \in 1..(Len(b.frames) - 1) : d.frames[i] = b.frames[i + 1]
         \/ /\ Len(d.frames) = Len(b.frames) + 1
            /\ \A i \in 1..Len(b.frames) : d.frames[i] = b.frames[i]
      /\ d.frames[Len(d.frames)] = f
  BY <1>2, <1>3, Pushed
<1>6. \A i \in 1..Len(d.frames) : d.frames[i] = Numbered(t, n + 1 - (Len(d.frames) - i))
  <2> SUFFICES ASSUME NEW i \in 1..Len(d.frames)
               PROVE  d.frames[i] = Numbered(t, n + 1 - (Len(d.frames) - i))
    OBVIOUS
  <2>1. CASE i = Len(d.frames)
    <3>1. n + 1 - (Len(d.frames) - i) = n + 1
      BY <2>1, <1>5
    <3>2. QED
      BY <1>1, <1>5, <2>1, <3>1
  <2>2. CASE i # Len(d.frames) /\ Len(d.frames) = Len(b.frames)
    <3>1. i + 1 \in 1..Len(b.frames) /\ i \in 1..(Len(b.frames) - 1)
      BY <1>4, <2>2
    <3>2. d.frames[i] = b.frames[i + 1]
      BY <1>4, <1>5, <2>2, <3>1
    <3>3. b.frames[i + 1] = Numbered(t, n - (Len(b.frames) - (i + 1)))
      BY <3>1 DEF Holds
    <3>4. n - (Len(b.frames) - (i + 1)) = n + 1 - (Len(d.frames) - i)
      BY <1>4, <2>2
    <3>5. QED
      BY <3>2, <3>3, <3>4
  <2>3. CASE i # Len(d.frames) /\ Len(d.frames) = Len(b.frames) + 1
    <3>1. i \in 1..Len(b.frames)
      BY <1>4, <2>3
    <3>2. d.frames[i] = b.frames[i]
      BY <1>4, <1>5, <2>3, <3>1
    <3>3. b.frames[i] = Numbered(t, n - (Len(b.frames) - i))
      BY <3>1 DEF Holds
    <3>4. n - (Len(b.frames) - i) = n + 1 - (Len(d.frames) - i)
      BY <1>4, <2>3
    <3>5. QED
      BY <3>2, <3>3, <3>4
  <2>4. QED
    BY <1>5, <2>1, <2>2, <2>3
<1>7. Holds(d, t, n + 1)
  <2>1. PICK k \in Nat : k = n + 1
    OBVIOUS
  <2>2. d.started = <<Numbered(t, 0)>> /\ Len(d.frames) \in Retained(k)..k
    <3>1. Len(b.frames) \in Retained(n)..n /\ d.started = <<Numbered(t, 0)>>
      BY <1>5 DEF Holds
    <3>2. Len(d.frames) \in Retained(k)..k
      BY <1>4, <1>5, <2>1, <3>1, SizesAssumption DEF Retained
    <3>3. QED
      BY <3>1, <3>2
  <2>3. ASSUME NEW i \in 1..Len(d.frames)
        PROVE  d.frames[i] = Numbered(t, k - (Len(d.frames) - i))
    <3>1. d.frames[i] = Numbered(t, n + 1 - (Len(d.frames) - i))
      BY <1>6
    <3>2. n + 1 - (Len(d.frames) - i) = k - (Len(d.frames) - i)
      BY <2>1
    <3>3. QED
      BY <3>1, <3>2
  <2>4. Holds(d, t, k)
    BY <2>2, <2>3 DEF Holds
  <2>5. QED
    BY <2>1, <2>4
<1>8. Len(d.frames) <= Len(b.frames) + 1
  BY <1>4, <1>5
<1>9. QED
  BY <1>1, <1>3, <1>7, <1>8

\* ... and at a connection.
LEMMA JoinedNext ==
    ASSUME NEW s \in Seq(Frame), NEW b, NEW d, NEW t \in Turns, NEW n \in Nat, n + 1 \in 0..End,
           Len(b.frames) \in Nat, Len(d.frames) \in Nat, Len(d.frames) <= Len(b.frames) + 1,
           Joined(s, b, t, n)
    PROVE  Joined(s \o <<Numbered(t, n + 1)>>, d, t, n + 1)
<1>1. PICK f : f = Numbered(t, n + 1)
  OBVIOUS
<1>2. PICK r : r = s \o <<f>>
  OBVIOUS
<1>3. /\ r \in Seq(Frame) /\ Len(r) = Len(s) + 1 /\ Len(s) \in Nat
      /\ \A i \in 1..Len(s) : r[i] = s[i]
      /\ r[Len(s) + 1] = f
  BY <1>1, <1>2, NumberedIs, Appended
<1>4. PICK m \in 1..Len(s) : JoinedAt(s, b, t, n, m)
  BY DEF Joined
<1>5. r[m] = Numbered(t, 0) /\ \A i \in 1..(m - 1) : r[i].turn # t
  <2>1. s[m] = Numbered(t, 0) /\ \A i \in 1..(m - 1) : s[i].turn # t
    BY <1>4 DEF JoinedAt
  <2>2. \A i \in 1..m : i \in 1..Len(s)
    BY <1>3
  <2>3. \A i \in 1..m : r[i] = s[i]
    BY <1>3, <2>2
  <2>4. \A i \in 1..(m - 1) : i \in 1..m
    BY <1>3
  <2>5. r[m] = s[m]
    BY <1>3
  <2>6. QED
    BY <2>1, <2>3, <2>4, <2>5
<1>6. ASSUME NEW i \in (m + 1)..Len(r) PROVE r[i] = Numbered(t, n + 1 - (Len(r) - i))
  <2>1. CASE i = Len(s) + 1
    <3>1. n + 1 - (Len(r) - i) = n + 1
      BY <1>3, <2>1
    <3>2. QED
      BY <1>1, <1>3, <2>1, <3>1
  <2>2. CASE i # Len(s) + 1
    <3>1. i \in (m + 1)..Len(s) /\ i \in 1..Len(s)
      BY <1>3, <2>2
    <3>2. r[i] = Numbered(t, n - (Len(s) - i))
      BY <1>3, <1>4, <3>1 DEF JoinedAt
    <3>3. n - (Len(s) - i) = n + 1 - (Len(r) - i)
      BY <1>3, <3>1
    <3>4. QED
      BY <3>2, <3>3
  <2>3. QED
    BY <2>1, <2>2
<1>7. Len(r) - m \in Len(d.frames)..(n + 1)
  BY <1>3, <1>4 DEF JoinedAt
<1>8. m \in 1..Len(r)
  BY <1>3
<1>9. JoinedAt(r, d, t, n + 1, m)
  BY <1>5, <1>6, <1>7 DEF JoinedAt
<1>10. QED
  BY <1>1, <1>2, <1>8, <1>9 DEF Joined

\* The started frame, which is the first of its turn.
LEMMA JoinedFirst ==
    ASSUME NEW s \in Seq(Frame), NEW t \in Turns, NEW d, d.frames = <<>>, Unseen(s, t)
    PROVE  Joined(s \o <<Numbered(t, 0)>>, d, t, 0)
<1>1. PICK f : f = Numbered(t, 0)
  OBVIOUS
<1>2. PICK r : r = s \o <<f>>
  OBVIOUS
<1>3. 0 \in 0..End
  BY EndIsFrame
<1>4. /\ Len(r) = Len(s) + 1 /\ Len(s) \in Nat
      /\ \A i \in 1..Len(s) : r[i] = s[i]
      /\ r[Len(s) + 1] = f
  BY <1>1, <1>2, <1>3, NumberedIs, Appended
<1>5. JoinedAt(r, d, t, 0, Len(r))
  BY <1>1, <1>4 DEF JoinedAt, Unseen
<1>6. Len(r) \in 1..Len(r)
  BY <1>4
<1>7. QED
  BY <1>1, <1>2, <1>5, <1>6 DEF Joined

\* The replay of the buffer.
LEMMA JoinedReplay ==
    ASSUME NEW b, GoodBuffer(b), NEW t \in Turns, NEW n \in Nat, Holds(b, t, n)
    PROVE  Joined(Replay(b), b, t, n) /\ Replay(b) \in Seq(Frame)
           /\ \A i \in 1..Len(Replay(b)) : Replay(b)[i].turn = t
<1>1. b.frames \in Seq(Frame) /\ Len(b.frames) \in Nat
  BY DEF GoodBuffer, Buffer
<1>2. PICK f : f = Numbered(t, 0)
  OBVIOUS
<1>3. f \in Frame /\ f.turn = t
  BY <1>2, EndIsFrame, NumberedIs
<1>4. PICK r : r = <<f>> \o b.frames
  OBVIOUS
<1>5. /\ r \in Seq(Frame) /\ Len(r) = Len(b.frames) + 1 /\ r[1] = f
      /\ \A i \in 1..Len(b.frames) : r[i + 1] = b.frames[i]
  BY <1>1, <1>3, <1>4
<1>6. ASSUME NEW i \in 2..Len(r) PROVE r[i] = Numbered(t, n - (Len(r) - i))
  <2>1. i - 1 \in 1..Len(b.frames)
    BY <1>1, <1>5
  <2>2. r[i] = b.frames[i - 1]
    <3>1. r[(i - 1) + 1] = b.frames[i - 1]
      BY <1>5, <2>1
    <3>2. QED
      BY <3>1
  <2>3. b.frames[i - 1] = Numbered(t, n - (Len(b.frames) - (i - 1)))
    BY <2>1 DEF Holds
  <2>4. n - (Len(b.frames) - (i - 1)) = n - (Len(r) - i)
    BY <1>1, <1>5
  <2>5. QED
    BY <2>2, <2>3, <2>4
<1>7. JoinedAt(r, b, t, n, 1)
  <2>1. PICK m \in Nat : m = 1
    OBVIOUS
  <2>2. \A i \in 1..(m - 1) : r[i].turn # t
    BY <2>1
  <2>3. \A i \in (m + 1)..Len(r) : r[i] = Numbered(t, n - (Len(r) - i))
    BY <1>6, <2>1
  <2>4. r[m] = Numbered(t, 0) /\ Len(r) - m \in Len(b.frames)..n
    BY <1>1, <1>2, <1>5, <2>1 DEF Holds
  <2>5. JoinedAt(r, b, t, n, m)
    BY <2>2, <2>3, <2>4 DEF JoinedAt
  <2>6. QED
    BY <2>1, <2>5
<1>8. Replay(b) = r
  BY <1>2, <1>4 DEF Replay, Holds
<1>9. \A i \in 1..Len(r) : r[i].turn = t
  <2>1. ASSUME NEW i \in 1..Len(r), i # 1 PROVE r[i].turn = t
    <3>1. i \in 2..Len(r)
      BY <1>1, <1>5, <2>1
    <3>2. r[i] = Numbered(t, n - (Len(r) - i))
      BY <1>6, <3>1
    <3>3. QED
      BY <3>2 DEF Numbered
  <2>2. QED
    BY <1>3, <1>5, <2>1
<1>10. 1 \in 1..Len(r)
  BY <1>1, <1>5
<1>11. QED
  BY <1>5, <1>7, <1>8, <1>9, <1>10 DEF Joined

\* A connection is scoped to a conversation of its own user, and so is what a PUT
\* in flight asks for: set_subscription does not look at the owner again.
OwnInv ==
    /\ \A k \in Conns : conns[k].active # NoConv =>
          conns[k].stream # "unopened" /\ conns[k].user = Owner(conns[k].active)
    /\ \A p \in Puts, q \in Put : puts[p] = <<q>> =>
          /\ conns[q.conn].stream # "unopened"
          /\ q.conv # NoConv => conns[q.conn].user = Owner(q.conv)

\* No change of a connection's scope or user.
Kept(c, d) ==
    /\ d.active = c.active
    /\ c.stream # "unopened" => d.stream # "unopened" /\ d.user = c.user

ConnsKept == \A k \in Conns : Kept(conns[k], conns'[k])

\* What a delivery does at a connection of the conversation, and elsewhere.
LEMMA DeliveredAt ==
    ASSUME TypeInv, NEW c, NEW note, NEW k \in Conns, NEW d, d = Delivered(c, note)[k]
    PROVE  /\ d.stream = conns[k].stream /\ d.user = conns[k].user /\ d.active = conns[k].active
           /\ d.listed => conns[k].listed
           /\ d.seen = conns[k].seen \/ d.seen = conns[k].seen \o note
           /\ conns[k].active # c => d.seen = conns[k].seen
           /\ d.listed /\ conns[k].active = c /\ conns[k].user = Owner(c)
                => d.seen = conns[k].seen \o note
<1>1. conns[k] \in Conn
  BY TypeParts
<1>2. \/ /\ ~(conns[k].listed /\ conns[k].user = Owner(c) /\ conns[k].active = c)
         /\ d = conns[k]
      \/ /\ conns[k].active = c /\ d = Unlist(conns[k])
      \/ /\ conns[k].listed /\ conns[k].active = c
         /\ d = [conns[k] EXCEPT !.unread = @ + 1, !.seen = @ \o note]
  BY DEF Delivered, ListedOf, Listed
<1>3. QED
  BY ZenonT(30), <1>1, <1>2 DEF Unlist, Conn

LEMMA DeliveredKept ==
    ASSUME TypeInv, NEW c, NEW note, conns' = Delivered(c, note)
    PROVE  ConnsKept
BY DeliveredAt DEF ConnsKept, Kept

LEMMA SweptAt ==
    ASSUME NEW cs \in [Conns -> Conn], NEW scope, NEW cap, NEW k \in Conns
    PROVE  LET d == Swept(cs, scope, cap)[k] IN
           /\ d.stream = cs[k].stream /\ d.user = cs[k].user /\ d.active = cs[k].active
           /\ d.seen = cs[k].seen /\ (d.listed => cs[k].listed)
BY DEF Swept, Unlist, Conn

\* register changes no other connection but for taking dead ones off the list.
LEMMA OpenAt ==
    ASSUME TypeInv, NEW k \in Conns, NEW u \in Users, Open(k, u), NEW j \in Conns
    PROVE  /\ conns'[j].active = conns[j].active /\ conns'[j].seen = conns[j].seen
           /\ j # k => /\ conns'[j].stream = conns[j].stream /\ conns'[j].user = conns[j].user
                       /\ conns'[j].listed => conns[j].listed
<1>1. conns \in [Conns -> Conn] /\ SweptAll \in [Conns -> Conn] /\ SweptOwn(u) \in [Conns -> Conn]
  BY TypeParts, SweepsAreCalm
<1>2. /\ SweptAll[j].stream = conns[j].stream /\ SweptAll[j].user = conns[j].user
      /\ SweptAll[j].active = conns[j].active /\ SweptAll[j].seen = conns[j].seen
      /\ SweptAll[j].listed => conns[j].listed
  BY <1>1, SweptAt DEF SweptAll
<1>3. /\ SweptOwn(u)[j].stream = conns[j].stream /\ SweptOwn(u)[j].user = conns[j].user
      /\ SweptOwn(u)[j].active = conns[j].active /\ SweptOwn(u)[j].seen = conns[j].seen
      /\ SweptOwn(u)[j].listed => conns[j].listed
  BY <1>1, <1>2, SweptAt DEF SweptOwn
<1>4. CASE conns' = Refused(SweptAll, k, u)
  BY <1>1, <1>2, <1>4 DEF Refused, Conn
<1>5. CASE conns' = Refused(SweptOwn(u), k, u)
  BY <1>1, <1>3, <1>5 DEF Refused, Conn
<1>6. CASE conns' = Entered(SweptOwn(u), k, u)
  BY <1>1, <1>3, <1>6 DEF Entered, Conn
<1>7. QED
  BY <1>4, <1>5, <1>6, OpenCases

\* What a PUT leaves of a connection, with the replay it is given.
LEMMA SubscribeAt ==
    ASSUME TypeInv, NEW conn \in Conn, NEW c \in Conversations \cup {NoConv}, NEW r,
           r = IF c \in DOMAIN slots THEN Replay(slots[c]) ELSE <<>>,
           NEW d, d = Subscribe(conn, c)
    PROVE  /\ d.active = c /\ d.stream = conn.stream /\ d.user = conn.user
           /\ r \in Seq(Frame)
           /\ d.listed => d.seen = r /\ conn.listed
           /\ \A i \in 1..Len(d.seen) : i \in 1..Len(r) /\ d.seen[i] = r[i]
<1> DEFINE sent == [conn EXCEPT !.active = c]
           room == QueueCap - conn.unread
<1>1. r \in Seq(Frame)
  BY ConcatProperties, EmptySeq, TypeParts DEF SlotsType, GoodBuffer, Buffer, Replay
<1>2. sent \in Conn /\ sent.active = c /\ sent.stream = conn.stream /\ sent.user = conn.user
      /\ sent.listed = conn.listed
  BY DEF Conn
<1>3. room \in 0..QueueCap /\ Len(r) \in Nat
  BY <1>1, SizesAssumption DEF Conn
<1>4. d = IF Len(r) <= room
          THEN [sent EXCEPT !.unread = sent.unread + Len(r), !.seen = r]
          ELSE [sent EXCEPT !.unread = QueueCap, !.seen = SubSeq(r, 1, room), !.listed = FALSE]
  BY DEF Subscribe
<1> HIDE DEF sent, room
<1>5. CASE Len(r) <= room
  <2>1. d.active = c /\ d.stream = conn.stream /\ d.user = conn.user /\ d.seen = r
        /\ (d.listed => conn.listed)
    BY <1>2, <1>4, <1>5 DEF Conn
  <2>2. QED
    BY <1>1, <2>1
<1>6. CASE ~(Len(r) <= room)
  <2>1. \A i \in 1..room : i \in 1..Len(r) /\ r[i] \in Frame
    BY <1>1, <1>3, <1>6, ElementOfSeq
  <2>2. PICK s : s = SubSeq(r, 1, room)
    OBVIOUS
  <2>3. Len(s) = room /\ \A i \in 1..room : s[i] = r[i]
    BY <1>3, <2>1, <2>2, SubSeqProperties
  <2>4. d.active = c /\ d.stream = conn.stream /\ d.user = conn.user /\ d.seen = s /\ ~d.listed
    BY ZenonT(30), <1>2, <1>4, <1>6, <2>2 DEF Conn
  <2>5. QED
    BY <1>1, <2>1, <2>3, <2>4
<1>7. QED
  BY <1>5, <1>6

\* What PutApply does, to one connection.
LEMMA PutApplyIs ==
    ASSUME TypeInv, NEW p \in Puts, PutApply(p)
    PROVE  \E q \in Put :
              /\ puts[p] = <<q>> /\ puts' = [puts EXCEPT ![p] = <<>>]
              /\ UNCHANGED <<slots, turns>>
              /\ \A k \in Conns \ {q.conn} : conns'[k] = conns[k]
              /\ \/ UNCHANGED conns
                 \/ conns[q.conn].listed /\ conns'[q.conn] = Subscribe(conns[q.conn], q.conv)
<1>1. PICK q \in Put : puts[p] = <<q>>
  BY TypeParts DEF PutApply
<1>2. puts[p][1] = q /\ q.conn \in Conns /\ conns \in [Conns -> Conn]
  BY <1>1, TypeParts DEF Put
<1>3. \/ UNCHANGED conns
      \/ conns[q.conn].listed
         /\ conns' = [conns EXCEPT ![q.conn] = Subscribe(conns[q.conn], q.conv)]
  BY <1>2 DEF PutApply
<1>4. puts' = [puts EXCEPT ![p] = <<>>] /\ UNCHANGED <<slots, turns>>
  BY DEF PutApply
<1>5. CASE UNCHANGED conns
  BY <1>1, <1>4, <1>5
<1>6. CASE conns[q.conn].listed
           /\ conns' = [conns EXCEPT ![q.conn] = Subscribe(conns[q.conn], q.conv)]
  BY <1>1, <1>2, <1>4, <1>6
<1>7. QED
  BY <1>3, <1>5, <1>6

\* What happens to a stream changes neither its scope nor what it was sent.
LEMMA ConnStepKept ==
    ASSUME TypeInv, NEW k \in Conns, Read(k) \/ Close(k) \/ Drained(k)
    PROVE  /\ ConnsKept
           /\ \A j \in Conns : conns'[j].seen = conns[j].seen
                               /\ (conns'[j].listed => conns[j].listed)
<1>1. conns \in [Conns -> Conn]
  BY TypeParts
<1>2. CASE Read(k)
  BY <1>1, <1>2 DEF Read, ConnsKept, Kept, Conn
<1>3. CASE Close(k)
  BY <1>1, <1>3 DEF Close, Unlist, ConnsKept, Kept, Conn
<1>4. CASE Drained(k)
  BY <1>1, <1>4 DEF Drained, ConnsKept, Kept, Conn
<1>5. QED
  BY <1>2, <1>3, <1>4

LEMMA PutCheckKept ==
    ASSUME TypeInv, NEW p \in Puts, NEW k \in Conns, NEW c \in Conversations \cup {NoConv},
           PutCheck(p, k, c)
    PROVE  /\ ConnsKept
           /\ \A j \in Conns : conns'[j].seen = conns[j].seen
                               /\ (conns'[j].listed => conns[j].listed)
BY TypeParts DEF PutCheck, ConnsKept, Kept, Conn

LEMMA OpenKept ==
    ASSUME TypeInv, NEW k \in Conns, NEW u \in Users, Open(k, u)
    PROVE  ConnsKept
<1>1. conns[k].stream = "unopened"
  BY DEF Open
<1>2. QED
  BY <1>1, OpenAt DEF ConnsKept, Kept

\* Every step but set_subscription keeps the scope of every connection.
LEMMA ConnsKeptStep ==
    ASSUME TypeInv, [Next]_vars, ~ \E p \in Puts : PutApply(p)
    PROVE  ConnsKept
<1>1. CASE UNCHANGED conns
  BY <1>1 DEF ConnsKept, Kept
<1>2. ASSUME NEW t \in Turns, NEW no, Publish(t, no)
      PROVE  ConnsKept
  BY <1>2, DeliveredKept DEF Publish
<1>3. ASSUME NEW t \in Turns, RawEvent(t)
      PROVE  ConnsKept
  BY <1>3, DeliveredKept DEF RawEvent
<1>4. ASSUME NEW t \in Turns,
             ReadTail(t) \/ Cancel(t) \/ AgentEnds(t) \/ Panic(t)
      PROVE  ConnsKept
  <2>1. CASE \E finish \in Finishes : Terminal(t, finish)
    BY <1>2, <2>1 DEF Terminal
  <2>2. QED
    BY <1>1, <1>4, <2>1, EndIsTerminal
<1>5. ASSUME NEW t \in Turns, CreateToken(t) \/ Start(t) \/ Content(t)
      PROVE  ConnsKept
  BY <1>1, <1>2, <1>5 DEF CreateToken, Start, Content
<1>6. ASSUME NEW t \in Turns, GenStep(t)
      PROVE  UNCHANGED conns
  BY <1>6 DEF GenStep, GenChunk, GenSave, GenEnd, GenFails, GenDies
<1>7. ASSUME NEW t \in Turns,
             \/ \E c \in Conversations : Begin(t, c)
             \/ SetupFails(t) \/ SetupDone(t) \/ Dropped(t) \/ Cleanup(t) \/ Stop(t)
      PROVE  UNCHANGED conns
  BY <1>7 DEF Begin, SetupFails, SetupDone, Dropped, Cleanup, Stop
<1>8. QED
  BY <1>1, <1>3, <1>4, <1>5, <1>6, <1>7, OpenKept, ConnStepKept, PutCheckKept
     DEF Next, HandlerStep, TaskStep, vars

LEMMA PutsStep ==
    ASSUME [Next]_vars
    PROVE  \/ UNCHANGED puts
           \/ \E p \in Puts, k \in Conns, c \in Conversations \cup {NoConv} : PutCheck(p, k, c)
           \/ \E p \in Puts : PutApply(p)
<1>1. ASSUME NEW t \in Turns, NEW no, Terminal(t, no)
      PROVE  UNCHANGED puts
  BY <1>1 DEF Terminal
<1>2. ASSUME NEW t \in Turns, GenStep(t)
      PROVE  UNCHANGED puts
  BY <1>2 DEF GenStep, GenChunk, GenSave, GenEnd, GenFails, GenDies
<1>3. ASSUME NEW t \in Turns,
             ReadTail(t) \/ Cancel(t) \/ AgentEnds(t) \/ Panic(t)
      PROVE  UNCHANGED puts
  BY <1>1, <1>3, EndIsTerminal
<1>4. ASSUME NEW t \in Turns,
             \/ \E c \in Conversations : Begin(t, c)
             \/ SetupFails(t) \/ SetupDone(t) \/ CreateToken(t) \/ Dropped(t) \/ Cleanup(t)
             \/ Stop(t) \/ Start(t) \/ Content(t) \/ RawEvent(t)
      PROVE  UNCHANGED puts
  BY <1>4 DEF Begin, SetupFails, SetupDone, CreateToken, Dropped, Cleanup, Stop, Start, Content,
              RawEvent
<1>5. ASSUME NEW k \in Conns, (\E u \in Users : Open(k, u)) \/ Read(k) \/ Close(k) \/ Drained(k)
      PROVE  UNCHANGED puts
  BY <1>5 DEF Open, Read, Close, Drained
<1>6. QED
  BY <1>2, <1>3, <1>4, <1>5 DEF Next, HandlerStep, TaskStep, vars

LEMMA OwnPreserved ==
    ASSUME TypeInv, OwnInv, [Next]_vars
    PROVE  OwnInv'
<1>1. CASE ConnsKept /\ UNCHANGED puts
  <2>1. \A q \in Put : q.conn \in Conns
    BY DEF Put
  <2>2. QED
    BY <1>1, <2>1 DEF OwnInv, ConnsKept, Kept
<1>2. ASSUME NEW p \in Puts, NEW k \in Conns, NEW c \in Conversations \cup {NoConv},
             PutCheck(p, k, c)
      PROVE  OwnInv'
  <2>1. PICK r \in Put : r = [conn |-> k, conv |-> c]
    BY DEF Put
  <2>2. r.conn = k /\ r.conv = c
    BY <2>1
  <2>3. \A o \in Puts : puts'[o] = IF o = p THEN <<r>> ELSE puts[o]
    BY <1>2, <2>1, TypeParts DEF PutCheck
  <2>4. conns[k].stream # "unopened" /\ (c # NoConv => conns[k].user = Owner(c))
    BY <1>2 DEF PutCheck
  <2>5. ConnsKept
    BY <1>2, PutCheckKept
  <2>6. \A q \in Put : q.conn \in Conns
    BY DEF Put
  <2>7. \A q \in Put : <<q>> = <<r>> => q = r
    OBVIOUS
  <2>8. QED
    BY <2>2, <2>3, <2>4, <2>5, <2>6, <2>7 DEF OwnInv, ConnsKept, Kept
<1>3. ASSUME NEW p \in Puts, PutApply(p)
      PROVE  OwnInv'
  <2>1. PICK q \in Put :
              /\ puts[p] = <<q>> /\ puts' = [puts EXCEPT ![p] = <<>>]
              /\ \A k \in Conns \ {q.conn} : conns'[k] = conns[k]
              /\ \/ UNCHANGED conns
                 \/ conns[q.conn].listed /\ conns'[q.conn] = Subscribe(conns[q.conn], q.conv)
    BY <1>3, PutApplyIs
  <2>2. q.conn \in Conns /\ q.conv \in Conversations \cup {NoConv} /\ conns[q.conn] \in Conn
    BY TypeParts DEF Put
  <2>3. PICK d : d = conns'[q.conn]
    OBVIOUS
  <2>4. \/ d = conns[q.conn]
        \/ d.active = q.conv /\ d.stream = conns[q.conn].stream /\ d.user = conns[q.conn].user
    BY <2>1, <2>2, <2>3, SubscribeAt
  <2>5. \A k \in Conns : conns'[k].stream = conns[k].stream /\ conns'[k].user = conns[k].user
    BY <2>1, <2>3, <2>4
  <2>6. \A k \in Conns : conns'[k].active # NoConv =>
          conns'[k].stream # "unopened" /\ conns'[k].user = Owner(conns'[k].active)
    BY <2>1, <2>3, <2>4, <2>5 DEF OwnInv
  <2>7. \A o \in Puts, r \in Put : puts'[o] = <<r>> => puts[o] = <<r>> /\ r.conn \in Conns
    BY <2>1, TypeParts DEF Put
  <2>8. QED
    BY <2>5, <2>6, <2>7 DEF OwnInv
<1>4. QED
  BY <1>1, <1>2, <1>3, ConnsKeptStep, PutsStep

LEMMA OwnInit == Init => OwnInv
BY DEF Init, OwnInv

LEMMA OwnInvariant == Spec => [](TypeInv /\ OwnInv)
<1>1. Init => TypeInv /\ OwnInv
  BY TypeInit, OwnInit
<1>2. (TypeInv /\ OwnInv) /\ [Next]_vars => (TypeInv /\ OwnInv)'
  BY TypeStep, OwnPreserved
<1>3. QED
  BY <1>1, <1>2, PTL DEF Spec

\* set_subscription and publish_frame do not look at who owns the conversation that a
\* connection follows; on both hosts it is the connection's own user, because the PUT's
\* handler checked it and a stream never changes its user.
THEOREM ChatScopeIsOwn ==
    Spec => [](\A k \in Conns : conns[k].active # NoConv =>
                  conns[k].user = Owner(conns[k].active))
<1>1. OwnInv => \A k \in Conns : conns[k].active # NoConv =>
                  conns[k].user = Owner(conns[k].active)
  BY DEF OwnInv
<1>2. QED
  BY <1>1, OwnInvariant, PTL

Fresh(t) == turns[t].pc \in {"none", "setup", "token", "spawned"}
Running(t) == turns[t].pc = "running"

\* Until a turn's task runs, it has published nothing and nobody saw anything of it.
FreshInv == \A t \in Turns : Fresh(t) =>
    turns[t].n = 0 /\ \A k \in Conns : Unseen(conns[k].seen, t)

\* A running turn's buffer holds the turn, and no other buffer holds anything.
BufferInv ==
    /\ \A t \in Turns : Running(t) => Holds(slots[turns[t].conv], t, turns[t].n)
    /\ \A c \in DOMAIN slots :
          slots[c] = EmptyBuffer \/ \E t \in Turns : Running(t) /\ turns[t].conv = c

\* The connections on a running turn's conversation have joined it.
JoinedInv == \A t \in Turns, k \in Conns :
    Running(t) /\ conns[k].listed /\ conns[k].active = turns[t].conv
        => Joined(conns[k].seen, slots[turns[t].conv], t, turns[t].n)

JoinInv == FreshInv /\ BufferInv /\ JoinedInv

\* The steps that publish nothing and subscribe nobody.
TurnsSteady == \A t \in Turns :
    /\ Running(t)' <=> Running(t)
    /\ Running(t) => turns'[t].n = turns[t].n /\ turns'[t].conv = turns[t].conv
    /\ Fresh(t)' => Fresh(t) /\ turns'[t].n = turns[t].n

SlotsSteady ==
    /\ \A t \in Turns : Running(t) => slots'[turns[t].conv] = slots[turns[t].conv]
    /\ \A c \in DOMAIN slots' :
          slots'[c] = EmptyBuffer \/ (c \in DOMAIN slots /\ slots'[c] = slots[c])

ConnsSteady == \A k \in Conns :
    /\ conns'[k].active = conns[k].active /\ conns'[k].seen = conns[k].seen
    /\ conns'[k].listed => conns[k].listed \/ conns[k].active = NoConv

LEMMA SteadyKeeps ==
    ASSUME TypeInv, JoinInv, TurnsSteady, SlotsSteady, ConnsSteady
    PROVE  JoinInv'
<1>1. FreshInv'
  BY DEF JoinInv, FreshInv, TurnsSteady, ConnsSteady
<1>2. BufferInv'
  <2>1. ASSUME NEW t \in Turns, Running(t)'
        PROVE  Holds(slots'[turns'[t].conv], t, turns'[t].n)
    <3>1. /\ Running(t) /\ turns'[t].n = turns[t].n /\ turns'[t].conv = turns[t].conv
          /\ slots'[turns[t].conv] = slots[turns[t].conv]
      BY <2>1 DEF TurnsSteady, SlotsSteady
    <3>2. Holds(slots[turns[t].conv], t, turns[t].n)
      BY <3>1 DEF JoinInv, BufferInv
    <3>3. QED
      BY <3>1, <3>2
  <2>2. ASSUME NEW c \in DOMAIN slots', slots'[c] # EmptyBuffer
        PROVE  \E t \in Turns : Running(t)' /\ turns'[t].conv = c
    BY <2>2 DEF JoinInv, BufferInv, TurnsSteady, SlotsSteady
  <2>3. QED
    BY <2>1, <2>2 DEF BufferInv
<1>3. JoinedInv'
  <2>1. SUFFICES ASSUME NEW t \in Turns, NEW k \in Conns,
                        Running(t)', conns'[k].listed, conns'[k].active = turns'[t].conv
                 PROVE  Joined(conns'[k].seen, slots'[turns'[t].conv], t, turns'[t].n)
    BY DEF JoinedInv
  <2>2. /\ Running(t) /\ turns'[t].n = turns[t].n /\ turns'[t].conv = turns[t].conv
        /\ slots'[turns[t].conv] = slots[turns[t].conv]
    BY <2>1 DEF TurnsSteady, SlotsSteady
  <2>3. turns[t].conv \in Conversations
    BY <2>2, TypeParts DEF TurnsType, HasConv, Running
  <2>4. conns[k].active = turns[t].conv /\ conns[k].listed /\ conns'[k].seen = conns[k].seen
    BY <2>1, <2>2, <2>3, NamesAssumption DEF ConnsSteady
  <2>5. Joined(conns[k].seen, slots[turns[t].conv], t, turns[t].n)
    BY <2>2, <2>4 DEF JoinInv, JoinedInv
  <2>6. QED
    BY <2>2, <2>4, <2>5
<1>4. QED
  BY <1>1, <1>2, <1>3 DEF JoinInv

\* A stream that opens, closes, is read or is checked for a PUT.
LEMMA ConnStepSteady ==
    ASSUME TypeInv, CapsInv, OwnInv,
           \/ \E k \in Conns : (\E u \in Users : Open(k, u)) \/ Read(k) \/ Close(k) \/ Drained(k)
           \/ \E p \in Puts, k \in Conns, c \in Conversations \cup {NoConv} : PutCheck(p, k, c)
    PROVE  TurnsSteady /\ SlotsSteady /\ ConnsSteady
<1>1. UNCHANGED <<turns, slots>>
  BY DEF Open, Read, Close, Drained, PutCheck
<1>2. TurnsSteady /\ SlotsSteady
  BY <1>1 DEF TurnsSteady, SlotsSteady, Running, Fresh
<1>3. ASSUME NEW k \in Conns, NEW u \in Users, Open(k, u)
      PROVE  ConnsSteady
  <2>1. conns[k].active = NoConv
    BY <1>3 DEF Open, OwnInv
  <2>2. QED
    BY <1>3, <2>1, OpenAt DEF ConnsSteady
<1>4. ASSUME NEW k \in Conns, Read(k) \/ Close(k) \/ Drained(k)
      PROVE  ConnsSteady
  BY <1>4, ConnStepKept DEF ConnsKept, Kept, ConnsSteady
<1>5. ASSUME NEW p \in Puts, NEW k \in Conns, NEW c \in Conversations \cup {NoConv},
             PutCheck(p, k, c)
      PROVE  ConnsSteady
  BY <1>5, PutCheckKept DEF ConnsKept, Kept, ConnsSteady
<1>6. QED
  BY <1>2, <1>3, <1>4, <1>5

LEMMA ConnsUnchanged == ASSUME UNCHANGED conns PROVE ConnsSteady
BY DEF ConnsSteady

LEMMA SlotsUnchanged == ASSUME UNCHANGED slots PROVE SlotsSteady
BY DEF SlotsSteady

\* What a turn does before it runs, after it ran, and beside its stream.
LEMMA GenSteady ==
    ASSUME TypeInv, NEW t \in Turns, GenStep(t)
    PROVE  TurnsSteady /\ SlotsSteady /\ ConnsSteady
<1>1. turns \in [Turns -> Turn]
  BY TypeParts DEF TurnsType
<1>2. UNCHANGED <<conns, slots>>
  BY DEF GenStep, GenChunk, GenSave, GenEnd, GenFails, GenDies
<1>3. ASSUME NEW s \in Turns
      PROVE  turns'[s].pc = turns[s].pc /\ turns'[s].conv = turns[s].conv /\ turns'[s].n = turns[s].n
  <2>1. CASE GenChunk(t)
    BY <1>1, <2>1 DEF GenChunk, Turn
  <2>2. CASE GenSave(t)
    BY <1>1, <2>2 DEF GenSave, Turn
  <2>3. CASE GenEnd(t)
    BY <1>1, <2>3 DEF GenEnd, Turn
  <2>4. CASE GenFails(t)
    BY <1>1, <2>4 DEF GenFails, Turn
  <2>5. CASE GenDies(t)
    BY <1>1, <2>5 DEF GenDies, Turn
  <2>6. QED
    BY <2>1, <2>2, <2>3, <2>4, <2>5 DEF GenStep
<1>4. TurnsSteady
  BY <1>3 DEF TurnsSteady, Running, Fresh
<1>5. QED
  BY <1>2, <1>4, ConnsUnchanged, SlotsUnchanged

LEMMA RestSteady ==
    ASSUME TypeInv, LockInv, Host = "legacy", NEW t \in Turns,
           \/ \E c \in Conversations : Begin(t, c)
           \/ HandlerStep(t) \/ Dropped(t) \/ Cleanup(t) \/ Stop(t) \/ RawEvent(t)
    PROVE  TurnsSteady /\ SlotsSteady /\ ConnsSteady
<1>1. turns \in [Turns -> Turn] /\ \A s \in Turns : Running(s) => Live(s) /\ turns[s].conv \in Conversations
  BY TypeParts DEF TurnsType, Live, HasConv, Running
<1>2. CASE \E c \in Conversations : Begin(t, c)
  <2>1. PICK c \in Conversations : Begin(t, c)
    BY <1>2
  <2>2. TurnsSteady
    BY <1>1, <2>1 DEF Begin, TurnsSteady, Running, Fresh, Turn
  <2>3. c \notin DOMAIN slots /\ slots' = [d \in DOMAIN slots \cup {c} |->
                                            IF d = c THEN EmptyBuffer ELSE slots[d]]
    BY <2>1 DEF Begin, With, InFlight
  <2>4. \A s \in Turns : Running(s) => turns[s].conv \in DOMAIN slots
    BY <1>1 DEF LockInv
  <2>5. SlotsSteady
    BY <2>3, <2>4 DEF SlotsSteady
  <2>6. QED
    BY <2>1, <2>2, <2>5, ConnsUnchanged DEF Begin
<1>3. CASE SetupFails(t)
  <2>1. turns[t].pc = "setup"
    BY <1>3 DEF SetupFails, Step
  <2>2. TurnsSteady
    BY <1>1, <1>3 DEF SetupFails, Step, TurnsSteady, Running, Fresh, Turn
  <2>3. \A s \in Turns : Running(s) => turns[s].conv \in DOMAIN slots /\ turns[s].conv # turns[t].conv
    BY <1>1, <2>1 DEF LockInv, Live, Running
  <2>4. SlotsSteady
    BY <1>3, <2>3 DEF SetupFails, SlotsSteady, Without
  <2>5. QED
    BY <1>3, <2>2, <2>4, ConnsUnchanged DEF SetupFails
<1>4. CASE SetupDone(t)
  <2>1. TurnsSteady
    BY <1>1, <1>4 DEF SetupDone, TurnsSteady, Running, Fresh, Turn
  <2>2. QED
    BY <1>4, <2>1, ConnsUnchanged, SlotsUnchanged DEF SetupDone
<1>5. CASE CreateToken(t)
  <2>1. TurnsSteady
    BY <1>1, <1>5 DEF CreateToken, Step, TurnsSteady, Running, Fresh, Turn
  <2>2. UNCHANGED <<conns, slots>>
    BY <1>5 DEF CreateToken
  <2>3. QED
    BY <2>1, <2>2, ConnsUnchanged, SlotsUnchanged
<1>6. CASE Dropped(t)
  <2>1. TurnsSteady
    BY <1>1, <1>6 DEF Dropped, TurnsSteady, Running, Fresh, Turn
  <2>2. QED
    BY <1>6, <2>1, ConnsUnchanged, SlotsUnchanged DEF Dropped
<1>7. CASE Cleanup(t)
  <2>1. TurnsSteady
    BY <1>1, <1>7 DEF Cleanup, Step, TurnsSteady, Running, Fresh, Turn
  <2>2. UNCHANGED <<conns, slots>>
    BY <1>7 DEF Cleanup
  <2>3. QED
    BY <2>1, <2>2, ConnsUnchanged, SlotsUnchanged
<1>8. CASE Stop(t)
  <2>1. TurnsSteady
    BY <1>1, <1>8 DEF Stop, TurnsSteady, Running, Fresh, Turn
  <2>2. QED
    BY <1>8, <2>1, ConnsUnchanged, SlotsUnchanged DEF Stop
<1>9. CASE RawEvent(t)
  <2>1. TurnsSteady
    BY <1>1, <1>9 DEF RawEvent, TurnsSteady, Running, Fresh, Turn
  <2>2. \A k \in Conns : conns[k].seen \o <<>> = conns[k].seen
    BY TypeParts DEF Conn
  <2>3. conns' = Delivered(turns[t].conv, <<>>)
    BY <1>9 DEF RawEvent
  <2>4. ASSUME NEW k \in Conns
        PROVE  /\ conns'[k].active = conns[k].active /\ conns'[k].seen = conns[k].seen
               /\ conns'[k].listed => conns[k].listed
    <3>1. PICK c : c = turns[t].conv
      OBVIOUS
    <3>2. PICK e : e = <<>>
      OBVIOUS
    <3>3. PICK d : d = Delivered(c, e)[k]
      OBVIOUS
    <3>4. /\ d.active = conns[k].active /\ (d.listed => conns[k].listed)
          /\ d.seen = conns[k].seen \/ d.seen = conns[k].seen \o e
      BY <3>3, DeliveredAt
    <3>5. conns[k].seen \o e = conns[k].seen
      BY <2>2, <3>2
    <3>6. d = conns'[k]
      BY <2>3, <3>1, <3>2, <3>3
    <3>7. QED
      BY <3>4, <3>5, <3>6
  <2>5. ConnsSteady
    BY <2>4 DEF ConnsSteady
  <2>6. QED
    BY <1>9, <2>1, <2>5, SlotsUnchanged DEF RawEvent
<1>10. QED
  BY <1>2, <1>3, <1>4, <1>5, <1>6, <1>7, <1>8, <1>9 DEF HandlerStep

LEMMA UnseenAppended ==
    ASSUME NEW s \in Seq(Frame), NEW f \in Frame, NEW u, f.turn # u, Unseen(s, u)
    PROVE  Unseen(s \o <<f>>, u)
<1>1. PICK r : r = s \o <<f>>
  OBVIOUS
<1>2. Len(r) = Len(s) + 1 /\ Len(s) \in Nat /\ (\A i \in 1..Len(s) : r[i] = s[i]) /\ r[Len(s) + 1] = f
  BY <1>1, Appended
<1>3. Unseen(r, u)
  BY <1>2 DEF Unseen
<1>4. QED
  BY <1>1, <1>3

\* What a frame does at a connection.
LEMMA PublishedAt ==
    ASSUME TypeInv, OwnInv, NEW t \in Turns, turns[t].conv \in Conversations,
           NEW no \in 0..End, Publish(t, no), NEW k \in Conns
    PROVE  /\ conns'[k].active = conns[k].active
           /\ conns'[k].listed => conns[k].listed
           /\ \A u \in Turns \ {t} : Unseen(conns[k].seen, u) => Unseen(conns'[k].seen, u)
           /\ conns[k].active # turns[t].conv => conns'[k].seen = conns[k].seen
           /\ conns'[k].listed /\ conns[k].active = turns[t].conv
                => conns'[k].seen = conns[k].seen \o <<Numbered(t, no)>>
<1>1. PICK c : c = turns[t].conv
  OBVIOUS
<1>2. PICK f : f = Numbered(t, no)
  OBVIOUS
<1>3. f \in Frame /\ f.turn = t
  BY <1>2, NumberedIs
<1>4. PICK e : e = <<f>>
  OBVIOUS
<1>5. PICK s : s = conns[k].seen
  OBVIOUS
<1>6. s \in Seq(Frame)
  BY <1>5, TypeParts DEF Conn
<1>7. PICK d : d = Delivered(c, e)[k]
  OBVIOUS
<1>8. /\ d.active = conns[k].active /\ (d.listed => conns[k].listed)
      /\ d.seen = s \/ d.seen = s \o e
      /\ conns[k].active # c => d.seen = s
      /\ d.listed /\ conns[k].active = c /\ conns[k].user = Owner(c) => d.seen = s \o e
  BY SMTT(30), <1>5, <1>7, DeliveredAt
<1>9. conns' = Delivered(c, e)
  BY <1>1, <1>2, <1>4 DEF Publish, Numbered
<1>10. d = conns'[k]
  BY <1>7, <1>9
<1>11. conns[k].active = c => conns[k].user = Owner(c)
  BY <1>1, NamesAssumption DEF OwnInv
<1>12. \A u \in Turns \ {t} : Unseen(s, u) => Unseen(s \o e, u)
  BY <1>3, <1>4, <1>6, UnseenAppended
<1>13. \A u \in Turns \ {t} : Unseen(s, u) => Unseen(d.seen, u)
  BY <1>8, <1>12
<1>14. QED
  BY <1>1, <1>2, <1>4, <1>5, <1>8, <1>10, <1>11, <1>13

\* What a frame does to the buffers: to the turn's own, and to the others.
LEMMA PublishedHere ==
    ASSUME TypeInv, LockInv, NEW t \in Turns, Live(t), NEW no, no # End, Publish(t, no)
    PROVE  /\ turns[t].conv \in DOMAIN slots /\ DOMAIN slots' = DOMAIN slots
           /\ slots'[turns[t].conv] = Push(slots[turns[t].conv], Numbered(t, no))
<1>1. PICK c : c = turns[t].conv
  OBVIOUS
<1>2. PICK b : b = Push(slots[c], Numbered(t, no))
  OBVIOUS
<1>3. c \in DOMAIN slots
  BY <1>1 DEF LockInv
<1>4. slots' = With(c, b)
  BY <1>1, <1>2, <1>3 DEF Publish, InFlight, Numbered
<1>5. slots' = [d \in DOMAIN slots |-> IF d = c THEN b ELSE slots[d]]
  BY <1>3, <1>4 DEF With
<1>6. QED
  BY <1>1, <1>2, <1>3, <1>5

LEMMA PublishedSlots ==
    ASSUME TypeInv, LockInv, NEW t \in Turns, Live(t), NEW no, Publish(t, no)
    PROVE  /\ \A c \in DOMAIN slots \ {turns[t].conv} : c \in DOMAIN slots' /\ slots'[c] = slots[c]
           /\ DOMAIN slots' \subseteq DOMAIN slots
           /\ no = End => turns[t].conv \notin DOMAIN slots'
<1>1. PICK c : c = turns[t].conv
  OBVIOUS
<1>2. c \in DOMAIN slots
  BY <1>1 DEF LockInv
<1>3. CASE no = End
  <2>1. slots' = [d \in DOMAIN slots \ {c} |-> slots[d]]
    BY <1>1, <1>3 DEF Publish, Without
  <2>2. QED
    BY <1>1, <1>2, <1>3, <2>1
<1>4. CASE no # End
  <2>1. PICK b : slots' = With(c, b)
    BY <1>1, <1>4 DEF Publish
  <2>2. slots' = [d \in DOMAIN slots |-> IF d = c THEN b ELSE slots[d]]
    BY <1>2, <2>1 DEF With
  <2>3. QED
    BY <1>1, <1>4, <2>2
<1>5. QED
  BY <1>3, <1>4

\* The other turns, while one publishes: theirs are other conversations.
LEMMA OthersKeep ==
    ASSUME TypeInv, LockInv, OwnInv, JoinInv, NEW t \in Turns, Live(t), NEW no \in 0..End,
           Publish(t, no), ~Fresh(t)', \A s \in Turns \ {t} : turns'[s] = turns[s]
    PROVE  /\ FreshInv'
           /\ \A s \in Turns \ {t} : Running(s)' =>
                 /\ Holds(slots'[turns'[s].conv], s, turns'[s].n)
                 /\ \A k \in Conns : conns'[k].listed /\ conns'[k].active = turns'[s].conv
                       => Joined(conns'[k].seen, slots'[turns'[s].conv], s, turns'[s].n)
           /\ \A c \in DOMAIN slots' \ {turns[t].conv} :
                 slots'[c] = EmptyBuffer \/ \E s \in Turns : Running(s)' /\ turns'[s].conv = c
<1>1. turns[t].conv \in Conversations
  BY TypeParts DEF TurnsType, HasConv, Live
<1>2. \A s \in Turns \ {t} : /\ Running(s)' <=> Running(s)
                             /\ Fresh(s)' <=> Fresh(s)
  BY DEF Running, Fresh
<1>3. FreshInv'
  <2>1. SUFFICES ASSUME NEW s \in Turns, Fresh(s)'
                 PROVE  turns'[s].n = 0 /\ \A k \in Conns : Unseen(conns'[k].seen, s)
    BY DEF FreshInv
  <2>2. s # t /\ Fresh(s) /\ turns'[s].n = 0
    BY <1>2, <2>1 DEF JoinInv, FreshInv
  <2>3. \A k \in Conns : Unseen(conns[k].seen, s)
    BY <2>2 DEF JoinInv, FreshInv
  <2>4. QED
    BY ZenonT(30), <1>1, <2>2, <2>3, PublishedAt
<1>4. ASSUME NEW s \in Turns \ {t}, Running(s)'
      PROVE  /\ Holds(slots'[turns'[s].conv], s, turns'[s].n)
             /\ \A k \in Conns : conns'[k].listed /\ conns'[k].active = turns'[s].conv
                   => Joined(conns'[k].seen, slots'[turns'[s].conv], s, turns'[s].n)
  <2>1. Running(s) /\ turns'[s] = turns[s]
    BY <1>2, <1>4
  <2>2. turns[s].conv # turns[t].conv /\ turns[s].conv \in DOMAIN slots
    BY <2>1 DEF LockInv, Live, Running
  <2>3. slots'[turns[s].conv] = slots[turns[s].conv]
    BY <2>2, PublishedSlots
  <2>4. Holds(slots[turns[s].conv], s, turns[s].n)
    BY <2>1 DEF JoinInv, BufferInv
  <2>5. ASSUME NEW k \in Conns, conns'[k].listed, conns'[k].active = turns[s].conv
        PROVE  Joined(conns'[k].seen, slots[turns[s].conv], s, turns[s].n)
    <3>1. conns[k].listed /\ conns[k].active = turns[s].conv /\ conns'[k].seen = conns[k].seen
      BY <1>1, <2>2, <2>5, PublishedAt
    <3>2. Joined(conns[k].seen, slots[turns[s].conv], s, turns[s].n)
      BY <2>1, <3>1 DEF JoinInv, JoinedInv
    <3>3. QED
      BY <3>1, <3>2
  <2>6. QED
    BY <2>1, <2>3, <2>4, <2>5
<1>5. ASSUME NEW c \in DOMAIN slots' \ {turns[t].conv}, slots'[c] # EmptyBuffer
      PROVE  \E s \in Turns : Running(s)' /\ turns'[s].conv = c
  <2>1. c \in DOMAIN slots /\ slots'[c] = slots[c]
    BY <1>5, PublishedSlots
  <2>2. PICK s \in Turns : Running(s) /\ turns[s].conv = c
    BY <1>5, <2>1 DEF JoinInv, BufferInv
  <2>3. QED
    BY <1>2, <1>5, <2>2
<1>6. QED
  BY <1>3, <1>4, <1>5

LEMMA StartJoins ==
    ASSUME TypeInv, LockInv, OwnInv, JoinInv, Host = "legacy", NEW t \in Turns, Start(t)
    PROVE  JoinInv'
<1>1. /\ turns[t].pc = "spawned" /\ turns'[t].pc = "running"
      /\ turns'[t].conv = turns[t].conv /\ turns'[t].n = turns[t].n
      /\ \A s \in Turns \ {t} : turns'[s] = turns[s]
  BY TypeParts DEF Start, Step, TurnsType, Turn
<1>2. Live(t) /\ Fresh(t) /\ ~Running(t) /\ Running(t)' /\ ~Fresh(t)'
  BY <1>1 DEF Live, Fresh, Running
<1>3. 0 \in 0..End /\ 0 # End /\ Publish(t, 0)
  BY EndIsFrame, SizesAssumption DEF Start, End
<1>4. PICK c \in Conversations : c = turns[t].conv
  BY <1>1, TypeParts DEF TurnsType, HasConv
<1>5. turns[t].n = 0 /\ \A k \in Conns : Unseen(conns[k].seen, t)
  BY <1>2 DEF JoinInv, FreshInv
<1>6. c \in DOMAIN slots /\ DOMAIN slots' = DOMAIN slots
      /\ slots'[c] = Push(slots[c], Numbered(t, 0))
  <2>1. PICK no \in 0..End : no = 0
    BY <1>3
  <2>2. no # End /\ Publish(t, no)
    BY <1>3, <2>1
  <2>3. /\ turns[t].conv \in DOMAIN slots /\ DOMAIN slots' = DOMAIN slots
        /\ slots'[turns[t].conv] = Push(slots[turns[t].conv], Numbered(t, no))
    BY <1>2, <2>2, PublishedHere
  <2>4. QED
    BY <1>4, <2>1, <2>3
<1>7. slots[c] = EmptyBuffer
  <2>1. ASSUME NEW s \in Turns, Running(s), turns[s].conv = c
        PROVE  FALSE
    <3>1. Live(s)
      BY <2>1 DEF Live, Running
    <3>2. s = t
      BY <1>2, <1>4, <2>1, <3>1 DEF LockInv
    <3>3. QED
      BY <1>2, <2>1, <3>2
  <2>2. QED
    BY <1>6, <2>1 DEF JoinInv, BufferInv
<1>8. PICK f : f = Numbered(t, 0)
  OBVIOUS
<1>9. f.no = 0
  BY <1>8 DEF Numbered
<1>10. PICK b : b = Push(EmptyBuffer, f)
  OBVIOUS
<1>11. b.started = <<f>> /\ b.frames = <<>>
  BY <1>9, <1>10 DEF Push, EmptyBuffer
<1>12. slots'[c] = b
  BY <1>6, <1>7, <1>8, <1>10
<1>13. Holds(b, t, 0)
  BY <1>8, <1>11, SizesAssumption DEF Holds, Retained
<1>14. ASSUME NEW k \in Conns, conns'[k].listed, conns'[k].active = c
       PROVE  Joined(conns'[k].seen, b, t, 0)
  <2>1. conns[k].active = c /\ conns'[k].seen = conns[k].seen \o <<Numbered(t, 0)>>
    BY <1>3, <1>4, <1>14, PublishedAt
  <2>2. PICK s \in Seq(Frame) : s = conns[k].seen
    BY TypeParts DEF Conn
  <2>3. Unseen(s, t)
    BY <1>5, <2>2
  <2>4. Joined(s \o <<Numbered(t, 0)>>, b, t, 0)
    BY <1>11, <2>3, JoinedFirst
  <2>5. QED
    BY <2>1, <2>2, <2>4
<1>15. /\ FreshInv'
       /\ \A s \in Turns \ {t} : Running(s)' =>
             /\ Holds(slots'[turns'[s].conv], s, turns'[s].n)
             /\ \A k \in Conns : conns'[k].listed /\ conns'[k].active = turns'[s].conv
                   => Joined(conns'[k].seen, slots'[turns'[s].conv], s, turns'[s].n)
       /\ \A d \in DOMAIN slots' \ {c} :
             slots'[d] = EmptyBuffer \/ \E s \in Turns : Running(s)' /\ turns'[s].conv = d
  BY <1>1, <1>2, <1>3, <1>4, OthersKeep
<1>16. /\ Holds(slots'[turns'[t].conv], t, turns'[t].n)
       /\ \A k \in Conns : conns'[k].listed /\ conns'[k].active = turns'[t].conv
             => Joined(conns'[k].seen, slots'[turns'[t].conv], t, turns'[t].n)
  BY <1>1, <1>4, <1>5, <1>12, <1>13, <1>14
<1>17. Running(t)' /\ turns'[t].conv = c
  BY <1>1, <1>2, <1>4
<1>18. BufferInv'
  BY <1>15, <1>16, <1>17 DEF BufferInv
<1>19. JoinedInv'
  BY <1>15, <1>16 DEF JoinedInv
<1>20. QED
  BY <1>15, <1>18, <1>19 DEF JoinInv

LEMMA ContentJoins ==
    ASSUME TypeInv, LockInv, OwnInv, JoinInv, Host = "legacy", NEW t \in Turns, Content(t)
    PROVE  JoinInv'
<1>1. /\ turns[t].pc = "running" /\ turns'[t].pc = "running"
      /\ turns'[t].conv = turns[t].conv /\ turns'[t].n = turns[t].n + 1
      /\ \A s \in Turns \ {t} : turns'[s] = turns[s]
  BY TypeParts DEF Content, TurnsType, Turn
<1>2. Live(t) /\ Running(t) /\ Running(t)' /\ ~Fresh(t)'
  BY <1>1 DEF Live, Fresh, Running
<1>3. PICK n \in Nat : n = turns[t].n
  BY TypeParts DEF TurnsType, Turn
<1>4. n + 1 \in 0..End /\ n + 1 # End /\ Publish(t, n + 1)
  BY <1>3, SizesAssumption DEF Content, End
<1>5. PICK c \in Conversations : c = turns[t].conv
  BY <1>1, TypeParts DEF TurnsType, HasConv
<1>6. c \in DOMAIN slots /\ DOMAIN slots' = DOMAIN slots
      /\ slots'[c] = Push(slots[c], Numbered(t, n + 1))
  <2>1. PICK no \in 0..End : no = n + 1
    BY <1>4
  <2>2. no # End /\ Publish(t, no)
    BY <1>4, <2>1
  <2>3. /\ turns[t].conv \in DOMAIN slots /\ DOMAIN slots' = DOMAIN slots
        /\ slots'[turns[t].conv] = Push(slots[turns[t].conv], Numbered(t, no))
    BY <1>2, <2>2, PublishedHere
  <2>4. QED
    BY <1>5, <2>1, <2>3
<1>7. PICK b : b = slots[c]
  OBVIOUS
<1>8. PICK d : d = Push(b, Numbered(t, n + 1))
  OBVIOUS
<1>9. GoodBuffer(b) /\ Holds(b, t, n)
  BY <1>2, <1>3, <1>5, <1>6, <1>7, TypeParts DEF SlotsType, JoinInv, BufferInv
<1>10. Holds(d, t, n + 1) /\ Len(d.frames) <= Len(b.frames) + 1
  BY <1>4, <1>8, <1>9, HoldsNext
<1>11. Len(b.frames) \in Nat
  BY <1>9 DEF GoodBuffer, Buffer
<1>12. Len(d.frames) \in Nat
  <2>1. PICK f : f = Numbered(t, n + 1)
    OBVIOUS
  <2>2. f \in Frame /\ f.no # 0
    BY <1>4, <2>1, NumberedIs
  <2>3. d = Push(b, f)
    BY <1>8, <2>1
  <2>4. d.frames \in Seq(Frame)
    BY <1>9, <2>2, <2>3, Pushed
  <2>5. QED
    BY <2>4
<1>13. ASSUME NEW k \in Conns, conns'[k].listed, conns'[k].active = c
       PROVE  Joined(conns'[k].seen, d, t, n + 1)
  <2>1. /\ conns[k].listed /\ conns[k].active = c
        /\ conns'[k].seen = conns[k].seen \o <<Numbered(t, n + 1)>>
    BY <1>4, <1>5, <1>13, PublishedAt
  <2>2. PICK s \in Seq(Frame) : s = conns[k].seen
    BY TypeParts DEF Conn
  <2>3. Joined(s, b, t, n)
    BY <1>2, <1>3, <1>5, <1>7, <2>1, <2>2 DEF JoinInv, JoinedInv
  <2>4. Joined(s \o <<Numbered(t, n + 1)>>, d, t, n + 1)
    BY <1>4, <1>10, <1>11, <1>12, <2>3, JoinedNext
  <2>5. QED
    BY <2>1, <2>2, <2>4
<1>14. /\ FreshInv'
       /\ \A s \in Turns \ {t} : Running(s)' =>
             /\ Holds(slots'[turns'[s].conv], s, turns'[s].n)
             /\ \A k \in Conns : conns'[k].listed /\ conns'[k].active = turns'[s].conv
                   => Joined(conns'[k].seen, slots'[turns'[s].conv], s, turns'[s].n)
       /\ \A e \in DOMAIN slots' \ {c} :
             slots'[e] = EmptyBuffer \/ \E s \in Turns : Running(s)' /\ turns'[s].conv = e
  BY <1>1, <1>2, <1>4, <1>5, OthersKeep
<1>15. slots'[turns'[t].conv] = d /\ turns'[t].n = n + 1 /\ turns'[t].conv = c
  BY <1>1, <1>3, <1>5, <1>6, <1>7, <1>8
<1>16. /\ Holds(slots'[turns'[t].conv], t, turns'[t].n)
       /\ \A k \in Conns : conns'[k].listed /\ conns'[k].active = turns'[t].conv
             => Joined(conns'[k].seen, slots'[turns'[t].conv], t, turns'[t].n)
  BY <1>10, <1>13, <1>15
<1>17. BufferInv'
  BY <1>2, <1>14, <1>15, <1>16 DEF BufferInv
<1>18. JoinedInv'
  BY <1>14, <1>16 DEF JoinedInv
<1>19. QED
  BY <1>14, <1>17, <1>18 DEF JoinInv

LEMMA TerminalJoins ==
    ASSUME TypeInv, LockInv, OwnInv, JoinInv, NEW t \in Turns, NEW finish, Terminal(t, finish)
    PROVE  JoinInv'
<1>1. /\ turns[t].pc = "running" /\ turns'[t].pc = "ended"
      /\ turns'[t].conv = turns[t].conv
      /\ \A s \in Turns \ {t} : turns'[s] = turns[s]
  BY TypeParts DEF Terminal, TurnsType, Turn
<1>2. Live(t) /\ ~Running(t)' /\ ~Fresh(t)'
  BY <1>1 DEF Live, Fresh, Running
<1>3. End \in 0..End /\ Publish(t, End)
  BY EndIsFrame DEF Terminal
<1>4. PICK c \in Conversations : c = turns[t].conv
  BY <1>1, TypeParts DEF TurnsType, HasConv
<1>5. c \notin DOMAIN slots'
  BY <1>2, <1>3, <1>4, PublishedSlots
<1>6. /\ FreshInv'
      /\ \A s \in Turns \ {t} : Running(s)' =>
            /\ Holds(slots'[turns'[s].conv], s, turns'[s].n)
            /\ \A k \in Conns : conns'[k].listed /\ conns'[k].active = turns'[s].conv
                  => Joined(conns'[k].seen, slots'[turns'[s].conv], s, turns'[s].n)
      /\ \A d \in DOMAIN slots' \ {c} :
            slots'[d] = EmptyBuffer \/ \E s \in Turns : Running(s)' /\ turns'[s].conv = d
  BY <1>1, <1>2, <1>3, <1>4, OthersKeep
<1>7. BufferInv'
  BY <1>2, <1>5, <1>6 DEF BufferInv
<1>8. JoinedInv'
  BY <1>2, <1>6 DEF JoinedInv
<1>9. QED
  BY <1>6, <1>7, <1>8 DEF JoinInv

\* What a connection gets to see when it is pointed at c.
LEMMA ReplayJoins ==
    ASSUME TypeInv, LockInv, JoinInv, NEW c \in Conversations \cup {NoConv},
           NEW r, r = IF c \in DOMAIN slots THEN Replay(slots[c]) ELSE <<>>,
           NEW t \in Turns
    PROVE  /\ Fresh(t) => Unseen(r, t)
           /\ Running(t) /\ turns[t].conv = c => Joined(r, slots[c], t, turns[t].n)
<1>1. \A s \in Turns : Running(s) => turns[s].conv \in DOMAIN slots
  BY DEF LockInv, Live, Running
<1>2. CASE c \notin DOMAIN slots
  <2>1. r = <<>>
    BY <1>2
  <2>2. Unseen(r, t)
    BY <2>1 DEF Unseen
  <2>3. QED
    BY <1>1, <1>2, <2>2
<1>3. CASE c \in DOMAIN slots /\ slots[c] = EmptyBuffer
  <2>1. r = <<>>
    BY <1>3 DEF Replay, EmptyBuffer
  <2>2. Unseen(r, t)
    BY <2>1 DEF Unseen
  <2>3. ASSUME Running(t), turns[t].conv = c
        PROVE  FALSE
    <3>1. Holds(EmptyBuffer, t, turns[t].n)
      BY <1>3, <2>3 DEF JoinInv, BufferInv
    <3>2. EmptyBuffer.started = <<Numbered(t, 0)>> /\ EmptyBuffer.started = <<>>
      BY <3>1 DEF Holds, EmptyBuffer
    <3>3. QED
      BY <3>2
  <2>4. QED
    BY <2>2, <2>3
<1>4. CASE c \in DOMAIN slots /\ slots[c] # EmptyBuffer
  <2>1. PICK s \in Turns : Running(s) /\ turns[s].conv = c
    BY <1>4 DEF JoinInv, BufferInv
  <2>2. PICK n \in Nat : n = turns[s].n
    BY TypeParts DEF TurnsType, Turn
  <2>3. PICK b : b = slots[c]
    OBVIOUS
  <2>4. GoodBuffer(b) /\ Holds(b, s, n)
    BY <1>4, <2>1, <2>2, <2>3, TypeParts DEF SlotsType, JoinInv, BufferInv
  <2>5. Joined(Replay(b), b, s, n) /\ \A i \in 1..Len(Replay(b)) : Replay(b)[i].turn = s
    BY <2>4, JoinedReplay
  <2>6. r = Replay(b)
    BY <1>4, <2>3
  <2>7. Joined(r, b, s, n) /\ \A i \in 1..Len(r) : r[i].turn = s
    BY <2>5, <2>6
  <2>8. Fresh(t) => t # s
    BY <2>1 DEF Fresh, Running
  <2>9. Fresh(t) => Unseen(r, t)
    BY <2>7, <2>8 DEF Unseen
  <2>10. Running(t) /\ turns[t].conv = c => t = s
    BY <2>1 DEF LockInv, Live, Running
  <2>11. Running(t) /\ turns[t].conv = c => Joined(r, slots[c], t, turns[t].n)
    BY <2>2, <2>3, <2>7, <2>10
  <2>12. QED
    BY <2>9, <2>11
<1>5. QED
  BY <1>2, <1>3, <1>4

LEMMA PutApplyJoins ==
    ASSUME TypeInv, LockInv, JoinInv, NEW p \in Puts, PutApply(p)
    PROVE  JoinInv'
<1>1. PICK q \in Put :
         /\ UNCHANGED <<slots, turns>>
         /\ \A k \in Conns \ {q.conn} : conns'[k] = conns[k]
         /\ \/ UNCHANGED conns
            \/ conns[q.conn].listed /\ conns'[q.conn] = Subscribe(conns[q.conn], q.conv)
  BY PutApplyIs
<1>2. TurnsSteady /\ SlotsSteady
  BY <1>1 DEF TurnsSteady, SlotsSteady, Running, Fresh
<1>3. CASE UNCHANGED conns
  BY <1>2, <1>3, ConnsUnchanged, SteadyKeeps
<1>4. CASE conns[q.conn].listed /\ conns'[q.conn] = Subscribe(conns[q.conn], q.conv)
  <2>1. PICK j \in Conns : j = q.conn
    BY DEF Put
  <2>2. PICK c \in Conversations \cup {NoConv} : c = q.conv
    BY DEF Put
  <2>3. PICK d : d = conns'[j]
    OBVIOUS
  <2>4. PICK r : r = IF c \in DOMAIN slots THEN Replay(slots[c]) ELSE <<>>
    OBVIOUS
  <2>5. conns[j] \in Conn /\ d = Subscribe(conns[j], c)
    BY <1>4, <2>1, <2>2, <2>3, TypeParts
  <2>6. /\ d.active = c /\ (d.listed => d.seen = r)
        /\ \A i \in 1..Len(d.seen) : i \in 1..Len(r) /\ d.seen[i] = r[i]
    BY <2>4, <2>5, SubscribeAt
  <2>7. \A t \in Turns : /\ Fresh(t) => Unseen(r, t)
                         /\ Running(t) /\ turns[t].conv = c => Joined(r, slots[c], t, turns[t].n)
    BY <2>4, ReplayJoins
  <2>8. \A t \in Turns : Fresh(t) => Unseen(d.seen, t)
    BY <2>6, <2>7 DEF Unseen
  <2>9. \A t \in Turns : /\ Running(t)' <=> Running(t)
                         /\ Fresh(t)' <=> Fresh(t)
                         /\ turns'[t] = turns[t]
    BY <1>1 DEF Running, Fresh
  <2>10. FreshInv'
    <3>1. SUFFICES ASSUME NEW t \in Turns, Fresh(t)'
                   PROVE  turns'[t].n = 0 /\ \A k \in Conns : Unseen(conns'[k].seen, t)
      BY DEF FreshInv
    <3>2. turns[t].n = 0 /\ \A k \in Conns : Unseen(conns[k].seen, t)
      BY <2>9, <3>1 DEF JoinInv, FreshInv
    <3>3. ASSUME NEW k \in Conns PROVE Unseen(conns'[k].seen, t)
      <4>1. CASE k = j
        BY <2>3, <2>8, <2>9, <3>1, <4>1
      <4>2. CASE k # j
        BY <1>1, <2>1, <3>2, <4>2
      <4>3. QED
        BY <4>1, <4>2
    <3>4. QED
      BY <2>9, <3>2, <3>3
  <2>11. BufferInv'
    <3>1. \A t \in Turns : Running(t)' => Holds(slots'[turns'[t].conv], t, turns'[t].n)
      BY <1>1, <2>9 DEF JoinInv, BufferInv
    <3>2. QED
      BY <1>1, <2>9, <3>1 DEF JoinInv, BufferInv
  <2>12. JoinedInv'
    <3>1. SUFFICES ASSUME NEW t \in Turns, NEW k \in Conns,
                          Running(t)', conns'[k].listed, conns'[k].active = turns'[t].conv
                   PROVE  Joined(conns'[k].seen, slots'[turns'[t].conv], t, turns'[t].n)
      BY DEF JoinedInv
    <3>2. Running(t) /\ turns'[t] = turns[t] /\ slots' = slots
      BY <1>1, <2>9, <3>1
    <3>3. CASE k = j
      BY <2>3, <2>6, <2>7, <3>1, <3>2, <3>3
    <3>4. CASE k # j
      <4>1. conns'[k] = conns[k]
        BY <1>1, <2>1, <3>4
      <4>2. Joined(conns[k].seen, slots[turns[t].conv], t, turns[t].n)
        BY <3>1, <3>2, <4>1 DEF JoinInv, JoinedInv
      <4>3. QED
        BY <3>2, <4>1, <4>2
    <3>5. QED
      BY <3>3, <3>4
  <2>13. QED
    BY <2>10, <2>11, <2>12 DEF JoinInv
<1>5. QED
  BY <1>1, <1>3, <1>4

LEMMA JoinPreserved ==
    ASSUME TypeInv, LockInv, CapsInv, OwnInv, JoinInv, Host = "legacy", [Next]_vars
    PROVE  JoinInv'
<1>1. CASE UNCHANGED vars
  <2>1. UNCHANGED <<conns, slots, turns>>
    BY <1>1 DEF vars
  <2>2. TurnsSteady
    BY <2>1 DEF TurnsSteady, Running, Fresh
  <2>3. QED
    BY <2>1, <2>2, ConnsUnchanged, SlotsUnchanged, SteadyKeeps
<1>2. CASE \/ \E k \in Conns :
                 (\E u \in Users : Open(k, u)) \/ Read(k) \/ Close(k) \/ Drained(k)
           \/ \E p \in Puts, k \in Conns, c \in Conversations \cup {NoConv} : PutCheck(p, k, c)
  BY <1>2, ConnStepSteady, SteadyKeeps
<1>3. ASSUME NEW p \in Puts, PutApply(p)
      PROVE  JoinInv'
  BY <1>3, PutApplyJoins
<1>4. ASSUME NEW t \in Turns, GenStep(t)
      PROVE  JoinInv'
  BY <1>4, GenSteady, SteadyKeeps
<1>5. ASSUME NEW t \in Turns,
             \/ \E c \in Conversations : Begin(t, c)
             \/ HandlerStep(t) \/ Dropped(t) \/ Cleanup(t) \/ Stop(t) \/ RawEvent(t)
      PROVE  JoinInv'
  BY <1>5, RestSteady, SteadyKeeps
<1>6. ASSUME NEW t \in Turns, Start(t) \/ Content(t)
      PROVE  JoinInv'
  BY <1>6, StartJoins, ContentJoins
<1>7. ASSUME NEW t \in Turns, ReadTail(t) \/ Cancel(t) \/ AgentEnds(t) \/ Panic(t)
      PROVE  JoinInv'
  <2>1. Host # "agent_core"
    OBVIOUS
  <2>2. PICK finish \in Finishes : Terminal(t, finish)
    BY <1>7, <2>1, EndIsTerminal
  <2>3. QED
    BY <2>2, TerminalJoins
<1>8. QED
  BY <1>1, <1>2, <1>3, <1>4, <1>5, <1>6, <1>7 DEF Next, TaskStep

LEMMA JoinInit == Init => JoinInv
<1> SUFFICES ASSUME Init PROVE JoinInv
  OBVIOUS
<1>1. \A t \in Turns : turns[t].n = 0 /\ turns[t].pc = "none"
  BY DEF Init, NewTurn
<1>2. DOMAIN slots = {} /\ \A k \in Conns : conns[k].seen = <<>>
  BY DEF Init
<1>3. \A k \in Conns, t \in Turns : Unseen(conns[k].seen, t)
  BY <1>2 DEF Unseen
<1>4. QED
  BY <1>1, <1>2, <1>3 DEF JoinInv, FreshInv, BufferInv, JoinedInv, Running

LEMMA JoinInvariant ==
    ASSUME Host = "legacy"
    PROVE  Spec => [](TypeInv /\ LockInv /\ CapsInv /\ OwnInv /\ JoinInv)
<1>1. TypeInv /\ LockInv /\ CapsInv /\ OwnInv /\ JoinInv /\ [Next]_vars => JoinInv'
  BY JoinPreserved
<1>2. QED
  BY <1>1, JoinInit, LockInvariant, CapsInvariant, OwnInvariant, PTL DEF Spec

LEMMA JoinedIsCaughtUp ==
    ASSUME TypeInv, LockInv, JoinInv
    PROVE  CaughtUp
<1> SUFFICES ASSUME NEW k \in Listed(conns), NEW t \in Turns,
                    turns[t].pc = "running", conns[k].active = turns[t].conv
             PROVE  \E m \in 1..Len(conns[k].seen) :
                      /\ conns[k].seen[m] = [turn |-> t, no |-> 0]
                      /\ \A i \in 1..(m - 1) : conns[k].seen[i].turn # t
                      /\ \A i \in (m + 1)..Len(conns[k].seen) :
                            conns[k].seen[i] =
                              [turn |-> t, no |-> turns[t].n - (Len(conns[k].seen) - i)]
                      /\ Len(conns[k].seen) - m \in Retained(turns[t].n)..turns[t].n
  BY DEF CaughtUp
<1>1. k \in Conns /\ conns[k].listed /\ Running(t)
  BY DEF Listed, Running
<1>2. PICK n \in Nat : n = turns[t].n
  BY TypeParts DEF TurnsType, Turn
<1>3. PICK s \in Seq(Frame) : s = conns[k].seen
  BY <1>1, TypeParts DEF Conn
<1>4. PICK b : b = slots[turns[t].conv]
  OBVIOUS
<1>5. Holds(b, t, n) /\ Joined(s, b, t, n)
  BY <1>1, <1>2, <1>3, <1>4 DEF JoinInv, BufferInv, JoinedInv
<1>6. PICK m \in 1..Len(s) : JoinedAt(s, b, t, n, m)
  BY <1>5 DEF Joined
<1>7. /\ s[m] = [turn |-> t, no |-> 0]
      /\ \A i \in 1..(m - 1) : s[i].turn # t
      /\ \A i \in (m + 1)..Len(s) : s[i] = [turn |-> t, no |-> n - (Len(s) - i)]
      /\ Len(s) - m \in Len(b.frames)..n
  BY <1>6 DEF JoinedAt, Numbered
<1>8. Len(s) - m \in Retained(n)..n
  <2>1. PICK x : x = Len(b.frames)
    OBVIOUS
  <2>2. x \in Retained(n)..n /\ Retained(n) \in Nat
    BY <1>5, <2>1, SizesAssumption DEF Holds, Retained
  <2>3. Len(s) - m \in x..n
    BY <1>7, <2>1
  <2>4. QED
    BY <2>2, <2>3
<1>9. QED
  BY <1>2, <1>3, <1>6, <1>7, <1>8

\* A connection that subscribes in mid-turn has, at every moment, started and then all
\* of the turn's content up to the last frame, at least as much as a buffer retains,
\* without gap or duplicate (set_subscription replays under the lock that
\* publish_frame takes).
THEOREM ChatCaughtUp == ASSUME Host = "legacy" PROVE Spec => []CaughtUp
BY JoinInvariant, JoinedIsCaughtUp, PTL

=============================================================================
