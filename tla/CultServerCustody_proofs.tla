----------------------- MODULE CultServerCustody_proofs -----------------------
(***************************************************************************)
(* CultServer implements MessageCustody, for every value of the constants: *)
(* each step of the server moves the messages as one action of the         *)
(* abstract specification does, or leaves all of them where they are.      *)
(***************************************************************************)
EXTENDS CultServerCustody, CultServerMessages_proofs

-----------------------------------------------------------------------------
(* The refinement mapping, by the place of the one copy of a message. *)

\* Message id is in the custody s with deadline d.
Where(id, s, d) ==
  \/ \E o, i : /\ QueueAt(o, i, id)
               /\ s = "queued" /\ d = queue[o][i].expires_at
  \/ \E o, i : /\ HoldAt(o, i, id) /\ pc[o] = "enqueue"
               /\ s = "held" /\ d = held[o][i].expires_at
  \/ \E o, i : /\ HoldAt(o, i, id) /\ pc[o] = "drain"
               /\ s = "inflight" /\ d = None
  \/ \E o, i : RxAt(o, i, id) /\ s = "inflight" /\ d = None
  \/ \E o, i : InboxAt(o, i, id) /\ s = "received" /\ d = None
  \/ /\ \A k, o, i : ~At(k, o, i, id)
     /\ s = (IF id \in sent THEN "lost" ELSE "unsent") /\ d = None

LEMMA SomeWhere ==
  ASSUME CopyInv, NEW id \in MsgId
  PROVE  \E s, d : Where(id, s, d)
<1>1. CASE \A k, o, i : ~At(k, o, i, id)
  BY <1>1 DEF Where
<1>2. ASSUME NEW k, NEW o, NEW i, At(k, o, i, id)
      PROVE  \E s, d : Where(id, s, d)
  <2>1. HoldAt(o, i, id) => pc[o] \in {"drain", "enqueue"}
    BY DEF CopyInv, HeldWhere, TypeInv, TypeOK, HoldAt
  <2>2. CASE QueueAt(o, i, id)
    BY <2>2 DEF Where
  <2>3. CASE HoldAt(o, i, id)
    BY <2>1, <2>3 DEF Where
  <2>4. CASE RxAt(o, i, id)
    BY <2>4 DEF Where
  <2>5. CASE InboxAt(o, i, id)
    BY <2>5 DEF Where
  <2> QED BY <1>2, <2>2, <2>3, <2>4, <2>5 DEF At
<1> QED BY <1>1, <1>2

\* The predicates of the mapping, by places.
LEMMA MappingAt ==
  ASSUME TypeOK, NEW id
  PROVE  /\ \A a \in Address : Has(queue[a], id) <=> \E i : QueueAt(a, i, id)
         /\ \A c \in Conn : Has(held[c], id) <=> \E i : HoldAt(c, i, id)
         /\ InQueue(id) <=> \E o, i : QueueAt(o, i, id)
         /\ \A l : HeldAt(id, l) <=> \E o, i : HoldAt(o, i, id) /\ pc[o] = l
         /\ InChannel(id) <=> \E o, i : RxAt(o, i, id)
         /\ Received(id) <=> \E o, i : InboxAt(o, i, id)
<1>1. /\ \A a \in Address : DOMAIN queue[a] = 1..Len(queue[a])
      /\ \A c \in Conn : DOMAIN held[c] = 1..Len(held[c])
      /\ \A c \in Conn : DOMAIN rx[c] = 1..Len(rx[c])
      /\ \A c \in Conn : DOMAIN inbox[c] = 1..Len(inbox[c])
  BY DEF TypeOK
<1>2. \A a \in Address : Has(queue[a], id) <=> \E i : QueueAt(a, i, id)
  BY <1>1 DEF Has, QueueAt
<1>3. \A c \in Conn : Has(held[c], id) <=> \E i : HoldAt(c, i, id)
  BY <1>1 DEF Has, HoldAt
<1>4. InQueue(id) <=> \E o, i : QueueAt(o, i, id)
  BY <1>2 DEF InQueue, QueueAt
<1>5. \A l : HeldAt(id, l) <=> \E o, i : HoldAt(o, i, id) /\ pc[o] = l
  BY <1>3 DEF HeldAt, HoldAt
<1>6. InChannel(id) <=> \E o, i : RxAt(o, i, id)
  BY <1>1 DEF InChannel, RxAt, Incoming
<1>7. Received(id) <=> \E o, i : InboxAt(o, i, id)
  BY <1>1 DEF Received, InboxAt
<1> QED BY <1>2, <1>3, <1>4, <1>5, <1>6, <1>7

\* The mapping gives exactly the custody and the deadline of the place.
LEMMA MappingIsWhere ==
  ASSUME CopyInv, NEW id \in MsgId, NEW s, NEW d, Where(id, s, d)
  PROVE  CustodyOf(id) = s /\ DeadlineOf(id) = d
<1>0. TypeOK /\ Unique(id) /\ Fresh(id)
  BY DEF CopyInv, TypeInv
<1>u. \A k, o, i, l, p, j : At(k, o, i, id) /\ At(l, p, j, id) => k = l /\ o = p /\ i = j
  BY <1>0 DEF Unique
<1>m. /\ \A a \in Address : Has(queue[a], id) <=> \E i : QueueAt(a, i, id)
      /\ \A c \in Conn : Has(held[c], id) <=> \E i : HoldAt(c, i, id)
      /\ InQueue(id) <=> \E o, i : QueueAt(o, i, id)
      /\ \A l : HeldAt(id, l) <=> \E o, i : HoldAt(o, i, id) /\ pc[o] = l
      /\ InChannel(id) <=> \E o, i : RxAt(o, i, id)
      /\ Received(id) <=> \E o, i : InboxAt(o, i, id)
  BY <1>0, MappingAt
<1>a. /\ \A o, i : QueueAt(o, i, id) <=> At("queue", o, i, id)
      /\ \A o, i : HoldAt(o, i, id) <=> At("held", o, i, id)
      /\ \A o, i : RxAt(o, i, id) <=> At("rx", o, i, id)
      /\ \A o, i : InboxAt(o, i, id) <=> At("inbox", o, i, id)
  BY DEF At
<1>f. (\E k, o, i : At(k, o, i, id)) => id \in sent
  BY <1>0 DEF Fresh
<1>1. ASSUME NEW o, NEW i, QueueAt(o, i, id), s = "queued", d = queue[o][i].expires_at
      PROVE  CustodyOf(id) = s /\ DeadlineOf(id) = d
  <2>1. /\ id \in sent /\ ~Received(id) /\ ~HeldAt(id, "enqueue") /\ InQueue(id)
        /\ ~HeldAt(id, "drain") /\ ~InChannel(id)
    BY <1>1, <1>u, <1>m, <1>a, <1>f
  <2>2. CustodyOf(id) = "queued"
    BY <2>1 DEF CustodyOf
  <2> DEFINE a == CHOOSE b \in Address : Has(queue[b], id)
             n == CHOOSE j \in DOMAIN queue[a] : queue[a][j].msg.id = id
  <2>3. a \in Address /\ Has(queue[a], id)
    <3>1. \E b \in Address : Has(queue[b], id)
      BY <1>1, <1>m DEF QueueAt
    <3> QED BY <3>1
  <2>4. a = o
    <3> HIDE DEF a
    <3> QED BY <1>1, <1>u, <1>m, <1>a, <2>3
  <2>5. n \in DOMAIN queue[a] /\ queue[a][n].msg.id = id
    <3>1. \E j \in DOMAIN queue[a] : queue[a][j].msg.id = id
      BY <2>3 DEF Has
    <3> HIDE DEF a
    <3> QED BY <3>1
  <2>6. n = i
    <3> HIDE DEF n
    <3>1. o \in Address /\ DOMAIN queue[o] = 1..Len(queue[o])
      BY <1>0, <1>1 DEF QueueAt, TypeOK
    <3>2. QueueAt(o, n, id)
      BY <2>4, <2>5, <3>1 DEF QueueAt
    <3> QED BY <1>1, <1>u, <1>a, <3>2
  <2>7. DeadlineOf(id) = queue[a][n].expires_at
    BY <2>2 DEF DeadlineOf
  <2> HIDE DEF a, n
  <2> QED BY <1>1, <2>2, <2>4, <2>6, <2>7
<1>2. ASSUME NEW o, NEW i, HoldAt(o, i, id), pc[o] = "enqueue",
             s = "held", d = held[o][i].expires_at
      PROVE  CustodyOf(id) = s /\ DeadlineOf(id) = d
  <2>1. /\ id \in sent /\ ~Received(id) /\ HeldAt(id, "enqueue") /\ ~InQueue(id)
        /\ ~HeldAt(id, "drain") /\ ~InChannel(id)
    BY <1>2, <1>u, <1>m, <1>a, <1>f
  <2>2. CustodyOf(id) = "held"
    BY <2>1 DEF CustodyOf
  <2> DEFINE c == CHOOSE b \in Conn : Has(held[b], id)
             n == CHOOSE j \in DOMAIN held[c] : held[c][j].msg.id = id
  <2>3. c \in Conn /\ Has(held[c], id)
    <3>1. \E b \in Conn : Has(held[b], id)
      BY <1>2, <1>m DEF HoldAt
    <3> QED BY <3>1
  <2>4. c = o
    <3> HIDE DEF c
    <3> QED BY <1>2, <1>u, <1>m, <1>a, <2>3
  <2>5. n \in DOMAIN held[c] /\ held[c][n].msg.id = id
    <3>1. \E j \in DOMAIN held[c] : held[c][j].msg.id = id
      BY <2>3 DEF Has
    <3> HIDE DEF c
    <3> QED BY <3>1
  <2>6. n = i
    <3> HIDE DEF n
    <3>1. o \in Conn /\ DOMAIN held[o] = 1..Len(held[o])
      BY <1>0, <1>2 DEF HoldAt, TypeOK
    <3>2. HoldAt(o, n, id)
      BY <2>4, <2>5, <3>1 DEF HoldAt
    <3> QED BY <1>2, <1>u, <1>a, <3>2
  <2>7. DeadlineOf(id) = held[c][n].expires_at
    BY <2>2 DEF DeadlineOf
  <2> HIDE DEF c, n
  <2> QED BY <1>2, <2>2, <2>4, <2>6, <2>7
<1>3. ASSUME s \notin {"queued", "held"}, CustodyOf(id) = s, d = None
      PROVE  CustodyOf(id) = s /\ DeadlineOf(id) = d
  BY <1>3 DEF DeadlineOf
<1>4. ASSUME NEW o, NEW i, (HoldAt(o, i, id) /\ pc[o] = "drain") \/ RxAt(o, i, id)
      PROVE  CustodyOf(id) = "inflight"
  <2>1. /\ id \in sent /\ ~Received(id) /\ ~HeldAt(id, "enqueue") /\ ~InQueue(id)
        /\ HeldAt(id, "drain") \/ InChannel(id)
    BY <1>4, <1>u, <1>m, <1>a, <1>f
  <2> QED BY <2>1 DEF CustodyOf
<1>5. ASSUME NEW o, NEW i, InboxAt(o, i, id)
      PROVE  CustodyOf(id) = "received"
  <2>1. /\ id \in sent /\ Received(id) /\ ~HeldAt(id, "enqueue") /\ ~InQueue(id)
        /\ ~HeldAt(id, "drain") /\ ~InChannel(id)
    BY <1>5, <1>u, <1>m, <1>a, <1>f
  <2> QED BY <2>1 DEF CustodyOf
<1>6. ASSUME \A k, o, i : ~At(k, o, i, id)
      PROVE  CustodyOf(id) = IF id \in sent THEN "lost" ELSE "unsent"
  <2>1. /\ ~Received(id) /\ ~HeldAt(id, "enqueue") /\ ~InQueue(id)
        /\ ~HeldAt(id, "drain") /\ ~InChannel(id)
    BY <1>6, <1>m, <1>a
  <2> QED BY <2>1 DEF CustodyOf
<1> QED BY <1>1, <1>2, <1>3, <1>4, <1>5, <1>6 DEF Where

Determined == \A id \in MsgId : \A s, d :
                Where(id, s, d) <=> CustodyOf(id) = s /\ DeadlineOf(id) = d

LEMMA MappingDetermined == CopyInv => Determined
  BY SomeWhere, MappingIsWhere DEF Determined

-----------------------------------------------------------------------------
(* The abstract actions, message by message. *)

CustodyStays(id) ==
  CustodyOf(id)' = CustodyOf(id) /\ DeadlineOf(id)' = DeadlineOf(id)

CustodyGoes(id, s, d) == CustodyOf(id)' = s /\ DeadlineOf(id)' = d

AbstractStep == [Custody!CustodyNext]_(Custody!custodyVars)

LEMMA AsStutter ==
  ASSUME now' = now, \A id \in MsgId : CustodyStays(id)
  PROVE  AbstractStep
  BY DEF CustodyStays, AbstractStep, Custody!custodyVars

LEMMA AsHold ==
  ASSUME now' = now, NEW m \in MsgId, CustodyOf(m) = "unsent",
         CustodyGoes(m, "held", now + TTL),
         \A id \in MsgId \ {m} : CustodyStays(id)
  PROVE  AbstractStep
<1>1. Custody!Hold(m)
  BY DEF CustodyStays, CustodyGoes, Custody!Hold, Custody!Move
<1> QED BY <1>1 DEF AbstractStep, Custody!CustodyNext

LEMMA AsEnqueue ==
  ASSUME now' = now, NEW m \in MsgId, CustodyOf(m) = "held",
         CustodyGoes(m, "queued", DeadlineOf(m)),
         \A id \in MsgId \ {m} : CustodyStays(id)
  PROVE  AbstractStep
<1>1. Custody!Enqueue(m)
  BY DEF CustodyStays, CustodyGoes, Custody!Enqueue, Custody!Move
<1> QED BY <1>1 DEF AbstractStep, Custody!CustodyNext

LEMMA AsForward ==
  ASSUME now' = now, NEW m \in MsgId, CustodyOf(m) = "unsent",
         NEW s \in {"inflight", "lost"}, CustodyGoes(m, s, DeadlineOf(m)),
         \A id \in MsgId \ {m} : CustodyStays(id)
  PROVE  AbstractStep
<1>1. Custody!Move({m}, s)
  BY DEF CustodyStays, CustodyGoes, Custody!Move
<1>2. Custody!Forward(m)
  BY <1>1 DEF CustodyStays, CustodyGoes, Custody!Forward
<1> QED BY <1>2 DEF AbstractStep, Custody!CustodyNext

LEMMA AsFlush ==
  ASSUME now' = now, NEW S \in SUBSET MsgId, S # {},
         \A id \in S : /\ CustodyOf(id) = "queued"
                       /\ CustodyGoes(id, IF DeadlineOf(id) <= now THEN "lost" ELSE "inflight", None),
         \A id \in MsgId \ S : CustodyStays(id)
  PROVE  AbstractStep
<1>1. Custody!Flush(S)
  BY DEF CustodyStays, CustodyGoes, Custody!Flush, Custody!Forget
<1> QED BY <1>1 DEF AbstractStep, Custody!CustodyNext

LEMMA AsReceive ==
  ASSUME now' = now, NEW m \in MsgId, CustodyOf(m) = "inflight",
         CustodyGoes(m, "received", DeadlineOf(m)),
         \A id \in MsgId \ {m} : CustodyStays(id)
  PROVE  AbstractStep
<1>1. Custody!Receive(m)
  BY DEF CustodyStays, CustodyGoes, Custody!Receive, Custody!Move
<1> QED BY <1>1 DEF AbstractStep, Custody!CustodyNext

LEMMA AsDrop ==
  ASSUME now' = now, NEW S \in SUBSET MsgId, S # {},
         \A id \in S : /\ CustodyOf(id) = "inflight"
                       /\ CustodyGoes(id, "lost", DeadlineOf(id)),
         \A id \in MsgId \ S : CustodyStays(id)
  PROVE  AbstractStep
<1>1. Custody!Drop(S)
  BY DEF CustodyStays, CustodyGoes, Custody!Drop, Custody!Move
<1> QED BY <1>1 DEF AbstractStep, Custody!CustodyNext

LEMMA AsCrash ==
  ASSUME now' = now,
         \A id \in MsgId : CustodyOf(id) \in {"held", "queued", "inflight"} =>
           CustodyGoes(id, "lost", None),
         \A id \in MsgId : CustodyOf(id) \notin {"held", "queued", "inflight"} =>
           CustodyStays(id)
  PROVE  AbstractStep
<1> DEFINE inside == {id \in MsgId : CustodyOf(id) \in {"held", "queued", "inflight"}}
<1>1. CASE inside = {}
  BY <1>1, AsStutter
<1>2. CASE inside # {}
  <2>1. inside = {m \in MsgId : [id \in MsgId |-> CustodyOf(id)][m] \in {"held", "queued", "inflight"}}
    OBVIOUS
  <2>2. Custody!Move(inside, "lost") /\ Custody!Forget(inside)
    BY DEF CustodyStays, CustodyGoes, Custody!Move, Custody!Forget
  <2>3. Custody!Crash
    BY <1>2, <2>1, <2>2 DEF Custody!Crash
  <2> QED BY <2>3 DEF AbstractStep, Custody!CustodyNext
<1> QED BY <1>1, <1>2

-----------------------------------------------------------------------------
(* What the steps do to the custody of each message. *)

LEMMA StaysWhere ==
  ASSUME Determined, Determined', NEW id \in MsgId,
         \A s, d : Where(id, s, d) => Where(id, s, d)'
  PROVE  CustodyStays(id)
  BY DEF Determined, CustodyStays

LEMMA GoesWhere ==
  ASSUME Determined', NEW id \in MsgId, NEW s, NEW d, Where(id, s, d)'
  PROVE  CustodyGoes(id, s, d)
  BY DEF Determined, CustodyGoes

LEMMA IsWhere ==
  ASSUME Determined, NEW id \in MsgId, NEW s, NEW d, Where(id, s, d)
  PROVE  CustodyOf(id) = s /\ DeadlineOf(id) = d
  BY DEF Determined

LEMMA StillStays ==
  ASSUME TypeInv, Still, NEW id, id \in sent' <=> id \in sent
  PROVE  \A s, d : Where(id, s, d) => Where(id, s, d)'
<1>1. /\ \A o, i : QueueAt(o, i, id)' <=> QueueAt(o, i, id)
      /\ \A o, i : HoldAt(o, i, id)' <=> HoldAt(o, i, id)
      /\ \A o, i : RxAt(o, i, id)' <=> RxAt(o, i, id)
      /\ \A o, i : InboxAt(o, i, id)' <=> InboxAt(o, i, id)
  BY DEF Still, QueueAt, HoldAt, InboxAt
<1>2. \A o, i : HoldAt(o, i, id) => pc'[o] = pc[o]
  BY DEF TypeInv, TypeOK, Still, HoldAt
<1>3. queue' = queue /\ held' = held
  BY DEF Still
<1>4. \A k, o, i : At(k, o, i, id)' <=> At(k, o, i, id)
  BY <1>1 DEF At
<1> QED BY <1>1, <1>2, <1>3, <1>4 DEF Where

\* The steps that take a message from its sender find it nowhere.
LEMMA UnsentWhere ==
  ASSUME CopyInv, NEW id \in MsgId, id \notin sent
  PROVE  Where(id, "unsent", None)
  BY DEF CopyInv, Fresh, Where

LEMMA QuietCustody ==
  ASSUME CopyInv, Determined, Determined', NEW c \in Conn, QuietAction(c)
  PROVE  AbstractStep
<1>0. TypeInv /\ HeldWhere
  BY DEF CopyInv
<1>1. Still
  BY <1>0, QuietIsStill
<1>2. now' = now
  BY DEF QuietAction, Accept, Register, InsertClient, MarkOnline, FinishRegister,
     GetPublicKey, LookupKey, CheckStatus, RejectMessage, EndReceive, MarkOffline,
     RemoveClient, LoseLink, world
<1>3. CASE sent' = sent
  BY <1>0, <1>1, <1>2, <1>3, StillStays, StaysWhere, AsStutter
<1>4. ASSUME NEW m \in Message, RejectMessage(c, m) PROVE AbstractStep
  <2>1. m.id \in MsgId /\ m.id \notin sent /\ sent' = sent \cup {m.id}
    BY <1>4 DEF RejectMessage, Message
  <2>2. Where(m.id, "unsent", None)
    BY <2>1, UnsentWhere
  <2>3. \A k, o, i : ~At(k, o, i, m.id)'
    BY <1>1, <2>1 DEF Still, CopyInv, Fresh, At, QueueAt, HoldAt, InboxAt
  <2>4. Where(m.id, "lost", None)'
    BY <2>1, <2>3 DEF Where
  <2>5. CustodyOf(m.id) = "unsent" /\ DeadlineOf(m.id) = None
    BY <2>1, <2>2, IsWhere
  <2>6. CustodyGoes(m.id, "lost", None)
    BY <2>1, <2>4, GoesWhere
  <2>7. ASSUME NEW id \in MsgId \ {m.id} PROVE CustodyStays(id)
    BY <1>0, <1>1, <2>1, StillStays, StaysWhere
  <2> QED BY <1>2, <2>1, <2>5, <2>6, <2>7, AsForward
<1>5. sent' = sent \/ \E m \in Message : RejectMessage(c, m)
  BY DEF QuietAction, Accept, Register, InsertClient, MarkOnline, FinishRegister,
     GetPublicKey, LookupKey, CheckStatus, EndReceive, MarkOffline, RemoveClient, LoseLink
<1> QED BY <1>3, <1>4, <1>5

LEMMA ForwardCustody ==
  ASSUME CopyInv, Determined, Determined',
         NEW c \in Conn, NEW m \in Message, ForwardMessage(c, m)
  PROVE  AbstractStep
<1>0. TypeInv
  BY DEF CopyInv
<1>1. /\ m.id \in MsgId /\ m.id \notin sent /\ sent' = sent \cup {m.id}
      /\ now' = now /\ queue' = queue /\ held' = held /\ inbox' = inbox /\ pc' = pc
  BY DEF ForwardMessage, Message, world, shared, handler
<1>t. PICK t : t = clients[m.to]
  OBVIOUS
<1>2. \A o, i, id : RxAt(o, i, id)' <=>
         \/ RxAt(o, i, id)
         \/ o = t /\ i = Len(rx[o]) + 1 /\ send_task[o] # "stopped" /\ m.id = id
  BY <1>0, <1>t, ForwardMoves
<1>3. CustodyOf(m.id) = "unsent" /\ DeadlineOf(m.id) = None
  BY <1>1, UnsentWhere, IsWhere
<1>4. \A k, o, i : ~At(k, o, i, m.id)
  BY <1>1 DEF CopyInv, Fresh
<1>5. \A o, i, id : /\ QueueAt(o, i, id)' <=> QueueAt(o, i, id)
                    /\ HoldAt(o, i, id)' <=> HoldAt(o, i, id)
                    /\ InboxAt(o, i, id)' <=> InboxAt(o, i, id)
  BY <1>1 DEF QueueAt, HoldAt, InboxAt
<1>6. ASSUME NEW id \in MsgId \ {m.id} PROVE CustodyStays(id)
  <2>1. \A o, i : RxAt(o, i, id)' <=> RxAt(o, i, id)
    BY <1>2
  <2>2. \A k, o, i : At(k, o, i, id)' <=> At(k, o, i, id)
    BY <1>5, <2>1 DEF At
  <2>3. \A s, d : Where(id, s, d) => Where(id, s, d)'
    BY <1>1, <1>5, <2>1, <2>2 DEF Where
  <2> QED BY <2>3, StaysWhere
<1>7. CASE send_task[t] # "stopped"
  <2>1. \A i : i = Len(rx[t]) + 1 => RxAt(t, i, m.id)'
    BY <1>2, <1>7
  <2>2. Where(m.id, "inflight", None)'
    BY <2>1 DEF Where
  <2>3. CustodyGoes(m.id, "inflight", None)
    BY <1>1, <2>2, GoesWhere
  <2> QED BY <1>1, <1>3, <1>6, <2>3, AsForward
<1>8. CASE send_task[t] = "stopped"
  <2>1. \A k, o, i : ~At(k, o, i, m.id)'
    BY <1>2, <1>4, <1>5, <1>8 DEF At
  <2>2. Where(m.id, "lost", None)'
    BY <1>1, <2>1 DEF Where
  <2>3. CustodyGoes(m.id, "lost", None)
    BY <1>1, <2>2, GoesWhere
  <2> QED BY <1>1, <1>3, <1>6, <2>3, AsForward
<1> QED BY <1>7, <1>8

LEMMA HoldCustody ==
  ASSUME CopyInv, Determined, Determined',
         NEW c \in Conn, NEW m \in Message, HoldMessage(c, m)
  PROVE  AbstractStep
<1>0. TypeInv /\ HeldWhere
  BY DEF CopyInv
<1>1. /\ m.id \in MsgId /\ m.id \notin sent /\ sent' = sent \cup {m.id}
      /\ now' = now /\ queue' = queue /\ rx' = rx /\ inbox' = inbox
      /\ pc[c] = "receive" /\ pc' = [pc EXCEPT ![c] = "enqueue"]
  BY DEF HoldMessage, Receives, Goto, Message, world, shared, channel
<1>2. /\ \A o, i, id : o # c => (HoldAt(o, i, id)' <=> HoldAt(o, i, id))
      /\ \A i, id : HoldAt(c, i, id)' <=> i = 1 /\ m.id = id
      /\ held'[c] = <<[msg |-> m, expires_at |-> now + TTL]>>
  BY <1>0, HoldMoves
<1>3. CustodyOf(m.id) = "unsent"
  BY <1>1, UnsentWhere, IsWhere
<1>4. \A o, i, id : /\ QueueAt(o, i, id)' <=> QueueAt(o, i, id)
                    /\ RxAt(o, i, id)' <=> RxAt(o, i, id)
                    /\ InboxAt(o, i, id)' <=> InboxAt(o, i, id)
  BY <1>1 DEF QueueAt, RxAt, InboxAt
<1>5. pc \in [Conn -> Label] /\ held \in [Conn -> Seq(QueuedMessage)]
  BY <1>0 DEF TypeInv, TypeOK
<1>6. \A i, id : ~HoldAt(c, i, id)
  BY <1>0, <1>1, <1>5 DEF HeldWhere, HoldAt
<1>7. \A o : o # c => pc'[o] = pc[o] /\ held'[o] = held[o]
  BY <1>1, <1>5 DEF HoldMessage
<1>8. ASSUME NEW id \in MsgId \ {m.id} PROVE CustodyStays(id)
  <2>1. \A o, i : HoldAt(o, i, id)' <=> HoldAt(o, i, id)
    BY <1>2, <1>6
  <2>2. \A k, o, i : At(k, o, i, id)' <=> At(k, o, i, id)
    BY <1>4, <2>1 DEF At
  <2>3. \A o, i : HoldAt(o, i, id) => pc'[o] = pc[o] /\ held'[o] = held[o]
    BY <1>6, <1>7
  <2>4. \A s, d : Where(id, s, d) => Where(id, s, d)'
    BY <1>1, <1>4, <2>1, <2>2, <2>3 DEF Where
  <2> QED BY <2>4, StaysWhere
<1>9. CustodyGoes(m.id, "held", now + TTL)
  <2>1. HoldAt(c, 1, m.id)' /\ pc'[c] = "enqueue"
    BY <1>1, <1>2, <1>5
  <2>2. held'[c][1].expires_at = now + TTL
    BY <1>2
  <2>3. \A d : d = now + TTL => Where(m.id, "held", d)'
    BY <2>1, <2>2 DEF Where
  <2> QED BY <1>1, <2>3, GoesWhere
<1> QED BY <1>1, <1>3, <1>8, <1>9, AsHold

LEMMA EnqueueCustody ==
  ASSUME CopyInv, Determined, Determined', NEW c \in Conn, EnqueueMessage(c)
  PROVE  AbstractStep
<1>0. TypeInv /\ HeldWhere
  BY DEF CopyInv
<1>1. /\ now' = now /\ rx' = rx /\ inbox' = inbox /\ sent' = sent
      /\ pc[c] = "enqueue" /\ pc' = [pc EXCEPT ![c] = "receive"]
      /\ held' = [held EXCEPT ![c] = <<>>]
  BY DEF EnqueueMessage, Goto, world, channel
<1>q. PICK qm : qm = Head(held[c])
  OBVIOUS
<1>n. PICK n : n = Len(queue[qm.msg.to]) + 1
  OBVIOUS
<1>2. /\ pc \in [Conn -> Label] /\ held \in [Conn -> Seq(QueuedMessage)]
      /\ Len(held[c]) = 1 /\ qm = held[c][1]
  BY <1>0, <1>1, <1>q DEF TypeInv, TypeOK, HeldWhere
<1>3. /\ qm \in QueuedMessage /\ qm.msg.to \in Address
      /\ HoldAt(c, 1, qm.msg.id)
      /\ \A o, i, id : HoldAt(o, i, id)' <=> HoldAt(o, i, id) /\ o # c
      /\ \A o, i, id : QueueAt(o, i, id)' <=>
           \/ QueueAt(o, i, id)
           \/ o = qm.msg.to /\ i = Len(queue[o]) + 1 /\ HoldAt(c, 1, id)
      /\ \A a \in Address : \A i \in 1..Len(queue[a]) : queue'[a][i] = queue[a][i]
      /\ queue'[qm.msg.to][n] = qm
  <2>1. /\ qm \in QueuedMessage /\ qm.msg.to \in Address
        /\ HoldAt(c, 1, qm.msg.id)
        /\ queue'[qm.msg.to][n] = qm
    BY <1>0, <1>q, <1>n, EnqueueMoves
  <2>2. \A o, i, id : HoldAt(o, i, id)' <=> HoldAt(o, i, id) /\ o # c
    BY <1>0, EnqueueMoves
  <2>3. \A o, i, id : QueueAt(o, i, id)' <=>
          \/ QueueAt(o, i, id)
          \/ o = qm.msg.to /\ i = Len(queue[o]) + 1 /\ HoldAt(c, 1, id)
    BY <1>0, <1>q, EnqueueMoves
  <2>4. \A a \in Address : \A i \in 1..Len(queue[a]) : queue'[a][i] = queue[a][i]
    BY <1>0, EnqueueMoves
  <2> QED BY <2>1, <2>2, <2>3, <2>4
<1>4. qm.msg.id \in MsgId
  BY <1>3 DEF QueuedMessage, Message
<1>5. \A i, id : HoldAt(c, i, id) => i = 1 /\ id = qm.msg.id
  BY <1>2 DEF HoldAt
<1>6. \A o, i, id : /\ RxAt(o, i, id)' <=> RxAt(o, i, id)
                    /\ InboxAt(o, i, id)' <=> InboxAt(o, i, id)
  BY <1>1 DEF RxAt, InboxAt
<1>7. CustodyOf(qm.msg.id) = "held" /\ DeadlineOf(qm.msg.id) = qm.expires_at
  <2>1. Where(qm.msg.id, "held", qm.expires_at)
    BY <1>1, <1>2, <1>3 DEF Where
  <2> QED BY <1>4, <2>1, IsWhere
<1>8. CustodyGoes(qm.msg.id, "queued", qm.expires_at)
  <2>1. QueueAt(qm.msg.to, n, qm.msg.id)'
    BY <1>3, <1>n
  <2>2. Where(qm.msg.id, "queued", qm.expires_at)'
    BY <1>3, <2>1 DEF Where
  <2> QED BY <1>4, <2>2, GoesWhere
<1>9. ASSUME NEW id \in MsgId \ {qm.msg.id} PROVE CustodyStays(id)
  <2>1. /\ \A o, i : HoldAt(o, i, id)' <=> HoldAt(o, i, id)
        /\ \A o, i : QueueAt(o, i, id)' <=> QueueAt(o, i, id)
    BY <1>3, <1>5
  <2>2. \A k, o, i : At(k, o, i, id)' <=> At(k, o, i, id)
    BY <1>6, <2>1 DEF At
  <2>3. \A o, i : HoldAt(o, i, id) => pc'[o] = pc[o] /\ held'[o] = held[o]
    BY <1>1, <1>2, <1>5 DEF HoldAt
  <2>4. \A o, i : QueueAt(o, i, id) => queue'[o][i] = queue[o][i]
    BY <1>3 DEF QueueAt
  <2>5. \A s, d : Where(id, s, d) => Where(id, s, d)'
    BY <1>1, <1>6, <2>1, <2>2, <2>3, <2>4 DEF Where
  <2> QED BY <2>5, StaysWhere
<1> QED BY <1>1, <1>4, <1>7, <1>8, <1>9, AsEnqueue

\* The messages of the queue that a registration takes are lost or inflight.
LEMMA TakePendingCustody ==
  ASSUME CopyInv, Determined, Determined', NEW c \in Conn, TakePending(c)
  PROVE  AbstractStep
<1>0. TypeInv /\ HeldWhere /\ \A id \in MsgId : Fresh(id)
  BY DEF CopyInv
<1>1. /\ now' = now /\ rx' = rx /\ inbox' = inbox /\ sent' = sent
      /\ pc[c] = "flush" /\ pc' = [pc EXCEPT ![c] = "drain"]
      /\ held' = [held EXCEPT ![c] = ValidMessages(arg[c])]
      /\ queue' = [queue EXCEPT ![arg[c]] = <<>>]
  BY DEF TakePending, Goto, world, channel
<1>2. /\ pc \in [Conn -> Label] /\ held \in [Conn -> Seq(QueuedMessage)]
      /\ queue \in [Address -> Seq(QueuedMessage)] /\ now \in Nat
  BY <1>0 DEF TypeInv, TypeOK
<1>a. PICK a \in Address : a = arg[c]
  BY <1>0, TakePendingMoves
<1>p. PICK place : \A i, id : HoldAt(c, i, id)' <=>
        \E j : QueueAt(arg[c], j, id) /\ queue[arg[c]][j].expires_at > now /\ i = place[j]
  BY <1>0, TakePendingMoves
<1>3. \A i, id : HoldAt(c, i, id)' <=>
        \E j : QueueAt(a, j, id) /\ queue[a][j].expires_at > now /\ i = place[j]
  BY <1>a, <1>p
<1>4. /\ \A o, i, id : QueueAt(o, i, id)' <=> QueueAt(o, i, id) /\ o # a
      /\ \A o, i, id : o # c => (HoldAt(o, i, id)' <=> HoldAt(o, i, id))
  BY <1>0, <1>a, TakePendingMoves
<1>5. \A o, i, id : /\ RxAt(o, i, id)' <=> RxAt(o, i, id)
                    /\ InboxAt(o, i, id)' <=> InboxAt(o, i, id)
  BY <1>1 DEF RxAt, InboxAt
<1>6. \A i, id : ~HoldAt(c, i, id)
  <2>1. held[c] = <<>>
    BY <1>0, <1>1 DEF HeldWhere
  <2>2. 1..Len(held[c]) = {}
    BY <2>1
  <2> QED BY <2>2 DEF HoldAt
<1> DEFINE S == {id \in MsgId : \E j : QueueAt(a, j, id)}
<1>7. ASSUME NEW id \in MsgId \ S PROVE CustodyStays(id)
  <2>1. /\ \A o, i : QueueAt(o, i, id)' <=> QueueAt(o, i, id)
        /\ \A o, i : HoldAt(o, i, id)' <=> HoldAt(o, i, id)
    BY <1>3, <1>4, <1>6
  <2>2. \A k, o, i : At(k, o, i, id)' <=> At(k, o, i, id)
    BY <1>5, <2>1 DEF At
  <2>3. \A o, i : HoldAt(o, i, id) => pc'[o] = pc[o] /\ held'[o] = held[o]
    BY <1>1, <1>2, <1>6 DEF HoldAt
  <2>4. \A o, i : QueueAt(o, i, id) => queue'[o][i] = queue[o][i]
    BY <1>1, <1>2, <1>a DEF QueueAt
  <2>5. \A s, d : Where(id, s, d) => Where(id, s, d)'
    BY <1>1, <1>5, <2>1, <2>2, <2>3, <2>4 DEF Where
  <2> QED BY <2>5, StaysWhere
<1>8. ASSUME NEW id \in S
      PROVE  /\ CustodyOf(id) = "queued"
             /\ CustodyGoes(id, IF DeadlineOf(id) <= now THEN "lost" ELSE "inflight", None)
  <2>1. PICK j : QueueAt(a, j, id)
    BY <1>8
  <2>2. PICK d : d = queue[a][j].expires_at
    OBVIOUS
  <2>3. d \in Nat
    <3>1. queue[a] \in Seq(QueuedMessage) /\ j \in 1..Len(queue[a])
      BY <1>2, <2>1 DEF QueueAt
    <3>2. queue[a][j] \in QueuedMessage
      BY <3>1
    <3> QED BY <2>2, <3>2 DEF QueuedMessage
  <2>4. CustodyOf(id) = "queued" /\ DeadlineOf(id) = d
    <3>1. Where(id, "queued", d)
      BY <2>1, <2>2 DEF Where
    <3> QED BY <3>1, IsWhere
  <2>u. \A k, o, i : At(k, o, i, id) => k = "queue" /\ o = a /\ i = j
    BY <2>1 DEF CopyInv, Unique, At
  <2>5. /\ \A o, i : ~QueueAt(o, i, id)' /\ ~RxAt(o, i, id)' /\ ~InboxAt(o, i, id)'
        /\ \A o, i : o # c => ~HoldAt(o, i, id)'
    BY <1>4, <1>5, <2>u DEF At
  <2>6. CASE d <= now
    <3>1. \A i : ~HoldAt(c, i, id)'
      <4> SUFFICES ASSUME NEW i, HoldAt(c, i, id)' PROVE FALSE
        OBVIOUS
      <4>1. PICK n : QueueAt(a, n, id) /\ queue[a][n].expires_at > now
        BY <1>3
      <4>2. n = j
        BY <2>u, <4>1 DEF At
      <4> QED BY <1>2, <2>2, <2>3, <2>6, <4>1, <4>2
    <3>2. \A k, o, i : ~At(k, o, i, id)'
      BY <2>5, <3>1 DEF At
    <3>3. id \in sent
      BY <1>0, <2>1 DEF Fresh, At
    <3>4. Where(id, "lost", None)'
      BY <1>1, <3>2, <3>3 DEF Where
    <3> QED BY <2>4, <2>6, <3>4, GoesWhere
  <2>7. CASE ~(d <= now)
    <3>1. d > now
      BY <1>2, <2>3, <2>7
    <3>2. HoldAt(c, place[j], id)'
      BY <1>3, <2>1, <2>2, <3>1
    <3>3. pc'[c] = "drain"
      BY <1>1, <1>2
    <3>4. Where(id, "inflight", None)'
      BY <3>2, <3>3 DEF Where
    <3> QED BY <2>4, <2>7, <3>4, GoesWhere
  <2> QED BY <2>6, <2>7
<1> HIDE DEF S
<1>9. S \in SUBSET MsgId
  BY DEF S
<1>10. CASE S = {}
  BY <1>1, <1>7, <1>10, AsStutter
<1>11. CASE S # {}
  BY <1>1, <1>7, <1>8, <1>9, <1>11, AsFlush
<1> QED BY <1>10, <1>11

\* The message that leaves the loop goes to the channel, or is lost with it.
LEMMA SendPendingCustody ==
  ASSUME CopyInv, Determined, Determined', NEW c \in Conn, SendPending(c)
  PROVE  AbstractStep
<1>0. TypeInv /\ HeldWhere /\ \A id \in MsgId : Fresh(id) /\ Unique(id)
  BY DEF CopyInv
<1>1. /\ now' = now /\ queue' = queue /\ inbox' = inbox /\ sent' = sent
      /\ pc[c] = "drain" /\ pc' = pc
      /\ held' = [held EXCEPT ![c] = Tail(@)] /\ held[c] # <<>>
  BY DEF SendPending, world, shared
<1>2. /\ held \in [Conn -> Seq(QueuedMessage)]
      /\ \A o \in Conn : Len(held[o]) \in Nat /\ Len(rx[o]) \in Nat
  BY <1>0 DEF TypeInv, TypeOK
<1>3. \A o, i, id : o # c => (HoldAt(o, i, id)' <=> HoldAt(o, i, id))
  BY <1>0, SendPendingMoves
<1>4. \A i, id : HoldAt(c, i, id)' <=> i \in Nat \ {0} /\ HoldAt(c, i + 1, id)
  BY <1>0, SendPendingMoves
<1>5. \A o, i, id : RxAt(o, i, id)' <=>
        \/ RxAt(o, i, id)
        \/ /\ o = c /\ i = Len(rx[c]) + 1 /\ send_task[c] # "stopped"
           /\ HoldAt(c, 1, id)
  BY <1>0, SendPendingMoves
<1>6. \A o, i, id : /\ QueueAt(o, i, id)' <=> QueueAt(o, i, id)
                    /\ InboxAt(o, i, id)' <=> InboxAt(o, i, id)
  BY <1>1 DEF QueueAt, InboxAt
<1>m. PICK m : m = held[c][1].msg.id
  OBVIOUS
<1>7. m \in MsgId /\ HoldAt(c, 1, m) /\ \A id : HoldAt(c, 1, id) => id = m
  <2>1. held[c] \in Seq(QueuedMessage) /\ 1 \in 1..Len(held[c])
    BY <1>1, <1>2
  <2>2. held[c][1] \in QueuedMessage
    BY <2>1
  <2> QED BY <1>m, <2>1, <2>2 DEF HoldAt, QueuedMessage, Message
<1>8. Where(m, "inflight", None)
  BY <1>1, <1>7 DEF Where
<1>9. ASSUME NEW id \in MsgId \ {m} PROVE CustodyStays(id)
  <2>1. \A o, i : RxAt(o, i, id)' <=> RxAt(o, i, id)
    BY <1>5, <1>7
  <2>2. \A i : HoldAt(c, i, id) => \E j : HoldAt(c, j, id)'
    <3> SUFFICES ASSUME NEW i, HoldAt(c, i, id) PROVE HoldAt(c, i - 1, id)'
      OBVIOUS
    <3>1. i # 1
      BY <1>7
    <3>2. i \in Nat \ {0} /\ i - 1 \in Nat \ {0} /\ (i - 1) + 1 = i
      BY <1>2, <3>1 DEF HoldAt
    <3>3. \A j : j = i - 1 => HoldAt(c, j, id)'
      BY <1>4, <3>2
    <3> QED BY <3>3
  <2>3. \A k, o, i : At(k, o, i, id)' => \E j : At(k, o, j, id)
    BY <1>3, <1>4, <1>6, <2>1 DEF At
  <2>4. ASSUME NEW s, NEW d, Where(id, s, d) PROVE Where(id, s, d)'
    <3>1. ASSUME NEW o, NEW i, QueueAt(o, i, id), s = "queued", d = queue[o][i].expires_at
          PROVE  Where(id, s, d)'
      BY <1>1, <1>6, <3>1 DEF Where
    <3>2. ASSUME NEW o, NEW i, HoldAt(o, i, id), pc[o] = "enqueue", s = "held",
                 d = held[o][i].expires_at
          PROVE  Where(id, s, d)'
      <4>1. o # c
        BY <1>1, <3>2
      <4>2. HoldAt(o, i, id)' /\ held'[o] = held[o]
        BY <1>1, <1>2, <1>3, <3>2, <4>1 DEF HoldAt
      <4> QED BY <1>1, <3>2, <4>2 DEF Where
    <3>3. ASSUME NEW o, NEW i, HoldAt(o, i, id), pc[o] = "drain", s = "inflight", d = None
          PROVE  Where(id, s, d)'
      <4>1. \E j : HoldAt(o, j, id)'
        BY <1>3, <2>2, <3>3
      <4> QED BY <1>1, <3>3, <4>1 DEF Where
    <3>4. ASSUME NEW o, NEW i, RxAt(o, i, id) \/ InboxAt(o, i, id),
                 RxAt(o, i, id) => s = "inflight", ~RxAt(o, i, id) => s = "received", d = None
          PROVE  Where(id, s, d)'
      BY <1>6, <2>1, <3>4 DEF Where
    <3>5. ASSUME \A k, o, i : ~At(k, o, i, id),
                 s = (IF id \in sent THEN "lost" ELSE "unsent"), d = None
          PROVE  Where(id, s, d)'
      BY <1>1, <2>3, <3>5 DEF Where
    <3>6. \A o, i, p, j : ~(RxAt(o, i, id) /\ InboxAt(p, j, id))
      BY <1>0 DEF Unique, At
    <3> QED BY <2>4, <3>1, <3>2, <3>3, <3>4, <3>5, <3>6 DEF Where
  <2> QED BY <2>4, StaysWhere
<1>10. CASE send_task[c] # "stopped"
  <2>1. \A i : i = Len(rx[c]) + 1 => RxAt(c, i, m)'
    BY <1>5, <1>7, <1>10
  <2>2. Where(m, "inflight", None)'
    BY <2>1 DEF Where
  <2>3. CustodyStays(m)
    BY <1>7, <1>8, <2>2, IsWhere, GoesWhere DEF CustodyStays, CustodyGoes
  <2> QED BY <1>1, <1>9, <2>3, AsStutter
<1>11. CASE send_task[c] = "stopped"
  <2>1. \A k, o, i : At(k, o, i, m) => k = "held" /\ o = c /\ i = 1
    BY <1>0, <1>7 DEF Unique, At
  <2>2. \A o, i : /\ ~QueueAt(o, i, m)' /\ ~RxAt(o, i, m)' /\ ~InboxAt(o, i, m)'
                  /\ ~HoldAt(o, i, m)'
    <3>1. \A i \in Nat \ {0} : i + 1 # 1
      OBVIOUS
    <3>2. /\ \A o, i : ~QueueAt(o, i, m) /\ ~RxAt(o, i, m) /\ ~InboxAt(o, i, m)
          /\ \A o, i : HoldAt(o, i, m) => o = c /\ i = 1
      <4>1. \A o, i : /\ QueueAt(o, i, m) => At("queue", o, i, m)
                      /\ RxAt(o, i, m) => At("rx", o, i, m)
                      /\ InboxAt(o, i, m) => At("inbox", o, i, m)
                      /\ HoldAt(o, i, m) => At("held", o, i, m)
        BY DEF At
      <4> QED BY <2>1, <4>1
    <3>3. \A o, i : ~HoldAt(o, i, m)'
      BY <1>3, <1>4, <3>1, <3>2
    <3> QED BY <1>5, <1>6, <1>11, <3>2, <3>3
  <2>3. \A k, o, i : ~At(k, o, i, m)'
    BY <2>2 DEF At
  <2>4. m \in sent
    BY <1>0, <1>7 DEF Fresh, At
  <2>5. Where(m, "lost", None)'
    BY <1>1, <2>3, <2>4 DEF Where
  <2>6. /\ CustodyOf(m) = "inflight" /\ DeadlineOf(m) = None
        /\ CustodyGoes(m, "lost", None)
    BY <1>7, <1>8, <2>5, IsWhere, GoesWhere
  <2>7. {m} \in SUBSET MsgId /\ {m} # {}
    BY <1>7
  <2>8. \A id \in {m} : CustodyOf(id) = "inflight" /\ CustodyGoes(id, "lost", DeadlineOf(id))
    BY <2>6
  <2> QED BY <1>1, <1>9, <2>7, <2>8, AsDrop
<1> QED BY <1>10, <1>11

\* The head of the channel reaches the peer, or is lost with its link.
LEMMA SocketCustody ==
  ASSUME CopyInv, Determined, Determined', NEW c \in Conn, SendToSocket(c)
  PROVE  AbstractStep
<1>0. TypeInv /\ HeldWhere /\ \A id \in MsgId : Fresh(id) /\ Unique(id)
  BY DEF CopyInv
<1>1. /\ now' = now /\ queue' = queue /\ held' = held /\ sent' = sent /\ pc' = pc
  BY DEF SendToSocket, world, shared, handler
<1>2. \A o, i, id : /\ QueueAt(o, i, id)' <=> QueueAt(o, i, id)
                    /\ HoldAt(o, i, id)' <=> HoldAt(o, i, id)
  BY <1>1 DEF QueueAt, HoldAt
<1>3. \A o, i, id : o # c => (RxAt(o, i, id)' <=> RxAt(o, i, id))
  BY <1>0, SocketMoves
<1>4. \A i, id : RxAt(c, i, id)' <=> i \in Nat \ {0} /\ RxAt(c, i + 1, id)
  BY <1>0, SocketMoves
<1>5. \A o, i, id : InboxAt(o, i, id)' <=>
        \/ InboxAt(o, i, id)
        \/ o = c /\ i = Len(inbox[c]) + 1 /\ link[c] = "up" /\ RxAt(c, 1, id)
  BY <1>0, SocketMoves
<1>6. \A o, i, id : RxAt(o, i, id) => i \in Nat \ {0}
  BY <1>0 DEF TypeInv, TypeOK, RxAt, Incoming
<1>7. ASSUME NEW id \in MsgId, ~RxAt(c, 1, id) PROVE CustodyStays(id)
  <2>1. \A o, i : InboxAt(o, i, id)' <=> InboxAt(o, i, id)
    BY <1>5, <1>7
  <2>2. \A i : RxAt(c, i, id) => \E j : RxAt(c, j, id)'
    <3> SUFFICES ASSUME NEW i, RxAt(c, i, id) PROVE \E j : RxAt(c, j, id)'
      OBVIOUS
    <3>1. i \in Nat \ {0} /\ i # 1
      BY <1>6, <1>7
    <3>2. PICK j \in Nat \ {0} : j + 1 = i
      <4>1. i - 1 \in Nat \ {0} /\ (i - 1) + 1 = i
        BY <3>1
      <4> QED BY <4>1
    <3> QED BY <1>4, <3>2
  <2>3. \A o, i : RxAt(o, i, id) => \E j : RxAt(o, j, id)'
    BY <1>3, <2>2
  <2>4. \A k, o, i : At(k, o, i, id)' => \E j : At(k, o, j, id)
    BY <1>2, <1>3, <1>4, <2>1 DEF At
  <2>5. \A s, d : Where(id, s, d) => Where(id, s, d)'
    BY <1>1, <1>2, <2>1, <2>3, <2>4 DEF Where
  <2> QED BY <2>5, StaysWhere
<1>8. ASSUME NEW m \in MsgId, RxAt(c, 1, m) PROVE AbstractStep
  <2>1. \A k, o, i : At(k, o, i, m) => k = "rx" /\ o = c /\ i = 1
    BY <1>0, <1>8 DEF Unique, At
  <2>2. /\ \A o, i : ~QueueAt(o, i, m) /\ ~HoldAt(o, i, m) /\ ~InboxAt(o, i, m)
        /\ \A o, i : RxAt(o, i, m) => o = c /\ i = 1
    <3>1. \A o, i : /\ QueueAt(o, i, m) => At("queue", o, i, m)
                    /\ RxAt(o, i, m) => At("rx", o, i, m)
                    /\ InboxAt(o, i, m) => At("inbox", o, i, m)
                    /\ HoldAt(o, i, m) => At("held", o, i, m)
      BY DEF At
    <3> QED BY <2>1, <3>1
  <2>3. CustodyOf(m) = "inflight" /\ DeadlineOf(m) = None
    <3>1. Where(m, "inflight", None)
      BY <1>8 DEF Where
    <3> QED BY <3>1, IsWhere
  <2>4. \A id : RxAt(c, 1, id) => id = m
    BY <1>8 DEF RxAt, Incoming
  <2>5. \A id \in MsgId \ {m} : CustodyStays(id)
    BY <1>7, <2>4
  <2>6. CASE link[c] = "up"
    <3>1. \A i : i = Len(inbox[c]) + 1 => InboxAt(c, i, m)'
      BY <1>5, <1>8, <2>6
    <3>2. Where(m, "received", None)'
      BY <3>1 DEF Where
    <3>3. CustodyGoes(m, "received", None)
      BY <3>2, GoesWhere
    <3> QED BY <1>1, <2>3, <2>5, <3>3, AsReceive
  <2>7. CASE link[c] # "up"
    <3>1. \A i \in Nat \ {0} : i + 1 # 1
      OBVIOUS
    <3>2. \A o, i : ~RxAt(o, i, m)'
      BY <1>3, <1>4, <2>2, <3>1
    <3>3. \A k, o, i : ~At(k, o, i, m)'
      BY <1>2, <1>5, <2>2, <2>7, <3>2 DEF At
    <3>4. m \in sent
      BY <1>0, <1>8 DEF Fresh, At
    <3>5. Where(m, "lost", None)'
      BY <1>1, <3>3, <3>4 DEF Where
    <3>6. CustodyGoes(m, "lost", None)
      BY <3>5, GoesWhere
    <3>7. {m} \in SUBSET MsgId /\ {m} # {}
      OBVIOUS
    <3>8. \A id \in {m} : CustodyOf(id) = "inflight" /\ CustodyGoes(id, "lost", DeadlineOf(id))
      BY <2>3, <3>6
    <3> QED BY <1>1, <2>5, <3>7, <3>8, AsDrop
  <2> QED BY <2>6, <2>7
<1>9. CASE \A id \in MsgId : ~RxAt(c, 1, id)
  BY <1>1, <1>7, <1>9, AsStutter
<1> QED BY <1>8, <1>9

\* A send task that stops drops the messages of its channel.
LEMMA StopCustody ==
  ASSUME CopyInv, Determined, Determined', NEW c \in Conn, StopSendTask(c)
  PROVE  AbstractStep
<1>0. TypeInv /\ HeldWhere /\ \A id \in MsgId : Fresh(id) /\ Unique(id)
  BY DEF CopyInv
<1>1. /\ now' = now /\ queue' = queue /\ held' = held /\ inbox' = inbox
      /\ sent' = sent /\ pc' = pc
  BY DEF StopSendTask, world, shared, handler
<1>2. \A o, i, id : /\ QueueAt(o, i, id)' <=> QueueAt(o, i, id)
                    /\ HoldAt(o, i, id)' <=> HoldAt(o, i, id)
                    /\ InboxAt(o, i, id)' <=> InboxAt(o, i, id)
  BY <1>1 DEF QueueAt, HoldAt, InboxAt
<1>3. \A o, i, id : RxAt(o, i, id)' <=> RxAt(o, i, id) /\ o # c
  BY <1>0, StopMoves
<1> DEFINE S == {id \in MsgId : \E i : RxAt(c, i, id)}
<1>4. ASSUME NEW id \in MsgId \ S PROVE CustodyStays(id)
  <2>1. \A o, i : RxAt(o, i, id)' <=> RxAt(o, i, id)
    BY <1>3
  <2>2. \A k, o, i : At(k, o, i, id)' <=> At(k, o, i, id)
    BY <1>2, <2>1 DEF At
  <2>3. \A s, d : Where(id, s, d) => Where(id, s, d)'
    BY <1>1, <1>2, <2>1, <2>2 DEF Where
  <2> QED BY <2>3, StaysWhere
<1>5. ASSUME NEW id \in S
      PROVE  CustodyOf(id) = "inflight" /\ CustodyGoes(id, "lost", DeadlineOf(id))
  <2>1. PICK j : RxAt(c, j, id)
    BY <1>5
  <2>2. CustodyOf(id) = "inflight" /\ DeadlineOf(id) = None
    <3>1. Where(id, "inflight", None)
      BY <2>1 DEF Where
    <3> QED BY <3>1, IsWhere
  <2>3. \A k, o, i : At(k, o, i, id) => k = "rx" /\ o = c /\ i = j
    BY <1>0, <2>1 DEF Unique, At
  <2>4. \A k, o, i : ~At(k, o, i, id)'
    BY <1>2, <1>3, <2>3 DEF At
  <2>5. id \in sent
    BY <1>0, <2>1 DEF Fresh, At
  <2>6. Where(id, "lost", None)'
    BY <1>1, <2>4, <2>5 DEF Where
  <2> QED BY <2>2, <2>6, GoesWhere
<1> HIDE DEF S
<1>6. S \in SUBSET MsgId
  BY DEF S
<1>7. CASE S = {}
  BY <1>1, <1>4, <1>7, AsStutter
<1>8. CASE S # {}
  BY <1>1, <1>4, <1>5, <1>6, <1>8, AsDrop
<1> QED BY <1>7, <1>8

\* A restart loses what the process had in memory, and nothing else.
LEMMA RestartCustody ==
  ASSUME CopyInv, Determined, Determined', Restart
  PROVE  AbstractStep
<1>0. \A id \in MsgId : Fresh(id) /\ Unique(id)
  BY DEF CopyInv
<1>1. now' = now /\ sent' = sent /\ inbox' = inbox
  BY DEF Restart
<1>2. \A o, i, id : /\ ~QueueAt(o, i, id)' /\ ~HoldAt(o, i, id)' /\ ~RxAt(o, i, id)'
                    /\ InboxAt(o, i, id)' <=> InboxAt(o, i, id)
  BY <1>1, RestartMoves DEF InboxAt
<1>3. ASSUME NEW id \in MsgId, NEW s, NEW d, Where(id, s, d)
      PROVE  /\ s \in {"queued", "held", "inflight"} => Where(id, "lost", None)'
             /\ s \notin {"queued", "held", "inflight"} => Where(id, s, d)'
  <2>1. ASSUME NEW o, NEW i, InboxAt(o, i, id), s = "received", d = None
        PROVE  Where(id, s, d)'
    BY <1>2, <2>1 DEF Where
  <2>2. ASSUME NEW k, NEW o, NEW i, At(k, o, i, id), k # "inbox"
        PROVE  Where(id, "lost", None)'
    <3>1. \A p, j : ~InboxAt(p, j, id)
      BY <1>0, <2>2 DEF Unique, At
    <3>2. \A l, p, j : ~At(l, p, j, id)'
      BY <1>2, <3>1 DEF At
    <3>3. id \in sent
      BY <1>0, <2>2 DEF Fresh
    <3> QED BY <1>1, <3>2, <3>3 DEF Where
  <2>3. ASSUME \A k, o, i : ~At(k, o, i, id),
               s = (IF id \in sent THEN "lost" ELSE "unsent"), d = None
        PROVE  Where(id, s, d)'
    <3>1. \A k, o, i : ~At(k, o, i, id)'
      BY <1>2, <2>3 DEF At
    <3> QED BY <1>1, <2>3, <3>1 DEF Where
  <2>4. \A o, i : /\ QueueAt(o, i, id) => At("queue", o, i, id)
                  /\ HoldAt(o, i, id) => At("held", o, i, id)
                  /\ RxAt(o, i, id) => At("rx", o, i, id)
    BY DEF At
  <2>5. \/ s \in {"queued", "held", "inflight"}
             /\ \E k, o, i : At(k, o, i, id) /\ k # "inbox"
        \/ \E o, i : InboxAt(o, i, id) /\ s = "received" /\ d = None
        \/ /\ \A k, o, i : ~At(k, o, i, id)
           /\ s = (IF id \in sent THEN "lost" ELSE "unsent") /\ d = None
    BY <1>3, <2>4 DEF Where
  <2> QED BY <2>1, <2>2, <2>3, <2>5
<1>4. \A id \in MsgId : Where(id, CustodyOf(id), DeadlineOf(id))
  BY DEF Determined
<1>5. ASSUME NEW id \in MsgId, CustodyOf(id) \in {"held", "queued", "inflight"}
      PROVE  CustodyGoes(id, "lost", None)
  <2>1. Where(id, "lost", None)'
    BY <1>3, <1>4, <1>5
  <2> QED BY <2>1, GoesWhere
<1>6. ASSUME NEW id \in MsgId, CustodyOf(id) \notin {"held", "queued", "inflight"}
      PROVE  CustodyStays(id)
  <2>1. PICK s, d : Where(id, s, d) /\ s = CustodyOf(id) /\ d = DeadlineOf(id)
    BY <1>4
  <2>2. Where(id, s, d)'
    BY <1>3, <1>6, <2>1
  <2> QED BY <2>1, <2>2, GoesWhere DEF CustodyStays, CustodyGoes
<1> QED BY <1>1, <1>5, <1>6, AsCrash

LEMMA TickCustody ==
  ASSUME CopyInv, Determined, Determined', Tick \/ UNCHANGED vars
  PROVE  AbstractStep
<1>1. Still /\ sent' = sent
  BY TickIsStill DEF Tick, vars
<1>2. \A id \in MsgId : CustodyStays(id)
  BY <1>1, StillStays, StaysWhere DEF CopyInv
<1>3. CASE Tick
  <2>1. Custody!Pass
    BY <1>2, <1>3 DEF Tick, Custody!Pass, CustodyStays
  <2> QED BY <2>1 DEF AbstractStep, Custody!CustodyNext
<1>4. CASE UNCHANGED vars
  <2>1. now' = now
    BY <1>4 DEF vars, world
  <2> QED BY <1>2, <2>1, AsStutter
<1> QED BY <1>3, <1>4

LEMMA CustodyStep == CopyInv /\ Determined /\ Determined' /\ [Next]_vars => AbstractStep
<1> SUFFICES ASSUME CopyInv, Determined, Determined', [Next]_vars PROVE AbstractStep
  OBVIOUS
<1> QED BY StepCases, QuietCustody, TakePendingCustody, SendPendingCustody, EnqueueCustody,
     ForwardCustody, HoldCustody, SocketCustody, StopCustody, RestartCustody, TickCustody

LEMMA CustodyStart == Init => Custody!CustodyInit
<1> SUFFICES ASSUME Init PROVE Custody!CustodyInit
  OBVIOUS
<1>1. CopyInv /\ Determined
  BY CopyInit, MappingDetermined
<1>2. \A id \in MsgId : CustodyOf(id) = "unsent" /\ DeadlineOf(id) = None
  BY <1>1, UnsentWhere, IsWhere DEF Init
<1> QED BY <1>2 DEF Init, Custody!CustodyInit

\* The server keeps the custody discipline: a message moves one way only, is
\* queued once, and leaves the queue only for a connection that registered its
\* target, by expiry, or with the process.
THEOREM ImplementsCustody == Spec => KeepsCustody
<1>1. CopyInv /\ CopyInv' /\ [Next]_vars => [Custody!CustodyNext]_(Custody!custodyVars)
  <2> SUFFICES ASSUME CopyInv, CopyInv', [Next]_vars PROVE AbstractStep
    BY DEF AbstractStep
  <2>1. Determined
    BY MappingDetermined
  <2>2. (CopyInv => Determined)'
    BY MappingDetermined, PTL
  <2> QED BY <2>1, <2>2, CustodyStep
<1> QED BY CopyInit, CopyStep, CustodyStart, <1>1, PTL
     DEF Spec, KeepsCustody, Custody!CustodySpec
=============================================================================
