----------------------- MODULE CultServerMessages_proofs -----------------------
(***************************************************************************)
(* Theorems about the way of a chat message through the server: it is      *)
(* never in two places, and it only reaches the connection of its target.  *)
(***************************************************************************)
EXTENDS CultServer_proofs

-----------------------------------------------------------------------------
(* get_messages: exactly the unexpired messages, each in a place of its own. *)

LEMMA LoopKeeps ==
  ASSUME NEW T, NEW msgs \in Seq(T), NEW f, IsLoop(msgs, f, Len(msgs))
  PROVE  /\ \A i \in 1..Len(f[Len(msgs)]) : \E j \in 1..Len(msgs) :
              /\ msgs[j].expires_at > now
              /\ i = Len(f[j])
              /\ f[Len(msgs)][i] = msgs[j]
         /\ \A j \in 1..Len(msgs) : msgs[j].expires_at > now =>
              /\ Len(f[j]) \in 1..Len(f[Len(msgs)])
              /\ f[Len(msgs)][Len(f[j])] = msgs[j]
<1> DEFINE From(n) == \A i \in 1..Len(f[n]) : \E j \in 1..n :
                        /\ msgs[j].expires_at > now
                        /\ i = Len(f[j])
                        /\ f[n][i] = msgs[j]
           Into(n) == \A j \in 1..n : msgs[j].expires_at > now =>
                        /\ Len(f[j]) \in 1..Len(f[n])
                        /\ f[n][Len(f[j])] = msgs[j]
           S == {n \in Nat : n <= Len(msgs) => f[n] \in Seq(T) /\ From(n) /\ Into(n)}
<1>1. \A n \in 0..Len(msgs) : f[n] = ValidStep(msgs, f, n)
  BY DEF IsLoop
<1>2. 0 \in S
  <2>1. f[0] = <<>>
    BY <1>1 DEF ValidStep
  <2>2. f[0] \in Seq(T) /\ From(0) /\ Into(0)
    BY <2>1
  <2> QED BY <2>2
<1>3. ASSUME NEW n \in Nat, n \in S PROVE n + 1 \in S
  <2> SUFFICES ASSUME n + 1 <= Len(msgs)
               PROVE  f[n + 1] \in Seq(T) /\ From(n + 1) /\ Into(n + 1)
    OBVIOUS
  <2>1. f[n] \in Seq(T) /\ From(n) /\ Into(n) /\ msgs[n + 1] \in T
    BY <1>3
  <2>2. f[n + 1] = IF msgs[n + 1].expires_at > now THEN Append(f[n], msgs[n + 1]) ELSE f[n]
    BY <1>1 DEF ValidStep
  <2>3. CASE ~(msgs[n + 1].expires_at > now)
    <3>1. f[n + 1] = f[n]
      BY <2>2, <2>3
    <3>2. ASSUME NEW i \in 1..Len(f[n + 1])
          PROVE  \E j \in 1..(n + 1) : /\ msgs[j].expires_at > now
                                       /\ i = Len(f[j])
                                       /\ f[n + 1][i] = msgs[j]
      <4>1. PICK j \in 1..n : msgs[j].expires_at > now /\ i = Len(f[j]) /\ f[n][i] = msgs[j]
        BY <2>1, <3>1
      <4>2. j \in 1..(n + 1)
        OBVIOUS
      <4> QED BY <3>1, <4>1, <4>2
    <3>3. ASSUME NEW j \in 1..(n + 1), msgs[j].expires_at > now
          PROVE  /\ Len(f[j]) \in 1..Len(f[n + 1])
                 /\ f[n + 1][Len(f[j])] = msgs[j]
      <4>1. j # n + 1
        BY <2>3, <3>3
      <4>2. j \in 1..n
        BY <4>1
      <4> QED BY <2>1, <3>1, <3>3, <4>2
    <3> QED BY <2>1, <3>1, <3>2, <3>3
  <2>4. CASE msgs[n + 1].expires_at > now
    <3>1. /\ f[n + 1] \in Seq(T)
          /\ Len(f[n + 1]) = Len(f[n]) + 1
          /\ \A i \in 1..Len(f[n]) : f[n + 1][i] = f[n][i]
          /\ f[n + 1][Len(f[n]) + 1] = msgs[n + 1]
      BY <2>1, <2>2, <2>4
    <3>2. Len(f[n]) \in Nat
      BY <2>1
    <3>3. ASSUME NEW i \in 1..Len(f[n + 1])
          PROVE  \E j \in 1..(n + 1) : /\ msgs[j].expires_at > now
                                       /\ i = Len(f[j])
                                       /\ f[n + 1][i] = msgs[j]
      <4>1. CASE i = Len(f[n]) + 1
        BY <2>4, <3>1, <4>1
      <4>2. CASE i # Len(f[n]) + 1
        <5>1. i \in 1..Len(f[n])
          BY <3>1, <3>2, <4>2
        <5>2. PICK j \in 1..n : /\ msgs[j].expires_at > now
                                /\ i = Len(f[j])
                                /\ f[n][i] = msgs[j]
          BY <2>1, <5>1
        <5>3. j \in 1..(n + 1) /\ f[n + 1][i] = msgs[j]
          BY <3>1, <5>1, <5>2
        <5> QED BY <5>2, <5>3
      <4> QED BY <4>1, <4>2
    <3>4. ASSUME NEW j \in 1..(n + 1), msgs[j].expires_at > now
          PROVE  /\ Len(f[j]) \in 1..Len(f[n + 1])
                 /\ f[n + 1][Len(f[j])] = msgs[j]
      <4>1. CASE j = n + 1
        BY <3>1, <3>2, <4>1
      <4>2. CASE j # n + 1
        <5>1. j \in 1..n
          BY <4>2
        <5>2. Len(f[j]) \in 1..Len(f[n]) /\ f[n][Len(f[j])] = msgs[j]
          BY <2>1, <3>4, <5>1
        <5> QED BY <3>1, <3>2, <5>2
      <4> QED BY <4>1, <4>2
    <3> QED BY <3>1, <3>3, <3>4
  <2> HIDE DEF From, Into
  <2> QED BY <2>3, <2>4
<1>4. \A n \in Nat : n \in S => n + 1 \in S
  BY <1>3
<1>5. Len(msgs) \in S
  <2> HIDE DEF S
  <2> QED BY <1>2, <1>4, SetInduction
<1> QED BY <1>5

\* What the loop adds comes after all that it had.
LEMMA LoopGrows ==
  ASSUME NEW T, NEW msgs \in Seq(T), NEW f, IsLoop(msgs, f, Len(msgs))
  PROVE  \A j, n \in 1..Len(msgs) :
           j < n /\ msgs[n].expires_at > now => Len(f[j]) < Len(f[n])
<1> DEFINE Longest(n) == \A j \in 1..n : Len(f[j]) \in Nat /\ Len(f[j]) <= Len(f[n])
           Last(n) == n > 0 /\ msgs[n].expires_at > now =>
                        \A j \in 1..(n - 1) : Len(f[j]) < Len(f[n])
           S == {n \in Nat : n <= Len(msgs) => f[n] \in Seq(T) /\ Longest(n) /\ Last(n)}
<1>1. \A n \in 0..Len(msgs) : f[n] = ValidStep(msgs, f, n)
  BY DEF IsLoop
<1>2. 0 \in S
  <2>1. f[0] = <<>>
    BY <1>1 DEF ValidStep
  <2>2. f[0] \in Seq(T)
    BY <2>1
  <2>3. Longest(0) /\ Last(0)
    OBVIOUS
  <2> HIDE DEF Longest, Last
  <2> QED BY <2>2, <2>3
<1>3. ASSUME NEW n \in Nat, n \in S PROVE n + 1 \in S
  <2> SUFFICES ASSUME n + 1 <= Len(msgs)
               PROVE  f[n + 1] \in Seq(T) /\ Longest(n + 1) /\ Last(n + 1)
    OBVIOUS
  <2>1. f[n] \in Seq(T) /\ Longest(n) /\ msgs[n + 1] \in T
    BY <1>3
  <2>2. f[n + 1] = IF msgs[n + 1].expires_at > now THEN Append(f[n], msgs[n + 1]) ELSE f[n]
    BY <1>1 DEF ValidStep
  <2>3. /\ f[n + 1] \in Seq(T)
        /\ Len(f[n]) \in Nat /\ Len(f[n + 1]) \in Nat
        /\ Len(f[n]) <= Len(f[n + 1])
        /\ msgs[n + 1].expires_at > now => Len(f[n]) < Len(f[n + 1])
    BY <2>1, <2>2
  <2>4. ASSUME NEW j \in 1..n
        PROVE  /\ Len(f[j]) \in Nat /\ Len(f[j]) <= Len(f[n + 1])
               /\ msgs[n + 1].expires_at > now => Len(f[j]) < Len(f[n + 1])
    <3>1. Len(f[j]) \in Nat /\ Len(f[j]) <= Len(f[n])
      BY <2>1
    <3> QED BY <2>3, <3>1
  <2>5. \A j \in 1..(n + 1) : j = n + 1 \/ j \in 1..n
    OBVIOUS
  <2>6. Longest(n + 1)
    BY <2>3, <2>4, <2>5
  <2>7. Last(n + 1)
    BY <2>4
  <2> QED BY <2>3, <2>6, <2>7
<1>5. \A n \in Nat : n \in S
  <2> HIDE DEF S
  <2> QED BY <1>2, <1>3, SetInduction
<1>6. ASSUME NEW j \in 1..Len(msgs), NEW n \in 1..Len(msgs), j < n, msgs[n].expires_at > now
      PROVE  Len(f[j]) < Len(f[n])
  <2>1. Last(n) /\ n > 0 /\ j \in 1..(n - 1)
    BY <1>5, <1>6
  <2> QED BY <1>6, <2>1
<1> QED BY <1>6

\* place[j] is where get_messages puts the j-th message of the queue.
Keeps(msgs, kept, place) ==
  /\ \A i \in 1..Len(kept) : \E j \in 1..Len(msgs) :
       msgs[j].expires_at > now /\ i = place[j] /\ kept[i] = msgs[j]
  /\ \A j \in 1..Len(msgs) : msgs[j].expires_at > now =>
       place[j] \in 1..Len(kept) /\ kept[place[j]] = msgs[j]
  /\ \A j, n \in 1..Len(msgs) : j < n /\ msgs[n].expires_at > now => place[j] < place[n]

LEMMA ValidMessagesKeep ==
  ASSUME NEW a, NEW T, queue[a] \in Seq(T)
  PROVE  \E place : Keeps(queue[a], ValidMessages(a), place)
<1> DEFINE msgs == queue[a]
           valid == CHOOSE f : IsLoop(msgs, f, Len(msgs))
           place == [j \in 1..Len(msgs) |-> Len(valid[j])]
<1>1. IsLoop(msgs, valid, Len(msgs))
  <2>1. Len(msgs) \in Nat
    OBVIOUS
  <2>2. \E f : IsLoop(msgs, f, Len(msgs))
    BY <2>1, LoopExists
  <2> QED BY <2>2
<1>2. ValidMessages(a) = valid[Len(msgs)]
  BY DEF ValidMessages, IsLoop, ValidStep
<1> HIDE DEF valid
<1>3. /\ \A i \in 1..Len(valid[Len(msgs)]) : \E j \in 1..Len(msgs) :
           /\ msgs[j].expires_at > now
           /\ i = Len(valid[j])
           /\ valid[Len(msgs)][i] = msgs[j]
      /\ \A j \in 1..Len(msgs) : msgs[j].expires_at > now =>
           /\ Len(valid[j]) \in 1..Len(valid[Len(msgs)])
           /\ valid[Len(msgs)][Len(valid[j])] = msgs[j]
  BY <1>1, LoopKeeps
<1>4. \A j, n \in 1..Len(msgs) :
        j < n /\ msgs[n].expires_at > now => Len(valid[j]) < Len(valid[n])
  BY <1>1, LoopGrows
<1>5. Keeps(msgs, valid[Len(msgs)], place)
  BY <1>3, <1>4 DEF Keeps
<1> QED BY <1>2, <1>5

-----------------------------------------------------------------------------
(* The places of a message, one predicate per kind of place. *)

QueueAt(a, i, id) ==
  a \in Address /\ i \in 1..Len(queue[a]) /\ queue[a][i].msg.id = id

HoldAt(c, i, id) ==
  c \in Conn /\ i \in 1..Len(held[c]) /\ held[c][i].msg.id = id

Incoming(box, c, i, id) ==
  /\ c \in Conn /\ i \in 1..Len(box[c])
  /\ box[c][i].status = "incoming_message" /\ box[c][i].msg.id = id

RxAt(c, i, id) == Incoming(rx, c, i, id)

InboxAt(c, i, id) ==
  c \in Conn /\ i \in 1..Len(inbox[c]) /\ inbox[c][i].id = id

At(k, o, i, id) ==
  \/ k = "queue" /\ QueueAt(o, i, id)
  \/ k = "held"  /\ HoldAt(o, i, id)
  \/ k = "rx"    /\ RxAt(o, i, id)
  \/ k = "inbox" /\ InboxAt(o, i, id)

Unique(id) ==
  \A k, o, i, l, p, j : At(k, o, i, id) /\ At(l, p, j, id) => k = l /\ o = p /\ i = j

LEMMA CopiesAt ==
  ASSUME TypeOK, NEW id, NEW x
  PROVE  x \in Copies(id) <=> \E k, o, i : At(k, o, i, id) /\ x = <<k, o, i>>
<1>1. /\ \A a \in Address : DOMAIN queue[a] = 1..Len(queue[a])
      /\ \A c \in Conn : /\ DOMAIN held[c] = 1..Len(held[c])
                         /\ DOMAIN rx[c] = 1..Len(rx[c])
                         /\ DOMAIN inbox[c] = 1..Len(inbox[c])
  BY DEF TypeOK
<1>2. x \in Copies(id) <=>
        \/ \E a \in Address : \E i \in DOMAIN queue[a] :
             queue[a][i].msg.id = id /\ x = <<"queue", a, i>>
        \/ \E c \in Conn : \E i \in DOMAIN held[c] :
             held[c][i].msg.id = id /\ x = <<"held", c, i>>
        \/ \E c \in Conn : \E i \in DOMAIN rx[c] :
             /\ rx[c][i].status = "incoming_message" /\ rx[c][i].msg.id = id
             /\ x = <<"rx", c, i>>
        \/ \E c \in Conn : \E i \in DOMAIN inbox[c] :
             inbox[c][i].id = id /\ x = <<"inbox", c, i>>
  BY DEF Copies
<1>3. ASSUME x \in Copies(id) PROVE \E k, o, i : At(k, o, i, id) /\ x = <<k, o, i>>
  <2>1. CASE \E a \in Address : \E i \in DOMAIN queue[a] :
               queue[a][i].msg.id = id /\ x = <<"queue", a, i>>
    BY <1>1, <2>1 DEF At, QueueAt
  <2>2. CASE \E c \in Conn : \E i \in DOMAIN held[c] :
               held[c][i].msg.id = id /\ x = <<"held", c, i>>
    BY <1>1, <2>2 DEF At, HoldAt
  <2>3. CASE \E c \in Conn : \E i \in DOMAIN rx[c] :
               /\ rx[c][i].status = "incoming_message" /\ rx[c][i].msg.id = id
               /\ x = <<"rx", c, i>>
    BY <1>1, <2>3 DEF At, RxAt, Incoming
  <2>4. CASE \E c \in Conn : \E i \in DOMAIN inbox[c] :
               inbox[c][i].id = id /\ x = <<"inbox", c, i>>
    BY <1>1, <2>4 DEF At, InboxAt
  <2> QED BY <1>2, <1>3, <2>1, <2>2, <2>3, <2>4
<1>4. ASSUME NEW k, NEW o, NEW i, At(k, o, i, id), x = <<k, o, i>> PROVE x \in Copies(id)
  <2>1. CASE k = "queue" /\ QueueAt(o, i, id)
    BY <1>1, <1>2, <1>4, <2>1 DEF QueueAt
  <2>2. CASE k = "held" /\ HoldAt(o, i, id)
    BY <1>1, <1>2, <1>4, <2>2 DEF HoldAt
  <2>3. CASE k = "rx" /\ RxAt(o, i, id)
    BY <1>1, <1>2, <1>4, <2>3 DEF RxAt, Incoming
  <2>4. CASE k = "inbox" /\ InboxAt(o, i, id)
    BY <1>1, <1>2, <1>4, <2>4 DEF InboxAt
  <2> QED BY <1>4, <2>1, <2>2, <2>3, <2>4 DEF At
<1> QED BY <1>3, <1>4

LEMMA OneCopyUnique ==
  ASSUME TypeOK
  PROVE  AtMostOneCopy <=> \A id \in MsgId : Unique(id)
<1>1. ASSUME AtMostOneCopy, NEW id \in MsgId PROVE Unique(id)
  <2> SUFFICES ASSUME NEW k, NEW o, NEW i, NEW l, NEW p, NEW j,
                      At(k, o, i, id), At(l, p, j, id)
               PROVE  k = l /\ o = p /\ i = j
    BY DEF Unique
  <2>1. <<k, o, i>> \in Copies(id) /\ <<l, p, j>> \in Copies(id)
    BY CopiesAt
  <2>2. <<k, o, i>> = <<l, p, j>>
    BY <1>1, <2>1 DEF AtMostOneCopy
  <2> QED BY <2>2
<1>2. ASSUME \A id \in MsgId : Unique(id), NEW id \in MsgId,
             NEW x \in Copies(id), NEW y \in Copies(id)
      PROVE  x = y
  <2>1. PICK k, o, i : At(k, o, i, id) /\ x = <<k, o, i>>
    BY CopiesAt
  <2>2. PICK l, p, j : At(l, p, j, id) /\ y = <<l, p, j>>
    BY CopiesAt
  <2> QED BY <1>2, <2>1, <2>2 DEF Unique
<1> QED BY <1>1, <1>2 DEF AtMostOneCopy

-----------------------------------------------------------------------------
(* How each step moves the messages. *)

\* A handler has messages in its local variables in two sections only, and one
\* of them it enters with a single message.
HeldWhere ==
  \A c \in Conn : /\ held[c] # <<>> => pc[c] \in {"drain", "enqueue"}
                  /\ pc[c] = "enqueue" => Len(held[c]) = 1

LEMMA PushEntries ==
  ASSUME NEW box \in [Conn -> Seq(ServerResponse)], NEW c \in Conn,
         NEW resp \in ServerResponse, NEW d \in Conn
  PROVE  /\ send_task[c] = "stopped" => Push(box, c, resp) = box
         /\ send_task[c] # "stopped" =>
              /\ Len(Push(box, c, resp)[d]) = IF d = c THEN Len(box[d]) + 1 ELSE Len(box[d])
              /\ \A i \in 1..Len(box[d]) : Push(box, c, resp)[d][i] = box[d][i]
              /\ d = c => Push(box, c, resp)[d][Len(box[d]) + 1] = resp
  BY DEF Push

\* A response that is no chat message leaves the messages of a channel alone.
LEMMA PushQuiet ==
  ASSUME NEW box \in [Conn -> Seq(ServerResponse)], NEW c \in Conn,
         NEW resp \in ServerResponse, resp.status # "incoming_message",
         NEW o, NEW i, NEW id
  PROVE  Incoming(Push(box, c, resp), o, i, id) <=> Incoming(box, o, i, id)
<1> DEFINE new == Push(box, c, resp)
<1>1. CASE send_task[c] = "stopped"
  BY <1>1 DEF Push
<1>2. CASE send_task[c] # "stopped" /\ o \in Conn
  <2>1. /\ Len(new[o]) = IF o = c THEN Len(box[o]) + 1 ELSE Len(box[o])
        /\ \A n \in 1..Len(box[o]) : new[o][n] = box[o][n]
        /\ o = c => new[o][Len(box[o]) + 1] = resp
    BY <1>2, PushEntries
  <2>2. Len(box[o]) \in Nat
    BY <1>2
  <2> HIDE DEF new
  <2>3. i \in 1..Len(new[o]) <=> i \in 1..Len(box[o]) \/ (o = c /\ i = Len(box[o]) + 1)
    BY <2>1, <2>2
  <2>4. CASE i \in 1..Len(box[o])
    <3>1. i \in 1..Len(new[o]) /\ new[o][i] = box[o][i]
      BY <2>1, <2>3, <2>4
    <3> QED BY <2>4, <3>1 DEF Incoming, new
  <2>5. CASE i \notin 1..Len(box[o])
    <3>1. i \in 1..Len(new[o]) => new[o][i] = resp
      BY <2>1, <2>3, <2>5
    <3> QED BY <2>5, <3>1 DEF Incoming, new
  <2> QED BY <2>4, <2>5
<1>3. CASE o \notin Conn
  BY <1>3 DEF Incoming
<1> QED BY <1>1, <1>2, <1>3

\* A chat message enters a channel at its end.
LEMMA PushMessage ==
  ASSUME NEW box \in [Conn -> Seq(ServerResponse)], NEW c \in Conn,
         NEW m \in Message, NEW o, NEW i, NEW id
  PROVE  Incoming(Push(box, c, [status |-> "incoming_message", msg |-> m]), o, i, id) <=>
           \/ Incoming(box, o, i, id)
           \/ o = c /\ i = Len(box[c]) + 1 /\ send_task[c] # "stopped" /\ m.id = id
<1> DEFINE resp == [status |-> "incoming_message", msg |-> m]
           new  == Push(box, c, resp)
<1>1. resp \in ServerResponse /\ resp.status = "incoming_message" /\ resp.msg = m
  BY DEF ServerResponse
<1> HIDE DEF resp
<1>2. CASE send_task[c] = "stopped"
  BY <1>2 DEF Push, resp
<1>3. CASE send_task[c] # "stopped" /\ o \in Conn
  <2>1. /\ Len(new[o]) = IF o = c THEN Len(box[o]) + 1 ELSE Len(box[o])
        /\ \A n \in 1..Len(box[o]) : new[o][n] = box[o][n]
        /\ o = c => new[o][Len(box[o]) + 1] = resp
    BY <1>1, <1>3, PushEntries
  <2>2. Len(box[o]) \in Nat
    BY <1>3
  <2> HIDE DEF new
  <2>3. i \in 1..Len(new[o]) <=> i \in 1..Len(box[o]) \/ (o = c /\ i = Len(box[o]) + 1)
    BY <2>1, <2>2
  <2>4. CASE i \in 1..Len(box[o])
    <3>1. i \in 1..Len(new[o]) /\ new[o][i] = box[o][i]
      BY <2>1, <2>3, <2>4
    <3>2. i # Len(box[o]) + 1
      BY <2>2, <2>4
    <3>3. Incoming(new, o, i, id) <=> Incoming(box, o, i, id)
      BY <2>4, <3>1 DEF Incoming
    <3> QED BY <3>2, <3>3 DEF new, resp
  <2>5. CASE i \notin 1..Len(box[o])
    <3>1. i \in 1..Len(new[o]) => new[o][i] = resp
      BY <2>1, <2>3, <2>5
    <3>2. ~Incoming(box, o, i, id)
      BY <2>5 DEF Incoming
    <3>3. Incoming(new, o, i, id) <=> o = c /\ i = Len(box[c]) + 1 /\ m.id = id
      BY <1>1, <1>3, <2>3, <2>5, <3>1 DEF Incoming
    <3> QED BY <1>3, <3>2, <3>3 DEF new, resp
  <2> QED BY <2>4, <2>5
<1>4. CASE o \notin Conn
  BY <1>4 DEF Incoming
<1> QED BY <1>2, <1>3, <1>4

\* Most steps leave every message where it is, and every handler that has
\* messages in its section.
Still ==
  /\ queue' = queue /\ held' = held /\ inbox' = inbox /\ sent \subseteq sent'
  /\ \A c \in Conn : /\ held[c] # <<>> => pc'[c] = pc[c]
                     /\ pc'[c] = "enqueue" => pc[c] = "enqueue"
  /\ \A o, i, id : RxAt(o, i, id)' <=> RxAt(o, i, id)

QuietAction(c) ==
  \/ Accept(c)
  \/ \E n \in Name, k \in Key : Register(c, n, k)
  \/ InsertClient(c) \/ MarkOnline(c) \/ FinishRegister(c)
  \/ \E t \in Address : GetPublicKey(c, t)
  \/ LookupKey(c)
  \/ \E t \in Address : CheckStatus(c, t)
  \/ \E m \in Message : RejectMessage(c, m)
  \/ EndReceive(c) \/ MarkOffline(c) \/ RemoveClient(c) \/ LoseLink(c)

\* The responses of the quiet steps carry no chat message.
LEMMA QuietResponse ==
  ASSUME TypeInv, NEW c \in Conn, QuietAction(c)
  PROVE  rx' = rx \/ \E resp \in ServerResponse :
           resp.status # "incoming_message" /\ rx' = Push(rx, c, resp)
<1>t. /\ TypeOK /\ current_user_address \in [Conn -> Address \cup {None}]
      /\ registry \in [Address -> RegistryEntry \cup {None}]
  BY DEF TypeInv, TypeOK
<1>1. CASE MarkOnline(c)
  <2> DEFINE resp == [status |-> "ok", full_address |-> arg[c]]
  <2>1. arg[c] \in Address
    BY <1>1 DEF MarkOnline, TypeInv, SectionsReady
  <2>2. resp \in ServerResponse /\ resp.status # "incoming_message"
    BY <2>1 DEF ServerResponse
  <2> QED BY <1>1, <2>2 DEF MarkOnline
<1>2. CASE LookupKey(c)
  <2> DEFINE entry == registry[arg[c]]
             resp == IF entry = None THEN [status |-> "error"]
                     ELSE [status |-> "key_response", public_key |-> entry.public_key,
                           online_status |-> entry.is_online]
  <2>1. arg[c] \in Address
    BY <1>2 DEF LookupKey, TypeInv, SectionsReady
  <2>2. resp \in ServerResponse /\ resp.status # "incoming_message"
    BY <1>t, <2>1 DEF ServerResponse, RegistryEntry
  <2>3. rx' = Push(rx, c, resp)
    BY <1>2 DEF LookupKey
  <2> QED BY <2>2, <2>3
<1>3. ASSUME NEW t \in Address, CheckStatus(c, t)
      PROVE  \E resp \in ServerResponse :
               resp.status # "incoming_message" /\ rx' = Push(rx, c, resp)
  <2>1. StatusOf(t, current_user_address[c]) \in ServerResponse
    BY <1>t, <1>3, StatusType DEF CheckStatus
  <2>2. StatusOf(t, current_user_address[c]).status # "incoming_message"
    BY DEF StatusOf
  <2> QED BY <1>3, <2>1, <2>2 DEF CheckStatus
<1>4. CASE ~(MarkOnline(c) \/ LookupKey(c) \/ \E t \in Address : CheckStatus(c, t))
  BY <1>4 DEF QuietAction, Accept, Register, InsertClient, FinishRegister,
     GetPublicKey, RejectMessage, EndReceive, MarkOffline, RemoveClient, LoseLink, channel
<1> QED BY <1>1, <1>2, <1>3, <1>4

LEMMA QuietIsStill ==
  ASSUME TypeInv, HeldWhere, NEW c \in Conn, QuietAction(c)
  PROVE  Still
<1>t. /\ TypeOK /\ pc \in [Conn -> Label] /\ current_user_address \in [Conn -> Address \cup {None}]
      /\ registry \in [Address -> RegistryEntry \cup {None}]
  BY DEF TypeInv, TypeOK
<1>1. queue' = queue /\ held' = held /\ inbox' = inbox /\ sent \subseteq sent'
  BY DEF QuietAction, Accept, Register, InsertClient, MarkOnline, FinishRegister,
     GetPublicKey, LookupKey, CheckStatus, RejectMessage, EndReceive, MarkOffline,
     RemoveClient, LoseLink, shared, handler, channel
<1>4. \/ pc' = pc
      \/ /\ pc[c] \notin {"drain", "enqueue"} \/ held[c] = <<>>
         /\ \E label \in Label \ {"enqueue"} : pc' = [pc EXCEPT ![c] = label]
  BY <1>t DEF QuietAction, Accept, Register, InsertClient, MarkOnline, FinishRegister,
     GetPublicKey, LookupKey, CheckStatus, RejectMessage, EndReceive, MarkOffline,
     RemoveClient, LoseLink, Goto, Receives, handler, Label
<1>5. \A d \in Conn : /\ held[d] # <<>> => pc'[d] = pc[d]
                      /\ pc'[d] = "enqueue" => pc[d] = "enqueue"
  BY <1>t, <1>4 DEF HeldWhere
<1>2. rx' = rx \/ \E resp \in ServerResponse :
        resp.status # "incoming_message" /\ rx' = Push(rx, c, resp)
  BY QuietResponse
<1>3. \A o, i, id : RxAt(o, i, id)' <=> RxAt(o, i, id)
  <2>1. CASE rx' = rx
    BY <2>1 DEF RxAt
  <2>2. ASSUME NEW resp \in ServerResponse, resp.status # "incoming_message",
               rx' = Push(rx, c, resp)
        PROVE  \A o, i, id : RxAt(o, i, id)' <=> RxAt(o, i, id)
    BY <1>t, <2>2, PushQuiet DEF TypeOK, RxAt
  <2> QED BY <1>2, <2>1, <2>2
<1> QED BY <1>1, <1>3, <1>5 DEF Still

LEMMA TakenInOrder ==
  ASSUME TypeInv, NEW c \in Conn, TakePending(c)
  PROVE  \E place :
           /\ \A i, id : HoldAt(c, i, id)' <=>
                \E j : QueueAt(arg[c], j, id) /\ queue[arg[c]][j].expires_at > now /\ i = place[j]
           /\ \A j, n \in 1..Len(queue[arg[c]]) :
                j < n /\ queue[arg[c]][n].expires_at > now => place[j] < place[n]
<1>t. /\ queue \in [Address -> Seq(QueuedMessage)]
      /\ held \in [Conn -> Seq(QueuedMessage)]
  BY DEF TypeInv, TypeOK
<1>1. arg[c] \in Address
  BY DEF TakePending, TypeInv, SectionsReady
<1>2. held' = [held EXCEPT ![c] = ValidMessages(arg[c])]
  BY DEF TakePending
<1>3. PICK place : Keeps(queue[arg[c]], ValidMessages(arg[c]), place)
  BY <1>t, <1>1, ValidMessagesKeep
<1>4. held'[c] = ValidMessages(arg[c])
  BY <1>t, <1>2
<1>5. ASSUME NEW i, NEW id
      PROVE  HoldAt(c, i, id)' <=>
               \E j : QueueAt(arg[c], j, id) /\ queue[arg[c]][j].expires_at > now /\ i = place[j]
  <2> DEFINE msgs == queue[arg[c]]
             kept == held'[c]
  <2>1. /\ \A n \in 1..Len(kept) : \E j \in 1..Len(msgs) :
             msgs[j].expires_at > now /\ n = place[j] /\ kept[n] = msgs[j]
        /\ \A j \in 1..Len(msgs) : msgs[j].expires_at > now =>
             place[j] \in 1..Len(kept) /\ kept[place[j]] = msgs[j]
    BY <1>3, <1>4 DEF Keeps
  <2>2. HoldAt(c, i, id)' <=> i \in 1..Len(kept) /\ kept[i].msg.id = id
    BY DEF HoldAt
  <2>3. \A j : QueueAt(arg[c], j, id) <=> j \in 1..Len(msgs) /\ msgs[j].msg.id = id
    BY <1>1 DEF QueueAt
  <2> HIDE DEF msgs, kept
  <2>4. ASSUME i \in 1..Len(kept), kept[i].msg.id = id
        PROVE  \E j \in 1..Len(msgs) :
                 msgs[j].msg.id = id /\ msgs[j].expires_at > now /\ i = place[j]
    <3>1. PICK j \in 1..Len(msgs) :
            msgs[j].expires_at > now /\ i = place[j] /\ kept[i] = msgs[j]
      BY <2>1, <2>4
    <3> QED BY <2>4, <3>1
  <2>5. ASSUME NEW j \in 1..Len(msgs), msgs[j].msg.id = id, msgs[j].expires_at > now,
               i = place[j]
        PROVE  i \in 1..Len(kept) /\ kept[i].msg.id = id
    BY <2>1, <2>5
  <2> QED BY <2>2, <2>3, <2>4, <2>5 DEF msgs
<1>6. \A j, n \in 1..Len(queue[arg[c]]) :
        j < n /\ queue[arg[c]][n].expires_at > now => place[j] < place[n]
  BY <1>3 DEF Keeps
<1> QED BY <1>5, <1>6

LEMMA TakePendingMoves ==
  ASSUME TypeInv, NEW c \in Conn, TakePending(c)
  PROVE  /\ arg[c] \in Address
         /\ \A o, i, id : QueueAt(o, i, id)' <=> QueueAt(o, i, id) /\ o # arg[c]
         /\ \A o, i, id : o # c => (HoldAt(o, i, id)' <=> HoldAt(o, i, id))
         /\ \E place : \A i, id : HoldAt(c, i, id)' <=>
              \E j : QueueAt(arg[c], j, id) /\ queue[arg[c]][j].expires_at > now /\ i = place[j]
<1>t. /\ queue \in [Address -> Seq(QueuedMessage)] /\ held \in [Conn -> Seq(QueuedMessage)]
  BY DEF TypeInv, TypeOK
<1>1. arg[c] \in Address
  BY DEF TakePending, TypeInv, SectionsReady
<1>2. /\ queue' = [queue EXCEPT ![arg[c]] = <<>>]
      /\ held' = [held EXCEPT ![c] = ValidMessages(arg[c])]
  BY DEF TakePending
<1>3. \A o, i, id : QueueAt(o, i, id)' <=> QueueAt(o, i, id) /\ o # arg[c]
  BY <1>t, <1>1, <1>2 DEF QueueAt
<1>4. \A o, i, id : o # c => (HoldAt(o, i, id)' <=> HoldAt(o, i, id))
  BY <1>t, <1>2 DEF HoldAt
<1>5. \E place : \A i, id : HoldAt(c, i, id)' <=>
        \E j : QueueAt(arg[c], j, id) /\ queue[arg[c]][j].expires_at > now /\ i = place[j]
  BY TakenInOrder
<1> QED BY <1>1, <1>3, <1>4, <1>5

LEMMA SendPendingMoves ==
  ASSUME TypeInv, NEW c \in Conn, SendPending(c), NEW o, NEW i, NEW id
  PROVE  /\ o # c => (HoldAt(o, i, id)' <=> HoldAt(o, i, id))
         /\ HoldAt(c, i, id)' <=> i \in Nat \ {0} /\ HoldAt(c, i + 1, id)
         /\ RxAt(o, i, id)' <=>
              \/ RxAt(o, i, id)
              \/ /\ o = c /\ i = Len(rx[c]) + 1 /\ send_task[c] # "stopped"
                 /\ HoldAt(c, 1, id)
<1>t. /\ held \in [Conn -> Seq(QueuedMessage)] /\ held[c] # <<>>
      /\ rx \in [Conn -> Seq(ServerResponse)]
  BY DEF TypeInv, TypeOK, SendPending
<1>1. held' = [held EXCEPT ![c] = Tail(@)]
  BY DEF SendPending
<1>2. o # c => (HoldAt(o, i, id)' <=> HoldAt(o, i, id))
  BY <1>t, <1>1 DEF HoldAt
<1>3. HoldAt(c, i, id)' <=> i \in Nat \ {0} /\ HoldAt(c, i + 1, id)
  <2>1. /\ held'[c] = Tail(held[c]) /\ Len(held'[c]) = Len(held[c]) - 1 /\ Len(held[c]) \in Nat
        /\ \A n \in 1..(Len(held[c]) - 1) : held'[c][n] = held[c][n + 1]
    BY <1>t, <1>1
  <2>2. i \in 1..Len(held'[c]) <=> i \in Nat \ {0} /\ i + 1 \in 1..Len(held[c])
    BY <2>1
  <2>3. i \in 1..Len(held'[c]) => held'[c][i] = held[c][i + 1]
    BY <2>1
  <2> QED BY <2>2, <2>3 DEF HoldAt
<1>4. RxAt(o, i, id)' <=>
        \/ RxAt(o, i, id)
        \/ o = c /\ i = Len(rx[c]) + 1 /\ send_task[c] # "stopped" /\ HoldAt(c, 1, id)
  <2> DEFINE m == Head(held[c]).msg
             resp == [status |-> "incoming_message", msg |-> m]
  <2>0. Head(held[c]) \in QueuedMessage
    BY <1>t
  <2>1. m \in Message
    BY <2>0 DEF QueuedMessage
  <2>2. rx' = Push(rx, c, resp)
    BY DEF SendPending
  <2>3. HoldAt(c, 1, id) <=> m.id = id
    BY <1>t DEF HoldAt
  <2> HIDE DEF m
  <2> QED BY <1>t, <2>1, <2>2, <2>3, PushMessage DEF RxAt
<1> QED BY <1>2, <1>3, <1>4

LEMMA ForwardMoves ==
  ASSUME TypeInv, NEW c \in Conn, NEW m \in Message, ForwardMessage(c, m),
         NEW o, NEW i, NEW id
  PROVE  /\ clients[m.to] \in Conn
         /\ RxAt(o, i, id)' <=>
              \/ RxAt(o, i, id)
              \/ /\ o = clients[m.to] /\ i = Len(rx[o]) + 1 /\ send_task[o] # "stopped"
                 /\ m.id = id
<1> DEFINE d == clients[m.to]
           incoming == [status |-> "incoming_message", msg |-> m]
           receipt == [status |-> "message_delivered", msg |-> m]
           box == Push(rx, d, incoming)
<1>1. d \in Conn /\ rx \in [Conn -> Seq(ServerResponse)]
  BY DEF ForwardMessage, Message, TypeInv, TypeOK
<1>2. /\ incoming \in ServerResponse /\ receipt \in ServerResponse
      /\ receipt.status # "incoming_message"
  BY DEF ServerResponse
<1>3. box \in [Conn -> Seq(ServerResponse)]
  BY <1>1, <1>2, PushType
<1>4. rx' = Push(box, c, receipt)
  BY DEF ForwardMessage
<1>5. Incoming(box, o, i, id) <=>
        \/ Incoming(rx, o, i, id)
        \/ o = d /\ i = Len(rx[d]) + 1 /\ send_task[d] # "stopped" /\ m.id = id
  <2> HIDE DEF d
  <2> QED BY <1>1, PushMessage
<1> HIDE DEF box, receipt, incoming
<1>6. Incoming(rx', o, i, id) <=> Incoming(box, o, i, id)
  BY <1>2, <1>3, <1>4, PushQuiet
<1> QED BY <1>1, <1>5, <1>6 DEF RxAt

LEMMA HoldMoves ==
  ASSUME TypeInv, NEW c \in Conn, NEW m \in Message, HoldMessage(c, m),
         NEW o, NEW i, NEW id
  PROVE  /\ o # c => (HoldAt(o, i, id)' <=> HoldAt(o, i, id))
         /\ HoldAt(c, i, id)' <=> i = 1 /\ m.id = id
         /\ held'[c] = <<[msg |-> m, expires_at |-> now + TTL]>>
<1> DEFINE qm == [msg |-> m, expires_at |-> now + TTL]
<1>1. held \in [Conn -> Seq(QueuedMessage)] /\ held' = [held EXCEPT ![c] = <<qm>>]
  BY DEF TypeInv, TypeOK, HoldMessage
<1>2. qm.msg.id = m.id
  OBVIOUS
<1> HIDE DEF qm
<1>3. held'[c] = <<qm>> /\ \A d \in Conn : d # c => held'[d] = held[d]
  BY <1>1
<1>4. o # c => (HoldAt(o, i, id)' <=> HoldAt(o, i, id))
  BY <1>3 DEF HoldAt
<1>5. Len(held'[c]) = 1 /\ held'[c][1] = qm
  BY <1>3
<1>6. i \in 1..Len(held'[c]) <=> i = 1
  BY <1>5
<1>7. HoldAt(c, i, id)' <=> i = 1 /\ m.id = id
  BY <1>2, <1>5, <1>6 DEF HoldAt
<1> QED BY <1>3, <1>4, <1>7 DEF qm

LEMMA EnqueueMoves ==
  ASSUME TypeInv, NEW c \in Conn, EnqueueMessage(c)
  PROVE  /\ Head(held[c]) \in QueuedMessage /\ Head(held[c]).msg.to \in Address
         /\ HoldAt(c, 1, Head(held[c]).msg.id)
         /\ \A o, i, id : HoldAt(o, i, id)' <=> HoldAt(o, i, id) /\ o # c
         /\ \A o, i, id : QueueAt(o, i, id)' <=>
              \/ QueueAt(o, i, id)
              \/ /\ o = Head(held[c]).msg.to /\ i = Len(queue[o]) + 1
                 /\ HoldAt(c, 1, id)
         /\ \A a \in Address : \A i \in 1..Len(queue[a]) : queue'[a][i] = queue[a][i]
         /\ queue'[Head(held[c]).msg.to][Len(queue[Head(held[c]).msg.to]) + 1] = Head(held[c])
<1> DEFINE qm == Head(held[c])
           b == qm.msg.to
<1>1. /\ held \in [Conn -> Seq(QueuedMessage)] /\ held[c] # <<>>
      /\ queue \in [Address -> Seq(QueuedMessage)]
  BY DEF TypeInv, TypeOK, SectionsReady, EnqueueMessage
<1>2. qm \in QueuedMessage /\ qm = held[c][1] /\ 1 \in 1..Len(held[c])
  BY <1>1
<1>3. b \in Address
  BY <1>2 DEF QueuedMessage, Message
<1>4. queue' = [queue EXCEPT ![b] = Append(queue[b], qm)] /\ held' = [held EXCEPT ![c] = <<>>]
  BY <1>1, <1>3 DEF EnqueueMessage, Enqueued
<1> HIDE DEF qm, b
<1>5. /\ Len(queue'[b]) = Len(queue[b]) + 1 /\ queue'[b][Len(queue[b]) + 1] = qm
      /\ \A i \in 1..Len(queue[b]) : queue'[b][i] = queue[b][i]
      /\ \A a \in Address : a # b => queue'[a] = queue[a]
      /\ \A a \in Address : Len(queue[a]) \in Nat
  BY <1>1, <1>2, <1>3, <1>4
<1>6. \A id : HoldAt(c, 1, id) <=> qm.msg.id = id
  BY <1>2 DEF HoldAt
<1>7. ASSUME NEW o, NEW i, NEW id PROVE HoldAt(o, i, id)' <=> HoldAt(o, i, id) /\ o # c
  BY <1>1, <1>4 DEF HoldAt
<1>8. ASSUME NEW o, NEW i, NEW id
      PROVE  QueueAt(o, i, id)' <=>
               \/ QueueAt(o, i, id)
               \/ o = b /\ i = Len(queue[o]) + 1 /\ HoldAt(c, 1, id)
  <2>1. CASE o # b
    BY <1>5, <2>1 DEF QueueAt
  <2>2. CASE o = b /\ i \in 1..Len(queue[b])
    <3>1. i \in 1..Len(queue'[b]) /\ queue'[b][i] = queue[b][i] /\ i # Len(queue[b]) + 1
      BY <1>3, <1>5, <2>2
    <3> QED BY <2>2, <3>1 DEF QueueAt
  <2>3. CASE o = b /\ i \notin 1..Len(queue[b])
    <3>1. i \in 1..Len(queue'[b]) <=> i = Len(queue[b]) + 1
      BY <1>3, <1>5, <2>3
    <3> QED BY <1>3, <1>5, <1>6, <2>3, <3>1 DEF QueueAt
  <2> QED BY <2>1, <2>2, <2>3
<1>9. \A a \in Address : \A i \in 1..Len(queue[a]) : queue'[a][i] = queue[a][i]
  BY <1>5
<1>10. HoldAt(c, 1, qm.msg.id)
  BY <1>6
<1> QED BY <1>2, <1>3, <1>5, <1>7, <1>8, <1>9, <1>10 DEF qm, b

LEMMA SocketMoves ==
  ASSUME TypeInv, NEW c \in Conn, SendToSocket(c), NEW o, NEW i, NEW id
  PROVE  /\ o # c => (RxAt(o, i, id)' <=> RxAt(o, i, id))
         /\ RxAt(c, i, id)' <=> i \in Nat \ {0} /\ RxAt(c, i + 1, id)
         /\ InboxAt(o, i, id)' <=>
              \/ InboxAt(o, i, id)
              \/ o = c /\ i = Len(inbox[c]) + 1 /\ link[c] = "up" /\ RxAt(c, 1, id)
<1>1. /\ rx \in [Conn -> Seq(ServerResponse)] /\ rx[c] # <<>>
      /\ inbox \in [Conn -> Seq(Message)]
      /\ rx' = [rx EXCEPT ![c] = Tail(@)]
      /\ inbox' = IF link[c] = "up" /\ Head(rx[c]).status = "incoming_message"
                  THEN [inbox EXCEPT ![c] = Append(@, Head(rx[c]).msg)] ELSE inbox
  BY DEF TypeInv, TypeOK, SendToSocket
<1>2. o # c => (RxAt(o, i, id)' <=> RxAt(o, i, id))
  BY <1>1 DEF RxAt, Incoming
<1>3. RxAt(c, i, id)' <=> i \in Nat \ {0} /\ RxAt(c, i + 1, id)
  <2>1. /\ Len(rx'[c]) = Len(rx[c]) - 1 /\ Len(rx[c]) \in Nat
        /\ \A n \in 1..(Len(rx[c]) - 1) : rx'[c][n] = rx[c][n + 1]
    BY <1>1
  <2>2. i \in 1..Len(rx'[c]) <=> i \in Nat \ {0} /\ i + 1 \in 1..Len(rx[c])
    BY <2>1
  <2>3. i \in 1..Len(rx'[c]) => rx'[c][i] = rx[c][i + 1]
    BY <2>1
  <2> QED BY <2>2, <2>3 DEF RxAt, Incoming
<1>4. InboxAt(o, i, id)' <=>
        \/ InboxAt(o, i, id)
        \/ o = c /\ i = Len(inbox[c]) + 1 /\ link[c] = "up" /\ RxAt(c, 1, id)
  <2> DEFINE h == Head(rx[c])
  <2>1. h = rx[c][1] /\ 1 \in 1..Len(rx[c]) /\ h \in ServerResponse
    BY <1>1
  <2>2. RxAt(c, 1, id) <=> h.status = "incoming_message" /\ h.msg.id = id
    BY <2>1 DEF RxAt, Incoming
  <2>3. h.status = "incoming_message" => h.msg \in Message
    BY <2>1 DEF ServerResponse
  <2> HIDE DEF h
  <2>4. CASE ~(link[c] = "up" /\ h.status = "incoming_message")
    BY <1>1, <2>2, <2>4 DEF InboxAt, h
  <2>5. CASE link[c] = "up" /\ h.status = "incoming_message"
    <3>1. inbox' = [inbox EXCEPT ![c] = Append(inbox[c], h.msg)]
      BY <1>1, <2>5 DEF h
    <3>2. /\ Len(inbox'[c]) = Len(inbox[c]) + 1 /\ inbox'[c][Len(inbox[c]) + 1] = h.msg
          /\ \A n \in 1..Len(inbox[c]) : inbox'[c][n] = inbox[c][n]
          /\ \A d \in Conn : d # c => inbox'[d] = inbox[d]
          /\ Len(inbox[c]) \in Nat
      BY <1>1, <2>3, <2>5, <3>1
    <3>3. CASE o # c
      BY <3>2, <3>3 DEF InboxAt
    <3>4. CASE o = c /\ i \in 1..Len(inbox[c])
      <4>1. i \in 1..Len(inbox'[c]) /\ i # Len(inbox[c]) + 1 /\ inbox'[c][i] = inbox[c][i]
        BY <3>2, <3>4
      <4> QED BY <3>4, <4>1 DEF InboxAt
    <3>5. CASE o = c /\ i \notin 1..Len(inbox[c])
      <4>1. i \in 1..Len(inbox'[c]) <=> i = Len(inbox[c]) + 1
        BY <3>2, <3>5
      <4> QED BY <2>2, <2>5, <3>2, <3>5, <4>1 DEF InboxAt
    <3> QED BY <3>3, <3>4, <3>5
  <2> QED BY <2>4, <2>5
<1> QED BY <1>2, <1>3, <1>4

LEMMA StopMoves ==
  ASSUME TypeInv, NEW c \in Conn, StopSendTask(c), NEW o, NEW i, NEW id
  PROVE  RxAt(o, i, id)' <=> RxAt(o, i, id) /\ o # c
  BY DEF TypeInv, TypeOK, StopSendTask, RxAt, Incoming

LEMMA RestartMoves ==
  ASSUME Restart, NEW o, NEW i, NEW id
  PROVE  ~QueueAt(o, i, id)' /\ ~HoldAt(o, i, id)' /\ ~RxAt(o, i, id)'
  BY DEF Restart, QueueAt, HoldAt, RxAt, Incoming

-----------------------------------------------------------------------------
(* Where the messages of a place were before the step. *)

LEMMA TakePendingPlaces ==
  ASSUME TypeInv, NEW c \in Conn, TakePending(c)
  PROVE  \E place :
           /\ \A k, o, i, id : At(k, o, i, id)' =>
                \/ /\ At(k, o, i, id)
                   /\ ~(k = "queue" /\ o = arg[c]) /\ ~(k = "held" /\ o = c)
                \/ /\ k = "held" /\ o = c
                   /\ \E j : /\ At("queue", arg[c], j, id) /\ i = place[j]
                             /\ queue[arg[c]][j].expires_at > now
           /\ \A j, n \in 1..Len(queue[arg[c]]) :
                j < n /\ queue[arg[c]][n].expires_at > now => place[j] < place[n]
<1>1. rx' = rx /\ inbox' = inbox
  BY DEF TakePending, channel
<1>2. PICK place :
        /\ \A i, id : HoldAt(c, i, id)' <=>
             \E j : QueueAt(arg[c], j, id) /\ queue[arg[c]][j].expires_at > now /\ i = place[j]
        /\ \A j, n \in 1..Len(queue[arg[c]]) :
             j < n /\ queue[arg[c]][n].expires_at > now => place[j] < place[n]
  BY TakenInOrder
<1>3. /\ \A o, i, id : QueueAt(o, i, id)' <=> QueueAt(o, i, id) /\ o # arg[c]
      /\ \A o, i, id : o # c => (HoldAt(o, i, id)' <=> HoldAt(o, i, id))
  BY TakePendingMoves
<1>4. ASSUME NEW k, NEW o, NEW i, NEW id, At(k, o, i, id)'
      PROVE  \/ /\ At(k, o, i, id)
                /\ ~(k = "queue" /\ o = arg[c]) /\ ~(k = "held" /\ o = c)
             \/ /\ k = "held" /\ o = c
                /\ \E j : /\ At("queue", arg[c], j, id) /\ i = place[j]
                          /\ queue[arg[c]][j].expires_at > now
  <2>1. CASE k = "held" /\ o = c
    <3>1. HoldAt(c, i, id)'
      BY <1>4, <2>1 DEF At
    <3>2. PICK j : QueueAt(arg[c], j, id) /\ queue[arg[c]][j].expires_at > now /\ i = place[j]
      BY <1>2, <3>1
    <3>3. At("queue", arg[c], j, id)
      BY <3>2 DEF At
    <3> QED BY <2>1, <3>2, <3>3
  <2>2. CASE ~(k = "held" /\ o = c)
    BY <1>1, <1>3, <1>4, <2>2 DEF At, RxAt, InboxAt
  <2> QED BY <2>1, <2>2
<1> QED BY <1>2, <1>4

LEMMA SendPendingPlaces ==
  ASSUME TypeInv, NEW c \in Conn, SendPending(c),
         NEW k, NEW o, NEW i, NEW id, At(k, o, i, id)'
  PROVE  \/ At(k, o, i, id) /\ ~(k = "held" /\ o = c)
         \/ k = "held" /\ o = c /\ i \in Nat \ {0} /\ At("held", c, i + 1, id)
         \/ k = "rx" /\ o = c /\ i = Len(rx[c]) + 1 /\ At("held", c, 1, id)
<1>1. queue' = queue /\ inbox' = inbox
  BY DEF SendPending, shared
<1> QED BY <1>1, SendPendingMoves DEF At, QueueAt, InboxAt

LEMMA EnqueuePlaces ==
  ASSUME TypeInv, NEW c \in Conn, EnqueueMessage(c),
         NEW k, NEW o, NEW i, NEW id, At(k, o, i, id)'
  PROVE  \/ At(k, o, i, id) /\ ~(k = "held" /\ o = c)
         \/ /\ k = "queue" /\ o = Head(held[c]).msg.to /\ i = Len(queue[o]) + 1
            /\ At("held", c, 1, id)
<1>1. rx' = rx /\ inbox' = inbox
  BY DEF EnqueueMessage, channel
<1> QED BY <1>1, EnqueueMoves DEF At, RxAt, InboxAt

LEMMA ForwardPlaces ==
  ASSUME TypeInv, NEW c \in Conn, NEW m \in Message, ForwardMessage(c, m),
         NEW k, NEW o, NEW i, NEW id, At(k, o, i, id)'
  PROVE  \/ At(k, o, i, id)
         \/ k = "rx" /\ o = clients[m.to] /\ i = Len(rx[o]) + 1 /\ id = m.id
<1>1. queue' = queue /\ held' = held /\ inbox' = inbox
  BY DEF ForwardMessage, shared, handler
<1> QED BY <1>1, ForwardMoves DEF At, QueueAt, HoldAt, InboxAt

LEMMA HoldPlaces ==
  ASSUME TypeInv, NEW c \in Conn, NEW m \in Message, HoldMessage(c, m),
         NEW k, NEW o, NEW i, NEW id, At(k, o, i, id)'
  PROVE  At(k, o, i, id) \/ (k = "held" /\ o = c /\ i = 1 /\ id = m.id)
<1>1. HoldAt(o, i, id)' => HoldAt(o, i, id) \/ (o = c /\ i = 1 /\ id = m.id)
  BY HoldMoves
<1>2. queue' = queue /\ rx' = rx /\ inbox' = inbox
  BY DEF HoldMessage, shared, channel
<1>3. /\ QueueAt(o, i, id)' <=> QueueAt(o, i, id)
      /\ RxAt(o, i, id)' <=> RxAt(o, i, id)
      /\ InboxAt(o, i, id)' <=> InboxAt(o, i, id)
  BY <1>2 DEF QueueAt, RxAt, InboxAt
<1> QED BY <1>1, <1>3 DEF At

LEMMA SocketPlaces ==
  ASSUME TypeInv, NEW c \in Conn, SendToSocket(c),
         NEW k, NEW o, NEW i, NEW id, At(k, o, i, id)'
  PROVE  \/ At(k, o, i, id) /\ ~(k = "rx" /\ o = c)
         \/ k = "rx" /\ o = c /\ i \in Nat \ {0} /\ At("rx", c, i + 1, id)
         \/ k = "inbox" /\ o = c /\ i = Len(inbox[c]) + 1 /\ At("rx", c, 1, id)
<1>1. queue' = queue /\ held' = held
  BY DEF SendToSocket, shared, handler
<1> QED BY <1>1, SocketMoves DEF At, QueueAt, HoldAt

\* The other steps bring no message to a new place.
LEMMA OtherPlaces ==
  ASSUME TypeInv,
         Still \/ (\E c \in Conn : StopSendTask(c)) \/ Restart,
         NEW k, NEW o, NEW i, NEW id, At(k, o, i, id)'
  PROVE  At(k, o, i, id)
<1>1. CASE Still
  BY <1>1 DEF Still, At, QueueAt, HoldAt, InboxAt
<1>2. ASSUME NEW c \in Conn, StopSendTask(c) PROVE At(k, o, i, id)
  <2>1. queue' = queue /\ held' = held /\ inbox' = inbox
    BY <1>2 DEF StopSendTask, shared, handler
  <2> QED BY <1>2, <2>1, StopMoves DEF At, QueueAt, HoldAt, InboxAt
<1>3. CASE Restart
  <2>1. inbox' = inbox
    BY <1>3 DEF Restart
  <2> QED BY <1>3, <2>1, RestartMoves DEF At, InboxAt
<1> QED BY <1>1, <1>2, <1>3

-----------------------------------------------------------------------------
(* No duplicated message. *)

\* A message is nowhere before a client has sent it.
Fresh(id) == id \notin sent => \A k, o, i : ~At(k, o, i, id)

CopyInv == TypeInv /\ HeldWhere /\ \A id \in MsgId : Unique(id) /\ Fresh(id)

\* Every step is a quiet one or moves messages as the lemmas above say.
LEMMA StepCases ==
  ASSUME [Next]_vars
  PROVE  \/ \E c \in Conn :
              \/ QuietAction(c)
              \/ TakePending(c) \/ SendPending(c) \/ EnqueueMessage(c)
              \/ \E m \in Message : ForwardMessage(c, m) \/ HoldMessage(c, m)
              \/ SendToSocket(c) \/ StopSendTask(c)
         \/ Tick
         \/ Restart
         \/ UNCHANGED vars
  BY DEF Next, Request, HandlerStep, SendTaskStep, QuietAction

LEMMA CopyInit == Init => CopyInv
<1> SUFFICES ASSUME Init PROVE CopyInv
  OBVIOUS
<1>1. \A k, o, i, id : ~At(k, o, i, id)
  BY DEF Init, At, QueueAt, HoldAt, RxAt, Incoming, InboxAt
<1>2. HeldWhere
  BY DEF Init, HeldWhere
<1> QED BY <1>1, <1>2, TypeInit DEF CopyInv, Unique, Fresh

LEMMA StillKeepsCopies ==
  ASSUME CopyInv, TypeInv', Still
  PROVE  CopyInv'
<1>1. \A k, o, i, id : At(k, o, i, id)' <=> At(k, o, i, id)
  BY DEF Still, At, QueueAt, HoldAt, InboxAt
<1>2. HeldWhere'
  BY DEF Still, CopyInv, HeldWhere
<1>3. \A id \in MsgId : Unique(id)' /\ Fresh(id)'
  BY <1>1 DEF Still, CopyInv, Unique, Fresh
<1> QED BY <1>2, <1>3 DEF CopyInv

LEMMA TickIsStill ==
  ASSUME Tick \/ UNCHANGED vars
  PROVE  Still
  BY DEF Tick, vars, world, shared, handler, channel, Still, RxAt

LEMMA CopyStep == CopyInv /\ [Next]_vars => CopyInv'
<1> SUFFICES ASSUME CopyInv, [Next]_vars PROVE CopyInv'
  OBVIOUS
<1>0. TypeInv /\ TypeInv' /\ HeldWhere
  BY TypeStep DEF CopyInv
<1>t. /\ pc \in [Conn -> Label] /\ held \in [Conn -> Seq(QueuedMessage)]
      /\ sent \subseteq MsgId
      /\ \A c \in Conn : Len(rx[c]) \in Nat /\ Len(inbox[c]) \in Nat
      /\ \A a \in Address : Len(queue[a]) \in Nat
  BY <1>0 DEF TypeInv, TypeOK
<1>1. ASSUME NEW c \in Conn, QuietAction(c) PROVE CopyInv'
  BY <1>0, <1>1, QuietIsStill, StillKeepsCopies
<1>2. ASSUME NEW c \in Conn, TakePending(c) PROVE CopyInv'
  <2>1. sent' = sent
    BY <1>2 DEF TakePending
  <2>2. HeldWhere'
    BY <1>0, <1>t, <1>2 DEF TakePending, Goto, HeldWhere
  <2>3. PICK place : \A k, o, i, id : At(k, o, i, id)' =>
          \/ At(k, o, i, id) /\ ~(k = "queue" /\ o = arg[c])
          \/ k = "held" /\ o = c /\ \E j : At("queue", arg[c], j, id) /\ i = place[j]
    <3>1. PICK place :
            /\ \A k, o, i, id : At(k, o, i, id)' =>
                 \/ /\ At(k, o, i, id)
                    /\ ~(k = "queue" /\ o = arg[c]) /\ ~(k = "held" /\ o = c)
                 \/ /\ k = "held" /\ o = c
                    /\ \E j : /\ At("queue", arg[c], j, id) /\ i = place[j]
                              /\ queue[arg[c]][j].expires_at > now
            /\ \A j, n \in 1..Len(queue[arg[c]]) :
                 j < n /\ queue[arg[c]][n].expires_at > now => place[j] < place[n]
      BY <1>0, <1>2, TakePendingPlaces
    <3> QED BY <3>1
  <2>4. \A id \in MsgId : Unique(id)' /\ Fresh(id)'
    BY <2>1, <2>3 DEF CopyInv, Unique, Fresh
  <2> QED BY <1>0, <2>2, <2>4 DEF CopyInv
<1>3. ASSUME NEW c \in Conn, SendPending(c) PROVE CopyInv'
  <2>1. sent' = sent
    BY <1>3 DEF SendPending
  <2>2. HeldWhere'
    BY <1>0, <1>t, <1>3 DEF SendPending, HeldWhere
  <2>3. ASSUME NEW k, NEW o, NEW i, NEW id, At(k, o, i, id)'
        PROVE  \/ At(k, o, i, id) /\ ~(k = "held" /\ o = c)
               \/ k = "held" /\ o = c /\ i \in Nat \ {0} /\ At("held", c, i + 1, id)
               \/ k = "rx" /\ o = c /\ i = Len(rx[c]) + 1 /\ At("held", c, 1, id)
    BY <1>0, <1>3, <2>3, SendPendingPlaces
  <2>4. \A id \in MsgId : Unique(id)' /\ Fresh(id)'
    BY <2>1, <2>3 DEF CopyInv, Unique, Fresh
  <2> QED BY <1>0, <2>2, <2>4 DEF CopyInv
<1>4. ASSUME NEW c \in Conn, EnqueueMessage(c) PROVE CopyInv'
  <2>1. sent' = sent
    BY <1>4 DEF EnqueueMessage
  <2>2. HeldWhere'
    BY <1>0, <1>t, <1>4 DEF EnqueueMessage, Goto, HeldWhere
  <2>3. ASSUME NEW k, NEW o, NEW i, NEW id, At(k, o, i, id)'
        PROVE  \/ At(k, o, i, id) /\ ~(k = "held" /\ o = c)
               \/ /\ k = "queue" /\ o = Head(held[c]).msg.to /\ i = Len(queue[o]) + 1
                  /\ At("held", c, 1, id)
    BY <1>0, <1>4, <2>3, EnqueuePlaces
  <2>4. \A id \in MsgId : Unique(id)' /\ Fresh(id)'
    BY <2>1, <2>3 DEF CopyInv, Unique, Fresh
  <2> QED BY <1>0, <2>2, <2>4 DEF CopyInv
<1>5. ASSUME NEW c \in Conn, NEW m \in Message, ForwardMessage(c, m) PROVE CopyInv'
  <2>1. held' = held /\ pc' = pc /\ m.id \notin sent /\ sent' = sent \cup {m.id}
    BY <1>5 DEF ForwardMessage, handler
  <2>2. HeldWhere'
    BY <1>0, <2>1 DEF HeldWhere
  <2>3. ASSUME NEW k, NEW o, NEW i, NEW id, At(k, o, i, id)'
        PROVE  \/ At(k, o, i, id)
               \/ k = "rx" /\ o = clients[m.to] /\ i = Len(rx[o]) + 1 /\ id = m.id
    BY <1>0, <1>5, <2>3, ForwardPlaces
  <2>4. \A id \in MsgId : Unique(id)' /\ Fresh(id)'
    BY <2>1, <2>3 DEF CopyInv, Unique, Fresh
  <2> QED BY <1>0, <2>2, <2>4 DEF CopyInv
<1>6. ASSUME NEW c \in Conn, NEW m \in Message, HoldMessage(c, m) PROVE CopyInv'
  <2>1. m.id \notin sent /\ sent' = sent \cup {m.id}
    BY <1>6 DEF HoldMessage
  <2>2. HeldWhere'
    <3>1. /\ pc' = [pc EXCEPT ![c] = "enqueue"] /\ pc \in [Conn -> Label]
          /\ held \in [Conn -> Seq(QueuedMessage)]
          /\ held' = [held EXCEPT ![c] = <<[msg |-> m, expires_at |-> now + TTL]>>]
      BY <1>0, <1>6 DEF HoldMessage, Goto, TypeInv, TypeOK
    <3>2. pc'[c] = "enqueue" /\ Len(held'[c]) = 1
      BY <3>1
    <3>3. \A d \in Conn : d # c => pc'[d] = pc[d] /\ held'[d] = held[d]
      BY <3>1
    <3> QED BY <1>0, <3>2, <3>3 DEF HeldWhere
  <2>3. ASSUME NEW k, NEW o, NEW i, NEW id, At(k, o, i, id)'
        PROVE  \/ At(k, o, i, id)
               \/ k = "held" /\ o = c /\ i = 1 /\ id = m.id
    BY <1>0, <1>6, <2>3, HoldPlaces
  <2>4. \A id \in MsgId : Unique(id)' /\ Fresh(id)'
    BY <2>1, <2>3 DEF CopyInv, Unique, Fresh
  <2> QED BY <1>0, <2>2, <2>4 DEF CopyInv
<1>7. ASSUME NEW c \in Conn, SendToSocket(c) PROVE CopyInv'
  <2>1. held' = held /\ sent' = sent /\ pc' = pc
    BY <1>7 DEF SendToSocket, handler
  <2>2. HeldWhere'
    BY <1>0, <2>1 DEF HeldWhere
  <2>3. ASSUME NEW k, NEW o, NEW i, NEW id, At(k, o, i, id)'
        PROVE  \/ At(k, o, i, id) /\ ~(k = "rx" /\ o = c)
               \/ k = "rx" /\ o = c /\ i \in Nat \ {0} /\ At("rx", c, i + 1, id)
               \/ k = "inbox" /\ o = c /\ i = Len(inbox[c]) + 1 /\ At("rx", c, 1, id)
    BY <1>0, <1>7, <2>3, SocketPlaces
  <2>4. \A id \in MsgId : Unique(id)' /\ Fresh(id)'
    BY <2>1, <2>3 DEF CopyInv, Unique, Fresh
  <2> QED BY <1>0, <2>2, <2>4 DEF CopyInv
<1>8. ASSUME NEW c \in Conn, StopSendTask(c) PROVE CopyInv'
  <2>1. held' = held /\ sent' = sent /\ pc' = pc
    BY <1>8 DEF StopSendTask, handler
  <2>2. HeldWhere'
    BY <1>0, <2>1 DEF HeldWhere
  <2>3. \A k, o, i, id : At(k, o, i, id)' => At(k, o, i, id)
    BY <1>0, <1>8, OtherPlaces
  <2>4. \A id \in MsgId : Unique(id)' /\ Fresh(id)'
    BY <2>1, <2>3 DEF CopyInv, Unique, Fresh
  <2> QED BY <1>0, <2>2, <2>4 DEF CopyInv
<1>9. CASE Restart
  <2>1. sent' = sent
    BY <1>9 DEF Restart
  <2>2. HeldWhere'
    BY <1>9 DEF Restart, HeldWhere
  <2>3. \A k, o, i, id : At(k, o, i, id)' => At(k, o, i, id)
    BY <1>0, <1>9, OtherPlaces
  <2>4. \A id \in MsgId : Unique(id)' /\ Fresh(id)'
    BY <2>1, <2>3 DEF CopyInv, Unique, Fresh
  <2> QED BY <1>0, <2>2, <2>4 DEF CopyInv
<1>10. CASE Tick \/ UNCHANGED vars
  BY <1>0, <1>10, TickIsStill, StillKeepsCopies
<1> QED BY <1>1, <1>2, <1>3, <1>4, <1>5, <1>6, <1>7, <1>8, <1>9, <1>10, StepCases

\* The queue, the local variables of the handlers, the channels and the peers
\* together never hold two copies of one message.
THEOREM NoDuplicates == Spec => []AtMostOneCopy
<1>1. CopyInv => AtMostOneCopy
  BY OneCopyUnique DEF CopyInv, TypeInv
<1> QED BY CopyInit, CopyStep, <1>1, PTL DEF Spec

-----------------------------------------------------------------------------
(* Who is ahead of whom. *)

\* Place (k, i) is before place (l, j) of the same address or connection.
Precedes(k, i, l, j) ==
  \/ k = l /\ i < j
  \/ k = "inbox" /\ l \in {"rx", "held"}
  \/ k = "rx" /\ l = "held"

AheadAt(x, y) ==
  \E k, l, o, i, j : At(k, o, i, x) /\ At(l, o, j, y) /\ Precedes(k, i, l, j)

AheadByPlaces == \A x, y : Ahead(x, y) <=> AheadAt(x, y)

LEMMA AheadPlaces == TypeOK => AheadByPlaces
<1> SUFFICES ASSUME TypeOK, NEW x, NEW y PROVE Ahead(x, y) <=> AheadAt(x, y)
  BY DEF AheadByPlaces
<1>1. ASSUME Ahead(x, y) PROVE AheadAt(x, y)
  <2>1. PICK p \in Copies(x), q \in Copies(y) :
          /\ p[2] = q[2]
          /\ \/ p[1] = q[1] /\ p[3] < q[3]
             \/ p[1] = "inbox" /\ q[1] \in {"rx", "held"}
             \/ p[1] = "rx" /\ q[1] = "held"
    BY <1>1 DEF Ahead
  <2>2. PICK k, o, i : At(k, o, i, x) /\ p = <<k, o, i>>
    BY <2>1, CopiesAt
  <2>3. PICK l, n, j : At(l, n, j, y) /\ q = <<l, n, j>>
    BY <2>1, CopiesAt
  <2>4. o = n /\ Precedes(k, i, l, j)
    BY <2>1, <2>2, <2>3 DEF Precedes
  <2> QED BY <2>2, <2>3, <2>4 DEF AheadAt
<1>2. ASSUME AheadAt(x, y) PROVE Ahead(x, y)
  <2>1. PICK k, l, o, i, j : At(k, o, i, x) /\ At(l, o, j, y) /\ Precedes(k, i, l, j)
    BY <1>2 DEF AheadAt
  <2>2. <<k, o, i>> \in Copies(x) /\ <<l, o, j>> \in Copies(y)
    BY <2>1, CopiesAt
  <2> QED BY <2>1, <2>2 DEF Ahead, Precedes
<1> QED BY <1>1, <1>2

LEMMA WaitingPlaces ==
  ASSUME TypeOK, NEW k \in {"queue", "held"}, NEW o, NEW i, NEW x, At(k, o, i, x)
  PROVE  Waiting(x)
<1>1. <<k, o, i>> \in Copies(x)
  BY CopiesAt
<1> QED BY <1>1 DEF Waiting

IndexOf(k, o, i) ==
  /\ i \in Nat \ {0}
  /\ k = "queue" => i <= Len(queue[o]) /\ Len(queue[o]) \in Nat
  /\ k = "rx" => i <= Len(rx[o]) /\ Len(rx[o]) \in Nat
  /\ k = "inbox" => i <= Len(inbox[o]) /\ Len(inbox[o]) \in Nat

PlacesHaveIndex == \A k, o, i, id : At(k, o, i, id) => IndexOf(k, o, i)

LEMMA PlaceIndex == TypeOK => PlacesHaveIndex
<1> SUFFICES ASSUME TypeOK, NEW k, NEW o, NEW i, NEW id, At(k, o, i, id)
             PROVE  IndexOf(k, o, i)
  BY DEF PlacesHaveIndex
<1>1. /\ \A a \in Address : Len(queue[a]) \in Nat
      /\ \A c \in Conn : Len(held[c]) \in Nat /\ Len(rx[c]) \in Nat /\ Len(inbox[c]) \in Nat
  BY DEF TypeOK
<1>2. CASE k = "queue"
  BY <1>1, <1>2 DEF At, QueueAt, IndexOf
<1>3. CASE k = "held"
  BY <1>1, <1>3 DEF At, HoldAt, IndexOf
<1>4. CASE k = "rx"
  BY <1>1, <1>4 DEF At, RxAt, Incoming, IndexOf
<1>5. CASE k = "inbox"
  BY <1>1, <1>5 DEF At, InboxAt, IndexOf
<1> QED BY <1>2, <1>3, <1>4, <1>5 DEF At

\* What OvertakenOnlyWaiting asks of the state before y is ahead of x.
MayLead(y, x) == ~Ahead(x, y) /\ (Ahead(y, x) \/ x \notin sent \/ Waiting(x))

\* Whoever is ahead is not behind.
LEMMA LeadsAlready ==
  ASSUME CopyInv, NEW x \in MsgId, NEW y \in MsgId, AheadAt(y, x)
  PROVE  MayLead(y, x)
<1>t. TypeOK
  BY DEF CopyInv, TypeInv
<1>1. PICK k, l, o, i, j : At(k, o, i, y) /\ At(l, o, j, x) /\ Precedes(k, i, l, j)
  BY DEF AheadAt
<1>2. i \in Nat /\ j \in Nat
  BY <1>t, <1>1, PlaceIndex DEF PlacesHaveIndex, IndexOf
<1>3. ASSUME AheadAt(x, y) PROVE FALSE
  <2>1. PICK k1, l1, o1, i1, j1 :
          At(k1, o1, i1, x) /\ At(l1, o1, j1, y) /\ Precedes(k1, i1, l1, j1)
    BY <1>3 DEF AheadAt
  <2>2. k1 = l /\ i1 = j /\ l1 = k /\ j1 = i
    BY <1>1, <2>1 DEF CopyInv, Unique
  <2> QED BY <1>1, <1>2, <2>1, <2>2 DEF Precedes
<1> QED BY <1>t, <1>3, AheadPlaces DEF MayLead, AheadByPlaces

\* A message that no client has sent yet is ahead of nobody and behind nobody.
LEMMA FreshIsNowhere ==
  ASSUME CopyInv, NEW x \in MsgId, NEW y \in MsgId, x \notin sent \/ y \notin sent
  PROVE  ~Ahead(x, y)
<1>1. TypeOK
  BY DEF CopyInv, TypeInv
<1>2. ~AheadAt(x, y)
  BY DEF CopyInv, Fresh, AheadAt
<1> QED BY <1>1, <1>2, AheadPlaces DEF AheadByPlaces

\* A waiting message is ahead only of those behind it in the same place.
LEMMA MayPassWaiting ==
  ASSUME CopyInv, NEW x \in MsgId, NEW y \in MsgId,
         NEW k \in {"queue", "held"}, NEW o, NEW i, At(k, o, i, x),
         NEW l, NEW p, NEW j, At(l, p, j, y), k # l
  PROVE  MayLead(y, x)
<1>t. TypeOK
  BY DEF CopyInv, TypeInv
<1>1. ASSUME AheadAt(x, y) PROVE FALSE
  <2>1. PICK k1, l1, o1, i1, j1 :
          At(k1, o1, i1, x) /\ At(l1, o1, j1, y) /\ Precedes(k1, i1, l1, j1)
    BY <1>1 DEF AheadAt
  <2>2. k1 = k /\ l1 = l
    BY <2>1 DEF CopyInv, Unique
  <2> QED BY <2>1, <2>2 DEF Precedes
<1> QED BY <1>t, <1>1, AheadPlaces, WaitingPlaces DEF MayLead, AheadByPlaces

\* If y is ahead of x after a step, MayLead(y, x) held before it: one lemma per
\* action that brings messages to new places.
LEMMA TakePendingOrder ==
  ASSUME CopyInv, TypeInv', NEW c \in Conn, TakePending(c),
         NEW x \in MsgId, NEW y \in MsgId,
         NEW k, NEW l, NEW o, NEW i, NEW j,
         At(k, o, i, y)', At(l, o, j, x)', Precedes(k, i, l, j), i \in Nat, j \in Nat
  PROVE  MayLead(y, x)
<1>t. TypeInv /\ TypeOK
  BY DEF CopyInv, TypeInv
<1> DEFINE a == arg[c]
<1>1. PICK place :
        /\ \A kk, oo, n, id : At(kk, oo, n, id)' =>
             \/ /\ At(kk, oo, n, id)
                /\ ~(kk = "queue" /\ oo = a) /\ ~(kk = "held" /\ oo = c)
             \/ /\ kk = "held" /\ oo = c
                /\ \E m : /\ At("queue", a, m, id) /\ n = place[m]
                          /\ queue[a][m].expires_at > now
        /\ \A m, n \in 1..Len(queue[a]) :
             m < n /\ queue[a][n].expires_at > now => place[m] < place[n]
  BY <1>t, TakePendingPlaces
<1> HIDE DEF a
<1>2. CASE At(k, o, i, y) /\ At(l, o, j, x)
  BY <1>2, LeadsAlready DEF AheadAt
<1>3. ASSUME At(k, o, i, y), k # "queue" \/ o # a, ~(k = "held" /\ o = c), l = "held", o = c,
             NEW m, At("queue", a, m, x)
      PROVE  MayLead(y, x)
  <2>1. k # "queue"
    BY <1>3 DEF Precedes
  <2> QED BY <1>3, <2>1, MayPassWaiting
<1>4. ASSUME k = "held", o = c, ~(l = "held" /\ o = c) PROVE FALSE
  BY <1>4 DEF Precedes
<1>5. ASSUME k = "held", l = "held", o = c,
             NEW m, At("queue", a, m, y), i = place[m], queue[a][m].expires_at > now,
             NEW n, At("queue", a, n, x), j = place[n], queue[a][n].expires_at > now
      PROVE  MayLead(y, x)
  <2>1. m \in 1..Len(queue[a]) /\ n \in 1..Len(queue[a]) /\ Len(queue[a]) \in Nat
    <3>1. m \in Nat \ {0} /\ n \in Nat \ {0} /\ Len(queue[a]) \in Nat
          /\ m <= Len(queue[a]) /\ n <= Len(queue[a])
      BY <1>t, <1>5, PlaceIndex DEF PlacesHaveIndex, IndexOf
    <3> QED BY <3>1
  <2>2. place[m] < place[n] /\ place[m] \in Nat /\ place[n] \in Nat
    BY <1>5 DEF Precedes
  <2>3. ~(n < m)
    <3>1. n < m => place[n] < place[m]
      BY <1>1, <1>5, <2>1
    <3> QED BY <2>2, <3>1
  <2>4. m # n
    BY <2>2
  <2>5. m < n
    BY <2>1, <2>3, <2>4
  <2> QED BY <1>5, <2>5, LeadsAlready DEF AheadAt, Precedes
<1>6. \/ At(k, o, i, y) /\ ~(k = "queue" /\ o = a) /\ ~(k = "held" /\ o = c)
      \/ /\ k = "held" /\ o = c
         /\ \E m : /\ At("queue", a, m, y) /\ i = place[m]
                   /\ queue[a][m].expires_at > now
  BY <1>1
<1>7. \/ At(l, o, j, x) /\ ~(l = "queue" /\ o = a) /\ ~(l = "held" /\ o = c)
      \/ /\ l = "held" /\ o = c
         /\ \E m : /\ At("queue", a, m, x) /\ j = place[m]
                   /\ queue[a][m].expires_at > now
  BY <1>1
<1> QED BY <1>2, <1>3, <1>4, <1>5, <1>6, <1>7

LEMMA SendPendingOrder ==
  ASSUME CopyInv, NEW c \in Conn, SendPending(c),
         NEW x \in MsgId, NEW y \in MsgId,
         NEW k, NEW l, NEW o, NEW i, NEW j,
         At(k, o, i, y)', At(l, o, j, x)', Precedes(k, i, l, j), i \in Nat, j \in Nat
  PROVE  MayLead(y, x)
<1>t. TypeInv /\ TypeOK
  BY DEF CopyInv, TypeInv
<1>1. \/ At(k, o, i, y) /\ ~(k = "held" /\ o = c)
      \/ k = "held" /\ o = c /\ i \in Nat \ {0} /\ At("held", c, i + 1, y)
      \/ k = "rx" /\ o = c /\ i = Len(rx[c]) + 1 /\ At("held", c, 1, y)
  BY <1>t, SendPendingPlaces
<1>2. \/ At(l, o, j, x) /\ ~(l = "held" /\ o = c)
      \/ l = "held" /\ o = c /\ j \in Nat \ {0} /\ At("held", c, j + 1, x)
      \/ l = "rx" /\ o = c /\ j = Len(rx[c]) + 1 /\ At("held", c, 1, x)
  BY <1>t, SendPendingPlaces
<1>3. \A n, id : At("rx", c, n, id) => n \in Nat /\ n <= Len(rx[c]) /\ Len(rx[c]) \in Nat
  BY <1>t, PlaceIndex DEF PlacesHaveIndex, IndexOf
<1>4. CASE At(k, o, i, y) /\ At(l, o, j, x)
  BY <1>4, LeadsAlready DEF AheadAt
<1>5. ASSUME At(k, o, i, y), ~(k = "held" /\ o = c), l \in {"held", "rx"}, o = c,
             NEW n, At("held", c, n, x)
      PROVE  MayLead(y, x)
  <2>1. k \in {"inbox", "rx"}
    BY <1>5 DEF Precedes
  <2> QED BY <1>5, <2>1, LeadsAlready DEF AheadAt, Precedes
<1>6. ASSUME k = "held", o = c, ~(l = "held" /\ o = c) PROVE FALSE
  BY <1>6 DEF Precedes
<1>7. ASSUME k = "rx", o = c, i = Len(rx[c]) + 1, At("held", c, 1, y),
             At(l, o, j, x), ~(l = "held" /\ o = c)
      PROVE  FALSE
  <2>1. l = "rx" /\ i < j
    BY <1>7 DEF Precedes
  <2>2. j <= Len(rx[c]) /\ Len(rx[c]) \in Nat
    BY <1>3, <1>7, <2>1
  <2> QED BY <1>7, <2>1, <2>2
<1>8. ASSUME NEW m \in Nat, NEW n \in Nat, m < n, At("held", c, m, y), At("held", c, n, x)
      PROVE  MayLead(y, x)
  BY <1>8, LeadsAlready DEF AheadAt, Precedes
<1>9. ASSUME k = "held", l = "held", At("held", c, i + 1, y), At("held", c, j + 1, x)
      PROVE  MayLead(y, x)
  <2>1. i + 1 \in Nat /\ j + 1 \in Nat /\ i + 1 < j + 1
    BY <1>9 DEF Precedes
  <2> QED BY <1>8, <1>9, <2>1
<1>10. ASSUME k = "rx", l = "held", At("held", c, 1, y), j \in Nat \ {0}, At("held", c, j + 1, x)
       PROVE  MayLead(y, x)
  <2>1. 1 < j + 1 /\ j + 1 \in Nat
    BY <1>10
  <2> QED BY <1>8, <1>10, <2>1
<1>11. ASSUME k = "rx", l = "rx", i = Len(rx[c]) + 1, j = Len(rx[c]) + 1 PROVE FALSE
  BY <1>11 DEF Precedes
<1> QED BY <1>1, <1>2, <1>4, <1>5, <1>6, <1>7, <1>9, <1>10, <1>11

LEMMA EnqueueOrder ==
  ASSUME CopyInv, NEW c \in Conn, EnqueueMessage(c),
         NEW x \in MsgId, NEW y \in MsgId,
         NEW k, NEW l, NEW o, NEW i, NEW j,
         At(k, o, i, y)', At(l, o, j, x)', Precedes(k, i, l, j), i \in Nat, j \in Nat
  PROVE  MayLead(y, x)
<1> DEFINE b == Head(held[c]).msg.to
<1>t. TypeInv /\ TypeOK
  BY DEF CopyInv, TypeInv
<1>1. \/ At(k, o, i, y) /\ ~(k = "held" /\ o = c)
      \/ k = "queue" /\ o = b /\ i = Len(queue[o]) + 1 /\ At("held", c, 1, y)
  BY <1>t, EnqueuePlaces
<1>2. \/ At(l, o, j, x) /\ ~(l = "held" /\ o = c)
      \/ l = "queue" /\ o = b /\ j = Len(queue[o]) + 1 /\ At("held", c, 1, x)
  BY <1>t, EnqueuePlaces
<1> HIDE DEF b
<1>3. CASE At(k, o, i, y) /\ At(l, o, j, x)
  BY <1>3, LeadsAlready DEF AheadAt
<1>4. ASSUME At(k, o, i, y), l = "queue", At("held", c, 1, x)
      PROVE  MayLead(y, x)
  <2>1. k = "queue"
    BY <1>4 DEF Precedes
  <2> QED BY <1>4, <2>1, MayPassWaiting
<1>5. ASSUME k = "queue", i = Len(queue[o]) + 1, At(l, o, j, x) PROVE FALSE
  <2>1. l = "queue" /\ i < j
    BY <1>5 DEF Precedes
  <2>2. j <= Len(queue[o]) /\ Len(queue[o]) \in Nat
    BY <1>t, <1>5, <2>1, PlaceIndex DEF PlacesHaveIndex, IndexOf
  <2> QED BY <1>5, <2>1, <2>2
<1>6. ASSUME k = "queue", i = Len(queue[o]) + 1, l = "queue", j = Len(queue[o]) + 1
      PROVE  FALSE
  BY <1>6 DEF Precedes
<1> QED BY <1>1, <1>2, <1>3, <1>4, <1>5, <1>6

LEMMA ForwardOrder ==
  ASSUME CopyInv, NEW c \in Conn, NEW m \in Message, ForwardMessage(c, m),
         NEW x \in MsgId, NEW y \in MsgId,
         NEW k, NEW l, NEW o, NEW i, NEW j,
         At(k, o, i, y)', At(l, o, j, x)', Precedes(k, i, l, j), i \in Nat, j \in Nat
  PROVE  MayLead(y, x)
<1>t. TypeInv /\ TypeOK /\ m.id \notin sent
  BY DEF CopyInv, TypeInv, ForwardMessage
<1>1. At(k, o, i, y) \/ (k = "rx" /\ i = Len(rx[o]) + 1 /\ y = m.id)
  BY <1>t, ForwardPlaces
<1>2. At(l, o, j, x) \/ x = m.id
  BY <1>t, ForwardPlaces
<1>3. CASE At(k, o, i, y) /\ At(l, o, j, x)
  BY <1>3, LeadsAlready DEF AheadAt
<1>4. CASE x = m.id
  BY <1>t, <1>4, FreshIsNowhere DEF MayLead
<1>5. CASE k = "rx" /\ i = Len(rx[o]) + 1 /\ y = m.id /\ At(l, o, j, x)
  <2>1. l # "rx"
    <3>1. l = "rx" => j <= Len(rx[o]) /\ Len(rx[o]) \in Nat
      BY <1>t, <1>5, PlaceIndex DEF PlacesHaveIndex, IndexOf
    <3> QED BY <1>5, <3>1 DEF Precedes
  <2>2. l = "held"
    BY <1>5, <2>1 DEF Precedes
  <2>3. Waiting(x)
    BY <1>t, <1>5, <2>2, WaitingPlaces
  <2> QED BY <1>t, <1>5, <2>3, FreshIsNowhere DEF MayLead
<1> QED BY <1>1, <1>2, <1>3, <1>4, <1>5

LEMMA HoldOrder ==
  ASSUME CopyInv, NEW c \in Conn, NEW m \in Message, HoldMessage(c, m),
         NEW x \in MsgId, NEW y \in MsgId,
         NEW k, NEW l, NEW o, NEW i, NEW j,
         At(k, o, i, y)', At(l, o, j, x)', Precedes(k, i, l, j), i \in Nat, j \in Nat
  PROVE  MayLead(y, x)
<1>t. TypeInv /\ TypeOK /\ m.id \notin sent
  BY DEF CopyInv, TypeInv, HoldMessage
<1>1. At(k, o, i, y) \/ (k = "held" /\ y = m.id)
  BY <1>t, HoldPlaces
<1>2. At(l, o, j, x) \/ x = m.id
  BY <1>t, HoldPlaces
<1>3. CASE At(k, o, i, y) /\ At(l, o, j, x)
  BY <1>3, LeadsAlready DEF AheadAt
<1>4. CASE x = m.id
  BY <1>t, <1>4, FreshIsNowhere DEF MayLead
<1>5. CASE k = "held" /\ y = m.id /\ At(l, o, j, x)
  <2>1. l = "held"
    BY <1>5 DEF Precedes
  <2>2. Waiting(x)
    BY <1>t, <1>5, <2>1, WaitingPlaces
  <2> QED BY <1>t, <1>5, <2>2, FreshIsNowhere DEF MayLead
<1> QED BY <1>1, <1>2, <1>3, <1>4, <1>5

LEMMA SocketOrder ==
  ASSUME CopyInv, NEW c \in Conn, SendToSocket(c),
         NEW x \in MsgId, NEW y \in MsgId,
         NEW k, NEW l, NEW o, NEW i, NEW j,
         At(k, o, i, y)', At(l, o, j, x)', Precedes(k, i, l, j), i \in Nat, j \in Nat
  PROVE  MayLead(y, x)
<1>t. TypeInv /\ TypeOK
  BY DEF CopyInv, TypeInv
<1>1. \/ At(k, o, i, y) /\ ~(k = "rx" /\ o = c)
      \/ k = "rx" /\ o = c /\ i \in Nat \ {0} /\ At("rx", c, i + 1, y)
      \/ k = "inbox" /\ o = c /\ i = Len(inbox[c]) + 1 /\ At("rx", c, 1, y)
  BY <1>t, SocketPlaces
<1>2. \/ At(l, o, j, x) /\ ~(l = "rx" /\ o = c)
      \/ l = "rx" /\ o = c /\ j \in Nat \ {0} /\ At("rx", c, j + 1, x)
      \/ l = "inbox" /\ o = c /\ j = Len(inbox[c]) + 1 /\ At("rx", c, 1, x)
  BY <1>t, SocketPlaces
<1>3. CASE At(k, o, i, y) /\ At(l, o, j, x)
  BY <1>3, LeadsAlready DEF AheadAt
<1>4. ASSUME At(k, o, i, y), ~(k = "rx" /\ o = c), l \in {"rx", "inbox"}, o = c,
             NEW n, At("rx", c, n, x)
      PROVE  MayLead(y, x)
  <2>1. k = "inbox"
    BY <1>4 DEF Precedes
  <2> QED BY <1>4, <2>1, LeadsAlready DEF AheadAt, Precedes
<1>5. ASSUME k \in {"rx", "inbox"}, o = c, NEW n, At("rx", c, n, y),
             At(l, o, j, x), l = "held"
      PROVE  MayLead(y, x)
  BY <1>5, LeadsAlready DEF AheadAt, Precedes
<1>6. ASSUME k = "rx", ~(l = "rx" /\ o = c), o = c, At(l, o, j, x) PROVE l = "held"
  BY <1>6 DEF Precedes
<1>7. ASSUME k = "inbox", i = Len(inbox[c]) + 1, ~(l = "rx" /\ o = c), o = c, At(l, o, j, x)
      PROVE  l = "held"
  <2>1. l = "inbox" => j <= Len(inbox[c]) /\ Len(inbox[c]) \in Nat
    BY <1>t, <1>7, PlaceIndex DEF PlacesHaveIndex, IndexOf
  <2> QED BY <1>7, <2>1 DEF Precedes
<1>8. ASSUME NEW m \in Nat, NEW n \in Nat, m < n, At("rx", c, m, y), At("rx", c, n, x)
      PROVE  MayLead(y, x)
  BY <1>8, LeadsAlready DEF AheadAt, Precedes
<1>9. ASSUME k = "rx", l = "rx", At("rx", c, i + 1, y), At("rx", c, j + 1, x)
      PROVE  MayLead(y, x)
  <2>1. i + 1 \in Nat /\ j + 1 \in Nat /\ i + 1 < j + 1
    BY <1>9 DEF Precedes
  <2> QED BY <1>8, <1>9, <2>1
<1>10. ASSUME k = "inbox", l = "rx", At("rx", c, 1, y), j \in Nat \ {0}, At("rx", c, j + 1, x)
       PROVE  MayLead(y, x)
  <2>1. 1 < j + 1 /\ j + 1 \in Nat
    BY <1>10
  <2> QED BY <1>8, <1>10, <2>1
<1>11. ASSUME k = "rx", l = "inbox" PROVE FALSE
  BY <1>11 DEF Precedes
<1>12. ASSUME k = "inbox", l = "inbox", i = Len(inbox[c]) + 1, j = Len(inbox[c]) + 1
       PROVE  FALSE
  BY <1>12 DEF Precedes
<1> QED BY <1>1, <1>2, <1>3, <1>4, <1>5, <1>6, <1>7, <1>9, <1>10, <1>11, <1>12

LEMMA OrderStep ==
  CopyInv /\ [Next]_vars => \A x, y \in MsgId : Ahead(y, x)' => MayLead(y, x)
<1> SUFFICES ASSUME CopyInv, [Next]_vars, NEW x \in MsgId, NEW y \in MsgId, Ahead(y, x)'
             PROVE  MayLead(y, x)
  OBVIOUS
<1>0. TypeInv /\ TypeInv' /\ TypeOK' /\ HeldWhere
  BY TypeStep DEF CopyInv, TypeInv
<1>a. AheadByPlaces'
  BY <1>0, AheadPlaces, PTL
<1>b. PlacesHaveIndex'
  BY <1>0, PlaceIndex, PTL
<1>1. PICK k, l, o, i, j : At(k, o, i, y)' /\ At(l, o, j, x)' /\ Precedes(k, i, l, j)
  BY <1>a DEF AheadByPlaces, AheadAt
<1>2. i \in Nat /\ j \in Nat
  BY <1>b, <1>1 DEF PlacesHaveIndex, IndexOf
<1>3. ASSUME NEW c \in Conn, TakePending(c) PROVE MayLead(y, x)
  BY <1>0, <1>1, <1>2, <1>3, TakePendingOrder
<1>4. ASSUME NEW c \in Conn, SendPending(c) PROVE MayLead(y, x)
  BY <1>1, <1>2, <1>4, SendPendingOrder
<1>5. ASSUME NEW c \in Conn, EnqueueMessage(c) PROVE MayLead(y, x)
  BY <1>1, <1>2, <1>5, EnqueueOrder
<1>6. ASSUME NEW c \in Conn, NEW m \in Message, ForwardMessage(c, m) PROVE MayLead(y, x)
  BY <1>1, <1>2, <1>6, ForwardOrder
<1>7. ASSUME NEW c \in Conn, NEW m \in Message, HoldMessage(c, m) PROVE MayLead(y, x)
  BY <1>1, <1>2, <1>7, HoldOrder
<1>8. ASSUME NEW c \in Conn, SendToSocket(c) PROVE MayLead(y, x)
  BY <1>1, <1>2, <1>8, SocketOrder
<1>9. ASSUME Still \/ (\E c \in Conn : StopSendTask(c)) \/ Restart PROVE MayLead(y, x)
  <2>1. At(k, o, i, y) /\ At(l, o, j, x)
    BY <1>0, <1>1, <1>9, OtherPlaces
  <2> QED BY <1>1, <2>1, LeadsAlready DEF AheadAt
<1>10. ASSUME NEW c \in Conn, QuietAction(c) PROVE Still
  BY <1>0, <1>10, QuietIsStill
<1> QED BY <1>3, <1>4, <1>5, <1>6, <1>7, <1>8, <1>9, <1>10, TickIsStill, StepCases

\* A message gets ahead of an older one only while that one waits in the queue
\* or in the loop that flushes it: from the channel on nobody overtakes.
THEOREM OrderIsKept == Spec => OvertakenOnlyWaiting
<1>1. CopyInv /\ [Next]_vars =>
        [\A x, y \in MsgId : Ahead(y, x)' =>
           /\ ~Ahead(x, y)
           /\ Ahead(y, x) \/ x \notin sent \/ Waiting(x)]_vars
  BY OrderStep DEF MayLead
<1> QED BY CopyInit, CopyStep, <1>1, PTL DEF Spec, OvertakenOnlyWaiting

-----------------------------------------------------------------------------
(* One session per address: a message only reaches its target's connection. *)

QueueAddressed ==
  \A a \in Address : \A i \in 1..Len(queue[a]) : queue[a][i].msg.to = a

\* An entry of the index leads to a handler that has registered the address,
\* not only to one that is about to.
IndexedIsCurrent ==
  \A a \in Address : clients[a] # None => current_user_address[clients[a]] = a

Own(box) ==
  \A c \in Conn : \A i \in 1..Len(box[c]) :
    box[c][i].status = "incoming_message" => box[c][i].msg.to = current_user_address[c]

OwnHeld ==
  \A c \in Conn : pc[c] = "drain" =>
    \A i \in 1..Len(held[c]) : held[c][i].msg.to = current_user_address[c]

RouteFacts == IndexedIsCurrent /\ Own(rx) /\ OwnHeld

RouteInv == SessionInv /\ QueueAddressed /\ (OneSession => RouteFacts)

LEMMA PushOwn ==
  ASSUME NEW box \in [Conn -> Seq(ServerResponse)], NEW c \in Conn,
         NEW resp \in ServerResponse, Own(box),
         resp.status = "incoming_message" => resp.msg.to = current_user_address[c]
  PROVE  Own(Push(box, c, resp))
<1> SUFFICES ASSUME NEW d \in Conn, NEW i \in 1..Len(Push(box, c, resp)[d])
             PROVE  Push(box, c, resp)[d][i].status = "incoming_message"
                      => Push(box, c, resp)[d][i].msg.to = current_user_address[d]
  BY DEF Own
<1>1. CASE send_task[c] = "stopped"
  BY <1>1, PushEntries DEF Own
<1>2. CASE send_task[c] # "stopped"
  <2>1. \/ i \in 1..Len(box[d]) /\ Push(box, c, resp)[d][i] = box[d][i]
        \/ d = c /\ Push(box, c, resp)[d][i] = resp
    <3>1. Len(box[d]) \in Nat
      OBVIOUS
    <3> QED BY <1>2, <3>1, PushEntries
  <2> QED BY <2>1 DEF Own
<1> QED BY <1>1, <1>2

LEMMA QueueAddressedStep ==
  ASSUME TypeInv, QueueAddressed, [Next]_vars
  PROVE  QueueAddressed'
<1>t. queue \in [Address -> Seq(QueuedMessage)]
  BY DEF TypeInv, TypeOK
<1>1. ASSUME NEW c \in Conn, TakePending(c) PROVE QueueAddressed'
  BY <1>t, <1>1 DEF TakePending, QueueAddressed
<1>2. ASSUME NEW c \in Conn, EnqueueMessage(c) PROVE QueueAddressed'
  <2> DEFINE qm == Head(held[c])
  <2>1. qm \in QueuedMessage /\ qm.msg.to \in Address
    BY <1>2, EnqueueMoves
  <2>2. queue' = [queue EXCEPT ![qm.msg.to] = Append(@, qm)]
    BY <1>2 DEF EnqueueMessage, Enqueued
  <2> HIDE DEF qm
  <2>3. ASSUME NEW a \in Address, NEW i \in 1..Len(queue'[a])
        PROVE  \/ i \in 1..Len(queue[a]) /\ queue'[a][i] = queue[a][i]
               \/ a = qm.msg.to /\ queue'[a][i] = qm
    <3>1. CASE a # qm.msg.to
      BY <1>t, <2>2, <3>1
    <3>2. CASE a = qm.msg.to
      <4>1. queue'[a] = Append(queue[a], qm) /\ queue[a] \in Seq(QueuedMessage)
        BY <1>t, <2>1, <2>2, <3>2
      <4> QED BY <2>1, <3>2, <4>1
    <3> QED BY <3>1, <3>2
  <2> QED BY <2>3 DEF QueueAddressed
<1>3. CASE queue' = queue
  BY <1>3 DEF QueueAddressed
<1>4. CASE Restart
  BY <1>4 DEF Restart, QueueAddressed
<1>5. ASSUME NEW c \in Conn,
             \/ QuietAction(c) \/ SendPending(c) \/ SendToSocket(c) \/ StopSendTask(c)
             \/ \E m \in Message : ForwardMessage(c, m) \/ HoldMessage(c, m)
      PROVE  queue' = queue
  BY <1>5 DEF QuietAction, Accept, Register, InsertClient, MarkOnline, FinishRegister,
     GetPublicKey, LookupKey, CheckStatus, RejectMessage, EndReceive, MarkOffline,
     RemoveClient, LoseLink, SendPending, SendToSocket, StopSendTask, ForwardMessage,
     HoldMessage, shared
<1>6. Tick \/ UNCHANGED vars => queue' = queue
  BY DEF Tick, vars, shared
<1> QED BY <1>1, <1>2, <1>3, <1>4, <1>5, <1>6, StepCases

\* Most steps register nobody, and bring no chat message to anybody.
LEMMA QuietRoute ==
  ASSUME RouteFacts,
         current_user_address' = current_user_address,
         \A a \in Address : clients'[a] # None => clients'[a] = clients[a],
         Own(rx'),
         held' = held,
         \A c \in Conn : pc'[c] = "drain" => pc[c] = "drain"
  PROVE  RouteFacts'
  BY DEF RouteFacts, IndexedIsCurrent, Own, OwnHeld

LEMMA RouteInit == Init => RouteInv
<1> SUFFICES ASSUME Init PROVE RouteInv
  OBVIOUS
<1>1. QueueAddressed /\ RouteFacts
  BY DEF Init, QueueAddressed, RouteFacts, IndexedIsCurrent, Own, OwnHeld
<1> QED BY <1>1, SessionInit DEF RouteInv

LEMMA RouteStep == RouteInv /\ [Next]_vars => RouteInv'
<1> SUFFICES ASSUME RouteInv, [Next]_vars, OneSession PROVE RouteFacts'
  BY SessionStep, QueueAddressedStep DEF RouteInv, SessionInv
<1>0. TypeInv /\ TypeInv' /\ SessionFacts /\ RouteFacts /\ QueueAddressed
  BY TypeStep DEF RouteInv, SessionInv
<1>t. /\ pc \in [Conn -> Label] /\ arg \in [Conn -> Address \cup {None}]
      /\ current_user_address \in [Conn -> Address \cup {None}]
      /\ clients \in [Address -> Conn \cup {None}]
      /\ queue \in [Address -> Seq(QueuedMessage)]
      /\ held \in [Conn -> Seq(QueuedMessage)]
      /\ rx \in [Conn -> Seq(ServerResponse)]
      /\ SectionsReady /\ SessionShape
  BY <1>0 DEF TypeInv, TypeOK, SessionFacts
<1>r. IndexedIsCurrent /\ Own(rx) /\ OwnHeld
  BY <1>0 DEF RouteFacts
<1>1. ASSUME NEW c \in Conn, InsertClient(c) PROVE RouteFacts'
  <2>1. /\ current_user_address[c] = None /\ arg[c] \in Address
        /\ current_user_address' = [current_user_address EXCEPT ![c] = arg[c]]
        /\ clients' = [clients EXCEPT ![arg[c]] = c]
        /\ pc' = [pc EXCEPT ![c] = "online"]
        /\ held' = held /\ rx' = rx
    BY <1>1, <1>t DEF InsertClient, Goto, channel, SessionShape, SectionsReady
  <2>2. IndexedIsCurrent'
    BY <1>t, <1>r, <2>1, NoneAssumption DEF IndexedIsCurrent
  <2>3. \A i \in 1..Len(rx[c]) : rx[c][i].status # "incoming_message"
    <3> SUFFICES ASSUME NEW i \in 1..Len(rx[c]), rx[c][i].status = "incoming_message"
                 PROVE  FALSE
      OBVIOUS
    <3>1. rx[c][i] \in ServerResponse /\ rx[c][i].msg.to = None
      BY <1>t, <1>r, <2>1 DEF Own
    <3>2. rx[c][i].msg \in Message
      BY <3>1 DEF ServerResponse
    <3> QED BY <3>1, <3>2, NoneAssumption DEF Message
  <2>4. Own(rx)'
    BY <1>t, <1>r, <2>1, <2>3 DEF Own
  <2>5. OwnHeld'
    BY <1>t, <1>r, <2>1 DEF OwnHeld
  <2> QED BY <2>2, <2>4, <2>5 DEF RouteFacts
<1>2. ASSUME NEW c \in Conn, QuietAction(c), ~InsertClient(c) PROVE RouteFacts'
  <2>1. /\ current_user_address' = current_user_address
        /\ \A a \in Address : clients'[a] # None => clients'[a] = clients[a]
        /\ held' = held
        /\ \A d \in Conn : pc'[d] = "drain" => pc[d] = "drain"
    BY <1>2, <1>t DEF QuietAction, Accept, Register, MarkOnline, FinishRegister,
       GetPublicKey, LookupKey, CheckStatus, RejectMessage, EndReceive, MarkOffline,
       RemoveClient, LoseLink, Goto, Receives, shared, handler
  <2>2. rx' = rx \/ \E resp \in ServerResponse :
          resp.status # "incoming_message" /\ rx' = Push(rx, c, resp)
    BY <1>0, <1>2, QuietResponse
  <2>3. Own(rx')
    BY <1>t, <1>r, <2>2, PushOwn
  <2> QED BY <1>0, <2>1, <2>3, QuietRoute
<1>3. ASSUME NEW c \in Conn, TakePending(c) PROVE RouteFacts'
  <2>1. /\ arg[c] \in Address /\ current_user_address[c] = arg[c]
        /\ current_user_address' = current_user_address /\ clients' = clients /\ rx' = rx
        /\ pc' = [pc EXCEPT ![c] = "drain"]
        /\ held' = [held EXCEPT ![c] = ValidMessages(arg[c])]
    BY <1>3, <1>t DEF TakePending, Goto, channel, SectionsReady, SessionShape
  <2> DEFINE T == {qm \in QueuedMessage : qm.msg.to = arg[c]}
  <2>2. queue[arg[c]] \in Seq(T)
    <3>1. queue[arg[c]] \in Seq(QueuedMessage)
      BY <1>t, <2>1
    <3>2. \A i \in 1..Len(queue[arg[c]]) : queue[arg[c]][i] \in T
      BY <1>0, <2>1, <3>1 DEF QueueAddressed
    <3> QED BY <3>1, <3>2
  <2>3. ValidMessages(arg[c]) \in Seq(T)
    BY <2>2, ValidMessagesType
  <2>4. OwnHeld'
    BY <1>t, <1>r, <2>1, <2>3 DEF OwnHeld
  <2> QED BY <1>r, <2>1, <2>4 DEF RouteFacts, IndexedIsCurrent, Own
<1>4. ASSUME NEW c \in Conn, SendPending(c) PROVE RouteFacts'
  <2> DEFINE m == Head(held[c]).msg
             resp == [status |-> "incoming_message", msg |-> m]
  <2>1. /\ pc[c] = "drain" /\ held[c] # <<>> /\ pc' = pc
        /\ current_user_address' = current_user_address /\ clients' = clients
        /\ held' = [held EXCEPT ![c] = Tail(@)]
        /\ rx' = Push(rx, c, resp)
    BY <1>4 DEF SendPending, shared
  <2>2. Head(held[c]) \in QueuedMessage /\ Head(held[c]) = held[c][1] /\ 1 \in 1..Len(held[c])
    BY <1>t, <2>1
  <2>3. m \in Message /\ m.to = current_user_address[c]
    BY <1>r, <2>1, <2>2 DEF QueuedMessage, OwnHeld
  <2> HIDE DEF m
  <2>4. resp \in ServerResponse /\ resp.msg = m
    BY <2>3 DEF ServerResponse
  <2> HIDE DEF resp
  <2>5. Own(rx')
    BY <1>t, <1>r, <2>1, <2>3, <2>4, PushOwn
  <2>6. \A d \in Conn : \A i \in 1..Len(held'[d]) : \E j \in 1..Len(held[d]) : held'[d][i] = held[d][j]
    <3>1. held[c] \in Seq(QueuedMessage) /\ held'[c] = Tail(held[c])
      BY <1>t, <2>1
    <3>2. \A i \in 1..Len(Tail(held[c])) :
            i + 1 \in 1..Len(held[c]) /\ Tail(held[c])[i] = held[c][i + 1]
      BY <2>1, <3>1
    <3>4. ASSUME NEW d \in Conn, d # c PROVE held'[d] = held[d]
      BY <1>t, <2>1, <3>4
    <3>5. ASSUME NEW d \in Conn, NEW i \in 1..Len(held'[d])
          PROVE  \E j \in 1..Len(held[d]) : held'[d][i] = held[d][j]
      <4>1. CASE d = c
        BY <3>1, <3>2, <4>1
      <4>2. CASE d # c
        BY <3>4, <4>2
      <4> QED BY <4>1, <4>2
    <3> QED BY <3>5
  <2>7. OwnHeld'
    BY <1>r, <2>1, <2>6 DEF OwnHeld
  <2> QED BY <1>r, <2>1, <2>5, <2>7 DEF RouteFacts, IndexedIsCurrent, Own
<1>5. ASSUME NEW c \in Conn, EnqueueMessage(c) PROVE RouteFacts'
  <2>1. /\ current_user_address' = current_user_address /\ clients' = clients /\ rx' = rx
        /\ pc[c] = "enqueue" /\ pc' = [pc EXCEPT ![c] = "receive"]
        /\ \A d \in Conn : d # c => held'[d] = held[d]
    BY <1>5, <1>t DEF EnqueueMessage, Goto, channel
  <2> QED BY <1>r, <1>t, <2>1 DEF RouteFacts, IndexedIsCurrent, Own, OwnHeld
<1>6. ASSUME NEW c \in Conn, NEW m \in Message, ForwardMessage(c, m) PROVE RouteFacts'
  <2> DEFINE d == clients[m.to]
             incoming == [status |-> "incoming_message", msg |-> m]
             receipt == [status |-> "message_delivered", msg |-> m]
  <2>1. /\ m.to \in Address /\ d # None
        /\ current_user_address' = current_user_address /\ clients' = clients
        /\ held' = held /\ pc' = pc
        /\ rx' = Push(Push(rx, d, incoming), c, receipt)
    BY <1>6 DEF ForwardMessage, Message, shared, handler
  <2>2. d \in Conn /\ current_user_address[d] = m.to
    BY <1>t, <1>r, <2>1 DEF IndexedIsCurrent
  <2> HIDE DEF d
  <2>3. /\ incoming \in ServerResponse /\ incoming.msg = m
        /\ receipt \in ServerResponse /\ receipt.status # "incoming_message"
    BY DEF ServerResponse
  <2> HIDE DEF incoming, receipt
  <2>4. Own(Push(rx, d, incoming)) /\ Push(rx, d, incoming) \in [Conn -> Seq(ServerResponse)]
    BY <1>t, <1>r, <2>2, <2>3, PushOwn, PushType
  <2>5. Own(rx')
    BY <2>1, <2>3, <2>4, PushOwn
  <2> QED BY <1>0, <2>1, <2>5, QuietRoute
<1>7. ASSUME NEW c \in Conn, NEW m \in Message, HoldMessage(c, m) PROVE RouteFacts'
  <2>1. /\ current_user_address' = current_user_address /\ clients' = clients /\ rx' = rx
        /\ pc' = [pc EXCEPT ![c] = "enqueue"]
        /\ \A d \in Conn : d # c => held'[d] = held[d]
    BY <1>7, <1>t DEF HoldMessage, Goto, channel, shared
  <2> QED BY <1>r, <1>t, <2>1 DEF RouteFacts, IndexedIsCurrent, Own, OwnHeld
<1>8. ASSUME NEW c \in Conn, SendToSocket(c) \/ StopSendTask(c) PROVE RouteFacts'
  <2>1. /\ current_user_address' = current_user_address /\ clients' = clients
        /\ held' = held /\ pc' = pc
        /\ \/ rx[c] # <<>> /\ rx' = [rx EXCEPT ![c] = Tail(@)]
           \/ rx' = [rx EXCEPT ![c] = <<>>]
    BY <1>8 DEF SendToSocket, StopSendTask, shared, handler
  <2>2. \A d \in Conn : \A i \in 1..Len(rx'[d]) : \E j \in 1..Len(rx[d]) : rx'[d][i] = rx[d][j]
    <3>1. CASE rx[c] # <<>> /\ rx' = [rx EXCEPT ![c] = Tail(@)]
      <4>1. \A i \in 1..Len(Tail(rx[c])) :
              i + 1 \in 1..Len(rx[c]) /\ Tail(rx[c])[i] = rx[c][i + 1]
        BY <1>t, <3>1
      <4> QED BY <1>t, <3>1, <4>1
    <3>2. CASE rx' = [rx EXCEPT ![c] = <<>>]
      BY <1>t, <3>2
    <3> QED BY <2>1, <3>1, <3>2
  <2>3. Own(rx')
    BY <1>r, <2>2 DEF Own
  <2> QED BY <1>0, <2>1, <2>3, QuietRoute
<1>9. CASE Restart
  BY <1>9 DEF Restart, RouteFacts, IndexedIsCurrent, Own, OwnHeld
<1>10. CASE Tick \/ UNCHANGED vars
  <2>1. /\ current_user_address' = current_user_address /\ clients' = clients
        /\ held' = held /\ pc' = pc /\ rx' = rx
    BY <1>10 DEF Tick, vars, shared, handler, channel
  <2> QED BY <1>0, <1>r, <2>1, QuietRoute
<1> QED BY <1>1, <1>2, <1>3, <1>4, <1>5, <1>6, <1>7, <1>8, <1>9, <1>10, StepCases

\* With one session per address, a chat message only ever enters the channel
\* of a connection that registered the message's target.
THEOREM RoutesToOwner == Spec => []RoutedToOwner
<1>1. RouteInv => RoutedToOwner
  <2> SUFFICES ASSUME RouteInv, OneSession, NEW c \in Conn
               PROVE  /\ \A i \in DOMAIN rx[c] :
                           rx[c][i].status = "incoming_message"
                             => rx[c][i].msg.to = current_user_address[c]
                      /\ \A i \in DOMAIN held[c] :
                           pc[c] = "drain" => held[c][i].msg.to = current_user_address[c]
    BY DEF RoutedToOwner
  <2>1. DOMAIN rx[c] = 1..Len(rx[c]) /\ DOMAIN held[c] = 1..Len(held[c])
    BY DEF RouteInv, SessionInv, TypeInv, TypeOK
  <2> QED BY <2>1 DEF RouteInv, RouteFacts, Own, OwnHeld
<1> QED BY RouteInit, RouteStep, <1>1, PTL DEF Spec
=============================================================================
