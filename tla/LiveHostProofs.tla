---------------------------- MODULE LiveHostProofs ----------------------------
(***************************************************************************)
(* Proofs about LiveHost, for any hosts, terminals, connections, queues    *)
(* and scenes: what a terminal shows it holds, until the host's side lets  *)
(* go of it.  The invariant says of each connection who knows it: the host *)
(* that has it in its slot, and the one terminal that shows or opens it;   *)
(* and that "info", the word a terminal takes for an acceptance, reaches   *)
(* only a connection that was given the slot.                              *)
(***************************************************************************)
EXTENDS LiveHost, SequenceTheorems, TLAPS

Connection ==
  [used : BOOLEAN, host : Hosts, inbox : Seq(Requests), outbox : Seq(Replies),
   cut : BOOLEAN, left : BOOLEAN]

Clean(messages) == \A i \in 1 .. Len(messages) : messages[i] # "info"
NoAttach(requests) == \A i \in 1 .. Len(requests) : requests[i] # "attach"

(* A connection that was told it was accepted is the one that holds the    *)
(* session, or was let go of; one that still asks is not.                  *)
GoodConn(k, c) ==
  /\ attached[c.host] = k \/ c.cut \/ Clean(c.outbox)
  /\ attached[c.host] = k => NoAttach(c.inbox)
  /\ \A i \in 1 .. Len(c.inbox) : c.inbox[i] = "attach" => i = 1

(* Whoever holds a session is a connection to its host.                    *)
GoodTable(table) ==
  /\ attached \in [Hosts -> 0 .. MaxConns]
  /\ table \in [Conns -> Connection]
  /\ \A k \in Conns : Len(table[k].outbox) <= Queue
  /\ \A k \in Conns : table[k].used => GoodConn(k, table[k])
  /\ \A h \in Hosts : attached[h] # 0 => table[attached[h]].used /\ table[attached[h]].host = h

(* What a terminal shows or asks for is its own, it has not closed it, and *)
(* what it shows it holds until the host lets go.                          *)
Own(c) == c.used /\ ~c.left
ShownInv ==
  \A t \in Terminals :
    /\ on[t] # 0 => Own(conns[on[t]]) /\ (Held(on[t]) \/ conns[on[t]].cut)
    /\ opening[t] # 0 => Own(conns[opening[t]])
    /\ \A u \in Terminals :
         /\ on[t] # 0 => on[t] # opening[u] /\ (on[t] = on[u] => t = u)
         /\ opening[t] # 0 /\ opening[t] = opening[u] => t = u

TableInv ==
  /\ on \in [Terminals -> 0 .. MaxConns]
  /\ opening \in [Terminals -> 0 .. MaxConns]
  /\ GoodTable(conns)
  /\ ShownInv

HostInv ==
  /\ up \in [Hosts -> BOOLEAN] /\ writing \in [Hosts -> BOOLEAN]
  /\ stop \in [Hosts -> {"no", "asked", "stopping", "killed"}]
  /\ worker \in [Hosts -> {"reading", "drawing", "gone"}]
  /\ typed \in [Hosts -> 0 .. Room] /\ drawn \in [Hosts -> 0 .. Room]
  /\ key \in [Hosts -> {"none", "go", "detach"}]
  /\ scene \in Scenes

LiveInv == HostInv /\ TableInv
-----------------------------------------------------------------------------
LEMMA SingletonQueue ==
  ASSUME NEW S, NEW x \in S
  PROVE  <<x>> \in Seq(S) /\ Len(<<x>>) = 1 /\ <<x>>[1] = x
OBVIOUS

LEMMA NothingQueued ==
  /\ \A S : <<>> \in Seq(S)
  /\ Len(<<>>) = 0 /\ Clean(<<>>) /\ NoAttach(<<>>)
BY DEF Clean, NoAttach

(* What is left after some messages were taken.                            *)
LEMMA TailIsShorter ==
  ASSUME NEW S, NEW q \in Seq(S), q # <<>>
  PROVE  /\ Tail(q) \in Seq(S) /\ Len(Tail(q)) = Len(q) - 1 /\ Len(q) \in Nat /\ Len(q) > 0
         /\ Head(q) = q[1] /\ q[1] \in S
         /\ \A i \in 1 .. Len(Tail(q)) : Tail(q)[i] = q[i + 1]
<1>1. Len(q) \in Nat /\ Len(q) > 0
  BY EmptySeq, LenProperties
<1> QED
  BY <1>1, HeadTailProperties, ElementOfSeq

LEMMA RestIsShorter ==
  ASSUME NEW S, NEW q \in Seq(S), NEW n \in 0 .. Len(q)
  PROVE  /\ SubSeq(q, n + 1, Len(q)) \in Seq(S) /\ Len(SubSeq(q, n + 1, Len(q))) <= Len(q)
         /\ Len(SubSeq(q, n + 1, Len(q))) \in Nat
         /\ \A i \in 1 .. Len(SubSeq(q, n + 1, Len(q))) :
              n + i \in 1 .. Len(q) /\ SubSeq(q, n + 1, Len(q))[i] = q[n + i]
<1>1. Len(q) \in Nat /\ n + 1 \in Nat /\ \A i \in n + 1 .. Len(q) : q[i] \in S
  BY LenProperties, ElementOfSeq
<1>2. /\ SubSeq(q, n + 1, Len(q)) \in Seq(S)
      /\ Len(SubSeq(q, n + 1, Len(q))) = IF n + 1 <= Len(q) THEN Len(q) - (n + 1) + 1 ELSE 0
      /\ \A i \in 1 .. Len(q) - (n + 1) + 1 : SubSeq(q, n + 1, Len(q))[i] = q[n + 1 + i - 1]
  BY <1>1, SubSeqProperties
<1> QED
  BY <1>1, <1>2

LEMMA AppendedRequest ==
  ASSUME NEW q \in Seq(Requests)
  PROVE  /\ Append(q, "closed") \in Seq(Requests)
         /\ Len(Append(q, "closed")) = Len(q) + 1 /\ Len(q) \in Nat
         /\ \A i \in 1 .. Len(q) : Append(q, "closed")[i] = q[i]
         /\ Append(q, "closed")[Len(q) + 1] = "closed"
<1>1. "closed" \in Requests
  BY DEF Requests
<1> QED
  BY <1>1, AppendProperties, LenProperties

LEMMA OnlyClosedJoins ==
  ASSUME NEW q \in Seq(Requests), NEW p \in {q, Append(q, "closed")},
         NEW i \in 1 .. Len(p), p[i] = "attach"
  PROVE  i \in 1 .. Len(q) /\ q[i] = "attach"
<1>1. CASE p = q
  BY <1>1
<1>2. CASE p # q
  <2>1. /\ Len(p) = Len(q) + 1 /\ Len(q) \in Nat
        /\ \A j \in 1 .. Len(q) : p[j] = q[j]
        /\ p[Len(q) + 1] = "closed"
    BY <1>2, AppendedRequest
  <2>2. i \in 1 .. Len(q) \/ i = Len(q) + 1
    BY <2>1
  <2>3. "closed" # "attach"
    OBVIOUS
  <2> QED
    BY <2>1, <2>2, <2>3
<1> QED
  BY <1>1, <1>2

-----------------------------------------------------------------------------
LEMMA NoConnTyped ==
  /\ NoConn \in Connection /\ ~NoConn.used /\ NoConn.outbox = <<>> /\ NoConn.inbox = <<>>
  /\ ~NoConn.cut /\ ~NoConn.left
  /\ Len(NoConn.outbox) <= Queue
<1>1. (CHOOSE h \in Hosts : TRUE) \in Hosts
  BY HostsAssumption
<1>2. <<>> \in Seq(Requests) /\ <<>> \in Seq(Replies)
  OBVIOUS
<1> QED
  BY <1>1, <1>2, QueueAssumption DEF NoConn, Connection

LEMMA CutTyped ==
  ASSUME NEW k \in Conns, conns \in [Conns -> Connection], Len(conns[k].outbox) <= Queue
  PROVE  /\ Cut(k) \in Connection /\ Len(Cut(k).outbox) <= Queue
         /\ conns[k].left => ~Cut(k).used
         /\ ~conns[k].left => /\ Cut(k).used = conns[k].used /\ Cut(k).host = conns[k].host
                              /\ Cut(k).cut /\ ~Cut(k).left
                              /\ Cut(k).inbox = <<>> /\ Cut(k).outbox = conns[k].outbox
<1>1. CASE conns[k].left
  BY <1>1, NoConnTyped DEF Cut
<1>2. CASE ~conns[k].left
  <2>1. conns[k] \in Connection /\ <<>> \in Seq(Requests)
    OBVIOUS
  <2>2. Cut(k) = [conns[k] EXCEPT !.inbox = <<>>, !.cut = TRUE]
    BY <1>2 DEF Cut
  <2> QED
    BY <1>2, <2>1, <2>2 DEF Connection
<1> QED
  BY <1>1, <1>2

LEMMA ClosingTyped ==
  ASSUME NEW k \in Conns, conns \in [Conns -> Connection], Len(conns[k].outbox) <= Queue
  PROVE  /\ Closing(k) \in Connection /\ Len(Closing(k).outbox) <= Queue
         /\ Closing(k).outbox = <<>>
         /\ Held(k) => Closing(k).used
         /\ Closing(k).used =>
              /\ Closing(k).host = conns[k].host
              /\ conns[k].used \/ Unanswered(k)
              /\ Closing(k).inbox \in {conns[k].inbox, Append(conns[k].inbox, "closed")}
<1>1. CASE ~Held(k) /\ ~Unanswered(k)
  BY <1>1, NoConnTyped DEF Closing
<1>2. CASE Held(k) \/ Unanswered(k)
  <2> DEFINE inbox == IF conns[k].cut THEN conns[k].inbox ELSE Append(conns[k].inbox, "closed")
  <2>1. conns[k] \in Connection /\ conns[k].inbox \in Seq(Requests) /\ <<>> \in Seq(Replies)
    BY DEF Connection
  <2>2. inbox \in Seq(Requests) /\ inbox \in {conns[k].inbox, Append(conns[k].inbox, "closed")}
    BY <2>1, AppendedRequest
  <2>3. Closing(k) = [conns[k] EXCEPT !.outbox = <<>>, !.left = TRUE, !.inbox = inbox]
    BY <1>2 DEF Closing
  <2>4. Len(<<>>) <= Queue
    BY QueueAssumption
  <2> HIDE DEF inbox
  <2> QED
    BY <1>2, <2>1, <2>2, <2>3, <2>4 DEF Connection, Held
<1> QED
  BY <1>1, <1>2
-----------------------------------------------------------------------------
(* N is the table T with the queue q for k, and T with one message taken.  *)
Requeued(T, N, k, q) == N = [T EXCEPT ![k].outbox = q]
OneTaken(T, N, k) == N = [T EXCEPT ![k].outbox = Tail(@)]

(* A table in which one connection's queue got shorter.                    *)
LEMMA ShorterGood ==
  ASSUME NEW T, GoodTable(T), NEW k \in Conns, NEW q \in Seq(Replies), Len(q) <= Queue,
         Clean(T[k].outbox) => Clean(q),
         NEW N, Requeued(T, N, k, q)
  PROVE  /\ GoodTable(N)
         /\ \A j \in Conns :
              /\ N[j].used = T[j].used /\ N[j].host = T[j].host
              /\ N[j].cut = T[j].cut /\ N[j].left = T[j].left
<1> DEFINE c == [T[k] EXCEPT !.outbox = q]
<1>1. T \in [Conns -> Connection] /\ T[k] \in Connection
  BY DEF GoodTable
<1>2. /\ c \in Connection /\ c.used = T[k].used /\ c.host = T[k].host /\ c.cut = T[k].cut
      /\ c.left = T[k].left /\ c.inbox = T[k].inbox /\ c.outbox = q
  BY <1>1 DEF Connection
<1>3. N = [T EXCEPT ![k] = c]
  BY <1>1 DEF Requeued
<1> HIDE DEF c
<1>4. N \in [Conns -> Connection] /\ N[k] = c /\ \A j \in Conns : j # k => N[j] = T[j]
  BY <1>1, <1>2, <1>3
<1>5. \A j \in Conns : Len(N[j].outbox) <= Queue
  BY <1>2, <1>4 DEF GoodTable
<1>6. ASSUME NEW j \in Conns, N[j].used PROVE GoodConn(j, N[j])
  <2>1. CASE j = k
    <3>1. GoodConn(k, T[k])
      BY <1>2, <1>4, <1>6, <2>1 DEF GoodTable
    <3> QED
      BY <1>2, <1>4, <2>1, <3>1 DEF GoodConn
  <2>2. CASE j # k
    BY <1>4, <1>6, <2>2 DEF GoodTable
  <2> QED
    BY <2>1, <2>2
<1>7. ASSUME NEW h \in Hosts, attached[h] # 0
      PROVE  N[attached[h]].used /\ N[attached[h]].host = h
  <2>1. T[attached[h]].used /\ T[attached[h]].host = h
    BY <1>7 DEF GoodTable
  <2>2. CASE attached[h] = k
    BY <1>2, <1>4, <2>1, <2>2
  <2>3. CASE attached[h] # k
    <3>1. N[attached[h]] = T[attached[h]]
      BY <1>1, <1>3, <2>3
    <3> QED
      BY <2>1, <3>1
  <2> QED
    BY <2>2, <2>3
<1>8. GoodTable(N)
  BY <1>4, <1>5, <1>6, <1>7 DEF GoodTable
<1>9. \A j \in Conns : N[j].used = T[j].used /\ N[j].host = T[j].host /\ N[j].cut = T[j].cut
                       /\ N[j].left = T[j].left
  BY <1>2, <1>4
<1> QED
  BY <1>8, <1>9

LEMMA PoppedGood ==
  ASSUME NEW T, GoodTable(T), NEW k \in Conns, T[k].outbox # <<>>,
         NEW N, OneTaken(T, N, k)
  PROVE  /\ GoodTable(N)
         /\ \A j \in Conns :
              /\ N[j].used = T[j].used /\ N[j].host = T[j].host
              /\ N[j].cut = T[j].cut /\ N[j].left = T[j].left
<1> DEFINE q == Tail(T[k].outbox)
<1>1. T \in [Conns -> Connection] /\ T[k].outbox \in Seq(Replies) /\ Len(T[k].outbox) <= Queue
  BY DEF GoodTable, Connection
<1>2. /\ q \in Seq(Replies) /\ Len(q) = Len(T[k].outbox) - 1 /\ Len(T[k].outbox) \in Nat
      /\ \A i \in 1 .. Len(q) : q[i] = T[k].outbox[i + 1]
  BY <1>1, TailIsShorter
<1>3. Clean(T[k].outbox) => Clean(q)
  <2>1. \A i \in 1 .. Len(q) : i + 1 \in 1 .. Len(T[k].outbox)
    BY <1>2
  <2> QED
    BY <1>2, <2>1 DEF Clean
<1>4. Len(q) <= Queue
  BY <1>1, <1>2, QueueAssumption
<1>5. Requeued(T, N, k, q)
  BY DEF Requeued, OneTaken
<1> HIDE DEF q
<1> QED
  BY <1>2, <1>3, <1>4, <1>5, ShorterGood, SMTT(30)

LEMMA DrainedGood ==
  ASSUME NEW T, GoodTable(T), NEW k \in Conns, NEW N \in Drained(T, k)
  PROVE  /\ GoodTable(N)
         /\ \A j \in Conns :
              /\ N[j].used = T[j].used /\ N[j].host = T[j].host
              /\ N[j].cut = T[j].cut /\ N[j].left = T[j].left
<1>1. PICK n \in 0 .. Len(T[k].outbox) :
        N = [T EXCEPT ![k].outbox = SubSeq(@, n + 1, Len(@))]
  BY DEF Drained
<1> DEFINE q == SubSeq(T[k].outbox, n + 1, Len(T[k].outbox))
<1>2. T \in [Conns -> Connection] /\ T[k].outbox \in Seq(Replies) /\ Len(T[k].outbox) <= Queue
  BY DEF GoodTable, Connection
<1>3. /\ q \in Seq(Replies) /\ Len(q) <= Len(T[k].outbox) /\ Len(q) \in Nat
      /\ \A i \in 1 .. Len(q) : n + i \in 1 .. Len(T[k].outbox) /\ q[i] = T[k].outbox[n + i]
  BY <1>2, RestIsShorter
<1>4. Clean(T[k].outbox) => Clean(q)
  BY <1>3 DEF Clean
<1>5. Len(q) <= Queue
  BY <1>2, <1>3, QueueAssumption, LenProperties
<1>6. Requeued(T, N, k, q)
  BY <1>1 DEF Requeued
<1> HIDE DEF q
<1> QED
  BY <1>3, <1>4, <1>5, <1>6, ShorterGood

LEMMA WithoutGood ==
  ASSUME GoodTable(conns), NEW S \in SUBSET Conns, \A k \in S : conns[k].used
  PROVE  /\ GoodTable(Without(S))
         /\ \A k \in Conns \ S : Without(S)[k] = conns[k]
<1> DEFINE W == Without(S)
<1>1. conns \in [Conns -> Connection] /\ \A k \in Conns : Len(conns[k].outbox) <= Queue
  BY DEF GoodTable
<1>2. \A k \in Conns : W[k] = IF k \in S THEN Closing(k) ELSE conns[k]
  BY DEF Without
<1>3. W = [k \in Conns |-> W[k]]
  BY DEF Without
<1>4. \A k \in Conns : W[k] \in Connection /\ Len(W[k].outbox) <= Queue
  BY <1>1, <1>2, ClosingTyped
<1> HIDE DEF W
<1>5. W \in [Conns -> Connection]
  BY <1>3, <1>4
<1>6. ASSUME NEW k \in Conns, W[k].used PROVE GoodConn(k, W[k])
  <2>1. CASE k \notin S
    BY <1>2, <1>6, <2>1 DEF GoodTable
  <2>2. CASE k \in S
    <3> DEFINE r == conns[k].inbox
    <3>1. GoodConn(k, conns[k])
      BY <2>2 DEF GoodTable
    <3>2. /\ W[k].outbox = <<>> /\ W[k].host = conns[k].host
          /\ W[k].inbox \in {r, Append(r, "closed")}
      BY <1>1, <1>2, <1>6, <2>2, ClosingTyped
    <3>3. r \in Seq(Requests)
      BY <1>1 DEF Connection
    <3>4. \A i \in 1 .. Len(W[k].inbox) :
            W[k].inbox[i] = "attach" => i \in 1 .. Len(r) /\ r[i] = "attach"
      BY <3>2, <3>3, OnlyClosedJoins
    <3> HIDE DEF r
    <3>5. /\ attached[conns[k].host] = k => NoAttach(r)
          /\ \A i \in 1 .. Len(r) : r[i] = "attach" => i = 1
      BY <3>1 DEF GoodConn, r
    <3> QED
      BY <3>2, <3>4, <3>5, NothingQueued DEF GoodConn, NoAttach
  <2> QED
    BY <2>1, <2>2
<1>7. ASSUME NEW h \in Hosts, attached[h] # 0
      PROVE  W[attached[h]].used /\ W[attached[h]].host = h
  <2>0. attached[h] \in Conns
    BY <1>7, MaxConnsAssumption DEF GoodTable, Conns
  <2>1. conns[attached[h]].used /\ conns[attached[h]].host = h
    BY <1>7 DEF GoodTable
  <2>2. Held(attached[h])
    BY <2>1 DEF Held, At
  <2> QED
    BY <1>1, <1>2, <2>0, <2>1, <2>2, ClosingTyped
<1>8. GoodTable(W)
  BY <1>4, <1>5, <1>6, <1>7 DEF GoodTable
<1> QED
  BY <1>2, <1>8 DEF W
-----------------------------------------------------------------------------
(* k holds the session after the step.                                     *)
HoldsNext(k) == conns'[k].used /\ attached'[conns'[k].host] = k

(* What a terminal may not see happen to its connection.                   *)
StaysOwn(j) ==
  Own(conns[j]) =>
    /\ Own(conns'[j])
    /\ Held(j) \/ conns[j].cut => HoldsNext(j) \/ conns'[j].cut

LEMMA TerminalsTyped ==
  ASSUME TableInv
  PROVE  /\ \A t \in Terminals :
              /\ on[t] # 0 => on[t] \in Conns
              /\ opening[t] # 0 => opening[t] \in Conns
         /\ \A h \in Hosts : attached[h] # 0 => attached[h] \in Conns
         /\ conns \in [Conns -> Connection] /\ 0 \notin Conns
         /\ \A k \in Conns : conns[k] \in Connection /\ conns[k].host \in Hosts
BY MaxConnsAssumption DEF TableInv, GoodTable, Conns, Connection

LEMMA ShownKeeps ==
  ASSUME TableInv, UNCHANGED <<on, opening>>, \A j \in Conns : StaysOwn(j)
  PROVE  ShownInv'
<1>1. \A t \in Terminals :
        /\ on[t] # 0 => on[t] \in Conns
        /\ opening[t] # 0 => opening[t] \in Conns
  BY TerminalsTyped
<1> QED
  BY <1>1 DEF ShownInv, TableInv, StaysOwn, HoldsNext, Held, At, Own

LEMMA SameShown ==
  ASSUME TableInv, UNCHANGED <<attached, on, opening>>,
         \A j \in Conns : /\ conns'[j].used = conns[j].used /\ conns'[j].host = conns[j].host
                          /\ conns'[j].cut = conns[j].cut /\ conns'[j].left = conns[j].left
  PROVE  ShownInv'
<1>1. \A j \in Conns : StaysOwn(j)
  BY DEF StaysOwn, HoldsNext, Own, Held, At
<1> QED
  BY <1>1, ShownKeeps

(* A new connection, when no queue changed but perhaps the terminal's own. *)
LEMMA AskKeeps ==
  ASSUME NEW t \in Terminals, NEW h \in Hosts, NEW T, LiveInv, GoodTable(T),
         \A j \in Conns : /\ T[j].used = conns[j].used /\ T[j].host = conns[j].host
                          /\ T[j].cut = conns[j].cut /\ T[j].left = conns[j].left,
         Ask(t, h, T), UNCHANGED <<attached, on>>
  PROVE  TableInv'
<1>1. PICK k \in 1 .. scene.conns \ Ids :
        /\ conns' = [T EXCEPT ![k] =
                       [NoConn EXCEPT !.used = TRUE, !.host = h, !.inbox = <<"attach">>]]
        /\ opening' = [opening EXCEPT ![t] = k]
  BY DEF Ask
<1> DEFINE c == [NoConn EXCEPT !.used = TRUE, !.host = h, !.inbox = <<"attach">>]
<1>2. scene.conns \in 0 .. MaxConns
  BY ScenesAssumption DEF LiveInv, HostInv
<1>3. k \in Conns /\ ~conns[k].used /\ ~T[k].used /\ k # 0
  BY <1>1, <1>2, MaxConnsAssumption DEF Ids, Conns
<1>4. /\ <<"attach">> \in Seq(Requests) /\ Len(<<"attach">>) = 1
  <2>1. "attach" \in Requests
    BY DEF Requests
  <2> QED
    BY <2>1, SingletonQueue
<1>5. /\ c \in Connection /\ c.used /\ c.host = h /\ c.inbox = <<"attach">> /\ c.outbox = <<>>
      /\ ~c.left /\ Len(c.outbox) <= Queue
  BY <1>4, NoConnTyped DEF Connection
<1> HIDE DEF c
<1>6. T \in [Conns -> Connection] /\ attached \in [Hosts -> 0 .. MaxConns]
  BY DEF GoodTable
<1>7. conns' \in [Conns -> Connection] /\ conns'[k] = c /\ \A j \in Conns : j # k => conns'[j] = T[j]
  BY <1>1, <1>3, <1>5, <1>6 DEF c
<1>8. \A g \in Hosts : attached[g] # k
  BY <1>3 DEF GoodTable
<1>9. GoodTable(conns')
  <2>1. \A j \in Conns : Len(conns'[j].outbox) <= Queue
    BY <1>5, <1>7 DEF GoodTable
  <2>2. ASSUME NEW j \in Conns, conns'[j].used PROVE GoodConn(j, conns'[j])
    <3>1. CASE j = k
      <4>1. \A i \in 1 .. Len(c.inbox) : i = 1
        BY <1>4, <1>5
      <4> QED
        BY <1>5, <1>7, <1>8, <3>1, <4>1, NothingQueued DEF GoodConn
    <3>2. CASE j # k
      BY <1>7, <2>2, <3>2 DEF GoodTable
    <3> QED
      BY <3>1, <3>2
  <2>3. ASSUME NEW g \in Hosts, attached[g] # 0
        PROVE  conns'[attached[g]].used /\ conns'[attached[g]].host = g
    <3>1. attached[g] \in Conns
      BY <1>6, <2>3, MaxConnsAssumption DEF Conns
    <3> QED
      BY <1>7, <1>8, <2>3, <3>1 DEF GoodTable
  <2> QED
    BY <1>6, <1>7, <2>1, <2>2, <2>3 DEF GoodTable
<1>10. opening' \in [Terminals -> 0 .. MaxConns]
  BY <1>1, <1>3, MaxConnsAssumption DEF LiveInv, TableInv, Conns
<1>11. ShownInv'
  <2>1. /\ opening'[t] = k /\ \A u \in Terminals : u # t => opening'[u] = opening[u]
    BY <1>1 DEF LiveInv, TableInv
  <2>2. \A u \in Terminals :
          /\ on[u] # 0 => on[u] \in Conns /\ on[u] # k
          /\ opening[u] # 0 => opening[u] \in Conns /\ opening[u] # k
    BY <1>3, TerminalsTyped DEF LiveInv, TableInv, ShownInv, Own
  <2>3. \A j \in Conns : j # k => /\ conns'[j].used = conns[j].used
                                 /\ conns'[j].host = conns[j].host
                                 /\ conns'[j].cut = conns[j].cut
                                 /\ conns'[j].left = conns[j].left
    BY <1>7
  <2>4. ASSUME NEW u \in Terminals
        PROVE  /\ on[u] # 0 => Own(conns'[on[u]]) /\ (HoldsNext(on[u]) \/ conns'[on[u]].cut)
               /\ opening'[u] # 0 => Own(conns'[opening'[u]])
    <3>1. on[u] # 0 => Own(conns[on[u]]) /\ (Held(on[u]) \/ conns[on[u]].cut)
      BY DEF LiveInv, TableInv, ShownInv
    <3>2. opening[u] # 0 => Own(conns[opening[u]])
      BY DEF LiveInv, TableInv, ShownInv
    <3>3. on[u] # 0 => Own(conns'[on[u]]) /\ (HoldsNext(on[u]) \/ conns'[on[u]].cut)
      BY <2>2, <2>3, <3>1 DEF Own, Held, At, HoldsNext
    <3>4. u # t /\ opening'[u] # 0 => Own(conns'[opening'[u]])
      BY <2>1, <2>2, <2>3, <3>2 DEF Own
    <3>5. Own(conns'[k])
      BY <1>5, <1>7 DEF Own
    <3> QED
      BY <2>1, <3>3, <3>4, <3>5
  <2>5. \A u, v \in Terminals :
         /\ on'[u] # 0 => on'[u] # opening'[v] /\ (on'[u] = on'[v] => u = v)
         /\ opening'[u] # 0 /\ opening'[u] = opening'[v] => u = v
    BY <2>1, <2>2 DEF LiveInv, TableInv, ShownInv
  <2> QED
    BY <2>4, <2>5 DEF ShownInv, Held, At, HoldsNext, Own
<1> QED
  BY <1>9, <1>10, <1>11 DEF LiveInv, TableInv, GoodTable, GoodConn

LEMMA GoesTo ==
  ASSUME NEW t \in Terminals, NEW h \in Hosts, LiveInv, Attach(t, h) \/ Switch(t, h)
  PROVE  TableInv'
<1>0. GoodTable(conns) /\ UNCHANGED <<attached, on>>
  BY DEF LiveInv, TableInv, Attach, Switch, hosts
<1>1. CASE Attach(t, h)
  BY <1>0, <1>1, AskKeeps DEF Attach
<1>2. CASE Switch(t, h)
  <2>1. on[t] \in Conns /\ conns[on[t]].outbox # <<>> /\ Ask(t, h, Popped(on[t]))
    BY <1>2, TerminalsTyped DEF LiveInv, Switch, Reads
  <2> DEFINE T == Popped(on[t])
  <2>2. /\ GoodTable(T)
        /\ \A j \in Conns : /\ T[j].used = conns[j].used /\ T[j].host = conns[j].host
                            /\ T[j].cut = conns[j].cut /\ T[j].left = conns[j].left
    BY <1>0, <2>1, PoppedGood DEF Popped, OneTaken
  <2>3. Ask(t, h, T)
    BY <2>1
  <2> HIDE DEF T
  <2> QED
    BY <1>0, <2>2, <2>3, AskKeeps
<1> QED
  BY <1>1, <1>2

LEMMA ReadKeeps == ASSUME NEW t \in Terminals, LiveInv, Read(t) PROVE TableInv'
<1>0. /\ TableInv /\ GoodTable(conns) /\ UNCHANGED <<attached, on, opening>>
      /\ on[t] \in Conns /\ conns[on[t]].outbox # <<>>
  BY TerminalsTyped DEF LiveInv, TableInv, Read, Reads, hosts, terminals
<1> DEFINE T == Popped(on[t])
<1>1. /\ GoodTable(T)
      /\ \A j \in Conns : /\ T[j].used = conns[j].used /\ T[j].host = conns[j].host
                          /\ T[j].cut = conns[j].cut /\ T[j].left = conns[j].left
  BY <1>0, PoppedGood DEF Popped, OneTaken
<1>2. conns' \in Drained(T, on[t]) \/ conns' = T
  BY DEF Read
<1> HIDE DEF T
<1>3. /\ GoodTable(conns')
      /\ \A j \in Conns : /\ conns'[j].used = conns[j].used /\ conns'[j].host = conns[j].host
                          /\ conns'[j].cut = conns[j].cut /\ conns'[j].left = conns[j].left
  <2>1. CASE conns' = T
    BY <1>1, <2>1
  <2>2. CASE conns' \in Drained(T, on[t])
    BY <1>0, <1>1, <2>2, DrainedGood
  <2> QED
    BY <1>2, <2>1, <2>2
<1>4. ShownInv'
  BY <1>0, <1>3, SameShown
<1> QED
  BY <1>0, <1>3, <1>4 DEF TableInv, GoodTable, GoodConn

(* The new connection was accepted, so it is held until the host lets go.  *)
LEMMA OpenedKeeps == ASSUME NEW t \in Terminals, LiveInv, Opened(t) PROVE TableInv'
<1> DEFINE k == opening[t]
           left == {on[t]} \ {0}
           W == Without(left)
           T == [W EXCEPT ![k].outbox = Tail(@)]
<1>0. /\ TableInv /\ GoodTable(conns) /\ ShownInv /\ UNCHANGED attached
      /\ k # 0 /\ k \in Conns /\ conns[k].outbox # <<>> /\ Head(conns[k].outbox) = "info"
      /\ conns' \in Drained(T, k)
      /\ on' = [on EXCEPT ![t] = k] /\ opening' = [opening EXCEPT ![t] = 0]
  BY TerminalsTyped DEF LiveInv, TableInv, Opened, hosts
<1>1. left \in SUBSET Conns /\ (\A j \in left : conns[j].used) /\ k \notin left
  BY <1>0, TerminalsTyped DEF ShownInv, Own
<1>2. GoodTable(W) /\ \A j \in Conns \ left : W[j] = conns[j]
  BY <1>0, <1>1, WithoutGood
<1>3. W[k] = conns[k]
  BY <1>0, <1>1, <1>2
<1> HIDE DEF W
<1>4. /\ GoodTable(T)
      /\ \A j \in Conns : /\ T[j].used = W[j].used /\ T[j].host = W[j].host
                          /\ T[j].cut = W[j].cut /\ T[j].left = W[j].left
  <2>1. W[k].outbox # <<>> /\ OneTaken(W, T, k)
    BY <1>0, <1>3 DEF OneTaken
  <2>2. GoodTable(W) /\ k \in Conns
    BY <1>0, <1>2
  <2> HIDE DEF k, T
  <2> QED
    BY <2>1, <2>2, PoppedGood
<1> HIDE DEF T
<1>5. /\ GoodTable(conns')
      /\ \A j \in Conns \ left :
           /\ conns'[j].used = conns[j].used /\ conns'[j].host = conns[j].host
           /\ conns'[j].cut = conns[j].cut /\ conns'[j].left = conns[j].left
  <2>1. /\ GoodTable(conns')
        /\ \A j \in Conns :
           /\ conns'[j].used = T[j].used /\ conns'[j].host = T[j].host
           /\ conns'[j].cut = T[j].cut /\ conns'[j].left = T[j].left
    BY <1>0, <1>4, DrainedGood
  <2> QED
    BY <1>2, <1>4, <2>1
<1>6. Held(k) \/ conns[k].cut
  <2>1. conns[k].used /\ GoodConn(k, conns[k])
    BY <1>0 DEF ShownInv, Own, GoodTable
  <2>2. ~Clean(conns[k].outbox)
    <3>1. conns[k].outbox \in Seq(Replies)
      BY <1>0, TerminalsTyped DEF Connection
    <3>2. Len(conns[k].outbox) \in Nat /\ Len(conns[k].outbox) > 0 /\ conns[k].outbox[1] = "info"
      BY <1>0, <3>1, TailIsShorter
    <3>3. 1 \in 1 .. Len(conns[k].outbox)
      BY <3>2
    <3> QED
      BY <3>2, <3>3 DEF Clean
  <2> QED
    BY <2>1, <2>2 DEF GoodConn, Held, At
<1>7. Own(conns[k])
  BY <1>0 DEF ShownInv
<1>8. on' \in [Terminals -> 0 .. MaxConns] /\ opening' \in [Terminals -> 0 .. MaxConns]
  BY <1>0, MaxConnsAssumption DEF TableInv, Conns
<1>9. ShownInv'
  <2>1. /\ on'[t] = k /\ opening'[t] = 0
        /\ \A u \in Terminals : u # t => on'[u] = on[u] /\ opening'[u] = opening[u]
    BY <1>0 DEF TableInv
  <2>2. \A u \in Terminals :
          /\ u # t /\ on[u] # 0 => on[u] \in Conns \ left /\ on[u] # k
          /\ u # t /\ opening[u] # 0 => opening[u] \in Conns \ left /\ opening[u] # k
    BY <1>0, TerminalsTyped DEF ShownInv
  <2>3. k \in Conns \ left
    BY <1>0, <1>1
  <2> HIDE DEF k, left
  <2>4. ASSUME NEW u \in Terminals, on'[u] # 0
        PROVE  Own(conns'[on'[u]]) /\ (HoldsNext(on'[u]) \/ conns'[on'[u]].cut)
    <3>1. on'[u] \in Conns \ left
      BY <2>1, <2>2, <2>3, <2>4
    <3>2. Own(conns[on'[u]]) /\ (Held(on'[u]) \/ conns[on'[u]].cut)
      <4>1. CASE u = t
        BY <1>6, <1>7, <2>1, <4>1
      <4>2. CASE u # t
        BY <1>0, <2>1, <2>4, <4>2 DEF ShownInv
      <4> QED
        BY <4>1, <4>2
    <3> QED
      BY <1>0, <1>5, <3>1, <3>2 DEF Own, Held, At, HoldsNext
  <2>5. ASSUME NEW u \in Terminals, opening'[u] # 0 PROVE Own(conns'[opening'[u]])
    <3>1. opening'[u] = opening[u] /\ opening[u] \in Conns \ left /\ u # t
      BY <2>1, <2>2, <2>5
    <3>2. Own(conns[opening[u]])
      BY <1>0, <2>5, <3>1 DEF ShownInv
    <3> QED
      BY <1>5, <3>1, <3>2 DEF Own
  <2>6. \A u, v \in Terminals :
         /\ on'[u] # 0 => on'[u] # opening'[v] /\ (on'[u] = on'[v] => u = v)
         /\ opening'[u] # 0 /\ opening'[u] = opening'[v] => u = v
    BY <1>0, <2>1, <2>2 DEF ShownInv
  <2> QED
    BY <2>4, <2>5, <2>6 DEF ShownInv, Held, At, HoldsNext, Own
<1> QED
  BY <1>0, <1>5, <1>8, <1>9 DEF TableInv, GoodTable, GoodConn

(* A terminal that goes, or stays where it was, closes only what is its    *)
(* own, and keeps the rest.                                                *)
LEMMA ClosesKeeps ==
  ASSUME NEW t \in Terminals, LiveInv, NEW S \in SUBSET ({on[t], opening[t]} \ {0}),
         conns' = Without(S) \/ (conns' \in Drained(Without(S), on[t]) /\ on[t] # 0),
         UNCHANGED attached,
         opening' = [opening EXCEPT ![t] = 0], opening[t] # 0 => opening[t] \in S,
         on' = IF on[t] \in S THEN [on EXCEPT ![t] = 0] ELSE on
  PROVE  TableInv'
<1>0. TableInv /\ GoodTable(conns) /\ ShownInv
  BY DEF LiveInv, TableInv
<1> DEFINE W == Without(S)
<1>1. S \in SUBSET Conns /\ (\A j \in S : conns[j].used)
  BY <1>0, TerminalsTyped DEF ShownInv, Own
<1>2. GoodTable(W) /\ \A j \in Conns \ S : W[j] = conns[j]
  BY <1>0, <1>1, WithoutGood
<1> HIDE DEF W
<1>3. /\ GoodTable(conns')
      /\ \A j \in Conns \ S :
           /\ conns'[j].used = conns[j].used /\ conns'[j].host = conns[j].host
           /\ conns'[j].cut = conns[j].cut /\ conns'[j].left = conns[j].left
  <2>1. CASE conns' = W
    BY <1>2, <2>1
  <2>2. CASE conns' \in Drained(W, on[t]) /\ on[t] # 0
    <3>1. on[t] \in Conns
      BY <1>0, <2>2, TerminalsTyped
    <3>2. /\ GoodTable(conns')
          /\ \A j \in Conns :
               /\ conns'[j].used = W[j].used /\ conns'[j].host = W[j].host
               /\ conns'[j].cut = W[j].cut /\ conns'[j].left = W[j].left
      BY <1>2, <2>2, <3>1, DrainedGood
    <3> QED
      BY <1>2, <3>2
  <2> QED
    BY <2>1, <2>2 DEF W
<1>4. on' \in [Terminals -> 0 .. MaxConns] /\ opening' \in [Terminals -> 0 .. MaxConns]
  BY <1>0, MaxConnsAssumption DEF TableInv
<1>5. /\ on'[t] = (IF on[t] \in S THEN 0 ELSE on[t]) /\ opening'[t] = 0
      /\ \A u \in Terminals : u # t => on'[u] = on[u] /\ opening'[u] = opening[u]
  BY <1>0 DEF TableInv
<1>6. \A u \in Terminals :
        /\ on'[u] # 0 => on'[u] = on[u] /\ on[u] \in Conns \ S
        /\ opening'[u] # 0 => opening'[u] = opening[u] /\ opening[u] \in Conns \ S
  BY <1>0, <1>5, TerminalsTyped DEF ShownInv
<1>7. ShownInv'
  <2>1. ASSUME NEW u \in Terminals, on'[u] # 0
        PROVE  Own(conns'[on'[u]]) /\ (HoldsNext(on'[u]) \/ conns'[on'[u]].cut)
    <3>1. Own(conns[on[u]]) /\ (Held(on[u]) \/ conns[on[u]].cut)
      BY <1>0, <1>6, <2>1 DEF ShownInv
    <3> QED
      BY <1>3, <1>6, <2>1, <3>1 DEF Own, Held, At, HoldsNext
  <2>2. ASSUME NEW u \in Terminals, opening'[u] # 0 PROVE Own(conns'[opening'[u]])
    <3>1. Own(conns[opening[u]])
      BY <1>0, <1>6, <2>2 DEF ShownInv
    <3> QED
      BY <1>3, <1>6, <2>2, <3>1 DEF Own
  <2>3. \A u, v \in Terminals :
         /\ on'[u] # 0 => on'[u] # opening'[v] /\ (on'[u] = on'[v] => u = v)
         /\ opening'[u] # 0 /\ opening'[u] = opening'[v] => u = v
    BY <1>0, <1>6 DEF ShownInv
  <2> QED
    BY <2>1, <2>2, <2>3 DEF ShownInv, Held, At, HoldsNext, Own
<1> QED
  BY <1>3, <1>4, <1>7 DEF TableInv, GoodTable, GoodConn

LEMMA GoesAway ==
  ASSUME NEW t \in Terminals, LiveInv, NotOpened(t) \/ Returns(t) \/ Leaves(t)
  PROVE  TableInv'
<1>1. CASE NotOpened(t)
  <2> DEFINE S == {opening[t]}
  <2>1. /\ opening[t] # 0 /\ S \in SUBSET ({on[t], opening[t]} \ {0}) /\ UNCHANGED <<attached, on>>
        /\ conns' = Without(S) \/ (conns' \in Drained(Without(S), on[t]) /\ on[t] # 0)
        /\ opening' = [opening EXCEPT ![t] = 0]
    BY <1>1 DEF NotOpened, hosts
  <2>2. on[t] \notin S
    BY <2>1 DEF LiveInv, TableInv, ShownInv
  <2> QED
    BY <2>1, <2>2, ClosesKeeps
<1>2. CASE Away(t)
  <2> DEFINE S == {on[t], opening[t]} \ {0}
  <2>1. /\ conns' = Without(S) /\ on' = [on EXCEPT ![t] = 0] /\ UNCHANGED attached
        /\ opening' = [opening EXCEPT ![t] = 0]
    BY <1>2 DEF Away, hosts
  <2>2. on' = IF on[t] \in S THEN [on EXCEPT ![t] = 0] ELSE on
    BY <2>1 DEF LiveInv, TableInv
  <2> HIDE DEF S
  <2>3. S \in SUBSET ({on[t], opening[t]} \ {0}) /\ (opening[t] # 0 => opening[t] \in S)
    BY DEF S
  <2> QED
    BY <2>1, <2>2, <2>3, ClosesKeeps
<1> QED
  BY <1>1, <1>2 DEF Returns, Leaves
-----------------------------------------------------------------------------
(* The table with c in the place of k.                                     *)
Replaced(k, c) == conns' = [conns EXCEPT ![k] = c]

LEMMA ReplacedTable ==
  ASSUME conns \in [Conns -> Connection], NEW k \in Conns, NEW c \in Connection, Replaced(k, c)
  PROVE  /\ conns' \in [Conns -> Connection] /\ conns'[k] = c
         /\ \A j \in Conns : j # k => conns'[j] = conns[j]
BY DEF Replaced

(* One connection changed, and who holds what did not.                     *)
LEMMA OneKeeps ==
  ASSUME TableInv, NEW k \in Conns, NEW c \in Connection, Len(c.outbox) <= Queue,
         Replaced(k, c), UNCHANGED <<attached, on, opening>>,
         c.used => GoodConn(k, c),
         Held(k) => c.used /\ c.host = conns[k].host,
         Own(conns[k]) => /\ Own(c)
                          /\ Held(k) \/ conns[k].cut => attached[c.host] = k \/ c.cut
  PROVE  TableInv'
<1>0. GoodTable(conns) /\ conns \in [Conns -> Connection] /\ attached \in [Hosts -> 0 .. MaxConns]
  BY DEF TableInv, GoodTable
<1>1. /\ conns' \in [Conns -> Connection] /\ conns'[k] = c
      /\ \A j \in Conns : j # k => conns'[j] = conns[j]
  BY <1>0, ReplacedTable
<1>2. \A j \in Conns : Len(conns'[j].outbox) <= Queue
  BY <1>0, <1>1 DEF GoodTable
<1>3. ASSUME NEW j \in Conns, conns'[j].used PROVE GoodConn(j, conns'[j])
  BY <1>0, <1>1, <1>3 DEF GoodTable
<1>4. ASSUME NEW h \in Hosts, attached[h] # 0
      PROVE  conns'[attached[h]].used /\ conns'[attached[h]].host = h
  <2>1. attached[h] \in Conns /\ conns[attached[h]].used /\ conns[attached[h]].host = h
    BY <1>0, <1>4, TerminalsTyped DEF GoodTable
  <2>2. attached[h] = k => Held(k)
    BY <2>1 DEF Held, At
  <2> QED
    BY <1>1, <2>1, <2>2
<1>5. GoodTable(conns')
  BY <1>0, <1>1, <1>2, <1>3, <1>4 DEF GoodTable
<1>6. ASSUME NEW j \in Conns PROVE StaysOwn(j)
  <2>1. CASE j = k
    BY <1>1, <2>1 DEF StaysOwn, HoldsNext, Own
  <2>2. CASE j # k
    <3>1. conns'[j] = conns[j]
      BY <1>1, <2>2
    <3> QED
      BY <3>1 DEF StaysOwn, HoldsNext, Held, At
  <2> QED
    BY <2>1, <2>2
<1>7. ShownInv'
  BY <1>6, ShownKeeps
<1> QED
  BY <1>5, <1>7 DEF TableInv, GoodTable, GoodConn

(* The host let go of a connection.                                        *)
LEMMA LetsGo ==
  ASSUME TableInv, NEW k \in Conns, conns[k].used, NEW c \in Connection, Len(c.outbox) <= Queue,
         Replaced(k, c),
         attached' = IF Held(k) THEN [attached EXCEPT ![conns[k].host] = 0] ELSE attached,
         UNCHANGED <<on, opening>>,
         conns[k].left => ~c.used,
         ~conns[k].left => c.cut /\ c.used /\ ~c.left /\ c.inbox = <<>>
  PROVE  TableInv'
<1>0. /\ GoodTable(conns) /\ conns \in [Conns -> Connection]
      /\ attached \in [Hosts -> 0 .. MaxConns] /\ k # 0
      /\ \A j \in Conns : conns[j].host \in Hosts
  BY TerminalsTyped DEF TableInv, GoodTable
<1>1. /\ conns' \in [Conns -> Connection] /\ conns'[k] = c
      /\ \A j \in Conns : j # k => conns'[j] = conns[j]
  BY <1>0, ReplacedTable
<1>2. /\ attached' \in [Hosts -> 0 .. MaxConns]
      /\ \A h \in Hosts : attached'[h] # k
      /\ \A h \in Hosts : attached'[h] = attached[h] \/ (attached[h] = k /\ attached'[h] = 0)
  <2>1. \A h \in Hosts : attached[h] = k => Held(k) /\ h = conns[k].host
    BY <1>0 DEF GoodTable, Held, At
  <2>2. Held(k) => attached[conns[k].host] = k
    BY DEF Held, At
  <2> QED
    BY <1>0, <2>1, <2>2, MaxConnsAssumption
<1>3. \A j \in Conns : Len(conns'[j].outbox) <= Queue
  BY <1>0, <1>1 DEF GoodTable
<1>4. ASSUME NEW j \in Conns, conns'[j].used PROVE GoodConn(j, conns[j])'
  <2>1. CASE j = k
    BY <1>1, <1>4, <2>1, NothingQueued DEF GoodConn, NoAttach
  <2>2. CASE j # k
    <3>1. conns'[j] = conns[j] /\ GoodConn(j, conns[j]) /\ conns[j].host \in Hosts
      BY <1>0, <1>1, <1>4, <2>2 DEF GoodTable
    <3>2. attached'[conns[j].host] = j <=> attached[conns[j].host] = j
      BY <1>0, <1>2, <2>2, <3>1 DEF Conns
    <3> QED
      BY <3>1, <3>2 DEF GoodConn
  <2> QED
    BY <2>1, <2>2
<1>5. ASSUME NEW h \in Hosts, attached'[h] # 0
      PROVE  conns'[attached'[h]].used /\ conns'[attached'[h]].host = h
  <2>1. attached'[h] = attached[h] /\ attached[h] # k
    BY <1>2, <1>5
  <2> QED
    BY <1>0, <1>1, <1>5, <2>1, TerminalsTyped DEF GoodTable
<1>6. GoodTable(conns)'
  BY <1>1, <1>2, <1>3, <1>4, <1>5 DEF GoodTable
<1>7. ASSUME NEW j \in Conns PROVE StaysOwn(j)
  <2>1. CASE j = k
    BY <1>1, <2>1 DEF StaysOwn, Own
  <2>2. CASE j # k
    <3>1. conns'[j] = conns[j] /\ conns[j].host \in Hosts
      BY <1>0, <1>1, <2>2
    <3>2. attached[conns[j].host] = j => attached'[conns[j].host] = j
      BY <1>2, <2>2, <3>1
    <3> QED
      BY <3>1, <3>2 DEF StaysOwn, HoldsNext, Held, At
  <2> QED
    BY <2>1, <2>2
<1>8. ShownInv'
  BY <1>7, ShownKeeps
<1> QED
  BY <1>6, <1>8 DEF TableInv

(* The request that was taken was the only one to attach.                  *)
LEMMA TookRequest ==
  ASSUME NEW q \in Seq(Requests), q # <<>>, \A i \in 1 .. Len(q) : q[i] = "attach" => i = 1
  PROVE  Tail(q) \in Seq(Requests) /\ NoAttach(Tail(q))
<1>1. /\ Tail(q) \in Seq(Requests) /\ Len(Tail(q)) = Len(q) - 1 /\ Len(q) \in Nat
      /\ \A i \in 1 .. Len(Tail(q)) : Tail(q)[i] = q[i + 1]
  BY TailIsShorter
<1>2. \A i \in 1 .. Len(Tail(q)) : i + 1 \in 1 .. Len(q) /\ i + 1 # 1
  BY <1>1
<1> QED
  BY <1>1, <1>2 DEF NoAttach

LEMMA AttachKeeps == ASSUME NEW k \in Conns, conns[k].used, LiveInv, TakeAttach(k) PROVE TableInv'
<1> DEFINE h == conns[k].host
           q == conns[k].inbox
<1>0. /\ TableInv /\ GoodTable(conns) /\ ShownInv /\ conns \in [Conns -> Connection]
      /\ attached \in [Hosts -> 0 .. MaxConns] /\ k # 0
      /\ \A j \in Conns : conns[j].host \in Hosts
      /\ conns[k] \in Connection /\ q \in Seq(Requests) /\ GoodConn(k, conns[k])
      /\ UNCHANGED <<on, opening>>
  BY TerminalsTyped DEF LiveInv, TableInv, GoodTable, Connection, TakeAttach, terminals
<1>1. q # <<>> /\ Head(q) = "attach"
  BY DEF TakeAttach, Waits
<1>2. /\ Tail(q) \in Seq(Requests) /\ NoAttach(Tail(q)) /\ attached[h] # k
  <2>1. 1 \in 1 .. Len(q) /\ q[1] = "attach"
    BY <1>0, <1>1, TailIsShorter
  <2> QED
    BY <1>0, <1>1, <2>1, TookRequest DEF GoodConn, NoAttach
<1>3. "info" \in Replies /\ "error" \in Replies /\ "info" # "error"
  BY DEF Replies
<1>4. CASE Admits(h)
  <2> DEFINE p == IF conns[k].left THEN <<>> ELSE <<"info">>
             c == [conns[k] EXCEPT !.inbox = Tail(q), !.outbox = p]
  <2>1. p \in Seq(Replies) /\ Len(p) <= Queue
    BY <1>3, SingletonQueue, NothingQueued, QueueAssumption
  <2>2. /\ attached' = [attached EXCEPT ![h] = k] /\ attached[h] = 0
        /\ conns' = [conns EXCEPT ![k].inbox = Tail(@), ![k].outbox = p]
    BY <1>4 DEF TakeAttach, Admits, At
  <2> HIDE DEF p
  <2>3. conns' = [conns EXCEPT ![k] = c]
    BY <1>0, <2>2
  <2>4. /\ c \in Connection /\ c.used = conns[k].used /\ c.host = h /\ c.cut = conns[k].cut
        /\ c.left = conns[k].left /\ c.inbox = Tail(q) /\ c.outbox = p
    BY <1>0, <1>2, <2>1 DEF Connection
  <2> HIDE DEF c
  <2>5. /\ conns' \in [Conns -> Connection] /\ conns'[k] = c
        /\ \A j \in Conns : j # k => conns'[j] = conns[j]
    BY <1>0, <2>3, <2>4
  <2>6. /\ attached' \in [Hosts -> 0 .. MaxConns] /\ attached'[h] = k
        /\ \A g \in Hosts : attached'[g] = attached[g] \/ g = h
        /\ \A g \in Hosts : attached[g] # k
    BY <1>0, <2>2, MaxConnsAssumption DEF GoodTable, Conns
  <2>7. \A j \in Conns : Len(conns'[j].outbox) <= Queue
    BY <1>0, <2>1, <2>4, <2>5 DEF GoodTable
  <2>8. ASSUME NEW j \in Conns, conns'[j].used PROVE GoodConn(j, conns[j])'
    <3>1. CASE j = k
      <4>1. attached'[c.host] = k
        BY <2>4, <2>6
      <4>2. \A i \in 1 .. Len(c.inbox) : c.inbox[i] # "attach"
        BY <1>2, <2>4 DEF NoAttach
      <4> QED
        BY <2>5, <3>1, <4>1, <4>2 DEF GoodConn, NoAttach
    <3>2. CASE j # k
      <4>1. conns'[j] = conns[j] /\ GoodConn(j, conns[j]) /\ conns[j].host \in Hosts
        BY <1>0, <2>5, <2>8, <3>2 DEF GoodTable
      <4>2. attached'[conns[j].host] = j <=> attached[conns[j].host] = j
        BY <1>0, <2>2, <2>6, <3>2, <4>1 DEF Conns
      <4> QED
        BY <4>1, <4>2 DEF GoodConn
    <3> QED
      BY <3>1, <3>2
  <2>9. ASSUME NEW g \in Hosts, attached'[g] # 0
        PROVE  conns'[attached'[g]].used /\ conns'[attached'[g]].host = g
    <3>1. CASE g = h
      BY <2>4, <2>5, <2>6, <3>1
    <3>2. CASE g # h
      <4>1. attached'[g] = attached[g] /\ attached[g] # k
        BY <2>6, <3>2
      <4> QED
        BY <1>0, <2>5, <2>9, <4>1, TerminalsTyped DEF GoodTable
    <3> QED
      BY <3>1, <3>2
  <2>10. GoodTable(conns)'
    BY <2>5, <2>6, <2>7, <2>8, <2>9 DEF GoodTable
  <2>11. ASSUME NEW j \in Conns PROVE StaysOwn(j)
    <3>1. CASE j = k
      BY <1>2, <2>4, <2>5, <2>6, <3>1 DEF StaysOwn, HoldsNext, Own
    <3>2. CASE j # k
      <4>1. conns'[j] = conns[j] /\ conns[j].host \in Hosts
        BY <1>0, <2>5, <3>2
      <4>2. attached[conns[j].host] = j => attached'[conns[j].host] = j
        BY <1>0, <2>2, <2>6, <4>1 DEF Conns
      <4> QED
        BY <4>1, <4>2 DEF StaysOwn, HoldsNext, Held, At
    <3> QED
      BY <3>1, <3>2
  <2>12. ShownInv'
    BY <1>0, <2>11, ShownKeeps
  <2> QED
    BY <2>10, <2>12, <1>0 DEF TableInv
<1>5. CASE ~Admits(h)
  <2>1. UNCHANGED attached /\ ~Held(k)
    BY <1>2, <1>5 DEF TakeAttach, Held, At
  <2>2. CASE conns[k].left
    <3>1. Replaced(k, NoConn)
      BY <1>5, <2>2 DEF TakeAttach, At, Replaced
    <3>2. ~Own(conns[k])
      BY <2>2 DEF Own
    <3> QED
      BY <1>0, <2>1, <3>1, <3>2, NoConnTyped, OneKeeps
  <2>3. CASE ~conns[k].left
    <3> DEFINE e == <<"error">>
               c == [conns[k] EXCEPT !.inbox = <<>>, !.outbox = e]
    <3>1. Replaced(k, c)
      BY <1>5, <2>3 DEF TakeAttach, At, Replaced
    <3>2. e \in Seq(Replies) /\ Len(e) = 1 /\ e[1] = "error"
      BY <1>3, SingletonQueue
    <3> HIDE DEF e
    <3>3. conns[k] \in Connection /\ e \in Seq(Replies) /\ <<>> \in Seq(Requests)
      BY <1>0, <3>2
    <3>4. /\ c \in Connection /\ c.used = conns[k].used /\ c.host = h /\ c.cut = conns[k].cut
          /\ c.left = conns[k].left /\ c.inbox = <<>> /\ c.outbox = e
      BY <3>3 DEF Connection
    <3> HIDE DEF c
    <3>5. Len(c.outbox) <= Queue /\ Clean(c.outbox)
      <4>1. Len(c.outbox) = 1 /\ \A i \in 1 .. 1 : c.outbox[i] # "info"
        BY <3>2, <3>4
      <4> QED
        BY <4>1, QueueAssumption DEF Clean
    <3>6. GoodConn(k, c)
      BY <3>4, <3>5, NothingQueued DEF GoodConn, NoAttach
    <3>7. Own(c) /\ (Held(k) \/ conns[k].cut => c.cut)
      BY <2>1, <2>3, <3>4 DEF Own
    <3> QED
      BY <1>0, <2>1, <3>1, <3>4, <3>5, <3>6, <3>7, OneKeeps
  <2> QED
    BY <2>2, <2>3
<1> QED
  BY <1>4, <1>5
-----------------------------------------------------------------------------
LEMMA AppendedReply ==
  ASSUME NEW q \in Seq(Replies), NEW m \in Replies \ {"info"}
  PROVE  /\ Append(q, m) \in Seq(Replies) /\ Len(Append(q, m)) = Len(q) + 1 /\ Len(q) \in Nat
         /\ Clean(q) => Clean(Append(q, m))
<1>1. /\ Append(q, m) \in Seq(Replies) /\ Len(Append(q, m)) = Len(q) + 1 /\ Len(q) \in Nat
      /\ \A i \in 1 .. Len(q) : Append(q, m)[i] = q[i]
      /\ Append(q, m)[Len(q) + 1] = m
  BY AppendProperties, LenProperties
<1>2. \A i \in 1 .. Len(Append(q, m)) : i \in 1 .. Len(q) \/ i = Len(q) + 1
  BY <1>1
<1> QED
  BY <1>1, <1>2 DEF Clean

(* A step that touches no connection.                                      *)
LEMMA QuietKeeps ==
  ASSUME TableInv, UNCHANGED <<conns, attached, on, opening>>
  PROVE  TableInv'
<1>1. ShownInv'
  BY SameShown
<1> QED
  BY <1>1 DEF TableInv, GoodTable, GoodConn

(* The requests of whoever holds a session: none of them asks for it.      *)
Asks(k, r) == conns' = [conns EXCEPT ![k].inbox = r]

LEMMA RequestsKeep ==
  ASSUME TableInv, NEW k \in Conns, Held(k), NEW r \in Seq(Requests), NoAttach(r), Asks(k, r),
         UNCHANGED <<attached, on, opening>>
  PROVE  TableInv'
<1> DEFINE c == [conns[k] EXCEPT !.inbox = r]
<1>1. /\ conns \in [Conns -> Connection] /\ conns[k] \in Connection
      /\ Len(conns[k].outbox) <= Queue
      /\ conns[k].used /\ attached[conns[k].host] = k
  BY DEF TableInv, GoodTable, Held, At
<1>2. Replaced(k, c)
  BY <1>1 DEF Asks, Replaced
<1>3. /\ c \in Connection /\ c.used = conns[k].used /\ c.host = conns[k].host
      /\ c.cut = conns[k].cut /\ c.left = conns[k].left /\ c.inbox = r
      /\ c.outbox = conns[k].outbox
  BY <1>1 DEF Connection
<1> HIDE DEF c
<1>4. GoodConn(k, c)
  BY <1>1, <1>3 DEF GoodConn, NoAttach
<1> QED
  BY <1>1, <1>2, <1>3, <1>4, OneKeeps DEF Own

LEMMA TypeKeeps == ASSUME NEW t \in Terminals, LiveInv, Type(t) PROVE TableInv'
<1> DEFINE r == <<"input">>
<1>1. /\ TableInv /\ on[t] \in Conns /\ Held(on[t]) /\ UNCHANGED <<attached, on, opening>>
  BY TerminalsTyped DEF LiveInv, Type, hosts, terminals
<1>2. "input" \in Requests /\ "input" # "attach"
  BY DEF Requests
<1>3. r \in Seq(Requests) /\ Len(r) = 1 /\ r[1] = "input"
  BY <1>2, SingletonQueue
<1>4. Asks(on[t], r)
  BY DEF Type, Asks
<1> HIDE DEF r
<1>5. NoAttach(r)
  BY <1>2, <1>3 DEF NoAttach
<1> QED
  BY <1>1, <1>3, <1>4, <1>5, RequestsKeep

LEMMA KeysKeep == ASSUME NEW k \in Conns, LiveInv, TakeKeys(k) PROVE TableInv'
<1> DEFINE q == conns[k].inbox
<1>1. /\ TableInv /\ Held(k) /\ UNCHANGED <<attached, on, opening>> /\ q # <<>>
  BY DEF LiveInv, TakeKeys, Waits, terminals
<1>2. q \in Seq(Requests) /\ GoodConn(k, conns[k])
  BY <1>1 DEF TableInv, GoodTable, Connection, Held
<1>3. \A i \in 1 .. Len(q) : q[i] = "attach" => i = 1
  BY <1>2 DEF GoodConn
<1>4. Tail(q) \in Seq(Requests) /\ NoAttach(Tail(q))
  BY <1>1, <1>2, <1>3, TookRequest
<1>5. Asks(k, Tail(q))
  BY <1>1 DEF TakeKeys, Asks, TableInv, GoodTable
<1> HIDE DEF q
<1> QED
  BY <1>1, <1>4, <1>5, RequestsKeep

LEMMA ClosedKeeps == ASSUME NEW k \in Conns, conns[k].used, LiveInv, TakeClosed(k) PROVE TableInv'
<1> DEFINE c == Cut(k)
<1>1. /\ TableInv /\ conns \in [Conns -> Connection] /\ Len(conns[k].outbox) <= Queue
      /\ UNCHANGED <<on, opening>>
  BY DEF LiveInv, TableInv, GoodTable, TakeClosed, terminals
<1>2. Replaced(k, c)
  BY DEF TakeClosed, Replaced
<1>3. attached' = IF Held(k) THEN [attached EXCEPT ![conns[k].host] = 0] ELSE attached
  BY DEF TakeClosed, At
<1>4. /\ c \in Connection /\ Len(c.outbox) <= Queue
      /\ conns[k].left => ~c.used
      /\ ~conns[k].left => c.cut /\ c.used /\ ~c.left /\ c.inbox = <<>>
  BY <1>1, CutTyped
<1> HIDE DEF c
<1> QED
  BY <1>1, <1>2, <1>3, <1>4, LetsGo

(* Who holds the session of h.                                             *)
LEMMA HolderTyped ==
  ASSUME TableInv, NEW h \in Hosts, attached[h] # 0
  PROVE  /\ attached[h] \in Conns /\ Held(attached[h]) /\ conns[attached[h]].host = h
         /\ conns[attached[h]].used /\ conns[attached[h]] \in Connection
         /\ conns \in [Conns -> Connection]
         /\ Len(conns[attached[h]].outbox) <= Queue
BY TerminalsTyped DEF TableInv, GoodTable, Held, At

LEMMA SendKeeps ==
  ASSUME LiveInv, NEW h \in Hosts, NEW m \in Replies \ {"info"}, Send(h, m),
         UNCHANGED <<on, opening>>
  PROVE  TableInv'
<1> DEFINE k == attached[h]
<1>0. TableInv
  BY DEF LiveInv
<1>1. CASE UNCHANGED <<attached, conns>>
  BY <1>0, <1>1, QuietKeeps
<1>2. CASE k # 0 /\ ~conns[k].left /\ Fits(k) /\ conns' = [conns EXCEPT ![k].outbox = Append(@, m)]
             /\ UNCHANGED attached
  <2>0. /\ k \in Conns /\ Held(k) /\ conns[k].used /\ conns[k] \in Connection
        /\ conns \in [Conns -> Connection] /\ attached[conns[k].host] = k
    BY <1>0, <1>2, HolderTyped
  <2> HIDE DEF k
  <2> DEFINE p == Append(conns[k].outbox, m)
             c == [conns[k] EXCEPT !.outbox = p]
  <2>1. conns[k].outbox \in Seq(Replies) /\ Len(conns[k].outbox) < Queue
    BY <1>2, <2>0 DEF Connection, Fits
  <2>2. p \in Seq(Replies) /\ Len(p) <= Queue
    BY <2>1, AppendedReply, QueueAssumption
  <2>3. Replaced(k, c)
    BY <1>2, <2>0 DEF Replaced
  <2> HIDE DEF p
  <2>4. /\ c \in Connection /\ c.used = conns[k].used /\ c.host = conns[k].host
        /\ c.cut = conns[k].cut /\ c.left = conns[k].left /\ c.inbox = conns[k].inbox
        /\ c.outbox = p
    BY <2>0, <2>2 DEF Connection
  <2> HIDE DEF c
  <2>5. GoodConn(k, conns[k])
    BY <1>0, <2>0 DEF TableInv, GoodTable
  <2>6. GoodConn(k, c)
    BY <2>0, <2>4, <2>5 DEF GoodConn
  <2> QED
    BY <1>0, <1>2, <2>0, <2>2, <2>3, <2>4, <2>6, OneKeeps DEF Own
<1>3. CASE k # 0 /\ conns' = [conns EXCEPT ![k] = Cut(k)] /\ attached' = [attached EXCEPT ![h] = 0]
  <2>0. /\ k \in Conns /\ Held(k) /\ conns[k].used /\ conns[k].host = h
        /\ conns \in [Conns -> Connection] /\ Len(conns[k].outbox) <= Queue
    BY <1>0, <1>3, HolderTyped
  <2> HIDE DEF k
  <2> DEFINE c == Cut(k)
  <2>1. Replaced(k, c)
    BY <1>3 DEF Replaced
  <2>2. attached' = IF Held(k) THEN [attached EXCEPT ![conns[k].host] = 0] ELSE attached
    BY <1>3, <2>0
  <2>3. /\ c \in Connection /\ Len(c.outbox) <= Queue
        /\ conns[k].left => ~c.used
        /\ ~conns[k].left => c.cut /\ c.used /\ ~c.left /\ c.inbox = <<>>
    BY <2>0, CutTyped
  <2> HIDE DEF c
  <2> QED
    BY <1>0, <2>0, <2>1, <2>2, <2>3, LetsGo
<1> QED
  BY <1>1, <1>2, <1>3 DEF Send

LEMMA KeyKeeps == ASSUME NEW h \in Hosts, LiveInv, TakeKey(h) PROVE TableInv'
<1> DEFINE k == attached[h]
<1>0. TableInv /\ UNCHANGED <<on, opening>>
  BY DEF LiveInv, TakeKey, terminals
<1>1. CASE key[h] = "detach" /\ k # 0
  <2>0. /\ k \in Conns /\ Held(k) /\ conns[k].used /\ conns[k].host = h
        /\ conns \in [Conns -> Connection] /\ conns[k] \in Connection
        /\ Len(conns[k].outbox) <= Queue
    BY <1>0, <1>1, HolderTyped
  <2>1. /\ conns' = [conns EXCEPT ![k] =
             IF conns[k].left THEN NoConn
             ELSE [Cut(k) EXCEPT !.outbox = IF Fits(k) THEN Append(@, "detach") ELSE @]]
        /\ attached' = [attached EXCEPT ![h] = 0]
    BY <1>1 DEF TakeKey
  <2> HIDE DEF k
  <2>2. attached' = IF Held(k) THEN [attached EXCEPT ![conns[k].host] = 0] ELSE attached
    BY <2>0, <2>1
  <2>3. CASE conns[k].left
    <3>1. Replaced(k, NoConn)
      BY <2>1, <2>3 DEF Replaced
    <3> QED
      BY <1>0, <2>0, <2>2, <2>3, <3>1, NoConnTyped, LetsGo
  <2>4. CASE ~conns[k].left
    <3> DEFINE b == Cut(k)
               p == IF Fits(k) THEN Append(b.outbox, "detach") ELSE b.outbox
               c == [b EXCEPT !.outbox = p]
    <3>1. /\ b \in Connection /\ Len(b.outbox) <= Queue /\ b.cut /\ b.used = conns[k].used
          /\ ~b.left /\ b.inbox = <<>> /\ b.outbox = conns[k].outbox
      BY <2>0, <2>4, CutTyped
    <3>2. Replaced(k, c)
      BY <2>1, <2>4 DEF Replaced
    <3> HIDE DEF b
    <3>3. p \in Seq(Replies) /\ Len(p) <= Queue
      <4>1. b.outbox \in Seq(Replies) /\ "detach" \in Replies \ {"info"}
        BY <3>1 DEF Connection, Replies
      <4>2. /\ Append(b.outbox, "detach") \in Seq(Replies)
            /\ Len(Append(b.outbox, "detach")) = Len(b.outbox) + 1 /\ Len(b.outbox) \in Nat
        BY <4>1, AppendedReply
      <4>3. Fits(k) => Len(b.outbox) < Queue
        BY <3>1 DEF Fits
      <4> QED
        BY <3>1, <4>1, <4>2, <4>3, QueueAssumption
    <3> HIDE DEF p
    <3>4. /\ c \in Connection /\ c.used = b.used /\ c.cut = b.cut /\ c.left = b.left
          /\ c.inbox = b.inbox /\ c.outbox = p
      BY <3>1, <3>3 DEF Connection
    <3> HIDE DEF c
    <3> QED
      BY <1>0, <2>0, <2>2, <2>4, <3>1, <3>2, <3>3, <3>4, LetsGo
  <2> QED
    BY <2>3, <2>4
<1>2. CASE ~(key[h] = "detach" /\ k # 0)
  <2>1. Send(h, key[h]) /\ key[h] # "none"
    BY <1>2 DEF TakeKey
  <2>2. key[h] \in Replies \ {"info"}
    BY <2>1 DEF LiveInv, HostInv, Replies
  <2> QED
    BY <1>0, <2>1, <2>2, SendKeeps
<1> QED
  BY <1>1, <1>2

LEMMA TimeoutKeeps == ASSUME NEW k \in Conns, LiveInv, PeerTimesOut(k) PROVE TableInv'
<1> DEFINE q == conns[k].inbox
           r == Append(q, "closed")
           c == [conns[k] EXCEPT !.inbox = r, !.outbox = <<>>, !.cut = TRUE]
<1>1. /\ TableInv /\ conns \in [Conns -> Connection] /\ conns[k] \in Connection
      /\ Held(k) /\ conns[k].used /\ attached[conns[k].host] = k
      /\ GoodConn(k, conns[k]) /\ q \in Seq(Requests)
      /\ UNCHANGED <<attached, on, opening>>
  BY DEF LiveInv, TableInv, GoodTable, Connection, PeerTimesOut, Held, At, hosts, terminals
<1>2. Replaced(k, c)
  BY <1>1 DEF PeerTimesOut, Replaced
<1>3. r \in Seq(Requests) /\ NoAttach(r)
  <2>1. NoAttach(q)
    BY <1>1 DEF GoodConn
  <2>2. r \in {q, Append(q, "closed")}
    OBVIOUS
  <2>3. \A i \in 1 .. Len(r) : r[i] = "attach" => i \in 1 .. Len(q) /\ q[i] = "attach"
    BY <1>1, <2>2, OnlyClosedJoins
  <2>4. r \in Seq(Requests)
    BY <1>1, AppendedRequest
  <2> HIDE DEF q, r
  <2> QED
    BY <2>1, <2>3, <2>4 DEF NoAttach
<1> HIDE DEF r
<1>4. /\ c \in Connection /\ c.used = conns[k].used /\ c.host = conns[k].host
      /\ c.cut /\ c.left = conns[k].left /\ c.inbox = r /\ c.outbox = <<>>
  <2>1. <<>> \in Seq(Replies) /\ conns[k] \in Connection
    BY <1>1
  <2> QED
    BY <1>3, <2>1 DEF Connection
<1> HIDE DEF c
<1>5. GoodConn(k, c)
  BY <1>3, <1>4 DEF GoodConn, NoAttach
<1>6. Len(c.outbox) <= Queue
  BY <1>4, NothingQueued, QueueAssumption
<1> QED
  BY <1>1, <1>2, <1>4, <1>5, <1>6, OneKeeps DEF Own

(* The host goes, and lets go of every connection it has.                  *)
LEMMA GoneKeeps == ASSUME NEW h \in Hosts, LiveInv, Gone(h) PROVE TableInv'
<1> DEFINE met(k) == conns[k].used /\ conns[k].host = h
<1>0. /\ TableInv /\ GoodTable(conns) /\ conns \in [Conns -> Connection]
      /\ attached \in [Hosts -> 0 .. MaxConns] /\ UNCHANGED <<on, opening>>
      /\ \A k \in Conns : conns[k].host \in Hosts /\ Len(conns[k].outbox) <= Queue
  BY TerminalsTyped DEF LiveInv, TableInv, GoodTable, Gone, terminals
<1>1. /\ conns' = [k \in Conns |-> conns'[k]]
      /\ \A k \in Conns : conns'[k] = IF met(k) THEN Cut(k) ELSE conns[k]
  BY DEF Gone, Ids, At
<1>2. /\ attached' \in [Hosts -> 0 .. MaxConns] /\ attached'[h] = 0
      /\ \A g \in Hosts : g # h => attached'[g] = attached[g]
  BY <1>0, MaxConnsAssumption DEF Gone
<1>3. \A k \in Conns : met(k) =>
        /\ conns'[k] \in Connection /\ Len(conns'[k].outbox) <= Queue
        /\ conns[k].left => ~conns'[k].used
        /\ ~conns[k].left => /\ conns'[k].used = conns[k].used /\ conns'[k].cut
                             /\ ~conns'[k].left /\ conns'[k].inbox = <<>>
  BY <1>0, <1>1, CutTyped
<1>4. \A k \in Conns : conns'[k] \in Connection /\ Len(conns'[k].outbox) <= Queue
  BY <1>0, <1>1, <1>3
<1>5. conns' \in [Conns -> Connection]
  BY <1>1, <1>4
<1>6. ASSUME NEW k \in Conns, conns'[k].used PROVE GoodConn(k, conns[k])'
  <2>1. CASE met(k)
    BY <1>3, <1>6, <2>1, NothingQueued DEF GoodConn, NoAttach
  <2>2. CASE ~met(k)
    <3>1. conns'[k] = conns[k] /\ conns[k].host # h /\ GoodConn(k, conns[k])
      BY <1>0, <1>1, <1>6, <2>2 DEF GoodTable
    <3>2. attached'[conns[k].host] = attached[conns[k].host]
      BY <1>0, <1>2, <3>1
    <3> QED
      BY <3>1, <3>2 DEF GoodConn
  <2> QED
    BY <2>1, <2>2
<1>7. ASSUME NEW g \in Hosts, attached'[g] # 0
      PROVE  conns'[attached'[g]].used /\ conns'[attached'[g]].host = g
  <2>1. g # h /\ attached'[g] = attached[g]
    BY <1>2, <1>7
  <2>2. attached[g] \in Conns /\ conns[attached[g]].used /\ conns[attached[g]].host = g
    BY <1>0, <1>7, <2>1, HolderTyped
  <2> QED
    BY <1>1, <2>1, <2>2
<1>8. GoodTable(conns)'
  BY <1>2, <1>4, <1>5, <1>6, <1>7 DEF GoodTable
<1>9. ASSUME NEW k \in Conns PROVE StaysOwn(k)
  <2>1. CASE met(k)
    BY <1>3, <2>1 DEF StaysOwn, Own
  <2>2. CASE ~met(k)
    <3>1. conns'[k] = conns[k] /\ conns[k].host \in Hosts
      BY <1>0, <1>1, <2>2
    <3>2. conns[k].used => attached'[conns[k].host] = attached[conns[k].host]
      BY <1>2, <2>2, <3>1
    <3> QED
      BY <3>1, <3>2 DEF StaysOwn, HoldsNext, Held, At, Own
  <2> QED
    BY <2>1, <2>2
<1>10. ShownInv'
  BY <1>0, <1>9, ShownKeeps
<1> QED
  BY <1>0, <1>8, <1>10 DEF TableInv
-----------------------------------------------------------------------------
LEMMA LiveInitInv == Init => LiveInv
<1> SUFFICES ASSUME Init PROVE LiveInv
  OBVIOUS
<1>1. HostInv
  BY RoomAssumption DEF Init, HostInv
<1>2. /\ on \in [Terminals -> 0 .. MaxConns] /\ opening \in [Terminals -> 0 .. MaxConns]
      /\ attached \in [Hosts -> 0 .. MaxConns]
      /\ \A t \in Terminals : on[t] = 0 /\ opening[t] = 0
      /\ \A h \in Hosts : attached[h] = 0
  BY MaxConnsAssumption DEF Init
<1>3. conns \in [Conns -> Connection] /\ \A k \in Conns : conns[k] = NoConn
  BY NoConnTyped DEF Init
<1>4. GoodTable(conns)
  BY <1>2, <1>3, NoConnTyped DEF GoodTable
<1>5. ShownInv
  BY <1>2 DEF ShownInv
<1> QED
  BY <1>1, <1>2, <1>4, <1>5 DEF LiveInv, TableInv

(* What the terminals and the loop do to the host and its worker.          *)
LEMMA HostStep == LiveInv /\ Next => HostInv'
<1> SUFFICES ASSUME LiveInv, Next PROVE HostInv'
  OBVIOUS
<1>0. HostInv /\ UNCHANGED scene
  BY DEF LiveInv, Next
<1>1. ASSUME NEW t \in Terminals,
             \/ \E h \in Hosts : Attach(t, h) \/ Switch(t, h)
             \/ Read(t) \/ Opened(t) \/ NotOpened(t) \/ Returns(t) \/ Leaves(t) \/ Type(t)
      PROVE  HostInv'
  <2>1. UNCHANGED <<up, stop, writing, worker, typed, drawn, key>>
    BY <1>1 DEF Attach, Switch, Read, Opened, NotOpened, Returns, Leaves, Away, Type, hosts, workers
  <2> QED
    BY <1>0, <2>1 DEF HostInv
<1>2. ASSUME NEW h \in Hosts, Draw(h) \/ Emit(h) \/ TakeInput(h) \/ Quit(h) PROVE HostInv'
  <2>1. UNCHANGED <<up, stop, writing>>
    BY <1>2 DEF Draw, Emit, TakeInput, Quit, hosts
  <2>2. CASE Draw(h) \/ Quit(h)
    BY <1>0, <2>1, <2>2 DEF HostInv, Draw, Quit
  <2>3. CASE Emit(h)
    BY <1>0, <2>1, <2>3, RoomAssumption DEF HostInv, Emit
  <2>4. CASE TakeInput(h)
    BY <1>0, <2>1, <2>4, RoomAssumption DEF HostInv, TakeInput
  <2> QED
    BY <1>2, <2>2, <2>3, <2>4
<1>3. ASSUME NEW h \in Hosts, Written(h) \/ TakeOutput(h) \/ TakeKey(h) PROVE HostInv'
  <2>1. CASE Written(h)
    BY <1>0, <2>1, RoomAssumption DEF HostInv, Written
  <2>2. CASE TakeOutput(h)
    BY <1>0, <2>2, RoomAssumption DEF HostInv, TakeOutput
  <2>3. CASE TakeKey(h)
    BY <1>0, <2>3 DEF HostInv, TakeKey
  <2> QED
    BY <1>3, <2>1, <2>2, <2>3
<1>4. ASSUME NEW h \in Hosts, AskStop(h) \/ TakeStop(h) \/ Kill(h) \/ Ends(h) \/ Dies(h) PROVE HostInv'
  <2>1. CASE AskStop(h) \/ TakeStop(h)
    BY <1>0, <2>1 DEF HostInv, AskStop, TakeStop, workers
  <2>2. CASE Kill(h)
    BY <1>0, <2>2 DEF HostInv, Kill
  <2>3. CASE Ends(h) \/ Dies(h)
    BY <1>0, <2>3 DEF HostInv, Ends, Dies, Gone
  <2> QED
    BY <1>4, <2>1, <2>2, <2>3
<1>5. ASSUME NEW k \in Ids, Take(k) \/ PeerTimesOut(k) PROVE HostInv'
  <2>1. CASE TakeAttach(k) \/ TakeClosed(k)
    BY <1>0, <2>1 DEF HostInv, TakeAttach, TakeClosed, workers
  <2>2. CASE PeerTimesOut(k)
    BY <1>0, <2>2 DEF HostInv, PeerTimesOut, hosts, workers
  <2>3. CASE TakeKeys(k)
    <3>1. At(k) \in Hosts
      BY TerminalsTyped DEF LiveInv, Ids, At
    <3>2. /\ UNCHANGED <<up, stop, worker, drawn>>
          /\ \/ UNCHANGED <<typed, writing, key>>
             \/ key' = [key EXCEPT ![At(k)] = "go"] /\ UNCHANGED <<typed, writing>>
             \/ /\ typed[At(k)] < Room /\ typed' = [typed EXCEPT ![At(k)] = @ + 1]
                /\ UNCHANGED <<writing, key>>
             \/ writing' = [writing EXCEPT ![At(k)] = TRUE] /\ UNCHANGED <<typed, key>>
      BY <2>3 DEF TakeKeys
    <3>3. typed' \in [Hosts -> 0 .. Room]
      BY <1>0, <3>1, <3>2, RoomAssumption DEF HostInv
    <3>4. writing' \in [Hosts -> BOOLEAN] /\ key' \in [Hosts -> {"none", "go", "detach"}]
      BY <1>0, <3>1, <3>2 DEF HostInv
    <3> QED
      BY <1>0, <3>2, <3>3, <3>4 DEF HostInv
  <2> QED
    BY <1>5, <2>1, <2>2, <2>3 DEF Take
<1> QED
  BY <1>1, <1>2, <1>3, <1>4, <1>5 DEF Next, Step

LEMMA TableStep == LiveInv /\ Next => TableInv'
<1> SUFFICES ASSUME LiveInv, Next PROVE TableInv'
  OBVIOUS
<1>0. TableInv
  BY DEF LiveInv
<1>1. ASSUME NEW t \in Terminals,
             \/ \E h \in Hosts : Attach(t, h) \/ Switch(t, h)
             \/ Read(t) \/ Opened(t) \/ NotOpened(t) \/ Returns(t) \/ Leaves(t) \/ Type(t)
      PROVE  TableInv'
  BY <1>1, GoesTo, ReadKeeps, OpenedKeeps, GoesAway, TypeKeeps
<1>2. ASSUME NEW h \in Hosts,
             \/ Draw(h) \/ Emit(h) \/ TakeInput(h) \/ Quit(h) \/ Written(h)
             \/ AskStop(h) \/ TakeStop(h) \/ Kill(h)
      PROVE  TableInv'
  <2>1. UNCHANGED <<conns, attached, on, opening>>
    BY <1>2 DEF Draw, Emit, TakeInput, Quit, Written, AskStop, TakeStop, Kill, hosts, terminals
  <2> QED
    BY <1>0, <2>1, QuietKeeps
<1>3. ASSUME NEW h \in Hosts, TakeOutput(h) PROVE TableInv'
  <2>1. Send(h, "output") /\ UNCHANGED <<on, opening>> /\ "output" \in Replies \ {"info"}
    BY <1>3 DEF TakeOutput, terminals, Replies
  <2> QED
    BY <2>1, SendKeeps
<1>4. ASSUME NEW h \in Hosts, TakeKey(h) \/ Ends(h) \/ Dies(h) PROVE TableInv'
  BY <1>4, KeyKeeps, GoneKeeps DEF Ends, Dies
<1>5. ASSUME NEW k \in Ids, Take(k) \/ PeerTimesOut(k) PROVE TableInv'
  <2>1. k \in Conns /\ conns[k].used
    BY DEF Ids
  <2> QED
    BY <1>5, <2>1, AttachKeeps, KeysKeep, ClosedKeeps, TimeoutKeeps DEF Take
<1> QED
  BY <1>1, <1>2, <1>3, <1>4, <1>5 DEF Next, Step

LEMMA LiveStep == LiveInv /\ [Next]_vars => LiveInv'
<1> SUFFICES ASSUME LiveInv, [Next]_vars PROVE LiveInv'
  OBVIOUS
<1>1. CASE Next
  BY <1>1, HostStep, TableStep DEF LiveInv
<1>2. CASE UNCHANGED vars
  <2>1. TableInv'
    BY <1>2, QuietKeeps DEF LiveInv, vars, hosts, terminals
  <2>2. HostInv'
    BY <1>2 DEF LiveInv, HostInv, vars, hosts, workers
  <2> QED
    BY <2>1, <2>2 DEF LiveInv
<1> QED
  BY <1>1, <1>2

LEMMA LiveShows == LiveInv => TypeOK /\ ShownIsHeld
<1> SUFFICES ASSUME LiveInv PROVE TypeOK /\ ShownIsHeld
  OBVIOUS
<1>1. TypeOK
  BY DEF LiveInv, HostInv, TableInv, GoodTable, Connection, TypeOK
<1>2. ShownIsHeld
  BY DEF LiveInv, TableInv, ShownInv, ShownIsHeld
<1> QED
  BY <1>1, <1>2

(* Of a live session's host: its slot, its worker's queues, and every      *)
(* connection's bounded queue stay what they are meant to be, whatever     *)
(* hosts, terminals and connections there are.                             *)
THEOREM LiveTyped == Spec => []TypeOK
<1>1. Spec => []LiveInv
  BY LiveInitInv, LiveStep, PTL DEF Spec
<1> QED
  BY <1>1, LiveShows, PTL

(* A terminal that shows a session holds it until the host lets go, also   *)
(* while it races with another for the session it switches to.             *)
THEOREM ShownSessionsAreHeld == Spec => []ShownIsHeld
<1>1. Spec => []LiveInv
  BY LiveInitInv, LiveStep, PTL DEF Spec
<1> QED
  BY <1>1, LiveShows, PTL
=============================================================================
