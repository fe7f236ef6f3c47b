------------------------ MODULE RemoteControlProofs ------------------------
(***************************************************************************)
(* Proofs about RemoteControl, for every set of streams, every log of the  *)
(* client and every bound: what the app server is told and what the        *)
(* backend gets of a stream, whenever the WebSocket is lost.               *)
(*                                                                         *)
(* The outbound half: the backend has a beginning of the numbered          *)
(* envelopes, the buffer and what is on the way to it (frames in flight,   *)
(* then what the writer still has to send) are ends of them, and these     *)
(* ends leave no gap behind the beginning.  The inbound half relates the   *)
(* cursor, the place of the WebSocket, the assembly and the last message   *)
(* each client was given, by places in the log.                            *)
(***************************************************************************)
EXTENDS RemoteControl, FiniteSetTheorems, SequenceTheorems, WellFoundedInduction, TLAPS

-----------------------------------------------------------------------------
(* The inductive invariant.                                                *)

\* An envelope of the client, as it is numbered.
Numeral == [stream : Stream, what : {"init", "message", "head", "tail", "close"},
            chunk : BOOLEAN, seg : Nat, seq : Nat]

IsClose(k, m) == log[m].stream = k /\ log[m].what = "close"

\* Within a session sequence numbers grow, but for the two chunks of a message.
Grows == \A i, j \in DOMAIN log :
    /\ i < j /\ log[i].stream = log[j].stream /\ log[j].what # "close"
    /\ ~(log[i].what = "head" /\ j = i + 1)
    /\ \A m \in i..(j - 1) : ~IsClose(log[i].stream, m)
    => log[i].seq < log[j].seq

LogOK ==
    /\ log \in Seq(Numeral)
    /\ \A i \in DOMAIN log :
        /\ log[i].chunk <=> log[i].what \in {"head", "tail"}
        /\ log[i].what = "head" => log[i].seg = 0 /\ i + 1 \in DOMAIN log /\ log[i + 1].what = "tail"
        /\ log[i].what = "tail" =>
            /\ log[i].seg = 1 /\ i - 1 \in DOMAIN log /\ log[i - 1].what = "head"
            /\ log[i - 1].stream = log[i].stream /\ log[i - 1].seq = log[i].seq
        /\ log[i].chunk => log[i].seq > 0
    /\ Grows

Event == {Opened, Closed} \cup ({"message"} \X DOMAIN log)
Connection == [stream : Stream, events : Seq(Event), cancelled : BOOLEAN,
               task : {"running", "ended", "joined"}]

\* EventsWellFormed, for the events of one connection.
EventsOK(es) == /\ es # <<>>
                /\ \A i \in DOMAIN es : /\ i = 1 <=> es[i] = Opened
                                        /\ es[i] = Closed => i = Len(es)

NotClosed(c) == Last(conns[c].events) # Closed

ConnsOK ==
    /\ conns \in Seq(Connection)
    /\ \A c \in DOMAIN conns : EventsOK(conns[c].events)
    /\ closing \subseteq DOMAIN conns
    /\ \A c \in closing : NotClosed(c)
    /\ NoOrphan

\* A client's connection is its own, and is neither closed nor being closed.
ClientsOK ==
    /\ clients \in [Stream -> Client \cup {None}]
    /\ \A k \in Stream : clients[k] # None =>
        /\ clients[k].conn \in DOMAIN conns /\ conns[clients[k].conn].stream = k
        /\ clients[k].conn \notin closing /\ NotClosed(clients[k].conn)

\* The reader has an envelope in hand.
InHand == reader.pc \in {"handle", "reopen", "closed", "first", "record"}
AtClose == reader.pc \in {"joined", "expired"}

\* What is before this place has been dealt with.
Reached == IF InHand THEN reader.at ELSE pos

\* There are only chunks at the places i to j.
Chunks(i, j) == \A m \in i..j : log[m].chunk

\* No whole message of stream k strictly between the places a and j.
Clear(k, a, j) == \A m \in (a + 1)..(j - 1) : m \notin Whole(k)

\* The client of stream k was last given the message at place a.
Given(k, a) == clients[k] # None /\ Last(conns[clients[k].conn].events) = Incoming(a)

ReaderOK ==
    /\ reader \in [pc : {"ready", "handle", "reopen", "closed", "first", "record", "joined", "expired"},
                   at : Nat, conn : Nat, task : Nat]
    /\ reader.conn \in 0..Len(conns) /\ reader.task \in 0..Len(conns)
    /\ connected \in BOOLEAN /\ (~connected => reader = Ready)
    /\ InHand => /\ reader.at = pos - 1 /\ reader.at > cursor
                 /\ log[reader.at].what # "head" /\ assembly = None
    /\ ~InHand => reader.at = 0
    /\ reader.pc \in {"reopen", "closed"} \/ AtClose => reader.conn \in DOMAIN conns
    /\ reader.pc \in {"reopen", "closed"} => clients[Key] = None
    /\ AtClose => clients[conns[reader.conn].stream] = None
    /\ reader.pc = "first" => /\ Message.what = "init" /\ clients[Key] # None
                              /\ conns[clients[Key].conn].events = <<Opened>>
    /\ reader.pc = "record" => \A a \in DOMAIN log : Given(Key, a) => reader.at <= a

PlaceOK ==
    /\ cursor \in Nat /\ pos \in 1..(Len(log) + 1) /\ cursor < pos
    /\ cursor > 0 => log[cursor].what # "head"
    /\ connected => Chunks(cursor + 1, Reached - 1)

\* What was given last is not a head, and nothing of its stream is passed over.
GivenAt(k, a) ==
    /\ log[a].stream = k /\ log[a].what \notin {"head", "close"}
    /\ clients[k].last = log[a].seq
    /\ Chunks(cursor + 1, a - 1)
    /\ Clear(k, a, cursor + 1)
    /\ connected => Clear(k, a, Reached)

GivenOK == \A k \in Stream, a \in DOMAIN log : Given(k, a) => GivenAt(k, a)

\* A message of chunks that was completed is behind the cursor, in the same session.
DoneOK ==
    /\ chunkDone \in [Stream -> Nat]
    /\ \A k \in Stream : chunkDone[k] # 0 => \E i \in 1..cursor :
        /\ log[i].stream = k /\ log[i].what = "tail" /\ log[i].seq = chunkDone[k]
        /\ \A m \in i..cursor : ~IsClose(k, m)

\* The assembly stands for the head at place h.
Stands(h) ==
    /\ log[h].what = "head" /\ assembly = [stream |-> log[h].stream, seq |-> log[h].seq, next |-> 1]
    /\ cursor < h /\ Chunks(cursor + 1, h)
    /\ connected => h + 1 >= pos
    /\ \A a \in DOMAIN log : Given(log[h].stream, a) => Clear(log[h].stream, a, h)

AssemblyOK ==
    /\ assembly # None => \E h \in DOMAIN log : Stands(h)
    /\ connected /\ ~InHand /\ pos <= Len(log) =>
        (log[pos].what = "tail" =>
            \A a \in DOMAIN log : Given(log[pos].stream, a) /\ a < pos =>
                /\ assembly # None /\ assembly.stream = log[pos].stream
                /\ assembly.seq = log[pos].seq)

InInv == LogOK /\ ConnsOK /\ ClientsOK /\ ReaderOK /\ PlaceOK /\ GivenOK
         /\ DoneOK /\ AssemblyOK /\ DeliveredInSequence

\* A server envelope: a sequence number and a segment.
Pair == Nat \X Nat

\* Envelopes in the order of their numbers.
Before(e, f) == e[1] < f[1] \/ (e[1] = f[1] /\ e[2] < f[2])
Ordered(s) == \A i, j \in DOMAIN s : i < j => Before(s[i], s[j])

\* s is the end of t.
EndOf(s, t) == Len(s) <= Len(t) /\ \A i \in DOMAIN s : s[i] = t[(Len(t) - Len(s)) + i]
StartOf(s, t) == Len(s) <= Len(t) /\ \A i \in DOMAIN s : s[i] = t[i]

\* The envelopes a of a stream, n the next number, the buffer b, the backend's r,
\* and s, what is on its way to the backend: on the wire or still with the writer.
StreamOK(a, n, b, r, s) ==
    /\ n \in Nat /\ a \in Seq(Pair) /\ b \in Seq(Pair)
    /\ r \in Seq(Pair) /\ s \in Seq(Pair)
    /\ Ordered(a) /\ \A i \in DOMAIN a : a[i][1] < n
    /\ StartOf(r, a)
    /\ EndOf(b, a) /\ Len(a) - Len(b) <= Len(r)
    /\ EndOf(s, a)

OutInv ==
    /\ queue \in Seq(Stream)
    /\ nextOut \in [Stream -> Nat]
    /\ {buffer, toSend, wire, assigned, received} \subseteq [Stream -> Seq(Pair)]
    /\ \A k \in Stream :
        /\ StreamOK(assigned[k], nextOut[k], buffer[k], received[k], wire[k] \o toSend[k])
        /\ IF connected THEN Len(assigned[k]) - Len(wire[k] \o toSend[k]) <= Len(received[k])
           ELSE wire[k] = <<>> /\ toSend[k] = <<>>

IInv == InInv /\ OutInv

-----------------------------------------------------------------------------
(* What the writer and the backend have of a stream.                       *)

\* A set of natural numbers has a least element.
LEMMA LeastElement ==
    ASSUME NEW T, T \subseteq Nat, T # {}
    PROVE  \E x \in T : \A y \in T : x <= y
<1> DEFINE R == {ss \in Nat \X Nat : ss[1] < ss[2]}
<1>1. IsWellFoundedOn(R, Nat)
    BY NatLessThanWellFounded, Zenon DEF OpToRel
<1>2. PICK x \in T : \A y \in T : ~(<<y, x>> \in R)
    <2> HIDE DEF R
    <2> QED
        BY <1>1, WFMin
<1>3. ASSUME NEW y \in T PROVE x <= y
    <2>1. x \in Nat /\ y \in Nat
        OBVIOUS
    <2>2. <<y, x>> \in Nat \X Nat /\ <<y, x>>[1] = y /\ <<y, x>>[2] = x
        BY <2>1
    <2>3. ~(y < x)
        BY <1>2, <2>2
    <2> QED
        BY <2>1, <2>3
<1> QED
    BY <1>3

\* Retaining all from place n + 1 on cuts off the first n.
LEMMA NthOfInterval ==
    ASSUME NEW n \in Nat, NEW L \in Nat, NEW i \in 1..(L - n)
    PROVE  Nth((n + 1)..L, i) = n + i
<1> DEFINE K == (n + 1)..L
<1>1. ASSUME NEW j \in K PROVE Cardinality({m \in K : m <= j}) = j - n
    <2>1. {m \in K : m <= j} = (n + 1)..j
        OBVIOUS
    <2>2. Cardinality((n + 1)..j) = j - n
        BY FS_Interval
    <2> QED
        BY <2>1, <2>2
<1>2. n + i \in K
    OBVIOUS
<1>3. \A j \in K : Cardinality({m \in K : m <= j}) = i <=> j = n + i
    BY <1>1
<1> HIDE DEF K
<1>4. (CHOOSE j \in K : Cardinality({m \in K : m <= j}) = i) = n + i
    BY <1>2, <1>3
<1> QED
    BY <1>4 DEF Nth, K

LEMMA RetainEnd ==
    ASSUME NEW S, NEW q \in Seq(S), NEW n \in 0..Len(q)
    PROVE  LET r == Retain(q, (n + 1)..Len(q))
           IN /\ r \in Seq(S) /\ Len(r) = Len(q) - n
              /\ \A i \in 1..(Len(q) - n) : r[i] = q[n + i]
<1>0. Len(q) \in Nat
    OBVIOUS
<1>1. Cardinality((n + 1)..Len(q)) = Len(q) - n
    <2>1. n + 1 \in Int /\ Len(q) \in Int
        BY <1>0
    <2>2. Cardinality((n + 1)..Len(q)) = IF n + 1 > Len(q) THEN 0 ELSE Len(q) - (n + 1) + 1
        BY <2>1, FS_Interval
    <2> QED
        BY <2>2, <1>0
<1>2. Retain(q, (n + 1)..Len(q)) = [i \in 1..(Len(q) - n) |-> q[Nth((n + 1)..Len(q), i)]]
    BY <1>1 DEF Retain
<1>3. \A i \in 1..(Len(q) - n) : Nth((n + 1)..Len(q), i) = n + i
    BY NthOfInterval
<1>4. Retain(q, (n + 1)..Len(q)) = [i \in 1..(Len(q) - n) |-> q[n + i]]
    BY <1>2, <1>3
<1> QED
    BY <1>4

\* A set of places that holds every place behind one of its own is the end.
LEMMA UpperSet ==
    ASSUME NEW L \in Nat, NEW K, K \subseteq 1..L,
           \A i \in K, j \in 1..L : i < j => j \in K
    PROVE  \E c \in 0..L : K = (c + 1)..L
<1>1. CASE K = {}
    <2>1. (L + 1)..L = {} /\ L \in 0..L
        OBVIOUS
    <2> QED
        BY <2>1, <1>1
<1>2. CASE K # {}
    <2>1. PICK x \in K : \A y \in K : x <= y
        <3>1. K \subseteq Nat
            OBVIOUS
        <3> QED
            BY <3>1, <1>2, LeastElement
    <2>2. x \in 1..L /\ x - 1 \in 0..L /\ (x - 1) + 1 = x
        OBVIOUS
    <2>3. K = x..L
        <3>1. ASSUME NEW y \in K PROVE y \in x..L
            BY <2>1, <2>2
        <3>2. ASSUME NEW y \in x..L PROVE y \in K
            <4>1. y = x \/ x < y
                BY <2>2
            <4>2. y \in 1..L
                BY <2>2
            <4> QED
                BY <4>1, <4>2
        <3> QED
            BY <3>1, <3>2
    <2> QED
        BY <2>2, <2>3
<1> QED
    BY <1>1, <1>2

LEMMA PairFields == \A e \in Pair : e[1] \in Nat /\ e[2] \in Nat
BY DEF Pair

LEMMA Elements ==
    ASSUME NEW S, NEW q \in Seq(S)
    PROVE  /\ Len(q) \in Nat /\ DOMAIN q = 1..Len(q)
           /\ \A i \in DOMAIN q : q[i] \in S
OBVIOUS

\* An acknowledgement of e, with what the backend has: it drops the start of the buffer,
\* and none of what the backend does not have.
LEMMA AckKeeps ==
    ASSUME NEW a, NEW n, NEW b, NEW r, NEW s, StreamOK(a, n, b, r, s),
           NEW p \in DOMAIN r, NEW seg,
           \/ seg = r[p][2]
           \/ seg = None /\ \A i \in DOMAIN a : a[i][1] = r[p][1] => a[i] \in Range(r)
    PROVE  StreamOK(a, n, Retain(b, {i \in DOMAIN b : ~Acked(b[i], r[p][1], seg)}), r, s)
<1> DEFINE K == {i \in DOMAIN b : ~Acked(b[i], r[p][1], seg)}
           d == Len(a) - Len(b)
<1>1. /\ a \in Seq(Pair) /\ b \in Seq(Pair) /\ r \in Seq(Pair)
      /\ Len(a) \in Nat /\ Len(b) \in Nat /\ Len(r) \in Nat /\ d \in Nat
      /\ Len(b) <= Len(a) /\ Len(r) <= Len(a) /\ d <= Len(r)
    BY DEF StreamOK, EndOf, StartOf
<1>0. /\ Len(a) \in Nat /\ Len(b) \in Nat /\ Len(r) \in Nat
      /\ DOMAIN a = 1..Len(a) /\ DOMAIN b = 1..Len(b) /\ DOMAIN r = 1..Len(r)
    BY <1>1, Elements
<1>2. \A i \in DOMAIN b : b[i] = a[d + i] /\ d + i \in DOMAIN a /\ b[i] \in Pair
    BY <1>0, <1>1, Elements DEF StreamOK, EndOf
<1>3. \A i \in DOMAIN r : r[i] = a[i] /\ i \in DOMAIN a /\ r[i] \in Pair
    BY <1>0, <1>1, Elements DEF StreamOK, StartOf
<1>4. \A i, j \in DOMAIN a : i < j => Before(a[i], a[j])
    BY DEF StreamOK, Ordered
<1>5. \A i \in DOMAIN a : a[i][1] \in Nat /\ a[i][2] \in Nat
    BY <1>1, Elements, PairFields
<1>6. None \notin Nat
    BY RemoteAssumption
<1>7. ASSUME NEW i \in DOMAIN b, Acked(b[i], r[p][1], seg) PROVE d + i <= Len(r)
    <2>1. CASE b[i][1] < r[p][1]
        <3>1. ~Before(a[p], a[d + i])
            BY <2>1, <1>2, <1>3, <1>5 DEF Before
        <3> QED
            BY <3>1, <1>1, <1>2, <1>3, <1>4
    <2>2. CASE b[i][1] = r[p][1] /\ seg = r[p][2] /\ b[i][2] <= seg
        <3>1. ~Before(a[p], a[d + i])
            BY <2>2, <1>2, <1>3, <1>5 DEF Before
        <3> QED
            BY <3>1, <1>1, <1>2, <1>3, <1>4
    <2>3. CASE b[i][1] = r[p][1] /\ seg = None
        <3>1. a[d + i] \in Range(r)
            BY <2>3, <1>2, <1>3, <1>5, <1>6
        <3>2. PICK m \in DOMAIN r : a[d + i] = a[m] /\ m \in DOMAIN a
            BY <3>1, <1>3 DEF Range
        <3>3. ~Before(a[d + i], a[m]) /\ ~Before(a[m], a[d + i])
            BY <3>2, <1>5 DEF Before
        <3>4. d + i = m
            BY <3>2, <3>3, <1>1, <1>2, <1>4
        <3> QED
            BY <3>4, <1>1
    <2> QED
        BY <1>7, <2>1, <2>2, <2>3, <1>2, <1>3, <1>5, <1>6 DEF Acked
<1>8. ASSUME NEW i \in DOMAIN b, NEW j \in DOMAIN b, i < j, ~Acked(b[i], r[p][1], seg)
      PROVE  ~Acked(b[j], r[p][1], seg)
    <2>1. Before(b[i], b[j])
        BY <1>8, <1>1, <1>2, <1>4
    <2>2. /\ b[i][1] \in Nat /\ b[j][1] \in Nat /\ b[i][2] \in Nat /\ b[j][2] \in Nat
          /\ r[p][1] \in Nat /\ r[p][2] \in Nat
        BY <1>2, <1>3, PairFields
    <2>3. CASE seg = None
        BY <1>8, <2>1, <2>2, <2>3 DEF Before, Acked
    <2>4. CASE seg = r[p][2]
        BY <1>8, <2>1, <2>2, <2>4, <1>6 DEF Before, Acked
    <2> QED
        BY <2>3, <2>4
<1>9. PICK c \in 0..Len(b) : K = (c + 1)..Len(b)
    <2>1. K \subseteq 1..Len(b)
        BY <1>0
    <2>2. \A i \in K, j \in 1..Len(b) : i < j => j \in K
        BY <1>0, <1>8
    <2> HIDE DEF K
    <2> QED
        BY <2>1, <2>2, <1>0, UpperSet
<1>10. d + c <= Len(r)
    <2>1. CASE c = 0
        BY <2>1, <1>1
    <2>2. CASE c # 0
        <3>1. c \in DOMAIN b
            BY <2>2, <1>0
        <3>2. c \notin K
            <4> HIDE DEF K
            <4> QED
                BY <1>9
        <3> QED
            BY <3>1, <3>2, <1>7
    <2> QED
        BY <2>1, <2>2
<1> DEFINE b2 == Retain(b, K)
<1>11. /\ b2 \in Seq(Pair) /\ Len(b2) = Len(b) - c
       /\ \A i \in 1..(Len(b) - c) : b2[i] = b[c + i]
    <2> HIDE DEF K
    <2> QED
        BY <1>1, <1>9, RetainEnd
<1> HIDE DEF b2, K
<1>14. DOMAIN b2 = 1..(Len(b) - c)
    BY <1>11
<1>12. EndOf(b2, a) /\ Len(a) - Len(b2) <= Len(r)
    <2>1. \A i \in DOMAIN b2 : i \in 1..(Len(b) - c) /\ c + i \in DOMAIN b
                               /\ (Len(a) - Len(b2)) + i = d + (c + i)
        <3> SUFFICES ASSUME NEW i \in DOMAIN b2
                     PROVE  /\ i \in 1..(Len(b) - c) /\ c + i \in DOMAIN b
                            /\ (Len(a) - Len(b2)) + i = d + (c + i)
            OBVIOUS
        <3>1. i \in 1..(Len(b) - c) /\ c \in 0..Len(b)
            BY <1>14
        <3>2. c + i \in 1..Len(b)
            BY <3>1, <1>0
        <3> QED
            BY <3>1, <3>2, <1>0, <1>11
    <2>2. \A i \in DOMAIN b2 : b2[i] = a[(Len(a) - Len(b2)) + i]
        BY <2>1, <1>2, <1>11
    <2> QED
        BY <2>2, <1>1, <1>10, <1>11 DEF EndOf
<1>13. StreamOK(a, n, b2, r, s)
    BY <1>11, <1>12 DEF StreamOK
<1> QED
    BY <1>13 DEF b2, K

\* The lengths and the elements of what StreamOK is about.
LEMMA StreamFacts ==
    ASSUME NEW a, NEW n, NEW b, NEW r, NEW s, StreamOK(a, n, b, r, s)
    PROVE  /\ Len(a) \in Nat /\ DOMAIN a = 1..Len(a) /\ \A i \in DOMAIN a : a[i] \in Pair
           /\ Len(b) \in Nat /\ DOMAIN b = 1..Len(b) /\ \A i \in DOMAIN b : b[i] \in Pair
           /\ Len(r) \in Nat /\ DOMAIN r = 1..Len(r) /\ \A i \in DOMAIN r : r[i] \in Pair
           /\ Len(s) \in Nat /\ DOMAIN s = 1..Len(s) /\ \A i \in DOMAIN s : s[i] \in Pair
           /\ Len(b) <= Len(a) /\ Len(r) <= Len(a) /\ Len(s) <= Len(a)
           /\ Len(a) - Len(b) <= Len(r)
<1>1. /\ a \in Seq(Pair) /\ b \in Seq(Pair) /\ r \in Seq(Pair) /\ s \in Seq(Pair)
      /\ Len(b) <= Len(a) /\ Len(r) <= Len(a) /\ Len(s) <= Len(a)
      /\ Len(a) - Len(b) <= Len(r)
    BY DEF StreamOK, EndOf, StartOf
<1> QED
    BY <1>1, Elements

\* Every envelope is numbered once.
LEMMA NumberedOnce ==
    ASSUME NEW a, NEW n, NEW b, NEW r, NEW s, StreamOK(a, n, b, r, s),
           NEW i \in DOMAIN a, NEW j \in DOMAIN a, a[i] = a[j]
    PROVE  i = j
<1>1. i \in Nat /\ j \in Nat /\ a[i] \in Pair /\ a[j] \in Pair
    BY StreamFacts
<1>2. ~Before(a[i], a[j]) /\ ~Before(a[j], a[i])
    BY <1>1, PairFields DEF Before
<1>3. (i < j => Before(a[i], a[j])) /\ (j < i => Before(a[j], a[i]))
    BY DEF StreamOK, Ordered
<1> QED
    BY <1>1, <1>2, <1>3

\* The backend gets the next frame: it has it already, or it is the next one it misses.
LEMMA ArriveKeeps ==
    ASSUME NEW a, NEW n, NEW b, NEW r, NEW s, StreamOK(a, n, b, r, s),
           s # <<>>, Len(a) - Len(s) <= Len(r)
    PROVE  LET r2 == IF Head(s) \in Range(r) THEN r ELSE Append(r, Head(s))
           IN StreamOK(a, n, b, r2, Tail(s)) /\ Len(a) - Len(Tail(s)) <= Len(r2)
<1> DEFINE t == (Len(a) - Len(s)) + 1
<1>1. /\ Len(a) \in Nat /\ DOMAIN a = 1..Len(a) /\ Len(r) \in Nat /\ DOMAIN r = 1..Len(r)
      /\ Len(s) \in Nat /\ DOMAIN s = 1..Len(s) /\ Len(s) <= Len(a) /\ Len(r) <= Len(a)
      /\ Len(b) \in Nat /\ Len(a) - Len(b) <= Len(r)
    BY StreamFacts
<1>2. Len(s) # 0
    BY DEF StreamOK
<1>3. t \in DOMAIN a /\ t \in Nat /\ t <= Len(r) + 1
    BY <1>1, <1>2
<1>4. Head(s) = a[t] /\ Head(s) \in Pair
    <2>1. Head(s) = s[1] /\ 1 \in DOMAIN s
        BY <1>1, <1>2 DEF StreamOK
    <2>2. s[1] = a[t]
        BY <2>1 DEF StreamOK, EndOf
    <2> QED
        BY <2>1, <2>2, StreamFacts
<1>5. /\ Tail(s) \in Seq(Pair) /\ Len(Tail(s)) = Len(s) - 1
      /\ DOMAIN Tail(s) = 1..(Len(s) - 1) /\ \A i \in 1..(Len(s) - 1) : Tail(s)[i] = s[i + 1]
    BY <1>1, <1>2 DEF StreamOK
<1>6. EndOf(Tail(s), a)
    <2>1. \A i \in 1..(Len(s) - 1) : i + 1 \in DOMAIN s
                  /\ (Len(a) - (Len(s) - 1)) + i = (Len(a) - Len(s)) + (i + 1)
        BY <1>1, <1>2
    <2>2. \A i \in DOMAIN s : s[i] = a[(Len(a) - Len(s)) + i]
        BY DEF StreamOK, EndOf
    <2>3. ASSUME NEW i \in DOMAIN Tail(s)
          PROVE  Tail(s)[i] = a[(Len(a) - Len(Tail(s))) + i]
        <3>1. i \in 1..(Len(s) - 1) /\ Tail(s)[i] = s[i + 1]
            BY <1>5
        <3>2. s[i + 1] = a[(Len(a) - Len(s)) + (i + 1)]
            BY <2>1, <2>2, <3>1
        <3> QED
            BY <2>1, <3>1, <3>2, <1>5
    <2>4. Len(Tail(s)) <= Len(a)
        BY <1>1, <1>5
    <2> QED
        BY <2>3, <2>4 DEF EndOf
<1>7. CASE Head(s) \in Range(r)
    <2>1. PICK i \in DOMAIN r : r[i] = a[t] /\ r[i] = a[i] /\ i \in DOMAIN a
        BY <1>1, <1>4, <1>7 DEF StreamOK, StartOf, Range
    <2>2. i = t
        BY <2>1, <1>3, NumberedOnce
    <2>3. Len(a) - Len(Tail(s)) <= Len(r)
        BY <2>2, <1>1, <1>2, <1>5
    <2>4. StreamOK(a, n, b, r, Tail(s))
        BY <1>5, <1>6 DEF StreamOK
    <2> QED
        BY <2>3, <2>4, <1>7
<1>8. CASE Head(s) \notin Range(r)
    <2>1. t = Len(r) + 1
        <3>1. t \notin DOMAIN r
            BY <1>4, <1>8 DEF StreamOK, StartOf, Range
        <3> QED
            BY <3>1, <1>1, <1>3
    <2> DEFINE r2 == Append(r, Head(s))
    <2>2. r2 \in Seq(Pair) /\ Len(r2) = Len(r) + 1 /\ DOMAIN r2 = 1..(Len(r) + 1)
          /\ \A i \in 1..(Len(r) + 1) : r2[i] = IF i = Len(r) + 1 THEN Head(s) ELSE r[i]
        BY <1>1, <1>4 DEF StreamOK
    <2> HIDE DEF r2
    <2>3. \A i \in 1..(Len(r) + 1) : r2[i] = a[i]
        <3>1. \A i \in 1..Len(r) : r[i] = a[i]
            BY <1>1 DEF StreamOK, StartOf
        <3>2. \A i \in 1..(Len(r) + 1) : i = Len(r) + 1 \/ i \in 1..Len(r)
            BY <1>1
        <3>3. r2[Len(r) + 1] = a[Len(r) + 1]
            BY <2>1, <2>2, <1>1, <1>4
        <3> HIDE DEF t
        <3> QED
            BY <3>1, <3>2, <3>3, <2>2
    <2>4. StartOf(r2, a)
        BY <2>1, <2>2, <2>3, <1>1, <1>3 DEF StartOf
    <2>5. Len(a) - Len(b) <= Len(r2)
        BY <2>2, <1>1
    <2>6. StreamOK(a, n, b, r2, Tail(s))
        BY <2>2, <2>4, <2>5, <1>5, <1>6 DEF StreamOK
    <2>7. Len(a) - Len(Tail(s)) <= Len(r2)
        BY <2>1, <2>2, <1>1, <1>2, <1>5
    <2> QED
        BY <2>6, <2>7, <1>8 DEF r2
<1> QED
    BY <1>7, <1>8

\* The envelopes of an event.
LEMMA EnvelopesAre ==
    ASSUME NEW n \in Nat, NEW count \in 0..2
    PROVE  LET v == [i \in 1..count |-> <<n, i - 1>>]
           IN /\ v \in Seq(Pair) /\ Len(v) = count /\ DOMAIN v = 1..count
              /\ \A i \in 1..count : v[i] = <<n, i - 1>>
<1> DEFINE v == [i \in 1..count |-> <<n, i - 1>>]
<1>1. \A i \in 1..count : v[i] = <<n, i - 1>> /\ v[i] \in Pair
    BY DEF Pair
<1>2. DOMAIN v = 1..count /\ v \in [1..count -> Pair]
    BY <1>1
<1>3. v \in Seq(Pair) /\ Len(v) = count
    BY <1>2
<1> QED
    BY <1>1, <1>2, <1>3

\* w is q followed by v.
Joins(q, v, w) ==
    /\ w \in Seq(Pair) /\ Len(w) = Len(q) + Len(v) /\ DOMAIN w = 1..(Len(q) + Len(v))
    /\ \A i \in 1..Len(q) : w[i] = q[i]
    /\ \A i \in 1..Len(v) : w[Len(q) + i] = v[i]

LEMMA Appended == ASSUME NEW q \in Seq(Pair), NEW v \in Seq(Pair) PROVE Joins(q, v, q \o v)
BY DEF Joins

\* What is at the end stays there when both grow by the same envelopes.
LEMMA EndsJoin ==
    ASSUME NEW a \in Seq(Pair), NEW b \in Seq(Pair), NEW v \in Seq(Pair), NEW a2, NEW b2,
           Joins(a, v, a2), Joins(b, v, b2), EndOf(b, a)
    PROVE  EndOf(b2, a2)
<1>1. /\ Len(a2) = Len(a) + Len(v) /\ DOMAIN b2 = 1..(Len(b) + Len(v))
      /\ Len(b2) = Len(b) + Len(v)
      /\ \A i \in 1..Len(a) : a2[i] = a[i]
      /\ \A i \in 1..Len(v) : a2[Len(a) + i] = v[i]
      /\ \A i \in 1..Len(b) : b2[i] = b[i]
      /\ \A i \in 1..Len(v) : b2[Len(b) + i] = v[i]
    BY DEF Joins
<1>2. /\ Len(a) \in Nat /\ Len(b) \in Nat /\ Len(v) \in Nat /\ DOMAIN b = 1..Len(b)
      /\ Len(b) <= Len(a)
    BY Elements DEF EndOf
<1>3. Len(b2) <= Len(a2)
    BY <1>1, <1>2
<1> SUFFICES ASSUME NEW i \in DOMAIN b2
             PROVE  b2[i] = a2[(Len(a2) - Len(b2)) + i]
    BY <1>3 DEF EndOf
<1>4. Len(a2) - Len(b2) = Len(a) - Len(b) /\ i \in 1..(Len(b) + Len(v))
    BY <1>1, <1>2
<1>5. CASE i <= Len(b)
    <2>1. i \in DOMAIN b /\ (Len(a) - Len(b)) + i \in 1..Len(a)
        BY <1>2, <1>4, <1>5
    <2>2. b[i] = a[(Len(a) - Len(b)) + i]
        BY <2>1 DEF EndOf
    <2> QED
        BY <2>1, <2>2, <1>1, <1>2, <1>4
<1>6. CASE i > Len(b)
    <2>1. i - Len(b) \in 1..Len(v)
        BY <1>2, <1>4, <1>6
    <2>2. Len(b) + (i - Len(b)) = i /\ (Len(a) - Len(b)) + i = Len(a) + (i - Len(b))
        BY <1>2, <1>4
    <2>3. b2[i] = v[i - Len(b)]
        BY <2>1, <2>2, <1>1
    <2>4. a2[(Len(a) - Len(b)) + i] = v[i - Len(b)]
        BY <2>1, <2>2, <1>1
    <2> QED
        BY <1>4, <2>3, <2>4
<1> QED
    BY <1>2, <1>4, <1>5, <1>6

\* The writer numbers, buffers and starts to send an event, while others are on the way.
LEMMA WrittenKeeps ==
    ASSUME NEW a, NEW n, NEW b, NEW r, NEW s, StreamOK(a, n, b, r, s),
           Len(a) - Len(s) <= Len(r), NEW count \in 0..2, NEW v, NEW a2, NEW b2, NEW s2,
           Joins(a, v, a2), Joins(b, v, b2), Joins(s, v, s2),
           v \in Seq(Pair), Len(v) = count, DOMAIN v = 1..count,
           \A i \in 1..count : v[i] = <<n, i - 1>>
    PROVE  StreamOK(a2, n + 1, b2, r, s2) /\ Len(a2) - Len(s2) <= Len(r)
<1>0. /\ n \in Nat /\ a \in Seq(Pair) /\ b \in Seq(Pair) /\ r \in Seq(Pair) /\ s \in Seq(Pair)
      /\ EndOf(b, a) /\ EndOf(s, a)
    BY DEF StreamOK
<1>2. /\ a2 \in Seq(Pair) /\ Len(a2) = Len(a) + count
      /\ DOMAIN a2 = 1..(Len(a) + count)
      /\ \A i \in 1..Len(a) : a2[i] = a[i]
      /\ \A i \in 1..count : a2[Len(a) + i] = v[i]
    BY DEF Joins
<1>3. /\ b2 \in Seq(Pair) /\ Len(b2) = Len(b) + count
      /\ s2 \in Seq(Pair) /\ Len(s2) = Len(s) + count
    BY DEF Joins
<1>4. /\ Len(a) \in Nat /\ Len(b) \in Nat /\ Len(r) \in Nat /\ Len(s) \in Nat
      /\ DOMAIN a = 1..Len(a) /\ DOMAIN r = 1..Len(r) /\ Len(r) <= Len(a)
      /\ Len(a) - Len(b) <= Len(r) /\ \A i \in DOMAIN a : a[i] \in Pair
    BY StreamFacts
<1>5. ASSUME NEW i \in DOMAIN a2
      PROVE  \/ i \in DOMAIN a /\ a2[i] = a[i]
             \/ i > Len(a) /\ i - Len(a) \in 1..count /\ a2[i] = <<n, (i - Len(a)) - 1>>
    <2>1. CASE i <= Len(a)
        BY <2>1, <1>2, <1>4
    <2>2. CASE i > Len(a)
        <3>1. i - Len(a) \in 1..count /\ Len(a) + (i - Len(a)) = i
            BY <2>2, <1>2, <1>4
        <3> QED
            BY <3>1, <2>2, <1>2
    <2> QED
        BY <2>1, <2>2, <1>2, <1>4
<1>6. \A i \in DOMAIN a : a[i][1] \in Nat /\ a[i][2] \in Nat /\ a[i][1] < n
    BY <1>4, PairFields DEF StreamOK
<1>7. Ordered(a2)
    <2> SUFFICES ASSUME NEW i \in DOMAIN a2, NEW j \in DOMAIN a2, i < j
                 PROVE  Before(a2[i], a2[j])
        BY DEF Ordered
    <2>1. CASE j \in DOMAIN a /\ a2[j] = a[j]
        <3>1. i \in DOMAIN a /\ a2[i] = a[i]
            BY <2>1, <1>2, <1>4
        <3> QED
            BY <2>1, <3>1 DEF StreamOK, Ordered
    <2>2. CASE j > Len(a) /\ j - Len(a) \in 1..count /\ a2[j] = <<n, (j - Len(a)) - 1>>
        <3>1. CASE i \in DOMAIN a /\ a2[i] = a[i]
            BY <2>2, <3>1, <1>6 DEF Before
        <3>2. CASE i > Len(a) /\ i - Len(a) \in 1..count /\ a2[i] = <<n, (i - Len(a)) - 1>>
            <4>1. i \in Nat /\ j \in Nat /\ (i - Len(a)) - 1 < (j - Len(a)) - 1
                BY <1>2, <1>4
            <4> QED
                BY <4>1, <2>2, <3>2, <1>0 DEF Before
        <3> QED
            BY <3>1, <3>2, <1>5
    <2> QED
        BY <2>1, <2>2, <1>5
<1>8. n + 1 \in Nat /\ \A i \in DOMAIN a2 : a2[i][1] < n + 1
    BY <1>0, <1>5, <1>6
<1>9. StartOf(r, a2)
    BY <1>2, <1>4 DEF StreamOK, StartOf
<1>10. EndOf(b2, a2) /\ EndOf(s2, a2)
    BY <1>0, EndsJoin
<1>11. Len(a2) - Len(b2) <= Len(r) /\ Len(a2) - Len(s2) <= Len(r)
    BY <1>2, <1>3, <1>4
<1>12. StreamOK(a2, n + 1, b2, r, s2)
    BY <1>0, <1>2, <1>3, <1>7, <1>8, <1>9, <1>10, <1>11 DEF StreamOK
<1> QED
    BY <1>11, <1>12

LEMMA WriteKeeps ==
    ASSUME NEW a, NEW n, NEW b, NEW r, NEW s, StreamOK(a, n, b, r, s),
           Len(a) - Len(s) <= Len(r), NEW count \in 0..2
    PROVE  LET v == [i \in 1..count |-> <<n, i - 1>>]
           IN /\ StreamOK(a \o v, n + 1, b \o v, r, s \o v) /\ v \in Seq(Pair)
              /\ Len(a \o v) - Len(s \o v) <= Len(r)
<1>1. n \in Nat /\ a \in Seq(Pair) /\ b \in Seq(Pair) /\ s \in Seq(Pair)
    BY DEF StreamOK
<1> DEFINE v == [i \in 1..count |-> <<n, i - 1>>]
<1>2. /\ v \in Seq(Pair) /\ Len(v) = count /\ DOMAIN v = 1..count
      /\ \A i \in 1..count : v[i] = <<n, i - 1>>
    BY <1>1, EnvelopesAre
<1> HIDE DEF v
<1>3. Joins(a, v, a \o v) /\ Joins(b, v, b \o v) /\ Joins(s, v, s \o v)
    BY <1>1, <1>2, Appended
<1>4. StreamOK(a \o v, n + 1, b \o v, r, s \o v) /\ Len(a \o v) - Len(s \o v) <= Len(r)
    BY <1>2, <1>3, WrittenKeeps
<1> QED
    BY <1>2, <1>4 DEF v

\* The frame the writer hands over stays on the way, at the same place.
LEMMA HandedOver ==
    ASSUME NEW w \in Seq(Pair), NEW q \in Seq(Pair), q # <<>>
    PROVE  /\ Append(w, Head(q)) \in Seq(Pair) /\ Tail(q) \in Seq(Pair)
           /\ Append(w, Head(q)) \o Tail(q) = w \o q
<1>1. Head(q) \in Pair /\ Tail(q) \in Seq(Pair) /\ <<Head(q)>> \in Seq(Pair)
    BY HeadTailProperties
<1>2. Append(w, Head(q)) = w \o <<Head(q)>> /\ Append(w, Head(q)) \in Seq(Pair)
    BY <1>1, AppendIsConcat, AppendProperties
<1>3. <<Head(q)>> \o Tail(q) = q
    <2>1. Len(q) \in Nat /\ Len(q) # 0 /\ Len(Tail(q)) = Len(q) - 1 /\ Head(q) = q[1]
          /\ \A i \in 1..Len(Tail(q)) : Tail(q)[i] = q[i + 1]
        BY HeadTailProperties, EmptySeq
    <2> DEFINE p == <<Head(q)>> \o Tail(q)
    <2>2. p \in Seq(Pair) /\ Len(p) = 1 + Len(Tail(q))
          /\ \A i \in 1..(1 + Len(Tail(q))) : p[i] = IF i <= 1 THEN Head(q) ELSE Tail(q)[i - 1]
        BY <1>1, ConcatProperties
    <2> HIDE DEF p
    <2>3. \A i \in 1..Len(p) : p[i] = q[i]
        BY <2>1, <2>2
    <2>4. p = q
        BY <2>1, <2>2, <2>3, SeqEqual
    <2> QED
        BY <2>4 DEF p
<1>4. (w \o <<Head(q)>>) \o Tail(q) = w \o (<<Head(q)>> \o Tail(q))
    BY <1>1, ConcatAssociative
<1> QED
    BY <1>1, <1>2, <1>3, <1>4

\* The frame that arrives is the first of those on the way.
LEMMA FirstOnTheWay ==
    ASSUME NEW w \in Seq(Pair), NEW q \in Seq(Pair), w # <<>>
    PROVE  /\ w \o q # <<>> /\ Head(w \o q) = Head(w) /\ Tail(w) \in Seq(Pair)
           /\ Tail(w \o q) = Tail(w) \o q
<1> DEFINE s == w \o q
<1>1. /\ Len(w) \in Nat \ {0} /\ Len(q) \in Nat /\ Tail(w) \in Seq(Pair)
      /\ Len(Tail(w)) = Len(w) - 1 /\ \A i \in 1..Len(Tail(w)) : Tail(w)[i] = w[i + 1]
    BY HeadTailProperties, EmptySeq, LenProperties
<1>2. /\ s \in Seq(Pair) /\ Len(s) = Len(w) + Len(q)
      /\ \A i \in 1..(Len(w) + Len(q)) : s[i] = IF i <= Len(w) THEN w[i] ELSE q[i - Len(w)]
    BY ConcatProperties
<1> HIDE DEF s
<1>3. s # <<>>
    BY <1>1, <1>2, EmptySeq
<1>4. Head(s) = Head(w)
    BY <1>1, <1>2
<1>5. /\ Tail(s) \in Seq(Pair) /\ Len(Tail(s)) = Len(s) - 1
      /\ \A i \in 1..Len(Tail(s)) : Tail(s)[i] = s[i + 1]
    BY <1>2, <1>3, HeadTailProperties
<1> DEFINE t == Tail(w) \o q
<1>6. /\ t \in Seq(Pair) /\ Len(t) = Len(Tail(w)) + Len(q)
      /\ \A i \in 1..(Len(Tail(w)) + Len(q)) :
            t[i] = IF i <= Len(Tail(w)) THEN Tail(w)[i] ELSE q[i - Len(Tail(w))]
    BY <1>1, ConcatProperties
<1> HIDE DEF t
<1>7. ASSUME NEW i \in 1..Len(t) PROVE Tail(s)[i] = t[i]
    <2>1. i \in 1..Len(Tail(s)) /\ i + 1 \in 1..(Len(w) + Len(q)) /\ i \in Nat
        BY <1>1, <1>2, <1>5, <1>6
    <2>2. Tail(s)[i] = IF i + 1 <= Len(w) THEN w[i + 1] ELSE q[(i + 1) - Len(w)]
        BY <2>1, <1>2, <1>5
    <2>3. CASE i <= Len(Tail(w))
        BY <2>1, <2>2, <2>3, <1>1, <1>6
    <2>4. CASE i > Len(Tail(w))
        <3>1. i - Len(Tail(w)) = (i + 1) - Len(w) /\ ~(i + 1 <= Len(w))
            BY <2>1, <2>4, <1>1
        <3> QED
            BY <3>1, <2>1, <2>2, <2>4, <1>1, <1>6
    <2> QED
        BY <2>1, <2>3, <2>4, <1>1
<1>8. Len(Tail(s)) = Len(t)
    BY <1>1, <1>2, <1>5, <1>6
<1>9. Tail(s) = t
    BY <1>5, <1>6, <1>7, <1>8, SeqEqual
<1> QED
    BY <1>1, <1>3, <1>4, <1>9 DEF s, t

\* The writer is stopped, and starts again with what is in the buffer.
LEMMA StopKeeps ==
    ASSUME NEW a, NEW n, NEW b, NEW r, NEW s, StreamOK(a, n, b, r, s)
    PROVE  StreamOK(a, n, b, r, <<>>) /\ StreamOK(a, n, b, r, b) /\ Len(a) - Len(b) <= Len(r)
<1>1. <<>> \in Seq(Pair) /\ EndOf(<<>>, a)
    BY StreamFacts DEF EndOf
<1> QED
    BY <1>1 DEF StreamOK

-----------------------------------------------------------------------------
(* Every step keeps the outbound part.                                     *)

\* OutInv, one stream at a time.
StreamInv(a, n, b, r, w, q, up) ==
    /\ StreamOK(a, n, b, r, w \o q)
    /\ IF up THEN Len(a) - Len(w \o q) <= Len(r) ELSE w = <<>> /\ q = <<>>

OutTypes == /\ queue \in Seq(Stream) /\ nextOut \in [Stream -> Nat]
            /\ buffer \in [Stream -> Seq(Pair)] /\ toSend \in [Stream -> Seq(Pair)]
            /\ wire \in [Stream -> Seq(Pair)]
            /\ assigned \in [Stream -> Seq(Pair)] /\ received \in [Stream -> Seq(Pair)]

StreamsOK == \A k \in Stream :
    StreamInv(assigned[k], nextOut[k], buffer[k], received[k], wire[k], toSend[k], connected)

LEMMA OutInvParts == OutInv <=> OutTypes /\ StreamsOK
BY DEF OutInv, OutTypes, StreamsOK, StreamInv

LEMMA OutTypesOf ==
    ASSUME NEW a, NEW n, NEW b, NEW r, NEW s, StreamOK(a, n, b, r, s)
    PROVE  n \in Nat /\ a \in Seq(Pair) /\ b \in Seq(Pair) /\ r \in Seq(Pair) /\ s \in Seq(Pair)
BY DEF StreamOK

LEMMA OutInit == ASSUME Init PROVE OutInv
<1>1. OutTypes
    BY DEF Init, OutTypes
<1>2. StreamOK(<<>>, 1, <<>>, <<>>, <<>>)
    BY DEF StreamOK, EndOf, StartOf, Ordered
<1>3. StreamsOK
    <2>1. <<>> \o <<>> = <<>>
        OBVIOUS
    <2> QED
        BY <1>2, <2>1 DEF Init, StreamsOK, StreamInv
<1> QED
    BY <1>1, <1>3, OutInvParts

LEMMA OutUnchanged == ASSUME OutInv, UNCHANGED <<outbound, connected>> PROVE OutInv'
BY DEF OutInv, outbound

LEMMA OutConnect == ASSUME OutInv, Connect PROVE OutInv'
<1>1. OutTypes /\ StreamsOK
    BY OutInvParts
<1>2. OutTypes'
    BY <1>1 DEF OutTypes, Connect, Unacked
<1>3. StreamsOK'
    <2> SUFFICES ASSUME NEW k \in Stream
                 PROVE  StreamInv(assigned'[k], nextOut'[k], buffer'[k], received'[k],
                                  wire'[k], toSend'[k], connected')
        BY DEF StreamsOK
    <2>1. StreamOK(assigned[k], nextOut[k], buffer[k], received[k], wire[k] \o toSend[k])
        BY <1>1 DEF StreamsOK, StreamInv
    <2>2. StreamOK(assigned[k], nextOut[k], buffer[k], received[k], buffer[k])
          /\ Len(assigned[k]) - Len(buffer[k]) <= Len(received[k])
        BY <2>1, StopKeeps
    <2>3. wire'[k] = <<>> /\ toSend'[k] = buffer[k] /\ <<>> \o buffer[k] = buffer[k]
        BY <1>1, ConcatEmptySeq DEF StreamsOK, StreamInv, Connect, Unacked, OutTypes
    <2> QED
        BY <2>2, <2>3 DEF StreamInv, Connect
<1> QED
    BY <1>2, <1>3, OutInvParts, PTL

LEMMA OutStop ==
    ASSUME OutInv, Stop, UNCHANGED <<queue, nextOut, buffer, assigned, received>>
    PROVE  OutInv'
<1>1. OutTypes /\ StreamsOK
    BY OutInvParts
<1>2. OutTypes'
    BY <1>1 DEF OutTypes, Stop
<1>3. StreamsOK'
    <2> SUFFICES ASSUME NEW k \in Stream
                 PROVE  StreamInv(assigned'[k], nextOut'[k], buffer'[k], received'[k],
                                  wire'[k], toSend'[k], connected')
        BY DEF StreamsOK
    <2>1. StreamOK(assigned[k], nextOut[k], buffer[k], received[k], wire[k] \o toSend[k])
        BY <1>1 DEF StreamsOK, StreamInv
    <2>2. StreamOK(assigned[k], nextOut[k], buffer[k], received[k], <<>>)
        BY <2>1, StopKeeps
    <2>3. <<>> \o <<>> = <<>>
        OBVIOUS
    <2> QED
        BY <2>2, <2>3 DEF StreamInv, Stop
<1> QED
    BY <1>2, <1>3, OutInvParts, PTL

LEMMA OutEnqueue == ASSUME OutInv, NEW k \in Stream, Enqueue(k) PROVE OutInv'
<1>1. OutTypes /\ StreamsOK
    BY OutInvParts
<1>2. OutTypes'
    BY <1>1 DEF OutTypes, Enqueue
<1>3. StreamsOK'
    BY <1>1 DEF StreamsOK, Enqueue
<1> QED
    BY <1>2, <1>3, OutInvParts, PTL

\* An event that cannot be split is only taken off the queue.
LEMMA OutSkip ==
    ASSUME OutInv, Write, UNCHANGED <<nextOut, buffer, assigned, toSend>>
    PROVE  OutInv'
<1>1. OutTypes /\ StreamsOK
    BY OutInvParts
<1>2. UNCHANGED <<wire, received, connected>> /\ queue' = Tail(queue) /\ queue # <<>>
    BY DEF Write
<1>3. OutTypes'
    BY <1>1, <1>2 DEF OutTypes
<1>4. StreamsOK'
    BY <1>1, <1>2 DEF StreamsOK
<1> QED
    BY <1>3, <1>4, OutInvParts, PTL

LEMMA OutWrite == ASSUME OutInv, Write PROVE OutInv'
<1>0. CASE UNCHANGED <<nextOut, buffer, assigned, toSend>>
    BY <1>0, OutSkip
<1> SUFFICES ASSUME ~UNCHANGED <<nextOut, buffer, assigned, toSend>> PROVE OutInv'
    BY <1>0
<1>1. OutTypes /\ StreamsOK
    BY OutInvParts
<1>2. PICK k : k = Head(queue) /\ k \in Stream
    <2>1. queue \in Seq(Stream)
        BY <1>1 DEF OutTypes
    <2>2. queue # <<>>
        BY DEF Write
    <2> QED
        BY <2>1, <2>2
<1>3. PICK count \in 0..2 :
          LET v == [i \in 1..count |-> <<nextOut[k], i - 1>>]
          IN /\ nextOut' = [nextOut EXCEPT ![k] = @ + 1]
             /\ buffer' = [buffer EXCEPT ![k] = @ \o v]
             /\ assigned' = [assigned EXCEPT ![k] = @ \o v]
             /\ toSend' = [toSend EXCEPT ![k] = v]
    BY <1>2 DEF Write
<1> DEFINE v == [i \in 1..count |-> <<nextOut[k], i - 1>>]
           a2 == assigned[k] \o v
           b2 == buffer[k] \o v
<1>4. /\ connected /\ \A m \in Stream : toSend[m] = <<>>
      /\ UNCHANGED <<wire, received, connected>> /\ queue' = Tail(queue) /\ queue # <<>>
    BY DEF Write
<1>5. StreamOK(assigned[k], nextOut[k], buffer[k], received[k], wire[k])
      /\ Len(assigned[k]) - Len(wire[k]) <= Len(received[k])
    <2>1. StreamInv(assigned[k], nextOut[k], buffer[k], received[k], wire[k], <<>>, TRUE)
        BY <1>1, <1>2, <1>4 DEF StreamsOK
    <2>2. wire[k] \o <<>> = wire[k]
        BY <1>1, <1>2, ConcatEmptySeq DEF OutTypes
    <2> QED
        BY <2>1, <2>2 DEF StreamInv
<1>6. /\ StreamOK(a2, nextOut[k] + 1, b2, received[k], wire[k] \o v) /\ v \in Seq(Pair)
      /\ Len(a2) - Len(wire[k] \o v) <= Len(received[k])
    BY <1>5, WriteKeeps
<1>7. /\ nextOut' = [nextOut EXCEPT ![k] = nextOut[k] + 1]
      /\ buffer' = [buffer EXCEPT ![k] = b2]
      /\ assigned' = [assigned EXCEPT ![k] = a2]
      /\ toSend' = [toSend EXCEPT ![k] = v]
    BY <1>3
<1> HIDE DEF v, a2, b2
<1>8. a2 \in Seq(Pair) /\ b2 \in Seq(Pair) /\ v \in Seq(Pair) /\ nextOut[k] + 1 \in Nat
    BY <1>6, OutTypesOf
<1>9. OutTypes'
    <2>1. queue' \in Seq(Stream)
        BY <1>1, <1>4 DEF OutTypes
    <2> QED
        BY <2>1, <1>1, <1>4, <1>7, <1>8 DEF OutTypes
<1>10. StreamsOK'
    <2> SUFFICES ASSUME NEW m \in Stream
                 PROVE  StreamInv(assigned'[m], nextOut'[m], buffer'[m], received'[m],
                                  wire'[m], toSend'[m], connected')
        BY DEF StreamsOK
    <2>1. CASE m = k
        <3>1. /\ assigned'[m] = a2 /\ nextOut'[m] = nextOut[k] + 1 /\ buffer'[m] = b2
              /\ toSend'[m] = v /\ wire'[m] = wire[k] /\ received'[m] = received[k] /\ connected'
            BY <2>1, <1>1, <1>4, <1>7 DEF OutTypes
        <3> QED
            BY <3>1, <1>6 DEF StreamInv
    <2>2. CASE m # k
        <3>1. /\ assigned'[m] = assigned[m] /\ nextOut'[m] = nextOut[m] /\ buffer'[m] = buffer[m]
              /\ toSend'[m] = toSend[m] /\ wire'[m] = wire[m] /\ received'[m] = received[m]
              /\ connected' = connected
            BY <2>2, <1>1, <1>4, <1>7 DEF OutTypes
        <3> QED
            BY <3>1, <1>1 DEF StreamsOK
    <2> QED
        BY <2>1, <2>2
<1> QED
    BY <1>9, <1>10, OutInvParts, PTL

\* A frame of stream k moves on: what is on its way, and with it the backend, is as the
\* invariant says again, and no other stream is touched.
LEMMA OutMoves ==
    ASSUME OutInv, NEW k \in Stream, NEW w, NEW q, NEW r,
           StreamInv(assigned[k], nextOut[k], buffer[k], r, w, q, TRUE),
           w \in Seq(Pair), q \in Seq(Pair), connected,
           wire' = [wire EXCEPT ![k] = w], toSend' = [toSend EXCEPT ![k] = q],
           received' = [received EXCEPT ![k] = r],
           UNCHANGED <<queue, nextOut, buffer, assigned, connected>>
    PROVE  OutInv'
<1>1. OutTypes /\ StreamsOK
    BY OutInvParts
<1>2. r \in Seq(Pair)
    BY OutTypesOf DEF StreamInv
<1>3. OutTypes'
    BY <1>1, <1>2 DEF OutTypes
<1>4. StreamsOK'
    <2> SUFFICES ASSUME NEW m \in Stream
                 PROVE  StreamInv(assigned'[m], nextOut'[m], buffer'[m], received'[m],
                                  wire'[m], toSend'[m], connected')
        BY DEF StreamsOK
    <2>1. CASE m = k
        <3>1. wire'[m] = w /\ toSend'[m] = q /\ received'[m] = r
            BY <2>1, <1>1 DEF OutTypes
        <3> QED
            BY <2>1, <3>1
    <2>2. CASE m # k
        <3>1. wire'[m] = wire[m] /\ toSend'[m] = toSend[m] /\ received'[m] = received[m]
            BY <2>2, <1>1 DEF OutTypes
        <3> QED
            BY <3>1, <1>1 DEF StreamsOK
    <2> QED
        BY <2>1, <2>2
<1> QED
    BY <1>3, <1>4, OutInvParts, PTL

LEMMA OutSend == ASSUME OutInv, NEW k \in Stream, Send(k) PROVE OutInv'
<1>1. OutTypes /\ StreamsOK
    BY OutInvParts
<1>2. PICK w, q : w = Append(wire[k], Head(toSend[k])) /\ q = Tail(toSend[k])
    OBVIOUS
<1>3. w \in Seq(Pair) /\ q \in Seq(Pair) /\ w \o q = wire[k] \o toSend[k]
    BY <1>1, <1>2, HandedOver DEF Send, HandOver, OutTypes
<1>4. StreamInv(assigned[k], nextOut[k], buffer[k], received[k], w, q, TRUE)
    BY <1>1, <1>3 DEF StreamsOK, StreamInv, Send, HandOver
<1>5. /\ wire' = [wire EXCEPT ![k] = w] /\ toSend' = [toSend EXCEPT ![k] = q]
      /\ received' = [received EXCEPT ![k] = received[k]] /\ connected
      /\ UNCHANGED <<queue, nextOut, buffer, assigned, connected>>
    BY <1>1, <1>2 DEF Send, HandOver, OutTypes
<1> QED
    BY <1>3, <1>4, <1>5, OutMoves

LEMMA OutArrive == ASSUME OutInv, NEW k \in Stream, Arrive(k) PROVE OutInv'
<1>1. OutTypes /\ StreamsOK
    BY OutInvParts
<1>2. PICK w, q, r : /\ w = Tail(wire[k]) /\ q = toSend[k]
                     /\ r = IF Head(wire[k]) \in Range(received[k]) THEN received[k]
                            ELSE Append(received[k], Head(wire[k]))
    OBVIOUS
<1>3. PICK s : s = wire[k] \o toSend[k]
    OBVIOUS
<1>4. /\ s # <<>> /\ Head(s) = Head(wire[k]) /\ w \in Seq(Pair) /\ q \in Seq(Pair)
      /\ Tail(s) = w \o q
    BY <1>1, <1>2, <1>3, FirstOnTheWay DEF Arrive, OutTypes
<1>5. StreamOK(assigned[k], nextOut[k], buffer[k], received[k], s)
      /\ Len(assigned[k]) - Len(s) <= Len(received[k])
    BY <1>1, <1>3 DEF StreamsOK, StreamInv, Arrive
<1>6. /\ StreamOK(assigned[k], nextOut[k], buffer[k], r, w \o q)
      /\ Len(assigned[k]) - Len(w \o q) <= Len(r)
    BY <1>2, <1>4, <1>5, ArriveKeeps
<1>7. StreamInv(assigned[k], nextOut[k], buffer[k], r, w, q, TRUE)
    BY <1>6 DEF StreamInv
<1>8. /\ wire' = [wire EXCEPT ![k] = w] /\ toSend' = [toSend EXCEPT ![k] = q]
      /\ received' = [received EXCEPT ![k] = r] /\ connected
      /\ UNCHANGED <<queue, nextOut, buffer, assigned, connected>>
    BY <1>1, <1>2 DEF Arrive, OutTypes
<1> QED
    BY <1>4, <1>7, <1>8, OutMoves

LEMMA OutAck == ASSUME OutInv, NEW k \in Stream, Ack(k) PROVE OutInv'
<1>1. OutTypes /\ StreamsOK
    BY OutInvParts
<1>2. PICK e \in Range(received[k]), whole \in BOOLEAN :
          /\ whole => \A f \in Range(assigned[k]) : f[1] = e[1] => f \in Range(received[k])
          /\ buffer' = [buffer EXCEPT ![k] = Retain(@, {i \in DOMAIN @ :
                            ~Acked(@[i], e[1], IF whole THEN None ELSE e[2])})]
    BY DEF Ack
<1>3. PICK p \in DOMAIN received[k] : e = received[k][p]
    BY <1>2 DEF Range
<1> DEFINE seg == IF whole THEN None ELSE e[2]
           b2 == Retain(buffer[k], {i \in DOMAIN buffer[k] : ~Acked(buffer[k][i], e[1], seg)})
<1>4. StreamOK(assigned[k], nextOut[k], buffer[k], received[k], wire[k] \o toSend[k])
    BY <1>1 DEF StreamsOK, StreamInv
<1>5. StreamOK(assigned[k], nextOut[k], b2, received[k], wire[k] \o toSend[k])
    <2>1. \/ seg = received[k][p][2]
          \/ seg = None /\ \A i \in DOMAIN assigned[k] :
                 assigned[k][i][1] = received[k][p][1] => assigned[k][i] \in Range(received[k])
        BY <1>2, <1>3 DEF Range
    <2> HIDE DEF seg
    <2> QED
        BY <2>1, <1>3, <1>4, AckKeeps
<1>6. /\ buffer' = [buffer EXCEPT ![k] = b2]
      /\ UNCHANGED <<queue, nextOut, toSend, wire, assigned, received, connected>>
    BY <1>1, <1>2 DEF Ack, OutTypes
<1> HIDE DEF seg, b2
<1>7. b2 \in Seq(Pair)
    BY <1>5, OutTypesOf
<1>8. OutTypes'
    BY <1>1, <1>6, <1>7 DEF OutTypes
<1>9. StreamsOK'
    <2> SUFFICES ASSUME NEW m \in Stream
                 PROVE  StreamInv(assigned'[m], nextOut'[m], buffer'[m], received'[m],
                                  wire'[m], toSend'[m], connected')
        BY DEF StreamsOK
    <2>1. CASE m = k
        <3>1. buffer'[m] = b2
            BY <2>1, <1>1, <1>6 DEF OutTypes
        <3> QED
            BY <2>1, <3>1, <1>1, <1>5, <1>6 DEF StreamsOK, StreamInv
    <2>2. CASE m # k
        <3>1. buffer'[m] = buffer[m]
            BY <2>2, <1>1, <1>6 DEF OutTypes
        <3> QED
            BY <3>1, <1>1, <1>6 DEF StreamsOK
    <2> QED
        BY <2>1, <2>2
<1> QED
    BY <1>8, <1>9, OutInvParts, PTL

\* The connections' streams are streams.
LEMMA OutStep == ASSUME OutInv, ConnsOK, Next PROVE OutInv'
<1>1. CASE Connect
    BY <1>1, OutConnect
<1>2. CASE Drop \/ ForwardTimesOut \/ FirstTimesOut
    BY <1>2, OutStop DEF Drop, ForwardTimesOut, FirstTimesOut
<1>3. CASE Receive \/ HandleSkip \/ HandleClose \/ CloseAwaited \/ Forward \/ Open \/ Record
    BY <1>3, OutUnchanged
       DEF Receive, HandleSkip, HandleClose, CloseAwaited, Forward, Open, Record
<1>4. CASE Write
    BY <1>4, OutWrite
<1>5. ASSUME NEW k \in Stream, Expire(k) \/ Ping(k) \/ Send(k) \/ Arrive(k) \/ Ack(k)
      PROVE  OutInv'
    <2>1. CASE Expire(k)
        BY <2>1, OutUnchanged DEF Expire
    <2>2. CASE Ping(k)
        BY <2>2, OutEnqueue DEF Ping
    <2> QED
        BY <1>5, <2>1, <2>2, OutSend, OutArrive, OutAck
<1>6. ASSUME NEW c \in DOMAIN conns,
             SendConnectionClosed(c) \/ Bookkeep(c) \/ AppDisconnects(c) \/ TaskEnds(c) \/ Emit(c)
      PROVE  OutInv'
    <2>1. CASE SendConnectionClosed(c) \/ Bookkeep(c) \/ AppDisconnects(c) \/ TaskEnds(c)
        BY <2>1, OutUnchanged DEF SendConnectionClosed, Bookkeep, AppDisconnects, TaskEnds
    <2>2. CASE Emit(c)
        <3>1. conns[c].stream \in Stream
            <4>1. conns \in Seq(Connection)
                BY DEF ConnsOK
            <4>2. conns[c] \in Connection
                BY <4>1, Elements
            <4> QED
                BY <4>2 DEF Connection
        <3> QED
            BY <3>1, <2>2, OutEnqueue DEF Emit
    <2> QED
        BY <1>6, <2>1, <2>2
<1> QED
    BY <1>1, <1>2, <1>3, <1>4, <1>5, <1>6 DEF Next, Handle

-----------------------------------------------------------------------------
(* The log of the client.                                                  *)

\* The messages of a session before place i.
Count(l, i) == {j \in Session(l, i) : l[j].what # "tail"}

\* No close of the stream of l[i] at the places i to j - 1.
InSession(l, i, j) == \A c \in i..(j - 1) : ~(l[c].stream = l[i].stream /\ l[c].what = "close")

LEMMA ScriptFacts ==
    ASSUME NEW l \in Scripts
    PROVE  /\ Len(l) \in Nat /\ DOMAIN l = 1..Len(l) /\ l \in Seq(Envelope)
           /\ \A i \in DOMAIN l : l[i] \in Envelope
           /\ \A i \in DOMAIN l : l[i].what = "tail" =>
                  i - 1 \in DOMAIN l /\ l[i - 1].stream = l[i].stream /\ l[i - 1].what = "head"
           /\ \A i \in DOMAIN l : l[i].what = "head" =>
                  i + 1 \in DOMAIN l /\ l[i + 1].stream = l[i].stream /\ l[i + 1].what = "tail"
<1>1. l \in BoundedSeq(Envelope, MaxLog)
    BY DEF Scripts
<1>2. PICK m \in 0..MaxLog : l \in [1..m -> Envelope]
    BY <1>1 DEF BoundedSeq, SeqOf
<1>3. m \in Nat
    BY <1>2, RemoteAssumption
<1>4. l \in Seq(Envelope)
    BY <1>2, <1>3
<1>5. Len(l) \in Nat /\ DOMAIN l = 1..Len(l) /\ \A i \in DOMAIN l : l[i] \in Envelope
    BY <1>4, Elements
<1>6. \A i \in DOMAIN l : l[i].what = "tail" => i > 1 /\ l[i - 1] = [l[i] EXCEPT !.what = "head"]
    BY DEF Scripts
<1>7. \A i \in DOMAIN l : l[i].what = "head" =>
          i < Len(l) /\ l[i + 1] = [l[i] EXCEPT !.what = "tail"]
    BY DEF Scripts
<1>8. \A i \in DOMAIN l : l[i].what = "tail" =>
          i - 1 \in DOMAIN l /\ l[i - 1].stream = l[i].stream /\ l[i - 1].what = "head"
    <2> TAKE i \in DOMAIN l
    <2> HAVE l[i].what = "tail"
    <2>1. i - 1 \in DOMAIN l
        <3>1. i > 1
            BY <1>6
        <3> QED
            BY <3>1, <1>5
    <2>3. l[i - 1] = [l[i] EXCEPT !.what = "head"] /\ l[i] \in Envelope
        BY <1>5, <1>6
    <2>2. \A e \in Envelope : LET f == [e EXCEPT !.what = "head"]
                             IN f.stream = e.stream /\ f.what = "head"
        BY DEF Envelope
    <2> QED
        BY <2>1, <2>2, <2>3
<1>9. \A i \in DOMAIN l : l[i].what = "head" =>
          i + 1 \in DOMAIN l /\ l[i + 1].stream = l[i].stream /\ l[i + 1].what = "tail"
    <2> TAKE i \in DOMAIN l
    <2> HAVE l[i].what = "head"
    <2>1. i + 1 \in DOMAIN l
        <3>1. i < Len(l)
            BY <1>7
        <3> QED
            BY <3>1, <1>5
    <2>3. l[i + 1] = [l[i] EXCEPT !.what = "tail"] /\ l[i] \in Envelope
        BY <1>5, <1>7
    <2>2. \A e \in Envelope : LET f == [e EXCEPT !.what = "tail"]
                             IN f.stream = e.stream /\ f.what = "tail"
        BY DEF Envelope
    <2> QED
        BY <2>1, <2>2, <2>3
<1> QED
    BY <1>4, <1>5, <1>8, <1>9

\* What a session holds.
LEMMA SessionIs ==
    ASSUME NEW l \in Scripts, NEW i \in DOMAIN l, NEW j \in DOMAIN l
    PROVE  j \in Session(l, i) <=> j < i /\ l[j].stream = l[i].stream /\ InSession(l, j, i)
<1>1. Len(l) \in Nat /\ DOMAIN l = 1..Len(l) /\ \A m \in DOMAIN l : l[m] \in Envelope
    BY ScriptFacts
<1>2. \A m \in DOMAIN l : l[m] = [stream |-> l[i].stream, what |-> "close"]
                          <=> l[m].stream = l[i].stream /\ l[m].what = "close"
    BY <1>1 DEF Envelope
<1>3. j \in 1..(i - 1) <=> j < i
    BY <1>1
<1>4. ASSUME j < i PROVE \A c \in j..(i - 1) : c \in DOMAIN l
    BY <1>1, <1>4
<1>5. ASSUME j < i PROVE j \in j..(i - 1)
    BY <1>1, <1>5
<1> QED
    BY <1>2, <1>3, <1>4, <1>5 DEF Session, InSession

LEMMA CountFinite ==
    ASSUME NEW l \in Scripts, NEW i \in DOMAIN l
    PROVE  /\ IsFiniteSet(Count(l, i)) /\ Cardinality(Count(l, i)) \in Nat
           /\ Count(l, i) \subseteq DOMAIN l
<1>1. i \in Nat /\ DOMAIN l = 1..Len(l) /\ Len(l) \in Nat
    BY ScriptFacts
<1>2. Count(l, i) \subseteq 1..(i - 1) /\ 1..(i - 1) \subseteq DOMAIN l
    BY <1>1 DEF Count, Session
<1>3. IsFiniteSet(1..(i - 1))
    BY <1>1, FS_Interval
<1> QED
    BY <1>2, <1>3, FS_Subset, FS_CardinalityType

\* The session of an envelope is part of that of the next ones.
LEMMA CountGrows ==
    ASSUME NEW l \in Scripts, NEW i \in DOMAIN l, NEW j \in DOMAIN l, i < j,
           l[i].stream = l[j].stream, InSession(l, i, j)
    PROVE  /\ Count(l, i) \subseteq Count(l, j)
           /\ l[i].what # "tail" => i \in Count(l, j)
           /\ i \notin Count(l, i)
<1>1. i \in Nat /\ j \in Nat /\ DOMAIN l = 1..Len(l) /\ Len(l) \in Nat
    BY ScriptFacts
<1>2. ASSUME NEW m \in Session(l, i), m \in DOMAIN l PROVE m \in Session(l, j)
    <2>1. m < i /\ l[m].stream = l[i].stream /\ InSession(l, m, i)
        BY <1>2, SessionIs
    <2>2. \A c \in m..(j - 1) : c \in m..(i - 1) \/ c \in i..(j - 1)
        BY <1>1, <1>2
    <2>3. InSession(l, m, j)
        BY <2>1, <2>2 DEF InSession
    <2> QED
        BY <2>1, <2>3, <1>1, <1>2, SessionIs
<1>3. Count(l, i) \subseteq DOMAIN l
    BY CountFinite
<1>4. Count(l, i) \subseteq Count(l, j)
    BY <1>2, <1>3 DEF Count
<1>5. i \in Session(l, j)
    BY SessionIs
<1>6. i \notin Session(l, i)
    BY <1>1, SessionIs
<1> QED
    BY <1>4, <1>5, <1>6 DEF Count

LEMMA StrictlyMore ==
    ASSUME NEW S, IsFiniteSet(S), NEW T, T \subseteq S, NEW x \in S, x \notin T
    PROVE  Cardinality(T) < Cardinality(S) /\ Cardinality(T) \in Nat /\ Cardinality(S) \in Nat
<1>1. IsFiniteSet(T) /\ Cardinality(T) <= Cardinality(S) /\ (Cardinality(S) = Cardinality(T) => S = T)
    BY FS_Subset
<1>2. Cardinality(T) \in Nat /\ Cardinality(S) \in Nat
    BY <1>1, FS_CardinalityType
<1> QED
    BY <1>1, <1>2

\* The number of an envelope.
SeqOfPlace(l, i) == Cardinality(Count(l, i)) + IF l[i].what \in {"tail", "close"} THEN 0 ELSE 1

LEMMA SeqGrows ==
    ASSUME NEW l \in Scripts, NEW i \in DOMAIN l, NEW j \in DOMAIN l, i < j,
           l[i].stream = l[j].stream, l[j].what # "close", InSession(l, i, j),
           ~(l[i].what = "head" /\ j = i + 1)
    PROVE  SeqOfPlace(l, i) < SeqOfPlace(l, j)
<1>1. i \in Nat /\ j \in Nat /\ i \in i..(j - 1) /\ DOMAIN l = 1..Len(l)
    BY ScriptFacts
<1>2. l[i].what # "close"
    BY <1>1 DEF InSession
<1>3. /\ Count(l, i) \subseteq Count(l, j) /\ i \notin Count(l, i)
      /\ l[i].what # "tail" => i \in Count(l, j)
    BY CountGrows
<1>4. /\ IsFiniteSet(Count(l, i)) /\ Cardinality(Count(l, i)) \in Nat
      /\ IsFiniteSet(Count(l, j)) /\ Cardinality(Count(l, j)) \in Nat
    BY CountFinite
<1> DEFINE U == IF l[i].what = "tail" THEN Count(l, i) ELSE Count(l, i) \cup {i}
<1>5. U \subseteq Count(l, j) /\ SeqOfPlace(l, i) = Cardinality(U)
    <2>1. Cardinality(Count(l, i) \cup {i}) = Cardinality(Count(l, i)) + 1
        BY <1>3, <1>4, FS_AddElement
    <2> QED
        BY <2>1, <1>2, <1>3, <1>4 DEF SeqOfPlace
<1>6. CASE l[j].what = "tail"
    <2>1. j - 1 \in DOMAIN l /\ l[j - 1].stream = l[j].stream /\ l[j - 1].what = "head"
        BY <1>6, ScriptFacts
    <2>2. j - 1 < j /\ j - 1 \in Nat
        BY <2>1, <1>1
    <2>3. InSession(l, j - 1, j)
        <3>1. \A c \in (j - 1)..(j - 1) : c = j - 1
            BY <2>2
        <3> QED
            BY <3>1, <2>1 DEF InSession
    <2>4. j - 1 \in Count(l, j)
        BY <2>1, <2>2, <2>3, CountGrows
    <2>5. i # j - 1
        BY <2>1, <1>1, <1>6
    <2>6. j - 1 \notin Count(l, i)
        <3>1. ~(j - 1 < i)
            BY <1>1
        <3> QED
            BY <3>1, <2>1, SessionIs DEF Count
    <2>7. j - 1 \notin U
        BY <2>5, <2>6
    <2> HIDE DEF U
    <2>8. Cardinality(U) < Cardinality(Count(l, j))
        BY <2>4, <2>7, <1>4, <1>5, StrictlyMore
    <2> QED
        BY <2>8, <1>4, <1>5, <1>6 DEF SeqOfPlace
<1>7. CASE l[j].what # "tail"
    <2> HIDE DEF U
    <2>1. Cardinality(U) <= Cardinality(Count(l, j)) /\ IsFiniteSet(U)
        BY <1>4, <1>5, FS_Subset
    <2>2. Cardinality(U) \in Nat
        BY <2>1, FS_CardinalityType
    <2>3. SeqOfPlace(l, j) = Cardinality(Count(l, j)) + 1
        BY <1>7 DEF SeqOfPlace
    <2> QED
        BY <2>1, <2>2, <2>3, <1>4, <1>5
<1> QED
    BY <1>6, <1>7

\* The two chunks of a message have the same number.
LEMMA SeqOfChunks ==
    ASSUME NEW l \in Scripts, NEW i \in DOMAIN l, l[i].what = "tail"
    PROVE  SeqOfPlace(l, i - 1) = SeqOfPlace(l, i) /\ SeqOfPlace(l, i) > 0
<1>1. i - 1 \in DOMAIN l /\ l[i - 1].stream = l[i].stream /\ l[i - 1].what = "head"
    BY ScriptFacts
<1>2. i \in Nat /\ i - 1 \in Nat /\ i - 1 < i /\ DOMAIN l = 1..Len(l)
    BY <1>1, ScriptFacts
<1>3. InSession(l, i - 1, i)
    <2>1. \A c \in (i - 1)..(i - 1) : c = i - 1
        BY <1>2
    <2> QED
        BY <2>1, <1>1 DEF InSession
<1>4. /\ Count(l, i - 1) \subseteq Count(l, i) /\ i - 1 \in Count(l, i)
      /\ i - 1 \notin Count(l, i - 1)
    BY <1>1, <1>2, <1>3, CountGrows
<1>5. ASSUME NEW m \in Count(l, i), m # i - 1 PROVE m \in Count(l, i - 1)
    <2>1. m \in DOMAIN l /\ m \in Session(l, i)
        BY CountFinite DEF Count
    <2>2. m < i /\ l[m].stream = l[i].stream /\ InSession(l, m, i) /\ m \in Nat
        BY <2>1, <1>2, SessionIs
    <2>3. m < i - 1 /\ \A c \in m..((i - 1) - 1) : c \in m..(i - 1)
        BY <2>2, <1>2, <1>5
    <2>4. InSession(l, m, i - 1)
        BY <2>2, <2>3 DEF InSession
    <2>5. m \in Session(l, i - 1)
        BY <2>1, <2>2, <2>3, <2>4, <1>1, SessionIs
    <2> QED
        BY <2>5 DEF Count
<1>6. Count(l, i) = Count(l, i - 1) \cup {i - 1}
    BY <1>4, <1>5
<1>7. IsFiniteSet(Count(l, i - 1)) /\ Cardinality(Count(l, i - 1)) \in Nat
    BY <1>1, CountFinite
<1>8. Cardinality(Count(l, i)) = Cardinality(Count(l, i - 1)) + 1
    BY <1>4, <1>6, <1>7, FS_AddElement
<1> QED
    BY <1>1, <1>7, <1>8 DEF SeqOfPlace

LEMMA LogInit == ASSUME NEW l \in Scripts, log = Numbered(l) PROVE LogOK
<1>1. /\ Len(l) \in Nat /\ DOMAIN l = 1..Len(l)
      /\ \A i \in DOMAIN l : l[i] \in Envelope
    BY ScriptFacts
<1>2. ASSUME NEW i \in DOMAIN l
      PROVE  \E x \in BOOLEAN, g \in {0, 1} :
             /\ log[i] = [stream |-> l[i].stream, what |-> l[i].what, chunk |-> x,
                          seg |-> g, seq |-> SeqOfPlace(l, i)]
             /\ x <=> l[i].what \in {"head", "tail"}
             /\ l[i].what = "tail" => g = 1
             /\ l[i].what = "head" => g = 0
    <2> DEFINE x == l[i].what \in {"head", "tail"}
               g == IF l[i].what = "tail" THEN 1 ELSE 0
    <2>1. Numbered(l)[i] = [stream |-> l[i].stream, what |-> l[i].what, chunk |-> x,
                            seg |-> g, seq |-> SeqOfPlace(l, i)]
        BY Zenon DEF Numbered, SeqOfPlace, Count
    <2>2. x \in BOOLEAN /\ g \in {0, 1}
        OBVIOUS
    <2>3. (l[i].what = "tail" => g = 1) /\ (l[i].what = "head" => g = 0)
        OBVIOUS
    <2>4. x <=> l[i].what \in {"head", "tail"}
        OBVIOUS
    <2> HIDE DEF x, g
    <2> QED
        BY <2>1, <2>2, <2>3, <2>4, Zenon
<1>3. DOMAIN log = DOMAIN l /\ log \in Seq(Numeral)
    <2>1. DOMAIN log = DOMAIN l /\ log = [i \in DOMAIN l |-> log[i]]
        BY DEF Numbered
    <2>2. \A i \in DOMAIN l : log[i] \in Numeral
        <3> TAKE i \in DOMAIN l
        <3>1. l[i].stream \in Stream /\ l[i].what \in {"init", "message", "head", "tail", "close"}
            BY <1>1 DEF Envelope
        <3>2. SeqOfPlace(l, i) \in Nat
            <4>1. Cardinality(Count(l, i)) \in Nat
                BY CountFinite
            <4> QED
                BY <4>1 DEF SeqOfPlace
        <3>3. PICK x \in BOOLEAN, g \in {0, 1} :
                 log[i] = [stream |-> l[i].stream, what |-> l[i].what, chunk |-> x,
                           seg |-> g, seq |-> SeqOfPlace(l, i)]
            BY <1>2
        <3> QED
            BY <3>1, <3>2, <3>3 DEF Numeral
    <2>3. log \in [1..Len(l) -> Numeral]
        BY <2>1, <2>2, <1>1
    <2> QED
        BY <2>1, <2>3, <1>1
<1>4. ASSUME NEW i \in DOMAIN l
      PROVE  /\ log[i].stream = l[i].stream /\ log[i].what = l[i].what
             /\ log[i].chunk <=> l[i].what \in {"head", "tail"}
             /\ l[i].what = "tail" => log[i].seg = 1
             /\ l[i].what = "head" => log[i].seg = 0
             /\ log[i].seq = SeqOfPlace(l, i)
    <2>1. PICK x \in BOOLEAN, g \in {0, 1} :
             /\ log[i] = [stream |-> l[i].stream, what |-> l[i].what, chunk |-> x,
                          seg |-> g, seq |-> SeqOfPlace(l, i)]
             /\ x <=> l[i].what \in {"head", "tail"}
             /\ l[i].what = "tail" => g = 1
             /\ l[i].what = "head" => g = 0
        BY <1>2
    <2>2. log[i].chunk = x /\ log[i].stream = l[i].stream /\ log[i].what = l[i].what
          /\ log[i].seg = g /\ log[i].seq = SeqOfPlace(l, i)
        BY <2>1
    <2> QED
        BY <2>1, <2>2
<1>5. ASSUME NEW i \in DOMAIN log
      PROVE  /\ log[i].chunk <=> log[i].what \in {"head", "tail"}
             /\ log[i].what = "head" => log[i].seg = 0 /\ i + 1 \in DOMAIN log /\ log[i + 1].what = "tail"
             /\ log[i].what = "tail" =>
                 /\ log[i].seg = 1 /\ i - 1 \in DOMAIN log /\ log[i - 1].what = "head"
                 /\ log[i - 1].stream = log[i].stream /\ log[i - 1].seq = log[i].seq
             /\ log[i].chunk => log[i].seq > 0
    <2>1. i \in DOMAIN l
        BY <1>3
    <2>2. log[i].chunk <=> log[i].what \in {"head", "tail"}
        BY <2>1, <1>4
    <2>3. CASE log[i].what = "head"
        <3>1. i + 1 \in DOMAIN l /\ l[i + 1].what = "tail"
            BY <2>1, <2>3, <1>4, ScriptFacts
        <3>2. (i + 1) - 1 = i
            BY <2>1, <1>1
        <3>3. SeqOfPlace(l, (i + 1) - 1) = SeqOfPlace(l, i + 1) /\ SeqOfPlace(l, i + 1) > 0
            BY <3>1, SeqOfChunks
        <3>4. SeqOfPlace(l, i) > 0
            BY <3>2, <3>3
        <3> QED
            BY <2>1, <2>2, <2>3, <3>1, <3>4, <1>3, <1>4
    <2>4. CASE log[i].what = "tail"
        <3>1. i - 1 \in DOMAIN l /\ l[i - 1].stream = l[i].stream /\ l[i - 1].what = "head"
            BY <2>1, <2>4, <1>4, ScriptFacts
        <3>2. SeqOfPlace(l, i - 1) = SeqOfPlace(l, i) /\ SeqOfPlace(l, i) > 0
            BY <2>1, <2>4, <1>4, SeqOfChunks
        <3> QED
            BY <2>1, <2>2, <2>4, <3>1, <3>2, <1>3, <1>4
    <2> QED
        BY <2>2, <2>3, <2>4
<1>6. Grows
    <2> SUFFICES ASSUME NEW i \in DOMAIN log, NEW j \in DOMAIN log,
                        i < j, log[i].stream = log[j].stream, log[j].what # "close",
                        ~(log[i].what = "head" /\ j = i + 1),
                        \A m \in i..(j - 1) : ~IsClose(log[i].stream, m)
                 PROVE  log[i].seq < log[j].seq
        BY DEF Grows
    <2>1. i \in DOMAIN l /\ j \in DOMAIN l /\ \A m \in i..(j - 1) : m \in DOMAIN l
        BY <1>1, <1>3
    <2>2. InSession(l, i, j)
        BY <2>1, <1>4 DEF InSession, IsClose
    <2>3. SeqOfPlace(l, i) < SeqOfPlace(l, j)
        BY <2>1, <2>2, <1>4, SeqGrows
    <2> QED
        BY <2>1, <2>3, <1>4
<1> QED
    BY <1>3, <1>5, <1>6 DEF LogOK

LEMMA InInit == ASSUME Init PROVE InInv
<1>1. LogOK
    BY LogInit DEF Init
<1>0. Len(log) \in Nat /\ DOMAIN log = 1..Len(log)
    BY <1>1, Elements DEF LogOK
<1>2. ConnsOK
    BY DEF Init, ConnsOK, NoOrphan
<1>3. ClientsOK
    BY DEF Init, ClientsOK
<1>4. ReaderOK
    <2>1. reader = Ready /\ reader.pc = "ready" /\ reader.at = 0 /\ reader.conn = 0 /\ reader.task = 0
        BY DEF Init, Ready
    <2>2. Ready \in [pc : {"ready", "handle", "reopen", "closed", "first", "record", "joined", "expired"},
                    at : Nat, conn : Nat, task : Nat]
        BY DEF Ready
    <2>3. Len(conns) = 0 /\ connected = FALSE
        BY DEF Init
    <2>4. 0 \in 0..Len(conns)
        BY <2>3
    <2> QED
        BY <2>1, <2>2, <2>3, <2>4 DEF ReaderOK, InHand, AtClose
<1>5. PlaceOK
    BY <1>0 DEF Init, PlaceOK
<1>6. GivenOK /\ DeliveredInSequence
    BY DEF Init, GivenOK, Given, DeliveredInSequence
<1>7. DoneOK
    BY DEF Init, DoneOK
<1>8. AssemblyOK
    BY DEF Init, AssemblyOK
<1> QED
    BY <1>1, <1>2, <1>3, <1>4, <1>5, <1>6, <1>7, <1>8 DEF InInv

-----------------------------------------------------------------------------
(* What the steps of the reader have in common.                            *)

LEMMA LogFacts ==
    ASSUME LogOK
    PROVE  /\ Len(log) \in Nat /\ DOMAIN log = 1..Len(log)
           /\ \A i \in DOMAIN log : /\ log[i].stream \in Stream /\ log[i].seq \in Nat
                                    /\ log[i].chunk \in BOOLEAN
                                    /\ log[i].what \in {"init", "message", "head", "tail", "close"}
<1>1. log \in Seq(Numeral)
    BY DEF LogOK
<1>2. Len(log) \in Nat /\ DOMAIN log = 1..Len(log) /\ \A i \in DOMAIN log : log[i] \in Numeral
    BY <1>1, Elements
<1> QED
    BY <1>2 DEF Numeral

LEMMA ConnFacts ==
    ASSUME ConnsOK
    PROVE  /\ Len(conns) \in Nat /\ DOMAIN conns = 1..Len(conns)
           /\ \A c \in DOMAIN conns : /\ conns[c] \in Connection /\ conns[c].stream \in Stream
                                      /\ conns[c].events \in Seq(Event)
<1>1. conns \in Seq(Connection)
    BY DEF ConnsOK
<1>2. /\ Len(conns) \in Nat /\ DOMAIN conns = 1..Len(conns)
      /\ \A c \in DOMAIN conns : conns[c] \in Connection
    BY <1>1, Elements
<1> QED
    BY <1>2 DEF Connection

LEMMA InFacts ==
    ASSUME InInv
    PROVE  /\ Len(log) \in Nat /\ DOMAIN log = 1..Len(log)
           /\ cursor \in Nat /\ pos \in Nat /\ pos >= 1 /\ pos <= Len(log) + 1 /\ cursor < pos
           /\ InHand => /\ reader.at \in DOMAIN log /\ reader.at \in Nat /\ reader.at = pos - 1
                        /\ cursor < reader.at /\ Key \in Stream /\ Reached = reader.at
           /\ ~InHand => Reached = pos
<1>1. Len(log) \in Nat /\ DOMAIN log = 1..Len(log) /\ \A i \in DOMAIN log : log[i].stream \in Stream
    BY LogFacts DEF InInv
<1>2. cursor \in Nat /\ pos \in 1..(Len(log) + 1) /\ cursor < pos
    BY DEF InInv, PlaceOK
<1>3. ASSUME InHand PROVE reader.at = pos - 1 /\ reader.at > cursor
    BY <1>3 DEF InInv, ReaderOK
<1>4. ASSUME InHand PROVE reader.at \in DOMAIN log /\ reader.at \in Nat
    BY <1>1, <1>2, <1>3, <1>4
<1> QED
    BY <1>1, <1>2, <1>3, <1>4 DEF Reached, Key, Message

\* The connections keep their streams and their events.
SameEvents ==
    /\ conns' \in Seq(Connection) /\ DOMAIN conns' = DOMAIN conns
    /\ \A c \in DOMAIN conns : /\ conns'[c].events = conns[c].events
                               /\ conns'[c].stream = conns[c].stream

\* The client of stream k is forgotten, and the close of its connection is on the way.
Forgets(k) ==
    /\ clients[k] # None /\ clients' = [clients EXCEPT ![k] = None]
    /\ closing' = closing \cup {clients[k].conn}
    /\ SameEvents

\* Nobody was given anything.
FewerGiven == \A k \in Stream, a \in DOMAIN log :
    Given(k, a)' => Given(k, a) /\ clients'[k] = clients[k]

LEMMA Replaced ==
    ASSUME NEW S, NEW q \in Seq(S), NEW c \in DOMAIN q, NEW x \in S
    PROVE  LET r == [q EXCEPT ![c] = x]
           IN /\ r \in Seq(S) /\ DOMAIN r = DOMAIN q /\ Len(r) = Len(q)
              /\ r[c] = x /\ \A d \in DOMAIN q : d # c => r[d] = q[d]
OBVIOUS

LEMMA ConnectionFields ==
    ASSUME NEW e \in Connection
    PROVE  /\ LET f == [e EXCEPT !.cancelled = TRUE]
              IN f \in Connection /\ f.events = e.events /\ f.stream = e.stream
           /\ \A t \in {"ended", "joined"} : LET f == [e EXCEPT !.task = t]
              IN f \in Connection /\ f.events = e.events /\ f.stream = e.stream
BY DEF Connection

Cancels(c) == conns' = [conns EXCEPT ![c].cancelled = TRUE]
JoinsAndCancels(c, d) == conns' = [conns EXCEPT ![c].task = "joined", ![d].cancelled = TRUE]

LEMMA SameCancelled ==
    ASSUME ConnsOK, NEW c \in DOMAIN conns, Cancels(c)
    PROVE  SameEvents
<1> DEFINE x == [conns[c] EXCEPT !.cancelled = TRUE]
<1>1. conns[c] \in Connection /\ conns \in Seq(Connection)
    BY ConnFacts DEF ConnsOK
<1>2. x \in Connection /\ x.events = conns[c].events /\ x.stream = conns[c].stream
    BY <1>1, ConnectionFields
<1>3. conns' = [conns EXCEPT ![c] = x]
    BY DEF Cancels
<1> HIDE DEF x
<1>4. /\ conns' \in Seq(Connection) /\ DOMAIN conns' = DOMAIN conns
      /\ conns'[c] = x /\ \A d \in DOMAIN conns : d # c => conns'[d] = conns[d]
    BY <1>1, <1>2, <1>3, Replaced
<1> QED
    BY <1>2, <1>4 DEF SameEvents

LEMMA SameTask ==
    ASSUME ConnsOK, NEW c \in DOMAIN conns, NEW t \in {"ended", "joined"},
           conns' = [conns EXCEPT ![c].task = t]
    PROVE  SameEvents
<1> DEFINE x == [conns[c] EXCEPT !.task = t]
<1>1. conns[c] \in Connection /\ conns \in Seq(Connection)
    BY ConnFacts DEF ConnsOK
<1>2. x \in Connection /\ x.events = conns[c].events /\ x.stream = conns[c].stream
    BY <1>1, ConnectionFields
<1>3. conns' = [conns EXCEPT ![c] = x]
    OBVIOUS
<1> HIDE DEF x
<1>4. /\ conns' \in Seq(Connection) /\ DOMAIN conns' = DOMAIN conns
      /\ conns'[c] = x /\ \A d \in DOMAIN conns : d # c => conns'[d] = conns[d]
    BY <1>1, <1>2, <1>3, Replaced
<1> QED
    BY <1>2, <1>4 DEF SameEvents

LEMMA SameTwo ==
    ASSUME ConnsOK, NEW c \in DOMAIN conns, NEW d \in DOMAIN conns, JoinsAndCancels(c, d)
    PROVE  SameEvents
<1> DEFINE x == [conns[c] EXCEPT !.task = "joined"]
           q == [conns EXCEPT ![c] = x]
           y == [q[d] EXCEPT !.cancelled = TRUE]
<1>1. conns[c] \in Connection /\ conns \in Seq(Connection)
    BY ConnFacts DEF ConnsOK
<1>2. x \in Connection /\ x.events = conns[c].events /\ x.stream = conns[c].stream
    BY <1>1, ConnectionFields
<1>3. conns' = [q EXCEPT ![d] = y]
    BY DEF JoinsAndCancels
<1> HIDE DEF x
<1>4. /\ q \in Seq(Connection) /\ DOMAIN q = DOMAIN conns
      /\ q[c] = x /\ \A m \in DOMAIN conns : m # c => q[m] = conns[m]
    BY <1>1, <1>2, Replaced
<1> HIDE DEF q
<1>5. q[d] \in Connection
    BY <1>4, Elements
<1>6. y \in Connection /\ y.events = q[d].events /\ y.stream = q[d].stream
    BY <1>5, ConnectionFields
<1> HIDE DEF y
<1>7. /\ conns' \in Seq(Connection) /\ DOMAIN conns' = DOMAIN conns
      /\ conns'[d] = y /\ \A m \in DOMAIN conns : m # d => conns'[m] = q[m]
    BY <1>3, <1>4, <1>6, Replaced
<1> QED
    BY <1>2, <1>4, <1>6, <1>7 DEF SameEvents

LEMMA SameItself == ASSUME ConnsOK, conns' = conns PROVE SameEvents
BY DEF SameEvents, ConnsOK

LEMMA CloseClientForgets ==
    ASSUME InInv, NEW k \in Stream, clients[k] # None, CloseClient(k)
    PROVE  Forgets(k)
<1>1. ConnsOK /\ clients[k].conn \in DOMAIN conns
    BY DEF InInv, ClientsOK
<1>2. Cancels(clients[k].conn)
    BY DEF CloseClient, Cancels
<1>3. SameEvents
    <2>1. PICK d : d = clients[k].conn
        OBVIOUS
    <2> QED
        BY <1>1, <1>2, <2>1, SameCancelled
<1> QED
    BY <1>3 DEF Forgets, CloseClient

\* The connections and the clients, when nothing is told to the app server.
LEMMA ConnsKeep ==
    ASSUME InInv, UNCHANGED log, SameEvents,
           \/ UNCHANGED <<clients, closing>>
           \/ \E k \in Stream : Forgets(k)
    PROVE  ConnsOK' /\ ClientsOK' /\ DeliveredInSequence' /\ FewerGiven
<1>0. ConnsOK /\ ClientsOK /\ DeliveredInSequence /\ NoOrphan
    BY DEF InInv, ConnsOK
<1>1. /\ DOMAIN conns' = DOMAIN conns /\ conns' \in Seq(Connection)
      /\ \A c \in DOMAIN conns : conns'[c].events = conns[c].events /\ conns'[c].stream = conns[c].stream
    BY DEF SameEvents
<1>2. (conns \in Seq(Connection))'
    BY <1>1 DEF Connection, Event
<1>3. (\A c \in DOMAIN conns : EventsOK(conns[c].events))'
    BY <1>0, <1>1 DEF ConnsOK
<1>4. \A c \in DOMAIN conns : NotClosed(c)' <=> NotClosed(c)
    BY <1>1 DEF NotClosed
<1>5. DeliveredInSequence'
    BY <1>0, <1>1 DEF DeliveredInSequence, Whole
<1>6. CASE UNCHANGED <<clients, closing>>
    <2>1. ConnsOK'
        BY <1>0, <1>1, <1>2, <1>3, <1>4, <1>6 DEF ConnsOK, NoOrphan, NotClosed
    <2>2. ClientsOK'
        BY <1>0, <1>1, <1>4, <1>6 DEF ClientsOK
    <2>3. FewerGiven
        BY <1>0, <1>1, <1>6 DEF FewerGiven, Given, ClientsOK
    <2> QED
        BY <2>1, <2>2, <2>3, <1>5
<1>7. ASSUME NEW k \in Stream, Forgets(k)
      PROVE  ConnsOK' /\ ClientsOK' /\ FewerGiven
    <2>1. /\ clients \in [Stream -> Client \cup {None}] /\ clients[k] # None
          /\ clients' = [clients EXCEPT ![k] = None]
          /\ closing' = closing \cup {clients[k].conn}
        BY <1>0, <1>7 DEF Forgets, ClientsOK
    <2>2. /\ clients' \in [Stream -> Client \cup {None}] /\ clients'[k] = None
          /\ \A m \in Stream : m # k => clients'[m] = clients[m]
        BY <2>1
    <2>3. clients[k].conn \in DOMAIN conns /\ NotClosed(clients[k].conn)
          /\ conns[clients[k].conn].stream = k
        BY <2>1, <1>0 DEF ClientsOK
    <2>4. closing' \subseteq DOMAIN conns' /\ \A c \in closing' : NotClosed(c)'
        BY <2>1, <2>3, <1>0, <1>1, <1>4 DEF ConnsOK
    <2>5. NoOrphan'
        <3> SUFFICES ASSUME NEW c \in DOMAIN conns, Last(conns'[c].events) # Closed
                     PROVE  c \in closing' \/ \E m \in Stream : clients'[m] # None /\ clients'[m].conn = c
            BY <1>1 DEF NoOrphan
        <3>1. c \in closing \/ \E m \in Stream : clients[m] # None /\ clients[m].conn = c
            BY <1>0, <1>1 DEF NoOrphan
        <3> QED
            BY <2>1, <2>2, <3>1
    <2>6. ConnsOK'
        BY <2>4, <2>5, <1>2, <1>3 DEF ConnsOK
    <2>7. ClientsOK'
        <3> SUFFICES ASSUME NEW m \in Stream, clients'[m] # None
                     PROVE  /\ clients'[m].conn \in DOMAIN conns' /\ conns'[clients'[m].conn].stream = m
                            /\ clients'[m].conn \notin closing' /\ NotClosed(clients[m].conn)'
            BY <2>2 DEF ClientsOK
        <3>1. m # k /\ clients'[m] = clients[m] /\ clients[m] # None
            BY <2>2
        <3>2. /\ clients[m].conn \in DOMAIN conns /\ conns[clients[m].conn].stream = m
              /\ clients[m].conn \notin closing /\ NotClosed(clients[m].conn)
            BY <3>1, <1>0 DEF ClientsOK
        <3>3. clients[m].conn # clients[k].conn
            BY <3>1, <3>2, <2>3
        <3>4. NotClosed(clients[m].conn)'
            BY <3>1, <3>2, <1>1 DEF NotClosed
        <3> QED
            BY <3>1, <3>2, <3>3, <3>4, <2>1, <1>1
    <2>8. FewerGiven
        <3> SUFFICES ASSUME NEW m \in Stream, NEW a \in DOMAIN log, Given(m, a)'
                     PROVE  Given(m, a) /\ clients'[m] = clients[m]
            BY DEF FewerGiven
        <3>1. clients'[m] # None /\ Last(conns'[clients'[m].conn].events) = Incoming(a)
            BY DEF Given
        <3>2. clients'[m] = clients[m]
            BY <3>1, <2>2
        <3> QED
            BY <3>1, <3>2, <1>0, <1>1 DEF Given, ClientsOK
    <2> QED
        BY <2>6, <2>7, <2>8
<1> QED
    BY <1>5, <1>6, <1>7

LEMMA GivenAtKeeps ==
    ASSUME InInv, UNCHANGED <<log, cursor>>, Reached' \in Nat,
           connected' => (connected /\ Reached' <= Reached) \/ Reached' <= cursor + 1,
           NEW k \in Stream, NEW a \in DOMAIN log, Given(k, a), clients'[k] = clients[k]
    PROVE  GivenAt(k, a)'
<1>2. GivenAt(k, a)
    BY DEF InInv, GivenOK
<1>3. Chunks(cursor + 1, a - 1)' /\ Clear(k, a, cursor + 1)'
    BY <1>2 DEF GivenAt, Chunks, Clear, Whole
<1>4. ASSUME connected' PROVE Clear(k, a, Reached)'
    <2>0. PICK r \in Nat, r2 \in Nat, c \in Nat : r = Reached /\ r2 = Reached' /\ c = cursor
        BY InFacts
    <2>1. (connected /\ r2 <= r) \/ r2 <= c + 1
        BY <1>4, <2>0
    <2>4. a \in Nat
        BY InFacts
    <2>5. ASSUME NEW m \in (a + 1)..(r2 - 1) PROVE m \notin Whole(k)
        <3>1. CASE connected /\ r2 <= r
            <4>1. m \in (a + 1)..(r - 1)
                BY <2>4, <3>1
            <4> QED
                BY <2>0, <3>1, <4>1, <1>2 DEF GivenAt, Clear
        <3>2. CASE r2 <= c + 1
            <4>1. m \in (a + 1)..((c + 1) - 1)
                BY <2>4, <3>2
            <4> QED
                BY <2>0, <4>1, <1>2 DEF GivenAt, Clear
        <3> QED
            BY <2>1, <3>1, <3>2
    <2> QED
        BY <2>0, <2>5 DEF Clear, Whole
<1> QED
    BY <1>2, <1>3, <1>4 DEF GivenAt

LEMMA GivenKeeps ==
    ASSUME InInv, UNCHANGED <<log, cursor>>, FewerGiven, Reached' \in Nat,
           connected' => (connected /\ Reached' <= Reached) \/ Reached' <= cursor + 1
    PROVE  GivenOK'
<1> SUFFICES ASSUME NEW k \in Stream, NEW a \in DOMAIN log, Given(k, a)' PROVE GivenAt(k, a)'
    BY DEF GivenOK
<1>1. Given(k, a) /\ clients'[k] = clients[k]
    BY DEF FewerGiven
<1> QED
    BY <1>1, GivenAtKeeps

LEMMA DoneKeeps ==
    ASSUME InInv, UNCHANGED <<log, cursor>>, chunkDone' \in [Stream -> Nat],
           \A k \in Stream : chunkDone'[k] \in {chunkDone[k], 0}
    PROVE  DoneOK'
<1> SUFFICES ASSUME NEW k \in Stream, chunkDone'[k] # 0
             PROVE  \E i \in 1..cursor :
                       /\ log[i].stream = k /\ log[i].what = "tail" /\ log[i].seq = chunkDone'[k]
                       /\ \A m \in i..cursor : ~IsClose(k, m)
    BY DEF DoneOK, IsClose
<1> QED
    BY DEF InInv, DoneOK

LEMMA NoTailFirst ==
    ASSUME InInv, cursor + 1 \in DOMAIN log PROVE log[cursor + 1].what # "tail"
<1>1. cursor \in Nat /\ DOMAIN log = 1..Len(log) /\ Len(log) \in Nat
    BY InFacts
<1> SUFFICES ASSUME log[cursor + 1].what = "tail" PROVE FALSE
    OBVIOUS
<1>2. (cursor + 1) - 1 \in DOMAIN log /\ log[(cursor + 1) - 1].what = "head"
    BY DEF InInv, LogOK
<1>3. cursor \in DOMAIN log /\ log[cursor].what = "head" /\ cursor > 0
    BY <1>1, <1>2
<1> QED
    BY <1>3 DEF InInv, PlaceOK

\* AssemblyOK of the next state.
LEMMA AssemblyFrom ==
    ASSUME InInv, UNCHANGED log,
           assembly' # None => \E h \in DOMAIN log : Stands(h)',
           \A p \in DOMAIN log, k \in Stream, a \in DOMAIN log :
              (/\ p = pos' /\ k = log[p].stream /\ connected' /\ ~InHand' /\ log[p].what = "tail"
               /\ Given(k, a)' /\ a < p)
              => assembly' # None /\ assembly'.stream = k /\ assembly'.seq = log[p].seq,
           pos' \in Nat, pos' >= 1
    PROVE  AssemblyOK'
<1>1. (assembly # None => \E h \in DOMAIN log : Stands(h))'
    OBVIOUS
<1>2. PICK p \in Nat : p = pos' /\ p >= 1
    OBVIOUS
<1>3. ASSUME connected', ~InHand', p <= Len(log), log[p].what = "tail",
             NEW a \in DOMAIN log, Given(log[p].stream, a)', a < p
      PROVE  assembly' # None /\ assembly'.stream = log[p].stream /\ assembly'.seq = log[p].seq
    <2>1. p \in DOMAIN log /\ log[p].stream \in Stream
        BY <1>2, <1>3, LogFacts DEF InInv
    <2>2. PICK k \in Stream : k = log[p].stream
        BY <2>1
    <2>3. Given(k, a)'
        BY <2>2, <1>3 DEF Given
    <2> QED
        BY <2>1, <2>2, <2>3, <1>2, <1>3
<1>4. (connected /\ ~InHand /\ pos <= Len(log) =>
        (log[pos].what = "tail" =>
            \A a \in DOMAIN log : Given(log[pos].stream, a) /\ a < pos =>
                /\ assembly # None /\ assembly.stream = log[pos].stream
                /\ assembly.seq = log[pos].seq))'
    <2> SUFFICES ASSUME connected', ~InHand', p <= Len(log), log[p].what = "tail",
                        NEW a \in DOMAIN log, (Given(log[pos].stream, a))', a < p
                 PROVE  assembly' # None /\ assembly'.stream = log[p].stream /\ assembly'.seq = log[p].seq
        BY <1>2
    <2>1. Given(log[p].stream, a)'
        BY <1>2 DEF Given
    <2> QED
        BY <2>1, <1>3
<1> QED
    BY <1>1, <1>4 DEF AssemblyOK

LEMMA AssemblyKeeps ==
    ASSUME InInv, UNCHANGED <<log, cursor>>, FewerGiven,
           assembly' # None => assembly' = assembly, pos' \in Nat, pos' >= 1,
           connected' => (connected /\ pos' = pos) \/ pos' = cursor + 1,
           connected' /\ ~InHand' =>
              \/ pos' = cursor + 1
              \/ /\ ~InHand /\ pos' = pos
                 /\ assembly' # assembly => \E k \in Stream : clients'[k] = None /\ assembly.stream = k
    PROVE  AssemblyOK'
<1>1. ASSUME assembly' # None PROVE \E h \in DOMAIN log : Stands(h)'
    <2>1. PICK h \in DOMAIN log : Stands(h)
        BY <1>1 DEF InInv, AssemblyOK
    <2>2. h \in Nat /\ cursor \in Nat /\ log[h].stream \in Stream
        BY InFacts, LogFacts DEF InInv
    <2>3. connected' => h + 1 >= pos'
        BY <2>1, <2>2 DEF Stands
    <2>4. \A a \in DOMAIN log : Given(log[h].stream, a)' => Clear(log[h].stream, a, h)'
        BY <2>1, <2>2 DEF Stands, FewerGiven, Clear, Whole
    <2>5. /\ log[h].what = "head" /\ cursor < h
          /\ assembly = [stream |-> log[h].stream, seq |-> log[h].seq, next |-> 1]
        BY <2>1 DEF Stands
    <2>6. Chunks(cursor + 1, h)'
        BY <2>1 DEF Stands, Chunks
    <2>7. Stands(h)'
        BY <2>3, <2>4, <2>5, <2>6, <1>1 DEF Stands
    <2> QED
        BY <2>7
<1>2. ASSUME NEW p \in DOMAIN log, p = pos', NEW k \in Stream, k = log[p].stream,
             connected', ~InHand', log[p].what = "tail",
             NEW a \in DOMAIN log, Given(k, a)', a < p
      PROVE  assembly' # None /\ assembly'.stream = k /\ assembly'.seq = log[p].seq
    <2>1. CASE p = cursor + 1
        BY <2>1, <1>2, NoTailFirst
    <2>2. CASE /\ ~InHand /\ p = pos /\ connected
               /\ assembly' # assembly => \E m \in Stream : clients'[m] = None /\ assembly.stream = m
        <3>1. pos <= Len(log)
            BY <2>2, InFacts
        <3>2. Given(k, a) /\ clients'[k] # None
            BY <1>2 DEF FewerGiven, Given
        <3>3. assembly # None /\ assembly.stream = k /\ assembly.seq = log[p].seq
            BY <3>1, <3>2, <2>2, <1>2 DEF InInv, AssemblyOK
        <3>4. assembly' = assembly
            BY <3>2, <3>3, <2>2
        <3> QED
            BY <3>3, <3>4
    <2> QED
        BY <2>1, <2>2, <1>2
<1> QED
    BY <1>1, <1>2, AssemblyFrom

LEMMA LogKeeps == ASSUME LogOK, UNCHANGED log PROVE LogOK'
BY DEF LogOK, Grows, IsClose

\* Places in the log, when the reader has the same envelope in hand, or none.
LEMMA PlaceKeeps ==
    ASSUME InInv, UNCHANGED <<log, cursor, pos>>, connected' => connected /\ Reached' = Reached
    PROVE  PlaceOK'
BY DEF InInv, PlaceOK, Chunks

\* The reader stays where it is.
LEMMA ReaderKeeps ==
    ASSUME InInv, UNCHANGED <<log, cursor, pos, reader, connected, clients, assembly>>, FewerGiven,
           conns' \in Seq(Connection), DOMAIN conns' = DOMAIN conns,
           \A c \in DOMAIN conns : conns'[c].stream = conns[c].stream,
           \A k \in Stream : clients[k] # None =>
               conns'[clients[k].conn].events = conns[clients[k].conn].events
    PROVE  ReaderOK'
<1>1. Len(conns') = Len(conns)
    <2>1. Len(conns) \in Nat /\ DOMAIN conns = 1..Len(conns)
        BY ConnFacts DEF InInv
    <2>2. Len(conns') \in Nat /\ DOMAIN conns' = 1..Len(conns')
        BY Elements
    <2> QED
        BY <2>1, <2>2
<1>2. ReaderOK
    BY DEF InInv
<1>3. /\ (InHand' <=> InHand) /\ (AtClose' <=> AtClose) /\ Message' = Message /\ Key' = Key
      /\ (InHand => Key \in Stream)
    BY InFacts DEF InHand, AtClose, Message, Key
<1>4. reader.pc = "first" => (conns[clients[Key].conn].events = <<Opened>>)'
    BY <1>2, <1>3 DEF ReaderOK, InHand
<1>5. reader.pc = "record" => \A a \in DOMAIN log : Given(Key, a)' => reader.at <= a
    <2> SUFFICES ASSUME reader.pc = "record", NEW a \in DOMAIN log, Given(Key, a)'
                 PROVE  reader.at <= a
        OBVIOUS
    <2>1. Key \in Stream
        BY <1>3 DEF InHand
    <2>2. PICK k \in Stream : k = Key
        BY <2>1
    <2>3. Given(k, a)'
        BY <2>2, <1>3 DEF Given
    <2>4. Given(k, a)
        BY <2>3 DEF FewerGiven
    <2> QED
        BY <2>2, <2>4, <1>2 DEF ReaderOK
<1>6. AtClose => reader.conn \in DOMAIN conns
    BY <1>2 DEF ReaderOK
<1> QED
    BY <1>1, <1>2, <1>3, <1>4, <1>5, <1>6 DEF ReaderOK, Given

-----------------------------------------------------------------------------
(* Every step keeps the inbound part.                                      *)

LEMMA InUnchanged == ASSUME InInv, UNCHANGED <<inbound, connected>> PROVE InInv'
<1>1. UNCHANGED <<log, pos, cursor, reader, clients, conns, closing, chunkDone, assembly, connected>>
    BY DEF inbound
<1>2. LogOK' /\ ConnsOK' /\ ClientsOK'
    BY <1>1 DEF InInv, LogOK, Grows, IsClose, ConnsOK, ClientsOK, NoOrphan, NotClosed, Connection, Event
<1>3. ReaderOK' /\ PlaceOK'
    BY <1>1 DEF InInv, ReaderOK, PlaceOK, InHand, AtClose, Message, Key, Given, Chunks, Reached
<1>4. GivenOK' /\ DoneOK' /\ AssemblyOK' /\ DeliveredInSequence'
    BY <1>1 DEF InInv, GivenOK, GivenAt, DoneOK, AssemblyOK, DeliveredInSequence, Given, Clear, Chunks,
                Whole, Stands, Reached, InHand, IsClose
<1> QED
    BY <1>2, <1>3, <1>4 DEF InInv

LEMMA ReadyFields ==
    /\ Ready.pc = "ready" /\ Ready.at = 0 /\ Ready.conn = 0 /\ Ready.task = 0
    /\ Ready \in [pc : {"ready", "handle", "reopen", "closed", "first", "record", "joined", "expired"},
                  at : Nat, conn : Nat, task : Nat]
BY DEF Ready

LEMMA ReadyOK ==
    ASSUME reader' = Ready, connected' \in BOOLEAN, Len(conns') \in Nat PROVE ReaderOK'
<1>1. 0 \in 0..Len(conns')
    OBVIOUS
<1>2. ~InHand' /\ ~AtClose'
    BY ReadyFields DEF InHand, AtClose
<1> QED
    BY <1>1, <1>2, ReadyFields DEF ReaderOK

LEMMA InConnect == ASSUME InInv, Connect PROVE InInv'
<1>1. /\ connected' = TRUE /\ connected = FALSE /\ pos' = cursor + 1
      /\ UNCHANGED <<log, cursor, reader, clients, conns, closing, chunkDone, assembly>>
    BY DEF Connect, InInv, ReaderOK
<1>2. ConnsOK' /\ ClientsOK' /\ DeliveredInSequence' /\ FewerGiven
    BY <1>1, ConnsKeep, SameItself DEF InInv
<1>3. reader = Ready /\ reader' = Ready
    BY <1>1 DEF InInv, ReaderOK
<1>4. ~InHand /\ ~InHand' /\ Reached' = cursor + 1 /\ cursor \in Nat
    BY <1>1, <1>3, ReadyFields, InFacts DEF InHand, Reached
<1>5. GivenOK'
    BY <1>1, <1>2, <1>4, GivenKeeps
<1>6. AssemblyOK'
    BY <1>1, <1>2, <1>4, AssemblyKeeps
<1>7. DoneOK' /\ LogOK'
    BY <1>1, DoneKeeps, LogKeeps DEF InInv, DoneOK
<1>8. PlaceOK'
    <2>1. pos' \in 1..(Len(log) + 1) /\ cursor < pos'
        BY <1>1, InFacts
    <2>2. Chunks(cursor + 1, Reached - 1)'
        BY <1>1, <1>4 DEF Chunks
    <2> QED
        BY <2>1, <2>2, <1>1 DEF InInv, PlaceOK
<1>9. ReaderOK'
    BY <1>1, <1>3, ReadyOK, ConnFacts DEF InInv
<1> QED
    BY <1>2, <1>5, <1>6, <1>7, <1>8, <1>9 DEF InInv

\* The workers are gone.
LEMMA InStop ==
    ASSUME InInv, Stop, UNCHANGED <<log, pos, cursor, chunkDone, assembly>>, SameEvents,
           UNCHANGED <<clients, closing>> \/ \E k \in Stream : Forgets(k)
    PROVE  InInv'
<1>1. connected' = FALSE /\ reader' = Ready
    BY DEF Stop
<1>2. ConnsOK' /\ ClientsOK' /\ DeliveredInSequence' /\ FewerGiven
    BY ConnsKeep
<1>3. ~InHand' /\ Reached' = pos /\ pos \in Nat /\ pos >= 1
    BY <1>1, ReadyFields, InFacts DEF InHand, Reached
<1>4. GivenOK'
    BY <1>1, <1>2, <1>3, GivenKeeps
<1>5. AssemblyOK'
    BY <1>1, <1>2, <1>3, AssemblyKeeps
<1>6. DoneOK' /\ LogOK'
    BY DoneKeeps, LogKeeps DEF InInv, DoneOK
<1>7. PlaceOK'
    BY <1>1, PlaceKeeps
<1>8. ReaderOK'
    <2>1. Len(conns') \in Nat
        BY Elements DEF SameEvents
    <2> QED
        BY <1>1, <2>1, ReadyOK
<1> QED
    BY <1>2, <1>4, <1>5, <1>6, <1>7, <1>8 DEF InInv

LEMMA InStops == ASSUME InInv, Drop \/ ForwardTimesOut \/ FirstTimesOut PROVE InInv'
<1>1. CASE Drop \/ ForwardTimesOut
    BY <1>1, InStop, SameItself DEF Drop, ForwardTimesOut, InInv
<1>2. CASE FirstTimesOut
    <2>1. reader.pc = "first" /\ CloseClient(Key) /\ Stop
          /\ UNCHANGED <<log, pos, cursor, chunkDone, assembly>>
        BY <1>2 DEF FirstTimesOut, AbandonClient
    <2>2. Key \in Stream /\ clients[Key] # None
        BY <2>1, InFacts DEF InHand, InInv, ReaderOK
    <2>3. Forgets(Key)
        BY <2>1, <2>2, CloseClientForgets
    <2> QED
        BY <2>1, <2>2, <2>3, InStop DEF Forgets
<1> QED
    BY <1>1, <1>2

\* An outbound task is cancelled or ends.
LEMMA InTask ==
    ASSUME InInv, SameEvents,
           UNCHANGED <<log, pos, cursor, reader, clients, closing, chunkDone, assembly, connected>>
    PROVE  InInv'
<1>1. ConnsOK' /\ ClientsOK' /\ DeliveredInSequence' /\ FewerGiven
    BY ConnsKeep
<1>2. (InHand' <=> InHand) /\ Reached' = Reached /\ Reached \in Nat /\ pos \in Nat /\ pos >= 1
    BY InFacts DEF InHand, Reached
<1>3. GivenOK'
    BY <1>1, <1>2, GivenKeeps
<1>4. AssemblyOK'
    BY <1>1, <1>2, AssemblyKeeps
<1>5. DoneOK' /\ LogOK'
    BY DoneKeeps, LogKeeps DEF InInv, DoneOK
<1>6. PlaceOK'
    BY <1>2, PlaceKeeps
<1>7. ReaderOK'
    BY <1>1, ReaderKeeps DEF SameEvents, InInv, ClientsOK
<1> QED
    BY <1>1, <1>3, <1>4, <1>5, <1>6, <1>7 DEF InInv

\* Numbers of the envelope in hand and of what its client was given last.
LEMMA NewerInHand ==
    ASSUME InInv, InHand, Message.what # "close", NEW a \in DOMAIN log, Given(Key, a), a < reader.at
    PROVE  log[a].seq < Message.seq
<1>1. PICK k \in Stream, t \in DOMAIN log : k = Key /\ t = reader.at
    BY InFacts
<1>2. log[t].stream = k /\ log[t] = Message /\ Given(k, a) /\ a < t
    BY <1>1 DEF Key, Message
<1>3. connected
    BY ReadyFields DEF InInv, ReaderOK, InHand
<1>4. log[a].stream = k /\ log[a].what \notin {"head", "close"} /\ Clear(k, a, t)
    BY <1>1, <1>2, <1>3, InFacts DEF InInv, GivenOK, GivenAt
<1>5. ASSUME NEW m \in a..(t - 1) PROVE ~IsClose(k, m)
    <2>1. CASE m = a
        BY <2>1, <1>4 DEF IsClose
    <2>2. CASE m # a
        <3>1. m \in (a + 1)..(t - 1) /\ m \in DOMAIN log
            BY <2>2, InFacts
        <3>2. m \notin Whole(k)
            BY <3>1, <1>4 DEF Clear
        <3> QED
            BY <3>1, <3>2 DEF Whole, IsClose
    <2> QED
        BY <2>1, <2>2
<1>6. Grows
    BY DEF InInv, LogOK
<1> QED
    BY <1>2, <1>4, <1>5, <1>6 DEF Grows

LEMMA OlderInHand ==
    ASSUME InInv, InHand, NEW a \in DOMAIN log, Given(Key, a), reader.at <= a
    PROVE  Message.seq <= log[a].seq
<1>1. PICK k \in Stream, t \in DOMAIN log : k = Key /\ t = reader.at /\ cursor < t
    BY InFacts
<1>2. log[t].stream = k /\ log[t] = Message /\ Given(k, a) /\ t <= a
    BY <1>1 DEF Key, Message
<1>3. log[a].stream = k /\ log[a].what \notin {"head", "close"} /\ Chunks(cursor + 1, a - 1)
    BY <1>2 DEF InInv, GivenOK, GivenAt
<1>4. CASE t = a
    BY <1>2, <1>4, LogFacts DEF InInv
<1>5. CASE t < a
    <2>1. log[t].what # "head"
        BY <1>1 DEF InInv, ReaderOK
    <2>2. ASSUME NEW m \in t..(a - 1) PROVE ~IsClose(k, m)
        <3>1. m \in (cursor + 1)..(a - 1) /\ m \in DOMAIN log
            BY <1>1, InFacts
        <3>2. log[m].chunk
            BY <3>1, <1>3 DEF Chunks
        <3> QED
            BY <3>1, <3>2 DEF InInv, LogOK, IsClose
    <2>3. Grows
        BY DEF InInv, LogOK
    <2>4. log[t].seq < log[a].seq
        BY <2>1, <2>2, <2>3, <1>2, <1>3, <1>5 DEF Grows
    <2> QED
        BY <2>4, <1>2, LogFacts DEF InInv
<1> QED
    BY <1>2, <1>4, <1>5, InFacts

\* A step that moves the reader on, with the envelope still in hand.
LEMMA InMoves ==
    ASSUME InInv, InHand, InHand', reader'.at = reader.at,
           UNCHANGED <<log, pos, cursor, chunkDone, assembly, connected>>, SameEvents,
           UNCHANGED <<clients, closing>> \/ \E k \in Stream : Forgets(k),
           ReaderOK'
    PROVE  InInv'
<1>1. ConnsOK' /\ ClientsOK' /\ DeliveredInSequence' /\ FewerGiven
    BY ConnsKeep
<1>2. Reached' = Reached /\ Reached \in Nat /\ pos \in Nat /\ pos >= 1
    BY InFacts DEF Reached
<1>3. GivenOK'
    BY <1>1, <1>2, GivenKeeps
<1>4. AssemblyOK'
    BY <1>1, <1>2, AssemblyKeeps
<1>5. DoneOK' /\ LogOK'
    BY DoneKeeps, LogKeeps DEF InInv, DoneOK
<1>6. PlaceOK'
    BY <1>2, PlaceKeeps
<1> QED
    BY <1>1, <1>3, <1>4, <1>5, <1>6 DEF InInv

ReaderType == [pc : {"ready", "handle", "reopen", "closed", "first", "record", "joined", "expired"},
               at : Nat, conn : Nat, task : Nat]

LEMMA Moved ==
    ASSUME ReaderOK, NEW p \in {"ready", "handle", "reopen", "closed", "first", "record", "joined", "expired"}
    PROVE  LET r == [reader EXCEPT !.pc = p]
           IN r \in ReaderType /\ r.pc = p /\ r.at = reader.at /\ r.conn = reader.conn /\ r.task = reader.task
<1>1. reader \in ReaderType
    BY DEF ReaderOK, ReaderType
<1> QED
    BY <1>1 DEF ReaderType

\* The reader still has its envelope, at a place pc of its own.
LEMMA ReaderMoved ==
    ASSUME InInv, InHand, UNCHANGED <<log, pos, cursor, connected, assembly>>,
           reader' \in ReaderType, reader'.at = reader.at, InHand',
           reader'.conn \in 0..Len(conns'), reader'.task \in 0..Len(conns'),
           reader'.pc \in {"reopen", "closed"} => reader'.conn \in DOMAIN conns',
           reader'.pc \in {"reopen", "closed"} => clients'[Key] = None,
           reader'.pc = "first" => /\ Message.what = "init" /\ clients'[Key] # None
                                   /\ conns'[clients'[Key].conn].events = <<Opened>>,
           reader'.pc = "record" => \A a \in DOMAIN log : Given(Key, a)' => reader.at <= a
    PROVE  ReaderOK'
<1>1. Message' = Message /\ Key' = Key
    BY DEF Message, Key
<1>2. connected \in BOOLEAN /\ connected
    BY ReadyFields DEF InInv, ReaderOK, InHand
<1>3. ~AtClose'
    BY DEF InHand, AtClose
<1>4. reader.at = pos - 1 /\ reader.at > cursor /\ log[reader.at].what # "head" /\ assembly = None
    BY DEF InInv, ReaderOK
<1>5. (reader.pc = "record" => \A a \in DOMAIN log : Given(Key, a) => reader.at <= a)'
    BY <1>1 DEF Given
<1> QED
    BY <1>1, <1>2, <1>3, <1>4, <1>5 DEF ReaderOK, ReaderType

LEMMA InHandleSkip == ASSUME InInv, HandleSkip PROVE InInv'
<1>1. /\ reader.pc = "handle" /\ reader' = [reader EXCEPT !.pc = "record"]
      /\ UNCHANGED <<log, pos, cursor, clients, conns, closing, chunkDone, assembly, connected>>
    BY DEF HandleSkip, Goto
<1>2. InHand /\ ReaderOK /\ ConnsOK
    BY <1>1 DEF InHand, InInv
<1>3. /\ reader' \in ReaderType /\ reader'.pc = "record" /\ reader'.at = reader.at
      /\ reader'.conn = reader.conn /\ reader'.task = reader.task
    BY <1>1, <1>2, Moved
<1>4. InHand'
    BY <1>3 DEF InHand
<1>5. \A a \in DOMAIN log : Given(Key, a)' => reader.at <= a
    <2> SUFFICES ASSUME NEW a \in DOMAIN log, Given(Key, a) PROVE reader.at <= a
        BY <1>1, <1>3 DEF Given, Key, Message
    <2>1. clients[Key] # None
        BY DEF Given
    <2>2. Duplicate
        <3>1. CASE Duplicate
            BY <3>1
        <3>2. CASE Message.what # "init" /\ clients[Key] = None
            BY <3>2, <2>1
        <3> QED
            BY <3>1, <3>2 DEF HandleSkip
    <2>3. clients[Key].last = log[a].seq /\ clients[Key].last >= Message.seq /\ Message.what # "close"
        BY <2>2, <1>2, InFacts DEF InInv, GivenOK, GivenAt, Duplicate, IsMessage
    <2>4. ~(a < reader.at)
        <3>1. ASSUME a < reader.at PROVE FALSE
            <4>1. log[a].seq < Message.seq
                BY <3>1, <2>3, <1>2, NewerInHand
            <4>2. log[a].seq \in Nat /\ Message.seq \in Nat
                BY <1>2, InFacts, LogFacts DEF InInv, Message
            <4> QED
                BY <4>1, <4>2, <2>3
        <3> QED
            BY <3>1
    <2> QED
        BY <2>4, <1>2, InFacts
<1>6. ReaderOK'
    BY <1>1, <1>2, <1>3, <1>4, <1>5, ReaderMoved DEF ReaderOK
<1> QED
    BY <1>1, <1>2, <1>3, <1>4, <1>6, InMoves, SameItself

LEMMA InHandleClose == ASSUME InInv, HandleClose PROVE InInv'
<1>1. /\ reader.pc = "handle" /\ clients[Key] # None /\ CloseClient(Key)
      /\ UNCHANGED <<log, pos, cursor, chunkDone, assembly, connected>>
    BY DEF HandleClose
<1>2. InHand /\ ReaderOK /\ ConnsOK /\ Key \in Stream
    BY <1>1, InFacts DEF InHand, InInv
<1>3. Forgets(Key)
    BY <1>1, <1>2, CloseClientForgets
<1>4. clients[Key].conn \in DOMAIN conns /\ clients \in [Stream -> Client \cup {None}]
    BY <1>1, <1>2 DEF InInv, ClientsOK
<1>5. /\ DOMAIN conns' = DOMAIN conns /\ DOMAIN conns = 1..Len(conns) /\ DOMAIN conns' = 1..Len(conns')
      /\ Len(conns) \in Nat /\ Len(conns') \in Nat
    BY <1>2, <1>3, ConnFacts, Elements DEF Forgets, SameEvents
<1>6. Len(conns') = Len(conns)
    BY <1>5
<1>7. PICK p \in {"reopen", "closed"} : reader' = [reader EXCEPT !.conn = clients[Key].conn, !.pc = p]
    BY DEF HandleClose
<1>8. /\ reader' \in ReaderType /\ reader'.pc = p /\ reader'.at = reader.at
      /\ reader'.conn = clients[Key].conn /\ reader'.task = reader.task
    <2>1. reader \in ReaderType /\ clients[Key].conn \in Nat
        BY <1>2, <1>4, <1>5 DEF ReaderOK, ReaderType
    <2>2. PICK d \in Nat : d = clients[Key].conn
        BY <2>1
    <2>3. reader' = [reader EXCEPT !.conn = d, !.pc = p]
        BY <2>2, <1>7
    <2> QED
        BY <2>1, <2>2, <2>3 DEF ReaderType
<1>9. InHand' /\ reader'.conn \in 0..Len(conns') /\ reader'.task \in 0..Len(conns')
    BY <1>2, <1>4, <1>5, <1>6, <1>8 DEF InHand, ReaderOK
<1>10. clients'[Key] = None
    BY <1>2, <1>3, <1>4 DEF Forgets
<1>11. ReaderOK'
    BY <1>1, <1>2, <1>4, <1>5, <1>8, <1>9, <1>10, ReaderMoved
<1> QED
    BY <1>1, <1>2, <1>3, <1>8, <1>9, <1>11, InMoves DEF Forgets

\* The stream k has no client: its reassembly is forgotten.
LEMMA Invalidated ==
    ASSUME InInv, NEW k \in Stream, Invalidate(k)
    PROVE  /\ chunkDone' \in [Stream -> Nat] /\ \A m \in Stream : chunkDone'[m] \in {chunkDone[m], 0}
           /\ assembly' # None => assembly' = assembly
           /\ assembly' # assembly => assembly.stream = k
BY DEF InInv, DoneOK, Invalidate

\* A step between two envelopes that forgets no more than the reassembly of streams
\* without a client.
LEMMA InBetween ==
    ASSUME InInv, ~InHand, ~InHand', connected, UNCHANGED <<log, pos, cursor, connected>>, SameEvents,
           UNCHANGED <<clients, closing>> \/ \E k \in Stream : Forgets(k),
           chunkDone' \in [Stream -> Nat], \A m \in Stream : chunkDone'[m] \in {chunkDone[m], 0},
           assembly' # None => assembly' = assembly,
           assembly' # assembly => \E k \in Stream : clients'[k] = None /\ assembly.stream = k,
           ReaderOK'
    PROVE  InInv'
<1>1. ConnsOK' /\ ClientsOK' /\ DeliveredInSequence' /\ FewerGiven
    BY ConnsKeep
<1>2. Reached' = pos /\ Reached = pos /\ pos \in Nat /\ pos >= 1
    BY InFacts DEF Reached
<1>3. GivenOK'
    BY <1>1, <1>2, GivenKeeps
<1>4. AssemblyOK'
    BY <1>1, <1>2, AssemblyKeeps
<1>5. DoneOK' /\ LogOK'
    BY DoneKeeps, LogKeeps DEF InInv
<1>6. PlaceOK'
    BY <1>2, PlaceKeeps
<1> QED
    BY <1>1, <1>3, <1>4, <1>5, <1>6 DEF InInv

LEMMA InCloseAwaited == ASSUME InInv, CloseAwaited PROVE InInv'
<1>1. UNCHANGED <<log, pos, cursor, clients, conns, closing, connected>>
    BY DEF CloseAwaited
<1>2. SameEvents /\ ReaderOK /\ ConnsOK
    BY <1>1, SameItself DEF InInv
<1>3. CASE AtClose
    <2>1. reader' = Ready /\ Invalidate(conns[reader.conn].stream)
        BY <1>3 DEF CloseAwaited, AtClose
    <2>2. reader.conn \in DOMAIN conns /\ clients[conns[reader.conn].stream] = None
          /\ ~InHand /\ connected /\ connected \in BOOLEAN
        BY <1>2, <1>3, ReadyFields DEF ReaderOK, AtClose, InHand
    <2>3. PICK k \in Stream : k = conns[reader.conn].stream
        BY <2>2, <1>2, ConnFacts
    <2>4. Invalidate(k) /\ clients'[k] = None
        BY <2>1, <2>2, <2>3, <1>1
    <2>5. ~InHand'
        BY <2>1, ReadyFields DEF InHand
    <2>6. ReaderOK'
        BY <2>1, <2>2, <1>1, <1>2, ReadyOK, ConnFacts
    <2> QED
        BY <2>2, <2>4, <2>5, <2>6, <1>1, <1>2, Invalidated, InBetween
<1>4. CASE ~AtClose
    <2>1. PICK p \in {"handle", "record"} :
              /\ reader' = [reader EXCEPT !.pc = p] /\ UNCHANGED <<chunkDone, assembly>>
        BY <1>4 DEF CloseAwaited, AtClose, Goto
    <2>2. reader.pc \in {"reopen", "closed"}
        BY <1>4 DEF CloseAwaited, AtClose
    <2>3. InHand /\ clients[Key] = None
        BY <2>2, <1>2 DEF InHand, ReaderOK
    <2>4. /\ reader' \in ReaderType /\ reader'.pc = p /\ reader'.at = reader.at
          /\ reader'.conn = reader.conn /\ reader'.task = reader.task
        BY <2>1, <1>2, Moved
    <2>5. InHand'
        BY <2>4 DEF InHand
    <2>6. \A a \in DOMAIN log : Given(Key, a)' => reader.at <= a
        BY <2>3, <2>4, <1>1 DEF Given, Key, Message
    <2>7. ReaderOK'
        BY <2>1, <2>3, <2>4, <2>5, <2>6, <1>1, <1>2, ReaderMoved DEF ReaderOK
    <2> QED
        BY <2>1, <2>3, <2>4, <2>5, <2>7, <1>1, <1>2, InMoves
<1> QED
    BY <1>3, <1>4

ReaderAt(r, p, a, d, t) == r \in ReaderType /\ r.pc = p /\ r.at = a /\ r.conn = d /\ r.task = t

LEMMA ReadyMoved ==
    ASSUME NEW d \in Nat, NEW t \in Nat
    PROVE  /\ ReaderAt([Ready EXCEPT !.pc = "expired", !.conn = d], "expired", 0, d, 0)
           /\ ReaderAt([Ready EXCEPT !.pc = "joined", !.conn = d, !.task = t], "joined", 0, d, t)
BY DEF Ready, ReaderAt, ReaderType

\* A client is closed between two envelopes.
LEMMA AtCloseOK ==
    ASSUME InInv, connected, ~InHand, NEW k \in Stream, Forgets(k), UNCHANGED <<log, pos, cursor, connected, assembly>>,
           NEW p \in {"joined", "expired"}, NEW t \in 0..Len(conns),
           reader' \in ReaderType, reader'.pc = p, reader'.at = 0, reader'.task = t,
           reader'.conn = clients[k].conn
    PROVE  ReaderOK' /\ ~InHand'
<1>1. /\ clients[k] # None /\ clients[k].conn \in DOMAIN conns /\ conns[clients[k].conn].stream = k
      /\ clients \in [Stream -> Client \cup {None}]
    BY DEF InInv, ClientsOK, Forgets
<1>2. /\ DOMAIN conns' = DOMAIN conns /\ DOMAIN conns = 1..Len(conns) /\ DOMAIN conns' = 1..Len(conns')
      /\ Len(conns) \in Nat /\ Len(conns') \in Nat
    BY ConnFacts, Elements DEF Forgets, SameEvents, InInv
<1>3. PICK d \in DOMAIN conns : d = clients[k].conn
    BY <1>1
<1>5. reader'.conn = d
    BY <1>3
<1>6. ~InHand' /\ Len(conns') = Len(conns)
    BY <1>2, <1>5 DEF InHand
<1>7. clients'[conns'[d].stream] = None
    BY <1>1, <1>3 DEF Forgets, SameEvents
<1>8. d \in 0..Len(conns') /\ t \in 0..Len(conns') /\ d \in DOMAIN conns'
    BY <1>2, <1>6
<1> QED
    BY <1>5, <1>6, <1>7, <1>8 DEF ReaderOK, ReaderType

LEMMA InExpire == ASSUME InInv, NEW k \in Stream, Expire(k) PROVE InInv'
<1>1. /\ connected /\ reader.pc = "ready" /\ clients[k] # None /\ CloseClient(k)
      /\ UNCHANGED <<log, pos, cursor, chunkDone, assembly, connected>>
    BY DEF Expire
<1>2. Forgets(k) /\ ~InHand /\ ConnsOK
    BY <1>1, CloseClientForgets DEF InHand, InInv
<1>3. PICK d \in Nat : d = clients[k].conn
    BY <1>1, <1>2, ConnFacts DEF InInv, ClientsOK
<1>4. ReaderAt(reader', "expired", 0, d, 0)
    BY <1>3, ReadyMoved DEF Expire
<1>5. /\ reader' \in ReaderType /\ reader'.pc = "expired" /\ reader'.at = 0
      /\ reader'.conn = clients[k].conn /\ reader'.task = 0
    BY <1>3, <1>4 DEF ReaderAt
<1>6. 0 \in 0..Len(conns)
    BY <1>2, ConnFacts
<1>7. ReaderOK' /\ ~InHand'
    BY <1>1, <1>2, <1>5, <1>6, AtCloseOK
<1> QED
    BY <1>1, <1>2, <1>7, InBetween DEF Forgets, InInv, DoneOK

LEMMA InBookkeep == ASSUME InInv, NEW c \in DOMAIN conns, Bookkeep(c) PROVE InInv'
<1>1. connected /\ reader.pc = "ready" /\ UNCHANGED <<log, pos, cursor, connected>>
    BY DEF Bookkeep
<1>2. PICK k \in Stream : k = conns[c].stream
    BY ConnFacts DEF InInv
<1>3. ConnsOK /\ ~InHand /\ c \in Nat
    BY <1>1, ConnFacts DEF InHand, InInv
<1>4. CASE clients[k] = None
    <2>1. /\ conns' = [conns EXCEPT ![c].task = "joined"] /\ Invalidate(k)
          /\ UNCHANGED <<clients, closing, reader>>
        BY <1>2, <1>4 DEF Bookkeep
    <2>2. SameEvents /\ ~InHand'
        BY <2>1, <1>3, SameTask DEF InHand
    <2>3. /\ chunkDone' \in [Stream -> Nat] /\ \A m \in Stream : chunkDone'[m] \in {chunkDone[m], 0}
          /\ assembly' # None => assembly' = assembly
          /\ assembly' # assembly => clients'[k] = None /\ assembly.stream = k
        BY <2>1, <1>4, Invalidated
    <2>4. ReaderOK'
        <3>1. DOMAIN conns' = DOMAIN conns /\ Len(conns') = Len(conns)
            BY <2>2, <1>3, ConnFacts, Elements DEF SameEvents
        <3>2. ~InHand /\ ~AtClose /\ ~InHand' /\ ~AtClose'
            BY <2>1, <1>1 DEF InHand, AtClose
        <3> QED
            BY <2>1, <3>1, <3>2, <1>1 DEF InInv, ReaderOK, InHand
    <2> QED
        BY <2>1, <2>2, <2>3, <2>4, <1>1, <1>3, InBetween
<1>5. CASE clients[k] # None
    <2>1. /\ clients' = [clients EXCEPT ![k] = None]
          /\ JoinsAndCancels(c, clients[k].conn)
          /\ closing' = closing \cup {clients[k].conn}
          /\ reader' = [Ready EXCEPT !.pc = "joined", !.conn = clients[k].conn, !.task = c]
          /\ UNCHANGED <<chunkDone, assembly>>
        BY <1>2, <1>5 DEF Bookkeep, JoinsAndCancels
    <2>2. PICK d \in DOMAIN conns : d = clients[k].conn /\ d \in Nat
        BY <1>3, <1>5, ConnFacts DEF InInv, ClientsOK
    <2>3. JoinsAndCancels(c, d)
        BY <2>1, <2>2
    <2>4. SameEvents
        BY <2>2, <2>3, <1>3, SameTwo
    <2>5. Forgets(k)
        BY <2>1, <2>4, <1>5 DEF Forgets
    <2>6. ReaderAt(reader', "joined", 0, d, c)
        BY <2>1, <2>2, <1>3, ReadyMoved
    <2>7. /\ reader' \in ReaderType /\ reader'.pc = "joined" /\ reader'.at = 0
          /\ reader'.conn = clients[k].conn /\ reader'.task = c
        BY <2>2, <2>6 DEF ReaderAt
    <2>8. c \in 0..Len(conns)
        BY <1>3, ConnFacts
    <2>9. ReaderOK' /\ ~InHand'
        BY <2>1, <2>5, <2>7, <2>8, <1>1, <1>3, AtCloseOK
    <2> QED
        BY <2>1, <2>4, <2>5, <2>9, <1>1, <1>3, InBetween DEF InInv, DoneOK
<1> QED
    BY <1>4, <1>5

\* A sequence of events grows by one.
LEMMA EventAppended ==
    ASSUME NEW S, NEW es \in Seq(S), NEW e \in S
    PROVE  /\ Append(es, e) \in Seq(S) /\ Len(Append(es, e)) = Len(es) + 1
           /\ DOMAIN Append(es, e) = 1..(Len(es) + 1)
           /\ Append(es, e)[Len(es) + 1] = e
           /\ \A i \in 1..Len(es) : Append(es, e)[i] = es[i]
           /\ Last(Append(es, e)) = e
BY DEF Last

LEMMA EventKinds == Opened # Closed /\ \A i : Incoming(i) # Opened /\ Incoming(i) # Closed
BY DEF Opened, Closed, Incoming

LEMMA IncomingOnce == ASSUME NEW i, NEW j, Incoming(i) = Incoming(j) PROVE i = j
BY DEF Incoming

\* The events stay in order when another one than Opened comes behind one that is not Closed.
LEMMA EventsGrow ==
    ASSUME NEW S, NEW es \in Seq(S), EventsOK(es), Last(es) # Closed, NEW e \in S, e # Opened
    PROVE  EventsOK(Append(es, e))
<1>1. Len(es) \in Nat /\ DOMAIN es = 1..Len(es) /\ Len(es) >= 1
    BY DEF EventsOK
<1>0. PICK f : f = Append(es, e)
    OBVIOUS
<1>2. Len(f) = Len(es) + 1 /\ DOMAIN f = 1..(Len(es) + 1)
      /\ f[Len(es) + 1] = e /\ \A i \in 1..Len(es) : f[i] = es[i]
    BY <1>0
<1>3. ASSUME NEW i \in DOMAIN f
      PROVE  (i = 1 <=> f[i] = Opened) /\ (f[i] = Closed => i = Len(f))
    <2>1. CASE i = Len(es) + 1
        BY <2>1, <1>1, <1>2
    <2>2. CASE i \in 1..Len(es)
        <3>1. f[i] = es[i] /\ (i = 1 <=> es[i] = Opened) /\ (es[i] = Closed => i = Len(es))
            BY <2>2, <1>1, <1>2 DEF EventsOK
        <3>2. es[i] # Closed
            BY <3>1 DEF Last
        <3> QED
            BY <3>1, <3>2
    <2> QED
        BY <2>1, <2>2, <1>1, <1>2
<1>4. f # <<>>
    BY <1>1, <1>2
<1> QED
    BY <1>0, <1>3, <1>4 DEF EventsOK

Tells(c, e) == conns' = [conns EXCEPT ![c].events = Append(@, e)]

\* Only the events of connection c grow, by e.
OneMore(c, e) ==
    /\ conns' \in Seq(Connection) /\ DOMAIN conns' = DOMAIN conns
    /\ conns'[c].events = Append(conns[c].events, e)
    /\ \A d \in DOMAIN conns : /\ conns'[d].stream = conns[d].stream
                               /\ d # c => conns'[d].events = conns[d].events

LEMMA Told ==
    ASSUME ConnsOK, NEW c \in DOMAIN conns, NEW e \in Event, Tells(c, e) PROVE OneMore(c, e)
<1> DEFINE x == [conns[c] EXCEPT !.events = Append(conns[c].events, e)]
<1>1. conns[c] \in Connection /\ conns \in Seq(Connection) /\ conns[c].events \in Seq(Event)
    BY ConnFacts DEF ConnsOK
<1>2. PICK es : es = Append(conns[c].events, e) /\ es \in Seq(Event)
    <2>1. Append(conns[c].events, e) \in Seq(Event)
        BY <1>1, EventAppended
    <2> QED
        BY <2>1
<1>3. x \in Connection /\ x.events = es /\ x.stream = conns[c].stream
    BY <1>1, <1>2 DEF Connection
<1>4. conns' = [conns EXCEPT ![c] = x]
    BY DEF Tells
<1> HIDE DEF x
<1>5. /\ conns' \in Seq(Connection) /\ DOMAIN conns' = DOMAIN conns
      /\ conns'[c] = x /\ \A d \in DOMAIN conns : d # c => conns'[d] = conns[d]
    BY <1>1, <1>3, <1>4, Replaced
<1> QED
    BY <1>2, <1>3, <1>5 DEF OneMore

\* The events stay well-formed, and their last one is e.
LEMMA EventsAfter ==
    ASSUME ConnsOK, NEW c \in DOMAIN conns, NEW e \in Event, e # Opened, NotClosed(c), OneMore(c, e)
    PROVE  /\ \A d \in DOMAIN conns : EventsOK(conns'[d].events)
           /\ Last(conns'[c].events) = e
<1>1. conns[c].events \in Seq(Event) /\ EventsOK(conns[c].events) /\ Last(conns[c].events) # Closed
    BY ConnFacts DEF ConnsOK, NotClosed
<1>2. EventsOK(conns'[c].events) /\ Last(conns'[c].events) = e
    BY <1>1, EventsGrow, EventAppended DEF OneMore
<1> QED
    BY <1>2 DEF OneMore, ConnsOK

LEMMA InSendClosed == ASSUME InInv, NEW c \in DOMAIN conns, SendConnectionClosed(c) PROVE InInv'
<1>1. /\ c \in closing /\ closing' = closing \ {c} /\ Tells(c, Closed)
      /\ UNCHANGED <<log, pos, cursor, reader, clients, chunkDone, assembly, connected>>
    BY DEF SendConnectionClosed, Tell, Tells
<1>2. ConnsOK /\ ClientsOK /\ NotClosed(c) /\ Closed \in Event /\ Closed # Opened
    BY <1>1, EventKinds DEF InInv, ConnsOK, Event
<1>3. OneMore(c, Closed)
    BY <1>1, <1>2, Told
<1>4. (\A d \in DOMAIN conns : EventsOK(conns'[d].events)) /\ Last(conns'[c].events) = Closed
    BY <1>2, <1>3, EventsAfter
<1>5. \A k \in Stream : clients[k] # None =>
          /\ clients[k].conn \in DOMAIN conns /\ clients[k].conn # c
          /\ conns'[clients[k].conn].events = conns[clients[k].conn].events
    BY <1>1, <1>2, <1>3 DEF ClientsOK, OneMore
<1>6. ConnsOK'
    <2>1. (conns \in Seq(Connection))'
        BY <1>1, <1>3 DEF OneMore, Connection, Event
    <2>2. (\A d \in DOMAIN conns : EventsOK(conns[d].events))'
        BY <1>3, <1>4 DEF OneMore
    <2>3. (closing \subseteq DOMAIN conns /\ \A d \in closing : NotClosed(d))'
        BY <1>1, <1>2, <1>3 DEF OneMore, ConnsOK, NotClosed
    <2>4. NoOrphan'
        BY <1>1, <1>2, <1>3, <1>4 DEF OneMore, ConnsOK, NoOrphan
    <2> QED
        BY <2>1, <2>2, <2>3, <2>4 DEF ConnsOK
<1>7. ClientsOK'
    BY <1>1, <1>2, <1>3, <1>5 DEF ClientsOK, OneMore, NotClosed
<1>8. FewerGiven
    BY <1>1, <1>5 DEF FewerGiven, Given
<1>9. DeliveredInSequence'
    <2> SUFFICES ASSUME NEW d \in DOMAIN conns, NEW i \in 1..(Len(conns'[d].events) - 1),
                        NEW a \in DOMAIN log, NEW b \in DOMAIN log,
                        conns'[d].events[i] = Incoming(a), conns'[d].events[i + 1] = Incoming(b)
                 PROVE  a < b /\ \A j \in Whole(conns[d].stream) : ~(a < j /\ j < b)
        BY <1>1, <1>3 DEF DeliveredInSequence, Whole, OneMore
    <2>1. CASE d # c
        BY <2>1, <1>3 DEF InInv, DeliveredInSequence, OneMore
    <2>2. CASE d = c
        <3>1. PICK es, fs : /\ es \in Seq(Event) /\ es = conns[c].events
                               /\ fs = conns'[c].events
            BY <1>2, ConnFacts
        <3>2. fs = Append(es, Closed)
            BY <3>1, <1>3 DEF OneMore
        <3>3. /\ Len(fs) = Len(es) + 1 /\ fs[Len(es) + 1] = Closed /\ Len(es) \in Nat
              /\ \A m \in 1..Len(es) : fs[m] = es[m]
            BY <3>2, <1>2, EventAppended
        <3>4. i + 1 # Len(es) + 1
            BY <3>1, <3>3, <2>2, EventKinds
        <3>5. i \in 1..(Len(es) - 1) /\ i \in 1..Len(es) /\ i + 1 \in 1..Len(es)
            BY <3>1, <3>3, <3>4, <2>2
        <3>6. es[i] = Incoming(a) /\ es[i + 1] = Incoming(b)
            BY <3>1, <3>3, <3>5, <2>2
        <3> QED
            BY <3>1, <3>5, <3>6, <2>2 DEF InInv, DeliveredInSequence
    <2> QED
        BY <2>1, <2>2
<1>10. (InHand' <=> InHand) /\ Reached' = Reached /\ Reached \in Nat /\ pos \in Nat /\ pos >= 1
    BY <1>1, InFacts DEF InHand, Reached
<1>11. GivenOK'
    BY <1>1, <1>8, <1>10, GivenKeeps
<1>12. AssemblyOK'
    BY <1>1, <1>8, <1>10, AssemblyKeeps
<1>13. DoneOK' /\ LogOK'
    BY <1>1, DoneKeeps, LogKeeps DEF InInv, DoneOK
<1>14. PlaceOK'
    BY <1>1, <1>10, PlaceKeeps
<1>15. ReaderOK'
    BY <1>1, <1>3, <1>5, <1>8, ReaderKeeps DEF OneMore
<1> QED
    BY <1>6, <1>7, <1>9, <1>11, <1>12, <1>13, <1>14, <1>15 DEF InInv

\* What is forwarded is the next message for the client.
LEMMA ForwardIsNext ==
    ASSUME InInv, Forward, NEW a \in DOMAIN log, Given(Key, a)
    PROVE  a < reader.at /\ Clear(Key, a, reader.at)
<1>1. reader.pc \in {"handle", "first"} /\ InHand /\ connected
    BY ReadyFields DEF Forward, InHand, InInv, ReaderOK
<1>2. reader.pc # "first"
    <2>1. Last(<<Opened>>) = Opened
        BY DEF Last
    <2> QED
        BY <2>1, EventKinds DEF Given, InInv, ReaderOK
<1>3. IsMessage /\ clients[Key] # None /\ ~Duplicate
    BY <1>2 DEF Forward
<1>4. Key \in Stream /\ clients[Key].last = log[a].seq /\ Clear(Key, a, reader.at)
    BY <1>1, InFacts DEF InInv, GivenOK, GivenAt
<1>5. ASSUME reader.at <= a PROVE FALSE
    <2>1. Message.seq <= log[a].seq
        BY <1>1, <1>5, OlderInHand
    <2> QED
        BY <2>1, <1>3, <1>4 DEF Duplicate
<1>6. a < reader.at
    BY <1>1, <1>5, InFacts
<1> QED
    BY <1>4, <1>6

LEMMA InForward == ASSUME InInv, Forward PROVE InInv'
<1>1. /\ reader.pc \in {"handle", "first"} /\ clients[Key] # None
      /\ UNCHANGED <<log, pos, cursor, closing, chunkDone, assembly, connected>>
      /\ reader' = [reader EXCEPT !.pc = "record"]
    BY DEF Forward, Goto, InInv, ReaderOK
<1>2. InHand /\ ReaderOK /\ ConnsOK /\ ClientsOK /\ connected
    BY <1>1, ReadyFields DEF InInv, InHand, ReaderOK
<1>3. PICK k \in Stream, t \in DOMAIN log : k = Key /\ t = reader.at
    BY <1>2, InFacts
<1>4. PICK c \in DOMAIN conns : c = clients[k].conn
    BY <1>1, <1>2, <1>3 DEF ClientsOK
<1>5. /\ Tells(c, Incoming(t)) /\ log[t] = Message /\ log[t].stream = k
      /\ clients' = [clients EXCEPT ![k].last = log[t].seq]
      /\ log[t].what \notin {"head", "close"}
    BY <1>3, <1>4, <1>2 DEF Forward, Tell, Tells, RecordDelivery, Message, Key, IsMessage, ReaderOK
<1>6. NotClosed(c) /\ Incoming(t) \in Event /\ Incoming(t) # Opened /\ Incoming(t) # Closed
      /\ c \notin closing
    BY <1>1, <1>2, <1>3, <1>4, EventKinds DEF ClientsOK, Event, Incoming
<1>7. OneMore(c, Incoming(t))
    BY <1>2, <1>5, <1>6, Told
<1>8. (\A d \in DOMAIN conns : EventsOK(conns'[d].events)) /\ Last(conns'[c].events) = Incoming(t)
    BY <1>2, <1>6, <1>7, EventsAfter
<1>9. /\ clients' \in [Stream -> Client \cup {None}]
      /\ clients'[k] # None /\ clients'[k].conn = c /\ clients'[k].last = log[t].seq
      /\ \A m \in Stream : m # k => clients'[m] = clients[m]
    <2>1. clients \in [Stream -> Client \cup {None}] /\ clients[k] \in Client /\ log[t].seq \in Nat
        BY <1>1, <1>2, <1>3, LogFacts DEF ClientsOK, InInv
    <2>2. PICK x : x = [clients[k] EXCEPT !.last = log[t].seq]
        OBVIOUS
    <2>3. x \in Client /\ x.conn = clients[k].conn /\ x.last = log[t].seq
        BY <2>1, <2>2 DEF Client
    <2>4. x # None
        BY <2>3, RemoteAssumption
    <2>5. clients' = [clients EXCEPT ![k] = x]
        BY <2>2, <1>5
    <2> QED
        BY <2>1, <2>3, <2>4, <2>5, <1>4
<1>10. \A m \in Stream : clients'[m] # None => clients[m] # None /\ clients'[m].conn = clients[m].conn
    BY <1>1, <1>3, <1>4, <1>9
<1>11. \A m \in Stream : m # k /\ clients[m] # None =>
           /\ clients[m].conn \in DOMAIN conns /\ clients[m].conn # c
           /\ conns'[clients[m].conn].events = conns[clients[m].conn].events
    BY <1>1, <1>2, <1>3, <1>4, <1>7 DEF ClientsOK, OneMore
<1>12. ConnsOK'
    <2>1. (conns \in Seq(Connection))'
        BY <1>1, <1>7 DEF OneMore, Connection, Event
    <2>2. (\A d \in DOMAIN conns : EventsOK(conns[d].events))'
        BY <1>7, <1>8 DEF OneMore
    <2>3. (closing \subseteq DOMAIN conns /\ \A d \in closing : NotClosed(d))'
        BY <1>1, <1>2, <1>6, <1>7 DEF OneMore, ConnsOK, NotClosed
    <2>4. NoOrphan'
        <3> SUFFICES ASSUME NEW d \in DOMAIN conns, Last(conns'[d].events) # Closed
                     PROVE  d \in closing' \/ \E m \in Stream : clients'[m] # None /\ clients'[m].conn = d
            BY <1>7 DEF NoOrphan, OneMore
        <3>1. CASE d = c
            BY <3>1, <1>9
        <3>2. CASE d # c
            <4>1. d \in closing \/ \E m \in Stream : clients[m] # None /\ clients[m].conn = d
                BY <3>2, <1>2, <1>7 DEF OneMore, ConnsOK, NoOrphan
            <4> QED
                BY <3>2, <4>1, <1>1, <1>4, <1>9
        <3> QED
            BY <3>1, <3>2
    <2> QED
        BY <2>1, <2>2, <2>3, <2>4 DEF ConnsOK
<1>13. ClientsOK'
    <2> SUFFICES ASSUME NEW m \in Stream, clients'[m] # None, NEW d, d = clients'[m].conn
                 PROVE  /\ d \in DOMAIN conns' /\ conns'[d].stream = m
                        /\ d \notin closing' /\ Last(conns'[d].events) # Closed
        BY <1>9 DEF ClientsOK, NotClosed
    <2>1. CASE m = k
        <3>1. d = c
            BY <2>1, <1>9
        <3>2. conns[c].stream = k
            BY <1>1, <1>2, <1>3, <1>4 DEF ClientsOK
        <3>3. c \in DOMAIN conns' /\ conns'[c].stream = k
            BY <3>2, <1>7 DEF OneMore
        <3>4. c \notin closing' /\ Last(conns'[c].events) # Closed
            BY <1>1, <1>6, <1>8
        <3> QED
            BY <2>1, <3>1, <3>3, <3>4
    <2>2. CASE m # k
        BY <2>2, <1>1, <1>2, <1>7, <1>9, <1>11 DEF ClientsOK, OneMore, NotClosed
    <2> QED
        BY <2>1, <2>2
<1>14. ASSUME NEW m \in Stream, NEW a \in DOMAIN log, Given(m, a)'
       PROVE  \/ m = k /\ a = t
              \/ m # k /\ Given(m, a) /\ clients'[m] = clients[m]
    <2>1. clients'[m] # None /\ Last(conns'[clients'[m].conn].events) = Incoming(a)
        BY <1>14 DEF Given
    <2>2. CASE m = k
        BY <2>1, <2>2, <1>8, <1>9, IncomingOnce
    <2>3. CASE m # k
        BY <2>1, <2>3, <1>9, <1>11 DEF Given
    <2> QED
        BY <2>2, <2>3
<1>15. DeliveredInSequence'
    <2> SUFFICES ASSUME NEW d \in DOMAIN conns, NEW i \in 1..(Len(conns'[d].events) - 1),
                        NEW a \in DOMAIN log, NEW b \in DOMAIN log,
                        conns'[d].events[i] = Incoming(a), conns'[d].events[i + 1] = Incoming(b)
                 PROVE  a < b /\ \A j \in Whole(conns[d].stream) : ~(a < j /\ j < b)
        BY <1>1, <1>7 DEF DeliveredInSequence, Whole, OneMore
    <2>1. CASE d # c
        BY <2>1, <1>7 DEF InInv, DeliveredInSequence, OneMore
    <2>2. CASE d = c
        <3>1. PICK es, fs : /\ es \in Seq(Event) /\ es = conns[c].events
                               /\ fs = conns'[c].events
            BY <1>2, ConnFacts
        <3>2. fs = Append(es, Incoming(t))
            BY <3>1, <1>7 DEF OneMore
        <3>3. /\ Len(fs) = Len(es) + 1 /\ fs[Len(es) + 1] = Incoming(t) /\ Len(es) \in Nat
              /\ \A m \in 1..Len(es) : fs[m] = es[m]
            BY <3>2, <1>6, EventAppended
        <3>4. CASE i + 1 = Len(es) + 1
            <4>1. b = t /\ es[Len(es)] = Incoming(a)
                BY <3>1, <3>3, <3>4, <2>2, IncomingOnce
            <4>2. Given(Key, a)
                BY <3>1, <4>1, <1>1, <1>3, <1>4 DEF Given, Last
            <4>3. a < t /\ Clear(k, a, t)
                BY <4>2, <1>3, ForwardIsNext
            <4>4. conns[d].stream = k
                BY <2>2, <1>1, <1>2, <1>3, <1>4 DEF ClientsOK
            <4>5. \A j \in Whole(k) : a < j /\ j < t => j \in (a + 1)..(t - 1)
                BY InFacts DEF Whole
            <4> QED
                BY <4>1, <4>3, <4>4, <4>5 DEF Clear
        <3>5. CASE i + 1 # Len(es) + 1
            <4>1. i \in 1..(Len(es) - 1) /\ i \in 1..Len(es) /\ i + 1 \in 1..Len(es)
                BY <3>1, <3>3, <3>5, <2>2
            <4>2. es[i] = Incoming(a) /\ es[i + 1] = Incoming(b)
                BY <3>1, <3>3, <4>1, <2>2
            <4> QED
                BY <3>1, <4>1, <4>2, <2>2 DEF InInv, DeliveredInSequence
        <3> QED
            BY <3>4, <3>5
    <2> QED
        BY <2>1, <2>2
<1>16. /\ reader' \in ReaderType /\ reader'.pc = "record" /\ reader'.at = reader.at
       /\ reader'.conn = reader.conn /\ reader'.task = reader.task
    BY <1>1, <1>2, Moved
<1>17. InHand' /\ Reached = t /\ Reached' = t /\ t \in Nat /\ cursor \in Nat /\ cursor < t
    BY <1>2, <1>3, <1>16, InFacts DEF InHand, Reached
<1>18. GivenOK'
    <2> SUFFICES ASSUME NEW m \in Stream, NEW a \in DOMAIN log, Given(m, a)' PROVE GivenAt(m, a)'
        BY <1>1 DEF GivenOK
    <2>1. CASE m = k /\ a = t
        <3>1. Chunks(cursor + 1, t - 1)'
            BY <1>1, <1>2, <1>17 DEF InInv, PlaceOK, Chunks
        <3>2. Clear(k, t, cursor + 1)' /\ Clear(k, t, Reached)'
            BY <1>1, <1>17 DEF Clear
        <3> QED
            BY <2>1, <3>1, <3>2, <1>1, <1>5, <1>9 DEF GivenAt
    <2>2. CASE m # k /\ Given(m, a) /\ clients'[m] = clients[m]
        BY <2>2, <1>1, <1>2, <1>17, GivenAtKeeps
    <2> QED
        BY <2>1, <2>2, <1>14
<1>19. AssemblyOK'
    <2>1. assembly' = None /\ pos' \in Nat /\ pos' >= 1
        BY <1>1, <1>2, InFacts DEF ReaderOK
    <2> QED
        BY <2>1, <1>1, <1>17, AssemblyFrom
<1>20. DoneOK' /\ LogOK'
    BY <1>1, DoneKeeps, LogKeeps DEF InInv, DoneOK
<1>21. PlaceOK'
    BY <1>1, <1>2, <1>17, PlaceKeeps
<1>22. ReaderOK'
    <2>1. Len(conns') = Len(conns)
        BY <1>2, <1>7, ConnFacts, Elements DEF OneMore
    <2>2. \A a \in DOMAIN log : Given(Key, a)' => reader.at <= a
        <3> SUFFICES ASSUME NEW a \in DOMAIN log, Given(k, a)' PROVE t <= a
            BY <1>1, <1>3, <1>16 DEF Key, Message, Given
        <3> QED
            BY <1>14, <1>17
    <2> QED
        BY <2>1, <2>2, <1>1, <1>2, <1>16, <1>17, ReaderMoved DEF ReaderOK
<1> QED
    BY <1>12, <1>13, <1>15, <1>18, <1>19, <1>20, <1>21, <1>22 DEF InInv

\* There is one connection more, x, of the client of stream k.
Joined(k, x) ==
    /\ conns' \in Seq(Connection) /\ DOMAIN conns' = DOMAIN conns \cup {Len(conns) + 1}
    /\ Len(conns') = Len(conns) + 1 /\ Len(conns) + 1 \notin DOMAIN conns
    /\ \A d \in DOMAIN conns : conns'[d] = conns[d]
    /\ conns'[Len(conns) + 1] = x /\ x.stream = k /\ x.events = <<Opened>>

LEMMA OpenJoins ==
    ASSUME InInv, Open
    PROVE  \E x : Joined(Key, x)
<1>1. InHand /\ ConnsOK
    BY DEF Open, InHand, InInv
<1>2. Key \in Stream
    BY <1>1, InFacts
<1>3. <<Opened>> \in Seq(Event)
    BY DEF Event
<1>4. PICK es : es = <<Opened>> /\ es \in Seq(Event)
    BY <1>3
<1>5. PICK x : x = [stream |-> Key, events |-> es, cancelled |-> FALSE, task |-> "running"]
    OBVIOUS
<1>6. x \in Connection /\ x.stream = Key /\ x.events = es
    BY <1>2, <1>4, <1>5 DEF Connection
<1>7. conns' = Append(conns, x)
    BY <1>4, <1>5 DEF Open
<1>8. conns \in Seq(Connection) /\ Len(conns) \in Nat /\ DOMAIN conns = 1..Len(conns)
    BY <1>1, ConnFacts DEF ConnsOK
<1>9. /\ conns' \in Seq(Connection) /\ Len(conns') = Len(conns) + 1
      /\ DOMAIN conns' = 1..(Len(conns) + 1) /\ conns'[Len(conns) + 1] = x
      /\ \A i \in 1..Len(conns) : conns'[i] = conns[i]
    BY <1>6, <1>7, <1>8, EventAppended
<1>10. /\ 1..(Len(conns) + 1) = DOMAIN conns \cup {Len(conns) + 1}
       /\ Len(conns) + 1 \notin DOMAIN conns
    BY <1>8
<1> QED
    BY <1>4, <1>6, <1>8, <1>9, <1>10 DEF Joined

LEMMA InOpen == ASSUME InInv, Open PROVE InInv'
<1>1. /\ reader.pc = "handle" /\ Message.what = "init" /\ clients[Key] = None
      /\ UNCHANGED <<log, pos, cursor, closing, chunkDone, assembly, connected>>
      /\ reader' = [reader EXCEPT !.pc = "first"]
    BY DEF Open, Goto
<1>2. InHand /\ ReaderOK /\ ConnsOK /\ ClientsOK /\ connected
    BY <1>1, ReadyFields DEF InInv, InHand, ReaderOK
<1>3. PICK k \in Stream : k = Key
    BY <1>2, InFacts
<1>4. PICK x, n : Joined(k, x) /\ n = Len(conns) + 1
    BY <1>3, OpenJoins
<1>5. /\ conns' \in Seq(Connection) /\ DOMAIN conns' = DOMAIN conns \cup {n}
      /\ Len(conns') = n /\ n \notin DOMAIN conns
      /\ \A d \in DOMAIN conns : conns'[d] = conns[d]
      /\ conns'[n].stream = k /\ conns'[n].events = <<Opened>>
    BY <1>4 DEF Joined
<1>6. Len(conns) \in Nat /\ n \in Nat /\ DOMAIN conns = 1..Len(conns)
    BY <1>2, <1>4, ConnFacts
<1>7. /\ clients' \in [Stream -> Client \cup {None}]
      /\ clients'[k] # None /\ clients'[k].conn = n
      /\ \A m \in Stream : m # k => clients'[m] = clients[m]
    <2>1. clients \in [Stream -> Client \cup {None}]
        BY <1>2 DEF ClientsOK
    <2>2. PICK y : y = [conn |-> n, last |-> 0]
        OBVIOUS
    <2>3. y \in Client /\ y.conn = n
        BY <2>2, <1>6 DEF Client
    <2>4. y # None
        BY <2>3, RemoteAssumption
    <2>5. clients' = [clients EXCEPT ![k] = y]
        BY <2>2, <1>3, <1>4 DEF Open
    <2> QED
        BY <2>1, <2>3, <2>4, <2>5
<1>8. Len(<<Opened>>) = 1 /\ <<Opened>>[1] = Opened /\ Last(<<Opened>>) = Opened /\ <<Opened>> # <<>>
    BY DEF Last
<1>9. EventsOK(<<Opened>>)
    BY <1>8, EventKinds DEF EventsOK
<1>10. ConnsOK'
    <2>1. (conns \in Seq(Connection))'
        BY <1>1, <1>5 DEF Connection, Event
    <2>2. (\A d \in DOMAIN conns : EventsOK(conns[d].events))'
        BY <1>2, <1>5, <1>9 DEF ConnsOK
    <2>3. (closing \subseteq DOMAIN conns /\ \A d \in closing : NotClosed(d))'
        BY <1>1, <1>2, <1>5 DEF ConnsOK, NotClosed
    <2>4. NoOrphan'
        <3> SUFFICES ASSUME NEW d \in DOMAIN conns', Last(conns'[d].events) # Closed
                     PROVE  d \in closing' \/ \E m \in Stream : clients'[m] # None /\ clients'[m].conn = d
            BY DEF NoOrphan
        <3>1. CASE d = n
            BY <3>1, <1>7
        <3>2. CASE d # n
            <4>1. d \in closing \/ \E m \in Stream : clients[m] # None /\ clients[m].conn = d
                BY <3>2, <1>2, <1>5 DEF ConnsOK, NoOrphan
            <4> QED
                BY <4>1, <1>1, <1>3, <1>7
        <3> QED
            BY <3>1, <3>2
    <2> QED
        BY <2>1, <2>2, <2>3, <2>4 DEF ConnsOK
<1>11. ClientsOK'
    <2> SUFFICES ASSUME NEW m \in Stream, clients'[m] # None, NEW d, d = clients'[m].conn
                 PROVE  /\ d \in DOMAIN conns' /\ conns'[d].stream = m
                        /\ d \notin closing' /\ Last(conns'[d].events) # Closed
        BY <1>7 DEF ClientsOK, NotClosed
    <2>1. CASE m = k
        <3>1. d = n
            BY <2>1, <1>7
        <3>2. n \notin closing'
            BY <1>1, <1>2, <1>5 DEF ConnsOK
        <3> QED
            BY <2>1, <3>1, <3>2, <1>5, <1>8, EventKinds
    <2>2. CASE m # k
        BY <2>2, <1>1, <1>2, <1>5, <1>7 DEF ClientsOK, NotClosed
    <2> QED
        BY <2>1, <2>2
<1>12. FewerGiven
    <2> SUFFICES ASSUME NEW m \in Stream, NEW a \in DOMAIN log, Given(m, a)'
                 PROVE  Given(m, a) /\ clients'[m] = clients[m]
        BY DEF FewerGiven
    <2>1. clients'[m] # None /\ Last(conns'[clients'[m].conn].events) = Incoming(a)
        BY DEF Given
    <2>2. m # k
        BY <2>1, <1>5, <1>7, <1>8, EventKinds
    <2>3. clients'[m] = clients[m] /\ clients[m].conn \in DOMAIN conns
        BY <2>1, <2>2, <1>2, <1>7 DEF ClientsOK
    <2> QED
        BY <2>1, <2>3, <1>5 DEF Given
<1>13. DeliveredInSequence'
    <2> SUFFICES ASSUME NEW d \in DOMAIN conns', NEW i \in 1..(Len(conns'[d].events) - 1),
                        NEW a \in DOMAIN log, NEW b \in DOMAIN log,
                        conns'[d].events[i] = Incoming(a), conns'[d].events[i + 1] = Incoming(b)
                 PROVE  a < b /\ \A j \in Whole(conns'[d].stream) : ~(a < j /\ j < b)
        BY <1>1 DEF DeliveredInSequence, Whole
    <2>1. d # n
        <3>1. ASSUME d = n PROVE FALSE
            BY <3>1, <1>5, <1>8
        <3> QED
            BY <3>1
    <2> QED
        BY <2>1, <1>5 DEF InInv, DeliveredInSequence
<1>14. /\ reader' \in ReaderType /\ reader'.pc = "first" /\ reader'.at = reader.at
       /\ reader'.conn = reader.conn /\ reader'.task = reader.task
    BY <1>1, <1>2, Moved
<1>15. InHand' /\ Reached' = Reached /\ Reached \in Nat /\ pos \in Nat /\ pos >= 1
    BY <1>2, <1>14, InFacts DEF InHand, Reached
<1>16. GivenOK'
    BY <1>1, <1>12, <1>15, GivenKeeps
<1>17. AssemblyOK'
    BY <1>1, <1>2, <1>12, <1>15, AssemblyKeeps
<1>18. DoneOK' /\ LogOK'
    BY <1>1, DoneKeeps, LogKeeps DEF InInv, DoneOK
<1>19. PlaceOK'
    BY <1>1, <1>15, PlaceKeeps
<1>20. ReaderOK'
    <2>1. reader.conn \in 0..Len(conns') /\ reader.task \in 0..Len(conns')
        BY <1>2, <1>4, <1>5, <1>6 DEF ReaderOK
    <2>2. clients'[Key] # None /\ conns'[clients'[Key].conn].events = <<Opened>>
        BY <1>3, <1>5, <1>7
    <2> QED
        BY <2>1, <2>2, <1>1, <1>2, <1>14, <1>15, ReaderMoved
<1> QED
    BY <1>10, <1>11, <1>13, <1>16, <1>17, <1>18, <1>19, <1>20 DEF InInv

\* The numbers of completed messages, when the cursor moves to the envelope in hand.
LEMMA DoneMoves ==
    ASSUME InInv, reader.pc = "record", Record PROVE DoneOK'
<1>1. InHand /\ connected
    BY ReadyFields DEF InHand, InInv, ReaderOK
<1>2. PICK k \in Stream, t \in DOMAIN log, c0 \in Nat :
          k = Key /\ t = reader.at /\ c0 = cursor /\ c0 < t /\ t \in Nat
    BY <1>1, InFacts
<1>3. log' = log /\ cursor' = t /\ log[t] = Message /\ log[t].stream = k /\ log[t].what # "head"
    BY <1>1, <1>2 DEF Record, Message, Key, InInv, ReaderOK
<1>4. chunkDone \in [Stream -> Nat]
    BY DEF InInv, DoneOK
<1>5. log[t].chunk <=> log[t].what \in {"head", "tail"}
    BY <1>2 DEF InInv, LogOK
<1>6. /\ chunkDone' \in [Stream -> Nat]
      /\ log[t].what = "close" => chunkDone'[k] = 0
      /\ log[t].what = "tail" => chunkDone'[k] = log[t].seq
      /\ log[t].what \notin {"close", "tail"} => chunkDone'[k] = chunkDone[k]
      /\ \A m \in Stream : m # k => chunkDone'[m] = chunkDone[m]
    <2>1. log[t].seq \in Nat
        BY <1>2, LogFacts DEF InInv
    <2>2. CASE log[t].what = "close"
        <3>1. chunkDone' = [chunkDone EXCEPT ![k] = 0]
            BY <2>2, <1>2, <1>3, <1>5 DEF Record, Invalidate
        <3> QED
            BY <2>2, <3>1, <1>4
    <2>3. CASE log[t].what = "tail"
        <3>1. chunkDone' = [chunkDone EXCEPT ![k] = log[t].seq]
            BY <2>3, <1>2, <1>3, <1>5 DEF Record
        <3> QED
            BY <2>1, <2>3, <3>1, <1>4
    <2>4. CASE log[t].what \notin {"close", "tail"}
        <3>1. chunkDone' = chunkDone
            BY <2>4, <1>2, <1>3, <1>5 DEF Record
        <3> QED
            BY <2>4, <3>1, <1>4
    <2> QED
        BY <2>2, <2>3, <2>4
<1>7. \A m \in (c0 + 1)..(t - 1), n \in Stream : ~IsClose(n, m)
    <2> SUFFICES ASSUME NEW m \in (c0 + 1)..(t - 1), NEW n \in Stream PROVE ~IsClose(n, m)
        OBVIOUS
    <2>1. log[m].chunk /\ m \in DOMAIN log
        BY <1>1, <1>2, InFacts DEF InInv, PlaceOK, Chunks
    <2> QED
        BY <2>1 DEF InInv, LogOK, IsClose
<1> SUFFICES ASSUME NEW m \in Stream, chunkDone'[m] # 0
             PROVE  \E i \in 1..t :
                       /\ log[i].stream = m /\ log[i].what = "tail" /\ log[i].seq = chunkDone'[m]
                       /\ \A j \in i..t : ~IsClose(m, j)
    BY <1>3, <1>6 DEF DoneOK, IsClose
<1>8. CASE m = k /\ log[t].what = "tail"
    <2>1. \A j \in t..t : ~IsClose(m, j)
        BY <1>2, <1>8 DEF IsClose
    <2>2. t \in 1..t
        BY <1>2, InFacts
    <2> QED
        BY <2>1, <2>2, <1>3, <1>6, <1>8
<1>9. CASE m # k \/ log[t].what \notin {"close", "tail"}
    <2>1. chunkDone'[m] = chunkDone[m]
        BY <1>6, <1>9
    <2>2. PICK i \in 1..c0 : /\ log[i].stream = m /\ log[i].what = "tail" /\ log[i].seq = chunkDone[m]
                             /\ \A j \in i..c0 : ~IsClose(m, j)
        BY <2>1, <1>2 DEF InInv, DoneOK
    <2>3. ~IsClose(m, t)
        BY <1>3, <1>9 DEF IsClose
    <2>4. \A j \in i..t : j \in i..c0 \/ j \in (c0 + 1)..(t - 1) \/ j = t
        BY <1>2
    <2>5. i \in 1..t
        BY <1>2
    <2> QED
        BY <2>1, <2>2, <2>3, <2>4, <2>5, <1>7
<1> QED
    BY <1>6, <1>8, <1>9

LEMMA InRecord == ASSUME InInv, Record PROVE InInv'
<1>1. /\ reader.pc = "record" /\ cursor' = reader.at /\ reader' = Ready
      /\ UNCHANGED <<log, pos, clients, conns, closing, connected>>
    BY DEF Record
<1>2. InHand /\ ReaderOK /\ ConnsOK /\ connected /\ connected \in BOOLEAN
    BY <1>1, ReadyFields DEF InHand, InInv, ReaderOK
<1>3. PICK k \in Stream, t \in DOMAIN log :
          k = Key /\ t = reader.at /\ cursor < t /\ t \in Nat /\ pos = t + 1
    BY <1>2, InFacts
<1>4. assembly = None /\ assembly' = None
    <2>1. assembly = None
        BY <1>2 DEF ReaderOK
    <2> QED
        BY <2>1 DEF Record, Invalidate
<1>5. ConnsOK' /\ ClientsOK' /\ DeliveredInSequence' /\ FewerGiven
    BY <1>1, <1>2, ConnsKeep, SameItself
<1>6. ~InHand' /\ Reached' = t + 1 /\ Reached = t /\ cursor' = t
    BY <1>1, <1>2, <1>3, ReadyFields DEF InHand, Reached
<1>7. log[t].what # "head" /\ log[t].stream = k
    BY <1>2, <1>3 DEF ReaderOK, Key, Message
<1>8. GivenOK'
    <2> SUFFICES ASSUME NEW m \in Stream, NEW a \in DOMAIN log, Given(m, a)' PROVE GivenAt(m, a)'
        BY <1>1 DEF GivenOK
    <2>1. Given(m, a) /\ clients'[m] = clients[m] /\ GivenAt(m, a)
        BY <1>5 DEF FewerGiven, InInv, GivenOK
    <2>2. a \in Nat /\ cursor \in Nat
        BY InFacts
    <2>3. Chunks(cursor + 1, a - 1)'
        BY <2>1, <2>2, <1>1, <1>3, <1>6 DEF GivenAt, Chunks
    <2>4. \A j \in (a + 1)..((t + 1) - 1) : j \notin Whole(m)
        <3> SUFFICES ASSUME NEW j \in (a + 1)..((t + 1) - 1) PROVE j \notin Whole(m)
            OBVIOUS
        <3>1. CASE j = t
            <4>1. m # k
                BY <3>1, <2>1, <2>2, <1>1, <1>2, <1>3 DEF ReaderOK
            <4> QED
                BY <3>1, <4>1, <1>7 DEF Whole
        <3>2. CASE j # t
            <4>1. j \in (a + 1)..(t - 1)
                BY <3>2, <2>2, <1>3
            <4> QED
                BY <4>1, <2>1, <1>2, <1>6 DEF GivenAt, Clear
        <3> QED
            BY <3>1, <3>2
    <2>5. Clear(m, a, cursor + 1)' /\ Clear(m, a, Reached)'
        BY <2>4, <1>1, <1>6 DEF Clear, Whole
    <2> QED
        BY <2>1, <2>3, <2>5, <1>1 DEF GivenAt
<1>9. AssemblyOK'
    <2>1. log[t + 1].what # "tail" \/ t + 1 \notin DOMAIN log
        <3>1. ASSUME t + 1 \in DOMAIN log, log[t + 1].what = "tail" PROVE FALSE
            <4>1. log[(t + 1) - 1].what = "head"
                BY <3>1 DEF InInv, LogOK
            <4> QED
                BY <4>1, <1>3, <1>7
        <3> QED
            BY <3>1
    <2> QED
        BY <2>1, <1>1, <1>3, <1>4, AssemblyFrom
<1>10. DoneOK' /\ LogOK'
    BY <1>1, DoneMoves, LogKeeps DEF InInv
<1>11. PlaceOK'
    <2>1. Chunks(cursor + 1, Reached - 1)'
        BY <1>3, <1>6 DEF Chunks
    <2>2. pos \in 1..(Len(log) + 1)
        BY DEF InInv, PlaceOK
    <2> QED
        BY <2>1, <2>2, <1>1, <1>3, <1>6, <1>7 DEF PlaceOK
<1>12. ReaderOK'
    BY <1>1, <1>2, ReadyOK, ConnFacts
<1> QED
    BY <1>5, <1>8, <1>9, <1>10, <1>11, <1>12 DEF InInv

-----------------------------------------------------------------------------
(* The reader takes an envelope.                                           *)

\* A chunk that arrives is newer than the last message of chunks that was completed.
LEMMA NewerThanDone ==
    ASSUME InInv, connected, ~InHand, pos \in DOMAIN log, log[pos].chunk
    PROVE  ~(chunkDone[log[pos].stream] >= log[pos].seq)
<1>1. PICK p \in Nat, k \in Stream, c0 \in Nat : p = pos /\ k = log[pos].stream /\ c0 = cursor /\ c0 < p
    BY InFacts, LogFacts DEF InInv
<1>2. log[p].seq \in Nat /\ log[p].seq > 0 /\ log[p].what # "close" /\ chunkDone[k] \in Nat
    BY <1>1, LogFacts DEF InInv, LogOK, DoneOK
<1>3. CASE chunkDone[k] = 0
    BY <1>1, <1>2, <1>3
<1>4. CASE chunkDone[k] # 0
    <2>1. PICK i \in 1..c0 : /\ log[i].stream = k /\ log[i].what = "tail" /\ log[i].seq = chunkDone[k]
                             /\ \A j \in i..c0 : ~IsClose(k, j)
        BY <1>1, <1>4 DEF InInv, DoneOK
    <2>2. i \in DOMAIN log /\ i \in Nat /\ i < p
        BY <1>1, InFacts
    <2>3. ASSUME NEW m \in i..(p - 1) PROVE ~IsClose(k, m)
        <3>1. CASE m \in i..c0
            BY <3>1, <2>1
        <3>2. CASE m \notin i..c0
            <4>1. m \in (c0 + 1)..(p - 1) /\ m \in DOMAIN log
                BY <3>2, <2>2, <1>1, InFacts
            <4>2. log[m].chunk
                BY <4>1, <1>1, InFacts DEF InInv, PlaceOK, Chunks
            <4> QED
                BY <4>1, <4>2 DEF InInv, LogOK, IsClose
        <3> QED
            BY <3>1, <3>2
    <2>4. Grows
        BY DEF InInv, LogOK
    <2>5. log[i].seq < log[p].seq
        BY <2>1, <2>2, <2>3, <2>4, <1>1, <1>2 DEF Grows
    <2> QED
        BY <2>1, <2>5, <1>1, <1>2
<1> QED
    BY <1>3, <1>4

\* The assembly stands for a head that is not behind the reader, with nothing but
\* chunks before it, which are older in the same stream.
LEMMA StandsAhead ==
    ASSUME InInv, connected, ~InHand, pos \in DOMAIN log, NEW h \in DOMAIN log, Stands(h)
    PROVE  /\ h \in Nat /\ log[pos].chunk
           /\ \/ pos = h + 1 /\ log[pos].what = "tail" /\ log[pos].stream = log[h].stream
                 /\ log[pos].seq = log[h].seq
              \/ pos = h
              \/ pos < h /\ (log[pos].stream = log[h].stream => log[pos].seq < log[h].seq)
<1>1. PICK p \in Nat, c0 \in Nat : p = pos /\ c0 = cursor /\ c0 < p /\ p >= 1
    BY InFacts
<1>2. h \in Nat /\ h + 1 >= p /\ log[h].what = "head" /\ Chunks(c0 + 1, h)
    BY <1>1, InFacts DEF Stands
<1>3. CASE p = h + 1
    <2>1. log[p].what = "tail"
        BY <1>2, <1>3 DEF InInv, LogOK
    <2>2. log[p - 1].stream = log[p].stream /\ log[p - 1].seq = log[p].seq /\ log[p].chunk
        BY <2>1, <1>1 DEF InInv, LogOK
    <2>3. p - 1 = h
        BY <1>2, <1>3
    <2> QED
        BY <2>1, <2>2, <2>3, <1>1, <1>2, <1>3
<1>4. CASE p <= h
    <2>1. p \in (c0 + 1)..h
        BY <1>1, <1>2, <1>4
    <2>2. log[p].chunk
        BY <2>1, <1>2 DEF Chunks
    <2>3. ASSUME p < h, log[p].stream = log[h].stream PROVE log[p].seq < log[h].seq
        <3>1. ~(log[p].what = "head" /\ h = p + 1)
            BY <1>1, <1>2 DEF InInv, LogOK
        <3>2. ASSUME NEW m \in p..(h - 1) PROVE ~IsClose(log[p].stream, m)
            <4>1. m \in (c0 + 1)..h /\ m \in DOMAIN log
                BY <1>1, <1>2, InFacts
            <4>2. log[m].chunk
                BY <4>1, <1>2 DEF Chunks
            <4> QED
                BY <4>1, <4>2 DEF InInv, LogOK, IsClose
        <3>3. Grows
            BY DEF InInv, LogOK
        <3> QED
            BY <2>3, <3>1, <3>2, <3>3, <1>1, <1>2 DEF Grows
    <2> QED
        BY <2>2, <2>3, <1>1, <1>2, <1>4
<1> QED
    BY <1>1, <1>2, <1>3, <1>4

\* What becomes of an envelope e: a message of its own is handed on,
TakenWhole(e) == /\ ~e.chunk /\ assembly = None /\ assembly' = None
                 /\ reader' = [Ready EXCEPT !.pc = "handle", !.at = pos]
\* a head begins an assembly,
TakenHead(e) == /\ e.what = "head" /\ reader' = Ready
                /\ assembly' = [stream |-> e.stream, seq |-> e.seq, next |-> 1]
\* a tail without its head is lost,
TakenLost(e) == /\ e.what = "tail" /\ reader' = Ready /\ assembly' = None
                /\ ~(assembly # None /\ assembly.stream = e.stream)
\* a tail completes its message, which is handed on,
TakenTail(e) == /\ e.what = "tail" /\ assembly' = None
                /\ reader' = [Ready EXCEPT !.pc = "handle", !.at = pos]
\* or a chunk that was taken before is ignored.
TakenAgain(e) == /\ e.chunk /\ reader' = Ready /\ assembly' = assembly
                 /\ \E h \in DOMAIN log : Stands(h) /\ e.stream = log[h].stream /\ pos <= h

LEMMA ReceiveOutcome ==
    ASSUME InInv, Receive
    PROVE  LET e == log[pos]
           IN TakenWhole(e) \/ TakenHead(e) \/ TakenLost(e) \/ TakenTail(e) \/ TakenAgain(e)
<1>1. connected /\ reader.pc = "ready" /\ ~InHand /\ pos \in DOMAIN log /\ pos \in Nat
    BY InFacts DEF Receive, InHand
<1>2. PICK e : e = log[pos]
    OBVIOUS
<1>3. /\ assembly' = IF e.chunk /\ ~Ignored(e) THEN NextAssembly(e) ELSE assembly
      /\ reader' = IF e.chunk => ~Ignored(e) /\ Completes(e)
                   THEN [Ready EXCEPT !.pc = "handle", !.at = pos] ELSE Ready
    BY <1>2 DEF Receive
<1>4. /\ e.stream \in Stream /\ e.seq \in Nat /\ e.chunk \in BOOLEAN
      /\ e.chunk <=> e.what \in {"head", "tail"}
      /\ e.what = "head" => e.seg = 0
      /\ e.what = "tail" => e.seg = 1
    BY <1>1, <1>2, LogFacts DEF InInv, LogOK
<1>5. e.chunk => ~(chunkDone[e.stream] >= e.seq)
    BY <1>1, <1>2, NewerThanDone
<1>6. ASSUME assembly # None
      PROVE  \E h \in DOMAIN log :
                /\ Stands(h) /\ assembly.stream = log[h].stream /\ assembly.seq = log[h].seq
                /\ assembly.next = 1
    BY <1>6 DEF InInv, AssemblyOK, Stands
<1>7. CASE ~e.chunk
    <2>1. assembly = None
        BY <1>1, <1>2, <1>6, <1>7, StandsAhead
    <2> QED
        BY <2>1, <1>2, <1>3, <1>7 DEF TakenWhole
<1>8. CASE e.chunk /\ ~(assembly # None /\ assembly.stream = e.stream)
    <2>1. ~Ignored(e)
        BY <1>5, <1>8 DEF Ignored
    <2>2. PICK y : y = [stream |-> e.stream, seq |-> e.seq, next |-> 0]
        OBVIOUS
    <2>3. Assembly(e) = y /\ y.seq = e.seq /\ y.next = 0
        BY <2>2, <1>8 DEF Assembly
    <2>4. CASE e.what = "head"
        <3>1. Fits(e) /\ ~Completes(e)
            BY <2>3, <2>4, <1>4 DEF Fits, Completes
        <3>2. assembly' = [y EXCEPT !.next = @ + 1] /\ reader' = Ready
            BY <3>1, <2>1, <2>3, <1>3, <1>8 DEF NextAssembly
        <3>3. assembly' = [stream |-> e.stream, seq |-> e.seq, next |-> 1]
            BY <3>2, <2>2
        <3> QED
            BY <3>2, <3>3, <2>4, <1>2 DEF TakenHead
    <2>5. CASE e.what = "tail"
        <3>1. ~Fits(e) /\ ~Completes(e)
            BY <2>3, <2>5, <1>4 DEF Fits, Completes
        <3>2. assembly' = None /\ reader' = Ready
            BY <3>1, <2>1, <1>3, <1>8 DEF NextAssembly
        <3> QED
            BY <3>2, <2>5, <1>2, <1>8 DEF TakenLost
    <2> QED
        BY <2>4, <2>5, <1>4, <1>8
<1>9. CASE e.chunk /\ assembly # None /\ assembly.stream = e.stream
    <2>1. PICK h \in DOMAIN log :
              /\ Stands(h) /\ assembly.stream = log[h].stream /\ assembly.seq = log[h].seq
              /\ assembly.next = 1
        BY <1>6, <1>9
    <2>2. h \in Nat /\ log[h].seq \in Nat
        BY LogFacts, InFacts DEF InInv
    <2>3. CASE pos = h + 1 /\ e.what = "tail" /\ e.seq = log[h].seq
        <3>1. ~Ignored(e)
            BY <2>1, <2>2, <2>3, <1>4, <1>5, <1>9 DEF Ignored
        <3>2. Fits(e) /\ Completes(e)
            BY <2>1, <2>3, <1>4, <1>9 DEF Fits, Completes, Assembly
        <3>3. assembly' = None /\ reader' = [Ready EXCEPT !.pc = "handle", !.at = pos]
            BY <3>1, <3>2, <1>3, <1>9 DEF NextAssembly
        <3> QED
            BY <3>3, <2>3, <1>2 DEF TakenTail
    <2>4. CASE pos = h
        <3>1. e.what = "head" /\ e.seq = assembly.seq /\ e.seg < assembly.next
            BY <2>1, <2>4, <1>2, <1>4 DEF Stands
        <3>2. Ignored(e)
            BY <3>1, <1>9 DEF Ignored
        <3>3. assembly' = assembly /\ reader' = Ready
            BY <3>2, <1>3, <1>9
        <3> QED
            BY <3>3, <2>1, <2>2, <2>4, <1>2, <1>9 DEF TakenAgain
    <2>5. CASE pos < h /\ e.seq < log[h].seq
        <3>1. Ignored(e)
            BY <2>1, <2>5, <1>9 DEF Ignored
        <3>2. assembly' = assembly /\ reader' = Ready
            BY <3>1, <1>3, <1>9
        <3>3. pos <= h
            BY <2>2, <2>5, <1>1
        <3> QED
            BY <3>2, <3>3, <2>1, <1>2, <1>9 DEF TakenAgain
    <2> QED
        BY <2>1, <2>3, <2>4, <2>5, <1>1, <1>2, <1>9, StandsAhead
<1> QED
    BY <1>7, <1>8, <1>9

LEMMA InReceive == ASSUME InInv, Receive PROVE InInv'
<1>1. /\ connected /\ reader.pc = "ready" /\ pos' = pos + 1
      /\ UNCHANGED <<log, cursor, clients, conns, closing, chunkDone, connected>>
    BY DEF Receive
<1>2. ~InHand /\ ConnsOK /\ connected \in BOOLEAN
    BY <1>1 DEF InHand, InInv, ReaderOK
<1>3. PICK p \in DOMAIN log, c0 \in Nat :
          p = pos /\ c0 = cursor /\ c0 < p /\ p \in Nat /\ p >= 1 /\ p <= Len(log) /\ Len(log) \in Nat
    BY <1>1, InFacts DEF Receive
<1>4. PICK k \in Stream, e \in Numeral : e = log[p] /\ k = e.stream
    BY <1>3, LogFacts, Elements DEF InInv, LogOK
<1>5. e.chunk <=> e.what \in {"head", "tail"}
    BY <1>3, <1>4 DEF InInv, LogOK
<1>6. TakenWhole(e) \/ TakenHead(e) \/ TakenLost(e) \/ TakenTail(e) \/ TakenAgain(e)
    BY <1>3, <1>4, ReceiveOutcome
<1>7. ConnsOK' /\ ClientsOK' /\ DeliveredInSequence' /\ FewerGiven
    BY <1>1, <1>2, ConnsKeep, SameItself
<1>8. Reached = p
    BY <1>2, <1>3 DEF Reached
<1>9. ASSUME NEW m \in Stream, NEW a \in DOMAIN log, Given(m, a)
      PROVE  GivenAt(m, a) /\ Clear(m, a, p) /\ a \in Nat
    BY <1>1, <1>8, <1>9, InFacts DEF InInv, GivenOK, GivenAt
<1>10. DoneOK' /\ LogOK'
    BY <1>1, DoneKeeps, LogKeeps DEF InInv, DoneOK
<1>11. CASE TakenWhole(e) \/ TakenTail(e)
    <2>1. assembly' = None /\ reader' = [Ready EXCEPT !.pc = "handle", !.at = p] /\ e.what # "head"
        BY <1>3, <1>5, <1>11 DEF TakenWhole, TakenTail
    <2>2. reader' \in ReaderType /\ reader'.pc = "handle" /\ reader'.at = p /\ reader'.conn = 0 /\ reader'.task = 0
        BY <2>1, <1>3 DEF Ready, ReaderType
    <2>3. InHand' /\ ~AtClose' /\ Reached' = p
        BY <2>2 DEF InHand, AtClose, Reached
    <2>4. ReaderOK'
        <3>1. 0 \in 0..Len(conns')
            BY <1>1, <1>2, ConnFacts
        <3>2. (InHand => /\ reader.at = pos - 1 /\ reader.at > cursor
                         /\ log[reader.at].what # "head" /\ assembly = None)'
            BY <2>1, <2>2, <1>1, <1>3, <1>4
        <3> QED
            BY <2>2, <2>3, <3>1, <3>2, <1>1, <1>2 DEF ReaderOK, ReaderType
    <2>5. PlaceOK'
        <3>1. Chunks(cursor + 1, Reached - 1)'
            BY <2>3, <1>1, <1>8 DEF InInv, PlaceOK, Chunks
        <3>2. (cursor > 0 => log[cursor].what # "head")'
            BY <1>1 DEF InInv, PlaceOK
        <3> QED
            BY <3>1, <3>2, <1>1, <1>3 DEF PlaceOK
    <2>6. GivenOK'
        BY <2>3, <1>1, <1>3, <1>7, <1>8, GivenKeeps
    <2>7. AssemblyOK'
        <3>1. pos' \in Nat /\ pos' >= 1
            BY <1>1, <1>3
        <3> QED
            BY <2>1, <2>3, <3>1, <1>1, AssemblyFrom
    <2> QED
        BY <2>4, <2>5, <2>6, <2>7, <1>7, <1>10 DEF InInv
<1>12. CASE TakenHead(e) \/ TakenLost(e) \/ TakenAgain(e)
    <2>1. reader' = Ready /\ e.chunk
        BY <1>5, <1>12 DEF TakenHead, TakenLost, TakenAgain
    <2>2. ~InHand' /\ Reached' = p + 1 /\ pos' = p + 1
        BY <2>1, <1>1, <1>3, ReadyFields DEF InHand, Reached
    <2>3. ReaderOK'
        BY <2>1, <1>1, <1>2, ReadyOK, ConnFacts
    <2>4. Chunks(c0 + 1, p)
        <3>1. Chunks(c0 + 1, p - 1)
            BY <1>1, <1>3, <1>8 DEF InInv, PlaceOK
        <3>2. \A m \in (c0 + 1)..p : m \in (c0 + 1)..(p - 1) \/ m = p
            BY <1>3
        <3> QED
            BY <3>1, <3>2, <2>1, <1>4 DEF Chunks
    <2>5. PlaceOK'
        <3>1. Chunks(cursor + 1, Reached - 1)'
            BY <2>2, <2>4, <1>1, <1>3 DEF Chunks
        <3>2. (cursor > 0 => log[cursor].what # "head")'
            BY <1>1 DEF InInv, PlaceOK
        <3> QED
            BY <3>1, <3>2, <2>2, <1>1, <1>3 DEF PlaceOK
    <2>6. ASSUME NEW a \in DOMAIN log, Given(k, a), a < p PROVE e.what # "tail"
        <3>1. CASE TakenHead(e)
            BY <3>1 DEF TakenHead
        <3>2. ASSUME TakenLost(e) PROVE FALSE
            <4>1. e.what = "tail" /\ ~(assembly # None /\ assembly.stream = k)
                BY <3>2, <1>4 DEF TakenLost
            <4> QED
                BY <4>1, <2>6, <1>1, <1>2, <1>3, <1>4 DEF InInv, AssemblyOK
        <3>3. ASSUME TakenAgain(e), e.what = "tail" PROVE FALSE
            <4>1. PICK h \in DOMAIN log : Stands(h) /\ k = log[h].stream /\ p <= h
                BY <3>3, <1>3, <1>4 DEF TakenAgain
            <4>2. h \in Nat /\ log[h].what = "head" /\ Clear(k, a, h)
                BY <4>1, <2>6, InFacts DEF Stands
            <4>3. p # h
                BY <4>2, <3>3, <1>4
            <4>4. p \in (a + 1)..(h - 1)
                BY <4>1, <4>2, <4>3, <2>6, <1>3, <1>9
            <4>5. p \in Whole(k)
                BY <3>3, <1>3, <1>4 DEF Whole
            <4> QED
                BY <4>2, <4>4, <4>5 DEF Clear
        <3> QED
            BY <3>1, <3>2, <3>3, <1>12
    <2>7. GivenOK'
        <3> SUFFICES ASSUME NEW m \in Stream, NEW a \in DOMAIN log, Given(m, a)' PROVE GivenAt(m, a)'
            BY <1>1 DEF GivenOK
        <3>1. Given(m, a) /\ GivenAt(m, a) /\ Clear(m, a, p) /\ a \in Nat
            BY <1>7, <1>9 DEF FewerGiven
        <3>2. \A j \in (a + 1)..((p + 1) - 1) : j \notin Whole(m)
            <4> SUFFICES ASSUME NEW j \in (a + 1)..((p + 1) - 1) PROVE j \notin Whole(m)
                OBVIOUS
            <4>1. CASE j = p
                <5>1. a < p
                    BY <4>1, <3>1, <1>3
                <5>2. ASSUME p \in Whole(m) PROVE FALSE
                    <6>1. m = k /\ e.what = "tail"
                        BY <5>2, <2>1, <1>4, <1>5 DEF Whole
                    <6> QED
                        BY <6>1, <5>1, <3>1, <2>6
                <5> QED
                    BY <4>1, <5>2
            <4>2. CASE j # p
                <5>1. j \in (a + 1)..(p - 1)
                    BY <4>2, <3>1, <1>3
                <5> QED
                    BY <5>1, <3>1 DEF Clear
            <4> QED
                BY <4>1, <4>2
        <3>3. Clear(m, a, Reached)'
            BY <3>2, <2>2, <1>1 DEF Clear, Whole
        <3>4. Chunks(cursor + 1, a - 1)' /\ Clear(m, a, cursor + 1)'
            BY <3>1, <1>1 DEF GivenAt, Chunks, Clear, Whole
        <3> QED
            BY <3>1, <3>3, <3>4, <1>1 DEF GivenAt
    <2>8. ASSUME assembly' # None PROVE \E h \in DOMAIN log : Stands(h)'
        <3>1. CASE TakenHead(e)
            <4>1. /\ log[p].what = "head"
                  /\ assembly' = [stream |-> log[p].stream, seq |-> log[p].seq, next |-> 1]
                BY <3>1, <1>4 DEF TakenHead
            <4>2. \A a \in DOMAIN log : Given(k, a)' => Clear(k, a, p)'
                BY <1>1, <1>9 DEF Given, Clear, Whole
            <4>3. Chunks(cursor + 1, p)'
                BY <2>4, <1>1, <1>3 DEF Chunks
            <4>4. Stands(p)'
                BY <4>1, <4>2, <4>3, <2>2, <1>1, <1>3, <1>4 DEF Stands
            <4> QED
                BY <4>4
        <3>2. CASE TakenAgain(e)
            <4>1. PICK h \in DOMAIN log : Stands(h) /\ k = log[h].stream /\ p <= h
                BY <3>2, <1>3, <1>4 DEF TakenAgain
            <4>2. h \in Nat
                BY InFacts
            <4>3. h + 1 >= pos'
                BY <4>1, <4>2, <2>2, <1>3
            <4>4. \A a \in DOMAIN log : Given(log[h].stream, a)' => Clear(log[h].stream, a, h)'
                BY <4>1, <1>1 DEF Stands, Given, Clear, Whole
            <4>5. Chunks(cursor + 1, h)'
                BY <4>1, <1>1 DEF Stands, Chunks
            <4>6. assembly' = assembly
                BY <3>2 DEF TakenAgain
            <4>7. Stands(h)'
                BY <4>1, <4>3, <4>4, <4>5, <4>6, <1>1 DEF Stands
            <4> QED
                BY <4>7
        <3>3. CASE TakenLost(e)
            BY <3>3, <2>8 DEF TakenLost
        <3> QED
            BY <3>1, <3>2, <3>3, <1>12
    <2>9. ASSUME NEW q \in DOMAIN log, q = pos', NEW m \in Stream, m = log[q].stream,
                 log[q].what = "tail", NEW a \in DOMAIN log, Given(m, a)', a < q
          PROVE  assembly' # None /\ assembly'.stream = m /\ assembly'.seq = log[q].seq
        <3>1. q = p + 1 /\ q - 1 = p
            BY <2>2, <2>9, <1>3
        <3>2. e.what = "head" /\ m = k /\ log[q].seq = e.seq
            BY <2>9, <3>1, <1>4 DEF InInv, LogOK
        <3>3. Given(k, a)
            BY <2>9, <3>2, <1>7 DEF FewerGiven
        <3>4. CASE TakenHead(e)
            <4>1. assembly' = [stream |-> k, seq |-> e.seq, next |-> 1] /\ e.seq \in Nat
                BY <3>4, <1>3, <1>4, LogFacts DEF TakenHead, InInv
            <4>2. assembly' \in Partly
                BY <4>1 DEF Partly
            <4>3. assembly' # None
                BY <4>2, RemoteAssumption
            <4> QED
                BY <4>1, <4>3, <3>2
        <3>5. CASE TakenAgain(e)
            <4>1. PICK h \in DOMAIN log : Stands(h) /\ k = log[h].stream /\ p <= h
                BY <3>5, <1>3, <1>4 DEF TakenAgain
            <4>2. h \in Nat /\ log[h].what = "head" /\ Clear(k, a, h)
                BY <4>1, <3>3, InFacts DEF Stands
            <4>3. log[a].what # "head" /\ a \in Nat
                BY <3>3, <1>9 DEF GivenAt
            <4>4. h = p
                <5>1. ASSUME h # p PROVE FALSE
                    <6>1. h # q
                        BY <4>2, <2>9
                    <6>2. a # p
                        BY <4>3, <3>2, <1>4
                    <6>3. q \in (a + 1)..(h - 1)
                        BY <4>1, <4>2, <4>3, <5>1, <6>1, <6>2, <3>1, <2>9, <1>3
                    <6>4. q \in Whole(k)
                        BY <2>9, <3>2 DEF Whole
                    <6> QED
                        BY <6>3, <6>4, <4>2 DEF Clear
                <5> QED
                    BY <5>1
            <4>5. assembly' = [stream |-> k, seq |-> e.seq, next |-> 1] /\ e.seq \in Nat
                BY <4>1, <4>4, <3>5, <1>3, <1>4, LogFacts DEF Stands, TakenAgain, InInv
            <4>6. assembly' \in Partly
                BY <4>5 DEF Partly
            <4>7. assembly' # None
                BY <4>6, RemoteAssumption
            <4> QED
                BY <4>5, <4>7, <3>2
        <3>6. CASE TakenLost(e)
            BY <3>6, <3>2 DEF TakenLost
        <3> QED
            BY <3>4, <3>5, <3>6, <1>12
    <2>10. AssemblyOK'
        <3>1. pos' \in Nat /\ pos' >= 1
            BY <2>2, <1>3
        <3> QED
            BY <3>1, <2>8, <2>9, <1>1, AssemblyFrom
    <2> QED
        BY <2>3, <2>5, <2>7, <2>10, <1>7, <1>10 DEF InInv
<1> QED
    BY <1>6, <1>11, <1>12

-----------------------------------------------------------------------------
(* The theorems.                                                           *)

LEMMA InStep == ASSUME InInv, Next PROVE InInv'
<1>0. ConnsOK
    BY DEF InInv
<1>1. CASE Connect
    BY <1>1, InConnect
<1>2. CASE Drop \/ ForwardTimesOut \/ FirstTimesOut
    BY <1>2, InStops
<1>3. CASE Receive
    BY <1>3, InReceive
<1>4. CASE HandleSkip \/ HandleClose \/ CloseAwaited \/ Forward \/ Open \/ Record
    BY <1>4, InHandleSkip, InHandleClose, InCloseAwaited, InForward, InOpen, InRecord
<1>5. CASE Write
    BY <1>5, InUnchanged DEF Write
<1>6. ASSUME NEW k \in Stream, Expire(k) \/ Ping(k) \/ Send(k) \/ Arrive(k) \/ Ack(k)
      PROVE  InInv'
    <2>1. CASE Expire(k)
        BY <2>1, InExpire
    <2>2. CASE Ping(k) \/ Send(k) \/ Arrive(k) \/ Ack(k)
        BY <2>2, InUnchanged DEF Ping, Enqueue, Send, HandOver, Arrive, Ack
    <2> QED
        BY <1>6, <2>1, <2>2
<1>7. ASSUME NEW c \in DOMAIN conns,
             SendConnectionClosed(c) \/ Bookkeep(c) \/ AppDisconnects(c) \/ TaskEnds(c) \/ Emit(c)
      PROVE  InInv'
    <2>1. CASE SendConnectionClosed(c)
        BY <2>1, InSendClosed
    <2>2. CASE Bookkeep(c)
        BY <2>2, InBookkeep
    <2>3. CASE AppDisconnects(c)
        BY <2>3, <1>0, SameCancelled, InTask DEF AppDisconnects, Cancels
    <2>4. CASE TaskEnds(c)
        BY <2>4, <1>0, SameTask, InTask DEF TaskEnds
    <2>5. CASE Emit(c)
        BY <2>5, InUnchanged DEF Emit, Enqueue
    <2> QED
        BY <1>7, <2>1, <2>2, <2>3, <2>4, <2>5
<1> QED
    BY <1>1, <1>2, <1>3, <1>4, <1>5, <1>6, <1>7 DEF Next, Handle

LEMMA StepKeeps == ASSUME IInv, [Next]_vars PROVE IInv'
<1>1. CASE Next
    BY <1>1, InStep, OutStep DEF IInv, InInv
<1>2. CASE UNCHANGED vars
    BY <1>2, InUnchanged, OutUnchanged DEF IInv, vars
<1> QED
    BY <1>1, <1>2

(* The inductive invariant holds in every reachable state: the cursor, the WebSocket,
   the assembly and the messages given to each client fit together, and what the writer
   and the backend have of a stream covers all that was numbered. *)
THEOREM InvariantHolds == Spec => []IInv
<1>1. Init => IInv
    BY InInit, OutInit DEF IInv
<1> QED
    BY <1>1, StepKeeps, PTL DEF Spec

LEMMA TypesHold == ASSUME IInv PROVE TypeOK
<1>1. InInv /\ ConnsOK /\ ReaderOK /\ ClientsOK
    BY DEF IInv, InInv
<1>2. cursor < pos /\ pos \in 1..(Len(log) + 1) /\ cursor \in Nat /\ Len(log) \in Nat
    BY <1>1, InFacts DEF InInv, PlaceOK
<1>3. reader.at \in 0..Len(log)
    <2>1. CASE InHand
        BY <2>1, <1>1, <1>2, InFacts
    <2>2. CASE ~InHand
        BY <2>2, <1>1, <1>2 DEF ReaderOK
    <2> QED
        BY <2>1, <2>2
<1>4. /\ reader.pc \in {"ready", "handle", "reopen", "closed", "first", "record", "joined", "expired"}
      /\ {reader.conn, reader.task} \subseteq 0..Len(conns)
    BY <1>1 DEF ReaderOK
<1>5. /\ \A k \in Stream : clients[k] # None => clients[k].conn \in DOMAIN conns
      /\ closing \subseteq DOMAIN conns
    BY <1>1 DEF ClientsOK, ConnsOK
<1>6. \A c \in DOMAIN conns : /\ conns[c].stream \in Stream /\ conns[c].cancelled \in BOOLEAN
                              /\ conns[c].task \in {"running", "ended", "joined"}
    BY <1>1, ConnFacts, Zenon DEF Connection
<1>7. assembly # None => assembly.stream \in Stream /\ assembly.next = 1
    <2> SUFFICES ASSUME assembly # None PROVE assembly.stream \in Stream /\ assembly.next = 1
        OBVIOUS
    <2>1. PICK h \in DOMAIN log : assembly = [stream |-> log[h].stream, seq |-> log[h].seq, next |-> 1]
        BY <1>1 DEF InInv, AssemblyOK, Stands
    <2>2. log[h].stream \in Stream
        BY <1>1, LogFacts DEF InInv
    <2> QED
        BY <2>1, <2>2
<1> QED
    BY <1>2, <1>3, <1>4, <1>5, <1>6, <1>7 DEF TypeOK

(* The state of the transport has its types, a client's connection has been opened, and
   the assembly of client_tracker.rs and segment.rs is never a complete message. *)
THEOREM TypeCorrect == Spec => []TypeOK
BY InvariantHolds, TypesHold, PTL

(* The app server sees every connection opened first and closed last, each once, and no
   message after the close: two tasks never close one connection. *)
THEOREM ConnectionsWellFormed == Spec => []EventsWellFormed
<1>1. IInv => EventsWellFormed
    BY DEF IInv, InInv, ConnsOK, EventsOK, EventsWellFormed
<1> QED
    BY <1>1, InvariantHolds, PTL

(* A connection the app server still holds belongs to a client of the tracker, or its
   close is on the way: an aborted reader or a timed-out initialize leaves none behind. *)
THEOREM ConnectionsOwned == Spec => []NoOrphan
<1>1. IInv => NoOrphan
    BY DEF IInv, InInv, ConnsOK
<1> QED
    BY <1>1, InvariantHolds, PTL

(* A connection is given consecutive messages of its stream, each once and in order,
   whatever the backend sends again after a lost WebSocket. *)
THEOREM MessagesInSequence == Spec => []DeliveredInSequence
<1>1. IInv => DeliveredInSequence
    BY DEF IInv, InInv
<1> QED
    BY <1>1, InvariantHolds, PTL

\* A beginning and an end of a that leave no gap hold all of it.
LEMMA NoGap ==
    ASSUME NEW a \in Seq(Pair), NEW b \in Seq(Pair), NEW r \in Seq(Pair),
           StartOf(r, a), EndOf(b, a), Len(a) - Len(b) <= Len(r), NEW i \in 1..Len(a)
    PROVE  (\E j \in DOMAIN b : b[j] = a[i]) \/ (\E j \in DOMAIN r : r[j] = a[i])
<1>1. /\ Len(a) \in Nat /\ Len(b) \in Nat /\ DOMAIN b = 1..Len(b)
      /\ Len(r) \in Nat /\ DOMAIN r = 1..Len(r)
    BY Elements
<1>2. CASE i <= Len(a) - Len(b)
    <2>1. i \in DOMAIN r
        BY <1>1, <1>2
    <2> QED
        BY <2>1 DEF StartOf
<1>3. CASE i > Len(a) - Len(b)
    <2>1. i - (Len(a) - Len(b)) \in DOMAIN b /\ (Len(a) - Len(b)) + (i - (Len(a) - Len(b))) = i
        BY <1>1, <1>3
    <2>2. b[i - (Len(a) - Len(b))] = a[i]
        BY <2>1 DEF EndOf
    <2> QED
        BY <2>1, <2>2
<1> QED
    BY <1>1, <1>2, <1>3

(* A server envelope that was numbered is buffered until the backend has it. *)
THEOREM EnvelopesKept == Spec => []NothingLost
<1>1. ASSUME IInv, NEW k \in Stream, NEW i \in DOMAIN assigned[k]
      PROVE  assigned[k][i] \in Range(buffer[k]) \cup Range(received[k])
    <2>1. /\ assigned[k] \in Seq(Pair) /\ buffer[k] \in Seq(Pair) /\ received[k] \in Seq(Pair)
          /\ StartOf(received[k], assigned[k]) /\ EndOf(buffer[k], assigned[k])
          /\ Len(assigned[k]) - Len(buffer[k]) <= Len(received[k])
        BY <1>1 DEF IInv, OutInv, StreamOK
    <2>2. i \in 1..Len(assigned[k])
        BY <2>1, <1>1, Elements
    <2>3. \/ \E j \in DOMAIN buffer[k] : buffer[k][j] = assigned[k][i]
          \/ \E j \in DOMAIN received[k] : received[k][j] = assigned[k][i]
        BY <2>1, <2>2, NoGap
    <2> QED
        BY <2>3 DEF Range
<1>2. IInv => NothingLost
    BY <1>1 DEF NothingLost, Range
<1> QED
    BY <1>2, InvariantHolds, PTL

(* The backend gets the envelopes of a stream in the order of their numbers, without a
   gap, although the writer repeats its buffer on every WebSocket. *)
THEOREM EnvelopesInOrder == Spec => []ReceivedInOrder
<1>1. ASSUME IInv, NEW k \in Stream PROVE IsPrefix(received[k], assigned[k])
    <2>0. PICK a \in Seq(Pair), r \in Seq(Pair) :
              a = assigned[k] /\ r = received[k] /\ StartOf(r, a)
        BY <1>1 DEF IInv, OutInv, StreamOK
    <2>1. Len(a) \in Nat /\ DOMAIN a = 1..Len(a) /\ Len(r) \in Nat /\ DOMAIN r = 1..Len(r)
        BY <2>0, Elements
    <2>2. Len(r) <= Len(a) /\ \A i \in 1..Len(r) : r[i] = a[i]
        BY <2>0, <2>1 DEF StartOf
    <2>3. SubSeq(r, 1, Len(r)) = SubSeq(a, 1, Len(r))
        BY <2>1, <2>2
    <2> QED
        BY <2>0, <2>2, <2>3 DEF IsPrefix
<1>2. IInv => ReceivedInOrder
    BY <1>1 DEF ReceivedInOrder
<1> QED
    BY <1>2, InvariantHolds, PTL
=============================================================================
