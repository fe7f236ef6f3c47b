--------------------------- MODULE RemoteControl ---------------------------
(***************************************************************************)
(* The remote-control transport of the app server                          *)
(* (app-server-transport/src/transport/remote_control): one WebSocket to a *)
(* backend carries the streams of a remote client.  A reader hands client  *)
(* messages to the app server through the ClientTracker, a writer numbers, *)
(* buffers and sends what the app server answers, and both outlive the     *)
(* WebSocket: after a reconnection the backend resumes behind the          *)
(* subscribe cursor and the writer repeats what was not acknowledged.      *)
(*                                                                         *)
(* One client is modelled; clients share only the queues and the limit on  *)
(* assemblies, which it is assumed not to reach.  A client envelope is     *)
(* identified by its place in the log the backend keeps.                   *)
(***************************************************************************)
EXTENDS Integers, Sequences, FiniteSets, SequencesExt

CONSTANTS Stream,          \* the stream ids of the client
          None,
          Capacity,        \* CHANNEL_CAPACITY
          MaxLog,          \* bound: envelopes of the client
          MaxConnections,  \* bound: connections opened
          MaxDrops,        \* bound: losses of the WebSocket
          MaxTimeouts,     \* bound: sends to the app server that time out
          MaxTraffic       \* bound: client envelopes and server events together

\* An entry of ClientTracker.clients, and a message that is being put together.
Client == [conn : Nat, last : Nat]
Partly == [stream : Stream, seq : Nat, next : Nat]

ASSUME RemoteAssumption ==
    /\ {Capacity, MaxLog, MaxConnections, MaxDrops, MaxTimeouts, MaxTraffic} \subseteq Nat
    /\ Capacity > 0 /\ None \notin Stream \cup Nat /\ None \notin Client /\ None \notin Partly

VARIABLES log,             \* the envelopes of the client, kept by the backend
          pos,             \* the next of them on this WebSocket
          connected,       \* the WebSocket is up
          cursor,          \* subscribe_cursor, as a place in the log
          reader,          \* run_websocket_reader_inner: where it is
          clients,         \* ClientTracker.clients
          conns,           \* the connections of the app server, and their outbound tasks
          closing,         \* the connections whose ConnectionClosed is being sent
          chunkDone,       \* last_completed_client_chunk_seq_id_by_stream, 0 for none
          assembly,        \* the ClientSegmentAssembly of the client
          queue,           \* the server event channel
          nextOut,         \* next_seq_id_by_stream
          buffer,          \* outbound_buffer
          toSend,          \* what the writer is about to send
          wire,            \* what it has handed to this WebSocket and has not arrived
          assigned,        \* history: the server envelopes that were given a number
          received,        \* history: those the backend has got, repetitions left out
          drops, timeouts

inbound == <<log, pos, cursor, reader, clients, conns, closing, chunkDone, assembly>>
outbound == <<queue, nextOut, buffer, toSend, wire, assigned, received>>
vars == <<inbound, outbound, connected, drops, timeouts>>

-----------------------------------------------------------------------------
(* The client (external).  What it sends is an input, chosen at the start; the *)
(* backend may keep any of it back.                                            *)

Envelope == [stream : Stream, what : {"init", "message", "head", "tail", "close"}]

\* The envelopes of a stream between its last close and place i.
Session(l, i) == {j \in 1..(i - 1) :
    /\ l[j].stream = l[i].stream /\ l[j].what # "close"
    /\ \A c \in j..(i - 1) : l[c] # [stream |-> l[i].stream, what |-> "close"]}

\* A session begins with an initialize; the two chunks of a message follow one another.
Scripts == {l \in BoundedSeq(Envelope, MaxLog) : \A i \in DOMAIN l :
    /\ Session(l, i) = {} => l[i].what = "init"
    /\ l[i].what = "tail" => i > 1 /\ l[i - 1] = [l[i] EXCEPT !.what = "head"]
    /\ l[i].what = "head" => i < Len(l) /\ l[i + 1] = [l[i] EXCEPT !.what = "tail"]}

\* The messages of a session are numbered from one; chunks share a number.
Numbered(l) == [i \in DOMAIN l |->
    [stream |-> l[i].stream, what |-> l[i].what, chunk |-> l[i].what \in {"head", "tail"},
     seg |-> IF l[i].what = "tail" THEN 1 ELSE 0,
     seq |-> Cardinality({j \in Session(l, i) : l[j].what # "tail"})
             + IF l[i].what \in {"tail", "close"} THEN 0 ELSE 1]]

Ready == [pc |-> "ready", at |-> 0, conn |-> 0, task |-> 0]

Init ==
    /\ log \in {Numbered(l) : l \in Scripts}
    /\ pos = 1 /\ cursor = 0 /\ connected = FALSE
    /\ reader = Ready
    /\ clients = [k \in Stream |-> None]
    /\ conns = <<>> /\ closing = {}
    /\ chunkDone = [k \in Stream |-> 0] /\ assembly = None
    /\ queue = <<>> /\ nextOut = [k \in Stream |-> 1]
    /\ buffer = [k \in Stream |-> <<>>]
    /\ toSend = [k \in Stream |-> <<>>] /\ wire = [k \in Stream |-> <<>>]
    /\ assigned = [k \in Stream |-> <<>>] /\ received = [k \in Stream |-> <<>>]
    /\ drops = 0 /\ timeouts = 0

-----------------------------------------------------------------------------
(* The WebSocket.                                                          *)

\* Mutant: what was sent but not acknowledged is not repeated.
Nothing == [k \in Stream |-> <<>>]

\* The writer starts with a copy of the buffer.
Unacked == buffer

\* connect: the backend resumes behind the cursor it is given.
Connect ==
    /\ ~connected
    /\ connected' = TRUE /\ pos' = cursor + 1 /\ toSend' = Unacked
    /\ UNCHANGED <<log, cursor, reader, clients, conns, closing, chunkDone, assembly,
                   queue, nextOut, buffer, wire, assigned, received, drops, timeouts>>

\* The connection's workers are gone, wherever they were, and with the WebSocket the
\* frames that were sent and have not arrived.
Stop == /\ connected' = FALSE /\ reader' = Ready
        /\ toSend' = [k \in Stream |-> <<>>] /\ wire' = [k \in Stream |-> <<>>]

\* The WebSocket is lost, and the reader stops between two messages, or is aborted in
\* the middle of one by join_connection_workers.
Drop ==
    /\ connected /\ drops < MaxDrops
    /\ drops' = drops + 1
    /\ Stop
    /\ UNCHANGED <<log, pos, cursor, clients, conns, closing, chunkDone, assembly,
                   queue, nextOut, buffer, assigned, received, timeouts>>

-----------------------------------------------------------------------------
(* Reassembly of client messages.                                          *)

\* should_ignore_chunk, and the chunks of messages that were completed before.
Ignored(e) ==
    \/ chunkDone[e.stream] >= e.seq
    \/ /\ assembly # None /\ assembly.stream = e.stream
       /\ \/ e.seq < assembly.seq
          \/ e.seq = assembly.seq /\ e.seg < assembly.next

\* observe: the assembly the chunk finds, a fresh one if there is none of its stream.
Assembly(e) == IF assembly # None /\ assembly.stream = e.stream THEN assembly
               ELSE [stream |-> e.stream, seq |-> e.seq, next |-> 0]

Fits(e) == Assembly(e).seq = e.seq /\ Assembly(e).next = e.seg

Completes(e) == Fits(e) /\ e.what = "tail"

\* Mutant: the assembly stays when its message is complete.
NextAssemblyKept(e) == IF ~Fits(e) THEN None ELSE [Assembly(e) EXCEPT !.next = @ + 1]

NextAssembly(e) == IF ~Fits(e) \/ Completes(e) THEN None
                   ELSE [Assembly(e) EXCEPT !.next = @ + 1]

\* The reader takes an envelope, and hands on a whole message.
Receive ==
    /\ connected /\ reader.pc = "ready" /\ pos <= Len(log)
    /\ pos' = pos + 1
    /\ LET e == log[pos]
       IN /\ assembly' = IF e.chunk /\ ~Ignored(e) THEN NextAssembly(e) ELSE assembly
          /\ reader' = IF e.chunk => ~Ignored(e) /\ Completes(e)
                       THEN [Ready EXCEPT !.pc = "handle", !.at = pos] ELSE Ready
    /\ UNCHANGED <<log, cursor, clients, conns, closing, chunkDone,
                   outbound, connected, drops, timeouts>>

-----------------------------------------------------------------------------
(* ClientTracker.                                                          *)

Message == log[reader.at]
Key == Message.stream
IsMessage == Message.what \in {"message", "tail"}

Goto(pc) == reader' = [reader EXCEPT !.pc = pc]

Opened == <<"opened">>
Closed == <<"closed">>
Incoming(i) == <<"message", i>>

\* An event reaches the app server's queue.
Tell(c, event) == conns' = [conns EXCEPT ![c].events = Append(@, event)]

Duplicate == /\ IsMessage /\ clients[Key] # None
             /\ clients[Key].last >= Message.seq

\* Nothing to do for this message.
HandleSkip ==
    /\ reader.pc = "handle"
    /\ Duplicate \/ (Message.what # "init" /\ clients[Key] = None)
    /\ Goto("record")
    /\ UNCHANGED <<log, pos, cursor, clients, conns, closing, chunkDone, assembly,
                   outbound, connected, drops, timeouts>>

\* Mutant: the client is looked up and not removed.
KeepClient(k) ==
    /\ conns' = [conns EXCEPT ![clients[k].conn].cancelled = TRUE]
    /\ closing' = closing \cup {clients[k].conn}
    /\ UNCHANGED clients

\* close_client: the client is forgotten, its task cancelled, and a task of its own
\* sends ConnectionClosed, whatever becomes of the caller.
CloseClient(k) ==
    /\ clients' = [clients EXCEPT ![k] = None]
    /\ conns' = [conns EXCEPT ![clients[k].conn].cancelled = TRUE]
    /\ closing' = closing \cup {clients[k].conn}

\* A close, or an initialize on a stream that is open.
HandleClose ==
    /\ reader.pc = "handle" /\ Message.what \in {"init", "close"} /\ clients[Key] # None
    /\ CloseClient(Key)
    /\ reader' = [reader EXCEPT !.conn = clients[Key].conn,
                     !.pc = IF Message.what = "init" THEN "reopen" ELSE "closed"]
    /\ UNCHANGED <<log, pos, cursor, chunkDone, assembly, outbound, connected, drops, timeouts>>

\* The task that sends ConnectionClosed gets room in the queue.
SendConnectionClosed(c) ==
    /\ c \in closing
    /\ closing' = closing \ {c} /\ Tell(c, Closed)
    /\ UNCHANGED <<log, pos, cursor, reader, clients, chunkDone, assembly,
                   outbound, connected, drops, timeouts>>

\* invalidate_stream and invalidate_client_message_stream
Invalidate(k) ==
    /\ chunkDone' = [chunkDone EXCEPT ![k] = 0]
    /\ assembly' = IF assembly # None /\ assembly.stream = k THEN None ELSE assembly

\* The reader has waited for the close.
CloseAwaited ==
    /\ reader.pc \in {"reopen", "closed", "joined", "expired"} /\ reader.conn \notin closing
    /\ IF reader.pc \in {"joined", "expired"}
       THEN reader' = Ready /\ Invalidate(conns[reader.conn].stream)
       ELSE /\ Goto(IF reader.pc = "reopen" THEN "handle" ELSE "record")
            /\ UNCHANGED <<chunkDone, assembly>>
    /\ UNCHANGED <<log, pos, cursor, clients, conns, closing, outbound, connected, drops, timeouts>>

\* Mutant: the sequence id is not kept.
NotRecorded(k) == UNCHANGED clients

\* record_inbound_message_delivery
RecordDelivery(k) == clients' = [clients EXCEPT ![k].last = Message.seq]

\* A new message of an open stream is forwarded, or the first one of a new client.
Forward ==
    /\ \/ reader.pc = "handle" /\ IsMessage /\ clients[Key] # None /\ ~Duplicate
       \/ reader.pc = "first"
    /\ Tell(clients[Key].conn, Incoming(reader.at))
    /\ RecordDelivery(Key)
    /\ Goto("record")
    /\ UNCHANGED <<log, pos, cursor, closing, chunkDone, assembly,
                   outbound, connected, drops, timeouts>>

\* An initialize on a free stream: ConnectionOpened, the outbound task, the client.
Open ==
    /\ reader.pc = "handle" /\ Message.what = "init" /\ clients[Key] = None
    /\ Len(conns) < MaxConnections
    /\ conns' = Append(conns, [stream |-> Key, events |-> <<Opened>>,
                               cancelled |-> FALSE, task |-> "running"])
    /\ clients' = [clients EXCEPT ![Key] = [conn |-> Len(conns) + 1, last |-> 0]]
    /\ Goto("first")
    /\ UNCHANGED <<log, pos, cursor, closing, chunkDone, assembly,
                   outbound, connected, drops, timeouts>>

\* The app server's queue stays full: Stopped, and the connection ends.
ForwardTimesOut ==
    /\ reader.pc = "handle" /\ timeouts < MaxTimeouts
    /\ \/ IsMessage /\ clients[Key] # None /\ ~Duplicate
       \/ Message.what = "init" /\ clients[Key] = None
    /\ timeouts' = timeouts + 1
    /\ Stop
    /\ UNCHANGED <<log, pos, cursor, clients, conns, closing, chunkDone, assembly,
                   queue, nextOut, buffer, assigned, received, drops>>

\* Mutant: the client is forgotten and its connection stays open.
ForgetClient(k) ==
    /\ clients' = [clients EXCEPT ![k] = None]
    /\ conns' = [conns EXCEPT ![clients[k].conn].cancelled = TRUE]
    /\ UNCHANGED closing

\* remove_client, cancel and spawn_connection_closed, without waiting.
AbandonClient(k) == CloseClient(k)

FirstTimesOut ==
    /\ reader.pc = "first" /\ timeouts < MaxTimeouts
    /\ timeouts' = timeouts + 1
    /\ AbandonClient(Key)
    /\ Stop
    /\ UNCHANGED <<log, pos, cursor, chunkDone, assembly,
                   queue, nextOut, buffer, assigned, received, drops>>

\* record_client_message_delivery, and the invalidation after a close.
Record ==
    /\ reader.pc = "record"
    /\ cursor' = reader.at
    /\ CASE Message.what = "close" -> Invalidate(Key)
         [] Message.chunk -> /\ chunkDone' = [chunkDone EXCEPT ![Key] = Message.seq]
                                 /\ UNCHANGED assembly
         [] OTHER -> UNCHANGED <<chunkDone, assembly>>
    /\ reader' = Ready
    /\ UNCHANGED <<log, pos, clients, conns, closing, outbound, connected, drops, timeouts>>

\* bookkeep_join_set: a task has ended, and whoever has its key now is closed.
Bookkeep(c) ==
    /\ connected /\ reader.pc = "ready" /\ conns[c].task = "ended"
    /\ LET k == conns[c].stream
       IN IF clients[k] = None
          THEN /\ conns' = [conns EXCEPT ![c].task = "joined"]
               /\ Invalidate(k)
               /\ UNCHANGED <<clients, closing, reader>>
          ELSE /\ clients' = [clients EXCEPT ![k] = None]
               /\ conns' = [conns EXCEPT ![c].task = "joined", ![clients[k].conn].cancelled = TRUE]
               /\ closing' = closing \cup {clients[k].conn}
               /\ reader' = [Ready EXCEPT !.pc = "joined", !.conn = clients[k].conn, !.task = c]
               /\ UNCHANGED <<chunkDone, assembly>>
    /\ UNCHANGED <<log, pos, cursor, outbound, connected, drops, timeouts>>

\* close_expired_clients: a client has been silent for ten minutes.
Expire(k) ==
    /\ connected /\ reader.pc = "ready" /\ clients[k] # None
    /\ CloseClient(k)
    /\ reader' = [Ready EXCEPT !.pc = "expired", !.conn = clients[k].conn]
    /\ UNCHANGED <<log, pos, cursor, chunkDone, assembly, outbound, connected, drops, timeouts>>

\* The app server gives up a connection (disconnect_sender).
AppDisconnects(c) ==
    /\ ~conns[c].cancelled
    /\ conns' = [conns EXCEPT ![c].cancelled = TRUE]
    /\ UNCHANGED <<log, pos, cursor, reader, clients, closing, chunkDone, assembly,
                   outbound, connected, drops, timeouts>>

\* run_client_outbound ends.
TaskEnds(c) ==
    /\ conns[c].task = "running" /\ conns[c].cancelled
    /\ conns' = [conns EXCEPT ![c].task = "ended"]
    /\ UNCHANGED <<log, pos, cursor, reader, clients, closing, chunkDone, assembly,
                   outbound, connected, drops, timeouts>>

-----------------------------------------------------------------------------
(* Server events.                                                          *)

Used == LET Total[S \in SUBSET Stream] ==
                IF S = {} THEN 0 ELSE LET k == CHOOSE x \in S : TRUE
                                      IN Len(buffer[k]) + Total[S \ {k}]
        IN Total[Stream]

Events == LET Total[S \in SUBSET Stream] ==
                IF S = {} THEN 0 ELSE LET k == CHOOSE x \in S : TRUE
                                      IN nextOut[k] - 1 + Total[S \ {k}]
          IN Total[Stream] + Len(queue)

Enqueue(k) == /\ Len(log) + Events + 1 <= MaxTraffic
              /\ queue' = Append(queue, k)
              /\ UNCHANGED <<inbound, nextOut, buffer, toSend, wire, assigned, received,
                             connected, drops, timeouts>>

\* run_client_outbound forwards a message of the app server.
Emit(c) == conns[c].task = "running" /\ Enqueue(conns[c].stream)

\* A ping is answered by the client's task, or by one of its own without a client.
Ping(k) ==
    /\ connected /\ reader.pc = "ready"
    /\ clients[k] # None => conns[clients[k].conn].task = "running"
    /\ Enqueue(k)

\* The writer has handed over what it took before and takes an event.  It splits it
\* (into none if it is too large), buffers and numbers it in one go; when that fails
\* the event is skipped and no number used.
Write ==
    /\ connected /\ \A k \in Stream : toSend[k] = <<>>
    /\ queue # <<>> /\ Used < Capacity
    /\ queue' = Tail(queue)
    /\ \/ LET k == Head(queue)
          IN \E count \in 0..2 :
               LET envelopes == [i \in 1..count |-> <<nextOut[k], i - 1>>]
               IN /\ nextOut' = [nextOut EXCEPT ![k] = @ + 1]
                  /\ buffer' = [buffer EXCEPT ![k] = @ \o envelopes]
                  /\ assigned' = [assigned EXCEPT ![k] = @ \o envelopes]
                  /\ toSend' = [toSend EXCEPT ![k] = envelopes]
       \/ UNCHANGED <<nextOut, buffer, assigned, toSend>>
    /\ UNCHANGED <<inbound, wire, received, connected, drops, timeouts>>

\* A frame is handed to the WebSocket: websocket_writer.send returns.
HandOver(k) ==
    /\ connected /\ toSend[k] # <<>>
    /\ toSend' = [toSend EXCEPT ![k] = Tail(@)]
    /\ wire' = [wire EXCEPT ![k] = Append(@, Head(toSend[k]))]

\* Mutant: what was sent is freed without waiting for its acknowledgement.
SendAndFree(k) ==
    /\ HandOver(k)
    /\ buffer' = [buffer EXCEPT ![k] = SelectSeq(@, LAMBDA e : e # Head(toSend[k]))]
    /\ UNCHANGED <<inbound, queue, nextOut, assigned, received, connected, drops, timeouts>>

Send(k) ==
    /\ HandOver(k)
    /\ UNCHANGED <<inbound, queue, nextOut, buffer, assigned, received, connected, drops,
                   timeouts>>

\* A frame reaches the backend (external).
Arrive(k) ==
    /\ connected /\ wire[k] # <<>>
    /\ wire' = [wire EXCEPT ![k] = Tail(@)]
    /\ received' = IF Head(wire[k]) \in Range(received[k]) THEN received
                   ELSE [received EXCEPT ![k] = Append(@, Head(wire[k]))]
    /\ UNCHANGED <<inbound, queue, nextOut, buffer, toSend, assigned, connected, drops,
                   timeouts>>

\* ack: (seq_id, segment_id) in lexical order; without a segment the whole message.
Acked(envelope, seq, seg) == \/ envelope[1] < seq
                             \/ envelope[1] = seq /\ (seg = None \/ envelope[2] <= seg)

\* VecDeque::retain: the elements of q at the places in K.
Nth(K, i) == CHOOSE j \in K : Cardinality({m \in K : m <= j}) = i
Retain(q, K) == [i \in 1..Cardinality(K) |-> q[Nth(K, i)]]

\* An acknowledgement of something the backend has, possibly an old one.
Ack(k) ==
    /\ connected /\ reader.pc = "ready"
    /\ \E e \in Range(received[k]), whole \in BOOLEAN :
          /\ whole => \A f \in Range(assigned[k]) : f[1] = e[1] => f \in Range(received[k])
          /\ buffer' = [buffer EXCEPT ![k] = Retain(@, {i \in DOMAIN @ :
                            ~Acked(@[i], e[1], IF whole THEN None ELSE e[2])})]
    /\ UNCHANGED <<inbound, queue, nextOut, toSend, wire, assigned, received, connected, drops,
                   timeouts>>

-----------------------------------------------------------------------------
Handle == HandleSkip \/ HandleClose \/ CloseAwaited \/ Forward \/ Open
          \/ ForwardTimesOut \/ FirstTimesOut \/ Record

Next ==
    \/ Connect \/ Drop \/ Receive \/ Handle \/ Write
    \/ \E k \in Stream : Expire(k) \/ Ping(k) \/ Send(k) \/ Arrive(k) \/ Ack(k)
    \/ \E c \in DOMAIN conns : \/ SendConnectionClosed(c) \/ Bookkeep(c) \/ AppDisconnects(c)
                               \/ TaskEnds(c) \/ Emit(c)

Spec == Init /\ [][Next]_vars

-----------------------------------------------------------------------------
\* The state of the transport has its types; a client's connection has been opened,
\* and an assembly that is complete is not left behind.
TypeOK ==
    /\ cursor < pos /\ pos \in 1..(Len(log) + 1)
    /\ reader.pc \in {"ready", "handle", "reopen", "closed", "first", "record", "joined", "expired"}
    /\ reader.at \in 0..Len(log) /\ {reader.conn, reader.task} \subseteq 0..Len(conns)
    /\ \A k \in Stream : clients[k] # None => clients[k].conn \in DOMAIN conns
    /\ closing \subseteq DOMAIN conns
    /\ \A c \in DOMAIN conns : /\ conns[c].stream \in Stream /\ conns[c].cancelled \in BOOLEAN
                               /\ conns[c].task \in {"running", "ended", "joined"}
    /\ assembly # None => assembly.stream \in Stream /\ assembly.next = 1

\* For the app server a connection is opened once, first of all, and closed at most
\* once, last of all: no message reaches a connection after its close.
EventsWellFormed ==
    \A c \in DOMAIN conns : \A i \in DOMAIN conns[c].events :
        /\ i = 1 <=> conns[c].events[i] = Opened
        /\ conns[c].events[i] = Closed => i = Len(conns[c].events)

\* No connection of the app server is orphaned: one that is not closed belongs to a
\* client the tracker knows, or its close is on the way, also when the initialize
\* timed out or the reader was aborted in the middle of a close.
NoOrphan ==
    \A c \in DOMAIN conns : Last(conns[c].events) # Closed =>
        c \in closing \/ \E k \in Stream : clients[k] # None /\ clients[k].conn = c

\* The whole messages of a stream, by the place of their last envelope.
Whole(k) == {i \in DOMAIN log : log[i].stream = k /\ log[i].what # "head"}

\* What a connection is given are consecutive messages of its stream, each once, in
\* order and without a gap, although WebSockets are lost, sends time out, and readers
\* are aborted between a delivery and its record.
DeliveredInSequence ==
    \A c \in DOMAIN conns : \A i \in 1..(Len(conns[c].events) - 1) : \A a, b \in DOMAIN log :
        conns[c].events[i] = Incoming(a) /\ conns[c].events[i + 1] = Incoming(b) =>
            a < b /\ \A j \in Whole(conns[c].stream) : ~(a < j /\ j < b)

\* No server envelope is lost: what was given a number is in the buffer until the
\* backend has it.
NothingLost == \A k \in Stream : Range(assigned[k]) \subseteq Range(buffer[k]) \cup Range(received[k])

\* The backend gets the envelopes of a stream in the order they were numbered.
ReceivedInOrder == \A k \in Stream : IsPrefix(received[k], assigned[k])

\* "cancelled_outbound_task_emits_connection_closed" (client_tracker.rs): the close that
\* follows the end of an outbound task is that of the task's connection.
OwnConnectionClosed == reader.pc = "joined" => reader.conn = reader.task
=============================================================================
