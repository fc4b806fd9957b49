------------------------------ MODULE Session ------------------------------
(***************************************************************************)
(* The sessions of the clients: main() from accept() to close(), and class *)
(* Client.  The server knows a client by its unique_id, its socket by the  *)
(* fd, and the other side of a conversation by match_fd, the fd it had     *)
(* when the two were matched.  The kernel gives a closed fd to the next    *)
(* connection.                                                             *)
(*                                                                         *)
(* A command travels as a stream of characters of which recv() returns any *)
(* piece: several commands at a time, or a part of one.  Here a command is *)
(* two units, its text and the '\n' that ends it, and a piece ends after   *)
(* any of them.                                                            *)
(*                                                                         *)
(* Which clients are matched, and when, is left to the match queue: it may *)
(* be any two that wait (module Matching, QueuedOnce).  The clients keep   *)
(* to the protocol as they see it.  What they see lags behind: commands    *)
(* and replies cross on their way.                                         *)
(***************************************************************************)
EXTENDS Integers, SequencesExt

CONSTANTS
  MaxClients,   \* bound: the connections that are ever accepted
  MaxTry,       \* bound: the requests for a match of each client
  MaxSay        \* bound: the messages of each client

Id == 0..(MaxClients - 1)       \* unique_id

ASSUME SessionAssumption ==
  MaxClients \in Nat \ {0} /\ {MaxTry, MaxSay} \subseteq [Id -> Nat]

Fd == 1..MaxClients             \* the fds of sockets
NoFd == -1

Command == {"try_match", "send_message", "quit"}
Newline == "\n"

VARIABLES
  unique_id_count, fd_to_id,
  clients,      \* the Client of each connected id
  serving,      \* the ids whose cmd_queue main() is working on
  to_server,    \* what each connection has sent and recv() not returned
  to_client,    \* what the server has sent and the client not read
  process,      \* "running", or "terminated" by an exception
  view,         \* what each client program takes its status to be
  tries, says   \* how often it asked and talked

serverVars == <<unique_id_count, fd_to_id, clients, serving, process>>
clientVars == <<view, tries, says>>
vars == <<serverVars, to_server, to_client, clientVars>>

\* Mutant: match_fd starts at 0, which is an fd.
NewClientZero(fd) ==
  [socket_fd |-> fd, match_fd |-> 0, status |-> "IDLE",
   buffer |-> <<>>, cmd_queue |-> <<>>]

NewClient(fd) ==
  [socket_fd |-> fd, match_fd |-> NoFd, status |-> "IDLE",
   buffer |-> <<>>, cmd_queue |-> <<>>]

Init ==
  /\ unique_id_count = 0
  /\ fd_to_id = <<>> /\ clients = <<>> /\ serving = {}
  /\ to_server = [id \in Id |-> <<>>]
  /\ to_client = [id \in Id |-> <<>>]
  /\ process = "running"
  /\ view = [id \in Id |-> "outside"]
  /\ tries = [id \in Id |-> 0] /\ says = [id \in Id |-> 0]

-----------------------------------------------------------------------------
(* send(): to whoever has the fd.  A connection the client has closed, and *)
(* an fd that is not open, take nothing.                                   *)

Sent(queues, fd, cmd) ==
  IF fd \in DOMAIN fd_to_id /\ view[fd_to_id[fd]] # "outside"
  THEN [queues EXCEPT ![fd_to_id[fd]] = Append(@, cmd)]
  ELSE queues

Reply(queues, id, cmd) == Sent(queues, clients[id].socket_fd, cmd)

\* Of a match_fd that is not in the map, operator[] makes 0.
OtherSide(id) ==
  IF clients[id].match_fd \in DOMAIN fd_to_id THEN fd_to_id[clients[id].match_fd] ELSE 0

-----------------------------------------------------------------------------
(* main(), accept: the kernel takes the lowest free fd.                    *)

\* map[key] = value
WithEntry(map, key, value) ==
  [k \in DOMAIN map \union {key} |-> IF k = key THEN value ELSE map[k]]

Accept ==
  LET id == unique_id_count
      new_fd == Min(Fd \ DOMAIN fd_to_id)
  IN /\ serving = {} /\ id \in Id
     /\ fd_to_id' = WithEntry(fd_to_id, new_fd, id)
     /\ clients' = WithEntry(clients, id, NewClient(new_fd))
     /\ unique_id_count' = id + 1
     /\ view' = [view EXCEPT ![id] = "idle"]
     /\ UNCHANGED <<serving, to_server, to_client, process, tries, says>>

(* Client::socket_recv                                                     *)

\* Mutant: what is left of the last piece is dropped.
PieceOnly(buffer, piece) == piece

Joined(buffer, piece) == buffer \o piece

\* getline: the units before the first newline, and what follows it
Line(buffer) == SubSeq(buffer, 1, SelectInSeq(buffer, LAMBDA u : u = Newline) - 1)

Rest(buffer) == SubSeq(buffer, SelectInSeq(buffer, LAMBDA u : u = Newline) + 1, Len(buffer))

\* as many lines as the piece has newlines: <<the lines, what is left>>
Lines(buffer, piece) ==
  LET n == Cardinality({i \in DOMAIN piece : piece[i] = Newline})
      left[i \in 0..n] == IF i = 0 THEN buffer ELSE Rest(left[i-1])
  IN <<[i \in 1..n |-> Line(left[i-1])], left[n]>>

Recv(id) ==
  /\ serving = {} /\ id \in DOMAIN clients
  /\ \E n \in 1..Len(to_server[id]) :
       LET piece == SubSeq(to_server[id], 1, n)
           got == Lines(Joined(clients[id].buffer, piece), piece)
       IN /\ clients' = [clients EXCEPT ![id].buffer = got[2],
                                        ![id].cmd_queue = got[1]]
          /\ to_server' = [to_server EXCEPT ![id] = SubSeq(@, n + 1, Len(@))]
          /\ serving' = IF got[1] = <<>> THEN {} ELSE {id}
  /\ UNCHANGED <<unique_id_count, fd_to_id, to_client, process, clientVars>>

-----------------------------------------------------------------------------
(* main(), one turn of the loop over cmd_queue.  Taken(id) is clients with *)
(* the command gone from the queue of id.                                  *)

Taken(id) == [clients EXCEPT ![id].cmd_queue = Tail(@)]

NextLine(id) == Head(clients[id].cmd_queue)

Turn(id, cmd) ==
  /\ id \in serving /\ NextLine(id) = <<cmd>>
  /\ serving' = IF Len(clients[id].cmd_queue) = 1 THEN {} ELSE serving
  /\ UNCHANGED <<unique_id_count, fd_to_id, process, to_server, clientVars>>

\* try_match_ack
TryMatch(id) ==
  /\ Turn(id, "try_match")
  /\ clients' = [Taken(id) EXCEPT ![id].status = "MATCHING"]
  /\ to_client' = Reply(to_client, id, "try_match")

\* The echo, then the message to match_fd.
SendMessage(id) ==
  /\ Turn(id, "send_message")
  /\ clients' = Taken(id)
  /\ to_client' = Sent(Reply(to_client, id, "send_message"), clients[id].match_fd, "receive_message")

\* Mutants: the other side is not told; the status stays; a client that waits
\* is not let go.
QuitAlone(id) ==
  /\ Turn(id, "quit")
  /\ clients' = [Taken(id) EXCEPT ![id].status = "IDLE"]
  /\ to_client' = IF clients[id].status = "IDLE" THEN to_client ELSE Reply(to_client, id, "quit")

QuitKeepsStatus(id) ==
  /\ Turn(id, "quit")
  /\ clients' = Taken(id)
  /\ to_client' = IF clients[id].status = "MATCHING" THEN Reply(to_client, id, "quit")
                                                     ELSE to_client

QuitWhenTalking(id) ==
  /\ Turn(id, "quit")
  /\ \/ /\ clients[id].status = "TALKING"
        /\ clients' = [Taken(id) EXCEPT ![id].status = "IDLE",
                                        ![OtherSide(id)].status = "IDLE"]
        /\ to_client' = Reply(Reply(to_client, id, "quit"), OtherSide(id), "other_side_quit")
     \/ /\ clients[id].status # "TALKING"
        /\ clients' = Taken(id)
        /\ UNCHANGED to_client

\* quit: a client that is idle is not answered.
Quit(id) ==
  /\ Turn(id, "quit")
  /\ \/ /\ clients[id].status = "TALKING"
        /\ clients' = [Taken(id) EXCEPT ![id].status = "IDLE",
                                        ![OtherSide(id)].status = "IDLE"]
        /\ to_client' = Reply(Reply(to_client, id, "quit"), OtherSide(id), "other_side_quit")
     \/ /\ clients[id].status = "MATCHING"
        /\ clients' = [Taken(id) EXCEPT ![id].status = "IDLE"]
        /\ to_client' = Reply(to_client, id, "quit")
     \/ /\ clients[id].status = "IDLE"
        /\ clients' = Taken(id)
        /\ UNCHANGED to_client

\* A line that is no json: j is null, and get<string>() throws.
BadLine(id) ==
  /\ id \in serving /\ NextLine(id) \notin {<<cmd>> : cmd \in Command}
  /\ process' = "terminated"
  /\ UNCHANGED <<unique_id_count, fd_to_id, clients, serving, to_server, to_client,
                 clientVars>>

\* recv returns 0, or -1 after a reset: the client has closed the connection.
Disconnect(id) ==
  /\ serving = {} /\ id \in DOMAIN clients
  /\ view[id] = "outside" /\ to_server[id] = <<>>
  /\ LET talks == clients[id].status = "TALKING"
         told == IF talks THEN [clients EXCEPT ![OtherSide(id)].status = "IDLE"] ELSE clients
     IN /\ clients' = Restrict(told, DOMAIN clients \ {id})
        /\ to_client' =
             IF talks THEN Reply(to_client, OtherSide(id), "other_side_quit") ELSE to_client
  /\ fd_to_id' = Restrict(fd_to_id, DOMAIN fd_to_id \ {clients[id].socket_fd})
  /\ UNCHANGED <<unique_id_count, serving, to_server, process, clientVars>>

\* Client::handle_match, from the match queue
HandleMatch(id, target) ==
  /\ serving = {} /\ {id, target} \subseteq DOMAIN clients /\ id # target
  /\ clients[id].status = "MATCHING" /\ clients[target].status = "MATCHING"
  /\ clients' = [clients EXCEPT ![id].match_fd = clients[target].socket_fd,
                                ![target].match_fd = clients[id].socket_fd,
                                ![id].status = "TALKING", ![target].status = "TALKING"]
  /\ to_client' = Reply(Reply(to_client, id, "matched"), target, "matched")
  /\ UNCHANGED <<unique_id_count, fd_to_id, serving, to_server, process, clientVars>>

Serve(id) == TryMatch(id) \/ SendMessage(id) \/ Quit(id) \/ BadLine(id)

-----------------------------------------------------------------------------
(* The client programs.                                                    *)

Send(id, cmd) ==
  /\ to_server' = [to_server EXCEPT ![id] = @ \o <<cmd, Newline>>]
  /\ UNCHANGED <<serverVars, to_client>>

AskMatch(id) ==
  /\ view[id] = "idle" /\ tries[id] < MaxTry[id]
  /\ view' = [view EXCEPT ![id] = "matching"]
  /\ tries' = [tries EXCEPT ![id] = @ + 1]
  /\ Send(id, "try_match")
  /\ UNCHANGED says

Say(id) ==
  /\ view[id] = "talking" /\ says[id] < MaxSay[id]
  /\ says' = [says EXCEPT ![id] = @ + 1]
  /\ Send(id, "send_message")
  /\ UNCHANGED <<view, tries>>

AskQuit(id) ==
  /\ view[id] \in {"matching", "talking"}
  /\ view' = [view EXCEPT ![id] = "quitting"]
  /\ Send(id, "quit")
  /\ UNCHANGED <<tries, says>>

\* The connection is reset, and what is still on its way lost, if the client
\* closes it with replies unread.
Close(id) ==
  /\ view[id] # "outside"
  /\ view' = [view EXCEPT ![id] = "outside"]
  /\ \/ UNCHANGED to_server
     \/ to_client[id] # <<>> /\ to_server' = [to_server EXCEPT ![id] = <<>>]
  /\ to_client' = [to_client EXCEPT ![id] = <<>>]
  /\ UNCHANGED <<serverVars, tries, says>>

\* A client that waits for the end of a conversation takes the other side's
\* quit for it.
Reads(state, reply) ==
  CASE reply = "matched" /\ state = "matching" -> "talking"
    [] reply = "quit" -> "idle"
    [] reply = "other_side_quit" -> "idle"
    [] OTHER -> state

Read(id) ==
  /\ to_client[id] # <<>>
  /\ view' = [view EXCEPT ![id] = Reads(view[id], Head(to_client[id]))]
  /\ to_client' = [to_client EXCEPT ![id] = Tail(@)]
  /\ UNCHANGED <<serverVars, to_server, tries, says>>

-----------------------------------------------------------------------------
ServerNext ==
  \/ Accept
  \/ \E id \in Id : Recv(id) \/ Serve(id) \/ Disconnect(id)
  \/ \E id, target \in Id : HandleMatch(id, target)

ClientNext == \E id \in Id : AskMatch(id) \/ Say(id) \/ AskQuit(id) \/ Close(id) \/ Read(id)

Next == process = "running" /\ (ServerNext \/ ClientNext)

Spec == Init /\ [][Next]_vars

-----------------------------------------------------------------------------
Unit == Command \union {Newline}

SessionTypeOK ==
  /\ unique_id_count \in 0..MaxClients
  /\ DOMAIN fd_to_id \subseteq Fd /\ \A fd \in DOMAIN fd_to_id : fd_to_id[fd] \in Id
  /\ DOMAIN clients \subseteq Id
  /\ \A id \in DOMAIN clients :
       clients[id] \in [socket_fd : Fd, match_fd : Fd \union {NoFd},
                        status : {"IDLE", "MATCHING", "TALKING"},
                        buffer : Seq(Unit), cmd_queue : Seq(Seq(Unit))]
  /\ serving \subseteq Id /\ Cardinality(serving) <= 1
  /\ process \in {"running", "terminated"}
  /\ to_server \in [Id -> Seq(Unit)]
  /\ view \in [Id -> {"outside", "idle", "matching", "talking", "quitting"}]
  /\ tries \in [Id -> Nat] /\ says \in [Id -> Nat]
  /\ \A id \in Id : tries[id] <= MaxTry[id] /\ says[id] <= MaxSay[id]

\* The way through match_fd and fd_to_id leads from each side of a
\* conversation to the other, and back, although fds are used again: quit and
\* disconnect never touch a client that is gone or is talking to somebody
\* else.
ConversationsAgree ==
  \A id \in DOMAIN clients :
    /\ fd_to_id[clients[id].socket_fd] = id
    /\ clients[id].status = "TALKING" =>
         /\ clients[id].match_fd \in DOMAIN fd_to_id
         /\ LET other == OtherSide(id)
            IN /\ other \in DOMAIN clients \ {id}
               /\ clients[other].status = "TALKING"
               /\ OtherSide(other) = id

\* However recv() cuts and joins the commands, every line that main() takes
\* from cmd_queue is one whole command; a piece of one would end the server.
ServerSurvives == process = "running"

\* A client that keeps to the protocol is idle on the server, too, by the time
\* its try_match is served, although its view of the status is old: main()
\* need not test it.
AsksWhenIdle ==
  \A id \in serving :
    NextLine(id) = <<"try_match">> => clients[id].status = "IDLE"

\* Whenever nothing is on its way, client and server agree on the status.  So
\* a client that quits learns that it is over, even when the other side or
\* the match queue was quicker and its quit is not answered.
ViewsAgree ==
  \A id \in DOMAIN clients :
    /\ view[id] # "outside" /\ id \notin serving
    /\ to_server[id] = <<>> /\ to_client[id] = <<>>
    => <<view[id], clients[id].status>> \in
         {<<"idle", "IDLE">>, <<"matching", "MATCHING">>, <<"talking", "TALKING">>}

\* client.cpp: "to otherside".  The message goes to the client that the sender
\* was matched with, and to nobody who is in a conversation with somebody else
\* or in none: its match_fd leads back to the sender.
MessagesToOtherSide ==
  [][\A id, receiver \in Id :
       /\ SendMessage(id)
       /\ to_client'[receiver] # to_client[receiver]
       /\ Last(to_client'[receiver]) = "receive_message"
       => clients[receiver].match_fd = clients[id].socket_fd]_vars
=============================================================================
