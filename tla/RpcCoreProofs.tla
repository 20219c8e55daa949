--------------------------- MODULE RpcCoreProofs ---------------------------
(***************************************************************************)
(* Theorems about RpcCore, for any number of client threads, coroutines    *)
(* and server threads and any messages lost: the assertion on a reply      *)
(* nobody waits for never fails, a coroutine has one message under way,    *)
(* and it resumes with the reply to its own call.                          *)
(*                                                                         *)
(* The messages carry no call number, so none of this is inductive by      *)
(* itself.  It rests on three facts: a message under way belongs to a      *)
(* paused coroutine and to its last call (Waiting), the station waits      *)
(* exactly for the paused coroutines (StationInv), and a session is        *)
(* entered only under the id of the client it leads to (SessionInv).       *)
(***************************************************************************)
EXTENDS RpcCore, TLAPS

\* A message under way is of the last call of its coroutine.
Waiting == \A m \in reqs \union replies : m.call = calls[m.client][m.cor]

\* The station's entry of a coroutine is pending exactly while it is paused.
StationInv ==
    \A c \in Clients, i \in Cors :
        cor[c][i] = "paused" <=> station[c][i].pending_replies = 1

\* Replies through a session go to the client whose id it has.
SessionInv ==
    \A s \in Servers, d \in Ids :
        sessions[s][d] # NoClient => SessionId[sessions[s][d]] = d

\* A thread has sent its Connect message before its coroutines run, and an
\* accepted one has left a session.
ConnInv ==
    \A c \in Clients :
        /\ conn[c] = "none" => worker[c] = "connecting"
        /\ conn[c] = "lost" => "Connect" \in lossy
        /\ conn[c] = "received" => sessions[ServerOf[c]][SessionId[c]] # NoClient
        /\ worker[c] \in {"connecting", "ready"} => \A i \in Cors : cor[c][i] = "new"

IInv ==
    /\ TypeOK
    /\ OneOutstanding
    /\ Waiting
    /\ StationInv
    /\ SessionInv
    /\ ConnInv
    /\ ReplyIsMine
    /\ NoAssertFails

\* The initial state of both processes: no thread has connected.
LEMMA InitIInv == Init => IInv
<1> SUFFICES ASSUME Init PROVE IInv
    OBVIOUS
<1> USE RpcAssumption DEF Init
<1>1. TypeOK
    BY DEF TypeOK, ReplyEntry, Message
<1>2. OneOutstanding /\ Waiting
    BY DEF OneOutstanding, Waiting
<1>3. StationInv /\ ReplyIsMine
    BY DEF StationInv, ReplyIsMine
<1>4. SessionInv
    BY DEF SessionInv
<1>5. ConnInv /\ NoAssertFails
    BY DEF ConnInv, NoAssertFails
<1> QED
    BY <1>1, <1>2, <1>3, <1>4, <1>5 DEF IInv

\* Steps that change neither a coroutine nor a message nor a session: the two
\* main threads, the end of a process.
LEMMA MainSteps ==
    IInv /\ (Start \/ Stop \/ Exit \/ ServerStart \/ ServerStop) => IInv'
<1> SUFFICES ASSUME IInv, Start \/ Stop \/ Exit \/ ServerStart \/ ServerStop
             PROVE  IInv'
    OBVIOUS
<1>0. UNCHANGED <<lossy, worker, conn, cor, calls, station, sessions, reqs, replies>>
    BY DEF Start, Stop, Exit, ServerStart, ServerStop
<1>1. TypeOK'
    BY <1>0 DEF IInv, TypeOK, Start, Stop, Exit, ServerStart, ServerStop
<1>2. NoAssertFails'
    BY <1>0 DEF IInv, NoAssertFails, Start, Stop, Exit, ServerStart, ServerStop
<1>3. (OneOutstanding /\ Waiting /\ StationInv /\ SessionInv /\ ConnInv /\ ReplyIsMine)'
    BY <1>0 DEF IInv, OneOutstanding, Waiting, StationInv, SessionInv, ConnInv, ReplyIsMine
<1> QED
    BY <1>1, <1>2, <1>3 DEF IInv

\* rolex_client_worker up to the scheduler, the Connect message included.
LEMMA ConnectSteps ==
    ASSUME IInv, NEW c \in Clients,
           Connect(c) \/ ConnectTimeout(c) \/ LoseConnect(c)
    PROVE  IInv'
<1>0. UNCHANGED <<lossy, cor, calls, station, sessions, reqs, replies>>
    BY DEF Connect, ConnectTimeout, LoseConnect
<1>1. TypeOK'
    BY <1>0 DEF IInv, TypeOK, Connect, ConnectTimeout, LoseConnect
<1>2. NoAssertFails'
    BY <1>0 DEF IInv, NoAssertFails, Connect, ConnectTimeout, LoseConnect
<1>3. (OneOutstanding /\ Waiting /\ StationInv /\ SessionInv /\ ReplyIsMine)'
    BY <1>0 DEF IInv, OneOutstanding, Waiting, StationInv, SessionInv, ReplyIsMine
<1>4. ConnInv'
    BY <1>0 DEF IInv, TypeOK, ConnInv, Connect, ConnectTimeout, LoseConnect
<1> QED
    BY <1>1, <1>2, <1>3, <1>4 DEF IInv

\* The coroutines of a thread start: none of them has a message under way.
LEMMA SpawnStep ==
    ASSUME IInv, NEW c \in Clients, Spawn(c)
    PROVE  IInv'
<1>0. UNCHANGED <<lossy, conn, calls, station, sessions, reqs, replies, halted>>
    BY DEF Spawn
<1>1. TypeOK'
    BY <1>0 DEF IInv, TypeOK, Spawn
<1>2. \A i \in Cors : cor[c][i] = "new"
    BY DEF IInv, ConnInv, Spawn
<1>3. \A m \in reqs \union replies : m.client # c
    BY <1>2 DEF IInv, TypeOK, OneOutstanding, Message
<1>4. \A d \in Clients, i \in Cors :
        cor'[d][i] = IF d = c THEN "active" ELSE cor[d][i]
    BY DEF IInv, TypeOK, Spawn
<1>5. OneOutstanding'
    BY <1>0, <1>3, <1>4 DEF IInv, TypeOK, OneOutstanding, Message
<1>6. Waiting' /\ SessionInv' /\ NoAssertFails'
    BY <1>0 DEF IInv, Waiting, SessionInv, NoAssertFails
<1>7. StationInv' /\ ReplyIsMine'
    BY <1>0, <1>2, <1>4 DEF IInv, StationInv, ReplyIsMine
<1>8. ConnInv'
    BY <1>0, <1>4 DEF IInv, TypeOK, ConnInv, Spawn
<1> QED
    BY <1>1, <1>5, <1>6, <1>7, <1>8 DEF IInv

\* Resume and Finish: a coroutine that is not paused stays so.
LEMMA ResumeFinishSteps ==
    ASSUME IInv, NEW c \in Clients, NEW i \in Cors, Resume(c, i) \/ Finish(c, i)
    PROVE  IInv'
<1>0. UNCHANGED <<lossy, conn, calls, station, sessions, reqs, replies, halted>>
    BY DEF Resume, Finish
<1>1. TypeOK'
  <2>1. PICK w \in {"active", "done"} : cor' = [cor EXCEPT ![c][i] = w]
      BY DEF Resume, Finish
  <2>2. cor' \in [Clients -> [Cors -> {"new", "active", "paused", "resumed", "done"}]]
      BY <2>1 DEF IInv, TypeOK
  <2>3. worker' \in [Clients -> {"connecting", "ready", "scheduling", "stopped"}]
      BY DEF IInv, TypeOK, Resume, Finish
  <2>4. main' = main /\ server' = server
      BY DEF Resume, Finish
  <2> QED
      BY <1>0, <2>2, <2>3, <2>4 DEF IInv, TypeOK
<1>2. cor[c][i] # "paused" /\ cor'[c][i] \in {"active", "done"}
    BY DEF IInv, TypeOK, Resume, Finish
<1>3. \A d \in Clients, j \in Cors : <<d, j>> # <<c, i>> => cor'[d][j] = cor[d][j]
    BY DEF IInv, TypeOK, Resume, Finish
<1>4. OneOutstanding'
    BY <1>0, <1>2, <1>3 DEF IInv, TypeOK, OneOutstanding, Message
<1>5. Waiting' /\ SessionInv' /\ NoAssertFails'
    BY <1>0 DEF IInv, Waiting, SessionInv, NoAssertFails
<1>6. StationInv' /\ ReplyIsMine'
    BY <1>0, <1>2, <1>3 DEF IInv, StationInv, ReplyIsMine
<1>7. worker[c] = "scheduling" /\ worker'[c] \in {"scheduling", "stopped"}
    BY DEF IInv, TypeOK, Resume, Finish
<1>8. \A d \in Clients : d # c => worker'[d] = worker[d]
    BY DEF IInv, TypeOK, Resume, Finish
<1>9. ConnInv'
    BY <1>0, <1>3, <1>7, <1>8 DEF IInv, ConnInv
<1> QED
    BY <1>1, <1>4, <1>5, <1>6, <1>9 DEF IInv

\* A remote operation up to its pause: the coroutine had no message under way.
LEMMA CallStep ==
    ASSUME IInv, NEW c \in Clients, NEW i \in Cors, Call(c, i)
    PROVE  IInv'
<1> DEFINE new == [client |-> c, cor |-> i, call |-> calls[c][i] + 1]
<1>0. /\ UNCHANGED <<lossy, worker, conn, sessions, replies, halted, main, server>>
      /\ reqs' = reqs \union {new}
      /\ cor[c][i] = "active" /\ worker[c] = "scheduling"
    BY DEF Call
<1>1. station[c][i].pending_replies = 0
    BY <1>0 DEF IInv, TypeOK, StationInv, ReplyEntry
<1>2. \A d \in Clients, j \in Cors :
        /\ cor'[d][j] = IF d = c /\ j = i THEN "paused" ELSE cor[d][j]
        /\ calls'[d][j] = IF d = c /\ j = i THEN calls[c][i] + 1 ELSE calls[d][j]
        /\ station'[d][j] = IF d = c /\ j = i
                             THEN [pending_replies |-> 1, reply_buf |-> 0]
                             ELSE station[d][j]
    BY <1>1 DEF IInv, TypeOK, Call, pause, add_pending_reply
<1>3. TypeOK'
  <2>1. calls' \in [Clients -> [Cors -> Nat]] /\ new \in Message
      BY DEF IInv, TypeOK, Call, Message
  <2>2. cor' \in [Clients -> [Cors -> {"new", "active", "paused", "resumed", "done"}]]
      BY DEF IInv, TypeOK, Call, pause
  <2>3. station' \in [Clients -> [Cors -> ReplyEntry]]
      BY <1>1 DEF IInv, TypeOK, Call, add_pending_reply, ReplyEntry
  <2> QED
      BY <1>0, <2>1, <2>2, <2>3 DEF IInv, TypeOK
<1>4. \A m \in reqs \union replies : m.client \in Clients /\ m.cor \in Cors
    BY DEF IInv, TypeOK, Message
<1>5. \A m \in reqs \union replies : ~(m.client = c /\ m.cor = i)
    BY <1>0 DEF IInv, OneOutstanding
<1>6. OneOutstanding'
    BY <1>0, <1>2, <1>4, <1>5 DEF IInv, OneOutstanding
<1>7. Waiting'
    BY <1>0, <1>2, <1>4, <1>5 DEF IInv, Waiting
<1>8. StationInv' /\ ReplyIsMine'
    BY <1>2 DEF IInv, StationInv, ReplyIsMine
<1>9. SessionInv' /\ NoAssertFails' /\ ConnInv'
    BY <1>0, <1>2 DEF IInv, SessionInv, NoAssertFails, ConnInv
<1> QED
    BY <1>3, <1>6, <1>7, <1>8, <1>9 DEF IInv

\* The polling coroutine: a reply under way finds its coroutine paused, so the
\* assertion holds, and it is the reply to the coroutine's last call.
LEMMA PollStep ==
    ASSUME IInv, NEW c \in Clients, NEW m \in replies, PollReply(c, m)
    PROVE  IInv'
<1> DEFINE i == m.cor
<1>0. /\ UNCHANGED <<lossy, worker, conn, calls, sessions, reqs, main, server>>
      /\ replies' = replies \ {m}
      /\ m.client = c /\ i \in Cors /\ worker[c] = "scheduling"
      /\ m.call = calls[c][i] /\ m.call \in Nat
      /\ cor[c][i] = "paused"
    BY DEF IInv, TypeOK, Message, Waiting, OneOutstanding, PollReply, polls
<1>1. station[c][i].pending_replies = 1
    BY <1>0 DEF IInv, StationInv
<1>2. ~cor_ready(station[c][i])
    BY <1>1 DEF cor_ready
<1>3. append_reply(station[c][i], m) = [pending_replies |-> 0, reply_buf |-> m.call]
    BY <1>1 DEF append_reply
<1>4. /\ halted' = halted
      /\ station' = [station EXCEPT ![c][i] = [pending_replies |-> 0, reply_buf |-> m.call]]
      /\ cor' = [cor EXCEPT ![c] = [@ EXCEPT ![i] = "resumed"]]
    BY <1>0, <1>2, <1>3 DEF PollReply, cor_ready, addback_coroutine
<1>5. \A d \in Clients, j \in Cors :
        /\ cor'[d][j] = IF d = c /\ j = i THEN "resumed" ELSE cor[d][j]
        /\ station'[d][j] = IF d = c /\ j = i
                             THEN [pending_replies |-> 0, reply_buf |-> m.call]
                             ELSE station[d][j]
    BY <1>0, <1>4 DEF IInv, TypeOK
<1>6. TypeOK'
  <2>1. cor' \in [Clients -> [Cors -> {"new", "active", "paused", "resumed", "done"}]]
      BY <1>0, <1>4 DEF IInv, TypeOK
  <2>2. station' \in [Clients -> [Cors -> ReplyEntry]]
      BY <1>0, <1>4 DEF IInv, TypeOK, ReplyEntry
  <2> QED
      BY <1>0, <1>4, <2>1, <2>2 DEF IInv, TypeOK
<1>7. \A n \in reqs' \union replies' :
        n.client \in Clients /\ n.cor \in Cors /\ ~(n.client = c /\ n.cor = i)
    BY <1>0 DEF IInv, TypeOK, Message, OneOutstanding
<1>8. OneOutstanding'
    BY <1>0, <1>5, <1>7 DEF IInv, OneOutstanding
<1>9. Waiting' /\ SessionInv' /\ NoAssertFails'
    BY <1>0, <1>4 DEF IInv, Waiting, SessionInv, NoAssertFails
<1>10. StationInv' /\ ReplyIsMine'
    BY <1>0, <1>5 DEF IInv, StationInv, ReplyIsMine
<1>11. ConnInv'
    BY <1>0, <1>5 DEF IInv, ConnInv
<1> QED
    BY <1>6, <1>8, <1>9, <1>10, <1>11 DEF IInv

\* recv_event_loop on a Connect message: the session it enters leads to its
\* sender.
LEMMA AcceptStep ==
    ASSUME IInv, NEW c \in Clients, AcceptConnect(c)
    PROVE  IInv'
<1> DEFINE s0 == ServerOf[c]
           d0 == SessionId[c]
<1>0. UNCHANGED <<lossy, worker, cor, calls, station, reqs, replies, main, server, halted>>
    BY DEF AcceptConnect
<1>1. s0 \in Servers /\ d0 \in Ids /\ c # NoClient
    BY RpcAssumption
<1>2. \A s \in Servers, d \in Ids :
        sessions'[s][d] = IF s = s0 /\ d = d0 /\ sessions[s][d] = NoClient
                            THEN c ELSE sessions[s][d]
    BY <1>1 DEF IInv, TypeOK, AcceptConnect, add_new_session
<1>3. sessions' \in [Servers -> [Ids -> Clients \union {NoClient}]]
    BY <1>1 DEF IInv, TypeOK, AcceptConnect, add_new_session
<1>4. TypeOK'
    BY <1>0, <1>3 DEF IInv, TypeOK, AcceptConnect
<1>5. (OneOutstanding /\ Waiting /\ StationInv /\ ReplyIsMine /\ NoAssertFails)'
    BY <1>0 DEF IInv, OneOutstanding, Waiting, StationInv, ReplyIsMine, NoAssertFails
<1>6. SessionInv'
    BY <1>1, <1>2 DEF IInv, SessionInv
<1>7. ConnInv'
  <2>1. \A e \in Clients : ServerOf[e] \in Servers /\ SessionId[e] \in Ids
      BY RpcAssumption
  <2>2. \A e \in Clients : conn'[e] = IF e = c THEN "received" ELSE conn[e]
      BY DEF IInv, TypeOK, AcceptConnect
  <2> QED
      BY <1>0, <1>1, <1>2, <2>1, <2>2 DEF IInv, ConnInv
<1> QED
    BY <1>4, <1>5, <1>6, <1>7 DEF IInv

\* recv_event_loop on a request: its session leads back to its sender, so the
\* reply takes the place of the request.
LEMMA ServeStep ==
    ASSUME IInv, NEW c \in Clients, NEW m \in reqs, Serve(c, m)
    PROVE  IInv'
<1> DEFINE to == sessions[ServerOf[c]][SessionId[c]]
<1>0. /\ UNCHANGED <<lossy, worker, conn, cor, calls, station, sessions, main, server>>
      /\ reqs' = reqs \ {m}
      /\ m.client = c /\ conn[c] # "sent"
      /\ m \in Message /\ m.cor \in Cors
    BY DEF IInv, TypeOK, Message, Serve
<1>1. ServerOf[c] \in Servers /\ SessionId[c] \in Ids
    BY RpcAssumption
<1>2. cor[c][m.cor] = "paused"
    BY <1>0 DEF IInv, OneOutstanding
<1>3. conn[c] \in {"received", "lost"}
    BY <1>0, <1>2 DEF IInv, TypeOK, ConnInv
<1>4. CASE to = NoClient
  <2>1. halted' = "session" /\ replies' = replies
      BY <1>4 DEF Serve
  <2>2. "Connect" \in lossy
      BY <1>3, <1>4 DEF IInv, ConnInv
  <2>3. TypeOK'
      BY <1>0, <2>1 DEF IInv, TypeOK
  <2>4. (OneOutstanding /\ Waiting)'
      BY <1>0, <2>1 DEF IInv, OneOutstanding, Waiting
  <2>5. (StationInv /\ SessionInv /\ ConnInv /\ ReplyIsMine)'
      BY <1>0 DEF IInv, StationInv, SessionInv, ConnInv, ReplyIsMine
  <2>6. NoAssertFails'
      BY <1>0, <2>1, <2>2 DEF NoAssertFails
  <2> QED
      BY <2>3, <2>4, <2>5, <2>6 DEF IInv
<1>5. CASE to # NoClient
  <2>1. to \in Clients /\ SessionId[to] = SessionId[c]
      BY <1>1, <1>5 DEF IInv, TypeOK, SessionInv
  <2>2. to = c
      BY <2>1, IdAssumption
  <2>3. [m EXCEPT !.client = to] = m
      BY <1>0, <2>2 DEF Message
  <2>4. halted' = halted /\ replies' = replies \union {m}
      BY <1>5, <2>3 DEF Serve
  <2>5. TypeOK'
      BY <1>0, <2>4 DEF IInv, TypeOK
  <2>6. (OneOutstanding /\ Waiting)'
      BY <1>0, <2>4 DEF IInv, OneOutstanding, Waiting
  <2>7. (StationInv /\ SessionInv /\ ConnInv /\ ReplyIsMine /\ NoAssertFails)'
      BY <1>0, <2>4 DEF IInv, StationInv, SessionInv, ConnInv, ReplyIsMine, NoAssertFails
  <2> QED
      BY <2>5, <2>6, <2>7 DEF IInv
<1> QED
    BY <1>4, <1>5

\* A request or a reply is lost: its coroutine stays paused for good.
LEMMA LoseSteps ==
    ASSUME IInv, NEW m, LoseRequest(m) \/ LoseReply(m)
    PROVE  IInv'
<1>0. /\ UNCHANGED <<lossy, worker, conn, cor, calls, station, sessions, main, server, halted>>
      /\ reqs' \subseteq reqs /\ replies' \subseteq replies
    BY DEF LoseRequest, LoseReply
<1>1. TypeOK'
    BY <1>0 DEF IInv, TypeOK
<1>2. (OneOutstanding /\ Waiting)'
    BY <1>0 DEF IInv, OneOutstanding, Waiting
<1>3. (StationInv /\ SessionInv /\ ConnInv /\ ReplyIsMine /\ NoAssertFails)'
    BY <1>0 DEF IInv, StationInv, SessionInv, ConnInv, ReplyIsMine, NoAssertFails
<1> QED
    BY <1>1, <1>2, <1>3 DEF IInv

\* Every step of the two processes and the network keeps the invariant.
LEMMA NextIInv == IInv /\ [Next]_vars => IInv'
<1> SUFFICES ASSUME IInv, [Next]_vars PROVE IInv'
    OBVIOUS
<1>1. CASE \E c \in Clients : Connect(c) \/ ConnectTimeout(c) \/ LoseConnect(c)
    BY <1>1, ConnectSteps
<1>2. CASE \E c \in Clients : Spawn(c)
    BY <1>2, SpawnStep
<1>3. CASE \E c \in Clients : AcceptConnect(c)
    BY <1>3, AcceptStep
<1>4. CASE \E c \in Clients, i \in Cors : Call(c, i)
    BY <1>4, CallStep
<1>5. CASE \E c \in Clients, i \in Cors : Resume(c, i) \/ Finish(c, i)
    BY <1>5, ResumeFinishSteps
<1>6. CASE \E c \in Clients : \E m \in reqs : Serve(c, m)
    BY <1>6, ServeStep
<1>7. CASE \E c \in Clients : \E m \in replies : PollReply(c, m)
    BY <1>7, PollStep
<1>8. CASE Start \/ Stop \/ Exit \/ ServerStart \/ ServerStop
    BY <1>8, MainSteps
<1>9. CASE (\E m \in reqs : LoseRequest(m)) \/ (\E m \in replies : LoseReply(m))
    BY <1>9, LoseSteps
<1>10. CASE UNCHANGED vars
  <2>1. (TypeOK /\ OneOutstanding /\ Waiting)'
      BY <1>10 DEF IInv, vars, TypeOK, OneOutstanding, Waiting
  <2>2. (StationInv /\ SessionInv /\ ConnInv /\ ReplyIsMine /\ NoAssertFails)'
      BY <1>10 DEF IInv, vars, StationInv, SessionInv, ConnInv, ReplyIsMine, NoAssertFails
  <2> QED
      BY <2>1, <2>2 DEF IInv
<1> QED
    BY <1>1, <1>2, <1>3, <1>4, <1>5, <1>6, <1>7, <1>8, <1>9, <1>10 DEF Next

\* The conjunction of all the invariants holds in every state.
LEMMA IInvHolds == Spec => []IInv
    BY InitIInv, NextIInv, PTL DEF Spec

\* A coroutine that comes back from its pause has the reply to its own call,
\* for any threads and coroutines and any losses.
THEOREM ReplyIsMineHolds == Spec => []ReplyIsMine
<1>1. IInv => ReplyIsMine
    BY DEF IInv
<1> QED
    BY <1>1, IInvHolds, PTL

\* The assertion on append_reply never fails, and only a lost Connect message
\* can end the server at a request without a session.
THEOREM NoAssertFailsHolds == Spec => []NoAssertFails
<1>1. IInv => NoAssertFails
    BY DEF IInv
<1> QED
    BY <1>1, IInvHolds, PTL

\* A coroutine has at most one message under way, and only while it is paused.
THEOREM OneOutstandingHolds == Spec => []OneOutstanding
<1>1. IInv => OneOutstanding
    BY DEF IInv
<1> QED
    BY <1>1, IInvHolds, PTL
=============================================================================
