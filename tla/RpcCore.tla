------------------------------ MODULE RpcCore ------------------------------
(***************************************************************************)
(* Remote calls over unreliable datagrams (xcomm/src/rpc,                  *)
(* xcomm/src/transport/rdma_ud_t.hh), as the workers of the benchmarks use *)
(* them.  A client process has threads, each with coroutines that call a   *)
(* server thread and pause; the thread's polling coroutine puts a reply    *)
(* into the buffer that the reply station holds for the coroutine and adds *)
(* the coroutine back to the scheduler.                                    *)
(*                                                                         *)
(* A message names its coroutine and nothing else: there is no sequence    *)
(* number.  The number `call' is not in the code; the payload of a request *)
(* and of its reply is abstracted to it.  The datagrams of the kinds in    *)
(* lossy may be lost.  A thread's Connect message is not overtaken by its  *)
(* requests; other messages arrive in any order.                           *)
(***************************************************************************)
EXTENDS Integers

CONSTANTS
    Clients,       \* the threads of the client process
    coros,         \* BenConfig.coros; coroutine 0 polls, 1 .. coros call
    Servers,       \* the threads of the server process
    ServerOf,      \* [Clients -> Servers], thread_id % mem_threads
    SessionId,     \* [Clients -> Ids], start_threads + thread_id
    Ids,
    NumCors,       \* entries of the reply station, 12 in the workers
    MaxCalls,      \* [Clients -> [Cors -> Nat]], bound on the calls of a coroutine
    Losses         \* the possible values of lossy

Cors == 1 .. coros
NoClient == "none"

ASSUME RpcAssumption ==
    /\ coros \in Nat
    /\ NumCors \in Nat
    /\ ServerOf \in [Clients -> Servers]
    /\ SessionId \in [Clients -> Ids]
    /\ NoClient \notin Clients
    /\ coros < NumCors
    /\ MaxCalls \in [Clients -> [Cors -> Nat]]
    /\ Losses \subseteq SUBSET {"Connect", "Req", "Reply"}

\* "assumption: the id is not in the incoming_sessions" (rdma_ud_t.hh:127).
ASSUME IdAssumption == \A c, d \in Clients : SessionId[c] = SessionId[d] => c = d

VARIABLES
    lossy,       \* the kinds of message that may be lost
    worker,      \* [Clients -> state of the thread]
    conn,        \* [Clients -> state of its Connect message]
    cor,         \* [Clients -> [Cors -> state of the coroutine]]
    calls,       \* [Clients -> [Cors -> number of its last call]]
    station,     \* [Clients -> [Cors -> entry of the reply station]]
    sessions,    \* [Servers -> [Ids -> the client that replies go to]]
    reqs, replies,
    main,        \* the client's main thread
    server,      \* the state of the server process
    halted       \* why the client or the server process has ended

vars == <<lossy, worker, conn, cor, calls, station, sessions, reqs, replies,
          main, server, halted>>

Message == [client : Clients, cor : Cors, call : Nat]
ReplyEntry == [pending_replies : {0, 1}, reply_buf : Nat]

Init ==
    /\ lossy \in Losses
    /\ worker = [c \in Clients |-> "connecting"]
    /\ conn = [c \in Clients |-> "none"]
    /\ cor = [c \in Clients |-> [i \in Cors |-> "new"]]
    /\ calls = [c \in Clients |-> [i \in Cors |-> 0]]
    /\ station = [c \in Clients |-> [i \in Cors |->
                    [pending_replies |-> 0, reply_buf |-> 0]]]
    /\ sessions = [s \in Servers |-> [d \in Ids |-> NoClient]]
    /\ reqs = {}
    /\ replies = {}
    /\ main = "waiting"
    /\ server = "starting"
    /\ halted = "no"

Up == halted = "no"

\* The flag of the client process.
running == main = "measuring"

----------------------------------------------------------------------------
(* The client process. *)

\* The worker has fetched the server's address, sends its Connect message and
\* counts itself ready.
Connect(c) ==
    /\ Up /\ worker[c] = "connecting"
    /\ server # "stopped"
    /\ worker' = [worker EXCEPT ![c] = "ready"]
    /\ conn' = [conn EXCEPT ![c] = "sent"]
    /\ UNCHANGED <<lossy, cor, calls, station, sessions, reqs, replies, main, server, halted>>

\* After 60 seconds without an answer the assertion on the session fails.
ConnectTimeout(c) ==
    /\ Up /\ worker[c] = "connecting"
    /\ halted' = "connect"
    /\ UNCHANGED <<lossy, worker, conn, cor, calls, station, sessions, reqs, replies, main, server>>

\* run_benchmark: all workers are ready.
Start ==
    /\ Up /\ main = "waiting"
    /\ \A c \in Clients : worker[c] = "ready"
    /\ main' = "measuring"
    /\ UNCHANGED <<lossy, worker, conn, cor, calls, station, sessions, reqs, replies, server, halted>>

\* The worker spawns its coroutines and runs the scheduler.
Spawn(c) ==
    /\ Up /\ running
    /\ worker[c] = "ready"
    /\ worker' = [worker EXCEPT ![c] = "scheduling"]
    /\ cor' = [cor EXCEPT ![c] = [i \in Cors |-> "active"]]
    /\ UNCHANGED <<lossy, conn, calls, station, sessions, reqs, replies, main, server, halted>>

\* Wrong: only the buffer is set.
add_pending_reply_buf(entry) == [entry EXCEPT !.reply_buf = 0]

\* add_pending_reply does nothing, and says so to nobody, when the entry still
\* waits for a reply.
add_pending_reply(entry) ==
    IF entry.pending_replies > 0 THEN entry ELSE [pending_replies |-> 1, reply_buf |-> 0]

\* Wrong: an operation that does not wait for its reply.
pause_not(cs, i) == cs

\* R2_PAUSE_AND_YIELD takes the coroutine out of the ring.
pause(cs, i) == [cs EXCEPT ![i] = "paused"]

\* A remote operation up to its pause: the entry of the reply station, the
\* request, the pause.
Call(c, i) ==
    /\ Up /\ running
    /\ worker[c] = "scheduling"
    /\ cor[c][i] = "active"
    /\ calls[c][i] < MaxCalls[c][i]
    /\ station' = [station EXCEPT ![c][i] = add_pending_reply(@)]
    /\ calls' = [calls EXCEPT ![c][i] = @ + 1]
    /\ reqs' = reqs \union {[client |-> c, cor |-> i, call |-> calls[c][i] + 1]}
    /\ cor' = [cor EXCEPT ![c] = pause(@, i)]
    /\ UNCHANGED <<lossy, worker, conn, sessions, replies, main, server, halted>>

\* The rest of the remote operation, which reads the reply's buffer.
Resume(c, i) ==
    /\ Up
    /\ worker[c] = "scheduling"
    /\ cor[c][i] = "resumed"
    /\ cor' = [cor EXCEPT ![c][i] = "active"]
    /\ UNCHANGED <<lossy, worker, conn, calls, station, sessions, reqs, replies, main, server, halted>>

\* A coroutine that finds running cleared returns; the last one stops the
\* scheduler, and with it the polling.
Finish(c, i) ==
    /\ Up /\ ~running
    /\ worker[c] = "scheduling"
    /\ cor[c][i] = "active"
    /\ cor' = [cor EXCEPT ![c][i] = "done"]
    /\ worker' = [worker EXCEPT ![c] = IF i = coros THEN "stopped" ELSE @]
    /\ UNCHANGED <<lossy, conn, calls, station, sessions, reqs, replies, main, server, halted>>

cor_ready(entry) == entry.pending_replies = 0

\* Wrong: the reply is counted and its content is not copied.
append_reply_no_copy(entry, m) == [entry EXCEPT !.pending_replies = @ - 1]

append_reply(entry, m) == [pending_replies |-> entry.pending_replies - 1, reply_buf |-> m.call]

\* The coroutine is in the scheduler's ring again.
addback_coroutine(cs, i) == [cs EXCEPT ![i] = "resumed"]

\* Wrong: only a scheduler with another coroutine to run polls.
polls_between(c) == worker[c] = "scheduling" /\ \E i \in Cors : cor[c][i] \in {"active", "resumed"}

\* The polling future stays in the scheduler's ring until the scheduler stops.
polls(c) == worker[c] = "scheduling"

\* The polling coroutine takes a reply: the assertion fails when nobody waits
\* for it, otherwise the coroutine is added back once all replies are there.
PollReply(c, m) ==
    /\ Up /\ polls(c)
    /\ m \in replies /\ m.client = c
    /\ replies' = replies \ {m}
    /\ IF cor_ready(station[c][m.cor])
         THEN halted' = "append" /\ UNCHANGED <<station, cor>>
         ELSE /\ LET e == append_reply(station[c][m.cor], m) IN
                   /\ station' = [station EXCEPT ![c][m.cor] = e]
                   /\ cor' = IF cor_ready(e)
                               THEN [cor EXCEPT ![c] = addback_coroutine(@, m.cor)] ELSE cor
              /\ UNCHANGED halted
    /\ UNCHANGED <<lossy, worker, conn, calls, sessions, reqs, main, server>>

\* The end of the measured time: run_benchmark clears the flag and exits
\* without waiting for its workers.
Stop ==
    /\ Up /\ running
    /\ main' = "ended"
    /\ UNCHANGED <<lossy, worker, conn, cor, calls, station, sessions, reqs, replies, server, halted>>
Exit ==
    /\ Up /\ main = "ended"
    /\ halted' = "exit"
    /\ UNCHANGED <<lossy, worker, conn, cor, calls, station, sessions, reqs, replies, main, server>>

----------------------------------------------------------------------------
(* The server process. *)

\* main: the workers have registered their callbacks, running is set; it is
\* cleared after the measured time.
ServerStart ==
    /\ Up /\ server = "starting"
    /\ server' = "running"
    /\ UNCHANGED <<lossy, worker, conn, cor, calls, station, sessions, reqs, replies, main, halted>>
ServerStop ==
    /\ Up /\ server = "running"
    /\ server' = "stopped"
    /\ UNCHANGED <<lossy, worker, conn, cor, calls, station, sessions, reqs, replies, main, halted>>

\* add_impl inserts the session: an id that is already there keeps its old one.
add_new_session(tab, c) ==
    IF tab[SessionId[c]] = NoClient THEN [tab EXCEPT ![SessionId[c]] = c] ELSE tab

\* recv_event_loop on a Connect message.
AcceptConnect(c) ==
    /\ Up /\ server = "running"
    /\ conn[c] = "sent"
    /\ conn' = [conn EXCEPT ![c] = "received"]
    /\ sessions' = [sessions EXCEPT ![ServerOf[c]] = add_new_session(@, c)]
    /\ UNCHANGED <<lossy, worker, cor, calls, station, reqs, replies, main, server, halted>>

\* recv_event_loop on a request: the callback sends its reply through the
\* session of the sender's id.  incoming_sesions[id] of an unknown id makes an
\* empty entry, whose use ends the server.
Serve(c, m) ==
    /\ Up /\ server = "running"
    /\ conn[c] # "sent"
    /\ m \in reqs /\ m.client = c
    /\ reqs' = reqs \ {m}
    /\ LET to == sessions[ServerOf[c]][SessionId[c]] IN
         IF to = NoClient
           THEN halted' = "session" /\ UNCHANGED replies
           ELSE replies' = replies \union {[m EXCEPT !.client = to]} /\ UNCHANGED halted
    /\ UNCHANGED <<lossy, worker, conn, cor, calls, station, sessions, main, server>>

----------------------------------------------------------------------------
(* The network loses messages. *)

LoseConnect(c) ==
    /\ "Connect" \in lossy /\ conn[c] = "sent"
    /\ conn' = [conn EXCEPT ![c] = "lost"]
    /\ UNCHANGED <<lossy, worker, cor, calls, station, sessions, reqs, replies, main, server, halted>>
LoseRequest(m) ==
    /\ "Req" \in lossy /\ m \in reqs
    /\ reqs' = reqs \ {m}
    /\ UNCHANGED <<lossy, worker, conn, cor, calls, station, sessions, replies, main, server, halted>>
LoseReply(m) ==
    /\ "Reply" \in lossy /\ m \in replies
    /\ replies' = replies \ {m}
    /\ UNCHANGED <<lossy, worker, conn, cor, calls, station, sessions, reqs, main, server, halted>>

Next ==
    \/ \E c \in Clients :
         \/ Connect(c) \/ ConnectTimeout(c) \/ Spawn(c) \/ AcceptConnect(c) \/ LoseConnect(c)
         \/ \E i \in Cors : Call(c, i) \/ Resume(c, i) \/ Finish(c, i)
         \/ \E m \in reqs : Serve(c, m)
         \/ \E m \in replies : PollReply(c, m)
    \/ Start \/ Stop \/ Exit \/ ServerStart \/ ServerStop
    \/ \E m \in reqs : LoseRequest(m)
    \/ \E m \in replies : LoseReply(m)

Spec == Init /\ [][Next]_vars

\* The server's loop and the polling coroutine never block, and the scheduler
\* is round robin; nothing forces main to stop, or a message to be lost.
Fairness ==
    /\ WF_vars(ServerStart)
    /\ \A c \in Clients :
         /\ WF_vars(AcceptConnect(c))
         /\ WF_vars(\E m \in reqs : Serve(c, m))
         /\ WF_vars(\E m \in replies : PollReply(c, m))
         /\ WF_vars(Spawn(c))
         /\ \A i \in Cors : WF_vars(Resume(c, i))

FairSpec == Spec /\ Fairness

----------------------------------------------------------------------------
(* Properties. *)

\* Types: an entry of the reply station waits for at most one reply.
TypeOK ==
    /\ lossy \subseteq {"Connect", "Req", "Reply"}
    /\ worker \in [Clients -> {"connecting", "ready", "scheduling", "stopped"}]
    /\ conn \in [Clients -> {"none", "sent", "received", "lost"}]
    /\ cor \in [Clients -> [Cors -> {"new", "active", "paused", "resumed", "done"}]]
    /\ calls \in [Clients -> [Cors -> Nat]]
    /\ station \in [Clients -> [Cors -> ReplyEntry]]
    /\ sessions \in [Servers -> [Ids -> Clients \union {NoClient}]]
    /\ reqs \subseteq Message /\ replies \subseteq Message
    /\ main \in {"waiting", "measuring", "ended"}
    /\ server \in {"starting", "running", "stopped"}
    /\ halted \in {"no", "connect", "append", "session", "exit"}

\* A coroutine that comes back from its pause finds the reply to its own last
\* call in its buffer (remote_search reads reply_buf after R2_PAUSE_AND_YIELD),
\* although the messages name only the coroutine.
ReplyIsMine ==
    \A c \in Clients, i \in Cors :
        cor[c][i] = "resumed" => station[c][i].reply_buf = calls[c][i]

\* The assertion on append_reply (mod.hh) never fails, whatever is lost; a
\* request without a session ends the server only when a Connect was lost.
NoAssertFails ==
    /\ halted # "append"
    /\ halted = "session" => "Connect" \in lossy

\* A coroutine has at most one message under way, and none unless it is paused.
OneOutstanding ==
    /\ reqs \intersect replies = {}
    /\ \A m, n \in reqs \union replies : m.client = n.client /\ m.cor = n.cor => m = n
    /\ \A m \in reqs \union replies : cor[m.client][m.cor] = "paused"

\* Without losses a call returns, unless one of the two processes ends first.
CallsReturn ==
    \A c \in Clients, i \in Cors :
        (lossy = {} /\ cor[c][i] = "paused")
            ~> (cor[c][i] = "active" \/ server = "stopped" \/ ~running \/ ~Up)
=============================================================================
