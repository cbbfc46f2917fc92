------------------------------ MODULE GameNet -------------------------------
(***************************************************************************)
(* jni/http_client.rs and jni/websocket.rs: the Java objects through which *)
(* the game makes requests and web sockets, kept in tables by their        *)
(* address, and the thread each request and each connection runs on.       *)
(***************************************************************************)
EXTENDS Integers, Sequences, FiniteSets, SequencesExt

CONSTANTS Requests,                \* addresses of request objects
          Calls,                   \* libHttpClient's call handles
          BodySize,                \* bytes of a call's body
          Sockets,                 \* addresses of web socket objects
          GameThreads,
          MaxConnects              \* bound: connections made

ASSUME NetAssumption ==
    /\ BodySize \in [Calls -> Nat] /\ MaxConnects \in Nat
    /\ "none" \notin Calls \cup Sockets /\ GameThreads \cap 1 .. MaxConnects = {}

VARIABLES part,                    \* which half is exercised
          table,                   \* REQUEST_STATES: address -> number of a state
          states,                  \* the request states (Arc)
          call,                    \* the call handles
          workers,                 \* threads of requests
          sock,                    \* the web socket states
          conn,                    \* connections: stream, its lock and its reader
          op,                      \* what a thread calls
          tableLock                \* who holds WS_STATES and a state in it

httpVars == <<table, states, call, workers>>
socketVars == <<sock, conn, op, tableLock>>
netVars == <<part, httpVars, socketVars>>

None == "none"
NoRequest == 0

---------------------------------------------------------------------------
(* Requests *)

NewState == [url |-> None, handle |-> None, length |-> 0, body |-> 0]
RequestInit(a) ==
    /\ table[a] = NoRequest /\ Len(states) < Cardinality(Calls)
    /\ states' = Append(states, NewState)
    /\ table' = [table EXCEPT ![a] = Len(states) + 1]
    /\ UNCHANGED <<call, workers>>
RequestDestroy(a) ==
    /\ table[a] # NoRequest /\ table' = [table EXCEPT ![a] = NoRequest]
    /\ UNCHANGED <<states, call, workers>>
Started(s) == \E w \in DOMAIN workers : workers[w].state = s

\* A call is given to an object by its setters and then started.  The url
\* stands for the header lines too.
SetHttpUrl(a, c) ==
    /\ table[a] # NoRequest /\ ~Started(table[a])
    /\ states[table[a]].url = None
    /\ \A s \in DOMAIN states : states[s].url # c
    /\ states' = [states EXCEPT ![table[a]].url = c]
    /\ UNCHANGED <<table, call, workers>>
SetHttpMethodAndBody(a) ==
    /\ table[a] # NoRequest /\ ~Started(table[a]) /\ states[table[a]].url # None
    /\ states' = [states EXCEPT ![table[a]].handle = states[table[a]].url,
                                ![table[a]].length = BodySize[states[table[a]].url]]
    /\ UNCHANGED <<table, call, workers>>

\* read_call_request_body: the read function of the call is asked until it
\* has given all, gives nothing, or fails; what it gave so far is the body.
BodyRead(c) == IF BodySize[c] = 0 THEN {0} ELSE 0 .. BodySize[c]
\* do_request_async, on the thread of the game.
DoRequestAsync(a, c) ==
    /\ table[a] # NoRequest /\ ~Started(table[a])
    /\ states[table[a]].url = c /\ states[table[a]].handle \in {c, None}
    /\ LET s == table[a]
       IN \E got \in IF states[s].length > 0 THEN BodyRead(c) ELSE {0} :
             /\ states' = [states EXCEPT ![s].handle = c, ![s].body = got]
             /\ workers' = Append(workers, [state |-> s, object |-> a, source |-> c,
                                            handle |-> c, at |-> "start", sent |-> NewState])
    /\ UNCHANGED <<table, call>>

\* The worker reads the state it was given, whatever became of the object.
StateOf(w) == workers[w].state
\* Mutant: the state is looked up by the object's address again.
StateLookedUp(w) == IF table[workers[w].object] # NoRequest THEN table[workers[w].object] ELSE workers[w].state
WorkerSends(w) ==
    /\ workers[w].at = "start"
    /\ workers' = [workers EXCEPT ![w].at = "sent", ![w].sent = states[StateOf(w)]]
    /\ UNCHANGED <<table, states, call>>
\* An answer: the body goes to the call first, then the call is completed
\* with an object that has no body.  A body that is empty or breaks off is
\* taken as empty, and a call that takes none is completed all the same.
WorkerAnswered(w) ==
    /\ workers[w].at = "sent"
    /\ workers' = [workers EXCEPT ![w].at = "written"]
    /\ \/ call' = [call EXCEPT ![workers[w].handle].body = workers[w].sent.url]
       \/ call' = [call EXCEPT ![workers[w].handle].lost = TRUE]
    /\ UNCHANGED <<table, states>>
\* No environment for the thread, no object for the answer, or nobody to tell
\* of the failure: the thread returns.
WorkerGivesUp(w) ==
    /\ workers[w].at \in {"sent", "written"}
    /\ workers' = [workers EXCEPT ![w].at = "silent"]
    /\ UNCHANGED <<table, states, call>>
OnRequestCompleted(w) ==
    /\ workers[w].at = "written" /\ workers' = [workers EXCEPT ![w].at = "done"]
    /\ call' = [call EXCEPT ![workers[w].source].completed = @ + 1]
    /\ UNCHANGED <<table, states>>
OnRequestFailed(w) ==
    /\ workers[w].at = "sent" /\ workers' = [workers EXCEPT ![w].at = "done"]
    /\ call' = [call EXCEPT ![workers[w].source].failed = @ + 1]
    /\ UNCHANGED <<table, states>>

---------------------------------------------------------------------------
(* Web sockets.  A connection's reader is a thread named by its number. *)

Threads == GameThreads \cup 1 .. MaxConnects
NoSock == [made |-> FALSE, connected |-> FALSE, stream |-> 0, connects |-> 0,
           left |-> FALSE, reopened |-> FALSE, late |-> 0]
NoOp == [kind |-> None, sock |-> None, at |-> "begin", stream |-> 0]
NoConn == [sock |-> None, at |-> "none", owner |-> <<>>]

NetInit ==
    /\ part = "none"
    /\ table = [a \in Requests |-> NoRequest] /\ states = <<>> /\ workers = <<>>
    /\ call = [c \in Calls |-> [body |-> None, lost |-> FALSE, completed |-> 0, failed |-> 0]]
    /\ sock = [s \in Sockets |-> NoSock]
    /\ conn = [k \in 1 .. MaxConnects |-> NoConn]
    /\ op = [t \in Threads |-> NoOp]
    /\ tableLock = <<>>

IsFree(lock) == lock = <<>>
\* The table is locked by every native for a moment, and for as long as it
\* waits by disconnect, which holds the socket's state as well.
TableFree == IsFree(tableLock)

WsInit(s) ==
    /\ TableFree /\ ~sock[s].made /\ sock' = [sock EXCEPT ![s].made = TRUE]
    /\ UNCHANGED <<conn, op, tableLock>>
\* connect: a thread of its own opens the connection.
Connect(s) ==
    /\ TableFree /\ sock[s].made
    /\ \E k \in DOMAIN conn :
          /\ conn[k].at = "none" /\ \A i \in 1 .. k - 1 : conn[i].at # "none"
          /\ conn' = [conn EXCEPT ![k] = [NoConn EXCEPT !.sock = s, !.at = "connecting"]]
    /\ sock' = [sock EXCEPT ![s].connects = @ + 1, ![s].left = FALSE]
    /\ UNCHANGED <<op, tableLock>>

\* The game's threads call at any time, a reader from inside its callback.
InCallback == {k \in DOMAIN conn : conn[k].at = "callback"}
MayCall(t) == op[t] = NoOp /\ t \in GameThreads \cup InCallback
Call(t, kind, s) ==
    /\ MayCall(t) /\ sock[s].made
    /\ t \in GameThreads \cup {k \in InCallback : conn[k].sock = s}
    /\ op' = [op EXCEPT ![t] = [NoOp EXCEPT !.kind = kind, !.sock = s]]
    /\ UNCHANGED <<sock, conn, tableLock>>
Returned(t) == op' = [op EXCEPT ![t] = NoOp]

\* sendMessage: the stream is taken out under the table's lock and locked
\* after that was given back.
SendBegins(t) ==
    /\ op[t].kind = "send" /\ op[t].at = "begin" /\ TableFree
    /\ LET s == sock[op[t].sock]
       IN IF s.connected /\ s.stream # 0
          THEN op' = [op EXCEPT ![t].at = "stream", ![t].stream = s.stream]
          ELSE Returned(t)
    /\ UNCHANGED <<sock, conn, tableLock>>
SendEnds(t) ==
    /\ op[t].kind = "send" /\ op[t].at = "stream" /\ IsFree(conn[op[t].stream].owner)
    /\ Returned(t) /\ UNCHANGED <<sock, conn, tableLock>>
\* disconnect: everything locked until the stream could be closed.  Without
\* a stream, that is before connect or during its handshake, it is back at
\* once.  History: left, reopened and late say that disconnect was back since
\* the last connect, that the handshake ended only then, and how many messages
\* (up to 2) came after that.
DisconnectBegins(t) ==
    /\ op[t].kind = "disconnect" /\ op[t].at = "begin" /\ TableFree
    /\ LET s == op[t].sock
       IN IF sock[s].stream = 0
          THEN /\ sock' = [sock EXCEPT ![s].connected = FALSE, ![s].left = TRUE]
               /\ Returned(t) /\ UNCHANGED tableLock
          ELSE /\ sock' = [sock EXCEPT ![s].connected = FALSE, ![s].stream = 0,
                                       ![s].reopened = FALSE, ![s].late = 0]
               /\ op' = [op EXCEPT ![t].at = "stream", ![t].stream = sock[s].stream]
               /\ tableLock' = <<t>>
    /\ UNCHANGED conn
DisconnectEnds(t) ==
    /\ op[t].kind = "disconnect" /\ op[t].at = "stream" /\ IsFree(conn[op[t].stream].owner)
    /\ sock' = [sock EXCEPT ![op[t].sock].left = TRUE]
    /\ Returned(t) /\ tableLock' = <<>> /\ UNCHANGED conn

\* The reader.  Its look at the state waits for disconnect of the socket.
StateFree(k) == \A t \in ToSet(tableLock) : op[t].sock # conn[k].sock
Go(k, at) == conn' = [conn EXCEPT ![k].at = at]
Opened(k) ==
    /\ conn[k].at = "connecting" /\ StateFree(k)
    /\ sock' = [sock EXCEPT ![conn[k].sock].connected = TRUE, ![conn[k].sock].stream = k,
                            ![conn[k].sock].reopened = sock[conn[k].sock].left]
    /\ Go(k, "callback") /\ UNCHANGED <<op, tableLock>>           \* onOpen
Refused(k) ==
    /\ conn[k].at = "connecting" /\ Go(k, "done") /\ UNCHANGED <<sock, op, tableLock>>
CallbackEnds(k) ==
    /\ conn[k].at = "callback" /\ op[k] = NoOp /\ Go(k, "check") /\ UNCHANGED <<sock, op, tableLock>>
Checks(k) ==
    /\ conn[k].at = "check" /\ StateFree(k)
    /\ Go(k, IF sock[conn[k].sock].connected THEN "lock" ELSE "exit")
    /\ UNCHANGED <<sock, op, tableLock>>
Locks(k) ==
    /\ conn[k].at = "lock" /\ IsFree(conn[k].owner)
    /\ conn' = [conn EXCEPT ![k].at = "reading", ![k].owner = <<k>>]
    /\ UNCHANGED <<sock, op, tableLock>>
\* Mutant: the guard lives as long as the message.
OwnerKept(k) == <<k>>
\* The guard goes out of scope with the read, before the callback.
OwnerAfterRead(k) == <<>>
Reads(k) ==
    /\ conn[k].at = "reading" /\ conn' = [conn EXCEPT ![k].owner = OwnerAfterRead(k), ![k].at = "callback"]
    /\ sock' = [sock EXCEPT ![conn[k].sock].late = IF sock[conn[k].sock].left /\ @ < 2 THEN @ + 1 ELSE @]
    /\ UNCHANGED <<op, tableLock>>
\* The peer closes, or what comes cannot be read: the loop ends, and onClose
\* is called in the first case only.
ReadEnds(k) ==
    /\ conn[k].at = "reading"
    /\ conn' = [conn EXCEPT ![k].owner = <<>>, ![k].at = "exit"]
    /\ UNCHANGED <<sock, op, tableLock>>
ReaderExits(k) ==
    /\ conn[k].at = "exit" /\ StateFree(k)
    /\ sock' = [sock EXCEPT ![conn[k].sock].connected = FALSE]
    /\ Go(k, "done") /\ UNCHANGED <<op, tableLock>>

---------------------------------------------------------------------------
HttpNext ==
    \/ \E a \in Requests : RequestInit(a) \/ RequestDestroy(a) \/ SetHttpMethodAndBody(a)
    \/ \E a \in Requests, c \in Calls : SetHttpUrl(a, c) \/ DoRequestAsync(a, c)
    \/ \E w \in DOMAIN workers :
          \/ WorkerSends(w) \/ WorkerAnswered(w) \/ OnRequestCompleted(w) \/ OnRequestFailed(w)
          \/ WorkerGivesUp(w)
SocketNext ==
    \/ \E s \in Sockets : WsInit(s) \/ Connect(s)
    \/ \E t \in Threads, s \in Sockets, kind \in {"send", "disconnect"} : Call(t, kind, s)
    \/ \E t \in Threads : SendBegins(t) \/ SendEnds(t) \/ DisconnectBegins(t) \/ DisconnectEnds(t)
    \/ \E k \in DOMAIN conn :
          \/ Opened(k) \/ Refused(k) \/ CallbackEnds(k) \/ Checks(k) \/ Locks(k)
          \/ Reads(k) \/ ReadEnds(k) \/ ReaderExits(k)
NetNext ==
    \/ part = "none" /\ part' \in {"http", "sockets"} /\ UNCHANGED <<httpVars, socketVars>>
    \/ part = "http" /\ HttpNext /\ UNCHANGED <<part, socketVars>>
    \/ part = "sockets" /\ SocketNext /\ UNCHANGED <<part, httpVars>>

NetSpec == NetInit /\ [][NetNext]_netVars

---------------------------------------------------------------------------
(* Correctness *)

\* Each call ends once and with its own answer, also when its object is gone
\* or the address has another request; only a body that is not longer than
\* the call's was sent, and the answer's is there before the call completes.
\* Not so, in the code: a body that was lost completes the call like an empty
\* one (lost; http_client.rs:590, 130-149), and a thread that gives up tells
\* nobody, whose call never ends (577, 611-614).
CallsAnswered ==
    /\ \A c \in Calls :
          /\ call[c].completed + call[c].failed <= 1
          /\ call[c].body \in {None, c}
          /\ call[c].completed = 1 => call[c].body = c \/ call[c].lost
          /\ (\E w \in DOMAIN workers : workers[w].source = c /\ workers[w].at = "done")
                => call[c].completed + call[c].failed = 1
    /\ \A w \in DOMAIN workers : workers[w].at # "start" =>
          /\ workers[w].sent.url = workers[w].source
          /\ workers[w].sent.body <= BodySize[workers[w].source]

\* Who waits for whom.
HeldBy(t) ==
    IF op[t].kind # None
    THEN IF op[t].at = "stream" THEN ToSet(conn[op[t].stream].owner) ELSE ToSet(tableLock)
    ELSE IF t \in GameThreads THEN {}
    ELSE IF conn[t].at = "lock" THEN ToSet(conn[t].owner)
    ELSE IF conn[t].at \in {"connecting", "check", "exit"} /\ ~StateFree(t) THEN ToSet(tableLock) ELSE {}
\* Nobody waits for itself, over one other thread or over two: in the end
\* all wait for a reader inside read(), that is for the peer.
OnlyPeersAwaited ==
    \A t \in Threads :
        LET second == UNION {HeldBy(u) : u \in HeldBy(t)}
            third == UNION {HeldBy(u) : u \in second}
        IN /\ t \notin HeldBy(t) \cup second \cup third
           /\ third = {}
           /\ \A u \in HeldBy(t) : HeldBy(u) = {} =>
                 op[u].at = "stream" \/ (u \notin GameThreads /\ conn[u].at = "reading")

\* After disconnect came back one more message at most reaches the game, and
\* a socket that is connected has a reader, if it was connected once.  Not so
\* when the handshake was under way at the disconnect: it ends all the same
\* (websocket.rs:261-263) and the socket the game left is open (reopened).
SocketsAgree ==
    \A s \in Sockets : sock[s].connects = 1 =>
        /\ sock[s].late <= 1 \/ sock[s].reopened
        /\ sock[s].connected => \E k \in DOMAIN conn :
              conn[k].sock = s /\ conn[k].at \in {"callback", "check", "lock", "reading", "exit"}

\* Requests and sockets do as the game may expect (http_client.rs, websocket.rs).
NetSound == CallsAnswered /\ OnlyPeersAwaited /\ SocketsAgree
=============================================================================
