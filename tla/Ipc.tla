-------------------------------- MODULE Ipc --------------------------------
(***************************************************************************)
(* One connection of crates/simple-ipc: the Client of client.rs with its   *)
(* reader task, the socket, and the Connection task of server.rs.          *)
(*                                                                         *)
(* A message travels as two parts, so that a read may end in the middle of *)
(* it; a part knows the encoding it was written in.  Call 1 is the .hello  *)
(* request that Client::connect makes.  Client methods take &mut self, so  *)
(* a call starts only when the one before it has returned or its future    *)
(* was dropped.  A future can be dropped at each of its awaits, also in    *)
(* the middle of a write: the frame that was being written then takes the  *)
(* bytes of the next ones for its own.                                     *)
(***************************************************************************)
EXTENDS Naturals, Sequences

CONSTANTS
    MaxCalls,     \* bound: calls made, .hello included
    MaxNotes,     \* bound: notifications sent
    Cancels,      \* bound: futures of a ready client dropped early
    ServerMayDie  \* the server process can end at any point

ASSUME IpcAssumption ==
    /\ MaxCalls \in Nat \ {0} /\ MaxNotes \in Nat /\ Cancels \in Nat
    /\ ServerMayDie \in BOOLEAN

Ids == 1 .. MaxCalls
NoId == 0
Hello == 1
Encodings == {"json", "json_cbor"}
Answers == {"ok", "rpc"}
Failures == {"io", "closed", "protocol"}
Open == {"begun", "inserted", "half", "sent"}

IpcPart == [id : Ids \cup {NoId}, enc : Encodings, half : 1 .. 2,
         body : {"request"} \cup Answers]

VARIABLES
    fut,       \* call futures: "none", a member of Open, "dropped", outcome
    nextId,    \* Client.next_id
    pending,   \* ids in Client.pending
    enc,       \* Client.encoding
    client,    \* "hello", "ready", "shut" (close), "gone" (dropped)
    reader,    \* reader task: "run", "got", "decode", "closing", "done"
    renc,      \* encoding the reader took for the current chunk
    rbuf,      \* its buffer
    up, down,  \* bytes in the socket, by direction
    server,    \* Connection task: "read", "decode", "closed"
    senc, sbuf,
    notes,     \* notifications sent
    noting,    \* a notification is half written
    cut,       \* "no", "cut": the last frame is half written and will never
               \* be completed, "garbled": something was written after it
    cancelled, \* futures dropped
    served     \* history: what the handlers answered

ipcVars == <<fut, nextId, pending, enc, client, reader, renc, rbuf, up, down,
             server, senc, sbuf, notes, noting, cut, cancelled, served>>
callVars == <<fut, nextId, pending>>
noteVars == <<notes, noting, cancelled>>
clientVars == <<fut, nextId, pending, enc, client, notes, noting, cancelled,
                cut>>
readerVars == <<reader, renc, rbuf>>
serverVars == <<server, senc, sbuf, served>>

IpcTypeOK ==
    /\ fut \in [Ids -> {"none", "dropped"} \cup Open \cup Answers \cup Failures]
    /\ nextId \in 1 .. MaxCalls + 1
    /\ pending \subseteq 1 .. nextId - 1
    /\ {enc, renc, senc} \subseteq Encodings
    /\ client \in {"hello", "ready", "shut", "gone"}
    /\ reader \in {"run", "got", "decode", "closing", "done"}
    /\ {rbuf, up, down, sbuf} \subseteq Seq(IpcPart)
    /\ server \in {"read", "decode", "closed"}
    /\ notes \in 0 .. MaxNotes /\ cancelled \in 0 .. Cancels
    /\ noting \in BOOLEAN /\ cut \in {"no", "cut", "garbled"}
    /\ served \in [Ids -> {"none"} \cup Answers]

IpcInit ==
    /\ fut = [i \in Ids |-> "none"] /\ nextId = 1 /\ pending = {}
    /\ enc = "json" /\ client = "hello"
    /\ reader = "run" /\ renc = "json" /\ rbuf = <<>>
    /\ up = <<>> /\ down = <<>>
    /\ server = "read" /\ senc = "json" /\ sbuf = <<>>
    /\ notes = 0 /\ noting = FALSE /\ cut = "no" /\ cancelled = 0
    /\ served = [i \in Ids |-> "none"]

IpcMessage(id, body, e) ==
    [h \in 1 .. 2 |-> [id |-> id, enc |-> e, half |-> h, body |-> body]]

(* Mutant: an id is used again while an answer to it may be on its way. *)
FreshIdReused == IF nextId = 3 THEN 2 ELSE nextId
FreshId == nextId

Busy == noting \/ \E i \in Ids : fut[i] \in Open

(* call_raw takes an id and waits for the lock of pending ...              *)
Call ==
    /\ client = "ready" \/ (client = "hello" /\ nextId = Hello)
    /\ ~Busy /\ nextId <= MaxCalls
    /\ fut' = [fut EXCEPT ![FreshId] = "begun"]
    /\ nextId' = nextId + 1
    /\ UNCHANGED <<pending, enc, client, noteVars, cut, up, down>>
    /\ UNCHANGED <<readerVars, serverVars>>

(* ... and registers the id before anything is sent.                       *)
Insert(i) ==
    /\ fut[i] = "begun"
    /\ fut' = [fut EXCEPT ![i] = "inserted"]
    /\ pending' = pending \cup {i}
    /\ UNCHANGED <<nextId, enc, client, noteVars, cut, up, down>>
    /\ UNCHANGED <<readerVars, serverVars>>

(* When the peer is gone a write fails.                                    *)
Broken == server = "closed"

(* What is written after a frame that was cut off is read as the rest of   *)
(* that frame.                                                             *)
Puts(part) ==
    IF cut = "no" THEN up' = Append(up, part) /\ UNCHANGED cut
    ELSE cut' = "garbled" /\ UNCHANGED up

(* write_all, one part at a time.  When it fails the call returns, leaving *)
(* its entry in pending.                                                   *)
Write(i) ==
    LET half == IF fut[i] = "inserted" THEN 1 ELSE 2
    IN  /\ client \in {"hello", "ready"}
        /\ fut[i] \in {"inserted", "half"}
        /\ \/ /\ Broken
              /\ fut' = [fut EXCEPT ![i] = "io"] /\ UNCHANGED <<up, cut>>
           \/ /\ ~Broken
              /\ fut' = [fut EXCEPT ![i] = IF half = 1 THEN "half" ELSE "sent"]
              /\ Puts(IpcMessage(i, "request", enc)[half])
    /\ UNCHANGED <<nextId, pending, enc, client, noteVars, down>>
    /\ UNCHANGED <<readerVars, serverVars>>

(* A notification is written in the same way, and not waited for.          *)
Notify ==
    /\ client = "ready" /\ ~Busy /\ notes < MaxNotes
    /\ notes' = notes + 1 /\ noting' = ~Broken
    /\ \/ Broken /\ UNCHANGED <<up, cut>>
       \/ ~Broken /\ Puts(IpcMessage(NoId, "request", enc)[1])
    /\ UNCHANGED <<callVars, enc, client, cancelled, down>>
    /\ UNCHANGED <<readerVars, serverVars>>

NotifyEnds ==
    /\ noting /\ noting' = FALSE
    /\ \/ Broken /\ UNCHANGED <<up, cut>>
       \/ ~Broken /\ Puts(IpcMessage(NoId, "request", enc)[2])
    /\ UNCHANGED <<callVars, enc, client, notes, cancelled, down>>
    /\ UNCHANGED <<readerVars, serverVars>>

(* The caller drops the future: while it waits for the lock, with its id   *)
(* registered, in the middle of the frame, or while it waits for the reply.*)
CutIf(halfWritten) == cut' = IF halfWritten /\ cut = "no" THEN "cut" ELSE cut

Cancel(i) ==
    /\ cancelled < Cancels /\ cancelled' = cancelled + 1
    /\ i # Hello /\ fut[i] \in Open
    /\ fut' = [fut EXCEPT ![i] = "dropped"]
    /\ CutIf(fut[i] = "half")
    /\ UNCHANGED <<nextId, pending, enc, client, notes, noting, up, down>>
    /\ UNCHANGED <<readerVars, serverVars>>

CancelNotify ==
    /\ cancelled < Cancels /\ cancelled' = cancelled + 1
    /\ noting /\ noting' = FALSE
    /\ CutIf(TRUE)
    /\ UNCHANGED <<callVars, enc, client, notes, up, down>>
    /\ UNCHANGED <<readerVars, serverVars>>

(* The Client goes with the future of connect that holds it.               *)
CancelConnect ==
    /\ fut[Hello] \in Open
    /\ fut' = [fut EXCEPT ![Hello] = "dropped"]
    /\ CutIf(fut[Hello] = "half")
    /\ client' = "gone" /\ reader' = "done" /\ pending' = {}
    /\ UNCHANGED <<nextId, enc, noteVars, renc, rbuf, up, down>>
    /\ UNCHANGED serverVars

(* Only when the reply has been returned is the encoding switched.         *)
HelloReturns ==
    /\ client = "hello"
    /\ \/ /\ fut[Hello] = "ok"
          /\ enc' = "json_cbor" /\ client' = "ready"
          /\ UNCHANGED <<reader, pending>>
       \/ /\ fut[Hello] \in Failures \cup {"rpc"}
          /\ client' = "gone" /\ reader' = "done" /\ pending' = {}
          /\ UNCHANGED enc
    /\ UNCHANGED <<fut, nextId, noteVars, cut, renc, rbuf, up, down>>
    /\ UNCHANGED serverVars

(* close() shuts the write side down; drop aborts the reader as well.      *)
Close ==
    /\ client = "ready" /\ ~Busy
    /\ client' = "shut"
    /\ UNCHANGED <<callVars, enc, noteVars, cut, up, down>>
    /\ UNCHANGED <<readerVars, serverVars>>

Drop ==
    /\ client \in {"ready", "shut"} /\ ~Busy
    /\ client' = "gone" /\ reader' = "done" /\ pending' = {} /\ down' = <<>>
    /\ UNCHANGED <<fut, nextId, enc, noteVars, cut, renc, rbuf, up>>
    /\ UNCHANGED serverVars

(***************************************************************************)
(* Decoding a buffer: a whole message, nothing yet, or an error.           *)
(***************************************************************************)
Whole(buf) == Len(buf) >= 2
WrongEncoding(buf, e) == buf # <<>> /\ buf[1].enc # e
Rest(buf) == SubSeq(buf, 3, Len(buf))

(***************************************************************************)
(* The reader task                                                         *)
(***************************************************************************)
IpcRead ==
    /\ reader = "run" /\ down # <<>>
    /\ \E n \in 1 .. Len(down) :
          /\ rbuf' = rbuf \o SubSeq(down, 1, n)
          /\ down' = SubSeq(down, n + 1, Len(down))
    /\ reader' = "got"
    /\ UNCHANGED <<renc, up>> /\ UNCHANGED <<clientVars, serverVars>>

TakeEncoding ==
    /\ reader = "got"
    /\ reader' = "decode" /\ renc' = enc
    /\ UNCHANGED <<rbuf, up, down>> /\ UNCHANGED <<clientVars, serverVars>>

Ended(is, how) ==
    [i \in Ids |-> IF i \in is /\ fut[i] \in Open THEN how ELSE fut[i]]

IpcDecode ==
    /\ reader = "decode"
    /\ \/ /\ WrongEncoding(rbuf, renc)
          /\ fut' = Ended(pending, "protocol") /\ pending' = {}
          /\ reader' = "run" /\ UNCHANGED rbuf
       \/ /\ ~WrongEncoding(rbuf, renc) /\ Whole(rbuf)
          /\ LET m == rbuf[1]
             IN  /\ fut' = Ended({m.id} \cap pending, m.body)
                 /\ pending' = pending \ {m.id}
          /\ rbuf' = Rest(rbuf) /\ UNCHANGED reader
       \/ /\ ~WrongEncoding(rbuf, renc) /\ ~Whole(rbuf)
          /\ reader' = "run" /\ UNCHANGED <<fut, pending, rbuf>>
    /\ UNCHANGED <<nextId, enc, client, noteVars, cut, renc, up, down>>
    /\ UNCHANGED serverVars

EndOfFile ==
    /\ reader = "run" /\ down = <<>> /\ server = "closed"
    /\ reader' = "closing"
    /\ UNCHANGED <<renc, rbuf, up, down>> /\ UNCHANGED <<clientVars, serverVars>>

(* Mutant: the reader ends without failing the calls that wait for it. *)
DrainedNothing == {}
Drained == pending

Drain ==
    /\ reader = "closing"
    /\ reader' = "done"
    /\ fut' = Ended(Drained, "closed") /\ pending' = {}
    /\ UNCHANGED <<nextId, enc, client, noteVars, cut, renc, rbuf, up, down>>
    /\ UNCHANGED serverVars

(***************************************************************************)
(* The Connection task                                                     *)
(***************************************************************************)
ServerRead ==
    /\ server = "read" /\ up # <<>>
    /\ \E n \in 1 .. Len(up) :
          /\ sbuf' = sbuf \o SubSeq(up, 1, n)
          /\ up' = SubSeq(up, n + 1, Len(up))
    /\ server' = "decode"
    /\ UNCHANGED <<senc, served, down>> /\ UNCHANGED <<clientVars, readerVars>>

Shut ==
    /\ server' = "closed" /\ sbuf' = <<>> /\ up' = <<>>
    /\ UNCHANGED <<senc, served, down>> /\ UNCHANGED <<clientVars, readerVars>>

(* A reply; a client that is gone no longer receives it, and the error of  *)
(* the write is ignored, except for the reply to .hello.                   *)
Reply(id, body, e) ==
    down' = IF client = "gone" THEN down ELSE down \o IpcMessage(id, body, e)

(* Mutant: the reply to .hello is sent in the encoding it announces. *)
HelloReplyEncodingNew == "json_cbor"
HelloReplyEncoding == senc

(* Without an encoding both know the connection ends unanswered.           *)
HandleHello ==
    \/ /\ Reply(Hello, "ok", HelloReplyEncoding)
       /\ senc' = "json_cbor" /\ UNCHANGED <<server, up>>
       /\ sbuf' = Rest(sbuf)
       /\ served' = [served EXCEPT ![Hello] = "ok"]
    \/ /\ server' = "closed" /\ sbuf' = <<>> /\ up' = <<>>
       /\ UNCHANGED <<down, senc, served>>

(* A notification runs its handler and is not answered.                    *)
HandleCall(id) ==
    /\ IF id = NoId THEN UNCHANGED <<served, down>>
       ELSE \E a \in Answers : /\ served' = [served EXCEPT ![id] = a]
                               /\ Reply(id, a, senc)
    /\ sbuf' = Rest(sbuf)
    /\ UNCHANGED <<senc, server, up>>

ServerDecode ==
    /\ server = "decode"
    /\ \/ WrongEncoding(sbuf, senc) /\ Shut
       \/ /\ ~WrongEncoding(sbuf, senc) /\ Whole(sbuf)
          /\ IF sbuf[1].id = Hello THEN HandleHello ELSE HandleCall(sbuf[1].id)
          /\ UNCHANGED <<clientVars, readerVars>>
       \/ /\ ~WrongEncoding(sbuf, senc) /\ ~Whole(sbuf)
          /\ server' = "read"
          /\ UNCHANGED <<senc, sbuf, served, up, down>>
          /\ UNCHANGED <<clientVars, readerVars>>

ServerEndOfFile ==
    /\ server = "read" /\ up = <<>> /\ client \in {"shut", "gone"}
    /\ Shut

(* A frame completed with bytes of others: as soon as there are enough of  *)
(* them it is refused, but there may never be enough.                      *)
ServerRefuses ==
    /\ server = "read" /\ up = <<>> /\ cut = "garbled"
    /\ Shut

ServerDies == ServerMayDie /\ server # "closed" /\ Shut

ClientStep ==
    \/ Call \/ Notify \/ NotifyEnds \/ HelloReturns \/ Close \/ Drop
    \/ CancelNotify \/ CancelConnect
    \/ \E i \in Ids : Insert(i) \/ Write(i) \/ Cancel(i)
ReaderStep == IpcRead \/ TakeEncoding \/ IpcDecode \/ EndOfFile \/ Drain
ServerStep == ServerRead \/ ServerDecode \/ ServerEndOfFile

IpcNext == ClientStep \/ ReaderStep \/ ServerStep \/ ServerRefuses \/ ServerDies

IpcSpec == IpcInit /\ [][IpcNext]_ipcVars

(* Tasks that can run are run: the scheduler of tokio polls every task     *)
(* that is woken, and the task that awaits a call goes on with its write.  *)
(* That enough is written after a frame that was cut off is not assumed.   *)
IpcFairSpec ==
    /\ IpcSpec
    /\ WF_ipcVars(ReaderStep) /\ WF_ipcVars(ServerStep)
    /\ WF_ipcVars(HelloReturns) /\ WF_ipcVars(\E i \in Ids : Insert(i) \/ Write(i))

-----------------------------------------------------------------------------
(* Properties *)

(* Nothing is ever decoded in an encoding other than the one it was        *)
(* written in, although the two ends switch at different times.            *)
EncodingsAgree ==
    /\ \A k \in DOMAIN sbuf : sbuf[k].enc = senc
    /\ reader = "decode" => \A k \in DOMAIN rbuf : rbuf[k].enc = renc

(* Every answer a caller gets is the one the server gave to that call.     *)
Asked == {i \in Ids : fut[i] # "none"}
Outcome == [i \in Ids |-> IF fut[i] \in Open \cup {"none", "dropped"}
                          THEN "none" ELSE fut[i]]
R == INSTANCE Rpc WITH asked <- Asked, outcome <- Outcome,
                       Failures <- {"io", "closed"}
ImplementsRpc == R!RpcSpec

(* A call that is not dropped returns, unless a future of this connection  *)
(* was dropped in the middle of its write (client.rs:174, 190): a call     *)
(* that waits then, or is made later, can wait for ever, with the server   *)
(* waiting for the rest of a frame.                                        *)
IpcCallsReturn ==
    \A i \in Ids : fut[i] \in Open ~> (fut[i] \notin Open \/ cut # "no")
=============================================================================
