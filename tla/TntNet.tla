------------------------------- MODULE TntNet -------------------------------
(***************************************************************************)
(* A tnt_net stream and its server, request by request: tnt_connect with   *)
(* authentication and the schema load, requests, tnt_flush, read_reply,    *)
(* tnt_reload_schema and tnt_close (tnt/tnt_net.c).                        *)
(*                                                                         *)
(* A request or a reply is one message here.  The stream counts requests   *)
(* in wrcnt and gives up on a read when the count is zero; the server      *)
(* answers in any order, may push chunks before an answer, and may go away *)
(* at any time.  The calls are split where the code uses the socket.       *)
(* Where within a message a send or a read stops is the subject of         *)
(* TntIoSend and TntIoRecv; what it does to the stream is here: a read     *)
(* that fails inside a reply leaves the next one to start in the middle    *)
(* (torn), and nothing is known of what it gets.                           *)
(***************************************************************************)
EXTENDS Integers, Sequences, FiniteSets, Functions

CONSTANTS
    Logins,      \* whether the URIs the user sets have a login and a password
    AuthFits,    \* TRUE iff the AUTH packet fits the send buffer
    SBufCap,     \* requests the send buffer holds; 0: there is none
    SchemaSync,  \* request id of the space select (127 in the code)
    Reject,      \* kinds of requests the server may answer with an error
    RecvTmout,   \* TRUE iff opt.tmout_recv is set
    SendTmout,   \* TRUE iff opt.tmout_send is set
    MaxReqs,     \* bound: the user writes no request after this many in all
    MaxConns,    \* bound: connections made in a run
    MaxChunks,   \* bound: chunks the server pushes in a run
    MaxCuts      \* bound: sends that fail halfway in a run

Kinds == {"auth", "space", "index", "user"}

ASSUME NetAssumption ==
    /\ Logins \subseteq BOOLEAN /\ Logins # {} /\ AuthFits \in BOOLEAN
    /\ RecvTmout \in BOOLEAN /\ SendTmout \in BOOLEAN
    /\ SBufCap \in Nat /\ (SBufCap = 0 => AuthFits) /\ SchemaSync \in Nat
    /\ Reject \subseteq Kinds
    /\ MaxReqs \in Nat /\ MaxConns \in Nat /\ MaxChunks \in Nat
    /\ MaxCuts \in Nat

VARIABLES
    connected,   \* sn->connected
    login,       \* the URI of the last tnt_connect has a login and a password
    wrcnt,       \* s->wrcnt
    reqid,       \* s->reqid
    sbuf,        \* requests in sn->sbuf
    pc,          \* the call in progress and where it waits
    caller,      \* who called tnt_reload_schema
    sloaded,     \* tnt_reload_schema's sloaded
    bkp,         \* tnt_reload_schema's bkp.buf != NULL
    fresh,       \* parts of the schema the last reload handed to tnt_schema_add_*
    \* the network and the server
    lost,        \* the connection is dead
    srv,         \* requests the server works on
    s2c,         \* replies on their way, while a read meets them where they begin
    torn,        \* what the next read gets may not begin at a message
    srvAuth,     \* the server accepted the login
    \* history and results
    nextId,      \* requests encoded
    conns,       \* connections made
    chunks,      \* chunks pushed
    cuts,        \* sends that failed halfway
    ret,         \* result of the last tnt_connect
    reloadRet,   \* result of the last tnt_reload_schema since the last tnt_close
    got,         \* what the last reply the user got answers, since tnt_close
    missed       \* a read, or a send halfway, failed since the last tnt_close

cliVars == <<connected, login, reqid, pc, caller>>
loadVars == <<sloaded, bkp, fresh, reloadRet>>
srvVars == <<lost, srv, srvAuth, chunks>>
histVars == <<nextId, conns, ret, got>>
vars == <<cliVars, wrcnt, sbuf, loadVars, srvVars, s2c, torn, histVars, missed, cuts>>

Request(i, k, y) == [id |-> i, kind |-> k, sync |-> y]
Reply(q, res) == [id |-> q.id, kind |-> q.kind, sync |-> q.sync, res |-> res]

Init ==
    /\ connected = FALSE /\ login = FALSE /\ wrcnt = 0 /\ reqid = 0 /\ sbuf = <<>>
    /\ pc = "idle" /\ caller = "user"
    /\ sloaded = 0 /\ bkp = FALSE /\ fresh = {}
    /\ lost = FALSE /\ srv = {} /\ s2c = <<>> /\ torn = FALSE /\ srvAuth = FALSE
    /\ nextId = 0 /\ conns = 0 /\ chunks = 0 /\ cuts = 0
    /\ ret = "none" /\ reloadRet = "none" /\ got = "none" /\ missed = FALSE

-----------------------------------------------------------------------------
(* What a send and a read can come to. *)

\* The requests reqs leave the send buffer for the server.  On a dead
\* connection the kernel may still take them.
Transmit(reqs) ==
    /\ connected
    /\ srv' = IF lost THEN srv ELSE srv \cup Range(reqs)

SendMayFail == ~connected \/ lost \/ SendTmout

\* Sending reqs fails, perhaps after some of them are out.  They stay in the
\* buffer all the same and will be sent again, so the count is off from then
\* on.  (If the cut is inside a request, what follows is garbage to the server
\* and NetLost is what it does about it.)
SendFails(reqs) ==
    /\ SendMayFail
    /\ \E k \in 0..Len(reqs) :
         /\ k = 0 \/ (connected /\ ~lost /\ k < Len(reqs) /\ cuts < MaxCuts)
         /\ srv' = srv \cup Range(SubSeq(reqs, 1, k))
         /\ cuts' = cuts + (IF k > 0 THEN 1 ELSE 0)
         /\ missed' = (missed \/ k > 0)

\* Mutant: a request is counted before its write is known to succeed.
WriteCountsFirst(q) ==
    /\ \/ /\ Len(sbuf) < SBufCap
          /\ sbuf' = Append(sbuf, q)
          /\ UNCHANGED <<srv, missed, cuts>>
       \/ /\ Len(sbuf) = SBufCap
          /\ SendFails(IF SBufCap = 0 THEN <<q>> ELSE sbuf)
          /\ UNCHANGED sbuf
    /\ wrcnt' = wrcnt + 1

\* The write of an encoded request.  A full buffer is sent first, and without a
\* buffer the request goes straight out; if that fails the request is not
\* written and not counted.
Write(q) ==
    \/ /\ Len(sbuf) < SBufCap
       /\ sbuf' = Append(sbuf, q) /\ wrcnt' = wrcnt + 1
       /\ UNCHANGED <<srv, missed, cuts>>
    \/ /\ SBufCap > 0 /\ Len(sbuf) = SBufCap
       /\ Transmit(sbuf)
       /\ sbuf' = <<q>> /\ wrcnt' = wrcnt + 1
       /\ UNCHANGED <<missed, cuts>>
    \/ /\ SBufCap = 0
       /\ Transmit(<<q>>)
       /\ wrcnt' = wrcnt + 1
       /\ UNCHANGED <<sbuf, missed, cuts>>
    \/ /\ Len(sbuf) = SBufCap
       /\ SendFails(IF SBufCap = 0 THEN <<q>> ELSE sbuf)
       /\ UNCHANGED <<sbuf, wrcnt>>

\* Mutant: nothing is sent.
SendNothing == UNCHANGED <<sbuf, srv, missed, cuts>>

\* tnt_flush; one that fails leaves the buffer as it is.
SendBuffer ==
    \/ /\ Transmit(sbuf)
       /\ sbuf' = <<>>
       /\ UNCHANGED <<missed, cuts>>
    \/ /\ SendFails(sbuf)
       /\ UNCHANGED sbuf

\* read_reply with nothing outstanding returns 1 without reading.
NothingOutstanding ==
    /\ wrcnt = 0
    /\ UNCHANGED <<wrcnt, s2c, torn, missed, cuts>>

\* Mutant: a reply with an error does not end its request.
TakeSkipsErrors(r) ==
    /\ wrcnt > 0
    /\ s2c # <<>> /\ r = Head(s2c)
    /\ s2c' = Tail(s2c)
    /\ wrcnt' = IF r.res = "ok" THEN wrcnt - 1 ELSE wrcnt
    /\ UNCHANGED <<torn, missed, cuts>>

\* read_reply takes the next reply; a chunk is not the last of its request.
Take(r) ==
    /\ wrcnt > 0
    /\ s2c # <<>> /\ r = Head(s2c)
    /\ s2c' = Tail(s2c)
    /\ wrcnt' = IF r.res = "chunk" THEN wrcnt ELSE wrcnt - 1
    /\ UNCHANGED <<torn, missed, cuts>>

\* In a torn stream read_reply makes a reply of bytes that were none: it takes
\* the length from the middle of the data, or from bytes it had read before, and
\* swallows one reply, several or none.  What is on its way is not told apart
\* any more (s2c).  (A bound: no chunk after three of a load's replies.)
Garbled == [id : {0}, kind : {"user"}, sync : {0, SchemaSync, SchemaSync + 1},
            res : {"ok", "error", "chunk"}]

TakeGarbled(r) ==
    /\ torn /\ wrcnt > 0
    /\ r.res = "chunk" => sloaded < 3
    /\ wrcnt' = IF r.res = "chunk" THEN wrcnt ELSE wrcnt - 1
    /\ UNCHANGED <<s2c, torn, missed, cuts>>

\* The reply that read_reply returns is r.
Read(r) ==
    \/ Take(r)
    \/ r \in Garbled /\ TakeGarbled(r)

\* read_reply fails: the reply structure is zeroed, so its code is no chunk and
\* the request counts as answered.  If nothing had been read the stream is
\* still in step.  Otherwise part of the reply is gone; and a receive buffer
\* that could not be refilled is read from its start again.  A torn stream
\* also fails on what is no reply.
ReadFails ==
    /\ wrcnt > 0
    /\ ~connected \/ lost \/ RecvTmout
    /\ wrcnt' = wrcnt - 1
    /\ missed' = TRUE
    /\ \/ UNCHANGED <<s2c, torn>>
       \/ connected /\ torn' = TRUE /\ s2c' = <<>>
    /\ UNCHANGED cuts

-----------------------------------------------------------------------------
(* tnt_reload_schema *)

\* Mutant: a reload with replies outstanding.
ReloadEager == ~connected

\* It refuses to run while replies are outstanding; otherwise it sends the two
\* selects under request ids of its own and restores s->reqid.  What the writes
\* and the flush return is not looked at.
ReloadRefused == ~connected \/ wrcnt # 0

ReloadSpaces(who) ==
    /\ Write(Request(nextId + 1, "space", SchemaSync))
    /\ nextId' = nextId + 1
    /\ pc' = "select" /\ caller' = who
    /\ sloaded' = 0 /\ bkp' = FALSE /\ fresh' = {}
    /\ reloadRet' = "none"

ReloadIndexes ==
    /\ pc = "select"
    /\ Write(Request(nextId + 1, "index", SchemaSync + 1))
    /\ nextId' = nextId + 1
    /\ pc' = "flush"
    /\ UNCHANGED <<connected, login, reqid, caller, loadVars, lost, srvAuth, chunks, s2c, torn,
                   conns, ret, got>>

ReloadFlush ==
    /\ pc = "flush"
    /\ SendBuffer
    /\ pc' = "schema"
    /\ UNCHANGED <<connected, login, reqid, caller, wrcnt, loadVars, lost, srvAuth, chunks, s2c,
                   torn, histVars>>

\* A reply is handed to the schema, whatever tnt_schema_add_* makes of its rows
\* (TntSchema): the result is not looked at.  tnt_schema_add_indexes drops the
\* indexes of spaces it does not know.
AddSpaces(f) == f \cup {"space"}
AddIndexes(f) == IF "space" \in f THEN f \cup {"index"} ELSE f

\* tnt_reload_schema returns.  tnt_authenticate ignores the result, so the
\* tnt_connect it was called from succeeds.
ReloadReturn(res) ==
    /\ pc' = "idle"
    /\ reloadRet' = res
    /\ ret' = IF caller = "connect" THEN "ok" ELSE ret
    /\ bkp' = FALSE /\ sloaded' = 0 /\ caller' = "user"

\* A reply to one of the selects, or to something else.
SchemaReply ==
    /\ pc = "schema"
    /\ \E r \in Range(s2c) \cup Garbled :
         /\ Read(r)
         /\ \/ /\ r.sync = SchemaSync /\ r.res # "error"
               /\ fresh' = AddSpaces(fresh)
               /\ sloaded' = sloaded + 1
               /\ UNCHANGED <<pc, caller, ret, reloadRet, bkp>>
            \/ /\ r.sync = SchemaSync + 1 /\ r.res # "error"
               /\ sloaded % 2 = 0
               /\ bkp' = TRUE
               /\ UNCHANGED <<pc, caller, ret, reloadRet, fresh, sloaded>>
            \/ /\ r.sync = SchemaSync + 1 /\ r.res # "error"
               /\ sloaded % 2 = 1
               /\ fresh' = AddIndexes(fresh)
               /\ sloaded' = sloaded + 2
               /\ UNCHANGED <<pc, caller, ret, reloadRet, bkp>>
            \/ /\ r.res = "error" \/ r.sync \notin {SchemaSync, SchemaSync + 1}
               /\ ReloadReturn("fail")
               /\ UNCHANGED fresh
    /\ UNCHANGED <<connected, login, reqid, sbuf, srvVars, nextId, conns, got>>

\* Mutant: the indexes that came first are counted and not added.
SchemaEndForgets ==
    /\ pc = "schema"
    /\ NothingOutstanding \/ ReadFails
    /\ ReloadReturn(IF sloaded + (IF bkp THEN 2 ELSE 0) = 3 THEN "ok" ELSE "fail")
    /\ UNCHANGED <<connected, login, reqid, sbuf, srvVars, nextId, conns, got, fresh>>

\* The reply iterator stops, because nothing is outstanding or a read failed:
\* the indexes that came first are added now.
SchemaEnd ==
    /\ pc = "schema"
    /\ NothingOutstanding \/ ReadFails
    /\ fresh' = IF bkp THEN AddIndexes(fresh) ELSE fresh
    /\ LET sum == IF bkp THEN sloaded + 2 ELSE sloaded
       IN  ReloadReturn(IF sum = 3 THEN "ok" ELSE "fail")
    /\ UNCHANGED <<connected, login, reqid, sbuf, srvVars, nextId, conns, got>>

-----------------------------------------------------------------------------
(* tnt_close and tnt_connect *)

\* The stream's part of tnt_close.
ClearStream ==
    /\ wrcnt' = 0 /\ reqid' = 0 /\ sbuf' = <<>>
    /\ reloadRet' = "none" /\ fresh' = {} /\ got' = "none"
    /\ torn' = FALSE /\ missed' = FALSE
    /\ UNCHANGED cuts

\* The socket is closed: the server drops the session.
CloseSocket == srv' = {} /\ s2c' = <<>> /\ srvAuth' = FALSE

Close ==
    /\ pc = "idle"
    /\ ClearStream /\ CloseSocket
    /\ connected' = FALSE
    /\ UNCHANGED <<login, pc, caller, sloaded, bkp, lost, chunks, nextId, conns, ret>>

\* tnt_connect up to the greeting: a live connection is closed first, what was
\* written while there was none is kept.
ConnectOpen ==
    /\ pc = "idle" /\ conns < MaxConns
    /\ IF connected THEN ClearStream
       ELSE UNCHANGED <<wrcnt, reqid, sbuf, reloadRet, fresh, got, torn, missed, cuts>>
    /\ CloseSocket
    /\ connected' = TRUE /\ login' \in Logins /\ lost' = FALSE
    /\ pc' = "greet" /\ ret' = "none" /\ conns' = conns + 1
    /\ UNCHANGED <<caller, sloaded, bkp, chunks, nextId>>

ConnectError ==
    /\ pc = "idle" /\ conns < MaxConns
    /\ IF connected THEN ClearStream
       ELSE UNCHANGED <<wrcnt, reqid, sbuf, reloadRet, fresh, got, torn, missed, cuts>>
    /\ CloseSocket
    /\ connected' = FALSE
    /\ ret' = "fail"
    /\ UNCHANGED <<login, pc, caller, sloaded, bkp, lost, chunks, nextId, conns>>

\* The greeting arrived; without a login tnt_connect is done.
GreetingNoLogin ==
    /\ pc = "greet" /\ ~lost /\ ~login
    /\ pc' = "idle" /\ ret' = "ok"
    /\ UNCHANGED <<connected, login, reqid, caller, wrcnt, sbuf, loadVars, srvVars, s2c,
                   torn, nextId, conns, got, missed, cuts>>

\* tnt_authenticate sends AUTH, unless requests are outstanding.  A packet that
\* does not fit the send buffer is not sent and not counted; the result of
\* tnt_auth is not looked at.
GreetingLogin ==
    /\ pc = "greet" /\ ~lost /\ login
    /\ IF wrcnt # 0
       THEN /\ pc' = "idle" /\ ret' = "fail"
            /\ UNCHANGED <<reqid, nextId, wrcnt, sbuf, srv, missed, cuts>>
       ELSE /\ IF AuthFits THEN Write(Request(nextId + 1, "auth", reqid))
                           ELSE UNCHANGED <<wrcnt, sbuf, srv, missed, cuts>>
            /\ reqid' = reqid + 1 /\ nextId' = nextId + 1
            /\ pc' = "authflush"
            /\ UNCHANGED ret
    /\ UNCHANGED <<connected, login, caller, loadVars, lost, srvAuth, chunks, s2c, torn,
                   conns, got>>

AuthFlush ==
    /\ pc = "authflush"
    /\ SendBuffer
    /\ pc' = "auth"
    /\ UNCHANGED <<connected, login, reqid, caller, wrcnt, loadVars, lost, srvAuth, chunks, s2c,
                   torn, histVars>>

\* The greeting was not read whole.  The connection stays open, and what is left
\* of the greeting is before the first reply.
GreetingError ==
    /\ pc = "greet" /\ (lost \/ RecvTmout)
    /\ pc' = "idle" /\ ret' = "fail"
    /\ torn' = TRUE /\ missed' = TRUE
    /\ UNCHANGED <<connected, login, reqid, caller, wrcnt, sbuf, loadVars, srvVars, s2c,
                   nextId, conns, got, cuts>>

\* Mutant: only a failed read is looked at.
AuthAcceptedAny ==
    /\ pc = "auth"
    /\ NothingOutstanding \/ \E r \in Range(s2c) \cup Garbled : Read(r)
    /\ pc' = "loading"
    /\ UNCHANGED <<connected, login, reqid, caller, sbuf, loadVars, srvVars, histVars>>

\* read_reply returned an answer, or 1 because nothing is outstanding: only -1
\* and an error reply make tnt_authenticate fail.
AuthAccepted ==
    /\ pc = "auth"
    /\ \/ NothingOutstanding
       \/ \E r \in Range(s2c) \cup Garbled : Read(r) /\ r.res # "error"
    /\ pc' = "loading"
    /\ UNCHANGED <<connected, login, reqid, caller, sbuf, loadVars, srvVars, histVars>>

AuthRejected ==
    /\ pc = "auth"
    /\ \/ ReadFails
       \/ \E r \in Range(s2c) \cup Garbled : Read(r) /\ r.res = "error"
    /\ pc' = "idle" /\ ret' = "fail"
    /\ UNCHANGED <<connected, login, reqid, caller, sbuf, loadVars, srvVars,
                   nextId, conns, got>>

\* The schema load of tnt_authenticate.
ConnectReload ==
    /\ pc = "loading"
    /\ IF ReloadRefused
       THEN /\ pc' = "idle" /\ ret' = "ok" /\ reloadRet' = "fail"
            /\ UNCHANGED <<caller, sloaded, bkp, fresh, nextId, wrcnt, sbuf, srv, missed, cuts>>
       ELSE ReloadSpaces("connect") /\ UNCHANGED ret
    /\ UNCHANGED <<connected, login, reqid, lost, srvAuth, chunks, s2c, torn, conns, got>>

-----------------------------------------------------------------------------
(* The user's calls. *)

\* Any request: encode it under s->reqid and write it.  If the write fails its
\* id is used up.
UserRequest ==
    /\ pc = "idle" /\ nextId < MaxReqs
    /\ Write(Request(nextId + 1, "user", reqid))
    /\ reqid' = reqid + 1 /\ nextId' = nextId + 1
    /\ UNCHANGED <<connected, login, pc, caller, loadVars, lost, srvAuth, chunks, s2c, torn,
                   conns, ret, got>>

Flush ==
    /\ pc = "idle" /\ sbuf # <<>>
    /\ SendBuffer
    /\ UNCHANGED <<cliVars, wrcnt, loadVars, lost, srvAuth, chunks, s2c, torn, histVars>>

ReadReply ==
    /\ pc = "idle"
    /\ pc' = "reply"
    /\ UNCHANGED <<connected, login, reqid, caller, wrcnt, sbuf, loadVars, srvVars, s2c,
                   torn, histVars, missed, cuts>>

ReplyArrives ==
    /\ pc = "reply"
    /\ \E r \in Range(s2c) \cup Garbled : Read(r) /\ got' = r.kind
    /\ pc' = "idle"
    /\ UNCHANGED <<connected, login, reqid, caller, sbuf, loadVars, srvVars, nextId, conns, ret>>

ReplyNone ==
    /\ pc = "reply"
    /\ NothingOutstanding \/ ReadFails
    /\ pc' = "idle"
    /\ UNCHANGED <<connected, login, reqid, caller, sbuf, loadVars, srvVars, histVars>>

UserReload ==
    /\ pc = "idle" /\ nextId + 2 <= MaxReqs
    /\ IF ReloadRefused
       THEN /\ reloadRet' = "fail"
            /\ UNCHANGED <<pc, caller, sloaded, bkp, fresh, nextId, wrcnt, sbuf, srv, missed, cuts>>
       ELSE ReloadSpaces("user")
    /\ UNCHANGED <<connected, login, reqid, lost, srvAuth, chunks, s2c, torn, conns, ret, got>>

-----------------------------------------------------------------------------
(* The server and the network. *)

\* A reply is on its way.
Sent(r) == s2c' = IF torn THEN s2c ELSE Append(s2c, r)

ServerAnswer ==
    /\ \E q \in srv :
         /\ srv' = srv \ {q}
         /\ \/ /\ Sent(Reply(q, "ok"))
               /\ srvAuth' = (srvAuth \/ q.kind = "auth")
            \/ /\ q.kind \in Reject
               /\ Sent(Reply(q, "error"))
               /\ UNCHANGED srvAuth
    /\ UNCHANGED <<cliVars, wrcnt, sbuf, loadVars, lost, chunks, torn, histVars, missed, cuts>>

ServerPush ==
    /\ chunks < MaxChunks
    /\ \E q \in srv : q.kind = "user" /\ Sent(Reply(q, "chunk"))
    /\ chunks' = chunks + 1
    /\ UNCHANGED <<cliVars, wrcnt, sbuf, loadVars, lost, srv, srvAuth, torn, histVars, missed, cuts>>

\* The connection dies; replies that arrived before may still be read.
NetLost ==
    /\ connected /\ ~lost
    /\ lost' = TRUE
    /\ srv' = {} /\ s2c' \in {s2c, <<>>}
    /\ UNCHANGED <<cliVars, wrcnt, sbuf, loadVars, srvAuth, chunks, torn, histVars, missed, cuts>>

-----------------------------------------------------------------------------
\* The steps a call takes by itself.
CallStep ==
    \/ GreetingNoLogin \/ GreetingLogin \/ GreetingError
    \/ AuthFlush \/ AuthAccepted \/ AuthRejected \/ ConnectReload
    \/ ReloadIndexes \/ ReloadFlush \/ SchemaReply \/ SchemaEnd
    \/ ReplyArrives \/ ReplyNone

Next ==
    \/ Close \/ ConnectOpen \/ ConnectError
    \/ CallStep
    \/ UserRequest \/ Flush \/ ReadReply \/ UserReload
    \/ ServerAnswer \/ ServerPush \/ NetLost

Spec == Init /\ [][Next]_vars

\* The process runs, and the server answers what it has received.
FairSpec == Spec /\ WF_vars(CallStep) /\ WF_vars(ServerAnswer)

-----------------------------------------------------------------------------
Requests == [id : Nat, kind : Kinds, sync : Nat]
Replies == [id : Nat, kind : Kinds, sync : Nat, res : {"ok", "error", "chunk"}]

TypeOK ==
    /\ connected \in BOOLEAN /\ login \in BOOLEAN /\ lost \in BOOLEAN
    /\ srvAuth \in BOOLEAN /\ torn \in BOOLEAN /\ missed \in BOOLEAN /\ bkp \in BOOLEAN
    /\ wrcnt \in Nat /\ reqid \in Nat /\ nextId \in Nat
    /\ conns \in Nat /\ chunks \in Nat /\ cuts \in Nat /\ sloaded \in Nat
    /\ sbuf \in Seq(Requests) /\ s2c \in Seq(Replies)
    /\ srv \subseteq Requests
    /\ pc \in {"idle", "greet", "authflush", "auth", "loading", "select", "flush", "schema",
               "reply"}
    /\ caller \in {"connect", "user"}
    /\ fresh \subseteq {"space", "index"}
    /\ ret \in {"none", "ok", "fail"} /\ reloadRet \in {"none", "ok", "fail"}
    /\ got \in Kinds \cup {"none"}

\* Replies that end a request, among those on their way.
Final == {i \in 1..Len(s2c) : s2c[i].res # "chunk"}

\* The count that read_reply trusts is the number of requests without a final
\* reply, wherever each of them is, through every interleaving of writes,
\* spills, flushes, pushes, answers out of order, reconnects and schema loads;
\* until a read fails, a send fails halfway or the connection dies.
CountsOutstanding ==
    ~missed /\ ~lost =>
        wrcnt = Len(sbuf) + Cardinality(srv) + Cardinality(Final)

\* A read that fails before anything of its reply has come gives a request up
\* although the reply may still come, and a failed send may be repeated; the
\* count never promises more replies than can come, on a live connection.  (It
\* may once a read failed inside a message: the next length is then read from
\* the middle of the data, and one read may swallow several replies.)
NeverOvercounts ==
    ~lost /\ ~torn => wrcnt <= Len(sbuf) + Cardinality(srv) + Cardinality(Final)

\* A schema load that reports success has handed the spaces and, after them, the
\* indexes to the schema, in whichever order the two replies came (no read or
\* send having failed before, so that a late reply could be taken for one of
\* the two).
ReloadComplete == ~missed /\ reloadRet = "ok" => fresh = {"space", "index"}

\* tnt_connect with a login reports success only on a session that the server
\* authenticated.
ConnectMeansAuth ==
    login /\ ret = "ok" /\ connected /\ ~missed => srvAuth

\* Requests without a final reply.
Pending ==
    Range(sbuf) \cup srv \cup {[id |-> s2c[i].id, kind |-> s2c[i].kind,
                                sync |-> s2c[i].sync] : i \in Final}

\* The user is never given the reply to one of the library's own requests, and
\* requests without a final reply have distinct ids, the fixed ids of the
\* schema load included, so a reply's sync says which request it answers.
OwnReplies ==
    ~missed =>
        /\ got \in {"none", "user"}
        /\ \A p, q \in Pending : p.sync = q.sync => p = q

\* Without any timeout set, the library's own exchanges end, and so does a
\* read_reply that follows a flush: the client never waits for a reply that
\* nobody will send.
CallReturns ==
    /\ pc \notin {"idle", "reply"} ~> pc = "idle"
    /\ pc = "reply" /\ sbuf = <<>> ~> pc = "idle"
=============================================================================
