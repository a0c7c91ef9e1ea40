# A TLA+ model of the tarantool-c client

tarantool-c is the C client of the Tarantool database. A program opens a
`tnt_net` stream, connects it, writes requests into it, flushes, and reads
replies. This project models the library under `tnt/`: how bytes and requests
move through its buffers, how a connection is opened and closed, how the schema
is loaded and looked up, how msgpack objects and requests are put together and
how replies are taken apart; and `include/tp.h`, the client in one header.

Contents: [the system](#the-system), [modules](#modules-and-the-code),
[runs](#runs), [findings](#findings),
[other observations](#other-observations), [bounds](#bounds), [fairness](#fairness),
[proofs](#proofs), [what is left out](#what-is-not-modelled), [plan](#plan).

## The system

| component | state | operations | what makes it correct |
|---|---|---|---|
| receive path (`tnt_io.c`, `tnt_iob.c`) | `rbuf` (`buf`, `off`, `top`, `size`), `error` | `tnt_io_recv`, `tnt_io_recv_raw`, clearing | bytes come out once, in order, exactly as many as asked for; the buffer is never left |
| send path (`tnt_io.c`, `tnt_iob.c`) | `sbuf` (`buf`, `off`, `size`), `error` | `tnt_io_send`, `tnt_io_sendv`, `tnt_io_flush`, the raw loops | bytes reach the socket once and in order; a flush that succeeds leaves nothing |
| connecting (`tnt_io.c`) | `fd`, `connected`, the socket's mode | `tnt_io_connect` over addresses, the `poll` loop, `tnt_io_close` | no descriptor is lost, success means an established and usable socket, the wait is bounded |
| `tnt_net` stream (`tnt_net.c`, `tnt_stream.c`) | `connected`, `wrcnt`, `reqid`, both buffers | `tnt_connect`, `tnt_authenticate`, `tnt_reload_schema`, `tnt_close`, `tnt_flush`, `read_reply` | `wrcnt` counts outstanding requests; success of connect and reload is real; replies are not mixed up |
| schema (`tnt_schema.c`, `tnt_assoc.c`) | hash of spaces by name and number, hash of indexes in each space | add spaces, add indexes, look up, flush, free | lookups give the server's last answers; no entry outlives its space; a flush empties the tables |
| msgpack objects (`tnt_object.c`, the containers of `tnt_update.c`) | buffer, stack of open containers, packing type | append, open, close, grow, reset, `tnt_object_vformat`, update operations | a reader finds what was appended |
| reply parser (`tnt_reply.c`) | none | find the length, decode header and body | a reply is a length and a map; incomplete input is told from bad input |
| iterators (`tnt_iter.c`) | position in a buffer or stream | first, next, rewind, free | every element once, and an end |
| memory stream (`tnt_buf.c`) | `data`, `size`, `rdoff` | write, read, `read_reply` | replies come out whole and in order, however they went in |
| requests (`tnt_request.c` and the encoders) | the fields of a request, the stream's `reqid` | setters, compile, `tnt_insert` ... `tnt_auth` | a server that decodes the packet finds the request that was asked for |
| `tp.h` | a buffer that may move, with pointers to the length and id of the last request; cursors into a reply | `tp_ping` ... `tp_auth`, `tp_encode_*`, `tp_reqid`, `tp_reply`, `tp_next` ... | requests stay framed while the buffer grows; cursors stay in step |

A call on a stream goes through function pointers: an encoder takes the next
request id and calls `write` or `writev` of the stream; for a `tnt_net` stream
these append to the send buffer or send, and increment `wrcnt`. `read_reply`
gives up if `wrcnt` is 0, decrements it, and parses a reply out of the receive
path. `tnt_connect` clears the buffers, opens the socket, reads the greeting,
authenticates, and loads the schema through the same stream with two requests of
fixed ids, whose replies may come in either order.

The hard parts are in the middle of calls: `send`, `recv` and `writev` take or
give any part of what they are asked for, time out, or fail after a part;
errors leave buffers half used, and the stream can be used, closed and connected
again afterwards; the server answers in any order, pushes chunks first, or goes
away; `poll` is interrupted by signals; stacks, buffers and tables reach sizes
no test reaches. `PROJECT.json` lists these hazards with their lines and the
properties that would catch them going wrong.

## Modules and the code

**ByteStream** is the abstract specification of one direction of a connection: a
FIFO queue of bytes, which an error may break until the next connection. Both
halves of the I/O layer are shown to implement it.

**TntIoRecv** models `tnt_io_recv` as the code is written. Bytes are numbered in
the order the server sends them, so a byte out of order, twice, or of another
connection can be seen. `rbuf`, `off` and `top` are the fields of the buffer.
A read that the buffer can serve is one step (`Serve`); one that it cannot
copies what is there and rewinds `off` (`Drain`), then waits in `recv` (`Refill`,
`RecvEmpty` for end of file, `RecvError` for a timeout or a reset), and copies
the rest. The variable `size` is `rbuf.size`, chosen at the start from `RBufSizes`
and never changed, as `tnt_init` does; with `size = 0` there is no buffer, and
`RawRecv` accumulates in the caller's memory. `Connect` and `Close` are the parts of `tnt_connect` and
`tnt_close` that touch this half.

**TntIoSend** models `tnt_io_send`, `tnt_io_sendv`, `tnt_io_flush` and
`tnt_io_send_raw`, split where the code enters `send`: a write fits the buffer
(`WriteBuffered`), makes the buffer go out first (`WriteSpill`), does not fit at
all (`WriteTooBig`), or goes straight out (`WriteRaw`).

**TntIoSendv** models the loop of `tnt_io_sendv_raw` over a vector of segments. The
bytes of the request are numbered, a segment is a base and a length, and `at` is
where `iov` points to. `CopySegment` and `WritevReturns` are `writev` taking segment
after segment and stopping in one of them, `Skip` and `Stop` the two branches of the
inner loop. The vector that is left is compared with the bytes not yet sent.

**TntIoConnect** models `tnt_io_connect` system call by system call over a small
kernel (descriptors with a state and a blocking mode). Time passes in `poll`.

**TntNet** composes the stream with a server, one message at a time: `wrcnt`,
`reqid`, the requests in the send buffer, those the server works on, and the
replies on their way. The calls are split where the code reads from the socket and
between the writes of a schema load and its flush, each of which may fail by itself.
`Write` is a request going into the send buffer, with what has to go out first, or
straight to the socket if there is no buffer (`SBufCap = 0`); `SendBuffer` is the
flush. Where within a message a send or a read stops is left to TntIoSend and
TntIoRecv; what follows if it stops there and fails is not. A send cut halfway leaves
all of it in the buffer, to be sent again. A read that fails inside a reply, or inside the greeting,
leaves the stream `torn`: the next length is decoded from the middle of the data. On a
torn stream `read_reply` returns anything (`Garbled`) or fails, and stays so until the
stream is closed. Two abstractions keep the choice finite: what is garbled is a reply
with any result under the sync of a select or another one, and a load that has three
replies is fed no more chunks (`TakeGarbled`).

**TntSchema** models `tnt_schema.c`: the table of spaces maps a key (a name or a
number) to the address of a space value, the heap maps the allocated addresses
to contents, and each load adds rows one by one. `FlushVisit` is one round of
the loop in `tnt_schema_space_free`, which deletes whatever is filed under the
name and the number of the space it frees.

**TntObject** models `tnt_object.c` over cells in place of bytes: containers
of the three packing types, the stack of open containers with its growth (the
entries of the new stack are uninitialized; `known` marks the others), the move of the
contents when a packed container is closed. `FormatStep` is one directive of
`tnt_object_vformat`, which stops at the first one that fails. `UpdateContainer`,
`UpdateField`, `UpdateSplice` and `UpdateClose` are the operation lists of
`tnt_update.c`, which are objects whose elements are written past the object's own
count. `Decode` is a msgpack reader.

**MsgPack** has the tokens that TntRequest, TntReader and Tp share: a token has a
type, a value and its width in bytes, and `EndOf` finds the end of a value, as
`mp_next` of the msgpuck library does. It stands for a library outside `src/`.
**Iproto** adds the keys of the protocol that all three use.

**TntRequest** models the encoders. Each function that encodes one request
(`tnt_insert` to `tnt_auth`) gives the map size and the fields it has in its code;
a request object has its slots, its setters and `Writeout`, which is
`tnt_request_writeout`. Objects the caller passes may be unfinished or no arrays.
The 64-bit counter wraps (`After`), `tnt_stream_reqid` truncates it, and
`FirstId` is the rule of `tnt_request_compile` for the id it must not return.
SHA1 is a free function and the exclusive or of digests a symmetric difference,
which is all that `tnt_scramble_prepare` needs to be compared with what the
server computes.

**TntReader** models the way back: pieces of a server's replies are written to a
`tnt_buf` and cut anywhere; `Reply` and `Reply0` are the two parsers, `ReplyNext` is the
reply iterator with the copy it owns, `IterNext` and `IterRewind` are the array and
map iterators over a value of the current reply. `Fill` sets the fields of the caller's
struct in the order the code does: `tnt_reply_from` clears the struct before and after a
failure, `tnt_reply0` does neither, so `Reply0` takes the struct it is given as a
parameter.

**Tp** models `tp.h`. The buffer is a block of cells, one per byte, that `tp_ensure`
replaces by a new block; `size` and `sync` are pointers (block and offset), and
a store through one into a block that is gone is lost. Each request and each
value has what it writes and what it counts, which are not always the same. The
second half is `tp_reply` on any part of two replies, the first of which may have a
wrong type in its header or body, and the three levels of cursors.

**TntIoRecvProofs**, **TntIoSendProofs**, **TntIoSendvProofs**, **TntIoConnectProofs**,
**TntNetProofs**, **TntSchemaProofs** and **TntMsgpackProofs** (about TntObject,
TntRequest, TntReader and Tp) hold the proofs; **SeqFacts** has the lemmas about
sequences that they share. The `MC*` modules
and the `.cfg` files are the instances.

In the specifications, definitions that end in a mistake (`ServeKeepsOff`,
`PutKeepsOld`, ...) stand before the definition they are a wrong version of. They
are not used by the specification; replacing the original by one of them must
violate the property it is paired with in `PROJECT.json`, which shows that the
property depends on that piece of code.

## Runs

Each run is `tlc -config <cfg> <module>`. Passing runs:

| run | shows |
|---|---|
| `recv` | Reads of 1, 2 and 4 bytes over a 3-byte buffer and over none, any split by `recv`, timeouts, resets, end of file, reconnects: in order, nothing dropped, only bytes of the current connection (`InOrder`, `NothingDropped`, `CurrentConnectionOnly`), inside the buffer (`BufferInBounds`), all or nothing (`ExactSize`), every read returns (`ReadReturns`), and ByteStream is implemented (`StreamSpec`). Order and completeness are claimed until an error hits a buffered read. |
| `send` | The same questions for the sending half, with a 4-byte buffer and with none: `BufferInBounds`, `InOrder`, `StreamSpec`; a flush that succeeds, and so empties the buffer, has sent everything (`FlushComplete`); `CallReturns`. |
| `sendv` | For all vectors of up to four segments of up to three bytes, empty ones too: what is left is always a suffix of the request (`RestIsSuffix`) and `writev` is never called with nothing, which the loop would take for an error (`AlwaysSomethingToSend`). |
| `net` | Two connections, each as a guest or with login, with a send that may fail halfway: `wrcnt` is the number of requests without a reply (`CountsOutstanding`), on a live connection it never promises a reply that cannot come, failed reads included as long as they ended between two replies (`NeverOvercounts`), a reload that returns 0 handed both replies to the schema, spaces first (`ReloadComplete`), a connect that returns 0 is a session the server accepted (`ConnectMeansAuth`), each reader gets replies of its own kind and no two outstanding requests share an id although the schema load uses fixed ones (`OwnReplies`). All of these but `NeverOvercounts` are claimed until a read or a send fails. |
| `net_live` | No timeouts at all, and chunks pushed before replies: connect, reload and `read_reply` after a flush return (`CallReturns`). |
| `connect` | Three addresses, every system call failing in turn, interrupted polls: `NoDescriptorLeak`, `SuccessMeansEstablished` (after a wait the socket is blocking again, too), `WaitBounded` (with interruptions the wait stays below twice the timeout), `ConnectReturns`. |
| `schema` | Three loads with renames, renumberings, drops, additions and failing rows, and flushes: `NoDanglingEntry`, `CurrentResolves`, `FlushEmpties`. |
| `object` | All ways to append five values, formats that succeed and formats that fail midway, and lists of update operations: a reader finds what was appended once all is closed (`RoundTrip`), and the offsets on the stack stay on the headers they belong to (`OffsetsValid`), both unless an uninitialized entry was used. |
| `request` | Every encoder on every kind of object, and every order of setters: a decoder finds in the packet the type, the id and the fields asked for, in a map and a length that are right (`Decodes`); -1 from `tnt_request_compile` always means that nothing was written, on a counter that wraps (`MinusOneMeansError`); the scramble lets a server with the digest recognise that password and salt, and no other (`ScrambleProves`). |
| `reader` | Two replies, each right or malformed, written in pieces cut anywhere: `ParsedInOrder`, `ParsersAgree` (both parsers return the same, find the same fields in a whole reply if the struct was cleared and the same header if it was not, and what they say is missing is exact), `OneCopy` (the iterator neither loses nor doubles its copy, lack of memory included), `VisitsAll` (array and map iterators, with rewinds and calls behind the end). |
| `tp` | Two requests with two values appended, static and growing buffers, failing `realloc`, ids set at any point: `RequestsIntact`, `InBounds`; any part of two replies that has the first one's length, malformed ones too: `WholeReply`; any order of cursor calls: `CursorsAgree`. |

## Findings

One run must be found violated; `PROJECT.json` quotes the text it contradicts.

| run | the code | the text |
|---|---|---|
| `object_grow` | The stack grows without keeping its contents (`tnt_object.c:39`), so closing reads uninitialized memory. | "Close the latest opened container" |

## Other observations

Disagreements met while modelling. The models have the behaviour the code has,
and the properties are stated so that they say what holds in spite of it.

- After a refill that failed the next read returns bytes a second time: `rbuf.off` is
  rewound before `recv` is known to succeed, `rbuf.top` is not (`tnt_io.c:492`),
  while by `doc/source/stream.rst:66` `read` reads a reply from the server. Hence
  `broken` in TntIoRecv.
- A read that fails inside a reply has consumed part of it (`tnt_reply.c:77`), and with a
  receive buffer the failed refill makes old bytes readable again, so that in buffered
  mode hardly any failed read leaves the stream in step. The next `read_reply` decodes a
  length out of the data, may swallow several replies for one decrement of `wrcnt`, and
  then waits for replies that have been read. The same happens after a greeting that was
  not read whole (`tnt_net.c:255`): `connected` stays set. Hence `torn` in TntNet, and
  nothing is claimed of a torn stream.
- `tnt_authenticate` does not look at what `tnt_auth` and `tnt_flush` return
  (`tnt_net.c:229`). If AUTH is not sent, because it does not fit the send buffer
  (`AuthFits = FALSE`) or because there is none and its own send fails (`SBufCap = 0`),
  nothing is outstanding, `read_reply` returns 1, and `tnt_connect` returns 0 on a session
  that is not authenticated, while `doc/source/connection.rst:137-141` lists "Can't
  authenticate" among its failures. With either of these constants TLC finds
  `ConnectMeansAuth` violated.
- The results of `tnt_schema_add_spaces` and `tnt_schema_add_indexes` are not looked at
  (`tnt_net.c:190`, 202, 209): a `tnt_reload_schema` that returns 0 has handed over the
  replies, and says nothing of the rows.
- `tnt_reply0` neither clears the struct nor sets `buf`. A struct that is used again
  keeps the body of the reply before if this one has none, and when the body is
  refused it has the header of the refused reply (`tnt_reply.c:155`, 291), where
  `tnt_reply` clears everything. Hence `ParsersAgree` compares all fields only for a
  cleared struct and a whole reply.
- A reload never flushes (`tnt_net.c:171`): names the server no longer has still
  resolve, while `doc/source/connection.rst:161-162` has "Delete the old schema".
- A read that times out reports `TNT_ESYSTEM` (`tnt_io.c:463`), while
  `doc/source/connection.rst:64` has `TNT_ETMOUT` for "connect/read/write
  operations".
- A flush that failed halfway leaves `sbuf.off` as it was (`tnt_io.c:325`), so the
  next one sends again what `send` had taken. TntIoSend's properties are about the
  time until a send is cut.
- A `connect` that succeeds at once returns before the code under "setting block"
  (`tnt_io.c:117` and 173): the socket stays non-blocking. Hence
  the exception for `immediate` in `SuccessMeansEstablished`.
- After a signal, `poll` waits for the whole timeout again (`tnt_io.c:132`), so one
  address can take almost twice `TNT_OPT_TMOUT_CONNECT`; `WaitBounded` is what
  is left.
- `tnt_io_close` closes only descriptors above 0 (`tnt_io.c:315`), while `socket` may
  return 0.
- `tnt_authenticate` drops the result of `tnt_reload_schema` (`tnt_net.c:242`), while
  `doc/source/connection.rst:143` lists "Can't parse schema" among the failures of
  `tnt_connect`.
- Containers of a `TNT_SBO_SIMPLE` object fill the stack (`tnt_object.c:213`), although
  by `doc/source/msgpackobject.rst:179` only the other types are closed; and a
  container that is refused for it is still counted in the one around it.
- A reload replaces the entries of a space without freeing what they led to
  (`tnt_schema.c:150`): every reload loses a space value for each space.
- `tnt_buf_read` copies in the wrong direction, from the caller's buffer into the
  stream's (`tnt_buf.c:61`). `TntReader!BufRead` does so too; the properties of the
  replies are about streams on which it is not used.
- `tnt_buf_resize` frees `sb->data` when `realloc` fails and leaves the pointer to it
  (`tnt_buf.c:72`), as does the same function for objects.
- `tnt_request_compile` says "`>0` ok" (`tnt_request.h:281`), and the first id is 0.
  Past `INT64_MAX` the id it returns is negative; only -1 is avoided.
- `tnt_request_set_key_format` and `..._tuple_format` reset the object that they keep
  before the format is parsed (`tnt_request.c:116`). If it is wrong, the request still
  points to the object, with the bytes of the failed format. Unlike the functions
  that encode one request, request objects do not verify keys and tuples.
- A key on an INSERT, REPLACE, AUTH or PING request is refused when the request is
  written, after its id was taken (`tnt_request.c:286`).
- `TNT_ITER_FAIL` is "error or end of iteration" (`tnt_iter.h:166`), but the reply
  iterator keeps `TNT_ITER_OK` at the end (`tnt_iter.c:179`), and a reply that is cut
  looks like the end.
- The bitmap of fields in `tnt_reply_body0` shifts by the key; for `TNT_SQL_INFO`
  (66) that is beyond the width of the type.
- `tp.h`: `tp_delete` counts the header of its map and does not write it (line 1073);
  `tp_op_splice` counts the size of `field_no` for the offset and the cut limit too
  (line 1236); `tp_auth` and `tp_deauth` count less than they write;
  `tp_format` formats a second time with consumed arguments if the buffer had to
  grow; `tp_realloc` only doubles when more than the size and not more than twice the
  size is wanted, however much is in use.
  `RequestsIntact` and `InBounds` are stated around these.
- `tp_reply` returns -1, as for an error, when the buffer ends inside the five bytes of the
  length (`tp.h:1702`), where its comment has "Returns 0 if buffer contains only part of
  the response" (`tp.h:547`). `WholeReply` leaves this case out.

## Bounds

Every bound is a CONSTANT: `MaxBytes`, `MaxRead`, `MaxWire`, `MaxReqs`,
`MaxConns`, `MaxChunks`, `MaxCuts`, `MaxConnects`, `MaxAdds`, `MaxLoads`,
`MaxReplies`, `MaxRequests`, `MaxPieces`, `MaxPast`, `MaxBehind`.

- Receive: no buffer, and a buffer of 3 with reads of 1, 2 and 4 has reads that fit, that end
  exactly at the end of the buffer, that straddle a refill and that are larger
  than the buffer; 5 bytes are almost two fills.
- Send: no buffer, and a buffer of 4 with writes of 1, 2, 3 and 5: exact fit,
  spill, too big.
- Vectors: `IovMax = 2` with four segments goes through the window twice. The
  proofs remove the bounds of these three.
- `tnt_net`: `SchemaSync = 1` in place of 127 lets the user's request ids reach the
  fixed ids of the schema load within a few requests. Two connections show what
  one leaves to the next. A guest connects as well as a user (`Logins`). `net` has
  the sends that are cut (`MaxCuts`), `net_live` the pushed chunks (`MaxChunks`). The
  send buffer has room for two requests in `net` and for one in `net_live`, so that a load
  always spills. A stream without one (`SBufCap = 0`) is left to the theorems, which hold
  for it too but for `ConnectMeansAuthTheorem`.
- Connecting: two descriptors for three addresses, so that a leak is noticed as
  soon as it happens; a timeout of 4 units can be interrupted several times.
- Schema: two names and two numbers give every way to rename, renumber or
  exchange; three loads are what it takes for an entry whose two keys belong to
  two later spaces. When the four addresses are used up, allocation fails. Names
  and addresses are symmetric.
- Objects: a stack of 2 that grows to 4 stands for 8 to 128, and the header sizes
  change at 1 and at 2 elements in place of 15 and 65535. The formats include one
  that is deeper than the first stack, one that closes too often and a map with
  an odd number of values.
- Requests: ids of two bits (`SyncMax = 1`) and `tnt_stream_reqid` of one make the
  counter wrap twice in a few requests; numbers of one and of three bytes, empty and
  long names change the widths. A packet depends on the request object and on the
  counter only, so every reachable object is written at every counter.
- Replies: eight kinds, of which four are malformed; two in a row show that one does
  not disturb the next. Every cut of their bytes is tried.
- `tp`: buffers of 0, 20 and 40 bytes; a request takes 15 to 60, a value up to 42, so
  that the first, the second and a value may each need room, and all three branches
  of the growth are taken with bytes in use.

Deadlock is checked in all runs but `sendv`, `reader` and `tp`, whose behaviours end
when the request is sent, when all replies are read, and when the bounds are used
up.

## Fairness

`FairSpec` is used for liveness only.

- TntIoRecv, TntIoSend, TntIoConnect: weak fairness of the steps of a call in
  progress. A thread inside the library runs, and a system call it makes returns:
  with data, with end of file, with an error, or when `SO_RCVTIMEO` or
  `SO_SNDTIMEO` runs out (the instances have the timeouts set); `poll` returns
  within the timeout. The server owes nothing.
- TntNet (`net_live`): the same for the calls, without timeouts, and weak fairness
  of `ServerAnswer`: the server answers each request it received. Without that a
  read without timeout may rightly wait for ever. That `CallReturns` needs no
  more is the point: the stream waits only for replies that are due.

## Proofs

Every theorem is about all values of the constants that the `ASSUME`s of the module
allow (sizes and bounds are natural numbers, sets have the right members); further
hypotheses stand in the theorem. Each proof has an inductive invariant, one lemma
per action that it is kept, and short theorems that the properties of the runs
follow from it. TLC has checked every one of these invariants on the instances of
the runs.

### Receiving: TntIoRecvProofs

Any set of buffer sizes (0 included), any set of positive read sizes, any bounds.
`IndInvTheorem` proves `IndInv`, the conjunction of

- `TypeOK` and `BufferInBounds` (`off <= top <= size`);
- `CallShape`: while a read waits in `recv`, what has been copied is less than what
  was asked for, and the buffer is in the state `Drain` left it in;
- `OwnBytes`: bytes in the buffer, in the caller's memory and on their way belong
  to the current connection;
- `InOrder`, `NothingDropped`, and `Aligned`: what was returned, what is copied, what
  is buffered and what is on its way are consecutive.

`InOrder` is not inductive: it speaks of returned bytes only, and the
next ones come from the buffer. `Aligned` says where every byte between the server
and the caller is, which is what each step moves. From `IndInv` follow
`TypeCorrect`, `BufferInBoundsTheorem`, `InOrderTheorem`, `NothingDroppedTheorem`,
`CurrentConnectionOnlyTheorem`, `ExactSizeTheorem` (an action property), and
`RecvImplementsStream`: initial states map to initial states of ByteStream, and
every step is a step of it or a stutter, one lemma per action.

### Sending: TntIoSendProofs

The mirror image, for any buffer size and any write sizes. `LastWritten` says that
the buffer and the message of the call are the last bytes written, in order; `Sent`
says how far the wire can have got, which differs when a write that bypasses the
buffer has begun and when the connection is down (what is buffered then has not been
sent, although it may be sent on the next connection). `CallShape` relates the
source of a raw send, its offset and the phase of the call. With `NothingDropped`
these give `BufferInBoundsTheorem`, `InOrderTheorem`, `NothingDroppedTheorem`,
`CurrentConnectionOnlyTheorem`, `FlushCompleteTheorem` (an action property) and
`SendImplementsStream`, the refinement of ByteStream.

### Vectors: TntIoSendvProofs

Any vector whose first segment is not empty (a request begins with its length), any
`getiovmax()`, with the callback or without. `Contiguous`: the segments that are
left follow one another up to the end of the request. `Position`: the first of them
begins behind the last byte that went out, corrected by what `writev` has taken in
this call or what is still to be skipped, and it is not empty when `writev` is called.
The last part is what an off-by-one in `iov_len > r` breaks, and
`AlwaysSomethingToSendTheorem` follows from it; `RestIsSuffixTheorem` is the rest.

### Connecting: TntIoConnectProofs

Any set of descriptors, any number of addresses, any timeout. `Waiting` adds to
`WaitBounded` that `poll` is entered with less than the timeout behind it, which
gives `WaitBoundedTheorem`. `Descriptors` says what `fd` is at each point of the
call (the only open descriptor, in which state), `Progress` what a connection that is
up has gone through; together they give `NoDescriptorLeakTheorem` and
`SuccessMeansEstablishedTheorem`. These two have the hypothesis `0 \notin Fds`:
`tnt_io_close` takes descriptor 0 for none (see the observations), and without the
hypothesis they are false. A program that has closed its standard input can get 0.

### The stream: TntNetProofs

Any capacity of the send buffer, any set of requests that the server refuses, any
number of connections, pushes and failures, with timeouts or without, with a send
buffer or none.

The first part is about the count. Requests have an id in the order they are encoded,
and are in the send buffer, at the server, or have replies on their way. `Sound`
bounds `wrcnt` from both sides by sets of ids: on a live connection that is not torn
(`InStep`) it is at most the
number of ids for which a final reply can still come (`Due`); until a read or a send
fails it is at least the number of ids in any of the three places (`Known`), and each
request is in one place only, its final reply being its last (`Apart`). Neither
`CountsOutstanding` nor `NeverOvercounts` is inductive: they count requests, and a
request that is sent, answered or announced by a chunk changes places without
changing the count, which is clear only from sets of ids. `Sound` is an operator on
three places and a counter, and one lemma says for each thing that can happen to them
(written, transmitted, cut, lost, cleared, answered, pushed, taken, missed) that it
is kept; the lemma of an action cites these. On a torn stream nothing bounds `wrcnt` from
above, since one garbled read may stand for several replies; closing the stream, which
sets it to 0, is what brings the bound back. `NetInvTheorem`, `TypeCorrect`,
`NeverOvercountsTheorem` and `CountsOutstandingTheorem` have no hypothesis.

The second part adds what the requests in hand are in each phase of a call.
`Truthful`: what a reply says of the server that sent it. `Named`: an id belongs to one
request, and the two selects have the fixed syncs. `Phases`: while
`tnt_authenticate` waits only AUTH is in hand, while a load waits only the two selects
are, and nothing is in between. `Loading`: which of the selects is still awaited, from
`sloaded` and the reply kept back. From these `ReloadCompleteTheorem` follows without a
hypothesis, also for a server that refuses the selects. Two more theorems need one:

- `ConnectMeansAuthTheorem` (invariant `Authed`) is for `AuthFits` and `SBufCap > 0`: an
  AUTH packet that does not fit the send buffer, or whose own send fails, is lost
  unnoticed (see the observations).
- `OwnRepliesTheorem` (invariant `Owned`) is for servers that refuse neither select:
  after a refused space select the reply to the index select is left for the user
  (`tnt_net.c:189`).

### The schema: TntSchemaProofs

Any names, numbers, addresses and number of loads, from the assumption that names and
numbers are different keys. Its `IndInv` adds to
`NoDanglingEntry` the rows that are already loaded (`Progress`) and the flush loop
(`NothingPassed`: an entry that is still there has not been passed). The heart is
that the entries leading to a space value are filed under its own two keys, so
that the two deletions of a round remove all of them and always the one the loop
stands on. `CurrentResolvesTheorem` also uses that a new row cannot take a key of
another row of the same reply, and that two space numbers never lead to the same
value.

### Objects, requests, replies, tp.h: TntMsgpackProofs

Four components, each with its own specification and its own invariant.

- **Objects.** `ObjectInv` says more than `OffsetsValid`: the whole header of every
  known container lies in the buffer at its offset (`HeaderAt`), the header of each
  container ends before that of every container inside it (`OpenIn`), the entries
  in use fit the stack, and (`Usage`) an object with nothing written has no open
  container, while a list of update operations has at most one. `OffsetsValid` only
  orders neighbours on the stack and says nothing of where a header ends, but
  closing a container moves all cells behind its header: that the headers around
  it stay needs the order of every two, and the widths. `OpenStays`, `OpenPushed`,
  `OpenClosed` and `RewriteFacts` say what appending, opening and closing do to this, and
  the lemma of each call cites them. `OffsetsValidTheorem` and `StackFitsTheorem` follow,
  for any stack, any limits of the short headers and any declared sizes.
- **Requests.** `IdInv` adds to `MinusOneMeansError` that the counter is a `uint64_t`;
  `MinusOneTheorem` holds for every width of the counter and for every number of bits
  that `tnt_stream_reqid` keeps. `ProofInv` says that the scramble in a packet is that
  of a salt and a password of the call; `ScrambleTheorem` is then algebra of free
  digests and the symmetric difference. It rests on `PasswordAssumption`, that no
  password is itself a salt followed by the digest of a digest (the scramble
  would cancel out), which for 20-byte random salts and SHA1 is what the protocol
  takes for granted.
- **Replies.** `CopyInv` is what the reply iterator holds against what is allocated;
  `OneCopyTheorem` does not depend on what the parser finds. `ParsersTheorem` is about the
  parsers alone: on every sequence of tokens, complete or not, `tnt_reply` and
  `tnt_reply0` return the same code and, unless they fail, the same offset, whatever
  struct `tnt_reply0` is given; into a cleared one both read the same fields of a whole
  reply. `FillEither` and `FillCleared` say what the code and the fields do not depend on.
  That is most of `ParsersAgree`, for any input.
- **tp.h.** `BufInv` says that the buffer is a block, that `p` is inside it until
  something was written outside, and that `InBounds` holds; `EnsureMakesRoom` is the growth of `tp_ensure` and
  `tp_realloc` for any size, `WroteInBounds` every write after it. `InBoundsTheorem` follows.
  `CountAssumption`, that the sizes the requests and values count and write are
  natural numbers, is about the fixed tables of the module. TLC evaluates it; to
  prove it would take induction over the fold that adds the bytes.

### Only model-checked

- Liveness, which needs fairness and ENABLED: `ReadReturns`, `CallReturns` of the
  sending half and of the stream, `ConnectReturns`.
- What a reader finds: `RoundTrip` of TntObject (`Decode` is recursive), `Decodes` of
  TntRequest, `ParsedInOrder` and `VisitsAll` of TntReader, and the parts of `ParsersAgree` that the
  bytes said to be missing are the ones the server still has to send and that a used
  struct gets the right header; `RequestsIntact`,
  `WholeReply` and `CursorsAgree` of Tp. Packets and replies are put together and
  measured with folds over sequences of tokens (`FlattenSeq`, `FoldSeq`), and what a
  fold computes takes induction over the sequence. The instances cover every kind
  of request and reply that the code distinguishes.
- The upper bound of the stack in `TntObject!TypeOK`: doubling reaches `StackMax` exactly
  only if it is `StackInit` times a power of two, as 8 and 128 are.

## What is not modelled

- Of `tnt_io.c`: the search for a socket buffer size (`tnt_io_xbufmax`), and
  `tnt_io_getiovmax`. Of `tnt_schema.c`: the positions in the hash table, hence the
  incremental resize of `third_party/mhash.h` while a flush is running, and a
  4-byte name with the bytes of a space number. Of `tnt_object.c`: read-only
  objects (`tnt_object_as`) and allocation failure. Of `tnt_buf.c`: a failing
  `realloc`. Of `tp.h`: `tp_greeting`, the typed getters, `tp_free`, the scramble (the same
  as in `tnt_auth.c`), replies whose length prefix is wrong.
- `tnt_opt.c` and `tnt_mem.c`: they set a field or call `realloc`.
- Two threads on one stream: `wrcnt` is atomic, the rest of the library is not.
- `tntrpl/`: not built (the `add_subdirectory` call in `CMakeLists.txt` is commented
  out) and written for an older protocol. `third_party/`: vendored, apart from the
  put and delete of `mhash.h`, which TntSchema uses as operations on functions.

## Plan

Done, in this order: ByteStream, TntIoRecv with its proofs, TntIoSend and
TntIoSendv, TntNet, TntIoConnect, TntObject, TntSchema with its proofs, MsgPack,
TntRequest, TntReader, Tp, and the formats and update operations of TntObject.

Then the theorems about TntIoConnect, TntIoSend, TntIoSendv and TntNet, for which
TntIoSendv was written anew, without recursion, and those about TntObject,
TntRequest, TntReader and Tp that need no induction over data.

Left:

1. **TntAssoc**: double hashing and the incremental resize as an implementation of
   a function, and the flush loop over positions.
2. A writer and a reader thread on one stream, for `wrcnt`.
3. `tnt_io_xbufmax` as a search checked against the largest value the kernel takes.
