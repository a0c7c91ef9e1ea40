---------------------------- MODULE TntIoConnect ----------------------------
(***************************************************************************)
(* Opening and closing the socket of a tnt_net stream: tnt_io_connect,     *)
(* tnt_io_connect_tcp over the resolved addresses, tnt_io_connect_do with  *)
(* its poll loop, tnt_io_connect_unix, tnt_io_setopts, tnt_io_nonblock and *)
(* tnt_io_close (tnt/tnt_io.c).                                            *)
(*                                                                         *)
(* Every system call may fail.  Time is counted in units of a fraction of  *)
(* opt.tmout_connect and passes inside poll(), which signals interrupt.    *)
(***************************************************************************)
EXTENDS Integers, FiniteSets

CONSTANTS
    NAddrs,      \* addresses getaddrinfo returns
    Tmout,       \* opt.tmout_connect
    Fds,         \* descriptors socket() may return (the lowest free one)
    MaxConnects  \* bound: calls of tnt_io_connect

ASSUME ConnectAssumption ==
    /\ NAddrs \in Nat \ {0}
    /\ Tmout \in Nat \ {0}
    /\ Fds \subseteq Nat /\ Fds # {} /\ IsFiniteSet(Fds)
    /\ MaxConnects \in Nat

VARIABLES
    fd,          \* sn->fd
    connected,   \* sn->connected
    unix,        \* the URI names a Unix socket (URI_UNIX), else a TCP host
    pc,          \* where tnt_io_connect is
    addr,        \* the address being tried
    result,      \* the enum tnt_error it is about to return
    waited,      \* time since start_connect
    sock,        \* the kernel's sockets: descriptor -> state
    nonblock,    \* O_NONBLOCK of the socket sn->fd
    immediate,   \* history: connect() succeeded at once
    connects     \* history: calls made

vars == <<fd, connected, unix, pc, addr, result, waited, sock, nonblock, immediate, connects>>

Open == {d \in Fds : sock[d] # "free"}

Init ==
    /\ fd = -1 /\ connected = FALSE /\ unix = FALSE
    /\ pc = "idle" /\ addr = 1 /\ result = "EOK" /\ waited = 0
    /\ sock = [d \in Fds |-> "free"] /\ nonblock = FALSE
    /\ immediate = FALSE /\ connects = 0

-----------------------------------------------------------------------------
\* tnt_io_close: the descriptor is closed if it is positive.
IoClose ==
    /\ IF fd > 0
       THEN fd' = -1 /\ sock' = [sock EXCEPT ![fd] = "free"]
       ELSE UNCHANGED <<fd, sock>>
    /\ connected' = FALSE

\* tnt_close
Close ==
    /\ pc = "idle"
    /\ IoClose
    /\ UNCHANGED <<unix, pc, addr, result, waited, nonblock, immediate, connects>>

\* tnt_connect closes a live connection, then tnt_io_connect starts; tnt_set
\* may have changed the URI in between: a TCP host, a Unix socket, or neither.
Start ==
    /\ pc = "idle" /\ connects < MaxConnects
    /\ IF connected THEN IoClose ELSE UNCHANGED <<fd, sock, connected>>
    /\ \/ unix' = FALSE /\ pc' = "resolve" /\ UNCHANGED result
       \/ unix' = TRUE /\ pc' = "socket" /\ UNCHANGED result
       \/ unix' = FALSE /\ pc' = "idle" /\ result' = "EFAIL"
    /\ addr' = 1 /\ waited' = 0 /\ immediate' = FALSE
    /\ connects' = connects + 1
    /\ UNCHANGED nonblock

Return(res) ==
    /\ pc' = "idle" /\ result' = res

Resolve ==
    /\ pc = "resolve"
    /\ \/ pc' = "socket" /\ UNCHANGED result
       \/ Return("ERESOLVE")
    /\ UNCHANGED <<fd, connected, addr, waited, sock, nonblock, immediate, connects>>

\* The attempt on this address failed with res: go on with the next one, or
\* return the last error.
NextAddr(res) ==
    IF ~unix /\ addr < NAddrs
    THEN pc' = "socket" /\ addr' = addr + 1 /\ result' = res
    ELSE Return(res) /\ UNCHANGED addr

Socket ==
    /\ pc = "socket" /\ Open # Fds
    /\ \E d \in Fds \ Open :
         /\ \A g \in Fds \ Open : d <= g
         /\ fd' = d /\ sock' = [sock EXCEPT ![d] = "new"]
    /\ pc' = "setopts" /\ nonblock' = FALSE
    /\ UNCHANGED <<connected, addr, result, waited, immediate, connects>>

SocketError ==
    /\ pc = "socket"
    /\ fd' = -1
    /\ NextAddr("ESYSTEM")
    /\ UNCHANGED <<connected, waited, sock, nonblock, immediate, connects>>

\* Mutant: the socket is not closed.
AbandonOpen(res) ==
    /\ NextAddr(res)
    /\ UNCHANGED <<fd, sock, connected, nonblock, immediate, connects>>

\* Giving an address up: close the socket, try the next address.
Abandon(res) ==
    /\ IoClose
    /\ NextAddr(res)
    /\ UNCHANGED <<nonblock, immediate, connects>>

\* tnt_io_setopts, then tnt_io_nonblock(s, 1) for TCP.
SetOpts ==
    /\ pc = "setopts"
    /\ \/ /\ pc' = "connect"
          /\ nonblock' = ~unix
          /\ UNCHANGED <<fd, connected, addr, result, sock, immediate, connects>>
       \/ Abandon("ESYSTEM")
    /\ UNCHANGED waited

\* A blocking connect() on a Unix socket.
ConnectUnix ==
    /\ pc = "connect" /\ unix
    /\ \/ /\ sock' = [sock EXCEPT ![fd] = "established"]
          /\ connected' = TRUE /\ Return("EOK")
          /\ UNCHANGED <<fd, addr, nonblock, immediate, connects>>
       \/ Abandon("ESYSTEM")
    /\ UNCHANGED waited

\* A non-blocking connect() on a TCP socket that succeeds at once: the address
\* is done, O_NONBLOCK stays set.
ConnectNow ==
    /\ pc = "connect" /\ ~unix
    /\ sock' = [sock EXCEPT ![fd] = "established"]
    /\ connected' = TRUE /\ Return("EOK")
    /\ immediate' = TRUE
    /\ UNCHANGED <<fd, addr, waited, nonblock, connects>>

\* EINPROGRESS starts the clock; any other error ends the attempt.
ConnectLater ==
    /\ pc = "connect" /\ ~unix
    /\ \/ /\ pc' = "poll" /\ waited' = 0
          /\ UNCHANGED <<fd, connected, addr, result, sock, nonblock, immediate, connects>>
       \/ Abandon("ESYSTEM") /\ UNCHANGED waited

\* Mutant: SO_ERROR is not asked for.
PollEventTrusted(d) ==
    /\ pc = "poll"
    /\ waited' = waited + d
    /\ sock' \in {sock, [sock EXCEPT ![fd] = "established"]}
    /\ pc' = "block"
    /\ UNCHANGED <<fd, connected, addr, result, nonblock, immediate, connects>>

\* poll() reports an event d after it was called; SO_ERROR says which.
PollEvent(d) ==
    /\ pc = "poll"
    /\ waited' = waited + d
    /\ \/ /\ sock' = [sock EXCEPT ![fd] = "established"]
          /\ pc' = "block"
          /\ UNCHANGED <<fd, connected, addr, result, nonblock, immediate, connects>>
       \/ Abandon("ESYSTEM")

\* poll() gives up after the whole timeout.
PollTimeout ==
    /\ pc = "poll"
    /\ waited' = waited + Tmout
    /\ Abandon("ETMOUT")

\* Mutants of PollInterrupted: no look at the clock; the clock starts again.
PollInterruptedAgain(d) ==
    /\ pc = "poll"
    /\ waited' = waited + d
    /\ UNCHANGED <<fd, connected, pc, addr, result, sock, nonblock, immediate, connects>>

PollInterruptedRestarts(d) ==
    /\ pc = "poll"
    /\ waited' = d
    /\ IF d >= Tmout
       THEN Abandon("ETMOUT")
       ELSE UNCHANGED <<fd, connected, pc, addr, result, sock, nonblock, immediate, connects>>

\* A signal interrupts poll() after d: it is called again with the whole
\* timeout, unless that has passed since connect().
PollInterrupted(d) ==
    /\ pc = "poll"
    /\ waited' = waited + d
    /\ IF waited + d >= Tmout
       THEN Abandon("ETMOUT")
       ELSE UNCHANGED <<fd, connected, pc, addr, result, sock, nonblock, immediate, connects>>

\* poll() or gettimeofday() fails otherwise.
PollError ==
    /\ pc = "poll"
    /\ Abandon("ESYSTEM")
    /\ UNCHANGED waited

\* tnt_io_nonblock(s, 0)
SetBlock ==
    /\ pc = "block"
    /\ \/ /\ nonblock' = FALSE
          /\ connected' = TRUE /\ Return("EOK")
          /\ UNCHANGED <<fd, addr, sock, immediate, connects>>
       \/ Abandon("ESYSTEM")
    /\ UNCHANGED waited

Attempt ==
    \/ Resolve \/ Socket \/ SocketError \/ SetOpts
    \/ ConnectUnix \/ ConnectNow \/ ConnectLater
    \/ \E d \in 0..Tmout : PollEvent(d)
    \/ \E d \in 1..Tmout : PollInterrupted(d)
    \/ PollTimeout \/ PollError
    \/ SetBlock

Step == Attempt /\ UNCHANGED unix

Next == Start \/ Close \/ Step

Spec == Init /\ [][Next]_vars

\* A call in progress keeps running, and time passes between two signals.
FairSpec == Spec /\ WF_vars(Step)

-----------------------------------------------------------------------------
TypeOK ==
    /\ fd \in Fds \cup {-1} /\ connected \in BOOLEAN /\ unix \in BOOLEAN
    /\ pc \in {"idle", "resolve", "socket", "setopts", "connect", "poll", "block"}
    /\ addr \in 1..NAddrs
    /\ result \in {"EOK", "EFAIL", "ESYSTEM", "ERESOLVE", "ETMOUT"}
    /\ waited \in Nat
    /\ sock \in [Fds -> {"free", "new", "established"}]
    /\ nonblock \in BOOLEAN /\ immediate \in BOOLEAN
    /\ connects \in Nat

\* Every socket that is open is the stream's: whichever call fails on whichever
\* address, no descriptor is lost, and none is left after a failure.
NoDescriptorLeak ==
    /\ Open \subseteq {fd}
    /\ pc = "idle" /\ ~connected => Open = {}

\* tnt_io_connect reports success exactly when it leaves an established
\* connection behind: an error on an early address does not stick, and one
\* after the connection was made undoes it.  One that had to be waited for is
\* blocking again, as tnt_io_send and tnt_io_recv need it.
SuccessMeansEstablished ==
    /\ connected => result = "EOK" /\ fd \in Fds /\ sock[fd] = "established"
    /\ pc = "idle" /\ ~connected => \A d \in Fds : sock[d] # "established"
    /\ connected /\ ~immediate => ~nonblock

\* Signals can stretch the wait on one address, but never to twice the timeout.
WaitBounded == waited < 2 * Tmout

-----------------------------------------------------------------------------
(* The inductive invariants behind the safety properties. *)

\* poll() is entered with less than the timeout behind it.
Waiting == WaitBounded /\ (pc = "poll" => waited < Tmout)

\* What sn->fd is at each point of tnt_io_connect: no step starts from a socket
\* that nobody will close.
Held == {"setopts", "connect", "poll", "block"}
Descriptors ==
    /\ Open \subseteq {fd}
    /\ pc \in Held => fd \in Fds
    /\ pc \in Held \ {"block"} => sock[fd] = "new"
    /\ pc = "block" => sock[fd] = "established"
    /\ pc \notin Held /\ ~connected => Open = {}

\* What a connection that is up has gone through.
Progress ==
    /\ pc # "idle" => ~connected /\ ~immediate
    /\ pc = "connect" /\ unix => ~nonblock
    /\ connected => result = "EOK" /\ fd \in Fds /\ sock[fd] = "established"
    /\ connected /\ ~immediate => ~nonblock

-----------------------------------------------------------------------------
\* tnt_io_connect returns, however often it is interrupted.
ConnectReturns == pc # "idle" ~> pc = "idle"
=============================================================================
