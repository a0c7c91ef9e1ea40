------------------------- MODULE TntIoConnectProofs -------------------------
(***************************************************************************)
(* Proofs about TntIoConnect, for any number of addresses, any timeout and *)
(* any set of descriptors.                                                 *)
(***************************************************************************)
EXTENDS TntIoConnect, TLAPS

USE ConnectAssumption

-----------------------------------------------------------------------------
(* Types. *)

\* tnt_io_close leaves -1 or the descriptor it does not close.
LEMMA IoCloseType ==
    ASSUME TypeOK, IoClose
    PROVE  /\ fd' \in Fds \cup {-1} /\ connected' \in BOOLEAN
           /\ sock' \in [Fds -> {"free", "new", "established"}]
  BY DEF TypeOK, IoClose

\* The address stays in the list that getaddrinfo returned.
LEMMA NextAddrType ==
    ASSUME TypeOK, NEW res \in {"ESYSTEM", "ETMOUT"}, NextAddr(res)
    PROVE  /\ addr' \in 1..NAddrs
           /\ result' \in {"EOK", "EFAIL", "ESYSTEM", "ERESOLVE", "ETMOUT"}
           /\ pc' \in {"idle", "socket"}
  BY DEF TypeOK, NextAddr, Return

\* Giving an address up, at any point, keeps the types.
LEMMA AbandonType ==
    ASSUME TypeOK, NEW res \in {"ESYSTEM", "ETMOUT"}, Abandon(res),
           waited' \in Nat, UNCHANGED unix
    PROVE  TypeOK'
  <1>1. /\ fd' \in Fds \cup {-1} /\ connected' \in BOOLEAN
        /\ sock' \in [Fds -> {"free", "new", "established"}]
    BY IoCloseType DEF Abandon
  <1>2. /\ addr' \in 1..NAddrs
        /\ result' \in {"EOK", "EFAIL", "ESYSTEM", "ERESOLVE", "ETMOUT"}
        /\ pc' \in {"idle", "socket"}
    BY NextAddrType DEF Abandon
  <1> QED
    BY <1>1, <1>2 DEF TypeOK, Abandon

\* Every variable keeps its type through every call of tnt_io_connect.
LEMMA TypeStep == TypeOK /\ [Next]_vars => TypeOK'
  <1> SUFFICES ASSUME TypeOK, [Next]_vars PROVE TypeOK'
    OBVIOUS
  <1>s. "ESYSTEM" \in {"ESYSTEM", "ETMOUT"} /\ "ETMOUT" \in {"ESYSTEM", "ETMOUT"}
    OBVIOUS
  <1>w. waited \in Nat /\ Tmout \in Nat /\ 0 \in Nat
    BY DEF TypeOK
  <1>1. CASE Start
    <2>1. /\ fd' \in Fds \cup {-1} /\ connected' \in BOOLEAN
          /\ sock' \in [Fds -> {"free", "new", "established"}]
      BY <1>1, IoCloseType DEF Start, TypeOK
    <2>2. /\ unix' \in BOOLEAN /\ pc' \in {"idle", "resolve", "socket"}
          /\ result' \in {"EOK", "EFAIL", "ESYSTEM", "ERESOLVE", "ETMOUT"}
      BY <1>1 DEF Start, TypeOK
    <2>3. addr' \in 1..NAddrs /\ waited' \in Nat
      BY <1>1 DEF Start
    <2>4. connects' \in Nat
      BY <1>1 DEF Start, TypeOK
    <2>5. immediate' \in BOOLEAN /\ nonblock' \in BOOLEAN
      BY <1>1 DEF Start, TypeOK
    <2> QED
      BY <2>1, <2>2, <2>3, <2>4, <2>5 DEF TypeOK
  <1>2. CASE Close
    BY <1>2, IoCloseType DEF Close, TypeOK
  <1>3. CASE Step /\ (Resolve \/ Socket)
    BY <1>3 DEF Step, Resolve, Socket, Return, TypeOK
  <1>4. CASE Step /\ SocketError
    BY <1>4, <1>s, NextAddrType DEF Step, SocketError, TypeOK
  <1>5. CASE Step /\ SetOpts
    <2>1. CASE Abandon("ESYSTEM")
      BY <1>5, <2>1, <1>s, <1>w, AbandonType DEF Step, SetOpts
    <2>2. CASE ~Abandon("ESYSTEM")
      BY <1>5, <2>2 DEF Step, SetOpts, TypeOK
    <2> QED
      BY <2>1, <2>2
  <1>6. CASE Step /\ ConnectUnix
    <2>1. CASE Abandon("ESYSTEM")
      BY <1>6, <2>1, <1>s, <1>w, AbandonType DEF Step, ConnectUnix
    <2>2. CASE ~Abandon("ESYSTEM")
      BY <1>6, <2>2 DEF Step, ConnectUnix, Return, TypeOK
    <2> QED
      BY <2>1, <2>2
  <1>7. CASE Step /\ ConnectNow
    BY <1>7 DEF Step, ConnectNow, Return, TypeOK
  <1>8. CASE Step /\ ConnectLater
    <2>1. CASE Abandon("ESYSTEM")
      <3>1. waited' \in Nat
        BY <1>8, <1>w DEF ConnectLater
      <3> QED
        BY <1>8, <2>1, <3>1, <1>s, AbandonType DEF Step
    <2>2. CASE ~Abandon("ESYSTEM")
      BY <1>8, <2>2 DEF Step, ConnectLater, TypeOK
    <2> QED
      BY <2>1, <2>2
  <1>9. CASE Step /\ \E d \in 0..Tmout : PollEvent(d)
    <2> PICK d \in 0..Tmout : PollEvent(d)
      BY <1>9
    <2>1. waited' \in Nat
      BY <1>w DEF PollEvent
    <2>2. CASE Abandon("ESYSTEM")
      BY <1>9, <2>1, <2>2, <1>s, AbandonType DEF Step
    <2>3. CASE ~Abandon("ESYSTEM")
      BY <1>9, <2>1, <2>3 DEF Step, PollEvent, TypeOK
    <2> QED
      BY <2>2, <2>3
  <1>10. CASE Step /\ \E d \in 1..Tmout : PollInterrupted(d)
    <2> PICK d \in 1..Tmout : PollInterrupted(d)
      BY <1>10
    <2>1. waited' \in Nat
      BY <1>w DEF PollInterrupted
    <2>2. CASE waited + d >= Tmout
      BY <1>10, <2>1, <2>2, <1>s, AbandonType DEF Step, PollInterrupted
    <2>3. CASE ~(waited + d >= Tmout)
      BY <1>10, <2>1, <2>3 DEF Step, PollInterrupted, TypeOK
    <2> QED
      BY <2>2, <2>3
  <1>11. CASE Step /\ (PollTimeout \/ PollError)
    <2>1. waited' \in Nat /\ (Abandon("ETMOUT") \/ Abandon("ESYSTEM"))
      BY <1>11, <1>w DEF PollTimeout, PollError
    <2> QED
      BY <1>11, <2>1, <1>s, AbandonType DEF Step
  <1>12. CASE Step /\ SetBlock
    <2>1. CASE Abandon("ESYSTEM")
      BY <1>12, <2>1, <1>s, <1>w, AbandonType DEF Step, SetBlock
    <2>2. CASE ~Abandon("ESYSTEM")
      BY <1>12, <2>2 DEF Step, SetBlock, Return, TypeOK
    <2> QED
      BY <2>1, <2>2
  <1>13. CASE UNCHANGED vars
    BY <1>13 DEF vars, TypeOK
  <1> QED
    BY <1>1, <1>2, <1>3, <1>4, <1>5, <1>6, <1>7, <1>8, <1>9, <1>10, <1>11, <1>12, <1>13
       DEF Next, Step, Attempt

\* Every variable of the connecting call keeps its type.
THEOREM TypeCorrect == Spec => []TypeOK
  <1>1. ASSUME Init PROVE TypeOK
    <2>1. 1 \in 1..NAddrs /\ 0 \in Nat
      OBVIOUS
    <2>2. sock \in [Fds -> {"free", "new", "established"}]
      BY <1>1 DEF Init
    <2> QED
      BY <1>1, <2>1, <2>2 DEF Init, TypeOK
  <1> QED
    BY <1>1, TypeStep, PTL DEF Spec

-----------------------------------------------------------------------------
(* The wait. *)

\* Giving an address up leaves the poll loop.
LEMMA AbandonLeaves ==
    ASSUME NEW res, Abandon(res)
    PROVE  pc' # "poll"
  BY DEF Abandon, NextAddr, Return

\* Every step either leaves the wait alone, starts it, or adds at most the
\* timeout to one that is still below it.
LEMMA WaitingStep == TypeOK /\ Waiting /\ [Next]_vars => Waiting'
  <1> SUFFICES ASSUME TypeOK, Waiting, [Next]_vars PROVE Waiting'
    OBVIOUS
  <1> USE DEF Waiting, WaitBounded
  <1>w. waited \in Nat /\ Tmout \in Nat /\ Tmout > 0
    BY DEF TypeOK
  <1>1. CASE Start \/ Close \/ UNCHANGED vars
    BY <1>1, <1>w DEF Start, Close, vars
  <1>2. CASE Resolve \/ Socket \/ SocketError \/ ConnectUnix \/ ConnectNow \/ SetOpts \/ SetBlock
    <2>1. waited' = waited
      BY <1>2 DEF Resolve, Socket, SocketError, ConnectUnix, ConnectNow, SetOpts, SetBlock
    <2>2. pc' # "poll"
      BY <1>2, AbandonLeaves
         DEF Resolve, Socket, SocketError, NextAddr, ConnectUnix, ConnectNow, SetOpts,
             SetBlock, Return
    <2> QED
      BY <2>1, <2>2
  <1>3. CASE ConnectLater
    BY <1>3, <1>w, AbandonLeaves DEF ConnectLater
  <1>4. CASE \E d \in 0..Tmout : PollEvent(d)
    <2> PICK d \in 0..Tmout : PollEvent(d)
      BY <1>4
    <2>1. waited' < 2 * Tmout
      BY <1>w DEF PollEvent
    <2>2. pc' # "poll"
      BY AbandonLeaves DEF PollEvent
    <2> QED
      BY <2>1, <2>2
  <1>5. CASE \E d \in 1..Tmout : PollInterrupted(d)
    <2> PICK d \in 1..Tmout : PollInterrupted(d)
      BY <1>5
    <2>1. waited' < 2 * Tmout
      BY <1>w DEF PollInterrupted
    <2>2. pc' = "poll" => waited' < Tmout
      BY <1>w, AbandonLeaves DEF PollInterrupted
    <2> QED
      BY <2>1, <2>2
  <1>6. CASE PollTimeout \/ PollError
    <2>1. waited' < 2 * Tmout
      BY <1>6, <1>w DEF PollTimeout, PollError
    <2>2. pc' # "poll"
      BY <1>6, AbandonLeaves DEF PollTimeout, PollError
    <2> QED
      BY <2>1, <2>2
  <1> QED
    BY <1>1, <1>2, <1>3, <1>4, <1>5, <1>6 DEF Next, Step, Attempt

\* However many signals interrupt poll(), an address takes less than twice
\* opt.tmout_connect.
THEOREM WaitBoundedTheorem == Spec => []WaitBounded
  <1>1. Init => Waiting
    BY DEF Init, Waiting, WaitBounded
  <1>2. Waiting => WaitBounded
    BY DEF Waiting
  <1> QED
    BY <1>1, <1>2, WaitingStep, TypeCorrect, PTL DEF Spec

-----------------------------------------------------------------------------
(* The descriptors.  tnt_io_close takes descriptor 0 for none, so these      *)
(* theorems are about processes whose descriptor 0 is in use.                *)

\* The state of the sockets between two steps.
SocketInv == TypeOK /\ Descriptors /\ Progress

\* tnt_io_close closes the only socket there can be.
LEMMA IoCloseFacts ==
    ASSUME 0 \notin Fds, SocketInv, IoClose
    PROVE  fd' = -1 /\ Open' = {} /\ connected' = FALSE
  <1>t. /\ fd \in Fds \cup {-1} /\ Open \subseteq {fd}
        /\ sock \in [Fds -> {"free", "new", "established"}]
    BY DEF SocketInv, TypeOK, Descriptors
  <1>1. CASE fd > 0
    <2>1. fd' = -1 /\ sock' = [sock EXCEPT ![fd] = "free"]
      BY <1>1 DEF IoClose
    <2>2. ASSUME NEW d \in Fds PROVE sock'[d] = "free"
      BY <2>1, <1>t DEF Open
    <2> QED
      BY <2>1, <2>2 DEF Open, IoClose
  <1>2. CASE ~(fd > 0)
    <2>1. fd = -1 /\ fd \notin Fds
      BY <1>2, <1>t
    <2>2. Open = {}
      BY <2>1, <1>t DEF Open
    <2> QED
      BY <1>2, <2>1, <2>2 DEF IoClose, Open
  <1> QED
    BY <1>1, <1>2

\* An attempt that is given up leaves no socket behind.
LEMMA AbandonSockets ==
    ASSUME 0 \notin Fds, SocketInv, pc # "idle", NEW res, Abandon(res)
    PROVE  Descriptors' /\ Progress'
  <1>1. Open' = {} /\ connected' = FALSE
    BY IoCloseFacts DEF Abandon
  <1>2. pc' \in {"idle", "socket"} /\ pc' \notin Held
    BY DEF Abandon, NextAddr, Return, Held
  <1>3. immediate' = immediate /\ ~immediate
    BY DEF Abandon, SocketInv, Progress
  <1> QED
    BY <1>1, <1>2, <1>3 DEF Descriptors, Progress, Held

\* One step per system call: what it does to the socket it was given.
LEMMA SocketStep ==
    ASSUME 0 \notin Fds, SocketInv, TypeOK', [Next]_vars
    PROVE  Descriptors' /\ Progress'
  <1>t. /\ fd \in Fds \cup {-1} /\ Open \subseteq {fd}
        /\ sock \in [Fds -> {"free", "new", "established"}]
    BY DEF SocketInv, TypeOK, Descriptors
  <1>1. CASE Start
    <2>1. Open' = {} /\ connected' = FALSE
      <3>1. CASE connected
        BY <1>1, <3>1, IoCloseFacts DEF Start
      <3>2. CASE ~connected
        BY <1>1, <3>2 DEF Start, SocketInv, Descriptors, Held, Open
      <3> QED
        BY <3>1, <3>2
    <2>2. pc' \in {"idle", "resolve", "socket"} /\ immediate' = FALSE
      BY <1>1 DEF Start
    <2> QED
      BY <2>1, <2>2 DEF Descriptors, Progress, Held
  <1>2. CASE Close
    <2>1. Open' = {} /\ connected' = FALSE /\ pc' = "idle"
      BY <1>2, IoCloseFacts DEF Close
    <2> QED
      BY <2>1 DEF Descriptors, Progress, Held
  <1>3. CASE Resolve
    BY <1>3 DEF Resolve, Return, SocketInv, Descriptors, Progress, Held, Open
  <1>4. CASE Socket
    <2> PICK d \in Fds \ Open : fd' = d /\ sock' = [sock EXCEPT ![d] = "new"]
      BY <1>4 DEF Socket
    <2>0. pc = "socket" /\ pc' = "setopts" /\ connected' = connected /\ immediate' = immediate
      BY <1>4 DEF Socket
    <2>1. ~connected /\ ~immediate /\ Open = {}
      BY <2>0 DEF SocketInv, Progress, Descriptors, Held
    <2>2. fd' \in Fds /\ sock'[fd'] = "new" /\ Open' = {fd'}
      BY <2>1, <1>t DEF Open
    <2> QED
      BY <2>0, <2>1, <2>2 DEF Descriptors, Progress, Held
  <1>5. CASE SocketError
    <2>0. pc = "socket" /\ connected' = connected /\ immediate' = immediate /\ sock' = sock
      BY <1>5 DEF SocketError
    <2>1. ~connected /\ ~immediate /\ Open' = {}
      BY <2>0 DEF SocketInv, Progress, Descriptors, Held, Open
    <2>2. pc' \in {"idle", "socket"}
      BY <1>5 DEF SocketError, NextAddr, Return
    <2> QED
      BY <2>0, <2>1, <2>2 DEF Descriptors, Progress, Held
  <1>6. CASE SetOpts /\ UNCHANGED unix
    <2>1. CASE Abandon("ESYSTEM")
      BY <1>6, <2>1, AbandonSockets DEF SetOpts
    <2>2. CASE ~Abandon("ESYSTEM")
      <3>1. /\ pc = "setopts" /\ pc' = "connect" /\ nonblock' = ~unix
            /\ UNCHANGED <<fd, connected, sock, immediate>>
        BY <1>6, <2>2 DEF SetOpts
      <3> QED
        BY <3>1, <1>6 DEF SocketInv, Descriptors, Progress, Held, Open
    <2> QED
      BY <2>1, <2>2
  <1>7. CASE ConnectUnix
    <2>1. CASE Abandon("ESYSTEM")
      BY <1>7, <2>1, AbandonSockets DEF ConnectUnix
    <2>2. CASE ~Abandon("ESYSTEM")
      <3>1. /\ pc = "connect" /\ unix /\ pc' = "idle" /\ connected' = TRUE /\ result' = "EOK"
            /\ sock' = [sock EXCEPT ![fd] = "established"]
            /\ UNCHANGED <<fd, nonblock, immediate>>
        BY <1>7, <2>2 DEF ConnectUnix, Return
      <3>2. fd \in Fds /\ ~nonblock
        BY <3>1 DEF SocketInv, Descriptors, Progress, Held
      <3>3. sock'[fd] = "established" /\ Open' \subseteq {fd}
        BY <3>1, <3>2, <1>t DEF Open
      <3> QED
        BY <3>1, <3>2, <3>3 DEF Descriptors, Progress, Held
    <2> QED
      BY <2>1, <2>2
  <1>8. CASE ConnectNow
    <2>1. /\ pc = "connect" /\ pc' = "idle" /\ connected' = TRUE /\ result' = "EOK"
          /\ sock' = [sock EXCEPT ![fd] = "established"]
          /\ fd' = fd /\ immediate' = TRUE
      BY <1>8 DEF ConnectNow, Return
    <2>2. fd \in Fds
      BY <2>1 DEF SocketInv, Descriptors, Held
    <2>3. sock'[fd] = "established" /\ Open' \subseteq {fd}
      BY <2>1, <2>2, <1>t DEF Open
    <2> QED
      BY <2>1, <2>2, <2>3 DEF Descriptors, Progress, Held
  <1>9. CASE ConnectLater
    <2>1. CASE Abandon("ESYSTEM")
      BY <1>9, <2>1, AbandonSockets DEF ConnectLater
    <2>2. CASE ~Abandon("ESYSTEM")
      <3>1. /\ pc = "connect" /\ pc' = "poll"
            /\ UNCHANGED <<fd, connected, sock, immediate>>
        BY <1>9, <2>2 DEF ConnectLater
      <3> QED
        BY <3>1 DEF SocketInv, Descriptors, Progress, Held, Open
    <2> QED
      BY <2>1, <2>2
  <1>10. CASE \E d \in 0..Tmout : PollEvent(d)
    <2> PICK d \in 0..Tmout : PollEvent(d)
      BY <1>10
    <2>1. CASE Abandon("ESYSTEM")
      BY <2>1, AbandonSockets DEF PollEvent
    <2>2. CASE ~Abandon("ESYSTEM")
      <3>1. /\ pc = "poll" /\ pc' = "block"
            /\ sock' = [sock EXCEPT ![fd] = "established"]
            /\ UNCHANGED <<fd, connected, immediate>>
        BY <2>2 DEF PollEvent
      <3>2. fd \in Fds /\ ~connected /\ ~immediate
        BY <3>1 DEF SocketInv, Descriptors, Progress, Held
      <3>3. sock'[fd] = "established" /\ Open' \subseteq {fd}
        BY <3>1, <3>2, <1>t DEF Open
      <3> QED
        BY <3>1, <3>2, <3>3 DEF Descriptors, Progress, Held
    <2> QED
      BY <2>1, <2>2
  <1>11. CASE \E d \in 1..Tmout : PollInterrupted(d)
    <2> PICK d \in 1..Tmout : PollInterrupted(d)
      BY <1>11
    <2>1. CASE Abandon("ETMOUT")
      BY <2>1, AbandonSockets DEF PollInterrupted
    <2>2. CASE ~Abandon("ETMOUT")
      <3>1. /\ pc = "poll" /\ pc' = "poll"
            /\ UNCHANGED <<fd, connected, sock, immediate>>
        BY <2>2 DEF PollInterrupted
      <3> QED
        BY <3>1 DEF SocketInv, Descriptors, Progress, Held, Open
    <2> QED
      BY <2>1, <2>2
  <1>12. CASE PollTimeout \/ PollError
    BY <1>12, AbandonSockets DEF PollTimeout, PollError
  <1>13. CASE SetBlock
    <2>1. CASE Abandon("ESYSTEM")
      BY <1>13, <2>1, AbandonSockets DEF SetBlock
    <2>2. CASE ~Abandon("ESYSTEM")
      <3>1. /\ pc = "block" /\ pc' = "idle" /\ connected' = TRUE /\ result' = "EOK"
            /\ nonblock' = FALSE /\ UNCHANGED <<fd, sock, immediate>>
        BY <1>13, <2>2 DEF SetBlock, Return
      <3>2. fd \in Fds /\ sock[fd] = "established"
        BY <3>1 DEF SocketInv, Descriptors, Held
      <3> QED
        BY <3>1, <3>2, <1>t DEF Descriptors, Progress, Held, Open
    <2> QED
      BY <2>1, <2>2
  <1>14. CASE UNCHANGED vars
    BY <1>14 DEF vars, SocketInv, Descriptors, Progress, Held, Open
  <1> QED
    BY <1>1, <1>2, <1>3, <1>4, <1>5, <1>6, <1>7, <1>8, <1>9, <1>10, <1>11, <1>12, <1>13, <1>14
       DEF Next, Step, Attempt

\* What sn->fd is at each point of tnt_io_connect, for every address list and
\* every way its system calls fail.
THEOREM SocketInvTheorem == 0 \notin Fds => (Spec => []SocketInv)
  <1> SUFFICES ASSUME 0 \notin Fds PROVE Spec => []SocketInv
    OBVIOUS
  <1>1. Init => Descriptors /\ Progress
    BY DEF Init, Descriptors, Progress, Held, Open
  <1>2. TypeOK /\ TypeOK' /\ (Descriptors /\ Progress) /\ [Next]_vars => Descriptors' /\ Progress'
    BY SocketStep DEF SocketInv
  <1>3. TypeOK /\ (Descriptors /\ Progress) <=> SocketInv
    BY DEF SocketInv
  <1> QED
    BY <1>1, <1>2, <1>3, TypeCorrect, PTL DEF Spec

\* No call that fails, on any address, loses a descriptor, and none is open
\* after tnt_io_connect has failed or tnt_close was called.
THEOREM NoDescriptorLeakTheorem == 0 \notin Fds => (Spec => []NoDescriptorLeak)
  <1>1. SocketInv => NoDescriptorLeak
    BY DEF SocketInv, Descriptors, NoDescriptorLeak, Held
  <1> QED
    BY <1>1, SocketInvTheorem, PTL

\* tnt_io_connect returns TNT_EOK exactly with an established connection, which
\* is blocking again if it had to be waited for.
THEOREM SuccessMeansEstablishedTheorem == 0 \notin Fds => (Spec => []SuccessMeansEstablished)
  <1>1. ASSUME SocketInv PROVE SuccessMeansEstablished
    <2>1. connected => result = "EOK" /\ fd \in Fds /\ sock[fd] = "established"
      BY <1>1 DEF SocketInv, Progress
    <2>2. pc = "idle" /\ ~connected => \A d \in Fds : sock[d] # "established"
      BY <1>1 DEF SocketInv, Descriptors, Held, Open
    <2>3. connected /\ ~immediate => ~nonblock
      BY <1>1 DEF SocketInv, Progress
    <2> QED
      BY <2>1, <2>2, <2>3 DEF SuccessMeansEstablished
  <1> QED
    BY <1>1, SocketInvTheorem, PTL
=============================================================================
