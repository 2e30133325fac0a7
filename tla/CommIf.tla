------------------------------- MODULE CommIf -------------------------------
(***************************************************************************)
(* The functions of comm-if that open the sockets of a channel.  Each is   *)
(* the set of its outcomes: what it returns, and the table of the open     *)
(* descriptors that it leaves behind.  Every system call may fail, and an  *)
(* error path has to close what was opened before.                         *)
(***************************************************************************)
EXTENDS Integers, FiniteSets, FiniteSetsExt, Functions

CONSTANTS
  Interfaces,      \* network interfaces of the host
  CanInterfaces,   \* those that are CAN buses
  MacAddresses,    \* texts that are MAC addresses
  MaxDescriptor    \* RLIMIT_NOFILE

ASSUME CommIfAssumption ==
  /\ Interfaces \subseteq STRING /\ CanInterfaces \subseteq Interfaces
  /\ MacAddresses \subseteq STRING /\ MaxDescriptor \in Nat

\* The index 0: a socket bound to it, or to none, has no interface, or every one.
AnyInterface == ""
Socket == [family : {"packet", "can"}, ifname : Interfaces \cup {AnyInterface}]
Descriptors == 3..MaxDescriptor

Returns(ret, fds) == [ret |-> ret, fds |-> fds]
Failed(fds) == Returns(-1, fds)
Closed(fds, fd) == Restrict(fds, DOMAIN fds \ {fd})

\* socket(): the lowest descriptor that is free.
Opened(fds, family) ==
  LET free == Descriptors \ DOMAIN fds
      sock == [family |-> family, ifname |-> AnyInterface]
  IN  {Failed(fds)} \cup
      {Returns(fd, [d \in DOMAIN fds \cup {fd} |-> IF d = fd THEN sock ELSE fds[d]]) :
         fd \in {d \in free : d = Min(free)}}

\* What follows a successful socket().
After(outcomes, Then(_, _)) ==
  UNION {IF o.ret < 0 THEN {o} ELSE Then(o.fds, o.ret) : o \in outcomes}

\* The label "err".  Mutated form: without the close().
ErrLeaking(fds, fd) == Failed(fds)
Err(fds, fd) == Failed(Closed(fds, fd))

\* bind() to one of the interfaces, and the system calls after it; or one fails.
Bound(fds, fd, ifnames) ==
  {Err(fds, fd)} \cup {Returns(fd, [fds EXCEPT ![fd].ifname = i]) : i \in ifnames}

\* CommonUtils::getMacAddress: 0 if the text has the form of an address.
GetMacAddress(macaddr) == IF macaddr \in MacAddresses THEN 0 ELSE -1

\* The index of an interface is found if the interface exists.
Comm_Ether_SetupSocketAddress(ifname) == {-1} \cup {x \in {0} : ifname \in Interfaces}

\* The program asks for no priority (-1).
Comm_Ether_CreateTalkerSocket(fds, priority) ==
  After(Opened(fds, "packet"),
        LAMBDA table, fd : {Returns(fd, table)}
                             \cup {o \in {Err(table, fd)} : priority # -1})

Comm_Ether_CreateListenerSocket(fds, ifname) ==
  After(Opened(fds, "packet"),
        LAMBDA table, fd : UNION {Bound(table, fd, {i \in {ifname} : res = 0}) :
                                    res \in Comm_Ether_SetupSocketAddress(ifname)})

Comm_Lo_CreateSocket(fds, ifname) ==
  After(Opened(fds, "packet"), LAMBDA table, fd : Bound(table, fd, {ifname} \cap Interfaces))

\* The result of ioctl() is not looked at: for a name that does not exist the index
\* is what ifr happens to hold, 0 for every CAN bus or that of some interface; bind()
\* refuses what is no CAN bus.
Comm_Can_SetupSocket(fds, can_ifname) ==
  LET named == IF can_ifname \in Interfaces THEN {can_ifname} ELSE Interfaces \cup {AnyInterface}
  IN  After(Opened(fds, "can"),
            LAMBDA table, fd : Bound(table, fd, named \cap (CanInterfaces \cup {AnyInterface})))
=============================================================================
