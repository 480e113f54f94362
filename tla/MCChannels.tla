----------------------------- MODULE MCChannels ------------------------------
(***************************************************************************)
(* The channels on overlapped operations and the datagram channels for     *)
(* model checking: one channel, whose kind is chosen in the first state.   *)
(* They share the variables of ChannelCore.                                *)
(***************************************************************************)
EXTENDS ChannelCore

CONSTANTS Platforms, MaxIn

VARIABLES kind, recvs, port, incoming,  \* of both
          sendq, inflight, sends,       \* of TcpChannelIocp
          platform, watched, inbox      \* of UdpChannel

Tcp == INSTANCE TcpChannelIocp
Udp == INSTANCE UdpChannel

tcpOnly == <<sendq, inflight, sends>>
udpOnly == <<platform, watched, inbox>>
vars == <<kind, coreVars, recvs, port, incoming, tcpOnly, udpOnly>>

Init ==
  \/ /\ kind = "tcp" /\ Tcp!Init
     /\ platform = "windows" /\ watched = FALSE /\ inbox = 0
  \/ /\ kind = "udp" /\ Udp!Init
     /\ sendq = 0 /\ inflight = 0 /\ sends = 0

OfTcp(A) == kind = "tcp" /\ A /\ UNCHANGED <<kind, udpOnly>>
OfUdp(A) == kind = "udp" /\ A /\ UNCHANGED <<kind, tcpOnly>>

Next == OfTcp(Tcp!Next) \/ OfUdp(Udp!Next)

(* The fairness of the two modules, each for its kind of channel.          *)
Fairness ==
  /\ WF_vars(OfTcp(~deleted /\ Tcp!LoopStep))
  /\ WF_vars(OfTcp(sock = "closed" /\ Tcp!RecvCompletes))
  /\ WF_vars(OfTcp(sock = "closed" /\ Tcp!SendCompletes))
  /\ WF_vars(OfUdp(~deleted /\ Udp!LoopStep))
  /\ WF_vars(OfUdp(sock = "closed" /\ Udp!RecvCompletes))
  /\ \A u \in Users :
       WF_vars((UserPosts(u) \/ UserReleases(u))
               /\ UNCHANGED <<kind, recvs, port, incoming, tcpOnly, udpOnly>>)

Spec == Init /\ [][Next]_vars
FairSpec == Spec /\ Fairness
-----------------------------------------------------------------------------
(* The properties of the two modules under one name.                       *)

(* References and activity of a channel are those of its holders.          *)
Balance == IF kind = "tcp" THEN Tcp!Balance ELSE Udp!Balance

(* Nothing is left of a deleted channel.                                   *)
NoUseAfterFree == IF kind = "tcp" THEN Tcp!NoUseAfterFree ELSE Udp!NoUseAfterFree

(* A live channel waits for each thing it needs exactly once.              *)
ServedOnce == IF kind = "tcp" THEN Tcp!ServedOnce ELSE Udp!ServedOnce
=============================================================================
