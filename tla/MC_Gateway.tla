---------------------------- MODULE MC_Gateway ----------------------------
(* Three hosts of docker0: the server s and client c of the migrated      *)
(* session and the new endpoint n; two ports.  Every TCP and UDP packet   *)
(* between two of them may be captured, so the synchronisers and the      *)
(* port learning see foreign flows as well as the session's own.          *)
EXTENDS Gateway

CONSTANTS s, c, n

MCAddrs == {s, c, n}
MCPorts == {1, 2}
MCPackets ==
    {p \in [proto : {"TCP", "UDP"}, src : MCAddrs, sport : MCPorts,
            dst : MCAddrs, dport : MCPorts] : p.src # p.dst}

(* The session s:1 <-> c:2; its UDP variant may arrive with server port 0. *)
S1  == [srv |-> <<s, 1>>, cli |-> <<c, 2>>]
S1u == [srv |-> <<s, 0>>, cli |-> <<c, 2>>]
S2  == [srv |-> <<s, 2>>, cli |-> <<c, 1>>]
S3  == [srv |-> <<n, 2>>, cli |-> <<s, 1>>]
NewEp == [srv |-> <<n, 1>>, cli |-> <<c, 2>>]


Suspend(tcp, batch) == [op |-> "SUSPEND", is_tcp |-> tcp, addr |-> batch]
Resume(tcp)         == [op |-> "RESUME", is_tcp |-> tcp, addr |-> <<NewEp>>]

(* Batches of one session. *)
MCRequests1 ==
    {Suspend(TRUE, <<S1>>), Suspend(FALSE, <<S1>>), Suspend(FALSE, <<S1u>>),
     Resume(TRUE), Resume(FALSE)}

(* Batches of one session, and a UDP batch of two sessions with different *)
(* addresses, the first with its server port still unknown.               *)
MCRequestsMixed ==
    MCRequests1 \cup {Suspend(FALSE, <<S1u, S3>>)}

(* Batches of two TCP sessions with different ports. *)
MCRequests2 ==
    {Suspend(TRUE, <<S1, S2>>), Resume(TRUE)}

=============================================================================
