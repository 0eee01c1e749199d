------------------------------ MODULE Gateway ------------------------------
(***************************************************************************)
(* The connection-migration gateway of src/gateway/main.cpp: the control   *)
(* thread of main() serving SUSPEND and RESUME records, the capture thread *)
(* (pcap_loop_wrapper running packet_handler on each IPv4 packet), the     *)
(* keep-alive threads, the kernel FORWARD chain it edits through           *)
(* iptables, and process termination (sigterm_handler) and restart.       *)
(*                                                                         *)
(* Addresses and ports are model values and small numbers; a packet is a   *)
(* record of protocol and two endpoints.  Logging, the packet counter and  *)
(* the formatting of addresses to strings are left out: an address is      *)
(* equal to its formatted string.  inet_addr("") of a rule never completed *)
(* is INADDR_NONE, the model value Bcast.                                  *)
(***************************************************************************)
EXTENDS Naturals, Sequences, SequencesExt, FiniteSets

CONSTANTS
    Addrs,        \* IPv4 addresses of the docker0 subnet
    Ports,        \* TCP/UDP ports in use (0 is the "unknown port" of a record)
    Packets,      \* packets the capture thread and the TCP synchroniser can see
    Requests,     \* control records the controller may send
    MaxRequests,  \* bound on the control records accepted in one behaviour
    Empty,        \* the empty string "" a rule holds until RESUME
    Bcast,        \* INADDR_NONE, what inet_addr("") returns
    NoOp,         \* op_data before the first record: malloc'ed, uninitialised
    NoConn        \* a TCPConnection pointer that was never assigned


PortVal  == 0..65535
Endpoint == Addrs \X PortVal
Session  == [srv : Endpoint, cli : Endpoint]

ASSUME /\ Requests \subseteq [op : {"SUSPEND", "RESUME"}, is_tcp : BOOLEAN,
                              addr : Seq(Session)]
       /\ \A r \in Requests : Len(r.addr) >= 1
       /\ Packets \subseteq [proto : {"TCP", "UDP"}, src : Addrs, sport : Ports,
                             dst : Addrs, dport : Ports]
       /\ MaxRequests \in Nat

VARIABLES
    ctl,          \* control thread: "accept", "fin", "sync", "rsync1",
                  \* "rsync2", "joinpcap" (joining the capture thread), "down"
    op_data,      \* the record being served (shared with the capture thread)
    idx,          \* the loop index of SUSPEND
    server_ip,    \* globals set by SUSPEND for each session
    client_ip,
    forward_pair, \* the rules: sequence of [src, dst, new]
    is_forward,
    backend,      \* backend_thread: sequence of PcapThread and KeepAlive(session)
    chain,        \* the FORWARD chain: sequence of AcceptRule and DropRule(tuple)
    tcp_v_to_s,   \* TCPConnection objects: [conn, state, synced]
    tcp_s_to_v,
    arp,          \* ARP spoofing contexts started: set of [target, victim]
    lastFin,      \* the last synthetic FIN sent by send_fin / send_fin_tcp
    lastInjected, \* the last packet re-injected by forward()
    hijacked,     \* history: sessions start_block was run for, not yet resumed
    nreq          \* control records accepted so far

vars == <<ctl, op_data, idx, server_ip, client_ip, forward_pair, is_forward,
          backend, chain, tcp_v_to_s, tcp_s_to_v, arp, lastFin, lastInjected,
          hijacked, nreq>>

-----------------------------------------------------------------------------
(* Helpers *)

Ep(ip, port) == <<ip, port>>

(* The threads of backend_thread and the rules of the FORWARD chain. *)
PcapThread == [kind |-> "pcap"]
KeepAlive(sess) == [kind |-> "ka", sess |-> sess]
AcceptRule == [jump |-> "ACCEPT"]
DropRule(tuple) == [jump |-> "DROP", tuple |-> tuple]

(* The endpoint pair a packet travels between, in its direction. *)
Flow(p) == <<Ep(p.src, p.sport), Ep(p.dst, p.dport)>>

(* iptables: the first FORWARD rule matching a packet decides; a DROP rule *)
(* holds the tuple <<src, sport, dst, dport>>; no match means the policy,  *)
(* ACCEPT.                                                                 *)
DropMatches(rule, p) ==
    rule.jump = "DROP" /\ p.proto = "TCP"
    /\ rule.tuple = <<p.src, p.sport, p.dst, p.dport>>

Verdict(ch, p) ==
    LET hits == {i \in DOMAIN ch : ch[i] = AcceptRule \/ DropMatches(ch[i], p)}
    IN  IF hits = {} THEN "ACCEPT" ELSE ch[Min(hits)].jump

(* iptables --delete removes the first occurrence of the rule, if any. *)
DeleteAccept(ch) == RemoveFirst(ch, AcceptRule)

(* Mutant: start_block appending its rules without deleting the ACCEPT. *)
StartBlockNoDelete(ch, dst_ip, src_ip, dst_port, src_port) ==
    ch \o <<DropRule(<<dst_ip, dst_port, src_ip, src_port>>),
            DropRule(<<src_ip, src_port, dst_ip, dst_port>>),
            AcceptRule>>

(* start_block(dst_ip, src_ip, dst_port, src_port) *)
StartBlock(ch, dst_ip, src_ip, dst_port, src_port) ==
    DeleteAccept(ch)
      \o <<DropRule(<<dst_ip, dst_port, src_ip, src_port>>),
           DropRule(<<src_ip, src_port, dst_ip, dst_port>>),
           AcceptRule>>

(* A TCPConnection(src_ip, dst_ip, src_port, dst_port) object; Sync()      *)
(* blocks until a TCP packet between its two endpoints is seen.            *)
NewConn(src_ip, dst_ip, src_port, dst_port, state) ==
    [conn |-> {Ep(src_ip, src_port), Ep(dst_ip, dst_port)},
     state |-> state, synced |-> NoConn]

SyncsOn(c, p) == p.proto = "TCP" /\ {Flow(p)[1], Flow(p)[2]} = c.conn

(* send_fin and send_fin_tcp: the crafted packet, its payload (the record *)
(* with op FIN), identification and checksum left out.                      *)
FinUdp(source_ip, source_port, dest_ip, dest_port) ==
    [proto |-> "UDP", src |-> source_ip, sport |-> source_port,
     dst |-> dest_ip, dport |-> dest_port]

FinTcp(source_ip, source_port, dest_ip, dest_port) ==
    [proto |-> "TCP", src |-> source_ip, sport |-> source_port,
     dst |-> dest_ip, dport |-> dest_port]

-----------------------------------------------------------------------------
(* The capture thread: packet_handler for an IPv4 packet *)

(* A 16-bit field in network byte order read as an unsigned short on a     *)
(* little-endian host.                                                     *)
Swap16(x) == (x % 256) * 256 + x \div 256

(* UDP: every record entry whose server port is still 0 learns the        *)
(* packet's source port, uh_sport as it lies in the header, not ntohs'ed   *)
(* (main.cpp 184-187).                                                     *)
LearnPort(od, p) ==
    IF p.proto = "UDP" /\ od # NoOp
    THEN [od EXCEPT !.addr = [i \in DOMAIN od.addr |->
            IF od.addr[i].srv[2] = 0
            THEN [od.addr[i] EXCEPT !.srv = Ep(@[1], Swap16(p.sport))]
            ELSE od.addr[i]]]
    ELSE od

(* The first rule naming the packet's addresses in either direction, and *)
(* the packet as forward() re-injects it.                                 *)
RuleHits(p) ==
    {i \in DOMAIN forward_pair :
        \/ forward_pair[i].src = p.src /\ forward_pair[i].dst = p.dst
        \/ forward_pair[i].src = p.dst /\ forward_pair[i].dst = p.src}

AddrOf(new) == IF new = Empty THEN Bcast ELSE new

Rewrite(r, p) ==
    IF r.src = p.src /\ r.dst = p.dst
    THEN [p EXCEPT !.src = AddrOf(r.new)]
    ELSE [p EXCEPT !.dst = AddrOf(r.new)]

(* A packet is captured while the process is up.  sendto() of forward()   *)
(* may fail, which is logged and the packet dropped.                      *)
Capture(p) ==
    /\ ctl \notin {"down", "crashed"}
    /\ op_data' = LearnPort(op_data, p)
    /\ IF is_forward /\ RuleHits(p) # {}
       THEN \/ lastInjected' = Rewrite(forward_pair[Min(RuleHits(p))], p)
            \/ UNCHANGED lastInjected
       ELSE UNCHANGED lastInjected
    /\ UNCHANGED <<ctl, idx, server_ip, client_ip, forward_pair, is_forward,
                   backend, chain, tcp_v_to_s, tcp_s_to_v, arp, lastFin,
                   hijacked, nreq>>

-----------------------------------------------------------------------------
(* The control thread of main(): one record per accepted connection *)

Cur == op_data.addr[idx]

(* After one SUSPEND entry: the next entry, or back to accept(). *)
NextEntry ==
    IF idx < Len(op_data.addr)
    THEN idx' = idx + 1 /\ ctl' = "suspend"
    ELSE idx' = idx /\ ctl' = "accept"

(* accept() and recv() a record; memcpy overwrites op_data. *)
AcceptSuspend(r) ==
    /\ ctl = "accept" /\ nreq < MaxRequests /\ r.op = "SUSPEND"
    /\ op_data' = r
    /\ idx' = 1
    /\ ctl' = "suspend"
    /\ nreq' = nreq + 1
    /\ UNCHANGED <<server_ip, client_ip, forward_pair, is_forward, backend,
                   chain, tcp_v_to_s, tcp_s_to_v, arp, lastFin, lastInjected,
                   hijacked>>

(* Mutant: server_ip formatted from the whole endpoint, not its address. *)
SuspendEntryEndpoint ==
    /\ ctl = "suspend"
    /\ server_ip' = Cur.srv
    /\ client_ip' = Cur.cli[1]
    /\ backend' = IF op_data.is_tcp
                  THEN Append(backend, KeepAlive([srv |-> Cur.srv, cli |-> Cur.cli]))
                  ELSE backend
    /\ forward_pair' = Append(forward_pair,
                              [src |-> Cur.srv[1], dst |-> Cur.cli[1], new |-> Empty])
    /\ op_data' = [op_data EXCEPT !.op = "FIN"]
    /\ ctl' = "fin"
    /\ UNCHANGED <<idx, is_forward, chain, tcp_v_to_s, tcp_s_to_v, arp, lastFin,
                   lastInjected, hijacked, nreq>>

(* Mutant: the rule of every entry formed from the batch's first entry.   *)
SuspendEntryFirstRule ==
    /\ ctl = "suspend"
    /\ server_ip' = Cur.srv[1]
    /\ client_ip' = Cur.cli[1]
    /\ backend' = IF op_data.is_tcp
                  THEN Append(backend, KeepAlive([srv |-> Cur.srv, cli |-> Cur.cli]))
                  ELSE backend
    /\ forward_pair' = Append(forward_pair,
                              [src |-> op_data.addr[1].srv[1], dst |-> op_data.addr[1].cli[1],
                               new |-> Empty])
    /\ op_data' = [op_data EXCEPT !.op = "FIN"]
    /\ ctl' = "fin"
    /\ UNCHANGED <<idx, is_forward, chain, tcp_v_to_s, tcp_s_to_v, arp, lastFin,
                   lastInjected, hijacked, nreq>>

(* SUSPEND, entry idx up to sleep(2): format the addresses, start a        *)
(* keep-alive thread for TCP, append the pending rule, set op to FIN.      *)
SuspendEntry ==
    /\ ctl = "suspend"
    /\ server_ip' = Cur.srv[1]
    /\ client_ip' = Cur.cli[1]
    /\ backend' = IF op_data.is_tcp
                  THEN Append(backend, KeepAlive([srv |-> Cur.srv, cli |-> Cur.cli]))
                  ELSE backend
    /\ forward_pair' = Append(forward_pair,
                              [src |-> Cur.srv[1], dst |-> Cur.cli[1], new |-> Empty])
    /\ op_data' = [op_data EXCEPT !.op = "FIN"]
    /\ ctl' = "fin"
    /\ UNCHANGED <<idx, is_forward, chain, tcp_v_to_s, tcp_s_to_v, arp, lastFin,
                   lastInjected, hijacked, nreq>>

(* Mutant: the UDP FIN held back until the server port of the entry is    *)
(* known (filled in by the capture thread).                                *)
SendFinUdpAwaitPort ==
    /\ ctl = "fin" /\ ~op_data.is_tcp /\ Cur.srv[2] # 0
    /\ lastFin' = FinUdp(client_ip, Cur.cli[2], server_ip, Cur.srv[2])
    /\ NextEntry
    /\ UNCHANGED <<op_data, server_ip, client_ip, forward_pair, is_forward,
                   backend, chain, tcp_v_to_s, tcp_s_to_v, arp, lastInjected,
                   hijacked, nreq>>

(* After sleep(2), UDP: send_fin from the client to the server port the    *)
(* record holds now (the capture thread may have filled it in).            *)
SendFinUdp ==
    /\ ctl = "fin" /\ ~op_data.is_tcp
    /\ lastFin' = FinUdp(client_ip, Cur.cli[2], server_ip, Cur.srv[2])
    /\ NextEntry
    /\ UNCHANGED <<op_data, server_ip, client_ip, forward_pair, is_forward,
                   backend, chain, tcp_v_to_s, tcp_s_to_v, arp, lastInjected,
                   hijacked, nreq>>

(* After sleep(2), TCP: send_fin_tcp, ARPSpoofingReply(client_ip,          *)
(* server_ip) -- the gateway's MAC announced for the client's address     *)
(* (the target) to the server (the victim, spec 4.3) -- and a TIME_WAIT    *)
(* TCPConnection built from entry 0's ports.                                *)
SendFinTcp ==
    /\ ctl = "fin" /\ op_data.is_tcp
    /\ lastFin' = FinTcp(client_ip, Cur.cli[2], server_ip, Cur.srv[2])
    /\ arp' = arp \cup {[target |-> client_ip, victim |-> server_ip]}
    /\ tcp_v_to_s' = NewConn(server_ip, client_ip, op_data.addr[1].cli[2],
                             op_data.addr[1].srv[2], "TIME_WAIT")
    /\ ctl' = "sync"
    /\ UNCHANGED <<op_data, idx, server_ip, client_ip, forward_pair, is_forward,
                   backend, chain, tcp_s_to_v, lastInjected, hijacked, nreq>>

(* tcp_v_to_s->Sync() returns once a packet of its connection is seen;    *)
(* then start_block with entry 0's ports.                                  *)
SuspendSync(p) ==
    /\ ctl = "sync" /\ SyncsOn(tcp_v_to_s, p)
    /\ tcp_v_to_s' = [tcp_v_to_s EXCEPT !.synced = p]
    /\ chain' = StartBlock(chain, client_ip, server_ip, op_data.addr[1].cli[2],
                           op_data.addr[1].srv[2])
    /\ hijacked' = hijacked \cup {Cur}
    /\ NextEntry
    /\ UNCHANGED <<op_data, server_ip, client_ip, forward_pair, is_forward,
                   backend, tcp_s_to_v, arp, lastFin, lastInjected, nreq>>

(* RESUME: copy the last rule and set its new address in the copy, set    *)
(* is_forward; for TCP pop the last backend thread (its jthread destructor *)
(* requests stop and joins) and build two ESTABLISHED connections from    *)
(* the SUSPEND globals and the RESUME record's ports.  With no rule,      *)
(* forward_pair[size() - 1] copies a tuple from below the empty vector's   *)
(* null storage, and the process crashes.                                  *)
AcceptResume(r) ==
    /\ ctl = "accept" /\ nreq < MaxRequests /\ r.op = "RESUME"
    /\ op_data' = r
    /\ nreq' = nreq + 1
    /\ hijacked' = {}
    /\ \/ /\ forward_pair = <<>>
          /\ ctl' = "crashed"
          /\ UNCHANGED <<is_forward, backend, tcp_v_to_s, tcp_s_to_v>>
       \/ /\ forward_pair # <<>>
          /\ is_forward' = TRUE
          /\ IF ~r.is_tcp
             THEN /\ ctl' = "accept"
                  /\ UNCHANGED <<backend, tcp_v_to_s, tcp_s_to_v>>
             ELSE IF Last(backend) = PcapThread
             THEN /\ ctl' = "joinpcap"
                  /\ UNCHANGED <<backend, tcp_v_to_s, tcp_s_to_v>>
             ELSE /\ backend' = Front(backend)
                  /\ tcp_v_to_s' = NewConn(server_ip, client_ip, r.addr[1].cli[2],
                                           r.addr[1].srv[2], "ESTABLISHED")
                  /\ tcp_s_to_v' = NewConn(client_ip, server_ip, r.addr[1].srv[2],
                                           r.addr[1].cli[2], "ESTABLISHED")
                  /\ ctl' = "rsync1"
    /\ UNCHANGED <<idx, server_ip, client_ip, forward_pair, chain, arp, lastFin,
                   lastInjected>>

(* tcp_v_to_s->Sync(), then tcp_s_to_v->Sync(), each blocking. *)
ResumeSyncVtoS(p) ==
    /\ ctl = "rsync1" /\ SyncsOn(tcp_v_to_s, p)
    /\ tcp_v_to_s' = [tcp_v_to_s EXCEPT !.synced = p]
    /\ ctl' = "rsync2"
    /\ UNCHANGED <<op_data, idx, server_ip, client_ip, forward_pair, is_forward,
                   backend, chain, tcp_s_to_v, arp, lastFin, lastInjected,
                   hijacked, nreq>>

ResumeSyncStoV(p) ==
    /\ ctl = "rsync2" /\ SyncsOn(tcp_s_to_v, p)
    /\ tcp_s_to_v' = [tcp_s_to_v EXCEPT !.synced = p]
    /\ ctl' = "accept"
    /\ UNCHANGED <<op_data, idx, server_ip, client_ip, forward_pair, is_forward,
                   backend, chain, tcp_v_to_s, arp, lastFin, lastInjected,
                   hijacked, nreq>>

-----------------------------------------------------------------------------
(* Process lifetime *)

(* SIGTERM/SIGQUIT/SIGINT: sigterm_handler closes the sockets, runs        *)
(* clear_forward (ip_forward off, delete the docker0 ACCEPT) and exits.    *)
(* The DROP rules of start_block are left in the kernel.                   *)
Terminate ==
    /\ ctl \notin {"down", "crashed"}
    /\ chain' = DeleteAccept(chain)
    /\ ctl' = "down"
    /\ UNCHANGED <<op_data, idx, server_ip, client_ip, forward_pair, is_forward,
                   backend, tcp_v_to_s, tcp_s_to_v, arp, lastFin, lastInjected,
                   hijacked, nreq>>

(* A process of main() starts with every global at its initial value. *)
ProcessInit ==
    /\ ctl = "accept"    /\ op_data = NoOp       /\ idx = 1
    /\ server_ip = Empty /\ client_ip = Empty
    /\ forward_pair = <<>> /\ is_forward = FALSE /\ backend = <<PcapThread>>
    /\ tcp_v_to_s = NoConn /\ tcp_s_to_v = NoConn /\ arp = {}
    /\ lastFin = NoConn  /\ lastInjected = NoConn

(* The gateway is started again: every global is fresh, the kernel's       *)
(* FORWARD chain is what the last process left.                            *)
Restart ==
    /\ ctl \in {"down", "crashed"}
    /\ ctl' = "accept"    /\ op_data' = NoOp       /\ idx' = 1
    /\ server_ip' = Empty /\ client_ip' = Empty
    /\ forward_pair' = <<>> /\ is_forward' = FALSE /\ backend' = <<PcapThread>>
    /\ tcp_v_to_s' = NoConn /\ tcp_s_to_v' = NoConn /\ arp' = {}
    /\ lastFin' = NoConn  /\ lastInjected' = NoConn
    /\ UNCHANGED <<chain, hijacked, nreq>>

Init ==
    /\ ProcessInit
    /\ chain \in {<<>>, <<AcceptRule>>}
    /\ hijacked = {}
    /\ nreq = 0

Next ==
    \/ \E p \in Packets : Capture(p)
    \/ \E r \in Requests : AcceptSuspend(r) \/ AcceptResume(r)
    \/ SuspendEntry
    \/ SendFinUdp
    \/ SendFinTcp
    \/ \E p \in Packets : SuspendSync(p) \/ ResumeSyncVtoS(p) \/ ResumeSyncStoV(p)
    \/ Terminate
    \/ Restart

Spec == Init /\ [][Next]_vars

(* The control thread's steps between accept() and a blocking Sync() wait *)
(* on nothing but sleep(2) and sends on raw sockets, so once enabled they  *)
(* are taken.  Packet arrival, the requests of the MVVM runtime and a      *)
(* SIGTERM get no fairness: the code cannot make them happen.              *)
FairSpec ==
    /\ Spec
    /\ WF_vars(SuspendEntry)
    /\ WF_vars(SendFinUdp)
    /\ WF_vars(SendFinTcp)

-----------------------------------------------------------------------------
TypeOK ==
    /\ ctl \in {"accept", "suspend", "fin", "sync", "rsync1", "rsync2",
                "joinpcap", "down", "crashed"}
    /\ op_data = NoOp \/ op_data.op \in {"SUSPEND", "RESUME", "FIN"}
    /\ idx \in Nat \ {0}
    /\ server_ip \in Addrs \cup {Empty} /\ client_ip \in Addrs \cup {Empty}
    /\ forward_pair \in Seq([src : Addrs, dst : Addrs, new : Addrs \cup {Empty}])
    /\ is_forward \in BOOLEAN
    /\ \A i \in DOMAIN backend :
          backend[i] = PcapThread \/ (backend[i].kind = "ka" /\ backend[i].sess \in Session)
    /\ \A i \in DOMAIN chain :
          chain[i] = AcceptRule \/ (chain[i].jump = "DROP" /\ chain[i].tuple \in Addrs \X PortVal \X Addrs \X PortVal)
    /\ hijacked \subseteq Session
    /\ nreq \in 0..MaxRequests

(* The TCP packets of a session, in either direction. *)
PacketsOf(sess) ==
    {p \in Packets : p.proto = "TCP" /\ {Flow(p)[1], Flow(p)[2]} = {sess.srv, sess.cli}}

(* SUSPEND of a TCP session silences its original path: from start_block  *)
(* until a RESUME, the FORWARD chain drops every packet of every hijacked *)
(* session in both directions, across termination and restart of the      *)
(* gateway and across further SUSPENDs (start_block deletes the docker0   *)
(* ACCEPT before appending the DROPs, so no ACCEPT precedes them).        *)
SuspendedSessionBlocked ==
    \A sess \in hijacked : \A p \in PacketsOf(sess) : Verdict(chain, p) = "DROP"

(* RESUME completes the pending rule of the last SUSPEND with the new      *)
(* endpoint (spec 8: the pending rule becomes (src, dst, new)).  The code  *)
(* writes the address into a copy of the rule (main.cpp 503-506).         *)
ResumeCompletesRule ==
    [][(nreq' = nreq + 1 /\ op_data'.op = "RESUME" /\ forward_pair # <<>>
        /\ ctl' # "crashed")
       => Last(forward_pair').new = op_data'.addr[1].srv[1]]_vars

(* A control request never makes the control thread join the capture     *)
(* thread: RESUME of TCP pops the last backend thread, meant to be the    *)
(* session's keep-alive; popping the pcap thread joins a pcap_loop(-1)    *)
(* that never returns, and the gateway stops serving requests.            *)
CaptureThreadNeverJoined ==
    ctl # "joinpcap"

(* A UDP SUSPEND is served to its end without any packet arriving: once   *)
(* the control thread has taken a UDP SUSPEND record it formats, records   *)
(* the rule and sends send_fin for every entry of the record, and is back  *)
(* at accept(), unless the process goes down first.                        *)
UdpSuspendServed ==
    (ctl = "suspend" /\ ~op_data.is_tcp) ~> (ctl \in {"accept", "down", "crashed"})

(* The gateway implements the control protocol of spec 4.3, 5 and 6       *)
(* (module ControlProtocol): the control thread is serving a record from   *)
(* accept() until it is back there; the entries of a SUSPEND whose rule    *)
(* was appended are those before idx, and entry idx once SuspendEntry ran; *)
(* entry idx is between its rule and its FIN at "fin" and awaiting Sync()  *)
(* at "sync"; the rules are forward_pair without their rewritten           *)
(* addresses, the spoofing the ARP contexts, the blocked paths the address *)
(* pairs of the chain's DROP rules.  Capture steps and a UDP RESUME leave  *)
(* the protocol's state alone.                                             *)
Serving == ctl \notin {"accept", "down", "crashed"}

DropPairs(ch) ==
    {<<ch[i].tuple[1], ch[i].tuple[3]>> : i \in {j \in DOMAIN ch : ch[j].jump = "DROP"}}

Protocol == INSTANCE ControlProtocol WITH
    NoReq   <- NoOp,
    down    <- ctl \in {"down", "crashed"},
    req     <- IF Serving
               THEN [op    |-> IF ctl \in {"suspend", "fin", "sync"} THEN "SUSPEND" ELSE "RESUME",
                     tcp   |-> op_data.is_tcp,
                     route |-> [i \in DOMAIN op_data.addr |->
                                  <<op_data.addr[i].srv[1], op_data.addr[i].cli[1]>>]]
               ELSE NoOp,
    done    <- CASE ctl = "suspend"          -> idx - 1
                 [] ctl \in {"fin", "sync"} -> idx
                 [] OTHER                   -> 0,
    stage   <- CASE ctl = "fin"  -> "added"
                 [] ctl = "sync" -> "syncing"
                 [] OTHER        -> "none",
    rules   <- [i \in DOMAIN forward_pair |-> <<forward_pair[i].src, forward_pair[i].dst>>],
    spoofed <- {<<a.target, a.victim>> : a \in arp},
    blocked <- DropPairs(chain)

GatewayImplementsProtocol == Protocol!Spec

(* After the gateway terminates, the hijack is torn down: no DROP rule of *)
(* start_block is left in the FORWARD chain (spec 3, Hijack Context).     *)
TeardownRemovesBlocks ==
    ctl = "down" => \A i \in DOMAIN chain : chain[i].jump # "DROP"

=============================================================================
