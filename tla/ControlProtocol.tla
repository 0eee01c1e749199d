--------------------------- MODULE ControlProtocol ---------------------------
(***************************************************************************)
(* What the gateway's control path promises (spec 4.3, 5 and 6): control   *)
(* records are served one at a time, each to completion before the next    *)
(* is taken; serving a SUSPEND batch hijacks its entries one after the     *)
(* other, in batch order: a pending forward rule naming the entry's        *)
(* (server, client) addresses, then the FIN; for TCP the gateway takes    *)
(* over the client's address towards the server by ARP and, once          *)
(* synchronised, the session's original path is dropped both ways.  A     *)
(* RESUME adds or removes no rule.  Rules and spoofing live as long as    *)
(* the process, which may stop at any point and be started afresh; the   *)
(* FORWARD chain's drops outlive it.                                       *)
(*                                                                         *)
(* A record is seen by its opcode and its route, the sequence of the       *)
(* entries' (server address, client address) pairs.                        *)
(***************************************************************************)
EXTENDS Naturals, Sequences

CONSTANTS
    Requests,   \* the control records the controller may send
    NoReq       \* no record in service

VARIABLES
    down,       \* the process is not running
    req,        \* the record in service, or NoReq
    done,       \* entries of a SUSPEND in service whose rule was added
    stage,      \* hijack of entry done: "none", "added" (rule, no FIN yet),
                \* "syncing" (TCP: FIN sent, client spoofed, awaiting Sync)
    rules,      \* the forward rules, as (src, dst) pairs, oldest first
    spoofed,    \* ARP spoofing: (address taken over, host deceived) pairs
    blocked     \* address pairs the kernel's FORWARD chain drops

vars == <<down, req, done, stage, rules, spoofed, blocked>>

(* The (server, client) address pairs of a record's entries. *)
Route(r) == [i \in DOMAIN r.addr |-> <<r.addr[i].srv[1], r.addr[i].cli[1]>>]

(* A record as the protocol sees it. *)
View(r) == [op |-> r.op, tcp |-> r.is_tcp, route |-> Route(r)]

(* The entry whose hijack is under way: its server and its client. *)
Srv == req.route[done][1]
Cli == req.route[done][2]

(* The entry's hijack is over: the record too, after its last entry. *)
EntryDone ==
    /\ stage' = "none"
    /\ IF done = Len(req.route)
       THEN req' = NoReq /\ done' = 0
       ELSE UNCHANGED <<req, done>>

Take(r) ==
    /\ ~down /\ req = NoReq
    /\ req' = View(r)
    /\ done' = 0
    /\ UNCHANGED <<down, stage, rules, spoofed, blocked>>

AddRule ==
    /\ req # NoReq /\ req.op = "SUSPEND" /\ stage = "none" /\ done < Len(req.route)
    /\ rules' = Append(rules, req.route[done + 1])
    /\ done' = done + 1
    /\ stage' = "added"
    /\ UNCHANGED <<down, req, spoofed, blocked>>

(* UDP: the FIN to the server ends the entry's hijack. *)
FinUdp ==
    /\ stage = "added" /\ ~req.tcp
    /\ EntryDone
    /\ UNCHANGED <<down, rules, spoofed, blocked>>

(* TCP: the FIN to the server, then the gateway takes over the client's  *)
(* address towards the server (spec 4.3, ARP_SPOOFED); Sync is pending.   *)
FinTcp ==
    /\ stage = "added" /\ req.tcp
    /\ spoofed' = spoofed \cup {<<Cli, Srv>>}
    /\ stage' = "syncing"
    /\ UNCHANGED <<down, req, done, rules, blocked>>

(* TCP: once synchronised, the session's original path is dropped both   *)
(* ways.                                                                  *)
Block ==
    /\ stage = "syncing"
    /\ blocked' = blocked \cup {<<Cli, Srv>>, <<Srv, Cli>>}
    /\ EntryDone
    /\ UNCHANGED <<down, rules, spoofed>>

Finish ==
    /\ req # NoReq /\ req.op = "RESUME"
    /\ req' = NoReq
    /\ UNCHANGED <<down, done, stage, rules, spoofed, blocked>>

(* The process stops; the kernel's FORWARD chain outlives it. *)
Stop ==
    /\ ~down
    /\ down' = TRUE
    /\ req' = NoReq
    /\ done' = 0
    /\ stage' = "none"
    /\ UNCHANGED <<rules, spoofed, blocked>>

Start ==
    /\ down
    /\ down' = FALSE
    /\ rules' = <<>>
    /\ spoofed' = {}
    /\ UNCHANGED <<req, done, stage, blocked>>

Init ==
    /\ down = FALSE
    /\ req = NoReq
    /\ done = 0
    /\ stage = "none"
    /\ rules = <<>>
    /\ spoofed = {}
    /\ blocked = {}

Next ==
    \/ \E r \in Requests : Take(r)
    \/ AddRule \/ FinUdp \/ FinTcp \/ Block \/ Finish
    \/ Stop \/ Start

Spec == Init /\ [][Next]_vars

=============================================================================
