------------------------------ MODULE Checksum ------------------------------
(***************************************************************************)
(* The forward engine of the gateway (src/gateway/main.cpp): the loop of   *)
(* packet_handler over forward_pair that rewrites the first matching       *)
(* address field of a captured IPv4 header, zeroes ip_sum and stores       *)
(* in_cksum of the header into it.  forward() sends it to its ip_dst on a  *)
(* raw socket; a destination behind the capture interface sees it pass     *)
(* that interface, where it is captured and handled again.                 *)
(*                                                                         *)
(* A buffer is a sequence of bytes as they lie in memory.  in_cksum reads  *)
(* it as unsigned shorts on a little-endian host, so the word at byte i is *)
(* buf[i] + 256 * buf[i+1]; an odd trailing byte is added as its value.    *)
(* The sum is an unsigned long (64 bits): the bounded inputs never come    *)
(* near its width, so it is kept exact; the result is truncated to 16 bits *)
(* by the cast to unsigned short.                                          *)
(***************************************************************************)
EXTENDS Naturals, Sequences, SequencesExt

CONSTANTS
    Bytes,      \* byte values a header may hold
    HdrLens,    \* header lengths in bytes
    CkPos,      \* index of the first byte of ip_sum
    SrcPos,     \* index of the first byte of the (abstracted) ip_src field
    DstPos,     \* index of the first byte of the (abstracted) ip_dst field
    Rules,      \* forward_pair: a sequence of [src, dst, new] (two-byte addresses)
    Empty       \* the rewritten address "" of a rule RESUME never completed

ASSUME /\ Bytes \subseteq 0..255
       /\ \A n \in HdrLens : n \in Nat /\ n >= 2
       /\ \A n \in HdrLens : DstPos + 1 <= n /\ SrcPos + 1 <= n
       /\ \A i \in DOMAIN Rules : {Rules[i].src, Rules[i].dst} \subseteq Seq(0..255)

VARIABLES
    iphdr,      \* the header bytes of the captured packet
    rewritten,  \* whether the forward engine has re-injected this header
    onwire      \* the header passes the capture interface (and is captured)

vars == <<iphdr, rewritten, onwire>>

Word16 == 65536

(* The bytes of an unsigned short as stored on a little-endian host.       *)
Le16(w) == <<w % 256, w \div 256>>

\* The loop of in_cksum: add each 16-bit word while two bytes remain, then
\* add the odd trailing byte, if any, as an unsigned char.
RECURSIVE WordSum(_, _)
WordSum(buf, i) ==
    IF Len(buf) - i + 1 > 1
    THEN buf[i] + 256 * buf[i + 1] + WordSum(buf, i + 2)
    ELSE IF Len(buf) - i + 1 = 1 THEN buf[i] ELSE 0

(* Mutant: in_cksum that folds the carries only once. *)
InCksumOneFold(buf) ==
    LET sum0 == WordSum(buf, 1)
        sum1 == (sum0 \div Word16) + (sum0 % Word16)
    IN  (Word16 - 1) - (sum1 % Word16)

(* in_cksum: fold the carries twice and return ~sum cut to 16 bits.        *)
InCksum(buf) ==
    LET sum0 == WordSum(buf, 1)
        sum1 == (sum0 \div Word16) + (sum0 % Word16)
        sum2 == sum1 + (sum1 \div Word16)
    IN  (Word16 - 1) - (sum2 % Word16)

(* Reference: the Internet checksum of RFC 1071, the one's complement of   *)
(* the one's-complement sum of the 16-bit words, the odd byte zero-padded. *)
OnesAdd(a, b) == IF a + b >= Word16 THEN a + b - (Word16 - 1) ELSE a + b

Words(buf) ==
    [k \in 1..((Len(buf) + 1) \div 2) |->
        buf[2 * k - 1] + (IF 2 * k <= Len(buf) THEN 256 * buf[2 * k] ELSE 0)]

RefCksum(buf) == (Word16 - 1) - FoldLeft(OnesAdd, 0, Words(buf))

(* Mutant: the two bytes inserted at position p instead of overwritten. *)
SetFieldInsert(buf, p, v) ==
    SubSeq(buf, 1, p - 1) \o v \o SubSeq(buf, p, Len(buf))

(* Overwrite the two bytes at position p.                                  *)
SetField(buf, p, v) ==
    [i \in DOMAIN buf |-> IF i = p THEN v[1] ELSE IF i = p + 1 THEN v[2] ELSE buf[i]]

(* Mutant: the checksum stored without zeroing ip_sum first. *)
RecomputeNoZero(buf) ==
    SetField(buf, CkPos, Le16(InCksum(buf)))

(* iphdr->ip_sum = 0; iphdr->ip_sum = in_cksum(iphdr, ip_hl * 4).          *)
Recompute(buf) ==
    LET zeroed == SetField(buf, CkPos, <<0, 0>>)
    IN  SetField(zeroed, CkPos, Le16(InCksum(zeroed)))

(* The address field at position p, as inet_ntoa(...) compares it. *)
Field(buf, p) == <<buf[p], buf[p + 1]>>

(* inet_addr(new_srcip.c_str()): "" is not an address, INADDR_NONE. *)
AddrOf(new) == IF new = Empty THEN <<255, 255>> ELSE new

\* Mutant: the loop goes on with the next rule after a source rewrite
\* instead of returning.
RECURSIVE ForwardFromNoReturn(_, _)
ForwardFromNoReturn(buf, i) ==
    IF i > Len(Rules) THEN buf
    ELSE LET r == Rules[i] IN
         IF r.src = Field(buf, SrcPos) /\ r.dst = Field(buf, DstPos)
         THEN ForwardFromNoReturn(Recompute(SetField(buf, SrcPos, AddrOf(r.new))), i + 1)
         ELSE IF r.src = Field(buf, DstPos) /\ r.dst = Field(buf, SrcPos)
         THEN Recompute(SetField(buf, DstPos, AddrOf(r.new)))
         ELSE ForwardFromNoReturn(buf, i + 1)

\* for (auto [srcip_, destip_, new_srcip] : forward_pair) from rule i on:
\* the first rule naming the packet's (src, dst) rewrites ip_src, the first
\* naming (dst, src) rewrites ip_dst; either recomputes ip_sum and returns.
RECURSIVE ForwardFrom(_, _)
ForwardFrom(buf, i) ==
    IF i > Len(Rules) THEN buf
    ELSE LET r == Rules[i] IN
         IF r.src = Field(buf, SrcPos) /\ r.dst = Field(buf, DstPos)
         THEN Recompute(SetField(buf, SrcPos, AddrOf(r.new)))
         ELSE IF r.src = Field(buf, DstPos) /\ r.dst = Field(buf, SrcPos)
         THEN Recompute(SetField(buf, DstPos, AddrOf(r.new)))
         ELSE ForwardFrom(buf, i + 1)

(* Spec 8 reading of a rule: it names the packet's two addresses, in      *)
(* either direction.                                                       *)
Names(r, buf) == {r.src, r.dst} = {Field(buf, SrcPos), Field(buf, DstPos)}

(* forward(): sendto on a raw socket either fails, which is logged and    *)
(* loses the packet with no retry, or sends it towards its new ip_dst,     *)
(* past the capture interface again or not.                                *)
Reinject == onwire' \in BOOLEAN

(* With forwarding on, a captured packet some rule names is rewritten and  *)
(* re-injected.  A packet no rule names is left alone.                     *)
Forward ==
    /\ onwire
    /\ \E i \in DOMAIN Rules : Names(Rules[i], iphdr)
    /\ iphdr' = ForwardFrom(iphdr, 1)
    /\ rewritten' = TRUE
    /\ Reinject

Init ==
    /\ iphdr \in UNION {[1..n -> Bytes] : n \in HdrLens}
    /\ rewritten = FALSE
    /\ onwire = TRUE

Next == Forward

Spec == Init /\ [][Next]_vars

-----------------------------------------------------------------------------
TypeOK ==
    /\ iphdr \in Seq(0..255)
    /\ Len(iphdr) \in HdrLens
    /\ rewritten \in BOOLEAN
    /\ onwire \in BOOLEAN

(* in_cksum, with its two carry folds and truncation, computes the RFC     *)
(* 1071 checksum of every buffer, of odd length too (send_fin checksums    *)
(* the whole crafted packet, not only the header).                         *)
CksumMatchesReference ==
    InCksum(iphdr) = RefCksum(iphdr)

(* Spec 8, direction-symmetric matching: each handling of a packet by the  *)
(* forward engine applies the first rule, in insertion order, that names   *)
(* the packet's addresses in either direction, and exactly one rewrite:    *)
(* the source when the rule runs the packet's way, else the destination.   *)
RefForward(buf) ==
    LET k == Min({i \in DOMAIN Rules : Names(Rules[i], buf)})
        f == IF Rules[k].src = Field(buf, SrcPos) THEN SrcPos ELSE DstPos
    IN  Recompute(SetField(buf, f, AddrOf(Rules[k].new)))

ForwardFirstMatch ==
    [][rewritten' => iphdr' = RefForward(iphdr)]_vars

(* After the forward engine rewrote an address and recomputed ip_sum, a    *)
(* receiver that checksums the header (ip_sum included) gets 0: the        *)
(* re-injected packet is not dropped for a bad header checksum.            *)
RewrittenHeaderVerifies ==
    rewritten => InCksum(iphdr) = 0

=============================================================================
