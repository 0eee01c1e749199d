# TLA+ models of the connection-migration gateway and the WAMR snapshot engine

This directory holds TLA+ specifications of the code under `src/`, and the TLC
configurations that check them.

## The system

The repository has two independent subsystems.

1. **Gateway** (`src/gateway/main.cpp`). This is one process with several threads.
   - **Control thread** (`main`). It accepts one control record per TCP connection and serves it.
     - **SUSPEND.** For each entry of the record, it formats `server_ip` and `client_ip`. For TCP it starts a `keep_alive` thread. It appends a pending rule `(server, client, "")` to `forward_pair`. It sleeps 2 s and sends a FIN. For UDP it uses `send_fin`. For TCP it uses `send_fin_tcp`, then ARP spoofing, then a TIME_WAIT `TCPConnection` whose `Sync()` blocks, then `start_block` (iptables).
     - **RESUME.** It copies the last rule and writes the new address into the copy. It sets `is_forward`. For TCP it pops the last backend thread and syncs two ESTABLISHED connections.
   - **Capture thread** (`pcap_loop_wrapper` → `packet_handler`). For each IPv4 packet:
     - UDP packets fill in server ports still 0 in `op_data`.
     - When forwarding is on, the first matching rule rewrites the source or destination address. Then `in_cksum` recomputes `ip_sum` and `forward` re-injects the packet.
   - **Keep-alive threads.** They send ACKs until they are stopped.
   - **Kernel FORWARD chain.** `start_block` edits it. It outlives the process.
   - **sigterm_handler.** It runs `clear_forward` and exits.

   These threads share `op_data`, `forward_pair`, `is_forward` and `backend_thread`, with no lock.

2. **WAMR snapshot engine** (`src/src`, `src/include`).
   - **Frame codec.** `WAMRInterpFrame::dump` turns a frame's pointers into offsets and copies its control stack of branch blocks. `restore` rebuilds a frame from them.
   - **Recovery manager.** `WAMRInstance::recover` does these steps:
     1. Sorts the snapshots by `cur_count`, descending.
     2. Spawns an exec env for each snapshot with a non-zero count.
     3. Restores the snapshot into `cur_env`.
     4. Calls the interpreter on that env, synchronously, one snapshot after another.
   - **Not modelled.** The branch-block and module-instance-extra codecs copy their fields verbatim. `include/wamr_interp_frame.h` is an unused stale declaration.

## Modules

| Module | Models | State ↔ code |
|---|---|---|
| `Checksum` | `in_cksum` and the forward loop of `packet_handler` (main.cpp 37-48, 204-228) | `iphdr`: header bytes, little-endian. `WordSum`/`InCksum` follow the C loop, its two folds and its 16-bit cast. `ForwardFrom` is the loop over the constant `Rules` (`forward_pair`): first rule in the packet's direction rewrites `ip_src`, in the reverse direction `ip_dst`, then `ip_sum` is recomputed and the loop returns. `AddrOf` is `inet_addr`, with `""` giving INADDR_NONE. `Reinject` is `forward()`: `sendto` fails and the packet is lost, or the packet goes out and may pass the capture interface again (`onwire`), where `Forward` handles it again. `RefCksum` is an RFC 1071 reference. |
| `Gateway` | The control thread, the capture thread, the FORWARD chain, termination and restart (main.cpp) | One variable per global (`op_data`, `forward_pair`, `is_forward`, `backend`, `server_ip`, `client_ip`, `tcp_v_to_s`, `tcp_s_to_v`, `arp`). `chain` is the kernel chain. `ctl` is the control thread's program point. The SUSPEND loop body is split at its blocking points: `SuspendEntry` runs up to `sleep(2)`, `SendFinUdp`/`SendFinTcp` run up to `Sync()`, and `SuspendSync` is `Sync()` returning plus `start_block`. `Capture(p)` is one `packet_handler` call. `hijacked` and `nreq` are history and a bound. |
| `FrameCodec` | `WAMRInterpFrame::dump`/`restore` | A frame is its layout: offsets in cells, `csp` as the next free slot, the function's block at slot 0, `Junk` in unused slots. `Dump` and `Restore` are the two methods. `Restore` also leaves the snapshot's `csp` reversed, as the in-place `std::reverse` does. The target frame starts with stale `ip`/`lp_bak`. |
| `ControlProtocol` | What the control path promises (spec 4.3, 5, 6) | `req` is the record in service: its opcode, its TCP flag and the (server, client) addresses of its entries. `done` counts the entries whose rule was added. `stage` is where the current entry's hijack is (spec 4.3): `"added"` between its rule and its FIN, `"syncing"` after the TCP FIN and ARP spoofing while `Sync()` is pending. `rules` is the rule list as (src, dst) pairs. `spoofed` holds the (address taken over, host deceived) pairs of the ARP spoofing. `blocked` holds the address pairs the FORWARD chain drops; it outlives the process. `down` says the process is not running. `Take`, `AddRule`, `FinUdp`, `FinTcp`, `Block`, `Finish`, `Stop` and `Start` are its steps. |
| `Recover` | `WAMRInstance::recover` | `order` is the sorted vector. `pos` is the loop index. `cur_env`, `nspawn` and `restoredIn` give the env each snapshot went into. `returned` holds the threads whose interpreter call returned. `WaitsFor` says which threads a thread waits for before it can return. |

`MC_*.tla` modules give the constants small values, and each `.cfg` selects one question.

## Runs

| Run | Expect | What it shows |
|---|---|---|
| `checksum` | pass | `in_cksum` equals RFC 1071 on every buffer of 6-7 bytes over {0,1,127,128,255}. This includes odd lengths and the double-carry case FFFF+FFFF+0001. `ForwardFirstMatch`: every handling of a header, re-captures included, is exactly the spec 8 rule (the first rule naming the packet in either direction, one rewrite). After a rewrite, a header checksums to 0 (94k states). |
| `gateway` | pass | After a TCP SUSPEND of one session, the session's packets are dropped in both directions until RESUME. This holds across further requests, termination and restart. Both initial chains are checked, with and without the docker0 ACCEPT. `UdpSuspendServed`: under `FairSpec`, a UDP SUSPEND returns to `accept()` without any packet arriving. `GatewayImplementsProtocol`: `Gateway` refines `ControlProtocol`. The mapping: `req` is `op_data` while `ctl` is away from `accept`, `done` and `stage` are derived from `idx` and `ctl`, `rules` is `forward_pair` without its rewritten addresses, `spoofed` is `arp`, and `blocked` is the address pairs of the chain's DROP rules. This shows that records are served one at a time, and that a SUSPEND hijacks its entries one by one in batch order: one rule per entry, then its FIN, and for TCP the ARP spoofing of that entry's client towards its server and, after `Sync()`, the DROP of exactly that path in both directions. It holds through every interleaving with the capture thread, crashes and restarts (231k states, 95 s, every action fires). Swapping the two arguments of `ARPSpoofingReply` breaks it. |
| `gateway_batch_block` | violation | With a batch of two TCP sessions, the second is never blocked. The first session's ports are used for every entry. |
| `gateway_resume_rule` | violation | RESUME writes the new address into a copy, so the rule is never completed. |
| `gateway_join_capture` | violation | A TCP RESUME with no keep-alive left pops the pcap thread and joins a loop that never ends. TLC's trace is a UDP SUSPEND (no keep-alive) followed by a TCP RESUME. A RESUME with no rule at all crashes at line 503 before it gets that far. |
| `gateway_teardown` | violation | After a TCP SUSPEND blocks a session and SIGTERM arrives, the DROP rules of `start_block` are still in the FORWARD chain. `sigterm_handler` only runs `clear_forward`, against spec 3. |
| `frame_codec` | pass | `restore(dump(f))` keeps `sp`, `sp_bottom` and `sp_boundary` for every bounded frame (22k states). |
| `frame_roundtrip` | violation | The round trip fails in two ways. The control stack loses its bottom block and is shifted by one. A frame at instruction offset 0 gets the target's stale `ip`. |
| `frame_alloc` | violation | `csp_boundary` lies past the `csp.size()` blocks that are allocated. |
| `recover` | pass | Seven threads, with ties that the unstable sort may order either way. The main thread joins the workers. Every thread is resumed and returns: the count-0 joiner is sorted last, after every worker it waits for. Tied workers wait for nobody, so this run does not exercise the tie order; `recover_waits` shows what goes wrong when a thread waits on one sorted later. |
| `recover_waits` | violation | A worker waits for a worker with a lower count. The sequential resumption hangs. |
| `recover_primary` | violation | The spec 8 example `[5,0,3]`: the count-0 snapshot is restored into the env spawned for count 3, not into the primary env. |

Every property of a pass run has a mutant in `PROJECT.json`. Each mutant is a plausible bug in the mapped definition, and TLC finds it:
- a single carry fold;
- `ip_sum` not zeroed;
- `start_block` not deleting the ACCEPT;
- `sp_bottom` without the local cells;
- the comparator flipped;
- every entry's rule formed from the batch's first entry (which breaks `GatewayImplementsProtocol`);
- the forward loop going on after a source rewrite instead of returning;
- the UDP FIN held back until the capture thread has learned the server port;
- a spawn for count 0;
- an off-by-one in `csp`;
- and so on.

Five more gateway bugs are modelled but not yet checked by a run. They are listed as hazards in `PROJECT.json`:
- RESUME pops one keep-alive out of a batch's several.
- The TIME_WAIT connection pairs each address with the other endpoint's port.
- The UDP FIN goes to port 0, or to a byte-swapped port learned from any UDP packet.
- RESUME synchronises on `server_ip` and `client_ip`, the addresses of the last SUSPEND entry, not of the session it resumes.
- ARP spoofing is never stopped, so it outlives the RESUME (spec 3 clears it there). `GatewayImplementsProtocol` checks that only a restart ends it.

## Bounds

- **Checksum.**
  - Headers of 6 and 7 bytes over {0,1,127,128,255}: both parities, both address fields present, and the double carry reachable.
  - Three rules: A->B becomes C, C->B becomes D, and B->D has the unfilled address `""`. A header A->B is rewritten three times in a row by re-capture, which exercises both directions, the early return and INADDR_NONE.
- **Gateway.**
  - Two ports, three addresses, up to 4 control records (`MaxRequests`) in the `gateway` run.
  - Four SUSPEND records exercise every path: one TCP, one UDP with the port given, one UDP with port 0, and a UDP batch of two sessions with different addresses (s:0→c:2, n:2→s:1). The batch is what lets the refinement tell entries apart. A TCP batch is left to `gateway_batch_block`, because the code's batch bug would fail `SuspendedSessionBlocked`. The two RESUMEs follow.
  - Batches of two sessions appear only in the runs that show batch bugs.
  - Four requests allow SUSPEND, RESUME, SUSPEND, RESUME. The second SUSPEND runs with forwarding already on from the first RESUME, and its RESUME finds two rules. RESUME first is reachable too. Together these reach every branch of `AcceptResume` (231k states with the UDP batch).
  - Packets are all TCP/UDP packets between distinct addresses, so `Sync()` and port learning can see any flow.
- **FrameCodec.** Two functions, three blocks, offsets up to 2. This gives frames with 1 to 3 live blocks, offset 0 and non-zero offsets, and full and partly filled control stacks.
- **Recover.**
  - The spec's own example `[5,0,3]`.
  - Seven snapshots with equal counts, so that the unstable sort has several results.

## Fairness

- `recover` runs on one thread that keeps executing its loop, so weak fairness of `Next` is what the code gives.
- `Gateway`'s `FairSpec` has weak fairness of `SuspendEntry`, `SendFinUdp` and `SendFinTcp` only. Between `accept()` and a blocking `Sync()`, the control thread waits on nothing but `sleep(2)` and raw-socket sends. Packet arrival, requests and SIGTERM get no fairness: nothing in the code makes them happen.
- TCP liveness (`Sync()` returning) is therefore not claimed. It would need fairness on packet arrival. Even then, `Sync()` waits on a connection that pairs each address with the other endpoint's port (a hazard in `PROJECT.json`).
- `ControlProtocol` has no fairness. A TCP SUSPEND's later entries wait on `Sync()`, so the code cannot promise that rules keep being added. The refinement is therefore a safety property.
- The forward loop on re-captured packets need not end: with rules of a migration and its migration back, a packet bounces forever. This is listed as a hazard. The checksum run has no liveness property.

## Not modelled

- The IPv6 path of `packet_handler` and ICMP handling. The IPv6 path skips the link header twice and matches on IPv4 fields, so it never forwards.
- The bodies of `keep_alive` and libcrafter's packet crafting. Keep-alive threads are modelled by their presence only.
- The data race on `forward_pair` and `op_data` below the statement level. It is listed as a hazard.
- The WAMRInstance constructor, destructor, `set_wasi_args`, `invoke_main` and the module-instance-extra codec. These are straight-line calls or verbatim copies, and spec 1 puts runtime and WASI setup out of scope. The destructor's inverted null checks are listed as a hazard.
- `src/test/tcp_server.c`, which is a test workload.
- The link between `Recover` and `FrameCodec`. `recover` calls `restore(exec_, cur_env)` on a `WAMRExecEnv`, whose code is not in this repository. Which frames it restores, and in which order, is therefore unknown, and a composed model would be guesswork. Each module is checked on its own.
- libcrafter's `ARPSpoofingReply` is not in the repository. Its argument order (target, then victim) is taken from spec 4.3, which says the client's address is taken over.

## Plan for later work

1. Model the gateway's IPv6 path, with a property that an IPv6 rule forwards. `packet_handler` reads `struct ip` fields over the IPv6 header, so such a rule never matches.
