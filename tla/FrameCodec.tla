----------------------------- MODULE FrameCodec -----------------------------
(***************************************************************************)
(* The frame snapshot codec of src/src/wamr_interp_frame.cpp:              *)
(* WAMRInterpFrame::dump turns one interpreter frame into offsets and a    *)
(* list of branch blocks, WAMRInterpFrame::restore rebuilds a frame from   *)
(* them.                                                                   *)
(*                                                                         *)
(* A frame is kept at the level of its layout: offsets in cells from the   *)
(* code start (ip) and from the wasm stack bottom (lp, sp), and its        *)
(* control stack, an array of branch blocks with csp the index of the next *)
(* free slot, as the WAMR classic interpreter's PUSH_CSP leaves it; the    *)
(* function's block is always at slot 0.  A slot that holds no live block  *)
(* is Junk, and so is the slot one past the array.  Branch blocks are      *)
(* model values: their four fields are copied verbatim by dump_impl and    *)
(* restore_impl.                                                           *)
(***************************************************************************)
EXTENDS Naturals, Sequences, SequencesExt

CONSTANTS
    Funcs,   \* functions: [param, local, max_stack, max_block] cell and block counts
    Blocks,  \* branch blocks
    Junk,    \* the content of a slot that holds no live block
    MaxIp,   \* largest instruction offset
    LpOffs   \* offsets of a frame's locals from the stack bottom

ASSUME /\ \A f \in Funcs : f.max_block >= 1
       /\ Junk \notin Blocks
       /\ \A l \in LpOffs : l > 0   \* a frame header always precedes lp

VARIABLES
    frame,   \* the live frame that is dumped
    snap,    \* the WAMRInterpFrame snapshot, or NoSnap
    target,  \* the frame restore() writes into
    phase    \* "live", "dumped", "restored"

vars == <<frame, snap, target, phase>>

NoSnap == [none |-> TRUE]

(* The content of control-stack slot k of a frame. *)
Slot(f, k) == IF k < f.fn.max_block THEN f.blocks[k] ELSE Junk

(* The live blocks of a frame, bottom first: slots 0 .. csp - 1. *)
LiveBlocks(f) == [k \in 1..f.csp |-> Slot(f, k - 1)]

(* The frames the interpreter can build: lp past the frame header, the    *)
(* operand stack between sp_bottom and sp_boundary, 1 .. max_block live    *)
(* blocks below csp and anything in the slots above.                      *)
FramesOf(fn, lp) ==
    LET spBot == lp + fn.param + fn.local
    IN  {[fn |-> fn, ip |-> ip, lp |-> lp, sp |-> sp, csp |-> csp, blocks |-> bl,
          sp_bottom |-> spBot, sp_boundary |-> spBot + fn.max_stack,
          csp_boundary |-> fn.max_block] :
           ip \in 0..MaxIp, sp \in spBot..(spBot + fn.max_stack),
           csp \in 1..fn.max_block,
           bl \in [0..(fn.max_block - 1) -> Blocks \cup {Junk}]}

Frames == UNION {FramesOf(fn, lp) : fn \in Funcs, lp \in LpOffs}

-----------------------------------------------------------------------------
(* WAMRInterpFrame::dump: the frame has a function; ip, lp and sp become   *)
(* offsets; the loop dumps csp - i for i in 0 .. csp_size - 1, topmost     *)
(* first; then the function.                                               *)
DumpFrame(f) ==
    [ip |-> f.ip, lp |-> f.lp, sp |-> f.sp, fn |-> f.fn,
     csp |-> [i \in 1..f.csp |-> Slot(f, f.csp - (i - 1))]]

Dump ==
    /\ phase = "live"
    /\ snap' = DumpFrame(frame)
    /\ phase' = "dumped"
    /\ UNCHANGED <<frame, target>>

(* Mutant: sp_bottom computed from lp and the parameter cells only. *)
RestoreFrameNoLocals(s, t) ==
    LET ip    == IF s.ip # 0 THEN s.ip ELSE t.ip
        sp    == IF s.sp # 0 THEN s.sp ELSE t.sp
        lpBak == IF s.lp # 0 THEN s.lp ELSE t.lp_bak
        rev   == Reverse(s.csp)
        spBot == lpBak + s.fn.param
    IN  [fn |-> s.fn, ip |-> ip, sp |-> sp, lp_bak |-> lpBak,
         blocks |-> [k \in 0..(Len(rev) - 1) |-> rev[k + 1]],
         alloc |-> Len(s.csp),
         sp_bottom |-> spBot,
         csp_boundary |-> s.fn.max_block,
         sp_boundary |-> spBot + s.fn.max_stack,
         csp |-> Len(s.csp) - 1]

(* Mutant: csp set to csp_bottom + csp.size(). *)
RestoreFrameCspSize(s, t) ==
    LET ip    == IF s.ip # 0 THEN s.ip ELSE t.ip
        sp    == IF s.sp # 0 THEN s.sp ELSE t.sp
        lpBak == IF s.lp # 0 THEN s.lp ELSE t.lp_bak
        rev   == Reverse(s.csp)
        spBot == lpBak + s.fn.param + s.fn.local
    IN  [fn |-> s.fn, ip |-> ip, sp |-> sp, lp_bak |-> lpBak,
         blocks |-> [k \in 0..(Len(rev) - 1) |-> rev[k + 1]],
         alloc |-> Len(s.csp),
         sp_bottom |-> spBot,
         csp_boundary |-> s.fn.max_block,
         sp_boundary |-> spBot + s.fn.max_stack,
         csp |-> Len(s.csp)]

(* WAMRInterpFrame::restore: the function is restored first; ip, sp and   *)
(* lp only when their offsets are non-zero; a csp_bottom array of          *)
(* csp.size() blocks is filled from the reversed list; then the bounds.    *)
RestoreFrame(s, t) ==
    LET ip    == IF s.ip # 0 THEN s.ip ELSE t.ip
        sp    == IF s.sp # 0 THEN s.sp ELSE t.sp
        lpBak == IF s.lp # 0 THEN s.lp ELSE t.lp_bak
        rev   == Reverse(s.csp)
        spBot == lpBak + s.fn.param + s.fn.local
    IN  [fn |-> s.fn, ip |-> ip, sp |-> sp, lp_bak |-> lpBak,
         blocks |-> [k \in 0..(Len(rev) - 1) |-> rev[k + 1]],
         alloc |-> Len(s.csp),
         sp_bottom |-> spBot,
         csp_boundary |-> s.fn.max_block,
         sp_boundary |-> spBot + s.fn.max_stack,
         csp |-> Len(s.csp) - 1]

(* restore() reverses the snapshot's csp vector in place before it copies *)
(* the blocks, so the snapshot is left reversed.                           *)
Restore ==
    /\ phase = "dumped"
    /\ target' = RestoreFrame(snap, target)
    /\ snap' = [snap EXCEPT !.csp = Reverse(@)]
    /\ phase' = "restored"
    /\ UNCHANGED frame

(* The target frame holds whatever its memory held before restore. *)
StaleTargets == [ip : 0..MaxIp, sp : {0}, lp_bak : {0}]

Init ==
    /\ frame \in Frames
    /\ snap = NoSnap
    /\ target \in StaleTargets
    /\ phase = "live"

Next == Dump \/ Restore

Spec == Init /\ [][Next]_vars

-----------------------------------------------------------------------------
TypeOK ==
    /\ frame \in Frames
    /\ phase \in {"live", "dumped", "restored"}
    /\ phase = "live" <=> snap = NoSnap
    /\ phase = "restored" => target.csp \in 0..(target.alloc - 1)

(* The restored frame's live blocks, bottom first: slots 0 .. csp - 1, as *)
(* the interpreter reads them when it resumes the frame.                  *)
RestoredBlocks(t) == [k \in 1..t.csp |-> t.blocks[k - 1]]

(* restore(dump(frame)) reproduces the operand stack: the same sp, and    *)
(* sp_bottom and sp_boundary recomputed from lp_bak and the function's    *)
(* cell counts equal the frame's own, so sp lies between them.            *)
RestoredOperandStack ==
    phase = "restored" =>
        /\ target.sp = frame.sp
        /\ target.sp_bottom = frame.sp_bottom
        /\ target.sp_boundary = frame.sp_boundary

(* Spec 8, frame round trip: restore(dump(frame)) resumes where the frame *)
(* was: the same instruction offset (also 0, the first instruction) and    *)
(* the same branch blocks in the same order, the top one just under csp.   *)
FrameRoundTrip ==
    phase = "restored" =>
        /\ target.ip = frame.ip
        /\ RestoredBlocks(target) = LiveBlocks(frame)

(* The restored control stack fits its allocation: PUSH_CSP may write     *)
(* every slot below csp_boundary, so csp_boundary must not pass the       *)
(* csp.size() blocks malloc'ed for csp_bottom.                             *)
RestoredControlStackFits ==
    phase = "restored" => target.csp_boundary <= target.alloc

=============================================================================
