---------------------------- MODULE PayloadBudget ---------------------------
(***************************************************************************)
(* The application's one counter of image payload bytes (images.rs) and    *)
(* the calls that charge it from several threads at once: a file is        *)
(* captured, a PNG is validated or decoded, a frame is encoded into a      *)
(* growing buffer, a preview is drawn, and a child process is given a copy *)
(* (runner/payload.rs, runner/recognition.rs, authoring_capture.rs).  A    *)
(* reservation is made before the memory it stands for, travels with the   *)
(* finished buffer through every shared clone, and for a child is kept     *)
(* until the process has been reaped.                                      *)
(*                                                                         *)
(* Bytes are counted in units; what makes a PNG invalid is a choice at the *)
(* point where the code would find it.  A finished call drops what it      *)
(* still holds in one step.                                                *)
(***************************************************************************)
EXTENDS Naturals, FiniteSets, Folds

CONSTANTS Threads,       \* the callers
          Limit,         \* PAYLOAD_BYTES
          Image,         \* units of the image a call is about
          Scratch,       \* units of working memory of a decoder or an encoder
          Maximum,       \* largest encoding
          MaxKept        \* bound: finished buffers alive

VARIABLES used,          \* PayloadBudget
          call,          \* what each thread does: "none", "capture", "validate",
                         \* "decode", "encode", "preview", "child"
          at,            \* where in it
          res,           \* reservations a thread's call holds
          mem,           \* memory the call has, by the same slots
          kept           \* finished buffers: [bytes, users] by slot 1..MaxKept

vars == <<used, call, at, res, mem, kept>>

Slots == {"main", "scratch", "old"}
Nothing == [s \in Slots |-> 0]

Init ==
    /\ used = 0
    /\ call = [t \in Threads |-> "none"] /\ at = [t \in Threads |-> "idle"]
    /\ res = [t \in Threads |-> Nothing] /\ mem = [t \in Threads |-> Nothing]
    /\ kept = [k \in 1..MaxKept |-> [bytes |-> 0, users |-> 0]]

TypeOK ==
    /\ used \in Nat
    /\ \A t \in Threads, s \in Slots : res[t][s] \in Nat /\ mem[t][s] \in Nat
    /\ \A k \in 1..MaxKept : kept[k].users \in Nat

Fits(bytes) == used + bytes <= Limit

\* PayloadBudget.reserve: one atomic update, or a refusal that changes
\* nothing.
Reserve(t, slot, bytes) ==
    /\ Fits(bytes)
    /\ used' = used + bytes
    /\ res' = [res EXCEPT ![t][slot] = @ + bytes]

SumOf(f) == f["main"] + f["scratch"] + f["old"]

\* The call returns without a result: all it holds is dropped.
Drops(t) ==
    /\ used' = used - SumOf(res[t])
    /\ res' = [res EXCEPT ![t] = Nothing] /\ mem' = [mem EXCEPT ![t] = Nothing]
    /\ call' = [call EXCEPT ![t] = "none"] /\ at' = [at EXCEPT ![t] = "idle"]
    /\ UNCHANGED kept

Goes(t, where) == at' = [at EXCEPT ![t] = where]

Begin(t) ==
    /\ call[t] = "none"
    /\ \E c \in {"capture", "validate", "decode", "encode", "preview", "child"} :
          call' = [call EXCEPT ![t] = c] /\ Goes(t, "begun")
    /\ UNCHANGED <<used, res, mem, kept>>

\* Any refusal, read error or invalid byte on the way.  A child that has
\* started is ended and reaped instead.
Refuse(t) ==
    /\ call[t] # "none" /\ ~(call[t] = "child" /\ at[t] \in {"running", "stopping"})
    /\ Drops(t)

\* A captured file, or a frame a worker transfers: the bytes are reserved,
\* then the reading buffer.
CaptureReserves(t) ==
    /\ call[t] = "capture" /\ at[t] = "begun"
    /\ Reserve(t, "main", Image) /\ Goes(t, "reserved")
    /\ UNCHANGED <<call, mem, kept>>

CaptureScratch(t) ==
    /\ call[t] = "capture" /\ at[t] = "reserved"
    /\ Reserve(t, "scratch", 1) /\ Goes(t, "ready")
    /\ UNCHANGED <<call, mem, kept>>

\* inspect_envelope only reads; then the decoder's scratch is reserved,
\* then, if the pixels are wanted, the raster.
Inspect(t) ==
    /\ call[t] \in {"validate", "decode"} /\ at[t] = "begun"
    /\ Reserve(t, "scratch", Scratch)
    /\ Goes(t, IF call[t] = "decode" THEN "reserved" ELSE "ready")
    /\ UNCHANGED <<call, mem, kept>>

Raster(t) ==
    /\ call[t] = "decode" /\ at[t] = "reserved"
    /\ Reserve(t, "main", Image) /\ Goes(t, "ready")
    /\ UNCHANGED <<call, mem, kept>>

\* preview: a smaller raster of its own.
Preview(t) ==
    /\ call[t] = "preview" /\ at[t] = "begun"
    /\ Reserve(t, "main", 1) /\ Goes(t, "ready")
    /\ UNCHANGED <<call, mem, kept>>

\* The stream is inflated once in a fixed buffer, then decoded row by row
\* into memory that is reserved.
Work(t) ==
    /\ call[t] \in {"capture", "validate", "decode", "preview"} /\ at[t] = "ready"
    /\ mem' = [mem EXCEPT ![t] = res[t]] /\ Goes(t, "worked")
    /\ UNCHANGED <<used, call, res, kept>>

\* encode_region: scratch, and an empty output that grows as it is written.
EncodeBegins(t) ==
    /\ call[t] = "encode" /\ at[t] = "begun"
    /\ Reserve(t, "scratch", Scratch) /\ Goes(t, "write")
    /\ UNCHANGED <<call, mem, kept>>

Larger(c) == LET n == IF c = 0 THEN 1 ELSE 2 * c IN IF n > Maximum THEN Maximum ELSE n

\* Mutant: the memory a growing buffer leaves behind is not charged.
GrowOldUncharged(t) ==
    /\ call[t] = "encode" /\ at[t] = "write" /\ res[t]["main"] < Maximum
    /\ Goes(t, "grow")
    /\ UNCHANGED <<used, call, res, mem, kept>>

\* grow_payload: the old allocation is charged a second time while both may
\* exist, then the reservation is resized, then the memory.
GrowOld(t) ==
    /\ call[t] = "encode" /\ at[t] = "write" /\ res[t]["main"] < Maximum
    /\ Reserve(t, "old", res[t]["main"]) /\ Goes(t, "grow")
    /\ UNCHANGED <<call, mem, kept>>

Resize(t) ==
    /\ call[t] = "encode" /\ at[t] = "grow"
    /\ Reserve(t, "main", Larger(res[t]["main"]) - res[t]["main"]) /\ Goes(t, "copy")
    /\ UNCHANGED <<call, mem, kept>>

Reallocate(t) ==
    /\ call[t] = "encode" /\ at[t] = "copy"
    /\ mem' = [mem EXCEPT ![t]["old"] = mem[t]["main"], ![t]["main"] = res[t]["main"]]
    /\ Goes(t, "release")
    /\ UNCHANGED <<used, call, res, kept>>

ReleaseOld(t) ==
    /\ call[t] = "encode" /\ at[t] = "release"
    /\ used' = used - res[t]["old"]
    /\ res' = [res EXCEPT ![t]["old"] = 0] /\ mem' = [mem EXCEPT ![t]["old"] = 0]
    /\ \E next \in {"write", "worked"} : Goes(t, next)
    /\ UNCHANGED <<call, kept>>

\* The result owns its reservation, which covers it; the rest is dropped.
Complete(t) ==
    /\ at[t] = "worked" /\ call[t] \in {"capture", "decode", "encode", "preview"}
    /\ \E k \in 1..MaxKept :
          /\ kept[k].users = 0
          /\ kept' = [kept EXCEPT ![k] = [bytes |-> res[t]["main"], users |-> 1]]
    /\ used' = used - res[t]["scratch"] - res[t]["old"]
    /\ res' = [res EXCEPT ![t] = Nothing] /\ mem' = [mem EXCEPT ![t] = Nothing]
    /\ call' = [call EXCEPT ![t] = "none"] /\ Goes(t, "idle")

\* A clone shares the owner, and with it the reservation; the last drop
\* gives it back.
Share(k) ==
    /\ kept[k].users = 1
    /\ kept' = [kept EXCEPT ![k].users = 2]
    /\ UNCHANGED <<used, call, at, res, mem>>

Drop(k) ==
    /\ kept[k].users > 0
    /\ kept' = [kept EXCEPT ![k].users = @ - 1]
    /\ used' = IF kept[k].users = 1 THEN used - kept[k].bytes ELSE used
    /\ UNCHANGED <<call, at, res, mem>>

\* reserve_child_images, run_trial, reserve_worker_payload: the host pays
\* for what the child will hold before the child exists.
ChildReserves(t) ==
    /\ call[t] = "child" /\ at[t] = "begun"
    /\ Reserve(t, "main", Image) /\ Goes(t, "reserved")
    /\ UNCHANGED <<call, mem, kept>>

Spawn(t) ==
    /\ call[t] = "child" /\ at[t] = "reserved"
    /\ Goes(t, "running")
    /\ UNCHANGED <<used, call, res, mem, kept>>

\* The child reads its segments, each of the announced length and of no
\* more than the whole.
ChildReads(t) ==
    /\ call[t] = "child" /\ at[t] \in {"running", "stopping"} /\ mem[t]["main"] < Image
    /\ mem' = [mem EXCEPT ![t]["main"] = @ + 1]
    /\ UNCHANGED <<used, call, at, res, kept>>

StopChild(t) ==
    /\ call[t] = "child" /\ at[t] = "running"
    /\ Goes(t, "stopping")
    /\ UNCHANGED <<used, call, res, mem, kept>>

\* The reservation lives in the supervising call, which returns only with
\* the child's exit.
Reap(t) ==
    /\ call[t] = "child" /\ at[t] \in {"running", "stopping"}
    /\ Drops(t)

Validated(t) == call[t] = "validate" /\ at[t] = "worked" /\ Drops(t)

Next ==
    \/ \E t \in Threads :
          \/ Begin(t) \/ Refuse(t) \/ CaptureReserves(t) \/ CaptureScratch(t)
          \/ Inspect(t) \/ Raster(t) \/ Preview(t) \/ Work(t) \/ EncodeBegins(t)
          \/ GrowOld(t) \/ Resize(t) \/ Reallocate(t) \/ ReleaseOld(t)
          \/ Complete(t) \/ Validated(t)
          \/ ChildReserves(t) \/ Spawn(t) \/ ChildReads(t) \/ StopChild(t) \/ Reap(t)
    \/ \E k \in 1..MaxKept : Share(k) \/ Drop(k)

Spec == Init /\ [][Next]_vars

Held ==
    MapThenFoldSet(+, 0, LAMBDA t : SumOf(res[t]), LAMBDA S : CHOOSE t \in S : TRUE, Threads)

Lasting ==
    MapThenFoldSet(+, 0, LAMBDA k : IF kept[k].users > 0 THEN kept[k].bytes ELSE 0,
                   LAMBDA S : CHOOSE k \in S : TRUE, 1..MaxKept)

(***************************************************************************)
(* Whatever the interleaving, the counter is exactly what live             *)
(* reservations say, never passes the limit, and every byte a call or a    *)
(* child has is covered by the reservation it holds: two allocations of a  *)
(* growing buffer, and a child that is still dying, included.              *)
(***************************************************************************)
ChargesAreExact ==
    /\ used = Held + Lasting
    /\ used <= Limit
    /\ \A t \in Threads, s \in Slots : mem[t][s] <= res[t][s]
=============================================================================
