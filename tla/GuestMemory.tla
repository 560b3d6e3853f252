----------------------------- MODULE GuestMemory -----------------------------
(***************************************************************************)
(* The memory of a guest as the host uses it (run_blocking in              *)
(* drt/runtime.rs): it asks the guest for blocks, copies the input into    *)
(* them, calls the script, and copies the output from where two cells say  *)
(* it is.  While a call is under way the guest may grow its memory and     *)
(* call host_log.  The addresses and lengths are i32 values that the guest *)
(* chooses freely, taken as usize.  The model is of the release build, in  *)
(* which integer operations wrap.                                          *)
(***************************************************************************)
EXTENDS Integers

CONSTANTS
    I32,             \* 2^32
    Usize,           \* 2^64
    CellSize,        \* 4, the bytes of an i32
    LogMax,          \* 4096
    MaxOutput,       \* MAX_OUTPUT_BYTES
    MemorySizes,     \* the sizes that the memory may have, in bytes
    InputLens        \* of the CSV text and of the arguments

ASSUME GuestMemoryAssumption ==
    /\ I32 \in Nat \ {0} /\ Usize \in Nat \ {0} /\ CellSize \in Nat
    /\ LogMax \in Nat /\ MaxOutput \in Nat
    /\ MemorySizes \subseteq Nat /\ InputLens \subseteq Nat

\* The values of an i32.
I32s == {i \in (-I32)..I32 : -I32 <= 2 * i /\ 2 * i < I32}

VARIABLES
    stage,           \* how far run_blocking is
    dataSize,        \* of the memory
    touched,         \* the bytes that the host accessed last, from..to
    ptr,             \* what alloc returned last
    outPtr, outLen   \* what the guest wrote to the two cells

out == <<outPtr, outLen>>
guestVars == <<stage, dataSize, touched, ptr, out>>

GuestInit ==
    /\ stage = "alloc csv"
    /\ dataSize = 0
    /\ touched = [from |-> 0, to |-> 0]
    /\ ptr = 0
    /\ outPtr = 0
    /\ outLen = 0

Calls == {"alloc csv", "alloc args", "alloc cells", "run"}

-----------------------------------------------------------------------------
(* The guest, during a call.                                               *)

GuestGrows ==
    /\ stage \in Calls
    /\ \E s \in MemorySizes : s > dataSize /\ dataSize' = s
    /\ UNCHANGED <<stage, touched, ptr, out>>

\* alloc returns; what it returns is not checked here.
AllocReturns ==
    /\ stage \in {"alloc csv", "alloc args", "alloc cells"}
    /\ ptr' \in I32s
    /\ stage' = CASE stage = "alloc csv"  -> "write csv"
                  [] stage = "alloc args" -> "write args"
                  [] OTHER                -> "run"
    /\ UNCHANGED <<dataSize, touched, out>>

RunReturns ==
    /\ stage = "run"
    /\ stage' = "read ptr"
    /\ UNCHANGED <<dataSize, touched, ptr, out>>

\* A trap, or no fuel left.
CallFails ==
    /\ stage \in Calls
    /\ stage' = "trap"
    /\ UNCHANGED <<dataSize, touched, ptr, out>>

-----------------------------------------------------------------------------
(* The host.                                                               *)

as_usize(i) == i % Usize
wrap_i32(i) == ((i + I32 \div 2) % I32) - I32 \div 2

\* data.get(from..to)
Inside(from, to) == from <= to /\ to <= dataSize

\* checked_add, then get.
Accessible(offset, len) == offset + len < Usize /\ Inside(offset, offset + len)

Touch(offset, len) == touched' = [from |-> offset, to |-> offset + len]

\* The sum wraps; what is not inside is not logged, and nothing fails.
host_log(src, len) ==
    LET from == as_usize(src)
        some == as_usize(len)
        to   == (from + IF some < LogMax THEN some ELSE LogMax) % Usize
    IN  /\ stage \in Calls
        /\ Inside(from, to)
        /\ touched' = [from |-> from, to |-> to]
        /\ UNCHANGED <<stage, dataSize, ptr, out>>

\* (Mutant) The end of the block is not compared with the size.
write_into_memory_unchecked(len) ==
    /\ stage \in {"write csv", "write args"}
    /\ as_usize(ptr) + len < Usize
    /\ Touch(as_usize(ptr), len)
    /\ stage' = IF stage = "write csv" THEN "alloc args" ELSE "alloc cells"
    /\ UNCHANGED <<dataSize, ptr, out>>

write_into_memory(len) ==
    /\ stage \in {"write csv", "write args"}
    /\ IF Accessible(as_usize(ptr), len)
       THEN /\ Touch(as_usize(ptr), len)
            /\ stage' = IF stage = "write csv" THEN "alloc args" ELSE "alloc cells"
       ELSE stage' = "trap" /\ UNCHANGED touched
    /\ UNCHANGED <<dataSize, ptr, out>>

\* read_i32 of the first cell, then of the one after it.
read_cells ==
    LET first  == as_usize(ptr)
        second == as_usize(wrap_i32(ptr + CellSize))
    IN  /\ \/ /\ stage = "read ptr" /\ Accessible(first, CellSize)
              /\ Touch(first, CellSize)
              /\ outPtr' \in I32s
              /\ stage' = "read len"
              /\ UNCHANGED outLen
           \/ /\ stage = "read len" /\ Accessible(second, CellSize)
              /\ Touch(second, CellSize)
              /\ outLen' \in I32s
              /\ stage' = "read body"
              /\ UNCHANGED outPtr
           \/ /\ \/ stage = "read ptr" /\ ~Accessible(first, CellSize)
                 \/ stage = "read len" /\ ~Accessible(second, CellSize)
              /\ stage' = "trap"
              /\ UNCHANGED <<touched, out>>
        /\ UNCHANGED <<dataSize, ptr>>

read_body ==
    /\ stage = "read body"
    /\ IF outLen < 0 THEN stage' = "trap" /\ UNCHANGED touched
       ELSE IF outLen > MaxOutput THEN stage' = "size limit" /\ UNCHANGED touched
       ELSE IF Accessible(as_usize(outPtr), outLen)
       THEN stage' = "ok" /\ Touch(as_usize(outPtr), outLen)
       ELSE stage' = "trap" /\ UNCHANGED touched
    /\ UNCHANGED <<dataSize, ptr, out>>

GuestNext ==
    \/ GuestGrows
    \/ AllocReturns
    \/ RunReturns
    \/ CallFails
    \/ \E src, len \in I32s : host_log(src, len)
    \/ \E len \in InputLens : write_into_memory(len)
    \/ read_cells
    \/ read_body

GuestSpec == GuestInit /\ [][GuestNext]_guestVars

-----------------------------------------------------------------------------

\* Whatever addresses and lengths a guest returns, negative or beyond its
\* memory, the host touches bytes of that memory only, also after a guest
\* has grown it; and an output that is taken has the length the guest gave,
\* at most MAX_OUTPUT_BYTES.
HostStaysInside ==
    /\ 0 <= touched.from /\ touched.from <= touched.to /\ touched.to <= dataSize
    /\ stage = "ok" => touched.to - touched.from = outLen /\ outLen <= MaxOutput
=============================================================================
