----------------------------- MODULE ScriptMemory -----------------------------
(***************************************************************************)
(* The memory of the example script (drt-examples/mean): two bump          *)
(* allocators, one for the blocks that the host asks for and the output,   *)
(* the other for the script's own strings, share the linear memory and     *)
(* free nothing.  Both grow the memory as they need it.                    *)
(*                                                                         *)
(* Addresses do not wrap: the host stages at most MAX_INPUT_BYTES, 600 MiB *)
(* of the 4 GiB that a guest can address.                                  *)
(***************************************************************************)
EXTENDS Integers, Sequences

CONSTANTS
    HeapBase,      \* __heap_base
    Gap,           \* GLOBAL_OFFSET_FROM_HEAP_BASE, 16 MiB
    PageSize,      \* of WebAssembly, 64 KiB
    FirstPages,    \* of the memory at the start
    MaxPages,      \* where memory.grow fails
    Sizes, Aligns, \* what is asked for
    MaxBlocks      \* bound: blocks handed out

ASSUME ScriptMemoryAssumption ==
    /\ HeapBase \in Nat \ {0} /\ Gap \in Nat /\ PageSize \in Nat \ {0}
    /\ FirstPages \in Nat /\ MaxPages \in Nat /\ MaxBlocks \in Nat
    /\ Sizes \subseteq Nat /\ Aligns \subseteq Nat \ {0}

VARIABLES
    memory,        \* its pages
    publicOffset,  \* PUBLIC_BUMP; 0 stands for its start
    globalOffset,  \* GLOBAL
    blocks         \* what was handed out: [at, size, public]

scriptVars == <<memory, publicOffset, globalOffset, blocks>>

ScriptMemoryInit ==
    /\ memory = FirstPages
    /\ publicOffset = 0
    /\ globalOffset = 0
    /\ blocks = <<>>

AlignUp(n, align) == ((n + align - 1) \div align) * align

\* The pages after the memory has grown to hold next.
Grown(next) ==
    LET needed == next - memory * PageSize
    IN  IF needed > 0 THEN memory + (needed + PageSize - 1) \div PageSize ELSE memory

Block(at, size, public) == [at |-> at, size |-> size, public |-> public]
End(b) == b.at + b.size

\* (Mutant) The offset kept is the start of the block.
PublicAllocAgain(size) ==
    LET at == AlignUp(IF publicOffset = 0 THEN HeapBase ELSE publicOffset, 8)
    IN  /\ Len(blocks) < MaxBlocks
        /\ Grown(at + size) <= MaxPages
        /\ memory' = Grown(at + size)
        /\ publicOffset' = at
        /\ blocks' = Append(blocks, Block(at, size, TRUE))
        /\ UNCHANGED globalOffset

PublicAlloc(size) ==
    LET at == AlignUp(IF publicOffset = 0 THEN HeapBase ELSE publicOffset, 8)
    IN  /\ Len(blocks) < MaxBlocks
        /\ Grown(at + size) <= MaxPages
        /\ memory' = Grown(at + size)
        /\ publicOffset' = at + size
        /\ blocks' = Append(blocks, Block(at, size, TRUE))
        /\ UNCHANGED globalOffset

GlobalAlloc(size, align) ==
    LET at == AlignUp(IF globalOffset = 0 THEN HeapBase + Gap ELSE globalOffset, align)
    IN  /\ Len(blocks) < MaxBlocks
        /\ Grown(at + size) <= MaxPages
        /\ memory' = Grown(at + size)
        /\ globalOffset' = at + size
        /\ blocks' = Append(blocks, Block(at, size, FALSE))
        /\ UNCHANGED publicOffset

\* An allocation for which the memory cannot grow is answered 0 and changes
\* nothing.
ScriptMemoryNext ==
    \/ \E size \in Sizes : PublicAlloc(size)
    \/ \E size \in Sizes, align \in Aligns : GlobalAlloc(size, align)

ScriptMemorySpec == ScriptMemoryInit /\ [][ScriptMemoryNext]_scriptVars

-----------------------------------------------------------------------------

\* The blocks the script hands out, to the host and to its own strings, lie
\* inside the memory and do not overlap, as long as the public ones end
\* below the start of the others (16 MiB above the heap base; the host
\* stages up to 600 MiB, see the README).
BlocksDisjoint ==
    /\ \A k \in DOMAIN blocks :
          HeapBase <= blocks[k].at /\ End(blocks[k]) <= memory * PageSize
    /\ (\A k \in DOMAIN blocks : blocks[k].public => End(blocks[k]) <= HeapBase + Gap) =>
          \A i, j \in DOMAIN blocks :
              i < j => \/ End(blocks[i]) <= blocks[j].at
                       \/ End(blocks[j]) <= blocks[i].at
=============================================================================
