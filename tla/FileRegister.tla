---------------------------- MODULE FileRegister ----------------------------
(***************************************************************************)
(* What the storage layer promises of one file: its doc comments say that  *)
(* a file is written atomically (encrypted_fs.rs and drt/runtime.rs).      *)
(* A write puts the writer's whole content in the file in one step or      *)
(* fails and leaves the file alone; a read returns the whole content the   *)
(* file had at one moment of the read.                                     *)
(***************************************************************************)

CONSTANTS
    Writers,      \* calls of atomic_write on the file; each has its content
    Readers,      \* calls of read_json / read_raw on the file
    OldContent,   \* what the file holds at first
    Nothing       \* the answer of a read that has not started

VARIABLES
    value,        \* the content of the file
    ack,          \* ack[w]: what the call w has returned
    answer        \* answer[r]: the content the read r returns

vars == <<value, ack, answer>>

Init ==
    /\ value = OldContent
    /\ ack = [w \in Writers |-> "pending"]
    /\ answer = [r \in Readers |-> Nothing]

Write(w) ==
    /\ ack[w] = "pending"
    /\ value' = w
    /\ ack' = [ack EXCEPT ![w] = "ok"]
    /\ UNCHANGED answer

\* Calls that report an error, or that a restart of the process ends.
Fail(S) ==
    /\ \A w \in S : ack[w] = "pending"
    /\ ack' = [w \in Writers |-> IF w \in S THEN "failed" ELSE ack[w]]
    /\ UNCHANGED <<value, answer>>

Read(r) ==
    /\ answer[r] = Nothing
    /\ answer' = [answer EXCEPT ![r] = value]
    /\ UNCHANGED <<value, ack>>

Next ==
    \/ \E w \in Writers : Write(w)
    \/ \E S \in SUBSET Writers : Fail(S)
    \/ \E r \in Readers : Read(r)

Spec == Init /\ [][Next]_vars
=============================================================================
