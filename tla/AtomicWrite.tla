----------------------------- MODULE AtomicWrite -----------------------------
(***************************************************************************)
(* The two implementations of "atomic write" (write a temporary sibling,   *)
(* then rename it over the file), at the level of directory entries and    *)
(* inodes, for all the calls on ONE path:                                  *)
(*                                                                         *)
(*   unique = FALSE : EncryptedStorage::atomic_write, whose temporary is   *)
(*                    always path.with_extension("tmp");                   *)
(*   unique = TRUE  : drt/runtime.rs atomic_write, whose temporary carries *)
(*                    the process id and a process-wide sequence number.   *)
(*                                                                         *)
(* Two worker threads run the handlers, so calls overlap.  fs::write is    *)
(* open-with-truncate followed by several write(2) calls; rename is one    *)
(* system call.  A restart ends the calls under way, leaves the temporary  *)
(* files behind and starts the sequence number (and, in the enclave, the   *)
(* process id) again, so that names of an earlier life are used again.     *)
(***************************************************************************)
EXTENDS Naturals

CONSTANTS
    Writers,      \* calls of atomic_write; w also names the bytes w writes
    Readers,      \* calls of fs::read on the path
    MaxSeq,       \* bound: calls of atomic_write between two restarts
    OldContent,   \* the whole content, and the inode, the file has at first
    Torn,         \* content that is no writer's whole content
    Nothing,      \* no inode, no answer
    Ended         \* the answer of a read that a restart ended

ASSUME MaxSeqAssumption == MaxSeq \in Nat
ASSUME DistinctAssumption ==
    /\ OldContent \notin Writers
    /\ Torn \notin Writers \cup {OldContent}
    /\ Nothing \notin Writers \cup {OldContent, Torn}
    /\ Ended \notin Writers \cup {OldContent, Torn, Nothing}

VARIABLES
    unique,       \* which implementation serves the path (see above)
    target,       \* the inode the path names
    tmp,          \* tmp[n]: the inode the temporary name n names, or Nothing
    content,      \* content[i]: what the inode i holds
    seq,          \* SEQ of drt/runtime.rs
    pc,           \* pc[w]: where the call w is
    name,         \* name[w]: the temporary name the call w uses
    fd,           \* fd[w]: the inode the call w writes to
    mixers,       \* mixers[i]: calls whose bytes may be mixed in inode i
    rfd,          \* rfd[r]: the inode the read r has open
    got,          \* got[r]: what the read r returned
    overlapped    \* history: some call started while another was under way

vars == <<unique, target, tmp, content, seq, pc, name, fd, mixers, rfd, got, overlapped>>

\* A call that creates a temporary creates an inode, named after the call.
Inodes == Writers \cup {OldContent}
Names == 0..MaxSeq
Whole == Writers \cup {OldContent}
Writing == {w \in Writers : pc[w] \in {"writing", "halfway"}}
Active == {w \in Writers : pc[w] \in {"writing", "halfway", "rename"}}

Init ==
    /\ unique \in BOOLEAN
    /\ target = OldContent
    /\ tmp = [n \in Names |-> Nothing]
    /\ content = [i \in Inodes |-> IF i = OldContent THEN OldContent ELSE Torn]
    /\ seq = 0
    /\ pc = [w \in Writers |-> "start"]
    /\ name = [w \in Writers |-> 0]
    /\ fd = [w \in Writers |-> Nothing]
    /\ mixers = [i \in Inodes |-> {}]
    /\ rfd = [r \in Readers |-> Nothing]
    /\ got = [r \in Readers |-> Nothing]
    /\ overlapped = FALSE

-----------------------------------------------------------------------------
(* The calls of atomic_write.                                              *)

\* (Mutant) A temporary named without the sequence number.
TmpNameNoSeq == 0

\* The name of the temporary: SEQ.fetch_add(1), or the fixed sibling.
TmpName == IF unique THEN seq ELSE 0

\* (Mutant) The file is rewritten in place, with no temporary.
OpenInPlace(w) ==
    /\ pc[w] = "start"
    /\ seq < MaxSeq
    /\ pc' = [pc EXCEPT ![w] = "writing"]
    /\ fd' = [fd EXCEPT ![w] = target]
    /\ content' = [content EXCEPT ![target] = Torn]
    /\ mixers' = [mixers EXCEPT ![target] = {w}]
    /\ seq' = seq + 1
    /\ overlapped' = (overlapped \/ Active # {})
    /\ UNCHANGED <<unique, target, tmp, name, rfd, got>>

\* fs::write opens the temporary: an existing file is truncated in place.
Open(w) ==
    LET inode == IF tmp[TmpName] = Nothing THEN w ELSE tmp[TmpName]
    IN  /\ pc[w] = "start"
        /\ seq < MaxSeq
        /\ pc' = [pc EXCEPT ![w] = "writing"]
        /\ name' = [name EXCEPT ![w] = TmpName]
        /\ tmp' = [tmp EXCEPT ![TmpName] = inode]
        /\ fd' = [fd EXCEPT ![w] = inode]
        /\ content' = [content EXCEPT ![inode] = Torn]
        /\ mixers' = [mixers EXCEPT ![inode] =
                           {w} \cup {v \in Writing : fd[v] = inode}]
        /\ seq' = seq + 1
        /\ overlapped' = (overlapped \/ Active # {})
        /\ UNCHANGED <<unique, target, rfd, got>>

\* write(2) may take several calls.
WriteSome(w) ==
    /\ pc[w] = "writing"
    /\ pc' = [pc EXCEPT ![w] = "halfway"]
    /\ content' = [content EXCEPT ![fd[w]] = Torn]
    /\ UNCHANGED <<unique, target, tmp, seq, name, fd, mixers, rfd, got, overlapped>>

\* The bytes of calls that had the inode open at the same time may mix.
WriteRest(w) ==
    /\ pc[w] = "halfway"
    /\ pc' = [pc EXCEPT ![w] = "rename"]
    /\ \E c \in {w, Torn} :
          /\ c = Torn => mixers[fd[w]] # {w}
          /\ content' = [content EXCEPT ![fd[w]] = c]
    /\ UNCHANGED <<unique, target, tmp, seq, name, fd, mixers, rfd, got, overlapped>>

\* (Mutant) The rename does not wait for the last bytes.
RenameEarly(w) ==
    /\ pc[w] \in {"halfway", "rename"}
    /\ tmp[name[w]] # Nothing
    /\ target' = tmp[name[w]]
    /\ tmp' = [tmp EXCEPT ![name[w]] = Nothing]
    /\ pc' = [pc EXCEPT ![w] = "ok"]
    /\ UNCHANGED <<unique, content, seq, name, fd, mixers, rfd, got, overlapped>>

Rename(w) ==
    /\ pc[w] = "rename"
    /\ tmp[name[w]] # Nothing
    /\ target' = tmp[name[w]]
    /\ tmp' = [tmp EXCEPT ![name[w]] = Nothing]
    /\ pc' = [pc EXCEPT ![w] = "ok"]
    /\ UNCHANGED <<unique, content, seq, name, fd, mixers, rfd, got, overlapped>>

\* Another call has renamed the temporary away: rename reports ENOENT.
RenameMissing(w) ==
    /\ pc[w] = "rename"
    /\ tmp[name[w]] = Nothing
    /\ pc' = [pc EXCEPT ![w] = "error"]
    /\ UNCHANGED <<unique, target, tmp, content, seq, name, fd, mixers, rfd, got, overlapped>>

\* A write fails (no space): both implementations leave the temporary.
WriteFails(w) ==
    /\ pc[w] \in {"writing", "halfway"}
    /\ pc' = [pc EXCEPT ![w] = "error"]
    /\ UNCHANGED <<unique, target, tmp, content, seq, name, fd, mixers, rfd, got, overlapped>>

\* (Mutant) The error is reported after the rename took effect.
RenameThenError(w) ==
    /\ pc[w] = "rename"
    /\ tmp[name[w]] # Nothing
    /\ target' = tmp[name[w]]
    /\ pc' = [pc EXCEPT ![w] = "error"]
    /\ tmp' = [tmp EXCEPT ![name[w]] = Nothing]
    /\ UNCHANGED <<unique, content, seq, name, fd, mixers, rfd, got, overlapped>>

\* The rename fails: only drt/runtime.rs removes the temporary.
RenameFails(w) ==
    /\ pc[w] = "rename"
    /\ tmp[name[w]] # Nothing
    /\ pc' = [pc EXCEPT ![w] = "error"]
    /\ tmp' = IF unique THEN [tmp EXCEPT ![name[w]] = Nothing] ELSE tmp
    /\ UNCHANGED <<unique, target, content, seq, name, fd, mixers, rfd, got, overlapped>>

\* The process ends and is started again.
Restart ==
    /\ Active # {}
    /\ pc' = [w \in Writers |-> IF w \in Active THEN "error" ELSE pc[w]]
    /\ got' = [r \in Readers |->
                  IF rfd[r] # Nothing /\ got[r] = Nothing THEN Ended ELSE got[r]]
    /\ seq' = 0
    /\ UNCHANGED <<unique, target, tmp, content, name, fd, mixers, rfd, overlapped>>

-----------------------------------------------------------------------------
(* fs::read: open the path, then read what the inode holds.                *)

ReadOpen(r) ==
    /\ rfd[r] = Nothing
    /\ rfd' = [rfd EXCEPT ![r] = target]
    /\ UNCHANGED <<unique, target, tmp, content, seq, pc, name, fd, mixers, got, overlapped>>

ReadAll(r) ==
    /\ rfd[r] # Nothing
    /\ got[r] = Nothing
    /\ got' = [got EXCEPT ![r] = content[rfd[r]]]
    /\ UNCHANGED <<unique, target, tmp, content, seq, pc, name, fd, mixers, rfd, overlapped>>

Next ==
    \/ \E w \in Writers :
          \/ Open(w) \/ WriteSome(w) \/ WriteRest(w)
          \/ Rename(w) \/ RenameMissing(w)
          \/ WriteFails(w) \/ RenameFails(w)
    \/ \E r \in Readers : ReadOpen(r) \/ ReadAll(r)
    \/ Restart

Spec == Init /\ [][Next]_vars

-----------------------------------------------------------------------------
(* Correctness.                                                            *)

TypeOK ==
    /\ unique \in BOOLEAN
    /\ target \in Inodes
    /\ tmp \in [Names -> Inodes \cup {Nothing}]
    /\ content \in [Inodes -> Whole \cup {Torn}]
    /\ seq \in Names
    /\ pc \in [Writers -> {"start", "writing", "halfway", "rename", "ok", "error"}]
    /\ name \in [Writers -> Names]
    /\ fd \in [Writers -> Inodes \cup {Nothing}]
    /\ mixers \in [Inodes -> SUBSET Writers]
    /\ rfd \in [Readers -> Inodes \cup {Nothing}]
    /\ got \in [Readers -> Whole \cup {Torn, Nothing, Ended}]
    /\ overlapped \in BOOLEAN

\* No two calls under way can reach the same temporary: by the names, or
\* because no two calls were ever under way at once.
Exclusive == unique \/ ~overlapped

\* A reader of the path never sees a part of a write, nor two writes mixed,
\* whatever fails or restarts in between (runtime.rs atomic_write for every
\* caller, encrypted_fs.rs atomic_write as long as its calls do not overlap).
NeverTorn ==
    Exclusive => /\ content[target] \in Whole
                 /\ \A r \in Readers : got[r] # Torn

\* A call that returns Ok has published its own bytes: the rename never
\* puts another call's bytes, or none, under the path (fs::write before
\* fs::rename, on the temporary of this very call).
OkPublishesOwnBytes ==
    [][\A w \in Writers :
          Exclusive /\ pc[w] # "ok" /\ pc'[w] = "ok" => content'[target'] = w]_vars

\* The bytes of a call that reports an error never become the file: the
\* caller may take the file for unchanged (the ? after each system call).
ErrorPublishesNothing ==
    Exclusive => \A w \in Writers : pc[w] = "error" => content[target] # w

\* What drt/runtime.rs shows of the file: a write takes effect at its rename,
\* a read at its open.  (A path that encrypted_fs.rs serves shows as unused.)
Value == IF unique THEN content[target] ELSE OldContent
Ack == [w \in Writers |-> CASE unique /\ pc[w] = "ok" -> "ok"
                          [] unique /\ pc[w] = "error" -> "failed"
                          [] OTHER -> "pending"]
Answer == [r \in Readers |->
              IF unique /\ rfd[r] # Nothing THEN content[rfd[r]] ELSE Nothing]

Register == INSTANCE FileRegister WITH value <- Value, ack <- Ack, answer <- Answer

\* Refinement: with unique names the file behaves as an atomic register.
ImplementsRegister == Register!Spec

=============================================================================
