------------------------------- MODULE Snapshots -------------------------------
(***************************************************************************)
(* Private copies of untrusted files: InputSnapshot of                     *)
(* finguard/snapshots.py.  Other programs write, replace and remove the    *)
(* sources while they are copied chunk by chunk, and the budgets of one    *)
(* file, of all files and of the number of files hold all the same.        *)
(*                                                                         *)
(* A path leads to an inode, and an open file stays the inode it was when  *)
(* it was opened.  The bytes of a file are a sequence of blocks; a block   *)
(* tells of which document it is a part, and how many parts there are.     *)
(***************************************************************************)
EXTENDS Integers, Sequences, FiniteSets, Functions

CONSTANTS
    Paths,         \* where sources can be
    Inodes,        \* files there can be
    Contents,      \* what other programs may write into one
    Blocks,        \* the blocks of all contents
    MaxFile,       \* max_file_bytes
    MaxTotal,      \* max_total_bytes
    MaxFiles,      \* max_files
    Chunk,         \* the most that one read returns (1 MiB in the code)
    NoCopy         \* no file in the private directory

ASSUME SnapshotsAssumption ==
    /\ MaxFile \in Nat /\ MaxTotal \in Nat /\ MaxFiles \in Nat
    /\ Chunk \in Nat \ {0}
    /\ Contents \subseteq Seq(Blocks)
    /\ 0 \notin Inodes
    /\ IsFiniteSet(Paths) /\ "none" \notin Paths
    /\ NoCopy \notin Seq(Blocks)

Gone == 0    \* no inode
VARIABLES
    disk,     \* the inode each path leads to
    files,    \* the content of each inode, and whether it is a regular file
    edits,    \* how often other programs may still change something
    budget,   \* total_bytes and entries
    copies,   \* the private copy of each path
    reader    \* the path and the open inode that is being copied, or Idle

snapshotVars == <<disk, files, edits, budget, copies, reader>>
outside == <<disk, files, edits>>

Idle == [path |-> "none", inode |-> Gone]

SnapshotInit ==
    /\ budget = [total |-> 0, entries |-> 0]
    /\ copies = [p \in Paths |-> NoCopy]
    /\ reader = Idle

-----------------------------------------------------------------------------

(* What copy_file finds at p when it has opened it. *)
Source(p) == files[disk[p]]

IsRegular(p) == disk[p] # Gone /\ files[disk[p]].regular

FitsIn(n) == n <= MaxFile /\ n <= MaxTotal - budget.total

(* _reserve_entry, open, fstat and the creation of the target; a later *)
(* write to the open file is the same before and after fstat.          *)
OpenSource(p) ==
    /\ reader = Idle
    /\ budget.entries < MaxFiles /\ IsRegular(p)
    /\ FitsIn(Len(Source(p).bytes))
    /\ copies[p] = NoCopy
    /\ budget' = [budget EXCEPT !.entries = @ + 1]
    /\ copies' = [copies EXCEPT ![p] = <<>>]
    /\ reader' = [path |-> p, inode |-> disk[p]]

CannotOpen(p) ==
    /\ reader = Idle
    /\ \/ budget.entries >= MaxFiles
       \/ ~IsRegular(p)
       \/ IsRegular(p) /\ ~FitsIn(Len(Source(p).bytes))
       \/ copies[p] # NoCopy

Least(S) == CHOOSE n \in S : \A m \in S : n <= m

Copied == Len(copies[reader.path])

Remaining == Least({MaxFile - Copied, MaxTotal - budget.total})

(* A read asks for at most one byte more than the budgets allow. *)
ReadChunk(bytes) ==
    SubSeq(bytes, Copied + 1, Least({Copied + Chunk, Copied + Remaining + 1, Len(bytes)}))

(* Mutant: a chunk is compared with what the file may have, not the snapshot. *)
TooMuchForFile(chunk) == Len(chunk) > MaxFile - Copied

TooMuch(chunk) == Len(chunk) > Remaining

CopyChunk ==
    /\ reader # Idle
    /\ LET chunk == ReadChunk(files[reader.inode].bytes)
       IN  /\ chunk # <<>> /\ ~TooMuch(chunk)
           /\ copies' = [copies EXCEPT ![reader.path] = @ \o chunk]
           /\ budget' = [budget EXCEPT !.total = @ + Len(chunk)]
    /\ UNCHANGED reader

EndOfFile ==
    /\ reader # Idle
    /\ ReadChunk(files[reader.inode].bytes) = <<>>
    /\ reader' = Idle
    /\ UNCHANGED <<budget, copies>>

(* The partial copy is removed; what it has used of the budgets is not given back. *)
Overflow ==
    /\ reader # Idle
    /\ TooMuch(ReadChunk(files[reader.inode].bytes))
    /\ copies' = [copies EXCEPT ![reader.path] = NoCopy]
    /\ reader' = Idle
    /\ UNCHANGED budget

-----------------------------------------------------------------------------
(* Other programs *)

Rewrite(i) ==
    /\ edits > 0
    /\ \E bytes \in Contents \ {files[i].bytes} : files' = [files EXCEPT ![i].bytes = bytes]
    /\ edits' = edits - 1
    /\ UNCHANGED disk

Redirect(p) ==
    /\ edits > 0
    /\ \E i \in (Inodes \cup {Gone}) \ {disk[p]} : disk' = [disk EXCEPT ![p] = i]
    /\ edits' = edits - 1
    /\ UNCHANGED files

-----------------------------------------------------------------------------

Present == {p \in Paths : copies[p] # NoCopy}

(* What the private directory holds in all, counted file by file. *)
Stored == SumFunctionOnSet([p \in Present |-> Len(copies[p])], Present)

(* snapshots.py:12-14: however sources grow or are exchanged meanwhile, no   *)
(* private copy, not all of them together, and no count of them exceeds its  *)
(* limit, and what is charged is at least what is there.                     *)
WithinBudgets ==
    /\ \A p \in Present : Len(copies[p]) <= MaxFile
    /\ Stored <= budget.total /\ budget.total <= MaxTotal
    /\ Cardinality(Present) <= budget.entries /\ budget.entries <= MaxFiles
=============================================================================
