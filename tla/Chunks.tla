------------------------------- MODULE Chunks -------------------------------
(***************************************************************************)
(* Values cut into chunks of chunkSize bytes, as byRevision and            *)
(* byKeyCurrent store them (fdb_subspace_by_revision.go,                   *)
(* fdb_subspace_by_key_data.go).  A value is its size and the revision     *)
(* that wrote it, so that no two writes have the same content; a chunk has *)
(* its offset, counted in chunks, its number of bytes and that revision.   *)
(***************************************************************************)
EXTENDS Integers, FiniteSetsExt

CONSTANT ChunkSize   \* chunkSize

ASSUME ChunkSizeAssumption == ChunkSize \in Nat \ {0}

Chunk == [offset : Nat, bytes : Nat, of : Nat]

NumChunks(size) == (size + ChunkSize - 1) \div ChunkSize

Bytes(size, i) ==
    IF (i + 1) * ChunkSize <= size THEN ChunkSize ELSE size - i * ChunkSize

(***************************************************************************)
(* The chunks writeBlob and Replace set for a value.  Definitions named    *)
(* X_... are mutants.  Here: the loop takes one more turn.                 *)
(***************************************************************************)
Cut_OneMore(size, rev) ==
    {[offset |-> i, bytes |-> Bytes(size, i), of |-> rev] :
        i \in 0 .. NumChunks(size)}

Cut(size, rev) ==
    {[offset |-> i, bytes |-> Bytes(size, i), of |-> rev] :
        i \in 0 .. NumChunks(size) - 1}

(***************************************************************************)
(* The length of the buffer the chunks C are appended to.                  *)
(***************************************************************************)
Length(C) == MapThenSumSet(LAMBDA c : c.bytes, C)

Replace_KeepsTail(C, size, rev, prevSize) ==   \* nothing is cleared
    {c \in C : c.offset >= NumChunks(size)} \cup Cut(size, rev)

(***************************************************************************)
(* Replace on the stored chunks C of a key: the tail is cleared when the   *)
(* value shrinks, everything when the previous size is unknown, and the    *)
(* new chunks overwrite those at their offsets.                            *)
(***************************************************************************)
Replace(C, size, rev, prevSize) ==
    LET kept == {c \in C :
                   /\ prevSize >= 0
                   /\ NumChunks(prevSize) > NumChunks(size)
                        => c.offset < NumChunks(size)}
    IN  {c \in kept : c.offset >= NumChunks(size)} \cup Cut(size, rev)
=============================================================================
