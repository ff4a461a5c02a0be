------------------------------ MODULE Framer ------------------------------
(* The framer of a SPDY connection (go.net/spdy): what WriteFrame puts on   *)
(* the transport for a frame, and what ReadFrame makes of it.  Header       *)
(* blocks are compressed against everything the connection has compressed   *)
(* before, so a block is known by its number: the reader can only inflate   *)
(* the block that follows the last one it inflated.  The program sends no   *)
(* header fields, so a block has always the same size.                      *)
EXTENDS Integers, Sequences

(* A frame: its stream or ping id, its second word (the associated stream   *)
(* of a SYN, the status of a RST or of a GOAWAY), its flags and its data.   *)
Frame(type, id, word, flags, data) ==
  [type |-> type, id |-> id, word |-> word, flags |-> flags, data |-> data]

MaxDataLength == 2^24 - 1
MaxStreamId == 2147483647             \* 31 bits
BlockSize == 6                        \* any size but zero
Compressed == {"syn", "reply"}
FixedSize == [syn |-> 10, reply |-> 4, rst |-> 8, ping |-> 4, goaway |-> 8]

(* The frames that WriteFrame returns an error for. *)
Unwritable(f) ==
  \/ f.type # "goaway" /\ f.id = 0
  \/ f.type = "rst" /\ f.word = 0
  \/ f.type = "data" /\ (f.id > MaxStreamId \/ Len(f.data) > MaxDataLength)

(* The flags a frame keeps: RST, PING and GOAWAY are written without. *)
Flags(f) == IF f.type \in {"rst", "ping", "goaway"} THEN 0 ELSE f.flags

(* Mutant of Write: every header block is compressed from nothing. *)
Write_FreshBlock(f, blocks) ==
  [control |-> f.type # "data", type |-> f.type, flags |-> Flags(f),
   length |-> IF f.type = "data" THEN Len(f.data)
              ELSE FixedSize[f.type] + IF f.type \in Compressed THEN BlockSize ELSE 0,
   id |-> f.id, word |-> f.word, data |-> f.data,
   block |-> IF f.type \in Compressed THEN 1 ELSE 0]

(* WriteFrame, after `blocks` header blocks. *)
Write(f, blocks) ==
  [control |-> f.type # "data", type |-> f.type, flags |-> Flags(f),
   length |-> IF f.type = "data" THEN Len(f.data)
              ELSE FixedSize[f.type] + IF f.type \in Compressed THEN BlockSize ELSE 0,
   id |-> f.id, word |-> f.word, data |-> f.data,
   block |-> IF f.type \in Compressed THEN blocks + 1 ELSE 0]

(* The written frames for which ReadFrame returns an error: an id or a      *)
(* status of zero, a PING or a GOAWAY with flags or of a wrong length, a    *)
(* header block that cannot be inflated (`blocks` were inflated before) or  *)
(* leaves something of the frame unread.                                    *)
ZeroField(w) == (w.type # "goaway" /\ w.id = 0) \/ (w.type = "rst" /\ w.word = 0)
Malformed(w) ==
  \/ w.type \in {"ping", "goaway"} /\ w.flags # 0
  \/ w.type = "goaway" /\ w.length # 8
OutOfStep(w, blocks) ==
  /\ w.type \in Compressed
  /\ w.block # blocks + 1 \/ w.length # FixedSize[w.type] + BlockSize
Unreadable(w, blocks) == ZeroField(w) \/ Malformed(w) \/ OutOfStep(w, blocks)

Read(w) == Frame(w.type, w.id, w.word, w.flags, w.data)
=============================================================================
