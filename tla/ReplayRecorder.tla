--------------------------- MODULE ReplayRecorder ---------------------------
(***************************************************************************)
(* laige::ReplayRecorder (laige-sim/replay.cpp): writes a replay log to a   *)
(* temporary file and renames it to its final path when it is finished.     *)
(*                                                                          *)
(* The recorder has no thread of its own: its owner, the engine, composes   *)
(* these actions with its own steps.  finish() is three of them, one per    *)
(* effect on the file system, because the process may die between any two.  *)
(* What stdio has buffered and not flushed may be lost then, in part or     *)
(* whole.  Loss of what was flushed (a machine that dies) is not modelled:  *)
(* the code flushes and does not sync.                                      *)
(***************************************************************************)
EXTENDS Integers, Sequences

CONSTANTS
    MaxFrameData,  \* kMaxReplayFrameBytes, in units
    SizeLimits     \* the maxBytes a recording may be given, in units

-----------------------------------------------------------------------------
(***************************************************************************)
(* The file format (laige-sim/replay.cpp, replay.h): a header, one          *)
(* record per completed tick, a trailer with the record count and a hash of *)
(* everything before it.                                                    *)
(*                                                                          *)
(* A file is a sequence of units of four bytes, the granularity at which    *)
(* the format's fields are laid out; a unit is a pair of its kind and its   *)
(* value.  A 64-bit number is its low unit and a high unit of zero.  The    *)
(* FNV-1a hash is taken to be injective, and none of its units reads as a   *)
(* tick or a length: what the format detects is what it detects up to a     *)
(* collision.                                                               *)
(***************************************************************************)

HeaderSize == 10   \* kReplayHeaderSize, in units
FrameOverhead == 3 \* kReplayFrameRecordOverhead
TrailerSize == 4   \* kReplayTrailerSize
MinSizeLimit == HeaderSize + TrailerSize

Num(v) == <<"number", v>>
U64(v) == <<Num(v), Num(0)>>

\* The magic and the version, then the eight units of the identity.
Magic == <<<<"magic", 1>>, <<"version", 1>>>>
Header == Magic \o [k \in 1..(HeaderSize - 2) |-> <<"identity", k>>]

FrameRecord(tick, data) == U64(tick) \o <<Num(Len(data))>> \o data

Hash(units) == <<<<"low hash", units>>, <<"high hash", units>>>>
Trailer(count, hash) == U64(count) \o hash

Malformed == [ok |-> FALSE, frames |-> <<>>]

\* The loop over the body: the records that lie behind each other from the
\* header to the end, the size each one's length says.
RecordsOf(file, end) ==
    LET from[p \in Nat] ==
          IF p > end THEN [ok |-> TRUE, frames |-> <<>>]
          ELSE LET room == end - p + 1
                   len == file[p + 2]
                   rest == from[p + FrameOverhead + len[2]]
               IN  IF /\ room >= FrameOverhead
                      /\ len[1] = "number"
                      /\ len[2] <= MaxFrameData
                      /\ room >= FrameOverhead + len[2]
                      /\ rest.ok
                   THEN [ok |-> TRUE,
                         frames |-> <<[tick |-> SubSeq(file, p, p + 1),
                                       data |-> SubSeq(file, p + FrameOverhead,
                                           p + FrameOverhead + len[2] - 1)]>>
                                    \o rest.frames]
                   ELSE Malformed
    IN  from[HeaderSize + 1]

\* The loop compares the tick of each record too: they count from one.
InTickOrder(frames) == \A i \in DOMAIN frames : frames[i].tick = U64(i)

\* parseReplay
Parse(file) ==
    LET end == Len(file) - TrailerSize
        body == RecordsOf(file, end)
    IN  IF /\ end >= HeaderSize
           /\ SubSeq(file, 1, Len(Magic)) = Magic
           /\ body.ok /\ InTickOrder(body.frames)
           /\ SubSeq(file, end + 1, end + 2) = U64(Len(body.frames))
           /\ SubSeq(file, end + 3, end + 4) = Hash(SubSeq(file, 1, end))
        THEN body
        ELSE Malformed

-----------------------------------------------------------------------------
(* The recorder *)

VARIABLES
    rec,     \* the recorder, or NoRecorder
    finish,  \* the next step of a running finish(): "trailer", "close",
             \* "rename", or "no"
    tmp,     \* path.tmp as the program has written it, <<>> when there is none
    final    \* the file at path, <<>> when there is none

fileVars == <<tmp, final>>
recorderVars == <<rec, finish, tmp, final>>

NoRecorder == [made |-> FALSE, limit |-> 0, bytes |-> 0, frames |-> 0,
               hashed |-> <<>>, open |-> FALSE, error |-> "ok", finished |-> FALSE]

Errors == {"ok", "InvalidArgument", "BudgetExhausted", "IoError"}

RecorderInit ==
    /\ rec = NoRecorder
    /\ finish = "no"
    /\ tmp = <<>>
    /\ final = <<>>

\* create: the temporary file is opened, emptied, and given the header.
Create(limit) ==
    /\ limit >= MinSizeLimit
    /\ rec' = [NoRecorder EXCEPT !.made = TRUE, !.limit = limit, !.open = TRUE,
                                 !.bytes = HeaderSize, !.hashed = Header]
    /\ tmp' = Header
    /\ UNCHANGED <<finish, final>>

\* create without success: a limit nothing fits in, no file, or, when the
\* header cannot be written, no file any more.
CreateFails(limit) ==
    /\ tmp' \in IF limit < MinSizeLimit THEN {tmp} ELSE {tmp, <<>>}
    /\ UNCHANGED <<rec, finish, final>>

\* The checks of writeFrame, in order.
Refusal(tick, data) ==
    IF rec.error # "ok" THEN rec.error
    ELSE IF rec.finished \/ tick # rec.frames + 1 \/ Len(data) > MaxFrameData
         THEN "InvalidArgument"
    ELSE IF rec.bytes + FrameOverhead + Len(data) > rec.limit
         THEN "BudgetExhausted"
    ELSE "ok"

WriteRefused(tick, data) ==
    /\ Refusal(tick, data) # "ok"
    /\ rec' = [rec EXCEPT !.error = Refusal(tick, data)]
    /\ UNCHANGED <<finish, tmp, final>>

WriteFails(tick, data) ==
    /\ Refusal(tick, data) = "ok"
    /\ rec' = [rec EXCEPT !.open = FALSE, !.error = "IoError"]
    /\ tmp' = <<>>
    /\ UNCHANGED <<finish, final>>

WriteDone(tick, data) ==
    /\ Refusal(tick, data) = "ok"
    /\ rec.open
    /\ rec' = [rec EXCEPT !.bytes = @ + FrameOverhead + Len(data),
                          !.frames = @ + 1,
                          !.hashed = @ \o FrameRecord(tick, data)]
    /\ tmp' = tmp \o FrameRecord(tick, data)
    /\ UNCHANGED <<finish, final>>

WriteFrame(tick, data) ==
    \/ WriteRefused(tick, data)
    \/ WriteFails(tick, data)
    \/ WriteDone(tick, data)

-----------------------------------------------------------------------------
(* finish *)

FinishBegin ==
    /\ finish = "no"
    /\ rec.error = "ok"
    /\ ~rec.finished
    /\ finish' = "trailer"
    /\ UNCHANGED <<rec, fileVars>>

Fits == rec.bytes + TrailerSize <= rec.limit

\* No room for the trailer, or it cannot be written and flushed.
FinishFails ==
    /\ finish = "trailer"
    /\ finish' = "no"
    /\ rec' = [rec EXCEPT !.open = FALSE,
                          !.error = IF Fits THEN "IoError" ELSE "BudgetExhausted"]
    /\ tmp' = <<>>
    /\ UNCHANGED final

\* Faulty variant: the trailer counts the frame that is still to come.
FinishTrailerAhead ==
    /\ finish = "trailer"
    /\ Fits
    /\ tmp' = tmp \o Trailer(rec.frames + 1, Hash(rec.hashed))
    /\ rec' = [rec EXCEPT !.bytes = @ + TrailerSize]
    /\ finish' = "close"
    /\ UNCHANGED final

FinishTrailer ==
    /\ finish = "trailer"
    /\ Fits
    /\ tmp' = tmp \o Trailer(rec.frames, Hash(rec.hashed))
    /\ rec' = [rec EXCEPT !.bytes = @ + TrailerSize]
    /\ finish' = "close"
    /\ UNCHANGED final

FinishClose ==
    /\ finish = "close"
    /\ \/ finish' = "rename" /\ rec' = [rec EXCEPT !.open = FALSE]
       \/ finish' = "no" /\ rec' = [rec EXCEPT !.open = FALSE, !.error = "IoError"]
    /\ UNCHANGED fileVars

FinishRename ==
    /\ finish = "rename"
    /\ final' = tmp
    /\ tmp' = <<>>
    /\ rec' = [rec EXCEPT !.finished = TRUE]
    /\ finish' = "no"

FinishRenameFails ==
    /\ finish = "rename"
    /\ rec' = [rec EXCEPT !.error = "IoError"]
    /\ finish' = "no"
    /\ UNCHANGED fileVars

FinishStep ==
    FinishFails \/ FinishTrailer \/ FinishClose \/ FinishRename \/ FinishRenameFails

-----------------------------------------------------------------------------

\* The destructor: an unfinished recorder's temporary file goes.
Destroy ==
    /\ rec' = NoRecorder
    /\ tmp' = IF rec.made /\ ~rec.finished THEN <<>> ELSE tmp
    /\ UNCHANGED <<finish, final>>

\* The process dies.  Of an open file that is not flushed some beginning is
\* on the disk.
Die ==
    /\ rec' = NoRecorder
    /\ finish' = "no"
    /\ tmp' \in IF rec.open /\ finish # "close"
                THEN {SubSeq(tmp, 1, n) : n \in 0..Len(tmp)}
                ELSE {tmp}
    /\ UNCHANGED final
=============================================================================
