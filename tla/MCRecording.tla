---------------------------- MODULE MCRecording -----------------------------
(* Two programs that overlap, the second reserved by hand for each day.     *)
EXTENDS Recording

Program(key, from, to, is_event_type, period) ==
  [used |-> TRUE, key |-> key, start |-> from, end |-> to,
   event |-> is_event_type, period |-> period, flags |-> {}]

MCPrograms ==
  { Program([service |-> 1, event |-> 1], 2, 3, TRUE, 0),
    Program([service |-> 2, event |-> 0], 1, 2, FALSE, 1) }

MCEpgTimes == { <<2, 3>>, <<3, 4>> }

-----------------------------------------------------------------------------
(* What becomes of the data: buffers before the decoder and before the file *)
(* of which either may be the smaller, and a decoder that keeps up to two.  *)
B(least, file_buffer, lag) ==
  INSTANCE Buffers WITH MinBuffer <- least, FileBuffer <- file_buffer, Lag <- lag

Sizes == {1, 3, 5, 9}
Number == 3
Buffered == { <<4, 6, 0>>, <<3, 5, 1>>, <<6, 4, 2>> }

(* However the data are cut into pieces, with a decoder or without, with a  *)
(* disk that gets full and writes that are short or fail: a file is what    *)
(* the splitter let through from its first block to what the decoder has at *)
(* the end, exactly unless fwrite took a part of a block and went on, and   *)
(* a viewing's data are so, exactly unless a block took a third write.      *)
DataIsWhole ==
  Init => \A b \in Buffered : B(b[1], b[2], b[3])!DataIsWhole(Sizes, Number)
=============================================================================
