------------------------------ MODULE Buffers -------------------------------
(***************************************************************************)
(* What becomes of the pieces the tune thread reads: buffered_process      *)
(* gathers them into blocks, which the B25 decoder and the splitter work   *)
(* on; a recording's go through a second buffer to its file, a viewing's   *)
(* to ffmpeg's standard input.  Data are sequences of numbers.             *)
(*                                                                         *)
(* The decoder and the splitter are external: the one keeps the last Lag   *)
(* of what it was given, the other selects its service at a block that it  *)
(* chooses and takes everything from there.                                *)
(***************************************************************************)
EXTENDS Naturals, Integers, Sequences, FiniteSets

CONSTANTS
  MinBuffer,  \* 512 packets, the least buffer before the decoder
  FileBuffer, \* 768 KiB, the one before a file
  Lag         \* what the decoder keeps

-----------------------------------------------------------------------------
(* file_buffered_writer.  rooms is what the disk has room for, and each time *)
(* it was full has again; when nothing comes any more fwrite returns 0, and *)
(* the loop around it does not end.  After an fwrite that took a part only  *)
(* the loop goes on from the beginning of the block, which is marked.       *)
File(opened, rooms) == [opened |-> opened, rooms |-> rooms, marks |-> {}, data |-> <<>>]

Result(to, r) == [to |-> to, r |-> r]
Least(m, n) == IF m < n THEN m ELSE n

RECURSIVE WriteOut(_, _, _)
WriteOut(file, buff, len) ==
  LET n == Least(len, Head(file.rooms))
      marks == file.marks \cup (IF n > 0 /\ len < Len(buff) THEN {"again"} ELSE {})
      wrote == [file EXCEPT !.data = @ \o SubSeq(buff, 1, n), !.marks = marks]
  IN IF len = 0 THEN Result(file, "ok")
     ELSE IF file.rooms = <<>> THEN Result(file, "stuck")
     ELSE IF n = len THEN Result([wrote EXCEPT !.rooms[1] = @ - n], "ok")
     ELSE WriteOut([wrote EXCEPT !.rooms = Tail(@)], buff, len - n)

Write(file, data) == WriteOut(file, data, Len(data))

(* The handler is set only if the file could be opened.                     *)
Writer == INSTANCE BufferedProcess WITH Process <- Write

WriterPut(w, data) == IF w.next.opened THEN Writer!Put(w, data) ELSE Result(w, "error")
WriterFlush(w) == IF w.next.opened THEN Writer!Finalize(w) ELSE Result(w, "error")

-----------------------------------------------------------------------------
(* The decoder, which is used if each of its steps succeeds (the card's id  *)
(* is only shown), and the splitter; selects is the number of blocks that   *)
(* it drops before it finds its service.                                    *)
InitB25(failing) == failing \notin {"create", "set_multi2_round", "create_card", "init_card", "set_card"}
Decoder(failing, selects, out) ==
  [b25 |-> InitB25(failing), inside |-> <<>>, selects |-> selects, dropped |-> 0, out |-> out]

Decoded(d, data) ==
  LET all == d.inside \o data
      n == IF Len(all) <= Lag THEN 0 ELSE Len(all) - Lag
  IN IF d.b25 THEN [data |-> SubSeq(all, 1, n), inside |-> SubSeq(all, n + 1, Len(all))]
     ELSE [data |-> data, inside |-> <<>>]

(* What both handlers begin with: data that goes on to the output, unless   *)
(* there is none or the splitter has not selected its service yet.          *)
Process(d, data) ==
  LET decoded == Decoded(d, data)
      through == [d EXCEPT !.inside = decoded.inside]
  IN IF data = <<>> THEN [to |-> d, goes_on |-> FALSE]
     ELSE IF d.selects > 0
     THEN [to |-> [through EXCEPT !.selects = @ - 1, !.dropped = @ + Len(decoded.data)], goes_on |-> FALSE]
     ELSE [to |-> through, goes_on |-> TRUE, data |-> decoded.data]

BufferSize(size) == IF size > MinBuffer THEN size ELSE MinBuffer

(* A recording: rec_arib_b25, which takes no notice of an error of its      *)
(* writer.                                                                  *)
RecProcess(d, data) ==
  LET begun == Process(d, data)
      put == WriterPut(d.out, begun.data)
  IN IF ~begun.goes_on THEN Result(begun.to, "ok")
     ELSE Result([begun.to EXCEPT !.out = put.to], IF put.r = "error" THEN "ok" ELSE put.r)

Rec == INSTANCE BufferedProcess WITH Process <- RecProcess

RecNew(size, failing, selects, file) ==
  Rec!Buffer(BufferSize(size), Decoder(failing, selects, Writer!Buffer(FileBuffer, file)))
RecFlush(b) ==
  LET outer == Rec!Finalize(b)
      writer == WriterFlush(outer.to.next.out)
  IN IF outer.r = "stuck" THEN outer
     ELSE Result([outer.to EXCEPT !.next.out = writer.to], writer.r)

(* A viewing's pipe, the writes to which take what takes says (-1 is an     *)
(* error) and then all.  Marked are a block's third write, and what ended a *)
(* block: an error in its first write, one behind a part, or a 0.           *)
Pipe(takes) == [takes |-> takes, marks |-> {}, data |-> <<>>]
Taken(pipe, size) == IF pipe.takes = <<>> THEN size ELSE Least(size, Head(pipe.takes))
Mark(n, k) == CASE n = 0 -> {"zero"} [] n < 0 /\ k = 1 -> {"error"} [] n < 0 /\ k > 1 -> {"error_behind"}
                [] n > 0 /\ k = 3 -> {"third"} [] OTHER -> {}

(* The loop of on_start_viewing's handler, k counts its writes; what is     *)
(* left is taken from the end of the last write's length, not of all.       *)
RECURSIVE WriteAll(_, _, _, _, _)
WriteAll(pipe, buff, r, size, k) ==
  LET n == Taken(pipe, size)
      now == [pipe EXCEPT !.takes = IF @ = <<>> THEN @ ELSE Tail(@), !.marks = @ \cup Mark(n, k)]
  IN IF size = 0 THEN Result(pipe, "ok")
     ELSE IF n < 0 THEN Result(now, "error")
     ELSE IF n = 0 THEN Result(now, "ok")
     ELSE WriteAll([now EXCEPT !.data = @ \o SubSeq(buff, r + 1, r + n)], buff, n, size - n, k + 1)

WritePipe(pipe, data) == WriteAll(pipe, data, 0, Len(data), 1)
ViewProcess(d, data) ==
  LET begun == Process(d, data)
      put == WritePipe(d.out, begun.data)
  IN IF ~begun.goes_on THEN Result(begun.to, "ok") ELSE Result([begun.to EXCEPT !.out = put.to], put.r)

View == INSTANCE BufferedProcess WITH Process <- ViewProcess

ViewNew(size, failing, selects, pipe) == View!Buffer(BufferSize(size), Decoder(failing, selects, pipe))
ViewFlush(b) == View!Finalize(b)

-----------------------------------------------------------------------------
(* A tune: the pieces in turn, as long as the thread comes back; numbered   *)
(* by what came before.                                                     *)
RECURSIVE Fed(_, _, _, _, _)
Fed(b, pieces, p, from, PutOne) ==
  IF p > Len(pieces) THEN Result(b, "ok")
  ELSE LET data == [i \in 1..pieces[p] |-> from + i]
           put == IF PutOne = "recording" THEN Rec!Put(b, data) ELSE View!Put(b, data)
       IN IF put.r = "stuck" THEN put ELSE Fed(put.to, pieces, p + 1, from + pieces[p], PutOne)

Total(pieces) ==
  LET sum[k \in 0..Len(pieces)] == IF k = 0 THEN 0 ELSE sum[k - 1] + pieces[k] IN sum[Len(pieces)]
Count(from, to) == [i \in 1..(IF to >= from THEN to - from + 1 ELSE 0) |-> from + i - 1]
Kept(failing) == IF InitB25(failing) THEN Lag ELSE 0

(* A recording's file has everything, in order, from the block the splitter *)
(* selected its service in, but what the decoder kept; and while it is      *)
(* written, or on a disk that stays full, the beginning of that: exactly    *)
(* unless an fwrite took a part and the loop went on, when the block's      *)
(* beginning is there again in place of its end.                            *)
Written(d) == d.out.next.data

FileHas(fed, done, last, room) ==
  LET first == done.to.next.dropped + 1
      file == Written(done.to.next)
      IsBeginning(data) == Len(data) <= Len(Count(first, last)) /\ data = SubSeq(Count(first, last), 1, Len(data))
      NoneAgain(d) == "again" \notin d.out.next.marks
  IN /\ IsBeginning(file) <=> NoneAgain(done.to.next)
     /\ IsBeginning(Written(fed.to.next)) <=> NoneAgain(fed.to.next)
     /\ room >= last => Len(file) = Len(Count(first, last))
     /\ done.r = "stuck" => Len(file) = room

Flushed(fed, last, room) == FileHas(fed, IF fed.r = "stuck" THEN fed ELSE RecFlush(fed.to), last, room)

FileIsWhole(pieces, failing, selects, rooms) ==
  Flushed(Fed(RecNew(1, failing, selects, File(TRUE, rooms)), pieces, 1, 0, "recording"),
          Total(pieces) - Kept(failing), Total(rooms))

(* What ffmpeg gets when writes are short: everything, in order, exactly    *)
(* unless a block took a third write.  When writes fail, what it gets is in *)
(* order and comes once, unless the error came behind a part of the block,  *)
(* or the decoder keeps something: the block that stayed is then given a    *)
(* second time.                                                             *)
PipeHas(d, last, kept) ==
  LET marks == d.out.marks
  IN /\ marks \subseteq {"third"} => (d.out.data = Count(d.dropped + 1, last) <=> marks = {})
     /\ marks \subseteq {"error", "zero"} /\ kept = 0 =>
          \A i, j \in DOMAIN d.out.data : i < j => d.out.data[i] < d.out.data[j]

PipeIsOrdered(pieces, failing, selects, takes) ==
  PipeHas(ViewFlush(Fed(ViewNew(1, failing, selects, Pipe(takes)), pieces, 1, 0, "viewing").to).to.next,
          Total(pieces) - Kept(failing), Kept(failing))

(* Disks with room for everything, for less, and for more after they were   *)
(* full; writes that fail or are short, one or two after another.           *)
Rooms(all) == {<<all>>, <<0>>, <<3>>} \cup {<<5, n>> : n \in {0, 2, all}} \cup {<<2, 1, all>>}
Shorts == {<<n>> : n \in -1..3} \cup {<<1, 1>>, <<1, 2>>, <<2, 1>>, <<1, -1>>, <<2, 0>>}

DataIsWhole(Sizes, N) ==
  \A pieces \in UNION {[1..k -> Sizes] : k \in 1..N}, failing \in {"none", "card_id", "init_card"},
     selects \in 0..2 :
       /\ \A rooms \in Rooms(Total(pieces)) : FileIsWhole(pieces, failing, selects, rooms)
       /\ \A at \in 0..2, short \in Shorts :
            PipeIsOrdered(pieces, failing, selects, [i \in 1..at |-> 99] \o short)
=============================================================================
