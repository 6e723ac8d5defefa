-------------------------- MODULE BufferedProcess --------------------------
(* buffered_process: a buffer before whatever works on its blocks.          *)
EXTENDS Integers, Sequences

(* That is Process(next, data): what next becomes, and "ok", "error", or    *)
(* "stuck" if it does not come back.                                        *)
CONSTANT Process(_, _)

Buffer(size, next) == [size |-> size, held |-> <<>>, next |-> next]
Result(to, r) == [to |-> to, r |-> r]

(* What the buffer holds and the blocks of a piece that does not fit, until *)
(* one fails; step[0] is what the buffer held.                              *)
Blocks(b, data) ==
  LET step[k \in -1..(Len(data) \div b.size)] ==
        IF k = -1 THEN Result(b.next, "ok")
        ELSE IF step[k - 1].r # "ok" THEN step[k - 1]
        ELSE Process(step[k - 1].to,
                     IF k = 0 THEN b.held ELSE SubSeq(data, (k - 1) * b.size + 1, k * b.size))
  IN step

Rest(b, data) == SubSeq(data, Len(data) - (Len(data) % b.size) + 1, Len(data))

(* When the first of them fails it stays, and the piece is lost; when a     *)
(* later one does, the rest of the piece is.                                *)
After(b, step, last, rest) ==
  Result([b EXCEPT !.next = step[last].to,
                   !.held = IF step[0].r # "ok" THEN @ ELSE IF step[last].r # "ok" THEN <<>> ELSE rest],
         step[last].r)

(* Mutant: what the buffer held is not taken out of it.                     *)
PutHeld(b, data) ==
  IF Len(b.held) + Len(data) <= b.size THEN Result([b EXCEPT !.held = @ \o data], "ok")
  ELSE After(b, Blocks(b, data), Len(data) \div b.size, b.held \o Rest(b, data))

Put(b, data) ==
  IF Len(b.held) + Len(data) <= b.size THEN Result([b EXCEPT !.held = @ \o data], "ok")
  ELSE After(b, Blocks(b, data), Len(data) \div b.size, Rest(b, data))

(* finalize and process_remaining.                                          *)
Finalize(b) ==
  LET Done(done) == Result([b EXCEPT !.next = done.to, !.held = IF done.r = "ok" THEN <<>> ELSE @], done.r)
  IN IF b.held = <<>> THEN Result(b, "ok") ELSE Done(Process(b.next, b.held))
=============================================================================
