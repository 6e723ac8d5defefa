------------------------------ MODULE Programs ------------------------------
(***************************************************************************)
(* psisi_manager's programs: the PAT tells which there are and on which    *)
(* PIDs their PMTs come, for each of which program_map_ has a parser of    *)
(* its own; a PMT tells the program's streams.  A step function over the   *)
(* notices of the tune thread; Psisi has what is announced of them.        *)
(*                                                                         *)
(* What is broadcast goes through Configs.  A PAT or PMT is one section,   *)
(* which a parser completes once as long as it lists it.                   *)
(***************************************************************************)
EXTENDS Naturals, Sequences, SequencesExt, Functions

CONSTANTS
  Configs,         \* a sequence of [pat, pmt]: a PAT and, by PID, the PMTs
  ProgramInfosMax  \* PROGRAM_INFOS_MAX

(* on_ts_packet_available, on the tune thread: only the PMTs of a PAT that  *)
(* has been handled are sent on.                                            *)
TypeOf(pid, map) ==
  CASE pid = 0 -> "PAT" [] pid = 18 -> "EIT_H_PF" [] pid = 16 -> "NIT" [] pid = 17 -> "SDT"
    [] pid = 1 -> "CAT" [] pid = 41 -> "CDT"
    [] OTHER -> IF pid \in DOMAIN map THEN "PMT" ELSE "none"

(* The tables of the PAT's parser when a new section is there: of the same  *)
(* stream only those of the same version stay.                              *)
PatTables(tables, new) ==
  SelectSeq(tables, LAMBDA t : ~(t.tsid = new.tsid /\ t.version # new.version)) \o <<new>>

NewParser == [tables |-> <<>>, known |-> {}]

(* program_map::add for each program but 0, which is the network's.         *)
NewMap(pat) == [pid \in {p.pid : p \in {q \in ToSet(pat.programs) : q.number # 0}} |-> NewParser]

(* Mutant: the parser's first PMT is taken for its latest.                  *)
StreamsFirst(map, pid) ==
  IF pid \in DOMAIN map /\ map[pid].tables # <<>> THEN Head(map[pid].tables) ELSE <<>>

(* cache_program_infos, after clear_program_infos: the latest PAT, with the *)
(* latest PMT of each of its PIDs.                                          *)
Streams(map, pid) ==
  IF pid \in DOMAIN map /\ map[pid].tables # <<>> THEN Last(map[pid].tables) ELSE <<>>

ProgramInfos(tables, map) ==
  IF tables = <<>> THEN <<>>
  ELSE LET programs == Last(tables).programs
           n == IF Len(programs) <= ProgramInfosMax THEN Len(programs) ELSE ProgramInfosMax
       IN [i \in 1..n |-> [number |-> programs[i].number, pid |-> programs[i].pid,
                           streams |-> Streams(map, programs[i].pid)]]

-----------------------------------------------------------------------------
Begin == [onair |-> 1, tables |-> <<>>, known |-> {}, async_delete |-> FALSE,
          map |-> [pid \in {} |-> NewParser], infos |-> <<>>]

OnAir(s) == Configs[s.onair]
Recognised(s) == IF s.async_delete THEN {} ELSE s.known

(* on_parser_notice: the infos are cached anew before program_map_ is, and  *)
(* show the streams of the PIDs' former PMTs.                               *)
NoticePAT(s) ==
  LET new == OnAir(s).pat
      tables == PatTables(s.tables, new)
      known == Recognised(s)
  IN IF new \in known THEN [s EXCEPT !.known = known, !.async_delete = FALSE]
     ELSE [s EXCEPT !.known = known \cup {new}, !.async_delete = FALSE, !.tables = tables,
                    !.infos = ProgramInfos(tables, s.map),
                    !.map = NewMap(new)]

NoticePMT(s, pid) ==
  LET parser == s.map[pid]
      pmt == OnAir(s).pmt[pid]
      map == [s.map EXCEPT ![pid] = [tables |-> Append(parser.tables, pmt.streams),
                                     known |-> parser.known \cup {pmt}]]
      heard == [s EXCEPT !.known = Recognised(s), !.async_delete = FALSE]
  IN IF pmt \in parser.known THEN heard
     ELSE [heard EXCEPT !.map = map, !.infos = ProgramInfos(s.tables, map)]

(* Stabilization, which forgets the PAT but not program_map_; and the end   *)
(* of a stream.                                                             *)
Clear(s) == [s EXCEPT !.tables = <<>>, !.async_delete = TRUE]
Stop(s) == [s EXCEPT !.infos = <<>>]

(* One step: what is on air changes, or psisi_manager does, or a packet of  *)
(* the PAT or of a PID comes.                                               *)
After(s, e) ==
  CASE e[1] = "next" -> IF s.onair < Len(Configs) THEN [s EXCEPT !.onair = @ + 1] ELSE s
    [] e[1] = "clear" -> Clear(s)
    [] e[1] = "stop" -> Stop(s)
    [] e[1] = "pat" -> NoticePAT(s)
    [] OTHER -> IF TypeOf(e[2], s.map) = "PMT" /\ e[2] \in DOMAIN OnAir(s).pmt
                THEN NoticePMT(s, e[2]) ELSE s

(* get_stream_infos: at most num of a program's streams of a type.          *)
StreamInfos(infos, number, type, num) ==
  LET same == SelectInSeq(infos, LAMBDA i : i.number = number)
      found == IF same = 0 THEN <<>> ELSE SelectSeq(infos[same].streams, LAMBDA x : x.type = type)
  IN SubSeq(found, 1, IF Len(found) <= num THEN Len(found) ELSE num)

-----------------------------------------------------------------------------
(* The reference: what is on air, of as many programs as there is room for. *)
Expected(config) ==
  LET programs == config.pat.programs
      n == IF Len(programs) <= ProgramInfosMax THEN Len(programs) ELSE ProgramInfosMax
  IN [i \in 1..n |-> [number |-> programs[i].number, pid |-> programs[i].pid,
                      streams |-> IF programs[i].number = 0 THEN <<>>
                                  ELSE config.pmt[programs[i].pid].streams]]

(* What has come of what is on air: since the last clear (and none of it    *)
(* counts between a stop and that), the PAT, and after it these PIDs' PMTs. *)
Unheard == [clear |-> TRUE, pat |-> FALSE, pmts |-> {}]
Heard(t, s, e) ==
  LET next == After(s, e)
  IN CASE e[1] = "stop" -> [Unheard EXCEPT !.clear = FALSE]
       [] e[1] = "clear" -> Unheard
       [] e[1] = "next" -> IF OnAir(next).pat # OnAir(s).pat THEN [Unheard EXCEPT !.clear = t.clear]
                        ELSE [t EXCEPT !.pmts = {p \in @ : OnAir(next).pmt[p] = OnAir(s).pmt[p]}]
       [] e[1] = "pat" -> [t EXCEPT !.pat = t.clear]
       [] OTHER -> [t EXCEPT !.pmts = @ \cup IF t.pat THEN {e[2]} \cap DOMAIN OnAir(s).pmt ELSE {}]

Events == {<<"next">>, <<"clear">>, <<"stop">>, <<"pat">>}
            \cup {<<"pmt", p>> : p \in UNION {DOMAIN Configs[c].pmt : c \in DOMAIN Configs}}

(* All that up to n of these lead to.                                       *)
Reached(n) ==
  LET reached[k \in 0..n] ==
        IF k = 0 THEN {<<Begin, Unheard>>}
        ELSE reached[k - 1]
               \cup {<<After(x[1], e), Heard(x[2], x[1], e)>> : x \in reached[k - 1], e \in Events}
  IN reached[n]

(* In whatever order PATs and PMTs come, are repeated and change, once the  *)
(* PAT and after it each program's PMT have come, the infos are what is on  *)
(* air, for whoever asks too.                                               *)
ProgramsAreCurrent(n) ==
  \A x \in Reached(n) :
    LET config == OnAir(x[1])
        expected == Expected(config)
    IN x[2].pat /\ DOMAIN config.pmt \subseteq x[2].pmts =>
         /\ x[1].infos = expected
         /\ \A i \in DOMAIN expected, type \in {2, 15}, num \in 1..2 :
              StreamInfos(x[1].infos, expected[i].number, type, num)
                = LET all == SelectSeq(expected[i].streams, LAMBDA st : st.type = type)
                  IN SubSeq(all, 1, IF Len(all) <= num THEN Len(all) ELSE num)
=============================================================================
