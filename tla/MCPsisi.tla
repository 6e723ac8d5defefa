------------------------------ MODULE MCPsisi -------------------------------
(* psisi_manager for TLC, with what it keeps of the tables it is ready with: *)
(* four states of what is broadcast, and channels with one or two services. *)
EXTENDS Psisi, TLC

Stream(type, pid) == [type |-> type, pid |-> pid]
Program(number, pid) == [number |-> number, pid |-> pid]
PAT(tsid, version, programs) == [tsid |-> tsid, version |-> version, programs |-> programs]
PMT(version, streams) == [version |-> version, streams |-> streams]

(* The streams of a program change, then the programs and their PIDs, two   *)
(* of them with one PID and one more than there is room for, then the       *)
(* stream itself.                                                           *)
Configs == <<
  [pat |-> PAT(1, 0, <<Program(0, 16), Program(101, 500), Program(102, 501)>>),
   pmt |-> (500 :> PMT(0, <<Stream(2, 1), Stream(15, 2), Stream(15, 3), Stream(15, 4)>>))
             @@ (501 :> PMT(0, <<Stream(2, 5)>>))],
  [pat |-> PAT(1, 0, <<Program(0, 16), Program(101, 500), Program(102, 501)>>),
   pmt |-> (500 :> PMT(1, <<Stream(2, 1)>>)) @@ (501 :> PMT(0, <<Stream(2, 5)>>))],
  [pat |-> PAT(1, 1, <<Program(0, 16), Program(102, 500), Program(101, 501), Program(103, 501)>>),
   pmt |-> (500 :> PMT(0, <<Stream(2, 5)>>)) @@ (501 :> PMT(2, <<Stream(2, 9)>>))],
  [pat |-> PAT(2, 1, <<Program(201, 500)>>), pmt |-> (500 :> PMT(0, <<Stream(15, 9)>>))] >>

Of(configs, max) == INSTANCE Programs WITH Configs <- configs, ProgramInfosMax <- max

With(infos, max) ==
  INSTANCE Events WITH Channels <- infos, Length <- 2, LateAfter <- 1, MaxTime <- 3,
                       ServiceInfosMax <- max, EventPfInfosMax <- 4

TwoChannels == ("c" :> <<1>>) @@ ("d" :> <<2>>)
TwoServices == "c" :> <<1, 2>>

(* In whatever order tables come, come again, change and are cleared, what  *)
(* the other modules and the console are told of programs, services and     *)
(* events is what is on air as soon as the tables of that have all come.    *)
InfosAreCurrent ==
  Init => /\ Of(Configs, 3)!ProgramsAreCurrent(10)
          /\ With(TwoChannels, 2)!EventsAreCurrent(8)
          /\ With(TwoChannels, 1)!EventsAreCurrent(7)
          /\ With(TwoServices, 2)!EventsAreCurrent(8)

-----------------------------------------------------------------------------
C == INSTANCE Conversions

(* Every day the 16 bits of a broadcast date can name from 1900 on, each    *)
(* time, each channel, the sums of sections and the logos are converted to  *)
(* what the standards mean by them.                                         *)
ValuesAreRead == Init => C!ValuesAreRead(15079..65535)
=============================================================================
