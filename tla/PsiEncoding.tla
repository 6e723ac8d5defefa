----------------------------- MODULE PsiEncoding ----------------------------
(***************************************************************************)
(* The reference for PsiDescriptors and PsiTables: how a broadcaster lays  *)
(* out what it sends, reserved bits set, and what of it must be read.      *)
(***************************************************************************)
EXTENDS PsiDescriptors, SequencesExt

Two(n)      == <<n \div 256, n % 256>>
Twelve(n)   == <<240 + n \div 256, n % 256>>
Thirteen(n) == <<224 + n \div 256, n % 256>>
Concat(ss)  == FlattenSeq(ss)
Sized(text) == <<Len(text)>> \o text

DescriptorBytes(ds) == Concat([k \in DOMAIN ds |-> <<ds[k].tag>> \o Sized(ds[k].data)])
Loop(ds) == Twelve(Len(DescriptorBytes(ds))) \o DescriptorBytes(ds)
RowBytes(rows, IdBytes(_)) == Concat([k \in DOMAIN rows |-> IdBytes(rows[k].id) \o Loop(rows[k].descriptors)])

HasEmpty(ds) == \E k \in DOMAIN ds : ds[k].data = <<>>
RowsHaveEmpty(rows) == \E k \in DOMAIN rows : HasEmpty(rows[k].descriptors)

(* Instances: no descriptor, one or two, one of them empty, and two that    *)
(* are longer than the low byte of a length can tell.                       *)
SomeDescriptors == {[tag |-> 72, data |-> <<>>], [tag |-> 77, data |-> <<7>>],
                    [tag |-> 84, data |-> <<0, 255>>]}
Long == [tag |-> 78, data |-> [i \in 1..140 |-> i]]
DescriptorLists == {<<>>, <<Long, Long>>} \cup {<<d>> : d \in SomeDescriptors}
                     \cup {<<d, e>> : d, e \in SomeDescriptors}
RowLists(id) == UNION {[1..n -> {[id |-> id, descriptors |-> ds] : ds \in DescriptorLists}] : n \in 0..2}
ReadIf(fine, r, expected) == IF fine THEN r = expected ELSE ~r.ok

-----------------------------------------------------------------------------
(* Every table is read as it was sent, unless a descriptor is empty, or the *)
(* rows of a PMT, NIT, SDT or BIT amount to no more than a head.            *)
PatsAreRead ==
  \A n \in 0..3 :
    LET programs == [k \in 1..n |-> [number |-> 1000 * k, pid |-> 8191 - k]]
        b == Concat([k \in 1..n |-> Two(programs[k].number) \o Thirteen(programs[k].pid)])
    IN ReadIf(n > 0, ParsePAT(b), [ok |-> TRUE, programs |-> programs])

PmtsAreRead ==
  \A ds \in DescriptorLists, rows \in RowLists([type |-> 27, pid |-> 4113]) :
    LET IdBytes(id) == <<id.type>> \o Thirteen(id.pid)
        streams == RowBytes(rows, IdBytes)
    IN ReadIf(~HasEmpty(ds) /\ ~RowsHaveEmpty(rows) /\ Len(streams) > 5,
              ParsePMT(Thirteen(500) \o Loop(ds) \o streams),
              [ok |-> TRUE, descriptors |-> ds, streams |-> rows])

CatsAreRead ==
  \A ds \in DescriptorLists :
    ReadIf(~HasEmpty(ds), ParseCAT(DescriptorBytes(ds)), [ok |-> TRUE, descriptors |-> ds])

NitsAreRead ==
  \A ds \in DescriptorLists, rows \in RowLists([tsid |-> 32736, onid |-> 5]) :
    LET IdBytes(id) == Two(id.tsid) \o Two(id.onid)
        streams == RowBytes(rows, IdBytes)
    IN ReadIf(~HasEmpty(ds) /\ ~RowsHaveEmpty(rows) /\ Len(streams) > 6,
              ParseNIT(Loop(ds) \o Twelve(Len(streams)) \o streams),
              [ok |-> TRUE, descriptors |-> ds, streams |-> rows])

SdtsAreRead ==
  \A rows \in RowLists(1024) :
    LET IdBytes(id) == Two(id) \o <<255>>
        services == RowBytes(rows, IdBytes)
    IN ReadIf(~RowsHaveEmpty(rows) /\ Len(services) > 5, ParseSDT(Two(32736) \o <<255>> \o services),
              [ok |-> TRUE, onid |-> 32736, services |-> rows])

EitsAreRead ==
  \A rows \in RowLists([event_id |-> 300, start |-> <<234, 96, 18, 52, 86>>, duration |-> <<1, 48, 0>>]) :
    LET IdBytes(id) == Two(id.event_id) \o id.start \o id.duration
        b == Two(32736) \o Two(4) \o <<248, 81>> \o RowBytes(rows, IdBytes)
        expected == [ok |-> TRUE, tsid |-> 32736, onid |-> 4, last_section |-> 248,
                     last_table |-> 81, events |-> rows]
    IN /\ ReadIf(~RowsHaveEmpty(rows), ParseEIT(b), expected)
       /\ ReadIf(~RowsHaveEmpty(rows), ParseSchedule(b), expected)

BitsAreRead ==
  \A ds \in DescriptorLists, rows \in RowLists(9) :
    LET IdBytes(id) == <<id>>
        broadcasters == RowBytes(rows, IdBytes)
    IN ReadIf(~HasEmpty(ds) /\ ~RowsHaveEmpty(rows) /\ Len(broadcasters) > 3,
              ParseBIT(Loop(ds) \o broadcasters),
              [ok |-> TRUE, descriptors |-> ds, broadcasters |-> rows])

CdtsAreRead ==
  \A ds \in DescriptorLists, type \in {1, 2}, data \in {<<>>, <<137>>, Long.data} :
    LET logo == [type |-> 5, id |-> 258, version |-> 259, data |-> data]
        b == Two(32736) \o <<type>> \o Loop(ds)
             \o <<logo.type, 254 + logo.id \div 256, logo.id % 256>> \o Twelve(logo.version)
             \o Two(Len(data)) \o data
    IN ReadIf(~HasEmpty(ds) /\ (type = 1 => data # <<>>), ParseCDT(b),
              [ok |-> TRUE, onid |-> 32736, descriptors |-> ds,
               logo |-> IF type = 1 THEN logo ELSE <<>>])

TablesAreRead ==
  /\ PatsAreRead /\ PmtsAreRead /\ CatsAreRead /\ NitsAreRead
  /\ SdtsAreRead /\ EitsAreRead /\ BitsAreRead /\ CdtsAreRead

-----------------------------------------------------------------------------
(* Every descriptor is read as it was sent, texts of any length and any     *)
(* number of entries, but for the bit fields named where they are.          *)
Texts == {<<>>, <<65>>, <<0, 27, 255>>}
TextLists == UNION {[1..n -> Texts] : n \in 0..2}
Is(r, fields) == r = [ok |-> TRUE, fields |-> fields]
IsList(r, list) == r = [ok |-> TRUE, list |-> list]

TextsAreRead ==
  \A t, u \in Texts :
    /\ Is(ServiceDescriptor(<<165>> \o Sized(t) \o Sized(u)), [type |-> 165, provider |-> t, name |-> u])
    /\ Is(ShortEvent(<<106, 112, 110>> \o Sized(t) \o Sized(u)),
          [language |-> <<106, 112, 110>>, name |-> t, text |-> u])
    /\ Is(NetworkName(t), [name |-> t])
    /\ Is(Component(<<241, 179, 0, 106, 112, 110>> \o t),
          [content |-> 1, type |-> 179, tag |-> 0, language |-> <<106, 112, 110>>, text |-> t])
    /\ Is(Series(<<1, 2, 37, 234, 96, 18, 52, 86>> \o t),
          [id |-> 258, repeat |-> 2, pattern |-> 2, expires |-> 1, date |-> 60000,
           episode |-> 291, last |-> 1110, name |-> t])
    /\ Is(LogoTransmission(<<3>> \o t), [type |-> 3, text |-> t])

(* What is read amiss is stated as well.  Of the audio's quality and rate   *)
(* the bits above them are taken for the quality, the bits below for the    *)
(* rate: main and half of the quality, half of the rate and a reserved bit. *)
AudioBytes(multi, main, quality, rate) ==
  <<242, 3, 16, 15, 255, 128 * multi + 64 * main + 16 * quality + 2 * rate + 1>>

AudiosAreRead ==
  \A t \in Texts, multi, main \in {0, 1}, quality \in 0..3, rate \in 0..7 :
    LET languages == [i \in 1..(3 + 3 * multi) |-> 100 + i]
    IN Is(AudioComponent(AudioBytes(multi, main, quality, rate) \o languages \o t),
          [content |-> 2, type |-> 3, tag |-> 16, stream_type |-> 15, simulcast |-> 255,
           multi |-> multi, main |-> main,
           quality |-> 2 * main + quality \div 2, sampling_rate |-> 2 * (rate % 4) + 1,
           languages |-> languages, text |-> t])

ItemsAreRead ==
  \A descriptions, t \in Texts, texts \in TextLists :
    LET items == [k \in DOMAIN texts |-> [description |-> descriptions, text |-> texts[k]]]
        b == Concat([k \in DOMAIN items |-> Sized(items[k].description) \o Sized(items[k].text)])
        tables == [k \in DOMAIN texts |-> [table_id |-> 78 + k, description |-> texts[k]]]
        c == Concat([k \in DOMAIN tables |-> <<tables[k].table_id>> \o Sized(tables[k].description)])
    IN /\ Is(ExtendedEvent(<<18, 106, 112, 110>> \o Sized(b) \o Sized(t)),
             [number |-> 1, last |-> 2, language |-> <<106, 112, 110>>, items |-> items, text |-> t])
       /\ Is(SiParameter(<<4, 234, 96>> \o c), [version |-> 4, time |-> 60000, tables |-> tables])

(* Reserved bytes may follow the transmissions.                             *)
TransmissionsAreRead ==
  \A name, reserved \in Texts, services \in UNION {[1..n -> {<<>>, <<1024>>, <<1025, 300>>}] : n \in 0..3} :
    LET ts == [k \in DOMAIN services |-> [type |-> 15 + k, services |-> services[k]]]
        Ids(s) == Concat([k \in DOMAIN s |-> Two(s[k])])
        b == Concat([k \in DOMAIN ts |-> <<ts[k].type, Len(ts[k].services)>> \o Ids(ts[k].services)])
    IN Is(TsInformation(<<8, 4 * Len(name) + Len(ts)>> \o name \o b \o reserved),
          [key |-> 8, name |-> name, transmissions |-> ts])

(* The delivery systems.  Read amiss: area codes with the bytes swapped, the *)
(* guard interval from the area code's first byte plus one, the modulation  *)
(* with all bits set below the polarisation, the satellite's frequency (in  *)
(* the order of its bytes) and symbol rate with the bytes swapped.          *)
TerrestrialsAreRead ==
  \A n \in 0..3, area \in {0, 1450, 4095}, guard, mode \in 0..3 :
    LET pairs == [k \in 1..n |-> <<k, 255 - k>>]
    IN Is(TerrestrialDelivery(<<area \div 16, 16 * (area % 16) + 4 * guard + mode>> \o Concat(pairs)),
          [area_code |-> 16 * (16 * (area % 16) + 4 * guard + mode) + area \div 256,
           guard_interval |-> ((area \div 16 + 1) \div 4) % 4,
           transmission_mode |-> mode, freqs |-> pairs])

SatellitesAreRead ==
  \A east \in {0, 1}, polarisation \in 0..3, modulation \in {0, 8, 31}, fec \in {0, 6, 15} :
    Is(SatelliteDelivery(<<1, 23, 39, 72, 17, 0, 128 * east + 32 * polarisation + modulation,
                           2, 136, 96, fec>>),
       [frequency |-> <<1, 23, 39, 72>>, orbital_position |-> 4352, east |-> east,
        polarisation |-> polarisation, modulation |-> 128 * east + 32 * polarisation + 31,
        symbol_rate |-> 2 \div 16 + 16 * 136 + 4096 * 96 + 1048576 * fec, FEC_inner |-> fec])

ListsAreRead ==
  /\ \A n \in 0..3 :
       LET pairs == [k \in 1..n |-> <<k, 255 - k>>]
           triples == [k \in 1..n |-> <<4, k, 1>>]
       IN /\ IsList(Content(Concat(pairs)), pairs)
          /\ IsList(CaIdentifier(Concat(pairs)), pairs)
          /\ IsList(PartialReception(Concat(pairs)), pairs)
          /\ IsList(ServiceList(Concat(triples)), triples)
  /\ Is(ConditionalAccess(<<0, 5, 225, 16>>), [system |-> 5, pid |-> 272])
  /\ Is(StreamIdentifier(<<48>>), [tag |-> 48])
  /\ Is(LogoTransmission(<<1, 255, 2, 241, 3, 1, 4>>),
        [type |-> 1, id |-> 258, version |-> 259, data_id |-> 260])
  /\ Is(LogoTransmission(<<2, 254, 2>>), [type |-> 2, id |-> 2])

DescriptorsAreRead ==
  /\ TextsAreRead /\ AudiosAreRead /\ ItemsAreRead /\ TransmissionsAreRead
  /\ TerrestrialsAreRead /\ SatellitesAreRead /\ ListsAreRead
=============================================================================
