---------------------------- MODULE Conversions -----------------------------
(***************************************************************************)
(* ts_arib_common, etime and pngcrc: the times, channels and check sums in *)
(* what is broadcast, and the logos, which are PNG files without palette.  *)
(* A time is its day, counted from 1 January 1970, and its second in the   *)
(* zone the process runs in, which is the broadcaster's.                   *)
(*                                                                         *)
(* The arithmetic in double is exact here: no quotient comes nearer to a   *)
(* whole number than its fractions have digits.                            *)
(***************************************************************************)
EXTENDS Integers, Sequences, Bitwise

(* The proleptic calendar: days before 1 March of the year y, and mktime,   *)
(* with months from 0 and years since 1900.                                 *)
LeapDays(y) == (y \div 4) - (y \div 100) + (y \div 400)
MonthStart == <<0, 31, 61, 92, 122, 153, 184, 214, 245, 275, 306, 337>>
DayOf(tm_year, tm_mon, tm_mday) ==
  LET y == 1900 + tm_year - (IF tm_mon < 2 THEN 1 ELSE 0)
      m == (tm_mon + 10) % 12
  IN 365 * y + LeapDays(y) + MonthStart[m + 1] + tm_mday - 719469

(* sprintf "%x" and atoi of a byte: two digits, as far as they are digits.  *)
DigitsOf(byte) ==
  LET hi == byte \div 16
      lo == byte % 16
  IN IF hi > 9 THEN 0 ELSE IF lo > 9 THEN hi ELSE 10 * hi + lo

(* get_epoch_from_mjd.                                                      *)
MjdYear(n) == (100 * n - 1507820) \div 36525
YearDays(yy) == (yy * 36525) \div 100
MjdMonth(n) == (1000 * (10 * n - 149561 - 10 * YearDays(MjdYear(n)))) \div 306001
MonthDays(mm) == (mm * 306001) \div 10000

(* Mutant: January and February belong to the year before.                  *)
EpochDaySameYear(n) ==
  LET mm == MjdMonth(n)
      dd == n - 14956 - YearDays(MjdYear(n)) - MonthDays(mm)
  IN DayOf(MjdYear(n), IF mm \in {14, 15} THEN mm - 14 ELSE mm - 2, dd)

EpochDay(n) ==
  LET mm == MjdMonth(n)
      dd == n - 14956 - YearDays(MjdYear(n)) - MonthDays(mm)
  IN IF mm \in {14, 15} THEN DayOf(MjdYear(n) + 1, mm - 14, dd)
     ELSE DayOf(MjdYear(n), mm - 2, dd)

Seconds(h, m, s) == 3600 * DigitsOf(h) + 60 * DigitsOf(m) + DigitsOf(s)
EpochFromMjd(mjd) ==
  [day |-> EpochDay(256 * mjd[1] + mjd[2]), sec |-> Seconds(mjd[3], mjd[4], mjd[5])]

(* get_sec_from_bcd: a duration that is not known yet becomes a second      *)
(* less than none.                                                          *)
SecFromBcd(bcd) == IF bcd = <<255, 255, 255>> THEN -1 ELSE Seconds(bcd[1], bcd[2], bcd[3])

(* time_offset_table::dump counts from 1 March of the year 0.               *)
TotDate(n) ==
  LET jdd == n + 678576 - 1 - 31 - 28 + 365
      of400 == jdd % 146097
      of100 == of400 % 36524
      of4 == of100 % 1461
      jds == (of4 % 365) + ((of400 \div 36524) \div 4) * 365 + ((of4 \div 365) \div 4) * 365
      jdy == (jdd \div 146097) * 400 + (of400 \div 36524) * 100 - ((of400 \div 36524) \div 4)
             + (of100 \div 1461) * 4 + (of4 \div 365) - ((of4 \div 365) \div 4)
      jdm == (jds \div 153) * 5 + ((jds % 153) \div 61) * 2 + (((jds % 153) % 61) \div 31) + 3
  IN [year |-> IF jdm > 12 THEN jdy + 1 ELSE jdy,
      month |-> IF jdm > 12 THEN jdm - 12 ELSE jdm,
      day |-> (((jds % 153) % 61) % 31) + 1,
      weekday |-> (n + 678576) % 7]

-----------------------------------------------------------------------------
(* etime: a time that knows its second, and fractions of it, Frac to a      *)
(* second (10^9 in the program).                                            *)
Before(a, b) == a.sec < b.sec \/ (a.sec = b.sec /\ a.frac < b.frac)

Minus(a, b, Frac) ==
  IF ~Before(b, a) THEN [sec |-> 0, frac |-> 0]
  ELSE IF a.frac >= b.frac THEN [sec |-> a.sec - b.sec, frac |-> a.frac - b.frac]
  ELSE [sec |-> a.sec - 1 - b.sec, frac |-> a.frac + Frac - b.frac]

AddSec(t, n) == [t EXCEPT !.sec = @ + n]
AddMin(t, n) == AddSec(t, n * 60)
AddHour(t, n) == AddSec(t, n * 60 * 60)
AddDay(t, n) == AddSec(t, n * 24 * 60 * 60)
AddWeek(t, n) == AddSec(t, n * 7 * 24 * 60 * 60)

(* set_current_day: of the zone zone seconds east of Greenwich.             *)
CurrentDay(now, zone) ==
  LET local == (now.sec + zone) % 86400
  IN [sec |-> now.sec - ((local \div 3600) * 3600 + ((local % 3600) \div 60) * 60 + (local % 60)), frac |-> 0]

-----------------------------------------------------------------------------
(* Physical channels; frequencies in kHz.                                   *)
FreqOf(ch) == (ch - 13) * 6000 + 473143
ChannelOf(freq) == (freq - 473143) \div 6000 + 13

-----------------------------------------------------------------------------
(* crc32 of a section, as the upper and the lower half of 32 bits.          *)
Xor32(a, b) == <<a[1] ^^ b[1], a[2] ^^ b[2]>>
Shift32(a, n) == <<((a[1] * 2^n) % 65536) + ((a[2] * 2^n) \div 65536), (a[2] * 2^n) % 65536>>

(* g_crc32table: the remainders of x^32 times a byte.                       *)
Poly == <<1217, 7607>>
Divided(r) == IF r[1] >= 32768 THEN Xor32(Shift32(r, 1), Poly) ELSE Shift32(r, 1)
g_crc32table ==
  [i \in 0..255 |->
     LET r[k \in 0..8] == IF k = 0 THEN <<256 * i, 0>> ELSE Divided(r[k - 1])
     IN r[8]]

RECURSIVE CrcFrom(_, _, _)
CrcFrom(bytes, p, crc) ==
  IF p > Len(bytes) THEN crc
  ELSE CrcFrom(bytes, p + 1, Xor32(Shift32(crc, 8), g_crc32table[(crc[1] \div 256) ^^ bytes[p]]))

Crc32(bytes) == CrcFrom(bytes, 1, <<65535, 65535>>)
CheckCrc32(bytes) == Crc32(bytes) = <<0, 0>>

-----------------------------------------------------------------------------
(* pngcrc: bits go the other way.                                           *)
Half32(a) == <<a[1] \div 2, (a[2] \div 2) + 32768 * (a[1] % 2)>>
Byte32(a) == <<a[1] \div 256, (a[2] \div 256) + 256 * (a[1] % 256)>>
PngPoly == <<60856, 33568>>
HalfDivided(c) == IF c[2] % 2 = 1 THEN Xor32(PngPoly, Half32(c)) ELSE Half32(c)
crc_table ==
  [n \in 0..255 |->
     LET c[k \in 0..8] == IF k = 0 THEN <<0, n>> ELSE HalfDivided(c[k - 1])
     IN c[8]]

RECURSIVE UpdateCrc(_, _, _)
UpdateCrc(buf, n, c) ==
  IF n > Len(buf) THEN c
  ELSE UpdateCrc(buf, n + 1, Xor32(crc_table[(c[2] % 256) ^^ buf[n]], Byte32(c)))
PngCrc(buf) == Xor32(UpdateCrc(buf, 1, <<65535, 65535>>), <<65535, 65535>>)

(* store_logo: a chunk of the palette, and of its transparency, after the   *)
(* file's head.                                                             *)
Four(a) == <<a[1] \div 256, a[1] % 256, a[2] \div 256, a[2] % 256>>
Chunk(name, bytes) == Four(<<0, Len(bytes)>>) \o name \o bytes \o Four(PngCrc(name \o bytes))
PLTE == <<80, 76, 84, 69>>
tRNS == <<116, 82, 78, 83>>
WithPalette(png, palette) ==
  LET colours == [i \in 1..(3 * Len(palette)) |-> palette[((i - 1) \div 3) + 1][((i - 1) % 3) + 1]]
      alphas == [i \in DOMAIN palette |-> palette[i][4]]
  IN SubSeq(png, 1, 33) \o Chunk(PLTE, colours) \o Chunk(tRNS, alphas) \o SubSeq(png, 34, Len(png))

-----------------------------------------------------------------------------
(* The reference.                                                           *)

(* A day's number is 40587 more than its distance from 1970, and what TOT   *)
(* shows is the same day.                                                   *)
DaysAreRead(N) ==
  \A n \in N :
    LET tot == TotDate(n)
    IN /\ EpochDay(n) = n - 40587
       /\ DayOf(tot.year - 1900, tot.month - 1, tot.day) = n - 40587
       /\ tot.month \in 1..12 /\ tot.day \in 1..31
       /\ tot.weekday = (n + 3) % 7

TimesAreRead ==
  \A h \in 0..23, m, s \in {0, 9, 10, 59} :
    LET Bcd(x) == 16 * (x \div 10) + (x % 10)
    IN /\ EpochFromMjd(<<158, 139, Bcd(h), Bcd(m), Bcd(s)>>) = [day |-> 0, sec |-> 3600 * h + 60 * m + s]
       /\ SecFromBcd(<<Bcd(h), Bcd(m), Bcd(s)>>) = 3600 * h + 60 * m + s

TimesAdd ==
  LET Times == [sec : 1..4, frac : 0..2]
      Total(t) == 3 * t.sec + t.frac
  IN /\ \A a, b \in Times :
          /\ Before(a, b) <=> Total(a) < Total(b)
          /\ Total(Minus(a, b, 3)) = IF Total(a) < Total(b) THEN 0 ELSE Total(a) - Total(b)
          /\ Minus(a, b, 3).frac \in 0..2
     /\ \A n \in -2..2, t \in Times :
          /\ AddWeek(t, n) = AddDay(t, 7 * n)
          /\ AddDay(t, n) = AddHour(t, 24 * n)
          /\ AddHour(t, n) = AddMin(t, 60 * n)
          /\ AddMin(t, n) = AddSec(t, 60 * n)
     /\ \A now \in {86399, 86400, 1700000000}, zone \in {-3600, 0, 32400} :
          LET day == CurrentDay([sec |-> now, frac |-> 1], zone)
          IN (day.sec + zone) % 86400 = 0 /\ day.sec \in (now - 86399)..now

ChannelsAreKept == \A ch \in 13..62 : \A off \in {0, 1, 5999} : ChannelOf(FreqOf(ch) + off) = ch

(* A section with its sum is accepted, one of which a byte has changed is   *)
(* not.                                                                     *)
Summed(bytes) ==
  LET c == Crc32(bytes) IN bytes \o <<c[1] \div 256, c[1] % 256, c[2] \div 256, c[2] % 256>>

SumsAreChecked ==
  \A bytes \in {<<0, 176, 13>>, <<255, 255, 255, 255>>, <<0>>} :
    LET b == Summed(bytes)
    IN /\ CheckCrc32(b)
       /\ \A p \in DOMAIN b, x \in {1, 8, 128, 255} : ~CheckCrc32([b EXCEPT ![p] = @ ^^ x])

(* The sums are those of the PNG specification; a logo that had its head,   *)
(* data and end has its palette between them, each chunk with its sum.      *)
ChunkAt(png, p) ==
  LET n == 256 * png[p + 2] + png[p + 3]
  IN [name |-> SubSeq(png, p + 4, p + 7), bytes |-> SubSeq(png, p + 8, p + 7 + n),
      fine |-> SubSeq(png, p + 8 + n, p + 11 + n) = Four(PngCrc(SubSeq(png, p + 4, p + 7 + n))),
      next |-> p + 12 + n]
LogosAreWhole ==
  LET head == [i \in 1..8 |-> i]
      IHDR == [name |-> <<73, 72, 68, 82>>, bytes |-> [i \in 1..13 |-> i]]
      IDAT == [name |-> <<73, 68, 65, 84>>, bytes |-> <<1, 2, 3>>]
      IEND == [name |-> <<73, 69, 78, 68>>, bytes |-> <<>>]
      Of(c) == Chunk(c.name, c.bytes)
      palette == <<<<0, 1, 2, 255>>, <<10, 11, 12, 128>>>>
      png == WithPalette(head \o Of(IHDR) \o Of(IDAT) \o Of(IEND), palette)
      chunks == <<IHDR, [name |-> PLTE, bytes |-> <<0, 1, 2, 10, 11, 12>>],
                  [name |-> tRNS, bytes |-> <<255, 128>>], IDAT, IEND>>
      at[k \in 1..6] == IF k = 1 THEN 9 ELSE ChunkAt(png, at[k - 1]).next
  IN /\ PngCrc([i \in 1..9 |-> 48 + i]) = <<52212, 14630>>
     /\ PngCrc(IEND.name) = <<44610, 24706>>
     /\ SubSeq(png, 1, 8) = head
     /\ \A k \in 1..5 :
          LET c == ChunkAt(png, at[k])
          IN c.fine /\ c.name = chunks[k].name /\ c.bytes = chunks[k].bytes
     /\ at[6] = Len(png) + 1

ValuesAreRead(N) ==
  /\ DaysAreRead(N) /\ TimesAreRead /\ TimesAdd
  /\ ChannelsAreKept /\ SumsAreChecked /\ LogosAreWhole
=============================================================================
