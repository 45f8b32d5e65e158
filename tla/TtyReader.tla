------------------------------ MODULE TtyReader ------------------------------
(***************************************************************************)
(* The reader of the serial line, TtyHandler::process of                   *)
(* demo/ttyHandler.cpp, with what a GPS frame does to the clock and to the *)
(* GPS file.  It runs once CommConfig has made the handler.                *)
(*                                                                         *)
(* What comes over the line is a sequence of bytes and gaps; a gap is a    *)
(* silence longer than the timeout of poll(), which ends a readn() early.  *)
(* GpsInfo is GpsSize bytes, the first for the date and time, in seconds,  *)
(* the second for the position.  calculateCRC16X25 is any function.  The   *)
(* answers, the output file and stop() are in CommService.                 *)
(***************************************************************************)
EXTENDS CommConfig, FiniteSets

CONSTANTS
  Inputs,       (* the outside: the configuration file, what comes over the *)
                (* line, the clock and the lines of the GPS file at first   *)
  GpsSize,      (* sizeof(GpsInfo)                                          *)
  PacketSize,   (* packetSize                                               *)
  Crc(_),       (* calculateCRC16X25 of a sequence of bytes                 *)
  Zone          (* seconds the local time is ahead of UTC                   *)

ASSUME ReaderAssumption ==
  /\ GpsSize \in Nat \ {0, 1}
  /\ PacketSize \in Nat
  /\ Zone \in Int

Gap == 256

ASSUME InputAssumption ==
  \A i \in Inputs :
    /\ i.ini \in Seq([kind: LineKinds, indent: BOOLEAN, name: STRING,
                     words: Seq(Int)])
    /\ i.stream \in Seq(0..Gap)
    /\ i.clock \in Int
    /\ i.gpsLines \in Seq(Int)

VARIABLES
  stream,         (* what comes over the line                               *)
  read,           (* how much of it is gone                                 *)
  rd,             (* which read of process() is next                        *)
  buf,            (* the bytes of the frame read so far                     *)
  gpsPackets, devicePackets,
  queue,          (* messageQueue                                           *)
  clock,          (* the clock of the system, in seconds                    *)
  refused,        (* history: settimeofday failed when it was last wanted   *)
  gpsLines,       (* the lines of the GPS file                              *)
  gpsExists,      (* the GPS file exists                                    *)
  taken           (* history: where the accepted frames began               *)

readVars == <<stream, read, rd, buf>>
gpsVars  == <<clock, refused, gpsLines, gpsExists>>
doneVars == <<gpsPackets, devicePackets, queue, taken>>
vars == <<iniVars, pc, tty, net, readVars, gpsVars, doneVars>>

ID_GPS == 1
ID_DEVICE == 2

-----------------------------------------------------------------------------
Least(a, b) == IF a < b THEN a ELSE b

\* A variant: a timeout of poll() is taken for an interrupted call.
RunThroughGaps == Len(stream) - read

\* How many bytes come before the next gap.
Run ==
  CHOOSE k \in 0..(Len(stream) - read) :
    /\ \A j \in 1..k : stream[read + j] # Gap
    /\ k = Len(stream) - read \/ stream[read + k + 1] = Gap

\* readn(): n bytes, or those before a gap, which passes meanwhile.
Got(n) == SubSeq(stream, read + 1, read + Least(n, Run))

\* A variant: a silence at the end counts as one byte too many.
ReadnPast(n) == read' = IF n <= Run THEN read + n ELSE read + Run + 1

Readn(n) ==
  read' = IF n <= Run THEN read + n ELSE Least(read + Run + 1, Len(stream))

\* process() reads on when it has what it wants, and else begins again.
Continue(wanted, next, frame) ==
  IF wanted THEN rd' = next /\ buf' = frame ELSE rd' = "first" /\ buf' = << >>

Reading(r) == pc = "running" /\ tty /\ rd = r

ReadFirst ==
  /\ Reading("first")
  /\ read < Len(stream)
  /\ Readn(1)
  /\ Continue(Got(1) = <<255>>, "second", Got(1))
  /\ UNCHANGED <<iniVars, pc, tty, net, stream, gpsVars, doneVars>>

\* The byte that is not 0xBB is gone, 0xFF or not.
ReadSecond ==
  /\ Reading("second")
  /\ Readn(1)
  /\ Continue(Got(1) = <<187>>, "length", buf \o Got(1))
  /\ UNCHANGED <<iniVars, pc, tty, net, stream, gpsVars, doneVars>>

ReadLength ==
  /\ Reading("length")
  /\ Readn(1)
  /\ Continue(Len(Got(1)) = 1, "body", buf \o Got(1))
  /\ UNCHANGED <<iniVars, pc, tty, net, stream, gpsVars, doneVars>>

ReadBody ==
  /\ Reading("body")
  /\ LET readLen == buf[3] - 3
     IN  IF buf[3] > PacketSize \/ readLen <= 0
         THEN read' = read /\ rd' = "first" /\ buf' = << >>
         ELSE /\ Readn(readLen)
              /\ Continue(Len(Got(readLen)) = readLen, "frame",
                          buf \o Got(readLen))
  /\ UNCHANGED <<iniVars, pc, tty, net, stream, gpsVars, doneVars>>

-----------------------------------------------------------------------------
(***************************************************************************)
(* processGpsInfo: the position goes to its line of the GPS file, and the  *)
(* clock is set when it is too far from the time of the frame.             *)
(***************************************************************************)

\* writeStringToLine: a negative number stands for a file with this line
\* alone; else the file has to exist, and is filled up with empty lines.
WriteLine(lines, n, s) ==
  IF n < 0 THEN <<s>>
  ELSE IF n < Len(lines) THEN [lines EXCEPT ![n + 1] = s]
       ELSE lines \o [i \in 1..(n - Len(lines)) |-> 0] \o <<s>>

WritePosition(s) ==
  LET n == config["tty"]["gpsFileLineNumber"][1]
  IN  IF config["tty"]["gpsFile"] # << >> /\ (n < 0 \/ gpsExists)
      THEN gpsLines' = WriteLine(gpsLines, n, s) /\ gpsExists' = TRUE
      ELSE UNCHANGED <<gpsLines, gpsExists>>

\* mktime() takes the date and time for local time; the program adds the
\* eight hours of Beijing.
GpsTime(info) == info[1] - Zone + 28800

Distance(a, b) == IF a < b THEN b - a ELSE a - b

\* The clock is set by settimeofday(), which may fail; that is only printed.
StepClock(time) ==
  \/ clock' = time /\ refused' = FALSE
  \/ clock' = clock /\ refused' = TRUE

LeaveClock == clock' = clock /\ refused' = FALSE

\* A variant: the clock is set at twice the difference.
SetClockLate(time, timeDiff) ==
  IF timeDiff >= 0 /\ Distance(clock, time) > 2 * timeDiff
  THEN StepClock(time) ELSE LeaveClock

\* From half of timeDiff on the clock is to be adjusted, but adjtime() is
\* given the time instead of a difference, and refuses it.
SetClock(time, timeDiff) ==
  IF timeDiff >= 0 /\ Distance(clock, time) > timeDiff
  THEN StepClock(time) ELSE LeaveClock

ProcessGpsInfo(data) ==
  IF Len(data) < GpsSize THEN UNCHANGED gpsVars
  ELSE /\ WritePosition(data[2])
       /\ SetClock(GpsTime(data), config["tty"]["timeDiff"][1])

DropFrame == UNCHANGED <<gpsVars, doneVars>>

\* The data handed on have the two bytes of the check sum at their end.
TakeFrame ==
  LET data == SubSeq(buf, 5, Len(buf))
  IN  /\ taken' = taken \cup {read - Len(buf) + 1}
      /\ CASE buf[4] = ID_GPS ->
                /\ ProcessGpsInfo(data)
                /\ gpsPackets' = gpsPackets + 1
                /\ UNCHANGED <<devicePackets, queue>>
           [] buf[4] = ID_DEVICE ->
                /\ queue' = Append(queue, data)
                /\ devicePackets' = devicePackets + 1
                /\ UNCHANGED <<gpsVars, gpsPackets>>
           [] OTHER ->
                UNCHANGED <<gpsVars, gpsPackets, devicePackets, queue>>

\* The sum is taken without its own two bytes, the last ones.
CrcRight(frame) ==
  LET n == Len(frame)
  IN  frame[n - 1] + 256 * frame[n] = Crc(SubSeq(frame, 1, n - 2))

CheckFrame ==
  /\ Reading("frame")
  /\ IF CrcRight(buf) THEN TakeFrame ELSE DropFrame
  /\ rd' = "first"
  /\ buf' = << >>
  /\ UNCHANGED <<iniVars, pc, tty, net, stream, read>>

\* Nothing comes any more: readn() goes on timing out.
Silence ==
  /\ Reading("first")
  /\ read = Len(stream)
  /\ UNCHANGED vars

-----------------------------------------------------------------------------
Init ==
  /\ IniInit
  /\ \E i \in Inputs :
       /\ iniFile = i.ini
       /\ stream = i.stream
       /\ clock = i.clock
       /\ gpsLines = i.gpsLines
  /\ refused = FALSE
  /\ read = 0
  /\ rd = "first"
  /\ buf = << >>
  /\ gpsPackets = 0
  /\ devicePackets = 0
  /\ queue = << >>
  /\ gpsExists \in (IF gpsLines = << >> THEN BOOLEAN ELSE {TRUE})
  /\ taken = {}

ReaderNext ==
  \/ ReadFirst \/ ReadSecond \/ ReadLength \/ ReadBody \/ CheckFrame
  \/ Silence

Next ==
  \/ (ReadIni \/ Start) /\ UNCHANGED <<readVars, gpsVars, doneVars>>
  \/ ReaderNext
  \/ pc = "exited" /\ UNCHANGED vars
  \/ pc = "running" /\ ~tty /\ UNCHANGED vars

Spec == Init /\ [][Next]_vars

-----------------------------------------------------------------------------
TypeOK ==
  /\ pc \in {"open", "parse", "tty", "net", "check", "running", "exited"}
  /\ lineno \in 0..Len(iniFile)
  /\ error \in 0..Len(iniFile)
  /\ \A s \in DOMAIN config : DOMAIN config[s] = Setters(s)
  /\ tty \in BOOLEAN /\ net \in BOOLEAN
  /\ stream \in Seq(0..Gap)
  /\ read \in 0..Len(stream)
  /\ rd \in {"first", "second", "length", "body", "frame"}
  /\ buf \in Seq(0..255)
  /\ gpsPackets \in Nat /\ devicePackets = Len(queue)
  /\ clock \in Int
  /\ refused \in BOOLEAN
  /\ gpsExists \in BOOLEAN
  /\ taken \subseteq 1..read

(***************************************************************************)
(* A setting is made by the lines of its own section and name and by none  *)
(* else, in their order (ini.c:135-228, demo_comm.cpp:225-257): as long as *)
(* no header is indented or broken and no pair is without a name, a line   *)
(* belongs to the last header, and one that goes on belongs to the last    *)
(* pair after that header.                                                 *)
(***************************************************************************)
LastIn(S) == CHOOSE i \in S : \A j \in S : j <= i

\* Pairs before line i that are in its section.
Header(file, i) == LastIn({0} \cup {j \in 1..i : file[j].kind = "section"})
PairsBefore(file, i) ==
  {j \in (Header(file, i) + 1)..(i - 1) : file[j].kind = "pair"}

GoesOn(file, i) ==
  file[i].indent /\ file[i].kind # "blank" /\ PairsBefore(file, i) # {}

NameOf(file, i) ==
  IF GoesOn(file, i)
  THEN file[LastIn({j \in PairsBefore(file, i) : ~GoesOn(file, j)})].name
  ELSE IF file[i].kind = "pair" THEN file[i].name ELSE ""

Concerns(file, i, s, k) ==
  /\ Header(file, i) > 0 /\ file[Header(file, i)].name = s
  /\ NameOf(file, i) = k

Plain(file) ==
  \A i \in DOMAIN file :
    /\ file[i].kind = "section" => ~file[i].indent
    /\ file[i].kind # "badSection"
    /\ file[i].kind = "pair" => file[i].name # ""

\* What line i gives: all of it when it goes on, else what is behind the name.
Given(file, i) == IF GoesOn(file, i) THEN Content(file[i]) ELSE file[i].words

\* The value after so many lines of the file, from those that concern it.
Setting(file, s, k) ==
  LET after[i \in Nat] ==
        IF i = 0 THEN Default(k)
        ELSE IF ~Concerns(file, i, s, k) THEN after[i - 1]
        ELSE Set(k, after[i - 1], Given(file, i))
  IN  after

SettingsKeptApart ==
  Plain(iniFile) =>
    \A s \in {"tty", "net"} : \A k \in Setters(s) :
      config[s][k] = Setting(iniFile, s, k)[lineno]

(***************************************************************************)
(* A frame that comes whole after a silence is taken, whatever noise, torn *)
(* frames or wrong lengths came before it: the search for the header gets  *)
(* into step again (ttyHandler.cpp:492-539).                               *)
(***************************************************************************)
FrameAt(i) ==
  LET n == stream[i + 2]
  IN  /\ i + 2 <= Len(stream)
      /\ stream[i] = 255 /\ stream[i + 1] = 187
      /\ n \in 4..PacketSize
      /\ i + n - 1 <= read
      /\ \A j \in i..(i + n - 1) : stream[j] # Gap
      /\ CrcRight(SubSeq(stream, i, i + n - 1))

FrameAfterSilence ==
  rd = "first" =>
    \A i \in 1..read :
      (i = 1 \/ stream[i - 1] = Gap) /\ FrameAt(i) => i \in taken

(***************************************************************************)
(* With the time zone the program expects, a GPS frame leaves the clock    *)
(* within timeDiff of the time of the frame, unless settimeofday fails,    *)
(* which leaves it where it was (ttyHandler.cpp:357-404).                  *)
(***************************************************************************)
GpsFrame == gpsPackets' # gpsPackets /\ Len(buf) >= 4 + GpsSize

ClockNear ==
  LET timeDiff == config["tty"]["timeDiff"][1]
  IN  GpsFrame /\ timeDiff >= 0 /\ Zone = 28800 =>
        \/ Distance(clock', buf[5]) <= timeDiff
        \/ refused' /\ clock' = clock

ClockNearGps == [][ClockNear]_vars
=============================================================================
