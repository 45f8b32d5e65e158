----------------------------- MODULE CommConfig -----------------------------
(***************************************************************************)
(* The start of the communication service: ini_parse_stream of demo/ini.c  *)
(* reads the configuration and hands each value to handler() of            *)
(* demo/demo_comm.cpp, whose setters fill DemoConfig; main() then makes    *)
(* the handlers that are enabled.                                          *)
(*                                                                         *)
(* A line is what stripping leaves of it: its kind, whether blanks come    *)
(* before it, the name it carries (of a section or of a value) and the     *)
(* words of the value.  Byte order marks, inline comments and lines of     *)
(* more than 200 characters, whose rest is a line of its own, make no      *)
(* other kind of line.                                                     *)
(***************************************************************************)
EXTENDS StreamRead

VARIABLES
  iniFile,     (* the lines of the file, << >> for none                     *)
  pc,          (* where main() is                                           *)
  lineno,      (* lines read so far                                         *)
  section, prevName,
  error,       (* the first line in error, 0 for none                       *)
  config,      (* the fields of DemoConfig                                  *)
  tty, net     (* the handler exists                                        *)

iniVars == <<iniFile, lineno, section, prevName, error, config>>

-----------------------------------------------------------------------------
LineKinds == {"blank", "section", "badSection", "pair", "noEquals"}

StringKeys == {"ttyDev", "netDev", "gpsFile", "dataFile"}

\* The names of ttySetters and netSetters.
Setters(s) ==
  CASE s = "tty" -> {"enable", "ttyDev", "ttyPara", "netDev", "gpsFile",
                     "gpsFileLineNumber", "dataFile", "dataFileMaxLines",
                     "timeDiff"}
    [] s = "net" -> {"enable", "port", "netDev", "dataFile",
                     "dataFileMaxLines", "remoteInfo"}
    [] OTHER -> {}

\* ttyPara is speed, databits, stopbits and parity; remoteInfo is an address
\* and a port.
Default(k) ==
  CASE k \in StringKeys -> << >>
    [] k = "ttyPara"    -> <<115200, 8, 1, 0>>
    [] k = "timeDiff"   -> <<-1>>
    [] k = "remoteInfo" -> <<0, 0>>
    [] OTHER            -> <<0>>

\* A uint16_t takes its largest value when the number does not fit.
Uint16(fields) ==
  [i \in DOMAIN fields |-> IF fields[i] > 65535 THEN 65535 ELSE fields[i]]

\* A setter takes the whole value, stream.str(), or reads its words.
Set(k, old, words) ==
  CASE k \in StringKeys -> words
    [] k = "enable"     -> ReadFlag(old, words)
    [] k = "port"       -> Uint16(ReadNumbers(old, words))
    [] k = "remoteInfo" ->
         IF words = << >> THEN old
         ELSE <<words[1]>> \o Uint16(ReadNumbers(<<old[2]>>, Tail(words)))
    [] OTHER            -> ReadNumbers(old, words)

\* handler(): an unknown section or name is passed over.
Handle(s, name, words) ==
  IF name \in Setters(s)
  THEN config' = [config EXCEPT ![s][name] = Set(name, @, words)]
  ELSE config' = config

IniInit ==
  /\ pc = "open"
  /\ lineno = 0
  /\ section = ""
  /\ prevName = ""
  /\ error = 0
  /\ config = [s \in {"tty", "net"} |-> [k \in Setters(s) |-> Default(k)]]
  /\ tty = FALSE
  /\ net = FALSE

-----------------------------------------------------------------------------
\* main() tells only a file that cannot be opened from the others.
OpenIni ==
  /\ pc = "open"
  /\ pc' = IF iniFile = << >> THEN "exited" ELSE "parse"
  /\ UNCHANGED <<iniVars, tty, net>>

Line == iniFile[lineno + 1]

NextLine(kinds) ==
  /\ pc = "parse"
  /\ lineno < Len(iniFile)
  /\ Line.kind \in kinds
  /\ lineno' = lineno + 1
  /\ UNCHANGED <<iniFile, pc, tty, net>>

\* A line with blanks before it goes on with the value named last.
Continues == Line.indent /\ prevName # ""

\* The whole line is the value then, the name of a pair or section included.
Content(l) == IF l.kind = "noEquals" THEN l.words ELSE <<NaN>> \o l.words

BlankLine ==
  /\ NextLine({"blank"})
  /\ UNCHANGED <<section, prevName, error, config>>

Continuation ==
  /\ NextLine(LineKinds \ {"blank"})
  /\ Continues
  /\ Handle(section, prevName, Content(Line))
  /\ UNCHANGED <<section, prevName, error>>

\* A variant: the name of the last value is kept.
SectionLineKeepsName ==
  /\ NextLine({"section"})
  /\ ~Continues
  /\ section' = Line.name
  /\ UNCHANGED <<prevName, error, config>>

SectionLine ==
  /\ NextLine({"section"})
  /\ ~Continues
  /\ section' = Line.name
  /\ prevName' = ""
  /\ UNCHANGED <<error, config>>

PairLine ==
  /\ NextLine({"pair"})
  /\ ~Continues
  /\ Handle(section, Line.name, Line.words)
  /\ prevName' = Line.name
  /\ UNCHANGED <<section, error>>

\* No ']' or no '=': the section and the name stay.
WrongLine ==
  /\ NextLine({"badSection", "noEquals"})
  /\ ~Continues
  /\ error' = IF error = 0 THEN lineno + 1 ELSE error
  /\ UNCHANGED <<section, prevName, config>>

\* The line in error is returned, a positive number, and not looked at.
EndOfIni ==
  /\ pc = "parse"
  /\ lineno = Len(iniFile)
  /\ pc' = "tty"
  /\ UNCHANGED <<iniVars, tty, net>>

-----------------------------------------------------------------------------
(***************************************************************************)
(* TtyHandler::init: setSpeed() and setParity() accept these.              *)
(***************************************************************************)
Speeds == {38400, 19200, 9600, 4800, 2400, 1200, 600, 230400, 115200, 57600,
           1800}

Supported(para) ==
  /\ para[1] \in Speeds
  /\ para[2] \in {7, 8}
  /\ para[3] \in {1, 2}
  /\ para[4] \in 0..3

Enabled(s) == config[s]["enable"] = <<1>>

\* open() and the system's terminal calls may fail, too.
MakeTty ==
  /\ pc = "tty"
  /\ pc' = "net"
  /\ tty' \in IF /\ Enabled("tty")
                 /\ config["tty"]["ttyDev"] # << >>
                 /\ Supported(config["tty"]["ttyPara"])
              THEN BOOLEAN ELSE {FALSE}
  /\ UNCHANGED <<iniVars, net>>

\* The socket may not be made or bound.
MakeNet ==
  /\ pc = "net"
  /\ pc' = "check"
  /\ net' \in IF Enabled("net") /\ config["net"]["port"][1] > 0
              THEN BOOLEAN ELSE {FALSE}
  /\ UNCHANGED <<iniVars, tty>>

CheckHandlers ==
  /\ pc = "check"
  /\ pc' = IF tty \/ net THEN "running" ELSE "exited"
  /\ UNCHANGED <<iniVars, tty, net>>

ReadIni ==
  \/ OpenIni \/ BlankLine \/ Continuation \/ SectionLine \/ PairLine
  \/ WrongLine \/ EndOfIni

Start == MakeTty \/ MakeNet \/ CheckHandlers
=============================================================================
