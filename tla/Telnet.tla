------------------------------- MODULE Telnet -------------------------------
(***************************************************************************)
(* ser2net/telnet.c: the telnet layer of a port.  Commands are taken out   *)
(* of the client's stream byte by byte, in whatever portions it arrives,   *)
(* and answered through a bounded buffer; the answers depend on what this  *)
(* side has offered itself.                                                *)
(*                                                                         *)
(* td.cmd holds telnet_cmd[0 .. telnet_cmd_pos - 1], td.out out_telnet_cmd,*)
(* td.sent_will and td.sent_do the options with that flag in telnet_cmds.  *)
(* rem_will and rem_do are written and never read.                         *)
(***************************************************************************)
EXTENDS Naturals, Sequences, SequencesExt

CONSTANTS
  MAX_TELNET_CMD_SIZE,
  MAX_TELNET_CMD_XMIT_BUF,
  allow_2217     \* the port's configuration has remctl

ASSUME TelnetAssumption ==
  /\ MAX_TELNET_CMD_SIZE \in Nat /\ MAX_TELNET_CMD_SIZE > 2
  /\ MAX_TELNET_CMD_XMIT_BUF \in Nat
  /\ allow_2217 \in BOOLEAN

IAC == 255
DONT == 254
DO == 253
WONT == 252
WILL == 251
SB == 250
SE == 240

BINARY == 0
ECHO == 1
SUPPRESS_GO_AHEAD == 3
COM_PORT == 44

\* telnet_cmds: the options find_cmd knows, and those with i_will and i_do
KnownOptions == {SUPPRESS_GO_AHEAD, ECHO, BINARY, COM_PORT}
i_will == {BINARY, COM_PORT}
i_do == {SUPPRESS_GO_AHEAD, ECHO, BINARY}

\* The flags in telnet_cmds when the program starts.
SentAtStart == [will |-> {SUPPRESS_GO_AHEAD, ECHO}, do |-> {ECHO, BINARY}]

\* telnet_init; the table of options is shared and keeps its flags.
TelnetInit(init_seq, sent) ==
  [cmd |-> <<>>, suboption_iac |-> FALSE, out |-> init_seq, error |-> FALSE,
   sent_will |-> sent.will, sent_do |-> sent.do, is_2217 |-> FALSE,
   modemstate |-> 0, modemstate_mask |-> 255, crash |-> FALSE]

\* telnet_cmd_send, and the end of telnet_send_option
CmdSend(td, bytes) ==
  IF Len(bytes) > MAX_TELNET_CMD_XMIT_BUF - Len(td.out)
  THEN [td EXCEPT !.error = TRUE]
  ELSE [td EXCEPT !.out = @ \o bytes]

\* Each 255 is followed by another one.
Doubled(s) == FlattenSeq([i \in DOMAIN s |-> IF s[i] = IAC THEN <<IAC, IAC>> ELSE <<s[i]>>])

SendOption(td, option) == CmdSend(td, <<IAC, SB>> \o Doubled(option) \o <<IAC, SE>>)

SendI(td, type, option) == CmdSend(td, <<IAC, type, option>>)

\* com_port_will, when the configuration allows it: a notification of the
\* modem state, then the answer.
ComPortWill(td, modem) ==
  SendOption([td EXCEPT !.is_2217 = TRUE, !.modemstate = modem, !.modemstate_mask = 255],
             <<COM_PORT, 107, modem>>)

\* handle_telnet_cmd for WILL, WONT, DO and DONT: the answer to an offer, ...
Answer(type, option) ==
  CASE type = WILL ->
         IF option \in i_will /\ (option = COM_PORT => allow_2217) THEN DO ELSE DONT
    [] type = WONT -> DONT
    [] type = DO -> IF option \in i_do THEN WILL ELSE WONT
    [] type = DONT -> WONT

\* ... which is not sent when the offer itself answers one of this side's.
Negotiate(td, type, option, modem) ==
  IF type \in {WILL, WONT} /\ option \in td.sent_do
  THEN [td EXCEPT !.sent_do = @ \ {option}]
  ELSE IF type \in {DO, DONT} /\ option \in td.sent_will
  THEN [td EXCEPT !.sent_will = @ \ {option}]
  ELSE SendI(IF <<type, option>> = <<WILL, COM_PORT>> /\ allow_2217
             THEN ComPortWill(td, modem) ELSE td,
             Answer(type, option), option)

\* com_port_handler: the commands of RFC 2217, each answered with what the
\* device has then.  Here the device takes every setting, and what a setting
\* does to it is left out.  Shorter commands and others are ignored.
Signature == <<115, 101, 114, 50, 110, 101, 116>>
ComPortHandler(td, option) ==
  LET len == Len(option)
      cmd == option[2]
      answer(bytes) == SendOption(td, <<COM_PORT, 100 + cmd>> \o bytes) IN
  CASE len >= 2 /\ cmd = 0 -> answer(Signature)
    [] len >= 6 /\ cmd = 1 -> answer(SubSeq(option, 3, 6))
    [] len >= 3 /\ cmd \in {2, 3, 4, 5, 10} -> answer(<<option[3]>>)
    [] len >= 2 /\ cmd \in {8, 9} -> answer(<<>>)
    [] len >= 3 /\ cmd = 11 -> [answer(<<option[3]>>) EXCEPT !.modemstate_mask = option[3]]
    [] len >= 3 /\ cmd = 12 /\ option[3] \in 1 .. 3 -> answer(<<option[3]>>)
    [] OTHER -> td

\* handle_telnet_cmd for a suboption: only COM_PORT has an option_handler,
\* which is called without looking whether there is one.
HandleOption(td, option) ==
  CASE option[1] = COM_PORT -> ComPortHandler(td, option)
    [] option[1] \in KnownOptions \ {COM_PORT} -> [td EXCEPT !.crash = TRUE]
    [] OTHER -> td

\* Mutant: every byte of a suboption is stored behind the last.
StoreUnbounded(cmd, b) == Append(cmd, b)

\* The array is one longer than MAX_TELNET_CMD_SIZE; when it is full its last
\* place holds the byte received last.
Store(cmd, b) ==
  IF Len(cmd) > MAX_TELNET_CMD_SIZE
  THEN Append(SubSeq(cmd, 1, MAX_TELNET_CMD_SIZE), b)
  ELSE Append(cmd, b)

\* A byte of a suboption: IAC SE ends it, IAC IAC stands for one, and with any
\* other byte after an IAC both are dropped.
SuboptionByte(td, b) ==
  LET end == [td EXCEPT !.suboption_iac = FALSE] IN
  CASE td.suboption_iac /\ b = SE ->
         HandleOption([end EXCEPT !.cmd = <<>>], SubSeq(td.cmd, 3, Len(td.cmd) - 1))
    [] td.suboption_iac /\ b = IAC -> end
    [] td.suboption_iac /\ b \notin {SE, IAC} -> [end EXCEPT !.cmd = SubSeq(@, 1, Len(@) - 1)]
    [] OTHER -> [td EXCEPT !.cmd = Store(@, b), !.suboption_iac = (b = IAC)]

\* Mutant: the second of two IACs is taken for a command's byte.
ParseByteTakesIac(p, b, modem) ==
  LET td == p.td
      pos == Len(td.cmd) IN
  CASE pos = 0 /\ b = IAC -> [p EXCEPT !.td.cmd = <<b>>, !.td.suboption_iac = FALSE]
    [] pos = 0 /\ b # IAC -> [p EXCEPT !.data = Append(@, b)]
    [] pos = 1 /\ b < SB -> [p EXCEPT !.td.cmd = <<>>]
    [] (pos = 1 /\ b >= SB) \/ (pos = 2 /\ td.cmd[2] = SB) -> [p EXCEPT !.td.cmd = Append(@, b)]
    [] pos = 2 /\ td.cmd[2] # SB -> [p EXCEPT !.td = Negotiate([td EXCEPT !.cmd = <<>>], td.cmd[2], b, modem)]
    [] OTHER -> [p EXCEPT !.td = SuboptionByte(td, b)]

\* One round of process_telnet_data: the byte is left in the data or deleted.
\* Of the two-byte commands only BREAK does something, on the device.
ParseByte(p, b, modem) ==
  LET td == p.td
      pos == Len(td.cmd) IN
  CASE pos = 0 /\ b = IAC -> [p EXCEPT !.td.cmd = <<b>>, !.td.suboption_iac = FALSE]
    [] pos = 0 /\ b # IAC -> [p EXCEPT !.data = Append(@, b)]
    [] pos = 1 /\ b = IAC -> [p EXCEPT !.data = Append(@, b), !.td.cmd = <<>>]
    [] pos = 1 /\ b < SB -> [p EXCEPT !.td.cmd = <<>>]
    [] (pos = 1 /\ b >= SB /\ b # IAC) \/ (pos = 2 /\ td.cmd[2] = SB) ->
         [p EXCEPT !.td.cmd = Append(@, b)]
    [] pos = 2 /\ td.cmd[2] # SB ->
         [p EXCEPT !.td = Negotiate([td EXCEPT !.cmd = <<>>], td.cmd[2], b, modem)]
    [] OTHER -> [p EXCEPT !.td = SuboptionByte(td, b)]

\* process_telnet_data: the data left of these bytes, and the new state; modem
\* is what the modem lines read meanwhile.
ProcessTelnetData(bytes, td, modem) ==
  LET parsed[i \in 0 .. Len(bytes)] ==
        IF i = 0 THEN [td |-> td, data |-> <<>>]
        ELSE ParseByte(parsed[i - 1], bytes[i], modem) IN
  parsed[Len(bytes)]
=============================================================================
