---------------------------- MODULE TelnetSession ----------------------------
(***************************************************************************)
(* ser2net/dataxfer.c: one port's connection between a TCP client and a    *)
(* serial device.  Each direction has a buffer; its reader is watched by   *)
(* select while the buffer is empty and its writer while it is not.  The   *)
(* telnet layer queues commands of its own for the client.                 *)
(*                                                                         *)
(* A round of the select loop calls the handlers of all descriptors that   *)
(* were ready when select returned, in the descriptors' order, although    *)
(* the first handlers may have switched off the later ones.  The client's  *)
(* descriptor is the lower one: accept comes before open.                  *)
(***************************************************************************)
EXTENDS Telnet

CONSTANTS
  Modes,           \* states of the port that are tried: telnet, raw, rawlp
  PORT_BUFSIZE,
  telnet_init_seq,
  Streams,         \* what a client may send: sequences of bytes
  DevStreams,      \* what the device may deliver: sequences of bytes
  Banners,         \* banners that may be configured
  StrayBytes,      \* what memory may hold behind the bytes that were put there
  RawCommands,     \* what out_telnet_cmd may hold when a raw session begins
  ModemStates,     \* values the modem lines may take
  MaxSessions,     \* bound: connections
  MaxNotify,       \* bound: changes of the modem lines
  MaxSpurious      \* bound: writes that fail although select promised room

Byte == 0 .. 255

ASSUME SessionAssumption ==
  /\ Modes \subseteq {"telnet", "raw", "rawlp"}
  /\ PORT_BUFSIZE \in Nat \ {0, 1}
  /\ telnet_init_seq \in Seq(Byte) /\ Len(telnet_init_seq) <= MAX_TELNET_CMD_XMIT_BUF
  /\ \A s \in Streams \cup DevStreams \cup Banners : s \in Seq(Byte)
  /\ StrayBytes \subseteq Byte /\ StrayBytes # {}
  /\ \A s \in RawCommands : s \in Seq(Byte) /\ Len(s) <= MAX_TELNET_CMD_XMIT_BUF
  /\ ModemStates \subseteq Byte
  /\ MaxSessions \in Nat /\ MaxNotify \in Nat /\ MaxSpurious \in Nat

VARIABLES
  port,            \* "unconnected", "connected" or "crashed"
  mode,            \* port->enabled
  td,              \* tn_data
  sent,            \* the flags of telnet_cmds between two sessions
  enabled,         \* handlers that select watches
  pass,            \* handlers still to be called in this round of the loop
  tcp_to_dev,      \* the bytes in the buffers
  dev_to_tcp,
  astray,          \* in this session a rest was sent from a wrong place
  \* the two peers
  stream, nread,   \* what the client sends, and how much of it was read
  devStream, ndev,
  banner,
  toDev,           \* bytes the device got
  seen,            \* what the client made of the bytes it got
  dataSent,        \* those of them that are data
  torn,            \* a command was sent between two halves of a doubled IAC
  sessions, notified, spurious

tn == <<td, sent>>
buffers == <<tcp_to_dev, dev_to_tcp, astray>>
client == <<stream, nread, seen, dataSent, torn>>
device == <<devStream, ndev, toDev>>
setup == <<port, mode, banner, sessions>>
vars == <<tn, buffers, client, device, setup, enabled, pass, notified, spurious>>

\* The handlers, and the order in which a round calls them
Order == [tcpRead |-> 1, tcpWrite |-> 2, devRead |-> 3, devWrite |-> 4]
Handlers == DOMAIN Order

Nothing == TelnetInit(<<>>, SentAtStart)

\* The protocol of RFC 854, as either side of the connection has to read it.
\* Where a reader is after the byte b: in the data, behind an IAC, before the
\* option of an offer or of a suboption, in a suboption, or behind an IAC
\* there.  An option's code may be 255, too (RFC 861).
NextAt(at, b) ==
  CASE at = "data" -> IF b = IAC THEN "iac" ELSE "data"
    [] at = "iac" -> IF b = IAC \/ b < SB THEN "data" ELSE IF b = SB THEN "sb" ELSE "option"
    [] at = "option" -> "data"
    [] at = "sb" -> "sub"
    [] at = "sub" -> IF b = IAC THEN "subiac" ELSE "sub"
    [] at = "subiac" -> IF b = SE THEN "data" ELSE "sub"

\* Two IACs stand for one in the data.
IsData(at, b) == (at = "data" /\ b # IAC) \/ (at = "iac" /\ b = IAC)

ReadByte(c, b) ==
  [at |-> NextAt(c.at, b), data |-> IF IsData(c.at, b) THEN Append(c.data, b) ELSE c.data]

\* What a reader in state c makes of the next bytes: where it is at the end,
\* and the data so far
ReadBytes(c, s) ==
  LET read[i \in 0 .. Len(s)] == IF i = 0 THEN c ELSE ReadByte(read[i - 1], s[i]) IN
  read[Len(s)]

FreshReader == [at |-> "data", data |-> <<>>]
Meant(s) == ReadBytes(FreshReader, s)

\* telnet_init_seq of dataxfer.c has complete commands only.
ASSUME InitSeqAssumption == Meant(telnet_init_seq) = FreshReader

Init ==
  /\ port = "unconnected" /\ mode \in Modes
  /\ sent = SentAtStart /\ td = Nothing
  /\ enabled = {} /\ pass = {}
  /\ tcp_to_dev = <<>> /\ dev_to_tcp = <<>> /\ astray = FALSE
  /\ stream = <<>> /\ nread = 0 /\ devStream = <<>> /\ ndev = 0 /\ banner = <<>>
  /\ toDev = <<>> /\ seen = FreshReader /\ dataSent = <<>> /\ torn = FALSE
  /\ sessions = 0 /\ notified = 0 /\ spurious = 0
-----------------------------------------------------------------------------
\* add_port_tcp_char: what does not fit is left out.
DisplayBanner(b) == SubSeq(b, 1, IF Len(b) < PORT_BUFSIZE THEN Len(b) ELSE PORT_BUFSIZE)

\* The end of setup_tcp_port.  In the end the device's reader is enabled for
\* rawlp, too, where it has no handler.  telnet_init is for telnet ports: in the
\* others' tn_data is what memory held when the port was made, or what a telnet
\* session left before setportenable.
Connect ==
  /\ port = "unconnected" /\ pass = {}
  /\ sessions < MaxSessions
  /\ sessions' = sessions + 1
  /\ port' = "connected"
  /\ stream' \in Streams /\ devStream' \in DevStreams /\ banner' \in Banners
  /\ \E left \in RawCommands \cup {<<>>} :
       td' = TelnetInit(IF mode = "telnet" THEN telnet_init_seq ELSE left, sent)
  /\ enabled' = {"tcpRead", IF mode = "telnet" THEN "tcpWrite" ELSE "devRead"}
  /\ dev_to_tcp' = DisplayBanner(banner') /\ tcp_to_dev' = <<>> /\ astray' = FALSE
  /\ nread' = 0 /\ ndev' = 0
  /\ toDev' = <<>> /\ seen' = FreshReader /\ dataSent' = <<>> /\ torn' = FALSE
  /\ UNCHANGED <<mode, sent, pass, notified, spurious>>

\* shutdown_port; the handlers left in this round have been cleared.
ShutdownPort(tdLast) ==
  /\ port' = "unconnected"
  /\ enabled' = {} /\ pass' = {}
  /\ tcp_to_dev' = <<>> /\ dev_to_tcp' = <<>> /\ astray' = FALSE
  /\ sent' = [will |-> tdLast.sent_will, do |-> tdLast.sent_do]
  /\ td' = Nothing
  /\ stream' = <<>> /\ nread' = 0 /\ devStream' = <<>> /\ ndev' = 0 /\ banner' = <<>>
  /\ toDev' = <<>> /\ seen' = FreshReader /\ dataSent' = <<>> /\ torn' = FALSE
  /\ UNCHANGED <<mode, sessions, notified, spurious>>

\* select returns with some of the watched handlers ready.
Select ==
  /\ port = "connected" /\ pass = {}
  /\ pass' \in SUBSET enabled \ {{}}
  /\ "tcpRead" \in pass' => nread < Len(stream)
  /\ "devRead" \in pass' => ndev < Len(devStream) \/ mode = "rawlp"
  /\ UNCHANGED <<tn, buffers, client, device, setup, enabled, notified, spurious>>

\* The end of a stream, an error or an exception of either descriptor, met in
\* whichever handler, a disconnect command or the timeout.
Fail == port = "connected" /\ ShutdownPort(td)

\* The next handler of this round is called; the rest follows.
Turn(h) ==
  /\ port = "connected"
  /\ h \in pass /\ \A g \in pass : Order[h] <= Order[g]
Called(h) == Turn(h) /\ pass' = pass \ {h}

\* Mutant: the client's writer is not enabled.
OutputReadyForgotten(grown, en) == IF grown THEN en \ {"devRead"} ELSE en

\* telnet_output_ready, when commands were queued
OutputReady(grown, en) == IF grown THEN (en \ {"devRead"}) \cup {"tcpWrite"} ELSE en

\* A write took n bytes of the buffer; 0 stands for EAGAIN.
Rest(buf, n) == SubSeq(buf, n + 1, Len(buf))

\* Mutant: what a write took is not what is dropped from the buffer.
RestFromStart(buf, n) == SubSeq(buf, 1, Len(buf) - n)

\* What is left of a buffer after its first write; the start moves on.
LeftOver(buf, n) == Rest(buf, n)

HandleTcpFdRead(n, modem) ==
  /\ Called("tcpRead")
  /\ nread + n <= Len(stream)
  /\ LET got == SubSeq(stream, nread + 1, nread + n)
         p == IF mode = "telnet" THEN ProcessTelnetData(got, td, modem)
              ELSE [td |-> td, data |-> got]
         ready == OutputReady(p.td.out # td.out, enabled) IN
       /\ ~p.td.crash /\ ~p.td.error
       /\ td' = p.td
       /\ \E written \in 0 .. Len(p.data) :
            /\ tcp_to_dev' = LeftOver(p.data, written)
            /\ toDev' = toDev \o SubSeq(p.data, 1, written)
       /\ enabled' = IF tcp_to_dev' = <<>> THEN ready
                     ELSE (ready \ {"tcpRead"}) \cup {"devWrite"}
  /\ nread' = nread + n
  /\ UNCHANGED <<sent, dev_to_tcp, astray, stream, seen, dataSent, torn, devStream,
                 ndev, setup, notified, spurious>>

\* The commands' answers did not fit, or a suboption has no handler.
TelnetFails(n, modem) ==
  /\ Turn("tcpRead")
  /\ mode = "telnet" /\ nread + n <= Len(stream)
  /\ LET p == ProcessTelnetData(SubSeq(stream, nread + 1, nread + n), td, modem) IN
       \/ p.td.crash /\ port' = "crashed"
          /\ UNCHANGED <<pass, tn, buffers, client, device, mode, banner, sessions,
                         enabled, notified, spurious>>
       \/ p.td.error /\ ~p.td.crash /\ ShutdownPort(p.td)

HandleDevFdWrite(n) ==
  /\ Called("devWrite")
  /\ n = 0 => spurious < MaxSpurious
  /\ spurious' = IF n = 0 THEN spurious + 1 ELSE spurious
  /\ tcp_to_dev' = Rest(tcp_to_dev, n)
  /\ toDev' = toDev \o SubSeq(tcp_to_dev, 1, n)
  /\ enabled' = IF n < Len(tcp_to_dev) THEN enabled
                ELSE (enabled \ {"devWrite"}) \cup {"tcpRead"}
  /\ UNCHANGED <<tn, dev_to_tcp, astray, client, devStream, ndev, setup, notified>>

\* A telnet port reads half a buffer, so that doubled IACs fit.
ReadSize == IF mode = "telnet" THEN PORT_BUFSIZE \div 2 ELSE PORT_BUFSIZE

\* How far behind its place dev_to_tcp_buf_start points after the doubling.  The
\* loop moves the byte behind the data, too; with nothing but IACs, which fill
\* the buffer, it puts that byte into the first one of dev_to_tcp_buf_start.
Strays(data) == IF mode = "telnet" /\ Len(data) = PORT_BUFSIZE THEN StrayBytes ELSE {0}

\* What the client makes of bytes: a raw one takes all for data.
See(bytes) == IF mode = "telnet" THEN ReadBytes(seen, bytes)
              ELSE [seen EXCEPT !.data = @ \o bytes]

\* What was left in the buffer is overwritten.  The first write is from the
\* beginning, and the rest begins at dev_to_tcp_buf_start.
HandleDevFdRead(n) ==
  /\ Called("devRead") /\ mode # "rawlp"
  /\ n <= ReadSize /\ ndev + n <= Len(devStream)
  /\ ndev' = ndev + n
  /\ LET got == SubSeq(devStream, ndev + 1, ndev + n)
         data == IF mode = "telnet" THEN Doubled(got) ELSE got IN
       \E written \in 0 .. Len(data), stray \in Strays(data) :
       \E behind \in [1 .. stray -> StrayBytes] :
         /\ dev_to_tcp' = LeftOver(data \o behind, stray + written)
         /\ astray' = (astray \/ (stray > 0 /\ written < Len(data)))
         /\ seen' = See(SubSeq(data, 1, written))
         /\ dataSent' = dataSent \o SubSeq(data, 1, written)
  /\ enabled' = IF dev_to_tcp' = <<>> THEN enabled
                ELSE (enabled \ {"devRead"}) \cup {"tcpWrite"}
  /\ UNCHANGED <<tn, tcp_to_dev, stream, nread, torn, devStream, toDev, setup,
                 notified, spurious>>

\* The select loop drops a reader that has no handler.
NoDevReader ==
  /\ Called("devRead") /\ mode = "rawlp"
  /\ enabled' = enabled \ {"devRead"}
  /\ UNCHANGED <<tn, buffers, client, device, setup, notified, spurious>>

\* Mutant: data follow although a part of a command is left.
MayWriteDataAlways(c) == TRUE

\* Data are written unless a part of the commands is left; when their write
\* got EAGAIN the code goes on to the data.
MayWriteData(c) == c = Len(td.out) \/ c = 0

\* c bytes of the commands are written, then n bytes of data.  The promise of
\* select holds for the first write.  Without data a write of nothing succeeds.
HandleTcpFdWrite(c, n) ==
  /\ Called("tcpWrite")
  /\ ~MayWriteData(c) => n = 0
  /\ LET failed == IF td.out # <<>> THEN c = 0 ELSE n = 0 /\ dev_to_tcp # <<>> IN
       /\ failed => spurious < MaxSpurious
       /\ spurious' = IF failed THEN spurious + 1 ELSE spurious
  /\ td' = [td EXCEPT !.out = Rest(@, c)]
  /\ dev_to_tcp' = Rest(dev_to_tcp, n)
  /\ dataSent' = dataSent \o SubSeq(dev_to_tcp, 1, n)
  /\ seen' = See(SubSeq(td.out, 1, c) \o SubSeq(dev_to_tcp, 1, n))
  /\ torn' = (torn \/ (c > 0 /\ mode = "telnet" /\ Meant(dataSent).at # "data"))
  /\ enabled' = IF MayWriteData(c) /\ n = Len(dev_to_tcp)
                THEN (enabled \ {"tcpWrite"}) \cup {"devRead"} ELSE enabled
  /\ UNCHANGED <<sent, tcp_to_dev, astray, stream, nread, device, setup, notified>>

\* The modem lines that the client wants to hear of
Masked(m, mask) ==
  LET both(bit) == IF (m \div bit) % 2 = 1 /\ (mask \div bit) % 2 = 1 THEN bit ELSE 0 IN
  both(16) + both(32) + both(64) + both(128)

\* got_timeout: a change of the modem lines is notified, once per second.  The
\* error of a full buffer stays until the client's next bytes.
NotifyModemstate(m) ==
  /\ port = "connected" /\ pass = {}
  /\ td.is_2217 /\ Masked(m, td.modemstate_mask) # td.modemstate
  /\ notified < MaxNotify
  /\ notified' = notified + 1
  /\ LET state == Masked(m, td.modemstate_mask) IN
       td' = SendOption([td EXCEPT !.modemstate = state], <<COM_PORT, 107, state>>)
  /\ enabled' = OutputReady(td'.out # td.out, enabled)
  /\ UNCHANGED <<sent, buffers, client, device, setup, pass, spurious>>

Done ==
  /\ port = "crashed" \/ (port = "unconnected" /\ sessions = MaxSessions)
  /\ UNCHANGED vars

Handle ==
  \/ \E n \in 1 .. PORT_BUFSIZE, m \in ModemStates :
       \/ HandleTcpFdRead(n, m)
       \/ TelnetFails(n, m)
  \/ \E n \in 0 .. Len(tcp_to_dev) : HandleDevFdWrite(n)
  \/ \E n \in 1 .. PORT_BUFSIZE : HandleDevFdRead(n)
  \/ NoDevReader
  \/ \E c \in 0 .. Len(td.out), n \in 0 .. Len(dev_to_tcp) : HandleTcpFdWrite(c, n)

Next ==
  \/ Connect
  \/ Select
  \/ Handle
  \/ \E m \in ModemStates : NotifyModemstate(m)
  \/ Fail
  \/ Done

Spec == Init /\ [][Next]_vars

\* The loop goes on, and a client that is written to keeps reading.
FairSpec ==
  /\ Spec
  /\ WF_vars(Handle)
  /\ SF_vars(Select /\ "tcpWrite" \in pass')
-----------------------------------------------------------------------------
\* The data fit the buffers, and the bytes of the current command and of those
\* that wait their arrays.  Only the byte behind dev_to_tcp's is written, too,
\* when the data fill it (see Strays).
TypeOK ==
  /\ port \in {"unconnected", "connected", "crashed"}
  /\ mode \in Modes
  /\ enabled \subseteq Handlers /\ pass \subseteq Handlers
  /\ tcp_to_dev \in Seq(Byte) /\ Len(tcp_to_dev) <= PORT_BUFSIZE
  /\ dev_to_tcp \in Seq(Byte) /\ Len(dev_to_tcp) <= PORT_BUFSIZE
  /\ astray \in BOOLEAN
  /\ td.cmd \in Seq(Byte) /\ Len(td.cmd) <= MAX_TELNET_CMD_SIZE + 1
  /\ td.out \in Seq(Byte) /\ Len(td.out) <= MAX_TELNET_CMD_XMIT_BUF
  /\ td.sent_will \subseteq KnownOptions /\ td.sent_do \subseteq KnownOptions
  /\ nread \in 0 .. Len(stream) /\ ndev \in 0 .. Len(devStream)
  /\ sessions \in 0 .. MaxSessions /\ spurious \in 0 .. MaxSpurious

\* However the client's bytes are cut into reads, the device gets the data
\* the client meant, in order, and nothing of the commands between them.
DeviceGetsClientData ==
  port = "connected" =>
    LET got == SubSeq(stream, 1, nread) IN
    toDev \o tcp_to_dev = IF mode = "telnet" THEN Meant(got).data ELSE got

\* What was written for the client and what waits for it are the banner and
\* the device's data, in order.  A raw port's banner waits in the buffer, and
\* the device's first bytes overwrite it.
InOrder ==
  LET data == SubSeq(devStream, 1, ndev) IN
  /\ mode = "telnet" =>
       dataSent \o dev_to_tcp = DisplayBanner(banner) \o Doubled(data)
  /\ mode # "telnet" /\ ndev > 0 => dataSent \o dev_to_tcp = data
  /\ mode # "telnet" /\ ndev = 0 => dev_to_tcp = DisplayBanner(banner)

\* Nothing the device delivers is lost, repeated or reordered on its way into
\* the TCP connection, with the banner before it, unless doubled IACs filled
\* the whole buffer and were not written at once.
DataKeepsOrder == port = "connected" /\ ~astray => InOrder

\* A telnet client makes of all the bytes it gets the data among them: no
\* command ends up in the data and no data in a command.  It needs select's
\* promise, and no command between the halves of a doubled IAC.
ClientDecodes ==
  mode = "telnet" /\ ~torn /\ spurious = 0 =>
    seen.data = Meant(dataSent).data

\* Each direction is watched on exactly one side, and output that waits has
\* its writer watched, so none waits for ever.  A raw port's banner does.
PendingOutputWatched ==
  port = "connected" /\ mode # "rawlp" =>
    /\ "tcpRead" \in enabled <=> "devWrite" \notin enabled
    /\ "devRead" \in enabled <=> "tcpWrite" \notin enabled
    /\ tcp_to_dev # <<>> => "devWrite" \in enabled
    /\ dev_to_tcp # <<>> /\ (mode = "telnet" \/ ndev > 0) => "tcpWrite" \in enabled
    /\ td.out # <<>> /\ mode = "telnet" /\ spurious = 0 => "tcpWrite" \in enabled

Waiting ==
  \/ mode = "telnet" /\ (td.out # <<>> \/ dev_to_tcp # <<>>)
  \/ mode # "telnet" /\ dev_to_tcp # <<>> /\ ndev > 0

\* While the client keeps reading, what waits for it is sent sometime, or the
\* session ends.
OutputDrains == Waiting ~> (~Waiting \/ spurious > 0 \/ port = "crashed")

=============================================================================
