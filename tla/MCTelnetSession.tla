--------------------------- MODULE MCTelnetSession ---------------------------
(* A small instance of TelnetSession. *)
EXTENDS TelnetSession

Data == <<65>>
Escaped == <<IAC, IAC>>
Nop == <<IAC, 241>>
Offer(type, option) == <<IAC, type, option>>
Sub(body) == <<IAC, SB>> \o body \o <<IAC, SE>>

\* A mask of 255, a suboption that is too long, and one whose option is an IAC
\* and that has a stray IAC
Mask == Sub(<<COM_PORT, 11, IAC, IAC>>)
Long == Sub(<<24, 11, 7, 7, 7, IAC, IAC>>)
Stray == Sub(<<IAC, 11, IAC, 65, 7>>)

MCStreams == {
  Nop \o Escaped \o Data,
  Offer(DO, ECHO) \o Offer(DO, ECHO),
  Offer(WILL, COM_PORT),
  Mask,
  Long,
  Stray \o Data }
\* The second one fills the buffer when it is doubled.
MCDevStreams == {<<66, 255>>, <<255, 255>>}
MCBanners == {<<72>>}
MCRawCommands == {<<IAC, DONT>>}
MCInitSeq == <<IAC, WILL, ECHO>>
=============================================================================
