---------------------------- MODULE MCConvertRun ----------------------------
(* Small instances of ConvertRun. *)
EXTENDS ConvertRun

\* One event per marker, a digitizer event and two Phidgets in one event.
MCEventBanks == {{"EOM"}, {"BONM"}, {"V730"}, {"PH01", "PA00"}}
\* Slow control banks share an event and come with a Phidget bank, too.
MCAllBanks == MCEventBanks \cup {{"CYC0", "MAG0"}, {"PH00", "ENVT"}}
MCMasks == {Channels}
=============================================================================
