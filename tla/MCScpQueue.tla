----------------------------- MODULE MCScpQueue -----------------------------
(* Small instances of ScpQueue for TLC. *)
EXTENDS ScpQueue

\* A trigger batch with a setting and a query, like gui_trg's
\* "waveform:wavesrc" and "dtwave?".
SettingThenQuery == <<FALSE, TRUE>>

NoBatch == <<>>
=============================================================================
