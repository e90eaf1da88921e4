--------------------------- MODULE ConversionProps ---------------------------
(***************************************************************************)
(* What the conversions promise: of a runtime to the bytes of a checkpoint *)
(* and of values to the host's.  None of it depends on the state; it is    *)
(* looked at where a run begins.                                           *)
(***************************************************************************)
EXTENDS DurableProps, SnapshotProps, HostValues

\* What is written can be read, is read as what it was, and reading stops where
\* writing did: writer and reader agree on every tag and on the order and the
\* width of every field, in two long lists kept apart by hand (src/snapshot.rs).
CodecRoundTrip == AtStart => ReadsWhatIsWritten

\* A file cut short anywhere is refused, never read as something shorter.
TornRefused == AtStart => RefusesWhatIsCut

\* A value crosses to the host exactly if there is no code in it and no object in
\* it contains itself: sharing is no reason to refuse, a cycle always is
\* (convert_out in src/host.rs).
CrossesUnlessCyclicOrCode == AtStart => CrossesRightly

\* What the host sends back as it got it is the same value again, in new objects,
\* free slots used first, and the objects that were there are untouched
\* (from_host_value in src/host.rs).
HostRoundTrip == AtStart => ComesBack
=============================================================================
