------------------------------- MODULE MCJBuf -------------------------------
(* JBuf for TLC: short streams. *)
EXTENDS JBuf

\* A B-frame pyramid as VDEC hands it out, and a stream that restarts and has
\* a picture without a timestamp.
MCStreams == {<<1, 5, 3, 2, 4, 6>>, <<8, 10, 9, 0, 2, 1>>}
=============================================================================
