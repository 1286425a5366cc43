----------------------------- MODULE MCFtpClient -----------------------------
(* FtpClient as it is, for TLC.                                               *)
EXTENDS FtpClient

\* The behaviours in which only DrainAfterAbort gives up on a reply: nobody
\* presses Esc while a reply is waited for, and data connections come.
OnlyAbortGivesUp ==
    Init /\ [][Next /\ (gaveUp' => gaveUp \/ At("abort2"))]_vars
=============================================================================
