---------------------------- MODULE MCMailQueue -----------------------------
(***************************************************************************)
(* Two messages, one worker: the deadlines fall before, at and after the   *)
(* end of the first claim, and the clock may run through a whole pass.     *)
(***************************************************************************)
EXTENDS MailQueue

MCMessages == {1, 2}
MCLifetimes == {1, 2}
=============================================================================
