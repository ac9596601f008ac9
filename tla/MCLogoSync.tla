----------------------------- MODULE MCLogoSync -----------------------------
(* Model-checking instances of LogoSync. *)
EXTENDS LogoSync

\* Two teams and one worker: the feeder waits for it.
MCLeague == {"l1"}
MCTeam   == {"t1", "t2"}
MCSource == {"a", "b"}
=============================================================================
